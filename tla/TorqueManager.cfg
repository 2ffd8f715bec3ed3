\* Both managers: the governed one, with both governors, and the direct one.
SPECIFICATION DriveSpec
CONSTANTS
    MaxFinite = 1000000
    NaN = NaN
    Commands <- MCCommands
    Baseline <- MCBaseline
    Membrane <- MCMembrane
    PythonAnswers <- MCAnswers
    Inputs <- MCInputs
    Configs <- MCConfigs
    DefaultConfig <- MCDefault
    Modes = {"eco", "medium"}
    MaxUpdates = 2
INVARIANTS
    WorseNeverMore
PROPERTIES
    WithinCeilings
    AuditMatchesOutput
    RecoveryRamps
