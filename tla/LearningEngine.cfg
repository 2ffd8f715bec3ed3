\* Engines that share envelopes which are copied, moved and rebuilt.
SPECIFICATION Spec
SYMMETRY MCSymmetry
CONSTANTS
    MaxFinite = 4
    NaN = NaN
    Full = 2
    NoName = NoName
    A = A
    B = B
    p = p
    q = q
    Engines = {e1, e2}
    Cells = {c1, c2}
    Compartments <- MCCompartments
    Names <- OneName
    Envelopes <- MCEnvelopes
    Limits <- MCLimits
    Proposals = {0, 2}
    Scores = {2}
    Policy <- MCPolicy
    LastId = 4
    MaxAttempts = 2
    MaxDenied = 1
INVARIANTS
    NoInheritedGrant
    HistoriesAgree
    RecordsReplayTarget
PROPERTIES
    RollbackRestoresOwnPast
