\* Evaluation cycles of the trust layer under three gate policies.
SPECIFICATION GovernanceSpec
CONSTANTS
    MaxFinite = 1000
    NaN = NaN
    Full = 200
    Policies <- MCPolicies
    DefaultPolicy <- MCPolicy
    BmsInputs <- MCBmsInputs
    AnomalyInputs <- MCAnomalyInputs
    Intervals <- MCIntervals
    Others <- MCOthers
INVARIANTS
    DecisionIsStrictestDemand
    HarsherNeverRelaxes
    ThresholdsAgree
