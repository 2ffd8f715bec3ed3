\* A manager that sees every sample beside one that sees no rejected one.
SPECIFICATION TwinSpec
CONSTANTS
    MaxFinite = 500
    NaN = NaN
    Cfg <- MCCfg
    RegenMembrane <- MCMembrane
    Samples <- MCSamples
    Window = 4
INVARIANTS
    WorseSampleNeverMore
    CeilingAtOnce
    RejectionOnlyLowers
PROPERTIES
    RiseIsBounded
