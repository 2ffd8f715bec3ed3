\* Accepted and rejected cycles, sessions and failed reinitialisations.
SPECIFICATION Spec
CONSTANTS
    MaxFinite = 8
    NaN = NaN
    SocFull = 2
    Saturation = 4
    RoomTemp = 1
    MaxHistory = 2
    MaxInt = 3
    MsPerSecond = 2
    WarnDegradation = 2
    Configs <- MCConfigs
    DefaultConfig <- MCDefault
    Readings <- MCReadings
INVARIANTS
    TypeOK
    AcceptedTogether
    LedgerMatchesHistory
    FlagsDescribeLatestAttempt
PROPERTIES
    ImplementsAccount
