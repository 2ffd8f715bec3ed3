\* The legacy middleware over a single battery and a multi-cell pack.
SPECIFICATION Spec
CONSTANTS
    MaxFinite = 3
    NaN = NaN
    SocFull = 2
    Saturation = 3
    RoomTemp = 1
    MaxHistory = 1
    Gain = 1
    GainUnit = 2
    Null = Null
    ImbalanceLimit = 0
    PackConfig <- MCPackConfig
    Library <- MCLibrary
    SimpleInits <- MCSimpleInits
    Configs <- MCConfigs
    Readings <- MCReadings
    Samples <- MCSamples
INVARIANTS
    PackIsOneSample
    AlarmsMatchReport
    WearIndependentOfPollRate
PROPERTIES
    WearNeverHeals
    OnlyRefusedInitMisleads
\* Undefined behaviour ends the run of the program.
CHECK_DEADLOCK FALSE
