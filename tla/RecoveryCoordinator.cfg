\* Steps, session resets and other users of the same battery, and the ledger
\* that observes them.
SPECIFICATION ObservedSpec
CONSTANTS
    MaxFinite = 3
    NaN = NaN
    SocFull = 2
    Saturation = 3
    RoomTemp = 1
    MaxHistory = 1
    MaxInt = 2
    MsPerSecond = 1
    WarnDegradation = 2
    Configs <- MCConfigs
    DefaultConfig <- MCDefault
    Readings <- MCReadings
    RecoveryConfigs <- MCRecoveryConfigs
    Drives <- MCDrives
    Whole = 2
    Counterparties = {"PowerElectronics"}
    Kinds = {"Simulated"}
    Frames <- MCFrames
    WatchedDrives <- MCWatchedDrives
    WatchedReadings <- MCWatchedReadings
    MaxSession = 2
    MaxHeld = 2
    NoCheckpoint = NoCheckpoint
INVARIANTS
    AccountsConsistent
    FollowsLastAcceptance
    EachCycleCountedOnce
    EstimatesWithinCoordinator
PROPERTIES
    CreditedOnce
