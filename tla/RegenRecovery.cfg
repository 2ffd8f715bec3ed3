\* A safety fault while an event is tracked.
SPECIFICATION RegenSpec
CONSTANTS
    MaxFinite = 500
    NaN = NaN
    Cfg <- MCCfg
    RegenMembrane <- MCMembrane
    Samples <- MCSamples
    Window = 4
PROPERTIES
    RecoversGradually
