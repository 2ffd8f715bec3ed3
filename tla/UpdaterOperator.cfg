\* An operator restoring a snapshot while an update is under way.
SPECIFICATION Spec
CONSTANTS
    Managed <- TwoManaged
    Kept = {"config"}
    Gated = {"bin", "config"}
    u1 = u1
    u2 = u2
    Updaters = {u1}
    Operators = {o}
    o = o
    MaxSnapshots = 2
    MaxMishaps = 1
INVARIANTS
    ConfigurationIsOriginal
