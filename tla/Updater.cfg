\* Two updaters with failures, and one kill, power loss or restoration by hand.
SPECIFICATION Spec
SYMMETRY MCSymmetry
CONSTANTS
    Managed <- MCManaged
    Kept = {"config"}
    Gated = {"bin", "config"}
    u1 = u1
    u2 = u2
    Updaters = {u1, u2}
    Operators = {o}
    o = o
    MaxSnapshots = 2
    MaxMishaps = 1
INVARIANTS
    WayBack
    BrokenIsReported
    SuccessLasts
