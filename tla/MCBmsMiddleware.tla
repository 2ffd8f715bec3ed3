-------------------------- MODULE MCBmsMiddleware --------------------------
(* A small BmsMiddleware: one simple battery with monitoring, one without  *)
(* monitoring, a filtered pack, and configurations each check rejects.     *)
EXTENDS BmsMiddleware

MCLimits ==
    [minV |-> 1, maxV |-> 2, maxDischarge |-> 1, maxCharge |-> 1,
     minTemp |-> 0, maxTemp |-> 2, maxCellTemp |-> 2, minSoc |-> 1, maxSoc |-> 2]

MCDs == [tauMin |-> 1, capacity |-> 1, voltage |-> 2, maxTemp |-> 2,
         minTemp |-> -1, maxCurrent |-> 1, feen |-> FALSE]

MCDefault ==
    [mode |-> "SIMPLE", chemistry |-> "NMC", capacity |-> 1, voltage |-> 2,
     ds |-> MCDs, kalman |-> FALSE, monitoring |-> TRUE, cells |-> 2,
     limits |-> MCLimits, loggingInterval |-> 1]

MCConfigs ==
    {MCDefault,
     [MCDefault EXCEPT !.monitoring = FALSE],
     [MCDefault EXCEPT !.mode = "MULTI_CELL_PACK", !.kalman = TRUE],
     [MCDefault EXCEPT !.capacity = 2],
     [MCDefault EXCEPT !.chemistry = "unknown"],
     [MCDefault EXCEPT !.mode = "ADVANCED_ML", !.chemistry = "CUSTOM"]}

R(v, i, t, soc, dt) == [v |-> v, i |-> i, t |-> t, soc |-> soc, dt |-> dt]

MCReadings ==
    {R(1, 1, 1, 2, 1), R(2, -1, 1, 1, 1), R(1, 0, 2, 0, 2), R(1, 2, 1, 0, 1),
     R(2, -2, 3, 3, 1), R(3, 1, -1, 2, 1), R(1, NaN, 1, 1, 1),
     R(1, -1, 1, 1, 0), R(0, 0, -1, 1, 1), R(1, 99, 1, 1, 1)}
=============================================================================
