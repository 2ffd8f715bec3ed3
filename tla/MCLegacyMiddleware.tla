------------------------- MODULE MCLegacyMiddleware -------------------------
(* A small middleware: packs of two cells and of none, a known and an      *)
(* unknown chemistry, refused configurations, and samples with equal and   *)
(* unequal cells, a missing cell, a NaN and an overflow.                   *)
EXTENDS LegacyMiddleware

MCPackConfig ==
    [tauMin |-> 1, capacity |-> 1, voltage |-> 2, maxTemp |-> 2,
     minTemp |-> -1, maxCurrent |-> 1, feen |-> TRUE]

MCLibrary == [c \in {"NMC"} |-> [minV |-> 1, maxV |-> 3, nominalV |-> 2, maxTemp |-> 3]]

MCSimpleInits ==
    {[capacity |-> 1, voltage |-> 2, maxTemp |-> 2],
     [capacity |-> 1, voltage |-> 2, maxTemp |-> -1]}

MCConfigs ==
    LET cfg(mode, chemistry, cells, features, diagnostics) ==
            [mode |-> mode, chemistry |-> chemistry, capacity |-> 1, cells |-> cells,
             kalman |-> features, ml |-> features, fleet |-> features,
             diagnostics |-> diagnostics]
    IN  {cfg("multi", "NMC", 2, TRUE, TRUE), cfg("multi", "NMC", 2, FALSE, FALSE),
         cfg("multi", "NMC", 0, TRUE, TRUE), cfg("multi", "NMC", -1, TRUE, TRUE),
         cfg("multi", "CUSTOM", 2, TRUE, TRUE),
         cfg("single", "NMC", 2, FALSE, TRUE), cfg("single", "CUSTOM", 2, FALSE, TRUE)}

MCReadings ==
    {[v |-> 1, i |-> x.i, t |-> x.t, soc |-> x.soc, dt |-> x.dt] :
        x \in {[i |-> 0, t |-> 1, soc |-> 2, dt |-> 1], [i |-> -2, t |-> 1, soc |-> 3, dt |-> 1],
               [i |-> 0, t |-> 3, soc |-> 2, dt |-> 1], [i |-> 1, t |-> -2, soc |-> 2, dt |-> 2],
               [i |-> NaN, t |-> 1, soc |-> 2, dt |-> 1]}}

MCSamples ==
    {[volts |-> x[1], temps |-> x[2], i |-> x[3], dt |-> x[4]] :
        x \in {<< <<1, 1>>, <<1, 1>>, -1, 2>>, << <<1, 2>>, <<2, 1>>, 0, 1>>,
               << <<1, NaN>>, <<1, 1>>, 0, 1>>, << <<2, 2>>, <<1, 1>>, 0, 1>>,
               << <<2>>, <<1>>, 0, 1>>, << <<>>, <<>>, 0, 1>>}}
=============================================================================
