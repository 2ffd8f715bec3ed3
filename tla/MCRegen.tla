------------------------------ MODULE MCRegen ------------------------------
(* A driver braking hard or lightly, samples on both sides of every limit.  *)
EXTENDS RegenManager

MCCfg ==
    [peak |-> 20, maxPower |-> 80, slew |-> 8, minSpeed |-> 5, fullSpeed |-> 30,
     fullSoc |-> 10, softSoc |-> 8, hardSoc |-> 10,
     maxV |-> 45, softMargin |-> 4, hardMargin |-> 0,
     coldHard |-> -5, coldSoft |-> 5, hotSoft |-> 50, hotHard |-> 62,
     softImbalance |-> 5, hardImbalance |-> 12, hardConfidence |-> 4, fullConfidence |-> 9,
     absCut |-> 1, slipCut |-> 4, tau |-> 5, leastRpm |-> 2]

MCMembrane ==
    [minV |-> 32, sagV |-> 34, maxV |-> 46, sagDamping |-> 5,
     maxDischarge |-> 60, maxCharge |-> 10, spikeAlpha |-> 5,
     surgeRate |-> 3, surgeDamping |-> 8, softT |-> 45, hardT |-> 60, tau |-> 1,
     softImbalance |-> 4, hardImbalance |-> 12, driftGain |-> 7]

Good == [v |-> 40, i |-> 0, t |-> 25, soc |-> 5, brake |-> 10, speed |-> 40, rpm |-> 0,
         abs |-> FALSE, slip |-> FALSE, dt |-> 1, diag |-> NoDiag]

Healthy == [NoDiag EXCEPT !.present = TRUE, !.cells = 2]

Usual ==
    {Good, [Good EXCEPT !.brake = 2], [Good EXCEPT !.dt = 5], [Good EXCEPT !.rpm = 8],
     [Good EXCEPT !.abs = TRUE], [Good EXCEPT !.slip = TRUE],
     [Good EXCEPT !.abs = TRUE, !.slip = TRUE], [Good EXCEPT !.soc = 9],
     [Good EXCEPT !.t = 48],
     [Good EXCEPT !.diag = Healthy],
     [Good EXCEPT !.diag = [Healthy EXCEPT !.confidence = 6, !.imbalance = 8]]}

Faulty ==
    {[Good EXCEPT !.v = 47, !.abs = TRUE], [Good EXCEPT !.v = 33],
     [Good EXCEPT !.diag = [Healthy EXCEPT !.fault = TRUE]],
     [Good EXCEPT !.v = NaN], [Good EXCEPT !.dt = 20], [Good EXCEPT !.rpm = 1],
     [Good EXCEPT !.t = -490, !.abs = TRUE]}

MCSamples == Usual \cup Faulty
=============================================================================
