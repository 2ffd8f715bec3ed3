---------------------------- MODULE MCGovernance ----------------------------
(* Battery inputs on both sides of every threshold, power pairs that agree, *)
(* diverge and overflow, and evidence of other compartments, good and bad.  *)
EXTENDS Governance

MCPolicy == [accept |-> 170, soft |-> 140, hard |-> 100, recovery |-> 2]

MCPolicies ==
    {MCPolicy,
     [MCPolicy EXCEPT !.accept = 190, !.soft = 190, !.hard = 150],
     [MCPolicy EXCEPT !.hard = NaN]}

B(t, soc, soh, imbalance) ==
    [BaselineBms EXCEPT !.t = t, !.soc = soc, !.soh = soh,
                        !.cellMin = 400, !.cellMax = 400 + imbalance]

MCBmsInputs ==
    {B(25, 100, 100, 2), B(42, 80, 100, 2), B(49, 80, 100, 5), B(51, 80, 100, 5),
     B(49, 30, 90, 16), B(25, 30, 90, 16),
     B(66, 10, 80, 9), B(25, 25, 90, 5), B(25, 15, 90, 5),
     B(25, 5, 60, 5), B(90, 0, 0, 30),
     [B(25, 50, 100, 2) EXCEPT !.ok = FALSE],
     [B(25, 50, 100, 2) EXCEPT !.t = NaN],
     [B(25, 50, 100, 2) EXCEPT !.cellMax = 399]}

A(mechanical, electrical) ==
    [BaselineAnomaly EXCEPT !.mechanical = mechanical, !.electrical = electrical]

MCAnomalyInputs ==
    {A(20, 20), A(100, 84), A(60, 100), A(100, 20), A(40, -40),
     A(5000, 20), A(NaN, 20)}

MCIntervals == {0, NaN}

T(trust, alarm, level) ==
    [time |-> 0, health |-> 200, trust |-> trust, stress |-> 0,
     anomaly |-> alarm, level |-> level]

MCOthers ==
    {T(175, FALSE, 2), T(150, FALSE, 0), T(200, TRUE, 0),
     T(200, FALSE, 7)}
=============================================================================
