-------------------------- MODULE MCTorqueManager --------------------------
(* Commands on both sides of the governor's and the membrane's limits, and   *)
(* answers of the Python governor, sound and not; inputs and configurations  *)
(* of the direct manager on both sides of its ramps and tapers.              *)
EXTENDS DriveTorque

MCMembrane ==
    [minV |-> 320, sagV |-> 340, maxV |-> 450, sagDamping |-> 5,
     maxDischarge |-> 60, maxCharge |-> 25, spikeAlpha |-> 5,
     surgeRate |-> 15, surgeDamping |-> 8, softT |-> 45, hardT |-> 60, tau |-> 1,
     softImbalance |-> 40, hardImbalance |-> 120, driftGain |-> 7]

MCBaseline == [torque |-> 0, rpm |-> 0, v |-> 400, i |-> 0, t |-> 25, soc |-> 100,
               soh |-> 100, ok |-> TRUE]

Cruise == [MCBaseline EXCEPT !.torque = 100, !.rpm = 16, !.i = 4, !.t = 40]

MCCommands ==
    {Cruise, [Cruise EXCEPT !.soc = 22], [Cruise EXCEPT !.soc = 15],
     [Cruise EXCEPT !.soc = 10, !.soh = 70], [Cruise EXCEPT !.rpm = 13],
     [Cruise EXCEPT !.rpm = 0],
     [Cruise EXCEPT !.t = 50], [Cruise EXCEPT !.t = 60],
     [Cruise EXCEPT !.v = 330], [Cruise EXCEPT !.v = 500],
     [Cruise EXCEPT !.ok = FALSE],
     [Cruise EXCEPT !.torque = 999999, !.rpm = 2],
     [Cruise EXCEPT !.torque = 900000, !.rpm = 1],
     [Cruise EXCEPT !.t = -999990]}

Answer == [level |-> 0, hp |-> 1600, torque |-> 100, current |-> 4, trust |-> 200,
           consistency |-> 200]

MCAnswers ==
    {Answer, [Answer EXCEPT !.level = 2, !.torque = 65, !.hp = 800, !.trust = 150],
     [Answer EXCEPT !.trust = 300], [Answer EXCEPT !.hp = 900000, !.torque = 900000],
     [Answer EXCEPT !.level = NaN]}

MCDefault ==
    [peak |-> 100, base |-> 50, top |-> 150, power |-> 5000, efficient |-> 60,
     discharge |-> 3000, charge |-> 2000, rise |-> 40, fall |-> 60, smooth |-> TRUE,
     soft |-> 45, hard |-> 60, cold |-> 0, motorSoft |-> 9, motorMax |-> 18,
     inverterSoft |-> 6, inverterMax |-> 12,
     socCritical |-> 5, socLow |-> 10, socRegen |-> 90, socFull |-> 95,
     healthW |-> 40, entropyW |-> 20, metricW |-> 15, eco |-> 60, normal |-> 85, sport |-> 100,
     least |-> 20, maxDerate |-> 70, cellAware |-> TRUE,
     overboost |-> FALSE, duration |-> 2, boost |-> 115,
     drive |-> "normal", regen |-> "medium", raps |-> TRUE,
     membrane |-> [MCMembrane EXCEPT !.spikeAlpha = 10]]

MCConfigs ==
    {MCDefault,
     [MCDefault EXCEPT !.overboost = TRUE, !.drive = "sport", !.regen = "adaptive",
                       !.healthW = 100, !.maxDerate = 20,
                       !.cold = -10, !.raps = FALSE],
     [MCDefault EXCEPT !.socLow = 5]}

Pull == [ok |-> TRUE, v |-> 400, i |-> 10, t |-> 25, soc |-> 60, entropy |-> 0, phi |-> 100,
         trace |-> 200, degradation |-> 20, health |-> 100, rpm |-> 30, dt |-> 1, diag |-> NoDiag]

MCInputs ==
    {Pull, [Pull EXCEPT !.rpm = 60, !.soc = 92], [Pull EXCEPT !.rpm = 150],
     [Pull EXCEPT !.soc = 7, !.health = 40, !.entropy = 80, !.phi = 150, !.trace = 300,
                  !.diag = [NoDiag EXCEPT !.present = TRUE, !.imbalance = 80, !.weak = 3]],
     [Pull EXCEPT !.t = -20],
     [Pull EXCEPT !.v = 500], [Pull EXCEPT !.ok = FALSE], [Pull EXCEPT !.trace = NaN],
     [Pull EXCEPT !.dt = 999999]}
=============================================================================
