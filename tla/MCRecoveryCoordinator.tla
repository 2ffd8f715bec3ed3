----------------------- MODULE MCRecoveryCoordinator -----------------------
(* A small RecoveryCoordinator: a coordinator that measures the current and *)
(* one that estimates it, a braking and a coasting drive, a simple BMS, and *)
(* a continuity ledger that observes them or does not.                      *)
EXTENDS EnergyContinuity

MCLimits ==
    [minV |-> 1, maxV |-> 2, maxDischarge |-> 1, maxCharge |-> 1,
     minTemp |-> 0, maxTemp |-> 2, maxCellTemp |-> 2, minSoc |-> 1, maxSoc |-> 2]

MCDs == [tauMin |-> 1, capacity |-> 1, voltage |-> 2, maxTemp |-> 2,
         minTemp |-> -1, maxCurrent |-> 1, feen |-> FALSE]

MCDefault ==
    [mode |-> "SIMPLE", chemistry |-> "NMC", capacity |-> 1, voltage |-> 2,
     ds |-> MCDs, kalman |-> FALSE, monitoring |-> FALSE, cells |-> 1,
     limits |-> MCLimits, loggingInterval |-> 1]

MCConfigs == {MCDefault, [MCDefault EXCEPT !.capacity = 2]}

MCReadings ==
    {[v |-> vi[1], i |-> vi[2], t |-> 1, soc |-> 1, dt |-> 1] :
        vi \in {<<1, 1>>, <<1, 0>>, <<1, -1>>, <<2, 0>>, <<2, -1>>}}

MCRecovery == [measured |-> TRUE, efficiency |-> 1, maxCurrent |-> 1, minVoltage |-> 1]

MCRecoveryConfigs ==
    {MCRecovery,
     [MCRecovery EXCEPT !.measured = FALSE, !.efficiency = 2],
     [MCRecovery EXCEPT !.minVoltage = 0]}

MCDrives ==
    {[torque |-> 1, fraction |-> 0, omega |-> 1],
     [torque |-> 1, fraction |-> 2, omega |-> 2],
     [torque |-> NaN, fraction |-> 1, omega |-> 1]}

MCWatchedDrives == {[torque |-> 1, fraction |-> 0, omega |-> 1]}
MCWatchedReadings == {r \in MCReadings : r.v = 1 /\ r.i # 0}

Store(node, initial, final) ==
    [node |-> node, initial |-> initial, final |-> final,
     kind |-> "Simulated", accepted |-> TRUE]

Extra(id, energy, accepts) ==
    [id |-> id, source |-> "Battery", destination |-> "ThermalSink",
     energy |-> energy, kind |-> "Simulated", accepted |-> accepts]

MCFrame ==
    [boundary |-> {"Battery"}, transfers |-> <<>>, stores |-> <<>>, complete |-> FALSE]

\* A battery whose store fell with explicit heat, a vehicle that holds the
\* counterparty, a repeated identity, a claim that the stores contradict.
MCFrames ==
    {[MCFrame EXCEPT !.transfers = <<Extra(4, 1, TRUE)>>, !.complete = TRUE,
                     !.stores = <<Store("Battery", 2, 1)>>],
     [MCFrame EXCEPT !.boundary = {"Battery", "PowerElectronics"}],
     [MCFrame EXCEPT !.transfers = <<Extra(1, 0, TRUE)>>],
     [MCFrame EXCEPT !.complete = TRUE]}
=============================================================================
