-------------------------- MODULE EnergyContinuity --------------------------
(***************************************************************************)
(* The passive observers of include/ds_energy_continuity_observer.hpp over *)
(* a recovery coordinator and its BMS, and the ledger their observations   *)
(* are handed to.  An observer reads the published diagnostics, compares   *)
(* them with a checkpoint the caller captured before the cycle and throws  *)
(* unless exactly one cycle was accepted since; it changes nothing.  The   *)
(* caller may advance its checkpoint or observe the same cycle again, hand *)
(* an observation in late, twice, or after a newer session was opened.     *)
(***************************************************************************)
EXTENDS RecoveryCoordinator, ContinuityLedger

CONSTANTS
    Counterparties,  \* where the caller says the battery's energy goes
    Kinds,           \* the evidence kinds the caller supplies
    Frames,          \* what else the caller puts into a batch
    WatchedDrives,   \* bounds: the inputs of the behaviours with an observer
    WatchedReadings,
    MaxSession,      \* bound: continuity sessions of a behaviour
    MaxHeld,         \* bound: observations the caller keeps
    NoCheckpoint

\* What a caller may add to an observation: heat.
Heat == [id : Nat, source : PhysicalNodes, destination : {"ThermalSink"},
         energy : Double, kind : EvidenceKinds, accepted : BOOLEAN]

\* A heater that the battery feeds directly is left out of the counterparties,
\* and the caller draws its boundary round the battery and not round the sink.
ASSUME ContinuityAssumption ==
    /\ Counterparties \subseteq PhysicalNodes \ {"Battery", "ThermalSink"}
    /\ \A f \in Frames : /\ f.transfers \in Seq(Heat)
                         /\ "Battery" \in f.boundary /\ "ThermalSink" \notin f.boundary
    /\ Kinds \subseteq EvidenceKinds
    /\ WatchedDrives \subseteq Drives /\ WatchedReadings \subseteq Readings
    /\ MaxSession \in Nat \ {0} /\ MaxHeld \in Nat \ {0}

VARIABLES
    watched,      \* whether this behaviour has an observer at all
    checkpoint,   \* the caller's BMSCheckpoint
    stepped,      \* the cycle the caller's last EnergyRecoveryResult is of
    held,         \* the observations the caller keeps
    stale,        \* the BMS was reinitialised and no session opened since
    counted       \* history: the cycles committed in this session

observer == <<watched, checkpoint, stepped, held, stale, counted>>
allVars == <<vars, account, observer>>

\* What capture_bms_checkpoint reads of the diagnostics and the telemetry.
Published ==
    [updates |-> report.updates, elapsed |-> report.time,
     throughput |-> report.throughput, charging |-> ledger.in]

\* last_update_time_ms / 1000 of the diagnostics: the latest accepted cycle's.
LastInterval == IF accepted = <<>> THEN 0 ELSE accepted[Len(accepted)].dt

SignedEnergy == report.power * LastInterval
Charging(energy) == IF energy < 0 THEN -energy ELSE 0

Observable(before) ==
    /\ report.updates = before.updates + 1
    /\ LastInterval > 0 /\ report.time > before.elapsed
    /\ before.elapsed + LastInterval = report.time
    /\ before.charging + Charging(SignedEnergy) = ledger.in
    /\ before.throughput + Abs(SignedEnergy) = report.throughput

\* validate_evidence: an energy calculated from power is never a measurement.
EvidenceOfBattery(kind) == kind \in {"Calculated", "Simulated", "Estimated"}

Transfer(id, from, to, energy, kind, purpose) ==
    [id |-> id, source |-> from, destination |-> to, energy |-> energy,
     start |-> checkpoint.elapsed, end |-> report.time,
     kind |-> kind, accepted |-> TRUE, purpose |-> purpose]

BatteryTransfer(counterparty, kind) ==
    IF report.power < 0
    THEN Transfer(1, counterparty, "Battery", Abs(SignedEnergy), kind, "PhysicalTransfer")
    ELSE Transfer(1, "Battery", counterparty, Abs(SignedEnergy), kind, "PhysicalTransfer")

Observation(transfers) ==
    [session |-> account.session, event |-> report.updates,
     start |-> checkpoint.elapsed, end |-> report.time, transfers |-> transfers]

\* Slip: a result of equal power and duration passes for the current cycle's.
ResultLooksCurrent ==
    /\ stepped.dt = LastInterval
    /\ diag.v * diag.i = report.power

\* observe_recovery_cycle: the result must describe the BMS's current cycle.
ResultIsCurrent ==
    /\ stepped.updates = report.updates
    /\ stepped.time = report.time
    /\ stepped.throughput = report.throughput
    /\ stepped.dt = LastInterval
    /\ diag.v * diag.i = report.power
    /\ diag.electrical <= diag.mechanical

EvidenceOfMode(kind) ==
    IF cfg.measured THEN kind \in {"Calculated", "Simulated"}
    ELSE kind \in {"Estimated", "Simulated"} /\ diag.i <= 0

MechanicalAvailable ==
    Transfer(2, "KineticStore", "Motor", diag.mechanical * LastInterval,
             "Estimated", "AvailableEstimate")

ElectricalAvailable ==
    Transfer(3, "Motor", "PowerElectronics", diag.electrical * LastInterval,
             "Estimated", "AvailableEstimate")

-----------------------------------------------------------------------------
ObservedInit ==
    /\ Init
    /\ LedgerInit
    /\ watched \in BOOLEAN
    /\ checkpoint = NoCheckpoint
    /\ stepped = NoCheckpoint
    /\ held = {}
    /\ stale = FALSE
    /\ counted = {}

\* The components go on as if nobody watched.
DrivesNow == IF watched THEN WatchedDrives ELSE Drives
ReadingsNow == IF watched THEN WatchedReadings ELSE Readings

Step ==
    /\ \E d \in DrivesNow, r \in ReadingsNow : AcceptStep(d, r)
    /\ stepped' = IF watched
                  THEN [updates |-> report'.updates, time |-> report'.time,
                        throughput |-> report'.throughput,
                        dt |-> report'.time - report.time]
                  ELSE stepped
    /\ UNCHANGED <<account, watched, checkpoint, held, stale, counted>>

Elsewhere ==
    /\ \/ \E d \in DrivesNow, r \in ReadingsNow : RejectStep(d, r)
       \/ AbandonStep
       \/ ~watched /\ ResetSession
       \/ \E r \in ReadingsNow : OtherCycle(r)
    /\ UNCHANGED <<account, observer>>

\* A caller that reinitialises the BMS opens a newer session and captures anew.
Reinitialise ==
    /\ OtherSession
    /\ watched => config' = DefaultConfig /\ account.session < MaxSession   \* bounds
    /\ IF ledger'.updates = 0 /\ watched
       THEN stale' = TRUE /\ checkpoint' = NoCheckpoint
       ELSE UNCHANGED <<stale, checkpoint>>
    /\ UNCHANGED <<account, watched, stepped, held, counted>>

OpenSession ==
    /\ watched /\ initialized
    /\ account.session < MaxSession
    /\ ResetLedger(account.session + 1)
    /\ stale' = FALSE
    /\ counted' = {}
    /\ UNCHANGED <<vars, watched, checkpoint, stepped, held>>

Capture ==
    /\ watched /\ initialized /\ ~stale
    /\ checkpoint' = Published
    /\ UNCHANGED <<vars, account, watched, stepped, held, stale, counted>>

\* The caller keeps the observation, in the place of an older one when it has
\* too many, and advances the checkpoint now or later.
Keep(observation) ==
    /\ held' \in IF Cardinality(held) < MaxHeld
                 THEN {held \cup {observation}}
                 ELSE {(held \ {o}) \cup {observation} : o \in held}
    /\ checkpoint' \in {checkpoint, Published}
    /\ UNCHANGED <<vars, account, watched, stepped, stale, counted>>

ObserveCycle(counterparty, kind) ==
    /\ watched /\ checkpoint # NoCheckpoint
    /\ Observable(checkpoint)
    /\ EvidenceOfBattery(kind)
    /\ Keep(Observation(<<BatteryTransfer(counterparty, kind)>>))

ObserveRecovery(counterparty, kind) ==
    /\ watched /\ checkpoint # NoCheckpoint /\ stepped # NoCheckpoint
    /\ Observable(checkpoint)
    /\ EvidenceOfMode(kind)
    /\ ResultIsCurrent
    /\ Keep(Observation(<<BatteryTransfer(counterparty, kind),
                          MechanicalAvailable, ElectricalAvailable>>))

\* The caller completes an observation to a batch and hands it in.
Placed(t, o) ==
    [id |-> t.id, source |-> t.source, destination |-> t.destination,
     energy |-> t.energy, start |-> o.start, end |-> o.end,
     kind |-> t.kind, accepted |-> t.accepted, purpose |-> "PhysicalTransfer"]

Batch(o, frame) ==
    [session |-> o.session, event |-> o.event, start |-> o.start, end |-> o.end,
     boundary |-> frame.boundary,
     transfers |-> o.transfers \o
         [n \in DOMAIN frame.transfers |-> Placed(frame.transfers[n], o)],
     stores |-> frame.stores, storesComplete |-> frame.complete]

HandIn(o, frame) ==
    LET b == Batch(o, frame)
    IN  /\ Reconcile(b)
        /\ counted' = IF Acceptable(b)
                      THEN counted \cup {[event |-> o.event,
                                          crosses |-> ~({o.transfers[1].source,
                                                         o.transfers[1].destination}
                                                        \subseteq b.boundary)]}
                      ELSE counted
        /\ UNCHANGED <<vars, watched, checkpoint, stepped, held, stale>>

ObservedNext ==
    \/ Step \/ Elsewhere \/ Reinitialise
    \/ OpenSession \/ Capture
    \/ \E c \in Counterparties, k \in Kinds : ObserveCycle(c, k) \/ ObserveRecovery(c, k)
    \/ \E o \in held, f \in Frames : HandIn(o, f)

ObservedSpec == ObservedInit /\ [][ObservedNext]_allVars

-----------------------------------------------------------------------------
Crossing(energy(_)) ==
    MapThenSumSet(LAMBDA c : energy(accepted[c.event]), {c \in counted : c.crosses})

\* The ledger counts each accepted cycle at most once and nothing else: within
\* a session its events are as many as the cycles that were committed, and its
\* in- and outflow are the energies the BMS accepted in just these cycles,
\* whatever was observed twice, handed in late or refused.
EachCycleCountedOnce ==
    /\ account.events = Cardinality(counted)
    /\ ~stale =>
          /\ account.inbound = Crossing(LAMBDA r : Charging(r.v * r.i * r.dt))
          /\ account.outbound = Crossing(LAMBDA r : Charging(-(r.v * r.i * r.dt)))

\* What the ledger reports as available is never more than the coordinator
\* ever estimated: the estimates of one step are attributed to one cycle.
EstimatesWithinCoordinator ==
    account.available["Estimated"] <= diag.total.mechanical + diag.total.electrical
=============================================================================
