# A verification of the DS EV battery enhancement software

This directory keeps TLA+ models of the battery, energy-recovery, drive, trust and
update software of this repository, the TLC configurations that check them on small
instances, and TLAPS proofs of what matters most for every instance.

* [Running the checks](#running-the-checks)
* [Inventory of the system](#inventory-of-the-system)
* [Abstractions all modules share](#abstractions-all-modules-share)
* [The modules and the code](#the-modules-and-the-code)
* [The runs](#the-runs)
* [Fairness](#fairness)
* [What is proved](#what-is-proved)
* [Where the code disagrees with what is said of it](#where-the-code-disagrees-with-what-is-said-of-it)
* [What is not modelled](#what-is-not-modelled)
* [Plan](#plan)

## Running the checks

    tlc -workers 2 -config BmsMiddleware.cfg MCBmsMiddleware
    for m in BmsMiddleware Recovery Legacy DriveTorque TrustLayer Gateway WnnBridge Updater
    do tlapm ${m}Proofs.tla; done

Every configuration names its module in `PROJECT.json` (`runs`); the same file maps each
definition to the source lines it models, lists the hazards of the code with the
properties that watch them, and for every property a mutant: an operator marked
`Slip:` in the modules, a plausible mistake in the code, under which the property fails.

## Inventory of the system

The C++ part is a header library plus a few sources. Objects are single-threaded unless
said otherwise; failure is reported by exceptions or denied results. A Python process
embedded by the torque manager and a set of operational scripts complete it.

| Component (source) | State it keeps | Operations | Works with | What is hard about it | What makes it correct |
|---|---|---|---|---|---|
| Battery core (`include/ds_battery_core.hpp`, FEEN adapter) | `DSState`, trust history, configuration | `init`, `enhance`; predictions; `reset_state`, which nothing calls | used by both BMS generations | accumulation near overflow, saturation, intervals below `tau_min`, throw after part of the work | wear never heals, does not depend on the poll rate |
| BMS middleware (`ds_bms_middleware_v2.hpp`) | configuration, model, filter, diagnostics, safety evidence, cycle ledger | `init`, `init_advanced`, `enhance_cycle`, views | core, multi-cell pack, coordinator, trust adapter | a cycle may fail after any of six candidates was computed; rejected cycles still publish safety evidence | all numerical members accept the same cycles; the ledger is the sum of the accepted readings; flags describe the latest attempt |
| Energy recovery coordinator (`ds_energy_recovery_coordinator_v1.hpp`) | smoothed current, diagnostics, session and lifetime energy | `step`, `reset_session_energy` | feeds a BMS others also drive | the BMS may reject what the coordinator staged | energy credited once and as in the BMS; session within lifetime |
| WNN telemetry bridge (`ds_wnn_telemetry_bridge.hpp`, `wnn_payload_modulator.hpp`) | lock-free ring, last payload | `push`, `pop`, `consume_payload`, engine step | one producer and one consumer thread | weak memory, full and empty ring | FIFO, no slot shared, delivery |
| Regenerative braking manager (`ds_regen_braking_manager_v1.hpp`) | membrane copy, last torque, event timer, stability factor | `compute_regen_limit` | membrane, BMS diagnostics | seven returns that commit different parts of the state | rise bounded, ceilings at once, rejected samples leave no trace, worse is never more |
| RAPS membrane (`raps_ev_stability_membrane.hpp`) | filters, last verdict | `evaluate`, `init` | owned by both managers | verdict and filter history are committed separately | denials keep the history |
| Torque manager and governor (`src/ds_torque_manager.cpp`, `src/ailee_horsepower_governor.cpp`) | membrane, last decision, embedded interpreter | `processTorqueCommand`, `getLastGovernanceDecision` | membrane, Python governor, trust adapter | two ceilings, a foreign decision, overflow of products | torque within both ceilings, audit matches output |
| Trust gate, BMS and anomaly compartments (`ailee_trust_layer/`) | compartments' last inputs; the gate is pure | `evaluate`, `reset_to_baseline`, `set_...`, gate decisions | learning engine, adapters | thresholds in three places, order of evidence | strictest demand decides, monotone |
| Learning engine (`learning_engine.hpp`) | snapshots, audit, grants; process-wide counters | propose, rollback, queries | gate; envelopes owned by the caller | envelopes copied, moved, destroyed and rebuilt; allocation failures; counters run out | grants never inherited, records replay the value in use |
| Updater (`scripts/update.py`, `backup_restore.py`, `rollback.sh`) | the installed directories, snapshots, a lock file | update, backup, restore, rollback | child processes, operators | kills and power loss between directory operations, an operator without the lock | a way back always exists, broken is reported |
| Continuity ledger and observer (`ds_energy_continuity*.hpp`) | session, event id, interval, totals | `reset`, `reconcile`, `observe_...` | BMS and coordinator | late, repeated and overlapping observations | each interval counted once, rejection changes nothing |
| Hardware adapter (`src/ds_bms_hardware_adapter.hpp`) | signal cache, cell cache, contactor flags | `poll_can`, readers, `enable_...` | CAN transport, control loop, polling thread | staleness, non-atomic contactor commands | a stale signal is refused, readings keep the order of the frames, the last frame sent matches the flags |
| REST server (`ds_rest_api.hpp`) | published state, sockets, thread | `start`, `stop`, `update_...`, requests | control loop | life cycle races, two critical sections | a response describes one publication, `stop` ends |
| Advanced features (`ds_advanced_features.hpp`) | cells, Kalman filter, models, fleet data | `update` and queries | the BMS uses pack and filter | commits in four parts | the parts describe the same update |
| Legacy BMS v1 (`ds_bms_middleware.hpp`) | configuration, a single battery or an advanced system, last report | `init`, `init_advanced`, the two cycles, queries | core, advanced features; still behind the bindings and the REST example | the configuration is overwritten before the work that may fail, so flags and objects may be of different configurations | with at least one cell, only after a refused initialisation may a call meet the wrong objects |
| Direct torque manager (`torque_enhancement.hpp`) | last limit, overboost timer, motor and inverter temperature, membrane, counters | `init`, modes, `compute_torque_limit`, `reset_diagnostics` | membrane; reads the battery core | returns that commit different parts of the state, a recovery that starts from the last emitted limit | a better battery never gets less, recovery ramps |
| C interface, Python bindings, Python fallback and governor | handles; the fallback's own state | create, enhance, evaluate | core, torque manager | errors across languages | same verdicts as the C++ governor |
| Diagnostics and migration scripts | none of their own | file checks, conversion | updater's gates | — | — |
| Telemetry records, stack headers, examples, benchmarks, build | none | — | — | — | — |

`PROJECT.json` lists the hazards of this code line by line. Three of them carry a note
instead of a property, because the repository states no rule a property could hold the
code to: the trust compartments keep their inputs for ever, the second BMS generation never
updates its multi-cell pack in a cycle, and the direct torque manager accepts a cold limit
below zero.

## Abstractions all modules share

* **Numbers.** A `double` is an integer (`Doubles.tla`): finite ones have magnitude at
  most `MaxFinite`, a result beyond is an overflow, `NaN` is no integer. All
  `std::isfinite` tests, clamps and comparisons of the code are kept, with the
  behaviour of NaN in comparisons. Physical coefficients are scaled to one or to a few
  integer steps: the properties are about who wins, what is bounded and what is
  accounted, never about a coefficient. Rounding is left out.
* **Exceptions.** A throwing call is an action of its own that changes what the code had
  changed by then, often nothing (`RejectCycle` publishes safety evidence,
  `AbandonCycle` nothing). An allocation failure may happen wherever the code allocates.
* **Atomicity.** A call of a single-threaded or mutex-protected object is one step. In
  `WnnBridge` each atomic load or store is a step, in `Updater` each removal, creation and
  completion of a directory, in `HardwareAdapter`, `RestServer` and `Gateway` each
  critical section, atomic access and system call.
* **History variables** (`accepted`, `observed` in the BMS, `latest` in the coordinator,
  `counted` of the observer, `published` in the gateway, `disturbed` in the adapter,
  `settled` in the legacy middleware, `emitted` in the direct torque manager) are marked as such where they are declared; no action reads them to decide anything.

## The modules and the code

    DsModel ── MultiCellPack ── LegacyMiddleware
       └────── BmsMiddleware ── RecoveryCoordinator ──┐
                     └─ implements EnergyAccount      EnergyContinuity
                                 ContinuityLedger ────┘
    StabilityMembrane ── RegenManager ── RegenTwin
       ├──────────────── TorqueManager ────────┐
       └──────────────── DirectTorqueManager ── DriveTorque
    TrustGate ── Governance          TrustGate ── LearningEngine
    HardwareAdapter ──┐
    RestServer ────── Gateway
    WnnBridge implements BoundedFifo            Updater

`DsModel` holds the degradation model as operators, which `MultiCellPack` applies to every
cell of a pack and `BmsMiddleware` composes with configuration, filter, safety monitor and
ledger. `RecoveryCoordinator` drives a BMS and shares it with other callers;
`EnergyContinuity` lets the passive observers watch both and hands what they report to a
`ContinuityLedger`. `StabilityMembrane` (operators) is owned by three managers; `RegenTwin`
runs two regenerative managers side by side. `Gateway` joins adapter and server by the
control loop. The `MC...` modules give the constants values; the `...Proofs` modules hold
the theorems, each beside the components it extends.

* **BmsMiddleware.** `core`, `filter`, `enhanced`, `report`, `flags`, `safety`, `ledger` are the
  members of `DSBMSMiddleware`; `InitAdvanced`, `InitSimple` are the two initialisers
  with their success and failure, `AcceptCycle` and `RejectCycle` the two ends of
  `enhance_cycle`. `CycleSucceeds` is the conjunction of every check the transaction
  makes before it commits, and the candidates are operators of the state before. The text of
  fault messages is a set of fault names. In multi-cell mode the code never updates its
  pack in a cycle, and neither does the model.
* **RecoveryCoordinator.** `AcceptStep`, `RejectStep`, `AbandonStep` are the ends of `step`,
  which call the BMS's actions with the current the coordinator computed. The first-order
  lag is any value between the old current and the target, which is what a smoothing
  factor in [0, 1] can give. `OtherCycle` and `OtherSession` are other users of the BMS.
* **ContinuityLedger, EnergyContinuity.** A batch is a record of transfers and storage
  observations, committed whole or refused whole by `Reconcile`. An observer compares the published
  diagnostics with a `checkpoint` and throws unless exactly one cycle lies between them.
  `held` are observations the caller keeps and may hand in late, twice, or to a
  newer session. The verdict of a commit (balanced or not, within which tolerance) and the
  codes of a refusal change nothing and are left out.
* **MultiCellPack, LegacyMiddleware.** The pack, the Kalman filter, the learned predictor and the
  fleet are operators; the middleware has an action for every call and for memory running out between
  the parts of an update. Where a flag leads the code to an object that was never made
  (`Null`), the `outcome` is `"undefined"`.
* **HardwareAdapter, RestServer, Gateway.** The poller takes a frame, stamps it and stores it in
  three steps, the oldest frame first; a commander reads the other flag, sends both states in one frame and stores its own
  flag. The server thread's loop is `accept`, read, lock, copy, answer; `stop` is its sequence of atomic
  and system calls. `Gateway` is the control loop of `examples/rest_api_server.cpp`:
  read every signal, publish the states and then the energy figures.
  `Budgets` bounds how often the environment acts.
* **WnnBridge.** `head` and `tail` are the atomics, `headSeen` and `tailSeen` the newest value a
  thread has loaded from the other side. An acquire load may return any value from
  there to the current one. The wave-network integration is numerics and left out.
* **Governance** evaluates the two compartments and the gate, which `TrustGate` defines,
  on inputs on both sides of every threshold; **LearningEngine** has one action per outcome of
  a proposal or rollback, including an allocation failing at each place, and the caller's
  copying, moving, rebuilding, renaming and re-limiting of envelopes.
* **RegenManager.** One action per return of `compute_regen_limit`. The last three ends share the
  verdict of the membrane copy. Torque factors are tenths. The recovery makes
  the share dt / (tau + dt) of the way back to one where the code has 1 - exp(-dt / tau). The accumulated session clock is left out: it is
  only tested for overflow.
* **TorqueManager.** `Initialize` of the adapter chooses whether the embedded governor
  came up; `PythonAnswers` is what it may then return, checked as the code checks it. The
  C++ fallback is modelled with its penalties and ladders.
* **DirectTorqueManager.** `ComputeTorqueLimit` is `compute_torque_limit` with its denials, trips and the normal
  end. Ratios are percents, temperatures steps of five degrees, `MaxUpdates` stands for the largest
  counter, at which the code denies. `DriveTorque` lets a vehicle integrate either
  manager; the two never meet in one vehicle.
* **Updater.** `tree` is the content of each managed directory: old, new, torn or absent.
  `phase` and `plan` are the progress of `_run_update_locked`, `job` the work on directories
  in progress, in the updater itself (`deploy_tree`) or in the helper process (`create_backup`,
  `restore_backup`). The gates (archive checks, ownership, schemas, builds, tests) pass or
  fail. A killed updater releases its lock while its helper runs on. Writes reach the
  disk in order: loss of data that was not flushed is not modelled.

## The runs

Bounds are chosen so that each rejection, overflow and boundary occurs, and small
enough that a run ends within minutes.

| Run | Shows | Bounds and why they are enough |
|---|---|---|
| `bms` | Everything numerical accepts the same cycles (`AcceptedTogether`), the ledger is the sum of the accepted readings (`LedgerMatchesHistory`) and implements an account (`ImplementsAccount`), flags follow the latest attempt (`FlagsDescribeLatestAttempt`). | six configurations (one per kind of rejection, monitoring on and off, filtered pack), ten readings; three cycles reach the counter's limit (`MaxInt` = 3) and the energy's (8). |
| `pack` | The parts of a pack describe one sample (`PackIsOneSample`), alarms agree with the report (`AlarmsMatchReport`), wear never heals and does not depend on how a reading is split (`WearNeverHeals`, `WearIndependentOfPollRate`), and, packs of zero cells apart, only after a refused initialisation does a call meet missing or foreign objects (`OnlyRefusedInitMisleads`). | packs of two cells and of none, known and unknown chemistry, samples with equal, unequal, missing, overflowing and non-finite cells; three accepted calls reach the finite range and the saturation (both 3). |
| `recovery` | Session within total and electrical within mechanical energy (`AccountsConsistent`), diagnostics and smoothing of the last accepted step (`FollowsLastAcceptance`), energy booked once on both sides (`CreditedOnce`), and, with an observer, each cycle committed at most once and with the coordinator's figures (`EachCycleCountedOnce`, `EstimatesWithinCoordinator`). | measured and estimated current, other callers and reinitialisations between all steps; two cycles per session, overflow at 3; an observer in half the behaviours, which keeps two observations over two sessions. |
| `wnn` | `NoSlotShared`, `ImplementsFifo`, `EventuallyDelivered` under stale indices. | four slots, so the indices wrap with a full and an empty ring; three payloads, so that order, loss and duplication are visible. |
| `governance` | The gate decides as its strictest evidence and no stricter, an unusable item being the strictest (`DecisionIsStrictestDemand`), a harsher battery never relaxes it (`HarsherNeverRelaxes`), compartments and gates draw the same lines (`ThresholdsAgree`). | inputs on both sides of every ladder, one invalid of each kind, a third piece of evidence of another compartment, good or bad; three policies, one with NaN. |
| `learning` | Grants are never inherited, histories agree with the audit, records replay the one target they name, rollbacks restore the target's own past. | two engines, two addresses, both counters exhausted at 4, two recorded attempts of which one is refused: an envelope can be granted, destroyed, rebuilt at the address of the other and rolled back. |
| `regen` | Rise bounded by the slew rate (`RiseIsBounded`), ceilings at once (`CeilingAtOnce`), worse samples never allowed more (`WorseSampleNeverMore`), and, beside a manager spared them, rejected samples only ever lower the torque (`RejectionOnlyLowers`). | 18 samples around each limit; the event timer is tracked for 4 ticks. The reachable set is finite without further bound. |
| `torque` | Both managers: torque within request and ceilings (`WithinCeilings`), what is reported is what was emitted (`AuditMatchesOutput`), less charge or health never grants more (`WorseNeverMore`), recovery from any denial ramps from the last emitted limit (`RecoveryRamps`). | commands on both sides of governor and membrane limits and at the overflow of their products, Python answers sound, unsound and absent; for the direct manager three configurations, one refused, nine inputs, two selectable modes and two computations between resets of the counters, since a third is denied. |
| `gateway` | When no command is under way, unless commands overlapped or a frame was lost and no undisturbed command followed, the contactors follow the flags (`ContactorsFollowFlags`); a response is one publication and no older than its request (`AnswersAreWhole`); over a transport that keeps the order of the frames, the control loop never reads an older value of a signal (`ReadingsNeverGoBack`); `stop()` returns (`StopReturns`). | two commanders and one signal; four scenarios: four commands; three frames, two ticks, three cycles; two frames, two cycles, two requests; three requests over two starts. The threads of different scenarios share nothing else. |
| `update` | `WayBack`, `BrokenIsReported`, `SuccessLasts`. | two updaters, one operator, three directories of which one is configuration, two snapshots, one mishap (kill, power loss or hand-run helper); any step may fail besides. Two snapshots allow a second update over the pieces of the first. |
| `regen_recovery`, `update_operator` | A statement of the repository the code does not keep, see below. | as the run beside it; `update_operator` has one updater, two directories. |

`regen` (`WorseSampleNeverMore`) and `torque` (`WorseNeverMore`) quantify over pairs of inputs in
every reachable state; a slip counts as worse only where no recovery is under way or it has
reached the slip cut, since below it a slip allows more (see below). Monotonicity is a property of the code's arithmetic that unit tests
sample only at a few points.

## Fairness

`WnnBridge` and `Gateway` state liveness; in the other modules objects act only when called.

`WnnBridge`: `WF_vars(Pop)`: the engine's step polls the modulator every time, so a consumer
thread that keeps stepping keeps taking the next step of `pop`. `SF_vars(PopAllowed)`: an
acquire load may return a stale index again and again, but the C++ standard has
stores become visible in a finite time, so infinitely many polls of a ring that is not
empty cannot all see it empty. The producer is under no fairness: it may stop anywhere,
also in the middle of a push.

`Gateway`: `WF_vars(Serve)`: the operating system schedules the server thread, and its `recv`
ends by itself, because the code sets a receive timeout of five seconds. `WF_vars(Stopping)`:
the caller of `stop` goes on through it. Nothing is assumed of clients, sensors, the
poller and the commanders. Weak fairness is enough: while `stop` runs nobody
else takes the mutex, so a step of the server thread that has become possible stays so.

## What is proved

Every invariant and action property that a passing run checks is also a theorem, for every
value of the constants that satisfies the assumptions below, and so are both refinements.
`PROJECT.json` (`theorems`) says which theorem states which property. No theorem takes a
hypothesis of its own but one, `WorseSampleCorrect`, explained at its place.

### The invariants and why they are needed

**`BmsMiddlewareProofs`**: `TypeCorrect`, `TogetherCorrect`, `EvidenceCorrect`, `HistoryCorrect`, and
`LedgerRefinesAccount`, the refinement of `EnergyAccount`. `TypeOK` is not inductive: that the
filter's age and the published time stay finite is checked nowhere in the code, they are
finite because they equal the ledger's time, which is checked. Hence
`IInv == TypeOK /\ AcceptedTogether`, with one lemma per action and under them the range lemmas of
the model (`UpdatedStateValid`) and of the ledger (`AccountingRange`). `EvidenceInv` adds to the flags that a
fault is flagged exactly while faults are recorded (`FlagFollowsFaults`), for a
cycle may reject after the monitor has seen the reading. `HistoryInv` relates the ledger to sums over the whole
history; a sum over a sequence extended by one is the old sum and one more term. The
refinement uses that an accepted reading has positive voltage and interval, so that a
posting never lowers a side.

**`RecoveryProofs`**: `AccountsCorrect` and `FollowsCorrect` need each other: that a session's energy is
within the lifetime's is kept only if the diagnostics are of the last accepted step and the
staged current was within the configuration (`IInv`). `CreditedOnceCorrect` follows step by step. `ObserversArePassive`
(`ObservedSpec => Spec`) says that the continuity observers change nothing of what they observe, so every theorem about
the coordinator also holds under observation; `ObservedCorrect` is that for the accounts. `CountedOnceCorrect` and
`EstimatesCorrect` rest on `WatchInv`. Its parts: what the caller holds is of the past of the sessions it names and
describes a cycle that happened (`ObservationsInv`), the committed cycles are as many as the ledger
says and none is later than its last event (`CountedInv`), the flows over the boundary are the sums over the
committed cycles (`FlowInv`), and the available estimate is capped cycle by cycle (`CapInv`): there is a
monotone history `cap` of the coordinator's totals under which every observation still held
fits. Without that history nothing forbids two held observations whose sum exceeds the total.

**`WnnBridgeProofs`**: `TypeCorrect` (no run repeats it), `SlotsNotShared`, and `RingImplementsFifo`, the
refinement of `BoundedFifo`. That head and tail differ while both threads work in the
buffer does not follow from their values alone: each thread checked an index that may be
stale. `IInv` adds the order of the indices round the ring (`Ordered`), what each
thread's check established and its later steps rely on (`RoomForPush`, `ItemForPop`), and that the
payload is in its slot before it is published (`Written`). The refinement has a lemma for the
publication (`PublishAccepts`: it appends), the copy (`ReadDelivers`: it takes the head) and the steps that change nothing visible.

**`GatewayProofs`**: `ContactorsCorrect` by `CommandInv`: an undisturbed command runs alone (`CleanIsAlone`), so the flag it read is still
the flag and the frame it sent still the last one (`CleanIsCurrent`), and as long as nothing is disturbed every
command is such (`UndisturbedIsClean`). `ReadingsCorrect` by `ReadInv`: along the way of a frame, from bus to poller to
cache to control loop, the numbers never increase (`NumbersInOrder`), because the poller finishes one frame before it
takes the next; on the bus they are in order by assumption. `AnswersCorrect` by `AnswerInv`: who holds the mutex is
where (`MutexInv`), the stamp of a publication is the length of the history (`SnapshotInv`), and what the server
thread has copied is a publication as young as its request (`ServerInv`, `StatsInv`).

**`TrustLayerProofs`**, learning engine: `GrantsCorrect`, `HistoriesCorrect`, `ReplayCorrect`, `RollbackCorrect`. The three
invariants speak of identities and handles, so they rest on where those come from: `IInv` adds that whatever carries an
identity or a handle carries one the counters have passed (`IdentitiesPassed`, `RecordsPassed`) and that a grant repeats its
record (`GrantsRepeatRecords`). The last one, an action property, is `IInv` at the step of a rollback.
Gate and compartments: `StrictestCorrect`, `HarsherCorrect`, `ThresholdsCorrect` by `GovernanceInv`. The gate folds evidence of any
length; a fold of the minimum is a lower bound that is attained (`LowestTrustIs`, `HighestLevelIs`), and the verdict is the
strictest rung some piece of evidence demands (`VerdictIsStrictest`); one unusable piece is enough for protective mode
(`VerdictOverAny`).

**`DriveTorqueProofs`**: for the governed manager `AuditCorrect` and `CeilingsCorrect`, for which the membrane must keep its
filters numbers, so that the clamps do what they promise; for the direct one `WorseCorrect` and `RampCorrect`, by
`DirectInv`: the limit the next recovery starts from is never above the last one emitted (`LimitIsEmitted`). For the
regenerative one `CeilingCorrect` and `RiseCorrect` by `RegenInv`, and `RejectionCorrect` by `TwinInv`: two managers, one of
which was spared the rejected samples, remember the same but for the torque. `WorseSampleCorrect` assumes
`Cfg.absCut <= Cfg.slipCut`: with ABS cutting less than slip, a sample with ABS is not the worse one. The defaults
(0.10 and 0.25) satisfy it; `valid_config` does not demand it. Under it `stability` never falls below the cut of ABS (`AbsCutsMost`),
so that an ABS event flagged during a recovery never raises the torque.

**`UpdaterProofs`**: `TypeCorrect` (no run repeats it), `WayBackCorrect`, `ReportedCorrect`, `SuccessCorrect`. `WayInv`: before the first snapshot the
installation is whole, afterwards some snapshot is (`Secured`), and whoever writes, or is about to, has a snapshot behind it
(`SnapshotFirst`). The other two hold, as the properties say, while nobody but updaters acts (`UpdatersAlone`);
`AloneInv` then says that the lock admits one updater whose work is that of its phase (`OneAtWork`) and that, until a
restoration failed, the installation is sound outside the writing phases, and inside them what is being replaced was
(`SoundUnlessReported`).

**`LegacyProofs`**: `PackCorrect`, `WearCorrect`, `AlarmsCorrect`, `PollRateCorrect`, `MisledCorrect`. `ObjectsOk`: whatever the
flags say, a battery or a system that exists is in range, its pack is of one sample, and its filter is initialised once a
cell has aged. `SettledOk`: while the last initialisation stands, the object its mode needs exists, under a chemistry
the library knows. Packs have any number of cells: statistics over them are proved by the least cell for which they
would fail.

### The assumptions

Each module names what it assumes of its constants, and TLC evaluates it in the runs.

* `DoublesAssumption`, `TrustAssumption`, `DsModelAssumption`, `MultiCellPackAssumption`: the
  literals of the code in scaled units are positive and in range, and `NaN` and `Null` are no other value.
* `BmsAssumption`, `LearningAssumption`, `LegacyMiddlewareAssumption`, `GovernanceAssumption`, `TorqueAssumption`,
  `DirectAssumption`: arguments have the types of the code's parameters. A number may be any integer, beyond the finite
  range too, or `NaN` where the code takes a `double` unchecked. Where the code has a default object, it is the one it has, and it
  is valid. `GovernanceAssumption` fixes the scale of a score (`Full` = 200) because the thresholds are literals, and `DirectAssumption`
  asks that the number of weak cells, an unsigned type, be a natural. The addresses of envelopes are finitely many.
* `RegenAssumption`, `ValidMembraneConfig`: what `valid_config` and the membrane's own check demand before a manager is
  constructed; a sample without a BMS report carries none.
* `RecoveryAssumption`: readings are closed under the currents a step estimates, because
  the coordinator replaces the current of a reading by its own.
* `ContinuityAssumption`: a caller adds only heat to a batch, and draws its boundary round the
  battery and not round the sink. `BudgetsAssumption`, `HardwareAdapterAssumption`: bounds of
  the environment are naturals, and a foreign frame is none of the four signals. That the transport is in order and has
  one poller is part of `TakeFrame`, see below.
* `BridgeAssumption`, `UpdaterAssumption`: a capacity is positive, "no payload" is no payload,
  and an operator is not an updater.

### How induction over data was done

Sums, folds and recursive functions over sequences of any length occur in the ledgers, the packs,
the gate and the managers. The induction principles of the library cannot be instantiated here, so the proofs go by a least element: the set of
the lengths at which a statement fails, if not empty, has a least one (`LeastElement`), which the definition of
the fold at that length contradicts. Functions defined by recursion are first shown to exist.

### Only model-checked

* `EventuallyDelivered` and `StopReturns`: liveness under fairness is out of the prover's reach, as is `ENABLED`.
* The two runs that expect a violation, whose properties do not hold.
* That the action of a model is ever possible: the runs fire every one of them.

## Where the code disagrees with what is said of it

Two disagreements have a run whose property states the claim and which TLC refutes.

1. **A safety fault ends the recovery after an ABS or slip event**
   (`RecoversGradually`, `ds_regen_braking_manager_v1.hpp:212`). The fault's return records its
   diagnostics with `remember()`, and they still carry the default stability factor 1.0. The next
   call recovers from 1.0 instead of from the cut factor, although the comments promise to
   blend from the last accepted factor.
2. **An update can deploy a configuration it did not verify** (`ConfigurationIsOriginal`,
   `update.py:526`). The configuration is copied into the new layout without comparison with the
   manifest taken before; a restoration run by hand at that moment, which takes no
   lock, may be half done when it is copied and complete when the manifests are compared.

Met while modelling, without a run of their own:

* When the membrane trips on a hard bound, `ds_torque_manager.cpp` returns degradation level 3 while the
  decision on record keeps the governor's level; the adapter recommends the latter.
* A refused `init_advanced` of the legacy middleware leaves the new configuration over the objects of the
  old one. The calls that follow may age the battery and then throw, or dereference a pointer that was
  never set; `OnlyRefusedInitMisleads` shows that nothing else leads there, packs of zero cells apart: those are
  accepted, and asking for their worst cell reads past the end.
* The report of the legacy middleware outlives an initialisation: alarms and figures of the earlier pack stand
  together until the next cycle. `AlarmsMatchReport` only says that they agree.
* After memory ran out in `AdvancedDSSystem::update` the learned prediction is that of an earlier sample than the
  cells; `PackIsOneSample` leaves it out.
* Two threads that switch the two contactors at once each send the flag the other is about to change, so that both
  commands succeed and one contactor keeps its old state; and a frame the transport refuses is counted while the
  flag is stored as if it had been sent (`ds_bms_hardware_adapter.hpp:269`, `:399`). `ContactorsFollowFlags` shows
  that nothing else separates flags and contactors, and that the next undisturbed command joins them.
* In multi-cell mode `ds_bms_middleware_v2.hpp` never updates its pack in a cycle (line 621), so the
  cell statistics it reports are those of a pack that never ran.
* `docs/REST_API.md:92` calls a negative `current_a` a discharge; the code that publishes it has
  positive currents discharge.
* A cold limit below zero passes `validate()` of the direct torque manager and turns the cold
  reduction into a factor above one (`torque_enhancement.hpp:584`).
* A slip flagged while the torque recovers from an ABS event raises what is allowed: the slip
  cut (0.25 by default) replaces the recovered factor, which may be as low as the ABS cut
  (0.10; `ds_regen_braking_manager_v1.hpp:511`). `WorseSampleNeverMore` leaves that pair out.
* The comment on `consume_payload` speaks of the latest state where a queue returns the oldest.
* `degradation_warning`, documented in `docs/REST_API.md` as early degradation detected, is never
  set by the v2 middleware.

## What is not modelled

* **Numerics**: rounding, the integration of the wave network, the coefficients of the
  models, the covariance of the Kalman filter.
* **Text**: formatting, logging, REST parsing and JSON, the files of the learning engine.
* **Of modelled components**: `reset_state` of the core, which nothing calls; the cells' signals in the
  hardware adapter, kept like the pack's, and its balancing mask, which silently drops cells from
  number 64 on; fleet queries and the loading of weights, which nothing calls; averages and axle split
  in the diagnostics of the direct torque manager, and some of the overflows at which it denies (they end in the
  denial that is modelled); stateless wrappers (`governHorsepower`, the
  governor and BMS adapters of the trust layer); data lost by a disk that was not synchronised.
* **Assumptions on callers**: callers add only heat to the batches an observer builds; the adapter's external clock is monotonic, as its comments demand;
  the CAN transport hands frames out in the order they arrived (`ICANTransport` leaves the order open) and
  exactly one thread calls `poll_can`, the main loop or a dedicated one, as the adapter's thread model
  (`ds_bms_hardware_adapter.hpp:153`) has it; `start` and `stop` of
  the server are called by one owner; an observer is given the coordinator's latest result (the code
  cannot tell a result of an earlier initialisation of the BMS with equal numbers).
* **Components left out** (`not_modelled` in `PROJECT.json`): the Python governor's own scoring and the
  fallback model (`TorqueManager` lets the governor answer anything); the C interface and Python
  bindings, which marshal; diagnostics and migration scripts, telemetry records and stack headers,
  which keep no state; of the examples only the control loops that drive a composition.

## Plan

1. *Done*: battery core, BMS middleware and bridge (both with proofs), coordinator, trust gate and
   learning engine, drive managers, updater.
2. *Done*: continuity ledger and observers over coordinator and BMS; adapter, REST server and
   control loop; multi-cell pack and legacy middleware; the direct torque manager.
3. *Done*: a theorem for every invariant and action property the passing runs check.
4. Proofs still worth having: that a regenerative manager which keeps the stability factor in the
   diagnostics of a safety fault recovers gradually (`RecoversGradually` for the repaired code); that the server and
   the adapter implement abstract registers.
5. The Python governor beside the C++ one: on which inputs their verdicts differ.
