-------------------------- MODULE LegacyMiddleware --------------------------
(***************************************************************************)
(* DSBMSMiddleware of include/ds_bms_middleware.hpp: one object that runs  *)
(* either a single battery (DSEnhancement) or a multi-cell pack            *)
(* (AdvancedDSSystem), called by one thread.                               *)
(*                                                                         *)
(* Both init functions overwrite config_ before anything that may throw,   *)
(* and a throw leaves initialized_ as it was.  A later call then works on  *)
(* the objects of one configuration under the flags of another; a null     *)
(* pointer it reaches is undefined behaviour, here the outcome "undefined" *)
(* after which nothing more is said.  get_time_ms returns 0, so timing and *)
(* the update counter it divides by are left out, and so are the fields of *)
(* the report that only copy a number of the model.                        *)
(***************************************************************************)
EXTENDS MultiCellPack

CONSTANTS
    SimpleInits,      \* (capacity, voltage, maximum temperature) given to init
    Configs,          \* the configurations given to init_advanced
    Readings,         \* the readings given to enhance_cycle
    Samples,          \* the cell samples given to update_pack
    ImbalanceLimit    \* voltage difference above which an imbalance is reported

Chemistries == DOMAIN Library \cup {c.chemistry : c \in Configs}

MiddlewareConfig ==
    [mode : {"single", "multi"}, chemistry : Chemistries, capacity : Double, cells : Int,
     kalman : BOOLEAN, ml : BOOLEAN, fleet : BOOLEAN, diagnostics : BOOLEAN]

Batteries ==
    [ready : BOOLEAN, config : DsConfigType, core : [state : DsState, history : Seq(Int)]]

Systems ==
    [chemistry : Chemistries, kalman : BOOLEAN, ml : BOOLEAN, fleet : BOOLEAN,
     pack : Packs \cup {Null}, filter : [soc : Int, degradation : Int], entropy : Int,
     prediction : Int \cup {Null}, listed : Nat, grouped : Nat]

ASSUME LegacyMiddlewareAssumption ==
    /\ "NMC" \in DOMAIN Library
    /\ SimpleInits \subseteq [capacity : Double, voltage : Double, maxTemp : Double]
    /\ Configs \subseteq MiddlewareConfig
    /\ Readings \subseteq Reading
    /\ Samples \subseteq [volts : Seq(Double), temps : Seq(Double), i : Double, dt : Double]
    /\ Null \notin Batteries /\ Null \notin Systems
    /\ ImbalanceLimit \in Nat

VARIABLES
    initialized,   \* initialized_
    config,        \* config_
    single,        \* core_ds_: the DSEnhancement, or Null
    system,        \* advanced_system_, or Null
    report,        \* last_diagnostic_
    outcome,       \* how the last call ended
    settled        \* history: the last init or init_advanced succeeded

vars == <<initialized, config, single, system, report, outcome, settled>>

DefaultConfig ==
    [mode |-> "single", chemistry |-> "NMC", capacity |-> PackConfig.capacity,
     cells |-> 2, kalman |-> TRUE, ml |-> FALSE, fleet |-> FALSE, diagnostics |-> TRUE]

FreshReport ==
    [degraded |-> FALSE, hot |-> FALSE, weakIds |-> {}, weak |-> FALSE,
     imbalance |-> 0, unbalanced |-> FALSE]

Init ==
    /\ initialized = FALSE
    /\ config = DefaultConfig
    /\ single = Null
    /\ system = Null
    /\ report = FreshReport
    /\ outcome = "none"
    /\ settled = FALSE

Alive == outcome # "undefined"

\* predict_health: more than thirty per cent degraded.
DegradationWarning(s) == 10 * s.degradation > 3 * Saturation

-----------------------------------------------------------------------------
(* Initialisation.                                                         *)

\* init and the single mode of init_advanced build a new DSEnhancement and
\* only then hand it the configuration, so a refused one is left unready.
BuildSingle(ds) ==
    /\ single' = [ready |-> ValidDsConfig(ds), config |-> ds, core |-> FreshCore]
    /\ initialized' = (initialized \/ ValidDsConfig(ds))
    /\ settled' = ValidDsConfig(ds)
    /\ outcome' = IF ValidDsConfig(ds) THEN "done" ELSE "threw"
    /\ UNCHANGED <<system, report>>

\* init keeps the cell count and the feature flags of an earlier configuration.
InitSimple(p) ==
    /\ Alive
    /\ config' = [config EXCEPT !.mode = "single", !.chemistry = "NMC",
                                !.capacity = p.capacity]
    /\ BuildSingle([PackConfig EXCEPT !.capacity = p.capacity, !.voltage = p.voltage,
                                      !.maxTemp = p.maxTemp])

\* ChemistryLibrary::create_config.
ChemistryConfig(c) ==
    [PackConfig EXCEPT !.capacity = c.capacity,
                       !.voltage = Library[c.chemistry].nominalV * c.cells,
                       !.maxTemp = Library[c.chemistry].maxTemp]

InitAdvancedSingle(c) ==
    /\ Alive
    /\ c.mode = "single" /\ c.chemistry \in DOMAIN Library
    /\ config' = c
    /\ BuildSingle(ChemistryConfig(c))

\* profiles_.at throws: the configuration is new, the battery the old one.
InitAdvancedUnknown(c) ==
    /\ Alive
    /\ c.mode = "single" /\ c.chemistry \notin DOMAIN Library
    /\ config' = c
    /\ settled' = FALSE /\ outcome' = "threw"
    /\ UNCHANGED <<initialized, single, system, report>>

\* A new AdvancedDSSystem replaces the old one before it is initialised; an
\* unknown chemistry or an impossible cell count leaves it without a pack.
InitAdvancedMulti(c) ==
    LET sound == c.chemistry \in DOMAIN Library /\ c.cells >= 0
    IN  /\ Alive
        /\ c.mode = "multi"
        /\ config' = c
        /\ system' = NewSystem(c, IF sound THEN NewPack(c.cells) ELSE Null)
        /\ initialized' = (initialized \/ sound)
        /\ settled' = sound
        /\ outcome' = IF sound THEN "done" ELSE "threw"
        /\ UNCHANGED <<single, report>>

-----------------------------------------------------------------------------
(* enhance_cycle.                                                          *)

Ends(how) ==
    /\ outcome' = how
    /\ UNCHANGED <<initialized, config, settled>>

Refuse == Ends("threw") /\ UNCHANGED <<single, system, report>>
Collapse == Ends("undefined") /\ UNCHANGED <<single, system, report>>

MayEnhance == initialized /\ config.mode = "single"

SingleAccepts(r) ==
    single.ready /\ EnhanceSucceeds(single.config, single.core, r)

\* Slip: the alarm of an earlier pack survives the switch to one battery.
SingleReportKeepsAlarm(s, hot) ==
    [report EXCEPT !.degraded = DegradationWarning(s), !.hot = hot, !.weakIds = {},
                   !.imbalance = 0, !.unbalanced = FALSE]

\* update_diagnostics in single mode: every cell-level field is cleared.
SingleReport(s, hot) ==
    [report EXCEPT !.degraded = DegradationWarning(s), !.hot = hot, !.weakIds = {},
                   !.weak = FALSE, !.imbalance = 0, !.unbalanced = FALSE]

RejectEnhance(r) ==
    /\ Alive
    /\ ~MayEnhance \/ (single # Null /\ ~SingleAccepts(r))
    /\ Refuse

EnhanceWithoutBattery(r) ==
    /\ Alive /\ MayEnhance /\ single = Null
    /\ Collapse

\* The battery has aged when the diagnostics look the chemistry up: under a
\* refused configuration the look-up throws and the caller sees a failure.
EnhanceCycle(r) ==
    LET core == Enhanced(single.config, single.core, r)
        known == config.chemistry \in DOMAIN Library
        hot == IF known THEN core.state.t >= Library[config.chemistry].maxTemp
               ELSE report.hot
    IN  /\ Alive /\ MayEnhance /\ single # Null /\ SingleAccepts(r)
        /\ single' = [single EXCEPT !.core = core]
        /\ report' = IF config.diagnostics THEN SingleReport(core.state, hot) ELSE report
        /\ Ends(IF config.diagnostics /\ ~known THEN "threw" ELSE "done")
        /\ UNCHANGED system

-----------------------------------------------------------------------------
(* update_pack.                                                            *)

\* Slip: the mode is not tested before the pack is used.
MayUpdateAnyMode(r) ==
    initialized /\ Len(r.volts) = config.cells /\ Len(r.temps) = config.cells

MayUpdate(r) ==
    /\ initialized
    /\ config.mode = "multi"
    /\ Len(r.volts) = config.cells /\ Len(r.temps) = config.cells

PackMissing == IF system = Null THEN TRUE ELSE system.pack = Null

PackAccepts(r) == PackSucceeds(Library[system.chemistry], system.pack, r)

RejectUpdate(r) ==
    /\ Alive
    /\ ~MayUpdate(r) \/ (~PackMissing /\ ~PackAccepts(r))
    /\ Refuse

UpdateWithoutPack(r) ==
    /\ Alive /\ MayUpdate(r) /\ PackMissing
    /\ Collapse

\* The health fields are written before the list of weak cells is allocated.
PackHealthReport(s) ==
    [report EXCEPT !.degraded = DegradationWarning(WorstState(s.pack))]

\* update_diagnostics in multi-cell mode.
PackReport(s) ==
    [PackHealthReport(s) EXCEPT
        !.weakIds = WeakIds(s.pack), !.weak = WeakIds(s.pack) # {},
        !.imbalance = Imbalance(s.pack.stats),
        !.unbalanced = Imbalance(s.pack.stats) > ImbalanceLimit,
        !.hot = s.pack.stats.maxT >= Library[config.chemistry].maxTemp]

UpdatePack(r) ==
    /\ Alive /\ MayUpdate(r) /\ ~PackMissing /\ PackAccepts(r)
    /\ system' = CommittedAt(system, r, "end")
    /\ report' = IF config.diagnostics THEN PackReport(system') ELSE report
    /\ Ends("done")
    /\ UNCHANGED single

\* Memory runs out after the cells have aged: inside the advanced system, or
\* where the diagnostics copy the weak cells.
UpdateRunsOut(r) ==
    /\ Alive /\ MayUpdate(r) /\ ~PackMissing /\ PackAccepts(r)
    /\ \/ /\ \E point \in FailurePoints(system) : system' = CommittedAt(system, r, point)
          /\ UNCHANGED report
       \/ /\ config.diagnostics
          /\ system' = CommittedAt(system, r, "end")
          /\ WeakIds(system'.pack) # {}
          /\ report' = PackHealthReport(system')
    /\ Ends("no memory")
    /\ UNCHANGED single

-----------------------------------------------------------------------------
(* Queries and the reset of the diagnostics.                               *)

Answer == Ends("done") /\ UNCHANGED <<single, system, report>>

\* A query of the single battery.
AskSingle ==
    \/ single = Null /\ Collapse
    \/ single # Null /\ ~single.ready /\ Refuse
    \/ single # Null /\ single.ready /\ Answer

\* get_health_forecast.  The worst of no cells is read past the end.
HealthForecast ==
    /\ Alive
    /\ \/ ~initialized /\ Refuse
       \/ initialized /\ config.mode = "single" /\ AskSingle
       \/ /\ initialized /\ config.mode = "multi"
          /\ IF PackMissing THEN Collapse
             ELSE IF system.pack.cells = <<>> THEN Collapse ELSE Answer

\* get_weak_cells asks neither for initialisation nor for a pack.
WeakCells ==
    /\ Alive
    /\ IF config.mode = "multi" /\ PackMissing THEN Collapse ELSE Answer

\* get_optimal_charging looks the chemistry up before it touches the pack.
OptimalCharging ==
    /\ Alive
    /\ \/ ~initialized /\ Refuse
       \/ initialized /\ config.mode = "single" /\ AskSingle
       \/ /\ initialized /\ config.mode = "multi"
          /\ IF config.chemistry \notin DOMAIN Library THEN Refuse
             ELSE IF PackMissing THEN Collapse ELSE Answer

ResetDiagnostics ==
    /\ Alive
    /\ report' = FreshReport
    /\ Ends("done")
    /\ UNCHANGED <<single, system>>

Next ==
    \/ \E p \in SimpleInits : InitSimple(p)
    \/ \E c \in Configs :
          InitAdvancedSingle(c) \/ InitAdvancedUnknown(c) \/ InitAdvancedMulti(c)
    \/ \E r \in Readings : EnhanceCycle(r) \/ RejectEnhance(r) \/ EnhanceWithoutBattery(r)
    \/ \E r \in Samples :
          UpdatePack(r) \/ RejectUpdate(r) \/ UpdateWithoutPack(r) \/ UpdateRunsOut(r)
    \/ HealthForecast \/ WeakCells \/ OptimalCharging \/ ResetDiagnostics

Spec == Init /\ [][Next]_vars

-----------------------------------------------------------------------------
\* Everything a pack says is of one sample: its cells share one clock and one
\* current, each statistic and each weak-cell flag is that of the cells as
\* they are, and the filter holds their averages.  This is what the candidate
\* copy and the swap of update_all_cells are for, and it survives refused
\* samples and memory that runs out between the parts.
PackIsOneSample ==
    LET pack == system.pack
        cells == pack.cells
    IN  (IF PackMissing THEN FALSE ELSE cells # <<>> /\ cells[1].state.time > 0) =>
            /\ \A k \in DOMAIN cells :
                  /\ cells[k].state.time = cells[1].state.time
                  /\ cells[k].state.i = pack.stats.current
                  /\ cells[k].weak = Weak(cells, k)
            /\ pack.stats = Statistics(cells, pack.stats.current)
            /\ system.kalman =>
                  system.filter = [soc |-> Average(Field(cells, "soc")),
                                   degradation |-> Average(Field(cells, "degradation"))]
            /\ system.grouped <= system.listed

\* The alarms the accessors return are those the report's own figures call
\* for, across mode switches, refused calls and a report left half written.
AlarmsMatchReport ==
    /\ report.weak = (report.weakIds # {})
    /\ report.unbalanced = (report.imbalance > ImbalanceLimit)

\* Wear of the battery `b`, cell or core, only grows.
NotHealed(old, new) ==
    new # FreshState =>
        /\ new.entropy     >= old.entropy
        /\ new.degradation >= old.degradation
        /\ new.throughput  >= old.throughput
        /\ RemainingCapacity(new, 1) <= RemainingCapacity(old, 1)

\* A battery never heals by being observed: until it is built anew no cycle,
\* whatever its sensors say and wherever it fails, lowers the entropy, the
\* degradation or the throughput of the single battery or of any cell, raises
\* its forecast capacity or relaxes its charging limit.
WearNeverHeals ==
    [][ /\ (single # Null /\ single' # Null) =>
              /\ NotHealed(single.core.state, single'.core.state)
              /\ single'.core.state # FreshState =>
                    MaxSafeCurrent(single'.config, single'.core.state)
                        <= MaxSafeCurrent(single.config, single.core.state)
        /\ (/\ system # Null /\ system' # Null
            /\ system.pack # Null /\ system'.pack # Null) =>
              \A k \in DOMAIN system.pack.cells \cap DOMAIN system'.pack.cells :
                  NotHealed(system.pack.cells[k].state, system'.pack.cells[k].state)
      ]_vars

\* Wear does not depend on how often the battery is polled: a reading held
\* for dt + d ages the model exactly as the same reading accepted for dt and
\* then for d, whenever both ways are accepted.
WearIndependentOfPollRate ==
    \A r \in Readings, d \in {x.dt : x \in Readings} :
        LET second == [r EXCEPT !.dt = d]
            whole  == [r EXCEPT !.dt = r.dt + d]
            once   == Enhanced(single.config, single.core, r)
        IN  (/\ single # Null
             /\ IsFinite(r.dt) /\ IsFinite(d)
             /\ SingleAccepts(r)
             /\ SingleAccepts(whole)
             /\ EnhanceSucceeds(single.config, once, second)) =>
            Enhanced(single.config, once, second).state =
                Enhanced(single.config, single.core, whole).state

\* The wear a retried call would add to a second time.
Wear == <<IF single = Null THEN Null ELSE single.core,
          IF system = Null THEN Null ELSE system.pack>>

\* As long as the last initialisation succeeded with at least one cell, no
\* call reaches a null object, and a cycle that reports a failure has aged
\* nothing and may be retried, unless memory ran out.  A refused
\* initialisation takes both guarantees away although initialized_ is kept.
OnlyRefusedInitMisleads ==
    [][ (settled' /\ (config'.mode = "multi" => config'.cells > 0)) =>
            /\ outcome' # "undefined"
            /\ outcome' = "threw" => Wear' = Wear ]_vars
=============================================================================
