--------------------------- MODULE BmsMiddleware ---------------------------
(***************************************************************************)
(* DSBMSMiddleware of include/ds_bms_middleware_v2.hpp: configuration,     *)
(* the accepted-cycle transaction over model, filter, ledger and           *)
(* diagnostics, and the safety evidence that is published even for a       *)
(* rejected cycle.  One caller at a time, as the class requires.           *)
(***************************************************************************)
EXTENDS DsModel, FiniteSets

CONSTANTS
    MaxInt,          \* std::numeric_limits<int>::max()
    MsPerSecond,     \* 1000
    WarnDegradation, \* the degradation above which the model warns (0.3)
    Configs,         \* configurations a caller may pass
    DefaultConfig,   \* MiddlewareConfig()
    Readings         \* raw sensor readings a caller may pass

\* MiddlewareConfig::Mode and ChemistryType; a cast may give neither.
Modes == {"SIMPLE", "MULTI_CELL_PACK", "ADVANCED_ML"}
Chemistries == {"LFP", "NMC", "NCA", "LTO", "CUSTOM"}

LimitsType ==
    [minV : Double, maxV : Double, maxDischarge : Double, maxCharge : Double,
     minTemp : Double, maxTemp : Double, maxCellTemp : Double,
     minSoc : Double, maxSoc : Double]

ConfigType ==
    [mode : Modes \cup {"unknown"}, chemistry : Chemistries \cup {"unknown"},
     capacity : Double, voltage : Double, ds : DsConfigType,
     kalman : BOOLEAN, monitoring : BOOLEAN, cells : Int,
     limits : LimitsType, loggingInterval : Double]

ASSUME BmsAssumption ==
    /\ MaxInt \in Nat \ {0}
    /\ MsPerSecond \in Nat \ {0}
    /\ WarnDegradation \in Nat
    /\ Configs \subseteq ConfigType
    /\ DefaultConfig \in Configs
    /\ Readings \subseteq Reading

VARIABLES
    initialized,   \* initialized_
    config,        \* config_
    core,          \* *ds_core_
    filter,        \* *kalman_, or NoFilter
    enhanced,      \* enhanced_, the warning of the last accepted result
    report,        \* the numerical diagnostics of diag_
    flags,         \* the safety flags of diag_
    safety,        \* safety_: faults and advisories
    ledger,        \* energy, timing and counter members
    accepted,      \* history: raw readings accepted since the last init
    observed       \* history: the last reading whose evidence was published

evidence == <<flags, safety, observed>>
numeric  == <<core, filter, enhanced, report, ledger, accepted>>
vars == <<initialized, config, core, filter, enhanced, report, flags, safety,
          ledger, accepted, observed>>

NoFilter == [soc |-> -1, age |-> 0]
NoReading == [v |-> 0, i |-> 0, t |-> 0, soc |-> 0, dt |-> 0]

ZeroLedger == [in |-> 0, out |-> 0, time |-> 0, ms |-> 0, updates |-> 0]
FreshReport ==
    [soc |-> SocFull, soh |-> Saturation, power |-> 0, throughput |-> 0,
     time |-> 0, updates |-> 0, cells |-> 1, maxCellTemp |-> RoomTemp,
     degradationWarning |-> FALSE]
NoFlags == [fault |-> FALSE, soc |-> FALSE, lowTemp |-> FALSE,
            thermal |-> FALSE, voltage |-> FALSE]
NoEvidence == [faults |-> {}, advisories |-> {}]

(***************************************************************************)
(* Configuration.  Initialisation is all or nothing.                       *)
(***************************************************************************)
ValidLimits(l) ==
    /\ \A x \in {l.minV, l.maxV, l.maxDischarge, l.maxCharge, l.minTemp,
                 l.maxTemp, l.maxCellTemp, l.minSoc, l.maxSoc} : IsFinite(x)
    /\ 0 <= l.minV /\ l.minV <= l.maxV
    /\ l.maxDischarge >= 0 /\ l.maxCharge >= 0
    /\ l.minTemp <= l.maxTemp
    /\ 0 <= l.minSoc /\ l.minSoc <= l.maxSoc /\ l.maxSoc <= SocFull

HasPack(c) == c.mode \in {"MULTI_CELL_PACK", "ADVANCED_ML"}

ValidConfig(c) ==
    /\ ValidLimits(c.limits)
    /\ ValidDsConfig(c.ds)
    /\ c.capacity = c.ds.capacity /\ c.voltage = c.ds.voltage
    /\ c.mode \in Modes /\ c.chemistry \in Chemistries
    /\ IsFinite(c.loggingInterval) /\ c.loggingInterval > 0
    /\ HasPack(c) => c.cells > 0 /\ c.chemistry # "CUSTOM"

\* The configuration init(capacity, voltage) derives from the current one.
SimpleConfig(capacity, voltage) ==
    [config EXCEPT !.mode = "SIMPLE", !.kalman = FALSE,
                   !.capacity = capacity, !.voltage = voltage,
                   !.ds = [config.ds EXCEPT !.capacity = capacity,
                                            !.voltage = voltage]]

(***************************************************************************)
(* SafetyMonitor::check on a raw reading, NaN comparing false.             *)
(***************************************************************************)
When(condition, name) == IF condition THEN {name} ELSE {}

Faults(l, r, cellTemp) ==
    When(\E x \in {r.v, r.i, r.t, r.soc} : ~IsFinite(x), "nonfinite")
    \cup When(Above(r.i, l.maxDischarge), "discharge")
    \cup When(Below(r.i, -l.maxCharge), "charge")
    \cup When(Below(r.v, l.minV) \/ Above(r.v, l.maxV), "voltage")
    \cup When(Above(r.t, l.maxTemp), "hot")
    \cup When(cellTemp > l.maxCellTemp, "hot cell")
    \cup When(Below(r.soc, l.minSoc) /\ Above(r.i, 0), "empty")
    \cup When(Above(r.soc, l.maxSoc) /\ Below(r.i, 0), "full")
    \cup When(Below(r.t, l.minTemp) /\ r.i # 0, "cold")

Advisories(l, r) ==
    When(Below(r.soc, l.minSoc) /\ (Below(r.i, 0) \/ r.i = 0), "low charge")
    \cup When(Above(r.soc, l.maxSoc) /\ (Above(r.i, 0) \/ r.i = 0), "high charge")
    \cup When(Below(r.t, l.minTemp) /\ r.i = 0, "cold at rest")

\* observe_safety: thermal and voltage always follow the reading, the rest
\* only under monitoring.
ObservedFlags(c, r, cellTemp) ==
    [fault   |-> IF c.monitoring THEN Faults(c.limits, r, cellTemp) # {}
                                 ELSE flags.fault,
     soc     |-> IF c.monitoring
                 THEN Below(r.soc, c.limits.minSoc) \/ Above(r.soc, c.limits.maxSoc)
                 ELSE flags.soc,
     lowTemp |-> IF c.monitoring THEN Below(r.t, c.limits.minTemp)
                                 ELSE flags.lowTemp,
     thermal |-> Above(r.t, c.limits.maxTemp) \/ cellTemp > c.limits.maxCellTemp,
     voltage |-> Below(r.v, c.limits.minV) \/ Above(r.v, c.limits.maxV)]

ObservedSafety(c, r, cellTemp) ==
    IF c.monitoring
    THEN [faults     |-> Faults(c.limits, r, cellTemp),
          advisories |-> Advisories(c.limits, r)]
    ELSE safety

(***************************************************************************)
(* One cycle.  Everything fallible is computed from candidates first:      *)
(* candidate_accounting on the raw reading, the model on its normalised    *)
(* copy, the filter, then the diagnostics.                                 *)
(***************************************************************************)
Energy(r) == r.v * r.i * r.dt

\* Slip: credit the current the model saw after clamping.
LedgerFromModel(r) ==
    LET seen == Normalised(config.ds, r)
    IN  [in      |-> IF r.i > 0 THEN ledger.in ELSE ledger.in + Abs(Energy(seen)),
         out     |-> IF r.i > 0 THEN ledger.out + Energy(seen) ELSE ledger.out,
         time    |-> ledger.time + r.dt,
         ms      |-> ledger.ms + r.dt * MsPerSecond,
         updates |-> ledger.updates + 1]

CandidateLedger(r) ==
    [in      |-> IF r.i > 0 THEN ledger.in ELSE ledger.in + Abs(Energy(r)),
     out     |-> IF r.i > 0 THEN ledger.out + Energy(r) ELSE ledger.out,
     time    |-> ledger.time + r.dt,
     ms      |-> ledger.ms + r.dt * MsPerSecond,
     updates |-> ledger.updates + 1]

\* Slip: the counter is incremented without looking at its limit.
AccountingWithoutCounterLimit(r) ==
    LET next == CandidateLedger(r)
    IN  \A x \in {r.v * r.i, Energy(r), r.dt * MsPerSecond, next.in, next.out,
                  next.time, next.ms, next.in + next.out} : IsFinite(x)

AccountingSucceeds(r) ==
    LET next == CandidateLedger(r)
    IN  /\ ledger.updates # MaxInt
        /\ \A x \in {r.v * r.i, Energy(r), r.dt * MsPerSecond, next.in, next.out,
                     next.time, next.ms, next.in + next.out} : IsFinite(x)

CycleSucceeds(r) ==
    /\ ValidSensors(r)
    /\ AccountingSucceeds(r)
    /\ EnhanceSucceeds(config.ds, core, r)

\* KalmanDSFilter: predict takes the candidate's state of charge and grows
\* the covariance with dt; update measures the same clamped state of charge.
CandidateFilter(r) ==
    IF filter = NoFilter THEN NoFilter
    ELSE [soc |-> Clamp(r.soc, 0, SocFull), age |-> filter.age + r.dt]

\* update_diagnostics: numerical fields from the candidates, cell fields from
\* the pack.  No cycle feeds the pack, so it still has its initial cells at 0.
CandidateReport(r) ==
    LET s    == Enhanced(config.ds, core, r).state
        next == CandidateLedger(r)
    IN  [report EXCEPT
            !.soc = s.soc, !.soh = Saturation - s.degradation,
            !.power = r.v * r.i, !.throughput = next.in + next.out,
            !.time = next.time, !.updates = next.updates,
            !.cells = IF HasPack(config) THEN config.cells ELSE @,
            !.maxCellTemp = IF HasPack(config) THEN 0 ELSE @]

Init ==
    /\ initialized = FALSE
    /\ config = DefaultConfig
    /\ core = FreshCore /\ filter = NoFilter /\ enhanced = FALSE
    /\ report = FreshReport /\ flags = NoFlags /\ safety = NoEvidence
    /\ ledger = ZeroLedger
    /\ accepted = <<>> /\ observed = NoReading

\* Slip: reinitialisation forgets the discharge total.
StartSessionKeepingDischarge(c) ==
    /\ ValidConfig(c)
    /\ initialized' = TRUE
    /\ config' = c
    /\ core' = FreshCore
    /\ filter' = IF c.kalman THEN [soc |-> SocFull, age |-> 0] ELSE NoFilter
    /\ enhanced' = FALSE
    /\ report' = FreshReport /\ flags' = NoFlags /\ safety' = NoEvidence
    /\ ledger' = [ZeroLedger EXCEPT !.out = ledger.out]
    /\ accepted' = <<>> /\ observed' = NoReading

\* init_advanced(c): a fresh session replaces every member.
StartSession(c) ==
    /\ ValidConfig(c)
    /\ initialized' = TRUE
    /\ config' = c
    /\ core' = FreshCore
    /\ filter' = IF c.kalman THEN [soc |-> SocFull, age |-> 0] ELSE NoFilter
    /\ enhanced' = FALSE
    /\ report' = FreshReport /\ flags' = NoFlags /\ safety' = NoEvidence
    /\ ledger' = ZeroLedger
    /\ accepted' = <<>> /\ observed' = NoReading

\* A configuration that fails any check leaves the running session alone.
RejectSession(c) ==
    /\ ~ValidConfig(c)
    /\ UNCHANGED vars

InitAdvanced(c) == StartSession(c) \/ RejectSession(c)

InitSimple(capacity, voltage) == InitAdvanced(SimpleConfig(capacity, voltage))

AcceptCycle(r) ==
    LET next == CandidateReport(r)
    IN  /\ initialized
        /\ CycleSucceeds(r)
        /\ core' = Enhanced(config.ds, core, r)
        /\ filter' = CandidateFilter(r)
        /\ enhanced' = (core'.state.degradation > WarnDegradation)
        /\ report' = next
        /\ flags' = ObservedFlags(config, r, next.maxCellTemp)
        /\ safety' = ObservedSafety(config, r, next.maxCellTemp)
        /\ ledger' = CandidateLedger(r)
        /\ accepted' = Append(accepted, r)
        /\ observed' = r
        /\ UNCHANGED <<initialized, config>>

\* Slip: the model is advanced in place, so a later failure cannot undo it.
RejectCycleAfterModel(r) ==
    /\ initialized
    /\ core' = IF EnhanceSucceeds(config.ds, core, r)
               THEN Enhanced(config.ds, core, r) ELSE core
    /\ flags' = ObservedFlags(config, r, report.maxCellTemp)
    /\ safety' = ObservedSafety(config, r, report.maxCellTemp)
    /\ observed' = r
    /\ UNCHANGED <<initialized, config, filter, enhanced, report, ledger, accepted>>

\* Slip: a rejected cycle restores the safety evidence with everything else.
RejectCycleSilently(r) ==
    /\ initialized
    /\ observed' = r
    /\ UNCHANGED <<initialized, config, numeric, flags, safety>>

\* The catch block.  Besides the cycles the checks refuse, a failed
\* allocation may abandon any cycle, so the guard does not exclude one.
RejectCycle(r) ==
    /\ initialized
    /\ flags' = ObservedFlags(config, r, report.maxCellTemp)
    /\ safety' = ObservedSafety(config, r, report.maxCellTemp)
    /\ observed' = r
    /\ UNCHANGED <<initialized, config, numeric>>

\* enhance_cycle before any init, or an allocation that fails before the
\* evidence is staged: the call throws and nothing is published.
AbandonCycle == UNCHANGED vars

Next ==
    \/ \E c \in Configs : InitAdvanced(c)
    \/ \E c \in Configs : InitSimple(c.capacity, c.voltage)
    \/ \E r \in Readings : AcceptCycle(r) \/ RejectCycle(r)
    \/ AbandonCycle

Spec == Init /\ [][Next]_vars

-----------------------------------------------------------------------------
\* Every member is in its range: accumulated quantities are finite, the
\* counter stays within int, the model state is a valid DSState, and a running
\* session has a configuration every check accepted.
TypeOK ==
    /\ initialized \in BOOLEAN
    /\ config \in ConfigType
    /\ initialized => ValidConfig(config)
    /\ core.state \in
           [v : 0..MaxFinite, i : Finite, t : Finite, soc : 0..SocFull,
            entropy : 0..Saturation, degradation : 0..Saturation,
            throughput : 0..MaxFinite, time : 0..MaxFinite]
    /\ core.history \in Seq(Finite)
    /\ filter \in [soc : 0..SocFull, age : 0..MaxFinite] \cup {NoFilter}
    /\ enhanced \in BOOLEAN
    /\ ledger \in [in : 0..MaxFinite, out : 0..MaxFinite, time : 0..MaxFinite,
                   ms : 0..MaxFinite, updates : 0..MaxInt]
    /\ report \in
           [soc : 0..SocFull, soh : 0..Saturation, power : Finite,
            throughput : 0..MaxFinite, time : 0..MaxFinite, updates : 0..MaxInt,
            cells : Nat, maxCellTemp : {0, RoomTemp}, degradationWarning : BOOLEAN]
    /\ flags \in [fault : BOOLEAN, soc : BOOLEAN, lowTemp : BOOLEAN,
                  thermal : BOOLEAN, voltage : BOOLEAN]
    /\ accepted \in Seq(Readings)
    /\ observed \in Readings \cup {NoReading}

\* Model, filter, ledger and published diagnostics have accepted the same
\* cycles: whatever was thrown in between, their clocks, counters and energy
\* agree and none of them ran ahead of the others.
AcceptedTogether ==
    /\ core.state.time = ledger.time
    /\ filter # NoFilter => filter.age = ledger.time
    /\ report.time = ledger.time
    /\ report.updates = ledger.updates
    /\ report.throughput = ledger.in + ledger.out
    /\ report.soc = core.state.soc
    /\ report.soh = Saturation - core.state.degradation
    /\ ledger.ms = ledger.time * MsPerSecond

\* The ledger is the sum of the raw accepted readings of the session, with
\* each reading on the side of its current's sign: normalisation by the model,
\* rejected cycles and failed reinitialisations leave no trace in it.
Summed(s) ==
    LET sum[n \in 0..Len(s)] == IF n = 0 THEN 0 ELSE sum[n - 1] + s[n]
    IN  sum[Len(s)]

Charged(r)    == IF r.i < 0 THEN -Energy(r) ELSE 0
Discharged(r) == IF r.i > 0 THEN Energy(r) ELSE 0

LedgerMatchesHistory ==
    /\ ledger.updates = Len(accepted)
    /\ ledger.time = Summed([n \in DOMAIN accepted |-> accepted[n].dt])
    /\ ledger.in = Summed([n \in DOMAIN accepted |-> Charged(accepted[n])])
    /\ ledger.out = Summed([n \in DOMAIN accepted |-> Discharged(accepted[n])])

\* The safety flags describe the latest attempt and nothing older, although
\* the power next to them describes the latest accepted cycle: a fault is
\* neither missed because its cycle was rejected nor kept by a good reading.
FlagsDescribeLatestAttempt ==
    observed # NoReading =>
        /\ flags.thermal = (\/ Above(observed.t, config.limits.maxTemp)
                            \/ report.maxCellTemp > config.limits.maxCellTemp)
        /\ flags.voltage = (\/ Below(observed.v, config.limits.minV)
                            \/ Above(observed.v, config.limits.maxV))
        /\ flags.fault = (safety.faults # {})
        /\ config.monitoring =>
              /\ safety.faults =
                    Faults(config.limits, observed, report.maxCellTemp)
              /\ flags.soc = (\/ Below(observed.soc, config.limits.minSoc)
                              \/ Above(observed.soc, config.limits.maxSoc))
              /\ flags.lowTemp = Below(observed.t, config.limits.minTemp)

\* The middleware's ledger implements the abstract energy account: within a
\* session only accepted cycles post, one side at a time.
Account == INSTANCE EnergyAccount
    WITH charged <- ledger.in, discharged <- ledger.out, entries <- ledger.updates
ImplementsAccount == Account!Spec
=============================================================================
