---------------------------- MODULE RegenManager ----------------------------
(***************************************************************************)
(* DSRegenBrakingManager of include/ds_regen_braking_manager_v1.hpp: how   *)
(* much regenerative torque a braking request may ask for.  A call ends in *)
(* one of four ways: rejected, blocked by a safety fault, tripped by the   *)
(* membrane, or accepted with a torque limit.                              *)
(*                                                                         *)
(* Factors count tenths, torques Nm, charge and voltage whole steps, time  *)
(* ticks of 50 ms.  The share of the way back to full torque recovered     *)
(* after an ABS or slip event is dt / (tau + dt) where the code has        *)
(* 1 - exp(-dt / tau): both grow from 0 to 1 with dt.  The accumulated     *)
(* session clock, which the code only tests for overflow, is left out.     *)
(***************************************************************************)
EXTENDS StabilityMembrane, Sequences

CONSTANTS
    Cfg,        \* RegenConfig
    RegenMembrane,   \* StabilityConfig of its membrane
    Samples,    \* arguments a caller may pass
    Window      \* ticks an event is tracked: the code's 2 s

\* RegenConfig: finite members, the signs valid_config demands.  fullSoc is a
\* charge of 1.0 and leastRpm the slowest motor whose power is representable.
RegenConfigs ==
    [peak : Nat, maxPower : Nat, slew : Nat, minSpeed : Nat, fullSpeed : Nat,
     fullSoc : Nat \ {0}, softSoc : Nat, hardSoc : Nat,
     maxV : Finite, softMargin : Nat, hardMargin : Nat,
     coldHard : Finite, coldSoft : Finite, hotSoft : Finite, hotHard : Finite,
     softImbalance : Nat, hardImbalance : Nat,
     hardConfidence : 0..One, fullConfidence : 0..One,
     absCut : 0..One, slipCut : 0..One, tau : Nat \ {0}, leastRpm : Nat \ {0}]

\* The arguments of compute_regen_limit: of the enhanced state and the report what
\* the manager reads.
Reports ==
    [present : BOOLEAN, imbalance : Double, fault : BOOLEAN, confidence : Double,
     cells : Int, weak : Int]

RegenSamples ==
    [v : Double, i : Double, t : Double, soc : Double, brake : Double,
     speed : Double, rpm : Double, abs : BOOLEAN, slip : BOOLEAN, dt : Double,
     diag : Reports]

\* valid_config, which the constructor demands, and the membrane's own check.
ASSUME RegenAssumption ==
    /\ Window \in Nat \ {0}
    /\ Cfg \in RegenConfigs
    /\ Cfg.minSpeed < Cfg.fullSpeed
    /\ Cfg.softSoc < Cfg.hardSoc /\ Cfg.hardSoc <= Cfg.fullSoc
    /\ Cfg.hardMargin < Cfg.softMargin /\ Cfg.softMargin < Cfg.maxV
    /\ Cfg.coldHard < Cfg.coldSoft /\ Cfg.coldSoft <= Cfg.hotSoft
    /\ Cfg.hotSoft < Cfg.hotHard
    /\ Cfg.softImbalance < Cfg.hardImbalance
    /\ Cfg.hardConfidence < Cfg.fullConfidence
    /\ ValidMembraneConfig(RegenMembrane)
    /\ Samples \subseteq RegenSamples
    /\ \A s \in Samples : s.diag.present \/ s.diag = NoDiag

VARIABLES
    regenMembrane, \* raps_membrane_
    torque,       \* last_output_torque_nm_, and last_cmd_torque_nm_
    sinceEvent,   \* last_abs_or_slip_time_s_, -1 when no event is tracked
    stability,    \* last_stability_factor_
    report        \* last_diag_: how the call ended, what limited it, for which call

regenVars == <<regenMembrane, torque, sinceEvent, stability, report>>

ValidInputs(s) ==
    /\ IsFinite(s.v) /\ s.v > 0 /\ IsFinite(s.i) /\ IsFinite(s.t)
    /\ IsFinite(s.soc) /\ s.soc \in 0..Cfg.fullSoc
    /\ s.brake \in 0..One
    /\ IsFinite(s.speed) /\ s.speed >= 0 /\ IsFinite(s.rpm) /\ s.rpm >= 0
    /\ IsFinite(s.dt) /\ s.dt > 0
    /\ s.diag.present =>
          /\ s.diag.confidence \in 0..One
          /\ IsFinite(s.diag.imbalance) /\ s.diag.imbalance >= 0
          /\ s.diag.cells >= 1 /\ s.diag.weak \in 0..s.diag.cells

\* A step the slew limit or the event timer cannot represent, or a motor speed
\* too small to convert torque to power, is refused as well.
Computable(s) ==
    /\ IsFinite(Cfg.slew * s.dt)
    /\ sinceEvent >= 0 => IsFinite(sinceEvent + s.dt)

PowerConvertible(s) == s.rpm = 0 \/ s.rpm >= Cfg.leastRpm

\* A ramp that is zero at `zero` and One at `full`.
Ramp(x, zero, full) == Clamp((One * (x - zero)) \div (full - zero), 0, One)

TempFactor(t) ==
    AtMost(Ramp(t, Cfg.coldHard, Cfg.coldSoft), Ramp(Cfg.hotHard - t, 0, Cfg.hotHard - Cfg.hotSoft))

CellFactor(d) ==
    IF ~d.present \/ d.cells <= 1 THEN One
    ELSE AtLeast(Ramp(Cfg.hardImbalance - d.imbalance, 0,
                      Cfg.hardImbalance - Cfg.softImbalance), 3)

DsFactor(d) == AtLeast(Ramp(d.confidence, Cfg.hardConfidence, Cfg.fullConfidence), 5)

\* The way back to One, rounded up so that it ends.
Recovered(f, dt) == One - ((One - f) * Cfg.tau) \div (Cfg.tau + dt)

\* Slip: slip is tested before ABS, so both together are cut less than ABS alone.
StabilityFactorSlipFirst(s) ==
    CASE s.slip -> Cfg.slipCut
      [] ~s.slip /\ s.abs -> Cfg.absCut
      [] ~s.abs /\ ~s.slip ->
            IF sinceEvent >= 0 THEN Recovered(stability, s.dt) ELSE One

StabilityFactor(s) ==
    CASE s.abs -> Cfg.absCut
      [] ~s.abs /\ s.slip -> Cfg.slipCut
      [] ~s.abs /\ ~s.slip ->
            IF sinceEvent >= 0 THEN Recovered(stability, s.dt) ELSE One

\* The eight factors in the order select_limiting_factor compares them.
Factors(s, overall) ==
    <<Ramp(s.speed, Cfg.minSpeed, Cfg.fullSpeed),
      Ramp(Cfg.hardSoc - s.soc, 0, Cfg.hardSoc - Cfg.softSoc),
      Ramp(Cfg.maxV - Cfg.hardMargin - s.v, 0, Cfg.softMargin - Cfg.hardMargin),
      TempFactor(s.t), CellFactor(s.diag), DsFactor(s.diag),
      StabilityFactor(s), overall>>

FactorNames == <<"SPEED", "SOC", "VOLTAGE", "TEMPERATURE", "CELL_IMBALANCE",
                 "DS_CONFIDENCE", "STABILITY_EVENT", "RAPS_MEMBRANE">>

\* The first of the smallest factors, NONE when nothing is reduced.
Limiting(fs) ==
    IF \A n \in DOMAIN fs : fs[n] = One THEN "NONE"
    ELSE FactorNames[CHOOSE n \in DOMAIN fs :
            /\ \A k \in DOMAIN fs : fs[n] <= fs[k]
            /\ \A k \in 1..(n - 1) : fs[n] < fs[k]]

\* The mechanical ceiling: peak torque, less where it would exceed the power cap.
BaseCap(s) ==
    IF Cfg.maxPower = 0 THEN 0
    ELSE IF s.rpm = 0 THEN Cfg.peak ELSE AtMost(Cfg.peak, Cfg.maxPower \div s.rpm)

Requested(s) == (s.brake * Cfg.peak) \div One

\* base_torque_cap times the product of the factors.
Derated(cap, fs) ==
    LET part[n \in 0..Len(fs)] ==
            IF n = 0 THEN cap ELSE (part[n - 1] * fs[n]) \div One
    IN  part[Len(fs)]

\* Slip: the slew limit is applied in both directions, so a tighter limit is
\* reached late.
LimitBothWays(s, fs) ==
    Clamp(AtMost(Requested(s), Derated(BaseCap(s), fs)),
          torque - Cfg.slew * s.dt, torque + Cfg.slew * s.dt)

\* Slip: the limit follows its target at once.
LimitUnslewed(s, fs) == AtMost(Requested(s), Derated(BaseCap(s), fs))

\* A rise is limited in rate, a tighter protection or pedal is not delayed.
Limit(s, fs) ==
    AtMost(AtMost(Requested(s), Derated(BaseCap(s), fs)), torque + Cfg.slew * s.dt)

-----------------------------------------------------------------------------
\* denied_result: only the output and the diagnostics change.
Reject(s, cause) ==
    /\ torque' = 0
    /\ report' = [end |-> "rejected", cause |-> cause, call |-> s]
    /\ UNCHANGED <<regenMembrane, sinceEvent, stability>>

\* remember, with the event timer at `timer` before it advances.
Remember(s, nm, factor, timer, end, cause) ==
    /\ torque' = nm
    /\ stability' = factor
    /\ sinceEvent' = IF timer >= 0 /\ timer + s.dt <= Window THEN timer + s.dt ELSE -1
    /\ report' = [end |-> end, cause |-> cause, call |-> s]

EventTimer(s) == IF s.abs \/ s.slip THEN 0 ELSE sinceEvent

Refused(s) == ~ValidInputs(s) /\ Reject(s, "INVALID_INPUT")

Unrepresentable(s) ==
    /\ ValidInputs(s)
    /\ ~Computable(s)
    /\ Reject(s, "NUMERICAL_FAILURE")

\* The report's fault blocks before anything else is looked at, an ABS event
\* included; its record carries the neutral stability factor.
SafetyFault(s) ==
    /\ ValidInputs(s) /\ Computable(s)
    /\ s.diag.present /\ s.diag.fault
    /\ Remember(s, 0, One, sinceEvent, "blocked", "SAFETY_FAULT")
    /\ UNCHANGED regenMembrane

Admitted(s) ==
    /\ ValidInputs(s) /\ Computable(s)
    /\ ~(s.diag.present /\ s.diag.fault)

SlowMotor(s) ==
    /\ Admitted(s) /\ ~PowerConvertible(s)
    /\ Reject(s, "NUMERICAL_FAILURE")

\* The membrane is asked on a copy, with the charging current the request would
\* cause.
RegenAssessed(s) ==
    EvaluateMembrane(RegenMembrane, regenMembrane, s.v, -(Requested(s) \div 2),
                     s.t, s.diag, s.dt)

\* Slip: a membrane that could not judge the sample keeps the denial it recorded.
MembraneRejectsCommitting(s, after) ==
    /\ after.trip \in {"INVALID_INPUT", "NUMERICAL_FAILURE"}
    /\ regenMembrane' = [after EXCEPT !.lastT = s.t]
    /\ torque' = 0
    /\ report' = [end |-> "rejected", cause |-> after.trip, call |-> s]
    /\ UNCHANGED <<sinceEvent, stability>>

\* The three ends of a call the membrane, `after` this sample, has judged.
RegenMembraneRejects(s, after) ==
    /\ after.trip \in {"INVALID_INPUT", "NUMERICAL_FAILURE"}
    /\ Reject(s, after.trip)

RegenMembraneTrips(s, after) ==
    /\ after.trip \notin {"NONE", "INVALID_INPUT", "NUMERICAL_FAILURE"}
    /\ regenMembrane' = after
    /\ Remember(s, 0, StabilityFactor(s), EventTimer(s), "tripped", after.trip)

Accept(s, after) ==
    LET fs == Factors(s, after.overall)
    IN  /\ after.trip = "NONE"
        /\ regenMembrane' = after
        /\ Remember(s, Limit(s, fs), StabilityFactor(s), EventTimer(s),
                    "accepted", Limiting(fs))

RegenJudged(s) ==
    /\ Admitted(s) /\ PowerConvertible(s)
    /\ LET after == RegenAssessed(s)
       IN  RegenMembraneRejects(s, after) \/ RegenMembraneTrips(s, after) \/ Accept(s, after)

\* compute_regen_limit.
Compute(s) ==
    Refused(s) \/ Unrepresentable(s) \/ SafetyFault(s) \/ SlowMotor(s) \/ RegenJudged(s)

RegenInit ==
    /\ regenMembrane = FreshMembrane
    /\ torque = 0 /\ sinceEvent = -1 /\ stability = One
    /\ report = [end |-> "none", cause |-> "NONE", call |-> "none"]

RegenNext == \E s \in Samples : Compute(s)

RegenSpec == RegenInit /\ [][RegenNext]_regenVars

-----------------------------------------------------------------------------
\* Regenerative torque never rises faster than the slew limit, whatever calls
\* were rejected, blocked or tripped in between.
RiseIsBounded ==
    [][torque' > torque => torque' <= torque + Cfg.slew * report'.call.dt]_regenVars

\* A tighter pedal, power or protection ceiling takes effect in the same call,
\* however high the last torque was.
CeilingAtOnce ==
    LET s == report.call
    IN  torque > 0 => /\ torque <= AtMost(Requested(s), BaseCap(s))
                      /\ s.abs => One * torque <= Cfg.peak * Cfg.absCut

\* A sample is worse when the battery is fuller, the confidence lower, the cells
\* further apart, or an ABS or slip event is added.  While less is recovered from an
\* earlier event than a slip would leave, the code lets a slip raise the torque; such
\* a slip makes no sample worse.
WorseSample(a, b) ==
    /\ a = [b EXCEPT !.soc = a.soc, !.abs = a.abs, !.slip = a.slip, !.diag = a.diag]
    /\ a.soc >= b.soc
    /\ b.abs => a.abs
    /\ b.slip => a.slip \/ a.abs
    /\ a.slip /\ ~a.abs /\ ~b.slip => sinceEvent < 0 \/ stability >= Cfg.slipCut
    /\ \/ a.diag = b.diag
       \/ /\ a.diag.present /\ b.diag.present
          /\ a.diag.confidence <= b.diag.confidence
          /\ a.diag.imbalance >= b.diag.imbalance
          /\ a.diag.fault = b.diag.fault /\ a.diag.cells = b.diag.cells

\* Taken on: allowed to compute a torque by every check and by the membrane.
Allowable(s) ==
    Admitted(s) /\ PowerConvertible(s) /\ RegenAssessed(s).trip = "NONE"

Allowed(s) == Limit(s, Factors(s, RegenAssessed(s).overall))

\* In the same state a worse sample is never allowed more torque.
WorseSampleNeverMore ==
    LET taken == {s \in Samples : Allowable(s)}
    IN  \A a, b \in taken : WorseSample(a, b) => Allowed(a) <= Allowed(b)

\* "Recovery smoothing: after event clears, gradually restore stability factor"
\* and "Blend from the last accepted factor; rejection diagnostics are separate":
\* while an event is tracked, no call without a new event raises the remembered
\* factor faster than the smoothing.
RecoversGradually ==
    [][LET s == report'.call
       IN  sinceEvent >= 0 /\ ~s.abs /\ ~s.slip
               => stability' <= Recovered(stability, s.dt)]_regenVars
=============================================================================
