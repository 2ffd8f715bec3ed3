----------------------------- MODULE Governance -----------------------------
(***************************************************************************)
(* The trust layer's evaluation cycle: BMSCompartment and                  *)
(* AnomalyCompartment of include/ailee_trust_layer keep the inputs they    *)
(* were last given, a caller evaluates both and hands their telemetry,     *)
(* with that of other compartments, to the TrustGate.                      *)
(*                                                                         *)
(* Scaling.  Scores count half percents (Full = 200), temperatures degrees,*)
(* charge and health percents, cell voltages steps of 10 mV, so that every *)
(* penalty and threshold of the code is an integer.  The two powers the    *)
(* anomaly check compares are its inputs, in horsepower.                   *)
(***************************************************************************)
EXTENDS TrustGate, FiniteSetsExt

CONSTANTS
    Policies,        \* TrustGateConfig values
    DefaultPolicy,   \* TrustGateConfig()
    BmsInputs,       \* BMSInputData a caller may pass
    AnomalyInputs,   \* AnomalyInputData a caller may pass
    Intervals,       \* the dt a caller may pass
    Others           \* telemetry of other compartments

TrustGateConfigs == [accept : Double, soft : Double, hard : Double, recovery : Nat]

CompartmentTelemetry ==
    [time : Double, health : Double, trust : Double, stress : Double,
     anomaly : BOOLEAN, level : Int]

BmsInputData ==
    [v : Double, i : Double, t : Double, soc : Double, soh : Double,
     cellMin : Double, cellMax : Double, ok : BOOLEAN]

AnomalyInputData ==
    [mechanical : Double, electrical : Double, v : Double, ok : BOOLEAN]

ASSUME GovernanceAssumption ==
    /\ Full = 200
    /\ Policies \subseteq TrustGateConfigs
    /\ BmsInputs \subseteq BmsInputData /\ AnomalyInputs \subseteq AnomalyInputData
    /\ Intervals \subseteq Double /\ Others \subseteq CompartmentTelemetry
    /\ DefaultPolicy \in Policies
    /\ DefaultPolicy.accept = 170
    /\ DefaultPolicy.soft = 140 /\ DefaultPolicy.hard = 100

VARIABLES
    policy,      \* TrustGate::config_
    bms,         \* BMSCompartment::inputs_
    anomaly,     \* AnomalyCompartment::inputs_
    evidence,    \* the telemetry the last decision was made from
    decision     \* the last GovernanceDecision

governanceVars == <<policy, bms, anomaly, evidence, decision>>

\* BMSInputData() and AnomalyInputData(): a healthy battery at rest.
BaselineBms ==
    [v |-> 400, i |-> 0, t |-> 25, soc |-> 100, soh |-> 100,
     cellMin |-> 415, cellMax |-> 417, ok |-> TRUE]
BaselineAnomaly == [mechanical |-> 0, electrical |-> 0, v |-> 400, ok |-> TRUE]

Over(x, limit) == AtLeast(x - limit, 0)

(***************************************************************************)
(* BMSCompartment::evaluate.                                               *)
(***************************************************************************)
ValidBmsInput(in) ==
    /\ in.ok
    /\ \A x \in {in.v, in.i, in.t, in.soc, in.soh, in.cellMin, in.cellMax} :
          IsFinite(x)
    /\ in.v > 0 /\ in.soc \in 0..100 /\ in.soh \in 0..100
    /\ 0 <= in.cellMin /\ in.cellMin <= in.cellMax

Imbalance(in) == in.cellMax - in.cellMin

\* Slip: only the first penalty that applies is taken.
BmsTrustFirstPenalty(in) ==
    Clamp(Full - (IF in.t > 45 THEN 5 * Over(in.t, 45)
                  ELSE IF in.soc < 20 THEN 4 * Over(20, in.soc)
                  ELSE IF in.soh < 85 THEN 3 * Over(85, in.soh)
                  ELSE 10 * Over(Imbalance(in), 5)), 0, Full)

\* 2.5 %, 2 %, 1.5 % and 5 % per unit beyond the comfortable range.
BmsTrust(in) ==
    Clamp(Full - 5 * Over(in.t, 45) - 4 * Over(20, in.soc)
               - 3 * Over(85, in.soh) - 10 * Over(Imbalance(in), 5), 0, Full)

BmsLevel(in) ==
    CASE in.t >= 60 \/ in.soc <= 5 \/ BmsTrust(in) < 100 -> Protective
      [] OTHER ->
           CASE in.t >= 50 \/ in.soc <= 15 \/ BmsTrust(in) < 140 -> HardCeiling
             [] OTHER ->
                  CASE in.t >= 42 \/ in.soc <= 25 \/ BmsTrust(in) < 170
                         -> SoftCeiling
                    [] OTHER -> Normal

NoEvidence(dt) ==
    [time |-> dt, health |-> 0, trust |-> 0, stress |-> 0, anomaly |-> TRUE,
     level |-> Protective]

BmsTelemetry(in, dt) ==
    IF ~ValidBmsInput(in) THEN NoEvidence(dt)
    ELSE [time |-> dt, health |-> 2 * in.soh, trust |-> BmsTrust(in),
          stress |-> Over(in.t, 35) + Imbalance(in),
          anomaly |-> /\ BmsLevel(in) = Protective
                      /\ in.t >= 65 \/ Imbalance(in) > 15,
          level |-> BmsLevel(in)]

(***************************************************************************)
(* AnomalyCompartment::evaluate.  The timestamp stays zero.                *)
(***************************************************************************)
ValidAnomalyInput(in) ==
    in.ok /\ in.mechanical # NaN /\ in.electrical # NaN
          /\ in.mechanical >= 0 /\ IsFinite(in.v) /\ in.v > 0

\* The agreement of the two powers above 10 HP.  A power that overflowed to
\* infinity makes the ratio NaN, which std::max turns into zero.
Consistency(in) ==
    LET largest    == AtLeast(Abs(in.mechanical), Abs(in.electrical))
        difference == Abs(in.mechanical - in.electrical)
    IN  CASE largest <= 10 -> Full
          [] largest > MaxFinite -> 0
          [] OTHER -> AtLeast((Full * (largest - difference)) \div largest, 0)

AnomalyLevel(score) ==
    CASE score < 100 -> Protective
      [] score \in 100..139 -> HardCeiling
      [] score \in 140..169 -> SoftCeiling
      [] OTHER -> Normal

AnomalyTelemetry(in) ==
    IF ~ValidAnomalyInput(in) THEN NoEvidence(0)
    ELSE [time |-> 0, health |-> Consistency(in), trust |-> Consistency(in),
          stress |-> 0, anomaly |-> Consistency(in) < 100,
          level |-> AnomalyLevel(Consistency(in))]

-----------------------------------------------------------------------------
GovernanceInit ==
    /\ policy \in Policies
    /\ bms = BaselineBms /\ anomaly = BaselineAnomaly
    /\ evidence = <<>>
    /\ decision = EvaluateTelemetry(policy, <<>>)

UpdateBms(in) ==
    /\ bms' = in
    /\ UNCHANGED <<policy, anomaly, evidence, decision>>

UpdateAnomaly(in) ==
    /\ anomaly' = in
    /\ UNCHANGED <<policy, bms, evidence, decision>>

\* initialize and reset_to_baseline.
ResetBms ==
    /\ bms' = BaselineBms
    /\ UNCHANGED <<policy, anomaly, evidence, decision>>

ResetAnomaly ==
    /\ anomaly' = BaselineAnomaly
    /\ UNCHANGED <<policy, bms, evidence, decision>>

\* One cycle over the compartments' own telemetry.
Evaluate(dt) ==
    /\ evidence' = <<BmsTelemetry(bms, dt), AnomalyTelemetry(anomaly)>>
    /\ decision' = EvaluateTelemetry(policy, evidence')
    /\ UNCHANGED <<policy, bms, anomaly>>

\* The caller adds one more compartment to the array and asks again.
EvaluateMore(t) ==
    /\ Len(evidence) = 2
    /\ evidence' = Append(evidence, t)
    /\ decision' = EvaluateTelemetry(policy, evidence')
    /\ UNCHANGED <<policy, bms, anomaly>>

GovernanceNext ==
    \/ \E in \in BmsInputs : UpdateBms(in)
    \/ \E in \in AnomalyInputs : UpdateAnomaly(in)
    \/ ResetBms \/ ResetAnomaly
    \/ \E dt \in Intervals : Evaluate(dt)
    \/ \E t \in Others : EvaluateMore(t)

GovernanceSpec == GovernanceInit /\ [][GovernanceNext]_governanceVars

-----------------------------------------------------------------------------
\* What one compartment's usable evidence demands on its own.
Demand(t) ==
    Max({t.level}
        \cup (IF t.anomaly \/ t.trust < policy.hard THEN {Protective} ELSE {})
        \cup (IF t.trust < policy.soft THEN {HardCeiling} ELSE {})
        \cup (IF t.trust < policy.accept THEN {SoftCeiling} ELSE {}))

\* Evidence the gate cannot use demands protective mode.
DemandOrProtect(t) == IF ValidTelemetry(t) THEN Demand(t) ELSE Protective

\* Under a policy the gate accepts, it decides as strictly as its strictest
\* piece of evidence and no stricter, wherever that piece stands in the array,
\* and one bad item is never outvoted.
DecisionIsStrictestDemand ==
    (ValidPolicy(policy) /\ evidence # <<>>) =>
        decision.level = Max({DemandOrProtect(evidence[n]) : n \in DOMAIN evidence})

\* A battery that is hotter, emptier, older or less balanced than the present
\* one is never trusted more and never allowed more.
Harsher(a, b) ==
    /\ ValidBmsInput(a) /\ ValidBmsInput(b)
    /\ a.t >= b.t /\ a.soc <= b.soc /\ a.soh <= b.soh
    /\ Imbalance(a) >= Imbalance(b)

HarsherNeverRelaxes ==
    \A in \in BmsInputs : Harsher(in, bms) =>
        /\ BmsTelemetry(in, 0).trust <= BmsTelemetry(bms, 0).trust
        /\ EvaluateTelemetry(policy, <<BmsTelemetry(in, 0)>>).level
             >= EvaluateTelemetry(policy, <<BmsTelemetry(bms, 0)>>).level

\* The thresholds kept in several places agree.  A decision that allows learning
\* is backed by the other two gates: at its score an update inside the envelope
\* passes and protective mode may be left after enough healthy cycles.  And with
\* the default policy the gate never overrules the strictest recommendation the
\* compartments derive from thresholds of their own.
ThresholdsAgree ==
    /\ decision.learning =>
          /\ decision.valid
          /\ MayUpdate(policy, decision.trust,
                       [min |-> 0, max |-> 1, step |-> 1, current |-> 0, default |-> 0], 1)
          /\ MayExitProtective(policy, decision.trust, AnyAnomaly(evidence),
                               policy.recovery)
    /\ policy = DefaultPolicy /\ decision.valid /\ Len(evidence) = 2 =>
          decision.level = Max({evidence[1].level, evidence[2].level})
=============================================================================
