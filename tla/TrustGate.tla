----------------------------- MODULE TrustGate -----------------------------
(***************************************************************************)
(* ailee::ev::TrustGate of include/ailee_trust_layer/ailee_trust_gate.hpp  *)
(* as pure operators: the governance decision over the telemetry of the    *)
(* compartments, the exit from protective mode, and the check a proposed   *)
(* parameter has to pass.  Scores run over 0..Full, which stands for 1.0.  *)
(***************************************************************************)
EXTENDS Doubles, Sequences

CONSTANT Full      \* a score of 1.0

ASSUME TrustAssumption == Full \in Finite /\ Full > 0

Normal == 0
SoftCeiling == 1
HardCeiling == 2
Protective == 3

ValidScore(x) == IsFinite(x) /\ 0 <= x /\ x <= Full

\* The constructor's verdict on its thresholds.
ValidPolicy(p) ==
    /\ ValidScore(p.accept) /\ ValidScore(p.soft) /\ ValidScore(p.hard)
    /\ p.hard <= p.soft /\ p.soft <= p.accept

\* Evidence the gate can use: finite, in range and of a known level.
ValidTelemetry(t) ==
    /\ IsFinite(t.time) /\ IsFinite(t.stress)
    /\ ValidScore(t.health) /\ ValidScore(t.trust)
    /\ t.level \in Normal..Protective

Derate(level) ==
    CASE level = Normal -> 100 [] level = SoftCeiling -> 90
      [] level = HardCeiling -> 65 [] level = Protective -> 25

Decision(level, trust, valid) ==
    [level |-> level, trust |-> trust, derate |-> Derate(level),
     learning |-> level = Normal, fallback |-> level = Protective,
     valid |-> valid]

\* The smallest score of the evidence, from 1.0 down.
LowestTrust(ts) ==
    LET low[n \in 0..Len(ts)] ==
            IF n = 0 THEN Full ELSE AtMost(low[n - 1], ts[n].trust)
    IN  low[Len(ts)]

HighestLevel(ts) ==
    LET high[n \in 0..Len(ts)] ==
            IF n = 0 THEN Normal ELSE AtLeast(high[n - 1], ts[n].level)
    IN  high[Len(ts)]

AnyAnomaly(ts) == \E n \in DOMAIN ts : ts[n].anomaly

\* Slip: anomalies count only while the trust score is low as well.
DecideWithoutAnomalies(p, trust, highest, anomaly) ==
    CASE trust < p.hard \/ highest = Protective -> Protective
      [] OTHER ->
           CASE trust < p.soft \/ highest = HardCeiling -> HardCeiling
             [] OTHER ->
                  CASE trust < p.accept \/ highest = SoftCeiling -> SoftCeiling
                    [] OTHER -> Normal

\* Slip: the last rung compares with the soft threshold a second time.
DecideAcceptingSoft(p, trust, highest, anomaly) ==
    CASE anomaly \/ trust < p.hard \/ highest = Protective -> Protective
      [] OTHER ->
           CASE trust < p.soft \/ highest = HardCeiling -> HardCeiling
             [] OTHER -> IF highest = SoftCeiling THEN SoftCeiling ELSE Normal

\* The ladder of ceilings, strictest first.
Decide(p, trust, highest, anomaly) ==
    CASE anomaly \/ trust < p.hard \/ highest = Protective -> Protective
      [] OTHER ->
           CASE trust < p.soft \/ highest = HardCeiling -> HardCeiling
             [] OTHER ->
                  CASE trust < p.accept \/ highest = SoftCeiling -> SoftCeiling
                    [] OTHER -> Normal

\* evaluate_telemetry: a bad policy, no evidence, or one bad item is enough for
\* protective mode with no trust at all.
EvaluateTelemetry(p, ts) ==
    IF \/ ~ValidPolicy(p) \/ ts = <<>>
       \/ \E n \in DOMAIN ts : ~ValidTelemetry(ts[n])
    THEN Decision(Protective, 0, FALSE)
    ELSE Decision(Decide(p, LowestTrust(ts), HighestLevel(ts), AnyAnomaly(ts)),
                  LowestTrust(ts), TRUE)

\* verify_protective_mode_exit.
MayExitProtective(p, trust, anomaly, healthyCycles) ==
    /\ ValidPolicy(p) /\ ValidScore(trust) /\ ~anomaly
    /\ trust >= p.accept
    /\ healthyCycles >= p.recovery

\* is_valid_parameter_state.
ValidEnvelope(env) ==
    /\ \A x \in {env.min, env.max, env.current, env.step, env.default} : IsFinite(x)
    /\ env.min <= env.max /\ env.step >= 0
    /\ env.min <= env.current /\ env.current <= env.max

\* verify_parameter_update.
MayUpdate(p, trust, env, proposed) ==
    /\ ValidPolicy(p) /\ ValidScore(trust) /\ IsFinite(proposed)
    /\ ValidEnvelope(env)
    /\ trust >= p.accept
    /\ env.min <= proposed /\ proposed <= env.max
    /\ IsFinite(proposed - env.current)
    /\ Abs(proposed - env.current) <= env.step
=============================================================================
