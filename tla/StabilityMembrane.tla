------------------------- MODULE StabilityMembrane -------------------------
(***************************************************************************)
(* RapsEVStabilityMembrane of include/raps_ev_stability_membrane.hpp as    *)
(* pure operators: the managers that own a membrane keep its state and     *)
(* decide whether an evaluation is committed.                              *)
(*                                                                         *)
(* Ratios count tenths (One = 10), so that the code's thresholds (0.1, 0.2, *)
(* 0.5, 0.9) are integers; times count the 50 ms of the regen filter.      *)
(***************************************************************************)
EXTENDS Doubles

One == 10

\* A report the BMS did not deliver.
NoDiag == [present |-> FALSE, imbalance |-> 0, fault |-> FALSE, confidence |-> One,
           cells |-> 1, weak |-> 0]

\* StabilityConfig.
MembraneConfigs ==
    [minV : Double, sagV : Double, maxV : Double, sagDamping : Double,
     maxDischarge : Double, maxCharge : Double, spikeAlpha : Double,
     surgeRate : Double, surgeDamping : Double, softT : Double, hardT : Double,
     tau : Double, softImbalance : Double, hardImbalance : Double, driftGain : Double]

\* StabilityConfig::validate.
ValidMembraneConfig(m) ==
    /\ {m.minV, m.sagV, m.maxV, m.sagDamping, m.maxDischarge, m.maxCharge, m.spikeAlpha,
        m.surgeRate, m.surgeDamping, m.softT, m.hardT, m.tau, m.softImbalance,
        m.hardImbalance, m.driftGain} \subseteq Finite
    /\ IsFinite(m.hardT - m.softT)
    /\ m.minV > 0 /\ m.sagV > m.minV /\ m.maxV >= m.sagV
    /\ {m.sagDamping, m.spikeAlpha, m.surgeDamping, m.driftGain} \subseteq 0..One
    /\ {m.maxDischarge, m.maxCharge, m.surgeRate, m.tau} \subseteq Nat \ {0}
    /\ m.hardT > m.softT
    /\ m.softImbalance >= 0 /\ m.hardImbalance > m.softImbalance

\* StabilityState(): no history, full stability.
FreshMembrane ==
    [current |-> 0, regen |-> 0, slope |-> 0, lastT |-> 25,
     overall |-> One, boost |-> One, trip |-> "NONE"]

\* deny: the verdict is published over the numeric history of the last accepted
\* evaluation.
Denied(s, reason) == [s EXCEPT !.overall = 0, !.boost = 0, !.trip = reason]

ValidMembraneInput(v, i, t, d, dt) ==
    /\ IsFinite(v) /\ v > 0 /\ IsFinite(i) /\ IsFinite(t)
    /\ IsFinite(dt) /\ dt > 0
    /\ d.present => IsFinite(d.imbalance) /\ d.imbalance >= 0

\* The hard bounds of the safety monitor, in the order they are tested.
HardTrip(m, v, t, d) ==
    CASE v < m.minV -> "CRITICAL_UNDERVOLTAGE_SAG"
      [] v > m.maxV -> "CRITICAL_OVERVOLTAGE_SURGE"
      [] v \in m.minV..m.maxV /\ t >= m.hardT -> "CRITICAL_OVERTEMPERATURE"
      [] v \in m.minV..m.maxV /\ t < m.hardT ->
            IF d.present /\ d.fault THEN "BMS_SAFETY_FAULT" ELSE "NONE"

\* x * a / b for a in 0..b, the share the filters move by.
Share(x, a, b) == (x * a) \div b

Sag(m, v) ==
    One - (IF v < m.sagV THEN Share(m.sagDamping, m.sagV - v, m.sagV - m.minV) ELSE 0)

FilteredCurrent(m, s, i) == s.current + Share(i - s.current, m.spikeAlpha, One)

Spike(m, s, i) ==
    LET limit == IF i >= 0 THEN m.maxDischarge ELSE m.maxCharge
    IN  Clamp(One - Share(One, Abs(i - FilteredCurrent(m, s, i)), limit), 2, One)

\* The filtered regenerative current starts again from zero with every discharge.
FilteredRegen(s, i, dt) ==
    IF i < 0 THEN s.regen + Share(-i - s.regen, dt, dt + 1) ELSE 0

Surge(m, s, i, dt) ==
    LET rate == (FilteredRegen(s, i, dt) - s.regen) \div dt
    IN  IF i < 0 /\ rate > m.surgeRate
        THEN One - Share(m.surgeDamping, AtMost(rate - m.surgeRate, m.surgeRate), m.surgeRate)
        ELSE One

Slope(m, s, t, dt) ==
    s.slope + Share((t - s.lastT) \div dt - s.slope, dt, dt + m.tau)

Thermal(m, s, t, dt) ==
    Clamp(One - (IF t > m.softT THEN Share(5, t - m.softT, m.hardT - m.softT) ELSE 0)
              - AtMost(Abs(Slope(m, s, t, dt)), 3), 2, One)

Drift(m, d) ==
    One - (IF d.present /\ d.imbalance > m.softImbalance
           THEN Share(m.driftGain,
                      AtMost(d.imbalance, m.hardImbalance) - m.softImbalance,
                      m.hardImbalance - m.softImbalance)
           ELSE 0)

Overall(m, s, v, i, t, d, dt) ==
    Clamp((Sag(m, v) * Spike(m, s, i) * Surge(m, s, i, dt)
             * Thermal(m, s, t, dt) * Drift(m, d)) \div 10000, 1, One)

\* Extra boost of up to a fifth above nine tenths of stability.
Boost(m, overall, t) ==
    IF overall >= 9 /\ t < m.softT THEN One + 2 * (overall - 9) ELSE overall

\* The differences the code tests for overflow before it commits its filters.
Representable(s, i, t) == IsFinite(i - s.current) /\ IsFinite(t - s.lastT)

\* evaluate.
EvaluateMembrane(m, s, v, i, t, d, dt) ==
    IF ~ValidMembraneInput(v, i, t, d, dt) THEN Denied(s, "INVALID_INPUT")
    ELSE IF HardTrip(m, v, t, d) # "NONE" THEN Denied(s, HardTrip(m, v, t, d))
    ELSE IF ~Representable(s, i, t) THEN Denied(s, "NUMERICAL_FAILURE")
    ELSE LET overall == Overall(m, s, v, i, t, d, dt)
         IN  [current |-> FilteredCurrent(m, s, i), regen |-> FilteredRegen(s, i, dt),
              slope |-> Slope(m, s, t, dt), lastT |-> t, overall |-> overall,
              boost |-> Boost(m, overall, t), trip |-> "NONE"]
=============================================================================
