------------------------------ MODULE DsModel ------------------------------
(***************************************************************************)
(* The degradation model of include/ds_battery_core.hpp as pure operators: *)
(* the state DSEnhancement owns, the guards of DSEnhancement::enhance and  *)
(* the candidate it computes through DSCoupling::update.                   *)
(*                                                                         *)
(* Scaling.  State of charge runs over 0..SocFull and entropy and          *)
(* degradation over 0..Saturation (1.0 in the code).  The positive         *)
(* coefficients of the empirical model are scaled to one, which keeps what *)
(* the properties tell apart: signs, order, saturation and overflow.       *)
(***************************************************************************)
EXTENDS Doubles, Sequences

CONSTANTS
    SocFull,       \* state of charge 1.0
    Saturation,    \* entropy 1.0 and degradation 1.0
    RoomTemp,      \* 25 degrees, where thermal stress starts
    MaxHistory     \* BatteryFeenAdapter max_history_size

ASSUME DsModelAssumption ==
    /\ SocFull \in Finite /\ SocFull > 0
    /\ Saturation \in Finite /\ Saturation > 0
    /\ RoomTemp \in Finite
    /\ MaxHistory \in Nat

Reading == [v : Double, i : Double, t : Double, soc : Double, dt : Double]

DsConfigType ==
    [tauMin : Double, capacity : Double, voltage : Double, maxTemp : Double,
     minTemp : Double, maxCurrent : Double, feen : BOOLEAN]

\* A valid DSState.
DsState ==
    [v : Int, i : Int, t : Int, soc : 0..SocFull, entropy : 0..Saturation,
     degradation : 0..Saturation, throughput : Nat, time : Nat]

\* DSConfig::validate.
ValidDsConfig(c) ==
    /\ \A x \in {c.tauMin, c.capacity, c.voltage, c.maxTemp, c.minTemp,
                 c.maxCurrent} : IsFinite(x)
    /\ c.tauMin > 0
    /\ c.capacity > 0
    /\ c.voltage > 0
    /\ IsFinite(2 * c.capacity)
    /\ c.maxTemp > c.minTemp /\ c.maxTemp # 0
    /\ c.maxCurrent > 0

\* DSState() and a fresh BatteryFeenAdapter.
FreshState ==
    [v |-> 0, i |-> 0, t |-> RoomTemp, soc |-> SocFull, entropy |-> 0,
     degradation |-> 0, throughput |-> 0, time |-> 0]
FreshCore == [state |-> FreshState, history |-> <<>>]

\* The first checks of DSEnhancement::enhance, shared with enhance_cycle.
ValidSensors(r) ==
    /\ \A x \in {r.v, r.i, r.t, r.soc, r.dt} : IsFinite(x)
    /\ r.v > 0
    /\ r.dt > 0

\* enhance normalises what the model sees; the caller keeps the raw reading.
Normalised(c, r) ==
    [r EXCEPT !.i   = Clamp(@, -c.maxCurrent, c.maxCurrent),
              !.t   = Clamp(@, c.minTemp, c.maxTemp),
              !.soc = Clamp(@, 0, SocFull)]

\* Slip: cold cells are credited instead of counted as unstressed.
SignedThermalStress(r) == r.t - RoomTemp

ThermalStress(r) == AtLeast(r.t - RoomTemp, 0)

\* DSCoupling::update_phi before saturation.
RawEntropy(s, r)     == s.entropy + r.dt * (ThermalStress(r) + Abs(r.i))
RawThroughput(s, r)  == s.throughput + Abs(r.i) * r.dt

\* Slip: thermal degradation charged per call instead of per second.
RawDegradationPerCall(s, r) ==
    s.degradation + (RawThroughput(s, r) - s.throughput) + ThermalStress(r)

RawDegradation(s, r) ==
    s.degradation + (RawThroughput(s, r) - s.throughput) + ThermalStress(r) * r.dt

\* DSCoupling::compute_energies, the stored electrical energy.
EnergyPsi(c, r) == r.v * r.soc * c.capacity

\* The DSState DSCoupling::update computes from normalised sensors.
UpdatedState(s, r) ==
    [v |-> r.v, i |-> r.i, t |-> r.t, soc |-> r.soc,
     entropy     |-> AtMost(RawEntropy(s, r), Saturation),
     degradation |-> AtMost(RawDegradation(s, r), Saturation),
     throughput  |-> RawThroughput(s, r),
     time        |-> s.time + r.dt]

\* What update and is_valid reject: an interval below tau_min, an overflow
\* that saturation would hide, and a state or an energy that is not finite.
UpdateSucceeds(c, s, r) ==
    /\ r.dt >= c.tauMin
    /\ IsFinite(RawEntropy(s, r))
    /\ IsFinite(RawDegradation(s, r))
    /\ IsFinite(RawThroughput(s, r))
    /\ IsFinite(s.time + r.dt)
    /\ IsFinite(EnergyPsi(c, r))

\* BatteryFeenAdapter: append, then drop the oldest when over the limit.
Remember(history, v) ==
    LET longer == Append(history, v)
    IN  IF Len(longer) > MaxHistory THEN Tail(longer) ELSE longer

EnhanceSucceeds(c, core, r) ==
    ValidSensors(r) /\ UpdateSucceeds(c, core.state, Normalised(c, r))

\* The core after a successful enhance: model state and trust history.
Enhanced(c, core, r) ==
    [state   |-> UpdatedState(core.state, Normalised(c, r)),
     history |-> IF c.feen THEN Remember(core.history, r.v) ELSE core.history]

\* predict_health: one degradation unit per horizon unit, clamped at zero.
RemainingCapacity(s, horizon) ==
    AtLeast(Saturation - (s.degradation + horizon), 0)

\* optimize_charging: the limit falls with degradation and never passes the
\* configured maximum current.
MaxSafeCurrent(c, s) == AtMost(Saturation - s.degradation, c.maxCurrent)
=============================================================================
