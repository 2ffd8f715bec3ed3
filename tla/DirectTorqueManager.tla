------------------------ MODULE DirectTorqueManager ------------------------
(***************************************************************************)
(* DSTorqueManager of include/torque_enhancement.hpp: the torque limits a  *)
(* vehicle gets straight from the battery core, with the thermal model, the *)
(* overboost timer, the rate limiter and the membrane it keeps.            *)
(*                                                                         *)
(* Ratios count percents (Whole = 100), power is torque times speed, the   *)
(* unit factors being one.  Averages and peaks of the diagnostics, the     *)
(* front and rear split and the name of the limiting factor are left out:  *)
(* nothing reads them back.  Of the two diagnostic counters only           *)
(* update_count is kept, the other one never exceeds it.                   *)
(***************************************************************************)
EXTENDS StabilityMembrane

CONSTANTS
    Inputs,        \* arguments of compute_torque_limit
    Configs,       \* TorqueConfig values a caller may pass to init
    DefaultConfig, \* TorqueConfig()
    Modes,         \* drive and regeneration modes the driver may select
    MaxUpdates     \* INT_MAX of the diagnostic counter, and its bound

VARIABLES
    config,        \* config_, with the two modes
    initialized,   \* initialized_
    limit,         \* last_torque_limit_nm_
    timer,         \* overboost_timer_s_
    heat,          \* thermal_model_: motor and inverter temperature
    filter,        \* raps_membrane_
    updates,       \* diagnostics_.update_count
    emitted        \* the last TorqueResult

directVars == <<config, initialized, limit, timer, heat, filter, updates, emitted>>
histories == <<timer, heat, filter, updates>>

Whole == 100
Part(x, share) == (x * share) \div Whole

\* Motor and inverter temperatures count steps of five degrees.
Ambient == 5
Cool == [motor |-> Ambient, inverter |-> Ambient]

DriveModes == {"eco", "normal", "sport", "custom"}
RegenModes == {"low", "medium", "high", "adaptive"}

\* TorqueConfig with the configurations and weights it holds.
TorqueConfigs ==
    [peak : Double, base : Double, top : Double, power : Double, efficient : Double,
     discharge : Double, charge : Double, rise : Double, fall : Double, smooth : BOOLEAN,
     soft : Double, hard : Double, cold : Double, motorSoft : Double, motorMax : Double,
     inverterSoft : Double, inverterMax : Double, socCritical : Double, socLow : Double,
     socRegen : Double, socFull : Double, healthW : Double, entropyW : Double,
     metricW : Double, eco : Double, normal : Double, sport : Double, least : Double,
     maxDerate : Double, cellAware : BOOLEAN, overboost : BOOLEAN, duration : Double,
     boost : Double, drive : DriveModes, regen : RegenModes, raps : BOOLEAN,
     membrane : MembraneConfigs]

\* TorqueConfig::validate, of the fields the manager consumes.
ValidTorqueConfig(c) ==
    /\ {c.healthW, c.entropyW, c.metricW, c.eco, c.normal, c.sport, c.least, c.maxDerate,
        c.socCritical, c.socLow, c.socRegen, c.socFull} \subseteq 0..Whole
    /\ {c.peak, c.base, c.top, c.power, c.efficient, c.discharge, c.charge, c.rise, c.fall,
        c.soft, c.hard, c.cold, c.motorSoft, c.motorMax, c.inverterSoft, c.inverterMax,
        c.duration, c.boost} \subseteq Finite
    /\ {c.motorMax - c.motorSoft, c.inverterMax - c.inverterSoft, c.hard - c.soft}
           \subseteq Finite
    /\ c.efficient > 0 /\ c.peak > 0 /\ c.base > 0 /\ c.top > c.base /\ c.power > 0
    /\ c.discharge > 0 /\ c.charge > 0 /\ c.boost > 0
    /\ c.rise >= 0 /\ c.fall >= 0 /\ c.duration >= 0
    /\ c.motorMax > c.motorSoft /\ c.inverterMax > c.inverterSoft /\ c.hard > c.soft
    /\ c.socLow > c.socCritical /\ c.socFull > c.socRegen
    /\ c.drive \in DriveModes /\ c.regen \in RegenModes
    /\ ValidMembraneConfig(c.membrane)

ValidArguments(s) ==
    /\ s.ok
    /\ {s.v, s.i, s.t, s.rpm, s.dt, s.phi} \subseteq Finite
    /\ s.v > 0 /\ s.rpm >= 0 /\ s.dt > 0 /\ s.phi >= 0
    /\ {s.soc, s.entropy, s.degradation, s.health} \subseteq 0..Whole
    /\ s.diag.present => IsFinite(s.diag.imbalance) /\ s.diag.imbalance >= 0

\* The defaults are valid, and a caller passes numbers, if no finite ones.
ASSUME DirectAssumption ==
    /\ MaxUpdates \in Nat
    /\ ValidTorqueConfig(DefaultConfig)
    /\ Configs \cup {DefaultConfig} \subseteq TorqueConfigs
    /\ \A s \in Inputs : s.diag.weak \in Nat

-----------------------------------------------------------------------------
\* Constant torque up to the base speed, then constant power, then nothing.
BaseTorque(s) ==
    CASE s.rpm <= config.base -> config.peak
      [] s.rpm >= config.top -> 0
      [] s.rpm \in (config.base + 1)..(config.top - 1) -> AtMost(config.peak, config.power \div s.rpm)

Weighted(w, x) == Whole - w + Part(x, w)

HealthScaling(s) == Weighted(config.healthW, 50 + s.health \div 2)

EntropyScaling(s) ==
    Weighted(config.entropyW,
             AtLeast(Part(Whole - (3 * s.entropy) \div 10,
                          Whole - AtLeast(AtMost(s.phi, 200) - Whole, 0) \div 5), 60))

MetricScaling(s) ==
    Weighted(config.metricW,
             AtLeast((Whole * Whole) \div (Whole + (4 * Abs(s.trace - 200)) \div 10), 50))

DsScaling(s) == Part(Part(HealthScaling(s), EntropyScaling(s)), MetricScaling(s))

\* The reduction `most` percent deep between two temperatures.
Taper(t, soft, hard, most) ==
    IF t < soft THEN Whole ELSE Whole - (most * AtMost(t - soft, hard - soft)) \div (hard - soft)

ColdScaling(t) ==
    IF t >= config.cold THEN Whole
    ELSE IF config.cold = 0 THEN 50
    ELSE AtLeast((Whole * (IF config.cold < 0 THEN -t ELSE t)) \div Abs(config.cold), 50)

ThermalScaling(s) ==
    AtLeast(Part(Part(Taper(s.t, config.soft, config.hard, 60), ColdScaling(s.t)),
                 Part(Taper(heat.motor, config.motorSoft, config.motorMax, 50),
                      Taper(heat.inverter, config.inverterSoft, config.inverterMax, 40))), 30)

SocScaling(s) ==
    CASE s.soc >= config.socLow -> Whole
      [] s.soc < config.socCritical -> 25
      [] s.soc \in config.socCritical..(config.socLow - 1) ->
            25 + (75 * (s.soc - config.socCritical)) \div (config.socLow - config.socCritical)

\* Weak cells out of an assumed 96, and more than 50 mV of imbalance.
CellScaling(s) ==
    IF ~config.cellAware \/ ~s.diag.present THEN Whole
    ELSE AtLeast(Part(Whole - (15 * s.diag.weak) \div 96,
                      AtLeast(Whole - (2 * AtLeast(s.diag.imbalance - 50, 0)) \div 3, 70)), 70)

ModeFraction ==
    CASE config.drive = "eco" -> config.eco
      [] config.drive \in {"normal", "custom"} -> config.normal
      [] config.drive = "sport" -> config.sport

\* The membrane is asked unless the configuration leaves it out.
Judged(s) ==
    IF config.raps THEN EvaluateMembrane(config.membrane, filter, s.v, s.i, s.t, s.diag, s.dt)
    ELSE filter

MembraneScaling(s) == IF config.raps THEN 10 * Judged(s).overall ELSE Whole
Tripped(s) == config.raps /\ Judged(s).trip # "NONE"

\* The product, between the fraction always allowed and one; a derating by the
\* battery core beyond its own maximum is given back.
Combined(s) ==
    LET motor == (Whole * BaseTorque(s)) \div config.peak
        product == Part(Part(Part(Part(Part(Part(motor, DsScaling(s)), ThermalScaling(s)),
                        SocScaling(s)), CellScaling(s)), MembraneScaling(s)), ModeFraction)
    IN  Clamp(product, config.least, Whole)
          + AtLeast(Whole - DsScaling(s) - config.maxDerate, 0)

LowSpeed(s) == config.overboost /\ 10 * s.rpm < 8 * config.base

Overboosts(s) ==
    /\ LowSpeed(s) /\ timer < config.duration
    /\ Combined(s) > 90 /\ s.t < config.soft

Target(s) ==
    Part(BaseTorque(s), IF Overboosts(s) THEN Part(Combined(s), config.boost) ELSE Combined(s))

\* torque_rate_limiter under the envelope of this cycle: only a rise is slowed.
\* Slip: a limiter that is not in use yet lets the first rise through.
RampedFromRest(s) ==
    IF config.smooth /\ limit > 0 THEN AtMost(Target(s), limit + config.rise * s.dt) ELSE Target(s)

Ramped(s) ==
    IF config.smooth THEN AtMost(Target(s), limit + config.rise * s.dt) ELSE Target(s)

Drive(s) ==
    IF Ramped(s) * s.rpm > config.discharge
    THEN config.discharge \div s.rpm
    ELSE Ramped(s)

RegenFade(s) ==
    CASE s.soc <= config.socRegen -> Whole
      [] s.soc >= config.socFull -> 0
      [] s.soc \in (config.socRegen + 1)..(config.socFull - 1) ->
            (Whole * (config.socFull - s.soc)) \div (config.socFull - config.socRegen)

RegenFraction(s) ==
    CASE config.regen = "low" -> 50
      [] config.regen = "medium" -> 75
      [] config.regen = "high" -> Whole
      [] config.regen = "adaptive" -> 50 + (Whole - s.degradation) \div 2

Regen(s) ==
    Part(Part(AtMost(Part(config.peak, 70), config.charge \div AtLeast(s.rpm, 1)), RegenFade(s)),
         RegenFraction(s))

\* Power per step and second of the two thermal resistances, and the time
\* constants, all scaled down.
MotorHeat == 400
InverterHeat == 100
CoolingTime == 2

\* ThermalModel::update: the motor takes the whole power, the inverter a tenth
\* of what the distance to the most efficient speed leaves of it and a fiftieth.
Heated(t, gain, ceiling, dt) == Clamp(t + (gain - (t - Ambient) \div CoolingTime) * dt, Ambient, ceiling)

Warmed(s) ==
    LET power == Drive(s) * s.rpm
        loss == Part(power, (Whole - (Whole * config.efficient) \div AtLeast(s.rpm, 1)) \div 10 + 2)
    IN  [motor |-> Heated(heat.motor, power \div MotorHeat, 40, s.dt),
         inverter |-> Heated(heat.inverter, loss \div InverterHeat, 30, s.dt)]

Timer(s) ==
    CASE Overboosts(s) -> timer + s.dt
      [] LowSpeed(s) /\ ~Overboosts(s) -> timer
      [] ~LowSpeed(s) -> AtLeast(timer - 2 * s.dt, 0)

-----------------------------------------------------------------------------
Nothing == [drive |-> 0, regen |-> 0, limp |-> TRUE, boost |-> FALSE, dt |-> 1, end |-> "denied"]

\* deny, of the manager itself and not of the candidate.
DirectDeny ==
    /\ limit' = 0
    /\ emitted' = Nothing
    /\ UNCHANGED <<config, initialized, histories>>

\* A candidate the arithmetic throws in, before the membrane is asked or after it
\* found nothing, or whose membrane rejects its input: it is dropped.
Dropped(s) ==
    \/ ~IsFinite(s.trace)
    \/ Judged(s).trip \in {"INVALID_INPUT", "NUMERICAL_FAILURE"}
    \/ /\ ~Tripped(s)
       /\ \/ updates = MaxUpdates
          \/ config.smooth /\ ~(IsFinite(config.rise * s.dt) /\ IsFinite(config.fall * s.dt))

ArgumentsDenied(s) == ~ValidArguments(s) /\ DirectDeny

CandidateDropped(s) == ValidArguments(s) /\ Dropped(s) /\ DirectDeny

\* Slip: the limit of the cycle before the trip stays on record.
HardTripKeepingLimit(s) ==
    /\ ValidArguments(s) /\ ~Dropped(s) /\ Tripped(s)
    /\ filter' = Judged(s)
    /\ emitted' = [Nothing EXCEPT !.end = "tripped"]
    /\ UNCHANGED <<config, initialized, limit, timer, heat, updates>>

\* A hard bound of the membrane ends the cycle before the other histories move.
DirectTrip(s) ==
    /\ ValidArguments(s) /\ ~Dropped(s) /\ Tripped(s)
    /\ filter' = Judged(s)
    /\ limit' = 0
    /\ emitted' = [Nothing EXCEPT !.end = "tripped"]
    /\ UNCHANGED <<config, initialized, timer, heat, updates>>

Commit(s) ==
    /\ ValidArguments(s) /\ ~Dropped(s) /\ ~Tripped(s)
    /\ limit' = Drive(s)
    /\ timer' = Timer(s) /\ heat' = Warmed(s)
    /\ filter' = Judged(s) /\ updates' = updates + 1
    /\ emitted' = [drive |-> limit', regen |-> Regen(s), limp |-> SocScaling(s) <= 30,
                   boost |-> Overboosts(s), dt |-> s.dt, end |-> "allowed"]
    /\ UNCHANGED <<config, initialized>>

\* compute_torque_limit; before init it throws.
ComputeTorqueLimit(s) ==
    /\ initialized
    /\ ArgumentsDenied(s) \/ CandidateDropped(s) \/ DirectTrip(s) \/ Commit(s)

\* init: an invalid configuration throws before anything is assigned.
DirectConfigure(c) ==
    /\ ValidTorqueConfig(c)
    /\ config' = c /\ initialized' = TRUE
    /\ limit' = 0 /\ timer' = 0 /\ heat' = Cool /\ filter' = FreshMembrane /\ updates' = 0
    /\ UNCHANGED emitted

SetModes ==
    /\ \/ \E mode \in Modes \cap DriveModes : config' = [config EXCEPT !.drive = mode]
       \/ \E mode \in Modes \cap RegenModes : config' = [config EXCEPT !.regen = mode]
    /\ UNCHANGED <<initialized, limit, histories, emitted>>

ResetDiagnostics ==
    /\ updates' = 0
    /\ UNCHANGED <<config, initialized, limit, timer, heat, filter, emitted>>

\* The default constructor; the other constructor is this one and init.
DirectInit ==
    /\ config = DefaultConfig /\ initialized = FALSE
    /\ limit = 0 /\ timer = 0 /\ heat = Cool /\ filter = FreshMembrane /\ updates = 0
    /\ emitted = [Nothing EXCEPT !.end = "none"]

DirectNext ==
    \/ \E s \in Inputs : ComputeTorqueLimit(s)
    \/ \E c \in Configs : DirectConfigure(c)
    \/ SetModes \/ ResetDiagnostics

-----------------------------------------------------------------------------
\* "Recovery must ramp from the limit actually emitted": whatever came between
\* (a denial, a trip, a mode change, a new configuration), the drive limit rises
\* above the last one emitted by no more than the rise rate allows in the cycle.
RecoveryRamps ==
    [][ emitted'.end = "allowed" /\ emitted' # emitted /\ config.smooth =>
          /\ emitted'.drive <= emitted.drive + config.rise * emitted'.dt ]_directVars
=============================================================================
