------------------------ MODULE RecoveryCoordinator ------------------------
(***************************************************************************)
(* DSEnergyRecoveryCoordinator of                                          *)
(* include/ds_energy_recovery_coordinator_v1.hpp on top of the BMS         *)
(* middleware it feeds.  A step stages the coordinator's history, offers   *)
(* the reading to the BMS and commits only what the BMS accepted.  Other   *)
(* callers may drive or reinitialise the same BMS between two steps.       *)
(***************************************************************************)
EXTENDS DsModel, FiniteSets

CONSTANTS
    MaxInt, MsPerSecond, WarnDegradation, Configs, DefaultConfig, Readings,
    RecoveryConfigs,   \* EnergyRecoveryConfig values a caller may pass
    Drives,            \* regen decisions with the shaft speed beside them
    Whole              \* drivetrain efficiency and regen fraction 1.0

RecoveryConfigType ==
    [measured : BOOLEAN, efficiency : Double, maxCurrent : Double,
     minVoltage : Double]

Drive == [torque : Double, fraction : Double, omega : Double]

\* The callers of the BMS may pass any charging current next to the other
\* sensors, so the readings are closed under the currents a step estimates.
ASSUME RecoveryAssumption ==
    /\ Whole \in Nat \ {0}
    /\ Readings \subseteq Reading
    /\ RecoveryConfigs \subseteq RecoveryConfigType
    /\ Drives \subseteq Drive
    /\ \A r \in Readings, c \in RecoveryConfigs :
          IsFinite(c.maxCurrent) =>
              \A i \in -c.maxCurrent .. 0 : [r EXCEPT !.i = i] \in Readings

VARIABLES
    initialized, config, core, filter, enhanced, report, flags, safety, ledger,
    accepted, observed,    \* the BMS, see BmsMiddleware
    cfg,                   \* cfg_
    estimate,              \* est_current_a_
    diag,                  \* diag_
    latest                 \* history: who made the BMS's last accepted cycle

BMS == INSTANCE BmsMiddleware

bms == <<initialized, config, core, filter, enhanced, report, flags, safety,
         ledger, accepted, observed>>
coordinator == <<cfg, estimate, diag>>
vars == <<bms, coordinator, latest>>

NoEnergy == [charging |-> 0, mechanical |-> 0, electrical |-> 0]

FreshDiag ==
    [torque |-> 0, mechanical |-> 0, electrical |-> 0, regenCurrent |-> 0,
     v |-> 0, i |-> 0, total |-> NoEnergy, session |-> NoEnergy]

\* validate_config, called by the constructor.
ValidRecoveryConfig(c) ==
    /\ \A x \in {c.efficiency, c.maxCurrent, c.minVoltage} : IsFinite(x)
    /\ c.efficiency \in 0..Whole
    /\ c.maxCurrent >= 0
    /\ c.minVoltage > 0

ValidInputs(d, r) ==
    /\ \A x \in {r.v, r.t, r.i, r.soc, r.dt, d.omega, d.torque, d.fraction} :
          IsFinite(x)
    /\ r.v > 0 /\ r.dt > 0
    /\ r.soc \in 0..SocFull
    /\ d.omega >= 0 /\ d.torque >= 0
    /\ d.fraction \in 0..Whole

-----------------------------------------------------------------------------
(***************************************************************************)
(* The estimates.  They come before current limits and smoothing.          *)
(***************************************************************************)
MechanicalPower(d) == d.torque * d.omega
ElectricalPower(d) == (MechanicalPower(d) * cfg.efficiency) \div Whole

TargetCurrent(d, r) ==
    -AtMost(ElectricalPower(d) \div AtLeast(r.v, cfg.minVoltage), cfg.maxCurrent)

\* smooth_current: a first-order lag moves from the last estimate towards the
\* target by a share 1 - exp(-dt/tau), which is any point between the two.
Smoothed(from, to) == AtMost(from, to) .. AtLeast(from, to)

CurrentsUsed(d, r) ==
    IF cfg.measured THEN {r.i} ELSE Smoothed(estimate, TargetCurrent(d, r))

\* Slip: the energy credited is the energy available before current limits.
CreditAvailable(d, r, i) ==
    [charging   |-> ElectricalPower(d) * r.dt,
     mechanical |-> MechanicalPower(d) * r.dt,
     electrical |-> ElectricalPower(d) * r.dt]

\* What one step adds: charging on the battery side at the current offered to
\* the BMS, the other two as estimates.
Credit(d, r, i) ==
    [charging   |-> IF i < 0 THEN -(r.v * i * r.dt) ELSE 0,
     mechanical |-> MechanicalPower(d) * r.dt,
     electrical |-> ElectricalPower(d) * r.dt]

Add(account, credit) ==
    [charging   |-> account.charging + credit.charging,
     mechanical |-> account.mechanical + credit.mechanical,
     electrical |-> account.electrical + credit.electrical]

Candidate(d, r, i) ==
    [torque       |-> d.torque,
     mechanical   |-> MechanicalPower(d),
     electrical   |-> ElectricalPower(d),
     regenCurrent |-> IF cfg.measured THEN 0 ELSE i,
     v |-> r.v, i |-> i,
     total        |-> Add(diag.total, Credit(d, r, i)),
     session      |-> Add(diag.session, Credit(d, r, i))]

\* Every product and sum is checked before the BMS is asked.
PreflightSucceeds(d, r, i) ==
    LET next == Candidate(d, r, i)
    IN  \A x \in {MechanicalPower(d), ElectricalPower(d), r.v * i, r.v * i * r.dt,
                  next.total.charging, next.session.charging,
                  next.total.mechanical, next.session.mechanical,
                  next.total.electrical, next.session.electrical} : IsFinite(x)

-----------------------------------------------------------------------------
Init ==
    /\ BMS!Init
    /\ cfg \in {c \in RecoveryConfigs : ValidRecoveryConfig(c)}
    /\ estimate = 0
    /\ diag = FreshDiag
    /\ latest = "none"

AcceptStep(d, r) ==
    /\ ValidInputs(d, r)
    /\ \E i \in CurrentsUsed(d, r) :
          /\ PreflightSucceeds(d, r, i)
          /\ BMS!AcceptCycle([r EXCEPT !.i = i])
          /\ diag' = Candidate(d, r, i)
          /\ estimate' = IF cfg.measured THEN estimate ELSE i
    /\ latest' = "step"
    /\ UNCHANGED cfg

\* Slip: the history is committed before the BMS is asked.
RejectStepAfterCommit(d, r) ==
    /\ ValidInputs(d, r)
    /\ \E i \in CurrentsUsed(d, r) :
          /\ PreflightSucceeds(d, r, i)
          /\ BMS!RejectCycle([r EXCEPT !.i = i])
          /\ diag' = Candidate(d, r, i)
          /\ estimate' = IF cfg.measured THEN estimate ELSE i
    /\ UNCHANGED <<cfg, latest>>

\* The BMS rejected the reading: it published its safety evidence, and the
\* coordinator's candidates are dropped with the exception.
RejectStep(d, r) ==
    /\ ValidInputs(d, r)
    /\ \E i \in CurrentsUsed(d, r) :
          /\ PreflightSucceeds(d, r, i)
          /\ BMS!RejectCycle([r EXCEPT !.i = i])
    /\ UNCHANGED <<coordinator, latest>>

\* Invalid inputs, an overflow found by the preflight, a BMS that was never
\* initialised or a failed allocation: nothing at all happens.
AbandonStep == UNCHANGED vars

\* Slip: the lifetime totals are cleared with the session.
ResetTotals ==
    /\ diag' = [diag EXCEPT !.total = NoEnergy]
    /\ UNCHANGED <<bms, cfg, estimate, latest>>

\* reset_session_energy.
ResetSession ==
    /\ diag' = [diag EXCEPT !.session = NoEnergy]
    /\ UNCHANGED <<bms, cfg, estimate, latest>>

\* The rest of the application uses the same BMS.
OtherCycle(r) ==
    /\ \/ BMS!AcceptCycle(r) /\ latest' = "other"
       \/ BMS!RejectCycle(r) /\ UNCHANGED latest
    /\ UNCHANGED coordinator

OtherSession ==
    /\ \E c \in Configs :
          BMS!InitAdvanced(c) \/ BMS!InitSimple(c.capacity, c.voltage)
    /\ latest' = IF ledger'.updates = 0 THEN "none" ELSE latest
    /\ UNCHANGED coordinator

Next ==
    \/ \E d \in Drives, r \in Readings : AcceptStep(d, r) \/ RejectStep(d, r)
    \/ AbandonStep
    \/ ResetSession
    \/ \E r \in Readings : OtherCycle(r)
    \/ OtherSession

Spec == Init /\ [][Next]_vars

-----------------------------------------------------------------------------
\* The two accounts stay consistent across resets, rejected steps and
\* reinitialised batteries: a trip session never shows more energy than the
\* lifetime it is part of, and what may be recovered electrically is never
\* more than the mechanical energy of the same period.
AccountsConsistent ==
    /\ \A a \in {"charging", "mechanical", "electrical"} :
          diag.session[a] <= diag.total[a]
    /\ diag.session.electrical <= diag.session.mechanical
    /\ diag.total.electrical <= diag.total.mechanical

\* A rejected step leaves the coordinator on the cycle the battery accepted:
\* while the battery's last accepted cycle came from a step, the accepted
\* voltage and current are the ones the battery reports, and the smoothing
\* continues from the current that was accepted last, which no low voltage and
\* no high torque carries past the sanity clamp.
FollowsLastAcceptance ==
    /\ estimate \in -cfg.maxCurrent .. 0
    /\ latest = "step" => report.power = diag.v * diag.i
    /\ IF cfg.measured THEN estimate = 0 ELSE estimate = diag.i

\* Charging energy is credited exactly once and to the same amount in the
\* coordinator and in the battery's ledger, and only by an accepted step.
CreditedOnce ==
    [][ LET credited == diag'.total.charging - diag.total.charging
            step     == /\ latest' = "step"
                        /\ ledger'.updates = ledger.updates + 1
        IN  /\ step => credited = ledger'.in - ledger.in
            /\ ~step => credited = 0 ]_vars
=============================================================================
