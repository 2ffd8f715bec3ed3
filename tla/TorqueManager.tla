--------------------------- MODULE TorqueManager ---------------------------
(***************************************************************************)
(* DSAileeTorqueManager (src/ds_torque_manager.cpp) with the horsepower    *)
(* governor it asks (src/ailee_horsepower_governor.cpp), behind the        *)
(* compartment adapter of the trust layer (TorqueManagerAdapter).          *)
(*                                                                         *)
(* Scores count half percents (Full = 200), temperatures degrees, charge   *)
(* and health percents.  Horsepower is torque times speed and voltage      *)
(* times current, the unit factors being one.  A decision of the optional  *)
(* Python governor is any member of PythonAnswers.                         *)
(***************************************************************************)
EXTENDS StabilityMembrane

CONSTANTS
    Commands,        \* TorqueCommand values a caller may set
    Baseline,        \* TorqueCommand()
    Membrane,        \* StabilityConfig(): the manager's membrane is never reconfigured
    PythonAnswers    \* what evaluate_governance may return; an exception has no level

\* TorqueCommand, with whether its enumerations are in range.
TorqueCommands ==
    [torque : Double, rpm : Double, v : Double, i : Double, t : Double,
     soc : Double, soh : Double, ok : BOOLEAN]

ASSUME TorqueAssumption ==
    /\ ValidMembraneConfig(Membrane)
    /\ Commands \cup {Baseline} \subseteq TorqueCommands
    /\ Baseline.ok /\ Baseline.torque = 0

VARIABLES
    created,     \* whether the adapter holds a manager
    python,      \* whether that manager's embedded governor came up
    cmd,         \* TorqueManagerAdapter::cmd_
    membrane,    \* raps_membrane_
    decision,    \* last_decision_
    output       \* the last GovernedTorqueOutput

vars == <<created, python, cmd, membrane, decision, output>>

Full == 200
Score == 0..Full

Over(x, limit) == AtLeast(x - limit, 0)

ValidCommand(c) ==
    /\ c.ok
    /\ \A x \in {c.torque, c.rpm, c.v, c.i, c.soc, c.soh, c.t} : IsFinite(x)
    /\ c.torque >= 0 /\ c.rpm >= 0 /\ c.v > 0 /\ c.i >= 0
    /\ c.soc \in 0..100 /\ c.soh \in 0..100
    /\ IsFinite(c.torque * AtLeast(c.rpm, 1)) /\ IsFinite(c.v * c.i)

\* The signals of a valid command: a standing motor turns once.
Mechanical(c) == c.torque * AtLeast(c.rpm, 1)
Electrical(c) == c.v * c.i

Consistency(c) ==
    IF Mechanical(c) = 0 \/ Electrical(c) = 0 THEN 0
    ELSE (Full * AtMost(Mechanical(c), Electrical(c)))
             \div AtLeast(Mechanical(c), Electrical(c))

Rejected ==
    [level |-> 3, hp |-> 0, torque |-> 0, current |-> 0, trust |-> 0, consistency |-> 0]

GovernorTrust(c) ==
    Clamp(Full - (3 * Over(170, Consistency(c))) \div 2 - 5 * Over(c.t, 45)
               - 4 * Over(20, c.soc) - 3 * Over(85, c.soh), 0, Full)

\* Slip: a low charge is judged by its score alone below the hard ceiling.
GovernorLevelNoCharge(c) ==
    CASE c.t >= 60 \/ c.soc <= 5 \/ GovernorTrust(c) < 100 -> 3
      [] OTHER ->
           CASE c.t >= 50 \/ GovernorTrust(c) < 140 -> 2
             [] OTHER ->
                  CASE c.t >= 42 \/ c.soc \in 16..25 \/ GovernorTrust(c) < 176
                          \/ Consistency(c) < 180 -> 1
                    [] OTHER -> 0

GovernorLevel(c) ==
    CASE c.t >= 60 \/ c.soc <= 5 \/ GovernorTrust(c) < 100 -> 3
      [] OTHER ->
           CASE c.t >= 50 \/ c.soc <= 15 \/ GovernorTrust(c) < 140 -> 2
             [] OTHER ->
                  CASE c.t >= 42 \/ c.soc <= 25 \/ GovernorTrust(c) < 176
                          \/ Consistency(c) < 180 -> 1
                    [] OTHER -> 0

Share100(level) == CASE level = 0 -> 100 [] level = 1 -> 90 [] level = 2 -> 65 [] level = 3 -> 25

\* fallbackEvaluate; idle torque and current are replaced by nominal ones.
Fallback(c) ==
    LET part(x) == Share(x, Share100(GovernorLevel(c)), 100)
    IN  [level |-> GovernorLevel(c),
         hp |-> part(AtLeast(AtLeast(Mechanical(c), Electrical(c)), 1)),
         torque |-> part(IF c.torque > 0 THEN c.torque ELSE 400),
         current |-> part(IF c.i > 0 THEN c.i ELSE 500),
         trust |-> GovernorTrust(c), consistency |-> Consistency(c)]

ValidAnswer(d) ==
    /\ d.level \in 0..3
    /\ \A x \in {d.hp, d.torque, d.current} : IsFinite(x) /\ x >= 0
    /\ d.trust \in Score /\ d.consistency \in Score

\* AileeHorsepowerGovernor::evaluate, for a valid command.
Decisions(c) ==
    IF python
    THEN {IF ValidAnswer(d) THEN d ELSE Rejected : d \in PythonAnswers}
    ELSE {Fallback(c)}

Zero == [applied |-> 0, hp |-> 0, limit |-> 0, current |-> 0, level |-> 3, trust |-> 0,
         membrane |-> 0, tripped |-> FALSE, end |-> "rejected"]

-----------------------------------------------------------------------------
\* Slip: the denial is emitted, the decision on record stays the last one.
DenyWithoutAudit(tripped) ==
    /\ output' = [Zero EXCEPT !.tripped = tripped]
    /\ UNCHANGED <<membrane, decision>>

\* Both rejections replace the decision on record and leave the membrane alone.
Deny(tripped) ==
    /\ decision' = Rejected
    /\ output' = [Zero EXCEPT !.tripped = tripped]
    /\ UNCHANGED membrane

\* The membrane is asked on a copy, with the default interval and no report.
Assessed == EvaluateMembrane(Membrane, membrane, cmd.v, cmd.i, cmd.t, NoDiag, 1)

InvalidEvidence == ~ValidCommand(cmd) /\ Deny(FALSE)

MembraneRejects ==
    /\ ValidCommand(cmd)
    /\ Assessed.trip \in {"INVALID_INPUT", "NUMERICAL_FAILURE"}
    /\ Deny(TRUE)

\* A hard bound: the governor's decision is still taken and recorded.
MembraneTrips(d) ==
    /\ Assessed.trip \notin {"NONE", "INVALID_INPUT", "NUMERICAL_FAILURE"}
    /\ decision' = d
    /\ output' = [Zero EXCEPT !.trust = d.trust, !.tripped = TRUE, !.end = "tripped"]
    /\ membrane' = Assessed

Boosted(d) == d.level = 0 /\ d.trust > 180 /\ Assessed.boost > One
Gain(d) == IF Boosted(d) THEN Assessed.boost ELSE Assessed.overall
Scaled(x, d) == (x * Gain(d)) \div One

\* The scaled ceilings and the horsepower they allow may leave the range.
Overflows(d) ==
    \/ ~IsFinite(Scaled(d.hp, d)) \/ ~IsFinite(Scaled(d.torque, d))
    \/ ~IsFinite(Scaled(d.current, d))

\* Slip: the torque ceiling ignores what the horsepower ceiling allows.
TorqueCeilingTorqueOnly(d) == Scaled(d.torque, d)

TorqueCeiling(d) == AtMost(Scaled(d.torque, d), Scaled(d.hp, d) \div AtLeast(cmd.rpm, 1))

Overflow(d) ==
    /\ Assessed.trip = "NONE" /\ Overflows(d)
    /\ Deny(FALSE)

Govern(d) ==
    /\ Assessed.trip = "NONE" /\ ~Overflows(d)
    /\ decision' = d
    /\ LET applied == AtMost(cmd.torque, TorqueCeiling(d))
       IN  output' = [applied |-> applied, hp |-> applied * AtLeast(cmd.rpm, 1),
                      limit |-> TorqueCeiling(d), current |-> Scaled(d.current, d),
                      level |-> d.level, trust |-> d.trust,
                      membrane |-> Assessed.overall, tripped |-> FALSE,
                      end |-> "governed"]
    /\ membrane' = Assessed

-----------------------------------------------------------------------------
\* The adapter: initialize replaces the manager, a reset only the command.  The
\* interpreter, the module and its function may fail to load each time.
Initialize ==
    /\ created' = TRUE
    /\ python' \in BOOLEAN
    /\ membrane' = FreshMembrane
    /\ decision' = [Rejected EXCEPT !.level = 0, !.trust = Full, !.consistency = Full]
    /\ UNCHANGED <<cmd, output>>

SetCommand(c) ==
    /\ cmd' = c
    /\ UNCHANGED <<created, python, membrane, decision, output>>

Reset == SetCommand(Baseline)

\* evaluate, which is processTorqueCommand of the command in place.
Evaluate ==
    /\ created
    /\ \/ InvalidEvidence \/ MembraneRejects
       \/ /\ ValidCommand(cmd)
          /\ \E d \in Decisions(cmd) : MembraneTrips(d) \/ Overflow(d) \/ Govern(d)
    /\ UNCHANGED <<created, python, cmd>>

Init ==
    /\ created = FALSE /\ python = FALSE /\ cmd = Baseline /\ membrane = FreshMembrane
    /\ decision = [Rejected EXCEPT !.level = 0, !.trust = Full, !.consistency = Full]
    /\ output = [Zero EXCEPT !.end = "none"]

Next ==
    \/ Initialize \/ Reset \/ Evaluate
    \/ \E c \in Commands : SetCommand(c)

Spec == Init /\ [][Next]_vars

-----------------------------------------------------------------------------
\* What is applied never exceeds the request, and its horsepower never the
\* governor's ceiling with the boost the membrane allows.
WithinCeilings ==
    [][ output'.end = "governed" /\ output' # output =>
          /\ output'.applied <= cmd.torque
          /\ One * output'.hp <= decision'.hp * (One + 2)
          /\ output'.tripped => output'.applied = 0 ]_vars

\* In the same state a command with less charge or less health, all else equal,
\* is never granted more torque or current by the fallback.
Worse(a, b) ==
    /\ a # b /\ a = [b EXCEPT !.soc = a.soc, !.soh = a.soh]
    /\ ValidCommand(b) /\ ValidCommand(a)
    /\ a.soc <= b.soc /\ a.soh <= b.soh

WorsePairs == {pair \in Commands \X Commands : Worse(pair[1], pair[2])}

FallbackOf == [c \in {c \in Commands : ValidCommand(c)} |-> Fallback(c)]

WorseNeverMore ==
    \A pair \in WorsePairs :
        LET a == FallbackOf[pair[1]]
            b == FallbackOf[pair[2]]
            state == EvaluateMembrane(Membrane, membrane, pair[1].v, pair[1].i, pair[1].t,
                                      NoDiag, 1)
            gain(d) == IF d.level = 0 /\ d.trust > 180 /\ state.boost > One
                       THEN state.boost ELSE state.overall
        IN  a.torque * gain(a) <= b.torque * gain(b) /\ a.current * gain(a) <= b.current * gain(b)

\* "Keep the emitted denial and latest audit consistent": unless the membrane
\* tripped on a hard bound, the decision on record is the one that was emitted.
AuditMatchesOutput ==
    [][ output' # output /\ output'.end \in {"rejected", "governed"} =>
            /\ output'.level = decision'.level
            /\ output'.trust = decision'.trust ]_vars
=============================================================================
