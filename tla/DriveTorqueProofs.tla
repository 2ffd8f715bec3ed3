------------------------- MODULE DriveTorqueProofs -------------------------
(***************************************************************************)
(* Proofs about the managers that ration torque.  Of the two of            *)
(* DriveTorque: what the governed one emits stays within the governor's    *)
(* ceilings and agrees with the decision on record, and the direct one     *)
(* recovers along its ramp.  Of the regenerative braking manager: what it  *)
(* allows stays below pedal, power and protections, rises no faster than   *)
(* the slew limit, and never grows when a sample gets worse.               *)
(***************************************************************************)
EXTENDS DriveTorque, RegenTwin, TLAPS

-----------------------------------------------------------------------------
(***************************************************************************)
(* The membrane.  Under a valid configuration every factor is a number,    *)
(* so the clamps around their product do what they promise.                *)
(***************************************************************************)
Trips ==
    {"NONE", "INVALID_INPUT", "NUMERICAL_FAILURE", "CRITICAL_UNDERVOLTAGE_SAG",
     "CRITICAL_OVERVOLTAGE_SURGE", "CRITICAL_OVERTEMPERATURE", "BMS_SAFETY_FAULT"}

MembraneStates ==
    [current : Int, regen : Int, slope : Int, lastT : Int,
     overall : 0..One, boost : 0..(One + 2), trip : Trips]

\* A clamped number lies between its bounds.
LEMMA ClampRange ==
    ASSUME NEW x \in Int, NEW low \in Int, NEW high \in Int, low <= high
    PROVE  Clamp(x, low, high) \in low..high
BY DEF Clamp

LEMMA FreshIsState == FreshMembrane \in MembraneStates
BY DEF FreshMembrane, MembraneStates, Trips, One

\* A denial publishes its verdict over the history of the state.
LEMMA DeniedIsState ==
    ASSUME NEW s \in MembraneStates, NEW reason \in Trips
    PROVE  Denied(s, reason) \in MembraneStates
<1>1. 0 \in 0..One /\ 0 \in 0..(One + 2)
  BY DEF One
<1> HIDE DEF One, Trips
<1> QED
  BY <1>1 DEF Denied, MembraneStates

\* The numbers of a valid configuration, and what divides by them.
MembraneNumbers(m) ==
    /\ m.minV \in Int /\ m.sagV \in Int /\ m.maxV \in Int /\ m.sagDamping \in Int
    /\ m.maxDischarge \in Int /\ m.maxCharge \in Int /\ m.spikeAlpha \in Int
    /\ m.surgeRate \in Int /\ m.surgeDamping \in Int
    /\ m.softT \in Int /\ m.hardT \in Int /\ m.tau \in Int
    /\ m.softImbalance \in Int /\ m.hardImbalance \in Int /\ m.driftGain \in Int
    /\ m.sagV - m.minV > 0
    /\ m.maxDischarge > 0 /\ m.maxCharge > 0 /\ m.surgeRate > 0 /\ m.tau > 0
    /\ m.hardT - m.softT > 0 /\ m.hardImbalance - m.softImbalance > 0

LEMMA ValidNumbers ==
    ASSUME NEW m, ValidMembraneConfig(m)
    PROVE  MembraneNumbers(m)
<1>1. Finite \subseteq Int
  BY DoublesAssumption DEF Finite
<1>2. \A x \in {m.minV, m.sagV, m.maxV, m.sagDamping, m.maxDischarge, m.maxCharge,
               m.spikeAlpha, m.surgeRate, m.surgeDamping, m.softT, m.hardT, m.tau,
               m.softImbalance, m.hardImbalance, m.driftGain} : x \in Int
  BY <1>1 DEF ValidMembraneConfig
<1>3. /\ m.sagV > m.minV /\ m.hardT > m.softT /\ m.hardImbalance > m.softImbalance
      /\ m.maxDischarge > 0 /\ m.maxCharge > 0 /\ m.surgeRate > 0 /\ m.tau > 0
  BY DEF ValidMembraneConfig
<1> QED
  BY <1>2, <1>3 DEF MembraneNumbers

\* The five factors of an evaluation are numbers.
LEMMA FactorsAreInt ==
    ASSUME NEW m, MembraneNumbers(m), NEW s \in MembraneStates,
           NEW v \in Int, NEW i \in Int, NEW t \in Int, NEW dt \in Int, dt > 0,
           NEW d, d.present => d.imbalance \in Int
    PROVE  /\ Sag(m, v) \in Int /\ Spike(m, s, i) \in Int /\ Surge(m, s, i, dt) \in Int
           /\ Thermal(m, s, t, dt) \in Int /\ Drift(m, d) \in Int
           /\ FilteredCurrent(m, s, i) \in Int /\ FilteredRegen(s, i, dt) \in Int
           /\ Slope(m, s, t, dt) \in Int
<1> USE DEF MembraneNumbers
<1>1. s.current \in Int /\ s.regen \in Int /\ s.slope \in Int /\ s.lastT \in Int
  BY DEF MembraneStates
<1>2. Sag(m, v) \in Int
  BY DEF Share, Sag, One
<1>3. FilteredCurrent(m, s, i) \in Int
  BY <1>1 DEF Share, FilteredCurrent, One
<1>4. Spike(m, s, i) \in Int
  <2> DEFINE bound == IF i >= 0 THEN m.maxDischarge ELSE m.maxCharge
  <2>1. bound \in Int /\ bound > 0
    OBVIOUS
  <2>2. Abs(i - FilteredCurrent(m, s, i)) \in Int
    BY <1>3 DEF Abs
  <2>3. One - Share(One, Abs(i - FilteredCurrent(m, s, i)), bound) \in Int
    BY <2>1, <2>2 DEF Share, One
  <2> QED
    BY <2>3, ClampRange DEF Spike, One
<1>5. FilteredRegen(s, i, dt) \in Int
  BY <1>1 DEF Share, FilteredRegen
<1>6. Surge(m, s, i, dt) \in Int
  <2> DEFINE rate == (FilteredRegen(s, i, dt) - s.regen) \div dt
  <2>1. rate \in Int
    BY <1>1, <1>5
  <2>2. AtMost(rate - m.surgeRate, m.surgeRate) \in Int
    BY <2>1 DEF AtMost
  <2>3. Share(m.surgeDamping, AtMost(rate - m.surgeRate, m.surgeRate), m.surgeRate) \in Int
    BY <2>2 DEF Share
  <2> QED
    BY <2>1, <2>3 DEF Surge, One
<1>7. Slope(m, s, t, dt) \in Int
  <2>1. (t - s.lastT) \div dt - s.slope \in Int
    BY <1>1
  <2> QED
    BY <1>1, <2>1 DEF Share, Slope
<1>8. Thermal(m, s, t, dt) \in Int
  <2>1. AtMost(Abs(Slope(m, s, t, dt)), 3) \in Int
    BY <1>7 DEF AtMost, Abs
  <2>2. Share(5, t - m.softT, m.hardT - m.softT) \in Int
    BY DEF Share
  <2> DEFINE x == One - (IF t > m.softT THEN Share(5, t - m.softT, m.hardT - m.softT) ELSE 0)
                      - AtMost(Abs(Slope(m, s, t, dt)), 3)
  <2>3. x \in Int
    BY <2>1, <2>2 DEF One
  <2>4. Thermal(m, s, t, dt) = Clamp(x, 2, One)
    BY DEF Thermal
  <2> HIDE DEF x
  <2> QED
    BY <2>3, <2>4, ClampRange DEF One
<1>9. Drift(m, d) \in Int
  <2>1. CASE d.present
    <3>1. AtMost(d.imbalance, m.hardImbalance) - m.softImbalance \in Int
      BY <2>1 DEF AtMost
    <3> QED
      BY <3>1 DEF Share, Drift, One
  <2>2. CASE ~d.present
    BY <2>2 DEF Drift, One
  <2> QED
    BY <2>1, <2>2
<1> QED
  BY <1>2, <1>3, <1>4, <1>5, <1>6, <1>7, <1>8, <1>9

\* The overall stability is at most one, the boost at most a fifth above it.
LEMMA OverallRange ==
    ASSUME NEW m, MembraneNumbers(m), NEW s \in MembraneStates,
           NEW v \in Int, NEW i \in Int, NEW t \in Int, NEW dt \in Int, dt > 0,
           NEW d, d.present => d.imbalance \in Int
    PROVE  /\ Overall(m, s, v, i, t, d, dt) \in 1..One
           /\ Boost(m, Overall(m, s, v, i, t, d, dt), t) \in 1..(One + 2)
<1>1. /\ Sag(m, v) \in Int /\ Spike(m, s, i) \in Int /\ Surge(m, s, i, dt) \in Int
      /\ Thermal(m, s, t, dt) \in Int /\ Drift(m, d) \in Int
  BY FactorsAreInt, ZenonT(60)
<1> DEFINE product == Sag(m, v) * Spike(m, s, i) * Surge(m, s, i, dt)
                        * Thermal(m, s, t, dt) * Drift(m, d)
           raw == product \div 10000
<1>2. raw \in Int
  BY <1>1
<1>3. Overall(m, s, v, i, t, d, dt) = Clamp(raw, 1, One)
  BY DEF Overall
<1> HIDE DEF product, raw
<1>4. Overall(m, s, v, i, t, d, dt) \in 1..One
  BY <1>2, <1>3 DEF Clamp, One
<1>5. ASSUME NEW x \in 1..One
      PROVE  Boost(m, x, t) \in 1..(One + 2)
  <2>1. x \in 1..10 /\ m.softT \in Int
    BY DEF One, MembraneNumbers
  <2> QED
    BY <2>1 DEF Boost, One
<1> QED
  BY <1>4, <1>5

\* Whatever the membrane is asked, its verdict is a state again, and without a
\* trip it grants at least a tenth.
LEMMA MembraneVerdict ==
    ASSUME NEW m, ValidMembraneConfig(m), NEW s \in MembraneStates,
           NEW v, NEW i, NEW t, NEW d, NEW dt
    PROVE  EvaluateMembrane(m, s, v, i, t, d, dt) \in MembraneStates
<1>0. MembraneNumbers(m) /\ Finite \subseteq Int
  BY ValidNumbers, DoublesAssumption DEF Finite
<1>1. CASE ~ValidMembraneInput(v, i, t, d, dt)
  BY <1>1, DeniedIsState DEF EvaluateMembrane, Trips
<1>2. CASE ValidMembraneInput(v, i, t, d, dt)
  <2>1. /\ v \in Int /\ i \in Int /\ t \in Int /\ dt \in Int /\ dt > 0
        /\ d.present => d.imbalance \in Int
    BY <1>0, <1>2 DEF ValidMembraneInput, IsFinite
  <2>2. HardTrip(m, v, t, d) \in Trips
    BY <1>0, <2>1 DEF HardTrip, Trips, MembraneNumbers
  <2>3. CASE HardTrip(m, v, t, d) # "NONE"
    BY <1>2, <2>2, <2>3, DeniedIsState DEF EvaluateMembrane
  <2>4. CASE HardTrip(m, v, t, d) = "NONE" /\ ~Representable(s, i, t)
    BY <1>2, <2>4, DeniedIsState DEF EvaluateMembrane, Trips
  <2>5. CASE HardTrip(m, v, t, d) = "NONE" /\ Representable(s, i, t)
    <3> DEFINE overall == Overall(m, s, v, i, t, d, dt)
    <3>1. overall \in 1..One /\ Boost(m, overall, t) \in 1..(One + 2)
      BY <1>0, <2>1, OverallRange
    <3>2. /\ FilteredCurrent(m, s, i) \in Int /\ FilteredRegen(s, i, dt) \in Int
          /\ Slope(m, s, t, dt) \in Int
      BY <1>0, <2>1, FactorsAreInt
    <3>3. EvaluateMembrane(m, s, v, i, t, d, dt) =
             [current |-> FilteredCurrent(m, s, i), regen |-> FilteredRegen(s, i, dt),
              slope |-> Slope(m, s, t, dt), lastT |-> t, overall |-> overall,
              boost |-> Boost(m, overall, t), trip |-> "NONE"]
      BY <1>2, <2>5 DEF EvaluateMembrane
    <3> HIDE DEF overall
    <3> QED
      BY <2>1, <3>1, <3>2, <3>3 DEF MembraneStates, Trips, One
  <2> QED
    BY <2>3, <2>4, <2>5
<1> QED
  BY <1>1, <1>2

-----------------------------------------------------------------------------
(***************************************************************************)
(* The governed manager.                                                   *)
(***************************************************************************)

\* A trip or an evaluation, none of the adapter's calls moves the membrane out of
\* its states.
LEMMA AssessedIsState ==
    ASSUME membrane \in MembraneStates
    PROVE  Assessed \in MembraneStates
  BY MembraneVerdict, TorqueAssumption DEF Assessed

LEMMA GovernedKeepsMembrane ==
    ASSUME membrane \in MembraneStates, [Next]_vars
    PROVE  membrane' \in MembraneStates
  <1>1. CASE Initialize
    BY <1>1, FreshIsState DEF Initialize
  <1>2. CASE Reset \/ \E c \in Commands : SetCommand(c)
    BY <1>2 DEF Reset, SetCommand
  <1>3. CASE Evaluate
    <2>1. membrane' = membrane \/ membrane' = Assessed
      BY <1>3 DEF Evaluate, InvalidEvidence, MembraneRejects, Deny, MembraneTrips,
                  Overflow, Govern
    <2> QED
      BY <2>1, AssessedIsState
  <1>4. CASE UNCHANGED vars
    BY <1>4 DEF vars
  <1> QED
    BY <1>1, <1>2, <1>3, <1>4 DEF Next

\* What an evaluation emits: the denial with the rejected decision on record, the
\* denial of a trip, or the governed output of a decision that is on record.
LEMMA EvaluateEmits ==
    ASSUME Evaluate
    PROVE  \/ /\ decision' = Rejected
              /\ \E tripped \in BOOLEAN : output' = [Zero EXCEPT !.tripped = tripped]
           \/ output'.end = "tripped"
           \/ /\ ValidCommand(cmd) /\ Assessed.trip = "NONE"
              /\ \E d \in Decisions(cmd) : Govern(d)
  <1>1. CASE InvalidEvidence \/ MembraneRejects
    BY <1>1 DEF InvalidEvidence, MembraneRejects, Deny
  <1>2. ASSUME ValidCommand(cmd), NEW d \in Decisions(cmd),
               MembraneTrips(d) \/ Overflow(d) \/ Govern(d)
        PROVE  \/ /\ decision' = Rejected
                  /\ \E tripped \in BOOLEAN : output' = [Zero EXCEPT !.tripped = tripped]
               \/ output'.end = "tripped"
               \/ Govern(d) /\ Assessed.trip = "NONE"
    BY <1>2 DEF MembraneTrips, Overflow, Deny, Govern, Zero
  <1> QED
    BY <1>1, <1>2 DEF Evaluate

\* Only an evaluation emits anything.
LEMMA OnlyEvaluateEmits ==
    ASSUME [Next]_vars, output' # output
    PROVE  Evaluate
  BY DEF Next, vars, Initialize, Reset, SetCommand

\* A step of a vehicle is one of the governed manager, one of the direct manager,
\* or neither's.
LEMMA DriveSteps ==
    ASSUME [DriveNext]_driveVars
    PROVE  [Next]_vars /\ [DirectNext]_directVars
  BY DEF DriveNext, driveVars

\* The level and trust emitted with a denial or a governed output are those of
\* the decision on record.
THEOREM AuditCorrect == DriveSpec => AuditMatchesOutput
  <1>1. ASSUME [Next]_vars, output' # output, output'.end \in {"rejected", "governed"}
        PROVE  output'.level = decision'.level /\ output'.trust = decision'.trust
    <2>1. Evaluate
      BY <1>1, OnlyEvaluateEmits
    <2>2. CASE decision' = Rejected
                 /\ \E tripped \in BOOLEAN : output' = [Zero EXCEPT !.tripped = tripped]
      BY <2>2 DEF Rejected, Zero
    <2>3. CASE output'.end = "tripped"
      BY <1>1, <2>3
    <2>4. CASE \E d \in Decisions(cmd) : Govern(d)
      BY <2>4 DEF Govern
    <2> QED
      BY <2>1, <2>2, <2>3, <2>4, EvaluateEmits
  <1>2. [DriveNext]_driveVars =>
           [output' # output /\ output'.end \in {"rejected", "governed"} =>
              output'.level = decision'.level /\ output'.trust = decision'.trust]_vars
    BY <1>1, DriveSteps
  <1> QED
    BY <1>2, PTL DEF DriveSpec, AuditMatchesOutput

-----------------------------------------------------------------------------
(***************************************************************************)
(* Products and quotients.                                                 *)
(***************************************************************************)
LEMMA NatProduct ==
    ASSUME NEW a \in Nat, NEW b \in Nat
    PROVE  a * b \in Nat
  BY SMT

LEMMA ProductMonotone ==
    ASSUME NEW a \in Nat, NEW b \in Nat, NEW c \in Nat, b <= c
    PROVE  a * b <= a * c
  <1>1. c - b \in Nat
    OBVIOUS
  <1>2. a * (c - b) \in Nat
    BY <1>1, NatProduct
  <1>3. a * c = a * b + a * (c - b)
    BY <1>1, SMT
  <1>4. a * b \in Nat /\ a * c \in Nat
    BY NatProduct
  <1> QED
    BY <1>2, <1>3, <1>4

\* What is at most a quotient, times the divisor, is at most the dividend.
LEMMA QuotientBound ==
    ASSUME NEW x \in Int, NEW q \in Int, NEW r \in Nat \ {0}, x <= q \div r
    PROVE  x * r <= q
  <1> DEFINE k == q \div r
  <1>1. k \in Int /\ r * k <= q
    BY SMT
  <1>2. k - x \in Nat
    BY <1>1
  <1> HIDE DEF k
  <1>3. r * (k - x) \in Nat
    BY <1>2, NatProduct
  <1>4. r * (k - x) = r * k - x * r
    BY <1>1, SMT
  <1>5. r * k \in Int /\ x * r \in Int
    BY <1>1, SMT
  <1> QED
    BY <1>1, <1>3, <1>4, <1>5

LEMMA QuotientIsNat ==
    ASSUME NEW a \in Nat, NEW b \in Nat \ {0}
    PROVE  a \div b \in 0..a
  BY SMT

\* The signals of a valid command.
LEMMA SignalsAreNat ==
    ASSUME NEW c, ValidCommand(c)
    PROVE  /\ c.torque \in Nat /\ c.rpm \in Nat /\ AtLeast(c.rpm, 1) \in Nat \ {0}
           /\ Mechanical(c) \in Nat /\ Electrical(c) \in Nat
  <1>1. Finite \subseteq Int
    BY DoublesAssumption DEF Finite
  <1>2. c.torque \in Nat /\ c.rpm \in Nat /\ c.v \in Nat /\ c.i \in Nat
    <2>1. \A x \in {c.torque, c.rpm, c.v, c.i, c.soc, c.soh, c.t} : x \in Int
      BY <1>1 DEF ValidCommand, IsFinite
    <2>2. c.torque \in Int /\ c.rpm \in Int /\ c.v \in Int /\ c.i \in Int
      BY <2>1
    <2>3. c.torque >= 0 /\ c.rpm >= 0 /\ c.v > 0 /\ c.i >= 0
      BY DEF ValidCommand
    <2> QED
      BY <2>2, <2>3
  <1>3. AtLeast(c.rpm, 1) \in Nat \ {0}
    BY <1>2 DEF AtLeast
  <1> QED
    BY <1>2, <1>3, NatProduct DEF Mechanical, Electrical

\* The governor answers a valid command with a horsepower ceiling that is a
\* natural, whichever of the two it is and whatever the Python one returned.
LEMMA CeilingIsNat ==
    ASSUME NEW c, ValidCommand(c), NEW d \in Decisions(c)
    PROVE  d.hp \in Nat /\ d.torque \in Int
  <1>1. CASE python
    <2>1. PICK a \in PythonAnswers : d = IF ValidAnswer(a) THEN a ELSE Rejected
      BY <1>1 DEF Decisions
    <2>2. CASE ValidAnswer(a)
      <3>1. Finite \subseteq Int
        BY DoublesAssumption DEF Finite
      <3>2. \A x \in {a.hp, a.torque, a.current} : x \in Int /\ x >= 0
        BY <2>2, <3>1 DEF ValidAnswer, IsFinite
      <3>3. a.hp \in Int /\ a.hp >= 0 /\ a.torque \in Int
        BY <3>2
      <3> QED
        BY <2>1, <2>2, <3>3
    <2>3. CASE ~ValidAnswer(a)
      BY <2>1, <2>3 DEF Rejected
    <2> QED
      BY <2>2, <2>3
  <1>2. CASE ~python
    <2>1. GovernorLevel(c) \in 0..3
      BY DEF GovernorLevel
    <2>2. Share100(GovernorLevel(c)) \in {25, 65, 90, 100}
      <3>1. \A level \in 0..3 : Share100(level) \in {25, 65, 90, 100}
        BY DEF Share100
      <3> QED
        BY <2>1, <3>1
    <2> DEFINE share == Share100(GovernorLevel(c))
               power == AtLeast(AtLeast(Mechanical(c), Electrical(c)), 1)
               asked == IF c.torque > 0 THEN c.torque ELSE 400
    <2>3. power \in Nat /\ asked \in Nat
      BY SignalsAreNat DEF AtLeast
    <2>4. share \in Nat
      BY <2>2
    <2>5. d.hp = (power * share) \div 100 /\ d.torque = (asked * share) \div 100
      BY <1>2 DEF Decisions, Fallback, Share
    <2> HIDE DEF share, power, asked
    <2>6. power * share \in Nat /\ asked * share \in Nat
      BY <2>3, <2>4, NatProduct
    <2> QED
      BY <2>5, <2>6, QuotientIsNat
  <1> QED
    BY <1>1, <1>2

\* The scaling of a ceiling is at most the boost.
LEMMA GainRange ==
    ASSUME NEW d, Assessed \in MembraneStates
    PROVE  Gain(d) \in 0..(One + 2)
  BY DEF Gain, MembraneStates, One

\* What the governed manager applies: at most the request, with at most the boosted
\* horsepower of the decision it puts on record.
LEMMA GovernWithinCeilings ==
    ASSUME membrane \in MembraneStates, ValidCommand(cmd), NEW d \in Decisions(cmd),
           Govern(d)
    PROVE  /\ output'.applied <= cmd.torque
           /\ One * output'.hp <= decision'.hp * (One + 2)
           /\ ~output'.tripped
  <1> DEFINE r == AtLeast(cmd.rpm, 1)
             g == Gain(d)
             h == (d.hp * g) \div 10
             t == (d.torque * g) \div 10
             q == h \div r
             ceiling == IF t > q THEN q ELSE t
             applied == IF cmd.torque > ceiling THEN ceiling ELSE cmd.torque
  <1>1. /\ cmd.torque \in Nat /\ r \in Nat \ {0} /\ d.hp \in Nat /\ d.torque \in Int
        /\ g \in 0..12
    <2>1. g \in 0..12
      BY AssessedIsState, GainRange DEF One
    <2>2. cmd.torque \in Nat /\ r \in Nat \ {0}
      BY SignalsAreNat
    <2>3. d.hp \in Nat /\ d.torque \in Int
      BY CeilingIsNat
    <2> QED
      BY <2>1, <2>2, <2>3
  <1>2. TorqueCeiling(d) = ceiling
    BY DEF TorqueCeiling, Scaled, AtMost, One
  <1>3. /\ output'.applied = applied /\ output'.hp = applied * r
        /\ ~output'.tripped /\ decision' = d
    BY <1>2 DEF Govern, AtMost
  <1> HIDE DEF r, g
  <1>4. d.hp * g \in Nat /\ d.torque * g \in Int
    <2>1. g \in Nat
      BY <1>1
    <2> QED
      BY <1>1, <2>1, NatProduct
  <1>5. h \in Int /\ t \in Int /\ q \in Int /\ 10 * h <= d.hp * g
    BY <1>1, <1>4
  <1> HIDE DEF h, t
  <1>6. applied \in Int /\ applied <= cmd.torque /\ applied <= h \div r
    BY <1>1, <1>5
  <1> HIDE DEF applied
  <1>7. applied * r <= h
    BY <1>1, <1>5, <1>6, QuotientBound
  <1>8. d.hp * g <= d.hp * 12
    <2>1. g \in Nat /\ 12 \in Nat /\ g <= 12
      BY <1>1
    <2> QED
      BY <1>1, <2>1, ProductMonotone
  <1>9. applied * r \in Int
    BY <1>1, <1>6
  <1>10. 10 * (applied * r) <= d.hp * 12
    BY <1>1, <1>4, <1>5, <1>7, <1>8, <1>9
  <1> QED
    BY <1>3, <1>6, <1>10 DEF One

\* What is applied never exceeds the request, nor its horsepower the governor's
\* ceiling with the boost of the membrane.
THEOREM CeilingsCorrect == DriveSpec => WithinCeilings
  <1>1. DriveInit => membrane \in MembraneStates
    BY FreshIsState DEF DriveInit, Init
  <1>2. membrane \in MembraneStates /\ [DriveNext]_driveVars => (membrane \in MembraneStates)'
    BY GovernedKeepsMembrane, DriveSteps
  <1>3. ASSUME membrane \in MembraneStates, [Next]_vars,
               output' # output, output'.end = "governed"
        PROVE  /\ output'.applied <= cmd.torque
               /\ One * output'.hp <= decision'.hp * (One + 2)
               /\ output'.tripped => output'.applied = 0
    <2>1. Evaluate
      BY <1>3, OnlyEvaluateEmits
    <2>2. CASE \E tripped \in BOOLEAN : output' = [Zero EXCEPT !.tripped = tripped]
      BY <1>3, <2>2 DEF Zero
    <2>3. CASE output'.end = "tripped"
      BY <1>3, <2>3
    <2>4. CASE ValidCommand(cmd) /\ \E d \in Decisions(cmd) : Govern(d)
      BY <1>3, <2>4, GovernWithinCeilings
    <2> QED
      BY <2>1, <2>2, <2>3, <2>4, EvaluateEmits
  <1>4. membrane \in MembraneStates /\ [DriveNext]_driveVars =>
           [output'.end = "governed" /\ output' # output =>
              /\ output'.applied <= cmd.torque
              /\ One * output'.hp <= decision'.hp * (One + 2)
              /\ output'.tripped => output'.applied = 0]_vars
    BY <1>3, DriveSteps
  <1> QED
    BY <1>1, <1>2, <1>4, PTL DEF DriveSpec, WithinCeilings

-----------------------------------------------------------------------------
(***************************************************************************)
(* The direct manager.  Its ramp starts at the limit it kept, so the       *)
(* induction needs that the limit kept never lies above the one emitted:   *)
(* a denial or a trip clears both, a new configuration only the kept one,  *)
(* and an allowed cycle keeps what it emits, which is never negative.      *)
(***************************************************************************)

\* The numbers of a valid configuration, and what divides by them.
ConfigNumbers(c) ==
    /\ c.healthW \in Int /\ c.entropyW \in Int /\ c.metricW \in Int
    /\ c.eco \in Int /\ c.normal \in Int /\ c.sport \in Int
    /\ c.least \in 0..Whole /\ c.maxDerate \in Int
    /\ c.socCritical \in Int /\ c.socLow \in Int /\ c.socLow > c.socCritical
    /\ c.peak \in Nat \ {0} /\ c.base \in Nat \ {0} /\ c.top \in Int /\ c.power \in Nat
    /\ c.discharge \in Nat /\ c.rise \in Nat /\ c.boost \in Nat /\ c.cold \in Int
    /\ c.soft \in Int /\ c.hard \in Int /\ c.hard > c.soft
    /\ c.motorSoft \in Int /\ c.motorMax \in Int /\ c.motorMax > c.motorSoft
    /\ c.inverterSoft \in Int /\ c.inverterMax \in Int /\ c.inverterMax > c.inverterSoft
    /\ c.efficient \in Int
    /\ c.drive \in DriveModes

LEMMA ValidConfigNumbers ==
    ASSUME NEW c, ValidTorqueConfig(c)
    PROVE  ConfigNumbers(c)
  <1>1. Finite \subseteq Int
    BY DoublesAssumption DEF Finite
  <1>2. \A x \in {c.healthW, c.entropyW, c.metricW, c.eco, c.normal, c.sport, c.least,
                  c.maxDerate, c.socCritical, c.socLow, c.socRegen, c.socFull} :
            x \in 0..Whole
    BY DEF ValidTorqueConfig
  <1>3. \A x \in {c.peak, c.base, c.top, c.power, c.efficient, c.discharge, c.charge,
                  c.rise, c.fall, c.soft, c.hard, c.cold, c.motorSoft, c.motorMax,
                  c.inverterSoft, c.inverterMax, c.duration, c.boost} : x \in Int
    BY <1>1 DEF ValidTorqueConfig
  <1>4. /\ c.healthW \in 0..Whole /\ c.entropyW \in 0..Whole /\ c.metricW \in 0..Whole
        /\ c.eco \in 0..Whole /\ c.normal \in 0..Whole /\ c.sport \in 0..Whole
        /\ c.least \in 0..Whole /\ c.maxDerate \in 0..Whole
        /\ c.socCritical \in 0..Whole /\ c.socLow \in 0..Whole
    BY <1>2
  <1>5. /\ c.peak \in Int /\ c.base \in Int /\ c.top \in Int /\ c.power \in Int
        /\ c.discharge \in Int /\ c.rise \in Int /\ c.boost \in Int /\ c.cold \in Int
        /\ c.soft \in Int /\ c.hard \in Int /\ c.motorSoft \in Int /\ c.motorMax \in Int
        /\ c.inverterSoft \in Int /\ c.inverterMax \in Int /\ c.efficient \in Int
    BY <1>3
  <1>6. /\ c.socLow > c.socCritical /\ c.peak > 0 /\ c.base > 0 /\ c.power > 0
        /\ c.discharge > 0 /\ c.rise >= 0 /\ c.boost > 0 /\ c.hard > c.soft
        /\ c.motorMax > c.motorSoft /\ c.inverterMax > c.inverterSoft
        /\ c.drive \in DriveModes
    BY DEF ValidTorqueConfig
  <1> QED
    BY <1>4, <1>5, <1>6 DEF ConfigNumbers, Whole

\* The numbers of accepted arguments.
ArgumentNumbers(s) ==
    /\ s.v \in Int /\ s.i \in Int /\ s.t \in Int /\ s.rpm \in Nat /\ s.dt \in Nat \ {0}
    /\ s.phi \in Nat /\ s.soc \in Nat /\ s.entropy \in Nat /\ s.health \in Nat
    /\ s.diag.present => s.diag.imbalance \in Int
    /\ s.diag.weak \in Int /\ s.trace \in Int

LEMMA ValidArgumentNumbers ==
    ASSUME NEW s \in Inputs, ValidArguments(s), IsFinite(s.trace)
    PROVE  ArgumentNumbers(s)
  <1>1. Finite \subseteq Int
    BY DoublesAssumption DEF Finite
  <1>2. \A x \in {s.v, s.i, s.t, s.rpm, s.dt, s.phi} : x \in Int
    BY <1>1 DEF ValidArguments
  <1>3. \A x \in {s.soc, s.entropy, s.degradation, s.health} : x \in 0..Whole
    BY DEF ValidArguments
  <1>4. /\ s.v \in Int /\ s.i \in Int /\ s.t \in Int /\ s.rpm \in Int /\ s.dt \in Int
        /\ s.phi \in Int
    BY <1>2
  <1>5. s.soc \in 0..Whole /\ s.entropy \in 0..Whole /\ s.health \in 0..Whole
    BY <1>3
  <1>6. s.rpm >= 0 /\ s.dt > 0 /\ s.phi >= 0
    BY DEF ValidArguments
  <1>7. s.trace \in Int /\ (s.diag.present => s.diag.imbalance \in Int)
    BY <1>1 DEF ValidArguments, IsFinite
  <1>8. s.diag.weak \in Int
    BY DirectAssumption
  <1> QED
    BY <1>4, <1>5, <1>6, <1>7, <1>8 DEF ArgumentNumbers, Whole

\* The operators the limits are built from keep to the numbers.
LEMMA PartIsInt == \A x, share \in Int : Part(x, share) \in Int
  BY DEF Part, Whole

LEMMA PartIsNat == \A x, share \in Nat : Part(x, share) \in Nat
  <1> SUFFICES ASSUME NEW x \in Nat, NEW share \in Nat
               PROVE  Part(x, share) \in Nat
    OBVIOUS
  <1>1. x * share \in Nat
    BY NatProduct
  <1> QED
    BY <1>1 DEF Part, Whole

LEMMA BoundsAreInt ==
    \A x, y \in Int : AtLeast(x, y) \in Int /\ AtMost(x, y) \in Int /\ Abs(x) \in Nat
  BY DEF AtLeast, AtMost, Abs

LEMMA WeightedIsInt == \A w, x \in Int : Weighted(w, x) \in Int
  BY PartIsInt DEF Weighted, Whole

LEMMA TaperIsInt ==
    \A t, soft, hard, most \in Int : hard > soft => Taper(t, soft, hard, most) \in Int
  <1> SUFFICES ASSUME NEW t \in Int, NEW soft \in Int, NEW hard \in Int, NEW most \in Int,
                      hard > soft
               PROVE  Taper(t, soft, hard, most) \in Int
    OBVIOUS
  <1> DEFINE room == hard - soft
             over == AtMost(t - soft, room)
  <1>1. room \in Nat \ {0} /\ over \in Int
    BY DEF AtMost
  <1>2. Taper(t, soft, hard, most) = IF t < soft THEN Whole ELSE Whole - (most * over) \div room
    BY DEF Taper
  <1> HIDE DEF room, over
  <1>3. most * over \in Int
    BY <1>1
  <1>4. (most * over) \div room \in Int
    BY <1>1, <1>3
  <1> QED
    BY <1>2, <1>4 DEF Whole

-----------------------------------------------------------------------------
\* The reductions a limit is scaled by are numbers.
LEMMA DsScalingIsInt ==
    ASSUME NEW s, ConfigNumbers(config), ArgumentNumbers(s)
    PROVE  DsScaling(s) \in Int
  <1>1. /\ config.healthW \in Int /\ config.entropyW \in Int /\ config.metricW \in Int
        /\ s.health \in Int /\ s.entropy \in Int /\ s.phi \in Int /\ s.trace \in Int
    BY DEF ConfigNumbers, ArgumentNumbers
  <1>2. HealthScaling(s) \in Int
    <2>1. 50 + s.health \div 2 \in Int
      BY <1>1
    <2> QED
      BY <1>1, <2>1, WeightedIsInt DEF HealthScaling
  <1>3. EntropyScaling(s) \in Int
    <2> DEFINE phase == Whole - AtLeast(AtMost(s.phi, 200) - Whole, 0) \div 5
               part == Part(Whole - (3 * s.entropy) \div 10, phase)
    <2>1. phase \in Int /\ Whole - (3 * s.entropy) \div 10 \in Int
      BY <1>1 DEF AtLeast, AtMost, Whole
    <2> HIDE DEF phase
    <2>2. part \in Int
      BY <2>1, PartIsInt
    <2> HIDE DEF part
    <2>3. AtLeast(part, 60) \in Int
      BY <2>2 DEF AtLeast
    <2>4. EntropyScaling(s) = Weighted(config.entropyW, AtLeast(part, 60))
      BY DEF EntropyScaling, part, phase
    <2>5. config.entropyW \in Int
      BY <1>1
    <2> QED
      BY <2>3, <2>4, <2>5, WeightedIsInt
  <1>4. MetricScaling(s) \in Int
    <2> DEFINE far == Whole + (4 * Abs(s.trace - 200)) \div 10
               part == (Whole * Whole) \div far
    <2>1. far \in Nat \ {0}
      BY <1>1 DEF Abs, Whole
    <2> HIDE DEF far
    <2>2. part \in Int
      BY <2>1 DEF Whole
    <2> HIDE DEF part
    <2>3. AtLeast(part, 50) \in Int
      BY <2>2 DEF AtLeast
    <2>4. MetricScaling(s) = Weighted(config.metricW, AtLeast(part, 50))
      BY DEF MetricScaling, part, far
    <2>5. config.metricW \in Int
      BY <1>1
    <2> QED
      BY <2>3, <2>4, <2>5, WeightedIsInt
  <1> QED
    BY <1>2, <1>3, <1>4, PartIsInt DEF DsScaling

LEMMA ThermalScalingIsInt ==
    ASSUME NEW s, ConfigNumbers(config), ArgumentNumbers(s),
           heat \in [motor : Int, inverter : Int]
    PROVE  ThermalScaling(s) \in Int
  <1>1. /\ s.t \in Int /\ heat.motor \in Int /\ heat.inverter \in Int
        /\ config.cold \in Int /\ config.soft \in Int /\ config.hard \in Int
        /\ config.hard > config.soft
        /\ config.motorSoft \in Int /\ config.motorMax \in Int
        /\ config.motorMax > config.motorSoft
        /\ config.inverterSoft \in Int /\ config.inverterMax \in Int
        /\ config.inverterMax > config.inverterSoft
    BY DEF ConfigNumbers, ArgumentNumbers
  <1>2. ColdScaling(s.t) \in Int
    <2>1. CASE s.t >= config.cold \/ config.cold = 0
      BY <2>1 DEF ColdScaling, Whole
    <2>2. CASE ~(s.t >= config.cold \/ config.cold = 0)
      <3> DEFINE depth == Abs(config.cold)
                 near == Whole * (IF config.cold < 0 THEN -s.t ELSE s.t)
      <3>1. depth \in Nat \ {0} /\ near \in Int
        BY <1>1, <2>2 DEF Abs, Whole
      <3>2. ColdScaling(s.t) = AtLeast(near \div depth, 50)
        BY <2>2 DEF ColdScaling
      <3> HIDE DEF depth, near
      <3>3. near \div depth \in Int
        BY <3>1
      <3> QED
        BY <3>2, <3>3 DEF AtLeast
    <2> QED
      BY <2>1, <2>2
  <1>3. /\ Taper(s.t, config.soft, config.hard, 60) \in Int
        /\ Taper(heat.motor, config.motorSoft, config.motorMax, 50) \in Int
        /\ Taper(heat.inverter, config.inverterSoft, config.inverterMax, 40) \in Int
    <2>1. 60 \in Int /\ 50 \in Int /\ 40 \in Int
      OBVIOUS
    <2>2. Taper(s.t, config.soft, config.hard, 60) \in Int
      BY <1>1, <2>1, TaperIsInt
    <2>3. Taper(heat.motor, config.motorSoft, config.motorMax, 50) \in Int
      BY <1>1, <2>1, TaperIsInt
    <2>4. Taper(heat.inverter, config.inverterSoft, config.inverterMax, 40) \in Int
      BY <1>1, <2>1, TaperIsInt
    <2> QED
      BY <2>2, <2>3, <2>4
  <1> DEFINE part == Part(Part(Taper(s.t, config.soft, config.hard, 60), ColdScaling(s.t)),
                 Part(Taper(heat.motor, config.motorSoft, config.motorMax, 50),
                      Taper(heat.inverter, config.inverterSoft, config.inverterMax, 40)))
  <1>4. part \in Int
    BY <1>2, <1>3, PartIsInt
  <1>5. ThermalScaling(s) = AtLeast(part, 30)
    BY DEF ThermalScaling
  <1> HIDE DEF part
  <1> QED
    BY <1>4, <1>5 DEF AtLeast

LEMMA SocScalingIsInt ==
    ASSUME NEW s, ConfigNumbers(config), ArgumentNumbers(s)
    PROVE  SocScaling(s) \in Int
  <1> DEFINE room == config.socLow - config.socCritical
             far == s.soc - config.socCritical
  <1>1. /\ config.socLow \in Int /\ config.socCritical \in Int /\ s.soc \in Int
        /\ room \in Nat \ {0} /\ far \in Int
    BY DEF ConfigNumbers, ArgumentNumbers
  <1>2. (75 * far) \div room \in Int
    <2> HIDE DEF far, room
    <2>1. 75 * far \in Int
      BY <1>1
    <2> QED
      BY <1>1, <2>1
  <1>3. CASE s.soc >= config.socLow
    BY <1>1, <1>3 DEF SocScaling, Whole
  <1>4. CASE s.soc < config.socLow /\ s.soc < config.socCritical
    <2>1. /\ ~(s.soc >= config.socLow) /\ s.soc < config.socCritical
          /\ ~(s.soc \in config.socCritical..(config.socLow - 1))
      BY <1>1, <1>4
    <2>2. SocScaling(s) = 25
      BY <2>1 DEF SocScaling
    <2> QED
      BY <2>2
  <1>5. CASE s.soc < config.socLow /\ ~(s.soc < config.socCritical)
    <2>1. SocScaling(s) = 25 + (75 * far) \div room
      BY <1>1, <1>5 DEF SocScaling
    <2> QED
      BY <1>2, <2>1
  <1> QED
    BY <1>1, <1>3, <1>4, <1>5

LEMMA CellScalingIsInt ==
    ASSUME NEW s, ArgumentNumbers(s)
    PROVE  CellScaling(s) \in Int
  <1>1. CASE ~config.cellAware \/ ~s.diag.present
    BY <1>1 DEF CellScaling, Whole
  <1>2. CASE ~(~config.cellAware \/ ~s.diag.present)
    <2> DEFINE weak == Whole - (15 * s.diag.weak) \div 96
               even == AtLeast(Whole - (2 * AtLeast(s.diag.imbalance - 50, 0)) \div 3, 70)
    <2>1. weak \in Int /\ even \in Int
      BY <1>2 DEF ArgumentNumbers, AtLeast, Whole
    <2>2. CellScaling(s) = AtLeast(Part(weak, even), 70)
      BY <1>2 DEF CellScaling
    <2> HIDE DEF weak, even
    <2>3. Part(weak, even) \in Int
      BY <2>1, PartIsInt
    <2> QED
      BY <2>2, <2>3 DEF AtLeast
  <1> QED
    BY <1>1, <1>2

-----------------------------------------------------------------------------
\* What the induction carries from one call of the direct manager to the next.
DirectInRange ==
    /\ config \in TorqueConfigs /\ ValidTorqueConfig(config)
    /\ heat \in [motor : Int, inverter : Int]
    /\ filter \in MembraneStates

LimitIsEmitted == emitted.drive \in Nat /\ limit \in 0..emitted.drive

DirectInv == DirectInRange /\ LimitIsEmitted

LEMMA JudgedIsState ==
    ASSUME NEW s, DirectInRange
    PROVE  Judged(s) \in MembraneStates
  <1>1. ValidMembraneConfig(config.membrane)
    BY DEF DirectInRange, ValidTorqueConfig
  <1>2. filter \in MembraneStates
    BY DEF DirectInRange
  <1> QED
    BY <1>1, <1>2, MembraneVerdict DEF Judged

\* The manager never asks for less than nothing.
LEMMA BaseTorqueIsNat ==
    ASSUME NEW s, ConfigNumbers(config), ArgumentNumbers(s)
    PROVE  BaseTorque(s) \in Nat
  <1>1. /\ config.peak \in Nat /\ config.power \in Nat /\ config.base \in Nat
        /\ config.top \in Int /\ s.rpm \in Nat
    BY DEF ConfigNumbers, ArgumentNumbers
  <1>2. CASE s.rpm <= config.base
    BY <1>1, <1>2 DEF BaseTorque
  <1>3. CASE ~(s.rpm <= config.base) /\ s.rpm >= config.top
    <2>1. s.rpm \notin (config.base + 1)..(config.top - 1)
      BY <1>1, <1>3
    <2> QED
      BY <1>3, <2>1 DEF BaseTorque
  <1>4. CASE ~(s.rpm <= config.base) /\ ~(s.rpm >= config.top)
    <2>1. s.rpm \in (config.base + 1)..(config.top - 1) /\ s.rpm \in Nat \ {0}
      BY <1>1, <1>4
    <2>2. BaseTorque(s) = AtMost(config.peak, config.power \div s.rpm)
      BY <1>4, <2>1 DEF BaseTorque
    <2>3. config.power \div s.rpm \in Nat
      BY <1>1, <2>1, QuotientIsNat
    <2> QED
      BY <1>1, <2>2, <2>3 DEF AtMost
  <1> QED
    BY <1>2, <1>3, <1>4

LEMMA CombinedIsNat ==
    ASSUME NEW s, DirectInRange, ConfigNumbers(config), ArgumentNumbers(s)
    PROVE  Combined(s) \in Nat
  <1> DEFINE motor == (Whole * BaseTorque(s)) \div config.peak
             product == Part(Part(Part(Part(Part(Part(motor, DsScaling(s)), ThermalScaling(s)),
                          SocScaling(s)), CellScaling(s)), MembraneScaling(s)), ModeFraction)
             back == AtLeast(Whole - DsScaling(s) - config.maxDerate, 0)
  <1>1. motor \in Int
    <2>1. BaseTorque(s) \in Nat /\ config.peak \in Nat \ {0}
      BY BaseTorqueIsNat DEF ConfigNumbers
    <2>2. Whole * BaseTorque(s) \in Nat
      BY <2>1 DEF Whole
    <2> QED
      BY <2>1, <2>2
  <1>2. /\ DsScaling(s) \in Int /\ ThermalScaling(s) \in Int /\ SocScaling(s) \in Int
        /\ CellScaling(s) \in Int
    BY DsScalingIsInt, ThermalScalingIsInt, SocScalingIsInt, CellScalingIsInt
       DEF DirectInRange
  <1>3. MembraneScaling(s) \in Int
    <2>1. Judged(s).overall \in 0..One
      BY JudgedIsState DEF MembraneStates
    <2> QED
      BY <2>1 DEF MembraneScaling, One, Whole
  <1>4. ModeFraction \in Int
    BY DEF ConfigNumbers, ModeFraction, DriveModes
  <1>5. product \in Int
    <2> HIDE DEF motor
    <2> QED
      BY <1>1, <1>2, <1>3, <1>4, PartIsInt
  <1>6. back \in Nat
    <2>1. config.maxDerate \in Int
      BY DEF ConfigNumbers
    <2> QED
      BY <1>2, <2>1 DEF AtLeast, Whole
  <1>7. Combined(s) = Clamp(product, config.least, Whole) + back
    BY DEF Combined
  <1> HIDE DEF product, back
  <1>8. Clamp(product, config.least, Whole) \in Nat
    <2>1. config.least \in 0..Whole
      BY DEF ConfigNumbers
    <2> QED
      BY <1>5, <2>1 DEF Clamp, Whole
  <1> QED
    BY <1>6, <1>7, <1>8

LEMMA TargetIsNat ==
    ASSUME NEW s, DirectInRange, ConfigNumbers(config), ArgumentNumbers(s)
    PROVE  Target(s) \in Nat
  <1>1. Combined(s) \in Nat /\ BaseTorque(s) \in Nat
    BY CombinedIsNat, BaseTorqueIsNat
  <1>2. config.boost \in Nat
    BY DEF ConfigNumbers
  <1>3. Part(Combined(s), config.boost) \in Nat
    BY <1>1, <1>2, PartIsNat
  <1> QED
    BY <1>1, <1>3, PartIsNat DEF Target

\* A quotient is at most any number whose product with the divisor exceeds the
\* dividend.
LEMMA QuotientBelow ==
    ASSUME NEW x \in Nat, NEW d \in Nat, NEW r \in Nat \ {0}, x * r > d
    PROVE  d \div r <= x
  <1> DEFINE q == d \div r
  <1>1. q \in Nat
    BY QuotientIsNat
  <1>2. ASSUME q > x PROVE FALSE
    <2>1. q * r <= d
      BY <1>1, QuotientBound
    <2> HIDE DEF q
    <2>2. r * x <= r * q
      BY <1>1, <1>2, ProductMonotone
    <2>3. r * x = x * r /\ r * q = q * r
      BY <1>1, SMT
    <2>4. x * r \in Nat /\ q * r \in Nat
      BY <1>1, NatProduct
    <2> QED
      BY <2>1, <2>2, <2>3, <2>4
  <1> QED
    BY <1>1, <1>2

\* An allowed limit is a natural, and with the ramp in use it rises by at most the
\* rise rate above the limit kept.
LEMMA DriveOnRamp ==
    ASSUME NEW s, DirectInRange, ConfigNumbers(config), ArgumentNumbers(s), limit \in Nat
    PROVE  /\ Drive(s) \in Nat
           /\ config.smooth => Drive(s) <= limit + config.rise * s.dt
  <1> DEFINE top == limit + config.rise * s.dt
  <1>1. /\ s.rpm \in Nat /\ s.dt \in Nat /\ config.discharge \in Nat /\ config.rise \in Nat
    BY DEF ConfigNumbers, ArgumentNumbers
  <1>2. top \in Nat
    <2>1. config.rise * s.dt \in Nat
      BY <1>1, NatProduct
    <2> QED
      BY <2>1
  <1>3. Ramped(s) = IF config.smooth THEN AtMost(Target(s), top) ELSE Target(s)
    BY DEF Ramped
  <1> HIDE DEF top
  <1>4. Ramped(s) \in Nat /\ (config.smooth => Ramped(s) <= top)
    BY <1>2, <1>3, TargetIsNat DEF AtMost
  <1>5. Drive(s) \in Nat /\ Drive(s) <= Ramped(s)
    <2>1. CASE Ramped(s) * s.rpm > config.discharge
      <3>1. s.rpm # 0
        BY <1>1, <1>4, <2>1
      <3>2. Drive(s) = config.discharge \div s.rpm
        BY <2>1 DEF Drive
      <3>3. config.discharge \div s.rpm \in Nat
        BY <1>1, <3>1, QuotientIsNat
      <3>4. config.discharge \div s.rpm <= Ramped(s)
        BY <1>1, <1>4, <2>1, <3>1, QuotientBelow
      <3> QED
        BY <3>2, <3>3, <3>4
    <2>2. CASE ~(Ramped(s) * s.rpm > config.discharge)
      BY <1>4, <2>2 DEF Drive
    <2> QED
      BY <2>1, <2>2
  <1>6. config.smooth => Drive(s) <= top
    BY <1>2, <1>4, <1>5
  <1> QED
    BY <1>5, <1>6 DEF top

-----------------------------------------------------------------------------
\* The cycle of a committed candidate.
LEMMA CommitNumbers ==
    ASSUME NEW s \in Inputs, DirectInRange, Commit(s)
    PROVE  ConfigNumbers(config) /\ ArgumentNumbers(s)
  <1>1. ValidTorqueConfig(config)
    BY DEF DirectInRange
  <1>2. ValidArguments(s) /\ IsFinite(s.trace)
    BY DEF Commit, Dropped
  <1> QED
    BY <1>1, <1>2, ValidConfigNumbers, ValidArgumentNumbers

LEMMA WarmedIsHeat ==
    ASSUME NEW s, DirectInRange, ConfigNumbers(config), ArgumentNumbers(s), limit \in Nat
    PROVE  Warmed(s) \in [motor : Int, inverter : Int]
  <1> DEFINE power == Drive(s) * s.rpm
             share == (Whole - (Whole * config.efficient) \div AtLeast(s.rpm, 1)) \div 10 + 2
             loss == Part(power, share)
  <1>1. heat.motor \in Int /\ heat.inverter \in Int
    BY DEF DirectInRange
  <1>2. /\ s.rpm \in Nat /\ s.dt \in Int /\ config.efficient \in Int
    BY DEF ConfigNumbers, ArgumentNumbers
  <1>3. power \in Int
    BY <1>2, DriveOnRamp
  <1>4. share \in Int
    <2>1. AtLeast(s.rpm, 1) \in Nat \ {0} /\ Whole * config.efficient \in Int
      BY <1>2 DEF AtLeast, Whole
    <2>2. (Whole * config.efficient) \div AtLeast(s.rpm, 1) \in Int
      BY <2>1
    <2> QED
      BY <2>2 DEF Whole
  <1>5. loss \in Int
    <2> HIDE DEF power, share
    <2> QED
      BY <1>3, <1>4, PartIsInt
  <1>6. \A t, gain, ceiling, dt \in Int : Heated(t, gain, ceiling, dt) \in Int
    BY DEF Heated, Clamp, Ambient, CoolingTime
  <1>7. Warmed(s) = [motor |-> Heated(heat.motor, power \div MotorHeat, 40, s.dt),
                     inverter |-> Heated(heat.inverter, loss \div InverterHeat, 30, s.dt)]
    BY DEF Warmed
  <1> HIDE DEF power, loss
  <1>8. power \div MotorHeat \in Int /\ loss \div InverterHeat \in Int
    BY <1>3, <1>5 DEF MotorHeat, InverterHeat
  <1>9. /\ Heated(heat.motor, power \div MotorHeat, 40, s.dt) \in Int
        /\ Heated(heat.inverter, loss \div InverterHeat, 30, s.dt) \in Int
    <2>1. 40 \in Int /\ 30 \in Int
      OBVIOUS
    <2> QED
      BY <1>1, <1>2, <1>6, <1>8, <2>1
  <1> QED
    BY <1>7, <1>9

\* Each call keeps the induction; a cycle that is allowed stays on the ramp.
LEMMA DenyKeeps ==
    ASSUME DirectInv, DirectDeny
    PROVE  DirectInv'
  BY DEF DirectInv, DirectInRange, LimitIsEmitted, DirectDeny, Nothing, histories

LEMMA TripKeeps ==
    ASSUME NEW s, DirectInv, DirectTrip(s)
    PROVE  DirectInv'
  <1>1. Judged(s) \in MembraneStates
    BY JudgedIsState DEF DirectInv
  <1> QED
    BY <1>1 DEF DirectInv, DirectInRange, LimitIsEmitted, DirectTrip, Nothing

LEMMA CommitOnRamp ==
    ASSUME NEW s \in Inputs, DirectInv, Commit(s)
    PROVE  /\ DirectInv'
           /\ config.smooth => emitted'.drive <= emitted.drive + config.rise * emitted'.dt
  <1>1. /\ DirectInRange /\ emitted.drive \in Nat /\ limit \in Nat
        /\ limit <= emitted.drive
    BY DEF DirectInv, LimitIsEmitted
  <1>2. ConfigNumbers(config) /\ ArgumentNumbers(s)
    BY <1>1, CommitNumbers
  <1>3. /\ Drive(s) \in Nat
        /\ config.smooth => Drive(s) <= limit + config.rise * s.dt
    BY <1>1, <1>2, DriveOnRamp
  <1>4. emitted'.drive = Drive(s) /\ limit' = Drive(s) /\ emitted'.dt = s.dt
    BY DEF Commit
  <1>5. heat' \in [motor : Int, inverter : Int] /\ filter' \in MembraneStates
    BY <1>1, <1>2, WarmedIsHeat, JudgedIsState DEF Commit
  <1>6. config' = config
    BY DEF Commit
  <1>7. DirectInv'
    BY <1>1, <1>3, <1>4, <1>5, <1>6 DEF DirectInv, DirectInRange, LimitIsEmitted
  <1>8. config.rise * s.dt \in Nat
    <2>1. config.rise \in Nat /\ s.dt \in Nat
      BY <1>2 DEF ConfigNumbers, ArgumentNumbers
    <2> QED
      BY <2>1, NatProduct
  <1> QED
    BY <1>1, <1>3, <1>4, <1>7, <1>8

LEMMA ConfigureKeeps ==
    ASSUME NEW c \in Configs, DirectInv, DirectConfigure(c)
    PROVE  DirectInv'
  <1>1. c \in TorqueConfigs
    BY DirectAssumption
  <1>2. Cool \in [motor : Int, inverter : Int]
    BY DEF Cool, Ambient
  <1> QED
    BY <1>1, <1>2, FreshIsState
       DEF DirectInv, DirectInRange, LimitIsEmitted, DirectConfigure

\* A mode of its own kind leaves a valid configuration valid.
LEMMA ModesKeepConfig ==
    ASSUME NEW c \in TorqueConfigs, ValidTorqueConfig(c),
           NEW e, \/ \E mode \in DriveModes : e = [c EXCEPT !.drive = mode]
                  \/ \E mode \in RegenModes : e = [c EXCEPT !.regen = mode]
    PROVE  e \in TorqueConfigs /\ ValidTorqueConfig(e)
  <1>1. e \in TorqueConfigs
    <2> HIDE DEF DriveModes, RegenModes
    <2> QED
      BY DEF TorqueConfigs
  <1>2. /\ e.peak = c.peak /\ e.base = c.base /\ e.top = c.top /\ e.power = c.power
        /\ e.efficient = c.efficient /\ e.discharge = c.discharge /\ e.charge = c.charge
        /\ e.rise = c.rise /\ e.fall = c.fall /\ e.smooth = c.smooth /\ e.soft = c.soft
        /\ e.hard = c.hard /\ e.cold = c.cold /\ e.motorSoft = c.motorSoft
        /\ e.motorMax = c.motorMax /\ e.inverterSoft = c.inverterSoft
        /\ e.inverterMax = c.inverterMax /\ e.socCritical = c.socCritical
        /\ e.socLow = c.socLow /\ e.socRegen = c.socRegen /\ e.socFull = c.socFull
        /\ e.healthW = c.healthW /\ e.entropyW = c.entropyW /\ e.metricW = c.metricW
        /\ e.eco = c.eco /\ e.normal = c.normal /\ e.sport = c.sport
        /\ e.least = c.least /\ e.maxDerate = c.maxDerate /\ e.duration = c.duration
        /\ e.boost = c.boost /\ e.membrane = c.membrane
    BY DEF TorqueConfigs
  <1>3. e.drive \in DriveModes /\ e.regen \in RegenModes
    BY DEF TorqueConfigs, ValidTorqueConfig
  <1> QED
    BY <1>1, <1>2, <1>3 DEF ValidTorqueConfig

LEMMA SetModesKeeps ==
    ASSUME DirectInv, SetModes
    PROVE  DirectInv'
  <1>1. config \in TorqueConfigs /\ ValidTorqueConfig(config)
    BY DEF DirectInv, DirectInRange
  <1>2. config' \in TorqueConfigs /\ ValidTorqueConfig(config')
    <2>1. \/ \E mode \in DriveModes : config' = [config EXCEPT !.drive = mode]
          \/ \E mode \in RegenModes : config' = [config EXCEPT !.regen = mode]
      BY DEF SetModes
    <2> QED
      BY <1>1, <2>1, ModesKeepConfig
  <1>3. UNCHANGED <<heat, filter, limit, emitted>>
    BY DEF SetModes, histories
  <1> QED
    BY <1>2, <1>3 DEF DirectInv, DirectInRange, LimitIsEmitted

LEMMA DirectStep ==
    ASSUME DirectInv, [DirectNext]_directVars
    PROVE  /\ DirectInv'
           /\ emitted'.end = "allowed" /\ emitted' # emitted /\ config.smooth =>
                 emitted'.drive <= emitted.drive + config.rise * emitted'.dt
  <1>1. CASE \E s \in Inputs : ComputeTorqueLimit(s)
    <2>1. PICK s \in Inputs : ComputeTorqueLimit(s)
      BY <1>1
    <2>2. CASE ArgumentsDenied(s) \/ CandidateDropped(s)
      <3>1. DirectDeny
        BY <2>2 DEF ArgumentsDenied, CandidateDropped
      <3>2. emitted'.end # "allowed"
        BY <3>1 DEF DirectDeny, Nothing
      <3> QED
        BY <3>1, <3>2, DenyKeeps
    <2>3. CASE DirectTrip(s)
      <3>1. emitted'.end # "allowed"
        BY <2>3 DEF DirectTrip, Nothing
      <3> QED
        BY <2>3, <3>1, TripKeeps
    <2>4. CASE Commit(s)
      BY <2>4, CommitOnRamp
    <2> QED
      BY <2>1, <2>2, <2>3, <2>4 DEF ComputeTorqueLimit
  <1>2. CASE \E c \in Configs : DirectConfigure(c)
    <2>1. PICK c \in Configs : DirectConfigure(c)
      BY <1>2
    <2>2. emitted' = emitted
      BY <2>1 DEF DirectConfigure
    <2> QED
      BY <2>1, <2>2, ConfigureKeeps
  <1>3. CASE SetModes
    BY <1>3, SetModesKeeps DEF SetModes
  <1>4. CASE ResetDiagnostics \/ UNCHANGED directVars
    BY <1>4 DEF ResetDiagnostics, directVars, DirectInv, DirectInRange, LimitIsEmitted
  <1> QED
    BY <1>1, <1>2, <1>3, <1>4 DEF DirectNext

\* Whatever came between two allowed cycles, the drive limit rises above the last
\* one emitted by no more than the rise rate allows.
THEOREM RampCorrect == DriveSpec => RecoveryRamps
  <1>1. DriveInit => DirectInv
    <2>1. DefaultConfig \in TorqueConfigs /\ ValidTorqueConfig(DefaultConfig)
      BY DirectAssumption
    <2>2. Cool \in [motor : Int, inverter : Int]
      BY DEF Cool, Ambient
    <2> QED
      BY <2>1, <2>2, FreshIsState
         DEF DriveInit, DirectInit, DirectInv, DirectInRange, LimitIsEmitted, Nothing
  <1>2. DirectInv /\ [DriveNext]_driveVars => DirectInv'
    BY DirectStep, DriveSteps
  <1>3. DirectInv /\ [DriveNext]_driveVars =>
           [emitted'.end = "allowed" /\ emitted' # emitted /\ config.smooth =>
              /\ emitted'.drive <= emitted.drive + config.rise * emitted'.dt]_directVars
    BY DirectStep, DriveSteps
  <1> QED
    BY <1>1, <1>2, <1>3, PTL DEF DriveSpec, RecoveryRamps

-----------------------------------------------------------------------------
(***************************************************************************)
(* The fallback never rewards a worse battery.  Less charge or less health *)
(* lowers the trust and can only raise the level; a higher level takes a   *)
(* smaller share, and the boost is kept for level zero.                    *)
(***************************************************************************)
WorsePair(a, b) == a \in TorqueCommands /\ b \in TorqueCommands /\ Worse(a, b)

LEMMA WorseFacts ==
    ASSUME NEW a, NEW b, WorsePair(a, b)
    PROVE  /\ a.torque = b.torque /\ a.rpm = b.rpm /\ a.v = b.v /\ a.i = b.i /\ a.t = b.t
           /\ a.soc \in Nat /\ b.soc \in Nat /\ a.soc <= b.soc
           /\ a.soh \in Nat /\ b.soh \in Nat /\ a.soh <= b.soh
           /\ b.t \in Int
  <1>1. /\ a.torque = b.torque /\ a.rpm = b.rpm /\ a.v = b.v /\ a.i = b.i /\ a.t = b.t
    BY DEF WorsePair, Worse, TorqueCommands
  <1>2. /\ a.soc \in 0..100 /\ b.soc \in 0..100 /\ a.soh \in 0..100 /\ b.soh \in 0..100
    BY DEF WorsePair, Worse, ValidCommand
  <1>3. a.soc <= b.soc /\ a.soh <= b.soh
    BY DEF WorsePair, Worse
  <1>4. b.t \in Int
    <2>1. Finite \subseteq Int
      BY DoublesAssumption DEF Finite
    <2>2. ValidCommand(b)
      BY DEF WorsePair, Worse
    <2>3. \A x \in {b.torque, b.rpm, b.v, b.i, b.soc, b.soh, b.t} : x \in Int
      BY <2>1, <2>2 DEF ValidCommand, IsFinite
    <2> QED
      BY <2>3
  <1> QED
    BY <1>1, <1>2, <1>3, <1>4

LEMMA WorseSignals ==
    ASSUME NEW a, NEW b, WorsePair(a, b)
    PROVE  /\ Mechanical(a) = Mechanical(b) /\ Electrical(a) = Electrical(b)
           /\ Consistency(a) = Consistency(b) /\ Consistency(b) \in Int
  <1>1. Mechanical(a) = Mechanical(b) /\ Electrical(a) = Electrical(b)
    BY WorseFacts DEF Mechanical, Electrical
  <1>2. ValidCommand(b)
    BY DEF WorsePair, Worse
  <1>3. Mechanical(b) \in Nat /\ Electrical(b) \in Nat
    BY <1>2, SignalsAreNat
  <1>4. CASE Mechanical(b) = 0 \/ Electrical(b) = 0
    BY <1>1, <1>4 DEF Consistency
  <1>5. CASE ~(Mechanical(b) = 0 \/ Electrical(b) = 0)
    <2> DEFINE low == Full * AtMost(Mechanical(b), Electrical(b))
               high == AtLeast(Mechanical(b), Electrical(b))
    <2>1. low \in Int /\ high \in Nat \ {0}
      BY <1>3, <1>5 DEF AtMost, AtLeast, Full
    <2>2. Consistency(b) = low \div high
      BY <1>5 DEF Consistency
    <2>3. Consistency(a) = low \div high
      BY <1>1, <1>5 DEF Consistency
    <2> HIDE DEF low, high
    <2> QED
      BY <1>1, <2>1, <2>2, <2>3
  <1> QED
    BY <1>4, <1>5

LEMMA WorseTrust ==
    ASSUME NEW a, NEW b, WorsePair(a, b)
    PROVE  /\ GovernorTrust(a) \in Int /\ GovernorTrust(b) \in Int
           /\ GovernorTrust(a) <= GovernorTrust(b)
  <1> DEFINE rest == Full - (3 * Over(170, Consistency(b))) \div 2 - 5 * Over(b.t, 45)
             low == rest - 4 * Over(20, a.soc) - 3 * Over(85, a.soh)
             high == rest - 4 * Over(20, b.soc) - 3 * Over(85, b.soh)
  <1>1. rest \in Int
    BY WorseFacts, WorseSignals DEF Over, AtLeast, Full
  <1>2. GovernorTrust(a) = Clamp(low, 0, Full) /\ GovernorTrust(b) = Clamp(high, 0, Full)
    BY WorseFacts, WorseSignals DEF GovernorTrust
  <1> HIDE DEF rest
  <1>3. low \in Int /\ high \in Int /\ low <= high
    BY <1>1, WorseFacts DEF Over, AtLeast
  <1> HIDE DEF low, high
  <1> QED
    BY <1>2, <1>3 DEF Clamp, Full

LEMMA WorseLevel ==
    ASSUME NEW a, NEW b, WorsePair(a, b)
    PROVE  /\ GovernorLevel(a) \in 0..3 /\ GovernorLevel(b) \in 0..3
           /\ GovernorLevel(b) <= GovernorLevel(a)
  BY WorseFacts, WorseSignals, WorseTrust DEF GovernorLevel

LEMMA WorseShare ==
    ASSUME NEW low \in 0..3, NEW high \in 0..3, low <= high
    PROVE  /\ Share100(low) \in Nat /\ Share100(high) \in Nat
           /\ Share100(high) <= Share100(low)
  <1>1. /\ Share100(0) = 100 /\ Share100(1) = 90 /\ Share100(2) = 65 /\ Share100(3) = 25
    BY DEF Share100
  <1>2. low \in {0, 1, 2, 3} /\ high \in {0, 1, 2, 3}
    OBVIOUS
  <1> QED
    BY <1>1, <1>2

LEMMA WorseFallback ==
    ASSUME NEW a, NEW b, WorsePair(a, b)
    PROVE  /\ Fallback(a).torque \in Nat /\ Fallback(b).torque \in Nat
           /\ Fallback(a).torque <= Fallback(b).torque
           /\ Fallback(a).current \in Nat /\ Fallback(b).current \in Nat
           /\ Fallback(a).current <= Fallback(b).current
  <1> DEFINE sa == Share100(GovernorLevel(a))
             sb == Share100(GovernorLevel(b))
             asked == IF b.torque > 0 THEN b.torque ELSE 400
             current == IF b.i > 0 THEN b.i ELSE 500
  <1>1. sa \in Nat /\ sb \in Nat /\ sa <= sb
    BY WorseLevel, WorseShare
  <1>2. asked \in Nat /\ current \in Nat
    <2>1. Finite \subseteq Int
      BY DoublesAssumption DEF Finite
    <2>2. ValidCommand(b)
      BY DEF WorsePair, Worse
    <2>3. \A x \in {b.torque, b.rpm, b.v, b.i, b.soc, b.soh, b.t} : x \in Int
      BY <2>1, <2>2 DEF ValidCommand, IsFinite
    <2>4. b.torque \in Int /\ b.i \in Int
      BY <2>3
    <2> QED
      BY <2>4
  <1>3. /\ Fallback(a).torque = (asked * sa) \div 100
        /\ Fallback(b).torque = (asked * sb) \div 100
        /\ Fallback(a).current = (current * sa) \div 100
        /\ Fallback(b).current = (current * sb) \div 100
    BY WorseFacts DEF Fallback, Share
  <1> HIDE DEF sa, sb, asked, current
  <1>4. ASSUME NEW x \in Nat
        PROVE  /\ (x * sa) \div 100 \in Nat /\ (x * sb) \div 100 \in Nat
               /\ (x * sa) \div 100 <= (x * sb) \div 100
    <2> DEFINE low == x * sa
               high == x * sb
    <2>1. low \in Nat /\ high \in Nat /\ low <= high
      BY <1>1, NatProduct, ProductMonotone
    <2> HIDE DEF low, high
    <2>2. low \div 100 \in Nat /\ high \div 100 \in Nat /\ low \div 100 <= high \div 100
      BY <2>1
    <2> QED
      BY <2>2 DEF low, high
  <1> QED
    BY <1>2, <1>3, <1>4

\* A product grows with both of its factors.
LEMMA ProductsMonotone ==
    ASSUME NEW a \in Nat, NEW b \in Nat, a <= b, NEW x \in Nat, NEW y \in Nat, x <= y
    PROVE  a * x <= b * y
  <1>1. a * x <= a * y /\ y * a <= y * b
    BY ProductMonotone
  <1>2. y * a = a * y /\ y * b = b * y
    BY SMT
  <1>3. a * x \in Nat /\ a * y \in Nat /\ b * y \in Nat
    BY NatProduct
  <1> QED
    BY <1>1, <1>2, <1>3

\* A command with less charge or less health, all else equal, is never granted more
\* torque or current by the fallback, whatever the membrane remembers.
THEOREM WorseCorrect == DriveSpec => []WorseNeverMore
  <1>1. DriveInit => membrane \in MembraneStates
    BY FreshIsState DEF DriveInit, Init
  <1>2. membrane \in MembraneStates /\ [DriveNext]_driveVars => (membrane \in MembraneStates)'
    BY GovernedKeepsMembrane, DriveSteps
  <1>3. ASSUME membrane \in MembraneStates PROVE WorseNeverMore
    <2> SUFFICES ASSUME NEW pair \in WorsePairs
                 PROVE  LET a == FallbackOf[pair[1]]
                            b == FallbackOf[pair[2]]
                            state == EvaluateMembrane(Membrane, membrane, pair[1].v,
                                                      pair[1].i, pair[1].t, NoDiag, 1)
                            gain(d) == IF d.level = 0 /\ d.trust > 180 /\ state.boost > One
                                       THEN state.boost ELSE state.overall
                        IN  /\ a.torque * gain(a) <= b.torque * gain(b)
                            /\ a.current * gain(a) <= b.current * gain(b)
      BY DEF WorseNeverMore
    <2> DEFINE ca == pair[1]
               cb == pair[2]
               state == EvaluateMembrane(Membrane, membrane, ca.v, ca.i, ca.t, NoDiag, 1)
               gain(d) == IF d.level = 0 /\ d.trust > 180 /\ state.boost > One
                          THEN state.boost ELSE state.overall
    <2>1. WorsePair(ca, cb) /\ ca \in Commands /\ cb \in Commands
      <3>1. ca \in Commands /\ cb \in Commands /\ Worse(ca, cb)
        BY DEF WorsePairs
      <3> QED
        BY <3>1, TorqueAssumption DEF WorsePair
    <2>2. FallbackOf[ca] = Fallback(ca) /\ FallbackOf[cb] = Fallback(cb)
      <3>1. ValidCommand(ca) /\ ValidCommand(cb)
        BY <2>1 DEF WorsePair, Worse
      <3> QED
        BY <2>1, <3>1 DEF FallbackOf
    <2>3. state.boost \in 0..12 /\ state.overall \in 0..10
      <3>1. state \in MembraneStates
        BY <1>3, MembraneVerdict, TorqueAssumption
      <3> QED
        BY <3>1 DEF MembraneStates, One
    <2> HIDE DEF state
    <2>4. /\ gain(Fallback(ca)) \in Nat /\ gain(Fallback(cb)) \in Nat
          /\ gain(Fallback(ca)) <= gain(Fallback(cb))
      <3>1. /\ Fallback(ca).level = GovernorLevel(ca) /\ Fallback(ca).trust = GovernorTrust(ca)
            /\ Fallback(cb).level = GovernorLevel(cb) /\ Fallback(cb).trust = GovernorTrust(cb)
        BY DEF Fallback
      <3>2. /\ GovernorTrust(ca) \in Int /\ GovernorTrust(cb) \in Int
            /\ GovernorTrust(ca) <= GovernorTrust(cb)
            /\ GovernorLevel(ca) \in 0..3 /\ GovernorLevel(cb) \in 0..3
            /\ GovernorLevel(cb) <= GovernorLevel(ca)
        BY <2>1, WorseTrust, WorseLevel
      <3> QED
        BY <2>3, <3>1, <3>2 DEF One
    <2> DEFINE ga == gain(Fallback(ca))
               gb == gain(Fallback(cb))
    <2>5. ga \in Nat /\ gb \in Nat /\ ga <= gb
      BY <2>4
    <2>6. /\ Fallback(ca).torque \in Nat /\ Fallback(cb).torque \in Nat
          /\ Fallback(ca).torque <= Fallback(cb).torque
          /\ Fallback(ca).current \in Nat /\ Fallback(cb).current \in Nat
          /\ Fallback(ca).current <= Fallback(cb).current
      BY <2>1, WorseFallback
    <2> HIDE DEF ga, gb, ca, cb
    <2>7. /\ Fallback(ca).torque * ga <= Fallback(cb).torque * gb
          /\ Fallback(ca).current * ga <= Fallback(cb).current * gb
      BY <2>5, <2>6, ProductsMonotone
    <2> QED
      BY <2>2, <2>7 DEF ga, gb, ca, cb, state
  <1> QED
    BY <1>1, <1>2, <1>3, PTL DEF DriveSpec


-----------------------------------------------------------------------------
(***************************************************************************)
(* The regenerative braking manager.  Every factor is a share of one, so   *)
(* the derated torque is a part of the ceiling, and a smaller factor takes *)
(* a smaller part.                                                         *)
(***************************************************************************)
RegenNumbers(s) ==
    /\ s.v \in Int /\ s.t \in Int /\ s.soc \in Nat /\ s.brake \in 0..One
    /\ s.speed \in Nat /\ s.rpm \in Nat /\ s.dt \in Nat \ {0}
    /\ s.abs \in BOOLEAN /\ s.slip \in BOOLEAN
    /\ s.diag.confidence \in 0..One /\ s.diag.imbalance \in Nat

LEMMA ValidSampleNumbers ==
    ASSUME NEW s \in Samples, ValidInputs(s)
    PROVE  RegenNumbers(s)
  <1>1. Finite \subseteq Int
    BY DoublesAssumption DEF Finite
  <1>2. s \in RegenSamples /\ (s.diag.present \/ s.diag = NoDiag)
    BY RegenAssumption
  <1>3. s.abs \in BOOLEAN /\ s.slip \in BOOLEAN
    BY <1>2 DEF RegenSamples
  <1>4. \A x \in {s.v, s.t, s.soc, s.speed, s.rpm, s.dt} : x \in Int
    BY <1>1 DEF ValidInputs, IsFinite
  <1>5. s.soc >= 0
    <2>1. Cfg.fullSoc \in Nat
      BY RegenAssumption DEF RegenConfigs
    <2> QED
      BY <2>1 DEF ValidInputs
  <1>6. s.brake \in 0..One /\ s.speed >= 0 /\ s.rpm >= 0 /\ s.dt > 0
    BY DEF ValidInputs
  <1>7. s.diag.confidence \in 0..One /\ s.diag.imbalance \in Nat
    <2>1. CASE s.diag.present
      <3>1. s.diag.imbalance \in Finite /\ s.diag.imbalance >= 0
        BY <2>1 DEF ValidInputs, IsFinite
      <3>2. s.diag.confidence \in 0..One
        BY <2>1 DEF ValidInputs
      <3>3. s.diag.imbalance \in Int
        BY <1>1, <3>1
      <3> QED
        BY <3>1, <3>2, <3>3
    <2>2. CASE s.diag = NoDiag
      BY <2>2 DEF NoDiag, One
    <2> QED
      BY <1>2, <2>1, <2>2
  <1> QED
    BY <1>3, <1>4, <1>5, <1>6, <1>7 DEF RegenNumbers

\* The numbers of the configuration.
LEMMA RegenConfigNumbers ==
    /\ Cfg.peak \in Nat /\ Cfg.maxPower \in Nat /\ Cfg.slew \in Nat
    /\ Cfg.minSpeed \in Int /\ Cfg.fullSpeed \in Int /\ Cfg.softSoc \in Int
    /\ Cfg.hardSoc \in Int /\ Cfg.maxV \in Int /\ Cfg.softMargin \in Int
    /\ Cfg.hardMargin \in Int /\ Cfg.coldHard \in Int /\ Cfg.coldSoft \in Int
    /\ Cfg.hotSoft \in Int /\ Cfg.hotHard \in Int /\ Cfg.softImbalance \in Int
    /\ Cfg.hardImbalance \in Int /\ Cfg.hardConfidence \in Int
    /\ Cfg.fullConfidence \in Int /\ Cfg.absCut \in 0..One /\ Cfg.slipCut \in 0..One
    /\ Cfg.tau \in Nat \ {0} /\ Cfg.leastRpm \in Nat \ {0}
  <1>1. Finite \subseteq Int
    BY DoublesAssumption DEF Finite
  <1>2. Cfg \in RegenConfigs
    BY RegenAssumption
  <1>3. 0..One \subseteq Int
    BY DEF One
  <1>4. /\ Cfg.peak \in Nat /\ Cfg.maxPower \in Nat /\ Cfg.slew \in Nat
        /\ Cfg.minSpeed \in Nat /\ Cfg.fullSpeed \in Nat /\ Cfg.softSoc \in Nat
        /\ Cfg.hardSoc \in Nat /\ Cfg.softMargin \in Nat /\ Cfg.hardMargin \in Nat
        /\ Cfg.softImbalance \in Nat /\ Cfg.hardImbalance \in Nat
        /\ Cfg.absCut \in 0..One /\ Cfg.slipCut \in 0..One
        /\ Cfg.tau \in Nat \ {0} /\ Cfg.leastRpm \in Nat \ {0}
    BY <1>2 DEF RegenConfigs
  <1>5. /\ Cfg.maxV \in Finite /\ Cfg.coldHard \in Finite /\ Cfg.coldSoft \in Finite
        /\ Cfg.hotSoft \in Finite /\ Cfg.hotHard \in Finite
    BY <1>2 DEF RegenConfigs
  <1>6. Cfg.hardConfidence \in 0..One /\ Cfg.fullConfidence \in 0..One
    BY <1>2 DEF RegenConfigs
  <1>7. Nat \subseteq Int
    OBVIOUS
  <1> QED
    BY <1>1, <1>3, <1>4, <1>5, <1>6, <1>7

LEMMA RegenSpans ==
    /\ Cfg.minSpeed < Cfg.fullSpeed /\ Cfg.softSoc < Cfg.hardSoc
    /\ Cfg.hardMargin < Cfg.softMargin
    /\ Cfg.coldHard < Cfg.coldSoft /\ Cfg.hotSoft < Cfg.hotHard
    /\ Cfg.softImbalance < Cfg.hardImbalance
    /\ Cfg.hardConfidence < Cfg.fullConfidence
  BY RegenAssumption

LEMMA QuotientMonotone ==
    ASSUME NEW a \in Int, NEW b \in Int, NEW c \in Nat \ {0}, a <= b
    PROVE  a \div c \in Int /\ b \div c \in Int /\ a \div c <= b \div c
  <1> DEFINE p == a \div c
             q == b \div c
  <1>1. /\ p \in Int /\ c * p <= a
        /\ q \in Int /\ b < c * q + c
    BY SMT
  <1> HIDE DEF p, q
  <1>2. ASSUME p > q PROVE FALSE
    <2>1. p - q - 1 \in Nat
      BY <1>1, <1>2
    <2>2. c * (p - q - 1) \in Nat
      BY <2>1, NatProduct
    <2>3. c * (p - q - 1) = c * p - (c * q + c)
      BY <1>1, SMT
    <2>4. c * p \in Int /\ c * q + c \in Int
      BY <1>1, SMT
    <2> QED
      BY <1>1, <2>2, <2>3, <2>4
  <1> QED
    BY <1>1, <1>2 DEF p, q

\* A ramp is a share of one and rises with what it is a ramp of.
LEMMA RampRange ==
    ASSUME NEW x \in Int, NEW zero \in Int, NEW full \in Int, zero < full
    PROVE  Ramp(x, zero, full) \in 0..One
  <1>1. PICK k \in Int : k = (One * (x - zero)) \div (full - zero)
    BY DEF One
  <1>2. Ramp(x, zero, full) = Clamp(k, 0, One)
    BY <1>1 DEF Ramp
  <1> QED
    BY <1>2 DEF Clamp, One

LEMMA RampMonotone ==
    ASSUME NEW x \in Int, NEW y \in Int, NEW zero \in Int, NEW full \in Int,
           zero < full, x <= y
    PROVE  Ramp(x, zero, full) <= Ramp(y, zero, full)
  <1>1. PICK p \in Int, q \in Int, r \in Nat \ {0} :
           p = One * (x - zero) /\ q = One * (y - zero) /\ r = full - zero
    BY DEF One
  <1>2. p <= q
    BY <1>1 DEF One
  <1>3. p \div r \in Int /\ q \div r \in Int /\ p \div r <= q \div r
    BY <1>2, QuotientMonotone
  <1>4. Clamp(p \div r, 0, One) <= Clamp(q \div r, 0, One)
    BY <1>3 DEF Clamp, One
  <1> QED
    BY <1>1, <1>4 DEF Ramp

\* What is recovered lies between what there was and one.
LEMMA RecoveredRange ==
    ASSUME NEW f \in 0..One, NEW dt \in Nat \ {0}
    PROVE  Recovered(f, dt) \in f..One
  <1>1. PICK rest \in Nat, d \in Nat \ {0} : rest = One - f /\ d = Cfg.tau + dt
    BY RegenConfigNumbers DEF One
  <1>2. rest * Cfg.tau \in Nat
    BY RegenConfigNumbers, NatProduct
  <1>3. (rest * Cfg.tau) \div d \in Nat
    BY <1>2, QuotientIsNat
  <1>4. (rest * Cfg.tau) \div d <= rest
    <2>1. CASE rest = 0
      <3>1. rest * Cfg.tau = 0
        BY <2>1, RegenConfigNumbers
      <3> QED
        BY <1>2, <2>1, <3>1, QuotientIsNat
    <2>2. CASE rest # 0
      <3>1. rest * Cfg.tau < rest * d
        <4>1. rest * dt \in Nat \ {0}
          BY <2>2, SMT
        <4>2. rest * d = rest * Cfg.tau + rest * dt
          BY <1>1, RegenConfigNumbers, SMT
        <4> QED
          BY <1>2, <4>1, <4>2
      <3> QED
        BY <1>1, <1>2, <3>1, QuotientBelow
    <2> QED
      BY <2>1, <2>2
  <1>5. Recovered(f, dt) = One - (rest * Cfg.tau) \div d
    BY <1>1 DEF Recovered
  <1> QED
    BY <1>1, <1>3, <1>4, <1>5 DEF One

LEMMA StabilityFactorRange ==
    ASSUME NEW s, RegenNumbers(s), stability \in 0..One, sinceEvent \in Int
    PROVE  StabilityFactor(s) \in 0..One
  <1>1. Recovered(stability, s.dt) \in 0..One
    <2>1. Recovered(stability, s.dt) \in stability..One
      BY RecoveredRange DEF RegenNumbers
    <2> QED
      BY <2>1 DEF One
  <1>2. Cfg.absCut \in 0..One /\ Cfg.slipCut \in 0..One /\ One \in 0..One
    BY RegenConfigNumbers DEF One
  <1>3. s.abs \in BOOLEAN /\ s.slip \in BOOLEAN
    BY DEF RegenNumbers
  <1> QED
    BY <1>1, <1>2, <1>3 DEF StabilityFactor

\* The factors are eight shares.
EightShares == [1..8 -> 0..One]

LEMMA FactorsAreShares ==
    ASSUME NEW s, RegenNumbers(s), stability \in 0..One, sinceEvent \in Int,
           NEW overall \in 0..One
    PROVE  Factors(s, overall) \in EightShares
  <1>1. PICK f1 : f1 = Ramp(s.speed, Cfg.minSpeed, Cfg.fullSpeed)
    OBVIOUS
  <1>2. PICK f2 : f2 = Ramp(Cfg.hardSoc - s.soc, 0, Cfg.hardSoc - Cfg.softSoc)
    OBVIOUS
  <1>3. PICK f3 : f3 = Ramp(Cfg.maxV - Cfg.hardMargin - s.v, 0,
                            Cfg.softMargin - Cfg.hardMargin)
    OBVIOUS
  <1>4. f1 \in 0..One /\ f2 \in 0..One /\ f3 \in 0..One
    <2>0. s.speed \in Int
      BY DEF RegenNumbers
    <2>1. f1 \in 0..One
      BY <1>1, <2>0, RegenConfigNumbers, RegenSpans, RampRange
    <2>2. Cfg.hardSoc - s.soc \in Int /\ Cfg.hardSoc - Cfg.softSoc \in Int
          /\ 0 < Cfg.hardSoc - Cfg.softSoc
      BY RegenConfigNumbers, RegenSpans DEF RegenNumbers
    <2>3. f2 \in 0..One
      BY <1>2, <2>2, RampRange
    <2>4. /\ Cfg.maxV - Cfg.hardMargin - s.v \in Int /\ Cfg.softMargin - Cfg.hardMargin \in Int
          /\ 0 < Cfg.softMargin - Cfg.hardMargin
      BY RegenConfigNumbers, RegenSpans DEF RegenNumbers
    <2>5. f3 \in 0..One
      BY <1>3, <2>4, RampRange
    <2> QED
      BY <2>1, <2>3, <2>5
  <1>5. TempFactor(s.t) \in 0..One
    <2>1. PICK cold \in 0..One : cold = Ramp(s.t, Cfg.coldHard, Cfg.coldSoft)
      BY RegenConfigNumbers, RegenSpans, RampRange DEF RegenNumbers
    <2>2. /\ Cfg.hotHard - s.t \in Int /\ Cfg.hotHard - Cfg.hotSoft \in Int
          /\ 0 < Cfg.hotHard - Cfg.hotSoft
      BY RegenConfigNumbers, RegenSpans DEF RegenNumbers
    <2>3. PICK hot \in 0..One : hot = Ramp(Cfg.hotHard - s.t, 0, Cfg.hotHard - Cfg.hotSoft)
      BY <2>2, RampRange
    <2>4. TempFactor(s.t) = AtMost(cold, hot)
      BY <2>1, <2>3 DEF TempFactor
    <2> QED
      BY <2>4 DEF AtMost
  <1>6. CellFactor(s.diag) \in 0..One
    <2>1. /\ Cfg.hardImbalance - s.diag.imbalance \in Int
          /\ Cfg.hardImbalance - Cfg.softImbalance \in Int
          /\ 0 < Cfg.hardImbalance - Cfg.softImbalance
      BY RegenConfigNumbers, RegenSpans DEF RegenNumbers
    <2>2. PICK r \in 0..One : r = Ramp(Cfg.hardImbalance - s.diag.imbalance, 0,
                                       Cfg.hardImbalance - Cfg.softImbalance)
      BY <2>1, RampRange
    <2>3. CellFactor(s.diag) = One \/ CellFactor(s.diag) = AtLeast(r, 3)
      BY <2>2 DEF CellFactor
    <2> QED
      BY <2>3 DEF AtLeast, One
  <1>7. DsFactor(s.diag) \in 0..One
    <2>1. s.diag.confidence \in Int
      BY DEF RegenNumbers, One
    <2>2. PICK r \in 0..One :
             r = Ramp(s.diag.confidence, Cfg.hardConfidence, Cfg.fullConfidence)
      BY <2>1, RegenConfigNumbers, RegenSpans, RampRange
    <2>3. DsFactor(s.diag) = AtLeast(r, 5)
      BY <2>2 DEF DsFactor
    <2> QED
      BY <2>3 DEF AtLeast, One
  <1>8. StabilityFactor(s) \in 0..One
    BY StabilityFactorRange
  <1>9. Factors(s, overall) = <<f1, f2, f3, TempFactor(s.t), CellFactor(s.diag),
                                DsFactor(s.diag), StabilityFactor(s), overall>>
    BY <1>1, <1>2, <1>3 DEF Factors
  <1> QED
    BY <1>4, <1>5, <1>6, <1>7, <1>8, <1>9 DEF EightShares

-----------------------------------------------------------------------------
(***************************************************************************)
(* The derated torque, share after share.                                  *)
(***************************************************************************)
Reduced(x, share) == (x * share) \div One

LEMMA ReducedRange ==
    ASSUME NEW x \in Nat, NEW share \in 0..One
    PROVE  /\ Reduced(x, share) \in 0..x
           /\ One * Reduced(x, share) <= x * share
  <1>1. share \in Nat /\ share <= 10 /\ One = 10
    BY DEF One
  <1>2. PICK p \in Nat : p = x * share
    BY <1>1, NatProduct
  <1>3. x * share <= x * 10
    BY <1>1, ProductMonotone
  <1>4. p <= 10 * x
    BY <1>2, <1>3
  <1>5. p \div 10 \in 0..x /\ 10 * (p \div 10) <= p
    BY <1>4
  <1> QED
    BY <1>1, <1>2, <1>5 DEF Reduced

LEMMA SharesReduce ==
    ASSUME NEW fs \in EightShares
    PROVE  \A x \in Nat, n \in 1..8 :
              /\ Reduced(x, fs[n]) \in Nat /\ Reduced(x, fs[n]) <= x
              /\ One * Reduced(x, fs[n]) <= x * fs[n]
  <1> SUFFICES ASSUME NEW x \in Nat, NEW n \in 1..8
               PROVE  /\ Reduced(x, fs[n]) \in Nat /\ Reduced(x, fs[n]) <= x
                      /\ One * Reduced(x, fs[n]) <= x * fs[n]
    OBVIOUS
  <1>1. fs[n] \in 0..One
    BY DEF EightShares
  <1>2. Reduced(x, fs[n]) \in 0..x /\ One * Reduced(x, fs[n]) <= x * fs[n]
    BY <1>1, ReducedRange
  <1> QED
    BY <1>2

LEMMA ReducedMonotone ==
    ASSUME NEW x \in Nat, NEW y \in Nat, x <= y,
           NEW a \in 0..One, NEW b \in 0..One, a <= b
    PROVE  Reduced(x, a) <= Reduced(y, b)
  <1>1. a \in Nat /\ b \in Nat
    BY DEF One
  <1>2. PICK p \in Nat, q \in Nat : p = x * a /\ q = y * b
    BY <1>1, NatProduct
  <1>3. p <= q
    BY <1>1, <1>2, ProductsMonotone
  <1>4. p \div 10 <= q \div 10
    BY <1>3
  <1> QED
    BY <1>2, <1>4 DEF Reduced, One

IsDerating(d, cap, fs) ==
    /\ d \in [0..8 -> Nat] /\ d[0] = cap
    /\ \A n \in 1..8 : d[n] = Reduced(d[n - 1], fs[n])

LEMMA DeratingExists ==
    ASSUME NEW cap \in Nat, NEW fs \in EightShares
    PROVE  \E d : IsDerating(d, cap, fs)
  <1>2. \A x \in Nat, n \in 1..8 : Reduced(x, fs[n]) \in Nat
    BY SharesReduce
  <1>3. PICK d1 \in Nat : d1 = Reduced(cap, fs[1])
    BY <1>2
  <1>4. PICK d2 \in Nat : d2 = Reduced(d1, fs[2])
    BY <1>2
  <1>5. PICK d3 \in Nat : d3 = Reduced(d2, fs[3])
    BY <1>2
  <1>6. PICK d4 \in Nat : d4 = Reduced(d3, fs[4])
    BY <1>2
  <1>7. PICK d5 \in Nat : d5 = Reduced(d4, fs[5])
    BY <1>2
  <1>8. PICK d6 \in Nat : d6 = Reduced(d5, fs[6])
    BY <1>2
  <1>9. PICK d7 \in Nat : d7 = Reduced(d6, fs[7])
    BY <1>2
  <1>10. PICK d8 \in Nat : d8 = Reduced(d7, fs[8])
    BY <1>2
  <1> DEFINE e == <<d1, d2, d3, d4, d5, d6, d7, d8>>
             d == [n \in 0..8 |-> IF n = 0 THEN cap ELSE e[n]]
  <1>11. e \in [1..8 -> Nat]
    OBVIOUS
  <1>12. /\ d[0] = cap /\ d[1] = d1 /\ d[2] = d2 /\ d[3] = d3 /\ d[4] = d4
         /\ d[5] = d5 /\ d[6] = d6 /\ d[7] = d7 /\ d[8] = d8
    OBVIOUS
  <1>13. d \in [0..8 -> Nat]
    BY <1>11
  <1> HIDE DEF d
  <1>14. ASSUME NEW n \in 1..8 PROVE d[n] = Reduced(d[n - 1], fs[n])
    <2>1. n \in {1, 2, 3, 4, 5, 6, 7, 8}
      OBVIOUS
    <2> QED
      BY <1>3, <1>4, <1>5, <1>6, <1>7, <1>8, <1>9, <1>10, <1>12, <2>1
  <1> QED
    BY <1>12, <1>13, <1>14 DEF IsDerating

LEMMA DeratedIsLast ==
    ASSUME NEW cap \in Nat, NEW fs \in Seq(Int), Len(fs) = 8, fs \in EightShares
    PROVE  \E d : IsDerating(d, cap, fs) /\ Derated(cap, fs) = d[8]
  <1> DEFINE Eq(d) == d = [n \in 0..Len(fs) |->
                              IF n = 0 THEN cap ELSE (d[n - 1] * fs[n]) \div One]
             part == CHOOSE d : Eq(d)
  <1>1. PICK d : IsDerating(d, cap, fs)
    BY DeratingExists
  <1>2. Eq(d)
    <2>1. \A n \in 1..8 : d[n] = (d[n - 1] * fs[n]) \div One
      BY <1>1 DEF IsDerating, Reduced
    <2> QED
      BY <1>1, <2>1 DEF IsDerating
  <1>3. Eq(part)
    <2> HIDE DEF Eq
    <2> QED
      BY <1>2
  <1>4. Derated(cap, fs) = part[Len(fs)]
    BY Zenon DEF Derated
  <1> HIDE DEF part
  <1>5. DOMAIN part = 0..8 /\ part[0] = cap
        /\ \A n \in 1..8 : part[n] = Reduced(part[n - 1], fs[n])
    <2>1. part = [n \in 0..8 |->
                    IF n = 0 THEN cap ELSE (part[n - 1] * fs[n]) \div One]
      BY <1>3
    <2>2. \A n \in 0..8 :
             part[n] = IF n = 0 THEN cap ELSE (part[n - 1] * fs[n]) \div One
      BY <2>1
    <2> QED
      BY <2>1, <2>2 DEF Reduced
  <1>6. \A n \in 0..8 : part[n] \in Nat
    <2>1. \A n \in 1..8 : part[n - 1] \in Nat => part[n] \in Nat
      BY <1>5, SharesReduce
    <2>2. part[0] \in Nat /\ part[1] \in Nat /\ part[2] \in Nat
      BY <1>5, <2>1
    <2>3. part[3] \in Nat /\ part[4] \in Nat /\ part[5] \in Nat
      BY <2>1, <2>2
    <2>4. part[6] \in Nat /\ part[7] \in Nat /\ part[8] \in Nat
      BY <2>1, <2>3
    <2>5. \A n \in 0..8 : n \in {0, 1, 2, 3, 4, 5, 6, 7, 8}
      OBVIOUS
    <2> QED
      BY <2>2, <2>3, <2>4, <2>5
  <1>7. part \in [0..8 -> Nat]
    <2>1. part = [n \in 0..8 |-> part[n]]
      BY <1>3, <1>5
    <2> QED
      BY <1>6, <2>1
  <1> QED
    BY <1>4, <1>5, <1>7 DEF IsDerating

\* Eight steps down.
LEMMA StepsDescend ==
    ASSUME NEW d \in [0..8 -> Nat], \A n \in 1..8 : d[n] <= d[n - 1]
    PROVE  d[6] <= d[0] /\ d[7] <= d[6] /\ d[8] <= d[7]
  <1>1. /\ d[1] <= d[0] /\ d[2] <= d[1] /\ d[3] <= d[2] /\ d[4] <= d[3]
        /\ d[5] <= d[4] /\ d[6] <= d[5] /\ d[7] <= d[6] /\ d[8] <= d[7]
    OBVIOUS
  <1>2. /\ d[0] \in Nat /\ d[1] \in Nat /\ d[2] \in Nat /\ d[3] \in Nat
        /\ d[4] \in Nat /\ d[5] \in Nat /\ d[6] \in Nat
    OBVIOUS
  <1> QED
    BY <1>1, <1>2

\* The derated torque is a part of the ceiling and at most the seventh share of it.
LEMMA DeratedRange ==
    ASSUME NEW cap \in Nat, NEW fs \in Seq(Int), Len(fs) = 8, fs \in EightShares
    PROVE  Derated(cap, fs) \in 0..cap /\ One * Derated(cap, fs) <= cap * fs[7]
  <1>1. PICK d : IsDerating(d, cap, fs) /\ Derated(cap, fs) = d[8]
    BY DeratedIsLast
  <1>2. d \in [0..8 -> Nat] /\ d[0] = cap
    BY <1>1 DEF IsDerating
  <1>3. ASSUME NEW n \in 1..8 PROVE d[n] <= d[n - 1]
    <2>1. n - 1 \in 0..8
      OBVIOUS
    <2>2. d[n - 1] \in Nat
      BY <1>2, <2>1
    <2>3. d[n] = Reduced(d[n - 1], fs[n])
      BY <1>1 DEF IsDerating
    <2> QED
      BY <2>2, <2>3, SharesReduce
  <1>4. d[6] <= cap /\ d[7] <= d[6] /\ d[8] <= d[7]
    BY <1>2, <1>3, StepsDescend
  <1>5. d[6] \in Nat /\ d[7] \in Nat /\ d[8] \in Nat
    BY <1>2
  <1>7. fs[7] \in Nat
    <2>1. fs[7] \in 0..One
      BY DEF EightShares
    <2> QED
      BY <2>1 DEF One
  <1>8. One * d[7] <= d[6] * fs[7]
    <2>1. d[7] = Reduced(d[6], fs[7])
      BY <1>1 DEF IsDerating
    <2>2. \A x \in Nat : One * Reduced(x, fs[7]) <= x * fs[7]
      BY SharesReduce
    <2>3. One * Reduced(d[6], fs[7]) <= d[6] * fs[7]
      BY <1>5, <2>2
    <2> QED
      BY <2>1, <2>3
  <1>9. d[6] * fs[7] <= cap * fs[7]
    BY <1>4, <1>5, <1>7, ProductsMonotone
  <1>10. PICK p \in Nat, q \in Nat : p = d[6] * fs[7] /\ q = cap * fs[7]
    BY <1>5, <1>7, NatProduct
  <1>11. 10 * d[8] <= q
    <2>1. 10 * d[7] <= p
      BY <1>8, <1>10 DEF One
    <2>2. p <= q
      BY <1>9, <1>10
    <2> QED
      BY <1>4, <1>5, <2>1, <2>2
  <1>12. d[8] \in 0..cap
    BY <1>4, <1>5
  <1> QED
    BY <1>1, <1>10, <1>11, <1>12 DEF One

LEMMA DeratedMonotone ==
    ASSUME NEW cap \in Nat,
           NEW fs \in Seq(Int), Len(fs) = 8, fs \in EightShares,
           NEW gs \in Seq(Int), Len(gs) = 8, gs \in EightShares,
           \A n \in 1..8 : fs[n] <= gs[n]
    PROVE  Derated(cap, fs) <= Derated(cap, gs)
  <1>1. PICK d : IsDerating(d, cap, fs) /\ Derated(cap, fs) = d[8]
    BY DeratedIsLast
  <1>2. PICK e : IsDerating(e, cap, gs) /\ Derated(cap, gs) = e[8]
    BY DeratedIsLast
  <1>3. \A n \in 1..8 : d[n - 1] <= e[n - 1] => d[n] <= e[n]
    <2> SUFFICES ASSUME NEW n \in 1..8, d[n - 1] <= e[n - 1] PROVE d[n] <= e[n]
      OBVIOUS
    <2>1. d[n - 1] \in Nat /\ e[n - 1] \in Nat
      <3>1. n - 1 \in 0..8
        OBVIOUS
      <3> QED
        BY <1>1, <1>2, <3>1 DEF IsDerating
    <2>2. fs[n] \in 0..One /\ gs[n] \in 0..One /\ fs[n] <= gs[n]
      BY DEF EightShares
    <2>3. Reduced(d[n - 1], fs[n]) <= Reduced(e[n - 1], gs[n])
      BY <2>1, <2>2, ReducedMonotone
    <2> QED
      BY <1>1, <1>2, <2>3 DEF IsDerating
  <1>4. d[0] <= e[0]
    BY <1>1, <1>2 DEF IsDerating
  <1>5. d[1] <= e[1] /\ d[2] <= e[2] /\ d[3] <= e[3] /\ d[4] <= e[4]
    BY <1>3, <1>4
  <1>6. d[5] <= e[5] /\ d[6] <= e[6] /\ d[7] <= e[7] /\ d[8] <= e[8]
    BY <1>3, <1>5
  <1> QED
    BY <1>1, <1>2, <1>6

-----------------------------------------------------------------------------
(***************************************************************************)
(* What an accepted call allows.                                           *)
(***************************************************************************)
LEMMA RegenCaps ==
    ASSUME NEW s, RegenNumbers(s)
    PROVE  BaseCap(s) \in 0..Cfg.peak /\ Requested(s) \in Nat
  <1>1. Cfg.peak \in Nat /\ Cfg.maxPower \in Nat /\ s.rpm \in Nat
    BY RegenConfigNumbers DEF RegenNumbers
  <1>2. BaseCap(s) \in 0..Cfg.peak
    <2>1. CASE s.rpm = 0
      BY <1>1, <2>1 DEF BaseCap
    <2>2. CASE s.rpm # 0
      <3>1. PICK k \in Nat : k = Cfg.maxPower \div s.rpm
        BY <1>1, <2>2, QuotientIsNat
      <3>2. AtMost(Cfg.peak, k) \in 0..Cfg.peak
        BY <1>1, <3>1 DEF AtMost
      <3> QED
        BY <1>1, <2>2, <3>1, <3>2 DEF BaseCap
    <2> QED
      BY <2>1, <2>2
  <1>3. Requested(s) \in Nat
    <2>1. s.brake \in Nat
      BY DEF RegenNumbers, One
    <2>2. PICK p \in Nat : p = s.brake * Cfg.peak
      BY <1>1, <2>1, NatProduct
    <2> QED
      BY <2>2 DEF Requested, One
  <1> QED
    BY <1>2, <1>3

LEMMA FactorsAreSequence ==
    ASSUME NEW s, NEW overall, Factors(s, overall) \in EightShares
    PROVE  /\ Factors(s, overall) \in Seq(Int) /\ Len(Factors(s, overall)) = 8
           /\ Factors(s, overall)[7] = StabilityFactor(s)
  <1>1. PICK f1, f2, f3, f4, f5, f6 :
           Factors(s, overall) = <<f1, f2, f3, f4, f5, f6, StabilityFactor(s), overall>>
    BY DEF Factors
  <1>2. Len(Factors(s, overall)) = 8 /\ Factors(s, overall)[7] = StabilityFactor(s)
    BY <1>1
  <1>3. \A n \in 1..8 : Factors(s, overall)[n] \in Int
    BY DEF EightShares, One
  <1>4. /\ f1 \in Int /\ f2 \in Int /\ f3 \in Int /\ f4 \in Int /\ f5 \in Int
        /\ f6 \in Int /\ StabilityFactor(s) \in Int /\ overall \in Int
    BY <1>1, <1>3
  <1> QED
    BY <1>1, <1>2, <1>4

LEMMA LimitRange ==
    ASSUME NEW s, RegenNumbers(s), torque \in Nat, stability \in 0..One,
           sinceEvent \in Int, NEW overall \in 0..One
    PROVE  /\ Limit(s, Factors(s, overall)) \in Nat
           /\ Limit(s, Factors(s, overall)) <= AtMost(Requested(s), BaseCap(s))
           /\ Limit(s, Factors(s, overall)) <= torque + Cfg.slew * s.dt
           /\ s.abs => One * Limit(s, Factors(s, overall)) <= Cfg.peak * Cfg.absCut
  <1> DEFINE fs == Factors(s, overall)
  <1>1. fs \in EightShares
    BY FactorsAreShares
  <1>2. fs \in Seq(Int) /\ Len(fs) = 8 /\ fs[7] = StabilityFactor(s)
    BY <1>1, FactorsAreSequence
  <1>3. PICK base \in Nat, req \in Nat : base = BaseCap(s) /\ req = Requested(s)
    BY RegenCaps, RegenConfigNumbers
  <1> HIDE DEF fs
  <1>4. Derated(base, fs) \in 0..base /\ One * Derated(base, fs) <= base * fs[7]
    BY <1>1, <1>2, DeratedRange
  <1>5. PICK der \in 0..base : der = Derated(base, fs)
    BY <1>4
  <1>6. PICK rise \in Nat : rise = torque + Cfg.slew * s.dt
    <2>1. Cfg.slew \in Nat /\ s.dt \in Nat
      BY RegenConfigNumbers DEF RegenNumbers
    <2>2. Cfg.slew * s.dt \in Nat
      BY <2>1, NatProduct
    <2> QED
      BY <2>2
  <1>7. Limit(s, fs) = AtMost(AtMost(req, der), rise)
    BY <1>3, <1>5, <1>6 DEF Limit
  <1>8. PICK allowed \in Nat : allowed = Limit(s, fs)
    BY <1>7 DEF AtMost
  <1>9. /\ allowed <= der /\ allowed <= rise /\ allowed <= AtMost(req, base)
    BY <1>7, <1>8 DEF AtMost
  <1>10. ASSUME s.abs PROVE One * allowed <= Cfg.peak * Cfg.absCut
    <2>1. fs[7] = Cfg.absCut
      BY <1>2, <1>10 DEF StabilityFactor
    <2>2. Cfg.absCut \in Nat /\ Cfg.peak \in Nat /\ base <= Cfg.peak
      BY <1>3, RegenCaps, RegenConfigNumbers DEF One
    <2>3. base * Cfg.absCut <= Cfg.peak * Cfg.absCut
      BY <2>2, ProductsMonotone
    <2>4. PICK p \in Nat, q \in Nat : p = base * Cfg.absCut /\ q = Cfg.peak * Cfg.absCut
      BY <2>2, NatProduct
    <2>5. 10 * der <= p
      BY <1>4, <1>5, <2>1, <2>4 DEF One
    <2>6. 10 * allowed <= q
      BY <1>9, <2>3, <2>4, <2>5
    <2> QED
      BY <2>4, <2>6 DEF One
  <1> QED
    BY <1>3, <1>6, <1>8, <1>9, <1>10 DEF fs

\* The members in their ranges, and, as long as ABS cuts at least as much as slip,
\* never less remembered than what ABS leaves.
RegenInRange ==
    /\ regenMembrane \in MembraneStates
    /\ torque \in Nat /\ sinceEvent \in Int /\ stability \in 0..One

AbsCutsMost == Cfg.absCut <= Cfg.slipCut => stability >= Cfg.absCut

RegenInv == RegenInRange /\ AbsCutsMost /\ CeilingAtOnce

LEMMA RegenAssessedIsState ==
    ASSUME NEW s, regenMembrane \in MembraneStates
    PROVE  RegenAssessed(s) \in MembraneStates
  BY MembraneVerdict, RegenAssumption DEF RegenAssessed

LEMMA StabilityFactorLeast ==
    ASSUME NEW s, RegenNumbers(s), stability \in 0..One, AbsCutsMost,
           Cfg.absCut <= Cfg.slipCut
    PROVE  StabilityFactor(s) >= Cfg.absCut
  <1>1. /\ Cfg.absCut \in 0..One /\ Cfg.slipCut \in 0..One /\ stability >= Cfg.absCut
    BY RegenConfigNumbers DEF AbsCutsMost
  <1>2. PICK r \in stability..One : r = Recovered(stability, s.dt)
    BY RecoveredRange DEF RegenNumbers
  <1>3. s.abs \in BOOLEAN /\ s.slip \in BOOLEAN
    BY DEF RegenNumbers
  <1> QED
    BY <1>1, <1>2, <1>3 DEF StabilityFactor, One

\* What remember leaves in range.
LEMMA RememberKeepsRange ==
    ASSUME NEW s, RegenNumbers(s), NEW nm \in Nat, NEW factor \in 0..One,
           Cfg.absCut <= Cfg.slipCut => factor >= Cfg.absCut,
           NEW since \in Int, NEW end, NEW cause,
           Remember(s, nm, factor, since, end, cause), regenMembrane' \in MembraneStates
    PROVE  RegenInRange' /\ AbsCutsMost' /\ torque' = nm /\ report'.call = s
  <1>1. sinceEvent' \in Int
    <2>1. s.dt \in Int
      BY DEF RegenNumbers
    <2> QED
      BY <2>1 DEF Remember
  <1> QED
    BY <1>1 DEF Remember, RegenInRange, AbsCutsMost

\* One call: the range, the ceilings and the bound on a rise.
LEMMA RegenStep ==
    ASSUME RegenInv, NEW s \in Samples, Compute(s)
    PROVE  /\ RegenInv'
           /\ torque' > torque => torque' <= torque + Cfg.slew * report'.call.dt
  <1> USE DEF RegenInv
  <1>1. torque \in Nat /\ stability \in 0..One /\ sinceEvent \in Int
        /\ regenMembrane \in MembraneStates
    BY DEF RegenInRange
  <1>2. ASSUME NEW cause, Reject(s, cause)
        PROVE  RegenInv' /\ torque' = 0
    BY <1>1, <1>2 DEF Reject, RegenInRange, AbsCutsMost, CeilingAtOnce
  <1>3. CASE Refused(s) \/ Unrepresentable(s) \/ SlowMotor(s)
    BY <1>1, <1>2, <1>3 DEF Refused, Unrepresentable, SlowMotor
  <1>4. CASE SafetyFault(s)
    <2>1. RegenNumbers(s)
      BY <1>4, ValidSampleNumbers DEF SafetyFault
    <2>2. One \in 0..One /\ (Cfg.absCut <= Cfg.slipCut => One >= Cfg.absCut)
      BY RegenConfigNumbers DEF One
    <2>3. Remember(s, 0, One, sinceEvent, "blocked", "SAFETY_FAULT")
          /\ regenMembrane' \in MembraneStates
      BY <1>1, <1>4 DEF SafetyFault
    <2>4. RegenInRange' /\ AbsCutsMost' /\ torque' = 0
      BY <1>1, <2>1, <2>2, <2>3, RememberKeepsRange
    <2> QED
      BY <1>1, <2>4 DEF CeilingAtOnce
  <1>5. CASE RegenJudged(s)
    <2> DEFINE after == RegenAssessed(s)
    <2>1. RegenNumbers(s)
      BY <1>5, ValidSampleNumbers DEF RegenJudged, Admitted
    <2>2. after \in MembraneStates
      BY <1>1, RegenAssessedIsState
    <2>3. after.overall \in 0..One
      BY <2>2 DEF MembraneStates
    <2>4. StabilityFactor(s) \in 0..One
      BY <1>1, <2>1, StabilityFactorRange
    <2>5. Cfg.absCut <= Cfg.slipCut => StabilityFactor(s) >= Cfg.absCut
      BY <1>1, <2>1, StabilityFactorLeast
    <2>6. EventTimer(s) \in Int
      BY <1>1 DEF EventTimer
    <2> HIDE DEF after
    <2>7. CASE RegenMembraneRejects(s, after)
      BY <1>1, <1>2, <2>7 DEF RegenMembraneRejects
    <2>8. CASE RegenMembraneTrips(s, after)
      <3>1. RegenInRange' /\ AbsCutsMost' /\ torque' = 0
        BY <2>1, <2>2, <2>4, <2>5, <2>6, <2>8, RememberKeepsRange DEF RegenMembraneTrips
      <3> QED
        BY <1>1, <3>1 DEF CeilingAtOnce
    <2>9. CASE Accept(s, after)
      <3> DEFINE allowed == Limit(s, Factors(s, after.overall))
      <3>1. /\ allowed \in Nat /\ allowed <= AtMost(Requested(s), BaseCap(s))
            /\ allowed <= torque + Cfg.slew * s.dt
            /\ s.abs => One * allowed <= Cfg.peak * Cfg.absCut
        BY <1>1, <2>1, <2>3, LimitRange
      <3>2. /\ regenMembrane' = after
            /\ \E cause : Remember(s, allowed, StabilityFactor(s), EventTimer(s),
                                   "accepted", cause)
        BY <2>9 DEF Accept
      <3> HIDE DEF allowed
      <3>3. RegenInRange' /\ AbsCutsMost' /\ torque' = allowed /\ report'.call = s
        BY <2>1, <2>2, <2>4, <2>5, <2>6, <3>1, <3>2, RememberKeepsRange
      <3>4. CeilingAtOnce'
        BY <3>1, <3>3 DEF CeilingAtOnce
      <3> QED
        BY <3>1, <3>3, <3>4
    <2> QED
      BY <1>5, <2>7, <2>8, <2>9 DEF RegenJudged, after
  <1> QED
    BY <1>3, <1>4, <1>5 DEF Compute

LEMMA RegenInitInv ==
    ASSUME RegenInit
    PROVE  RegenInv
  <1>1. regenMembrane \in MembraneStates
    BY FreshIsState DEF RegenInit
  <1> QED
    BY <1>1, RegenConfigNumbers
       DEF RegenInit, RegenInv, RegenInRange, AbsCutsMost, CeilingAtOnce, One

LEMMA TwinStep ==
    ASSUME RegenInv, [TwinNext]_<<regenVars, second>>
    PROVE  /\ RegenInv'
           /\ torque' > torque => torque' <= torque + Cfg.slew * report'.call.dt
  <1>1. CASE UNCHANGED <<regenVars, second>>
    BY <1>1 DEF regenVars, RegenInv, RegenInRange, AbsCutsMost, CeilingAtOnce
  <1>2. CASE TwinNext
    BY <1>2, RegenStep DEF TwinNext
  <1> QED
    BY <1>1, <1>2

\* A tighter pedal, power or protection ceiling takes effect in the same call.
THEOREM CeilingCorrect == TwinSpec => []CeilingAtOnce
  <1>1. TwinInit => RegenInv
    BY RegenInitInv DEF TwinInit
  <1>2. RegenInv /\ [TwinNext]_<<regenVars, second>> => RegenInv'
    BY TwinStep
  <1>3. RegenInv => CeilingAtOnce
    BY DEF RegenInv
  <1> QED
    BY <1>1, <1>2, <1>3, PTL DEF TwinSpec

\* Regenerative torque never rises faster than the slew limit.
THEOREM RiseCorrect == TwinSpec => RiseIsBounded
  <1>1. TwinInit => RegenInv
    BY RegenInitInv DEF TwinInit
  <1>2. RegenInv /\ [TwinNext]_<<regenVars, second>> => RegenInv'
    BY TwinStep
  <1>3. RegenInv /\ [TwinNext]_<<regenVars, second>> =>
           [torque' > torque =>
              torque' <= torque + Cfg.slew * report'.call.dt]_regenVars
    BY TwinStep
  <1> QED
    BY <1>1, <1>2, <1>3, PTL DEF TwinSpec, RiseIsBounded

-----------------------------------------------------------------------------
(***************************************************************************)
(* A worse sample has smaller factors: every one of them is a ramp of what *)
(* got worse, and the membrane's drift grows with the imbalance.           *)
(***************************************************************************)
LEMMA ShareMonotone ==
    ASSUME NEW x \in Int, NEW y \in Int, x <= y, NEW gain \in Nat, NEW b \in Nat \ {0}
    PROVE  Share(gain, x, b) <= Share(gain, y, b)
  <1>1. PICK p \in Int, q \in Int : p = gain * x /\ q = gain * y
    BY SMT
  <1>2. p <= q
    <2>1. PICK k \in Nat : k = y - x
      OBVIOUS
    <2>2. PICK g \in Nat : g = gain * k
      BY <2>1, NatProduct
    <2>3. q = p + g
      BY <1>1, <2>1, <2>2, SMT
    <2> QED
      BY <1>1, <2>2, <2>3
  <1>3. p \div b <= q \div b
    BY <1>2, QuotientMonotone
  <1> QED
    BY <1>1, <1>3 DEF Share

\* A part of a gain of at most one is at most one.
LEMMA SharePart ==
    ASSUME NEW gain \in 0..10, NEW b \in Nat \ {0}, NEW x \in 0..b
    PROVE  Share(gain, x, b) \in 0..10
  <1>1. gain \in Nat /\ x \in Nat
    OBVIOUS
  <1>2. PICK p \in Nat, q \in Nat : p = gain * x /\ q = 10 * b
    BY <1>1, NatProduct
  <1>3. p <= q
    BY <1>1, <1>2, ProductsMonotone
  <1>4. p \div b \in Nat
    BY <1>2, QuotientIsNat
  <1>5. p \div b <= q \div b
    BY <1>2, <1>3, QuotientMonotone
  <1>6. q \div b = 10
    BY <1>2
  <1> QED
    BY <1>2, <1>4, <1>5, <1>6 DEF Share

LEMMA DriftMonotone ==
    ASSUME NEW m, ValidMembraneConfig(m), NEW a, NEW b, a.present, b.present,
           a.imbalance \in Nat, b.imbalance \in Nat, a.imbalance >= b.imbalance
    PROVE  Drift(m, a) <= Drift(m, b) /\ Drift(m, a) \in Nat /\ Drift(m, b) \in Nat
  <1>1. /\ m.softImbalance \in Int /\ m.hardImbalance \in Int
        /\ m.hardImbalance - m.softImbalance \in Nat \ {0}
    BY ValidNumbers DEF MembraneNumbers
  <1>2. m.driftGain \in 0..10
    BY DEF ValidMembraneConfig, One
  <1>3. PICK span \in Nat \ {0} : span = m.hardImbalance - m.softImbalance
    BY <1>1
  <1> DEFINE part(x) == IF x > m.softImbalance
                        THEN Share(m.driftGain,
                                   AtMost(x, m.hardImbalance) - m.softImbalance, span)
                        ELSE 0
  <1>4. ASSUME NEW x \in Nat, x > m.softImbalance
        PROVE  /\ AtMost(x, m.hardImbalance) - m.softImbalance \in 1..span
               /\ Share(m.driftGain, AtMost(x, m.hardImbalance) - m.softImbalance, span)
                     \in 0..10
    <2>1. PICK k \in 1..span : k = AtMost(x, m.hardImbalance) - m.softImbalance
      BY <1>1, <1>3, <1>4 DEF AtMost
    <2> QED
      BY <1>2, <2>1, SharePart
  <1>5. \A x \in Nat : part(x) \in 0..10
    BY <1>4
  <1>6. \A x, y \in Nat : x <= y => part(x) <= part(y)
    <2> SUFFICES ASSUME NEW x \in Nat, NEW y \in Nat, x <= y, x > m.softImbalance
                 PROVE  part(x) <= part(y)
      BY <1>1, <1>5
    <2>1. y > m.softImbalance
      BY <1>1
    <2>2. AtMost(x, m.hardImbalance) <= AtMost(y, m.hardImbalance)
      BY <1>1 DEF AtMost
    <2>3. PICK kx \in Int, ky \in Int :
             /\ kx = AtMost(x, m.hardImbalance) - m.softImbalance
             /\ ky = AtMost(y, m.hardImbalance) - m.softImbalance
      BY <1>1 DEF AtMost
    <2>4. kx <= ky
      BY <1>1, <2>2, <2>3 DEF AtMost
    <2>5. Share(m.driftGain, kx, span) <= Share(m.driftGain, ky, span)
      BY <1>2, <2>4, ShareMonotone
    <2> QED
      BY <2>1, <2>3, <2>5
  <1>7. /\ Drift(m, a) = One - part(a.imbalance)
        /\ Drift(m, b) = One - part(b.imbalance)
    BY <1>3 DEF Drift
  <1> HIDE DEF part
  <1>8. /\ part(a.imbalance) \in 0..10 /\ part(b.imbalance) \in 0..10
        /\ part(b.imbalance) <= part(a.imbalance)
    BY <1>5, <1>6
  <1> QED
    BY <1>7, <1>8 DEF One

\* The product of the first four factors, which two samples that differ in their
\* reports share, is not negative.
LEMMA FirstFactors ==
    ASSUME NEW m, ValidMembraneConfig(m), NEW s \in MembraneStates,
           NEW v \in Int, v >= m.minV, NEW i \in Int, NEW t \in Int, NEW dt \in Nat \ {0}
    PROVE  /\ Sag(m, v) \in Nat /\ Spike(m, s, i) \in Nat
           /\ Surge(m, s, i, dt) \in Nat /\ Thermal(m, s, t, dt) \in Nat
  <1>1. MembraneNumbers(m)
    BY ValidNumbers
  <1>2. /\ FilteredCurrent(m, s, i) \in Int /\ FilteredRegen(s, i, dt) \in Int
        /\ Slope(m, s, t, dt) \in Int
    <2>1. ~NoDiag.present
      BY DEF NoDiag
    <2>2. dt \in Int /\ dt > 0
      OBVIOUS
    <2> QED
      BY <1>1, <2>1, <2>2, FactorsAreInt
  <1>3. m.sagDamping \in 0..10 /\ m.surgeDamping \in 0..10
    BY DEF ValidMembraneConfig, One
  <1>4. Sag(m, v) \in Nat
    <2>1. PICK span \in Nat \ {0} : span = m.sagV - m.minV
      BY <1>1 DEF MembraneNumbers
    <2>2. CASE v < m.sagV
      <3>1. PICK x \in 0..span : x = m.sagV - v
        BY <1>1, <2>1, <2>2 DEF MembraneNumbers
      <3>2. Share(m.sagDamping, x, span) \in 0..10
        BY <1>3, SharePart
      <3> QED
        BY <2>1, <2>2, <3>1, <3>2 DEF Sag, One
    <2>3. CASE ~(v < m.sagV)
      BY <2>3 DEF Sag, One
    <2> QED
      BY <2>2, <2>3
  <1>5. ASSUME NEW x \in Int PROVE Clamp(x, 2, One) \in Nat
    BY DEF Clamp, One
  <1>6. Spike(m, s, i) \in Nat
    <2>1. PICK bound \in Nat \ {0} : bound = IF i >= 0 THEN m.maxDischarge ELSE m.maxCharge
      BY <1>1 DEF MembraneNumbers
    <2>2. PICK d \in Int : d = Abs(i - FilteredCurrent(m, s, i))
      BY <1>2 DEF Abs
    <2>3. PICK x \in Int : x = One - Share(One, d, bound)
      BY DEF Share, One
    <2>4. Spike(m, s, i) = Clamp(x, 2, One)
      BY <2>1, <2>2, <2>3 DEF Spike
    <2> QED
      BY <1>5, <2>4
  <1>7. Surge(m, s, i, dt) \in Nat
    <2>1. PICK rate \in Int : rate = (FilteredRegen(s, i, dt) - s.regen) \div dt
      BY <1>2 DEF MembraneStates
    <2>2. m.surgeRate \in Nat \ {0}
      BY <1>1 DEF MembraneNumbers
    <2>3. CASE i < 0 /\ rate > m.surgeRate
      <3>1. PICK x \in 0..m.surgeRate : x = AtMost(rate - m.surgeRate, m.surgeRate)
        BY <2>2, <2>3 DEF AtMost
      <3>2. Share(m.surgeDamping, x, m.surgeRate) \in 0..10
        BY <1>3, <2>2, SharePart
      <3>3. Surge(m, s, i, dt) = One - Share(m.surgeDamping, x, m.surgeRate)
        BY <2>1, <2>3, <3>1 DEF Surge
      <3> QED
        BY <3>2, <3>3 DEF One
    <2>4. CASE ~(i < 0 /\ rate > m.surgeRate)
      BY <2>1, <2>4 DEF Surge, One
    <2> QED
      BY <2>3, <2>4
  <1>8. Thermal(m, s, t, dt) \in Nat
    <2>1. PICK slope \in Int : slope = AtMost(Abs(Slope(m, s, t, dt)), 3)
      BY <1>2 DEF AtMost, Abs
    <2>2. PICK hot \in Int :
             hot = IF t > m.softT THEN Share(5, t - m.softT, m.hardT - m.softT) ELSE 0
      BY <1>1 DEF Share, MembraneNumbers
    <2>3. PICK x \in Int : x = One - hot - slope
      BY DEF One
    <2>4. Thermal(m, s, t, dt) = Clamp(x, 2, One)
      BY <2>1, <2>2, <2>3 DEF Thermal
    <2> QED
      BY <1>5, <2>4
  <1> QED
    BY <1>4, <1>6, <1>7, <1>8

LEMMA OverallMonotone ==
    ASSUME NEW m, ValidMembraneConfig(m), NEW s \in MembraneStates,
           NEW v \in Int, v >= m.minV, NEW i \in Int, NEW t \in Int, NEW dt \in Nat \ {0},
           NEW a, NEW b, a.present, b.present,
           a.imbalance \in Nat, b.imbalance \in Nat, a.imbalance >= b.imbalance
    PROVE  Overall(m, s, v, i, t, a, dt) <= Overall(m, s, v, i, t, b, dt)
  <1>1. PICK f1 \in Nat, f2 \in Nat, f3 \in Nat, f4 \in Nat :
           /\ f1 = Sag(m, v) /\ f2 = Spike(m, s, i)
           /\ f3 = Surge(m, s, i, dt) /\ f4 = Thermal(m, s, t, dt)
    BY FirstFactors
  <1>2. PICK da \in Nat, db \in Nat : da = Drift(m, a) /\ db = Drift(m, b) /\ da <= db
    BY DriftMonotone
  <1>3. PICK f \in Nat : f = f1 * f2 * f3 * f4
    <2>1. f1 * f2 \in Nat
      BY NatProduct
    <2>2. f1 * f2 * f3 \in Nat
      BY <2>1, NatProduct
    <2>3. f1 * f2 * f3 * f4 \in Nat
      BY <2>2, NatProduct
    <2> QED
      BY <2>3
  <1>4. PICK p \in Nat, q \in Nat : p = f * da /\ q = f * db
    BY NatProduct
  <1>5. p <= q
    BY <1>2, <1>4, ProductMonotone
  <1>6. PICK x \in Nat, y \in Nat : x = p \div 10000 /\ y = q \div 10000 /\ x <= y
    BY <1>5
  <1>7. /\ Overall(m, s, v, i, t, a, dt) = Clamp(x, 1, One)
        /\ Overall(m, s, v, i, t, b, dt) = Clamp(y, 1, One)
    BY <1>1, <1>2, <1>3, <1>4, <1>6 DEF Overall
  <1> QED
    BY <1>6, <1>7 DEF Clamp, One

\* A sample the membrane has judged without a trip.
LEMMA JudgedOverall ==
    ASSUME NEW s, RegenAssessed(s).trip = "NONE"
    PROVE  /\ RegenAssessed(s).overall =
                 Overall(RegenMembrane, regenMembrane, s.v, -(Requested(s) \div 2),
                         s.t, s.diag, s.dt)
           /\ s.v >= RegenMembrane.minV
  <1> DEFINE i == -(Requested(s) \div 2)
  <1>1. /\ ValidMembraneInput(s.v, i, s.t, s.diag, s.dt)
        /\ HardTrip(RegenMembrane, s.v, s.t, s.diag) = "NONE"
        /\ Representable(regenMembrane, i, s.t)
    BY DEF RegenAssessed, EvaluateMembrane, Denied
  <1>2. s.v \in Int /\ RegenMembrane.minV \in Int
    <2>1. s.v \in Finite
      BY <1>1 DEF ValidMembraneInput, IsFinite
    <2>2. MembraneNumbers(RegenMembrane)
      BY ValidNumbers, RegenAssumption
    <2> QED
      BY <2>1, <2>2, DoublesAssumption DEF Finite, MembraneNumbers
  <1>3. ASSUME s.v < RegenMembrane.minV PROVE FALSE
    <2>1. s.v \notin RegenMembrane.minV..RegenMembrane.maxV
      BY <1>2, <1>3
    <2>2. HardTrip(RegenMembrane, s.v, s.t, s.diag) \in
             {"CRITICAL_UNDERVOLTAGE_SAG", "CRITICAL_OVERVOLTAGE_SURGE"}
      BY <1>3, <2>1 DEF HardTrip
    <2> QED
      BY <1>1, <2>2
  <1> QED
    BY <1>1, <1>2, <1>3 DEF RegenAssessed, EvaluateMembrane

\* What a worse sample shares with the better one.
LEMMA WorseSampleFacts ==
    ASSUME NEW a \in Samples, NEW b \in Samples, WorseSample(a, b)
    PROVE  /\ a.v = b.v /\ a.t = b.t /\ a.dt = b.dt /\ a.brake = b.brake
           /\ a.rpm = b.rpm /\ a.speed = b.speed
  <1>1. a \in RegenSamples /\ b \in RegenSamples
    BY RegenAssumption
  <1>2. a = [b EXCEPT !.soc = a.soc, !.abs = a.abs, !.slip = a.slip, !.diag = a.diag]
    BY DEF WorseSample
  <1> QED
    BY <1>1, <1>2 DEF RegenSamples

\* A call without an ABS or slip event leaves at least what ABS leaves, and an event
\* that makes a sample worse takes at least as much.
LEMMA StabilityFactorWorse ==
    ASSUME NEW a \in Samples, NEW b \in Samples, RegenNumbers(a), RegenNumbers(b),
           WorseSample(a, b),
           RegenInRange, AbsCutsMost, Cfg.absCut <= Cfg.slipCut
    PROVE  StabilityFactor(a) <= StabilityFactor(b)
  <1>1. /\ stability \in 0..One /\ sinceEvent \in Int /\ stability >= Cfg.absCut
        /\ Cfg.absCut \in 0..One /\ Cfg.slipCut \in 0..One
    BY RegenConfigNumbers DEF RegenInRange, AbsCutsMost
  <1>2. /\ a.abs \in BOOLEAN /\ a.slip \in BOOLEAN
        /\ b.abs \in BOOLEAN /\ b.slip \in BOOLEAN
    BY DEF RegenNumbers
  <1>3. /\ a.dt = b.dt /\ (b.abs => a.abs) /\ (b.slip => a.slip \/ a.abs)
        /\ a.slip /\ ~a.abs /\ ~b.slip => sinceEvent < 0 \/ stability >= Cfg.slipCut
    BY WorseSampleFacts DEF WorseSample
  <1>4. PICK r \in stability..One : r = Recovered(stability, b.dt)
    BY <1>1, RecoveredRange DEF RegenNumbers
  <1>5. StabilityFactor(b) \in 0..One
    BY <1>1, StabilityFactorRange
  <1>6. CASE a.abs
    <2>1. StabilityFactor(a) = Cfg.absCut
      BY <1>6 DEF StabilityFactor
    <2> QED
      BY <1>1, <2>1, StabilityFactorLeast, <1>5 DEF One
  <1>7. CASE ~a.abs /\ a.slip
    <2>1. StabilityFactor(a) = Cfg.slipCut
      BY <1>7 DEF StabilityFactor
    <2>2. CASE b.slip
      BY <1>1, <1>3, <1>7, <2>1, <2>2 DEF StabilityFactor
    <2>3. CASE ~b.slip
      <3>1. StabilityFactor(b) = IF sinceEvent >= 0 THEN r ELSE One
        BY <1>2, <1>3, <1>4, <1>7, <2>3 DEF StabilityFactor
      <3> QED
        BY <1>1, <1>3, <1>7, <2>1, <2>3, <3>1 DEF One
    <2> QED
      BY <2>2, <2>3
  <1>8. CASE ~a.abs /\ ~a.slip
    <2>1. StabilityFactor(a) = StabilityFactor(b)
      BY <1>2, <1>3, <1>8 DEF StabilityFactor
    <2> QED
      BY <1>5, <2>1 DEF One
  <1> QED
    BY <1>2, <1>6, <1>7, <1>8

LEMMA CellFactorWorse ==
    ASSUME NEW a, NEW b, a.imbalance \in Nat, b.imbalance \in Nat,
           a.present, b.present, a.cells = b.cells, a.imbalance >= b.imbalance
    PROVE  CellFactor(a) <= CellFactor(b)
  <1>1. PICK full \in Nat \ {0} : full = Cfg.hardImbalance - Cfg.softImbalance
    BY RegenConfigNumbers, RegenSpans
  <1>2. PICK x \in Int, y \in Int : /\ x = Cfg.hardImbalance - a.imbalance
                                    /\ y = Cfg.hardImbalance - b.imbalance
    BY RegenConfigNumbers
  <1>3. x <= y
    BY <1>2, RegenConfigNumbers
  <1>4. PICK p \in 0..One, q \in 0..One : p = Ramp(x, 0, full) /\ q = Ramp(y, 0, full)
    <2>1. Ramp(x, 0, full) \in 0..One
      BY <1>1, RampRange
    <2>2. Ramp(y, 0, full) \in 0..One
      BY <1>1, RampRange
    <2> QED
      BY <2>1, <2>2
  <1>5. p <= q
    BY <1>1, <1>3, <1>4, RampMonotone
  <1>6. /\ CellFactor(a) = IF a.cells <= 1 THEN One ELSE AtLeast(p, 3)
        /\ CellFactor(b) = IF b.cells <= 1 THEN One ELSE AtLeast(q, 3)
    BY <1>1, <1>2, <1>4 DEF CellFactor
  <1> QED
    BY <1>4, <1>5, <1>6 DEF AtLeast, One

LEMMA DsFactorWorse ==
    ASSUME NEW a, NEW b, a.confidence \in 0..One, b.confidence \in 0..One,
           a.confidence <= b.confidence
    PROVE  DsFactor(a) <= DsFactor(b)
  <1>1. a.confidence \in Int /\ b.confidence \in Int
    BY DEF One
  <1>2. PICK p \in 0..One, q \in 0..One :
           /\ p = Ramp(a.confidence, Cfg.hardConfidence, Cfg.fullConfidence)
           /\ q = Ramp(b.confidence, Cfg.hardConfidence, Cfg.fullConfidence)
    BY <1>1, RegenConfigNumbers, RegenSpans, RampRange
  <1>3. p <= q
    BY <1>1, <1>2, RegenConfigNumbers, RegenSpans, RampMonotone
  <1> QED
    BY <1>2, <1>3 DEF DsFactor, AtLeast, One

LEMMA FactorsWorse ==
    ASSUME NEW a \in Samples, NEW b \in Samples, RegenNumbers(a), RegenNumbers(b),
           WorseSample(a, b),
           RegenInRange, AbsCutsMost, Cfg.absCut <= Cfg.slipCut,
           NEW oa \in 0..One, NEW ob \in 0..One, oa <= ob
    PROVE  \A n \in 1..8 : Factors(a, oa)[n] <= Factors(b, ob)[n]
  <1>1. a.v = b.v /\ a.t = b.t /\ a.speed = b.speed /\ a.soc >= b.soc
    BY WorseSampleFacts DEF WorseSample
  <1>2. Factors(a, oa) \in EightShares /\ Factors(b, ob) \in EightShares
    BY FactorsAreShares DEF RegenInRange
  <1>3. Ramp(Cfg.hardSoc - a.soc, 0, Cfg.hardSoc - Cfg.softSoc)
          <= Ramp(Cfg.hardSoc - b.soc, 0, Cfg.hardSoc - Cfg.softSoc)
    <2>1. PICK x \in Int, y \in Int, full \in Nat \ {0} :
             /\ x = Cfg.hardSoc - a.soc /\ y = Cfg.hardSoc - b.soc
             /\ full = Cfg.hardSoc - Cfg.softSoc
      BY RegenConfigNumbers, RegenSpans DEF RegenNumbers
    <2>2. x <= y
      BY <1>1, <2>1, RegenConfigNumbers DEF RegenNumbers
    <2> QED
      BY <2>1, <2>2, RampMonotone
  <1>4. CellFactor(a.diag) <= CellFactor(b.diag) /\ DsFactor(a.diag) <= DsFactor(b.diag)
    <2>1. CASE a.diag = b.diag
      <3>1. Factors(b, ob)[5] \in 0..One /\ Factors(b, ob)[6] \in 0..One
        BY <1>2 DEF EightShares
      <3>2. CellFactor(b.diag) \in 0..One /\ DsFactor(b.diag) \in 0..One
        BY <3>1 DEF Factors
      <3> QED
        BY <2>1, <3>2 DEF One
    <2>2. CASE a.diag # b.diag
      <3>1. /\ a.diag.present /\ b.diag.present /\ a.diag.cells = b.diag.cells
            /\ a.diag.confidence <= b.diag.confidence
            /\ a.diag.imbalance >= b.diag.imbalance
        BY <2>2 DEF WorseSample
      <3>2. /\ a.diag.imbalance \in Nat /\ b.diag.imbalance \in Nat
            /\ a.diag.confidence \in 0..One /\ b.diag.confidence \in 0..One
        BY DEF RegenNumbers
      <3>3. CellFactor(a.diag) <= CellFactor(b.diag)
        BY <3>1, <3>2, CellFactorWorse
      <3>4. DsFactor(a.diag) <= DsFactor(b.diag)
        BY <3>1, <3>2, DsFactorWorse
      <3> QED
        BY <3>3, <3>4
    <2> QED
      BY <2>1, <2>2
  <1>5. StabilityFactor(a) <= StabilityFactor(b)
    BY StabilityFactorWorse
  <1>6. /\ Factors(a, oa)[1] = Factors(b, ob)[1] /\ Factors(a, oa)[3] = Factors(b, ob)[3]
        /\ Factors(a, oa)[4] = Factors(b, ob)[4]
    BY <1>1 DEF Factors
  <1>7. /\ Factors(a, oa)[2] <= Factors(b, ob)[2] /\ Factors(a, oa)[5] <= Factors(b, ob)[5]
        /\ Factors(a, oa)[6] <= Factors(b, ob)[6] /\ Factors(a, oa)[7] <= Factors(b, ob)[7]
        /\ Factors(a, oa)[8] <= Factors(b, ob)[8]
    BY <1>3, <1>4, <1>5 DEF Factors
  <1>8. \A n \in 1..8 : Factors(b, ob)[n] \in Int
    BY <1>2 DEF EightShares, One
  <1>9. /\ Factors(a, oa)[1] <= Factors(b, ob)[1] /\ Factors(a, oa)[3] <= Factors(b, ob)[3]
         /\ Factors(a, oa)[4] <= Factors(b, ob)[4]
    BY <1>6, <1>8
  <1>10. \A n \in 1..8 : n \in {1, 2, 3, 4, 5, 6, 7, 8}
    OBVIOUS
  <1> QED
    BY <1>7, <1>9, <1>10

LEMMA AllowedWorse ==
    ASSUME RegenInv, Cfg.absCut <= Cfg.slipCut,
           NEW a \in Samples, NEW b \in Samples, Allowable(a), Allowable(b),
           WorseSample(a, b)
    PROVE  Allowed(a) <= Allowed(b)
  <1>1. RegenNumbers(a) /\ RegenNumbers(b)
    BY ValidSampleNumbers DEF Allowable, Admitted
  <1>2. RegenInRange /\ AbsCutsMost
    BY DEF RegenInv
  <1>3. /\ a.v = b.v /\ a.t = b.t /\ a.dt = b.dt /\ a.brake = b.brake /\ a.rpm = b.rpm
    BY WorseSampleFacts
  <1>4. Requested(a) = Requested(b) /\ BaseCap(a) = BaseCap(b)
    BY <1>3 DEF Requested, BaseCap
  <1> DEFINE oa == RegenAssessed(a).overall
             ob == RegenAssessed(b).overall
  <1>5. oa \in 0..One /\ ob \in 0..One
    BY <1>2, RegenAssessedIsState DEF RegenInRange, MembraneStates
  <1>6. oa <= ob
    <2>1. PICK i \in Int : i = -(Requested(b) \div 2)
      BY <1>1, RegenCaps
    <2>2. /\ oa = Overall(RegenMembrane, regenMembrane, b.v, i, b.t, a.diag, b.dt)
          /\ ob = Overall(RegenMembrane, regenMembrane, b.v, i, b.t, b.diag, b.dt)
          /\ b.v >= RegenMembrane.minV
      BY <1>3, <1>4, <2>1, JudgedOverall DEF Allowable
    <2>3. CASE a.diag = b.diag
      BY <1>5, <2>2, <2>3 DEF One
    <2>4. CASE a.diag # b.diag
      <3>1. /\ a.diag.present /\ b.diag.present /\ a.diag.imbalance >= b.diag.imbalance
        BY <2>4 DEF WorseSample
      <3>2. /\ a.diag.imbalance \in Nat /\ b.diag.imbalance \in Nat
            /\ b.v \in Int /\ b.t \in Int /\ b.dt \in Nat \ {0}
        BY <1>1 DEF RegenNumbers
      <3>3. regenMembrane \in MembraneStates /\ ValidMembraneConfig(RegenMembrane)
        BY <1>2, RegenAssumption DEF RegenInRange
      <3> HIDE DEF oa, ob
      <3> QED
        BY <2>1, <2>2, <3>1, <3>2, <3>3, OverallMonotone
    <2> QED
      BY <2>3, <2>4
  <1> HIDE DEF oa, ob
  <1>7. Factors(a, oa) \in EightShares /\ Factors(b, ob) \in EightShares
    BY <1>1, <1>2, <1>5, FactorsAreShares DEF RegenInRange
  <1>8. \A n \in 1..8 : Factors(a, oa)[n] <= Factors(b, ob)[n]
    BY <1>1, <1>2, <1>5, <1>6, FactorsWorse
  <1>9. PICK base \in Nat : base = BaseCap(b)
    BY <1>1, RegenCaps, RegenConfigNumbers
  <1>10. Derated(base, Factors(a, oa)) <= Derated(base, Factors(b, ob))
    BY <1>7, <1>8, FactorsAreSequence, DeratedMonotone
  <1>11. PICK da \in Nat, db \in Nat :
            /\ da = Derated(base, Factors(a, oa)) /\ db = Derated(base, Factors(b, ob))
    <2>1. Derated(base, Factors(a, oa)) \in 0..base
      BY <1>7, FactorsAreSequence, DeratedRange
    <2>2. Derated(base, Factors(b, ob)) \in 0..base
      BY <1>7, FactorsAreSequence, DeratedRange
    <2> QED
      BY <2>1, <2>2
  <1>12. PICK req \in Nat : req = Requested(b)
    BY <1>1, RegenCaps
  <1>13. PICK rise \in Int : rise = torque + Cfg.slew * b.dt
    <2>1. torque \in Nat /\ Cfg.slew \in Nat /\ b.dt \in Nat
      BY <1>1, <1>2, RegenConfigNumbers DEF RegenInRange, RegenNumbers
    <2>2. Cfg.slew * b.dt \in Nat
      BY <2>1, NatProduct
    <2> QED
      BY <2>1, <2>2
  <1>14. /\ Allowed(a) = AtMost(AtMost(req, da), rise)
         /\ Allowed(b) = AtMost(AtMost(req, db), rise)
    BY <1>3, <1>4, <1>9, <1>11, <1>12, <1>13 DEF Allowed, Limit, oa, ob
  <1> QED
    BY <1>10, <1>11, <1>14 DEF AtMost

\* As long as ABS cuts at least as much as slip, which no check demands but the
\* defaults satisfy, a worse sample is never allowed more torque.
THEOREM WorseSampleCorrect ==
    Cfg.absCut <= Cfg.slipCut => (TwinSpec => []WorseSampleNeverMore)
  <1> SUFFICES ASSUME Cfg.absCut <= Cfg.slipCut
               PROVE  TwinSpec => []WorseSampleNeverMore
    OBVIOUS
  <1>1. TwinInit => RegenInv
    BY RegenInitInv DEF TwinInit
  <1>2. RegenInv /\ [TwinNext]_<<regenVars, second>> => RegenInv'
    BY TwinStep
  <1>3. RegenInv => WorseSampleNeverMore
    BY AllowedWorse DEF WorseSampleNeverMore
  <1> QED
    BY <1>1, <1>2, <1>3, PTL DEF TwinSpec

-----------------------------------------------------------------------------
(***************************************************************************)
(* The twin.  The instance `clean` has definitions of its own, equal to    *)
(* those of the first manager wherever the two agree on what they read; so *)
(* a call that is not rejected ends the same way in both, and only the     *)
(* torque they start from can tell their limits apart.                     *)
(***************************************************************************)
\* The numbers.
LEMMA SameDoubles ==
    /\ \A x : clean!IsFinite(x) <=> IsFinite(x)
    /\ \A x : clean!Abs(x) = Abs(x)
    /\ \A x, low, high : clean!Clamp(x, low, high) = Clamp(x, low, high)
    /\ \A x, high : clean!AtMost(x, high) = AtMost(x, high)
    /\ \A x, low : clean!AtLeast(x, low) = AtLeast(x, low)
    /\ \A x, a, b : clean!Share(x, a, b) = Share(x, a, b)
    /\ clean!One = One
  BY DEF clean!IsFinite, IsFinite, clean!Finite, Finite, clean!Abs, Abs, clean!Clamp, Clamp,
         clean!AtMost, AtMost, clean!AtLeast, AtLeast, clean!Share, Share, clean!One, One

\* The checks of the membrane.
LEMMA SameVerdict ==
    /\ \A v, i, t, d, dt :
          clean!ValidMembraneInput(v, i, t, d, dt) <=> ValidMembraneInput(v, i, t, d, dt)
    /\ \A m, v, t, d : clean!HardTrip(m, v, t, d) = HardTrip(m, v, t, d)
    /\ \A s, i, t : clean!Representable(s, i, t) <=> Representable(s, i, t)
    /\ \A s, reason : clean!Denied(s, reason) = Denied(s, reason)
  <1>1. \A v, i, t, d, dt :
          clean!ValidMembraneInput(v, i, t, d, dt) <=> ValidMembraneInput(v, i, t, d, dt)
    BY SameDoubles DEF clean!ValidMembraneInput, ValidMembraneInput
  <1>2. \A m, v, t, d : clean!HardTrip(m, v, t, d) = HardTrip(m, v, t, d)
    BY DEF clean!HardTrip, HardTrip
  <1>3. \A s, i, t : clean!Representable(s, i, t) <=> Representable(s, i, t)
    BY SameDoubles DEF clean!Representable, Representable
  <1>4. \A s, reason : clean!Denied(s, reason) = Denied(s, reason)
    BY DEF clean!Denied, Denied
  <1> QED
    BY <1>1, <1>2, <1>3, <1>4

\* Its filters.
LEMMA SameFilters ==
    /\ \A m, s, i : clean!FilteredCurrent(m, s, i) = FilteredCurrent(m, s, i)
    /\ \A s, i, dt : clean!FilteredRegen(s, i, dt) = FilteredRegen(s, i, dt)
    /\ \A m, s, t, dt : clean!Slope(m, s, t, dt) = Slope(m, s, t, dt)
  <1>1. \A m, s, i : clean!FilteredCurrent(m, s, i) = FilteredCurrent(m, s, i)
    BY SameDoubles DEF clean!FilteredCurrent, FilteredCurrent
  <1>2. \A s, i, dt : clean!FilteredRegen(s, i, dt) = FilteredRegen(s, i, dt)
    BY SameDoubles DEF clean!FilteredRegen, FilteredRegen
  <1>3. \A m, s, t, dt : clean!Slope(m, s, t, dt) = Slope(m, s, t, dt)
    BY SameDoubles DEF clean!Slope, Slope
  <1> QED
    BY <1>1, <1>2, <1>3

\* Its overall stability.
LEMMA SameOverall ==
    \A m, s, v, i, t, d, dt :
        clean!Overall(m, s, v, i, t, d, dt) = Overall(m, s, v, i, t, d, dt)
  <1>1. \A m, v : clean!Sag(m, v) = Sag(m, v)
    BY SameDoubles DEF clean!Sag, Sag
  <1>2. \A m, s, i : clean!Spike(m, s, i) = Spike(m, s, i)
    BY SameDoubles, SameFilters DEF clean!Spike, Spike
  <1>3. \A m, s, i, dt : clean!Surge(m, s, i, dt) = Surge(m, s, i, dt)
    BY SameDoubles, SameFilters DEF clean!Surge, Surge
  <1>4. \A m, s, t, dt : clean!Thermal(m, s, t, dt) = Thermal(m, s, t, dt)
    BY SameDoubles, SameFilters DEF clean!Thermal, Thermal
  <1>5. \A m, d : clean!Drift(m, d) = Drift(m, d)
    BY SameDoubles DEF clean!Drift, Drift
  <1> QED
    BY <1>1, <1>2, <1>3, <1>4, <1>5, SameDoubles DEF clean!Overall, Overall

\* An evaluation as a whole.
LEMMA SameEvaluation ==
    \A m, s, v, i, t, d, dt :
        clean!EvaluateMembrane(m, s, v, i, t, d, dt) = EvaluateMembrane(m, s, v, i, t, d, dt)
  <1>1. \A m, overall, t : clean!Boost(m, overall, t) = Boost(m, overall, t)
    BY SameDoubles DEF clean!Boost, Boost
  <1> QED
    BY <1>1, SameVerdict, SameFilters, SameOverall
       DEF clean!EvaluateMembrane, EvaluateMembrane

\* The two managers agree on everything but the torque.
SameBut ==
    regenMembrane = cMembrane /\ sinceEvent = cSinceEvent /\ stability = cStability

\* The checks of a call and the timer it starts from.
LEMMA SameChecks ==
    ASSUME SameBut, NEW s
    PROVE  /\ clean!ValidInputs(s) <=> ValidInputs(s)
           /\ clean!Computable(s) <=> Computable(s)
           /\ clean!PowerConvertible(s) <=> PowerConvertible(s)
           /\ clean!Admitted(s) <=> Admitted(s)
           /\ clean!EventTimer(s) = EventTimer(s)
  <1>1. clean!ValidInputs(s) <=> ValidInputs(s)
    BY SameDoubles DEF clean!ValidInputs, ValidInputs
  <1>2. clean!Computable(s) <=> Computable(s)
    BY SameDoubles DEF clean!Computable, Computable, SameBut
  <1>3. clean!PowerConvertible(s) <=> PowerConvertible(s)
    BY DEF clean!PowerConvertible, PowerConvertible
  <1>4. clean!Admitted(s) <=> Admitted(s)
    BY <1>1, <1>2 DEF clean!Admitted, Admitted
  <1>5. clean!EventTimer(s) = EventTimer(s)
    BY DEF clean!EventTimer, EventTimer, SameBut
  <1> QED
    BY <1>1, <1>2, <1>3, <1>4, <1>5

\* The ceilings depend on the sample alone.
LEMMA SameCaps ==
    ASSUME NEW s
    PROVE  clean!Requested(s) = Requested(s) /\ clean!BaseCap(s) = BaseCap(s)
  <1>1. clean!Requested(s) = Requested(s)
    BY SameDoubles DEF clean!Requested, Requested
  <1>2. clean!BaseCap(s) = BaseCap(s)
    BY SameDoubles DEF clean!BaseCap, BaseCap
  <1> QED
    BY <1>1, <1>2

\* What the two membranes say of a sample.
LEMMA SameAssessed ==
    ASSUME SameBut, NEW s
    PROVE  clean!RegenAssessed(s) = RegenAssessed(s)
  BY SameCaps, SameEvaluation DEF clean!RegenAssessed, RegenAssessed, SameBut

\* The factors and their product.
LEMMA SameStabilityFactor ==
    ASSUME SameBut, NEW s, RegenNumbers(s)
    PROVE  clean!StabilityFactor(s) = StabilityFactor(s)
  <1>1. clean!Recovered(cStability, s.dt) = Recovered(stability, s.dt)
    BY SameDoubles DEF clean!Recovered, Recovered, SameBut
  <1>2. s.abs \in BOOLEAN /\ s.slip \in BOOLEAN
    BY DEF RegenNumbers
  <1> QED
    BY <1>1, <1>2, SameDoubles DEF clean!StabilityFactor, StabilityFactor, SameBut

LEMMA SameFactors ==
    ASSUME SameBut, NEW s, RegenNumbers(s), NEW overall
    PROVE  clean!Factors(s, overall) = Factors(s, overall)
  <1>1. \A x, zero, full : clean!Ramp(x, zero, full) = Ramp(x, zero, full)
    BY SameDoubles DEF clean!Ramp, Ramp
  <1>2. clean!TempFactor(s.t) = TempFactor(s.t)
    BY <1>1, SameDoubles DEF clean!TempFactor, TempFactor
  <1>3. clean!CellFactor(s.diag) = CellFactor(s.diag)
    BY <1>1, SameDoubles DEF clean!CellFactor, CellFactor
  <1>4. clean!DsFactor(s.diag) = DsFactor(s.diag)
    BY <1>1, SameDoubles DEF clean!DsFactor, DsFactor
  <1>5. clean!StabilityFactor(s) = StabilityFactor(s)
    BY SameStabilityFactor
  <1> QED
    BY <1>1, <1>2, <1>3, <1>4, <1>5 DEF clean!Factors, Factors

LEMMA SameDerated ==
    ASSUME NEW cap, NEW fs
    PROVE  clean!Derated(cap, fs) = Derated(cap, fs)
  <1>1. clean!One = One
    BY SameDoubles
  <1> QED
    BY <1>1, Zenon DEF clean!Derated, Derated, clean!One, One

\* With the same memory, the manager with the higher last torque is allowed no less.
LEMMA LimitFollowsTorque ==
    ASSUME SameBut, NEW s, RegenNumbers(s), stability \in 0..One, sinceEvent \in Int,
           torque \in Nat, cTorque \in Nat, torque <= cTorque, NEW overall \in 0..One
    PROVE  /\ clean!Limit(s, clean!Factors(s, overall)) \in Nat
           /\ Limit(s, Factors(s, overall)) <= clean!Limit(s, clean!Factors(s, overall))
  <1>1. Factors(s, overall) \in EightShares
    BY FactorsAreShares
  <1>2. PICK base \in Nat, req \in Nat : base = BaseCap(s) /\ req = Requested(s)
    BY RegenCaps, RegenConfigNumbers
  <1>3. PICK fs : fs = Factors(s, overall)
    OBVIOUS
  <1>4. fs = clean!Factors(s, overall)
    BY <1>3, SameFactors
  <1>5. PICK der \in Nat : der = Derated(base, fs)
    <2>1. Derated(base, fs) \in 0..base
      BY <1>1, <1>3, FactorsAreSequence, DeratedRange
    <2> QED
      BY <2>1
  <1>6. PICK step \in Nat : step = Cfg.slew * s.dt
    <2>1. Cfg.slew \in Nat /\ s.dt \in Nat
      BY RegenConfigNumbers DEF RegenNumbers
    <2> QED
      BY <2>1, NatProduct
  <1>7. Limit(s, fs) = AtMost(AtMost(req, der), torque + step)
    BY <1>2, <1>5, <1>6 DEF Limit
  <1>8. clean!Limit(s, fs) = AtMost(AtMost(req, der), cTorque + step)
    BY <1>2, <1>5, <1>6, SameDoubles, SameCaps, SameDerated DEF clean!Limit
  <1> QED
    BY <1>3, <1>4, <1>7, <1>8 DEF AtMost

\* What the twins keep: the first manager its own invariant, the second a torque, and
\* both the same memory.
TwinInv == RegenInv /\ cTorque \in Nat /\ RejectionOnlyLowers

LEMMA TwinInitInv ==
    ASSUME TwinInit
    PROVE  TwinInv
  <1>1. clean!FreshMembrane = FreshMembrane
    BY SameDoubles DEF clean!FreshMembrane, FreshMembrane
  <1>2. RegenInv
    BY RegenInitInv DEF TwinInit
  <1> QED
    BY <1>1, <1>2, SameDoubles
       DEF TwinInit, TwinInv, RegenInit, clean!RegenInit, RejectionOnlyLowers

\* A call that is not rejected ends the same way for both managers.
LEMMA TwinCompute ==
    ASSUME TwinInv, NEW s \in Samples, Compute(s), clean!Compute(s),
           report'.end # "rejected"
    PROVE  cTorque' \in Nat /\ RejectionOnlyLowers'
  <1>1. /\ SameBut /\ torque \in Nat /\ cTorque \in Nat /\ torque <= cTorque
        /\ regenMembrane \in MembraneStates /\ sinceEvent \in Int /\ stability \in 0..One
    BY DEF TwinInv, RegenInv, RegenInRange, RejectionOnlyLowers, SameBut
  <1>2. ASSUME NEW cause PROVE ~Reject(s, cause)
    BY DEF Reject
  <1>3. SafetyFault(s) \/ RegenJudged(s)
    BY <1>2 DEF Compute, Refused, Unrepresentable, SlowMotor
  <1>4. CASE SafetyFault(s)
    <2>1. clean!SafetyFault(s)
      BY <1>1, <1>4, SameChecks
         DEF SafetyFault, clean!Compute, clean!Refused, clean!Unrepresentable,
             clean!SlowMotor, clean!RegenJudged, clean!Admitted
    <2> QED
      BY <1>1, <1>4, <2>1, SameDoubles
         DEF SafetyFault, clean!SafetyFault, Remember, clean!Remember,
             RejectionOnlyLowers, SameBut
  <1>5. CASE RegenJudged(s)
    <2>1. RegenNumbers(s)
      BY <1>5, ValidSampleNumbers DEF RegenJudged, Admitted
    <2>2. PICK after \in MembraneStates : after = RegenAssessed(s)
      BY <1>1, RegenAssessedIsState
    <2>3. after = clean!RegenAssessed(s)
      BY <1>1, <2>2, SameAssessed
    <2>4. ~RegenMembraneRejects(s, after)
      BY <1>2 DEF RegenMembraneRejects
    <2>5. RegenMembraneTrips(s, after) \/ Accept(s, after)
      BY <1>5, <2>2, <2>4 DEF RegenJudged
    <2>6. after.trip \notin {"INVALID_INPUT", "NUMERICAL_FAILURE"}
      BY <2>5 DEF RegenMembraneTrips, Accept
    <2>7. clean!RegenMembraneTrips(s, after) \/ clean!Accept(s, after)
      <3>1. clean!RegenJudged(s)
        BY <1>1, <1>5, SameChecks DEF RegenJudged, Admitted, clean!Compute, clean!Refused,
           clean!Unrepresentable, clean!SlowMotor, clean!SafetyFault
      <3> QED
        BY <2>3, <2>6, <3>1 DEF clean!RegenJudged, clean!RegenMembraneRejects
    <2>8. /\ clean!StabilityFactor(s) = StabilityFactor(s)
          /\ clean!EventTimer(s) = EventTimer(s)
      BY <1>1, <2>1, SameStabilityFactor, SameChecks
    <2>9. CASE RegenMembraneTrips(s, after)
      <3>1. clean!RegenMembraneTrips(s, after)
        BY <2>7, <2>9 DEF RegenMembraneTrips, clean!Accept
      <3> QED
        BY <2>8, <2>9, <3>1 DEF RegenMembraneTrips, clean!RegenMembraneTrips, Remember,
           clean!Remember, RejectionOnlyLowers
    <2>10. CASE Accept(s, after)
      <3>1. clean!Accept(s, after)
        BY <2>7, <2>10 DEF Accept, clean!RegenMembraneTrips
      <3>2. PICK overall \in 0..One : overall = after.overall
        BY DEF MembraneStates
      <3>3. PICK a, b \in Nat : /\ a = Limit(s, Factors(s, overall))
                                /\ b = clean!Limit(s, clean!Factors(s, overall))
                                /\ a <= b
        BY <1>1, <2>1, LimitFollowsTorque, LimitRange
      <3>4. /\ regenMembrane' = after /\ torque' = a /\ stability' = StabilityFactor(s)
            /\ sinceEvent' = IF EventTimer(s) >= 0 /\ EventTimer(s) + s.dt <= Window
                             THEN EventTimer(s) + s.dt ELSE -1
        BY <2>10, <3>2, <3>3 DEF Accept, Remember
      <3>5. /\ cMembrane' = after /\ cTorque' = b /\ cStability' = StabilityFactor(s)
            /\ cSinceEvent' = IF EventTimer(s) >= 0 /\ EventTimer(s) + s.dt <= Window
                              THEN EventTimer(s) + s.dt ELSE -1
        BY <2>8, <3>1, <3>2, <3>3 DEF clean!Accept, clean!Remember
      <3> QED
        BY <3>3, <3>4, <3>5 DEF RejectionOnlyLowers
    <2> QED
      BY <2>5, <2>9, <2>10
  <1> QED
    BY <1>3, <1>4, <1>5

LEMMA TwinInvStep ==
    ASSUME TwinInv, [TwinNext]_<<regenVars, second>>
    PROVE  TwinInv'
  <1>1. RegenInv'
    BY TwinStep DEF TwinInv
  <1>2. CASE UNCHANGED <<regenVars, second>>
    BY <1>1, <1>2 DEF TwinInv, regenVars, second, RejectionOnlyLowers
  <1>3. ASSUME NEW s \in Samples, Compute(s), report'.end = "rejected", UNCHANGED second
        PROVE  TwinInv'
    <2>1. PICK cause : Reject(s, cause)
      BY <1>3 DEF Compute, Refused, Unrepresentable, SlowMotor, SafetyFault, RegenJudged,
         RegenMembraneRejects, RegenMembraneTrips, Accept, Remember
    <2> QED
      BY <1>1, <1>3, <2>1 DEF TwinInv, Reject, second, RejectionOnlyLowers
  <1>4. ASSUME NEW s \in Samples, Compute(s), report'.end # "rejected", clean!Compute(s)
        PROVE  TwinInv'
    <2>1. cTorque' \in Nat /\ RejectionOnlyLowers'
      BY <1>4, TwinCompute
    <2> QED
      BY <1>1, <2>1 DEF TwinInv
  <1> QED
    BY <1>2, <1>3, <1>4 DEF TwinNext

\* Rejected samples leave no trace: only the torque may be lower than without them.
THEOREM RejectionCorrect == TwinSpec => []RejectionOnlyLowers
  <1>1. TwinInit => TwinInv
    BY TwinInitInv
  <1>2. TwinInv /\ [TwinNext]_<<regenVars, second>> => TwinInv'
    BY TwinInvStep
  <1>3. TwinInv => RejectionOnlyLowers
    BY DEF TwinInv
  <1> QED
    BY <1>1, <1>2, <1>3, PTL DEF TwinSpec
=============================================================================
