--------------------------- MODULE RecoveryProofs ---------------------------
(***************************************************************************)
(* What holds of the energy recovery coordinator for every set of drives,  *)
(* readings and configurations, also while other callers drive, reject and *)
(* reinitialise the BMS it feeds: its accounts are consistent, it follows  *)
(* the cycle the battery accepted last, charging energy is credited once,  *)
(* and the continuity observers that watch it change none of this.         *)
(***************************************************************************)
EXTENDS EnergyContinuity, FiniteSetTheorems, TLAPS

-----------------------------------------------------------------------------
(***************************************************************************)
(* Products and quotients of naturals.                                     *)
(***************************************************************************)
LEMMA NatProduct ==
    ASSUME NEW a \in Nat, NEW b \in Nat
    PROVE  a * b \in Nat
  BY SMT

LEMMA ProductMonotone ==
    ASSUME NEW a \in Nat, NEW b \in Nat, NEW c \in Nat, b <= c
    PROVE  a * b <= a * c
  <1>1. c - b \in Nat
    OBVIOUS
  <1>2. a * (c - b) \in Nat
    BY <1>1, NatProduct
  <1>3. a * c = a * b + a * (c - b)
    BY <1>1, SMT
  <1>4. a * b \in Nat /\ a * c \in Nat
    BY NatProduct
  <1>5. QED
    BY <1>2, <1>3, <1>4

LEMMA QuotientRange ==
    ASSUME NEW a \in Nat, NEW b \in Nat \ {0}
    PROVE  a \div b \in 0..a
  BY SMT

\* A share of at most one of a natural is a natural below it.
LEMMA ShareRange ==
    ASSUME NEW a \in Nat, NEW w \in Nat \ {0}, NEW e \in 0..w
    PROVE  (a * e) \div w \in 0..a
  <1> DEFINE q == (a * e) \div w
  <1>1. a * e \in Nat /\ a * w \in Nat /\ a * e <= a * w
    BY NatProduct, ProductMonotone
  <1>2. q \in Nat
    BY <1>1, QuotientRange
  <1>3. w * q <= a * e
    BY <1>1, SMT
  <1>4. ASSUME q > a PROVE FALSE
    <2>1. w * (a + 1) <= w * q
      BY <1>2, <1>4, ProductMonotone
    <2>2. w * (a + 1) = a * w + w
      BY SMT
    <2>3. w * (a + 1) \in Nat /\ w * q \in Nat
      BY <1>2, NatProduct
    <2>4. QED
      BY <1>1, <1>3, <2>1, <2>2, <2>3
  <1>5. QED
    BY <1>2, <1>4

-----------------------------------------------------------------------------
(***************************************************************************)
(* The inductive invariant.  The accounts can only be compared because the *)
(* energies are naturals, and they are because the preflight admits finite *)
(* powers only and an estimated current never leaves its clamp.            *)
(***************************************************************************)
EnergyType == [charging : Nat, mechanical : Nat, electrical : Nat]

DiagType ==
    [torque : Int, mechanical : Int, electrical : Int, regenCurrent : Int,
     v : Int, i : Int, total : EnergyType, session : EnergyType]

MembersInRange ==
    /\ cfg \in RecoveryConfigs /\ ValidRecoveryConfig(cfg)
    /\ diag \in DiagType
    /\ ledger.in \in Int /\ ledger.updates \in Int
    /\ "power" \in DOMAIN report

IInv == MembersInRange /\ AccountsConsistent /\ FollowsLastAcceptance

\* What validate_config promises of the configuration.
LEMMA ConfigFinite ==
    ASSUME MembersInRange
    PROVE  /\ cfg.efficiency \in 0..Whole
           /\ cfg.maxCurrent \in Nat /\ cfg.minVoltage \in Int
           /\ cfg.minVoltage > 0
           /\ Whole \in Nat \ {0}
  BY DoublesAssumption, RecoveryAssumption
  DEF MembersInRange, ValidRecoveryConfig, IsFinite, Finite

\* What validate_inputs promises of the sensors and the drive.
LEMMA InputsFinite ==
    ASSUME NEW d, NEW r, ValidInputs(d, r)
    PROVE  /\ r.v \in Nat \ {0} /\ r.dt \in Nat \ {0} /\ r.i \in Int
           /\ d.omega \in Nat /\ d.torque \in Nat
  BY DoublesAssumption DEF ValidInputs, IsFinite, Finite

\* The estimates of a step: the electrical power is a share of the mechanical
\* power, and the target current respects the sanity clamp.
LEMMA EstimatesRange ==
    ASSUME MembersInRange, NEW d, NEW r, ValidInputs(d, r)
    PROVE  /\ MechanicalPower(d) \in Nat
           /\ ElectricalPower(d) \in 0..MechanicalPower(d)
           /\ TargetCurrent(d, r) \in -cfg.maxCurrent .. 0
  <1> DEFINE voltage == AtLeast(r.v, cfg.minVoltage)
             amps == ElectricalPower(d) \div voltage
  <1>1. MechanicalPower(d) \in Nat
    BY InputsFinite, NatProduct DEF MechanicalPower
  <1>2. ElectricalPower(d) \in 0..MechanicalPower(d)
    BY <1>1, ConfigFinite, ShareRange DEF ElectricalPower
  <1>3. voltage \in Nat \ {0}
    BY InputsFinite, ConfigFinite DEF AtLeast
  <1>4. amps \in Nat
    <2>1. ElectricalPower(d) \in Nat
      BY <1>1, <1>2
    <2> HIDE DEF voltage
    <2>2. QED
      BY <1>3, <2>1, QuotientRange
  <1>5. TargetCurrent(d, r) = -AtMost(amps, cfg.maxCurrent)
    BY DEF TargetCurrent
  <1>6. AtMost(amps, cfg.maxCurrent) \in 0..cfg.maxCurrent
    <2> HIDE DEF amps
    <2>1. QED
      BY <1>4, ConfigFinite DEF AtMost
  <1>7. QED
    BY <1>1, <1>2, <1>5, <1>6, ConfigFinite

\* The current offered to the BMS; an estimated one stays within the clamp.
LEMMA CurrentRange ==
    ASSUME IInv, NEW d, NEW r, ValidInputs(d, r), NEW i \in CurrentsUsed(d, r)
    PROVE  /\ i \in Int
           /\ ~cfg.measured => i \in -cfg.maxCurrent .. 0
  <1>1. CASE cfg.measured
    BY <1>1, InputsFinite DEF CurrentsUsed
  <1>2. CASE ~cfg.measured
    <2>1. i \in Smoothed(estimate, TargetCurrent(d, r))
      BY <1>2 DEF CurrentsUsed
    <2>2. estimate \in -cfg.maxCurrent .. 0
      BY DEF IInv, FollowsLastAcceptance
    <2>3. TargetCurrent(d, r) \in -cfg.maxCurrent .. 0 /\ cfg.maxCurrent \in Nat
      BY EstimatesRange, ConfigFinite DEF IInv
    <2>4. QED
      BY <1>2, <2>1, <2>2, <2>3 DEF Smoothed, AtMost, AtLeast
  <1>3. QED
    BY <1>1, <1>2

\* What one step credits: naturals, the electrical energy within the
\* mechanical energy of the same step.
LEMMA CreditRange ==
    ASSUME MembersInRange, NEW d, NEW r, ValidInputs(d, r), NEW i \in Int
    PROVE  /\ Credit(d, r, i) \in EnergyType
           /\ Credit(d, r, i).electrical <= Credit(d, r, i).mechanical
  <1>1. /\ r.v \in Nat /\ r.dt \in Nat
        /\ MechanicalPower(d) \in Nat
        /\ ElectricalPower(d) \in Nat
        /\ ElectricalPower(d) <= MechanicalPower(d)
    BY InputsFinite, EstimatesRange
  <1>2. /\ MechanicalPower(d) * r.dt \in Nat
        /\ ElectricalPower(d) * r.dt \in Nat
    BY <1>1, NatProduct
  <1>3. ElectricalPower(d) * r.dt <= MechanicalPower(d) * r.dt
    <2>1. r.dt * ElectricalPower(d) <= r.dt * MechanicalPower(d)
      BY <1>1, ProductMonotone
    <2>2. /\ r.dt * ElectricalPower(d) = ElectricalPower(d) * r.dt
          /\ r.dt * MechanicalPower(d) = MechanicalPower(d) * r.dt
      BY <1>1, SMT
    <2>3. QED
      BY <2>1, <2>2
  <1>4. i < 0 => -(r.v * i * r.dt) \in Nat
    <2>1. SUFFICES ASSUME i < 0 PROVE -(r.v * i * r.dt) \in Nat
      OBVIOUS
    <2>2. r.v * (-i) \in Nat
      BY <1>1, <2>1, NatProduct
    <2>3. (r.v * (-i)) * r.dt \in Nat
      BY <1>1, <2>2, NatProduct
    <2>4. (r.v * (-i)) * r.dt = -(r.v * i * r.dt)
      BY <1>1, SMT
    <2>5. QED
      BY <2>3, <2>4
  <1>5. QED
    BY <1>2, <1>3, <1>4 DEF Credit, EnergyType

LEMMA AddRange ==
    ASSUME NEW a \in EnergyType, NEW b \in EnergyType
    PROVE  /\ Add(a, b) \in EnergyType
           /\ Add(a, b).charging = a.charging + b.charging
           /\ Add(a, b).mechanical = a.mechanical + b.mechanical
           /\ Add(a, b).electrical = a.electrical + b.electrical
  BY DEF Add, EnergyType

\* What a step would publish.
LEMMA CandidateRange ==
    ASSUME MembersInRange, NEW d, NEW r, ValidInputs(d, r), NEW i \in Int
    PROVE  Candidate(d, r, i) \in DiagType
  <1>1. /\ diag.total \in EnergyType /\ diag.session \in EnergyType
        /\ Credit(d, r, i) \in EnergyType
    BY CreditRange DEF MembersInRange, DiagType
  <1>2. /\ Add(diag.total, Credit(d, r, i)) \in EnergyType
        /\ Add(diag.session, Credit(d, r, i)) \in EnergyType
    BY <1>1, AddRange
  <1>3. d.torque \in Int /\ r.v \in Int
    BY InputsFinite
  <1>4. MechanicalPower(d) \in Int /\ ElectricalPower(d) \in Int
    BY EstimatesRange
  <1>5. QED
    BY <1>2, <1>3, <1>4 DEF Candidate, DiagType

-----------------------------------------------------------------------------
(***************************************************************************)
(* What an operation of the BMS does to the members the coordinator and    *)
(* its readers look at.                                                    *)
(***************************************************************************)
BmsMembers == ledger.in \in Int /\ ledger.updates \in Int /\ "power" \in DOMAIN report

LEMMA BmsRejects ==
    ASSUME NEW r, BMS!RejectCycle(r)
    PROVE  report' = report /\ ledger' = ledger
  BY DEF BMS!RejectCycle, BMS!numeric

\* An accepted cycle posts one entry, charging energy only for a current that
\* is not positive, and publishes the power of its reading.
LEMMA BmsAccepts ==
    ASSUME BmsMembers, NEW r, BMS!AcceptCycle(r), r.i \in Int
    PROVE  /\ BmsMembers'
           /\ report'.power = r.v * r.i
           /\ ledger'.updates = ledger.updates + 1
           /\ ledger'.in = IF r.i > 0 THEN ledger.in
                           ELSE ledger.in + BMS!Abs(r.v * r.i * r.dt)
  <1>1. r.v \in Int /\ r.dt \in Int
    BY DoublesAssumption
    DEF BMS!AcceptCycle, BMS!CycleSucceeds, BMS!ValidSensors, BMS!IsFinite, BMS!Finite
  <1>2. ledger' = BMS!CandidateLedger(r) /\ report' = BMS!CandidateReport(r)
    BY DEF BMS!AcceptCycle
  <1>3. /\ ledger'.updates = ledger.updates + 1
        /\ ledger'.in = IF r.i > 0 THEN ledger.in
                        ELSE ledger.in + BMS!Abs(r.v * r.i * r.dt)
    BY <1>2 DEF BMS!CandidateLedger, BMS!Energy
  <1>4. "power" \in DOMAIN report' /\ report'.power = r.v * r.i
    BY <1>2 DEF BmsMembers, BMS!CandidateReport
  <1>5. BMS!Abs(r.v * r.i * r.dt) \in Int
    BY <1>1 DEF BMS!Abs
  <1>6. QED
    BY <1>3, <1>4, <1>5 DEF BmsMembers

\* A new session opens an empty ledger, a refused one changes nothing.
LEMMA BmsSession ==
    ASSUME NEW c, BMS!InitAdvanced(c)
    PROVE  \/ ledger' = BMS!ZeroLedger /\ report' = BMS!FreshReport
           \/ ledger' = ledger /\ report' = report
  BY DEF BMS!InitAdvanced, BMS!StartSession, BMS!RejectSession, BMS!vars

-----------------------------------------------------------------------------
(***************************************************************************)
(* The operations preserve the invariant.                                  *)
(***************************************************************************)
LEMMA InitIInv == Init => IInv
  <1> SUFFICES ASSUME Init PROVE IInv
    OBVIOUS
  <1>1. /\ ledger = BMS!ZeroLedger /\ report = BMS!FreshReport
        /\ cfg \in RecoveryConfigs /\ ValidRecoveryConfig(cfg)
        /\ diag = FreshDiag /\ estimate = 0 /\ latest = "none"
    BY DEF Init, BMS!Init
  <1>2. MembersInRange
    BY <1>1 DEF MembersInRange, BMS!ZeroLedger, BMS!FreshReport, FreshDiag,
                NoEnergy, DiagType, EnergyType
  <1>3. AccountsConsistent
    BY <1>1 DEF AccountsConsistent, FreshDiag, NoEnergy
  <1>4. FollowsLastAcceptance
    BY <1>1, <1>2, ConfigFinite DEF FollowsLastAcceptance, FreshDiag
  <1>5. QED
    BY <1>2, <1>3, <1>4 DEF IInv

\* Adding one credit to both accounts keeps them consistent.
LEMMA CreditKeepsAccounts ==
    ASSUME AccountsConsistent, diag \in DiagType, NEW credit \in EnergyType,
           credit.electrical <= credit.mechanical,
           diag'.total = Add(diag.total, credit),
           diag'.session = Add(diag.session, credit)
    PROVE  AccountsConsistent'
  <1>1. diag.total \in EnergyType /\ diag.session \in EnergyType
    BY DEF DiagType
  <1>2. /\ diag'.total.charging = diag.total.charging + credit.charging
        /\ diag'.total.mechanical = diag.total.mechanical + credit.mechanical
        /\ diag'.total.electrical = diag.total.electrical + credit.electrical
        /\ diag'.session.charging = diag.session.charging + credit.charging
        /\ diag'.session.mechanical = diag.session.mechanical + credit.mechanical
        /\ diag'.session.electrical = diag.session.electrical + credit.electrical
    BY <1>1, AddRange
  <1>3. /\ diag.session.charging <= diag.total.charging
        /\ diag.session.mechanical <= diag.total.mechanical
        /\ diag.session.electrical <= diag.total.electrical
        /\ diag.session.electrical <= diag.session.mechanical
        /\ diag.total.electrical <= diag.total.mechanical
    BY DEF AccountsConsistent
  <1>4. /\ diag'.session.charging <= diag'.total.charging
        /\ diag'.session.mechanical <= diag'.total.mechanical
        /\ diag'.session.electrical <= diag'.total.electrical
        /\ diag'.session.electrical <= diag'.session.mechanical
        /\ diag'.total.electrical <= diag'.total.mechanical
    BY <1>1, <1>2, <1>3 DEF EnergyType
  <1>5. QED
    BY <1>4 DEF AccountsConsistent

\* An accepted step: what it commits, and the invariant after it.
LEMMA AcceptStepFacts ==
    ASSUME IInv, NEW d \in Drives, NEW r \in Readings, AcceptStep(d, r)
    PROVE  \E i \in CurrentsUsed(d, r) :
              /\ i \in Int /\ (~cfg.measured => i \in -cfg.maxCurrent .. 0)
              /\ BmsMembers'
              /\ report'.power = r.v * i
              /\ ledger'.updates = ledger.updates + 1
              /\ ledger'.in = IF i > 0 THEN ledger.in
                              ELSE ledger.in + BMS!Abs(r.v * i * r.dt)
              /\ diag' = Candidate(d, r, i)
              /\ estimate' = IF cfg.measured THEN estimate ELSE i
  <1>1. PICK i \in CurrentsUsed(d, r) :
            /\ PreflightSucceeds(d, r, i)
            /\ BMS!AcceptCycle([r EXCEPT !.i = i])
            /\ diag' = Candidate(d, r, i)
            /\ estimate' = IF cfg.measured THEN estimate ELSE i
    BY DEF AcceptStep
  <1>2. i \in Int /\ (~cfg.measured => i \in -cfg.maxCurrent .. 0)
    BY CurrentRange DEF AcceptStep
  <1> DEFINE offered == [r EXCEPT !.i = i]
  <1>3. offered.v = r.v /\ offered.i = i /\ offered.dt = r.dt
    BY RecoveryAssumption DEF Reading
  <1>4. BmsMembers
    BY DEF IInv, MembersInRange, BmsMembers
  <1>5. /\ BmsMembers'
        /\ report'.power = offered.v * offered.i
        /\ ledger'.updates = ledger.updates + 1
        /\ ledger'.in = IF offered.i > 0 THEN ledger.in
              ELSE ledger.in + BMS!Abs(offered.v * offered.i * offered.dt)
    <2> HIDE DEF offered
    <2>1. BMS!AcceptCycle(offered) /\ offered.i \in Int
      BY <1>1, <1>2, <1>3 DEF offered
    <2>2. QED
      BY <1>4, <2>1, BmsAccepts
  <1>6. QED
    BY <1>1, <1>2, <1>3, <1>5

LEMMA AcceptStepIInv ==
    ASSUME IInv, NEW d \in Drives, NEW r \in Readings, AcceptStep(d, r)
    PROVE  IInv'
  <1>1. PICK i \in CurrentsUsed(d, r) :
              /\ i \in Int /\ (~cfg.measured => i \in -cfg.maxCurrent .. 0)
              /\ BmsMembers'
              /\ report'.power = r.v * i
              /\ diag' = Candidate(d, r, i)
              /\ estimate' = IF cfg.measured THEN estimate ELSE i
    BY AcceptStepFacts
  <1>2. ValidInputs(d, r) /\ latest' = "step" /\ cfg' = cfg /\ MembersInRange
    BY DEF AcceptStep, IInv
  <1>3. diag' \in DiagType
    BY <1>1, <1>2, CandidateRange
  <1>4. MembersInRange'
    BY <1>1, <1>2, <1>3 DEF MembersInRange, BmsMembers, ValidRecoveryConfig
  <1>5. AccountsConsistent'
    <2>1. /\ Credit(d, r, i) \in EnergyType
          /\ Credit(d, r, i).electrical <= Credit(d, r, i).mechanical
      BY <1>1, <1>2, CreditRange
    <2>2. /\ diag'.total = Add(diag.total, Credit(d, r, i))
          /\ diag'.session = Add(diag.session, Credit(d, r, i))
      BY <1>1 DEF Candidate
    <2>3. QED
      BY <2>1, <2>2, CreditKeepsAccounts DEF IInv, MembersInRange
  <1>6. FollowsLastAcceptance'
    <2>1. diag'.v = r.v /\ diag'.i = i
      BY <1>1 DEF Candidate
    <2>2. report'.power = diag'.v * diag'.i
      BY <1>1, <2>1
    <2>3. CASE cfg.measured
      BY <1>1, <1>2, <2>2, <2>3 DEF IInv, FollowsLastAcceptance
    <2>4. CASE ~cfg.measured
      BY <1>1, <1>2, <2>1, <2>2, <2>4 DEF FollowsLastAcceptance
    <2>5. QED
      BY <2>3, <2>4
  <1>7. QED
    BY <1>4, <1>5, <1>6 DEF IInv

\* Nothing the coordinator or its invariant looks at changed, except that the
\* battery's last accepted cycle may no longer be one of a step.
LEMMA CoordinatorUntouched ==
    ASSUME IInv, UNCHANGED <<cfg, estimate, diag>>, BmsMembers',
           latest' = "step" => latest = "step" /\ report' = report
    PROVE  IInv'
  <1>1. MembersInRange'
    BY DEF IInv, MembersInRange, BmsMembers, ValidRecoveryConfig
  <1>2. AccountsConsistent'
    BY DEF IInv, AccountsConsistent
  <1>3. FollowsLastAcceptance'
    BY DEF IInv, FollowsLastAcceptance
  <1>4. QED
    BY <1>1, <1>2, <1>3 DEF IInv

LEMMA RejectStepIInv ==
    ASSUME IInv, NEW d, NEW r, RejectStep(d, r)
    PROVE  IInv' /\ UNCHANGED <<ledger, diag>>
  <1>1. report' = report /\ ledger' = ledger
    BY BmsRejects DEF RejectStep
  <1>2. BmsMembers'
    BY <1>1 DEF IInv, MembersInRange, BmsMembers
  <1>3. QED
    BY <1>1, <1>2, CoordinatorUntouched DEF RejectStep, coordinator

\* A trip reset clears the session account only.
LEMMA ResetSessionIInv ==
    ASSUME IInv, ResetSession
    PROVE  IInv' /\ diag'.total = diag.total
  <1>1. /\ diag' \in DiagType /\ diag'.total = diag.total
        /\ diag'.session = NoEnergy /\ diag'.v = diag.v /\ diag'.i = diag.i
    BY DEF ResetSession, NoEnergy, IInv, MembersInRange, DiagType, EnergyType
  <1>2. UNCHANGED <<report, ledger, cfg, estimate, latest>>
    BY DEF ResetSession, bms
  <1>3. MembersInRange'
    BY <1>1, <1>2 DEF IInv, MembersInRange, ValidRecoveryConfig
  <1>4. AccountsConsistent'
    BY <1>1 DEF IInv, AccountsConsistent, NoEnergy, DiagType, EnergyType
  <1>5. FollowsLastAcceptance'
    BY <1>1, <1>2 DEF IInv, FollowsLastAcceptance
  <1>6. QED
    BY <1>1, <1>3, <1>4, <1>5 DEF IInv

LEMMA OtherCycleIInv ==
    ASSUME IInv, NEW r \in Readings, OtherCycle(r)
    PROVE  IInv'
  <1>1. BmsMembers /\ UNCHANGED <<cfg, estimate, diag>>
    BY DEF OtherCycle, coordinator, IInv, MembersInRange, BmsMembers
  <1>2. CASE BMS!AcceptCycle(r) /\ latest' = "other"
    <2>1. r.i \in Int
      BY <1>2, DoublesAssumption
      DEF BMS!AcceptCycle, BMS!CycleSucceeds, BMS!ValidSensors, BMS!IsFinite, BMS!Finite
    <2>2. BmsMembers'
      BY <1>1, <1>2, <2>1, BmsAccepts
    <2>3. QED
      BY <1>1, <1>2, <2>2, CoordinatorUntouched
  <1>3. CASE BMS!RejectCycle(r) /\ UNCHANGED latest
    <2>1. report' = report /\ ledger' = ledger
      BY <1>3, BmsRejects
    <2>2. QED
      BY <1>1, <1>3, <2>1, CoordinatorUntouched DEF BmsMembers
  <1>4. QED
    BY <1>2, <1>3 DEF OtherCycle

LEMMA OtherSessionIInv ==
    ASSUME IInv, OtherSession
    PROVE  IInv'
  <1>1. /\ BmsMembers /\ UNCHANGED <<cfg, estimate, diag>>
        /\ latest' = IF ledger'.updates = 0 THEN "none" ELSE latest
    BY DEF OtherSession, coordinator, IInv, MembersInRange, BmsMembers
  <1>2. \/ ledger' = BMS!ZeroLedger /\ report' = BMS!FreshReport
        \/ ledger' = ledger /\ report' = report
    BY BmsSession DEF OtherSession, BMS!InitSimple
  <1>3. CASE ledger' = BMS!ZeroLedger /\ report' = BMS!FreshReport
    <2>1. BmsMembers' /\ latest' = "none"
      BY <1>1, <1>3 DEF BmsMembers, BMS!ZeroLedger, BMS!FreshReport
    <2>2. QED
      BY <1>1, <2>1, CoordinatorUntouched
  <1>4. CASE ledger' = ledger /\ report' = report
    BY <1>1, <1>4, CoordinatorUntouched DEF BmsMembers
  <1>5. QED
    BY <1>2, <1>3, <1>4

LEMMA NextIInv == IInv /\ [Next]_vars => IInv'
  <1> SUFFICES ASSUME IInv, [Next]_vars PROVE IInv'
    OBVIOUS
  <1>1. ASSUME NEW d \in Drives, NEW r \in Readings, AcceptStep(d, r) PROVE IInv'
    BY <1>1, AcceptStepIInv
  <1>2. ASSUME NEW d \in Drives, NEW r \in Readings, RejectStep(d, r) PROVE IInv'
    BY <1>2, RejectStepIInv
  <1>3. CASE ResetSession
    BY <1>3, ResetSessionIInv
  <1>4. ASSUME NEW r \in Readings, OtherCycle(r) PROVE IInv'
    BY <1>4, OtherCycleIInv
  <1>5. CASE OtherSession
    BY <1>5, OtherSessionIInv
  <1>6. CASE UNCHANGED vars
    <2>1. BmsMembers' /\ UNCHANGED <<report, latest, cfg, estimate, diag>>
      BY <1>6 DEF vars, bms, coordinator, IInv, MembersInRange, BmsMembers
    <2>2. QED
      BY <2>1, CoordinatorUntouched
  <1>7. QED
    BY <1>1, <1>2, <1>3, <1>4, <1>5, <1>6 DEF Next, AbandonStep

LEMMA SpecIInv == Spec => []IInv
  BY InitIInv, NextIInv, PTL DEF Spec

\* A trip session never shows more energy than the lifetime it is part of, and
\* the electrical estimate never exceeds the mechanical one, across resets,
\* rejected steps and reinitialised batteries.
THEOREM AccountsCorrect == Spec => []AccountsConsistent
  <1>1. IInv => AccountsConsistent
    BY DEF IInv
  <1>2. QED
    BY SpecIInv, <1>1, PTL

\* The coordinator stands on the cycle the battery accepted last, and its
\* smoothed current never leaves the sanity clamp.
THEOREM FollowsCorrect == Spec => []FollowsLastAcceptance
  <1>1. IInv => FollowsLastAcceptance
    BY DEF IInv
  <1>2. QED
    BY SpecIInv, <1>1, PTL

-----------------------------------------------------------------------------
(***************************************************************************)
(* The action property: charging energy is credited once.                  *)
(***************************************************************************)
Credited == diag'.total.charging - diag.total.charging

StepAccepted == latest' = "step" /\ ledger'.updates = ledger.updates + 1

CreditedNow ==
    /\ StepAccepted => Credited = ledger'.in - ledger.in
    /\ ~StepAccepted => Credited = 0

\* An accepted step credits what the BMS posted, for either sign of the current.
LEMMA AcceptStepCredits ==
    ASSUME IInv, NEW d \in Drives, NEW r \in Readings, AcceptStep(d, r)
    PROVE  CreditedNow
  <1>1. PICK i \in CurrentsUsed(d, r) :
              /\ i \in Int
              /\ ledger'.updates = ledger.updates + 1
              /\ ledger'.in = IF i > 0 THEN ledger.in
                              ELSE ledger.in + BMS!Abs(r.v * i * r.dt)
              /\ diag' = Candidate(d, r, i)
    BY AcceptStepFacts
  <1> DEFINE energy == r.v * i * r.dt
             credit == Credit(d, r, i)
  <1>2. /\ ValidInputs(d, r) /\ latest' = "step" /\ MembersInRange
        /\ ledger.in \in Int /\ diag.total \in EnergyType
    BY DEF AcceptStep, IInv, MembersInRange, DiagType
  <1>3. r.v \in Nat /\ r.dt \in Nat /\ energy \in Int
    BY <1>1, <1>2, InputsFinite
  <1>4. credit \in EnergyType /\ credit.charging = IF i < 0 THEN -energy ELSE 0
    BY <1>1, <1>2, CreditRange DEF Credit
  <1>5. Credited = credit.charging
    <2>1. diag'.total.charging = diag.total.charging + credit.charging
      BY <1>1, <1>2, <1>4, AddRange DEF Candidate
    <2> HIDE DEF credit
    <2>2. QED
      BY <1>2, <1>4, <2>1 DEF Credited, EnergyType
  <1> HIDE DEF credit
  <1>6. CASE i < 0
    <2>1. -energy \in Nat
      BY <1>4, <1>6 DEF EnergyType
    <2>2. BMS!Abs(energy) = -energy
      <3> HIDE DEF energy
      <3>1. QED
        BY <1>3, <2>1 DEF BMS!Abs
    <2>3. ledger'.in = ledger.in + BMS!Abs(energy)
      BY <1>1, <1>6
    <2> HIDE DEF energy
    <2>4. QED
      BY <1>1, <1>2, <1>3, <1>4, <1>5, <1>6, <2>2, <2>3
      DEF CreditedNow, StepAccepted
  <1>7. CASE i = 0
    <2>1. energy = 0
      BY <1>3, <1>7
    <2>2. ledger'.in = ledger.in
      BY <1>1, <1>2, <1>7, <2>1 DEF BMS!Abs
    <2>3. QED
      BY <1>1, <1>2, <1>4, <1>5, <1>7, <2>2 DEF CreditedNow, StepAccepted
  <1>8. CASE i > 0
    BY <1>1, <1>2, <1>4, <1>5, <1>8 DEF CreditedNow, StepAccepted
  <1>9. QED
    BY <1>1, <1>6, <1>7, <1>8

\* Whatever leaves the lifetime account alone and is no accepted step credits
\* nothing.
LEMMA NothingCredited ==
    ASSUME IInv, diag'.total = diag.total, ~StepAccepted
    PROVE  CreditedNow
  <1>1. diag.total.charging \in Int
    BY DEF IInv, MembersInRange, DiagType, EnergyType
  <1>2. QED
    BY <1>1 DEF CreditedNow, Credited

LEMMA NextCredits == IInv /\ [Next]_vars => CreditedNow
  <1> SUFFICES ASSUME IInv, [Next]_vars PROVE CreditedNow
    OBVIOUS
  <1>1. ledger.updates \in Int
    BY DEF IInv, MembersInRange
  <1>2. ledger' = ledger => ~StepAccepted
    BY <1>1 DEF StepAccepted
  <1>3. ASSUME NEW d \in Drives, NEW r \in Readings, AcceptStep(d, r)
        PROVE  CreditedNow
    BY <1>3, AcceptStepCredits
  <1>4. ASSUME NEW d \in Drives, NEW r \in Readings, RejectStep(d, r)
        PROVE  CreditedNow
    BY <1>2, <1>4, RejectStepIInv, NothingCredited
  <1>5. CASE ResetSession
    BY <1>2, <1>5, ResetSessionIInv, NothingCredited DEF ResetSession, bms
  <1>6. ASSUME NEW r \in Readings, OtherCycle(r) PROVE CreditedNow
    <2>1. diag' = diag
      BY <1>6 DEF OtherCycle, coordinator
    <2>2. ~StepAccepted
      BY <1>2, <1>6, BmsRejects DEF OtherCycle, StepAccepted
    <2>3. QED
      BY <2>1, <2>2, NothingCredited
  <1>7. CASE OtherSession
    <2>1. diag' = diag /\ latest' = IF ledger'.updates = 0 THEN "none" ELSE latest
      BY <1>7 DEF OtherSession, coordinator
    <2>2. ledger' = BMS!ZeroLedger \/ ledger' = ledger
      BY <1>7, BmsSession DEF OtherSession, BMS!InitSimple
    <2>3. ledger' = BMS!ZeroLedger => ~StepAccepted
      BY <2>1 DEF BMS!ZeroLedger, StepAccepted
    <2>4. QED
      BY <1>2, <2>1, <2>2, <2>3, NothingCredited
  <1>8. CASE UNCHANGED vars
    BY <1>2, <1>8, NothingCredited DEF vars, bms, coordinator
  <1>9. QED
    BY <1>3, <1>4, <1>5, <1>6, <1>7, <1>8 DEF Next, AbandonStep

\* Charging energy is credited exactly once and to the same amount in the
\* coordinator and in the battery's ledger, and only by an accepted step.
THEOREM CreditedOnceCorrect == Spec => CreditedOnce
  <1>1. IInv /\ [Next]_vars =>
           [ LET credited == diag'.total.charging - diag.total.charging
                 step     == /\ latest' = "step"
                             /\ ledger'.updates = ledger.updates + 1
             IN  /\ step => credited = ledger'.in - ledger.in
                 /\ ~step => credited = 0 ]_vars
    BY NextCredits DEF CreditedNow, StepAccepted, Credited
  <1>2. QED
    BY SpecIInv, <1>1, PTL DEF Spec, CreditedOnce

-----------------------------------------------------------------------------
(***************************************************************************)
(* The continuity observers are passive: with them, the coordinator and    *)
(* the BMS make steps of their own specification or none at all.           *)
(***************************************************************************)
LEMMA ObservedStep == [ObservedNext]_allVars => [Next]_vars
  <1> SUFFICES ASSUME [ObservedNext]_allVars PROVE [Next]_vars
    OBVIOUS
  <1>1. DrivesNow \subseteq Drives /\ ReadingsNow \subseteq Readings
    BY ContinuityAssumption DEF DrivesNow, ReadingsNow
  <1>2. CASE Step
    BY <1>1, <1>2 DEF Step, Next
  <1>3. CASE Elsewhere
    BY <1>1, <1>3 DEF Elsewhere, Next
  <1>4. CASE Reinitialise
    BY <1>4 DEF Reinitialise, Next
  <1>5. CASE OpenSession \/ Capture
    BY <1>5 DEF OpenSession, Capture
  <1>6. ASSUME NEW c, NEW k, ObserveCycle(c, k) \/ ObserveRecovery(c, k)
        PROVE  UNCHANGED vars
    BY <1>6 DEF ObserveCycle, ObserveRecovery, Keep
  <1>7. ASSUME NEW o, NEW f, HandIn(o, f) PROVE UNCHANGED vars
    BY <1>7 DEF HandIn
  <1>8. CASE UNCHANGED allVars
    BY <1>8 DEF allVars
  <1>9. QED
    BY <1>2, <1>3, <1>4, <1>5, <1>6, <1>7, <1>8 DEF ObservedNext

\* A coordinator and a BMS that are observed implement the ones that are not,
\* so everything proved of Spec holds of them too.
THEOREM ObserversArePassive == ObservedSpec => Spec
  <1>1. ObservedInit => Init
    BY DEF ObservedInit
  <1>2. QED
    BY <1>1, ObservedStep, PTL DEF ObservedSpec, Spec

\* The accounts, the standing and the credits of an observed coordinator.
COROLLARY ObservedCorrect ==
    ObservedSpec => []AccountsConsistent /\ []FollowsLastAcceptance /\ CreditedOnce
  BY ObserversArePassive, AccountsCorrect, FollowsCorrect, CreditedOnceCorrect

-----------------------------------------------------------------------------
(***************************************************************************)
(* Sums over finite sets.  Induction over the set is done on its size, and *)
(* the order in which a sum takes its terms does not matter, so the sums   *)
(* of the ledger and of the properties are the ones defined here.          *)
(***************************************************************************)
\* Induction on a set of naturals: WFMin gives the least that is missing.
LEMMA SetInduction ==
    ASSUME NEW N \in Nat, NEW T, 0 \in T,
           \A n \in 0..N : n \in T /\ n # N => n + 1 \in T
    PROVE  \A n \in 0..N : n \in T
  <1> DEFINE Missing == (0..N) \ T
             R == {ss \in Nat \X Nat : ss[1] < ss[2]}
  <1> SUFFICES ASSUME Missing # {} PROVE FALSE
    OBVIOUS
  <1>1. IsWellFoundedOn(R, Nat)
    BY NatLessThanWellFounded, Zenon DEF OpToRel
  <1>2. \A a, b \in Nat : a < b => <<a, b>> \in R
    OBVIOUS
  <1>3. Missing \subseteq Nat
    OBVIOUS
  <1>4. PICK m \in Missing : \A k \in Missing : ~(<<k, m>> \in R)
    <2> HIDE DEF R, Missing
    <2> QED
      BY <1>1, <1>3, WFMin
  <1>5. m \in 0..N /\ m # 0 /\ m - 1 \in 0..N /\ m - 1 # N /\ m - 1 \in Nat
    OBVIOUS
  <1>6. <<m - 1, m>> \in R
    BY <1>2, <1>5
  <1>7. m - 1 \in T
    BY <1>4, <1>5, <1>6
  <1>8. m - 1 + 1 \in T
    BY <1>5, <1>7
  <1> QED
    BY <1>5, <1>8

Some(s) == CHOOSE x \in s : TRUE

Adds(g, f, S) ==
    \A s \in S : g[s] = IF s = {} THEN 0 ELSE f[Some(s)] + g[s \ {Some(s)}]

\* A sum of f, whichever function adds it up.
IsSum(v, f, D) == \E g : Adds(g, f, SUBSET D) /\ v = g[D]

LEMMA RemoveOne ==
    ASSUME NEW D, IsFiniteSet(D), NEW s \in SUBSET D, NEW x \in s
    PROVE  /\ s \ {x} \in SUBSET D /\ Cardinality(s \ {x}) \in Nat
           /\ Cardinality(s) \in Nat \ {0}
           /\ Cardinality(s) = Cardinality(s \ {x}) + 1
  <1>1. IsFiniteSet(s) /\ IsFiniteSet(s \ {x})
    BY FS_Subset
  <1>2. Cardinality(s) \in Nat /\ Cardinality(s \ {x}) \in Nat
    BY <1>1, FS_CardinalityType
  <1>3. Cardinality(s \ {x}) = Cardinality(s) - 1
    BY <1>1, FS_RemoveElement
  <1> QED
    BY <1>2, <1>3

\* What holds of the empty set and, with one more element, of any set of which
\* it holds without this element, holds of every finite set.
LEMMA SubsetInduction ==
    ASSUME NEW D, IsFiniteSet(D), NEW P, {} \in P,
           \A s \in SUBSET D : (s # {} /\ \A x \in s : s \ {x} \in P) => s \in P
    PROVE  \A s \in SUBSET D : s \in P
  <1> DEFINE N == Cardinality(D)
             T == {n \in 0..N : \A s \in SUBSET D : Cardinality(s) = n => s \in P}
  <1>1. N \in Nat
    BY FS_CardinalityType
  <1>2. 0 \in T
    <2> SUFFICES ASSUME NEW s \in SUBSET D, Cardinality(s) = 0 PROVE s \in P
      BY <1>1
    <2>1. IsFiniteSet(s)
      BY FS_Subset
    <2>2. s = {}
      BY <2>1, FS_EmptySet
    <2> QED
      BY <2>2
  <1>3. \A n \in 0..N : n \in T /\ n # N => n + 1 \in T
    <2> SUFFICES ASSUME NEW n \in 0..N, n \in T, n # N,
                        NEW s \in SUBSET D, Cardinality(s) = n + 1
                 PROVE  s \in P
      BY <1>1
    <2>0. n \in Nat
      BY <1>1
    <2>1. \A x \in s : s \ {x} \in SUBSET D /\ Cardinality(s \ {x}) = n
      BY <2>0, RemoveOne
    <2>2. IsFiniteSet(s)
      BY FS_Subset
    <2>3. s # {}
      <3>1. s = {} <=> Cardinality(s) = 0
        BY <2>2, FS_EmptySet
      <3> QED
        BY <2>0, <3>1
    <2> QED
      BY <2>1, <2>3
  <1>4. N \in T
    <2> HIDE DEF T
    <2>1. N \in 0..N
      BY <1>1
    <2> HIDE DEF N
    <2> QED
      BY <1>1, <1>2, <1>3, <2>1, SetInduction
  <1>5. \A s \in SUBSET D : Cardinality(s) \in 0..N
    <2> SUFFICES ASSUME NEW s \in SUBSET D PROVE Cardinality(s) \in 0..N
      OBVIOUS
    <2>1. Cardinality(s) <= N /\ IsFiniteSet(s)
      BY FS_Subset
    <2>2. Cardinality(s) \in Nat
      BY <2>1, FS_CardinalityType
    <2> QED
      BY <1>1, <2>1, <2>2
  <1>6. \A n \in 0..N : n \in T
    <2> HIDE DEF T
    <2>1. N \in Nat
      BY <1>1
    <2> HIDE DEF N
    <2> QED
      BY <1>2, <1>3, <2>1, SetInduction
  <1> QED
    BY <1>5, <1>6

LEMMA AddsInt ==
    ASSUME NEW D, IsFiniteSet(D), NEW f \in [D -> Int], NEW g, Adds(g, f, SUBSET D)
    PROVE  \A s \in SUBSET D : g[s] \in Int
  <1> DEFINE P == {s \in SUBSET D : g[s] \in Int}
  <1>0. \A s \in SUBSET D : g[s] = IF s = {} THEN 0 ELSE f[Some(s)] + g[s \ {Some(s)}]
    BY DEF Adds
  <1>1. {} \in P
    <2>1. {} \in SUBSET D
      OBVIOUS
    <2>2. g[{}] = 0
      BY <1>0, <2>1
    <2> QED
      BY <2>1, <2>2
  <1>2. ASSUME NEW s \in SUBSET D, s # {}, \A x \in s : s \ {x} \in P PROVE s \in P
    <2>1. Some(s) \in s
      BY <1>2 DEF Some
    <2>2. g[s] = f[Some(s)] + g[s \ {Some(s)}]
      BY <1>0, <1>2
    <2>3. s \ {Some(s)} \in P /\ Some(s) \in D
      BY <1>2, <2>1
    <2>4. f[Some(s)] \in Int /\ g[s \ {Some(s)}] \in Int
      BY <2>3
    <2>5. g[s] \in Int
      BY <2>2, <2>4
    <2> QED
      BY <2>5
  <1>3. \A s \in SUBSET D : s \in P
    <2> HIDE DEF P
    <2> QED
      BY <1>1, <1>2, SubsetInduction
  <1> QED
    BY <1>3

\* The order in which a sum takes its terms does not matter.
LEMMA AddsAny ==
    ASSUME NEW D, IsFiniteSet(D), NEW f \in [D -> Int], NEW g, Adds(g, f, SUBSET D)
    PROVE  \A x \in D : g[D] = f[x] + g[D \ {x}]
  <1> DEFINE P == {s \in SUBSET D : \A x \in s : g[s] = f[x] + g[s \ {x}]}
  <1>1. {} \in P
    OBVIOUS
  <1>2. ASSUME NEW s \in SUBSET D, s # {}, \A x \in s : s \ {x} \in P PROVE s \in P
    <2> SUFFICES ASSUME NEW x \in s PROVE g[s] = f[x] + g[s \ {x}]
      OBVIOUS
    <2>1. PICK y \in s : g[s] = f[y] + g[s \ {y}]
      <3>1. Some(s) \in s
        BY <1>2 DEF Some
      <3>2. g[s] = f[Some(s)] + g[s \ {Some(s)}]
        BY <1>2 DEF Adds
      <3> QED
        BY <3>1, <3>2
    <2>2. CASE x # y
      <3> DEFINE rest == (s \ {y}) \ {x}
      <3>1. x \in s \ {y} /\ y \in s \ {x} /\ (s \ {x}) \ {y} = rest
        BY <2>2
      <3>2. g[s \ {y}] = f[x] + g[rest] /\ g[s \ {x}] = f[y] + g[rest]
        BY <1>2, <3>1
      <3>3. g[rest] \in Int /\ f[x] \in Int /\ f[y] \in Int
        <4>1. rest \in SUBSET D
          OBVIOUS
        <4> HIDE DEF rest
        <4> QED
          BY <4>1, AddsInt
      <3> HIDE DEF rest
      <3> QED
        BY <2>1, <3>2, <3>3
    <2> QED
      BY <2>1, <2>2
  <1>3. \A s \in SUBSET D : s \in P
    <2> HIDE DEF P
    <2> QED
      BY <1>1, <1>2, SubsetInduction
  <1>4. D \in P
    <2>1. D \in SUBSET D
      OBVIOUS
    <2> QED
      BY <1>3, <2>1
  <1> QED
    BY <1>4

\* Any two functions that add the same terms agree.
LEMMA SumIsUnique ==
    ASSUME NEW D, IsFiniteSet(D), NEW f, NEW v, NEW w, IsSum(v, f, D), IsSum(w, f, D)
    PROVE  v = w
  <1>1. PICK g : Adds(g, f, SUBSET D) /\ v = g[D]
    BY DEF IsSum
  <1>2. PICK h : Adds(h, f, SUBSET D) /\ w = h[D]
    BY DEF IsSum
  <1> DEFINE P == {s \in SUBSET D : g[s] = h[s]}
  <1>3. {} \in P
    BY <1>1, <1>2 DEF Adds
  <1>4. ASSUME NEW s \in SUBSET D, s # {}, \A x \in s : s \ {x} \in P PROVE s \in P
    <2>1. Some(s) \in s
      BY <1>4 DEF Some
    <2>2. g[s] = f[Some(s)] + g[s \ {Some(s)}] /\ h[s] = f[Some(s)] + h[s \ {Some(s)}]
      BY <1>1, <1>2, <1>4 DEF Adds
    <2> QED
      BY <1>4, <2>1, <2>2
  <1>5. \A s \in SUBSET D : s \in P
    <2> HIDE DEF P
    <2> QED
      BY <1>3, <1>4, SubsetInduction
  <1> QED
    BY <1>1, <1>2, <1>5

LEMMA SumIsInt ==
    ASSUME NEW D, IsFiniteSet(D), NEW f \in [D -> Int], NEW v, IsSum(v, f, D)
    PROVE  v \in Int
  BY AddsInt DEF IsSum

\* The sum over nothing, and over one element more.
LEMMA SumOfNone ==
    ASSUME NEW f, NEW v, IsSum(v, f, {})
    PROVE  v = 0
  BY DEF IsSum, Adds

Without(f, D, x) == [d \in D \ {x} |-> f[d]]

LEMMA SumOfMore ==
    ASSUME NEW D, IsFiniteSet(D), NEW x \in D, NEW f \in [D -> Int],
           NEW v, IsSum(v, f, D), NEW u, IsSum(u, Without(f, D, x), D \ {x})
    PROVE  v = f[x] + u /\ u \in Int
  <1>1. PICK g : Adds(g, f, SUBSET D) /\ v = g[D]
    BY DEF IsSum
  <1> DEFINE w == g[D \ {x}]
             h == Without(f, D, x)
  <1>2. w \in Int /\ v = f[x] + w
    <2>1. \A s \in SUBSET D : g[s] \in Int
      BY <1>1, AddsInt
    <2>2. Adds(g, f, SUBSET D) /\ D \in SUBSET D
      BY <1>1
    <2>3. g[D] = f[x] + g[D \ {x}]
      BY <2>2, AddsAny
    <2> QED
      BY <1>1, <2>1, <2>3
  <1>3. Adds(g, h, SUBSET (D \ {x}))
    <2> SUFFICES ASSUME NEW s \in SUBSET (D \ {x})
                 PROVE  g[s] = IF s = {} THEN 0 ELSE h[Some(s)] + g[s \ {Some(s)}]
      BY DEF Adds
    <2>1. g[s] = IF s = {} THEN 0 ELSE f[Some(s)] + g[s \ {Some(s)}]
      BY <1>1 DEF Adds
    <2>2. s # {} => Some(s) \in s
      BY DEF Some
    <2>3. s # {} => h[Some(s)] = f[Some(s)]
      BY <2>2 DEF Without
    <2> HIDE DEF h
    <2> QED
      BY <2>1, <2>3
  <1>4. IsSum(w, h, D \ {x})
    <2> HIDE DEF h
    <2> QED
      BY <1>3 DEF IsSum
  <1>5. IsFiniteSet(D \ {x})
    BY FS_Difference
  <1>6. w = u
    <2> HIDE DEF w
    <2> QED
      BY <1>4, <1>5, SumIsUnique
  <1> QED
    BY <1>2, <1>6

LEMMA RemoveSome ==
    ASSUME NEW D, IsFiniteSet(D), NEW s \in SUBSET D
    PROVE  /\ Cardinality(s) \in Nat
           /\ s = {} <=> Cardinality(s) = 0
           /\ s # {} => /\ Some(s) \in s /\ s \ {Some(s)} \in SUBSET D
                        /\ Cardinality(s \ {Some(s)}) = Cardinality(s) - 1
  <1>1. IsFiniteSet(s)
    BY FS_Subset
  <1>2. Cardinality(s) \in Nat
    BY <1>1, FS_CardinalityType
  <1>3. s = {} <=> Cardinality(s) = 0
    BY <1>1, FS_EmptySet
  <1>4. s # {} => Some(s) \in s
    BY DEF Some
  <1>5. s # {} => Cardinality(s \ {Some(s)}) = Cardinality(s) - 1
    BY <1>1, <1>4, FS_RemoveElement
  <1> QED
    BY <1>2, <1>3, <1>4, <1>5

Small(D, n) == {s \in SUBSET D : Cardinality(s) <= n}

LEMMA SumsExist ==
    ASSUME NEW D, IsFiniteSet(D), NEW f \in [D -> Int]
    PROVE  \E g \in [SUBSET D -> Int] : Adds(g, f, SUBSET D)
  <1> DEFINE N == Cardinality(D)
             T == {n \in 0..N : \E g \in [Small(D, n) -> Int] : Adds(g, f, Small(D, n))}
  <1>1. N \in Nat /\ Small(D, N) = SUBSET D
    <2>1. N \in Nat
      BY FS_CardinalityType
    <2>2. \A s \in SUBSET D : Cardinality(s) <= N
      BY FS_Subset
    <2> QED
      BY <2>1, <2>2 DEF Small
  <1>2. 0 \in T
    <2> DEFINE g == [s \in Small(D, 0) |-> 0]
    <2>1. ASSUME NEW s \in Small(D, 0) PROVE s = {}
      <3>1. s \in SUBSET D /\ Cardinality(s) <= 0
        BY DEF Small
      <3>2. Cardinality(s) \in Nat /\ (s = {} <=> Cardinality(s) = 0)
        BY <3>1, RemoveSome
      <3> QED
        BY <3>1, <3>2
    <2>2. g \in [Small(D, 0) -> Int] /\ Adds(g, f, Small(D, 0))
      BY <2>1 DEF Adds
    <2> HIDE DEF g
    <2> QED
      BY <1>1, <2>2
  <1>3. \A n \in 0..N : n \in T /\ n # N => n + 1 \in T
    <2> SUFFICES ASSUME NEW n \in 0..N, n \in T, n # N
                 PROVE  \E g \in [Small(D, n + 1) -> Int] : Adds(g, f, Small(D, n + 1))
      BY <1>1
    <2>1. PICK h \in [Small(D, n) -> Int] : Adds(h, f, Small(D, n))
      OBVIOUS
    <2> DEFINE g == [s \in Small(D, n + 1) |->
                       IF s \in Small(D, n) THEN h[s] ELSE f[Some(s)] + h[s \ {Some(s)}]]
    <2>2. ASSUME NEW s \in Small(D, n + 1), s \notin Small(D, n)
          PROVE  /\ s # {} /\ Some(s) \in D
                 /\ s \ {Some(s)} \in Small(D, n) /\ s \ {Some(s)} \in Small(D, n + 1)
      <3>1. s \in SUBSET D /\ Cardinality(s) <= n + 1 /\ ~(Cardinality(s) <= n)
        BY <2>2 DEF Small
      <3>2. Cardinality(s) \in Nat /\ (s = {} <=> Cardinality(s) = 0)
        BY <3>1, RemoveSome
      <3>3. /\ s # {} /\ Some(s) \in s /\ s \ {Some(s)} \in SUBSET D
            /\ Cardinality(s \ {Some(s)}) = Cardinality(s) - 1
        BY <1>1, <3>1, <3>2, RemoveSome
      <3> QED
        BY <1>1, <3>1, <3>2, <3>3 DEF Small
    <2>3. ASSUME NEW s \in Small(D, n), s # {}
          PROVE  s \ {Some(s)} \in Small(D, n)
      <3>1. s \in SUBSET D /\ Cardinality(s) <= n
        BY DEF Small
      <3>2. /\ s \ {Some(s)} \in SUBSET D /\ Cardinality(s) \in Nat
            /\ Cardinality(s \ {Some(s)}) = Cardinality(s) - 1
        BY <2>3, <3>1, RemoveSome
      <3> QED
        BY <1>1, <3>1, <3>2 DEF Small
    <2>4. \A s \in Small(D, n) : s \in Small(D, n + 1)
      <3> SUFFICES ASSUME NEW s \in Small(D, n) PROVE s \in Small(D, n + 1)
        OBVIOUS
      <3>1. s \in SUBSET D /\ Cardinality(s) <= n
        BY DEF Small
      <3>2. Cardinality(s) \in Nat
        BY <3>1, RemoveSome
      <3> QED
        BY <1>1, <3>1, <3>2 DEF Small
    <2>5. g \in [Small(D, n + 1) -> Int]
      <3> SUFFICES ASSUME NEW s \in Small(D, n + 1)
                   PROVE  (IF s \in Small(D, n) THEN h[s]
                           ELSE f[Some(s)] + h[s \ {Some(s)}]) \in Int
        OBVIOUS
      <3> QED
        BY <2>2
    <2>6. Adds(g, f, Small(D, n + 1))
      <3> SUFFICES ASSUME NEW s \in Small(D, n + 1)
                   PROVE  g[s] = IF s = {} THEN 0 ELSE f[Some(s)] + g[s \ {Some(s)}]
        BY DEF Adds
      <3>1. CASE s \notin Small(D, n)
        <4>1. g[s] = f[Some(s)] + h[s \ {Some(s)}]
          BY <3>1
        <4>2. g[s \ {Some(s)}] = h[s \ {Some(s)}] /\ s # {}
          BY <2>2, <3>1
        <4> HIDE DEF g
        <4> QED
          BY <4>1, <4>2
      <3>2. CASE s \in Small(D, n)
        <4>1. g[s] = h[s]
          BY <3>2
        <4>2. s # {} => g[s \ {Some(s)}] = h[s \ {Some(s)}]
          BY <2>3, <2>4, <3>2
        <4>3. h[s] = IF s = {} THEN 0 ELSE f[Some(s)] + h[s \ {Some(s)}]
          BY <2>1, <3>2 DEF Adds
        <4> HIDE DEF g
        <4> QED
          BY <4>1, <4>2, <4>3
      <3> QED
        BY <3>1, <3>2
    <2> HIDE DEF g
    <2> QED
      BY <2>5, <2>6
  <1>4. N \in T
    <2> HIDE DEF T
    <2>1. N \in Nat /\ N \in 0..N
      BY <1>1
    <2> HIDE DEF N
    <2> QED
      BY <1>2, <1>3, <2>1, SetInduction
  <1> QED
    BY <1>1, <1>4

\* The sums of the specification.
Added(T, S) == MapThenSumSet(LAMBDA n : T[n].energy, S)

ChargingOf(r)    == Charging(r.v * r.i * r.dt)
DischargingOf(r) == Charging(-(r.v * r.i * r.dt))

Inflow(acc, S)  == MapThenSumSet(LAMBDA c : ChargingOf(acc[c.event]), S)
Outflow(acc, S) == MapThenSumSet(LAMBDA c : DischargingOf(acc[c.event]), S)

LEMMA AddedIsSum ==
    ASSUME NEW T, NEW S, IsFiniteSet(S), \A n \in S : T[n].energy \in Int
    PROVE  IsSum(Added(T, S), [n \in S |-> T[n].energy], S)
  <1> DEFINE f == [n \in S |-> T[n].energy]
             Eq(g) == g = [s \in SUBSET S |->
                             IF s = {} THEN 0 ELSE T[Some(s)].energy + g[s \ {Some(s)}]]
             iter == CHOOSE g : Eq(g)
  <1>0. f \in [S -> Int]
    OBVIOUS
  <1>1. PICK h \in [SUBSET S -> Int] : Adds(h, f, SUBSET S)
    <2> HIDE DEF f
    <2> QED
      BY <1>0, SumsExist
  <1>2. \A s \in SUBSET S : s # {} => f[Some(s)] = T[Some(s)].energy
    <2>1. \A s \in SUBSET S : s # {} => Some(s) \in S
      BY DEF Some
    <2> QED
      BY <2>1
  <1> HIDE DEF f
  <1>3. Eq(h)
    BY <1>1, <1>2 DEF Adds
  <1>4. Eq(iter)
    <2> HIDE DEF Eq
    <2> QED
      BY <1>3
  <1>5. Added(T, S) = iter[S]
    BY Zenon DEF Added, MapThenSumSet, MapThenFoldSet, Some
  <1> HIDE DEF iter
  <1>6. Adds(iter, f, SUBSET S)
    BY <1>2, <1>4 DEF Adds
  <1> QED
    BY <1>5, <1>6 DEF IsSum, f

LEMMA InflowIsSum ==
    ASSUME NEW acc, NEW S, IsFiniteSet(S), \A c \in S : ChargingOf(acc[c.event]) \in Int
    PROVE  IsSum(Inflow(acc, S), [c \in S |-> ChargingOf(acc[c.event])], S)
  <1> DEFINE f == [c \in S |-> ChargingOf(acc[c.event])]
             Eq(g) == g = [s \in SUBSET S |->
                 IF s = {} THEN 0
                 ELSE ChargingOf(acc[Some(s).event]) + g[s \ {Some(s)}]]
             iter == CHOOSE g : Eq(g)
  <1>0. f \in [S -> Int]
    OBVIOUS
  <1>1. PICK h \in [SUBSET S -> Int] : Adds(h, f, SUBSET S)
    <2> HIDE DEF f
    <2> QED
      BY <1>0, SumsExist
  <1>2. \A s \in SUBSET S : s # {} => f[Some(s)] = ChargingOf(acc[Some(s).event])
    <2>1. \A s \in SUBSET S : s # {} => Some(s) \in S
      BY DEF Some
    <2> QED
      BY <2>1
  <1> HIDE DEF f
  <1>3. Eq(h)
    BY <1>1, <1>2 DEF Adds
  <1>4. Eq(iter)
    <2> HIDE DEF Eq
    <2> QED
      BY <1>3
  <1>5. Inflow(acc, S) = iter[S]
    BY Zenon DEF Inflow, MapThenSumSet, MapThenFoldSet, Some
  <1> HIDE DEF iter
  <1>6. Adds(iter, f, SUBSET S)
    BY <1>2, <1>4 DEF Adds
  <1> QED
    BY <1>5, <1>6 DEF IsSum, f

LEMMA OutflowIsSum ==
    ASSUME NEW acc, NEW S, IsFiniteSet(S), \A c \in S : DischargingOf(acc[c.event]) \in Int
    PROVE  IsSum(Outflow(acc, S), [c \in S |-> DischargingOf(acc[c.event])], S)
  <1> DEFINE f == [c \in S |-> DischargingOf(acc[c.event])]
             Eq(g) == g = [s \in SUBSET S |->
                 IF s = {} THEN 0
                 ELSE DischargingOf(acc[Some(s).event]) + g[s \ {Some(s)}]]
             iter == CHOOSE g : Eq(g)
  <1>0. f \in [S -> Int]
    OBVIOUS
  <1>1. PICK h \in [SUBSET S -> Int] : Adds(h, f, SUBSET S)
    <2> HIDE DEF f
    <2> QED
      BY <1>0, SumsExist
  <1>2. \A s \in SUBSET S : s # {} => f[Some(s)] = DischargingOf(acc[Some(s).event])
    <2>1. \A s \in SUBSET S : s # {} => Some(s) \in s
      BY DEF Some
    <2> QED
      BY <2>1
  <1> HIDE DEF f
  <1>3. Eq(h)
    BY <1>1, <1>2 DEF Adds
  <1>4. Eq(iter)
    <2> HIDE DEF Eq
    <2> QED
      BY <1>3
  <1>5. Outflow(acc, S) = iter[S]
    BY Zenon DEF Outflow, MapThenSumSet, MapThenFoldSet, Some
  <1> HIDE DEF iter
  <1>6. Adds(iter, f, SUBSET S)
    BY <1>2, <1>4 DEF Adds
  <1> QED
    BY <1>5, <1>6 DEF IsSum, f

LEMMA SumAdds ==
    ASSUME NEW D, IsFiniteSet(D), NEW x, x \notin D, NEW f \in [D -> Int], NEW e \in Int,
           NEW v, IsSum(v, f, D)
    PROVE  IsSum(v + e, [d \in D \cup {x} |-> IF d = x THEN e ELSE f[d]], D \cup {x})
  <1> DEFINE E == D \cup {x}
             h == [d \in E |-> IF d = x THEN e ELSE f[d]]
  <1>1. IsFiniteSet(E) /\ E \ {x} = D /\ x \in E
    <2>1. IsFiniteSet(E)
      BY FS_AddElement
    <2> QED
      BY <2>1
  <1>2. h \in [E -> Int] /\ h[x] = e /\ Without(h, E, x) = f
    <2>1. h \in [E -> Int] /\ h[x] = e
      OBVIOUS
    <2>2. \A d \in D : h[d] = f[d]
      OBVIOUS
    <2> HIDE DEF h
    <2>3. Without(h, E, x) = [d \in D |-> h[d]]
      BY <1>1 DEF Without
    <2>4. [d \in D |-> h[d]] = f
      BY <2>2
    <2> QED
      BY <2>1, <2>3, <2>4
  <1> HIDE DEF E, h
  <1>3. PICK g \in [SUBSET E -> Int] : Adds(g, h, SUBSET E)
    BY <1>1, <1>2, SumsExist
  <1>4. IsSum(g[E], h, E)
    BY <1>3 DEF IsSum
  <1>5. IsSum(v, Without(h, E, x), E \ {x})
    BY <1>1, <1>2
  <1>6. g[E] = h[x] + v /\ v \in Int
    BY <1>1, <1>2, <1>4, <1>5, SumOfMore
  <1>8. g[E] = v + e
    BY <1>2, <1>6
  <1> QED
    BY <1>4, <1>8 DEF E, h

LEMMA NothingSums ==
    ASSUME NEW f
    PROVE  IsSum(0, f, {})
  <1> DEFINE g == [s \in SUBSET {} |-> 0]
  <1>1. g[{}] = 0
    BY {} \in SUBSET {}
  <1>2. \A s \in SUBSET {} : s = {}
    OBVIOUS
  <1>3. Adds(g, f, SUBSET {})
    <2> HIDE DEF g
    <2> QED
      BY <1>1, <1>2 DEF Adds
  <1> HIDE DEF g
  <1> QED
    BY <1>1, <1>3 DEF IsSum

LEMMA AddedNone ==
    ASSUME NEW T
    PROVE  Added(T, {}) = 0
  <1>1. IsSum(Added(T, {}), [n \in {} |-> T[n].energy], {})
    BY FS_EmptySet, AddedIsSum
  <1> QED
    BY <1>1, SumOfNone

LEMMA AddedOne ==
    ASSUME NEW T, NEW a, T[a].energy \in Int
    PROVE  Added(T, {a}) = T[a].energy
  <1> DEFINE f == [n \in {a} |-> T[n].energy]
  <1>1. IsFiniteSet({a}) /\ {a} \ {a} = {} /\ a \in {a}
    <2>1. IsFiniteSet({a})
      BY FS_Singleton
    <2> QED
      BY <2>1
  <1>2. f \in [{a} -> Int] /\ f[a] = T[a].energy
    OBVIOUS
  <1>3. IsSum(Added(T, {a}), f, {a})
    BY <1>1, AddedIsSum
  <1> HIDE DEF f
  <1>4. IsSum(0, Without(f, {a}, a), {a} \ {a})
    BY <1>1, NothingSums
  <1>5. Added(T, {a}) = f[a] + 0
    BY <1>1, <1>2, <1>3, <1>4, SumOfMore
  <1> QED
    BY <1>2, <1>5

LEMMA AddedTwo ==
    ASSUME NEW T, NEW a, NEW b, a # b, T[a].energy \in Int, T[b].energy \in Int
    PROVE  Added(T, {a, b}) = T[a].energy + T[b].energy
  <1> DEFINE D == {a, b}
             f == [n \in D |-> T[n].energy]
  <1>1. IsFiniteSet(D) /\ D \ {a} = {b} /\ a \in D
    <2>1. IsFiniteSet({a} \cup {b})
      BY FS_Singleton, FS_Union
    <2>2. {a} \cup {b} = D
      OBVIOUS
    <2> QED
      BY <2>1, <2>2
  <1>2. f \in [D -> Int] /\ f[a] = T[a].energy /\ f[b] = T[b].energy
    OBVIOUS
  <1>3. IsSum(Added(T, D), f, D)
    BY <1>1, AddedIsSum
  <1> HIDE DEF f, D
  <1>4. Without(f, D, a) = [n \in {b} |-> T[n].energy]
    BY <1>1, <1>2 DEF Without
  <1>5. IsSum(Added(T, {b}), Without(f, D, a), D \ {a})
    <2>1. IsFiniteSet({b})
      BY FS_Singleton
    <2>2. IsSum(Added(T, {b}), [n \in {b} |-> T[n].energy], {b})
      BY <2>1, AddedIsSum
    <2> QED
      BY <1>1, <1>4, <2>2
  <1>6. Added(T, D) = f[a] + Added(T, {b})
    BY <1>1, <1>2, <1>3, <1>5, SumOfMore
  <1>7. Added(T, {b}) = T[b].energy
    BY AddedOne
  <1> QED
    BY <1>2, <1>6, <1>7 DEF D

-----------------------------------------------------------------------------
(***************************************************************************)
(* The cycles the BMS accepted, as an observer may read them off.          *)
(***************************************************************************)
Sample == [v : Int, i : Int, t : Int, soc : Int, dt : Nat \ {0}]

CyclesInRange ==
    /\ accepted \in Seq(Sample)
    /\ {"power", "time", "updates"} \subseteq DOMAIN report
    /\ report.updates = Len(accepted) /\ ledger.updates = Len(accepted)
    /\ report.time = ledger.time /\ ledger.time \in Int
    /\ accepted # <<>> =>
          report.power = accepted[Len(accepted)].v * accepted[Len(accepted)].i

LEMMA CycleCounts ==
    ASSUME CyclesInRange, NEW r \in Reading, BMS!AcceptCycle(r)
    PROVE  /\ CyclesInRange' /\ r \in Sample
           /\ accepted' = Append(accepted, r)
           /\ report'.time = report.time + r.dt
           /\ report'.updates = report.updates + 1
  <1>1. /\ r.v \in Int /\ r.i \in Int /\ r.t \in Int /\ r.soc \in Int /\ r.dt \in Int
        /\ r.dt > 0
    BY DoublesAssumption
    DEF BMS!AcceptCycle, BMS!CycleSucceeds, BMS!ValidSensors, BMS!IsFinite, BMS!Finite
  <1>2. r \in Sample
    BY <1>1 DEF Sample, Reading
  <1>3. /\ ledger' = BMS!CandidateLedger(r) /\ report' = BMS!CandidateReport(r)
        /\ accepted' = Append(accepted, r)
    BY DEF BMS!AcceptCycle
  <1>4. ledger'.updates = ledger.updates + 1 /\ ledger'.time = ledger.time + r.dt
    BY <1>3 DEF BMS!CandidateLedger
  <1>5. /\ {"power", "time", "updates"} \subseteq DOMAIN report'
        /\ report'.power = r.v * r.i
        /\ report'.time = ledger.time + r.dt /\ report'.updates = ledger.updates + 1
    BY <1>3 DEF CyclesInRange, BMS!CandidateReport, BMS!CandidateLedger
  <1>6. /\ accepted' \in Seq(Sample) /\ Len(accepted') = Len(accepted) + 1
        /\ accepted'[Len(accepted')] = r
    BY <1>2, <1>3 DEF CyclesInRange
  <1>7. Len(accepted) \in Nat
    BY DEF CyclesInRange
  <1>8. CyclesInRange'
    BY <1>1, <1>4, <1>5, <1>6 DEF CyclesInRange
  <1> QED
    BY <1>2, <1>3, <1>5, <1>8 DEF CyclesInRange

LEMMA RejectCounts ==
    ASSUME CyclesInRange, NEW r, BMS!RejectCycle(r)
    PROVE  CyclesInRange' /\ UNCHANGED <<report, ledger, accepted>>
  BY DEF BMS!RejectCycle, BMS!numeric, CyclesInRange

LEMMA SessionCounts ==
    ASSUME CyclesInRange, NEW c, BMS!InitAdvanced(c)
    PROVE  /\ CyclesInRange'
           /\ \/ accepted' = <<>> /\ ledger'.updates = 0
              \/ UNCHANGED <<report, ledger, accepted>>
  <1>1. CASE BMS!StartSession(c)
    <2>1. /\ ledger' = BMS!ZeroLedger /\ report' = BMS!FreshReport /\ accepted' = <<>>
      BY <1>1 DEF BMS!StartSession
    <2>2. CyclesInRange'
      BY <2>1 DEF CyclesInRange, BMS!ZeroLedger, BMS!FreshReport
    <2> QED
      BY <2>1, <2>2 DEF BMS!ZeroLedger
  <1>2. CASE BMS!RejectSession(c)
    BY <1>2 DEF BMS!RejectSession, BMS!vars, CyclesInRange
  <1> QED
    BY <1>1, <1>2 DEF BMS!InitAdvanced

\* What an accepted step adds to the estimates and what is read off it.
LEMMA StepAdds ==
    ASSUME IInv, CyclesInRange, NEW d \in Drives, NEW r \in Readings, AcceptStep(d, r)
    PROVE  \E s \in Sample :
              /\ CyclesInRange' /\ accepted' = Append(accepted, s)
              /\ report'.time - report.time = s.dt /\ report'.updates = Len(accepted) + 1
              /\ diag'.mechanical \in Nat /\ diag'.electrical \in Nat
              /\ diag'.total.mechanical = diag.total.mechanical + diag'.mechanical * s.dt
              /\ diag'.total.electrical = diag.total.electrical + diag'.electrical * s.dt
  <1>1. PICK i \in CurrentsUsed(d, r) :
            /\ PreflightSucceeds(d, r, i)
            /\ BMS!AcceptCycle([r EXCEPT !.i = i])
            /\ diag' = Candidate(d, r, i)
    BY DEF AcceptStep
  <1>2. ValidInputs(d, r) /\ MembersInRange
    BY DEF AcceptStep, IInv
  <1>3. i \in Int
    BY <1>2, CurrentRange
  <1> DEFINE s == [r EXCEPT !.i = i]
  <1>4. s \in Reading /\ s.dt = r.dt
    BY <1>3, RecoveryAssumption DEF Reading, Double
  <1>5. BMS!AcceptCycle(s)
    BY <1>1
  <1> HIDE DEF s
  <1>6. /\ CyclesInRange' /\ s \in Sample /\ accepted' = Append(accepted, s)
        /\ report'.time = report.time + s.dt /\ report'.updates = report.updates + 1
    BY <1>4, <1>5, CycleCounts
  <1>7. report'.time - report.time = s.dt /\ report'.updates = Len(accepted) + 1
    <2>1. s.dt \in Int /\ report.time \in Int
      BY <1>6 DEF Sample, CyclesInRange
    <2> QED
      BY <1>6, <2>1 DEF CyclesInRange
  <1>8. Credit(d, r, i) \in EnergyType /\ diag.total \in EnergyType
    BY <1>2, <1>3, CreditRange DEF MembersInRange, DiagType
  <1>9. /\ diag'.total.mechanical = diag.total.mechanical + Credit(d, r, i).mechanical
        /\ diag'.total.electrical = diag.total.electrical + Credit(d, r, i).electrical
        /\ diag'.mechanical = MechanicalPower(d) /\ diag'.electrical = ElectricalPower(d)
    BY <1>1, <1>8, AddRange DEF Candidate
  <1>10. /\ Credit(d, r, i).mechanical = MechanicalPower(d) * s.dt
         /\ Credit(d, r, i).electrical = ElectricalPower(d) * s.dt
    BY <1>4 DEF Credit
  <1>11. MechanicalPower(d) \in Nat /\ ElectricalPower(d) \in Nat
    BY <1>2, EstimatesRange
  <1> QED
    BY <1>6, <1>7, <1>9, <1>10, <1>11

-----------------------------------------------------------------------------
(***************************************************************************)
(* What a batch adds to the account.                                       *)
(***************************************************************************)
Entering(b) == {n \in DOMAIN b.transfers :
                  Physical(b.transfers[n]) /\ Enters(b.transfers[n], b)}
Leaving(b)  == {n \in DOMAIN b.transfers :
                  /\ Physical(b.transfers[n]) /\ Leaves(b.transfers[n], b)
                  /\ b.transfers[n].destination # "ThermalSink"}
Estimated(b) == {n \in DOMAIN b.transfers :
                  ~Physical(b.transfers[n]) /\ b.transfers[n].kind = "Estimated"}

AccountFields == {"session", "lastEvent", "events", "lastEnd", "boundary", "inbound",
                  "outbound", "dissipated", "storageChange", "residual",
                  "physical", "available"}

AccountInRange ==
    /\ DOMAIN account = AccountFields /\ account = [a \in AccountFields |-> account[a]]
    /\ account.session \in Nat \ {0} /\ account.lastEvent \in Nat /\ account.events \in Nat
    /\ account.inbound \in Int /\ account.outbound \in Int
    /\ DOMAIN account.available = EvidenceKinds
    /\ account.available["Estimated"] \in Int

LEMMA EmptyInRange ==
    ASSUME NEW n \in Nat \ {0}, account' = EmptyAccount(n)
    PROVE  AccountInRange'
  BY DEF AccountInRange, EmptyAccount, AccountFields, EvidenceKinds

Available(b, k) == Energies(b, LAMBDA t : ~Physical(t) /\ t.kind = k)

LEMMA FluxAdds ==
    ASSUME NEW b
    PROVE  /\ Flux(b).inbound = Added(b.transfers, Entering(b))
           /\ Flux(b).outbound = Added(b.transfers, Leaving(b))
           /\ Available(b, "Estimated") = Added(b.transfers, Estimated(b))
  <1>1. Flux(b).inbound = Added(b.transfers, Entering(b))
    BY Zenon DEF Flux, Energies, Added, Entering
  <1>2. Flux(b).outbound = Added(b.transfers, Leaving(b))
    BY Zenon DEF Flux, Energies, Added, Leaving
  <1>3. Available(b, "Estimated") = Added(b.transfers, Estimated(b))
    BY Zenon DEF Available, Energies, Added, Estimated
  <1> QED
    BY <1>1, <1>2, <1>3

LEMMA CommitAdds ==
    ASSUME AccountInRange, NEW b
    PROVE  LET next == CandidateAccount(b)
           IN  /\ DOMAIN next = AccountFields /\ next = [a \in AccountFields |-> next[a]]
               /\ next.session = account.session
               /\ next.lastEvent = b.event
               /\ next.events = account.events + 1
               /\ next.inbound = account.inbound + Flux(b).inbound
               /\ next.outbound = account.outbound + Flux(b).outbound
               /\ DOMAIN next.available = EvidenceKinds
               /\ next.available["Estimated"] =
                    account.available["Estimated"] + Available(b, "Estimated")
  <1> DEFINE next == CandidateAccount(b)
             PhysicalOf(k) == Energies(b, LAMBDA t : Physical(t) /\ t.kind = k)
  <1>1. next =
    [account EXCEPT
        !.lastEvent = b.event, !.lastEnd = b.end, !.boundary = b.boundary,
        !.events = @ + 1,
        !.inbound = @ + Flux(b).inbound, !.outbound = @ + Flux(b).outbound,
        !.dissipated = @ + Flux(b).dissipated,
        !.storageChange = @ + Final(b) - Initial(b),
        !.residual = @ + Residual(b),
        !.physical = [k \in EvidenceKinds |-> @[k] + PhysicalOf(k)],
        !.available = [k \in EvidenceKinds |-> @[k] + Available(b, k)]]
    BY Zenon DEF CandidateAccount, Available
  <1> HIDE DEF next, PhysicalOf
  <1>2. /\ DOMAIN next = AccountFields
        /\ next.session = account.session
        /\ next.lastEvent = b.event
        /\ next.events = account.events + 1
        /\ next.inbound = account.inbound + Flux(b).inbound
        /\ next.outbound = account.outbound + Flux(b).outbound
    BY <1>1 DEF AccountInRange, AccountFields
  <1>3. next.available = [k \in EvidenceKinds |-> account.available[k] + Available(b, k)]
    BY <1>1 DEF AccountInRange, AccountFields
  <1>4. next = [a \in AccountFields |-> next[a]]
    BY <1>1 DEF AccountInRange, AccountFields
  <1>5. DOMAIN next.available = EvidenceKinds
    BY <1>3
  <1>6. next.available["Estimated"] =
           account.available["Estimated"] + Available(b, "Estimated")
    BY <1>3 DEF EvidenceKinds
  <1> QED
    BY <1>2, <1>4, <1>5, <1>6 DEF next

TransferType ==
    [id : Nat, source : PhysicalNodes, destination : PhysicalNodes,
     energy : Double \cup Int, start : Int, end : Int, kind : EvidenceKinds,
     accepted : BOOLEAN, purpose : {"PhysicalTransfer", "AvailableEstimate"}]

\* What an observer hands out: the battery's transfer, and the two estimates
\* beside it when it watched a recovery.
ObservationInRange(o) ==
    /\ o.session \in Nat /\ o.event \in Nat \ {0} /\ o.start \in Int /\ o.end \in Int
    /\ o.transfers \in Seq(TransferType) /\ Len(o.transfers) \in {1, 3}
    /\ Physical(o.transfers[1])
    /\ Len(o.transfers) = 3 =>
          \A n \in {2, 3} : /\ ~Physical(o.transfers[n])
                            /\ o.transfers[n].kind = "Estimated"

EstimateOf(o) ==
    IF Len(o.transfers) = 3 THEN o.transfers[2].energy + o.transfers[3].energy ELSE 0

LEMMA Joined ==
    ASSUME NEW S, NEW s \in Seq(S), NEW t \in Seq(S)
    PROVE  /\ Len(s) \in Nat /\ Len(t) \in Nat /\ Len(s \o t) = Len(s) + Len(t)
           /\ DOMAIN (s \o t) = 1..Len(s \o t)
           /\ \A n \in 1..Len(s) : (s \o t)[n] = s[n]
           /\ \A n \in 1..Len(s \o t) :
                 n > Len(s) => /\ (s \o t)[n] = t[n - Len(s)]
                               /\ n - Len(s) \in 1..Len(t)
  <1>1. Len(s) \in Nat /\ Len(t) \in Nat /\ Len(s \o t) = Len(s) + Len(t)
    OBVIOUS
  <1>2. s \o t \in Seq(S)
    OBVIOUS
  <1>3. DOMAIN (s \o t) = 1..Len(s \o t)
    BY <1>2
  <1>4. \A n \in 1..Len(s) : (s \o t)[n] = s[n]
    BY <1>1
  <1>5. ASSUME NEW n \in 1..Len(s \o t), n > Len(s)
        PROVE  (s \o t)[n] = t[n - Len(s)] /\ n - Len(s) \in 1..Len(t)
    BY <1>1, <1>5
  <1> QED
    BY <1>1, <1>3, <1>4, <1>5

\* The caller's part of a batch is heat.
LEMMA BatchIsHeated ==
    ASSUME NEW o, ObservationInRange(o), NEW f \in Frames
    PROVE  LET b == Batch(o, f)
           IN  /\ b.session = o.session /\ b.event = o.event
               /\ "Battery" \in b.boundary /\ "ThermalSink" \notin b.boundary
               /\ b.boundary = f.boundary
               /\ Len(o.transfers) \in {1, 3}
               /\ Len(b.transfers) \in Nat /\ Len(b.transfers) >= Len(o.transfers)
               /\ DOMAIN b.transfers = 1..Len(b.transfers)
               /\ \A n \in 1..Len(o.transfers) : b.transfers[n] = o.transfers[n]
               /\ \A n \in DOMAIN b.transfers :
                     n > Len(o.transfers) => /\ Physical(b.transfers[n])
                                             /\ b.transfers[n].destination = "ThermalSink"
  <1> DEFINE b == Batch(o, f)
             heat == [n \in DOMAIN f.transfers |-> Placed(f.transfers[n], o)]
  <1>1. f.transfers \in Seq(Heat) /\ "Battery" \in f.boundary /\ "ThermalSink" \notin f.boundary
    BY ContinuityAssumption
  <1>2. /\ b.transfers = o.transfers \o heat /\ b.boundary = f.boundary
        /\ b.session = o.session /\ b.event = o.event
    BY DEF Batch
  <1>3. ASSUME NEW n \in 1..Len(f.transfers)
        PROVE  /\ heat[n] \in TransferType
               /\ Physical(heat[n]) /\ heat[n].destination = "ThermalSink"
    <2>1. f.transfers[n] \in Heat /\ heat[n] = Placed(f.transfers[n], o)
      BY <1>1
    <2>2. /\ f.transfers[n].id \in Nat /\ f.transfers[n].source \in PhysicalNodes
          /\ f.transfers[n].destination = "ThermalSink"
          /\ f.transfers[n].energy \in Double /\ f.transfers[n].kind \in EvidenceKinds
          /\ f.transfers[n].accepted \in BOOLEAN
      BY <2>1 DEF Heat
    <2>3. o.start \in Int /\ o.end \in Int
      BY DEF ObservationInRange
    <2>4. Placed(f.transfers[n], o) \in TransferType
      BY <2>2, <2>3 DEF Placed, TransferType, PhysicalNodes
    <2> HIDE DEF heat
    <2> QED
      BY <2>1, <2>2, <2>4 DEF Placed, Physical
  <1>4. heat \in Seq(TransferType) /\ Len(heat) = Len(f.transfers) /\ Len(heat) \in Nat
    <2>1. DOMAIN heat = 1..Len(f.transfers) /\ Len(f.transfers) \in Nat
      BY <1>1
    <2>2. heat \in [1..Len(f.transfers) -> TransferType]
      <3>1. heat = [n \in 1..Len(f.transfers) |-> heat[n]]
        BY <2>1
      <3> HIDE DEF heat
      <3> QED
        BY <1>3, <3>1
    <2> HIDE DEF heat
    <2> QED
      BY <2>1, <2>2
  <1> HIDE DEF heat
  <1>5. o.transfers \in Seq(TransferType) /\ Len(o.transfers) \in {1, 3}
    BY DEF ObservationInRange
  <1> DEFINE m == Len(o.transfers)
             T == b.transfers
  <1>6. /\ T = o.transfers \o heat /\ m \in Nat /\ Len(T) = m + Len(heat)
        /\ DOMAIN T = 1..Len(T)
        /\ \A n \in 1..m : T[n] = o.transfers[n]
        /\ \A n \in DOMAIN T : n > m => T[n] = heat[n - m] /\ n - m \in 1..Len(heat)
    <2> HIDE DEF b
    <2>1. T = o.transfers \o heat
      BY <1>2
    <2>2. heat \in Seq(TransferType) /\ o.transfers \in Seq(TransferType)
      BY <1>4, <1>5
    <2>3. /\ m \in Nat /\ Len(o.transfers \o heat) = m + Len(heat)
          /\ DOMAIN (o.transfers \o heat) = 1..Len(o.transfers \o heat)
          /\ \A n \in 1..m : (o.transfers \o heat)[n] = o.transfers[n]
          /\ \A n \in 1..Len(o.transfers \o heat) :
                n > m => /\ (o.transfers \o heat)[n] = heat[n - m]
                         /\ n - m \in 1..Len(heat)
      BY <2>2, Joined
    <2> HIDE DEF T
    <2> QED
      BY <2>1, <2>3
  <1>7. Len(T) \in Nat /\ Len(T) >= m
    <2> HIDE DEF T, m
    <2> QED
      BY <1>4, <1>6
  <1>8. \A n \in DOMAIN T : n > m => Physical(T[n]) /\ T[n].destination = "ThermalSink"
    <2> HIDE DEF T, m
    <2> QED
      BY <1>3, <1>4, <1>6
  <1> HIDE DEF b
  <1> QED
    BY <1>1, <1>2, <1>5, <1>6, <1>7, <1>8 DEF b

\* Whatever heat the caller adds, a batch brings in or takes out at most the
\* battery's own transfer, and makes available the observation's estimates.
LEMMA BatchAdds ==
    ASSUME NEW o, ObservationInRange(o), NEW f \in Frames, Acceptable(Batch(o, f))
    PROVE  LET b == Batch(o, f)
               t == o.transfers[1]
           IN  /\ t.energy \in Int /\ EstimateOf(o) \in Int
               /\ Flux(b).inbound = IF Enters(t, b) THEN t.energy ELSE 0
               /\ Flux(b).outbound = IF Leaves(t, b) /\ t.destination # "ThermalSink"
                                     THEN t.energy ELSE 0
               /\ Available(b, "Estimated") = EstimateOf(o)
  <1> DEFINE b == Batch(o, f)
             T == b.transfers
             m == Len(o.transfers)
             t == o.transfers[1]
  <1>1. /\ "Battery" \in b.boundary /\ "ThermalSink" \notin b.boundary
        /\ m \in {1, 3} /\ Len(T) \in Nat /\ Len(T) >= m /\ DOMAIN T = 1..Len(T)
        /\ \A n \in 1..m : T[n] = o.transfers[n]
        /\ \A n \in DOMAIN T :
              n > m => Physical(T[n]) /\ T[n].destination = "ThermalSink"
    BY BatchIsHeated
  <1>2. \A n \in DOMAIN T : T[n].energy \in Int
    <2>1. \A n \in DOMAIN T : ValidQuantity(T[n].energy)
      BY DEF Acceptable, TransfersAcceptable
    <2> HIDE DEF T
    <2> QED
      BY <2>1, DoublesAssumption DEF ValidQuantity, IsFinite, Finite
  <1>3. /\ Physical(t)
        /\ m = 3 => \A n \in {2, 3} : /\ ~Physical(o.transfers[n])
                                      /\ o.transfers[n].kind = "Estimated"
    BY DEF ObservationInRange
  <1>4. /\ Flux(b).inbound = Added(T, Entering(b))
        /\ Flux(b).outbound = Added(T, Leaving(b))
        /\ Available(b, "Estimated") = Added(T, Estimated(b))
    BY FluxAdds
  <1> DEFINE Entered == {n \in DOMAIN T : Physical(T[n]) /\ Enters(T[n], b)}
             Left == {n \in DOMAIN T : /\ Physical(T[n]) /\ Leaves(T[n], b)
                                       /\ T[n].destination # "ThermalSink"}
             Estimates == {n \in DOMAIN T : ~Physical(T[n]) /\ T[n].kind = "Estimated"}
  <1>5. Entering(b) = Entered /\ Leaving(b) = Left /\ Estimated(b) = Estimates
    BY DEF Entering, Leaving, Estimated
  <1>6. \A n \in DOMAIN T : n \in 1..m \/ n > m
    <2> HIDE DEF T, m
    <2> QED
      BY <1>1
  <1>7. 1 \in DOMAIN T /\ T[1] = t /\ 1 \in 1..m
    <2>1. 1 \in 1..m /\ 1 \in DOMAIN T
      <3> HIDE DEF T, m
      <3> QED
        BY <1>1
    <2>2. \A n \in 1..m : T[n] = o.transfers[n]
      BY <1>1
    <2> QED
      BY <2>1, <2>2
  <1>8. \A n \in DOMAIN T : n # 1 /\ n \in 1..m => ~Physical(T[n]) /\ m = 3 /\ n \in {2, 3}
    <2>1. \A n \in 1..m : n # 1 => m = 3 /\ n \in {2, 3}
      <3>1. m = 1 \/ m = 3
        BY <1>1
      <3> HIDE DEF T, m
      <3>2. CASE m = 1
        BY <3>2
      <3>3. CASE m = 3
        <4>1. \A n \in 1..3 : n # 1 => n \in {2, 3}
          OBVIOUS
        <4> QED
          BY <3>3, <4>1
      <3> QED
        BY <3>1, <3>2, <3>3
    <2>2. \A n \in DOMAIN T : n \in 1..m => T[n] = o.transfers[n]
      BY <1>1
    <2> HIDE DEF T, m
    <2> QED
      BY <1>3, <2>1, <2>2
  <1>9. \A n \in DOMAIN T : n > m => ~Enters(T[n], b)
    <2> HIDE DEF T, m, b
    <2> QED
      BY <1>1 DEF Enters, Inside
  <1>10. Entered = IF Enters(t, b) THEN {1} ELSE {}
    <2> HIDE DEF T, m, b, t
    <2> QED
      BY <1>3, <1>6, <1>7, <1>8, <1>9
  <1>11. Left = IF Leaves(t, b) /\ t.destination # "ThermalSink" THEN {1} ELSE {}
    <2> HIDE DEF T, m, b, t
    <2> QED
      BY <1>1, <1>3, <1>6, <1>7, <1>8
  <1>12. Estimates = IF m = 3 THEN {2, 3} ELSE {}
    <2>1. \A n \in Estimates : n # 1 /\ n \in 1..m
      <3> HIDE DEF T, m, b, t
      <3> QED
        BY <1>1, <1>3, <1>6, <1>7
    <2>2. m = 3 => \A n \in {2, 3} : /\ n \in DOMAIN T /\ n \in 1..m /\ T[n] = o.transfers[n]
                                     /\ ~Physical(T[n]) /\ T[n].kind = "Estimated"
      <3>1. m = 3 => \A n \in {2, 3} : n \in DOMAIN T /\ n \in 1..m
        <4> HIDE DEF T, m, b
        <4> QED
          BY <1>1
      <3>2. \A n \in 1..m : T[n] = o.transfers[n]
        BY <1>1
      <3> HIDE DEF T, m, b
      <3> QED
        BY <1>3, <3>1, <3>2
    <2> HIDE DEF T, m, b, t
    <2> QED
      BY <1>8, <2>1, <2>2
  <1>13. t.energy \in Int
    BY <1>2, <1>7
  <1>14. m = 3 => /\ T[2].energy \in Int /\ T[3].energy \in Int
                  /\ T[2] = o.transfers[2] /\ T[3] = o.transfers[3]
    <2>1. m = 3 => 2 \in DOMAIN T /\ 3 \in DOMAIN T /\ 2 \in 1..m /\ 3 \in 1..m
      <3> HIDE DEF T, m, b
      <3> QED
        BY <1>1
    <2>2. \A n \in 1..m : T[n] = o.transfers[n]
      BY <1>1
    <2> HIDE DEF T, m, b
    <2> QED
      BY <1>2, <2>1, <2>2
  <1>15. Added(T, {}) = 0 /\ Added(T, {1}) = t.energy
    <2>1. Added(T, {}) = 0
      BY AddedNone
    <2>2. T[1].energy \in Int
      BY <1>2, <1>7
    <2> HIDE DEF T
    <2>3. Added(T, {1}) = T[1].energy
      BY <2>2, AddedOne
    <2> QED
      BY <1>7, <2>1, <2>3
  <1>16. m = 3 => Added(T, {2, 3}) = o.transfers[2].energy + o.transfers[3].energy
    <2> HAVE m = 3
    <2>1. /\ T[2].energy \in Int /\ T[3].energy \in Int
          /\ T[2] = o.transfers[2] /\ T[3] = o.transfers[3]
      BY <1>14
    <2> HIDE DEF T, m
    <2>2. 2 # 3
      OBVIOUS
    <2>3. Added(T, {2, 3}) = T[2].energy + T[3].energy
      BY <2>1, <2>2, AddedTwo
    <2> QED
      BY <2>1, <2>3
  <1>17. EstimateOf(o) = IF m = 3 THEN o.transfers[2].energy + o.transfers[3].energy ELSE 0
    BY DEF EstimateOf
  <1> HIDE DEF T, m, Entered, Left, Estimates
  <1>18. Available(b, "Estimated") = EstimateOf(o) /\ EstimateOf(o) \in Int
    BY <1>4, <1>5, <1>12, <1>14, <1>15, <1>16, <1>17
  <1>19. Flux(b).inbound = IF Enters(t, b) THEN t.energy ELSE 0
    BY <1>4, <1>5, <1>10, <1>15
  <1>20. Flux(b).outbound = IF Leaves(t, b) /\ t.destination # "ThermalSink"
                            THEN t.energy ELSE 0
    BY <1>4, <1>5, <1>11, <1>15
  <1> QED
    BY <1>13, <1>18, <1>19, <1>20

-----------------------------------------------------------------------------
(***************************************************************************)
(* The invariant of the observers and the ledger.                          *)
(***************************************************************************)
Work(r) == r.v * r.i * r.dt

\* An observation of this session tells the direction and the energy of one
\* accepted cycle, and never a flow to the sink.
DescribesCycle(o) ==
    /\ o.event <= Len(accepted)
    /\ o.transfers[1].energy = Abs(Work(accepted[o.event]))
    /\ Work(accepted[o.event]) < 0 => /\ o.transfers[1].destination = "Battery"
                                      /\ o.transfers[1].source \in Counterparties
    /\ Work(accepted[o.event]) >= 0 => /\ o.transfers[1].source = "Battery"
                                       /\ o.transfers[1].destination \in Counterparties

ObservationsInv ==
    \A o \in held : /\ ObservationInRange(o) /\ o.session <= account.session
                    /\ ~stale /\ o.session = account.session => DescribesCycle(o)

CallerInv ==
    /\ watched \in BOOLEAN /\ stale \in BOOLEAN
    /\ ~watched => /\ held = {} /\ counted = {} /\ account = EmptyAccount(1) /\ ~stale
                   /\ checkpoint = NoCheckpoint /\ stepped = NoCheckpoint
    /\ stale => checkpoint = NoCheckpoint
    /\ checkpoint # NoCheckpoint => checkpoint.elapsed \in Int
    /\ stepped # NoCheckpoint => stepped.updates \in Nat \ {0} /\ stepped.dt \in Nat

CountedInv ==
    /\ IsFiniteSet(counted) /\ account.events = Cardinality(counted)
    /\ \A c \in counted : /\ c.event \in Nat \ {0} /\ c.event <= account.lastEvent
                          /\ c.crosses \in BOOLEAN
    /\ ~stale => account.lastEvent <= Len(accepted)

Crossed == {c \in counted : c.crosses}

ChargingTerms(S)    == [c \in S |-> ChargingOf(accepted[c.event])]
DischargingTerms(S) == [c \in S |-> DischargingOf(accepted[c.event])]

FlowInv ==
    ~stale => /\ IsSum(account.inbound, ChargingTerms(Crossed), Crossed)
              /\ IsSum(account.outbound, DischargingTerms(Crossed), Crossed)

\* The estimates of the events up to e are never more than cap[e]: the history
\* of the coordinator's totals, cycle by cycle.
TotalEstimate  == diag.total.mechanical + diag.total.electrical
LatestEstimate == diag.mechanical * stepped.dt + diag.electrical * stepped.dt

EstimatesInRange ==
    /\ TotalEstimate \in Nat
    /\ stepped # NoCheckpoint =>
          /\ diag.mechanical \in Nat /\ diag.electrical \in Nat
          /\ LatestEstimate \in Nat /\ LatestEstimate <= TotalEstimate

Monotone(cap) == \A e, g \in Nat : e <= g => cap[e] <= cap[g]

Caps(cap) ==
    /\ cap \in [Nat -> Nat] /\ Monotone(cap)
    /\ \A e \in Nat : cap[e] <= TotalEstimate
    /\ account.available["Estimated"] <= cap[account.lastEvent]
    /\ \A o \in held : o.session = account.session =>
                          cap[o.event - 1] + EstimateOf(o) <= cap[o.event]
    /\ ~stale /\ stepped # NoCheckpoint =>
          cap[stepped.updates - 1] + LatestEstimate <= cap[stepped.updates]

CapInv == EstimatesInRange /\ \E cap : Caps(cap)

WatchInv ==
    /\ CyclesInRange /\ CallerInv /\ AccountInRange
    /\ ObservationsInv /\ CountedInv /\ FlowInv /\ CapInv

-----------------------------------------------------------------------------
LEMMA WorkRange ==
    ASSUME NEW r \in Sample
    PROVE  /\ Work(r) \in Int /\ ChargingOf(r) \in Int /\ DischargingOf(r) \in Int
           /\ Work(r) = (r.v * r.i) * r.dt /\ r.v * r.i \in Int
           /\ r.v * r.i < 0 <=> Work(r) < 0
  <1>1. r.v \in Int /\ r.i \in Int /\ r.dt \in Nat \ {0}
    BY DEF Sample
  <1>2. r.v * r.i \in Int
    BY <1>1
  <1>3. \A a \in Int, b \in Nat \ {0} : a * b \in Int /\ (a < 0 <=> a * b < 0)
    OBVIOUS
  <1>4. Work(r) = (r.v * r.i) * r.dt
    BY DEF Work
  <1>5. Work(r) \in Int /\ (r.v * r.i < 0 <=> Work(r) < 0)
    BY <1>1, <1>2, <1>3, <1>4
  <1>6. ChargingOf(r) = Charging(Work(r)) /\ DischargingOf(r) = Charging(-Work(r))
    BY DEF ChargingOf, DischargingOf, Work
  <1>7. ChargingOf(r) \in Int /\ DischargingOf(r) \in Int
    BY <1>5, <1>6 DEF Charging
  <1> QED
    BY <1>2, <1>4, <1>5, <1>7

LEMMA TermsRange ==
    ASSUME CyclesInRange, AccountInRange, CountedInv, ~stale
    PROVE  /\ IsFiniteSet(Crossed)
           /\ \A c \in Crossed : c.event \in 1..Len(accepted)
           /\ ChargingTerms(Crossed) \in [Crossed -> Int]
           /\ DischargingTerms(Crossed) \in [Crossed -> Int]
  <1>1. IsFiniteSet(Crossed)
    BY FS_Subset DEF CountedInv, Crossed
  <1>2. accepted \in Seq(Sample) /\ Len(accepted) \in Nat
    BY DEF CyclesInRange
  <1>3. \A c \in Crossed : c.event \in 1..Len(accepted)
    <2>1. \A c \in Crossed : c.event \in Nat \ {0} /\ c.event <= account.lastEvent
      BY DEF CountedInv, Crossed
    <2>2. account.lastEvent <= Len(accepted)
      BY DEF CountedInv
    <2>3. account.lastEvent \in Int
      BY DEF AccountInRange
    <2> QED
      BY <1>2, <2>1, <2>2, <2>3
  <1>4. \A c \in Crossed : accepted[c.event] \in Sample
    BY <1>2, <1>3
  <1>5. \A c \in Crossed : /\ ChargingOf(accepted[c.event]) \in Int
                           /\ DischargingOf(accepted[c.event]) \in Int
    BY <1>4, WorkRange
  <1> QED
    BY <1>1, <1>3, <1>5 DEF ChargingTerms, DischargingTerms

Grows ==
    /\ Len(accepted) <= Len(accepted')
    /\ \A e \in 1..Len(accepted) : accepted'[e] = accepted[e]

LEMMA AppendGrows ==
    ASSUME CyclesInRange, NEW s \in Sample, accepted' = Append(accepted, s)
    PROVE  Grows /\ Len(accepted') = Len(accepted) + 1
  BY DEF CyclesInRange, Grows

LEMMA SameGrows ==
    ASSUME CyclesInRange, accepted' = accepted
    PROVE  Grows
  BY DEF CyclesInRange, Grows

\* Later cycles leave what was observed and counted as it is.
LEMMA GrowthKeeps ==
    ASSUME WatchInv, CyclesInRange', Grows, UNCHANGED <<account, held, stale, counted>>
    PROVE  AccountInRange' /\ ObservationsInv' /\ CountedInv' /\ FlowInv'
  <1>1. accepted \in Seq(Sample) /\ Len(accepted) \in Nat /\ Len(accepted') \in Nat
    BY DEF WatchInv, CyclesInRange
  <1>2. AccountInRange'
    BY DEF WatchInv, AccountInRange
  <1>3. ObservationsInv'
    <2> SUFFICES ASSUME NEW o \in held
                 PROVE  /\ ObservationInRange(o) /\ o.session <= account.session
                        /\ ~stale /\ o.session = account.session => DescribesCycle(o)'
      BY DEF ObservationsInv
    <2>1. /\ ObservationInRange(o) /\ o.session <= account.session
          /\ ~stale /\ o.session = account.session => DescribesCycle(o)
      BY DEF WatchInv, ObservationsInv
    <2>2. o.event \in Nat \ {0}
      BY <2>1 DEF ObservationInRange
    <2>3. ASSUME DescribesCycle(o) PROVE DescribesCycle(o)'
      <3>1. o.event \in 1..Len(accepted)
        BY <1>1, <2>2, <2>3 DEF DescribesCycle
      <3>2. accepted'[o.event] = accepted[o.event] /\ o.event <= Len(accepted')
        BY <1>1, <3>1 DEF Grows
      <3> QED
        BY <2>3, <3>2 DEF DescribesCycle
    <2> QED
      BY <2>1, <2>3
  <1>4. CountedInv'
    <2>1. ~stale => account.lastEvent <= Len(accepted')
      BY <1>1 DEF WatchInv, CountedInv, Grows, AccountInRange
    <2> QED
      BY <2>1 DEF WatchInv, CountedInv
  <1>5. FlowInv'
    <2> SUFFICES ASSUME ~stale
                 PROVE  /\ IsSum(account.inbound, ChargingTerms(Crossed)', Crossed)
                        /\ IsSum(account.outbound, DischargingTerms(Crossed)', Crossed)
      BY DEF FlowInv, Crossed
    <2>1. \A c \in Crossed : c.event \in 1..Len(accepted)
      BY TermsRange DEF WatchInv
    <2>2. \A c \in Crossed : accepted'[c.event] = accepted[c.event]
      BY <2>1 DEF Grows
    <2>3. /\ ChargingTerms(Crossed)' = ChargingTerms(Crossed)
          /\ DischargingTerms(Crossed)' = DischargingTerms(Crossed)
      BY <2>2 DEF ChargingTerms, DischargingTerms, Crossed
    <2> QED
      BY <2>3 DEF WatchInv, FlowInv
  <1> QED
    BY <1>2, <1>3, <1>4, <1>5

\* While the estimates, the observations and the account stay, so do the caps.
LEMMA CapsKept ==
    ASSUME WatchInv, UNCHANGED <<account, held>>,
           stepped' = stepped, stale => stale',
           diag'.mechanical = diag.mechanical, diag'.electrical = diag.electrical,
           diag'.total = diag.total
    PROVE  CapInv'
  <1>1. TotalEstimate' = TotalEstimate /\ LatestEstimate' = LatestEstimate
    BY DEF TotalEstimate, LatestEstimate
  <1>2. EstimatesInRange'
    BY <1>1 DEF WatchInv, CapInv, EstimatesInRange
  <1>3. PICK cap : Caps(cap)
    BY DEF WatchInv, CapInv
  <1>4. Caps(cap)'
    BY <1>1, <1>3 DEF Caps, WatchInv, CallerInv
  <1> QED
    BY <1>2, <1>4 DEF CapInv

LEMMA CaptureWatches ==
    ASSUME WatchInv, Capture
    PROVE  WatchInv'
  <1>1. /\ UNCHANGED <<account, watched, stepped, held, stale, counted, diag, report,
                       ledger, accepted>>
        /\ checkpoint' = Published /\ ~stale /\ watched
    BY DEF Capture, vars, bms, coordinator
  <1>2. CyclesInRange' /\ Published.elapsed \in Int
    BY <1>1 DEF WatchInv, CyclesInRange, Published
  <1>3. CallerInv'
    BY <1>1, <1>2 DEF WatchInv, CallerInv
  <1>4. Grows
    BY <1>1, SameGrows DEF WatchInv
  <1>5. AccountInRange' /\ ObservationsInv' /\ CountedInv' /\ FlowInv'
    BY <1>1, <1>2, <1>4, GrowthKeeps
  <1>6. CapInv'
    BY <1>1, CapsKept
  <1> QED
    BY <1>2, <1>3, <1>5, <1>6 DEF WatchInv

LEMMA OpenWatches ==
    ASSUME IInv, WatchInv, OpenSession
    PROVE  WatchInv'
  <1>1. /\ UNCHANGED <<watched, checkpoint, stepped, held, diag, report, ledger, accepted>>
        /\ stale' = FALSE /\ counted' = {} /\ watched
        /\ account' = EmptyAccount(account.session + 1)
    BY DEF OpenSession, vars, bms, coordinator, ResetLedger, WatchInv, CallerInv
  <1>2. account.session \in Nat \ {0}
    BY DEF WatchInv, AccountInRange
  <1>3. AccountInRange'
    BY <1>1, <1>2, EmptyInRange
  <1>4. /\ account'.session = account.session + 1 /\ account'.lastEvent = 0
        /\ account'.events = 0 /\ account'.inbound = 0 /\ account'.outbound = 0
        /\ account'.available["Estimated"] = 0
    BY <1>1 DEF EmptyAccount, EvidenceKinds
  <1>5. CyclesInRange'
    BY <1>1 DEF WatchInv, CyclesInRange
  <1>6. CallerInv'
    BY <1>1 DEF WatchInv, CallerInv
  <1>7. \A o \in held : ObservationInRange(o) /\ o.session <= account.session
    BY DEF WatchInv, ObservationsInv
  <1>8. \A o \in held : o.session <= account'.session /\ o.session # account'.session
    <2>1. \A o \in held : o.session \in Nat
      BY <1>7 DEF ObservationInRange
    <2> QED
      BY <1>2, <1>4, <1>7, <2>1
  <1>9. ObservationsInv'
    BY <1>1, <1>7, <1>8 DEF ObservationsInv
  <1>10. CountedInv'
    <2>1. IsFiniteSet({}) /\ Cardinality({}) = 0
      BY FS_EmptySet
    <2>2. Len(accepted) \in Nat
      BY DEF WatchInv, CyclesInRange
    <2> QED
      BY <1>1, <1>4, <2>1, <2>2 DEF CountedInv
  <1>11. FlowInv'
    <2>1. Crossed' = {}
      BY <1>1 DEF Crossed
    <2>2. \A f : IsSum(0, f, {})
      BY NothingSums
    <2> QED
      BY <1>4, <2>1, <2>2 DEF FlowInv
  <1>12. CapInv'
    <2> DEFINE cap == [e \in Nat |->
                         IF stepped # NoCheckpoint /\ e >= stepped.updates
                         THEN TotalEstimate ELSE 0]
    <2>1. TotalEstimate' = TotalEstimate /\ LatestEstimate' = LatestEstimate
      BY <1>1 DEF TotalEstimate, LatestEstimate
    <2>2. EstimatesInRange
      BY DEF WatchInv, CapInv
    <2>3. EstimatesInRange'
      BY <1>1, <2>1, <2>2 DEF EstimatesInRange
    <2>4. TotalEstimate \in Nat
      BY <2>2 DEF EstimatesInRange
    <2>5. stepped # NoCheckpoint => /\ stepped.updates \in Nat \ {0}
                                    /\ LatestEstimate \in Nat
                                    /\ LatestEstimate <= TotalEstimate
      BY <2>2 DEF EstimatesInRange, WatchInv, CallerInv
    <2>6. cap \in [Nat -> Nat] /\ \A e \in Nat : cap[e] <= TotalEstimate
      BY <2>4
    <2>7. Monotone(cap)
      BY <2>4, <2>5 DEF Monotone
    <2>8. cap[0] = 0
      BY <2>5
    <2>9. stepped # NoCheckpoint =>
             cap[stepped.updates - 1] = 0 /\ cap[stepped.updates] = TotalEstimate
      BY <2>5
    <2>a. PICK k : k = cap
      OBVIOUS
    <2>b. /\ k \in [Nat -> Nat] /\ \A e \in Nat : k[e] <= TotalEstimate
          /\ Monotone(k) /\ k[0] = 0
          /\ stepped # NoCheckpoint =>
                k[stepped.updates - 1] = 0 /\ k[stepped.updates] = TotalEstimate
      <3> HIDE DEF cap
      <3> QED
        BY <2>a, <2>6, <2>7, <2>8, <2>9
    <2> HIDE DEF cap
    <2>10. Caps(k)'
      <3>1. account'.available["Estimated"] <= k[account'.lastEvent]
        BY <1>4, <2>b
      <3>2. \A o \in held' : o.session # account'.session
        BY <1>1, <1>8
      <3>3. stepped' # NoCheckpoint =>
               k[stepped'.updates - 1] + LatestEstimate' <= k[stepped'.updates]
        <4>1. stepped' = stepped
          BY <1>1
        <4>2. stepped # NoCheckpoint =>
                 k[stepped.updates - 1] + LatestEstimate <= k[stepped.updates]
          BY <2>5, <2>b
        <4> QED
          BY <2>1, <4>1, <4>2
      <3>4. \A e \in Nat : k[e] <= TotalEstimate'
        BY <2>1, <2>b
      <3>5. Monotone(k)'
        BY <2>b DEF Monotone
      <3> QED
        BY <2>b, <3>5, <3>1, <3>2, <3>3, <3>4 DEF Caps
    <2> QED
      BY <2>3, <2>10 DEF CapInv
  <1> QED
    BY <1>3, <1>5, <1>6, <1>9, <1>10, <1>11, <1>12 DEF WatchInv

LEMMA StepWatches ==
    ASSUME IInv, WatchInv, Step
    PROVE  WatchInv'
  <1>1. PICK d \in Drives, r \in Readings : AcceptStep(d, r)
    BY ContinuityAssumption DEF Step, DrivesNow, ReadingsNow
  <1>2. PICK s \in Sample :
              /\ CyclesInRange' /\ accepted' = Append(accepted, s)
              /\ report'.time - report.time = s.dt /\ report'.updates = Len(accepted) + 1
              /\ diag'.mechanical \in Nat /\ diag'.electrical \in Nat
              /\ diag'.total.mechanical = diag.total.mechanical + diag'.mechanical * s.dt
              /\ diag'.total.electrical = diag.total.electrical + diag'.electrical * s.dt
    BY <1>1, StepAdds DEF WatchInv
  <1>3. UNCHANGED <<account, watched, checkpoint, held, stale, counted>>
    BY DEF Step
  <1>4. /\ watched => stepped'.updates = Len(accepted) + 1 /\ stepped'.dt = s.dt
        /\ ~watched => stepped' = NoCheckpoint
    BY <1>2 DEF Step, WatchInv, CallerInv
  <1>5. Grows
    BY <1>2, AppendGrows DEF WatchInv
  <1>6. AccountInRange' /\ ObservationsInv' /\ CountedInv' /\ FlowInv'
    BY <1>2, <1>3, <1>5, GrowthKeeps
  <1>7. Len(accepted) \in Nat /\ s.dt \in Nat
    BY DEF WatchInv, CyclesInRange, Sample
  <1>8. CallerInv'
    <2>1. stepped' # NoCheckpoint => stepped'.updates \in Nat \ {0} /\ stepped'.dt \in Nat
      BY <1>4, <1>7 DEF WatchInv, CallerInv
    <2> QED
      BY <1>3, <1>4, <2>1 DEF WatchInv, CallerInv
  <1> DEFINE gain == diag'.mechanical * s.dt + diag'.electrical * s.dt
             L == Len(accepted)
  <1>9. diag'.mechanical * s.dt \in Nat /\ diag'.electrical * s.dt \in Nat
    <2>1. \A x, y \in Nat : x * y \in Nat
      OBVIOUS
    <2> QED
      BY <1>2, <1>7, <2>1
  <1>10. TotalEstimate \in Nat
    BY DEF WatchInv, CapInv, EstimatesInRange
  <1>11. gain \in Nat /\ TotalEstimate' = TotalEstimate + gain
    <2>1. diag.total.mechanical \in Int /\ diag.total.electrical \in Int
      BY DEF IInv, MembersInRange, DiagType, EnergyType
    <2> QED
      BY <1>2, <1>9, <2>1 DEF TotalEstimate
  <1>12. stepped' # NoCheckpoint => /\ LatestEstimate' = gain
                                    /\ stepped'.updates = L + 1 /\ watched
    BY <1>4 DEF LatestEstimate, WatchInv, CallerInv
  <1>13. EstimatesInRange'
    <2> HIDE DEF gain
    <2>1. stepped' # NoCheckpoint => LatestEstimate' \in Nat
      BY <1>11, <1>12
    <2>2. stepped' # NoCheckpoint => LatestEstimate' <= TotalEstimate'
      BY <1>10, <1>11, <1>12
    <2> QED
      BY <1>2, <1>10, <1>11, <2>1, <2>2 DEF EstimatesInRange
  <1>14. PICK cap : Caps(cap)
    BY DEF WatchInv, CapInv
  <1>15. /\ cap \in [Nat -> Nat] /\ Monotone(cap) /\ \A e \in Nat : cap[e] <= TotalEstimate
         /\ account.available["Estimated"] <= cap[account.lastEvent]
         /\ \A o \in held : o.session = account.session =>
                               cap[o.event - 1] + EstimateOf(o) <= cap[o.event]
    BY <1>14 DEF Caps
  <1> HIDE DEF gain
  <1>16. CASE stale
    <2>1. \A e \in Nat : cap[e] <= TotalEstimate'
      BY <1>10, <1>11, <1>15
    <2>2. Monotone(cap)'
      BY <1>15 DEF Monotone
    <2>3. Caps(cap)'
      BY <1>3, <1>15, <1>16, <2>1, <2>2 DEF Caps
    <2> QED
      BY <1>2, <1>6, <1>8, <1>13, <2>3 DEF WatchInv, CapInv
  <1>17. CASE ~stale
    <2> DEFINE new == [e \in Nat |-> IF e <= L THEN cap[e] ELSE TotalEstimate']
    <2>1. PICK k : k = new
      OBVIOUS
    <2>2. k \in [Nat -> Nat] /\ \A e \in Nat : k[e] <= TotalEstimate'
      <3>1. \A e \in Nat : cap[e] \in Nat /\ cap[e] <= TotalEstimate'
        BY <1>10, <1>11, <1>15
      <3>2. TotalEstimate' \in Nat
        BY <1>10, <1>11
      <3> QED
        BY <2>1, <3>1, <3>2
    <2>3. \A e \in Nat : /\ e <= L => k[e] = cap[e]
                         /\ e > L => k[e] = TotalEstimate'
      BY <1>7, <2>1
    <2> HIDE DEF new
    <2>4. Monotone(k)'
      <3> SUFFICES ASSUME NEW e \in Nat, NEW g \in Nat, e <= g
                   PROVE  k[e] <= k[g]
        BY DEF Monotone
      <3>0. cap[e] <= cap[g]
        BY <1>15 DEF Monotone
      <3>1. g <= L => k[e] = cap[e] /\ k[g] = cap[g]
        <4>1. g <= L => e <= L
          BY <1>7
        <4> HIDE DEF L
        <4> QED
          BY <2>3, <4>1
      <3>2. ~(g <= L) => k[g] = TotalEstimate'
        BY <1>7, <2>3
      <3> QED
        BY <2>2, <3>0, <3>1, <3>2
    <2>5. account.available["Estimated"] <= k[account.lastEvent]
      <3>1. account.lastEvent \in Nat /\ account.lastEvent <= L
        BY <1>17 DEF WatchInv, CountedInv, AccountInRange
      <3> QED
        BY <1>15, <2>3, <3>1
    <2>6. ASSUME NEW o \in held, o.session = account.session
          PROVE  k[o.event - 1] + EstimateOf(o) <= k[o.event]
      <3>1. o.event \in Nat \ {0} /\ o.event <= L
        BY <1>17, <2>6 DEF WatchInv, ObservationsInv, ObservationInRange, DescribesCycle
      <3>2. o.event - 1 \in Nat /\ o.event \in Nat /\ o.event - 1 <= L
        BY <1>7, <3>1
      <3>3. k[o.event - 1] = cap[o.event - 1] /\ k[o.event] = cap[o.event]
        BY <2>3, <3>1, <3>2
      <3> QED
        BY <1>15, <2>6, <3>3
    <2>7. stepped' # NoCheckpoint =>
             k[stepped'.updates - 1] + LatestEstimate' <= k[stepped'.updates]
      <3> HAVE stepped' # NoCheckpoint
      <3>1. stepped'.updates = L + 1 /\ LatestEstimate' = gain
        BY <1>12
      <3>2. L + 1 - 1 = L /\ L + 1 > L /\ L + 1 \in Nat /\ L <= L
        BY <1>7
      <3>3. k[L] = cap[L] /\ k[L + 1] = TotalEstimate'
        BY <1>7, <2>3, <3>2
      <3>4. cap[L] + gain <= TotalEstimate'
        <4>1. cap[L] \in Nat /\ cap[L] <= TotalEstimate
          BY <1>7, <1>15
        <4> HIDE DEF L
        <4> QED
          BY <1>10, <1>11, <4>1
      <3>5. stepped'.updates - 1 = L
        BY <3>1, <3>2
      <3>6. k[stepped'.updates - 1] = cap[L] /\ k[stepped'.updates] = TotalEstimate'
        BY <3>1, <3>3, <3>5
      <3> HIDE DEF L
      <3> QED
        BY <3>1, <3>4, <3>6
    <2>8. Caps(k)'
      BY <1>3, <2>2, <2>4, <2>5, <2>6, <2>7 DEF Caps
    <2> QED
      BY <1>2, <1>6, <1>8, <1>13, <2>8 DEF WatchInv, CapInv
  <1> QED
    BY <1>16, <1>17

LEMMA ElsewhereWatches ==
    ASSUME WatchInv, Elsewhere
    PROVE  WatchInv'
  <1>1. UNCHANGED <<account, watched, checkpoint, stepped, held, stale, counted>>
    BY DEF Elsewhere, observer
  <1>2. /\ CyclesInRange' /\ Grows
        /\ diag'.mechanical = diag.mechanical /\ diag'.electrical = diag.electrical
        /\ diag'.total = diag.total
    <2>1. ASSUME NEW r, BMS!RejectCycle(r) PROVE CyclesInRange' /\ Grows
      BY <2>1, RejectCounts, SameGrows DEF WatchInv
    <2>2. CASE \E d \in DrivesNow, r \in ReadingsNow : RejectStep(d, r)
      <3>1. PICK r : BMS!RejectCycle(r)
        BY <2>2 DEF RejectStep
      <3>2. diag' = diag
        BY <2>2 DEF RejectStep, coordinator
      <3> QED
        BY <2>1, <3>1, <3>2
    <2>3. CASE AbandonStep
      <3>1. UNCHANGED <<diag, report, ledger, accepted>>
        BY <2>3 DEF AbandonStep, vars, bms, coordinator
      <3>2. CyclesInRange'
        BY <3>1 DEF WatchInv, CyclesInRange
      <3> QED
        BY <3>1, <3>2, SameGrows DEF WatchInv
    <2>4. CASE ~watched /\ ResetSession
      <3>1. UNCHANGED <<report, ledger, accepted>> /\ diag' = [diag EXCEPT !.session = NoEnergy]
        BY <2>4 DEF ResetSession, bms
      <3>2. CyclesInRange'
        BY <3>1 DEF WatchInv, CyclesInRange
      <3> QED
        BY <3>1, <3>2, SameGrows DEF WatchInv
    <2>5. CASE \E r \in ReadingsNow : OtherCycle(r)
      <3>1. PICK r \in Readings : OtherCycle(r)
        BY <2>5, ContinuityAssumption DEF ReadingsNow
      <3>2. diag' = diag
        BY <3>1 DEF OtherCycle, coordinator
      <3>3. CASE BMS!AcceptCycle(r)
        <4>1. r \in Reading
          BY RecoveryAssumption
        <4>2. CyclesInRange' /\ r \in Sample /\ accepted' = Append(accepted, r)
          BY <3>3, <4>1, CycleCounts DEF WatchInv
        <4> QED
          BY <3>2, <4>2, AppendGrows DEF WatchInv
      <3>4. CASE BMS!RejectCycle(r)
        BY <2>1, <3>2, <3>4
      <3> QED
        BY <3>1, <3>3, <3>4 DEF OtherCycle
    <2> QED
      BY <2>2, <2>3, <2>4, <2>5 DEF Elsewhere
  <1>3. AccountInRange' /\ ObservationsInv' /\ CountedInv' /\ FlowInv'
    BY <1>1, <1>2, GrowthKeeps
  <1>4. CallerInv'
    BY <1>1 DEF WatchInv, CallerInv
  <1>5. CapInv'
    BY <1>1, <1>2, CapsKept
  <1> QED
    BY <1>2, <1>3, <1>4, <1>5 DEF WatchInv

LEMMA ReinitialiseWatches ==
    ASSUME WatchInv, Reinitialise
    PROVE  WatchInv'
  <1>1. UNCHANGED <<account, watched, stepped, held, counted, diag>>
    BY DEF Reinitialise, OtherSession, coordinator
  <1>2. PICK c : BMS!InitAdvanced(c)
    BY DEF Reinitialise, OtherSession, BMS!InitSimple
  <1>3. /\ CyclesInRange'
        /\ \/ accepted' = <<>> /\ ledger'.updates = 0
           \/ UNCHANGED <<report, ledger, accepted>>
    BY <1>2, SessionCounts DEF WatchInv
  <1>4. \/ stale' = TRUE /\ checkpoint' = NoCheckpoint /\ watched
        \/ /\ UNCHANGED <<stale, checkpoint>>
           /\ ~watched \/ ledger'.updates # 0
    BY DEF Reinitialise
  <1>5. CallerInv'
    <2>1. CallerInv
      BY DEF WatchInv
    <2>2. CASE stale' = TRUE /\ checkpoint' = NoCheckpoint /\ watched
      <3>1. watched' = TRUE
        BY <1>1, <2>1, <2>2 DEF CallerInv
      <3> QED
        BY <1>1, <2>1, <2>2, <3>1 DEF CallerInv
    <2>3. CASE UNCHANGED <<stale, checkpoint>>
      BY <1>1, <2>1, <2>3 DEF CallerInv
    <2> QED
      BY <1>4, <2>2, <2>3
  <1>6. stale => stale'
    BY <1>4
  <1>7. CapInv'
    BY <1>1, <1>6, CapsKept
  <1>8. AccountInRange'
    BY <1>1 DEF WatchInv, AccountInRange
  <1>9. CASE UNCHANGED <<accepted, stale>>
    <2>1. Grows
      BY <1>9, SameGrows DEF WatchInv
    <2>2. ObservationsInv' /\ CountedInv' /\ FlowInv'
      BY <1>1, <1>3, <1>9, <2>1, GrowthKeeps
    <2> QED
      BY <1>3, <1>5, <1>7, <1>8, <2>2 DEF WatchInv
  <1>10. CASE stale'
    <2>1. ObservationsInv' /\ CountedInv' /\ FlowInv'
      BY <1>1, <1>10 DEF WatchInv, ObservationsInv, CountedInv, FlowInv
    <2> QED
      BY <1>3, <1>5, <1>7, <1>8, <2>1 DEF WatchInv
  <1>11. CASE ~watched /\ ~stale'
    <2>1. /\ held' = {} /\ counted' = {} /\ account' = EmptyAccount(1)
      BY <1>1, <1>11 DEF WatchInv, CallerInv
    <2>2. /\ account'.lastEvent = 0 /\ account'.events = 0
          /\ account'.inbound = 0 /\ account'.outbound = 0
      BY <2>1 DEF EmptyAccount
    <2>3. ObservationsInv'
      BY <2>1 DEF ObservationsInv
    <2>4. CountedInv'
      <3>1. IsFiniteSet({}) /\ Cardinality({}) = 0
        BY FS_EmptySet
      <3>2. Len(accepted') \in Nat
        BY <1>3 DEF CyclesInRange
      <3> QED
        BY <2>1, <2>2, <3>1, <3>2 DEF CountedInv
    <2>5. FlowInv'
      <3>1. Crossed' = {}
        BY <2>1 DEF Crossed
      <3>2. \A f : IsSum(0, f, {})
        BY NothingSums
      <3> QED
        BY <2>2, <3>1, <3>2 DEF FlowInv
    <2> QED
      BY <1>3, <1>5, <1>7, <1>8, <2>3, <2>4, <2>5 DEF WatchInv
  <1>12. \/ UNCHANGED <<accepted, stale>> \/ stale' \/ (~watched /\ ~stale')
    BY <1>3, <1>4
  <1> QED
    BY <1>9, <1>10, <1>11, <1>12

LEMMA KeepWatches ==
    ASSUME WatchInv, NEW ob, Keep(ob), watched, ~stale,
           ObservationInRange(ob), ob.session = account.session, DescribesCycle(ob),
           \A cap : Caps(cap) => cap[ob.event - 1] + EstimateOf(ob) <= cap[ob.event]
    PROVE  WatchInv'
  <1>1. /\ UNCHANGED <<account, watched, stepped, stale, counted, diag, report, ledger,
                       accepted>>
        /\ checkpoint' \in {checkpoint, Published}
    BY DEF Keep, vars, bms, coordinator
  <1>2. \A o \in held' : o \in held \/ o = ob
    BY DEF Keep
  <1>3. CyclesInRange' /\ Published.elapsed \in Int
    BY <1>1 DEF WatchInv, CyclesInRange, Published
  <1>4. CallerInv'
    <2>1. CallerInv
      BY DEF WatchInv
    <2> QED
      BY <1>1, <1>3, <2>1 DEF CallerInv
  <1>5. AccountInRange' /\ CountedInv' /\ FlowInv'
    <2>1. AccountInRange'
      BY <1>1 DEF WatchInv, AccountInRange
    <2>2. CountedInv'
      BY <1>1 DEF WatchInv, CountedInv
    <2>3. FlowInv'
      BY <1>1 DEF WatchInv, FlowInv, Crossed, ChargingTerms, DischargingTerms
    <2> QED
      BY <2>1, <2>2, <2>3
  <1>6. ObservationsInv'
    <2> SUFFICES ASSUME NEW o \in held'
                 PROVE  /\ ObservationInRange(o) /\ o.session <= account.session
                        /\ ~stale /\ o.session = account.session => DescribesCycle(o)'
      BY <1>1 DEF ObservationsInv
    <2>1. DescribesCycle(o)' <=> DescribesCycle(o)
      BY <1>1 DEF DescribesCycle
    <2>2. CASE o \in held
      BY <2>1, <2>2 DEF WatchInv, ObservationsInv
    <2>3. CASE o = ob
      <3>1. account.session <= account.session
        BY DEF WatchInv, AccountInRange
      <3> QED
        BY <2>1, <2>3, <3>1
    <2> QED
      BY <1>2, <2>2, <2>3
  <1>7. CapInv'
    <2>1. TotalEstimate' = TotalEstimate /\ LatestEstimate' = LatestEstimate
      BY <1>1 DEF TotalEstimate, LatestEstimate
    <2>2. EstimatesInRange'
      BY <1>1, <2>1 DEF WatchInv, CapInv, EstimatesInRange
    <2>3. PICK cap : Caps(cap)
      BY DEF WatchInv, CapInv
    <2>4. cap[ob.event - 1] + EstimateOf(ob) <= cap[ob.event]
      BY <2>3
    <2>5. \A o \in held' : o.session = account.session =>
                              cap[o.event - 1] + EstimateOf(o) <= cap[o.event]
      BY <1>2, <2>3, <2>4 DEF Caps
    <2>6. Monotone(cap)'
      BY <2>3 DEF Caps, Monotone
    <2>7. Caps(cap)'
      BY <1>1, <2>1, <2>3, <2>5, <2>6 DEF Caps
    <2> QED
      BY <2>2, <2>7 DEF CapInv
  <1> QED
    BY <1>3, <1>4, <1>5, <1>6, <1>7 DEF WatchInv

\* What both observers read: the cycle the BMS accepted last.
LEMMA LastCycle ==
    ASSUME WatchInv, checkpoint # NoCheckpoint, Observable(checkpoint),
           NEW c \in Counterparties, NEW k \in EvidenceKinds
    PROVE  LET t == BatteryTransfer(c, k)
               n == Len(accepted)
           IN  /\ report.updates = n /\ n \in Nat \ {0} /\ accepted[n] \in Sample
               /\ LastInterval = accepted[n].dt /\ LastInterval \in Nat
               /\ report.power = accepted[n].v * accepted[n].i
               /\ SignedEnergy = Work(accepted[n])
               /\ checkpoint.elapsed \in Int /\ report.time \in Int
               /\ t \in TransferType /\ Physical(t)
               /\ t.energy = Abs(Work(accepted[n]))
               /\ Work(accepted[n]) < 0 => t.destination = "Battery" /\ t.source = c
               /\ Work(accepted[n]) >= 0 => t.source = "Battery" /\ t.destination = c
  <1> DEFINE t == BatteryTransfer(c, k)
             n == Len(accepted)
  <1>1. accepted # <<>>
    BY DEF Observable, LastInterval
  <1>2. accepted \in Seq(Sample) /\ report.updates = n /\ report.time \in Int
    BY DEF WatchInv, CyclesInRange
  <1>3. n \in Nat \ {0} /\ accepted[n] \in Sample
    BY <1>1, <1>2
  <1>4. LastInterval = accepted[n].dt /\ LastInterval \in Nat
    BY <1>1, <1>3 DEF LastInterval, Sample
  <1>5. report.power = accepted[n].v * accepted[n].i
    BY <1>1 DEF WatchInv, CyclesInRange
  <1>6. SignedEnergy = Work(accepted[n])
    BY <1>4, <1>5 DEF SignedEnergy, Work
  <1>7. /\ Work(accepted[n]) \in Int
        /\ report.power < 0 <=> Work(accepted[n]) < 0
    BY <1>3, <1>5, WorkRange
  <1>8. checkpoint.elapsed \in Int
    BY DEF WatchInv, CallerInv
  <1>9. c \in PhysicalNodes /\ "Battery" \in PhysicalNodes
    BY ContinuityAssumption DEF PhysicalNodes
  <1>10. Abs(SignedEnergy) \in Int /\ Abs(SignedEnergy) = Abs(Work(accepted[n]))
    BY <1>6, <1>7 DEF Abs
  <1>11. ASSUME NEW x \in PhysicalNodes, NEW y \in PhysicalNodes
         PROVE  LET u == Transfer(1, x, y, Abs(SignedEnergy), k, "PhysicalTransfer")
                IN  /\ u \in TransferType /\ Physical(u) /\ u.energy = Abs(Work(accepted[n]))
                    /\ u.source = x /\ u.destination = y
    BY <1>2, <1>8, <1>10 DEF Transfer, TransferType, Physical
  <1>12. CASE report.power < 0
    <2>1. t = Transfer(1, c, "Battery", Abs(SignedEnergy), k, "PhysicalTransfer")
      BY <1>12 DEF BatteryTransfer
    <2>2. /\ t \in TransferType /\ Physical(t) /\ t.energy = Abs(Work(accepted[n]))
          /\ t.source = c /\ t.destination = "Battery"
      BY <1>9, <1>11, <2>1
    <2>3. ~(Work(accepted[n]) >= 0)
      BY <1>7, <1>12
    <2> HIDE DEF t
    <2> QED
      BY <1>2, <1>3, <1>4, <1>5, <1>6, <1>8, <2>2, <2>3 DEF t
  <1>13. CASE ~(report.power < 0)
    <2>1. t = Transfer(1, "Battery", c, Abs(SignedEnergy), k, "PhysicalTransfer")
      BY <1>13 DEF BatteryTransfer
    <2>2. /\ t \in TransferType /\ Physical(t) /\ t.energy = Abs(Work(accepted[n]))
          /\ t.source = "Battery" /\ t.destination = c
      BY <1>9, <1>11, <2>1
    <2>3. ~(Work(accepted[n]) < 0)
      BY <1>7, <1>13
    <2> HIDE DEF t
    <2> QED
      BY <1>2, <1>3, <1>4, <1>5, <1>6, <1>8, <2>2, <2>3 DEF t
  <1> QED
    BY <1>12, <1>13

LEMMA ObserveCycleWatches ==
    ASSUME WatchInv, NEW c \in Counterparties, NEW k \in Kinds, ObserveCycle(c, k)
    PROVE  WatchInv'
  <1> DEFINE t == BatteryTransfer(c, k)
             ob == Observation(<<t>>)
             n == Len(accepted)
  <1>1. /\ watched /\ checkpoint # NoCheckpoint /\ Observable(checkpoint)
        /\ Keep(ob)
    BY DEF ObserveCycle
  <1>2. ~stale /\ k \in EvidenceKinds
    BY <1>1, ContinuityAssumption DEF WatchInv, CallerInv
  <1>3. /\ report.updates = n /\ n \in Nat \ {0}
        /\ checkpoint.elapsed \in Int /\ report.time \in Int
        /\ t \in TransferType /\ Physical(t)
        /\ t.energy = Abs(Work(accepted[n]))
        /\ Work(accepted[n]) < 0 => t.destination = "Battery" /\ t.source = c
        /\ Work(accepted[n]) >= 0 => t.source = "Battery" /\ t.destination = c
    BY <1>1, <1>2, LastCycle
  <1>4. /\ ob.session = account.session /\ ob.event = n
        /\ ob.start = checkpoint.elapsed /\ ob.end = report.time
        /\ ob.transfers = <<t>>
    BY <1>3 DEF Observation
  <1> HIDE DEF t, ob
  <1>5. ob.transfers \in Seq(TransferType) /\ Len(ob.transfers) = 1 /\ ob.transfers[1] = t
    BY <1>3, <1>4
  <1>6. ObservationInRange(ob)
    BY <1>3, <1>4, <1>5 DEF ObservationInRange, WatchInv, AccountInRange
  <1>7. DescribesCycle(ob)
    BY <1>3, <1>4, <1>5 DEF DescribesCycle
  <1>8. ASSUME NEW cap, Caps(cap)
        PROVE  cap[ob.event - 1] + EstimateOf(ob) <= cap[ob.event]
    <2>1. EstimateOf(ob) = 0
      BY <1>5 DEF EstimateOf
    <2>2. n \in Nat /\ n - 1 \in Nat /\ n - 1 <= n
      BY <1>3
    <2>3. cap[n - 1] \in Nat /\ cap[n] \in Nat /\ cap[n - 1] <= cap[n]
      <3> HIDE DEF n
      <3> QED
        BY <1>8, <2>2 DEF Caps, Monotone
    <2> QED
      BY <1>4, <2>1, <2>3
  <1> QED
    BY <1>1, <1>2, <1>4, <1>6, <1>7, <1>8, KeepWatches

LEMMA ObserveRecoveryWatches ==
    ASSUME WatchInv, NEW c \in Counterparties, NEW k \in Kinds, ObserveRecovery(c, k)
    PROVE  WatchInv'
  <1> DEFINE t == BatteryTransfer(c, k)
             ob == Observation(<<t, MechanicalAvailable, ElectricalAvailable>>)
             n == Len(accepted)
  <1>1. /\ watched /\ checkpoint # NoCheckpoint /\ stepped # NoCheckpoint
        /\ Observable(checkpoint) /\ ResultIsCurrent /\ Keep(ob)
    BY DEF ObserveRecovery
  <1>2. ~stale /\ k \in EvidenceKinds
    BY <1>1, ContinuityAssumption DEF WatchInv, CallerInv
  <1>3. /\ report.updates = n /\ n \in Nat \ {0} /\ LastInterval \in Nat
        /\ checkpoint.elapsed \in Int /\ report.time \in Int
        /\ t \in TransferType /\ Physical(t)
        /\ t.energy = Abs(Work(accepted[n]))
        /\ Work(accepted[n]) < 0 => t.destination = "Battery" /\ t.source = c
        /\ Work(accepted[n]) >= 0 => t.source = "Battery" /\ t.destination = c
    BY <1>1, <1>2, LastCycle
  <1>4. diag.mechanical \in Nat /\ diag.electrical \in Nat
    BY <1>1 DEF WatchInv, CapInv, EstimatesInRange
  <1>5. diag.mechanical * LastInterval \in Int /\ diag.electrical * LastInterval \in Int
    <2>1. \A x, y \in Nat : x * y \in Int
      OBVIOUS
    <2> QED
      BY <1>3, <1>4, <2>1
  <1>6. /\ MechanicalAvailable \in TransferType /\ ~Physical(MechanicalAvailable)
        /\ MechanicalAvailable.kind = "Estimated"
        /\ MechanicalAvailable.energy = diag.mechanical * LastInterval
    BY <1>3, <1>5 DEF MechanicalAvailable, Transfer, TransferType, Physical,
                      PhysicalNodes, EvidenceKinds
  <1>7. /\ ElectricalAvailable \in TransferType /\ ~Physical(ElectricalAvailable)
        /\ ElectricalAvailable.kind = "Estimated"
        /\ ElectricalAvailable.energy = diag.electrical * LastInterval
    BY <1>3, <1>5 DEF ElectricalAvailable, Transfer, TransferType, Physical,
                      PhysicalNodes, EvidenceKinds
  <1>8. /\ ob.session = account.session /\ ob.event = n
        /\ ob.start = checkpoint.elapsed /\ ob.end = report.time
        /\ ob.transfers = <<t, MechanicalAvailable, ElectricalAvailable>>
    BY <1>3 DEF Observation
  <1> HIDE DEF t, ob
  <1>9. /\ ob.transfers \in Seq(TransferType) /\ Len(ob.transfers) = 3
        /\ ob.transfers[1] = t /\ ob.transfers[2] = MechanicalAvailable
        /\ ob.transfers[3] = ElectricalAvailable
    BY <1>3, <1>6, <1>7, <1>8
  <1>10. ObservationInRange(ob)
    BY <1>3, <1>6, <1>7, <1>8, <1>9 DEF ObservationInRange, WatchInv, AccountInRange
  <1>11. DescribesCycle(ob)
    BY <1>3, <1>8, <1>9 DEF DescribesCycle
  <1>12. EstimateOf(ob) = LatestEstimate /\ stepped.updates = n
    <2>1. EstimateOf(ob) = diag.mechanical * LastInterval + diag.electrical * LastInterval
      BY <1>6, <1>7, <1>9 DEF EstimateOf
    <2>2. stepped.dt = LastInterval /\ stepped.updates = n
      BY <1>1, <1>3 DEF ResultIsCurrent
    <2> QED
      BY <2>1, <2>2 DEF LatestEstimate
  <1>13. ASSUME NEW cap, Caps(cap)
         PROVE  cap[ob.event - 1] + EstimateOf(ob) <= cap[ob.event]
    BY <1>1, <1>2, <1>8, <1>12, <1>13 DEF Caps
  <1> QED
    BY <1>1, <1>2, <1>8, <1>10, <1>11, <1>13, KeepWatches

Crosses(o, f) == ~({o.transfers[1].source, o.transfers[1].destination} \subseteq f.boundary)
Count(o, f) == [event |-> o.event, crosses |-> Crosses(o, f)]

\* An accepted batch brings in what its cycle charged, or takes out what it
\* discharged, when the cycle crossed the boundary, and nothing when it did not.
LEMMA CycleFlows ==
    ASSUME WatchInv, ~stale, NEW o \in held, NEW f \in Frames, Acceptable(Batch(o, f))
    PROVE  LET r == accepted[o.event]
           IN  /\ o.event \in 1..Len(accepted) /\ r \in Sample
               /\ Flux(Batch(o, f)).inbound = IF Crosses(o, f) THEN ChargingOf(r) ELSE 0
               /\ Flux(Batch(o, f)).outbound = IF Crosses(o, f) THEN DischargingOf(r) ELSE 0
  <1> DEFINE b == Batch(o, f)
             t == o.transfers[1]
             r == accepted[o.event]
             w == Work(r)
  <1>1. ObservationInRange(o) /\ (o.session = account.session => DescribesCycle(o))
    BY DEF WatchInv, ObservationsInv
  <1>2. /\ b.session = o.session /\ "Battery" \in b.boundary /\ "ThermalSink" \notin b.boundary
        /\ b.boundary = f.boundary
    BY <1>1, BatchIsHeated
  <1>3. o.session = account.session
    BY <1>2 DEF Acceptable, Admissible
  <1>4. /\ t.energy \in Int
        /\ Flux(b).inbound = IF Enters(t, b) THEN t.energy ELSE 0
        /\ Flux(b).outbound = IF Leaves(t, b) /\ t.destination # "ThermalSink"
                              THEN t.energy ELSE 0
    BY <1>1, BatchAdds
  <1>5. accepted \in Seq(Sample) /\ Len(accepted) \in Nat
    BY DEF WatchInv, CyclesInRange
  <1>6. o.event \in 1..Len(accepted) /\ r \in Sample
    BY <1>1, <1>3, <1>5 DEF ObservationInRange, DescribesCycle
  <1>7. /\ t.energy = Abs(w)
        /\ w < 0 => t.destination = "Battery" /\ t.source \in Counterparties
        /\ w >= 0 => t.source = "Battery" /\ t.destination \in Counterparties
    BY <1>1, <1>3 DEF DescribesCycle
  <1>8. w \in Int
    BY <1>6, WorkRange
  <1>9. ChargingOf(r) = Charging(w) /\ DischargingOf(r) = Charging(-w)
    BY DEF ChargingOf, DischargingOf, Work
  <1>10. "ThermalSink" \notin Counterparties
    BY ContinuityAssumption
  <1>11. Crosses(o, f) <=> ~(t.source \in b.boundary /\ t.destination \in b.boundary)
    BY <1>2 DEF Crosses
  <1> HIDE DEF b, t, w, r
  <1>12. CASE w < 0
    <2>1. t.destination = "Battery" /\ t.source \in Counterparties
      BY <1>7, <1>12
    <2>2. (Enters(t, b) <=> Crosses(o, f)) /\ ~Leaves(t, b)
      BY <1>2, <1>11, <2>1 DEF Enters, Leaves, Inside
    <2>3. Charging(w) = Abs(w) /\ Charging(-w) = 0
      BY <1>8, <1>12 DEF Charging, Abs
    <2>4. /\ Flux(b).inbound = IF Crosses(o, f) THEN ChargingOf(r) ELSE 0
          /\ Flux(b).outbound = IF Crosses(o, f) THEN DischargingOf(r) ELSE 0
      BY <1>4, <1>7, <1>9, <2>2, <2>3
    <2> QED
      BY <1>6, <2>4 DEF b, r
  <1>13. CASE w >= 0
    <2>1. t.source = "Battery" /\ t.destination \in Counterparties
      BY <1>7, <1>13
    <2>2. ~Enters(t, b) /\ (Leaves(t, b) <=> Crosses(o, f)) /\ t.destination # "ThermalSink"
      BY <1>2, <1>10, <1>11, <2>1 DEF Enters, Leaves, Inside
    <2>3. Charging(w) = 0 /\ Charging(-w) = Abs(w)
      BY <1>8, <1>13 DEF Charging, Abs
    <2>4. /\ Flux(b).inbound = IF Crosses(o, f) THEN ChargingOf(r) ELSE 0
          /\ Flux(b).outbound = IF Crosses(o, f) THEN DischargingOf(r) ELSE 0
      BY <1>4, <1>7, <1>9, <2>2, <2>3
    <2> QED
      BY <1>6, <2>4 DEF b, r
  <1> QED
    BY <1>8, <1>12, <1>13

\* The event of an accepted batch is newer than all that were counted.
LEMMA CountedFresh ==
    ASSUME WatchInv, NEW o \in held, NEW f \in Frames, Acceptable(Batch(o, f))
    PROVE  /\ o.session = account.session
           /\ o.event \in Nat \ {0} /\ o.event > account.lastEvent
           /\ \A c \in counted : c.event # o.event /\ c.event <= o.event
           /\ Count(o, f) \notin counted
  <1>1. ObservationInRange(o)
    BY DEF WatchInv, ObservationsInv
  <1>2. Batch(o, f).session = o.session /\ Batch(o, f).event = o.event
    BY DEF Batch
  <1>3. o.session = account.session /\ o.event > account.lastEvent
    BY <1>2 DEF Acceptable, Admissible
  <1>4. account.lastEvent \in Nat /\ o.event \in Nat \ {0}
    BY <1>1 DEF WatchInv, AccountInRange, ObservationInRange
  <1>5. \A c \in counted : c.event \in Nat \ {0} /\ c.event <= account.lastEvent
    BY DEF WatchInv, CountedInv
  <1>6. \A c \in counted : c.event # o.event /\ c.event <= o.event
    BY <1>3, <1>4, <1>5
  <1>7. Count(o, f) \notin counted
    BY <1>6 DEF Count
  <1> QED
    BY <1>3, <1>4, <1>6, <1>7

LEMMA HandInWatches ==
    ASSUME WatchInv, NEW o \in held, NEW f \in Frames, HandIn(o, f)
    PROVE  WatchInv'
  <1> DEFINE b == Batch(o, f)
             new == Count(o, f)
  <1>1. UNCHANGED <<watched, checkpoint, stepped, held, stale, diag, report, ledger, accepted>>
    BY DEF HandIn, vars, bms, coordinator
  <1>2. CyclesInRange'
    BY <1>1 DEF WatchInv, CyclesInRange
  <1>3. watched
    BY DEF WatchInv, CallerInv
  <1>4. CallerInv'
    BY <1>1, <1>3 DEF WatchInv, CallerInv
  <1>5. CASE ~Acceptable(b)
    <2>1. UNCHANGED <<account, counted>>
      BY <1>5 DEF HandIn, Reconcile
    <2>2. Grows
      BY <1>1, SameGrows DEF WatchInv
    <2>3. AccountInRange' /\ ObservationsInv' /\ CountedInv' /\ FlowInv'
      BY <1>1, <1>2, <2>1, <2>2, GrowthKeeps
    <2>4. CapInv'
      BY <1>1, <2>1, CapsKept
    <2> QED
      BY <1>2, <1>4, <2>3, <2>4 DEF WatchInv
  <1>6. CASE Acceptable(b)
    <2>1. account' = CandidateAccount(b)
      BY <1>6 DEF HandIn, Reconcile
    <2>2. counted' = counted \cup {new}
      BY <1>6 DEF HandIn, Count, Crosses, Batch
    <2>3. ObservationInRange(o) /\ b.event = o.event
      BY DEF WatchInv, ObservationsInv, Batch
    <2>4. /\ o.session = account.session /\ o.event \in Nat \ {0}
          /\ o.event > account.lastEvent
          /\ \A c \in counted : c.event # o.event /\ c.event <= o.event
          /\ new \notin counted
      BY <1>6, CountedFresh
    <2>5. /\ EstimateOf(o) \in Int
          /\ Available(b, "Estimated") = EstimateOf(o)
          /\ Flux(b).inbound \in Int /\ Flux(b).outbound \in Int
      BY <1>6, <2>3, BatchAdds
    <2>6. AccountInRange
      BY DEF WatchInv
    <2>7. /\ DOMAIN account' = AccountFields /\ account' = [a \in AccountFields |-> account'[a]]
          /\ account'.session = account.session /\ account'.lastEvent = o.event
          /\ account'.events = account.events + 1
          /\ account'.inbound = account.inbound + Flux(b).inbound
          /\ account'.outbound = account.outbound + Flux(b).outbound
          /\ DOMAIN account'.available = EvidenceKinds
          /\ account'.available["Estimated"] =
               account.available["Estimated"] + EstimateOf(o)
      BY <2>1, <2>3, <2>5, <2>6, CommitAdds
    <2> HIDE DEF b, new
    <2>8. AccountInRange'
      BY <2>4, <2>5, <2>6, <2>7 DEF AccountInRange
    <2>9. ObservationsInv'
      <3>1. \A p \in held : DescribesCycle(p)' <=> DescribesCycle(p)
        BY <1>1 DEF DescribesCycle
      <3> QED
        BY <1>1, <2>7, <3>1 DEF WatchInv, ObservationsInv
    <2>10. CountedInv'
      <3>1. IsFiniteSet(counted) /\ account.events = Cardinality(counted)
        BY DEF WatchInv, CountedInv
      <3>2. IsFiniteSet(counted') /\ Cardinality(counted') = Cardinality(counted) + 1
        BY <2>2, <2>4, <3>1, FS_AddElement
      <3>3. new.event = o.event /\ new.crosses \in BOOLEAN
        BY DEF new, Count, Crosses
      <3>4. \A c \in counted : c.event \in Nat \ {0} /\ c.crosses \in BOOLEAN
        BY DEF WatchInv, CountedInv
      <3>5. \A c \in counted' : /\ c.event \in Nat \ {0} /\ c.event <= account'.lastEvent
                                /\ c.crosses \in BOOLEAN
        <4>1. o.event <= o.event
          BY <2>4
        <4>2. \A c \in counted' : c \in counted \/ c = new
          BY <2>2
        <4> QED
          BY <2>4, <2>7, <3>3, <3>4, <4>1, <4>2
      <3>6. ~stale => o.event <= Len(accepted)
        BY <2>4 DEF WatchInv, ObservationsInv, DescribesCycle
      <3> QED
        BY <1>1, <2>7, <3>1, <3>2, <3>5, <3>6 DEF CountedInv
    <2>11. FlowInv'
      <3> SUFFICES ASSUME ~stale
                   PROVE  /\ IsSum(account'.inbound, ChargingTerms(Crossed)', Crossed')
                          /\ IsSum(account'.outbound, DischargingTerms(Crossed)', Crossed')
        BY <1>1 DEF FlowInv
      <3> DEFINE r == accepted[o.event]
      <3>1. /\ IsFiniteSet(Crossed)
            /\ ChargingTerms(Crossed) \in [Crossed -> Int]
            /\ DischargingTerms(Crossed) \in [Crossed -> Int]
        BY TermsRange DEF WatchInv
      <3>2. /\ IsSum(account.inbound, ChargingTerms(Crossed), Crossed)
            /\ IsSum(account.outbound, DischargingTerms(Crossed), Crossed)
        BY DEF WatchInv, FlowInv
      <3>3. /\ r \in Sample
            /\ Flux(b).inbound = IF Crosses(o, f) THEN ChargingOf(r) ELSE 0
            /\ Flux(b).outbound = IF Crosses(o, f) THEN DischargingOf(r) ELSE 0
        BY <1>6, CycleFlows DEF b
      <3>4. ChargingOf(r) \in Int /\ DischargingOf(r) \in Int
        BY <3>3, WorkRange
      <3>5. new.event = o.event /\ new.crosses = Crosses(o, f)
        BY DEF new, Count
      <3>6. new \notin Crossed
        BY <2>4 DEF Crossed
      <3>7. CASE Crosses(o, f)
        <4>1. Crossed' = Crossed \cup {new}
          BY <2>2, <3>5, <3>7 DEF Crossed
        <4>2. account'.inbound = account.inbound + ChargingOf(r)
          BY <2>7, <3>3, <3>7
        <4>3. account'.outbound = account.outbound + DischargingOf(r)
          BY <2>7, <3>3, <3>7
        <4> DEFINE more == Crossed \cup {new}
        <4>4. IsSum(account.inbound + ChargingOf(r),
                    [c \in more |-> IF c = new THEN ChargingOf(r)
                                    ELSE ChargingTerms(Crossed)[c]], more)
          BY <3>1, <3>2, <3>4, <3>6, SumAdds
        <4>5. IsSum(account.outbound + DischargingOf(r),
                    [c \in more |-> IF c = new THEN DischargingOf(r)
                                    ELSE DischargingTerms(Crossed)[c]], more)
          BY <3>1, <3>2, <3>4, <3>6, SumAdds
        <4>6. ChargingTerms(Crossed)' =
                [c \in more |-> IF c = new THEN ChargingOf(r) ELSE ChargingTerms(Crossed)[c]]
          BY <1>1, <3>5, <4>1 DEF ChargingTerms
        <4>7. DischargingTerms(Crossed)' =
                [c \in more |-> IF c = new THEN DischargingOf(r)
                                ELSE DischargingTerms(Crossed)[c]]
          BY <1>1, <3>5, <4>1 DEF DischargingTerms
        <4> HIDE DEF r
        <4> QED
          BY <4>1, <4>2, <4>3, <4>4, <4>5, <4>6, <4>7
      <3>8. CASE ~Crosses(o, f)
        <4>1. Crossed' = Crossed
          BY <2>2, <3>5, <3>8 DEF Crossed
        <4>2. account'.inbound = account.inbound /\ account'.outbound = account.outbound
          BY <2>6, <2>7, <3>3, <3>8 DEF AccountInRange
        <4>3. /\ ChargingTerms(Crossed)' = ChargingTerms(Crossed)
              /\ DischargingTerms(Crossed)' = DischargingTerms(Crossed)
          BY <1>1, <4>1 DEF ChargingTerms, DischargingTerms
        <4> QED
          BY <3>2, <4>1, <4>2, <4>3
      <3> QED
        BY <3>7, <3>8
    <2>12. CapInv'
      <3>1. TotalEstimate' = TotalEstimate /\ LatestEstimate' = LatestEstimate
        BY <1>1 DEF TotalEstimate, LatestEstimate
      <3>2. EstimatesInRange'
        BY <1>1, <3>1 DEF WatchInv, CapInv, EstimatesInRange
      <3>3. PICK cap : Caps(cap)
        BY DEF WatchInv, CapInv
      <3>4. Monotone(cap)'
        BY <3>3 DEF Caps, Monotone
      <3>5. account'.available["Estimated"] <= cap[account'.lastEvent]
        <4>1. account.available["Estimated"] <= cap[account.lastEvent]
          BY <3>3 DEF Caps
        <4>2. cap[o.event - 1] + EstimateOf(o) <= cap[o.event]
          BY <2>4, <3>3 DEF Caps
        <4>3. /\ account.lastEvent \in Nat /\ o.event - 1 \in Nat
              /\ account.lastEvent <= o.event - 1
          BY <2>4, <2>6 DEF AccountInRange
        <4>4. cap[account.lastEvent] <= cap[o.event - 1]
          BY <3>3, <4>3 DEF Caps, Monotone
        <4>5. /\ cap[account.lastEvent] \in Nat /\ cap[o.event - 1] \in Nat
              /\ cap[o.event] \in Nat
          BY <2>4, <3>3, <4>3 DEF Caps
        <4>6. account.available["Estimated"] \in Int
          BY <2>6 DEF AccountInRange
        <4>7. account.available["Estimated"] + EstimateOf(o) <= cap[o.event]
          BY <2>5, <4>1, <4>2, <4>4, <4>5, <4>6
        <4> QED
          BY <2>7, <4>7
      <3>6. Caps(cap)'
        BY <1>1, <2>7, <3>1, <3>3, <3>4, <3>5 DEF Caps
      <3> QED
        BY <3>2, <3>6 DEF CapInv
    <2> QED
      BY <1>2, <1>4, <2>8, <2>9, <2>10, <2>11, <2>12 DEF WatchInv
  <1> QED
    BY <1>5, <1>6

LEMMA InitWatches ==
    ASSUME ObservedInit
    PROVE  WatchInv
  <1>1. /\ account = EmptyAccount(1) /\ held = {} /\ counted = {} /\ stale = FALSE
        /\ checkpoint = NoCheckpoint /\ stepped = NoCheckpoint /\ watched \in BOOLEAN
        /\ diag = FreshDiag
    BY DEF ObservedInit, LedgerInit, Init
  <1>2. CyclesInRange
    <2>1. accepted = <<>> /\ ledger = BMS!ZeroLedger /\ report = BMS!FreshReport
      BY DEF ObservedInit, Init, BMS!Init
    <2> QED
      BY <2>1 DEF CyclesInRange, BMS!ZeroLedger, BMS!FreshReport
  <1>3. CallerInv
    BY <1>1 DEF CallerInv
  <1>4. AccountInRange
    BY <1>1 DEF AccountInRange, EmptyAccount, AccountFields, EvidenceKinds
  <1>5. /\ account.lastEvent = 0 /\ account.events = 0 /\ account.inbound = 0
        /\ account.outbound = 0 /\ account.available["Estimated"] = 0
    BY <1>1 DEF EmptyAccount, EvidenceKinds
  <1>6. ObservationsInv
    BY <1>1 DEF ObservationsInv
  <1>7. CountedInv
    <2>1. IsFiniteSet({}) /\ Cardinality({}) = 0
      BY FS_EmptySet
    <2>2. Len(accepted) \in Nat
      BY <1>2 DEF CyclesInRange
    <2> QED
      BY <1>1, <1>5, <2>1, <2>2 DEF CountedInv
  <1>8. FlowInv
    <2>1. Crossed = {}
      BY <1>1 DEF Crossed
    <2>2. \A f : IsSum(0, f, {})
      BY NothingSums
    <2> QED
      BY <1>5, <2>1, <2>2 DEF FlowInv
  <1>9. CapInv
    <2>1. TotalEstimate = 0
      BY <1>1 DEF TotalEstimate, FreshDiag, NoEnergy
    <2>2. EstimatesInRange
      BY <1>1, <2>1 DEF EstimatesInRange
    <2>3. PICK cap : cap = [e \in Nat |-> 0]
      OBVIOUS
    <2>4. cap \in [Nat -> Nat] /\ \A e \in Nat : cap[e] = 0
      BY <2>3
    <2>5. Caps(cap)
      BY <1>1, <1>5, <2>1, <2>4 DEF Caps, Monotone
    <2> QED
      BY <2>2, <2>5 DEF CapInv
  <1> QED
    BY <1>2, <1>3, <1>4, <1>6, <1>7, <1>8, <1>9 DEF WatchInv

LEMMA NextWatches ==
    ASSUME IInv, WatchInv, [ObservedNext]_allVars
    PROVE  WatchInv'
  <1>1. CASE Step
    BY <1>1, StepWatches
  <1>2. CASE Elsewhere
    BY <1>2, ElsewhereWatches
  <1>3. CASE Reinitialise
    BY <1>3, ReinitialiseWatches
  <1>4. CASE OpenSession
    BY <1>4, OpenWatches
  <1>5. CASE Capture
    BY <1>5, CaptureWatches
  <1>6. CASE \E c \in Counterparties, k \in Kinds : ObserveCycle(c, k) \/ ObserveRecovery(c, k)
    BY <1>6, ObserveCycleWatches, ObserveRecoveryWatches
  <1>7. CASE \E o \in held, f \in Frames : HandIn(o, f)
    BY <1>7, HandInWatches
  <1>8. CASE UNCHANGED allVars
    <2>1. UNCHANGED <<account, watched, checkpoint, stepped, held, stale, counted, diag,
                      report, ledger, accepted>>
      BY <1>8 DEF allVars, observer, vars, bms, coordinator
    <2>2. CyclesInRange'
      BY <2>1 DEF WatchInv, CyclesInRange
    <2>3. Grows
      BY <2>1, SameGrows DEF WatchInv
    <2>4. AccountInRange' /\ ObservationsInv' /\ CountedInv' /\ FlowInv'
      BY <2>1, <2>2, <2>3, GrowthKeeps
    <2>5. CapInv'
      BY <2>1, CapsKept
    <2>6. CallerInv'
      BY <2>1 DEF WatchInv, CallerInv
    <2> QED
      BY <2>2, <2>4, <2>5, <2>6 DEF WatchInv
  <1> QED
    BY <1>1, <1>2, <1>3, <1>4, <1>5, <1>6, <1>7, <1>8 DEF ObservedNext

\* The sums of the invariant are the sums of the property.
LEMMA WatchedIsCounted ==
    ASSUME WatchInv
    PROVE  EachCycleCountedOnce
  <1>1. account.events = Cardinality(counted)
    BY DEF WatchInv, CountedInv
  <1>2. ASSUME ~stale
        PROVE  /\ account.inbound = Crossing(LAMBDA r : Charging(r.v * r.i * r.dt))
               /\ account.outbound = Crossing(LAMBDA r : Charging(-(r.v * r.i * r.dt)))
    <2>1. /\ IsFiniteSet(Crossed)
          /\ \A c \in Crossed : c.event \in 1..Len(accepted)
      BY <1>2, TermsRange DEF WatchInv
    <2>2. accepted \in Seq(Sample)
      BY DEF WatchInv, CyclesInRange
    <2>3. \A c \in Crossed : /\ ChargingOf(accepted[c.event]) \in Int
                             /\ DischargingOf(accepted[c.event]) \in Int
      <3>1. \A c \in Crossed : accepted[c.event] \in Sample
        BY <2>1, <2>2
      <3> QED
        BY <3>1, WorkRange
    <2>4. IsSum(Inflow(accepted, Crossed), ChargingTerms(Crossed), Crossed)
      BY <2>1, <2>3, InflowIsSum DEF ChargingTerms
    <2>5. IsSum(Outflow(accepted, Crossed), DischargingTerms(Crossed), Crossed)
      BY <2>1, <2>3, OutflowIsSum DEF DischargingTerms
    <2>6. /\ IsSum(account.inbound, ChargingTerms(Crossed), Crossed)
          /\ IsSum(account.outbound, DischargingTerms(Crossed), Crossed)
      BY <1>2 DEF WatchInv, FlowInv
    <2>7. account.inbound = Inflow(accepted, Crossed)
      BY <2>1, <2>4, <2>6, SumIsUnique
    <2>8. account.outbound = Outflow(accepted, Crossed)
      BY <2>1, <2>5, <2>6, SumIsUnique
    <2>9. Inflow(accepted, Crossed) = Crossing(LAMBDA r : Charging(r.v * r.i * r.dt))
      BY Zenon DEF Inflow, Crossing, Crossed, ChargingOf
    <2>10. Outflow(accepted, Crossed) = Crossing(LAMBDA r : Charging(-(r.v * r.i * r.dt)))
      BY Zenon DEF Outflow, Crossing, Crossed, DischargingOf
    <2>11. account.inbound = Crossing(LAMBDA r : Charging(r.v * r.i * r.dt))
      BY <2>7, <2>9, Zenon
    <2>12. account.outbound = Crossing(LAMBDA r : Charging(-(r.v * r.i * r.dt)))
      BY <2>8, <2>10, Zenon
    <2> QED
      BY <2>11, <2>12, Zenon
  <1> QED
    BY <1>1, <1>2, Zenon DEF EachCycleCountedOnce

LEMMA CapsBound ==
    ASSUME WatchInv
    PROVE  EstimatesWithinCoordinator
  <1>1. PICK cap : Caps(cap)
    BY DEF WatchInv, CapInv
  <1>2. account.lastEvent \in Nat /\ account.available["Estimated"] \in Int
    BY DEF WatchInv, AccountInRange
  <1>3. /\ cap[account.lastEvent] \in Nat /\ cap[account.lastEvent] <= TotalEstimate
        /\ account.available["Estimated"] <= cap[account.lastEvent]
    BY <1>1, <1>2 DEF Caps
  <1>4. TotalEstimate \in Nat
    BY DEF WatchInv, CapInv, EstimatesInRange
  <1>5. account.available["Estimated"] <= TotalEstimate
    BY <1>2, <1>3, <1>4
  <1> QED
    BY <1>5 DEF EstimatesWithinCoordinator, TotalEstimate

LEMMA ObservedWatches == ObservedSpec => [](IInv /\ WatchInv)
  <1>1. ObservedInit => IInv /\ WatchInv
    BY InitIInv, InitWatches DEF ObservedInit
  <1>2. IInv /\ WatchInv /\ [ObservedNext]_allVars => (IInv /\ WatchInv)'
    BY NextIInv, ObservedStep, NextWatches
  <1> QED
    BY <1>1, <1>2, PTL DEF ObservedSpec

\* The ledger counts each accepted cycle at most once and nothing else,
\* whatever was observed twice, handed in late or refused.
THEOREM CountedOnceCorrect == ObservedSpec => []EachCycleCountedOnce
  BY ObservedWatches, WatchedIsCounted, PTL

\* What the ledger reports as available is never more than the coordinator
\* ever estimated.
THEOREM EstimatesCorrect == ObservedSpec => []EstimatesWithinCoordinator
  BY ObservedWatches, CapsBound, PTL
=============================================================================
