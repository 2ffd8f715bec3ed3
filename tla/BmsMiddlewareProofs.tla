------------------------ MODULE BmsMiddlewareProofs ------------------------
(***************************************************************************)
(* What holds of the BMS middleware for every set of configurations and    *)
(* readings: its members stay in range, model, filter, ledger and          *)
(* diagnostics have accepted the same cycles, the safety flags describe    *)
(* the latest attempt, and the ledger implements the abstract energy       *)
(* account.                                                                *)
(***************************************************************************)
EXTENDS BmsMiddleware, WellFoundedInduction, TLAPS

\* A product of naturals is a natural; energies and wear are such products.
LEMMA ProductIsNat ==
    ASSUME NEW a \in Nat, NEW b \in Nat
    PROVE  a * b \in Nat
  BY SMT

\* What EnhanceSucceeds promises of the sensors of an accepted reading.
LEMMA SensorsFinite ==
    ASSUME NEW r \in Reading, ValidSensors(r)
    PROVE  /\ r.v \in Finite /\ r.i \in Finite /\ r.t \in Finite
           /\ r.soc \in Finite /\ r.dt \in Finite
           /\ r.v > 0 /\ r.dt > 0
  BY DEF ValidSensors, IsFinite, Reading

StateType ==
    [v : 0..MaxFinite, i : Finite, t : Finite, soc : 0..SocFull,
     entropy : 0..Saturation, degradation : 0..Saturation,
     throughput : 0..MaxFinite, time : 0..MaxFinite]

\* A valid model configuration has integer limits, the current limit positive.
LEMMA DsConfigFinite ==
    ASSUME NEW c \in DsConfigType, ValidDsConfig(c)
    PROVE  /\ c.maxTemp \in Int /\ c.minTemp \in Int /\ c.maxCurrent \in Int
           /\ c.maxTemp \in Finite /\ c.minTemp \in Finite /\ c.maxCurrent \in Finite
           /\ c.minTemp < c.maxTemp /\ c.maxCurrent > 0
           /\ c.tauMin \in Finite /\ c.tauMin > 0
  BY DoublesAssumption DEF ValidDsConfig, IsFinite, Finite, DsConfigType

\* DSEnhancement::enhance normalises an accepted reading into the ranges the
\* model is defined on.
LEMMA NormalisedRange ==
    ASSUME NEW c \in DsConfigType, ValidDsConfig(c),
           NEW r \in Reading, ValidSensors(r)
    PROVE  LET n == Normalised(c, r)
           IN  /\ n.v = r.v /\ n.dt = r.dt
               /\ n.i \in Finite /\ n.t \in Finite /\ n.soc \in 0..SocFull
  <1> DEFINE n == Normalised(c, r)
  <1>1. /\ n.v = r.v /\ n.dt = r.dt
        /\ n.i = Clamp(r.i, -c.maxCurrent, c.maxCurrent)
        /\ n.t = Clamp(r.t, c.minTemp, c.maxTemp)
        /\ n.soc = Clamp(r.soc, 0, SocFull)
    BY DEF Normalised, Reading
  <1>2. /\ r.i \in Int /\ r.t \in Int /\ r.soc \in Int
        /\ SocFull \in Int /\ SocFull > 0 /\ SocFull <= MaxFinite
        /\ MaxFinite \in Nat
    BY SensorsFinite, DoublesAssumption, DsModelAssumption DEF Finite
  <1>3. /\ c.maxTemp \in Int /\ c.minTemp \in Int /\ c.maxCurrent \in Int
        /\ c.minTemp < c.maxTemp /\ c.maxCurrent > 0
        /\ c.maxTemp \in Finite /\ c.minTemp \in Finite /\ c.maxCurrent \in Finite
    BY DsConfigFinite
  <1>4. n.i \in Finite
    BY <1>1, <1>2, <1>3 DEF Clamp, Finite
  <1>5. n.t \in Finite
    BY <1>1, <1>2, <1>3 DEF Clamp, Finite
  <1>6. n.soc \in 0..SocFull
    BY <1>1, <1>2 DEF Clamp
  <1>7. QED
    BY <1>1, <1>4, <1>5, <1>6

\* DSCoupling::update publishes a valid DSState and advances its clock by dt.
LEMMA UpdatedStateValid ==
    ASSUME NEW c \in DsConfigType, ValidDsConfig(c),
           NEW cc, cc.state \in StateType,
           NEW r \in Reading, EnhanceSucceeds(c, cc, r)
    PROVE  /\ Enhanced(c, cc, r).state \in StateType
           /\ Enhanced(c, cc, r).state.time = cc.state.time + r.dt
           /\ Enhanced(c, cc, r).state.soc = Clamp(r.soc, 0, SocFull)
  <1> DEFINE n == Normalised(c, r)
             s == cc.state
  <1>1. /\ n.v = r.v /\ n.dt = r.dt
        /\ n.i \in Finite /\ n.t \in Finite /\ n.soc \in 0..SocFull
        /\ n.v \in 1..MaxFinite /\ n.dt \in 1..MaxFinite
    BY NormalisedRange, SensorsFinite, DoublesAssumption DEF EnhanceSucceeds, Finite
  <1>2. /\ Abs(n.i) \in Nat /\ ThermalStress(n) \in Nat
    BY <1>1, DoublesAssumption, DsModelAssumption DEF Abs, ThermalStress, AtLeast, Finite
  <1>3. /\ Abs(n.i) * n.dt \in Nat
        /\ ThermalStress(n) * n.dt \in Nat
        /\ n.dt * (ThermalStress(n) + Abs(n.i)) \in Nat
    <2>1. n.dt \in Nat /\ ThermalStress(n) + Abs(n.i) \in Nat
      BY <1>1, <1>2
    <2>2. QED
      BY <1>2, <2>1, ProductIsNat
  <1>4. /\ RawEntropy(s, n) \in Nat
        /\ RawThroughput(s, n) \in Nat
        /\ RawDegradation(s, n) \in Nat
    BY <1>3, DoublesAssumption, DsModelAssumption
    DEF RawEntropy, RawThroughput, RawDegradation, StateType, Finite
  <1>5. /\ RawThroughput(s, n) \in 0..MaxFinite
        /\ s.time + n.dt \in 0..MaxFinite
    BY <1>1, <1>4 DEF EnhanceSucceeds, UpdateSucceeds, IsFinite, Finite, StateType
  <1>6. /\ AtMost(RawEntropy(s, n), Saturation) \in 0..Saturation
        /\ AtMost(RawDegradation(s, n), Saturation) \in 0..Saturation
    BY <1>4, DsModelAssumption DEF AtMost, Finite
  <1>7. UpdatedState(s, n) \in StateType
    BY <1>1, <1>5, <1>6, DoublesAssumption DEF UpdatedState, StateType
  <1>8. /\ UpdatedState(s, n).time = s.time + r.dt
        /\ UpdatedState(s, n).soc = Clamp(r.soc, 0, SocFull)
    BY <1>1 DEF UpdatedState, Normalised, Reading
  <1>9. QED
    BY <1>7, <1>8 DEF Enhanced

-----------------------------------------------------------------------------
(***************************************************************************)
(* The inductive invariant.  Type correctness alone is not inductive: that *)
(* the age of the filter and the time of the report stay finite is only    *)
(* known because they equal the ledger's time, which the accounting checks *)
(* before every acceptance.                                                *)
(***************************************************************************)
IInv == TypeOK /\ AcceptedTogether

FlagsType == [fault : BOOLEAN, soc : BOOLEAN, lowTemp : BOOLEAN,
              thermal : BOOLEAN, voltage : BOOLEAN]

\* observe_safety computes flags from a reading and the flags before.
LEMMA ObservedFlagsType ==
    ASSUME flags \in FlagsType, NEW c \in ConfigType, NEW r, NEW t
    PROVE  ObservedFlags(c, r, t) \in FlagsType
  <1>1. /\ flags.fault \in BOOLEAN /\ flags.soc \in BOOLEAN
        /\ flags.lowTemp \in BOOLEAN
    BY DEF FlagsType
  <1>2. QED
    BY <1>1 DEF ObservedFlags, FlagsType, Above, Below

\* init(capacity, voltage) keeps the other fields of the configuration.
LEMMA SimpleConfigType ==
    ASSUME config \in ConfigType, NEW a \in Double, NEW b \in Double
    PROVE  SimpleConfig(a, b) \in ConfigType
  <1> DEFINE ds == [config.ds EXCEPT !.capacity = a, !.voltage = b]
  <1>1. ds \in DsConfigType
    BY DEF ConfigType, DsConfigType
  <1>2. SimpleConfig(a, b) = [config EXCEPT !.mode = "SIMPLE", !.kalman = FALSE,
                                !.capacity = a, !.voltage = b, !.ds = ds]
    BY DEF SimpleConfig
  <1>3. "SIMPLE" \in Modes
    BY DEF Modes
  <1> HIDE DEF ds
  <1>4. QED
    BY <1>1, <1>2, <1>3 DEF ConfigType

\* The members every fresh object starts with are in range and agree.
LEMMA FreshMembers ==
    /\ FreshCore.state \in StateType
    /\ FreshCore.history \in Seq(Finite)
    /\ FreshReport \in
           [soc : 0..SocFull, soh : 0..Saturation, power : Finite,
            throughput : 0..MaxFinite, time : 0..MaxFinite, updates : 0..MaxInt,
            cells : Nat, maxCellTemp : {0, RoomTemp}, degradationWarning : BOOLEAN]
    /\ ZeroLedger \in [in : 0..MaxFinite, out : 0..MaxFinite,
                       time : 0..MaxFinite, ms : 0..MaxFinite, updates : 0..MaxInt]
    /\ NoFlags \in FlagsType
    /\ [soc |-> SocFull, age |-> 0] \in [soc : 0..SocFull, age : 0..MaxFinite]
  <1>1. /\ 0 \in 0..MaxFinite /\ 0 \in Finite /\ RoomTemp \in Finite
        /\ SocFull \in 0..SocFull /\ 0 \in 0..SocFull
        /\ Saturation \in 0..Saturation /\ 0 \in 0..Saturation
        /\ 0 \in 0..MaxInt /\ 1 \in Nat
    BY DoublesAssumption, DsModelAssumption, BmsAssumption DEF Finite
  <1>2. FreshCore.state \in StateType
    BY <1>1 DEF FreshCore, FreshState, StateType
  <1>3. FreshCore.history \in Seq(Finite)
    BY DEF FreshCore
  <1>4. QED
    BY <1>1, <1>2, <1>3 DEF FreshReport, ZeroLedger, NoFlags, FlagsType

LEMMA FreshAgree ==
    /\ FreshCore.state.time = 0 /\ ZeroLedger.time = 0 /\ FreshReport.time = 0
    /\ FreshReport.updates = ZeroLedger.updates
    /\ FreshReport.throughput = ZeroLedger.in + ZeroLedger.out
    /\ FreshReport.soc = FreshCore.state.soc
    /\ FreshReport.soh = Saturation - FreshCore.state.degradation
    /\ ZeroLedger.ms = ZeroLedger.time * MsPerSecond
  BY DsModelAssumption, BmsAssumption
  DEF FreshCore, FreshState, ZeroLedger, FreshReport, Finite

LEMMA InitIInv == Init => IInv
  <1> SUFFICES ASSUME Init PROVE IInv
    OBVIOUS
  <1>1. config \in ConfigType /\ initialized = FALSE
    BY BmsAssumption DEF Init
  <1>2. /\ filter \in [soc : 0..SocFull, age : 0..MaxFinite] \cup {NoFilter}
        /\ accepted \in Seq(Readings)
        /\ observed \in Readings \cup {NoReading}
    BY DEF Init
  <1>3. TypeOK
    BY <1>1, <1>2, FreshMembers DEF Init, TypeOK, StateType, FlagsType
  <1>4. AcceptedTogether
    BY FreshAgree DEF Init, AcceptedTogether
  <1>5. QED
    BY <1>3, <1>4 DEF IInv

\* A fresh session satisfies the invariant whatever ran before it.
LEMMA StartSessionIInv ==
    ASSUME NEW c \in ConfigType, StartSession(c)
    PROVE  IInv'
  <1>1. AcceptedTogether'
    BY FreshAgree DEF StartSession, AcceptedTogether
  <1>2. config' \in ConfigType /\ initialized' = TRUE /\ ValidConfig(config')
    BY DEF StartSession
  <1>3. filter' \in [soc : 0..SocFull, age : 0..MaxFinite] \cup {NoFilter}
    BY FreshMembers DEF StartSession
  <1>4. /\ accepted' \in Seq(Readings)
        /\ observed' \in Readings \cup {NoReading}
    BY DEF StartSession
  <1>5. TypeOK'
    BY <1>2, <1>3, <1>4, FreshMembers DEF StartSession, TypeOK, StateType, FlagsType
  <1>6. QED
    BY <1>1, <1>5 DEF IInv

\* A rejected cycle publishes evidence only.
LEMMA RejectCycleIInv ==
    ASSUME IInv, NEW r \in Readings, RejectCycle(r)
    PROVE  IInv'
  <1>1. AcceptedTogether'
    BY DEF IInv, RejectCycle, numeric, AcceptedTogether
  <1>2. flags' \in FlagsType
    BY ObservedFlagsType DEF IInv, TypeOK, RejectCycle, FlagsType
  <1>3. TypeOK'
    BY <1>2 DEF IInv, RejectCycle, numeric, TypeOK, FlagsType, ValidConfig
  <1>4. QED
    BY <1>1, <1>3 DEF IInv

\* What candidate_accounting promises of an accepted reading.
LEMMA AccountingRange ==
    ASSUME IInv, NEW r \in Readings, ValidSensors(r), AccountingSucceeds(r)
    PROVE  LET next == CandidateLedger(r)
           IN  /\ next \in [in : 0..MaxFinite, out : 0..MaxFinite,
                             time : 0..MaxFinite, ms : 0..MaxFinite,
                             updates : 0..MaxInt]
               /\ next.in + next.out \in 0..MaxFinite
               /\ r.v * r.i \in Finite
               /\ next.in >= ledger.in /\ next.out >= ledger.out
               /\ next.in = ledger.in \/ next.out = ledger.out
               /\ next.time = ledger.time + r.dt
               /\ next.ms = ledger.ms + r.dt * MsPerSecond
               /\ next.updates = ledger.updates + 1
  <1> DEFINE next == CandidateLedger(r)
  <1>1. /\ r.v \in Nat /\ r.i \in Int /\ r.dt \in Nat
    BY SensorsFinite, BmsAssumption, DoublesAssumption DEF Finite
  <1>2. /\ ledger.in \in Nat /\ ledger.out \in Nat /\ ledger.time \in Nat
        /\ ledger.ms \in Nat /\ ledger.updates \in 0..MaxInt
        /\ MaxInt \in Nat /\ MsPerSecond \in Nat /\ MaxFinite \in Nat
    BY BmsAssumption, DoublesAssumption DEF IInv, TypeOK
  <1>3. r.i > 0 => Energy(r) \in Nat
    <2>1. SUFFICES ASSUME r.i > 0 PROVE Energy(r) \in Nat
      OBVIOUS
    <2>2. r.v * r.i \in Nat
      BY <1>1, <2>1, ProductIsNat
    <2>3. QED
      BY <1>1, <2>2, ProductIsNat DEF Energy
  <1>4. Abs(Energy(r)) \in Nat
    <2>1. Energy(r) \in Int
      BY <1>1 DEF Energy
    <2>2. QED
      BY <2>1 DEF Abs
  <1>5. r.dt * MsPerSecond \in Nat
    BY <1>1, <1>2, ProductIsNat
  <1>6. /\ next.in = IF r.i > 0 THEN ledger.in ELSE ledger.in + Abs(Energy(r))
        /\ next.out = IF r.i > 0 THEN ledger.out + Energy(r) ELSE ledger.out
        /\ next.time = ledger.time + r.dt
        /\ next.ms = ledger.ms + r.dt * MsPerSecond
        /\ next.updates = ledger.updates + 1
        /\ next = [in |-> next.in, out |-> next.out, time |-> next.time,
                   ms |-> next.ms, updates |-> next.updates]
    BY DEF CandidateLedger
  <1>7. /\ next.in \in Nat /\ next.out \in Nat
        /\ next.in >= ledger.in /\ next.out >= ledger.out
        /\ next.in = ledger.in \/ next.out = ledger.out
    BY <1>2, <1>3, <1>4, <1>6
  <1>8. /\ next.in \in Finite /\ next.out \in Finite /\ next.time \in Finite
        /\ next.ms \in Finite /\ next.in + next.out \in Finite
        /\ r.v * r.i \in Finite /\ ledger.updates # MaxInt
    BY DEF AccountingSucceeds, IsFinite
  <1>81. next.time \in Nat /\ next.ms \in Nat /\ next.in + next.out \in Nat
    BY <1>1, <1>2, <1>5, <1>6, <1>7
  <1>82. \A x \in Finite : x \in Nat => x \in 0..MaxFinite
    BY <1>2 DEF Finite
  <1>9. /\ next.in \in 0..MaxFinite /\ next.out \in 0..MaxFinite
        /\ next.time \in 0..MaxFinite /\ next.ms \in 0..MaxFinite
        /\ next.in + next.out \in 0..MaxFinite /\ next.updates \in 0..MaxInt
    <2>1. next.updates \in 0..MaxInt
      BY <1>2, <1>6, <1>8
    <2>2. QED
      BY <1>7, <1>8, <1>81, <1>82, <2>1
  <1>10. QED
    BY <1>6, <1>7, <1>8, <1>9

\* The trust history stays a sequence of finite voltages.
LEMMA RememberType ==
    ASSUME NEW h \in Seq(Finite), NEW x \in Finite
    PROVE  Remember(h, x) \in Seq(Finite)
  <1> DEFINE longer == Append(h, x)
  <1>1. longer \in Seq(Finite) /\ Len(longer) = Len(h) + 1 /\ Len(h) \in Nat
    OBVIOUS
  <1>2. longer # <<>>
    BY <1>1
  <1>3. Tail(longer) \in Seq(Finite)
    BY <1>1, <1>2
  <1>4. QED
    BY <1>1, <1>3 DEF Remember

\* An accepted cycle commits the candidates of every member at once.
LEMMA AcceptCycleIInv ==
    ASSUME IInv, NEW r \in Readings, AcceptCycle(r)
    PROVE  IInv'
  <1> DEFINE next == CandidateLedger(r)
             after == Enhanced(config.ds, core, r)
  <1>1. /\ r \in Reading /\ ValidSensors(r) /\ AccountingSucceeds(r)
        /\ EnhanceSucceeds(config.ds, core, r) /\ initialized
    BY BmsAssumption DEF AcceptCycle, CycleSucceeds
  <1>2. /\ config \in ConfigType /\ ValidConfig(config)
        /\ config.ds \in DsConfigType /\ ValidDsConfig(config.ds)
    BY <1>1 DEF IInv, TypeOK, ConfigType, ValidConfig
  <1>3. core.state \in StateType
    BY DEF IInv, TypeOK, StateType
  <1>4. /\ after.state \in StateType
        /\ after.state.time = core.state.time + r.dt
        /\ after.state.soc = Clamp(r.soc, 0, SocFull)
    BY <1>1, <1>2, <1>3, UpdatedStateValid
  <1>5. /\ next \in [in : 0..MaxFinite, out : 0..MaxFinite, time : 0..MaxFinite,
                     ms : 0..MaxFinite, updates : 0..MaxInt]
        /\ next.in + next.out \in 0..MaxFinite
        /\ r.v * r.i \in Finite
        /\ next.time = ledger.time + r.dt
        /\ next.ms = ledger.ms + r.dt * MsPerSecond
    BY <1>1, AccountingRange
  <1>6. /\ core' = after /\ ledger' = next
        /\ report' = CandidateReport(r) /\ filter' = CandidateFilter(r)
    BY DEF AcceptCycle
  <1> DEFINE ReportType ==
                 [soc : 0..SocFull, soh : 0..Saturation, power : Finite,
                  throughput : 0..MaxFinite, time : 0..MaxFinite,
                  updates : 0..MaxInt, cells : Nat, maxCellTemp : {0, RoomTemp},
                  degradationWarning : BOOLEAN]
  <1>7. /\ CandidateReport(r) \in ReportType
        /\ CandidateReport(r).time = next.time
        /\ CandidateReport(r).updates = next.updates
        /\ CandidateReport(r).throughput = next.in + next.out
        /\ CandidateReport(r).soc = after.state.soc
        /\ CandidateReport(r).soh = Saturation - after.state.degradation
    <2>1. report \in ReportType
      BY DEF IInv, TypeOK
    <2>2. HasPack(config) => config.cells \in Nat
      BY <1>2 DEF ValidConfig, ConfigType
    <2>3. /\ after.state.soc \in 0..SocFull
          /\ Saturation - after.state.degradation \in 0..Saturation
      BY <1>4, DsModelAssumption DEF StateType, Finite
    <2> HIDE DEF next, after
    <2>4. CandidateReport(r) =
            [report EXCEPT
               !.soc = after.state.soc, !.soh = Saturation - after.state.degradation,
               !.power = r.v * r.i, !.throughput = next.in + next.out,
               !.time = next.time, !.updates = next.updates,
               !.cells = IF HasPack(config) THEN config.cells ELSE report.cells,
               !.maxCellTemp =
                   IF HasPack(config) THEN 0 ELSE report.maxCellTemp]
      BY DEF CandidateReport, next, after
    <2>5. QED
      BY <1>5, <2>1, <2>2, <2>3, <2>4, ZenonT(40)
  <1>8. CandidateFilter(r) \in
            [soc : 0..SocFull, age : 0..MaxFinite] \cup {NoFilter}
    <2>1. CASE filter = NoFilter
      BY <2>1 DEF CandidateFilter
    <2>2. CASE filter # NoFilter
      <3>1. filter.age + r.dt = next.time
        BY <1>5, <2>2 DEF IInv, AcceptedTogether
      <3>2. after.state.soc \in 0..SocFull /\ next.time \in 0..MaxFinite
        BY <1>4, <1>5 DEF StateType
      <3>3. CandidateFilter(r) = [soc |-> after.state.soc, age |-> next.time]
        BY <1>4, <2>2, <3>1 DEF CandidateFilter
      <3>4. QED
        BY <3>2, <3>3
    <2>3. QED
      BY <2>1, <2>2
  <1>9. after.history \in Seq(Finite)
    <2>1. core.history \in Seq(Finite) /\ r.v \in Finite
      BY <1>1, SensorsFinite DEF IInv, TypeOK
    <2>2. QED
      BY <2>1, RememberType DEF Enhanced
  <1>10. flags' \in FlagsType
    BY <1>2, ObservedFlagsType DEF AcceptCycle, IInv, TypeOK, FlagsType
  <1>11. /\ enhanced' \in BOOLEAN
         /\ accepted' \in Seq(Readings)
         /\ observed' \in Readings \cup {NoReading}
         /\ initialized' = initialized /\ config' = config
    BY DEF AcceptCycle, IInv, TypeOK
  <1>12. TypeOK'
    <2> HIDE DEF next, after
    <2>1. ValidConfig(config')
      BY <1>2, <1>11
    <2>2. core'.state \in StateType /\ core'.history \in Seq(Finite)
      BY <1>4, <1>6, <1>9
    <2>3. QED
      BY <1>2, <1>5, <1>6, <1>7, <1>8, <1>10, <1>11, <2>1, <2>2
      DEF IInv, TypeOK, StateType, FlagsType
  <1>13. AcceptedTogether'
    <2>1. filter' # NoFilter => filter'.age = ledger'.time
      <3>1. SUFFICES ASSUME filter # NoFilter
                     PROVE  filter'.age = ledger'.time
        BY <1>6 DEF CandidateFilter
      <3>2. filter'.age = filter.age + r.dt
        BY <1>6, <3>1 DEF CandidateFilter
      <3>3. QED
        BY <1>5, <1>6, <3>1, <3>2 DEF IInv, AcceptedTogether
    <2>2. ledger'.ms = ledger'.time * MsPerSecond
      <3>0. r.dt \in Nat
        BY <1>1, SensorsFinite, DoublesAssumption DEF Finite
      <3>1. /\ ledger.ms = ledger.time * MsPerSecond
            /\ ledger.time \in Nat /\ r.dt \in Nat /\ MsPerSecond \in Nat
        BY <3>0, BmsAssumption, DoublesAssumption DEF IInv, TypeOK, AcceptedTogether
      <3>2. (ledger.time + r.dt) * MsPerSecond
              = ledger.time * MsPerSecond + r.dt * MsPerSecond
        BY <3>1
      <3>3. QED
        BY <1>5, <1>6, <3>1, <3>2
    <2>3. core.state.time = ledger.time
      BY DEF IInv, AcceptedTogether
    <2> HIDE DEF next, after
    <2>4. QED
      BY <1>4, <1>5, <1>6, <1>7, <2>1, <2>2, <2>3 DEF AcceptedTogether
  <1>14. QED
    BY <1>12, <1>13 DEF IInv

\* init_advanced either starts a fresh session or changes nothing.
LEMMA SessionIInv ==
    ASSUME IInv, NEW c \in ConfigType, InitAdvanced(c)
    PROVE  IInv'
  <1>1. CASE StartSession(c)
    BY <1>1, StartSessionIInv
  <1>2. CASE RejectSession(c)
    BY <1>2 DEF RejectSession, vars, IInv, TypeOK, AcceptedTogether, ValidConfig
  <1>3. QED
    BY <1>1, <1>2 DEF InitAdvanced

LEMMA NextIInv == IInv /\ [Next]_vars => IInv'
  <1> SUFFICES ASSUME IInv, [Next]_vars PROVE IInv'
    OBVIOUS
  <1>1. ASSUME NEW c \in Configs, InitAdvanced(c) PROVE IInv'
    BY <1>1, SessionIInv, BmsAssumption
  <1>2. ASSUME NEW c \in Configs, InitSimple(c.capacity, c.voltage) PROVE IInv'
    <2>1. c.capacity \in Double /\ c.voltage \in Double /\ config \in ConfigType
      <3>1. c \in ConfigType
        BY BmsAssumption
      <3>2. c.capacity \in Double /\ c.voltage \in Double
        BY <3>1 DEF ConfigType
      <3>3. config \in ConfigType
        BY DEF IInv, TypeOK
      <3> QED
        BY <3>2, <3>3
    <2>2. SimpleConfig(c.capacity, c.voltage) \in ConfigType
      BY <2>1, SimpleConfigType
    <2>3. QED
      BY <1>2, <2>2, SessionIInv DEF InitSimple
  <1>3. ASSUME NEW r \in Readings, AcceptCycle(r) PROVE IInv'
    BY <1>3, AcceptCycleIInv
  <1>4. ASSUME NEW r \in Readings, RejectCycle(r) PROVE IInv'
    BY <1>4, RejectCycleIInv
  <1>5. CASE UNCHANGED vars
    BY <1>5 DEF vars, IInv, TypeOK, AcceptedTogether, ValidConfig
  <1>6. QED
    BY <1>1, <1>2, <1>3, <1>4, <1>5 DEF Next, AbandonCycle

\* Every member of the middleware is in its range in every reachable state,
\* whatever is configured, read, accepted, rejected or initialised again.
THEOREM TypeCorrect == Spec => []TypeOK
  <1>1. IInv => TypeOK
    BY DEF IInv
  <1>2. QED
    BY InitIInv, NextIInv, <1>1, PTL DEF Spec

\* enhance_cycle is all or nothing across model, filter, ledger and report.
THEOREM TogetherCorrect == Spec => []AcceptedTogether
  <1>1. IInv => AcceptedTogether
    BY DEF IInv
  <1>2. QED
    BY InitIInv, NextIInv, <1>1, PTL DEF Spec

-----------------------------------------------------------------------------
(***************************************************************************)
(* The safety evidence.  While a session runs without monitoring, cycles   *)
(* leave the fault flag and the recorded faults alone, so that the two     *)
(* agree must hold before the first reading of a session is observed,      *)
(* where FlagsDescribeLatestAttempt still says nothing.                    *)
(***************************************************************************)
FlagFollowsFaults == flags.fault = (safety.faults # {})

EvidenceInv == FlagFollowsFaults /\ FlagsDescribeLatestAttempt

\* observe_safety, called with the cell temperature the report shows after
\* the cycle, re-establishes the evidence whatever the reading.
LEMMA ObserveEvidence ==
    ASSUME FlagFollowsFaults, NEW r, observed' = r, config' = config,
           flags' = ObservedFlags(config, r, report'.maxCellTemp),
           safety' = ObservedSafety(config, r, report'.maxCellTemp)
    PROVE  EvidenceInv'
  <1>1. /\ flags'.thermal = (\/ Above(r.t, config.limits.maxTemp)
                             \/ report'.maxCellTemp > config.limits.maxCellTemp)
        /\ flags'.voltage = (\/ Below(r.v, config.limits.minV)
                             \/ Above(r.v, config.limits.maxV))
    BY DEF ObservedFlags
  <1>2. config.monitoring =>
          /\ safety'.faults = Faults(config.limits, r, report'.maxCellTemp)
          /\ flags'.fault = (safety'.faults # {})
          /\ flags'.soc = (\/ Below(r.soc, config.limits.minSoc)
                           \/ Above(r.soc, config.limits.maxSoc))
          /\ flags'.lowTemp = Below(r.t, config.limits.minTemp)
    BY DEF ObservedFlags, ObservedSafety
  <1>3. ~config.monitoring => flags'.fault = (safety'.faults # {})
    BY DEF ObservedFlags, ObservedSafety, FlagFollowsFaults
  <1>4. QED
    BY <1>1, <1>2, <1>3
    DEF EvidenceInv, FlagFollowsFaults, FlagsDescribeLatestAttempt

\* A rejected cycle observes its reading against the report of the last
\* accepted one.
LEMMA RejectCycleEvidence ==
    ASSUME EvidenceInv, NEW r, RejectCycle(r)
    PROVE  EvidenceInv'
  <1>1. report' = report /\ config' = config /\ observed' = r
    BY DEF RejectCycle, numeric
  <1>2. /\ flags' = ObservedFlags(config, r, report'.maxCellTemp)
        /\ safety' = ObservedSafety(config, r, report'.maxCellTemp)
    BY <1>1 DEF RejectCycle
  <1>3. QED
    BY <1>1, <1>2, ObserveEvidence DEF EvidenceInv

\* An accepted cycle observes its reading against the report it publishes.
LEMMA AcceptCycleEvidence ==
    ASSUME EvidenceInv, NEW r, AcceptCycle(r)
    PROVE  EvidenceInv'
  <1>1. /\ report' = CandidateReport(r) /\ config' = config /\ observed' = r
        /\ flags' = ObservedFlags(config, r, CandidateReport(r).maxCellTemp)
        /\ safety' = ObservedSafety(config, r, CandidateReport(r).maxCellTemp)
    BY DEF AcceptCycle
  <1>2. QED
    BY <1>1, ObserveEvidence DEF EvidenceInv

\* A new session starts with no evidence, a refused one keeps what it had.
LEMMA SessionEvidence ==
    ASSUME EvidenceInv, NEW c, InitAdvanced(c)
    PROVE  EvidenceInv'
  <1>1. CASE StartSession(c)
    BY <1>1 DEF StartSession, NoFlags, NoEvidence, EvidenceInv,
                FlagFollowsFaults, FlagsDescribeLatestAttempt
  <1>2. CASE RejectSession(c)
    BY <1>2 DEF RejectSession, vars, EvidenceInv, FlagFollowsFaults,
                FlagsDescribeLatestAttempt
  <1>3. QED
    BY <1>1, <1>2 DEF InitAdvanced

\* The safety flags describe the latest attempt and nothing older: a fault is
\* neither missed because its cycle was rejected nor kept by a good reading.
THEOREM EvidenceCorrect == Spec => []FlagsDescribeLatestAttempt
  <1>1. Init => EvidenceInv
    <2> SUFFICES ASSUME Init PROVE EvidenceInv
      OBVIOUS
    <2>1. flags.fault = FALSE /\ safety.faults = {} /\ observed = NoReading
      BY DEF Init, NoFlags, NoEvidence
    <2>2. QED
      BY <2>1 DEF EvidenceInv, FlagFollowsFaults, FlagsDescribeLatestAttempt
  <1>2. EvidenceInv /\ [Next]_vars => EvidenceInv'
    <2> SUFFICES ASSUME EvidenceInv, [Next]_vars PROVE EvidenceInv'
      OBVIOUS
    <2>1. ASSUME NEW c \in Configs, InitAdvanced(c) PROVE EvidenceInv'
      BY <2>1, SessionEvidence
    <2>2. ASSUME NEW c \in Configs, InitSimple(c.capacity, c.voltage)
          PROVE  EvidenceInv'
      BY <2>2, SessionEvidence DEF InitSimple
    <2>3. ASSUME NEW r \in Readings, AcceptCycle(r) PROVE EvidenceInv'
      BY <2>3, AcceptCycleEvidence
    <2>4. ASSUME NEW r \in Readings, RejectCycle(r) PROVE EvidenceInv'
      BY <2>4, RejectCycleEvidence
    <2>5. CASE UNCHANGED vars
      BY <2>5 DEF vars, EvidenceInv, FlagFollowsFaults, FlagsDescribeLatestAttempt
    <2>6. QED
      BY <2>1, <2>2, <2>3, <2>4, <2>5 DEF Next, AbandonCycle
  <1>3. EvidenceInv => FlagsDescribeLatestAttempt
    BY DEF EvidenceInv
  <1>4. QED
    BY <1>1, <1>2, <1>3, PTL DEF Spec

-----------------------------------------------------------------------------
\* The ledger implements the energy account: an accepted cycle posts on one
\* side, a new session reopens the account, everything else stutters.
THEOREM LedgerRefinesAccount == Spec => ImplementsAccount
  <1>1. Init => Account!Open
    BY DEF Init, ZeroLedger, Account!Open
  <1>2. ASSUME NEW c, InitAdvanced(c) PROVE [Account!Next]_(Account!account)
    <2>1. CASE StartSession(c)
      BY <2>1 DEF StartSession, ZeroLedger, Account!Next, Account!Reopen
    <2>2. CASE RejectSession(c)
      BY <2>2 DEF RejectSession, vars, Account!account
    <2>3. QED
      BY <1>2, <2>1, <2>2 DEF InitAdvanced
  <1>3. ASSUME IInv, NEW r \in Readings, AcceptCycle(r)
        PROVE  [Account!Next]_(Account!account)
    <2>1. ValidSensors(r) /\ AccountingSucceeds(r) /\ ledger' = CandidateLedger(r)
      BY <1>3 DEF AcceptCycle, CycleSucceeds
    <2>2. /\ ledger'.in >= ledger.in /\ ledger'.out >= ledger.out
          /\ ledger'.in = ledger.in \/ ledger'.out = ledger.out
          /\ ledger'.updates = ledger.updates + 1
      BY <1>3, <2>1, AccountingRange
    <2>3. QED
      BY <2>2 DEF Account!Next, Account!Post
  <1>4. ASSUME NEW r \in Readings, RejectCycle(r)
        PROVE  [Account!Next]_(Account!account)
    BY <1>4 DEF RejectCycle, numeric, Account!account
  <1>5. IInv /\ [Next]_vars => [Account!Next]_(Account!account)
    <2> SUFFICES ASSUME IInv, [Next]_vars
                 PROVE  [Account!Next]_(Account!account)
      OBVIOUS
    <2>1. CASE UNCHANGED vars
      BY <2>1 DEF vars, Account!account
    <2>2. QED
      BY <1>2, <1>3, <1>4, <2>1 DEF Next, InitSimple, AbandonCycle
  <1>6. QED
    BY <1>1, <1>5, InitIInv, NextIInv, PTL DEF Spec, ImplementsAccount, Account!Spec

-----------------------------------------------------------------------------
(***************************************************************************)
(* The ledger is the sum of the history.  The sum of a sequence is a       *)
(* recursive function; that one exists, and what it is of a sequence with  *)
(* one element more, is shown by the least counterexample.                 *)
(***************************************************************************)
LEMMA LeastElement ==
    ASSUME NEW T \in SUBSET Nat, T # {}
    PROVE  \E m \in T : \A k \in T : m <= k
  <1> DEFINE R == {ss \in Nat \X Nat : ss[1] < ss[2]}
  <1>1. IsWellFoundedOn(R, Nat)
    BY NatLessThanWellFounded, Zenon DEF OpToRel
  <1>2. \A a, b \in Nat : a < b => <<a, b>> \in R
    OBVIOUS
  <1> HIDE DEF R
  <1>3. PICK m \in T : \A k \in T : ~(<<k, m>> \in R)
    BY <1>1, WFMin
  <1>4. m \in Nat /\ \A k \in T : k \in Nat
    OBVIOUS
  <1>5. \A k \in T : ~(k < m)
    BY <1>2, <1>3, <1>4
  <1> QED
    BY <1>4, <1>5

\* The partial sums of the first n elements.
IsPartial(h, s, n) ==
    /\ h \in [0..n -> Int]
    /\ h[0] = 0
    /\ \A k \in 1..n : h[k] = h[k - 1] + s[k]

LEMMA PartialsExist ==
    ASSUME NEW s \in Seq(Int)
    PROVE  \A n \in 0..Len(s) : \E h : IsPartial(h, s, n)
  <1> DEFINE T == {n \in 0..Len(s) : ~ \E h : IsPartial(h, s, n)}
  <1> SUFFICES ASSUME T # {} PROVE FALSE
    OBVIOUS
  <1>1. T \in SUBSET Nat
    OBVIOUS
  <1>2. PICK m \in T : \A k \in T : m <= k
    <2> HIDE DEF T
    <2> QED
      BY <1>1, LeastElement
  <1>3. m # 0
    <2>1. IsPartial([k \in 0..0 |-> 0], s, 0)
      BY DEF IsPartial
    <2> QED
      BY <2>1
  <1>4. m \in 1..Len(s) /\ m - 1 \in 0..Len(s) /\ m - 1 \notin T
    BY <1>2, <1>3
  <1>5. PICK h : IsPartial(h, s, m - 1)
    BY <1>4
  <1> DEFINE g == [k \in 0..m |-> IF k = m THEN h[m - 1] + s[m] ELSE h[k]]
  <1>6. IsPartial(g, s, m)
    <2>1. s[m] \in Int /\ h[m - 1] \in Int
      BY <1>4, <1>5 DEF IsPartial
    <2>2. g \in [0..m -> Int]
      BY <1>4, <1>5, <2>1 DEF IsPartial
    <2>3. g[0] = 0
      BY <1>4, <1>5 DEF IsPartial
    <2>4. ASSUME NEW k \in 1..m PROVE g[k] = g[k - 1] + s[k]
      <3>1. CASE k = m
        BY <1>4, <3>1
      <3>2. CASE k # m
        <4>1. k \in 1..(m - 1) /\ k - 1 \in 0..m /\ k - 1 # m /\ k \in 0..m
          BY <1>4, <3>2
        <4>2. g[k] = h[k] /\ g[k - 1] = h[k - 1]
          BY <3>2, <4>1
        <4>3. h[k] = h[k - 1] + s[k]
          BY <1>5, <4>1 DEF IsPartial
        <4> QED
          BY <4>2, <4>3
      <3> QED
        BY <3>1, <3>2
    <2> QED
      BY <2>2, <2>3, <2>4 DEF IsPartial
  <1> QED
    BY <1>6

LEMMA SummedIsPartial ==
    ASSUME NEW s \in Seq(Int)
    PROVE  \E h : IsPartial(h, s, Len(s)) /\ Summed(s) = h[Len(s)]
  <1> DEFINE Eq(h) == h = [n \in 0..Len(s) |-> IF n = 0 THEN 0 ELSE h[n - 1] + s[n]]
             sum == CHOOSE h : Eq(h)
  <1>1. PICK h : IsPartial(h, s, Len(s))
    BY PartialsExist
  <1>2. Eq(h)
    BY <1>1 DEF IsPartial
  <1>3. Eq(sum)
    <2> HIDE DEF Eq
    <2> QED
      BY <1>2
  <1>4. Summed(s) = sum[Len(s)]
    BY Zenon DEF Summed
  <1> HIDE DEF sum
  <1>5. DOMAIN sum = 0..Len(s) /\ sum[0] = 0
        /\ \A k \in 1..Len(s) : sum[k] = sum[k - 1] + s[k]
    <2>1. sum = [n \in 0..Len(s) |-> IF n = 0 THEN 0 ELSE sum[n - 1] + s[n]]
      BY <1>3
    <2>2. \A n \in 0..Len(s) : sum[n] = IF n = 0 THEN 0 ELSE sum[n - 1] + s[n]
      BY <2>1
    <2>3. Len(s) \in Nat
      OBVIOUS
    <2> QED
      BY <2>1, <2>2, <2>3
  <1>6. \A n \in 0..Len(s) : sum[n] \in Int
    <2> DEFINE T == {n \in 0..Len(s) : sum[n] \notin Int}
    <2> SUFFICES ASSUME T # {} PROVE FALSE
      OBVIOUS
    <2>1. T \in SUBSET Nat
      OBVIOUS
    <2>2. PICK m \in T : \A k \in T : m <= k
      <3> HIDE DEF T
      <3> QED
        BY <2>1, LeastElement
    <2>3. m # 0
      BY <1>5
    <2>4. m \in 1..Len(s) /\ m - 1 \in 0..Len(s) /\ m - 1 \notin T
      BY <2>2, <2>3
    <2>5. sum[m - 1] \in Int /\ s[m] \in Int /\ sum[m] = sum[m - 1] + s[m]
      BY <1>5, <2>4
    <2> QED
      BY <2>5
  <1>7. IsPartial(sum, s, Len(s))
    <2>1. sum \in [0..Len(s) -> Int]
      BY <1>3, <1>6
    <2> QED
      BY <1>5, <2>1 DEF IsPartial
  <1> QED
    BY <1>4, <1>7

LEMMA PartialsAgree ==
    ASSUME NEW s \in Seq(Int), NEW x \in Int,
           NEW g, IsPartial(g, s, Len(s)),
           NEW h, IsPartial(h, Append(s, x), Len(s) + 1)
    PROVE  g[Len(s)] = h[Len(s)]
  <1> DEFINE n == Len(s)
             t == Append(s, x)
             T == {k \in 0..n : g[k] # h[k]}
  <1>0. n \in Nat /\ n + 1 \in Nat /\ \A k \in 1..n : s[k] = t[k]
    OBVIOUS
  <1>1. IsPartial(g, s, n) /\ IsPartial(h, t, n + 1)
    OBVIOUS
  <1> HIDE DEF n, t
  <1> SUFFICES ASSUME T # {} PROVE FALSE
    BY <1>0 DEF n
  <1>2. T \in SUBSET Nat
    BY <1>0
  <1>3. PICK l \in T : \A k \in T : l <= k
    <2> HIDE DEF T
    <2> QED
      BY <1>2, LeastElement
  <1>4. l # 0
    BY <1>1 DEF IsPartial
  <1>5. l \in 1..n /\ l \in 1..(n + 1) /\ l - 1 \in 0..n /\ l - 1 \notin T
    BY <1>0, <1>3, <1>4
  <1>6. /\ g[l - 1] = h[l - 1] /\ s[l] = t[l]
        /\ g[l] = g[l - 1] + s[l] /\ h[l] = h[l - 1] + t[l]
    BY <1>0, <1>1, <1>5 DEF IsPartial
  <1> QED
    BY <1>6

LEMMA SummedAppend ==
    ASSUME NEW s \in Seq(Int), NEW x \in Int
    PROVE  /\ Summed(s) \in Int
           /\ Summed(Append(s, x)) = Summed(s) + x
  <1>1. /\ Append(s, x) \in Seq(Int) /\ Len(Append(s, x)) = Len(s) + 1
        /\ Append(s, x)[Len(s) + 1] = x /\ Len(s) \in Nat
    OBVIOUS
  <1>2. PICK g : IsPartial(g, s, Len(s)) /\ Summed(s) = g[Len(s)]
    BY SummedIsPartial
  <1>3. PICK h : IsPartial(h, Append(s, x), Len(s) + 1)
                 /\ Summed(Append(s, x)) = h[Len(s) + 1]
    BY <1>1, SummedIsPartial
  <1>4. g[Len(s)] = h[Len(s)]
    BY <1>2, <1>3, PartialsAgree
  <1>5. h[Len(s) + 1] = h[Len(s)] + x
    <2>1. Len(s) + 1 \in 1..(Len(s) + 1) /\ Len(s) + 1 - 1 = Len(s)
      BY <1>1
    <2> QED
      BY <1>1, <1>3, <2>1 DEF IsPartial
  <1>6. g[Len(s)] \in Int
    BY <1>1, <1>2 DEF IsPartial
  <1> QED
    BY <1>2, <1>3, <1>4, <1>5, <1>6

LEMMA SummedNone == Summed(<<>>) = 0
  <1>1. <<>> \in Seq(Int) /\ Len(<<>>) = 0
    OBVIOUS
  <1> QED
    BY <1>1, SummedIsPartial DEF IsPartial

\* The readings that can have been accepted: their sums are sums of integers.
Acceptable == {r \in Readings : ValidSensors(r)}

\* What a quantity of each accepted reading adds up to grows by that of the next.
LEMMA SummedGrows ==
    ASSUME NEW history \in Seq(Acceptable), NEW next \in Acceptable,
           NEW q \in [Acceptable -> Int]
    PROVE  Summed([n \in DOMAIN Append(history, next) |-> q[Append(history, next)[n]]])
              = Summed([n \in DOMAIN history |-> q[history[n]]]) + q[next]
  <1> DEFINE s == [n \in DOMAIN history |-> q[history[n]]]
             longer == [n \in DOMAIN Append(history, next) |-> q[Append(history, next)[n]]]
  <1>1. s \in Seq(Int) /\ Len(s) = Len(history)
    <2>1. Len(history) \in Nat /\ DOMAIN history = 1..Len(history)
          /\ \A n \in 1..Len(history) : q[history[n]] \in Int
      OBVIOUS
    <2>2. s \in [1..Len(history) -> Int]
      BY <2>1
    <2> HIDE DEF s
    <2> QED
      BY <2>1, <2>2
  <1>2. longer = Append(s, q[next])
    <2>1. /\ DOMAIN Append(history, next) = 1..(Len(history) + 1)
          /\ Len(history) \in Nat /\ DOMAIN history = 1..Len(history)
          /\ Append(history, next)[Len(history) + 1] = next
          /\ \A n \in 1..Len(history) : Append(history, next)[n] = history[n]
      OBVIOUS
    <2>2. Append(s, q[next]) = [n \in 1..(Len(history) + 1) |->
                                  IF n = Len(history) + 1 THEN q[next] ELSE s[n]]
      <3> HIDE DEF s
      <3> QED
        BY <1>1
    <2>3. \A n \in 1..Len(history) : s[n] = q[history[n]]
      BY <2>1
    <2>4. \A n \in 1..(Len(history) + 1) :
             longer[n] = IF n = Len(history) + 1 THEN q[next] ELSE s[n]
      <3> SUFFICES ASSUME NEW n \in 1..(Len(history) + 1)
                   PROVE  longer[n] = IF n = Len(history) + 1 THEN q[next] ELSE s[n]
        OBVIOUS
      <3>1. longer[n] = q[Append(history, next)[n]]
        BY <2>1
      <3>2. CASE n = Len(history) + 1
        BY <2>1, <3>1, <3>2
      <3>3. CASE n # Len(history) + 1
        <4>1. n \in 1..Len(history)
          BY <2>1, <3>3
        <4> HIDE DEF s, longer
        <4> QED
          BY <2>1, <2>3, <3>1, <3>3, <4>1
      <3> QED
        BY <3>2, <3>3
    <2>5. longer = [n \in 1..(Len(history) + 1) |-> longer[n]]
      BY <2>1
    <2> HIDE DEF s, longer
    <2> QED
      BY <2>2, <2>4, <2>5
  <1>3. q[next] \in Int
    OBVIOUS
  <1> HIDE DEF s, longer
  <1>4. Summed(longer) = Summed(s) + q[next]
    BY <1>1, <1>2, <1>3, SummedAppend
  <1> QED
    BY <1>4 DEF s, longer

\* The three quantities, as functions on the acceptable readings.
Interval == [r \in Acceptable |-> r.dt]
Inflow   == [r \in Acceptable |-> Charged(r)]
Outflow  == [r \in Acceptable |-> Discharged(r)]

LEMMA QuantitiesAreInt ==
    /\ Interval \in [Acceptable -> Int]
    /\ Inflow \in [Acceptable -> Int]
    /\ Outflow \in [Acceptable -> Int]
  <1>1. ASSUME NEW r \in Acceptable
        PROVE  r.dt \in Int /\ Charged(r) \in Int /\ Discharged(r) \in Int
    <2>1. r.v \in Int /\ r.i \in Int /\ r.dt \in Int
      BY SensorsFinite, BmsAssumption, DoublesAssumption DEF Acceptable, Finite
    <2>2. Energy(r) \in Int
      BY <2>1 DEF Energy
    <2> QED
      BY <2>1, <2>2 DEF Charged, Discharged
  <1> QED
    BY <1>1 DEF Interval, Inflow, Outflow

HistoryInv ==
    /\ accepted \in Seq(Acceptable)
    /\ LedgerMatchesHistory

LEMMA FreshHistory ==
    ASSUME accepted = <<>>, ledger = ZeroLedger
    PROVE  HistoryInv
  <1>1. /\ [n \in DOMAIN accepted |-> accepted[n].dt] = <<>>
        /\ [n \in DOMAIN accepted |-> Charged(accepted[n])] = <<>>
        /\ [n \in DOMAIN accepted |-> Discharged(accepted[n])] = <<>>
    OBVIOUS
  <1>2. accepted \in Seq(Acceptable) /\ Len(accepted) = 0
    OBVIOUS
  <1> QED
    BY <1>1, <1>2, SummedNone DEF HistoryInv, LedgerMatchesHistory, ZeroLedger

LEMMA AcceptCycleHistory ==
    ASSUME IInv, HistoryInv, NEW r \in Readings, AcceptCycle(r)
    PROVE  HistoryInv'
  <1>1. r \in Acceptable /\ accepted \in Seq(Acceptable) /\ accepted' = Append(accepted, r)
    BY DEF AcceptCycle, CycleSucceeds, Acceptable, HistoryInv
  <1>2. /\ \A n \in DOMAIN accepted : accepted[n] \in Acceptable
        /\ \A n \in DOMAIN accepted' : accepted'[n] \in Acceptable
        /\ Len(accepted') = Len(accepted) + 1 /\ accepted' \in Seq(Acceptable)
    BY <1>1
  <1>3. /\ r.v \in Nat /\ r.i \in Int /\ r.dt \in Nat
    BY <1>1, SensorsFinite, BmsAssumption, DoublesAssumption DEF Acceptable, Finite
  <1>4. /\ ledger' = CandidateLedger(r)
        /\ ledger.in \in Int /\ ledger.out \in Int
    BY DEF AcceptCycle, IInv, TypeOK
  <1>5. /\ ledger'.updates = ledger.updates + 1
        /\ ledger'.time = ledger.time + r.dt
    BY <1>4 DEF CandidateLedger
  <1>6. /\ ledger'.in = ledger.in + Charged(r)
        /\ ledger'.out = ledger.out + Discharged(r)
    <2>1. Energy(r) \in Int
      BY <1>3 DEF Energy
    <2>2. CASE r.i > 0
      BY <1>3, <1>4, <2>2 DEF CandidateLedger, Charged, Discharged
    <2>3. CASE r.i = 0
      <3>1. Energy(r) = 0
        BY <1>3, <2>3 DEF Energy
      <3> QED
        BY <1>3, <1>4, <2>3, <3>1 DEF CandidateLedger, Charged, Discharged, Abs
    <2>4. CASE r.i < 0
      <3>1. Energy(r) <= 0
        <4>1. -r.i \in Nat /\ r.v * (-r.i) \in Nat
          BY <1>3, <2>4, ProductIsNat
        <4>2. (r.v * (-r.i)) * r.dt \in Nat
          BY <1>3, <4>1, ProductIsNat
        <4>3. (r.v * (-r.i)) * r.dt = -Energy(r)
          BY <1>3 DEF Energy
        <4> QED
          BY <2>1, <4>2, <4>3
      <3>2. Abs(Energy(r)) = -Energy(r)
        BY <2>1, <3>1 DEF Abs
      <3> QED
        BY <1>3, <1>4, <2>1, <2>4, <3>2 DEF CandidateLedger, Charged, Discharged
    <2> QED
      BY <1>3, <2>2, <2>3, <2>4
  <1>7. /\ [n \in DOMAIN accepted |-> accepted[n].dt]
              = [n \in DOMAIN accepted |-> Interval[accepted[n]]]
        /\ [n \in DOMAIN accepted |-> Charged(accepted[n])]
              = [n \in DOMAIN accepted |-> Inflow[accepted[n]]]
        /\ [n \in DOMAIN accepted |-> Discharged(accepted[n])]
              = [n \in DOMAIN accepted |-> Outflow[accepted[n]]]
    BY <1>2 DEF Interval, Inflow, Outflow
  <1>8. /\ [n \in DOMAIN accepted' |-> accepted'[n].dt]
              = [n \in DOMAIN accepted' |-> Interval[accepted'[n]]]
        /\ [n \in DOMAIN accepted' |-> Charged(accepted'[n])]
              = [n \in DOMAIN accepted' |-> Inflow[accepted'[n]]]
        /\ [n \in DOMAIN accepted' |-> Discharged(accepted'[n])]
              = [n \in DOMAIN accepted' |-> Outflow[accepted'[n]]]
    BY <1>2 DEF Interval, Inflow, Outflow
  <1>9. \A q \in [Acceptable -> Int] :
           Summed([n \in DOMAIN accepted' |-> q[accepted'[n]]])
              = Summed([n \in DOMAIN accepted |-> q[accepted[n]]]) + q[r]
    BY <1>1, SummedGrows
  <1>10. Interval[r] = r.dt /\ Inflow[r] = Charged(r) /\ Outflow[r] = Discharged(r)
    BY <1>1 DEF Interval, Inflow, Outflow
  <1>11. ledger'.time = Summed([n \in DOMAIN accepted' |-> accepted'[n].dt])
    <2>1. Summed([n \in DOMAIN accepted' |-> Interval[accepted'[n]]])
             = Summed([n \in DOMAIN accepted |-> Interval[accepted[n]]]) + Interval[r]
      BY <1>9, QuantitiesAreInt
    <2>2. Summed([n \in DOMAIN accepted' |-> accepted'[n].dt])
             = Summed([n \in DOMAIN accepted |-> accepted[n].dt]) + Interval[r]
      BY <1>7, <1>8, <2>1
    <2> QED
      BY <1>5, <1>10, <2>2 DEF HistoryInv, LedgerMatchesHistory
  <1>12. ledger'.in = Summed([n \in DOMAIN accepted' |-> Charged(accepted'[n])])
    <2>1. Summed([n \in DOMAIN accepted' |-> Inflow[accepted'[n]]])
             = Summed([n \in DOMAIN accepted |-> Inflow[accepted[n]]]) + Inflow[r]
      BY <1>9, QuantitiesAreInt
    <2>2. Summed([n \in DOMAIN accepted' |-> Charged(accepted'[n])])
             = Summed([n \in DOMAIN accepted |-> Charged(accepted[n])]) + Inflow[r]
      BY <1>7, <1>8, <2>1
    <2> QED
      BY <1>6, <1>10, <2>2 DEF HistoryInv, LedgerMatchesHistory
  <1>13. ledger'.out = Summed([n \in DOMAIN accepted' |-> Discharged(accepted'[n])])
    <2>1. Summed([n \in DOMAIN accepted' |-> Outflow[accepted'[n]]])
             = Summed([n \in DOMAIN accepted |-> Outflow[accepted[n]]]) + Outflow[r]
      BY <1>9, QuantitiesAreInt
    <2>2. Summed([n \in DOMAIN accepted' |-> Discharged(accepted'[n])])
             = Summed([n \in DOMAIN accepted |-> Discharged(accepted[n])]) + Outflow[r]
      BY <1>7, <1>8, <2>1
    <2> QED
      BY <1>6, <1>10, <2>2 DEF HistoryInv, LedgerMatchesHistory
  <1> QED
    BY <1>2, <1>5, <1>11, <1>12, <1>13 DEF HistoryInv, LedgerMatchesHistory

\* The ledger is the sum of the raw accepted readings of the session: clamping by
\* the model, rejected cycles and refused configurations leave no trace in it.
THEOREM HistoryCorrect == Spec => []LedgerMatchesHistory
  <1>1. Init => HistoryInv
    BY FreshHistory DEF Init
  <1>2. IInv /\ HistoryInv /\ [Next]_vars => HistoryInv'
    <2> SUFFICES ASSUME IInv, HistoryInv, [Next]_vars PROVE HistoryInv'
      OBVIOUS
    <2>1. UNCHANGED <<ledger, accepted>> => HistoryInv'
      BY DEF HistoryInv, LedgerMatchesHistory
    <2>2. ASSUME NEW c, InitAdvanced(c) PROVE HistoryInv'
      <3>1. CASE StartSession(c)
        <4>1. accepted' = <<>> /\ ledger' = ZeroLedger
          BY <3>1 DEF StartSession
        <4>2. (accepted = <<>> /\ ledger = ZeroLedger => HistoryInv)'
          BY FreshHistory, PTL
        <4> QED
          BY <4>1, <4>2
      <3>2. CASE RejectSession(c)
        BY <2>1, <3>2 DEF RejectSession, vars
      <3> QED
        BY <2>2, <3>1, <3>2 DEF InitAdvanced
    <2>3. ASSUME NEW r \in Readings, RejectCycle(r) PROVE HistoryInv'
      BY <2>1, <2>3 DEF RejectCycle, numeric
    <2>4. ASSUME NEW r \in Readings, AcceptCycle(r) PROVE HistoryInv'
      BY <2>4, AcceptCycleHistory
    <2> QED
      BY <2>1, <2>2, <2>3, <2>4 DEF Next, InitSimple, AbandonCycle, vars
  <1>3. HistoryInv => LedgerMatchesHistory
    BY DEF HistoryInv
  <1> QED
    BY <1>1, <1>2, <1>3, InitIInv, NextIInv, PTL DEF Spec
=============================================================================
