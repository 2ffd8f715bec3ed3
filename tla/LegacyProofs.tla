---------------------------- MODULE LegacyProofs ----------------------------
(***************************************************************************)
(* What holds of the legacy middleware for every library of chemistries,   *)
(* set of configurations, readings and samples: a pack is of one sample,   *)
(* the alarms match the report, wear only grows and does not depend on how *)
(* often the battery is polled, and only a refused initialisation misleads *)
(* the caller.                                                             *)
(***************************************************************************)
EXTENDS LegacyMiddleware, FiniteSetTheorems, TLAPS

-----------------------------------------------------------------------------
(***************************************************************************)
(* Sums and averages over the cells.  A fold is a recursive function over  *)
(* the subsets of its indices; that one exists, that a total of integers   *)
(* is an integer, and where an average lies, is shown by induction on the  *)
(* number of indices.                                                      *)
(***************************************************************************)

\* Induction on a set of naturals: WFMin gives the least that is missing.
LEMMA SetInduction ==
    ASSUME NEW N \in Nat, NEW T, 0 \in T,
           \A n \in 0..N : n \in T /\ n # N => n + 1 \in T
    PROVE  \A n \in 0..N : n \in T
  <1> DEFINE Missing == (0..N) \ T
             R == {ss \in Nat \X Nat : ss[1] < ss[2]}
  <1> SUFFICES ASSUME Missing # {} PROVE FALSE
    OBVIOUS
  <1>1. IsWellFoundedOn(R, Nat)
    BY NatLessThanWellFounded, Zenon DEF OpToRel
  <1>2. \A a, b \in Nat : a < b => <<a, b>> \in R
    OBVIOUS
  <1>3. Missing \subseteq Nat
    OBVIOUS
  <1>4. PICK m \in Missing : \A k \in Missing : ~(<<k, m>> \in R)
    <2> HIDE DEF R, Missing
    <2> QED
      BY <1>1, <1>3, WFMin
  <1>5. m \in 0..N /\ m # 0 /\ m - 1 \in 0..N /\ m - 1 # N /\ m - 1 \in Nat
    OBVIOUS
  <1>6. <<m - 1, m>> \in R
    BY <1>2, <1>5
  <1>7. m - 1 \in T
    BY <1>4, <1>5, <1>6
  <1>8. m - 1 + 1 \in T
    BY <1>5, <1>7
  <1> QED
    BY <1>5, <1>8

Some(s) == CHOOSE x \in s : TRUE

LEMMA RemoveSome ==
    ASSUME NEW D, IsFiniteSet(D), NEW s \in SUBSET D
    PROVE  /\ Cardinality(s) \in Nat
           /\ s = {} <=> Cardinality(s) = 0
           /\ s # {} => /\ Some(s) \in s /\ s \ {Some(s)} \in SUBSET D
                        /\ Cardinality(s \ {Some(s)}) = Cardinality(s) - 1
  <1>1. IsFiniteSet(s)
    BY FS_Subset
  <1>2. Cardinality(s) \in Nat
    BY <1>1, FS_CardinalityType
  <1>3. s = {} <=> Cardinality(s) = 0
    BY <1>1, FS_EmptySet
  <1>4. s # {} => Some(s) \in s
    BY DEF Some
  <1>5. s # {} => Cardinality(s \ {Some(s)}) = Cardinality(s) - 1
    BY <1>1, <1>4, FS_RemoveElement
  <1> QED
    BY <1>2, <1>3, <1>4, <1>5

Small(D, n) == {s \in SUBSET D : Cardinality(s) <= n}

Adds(g, f, S) ==
    \A s \in S : g[s] = IF s = {} THEN 0 ELSE f[Some(s)] + g[s \ {Some(s)}]

LEMMA SumsExist ==
    ASSUME NEW D, IsFiniteSet(D), NEW f \in [D -> Int]
    PROVE  \E g \in [SUBSET D -> Int] : Adds(g, f, SUBSET D)
  <1> DEFINE N == Cardinality(D)
             T == {n \in 0..N : \E g \in [Small(D, n) -> Int] : Adds(g, f, Small(D, n))}
  <1>1. N \in Nat /\ Small(D, N) = SUBSET D
    <2>1. N \in Nat
      BY FS_CardinalityType
    <2>2. \A s \in SUBSET D : Cardinality(s) <= N
      BY FS_Subset
    <2> QED
      BY <2>1, <2>2 DEF Small
  <1>2. 0 \in T
    <2> DEFINE g == [s \in Small(D, 0) |-> 0]
    <2>1. ASSUME NEW s \in Small(D, 0) PROVE s = {}
      <3>1. s \in SUBSET D /\ Cardinality(s) <= 0
        BY DEF Small
      <3>2. Cardinality(s) \in Nat /\ (s = {} <=> Cardinality(s) = 0)
        BY <3>1, RemoveSome
      <3> QED
        BY <3>1, <3>2
    <2>2. g \in [Small(D, 0) -> Int] /\ Adds(g, f, Small(D, 0))
      BY <2>1 DEF Adds
    <2> HIDE DEF g
    <2> QED
      BY <1>1, <2>2
  <1>3. \A n \in 0..N : n \in T /\ n # N => n + 1 \in T
    <2> SUFFICES ASSUME NEW n \in 0..N, n \in T, n # N
                 PROVE  \E g \in [Small(D, n + 1) -> Int] : Adds(g, f, Small(D, n + 1))
      BY <1>1
    <2>1. PICK h \in [Small(D, n) -> Int] : Adds(h, f, Small(D, n))
      OBVIOUS
    <2> DEFINE g == [s \in Small(D, n + 1) |->
                       IF s \in Small(D, n) THEN h[s] ELSE f[Some(s)] + h[s \ {Some(s)}]]
    <2>2. ASSUME NEW s \in Small(D, n + 1), s \notin Small(D, n)
          PROVE  /\ s # {} /\ Some(s) \in D
                 /\ s \ {Some(s)} \in Small(D, n) /\ s \ {Some(s)} \in Small(D, n + 1)
      <3>1. s \in SUBSET D /\ Cardinality(s) <= n + 1 /\ ~(Cardinality(s) <= n)
        BY <2>2 DEF Small
      <3>2. Cardinality(s) \in Nat /\ (s = {} <=> Cardinality(s) = 0)
        BY <3>1, RemoveSome
      <3>3. /\ s # {} /\ Some(s) \in s /\ s \ {Some(s)} \in SUBSET D
            /\ Cardinality(s \ {Some(s)}) = Cardinality(s) - 1
        BY <1>1, <3>1, <3>2, RemoveSome
      <3> QED
        BY <1>1, <3>1, <3>2, <3>3 DEF Small
    <2>3. ASSUME NEW s \in Small(D, n), s # {}
          PROVE  s \ {Some(s)} \in Small(D, n)
      <3>1. s \in SUBSET D /\ Cardinality(s) <= n
        BY DEF Small
      <3>2. /\ s \ {Some(s)} \in SUBSET D /\ Cardinality(s) \in Nat
            /\ Cardinality(s \ {Some(s)}) = Cardinality(s) - 1
        BY <2>3, <3>1, RemoveSome
      <3> QED
        BY <1>1, <3>1, <3>2 DEF Small
    <2>4. \A s \in Small(D, n) : s \in Small(D, n + 1)
      <3> SUFFICES ASSUME NEW s \in Small(D, n) PROVE s \in Small(D, n + 1)
        OBVIOUS
      <3>1. s \in SUBSET D /\ Cardinality(s) <= n
        BY DEF Small
      <3>2. Cardinality(s) \in Nat
        BY <3>1, RemoveSome
      <3> QED
        BY <1>1, <3>1, <3>2 DEF Small
    <2>5. g \in [Small(D, n + 1) -> Int]
      <3> SUFFICES ASSUME NEW s \in Small(D, n + 1)
                   PROVE  (IF s \in Small(D, n) THEN h[s]
                           ELSE f[Some(s)] + h[s \ {Some(s)}]) \in Int
        OBVIOUS
      <3> QED
        BY <2>2
    <2>6. Adds(g, f, Small(D, n + 1))
      <3> SUFFICES ASSUME NEW s \in Small(D, n + 1)
                   PROVE  g[s] = IF s = {} THEN 0 ELSE f[Some(s)] + g[s \ {Some(s)}]
        BY DEF Adds
      <3>1. CASE s \notin Small(D, n)
        <4>1. g[s] = f[Some(s)] + h[s \ {Some(s)}]
          BY <3>1
        <4>2. g[s \ {Some(s)}] = h[s \ {Some(s)}] /\ s # {}
          BY <2>2, <3>1
        <4> HIDE DEF g
        <4> QED
          BY <4>1, <4>2
      <3>2. CASE s \in Small(D, n)
        <4>1. g[s] = h[s]
          BY <3>2
        <4>2. s # {} => g[s \ {Some(s)}] = h[s \ {Some(s)}]
          BY <2>3, <2>4, <3>2
        <4>3. h[s] = IF s = {} THEN 0 ELSE f[Some(s)] + h[s \ {Some(s)}]
          BY <2>1, <3>2 DEF Adds
        <4> HIDE DEF g
        <4> QED
          BY <4>1, <4>2, <4>3
      <3> QED
        BY <3>1, <3>2
    <2> HIDE DEF g
    <2> QED
      BY <2>5, <2>6
  <1>4. N \in T
    <2> HIDE DEF T
    <2>1. N \in Nat /\ N \in 0..N
      BY <1>1
    <2> HIDE DEF N
    <2> QED
      BY <1>2, <1>3, <2>1, SetInduction
  <1> QED
    BY <1>1, <1>4

LEMMA TotalAdds ==
    ASSUME NEW D, IsFiniteSet(D), NEW f \in [D -> Int]
    PROVE  \E g : Adds(g, f, SUBSET D) /\ Total(f) = g[D]
  <1> DEFINE Eq(g) == g = [s \in SUBSET D |->
                             IF s = {} THEN 0 ELSE f[Some(s)] + g[s \ {Some(s)}]]
             iter == CHOOSE g : Eq(g)
  <1>1. PICK h \in [SUBSET D -> Int] : Adds(h, f, SUBSET D)
    BY SumsExist
  <1>2. Eq(h)
    BY <1>1 DEF Adds
  <1>3. Eq(iter)
    <2> HIDE DEF Eq
    <2> QED
      BY <1>2
  <1>4. Total(f) = (CHOOSE iter_ : iter_ = [s \in SUBSET DOMAIN f |->
           IF s = {} THEN 0 ELSE f[CHOOSE x \in s : TRUE] + iter_[s \ {CHOOSE x \in s : TRUE}]])[DOMAIN f]
    BY Zenon DEF Total, FoldFunction, FoldFunctionOnSet, MapThenFoldSet
  <1>5. DOMAIN f = D
    OBVIOUS
  <1>6. Total(f) = iter[D]
    BY <1>4, <1>5, Zenon DEF Some
  <1> HIDE DEF iter
  <1>7. Adds(iter, f, SUBSET D)
    BY <1>3 DEF Adds
  <1> QED
    BY <1>6, <1>7

\* Bounds of the values are, times their number, bounds of the total.
LEMMA TotalBounds ==
    ASSUME NEW D, IsFiniteSet(D), NEW f \in [D -> Int],
           NEW h \in Nat, \A k \in D : f[k] \in 0..h
    PROVE  Total(f) \in 0..(h * Cardinality(D))
  <1> DEFINE N == Cardinality(D)
  <1>1. PICK g : Adds(g, f, SUBSET D) /\ Total(f) = g[D]
    BY TotalAdds
  <1> DEFINE T == {n \in 0..N : \A s \in SUBSET D : Cardinality(s) = n => g[s] \in 0..(h * n)}
  <1>2. N \in Nat
    BY FS_CardinalityType
  <1>3. 0 \in T
    <2> SUFFICES ASSUME NEW s \in SUBSET D, Cardinality(s) = 0
                 PROVE  g[s] \in 0..(h * 0)
      BY <1>2
    <2>1. s = {}
      BY RemoveSome
    <2> QED
      BY <1>1, <2>1 DEF Adds
  <1>4. \A n \in 0..N : n \in T /\ n # N => n + 1 \in T
    <2> SUFFICES ASSUME NEW n \in 0..N, n \in T, n # N,
                        NEW s \in SUBSET D, Cardinality(s) = n + 1
                 PROVE  g[s] \in 0..(h * (n + 1))
      BY <1>2
    <2>0. n \in Nat
      BY <1>2
    <2>1. s # {}
      <3>1. s = {} <=> Cardinality(s) = 0
        BY RemoveSome
      <3> QED
        BY <2>0, <3>1
    <2>2. /\ Some(s) \in s /\ s \ {Some(s)} \in SUBSET D
          /\ Cardinality(s \ {Some(s)}) = n
      <3>1. /\ Some(s) \in s /\ s \ {Some(s)} \in SUBSET D
            /\ Cardinality(s \ {Some(s)}) = Cardinality(s) - 1
        BY <2>1, RemoveSome
      <3> QED
        BY <2>0, <3>1
    <2>3. g[s] = f[Some(s)] + g[s \ {Some(s)}]
      BY <1>1, <2>1 DEF Adds
    <2>4. f[Some(s)] \in 0..h /\ g[s \ {Some(s)}] \in 0..(h * n)
      BY <2>2
    <2>5. h * (n + 1) = h * n + h /\ h * n \in Nat
      BY <2>0
    <2> QED
      BY <2>0, <2>3, <2>4, <2>5
  <1>5. N \in T
    <2> HIDE DEF T
    <2>1. N \in 0..N
      BY <1>2
    <2> HIDE DEF N
    <2> QED
      BY <1>2, <1>3, <1>4, <2>1, SetInduction
  <1> QED
    BY <1>1, <1>5

LEMMA TotalIsInt ==
    ASSUME NEW D, IsFiniteSet(D), NEW f \in [D -> Int]
    PROVE  Total(f) \in Int
  <1>1. PICK g : Adds(g, f, SUBSET D) /\ Total(f) = g[D]
    BY TotalAdds
  <1> DEFINE N == Cardinality(D)
             T == {n \in 0..N : \A s \in SUBSET D : Cardinality(s) = n => g[s] \in Int}
  <1>2. N \in Nat
    BY FS_CardinalityType
  <1>3. 0 \in T
    <2> SUFFICES ASSUME NEW s \in SUBSET D, Cardinality(s) = 0
                 PROVE  g[s] \in Int
      BY <1>2
    <2>1. s = {}
      BY RemoveSome
    <2>2. g[s] = 0
      BY <1>1, <2>1 DEF Adds
    <2> QED
      BY <2>2
  <1>4. \A n \in 0..N : n \in T /\ n # N => n + 1 \in T
    <2> SUFFICES ASSUME NEW n \in 0..N, n \in T, n # N,
                        NEW s \in SUBSET D, Cardinality(s) = n + 1
                 PROVE  g[s] \in Int
      BY <1>2
    <2>0. n \in Nat
      BY <1>2
    <2>1. s # {}
      <3>1. s = {} <=> Cardinality(s) = 0
        BY RemoveSome
      <3> QED
        BY <2>0, <3>1
    <2>2. /\ Some(s) \in s /\ s \ {Some(s)} \in SUBSET D
          /\ Cardinality(s \ {Some(s)}) = n
      <3>1. /\ Some(s) \in s /\ s \ {Some(s)} \in SUBSET D
            /\ Cardinality(s \ {Some(s)}) = Cardinality(s) - 1
        BY <2>1, RemoveSome
      <3> QED
        BY <2>0, <3>1
    <2>3. g[s] = f[Some(s)] + g[s \ {Some(s)}]
      BY <1>1, <2>1 DEF Adds
    <2>4. f[Some(s)] \in Int /\ g[s \ {Some(s)}] \in Int
      BY <2>2
    <2> QED
      BY <2>3, <2>4
  <1>5. N \in T
    <2> HIDE DEF T
    <2>1. N \in 0..N
      BY <1>2
    <2> HIDE DEF N
    <2> QED
      BY <1>2, <1>3, <1>4, <2>1, SetInduction
  <1> QED
    BY <1>1, <1>5

LEMMA AverageBounds ==
    ASSUME NEW n \in Nat \ {0}, NEW h \in Nat, NEW f \in [1..n -> 0..h]
    PROVE  Average(f) \in 0..h
  <1>1. IsFiniteSet(1..n) /\ Cardinality(1..n) = n
    BY FS_Interval
  <1>2. Total(f) \in 0..(h * n)
    <2>1. f \in [1..n -> Int] /\ \A k \in 1..n : f[k] \in 0..h
      OBVIOUS
    <2> QED
      BY <1>1, <2>1, TotalBounds
  <1>3. \A t \in 0..(h * n) : t \div n \in 0..h
    <2> SUFFICES ASSUME NEW t \in 0..(h * n) PROVE t \div n \in 0..h
      OBVIOUS
    <2> DEFINE q == t \div n
    <2>1. h * n \in Nat /\ t \in Nat /\ n > 0
      OBVIOUS
    <2>2. q \in Int /\ n * q <= t /\ t < n * q + n
      BY <2>1, Z3
    <2> HIDE DEF q
    <2>3. q >= 0
      <3> SUFFICES ASSUME q <= -1 PROVE FALSE
        BY <2>2
      <3>1. n * (q + 1) <= 0
        BY <2>2
      <3>2. n * (q + 1) = n * q + n
        BY <2>2
      <3> QED
        BY <2>1, <2>2, <3>1, <3>2
    <2>4. q <= h
      <3> SUFFICES ASSUME q >= h + 1 PROVE FALSE
        BY <2>2
      <3>1. n * q >= n * (h + 1)
        BY <2>2
      <3>2. n * (h + 1) = h * n + n
        OBVIOUS
      <3> QED
        BY <2>1, <2>2, <3>1, <3>2
    <2> QED
      BY <2>2, <2>3, <2>4 DEF q
  <1> QED
    BY <1>1, <1>2, <1>3 DEF Average

-----------------------------------------------------------------------------
(***************************************************************************)
(* The degradation model of one battery or cell.                           *)
(***************************************************************************)
LEMMA NatProduct ==
    ASSUME NEW a \in Nat, NEW b \in Nat
    PROVE  a * b \in Nat
  BY SMT

\* What a battery takes from a reading the model accepts.
Usable(n) ==
    /\ n.v \in Int /\ n.i \in Int /\ n.t \in Int /\ n.soc \in 0..SocFull
    /\ n.dt \in Nat \ {0}

\* An update publishes a valid state with the wear of the old one or more.
LEMMA UpdatedStateAges ==
    ASSUME NEW s \in DsState, NEW n, Usable(n)
    PROVE  LET next == UpdatedState(s, n)
           IN  /\ next \in DsState
               /\ next.v = n.v /\ next.i = n.i /\ next.t = n.t /\ next.soc = n.soc
               /\ next.time = s.time + n.dt
               /\ next.entropy >= s.entropy
               /\ next.degradation >= s.degradation
               /\ next.throughput >= s.throughput
  <1>1. /\ s.entropy \in 0..Saturation /\ s.degradation \in 0..Saturation
        /\ s.throughput \in Nat /\ s.time \in Nat /\ Saturation \in Nat
        /\ n.dt \in Nat
    BY DoublesAssumption, DsModelAssumption DEF DsState, Usable, Finite
  <1>2. Abs(n.i) \in Nat /\ ThermalStress(n) \in Nat
    BY DoublesAssumption, DsModelAssumption DEF Usable, Abs, ThermalStress, AtLeast, Finite
  <1>3. /\ Abs(n.i) * n.dt \in Nat /\ ThermalStress(n) * n.dt \in Nat
        /\ n.dt * (ThermalStress(n) + Abs(n.i)) \in Nat
    <2>1. ThermalStress(n) + Abs(n.i) \in Nat
      BY <1>2
    <2> QED
      BY <1>1, <1>2, <2>1, NatProduct
  <1>4. /\ RawEntropy(s, n) \in Nat /\ RawEntropy(s, n) >= s.entropy
        /\ RawThroughput(s, n) \in Nat /\ RawThroughput(s, n) >= s.throughput
        /\ RawDegradation(s, n) \in Nat /\ RawDegradation(s, n) >= s.degradation
    BY <1>1, <1>3 DEF RawEntropy, RawThroughput, RawDegradation
  <1>5. \A x \in Nat, y \in 0..Saturation :
           x >= y => AtMost(x, Saturation) \in 0..Saturation /\ AtMost(x, Saturation) >= y
    BY <1>1 DEF AtMost
  <1>6. /\ AtMost(RawEntropy(s, n), Saturation) \in 0..Saturation
        /\ AtMost(RawEntropy(s, n), Saturation) >= s.entropy
        /\ AtMost(RawDegradation(s, n), Saturation) \in 0..Saturation
        /\ AtMost(RawDegradation(s, n), Saturation) >= s.degradation
    BY <1>1, <1>4, <1>5
  <1>7. s.time + n.dt \in Nat
    BY <1>1
  <1> QED
    BY <1>4, <1>6, <1>7 DEF UpdatedState, DsState, Usable

\* A battery that wore is forecast to have no more capacity left than before.
LEMMA WornIsNotHealed ==
    ASSUME NEW s \in DsState, NEW next \in DsState,
           next.entropy >= s.entropy, next.degradation >= s.degradation,
           next.throughput >= s.throughput
    PROVE  NotHealed(s, next)
  <1>1. s.degradation \in Int /\ next.degradation \in Int /\ Saturation \in Int
    BY DoublesAssumption, DsModelAssumption DEF DsState, Finite
  <1>2. RemainingCapacity(next, 1) <= RemainingCapacity(s, 1)
    BY <1>1 DEF RemainingCapacity, AtLeast
  <1> QED
    BY <1>2 DEF NotHealed

LEMMA SameIsNotHealed ==
    ASSUME NEW s \in DsState
    PROVE  NotHealed(s, s)
  <1>1. s.entropy \in Int /\ s.degradation \in Int /\ s.throughput \in Int
    BY DEF DsState
  <1> QED
    BY <1>1, WornIsNotHealed

\* enhance hands the model what it can use: the configuration's limits are finite.
LEMMA NormalisedIsUsable ==
    ASSUME NEW c \in DsConfigType, ValidDsConfig(c), NEW r \in Reading, ValidSensors(r)
    PROVE  /\ Usable(Normalised(c, r))
           /\ Normalised(c, r).dt = r.dt /\ Normalised(c, r).v = r.v
  <1>1. /\ Normalised(c, r).v = r.v /\ Normalised(c, r).dt = r.dt
        /\ Normalised(c, r).i = Clamp(r.i, -c.maxCurrent, c.maxCurrent)
        /\ Normalised(c, r).t = Clamp(r.t, c.minTemp, c.maxTemp)
        /\ Normalised(c, r).soc = Clamp(r.soc, 0, SocFull)
    BY DEF Normalised, Reading
  <1>2. /\ r.v \in Int /\ r.i \in Int /\ r.t \in Int /\ r.soc \in Int
        /\ r.dt \in Int /\ r.dt > 0
    BY DoublesAssumption DEF ValidSensors, IsFinite, Finite
  <1>3. /\ c.maxTemp \in Int /\ c.minTemp \in Int /\ c.maxCurrent \in Int
    BY DoublesAssumption DEF ValidDsConfig, IsFinite, Finite
  <1>4. SocFull \in Nat
    BY DoublesAssumption, DsModelAssumption DEF Finite
  <1>5. /\ Clamp(r.i, -c.maxCurrent, c.maxCurrent) \in Int
        /\ Clamp(r.t, c.minTemp, c.maxTemp) \in Int
    BY <1>2, <1>3 DEF Clamp
  <1>6. \A x \in Int : Clamp(x, 0, SocFull) \in 0..SocFull
    BY <1>4 DEF Clamp
  <1>8. Normalised(c, r).i \in Int /\ Normalised(c, r).t \in Int
    BY <1>1, <1>5
  <1>9. Normalised(c, r).soc \in 0..SocFull
    BY <1>1, <1>2, <1>6
  <1>10. Normalised(c, r).v \in Int /\ Normalised(c, r).dt \in Nat \ {0}
    BY <1>1, <1>2
  <1> QED
    BY <1>1, <1>8, <1>9, <1>10 DEF Usable

LEMMA FreshIsState == FreshState \in DsState
  BY DoublesAssumption, DsModelAssumption DEF FreshState, DsState, Finite

\* The trust history keeps at most the voltages it was given.
LEMMA RememberKeeps ==
    ASSUME NEW history \in Seq(Int), NEW x \in Int
    PROVE  Remember(history, x) \in Seq(Int)
  <1> DEFINE longer == Append(history, x)
  <1>1. longer \in Seq(Int) /\ Len(longer) = Len(history) + 1 /\ Len(history) \in Nat
    OBVIOUS
  <1> HIDE DEF longer
  <1>2. longer # <<>>
    BY <1>1
  <1>3. Tail(longer) \in Seq(Int)
    BY <1>1, <1>2
  <1> QED
    BY <1>1, <1>3 DEF Remember, longer

Cores == [state : DsState, history : Seq(Int)]

LEMMA EnhancedAges ==
    ASSUME NEW c \in DsConfigType, ValidDsConfig(c), NEW b \in Cores,
           NEW r \in Reading, ValidSensors(r)
    PROVE  /\ Enhanced(c, b, r) \in Cores
           /\ NotHealed(b.state, Enhanced(c, b, r).state)
           /\ Enhanced(c, b, r).state.degradation >= b.state.degradation
  <1> DEFINE next == UpdatedState(b.state, Normalised(c, r))
  <1>1. b.state \in DsState /\ b.history \in Seq(Int)
    BY DEF Cores
  <1>2. /\ Usable(Normalised(c, r)) /\ Normalised(c, r).v = r.v
    BY NormalisedIsUsable
  <1>3. /\ next \in DsState
        /\ next.entropy >= b.state.entropy
        /\ next.degradation >= b.state.degradation
        /\ next.throughput >= b.state.throughput
    BY <1>1, <1>2, UpdatedStateAges
  <1> HIDE DEF next
  <1>4. NotHealed(b.state, next)
    BY <1>1, <1>3, WornIsNotHealed
  <1>5. Remember(b.history, r.v) \in Seq(Int)
    BY <1>1, <1>2, RememberKeeps DEF Usable
  <1>6. /\ Enhanced(c, b, r).state = next
        /\ Enhanced(c, b, r) = [state |-> next,
             history |-> IF c.feen THEN Remember(b.history, r.v) ELSE b.history]
    BY DEF Enhanced, next
  <1> QED
    BY <1>1, <1>3, <1>4, <1>5, <1>6 DEF Cores

-----------------------------------------------------------------------------
(***************************************************************************)
(* The cells of a pack.                                                    *)
(***************************************************************************)
Cell == [state : DsState, weak : BOOLEAN]
Stats ==
    [current : Int, voltage : Int, temperature : Int,
     minV : Int, maxV : Int, minT : Int, maxT : Int]

\* The least and the greatest of finitely many integers exist.
LEMMA ExtremesExist ==
    ASSUME NEW n \in Nat \ {0}, NEW f \in [1..n -> Int]
    PROVE  Least(f) \in Int /\ Greatest(f) \in Int
  <1> DEFINE T == {m \in 1..n : \E k, l \in 1..m : \A j \in 1..m : f[k] <= f[j] /\ f[l] >= f[j]}
             U == {m \in 0..(n - 1) : m + 1 \in T}
  <1>1. n - 1 \in Nat
    OBVIOUS
  <1>2. 0 \in U
    <2>1. \A j \in 1..1 : f[1] <= f[j] /\ f[1] >= f[j]
      OBVIOUS
    <2>2. 1 \in 1..n /\ 1 \in 1..1
      OBVIOUS
    <2> QED
      BY <2>1, <2>2
  <1>3. \A m \in 0..(n - 1) : m \in U /\ m # n - 1 => m + 1 \in U
    <2> SUFFICES ASSUME NEW m \in 0..(n - 1), m + 1 \in T, m # n - 1
                 PROVE  m + 1 \in 0..(n - 1) /\ m + 1 + 1 \in T
      OBVIOUS
    <2>1. PICK k, l \in 1..(m + 1) : \A j \in 1..(m + 1) : f[k] <= f[j] /\ f[l] >= f[j]
      OBVIOUS
    <2>2. m + 2 \in 1..n /\ m + 2 \in 1..(m + 2) /\ m + 1 \in 0..(n - 1) /\ m + 1 + 1 = m + 2
          /\ m \in Nat
      OBVIOUS
    <2> DEFINE low == IF f[m + 2] < f[k] THEN m + 2 ELSE k
               high == IF f[m + 2] > f[l] THEN m + 2 ELSE l
    <2>3. low \in 1..(m + 2) /\ high \in 1..(m + 2)
      BY <2>2
    <2>4. ASSUME NEW j \in 1..(m + 2)
          PROVE  f[low] <= f[j] /\ f[high] >= f[j]
      <3>1. f[m + 2] \in Int /\ f[k] \in Int /\ f[l] \in Int /\ f[j] \in Int
        BY <2>2
      <3>2. CASE j = m + 2
        BY <3>1, <3>2
      <3>3. CASE j # m + 2
        <4>1. j \in 1..(m + 1)
          BY <2>2, <3>3
        <4>2. f[k] <= f[j] /\ f[l] >= f[j]
          BY <2>1, <4>1
        <4> QED
          BY <3>1, <4>2
      <3> QED
        BY <3>2, <3>3
    <2> HIDE DEF low, high
    <2>5. \E kk, ll \in 1..(m + 2) : \A j \in 1..(m + 2) : f[kk] <= f[j] /\ f[ll] >= f[j]
      BY <2>3, <2>4
    <2> QED
      BY <2>2, <2>5
  <1>4. n - 1 \in U
    <2> HIDE DEF U
    <2>1. n - 1 \in 0..(n - 1)
      BY <1>1
    <2> QED
      BY <1>1, <1>2, <1>3, <2>1, SetInduction
  <1>5. n \in T
    BY <1>4
  <1>6. PICK k, l \in 1..n : \A j \in 1..n : f[k] <= f[j] /\ f[l] >= f[j]
    BY <1>5
  <1> DEFINE values == {f[k_] : k_ \in DOMAIN f}
  <1>7. Least(f) \in values
    BY <1>6 DEF Least
  <1>8. Greatest(f) \in values
    BY <1>6 DEF Greatest
  <1> QED
    BY <1>7, <1>8

\* What is computed of a sequence of valid cells.
LEMMA FieldRange ==
    ASSUME NEW cells \in Seq(Cell)
    PROVE  /\ DOMAIN cells = 1..Len(cells) /\ Len(cells) \in Nat
           /\ \A k \in DOMAIN cells : cells[k] \in Cell /\ cells[k].state \in DsState
           /\ \A name \in {"v", "i", "t", "soc", "entropy", "degradation", "throughput"} :
                 Field(cells, name) \in [1..Len(cells) -> Int]
           /\ Field(cells, "soc") \in [1..Len(cells) -> 0..SocFull]
           /\ Field(cells, "degradation") \in [1..Len(cells) -> 0..Saturation]
           /\ SocFull \in Nat /\ Saturation \in Nat
  <1>1. DOMAIN cells = 1..Len(cells) /\ Len(cells) \in Nat
    OBVIOUS
  <1>2. \A k \in DOMAIN cells : cells[k] \in Cell /\ cells[k].state \in DsState
    <2>1. \A k \in DOMAIN cells : cells[k] \in Cell
      BY <1>1
    <2>2. \A x \in Cell : x.state \in DsState
      BY DEF Cell
    <2> QED
      BY <2>1, <2>2
  <1>3. SocFull \in Nat /\ Saturation \in Nat
    BY DoublesAssumption, DsModelAssumption DEF Finite
  <1>4. ASSUME NEW s \in DsState,
               NEW name \in {"v", "i", "t", "soc", "entropy", "degradation", "throughput"}
        PROVE  s[name] \in Int
    BY <1>3, <1>4 DEF DsState
  <1>5. \A s \in DsState : s["soc"] \in 0..SocFull /\ s["degradation"] \in 0..Saturation
    BY DEF DsState
  <1> QED
    BY <1>1, <1>2, <1>3, <1>4, <1>5 DEF Field

CellSamples == [volts : Seq(Double), temps : Seq(Double), i : Double, dt : Double]

\* A sample the pack accepts gives each cell what the model can use.
LEMMA SensorsUsable ==
    ASSUME NEW p \in Profile, p.minV < p.maxV, NEW pack \in Packs, NEW r \in CellSamples,
           ValidSample(pack, r), NEW k \in DOMAIN pack.cells
    PROVE  /\ Usable(CellSensors(p, r, k))
           /\ CellSensors(p, r, k).i = r.i /\ CellSensors(p, r, k).dt = r.dt
  <1>1. pack.cells \in Seq(Cell)
    BY DEF Packs, Cell
  <1>2. r.volts \in Seq(Double) /\ r.temps \in Seq(Double)
    BY DEF CellSamples
  <1>3. k \in DOMAIN r.volts /\ k \in DOMAIN r.temps
    BY <1>1, <1>2 DEF ValidSample
  <1>4. r.volts[k] \in Int /\ r.temps[k] \in Int /\ r.i \in Int /\ r.dt \in Int /\ r.dt > 0
    BY <1>3, DoublesAssumption DEF ValidSample, IsFinite, Finite
  <1>5. p.minV \in Int /\ p.maxV \in Int /\ SocFull \in Nat
    BY DoublesAssumption, DsModelAssumption DEF Profile, Finite
  <1>6. \A q \in Int : Clamp(q, 0, SocFull) \in 0..SocFull
    BY <1>5 DEF Clamp
  <1> DEFINE above == (r.volts[k] - p.minV) * SocFull
             range == p.maxV - p.minV
  <1>7. above \in Int /\ range \in Nat \ {0}
    BY <1>4, <1>5
  <1>8. above \div range \in Int
    <2> HIDE DEF above, range
    <2> QED
      BY <1>7
  <1>9. CellSensors(p, r, k).soc \in 0..SocFull
    <2>1. CellSensors(p, r, k).soc = Clamp(above \div range, 0, SocFull)
      BY DEF CellSensors
    <2> HIDE DEF above, range
    <2> QED
      BY <1>6, <1>8, <2>1
  <1>10. /\ CellSensors(p, r, k).v = r.volts[k] /\ CellSensors(p, r, k).t = r.temps[k]
         /\ CellSensors(p, r, k).i = r.i /\ CellSensors(p, r, k).dt = r.dt
    BY DEF CellSensors
  <1> QED
    BY <1>4, <1>9, <1>10 DEF Usable

\* The cells before and after a sample: one more interval, the same current,
\* and no wear taken back.
AgedBy(old, new, r) ==
    /\ new \in Seq(Cell) /\ Len(new) = Len(old)
    /\ \A k \in 1..Len(old) :
          /\ new[k].state.time = old[k].state.time + r.dt
          /\ new[k].state.i = r.i
          /\ NotHealed(old[k].state, new[k].state)

LEMMA AgedCellsAge ==
    ASSUME NEW p \in Profile, p.minV < p.maxV, NEW pack \in Packs, NEW r \in CellSamples,
           ValidSample(pack, r)
    PROVE  AgedBy(pack.cells, AgedCells(p, pack, r), r)
  <1> DEFINE old == pack.cells
             new == AgedCells(p, pack, r)
             State(k) == UpdatedState(old[k].state, CellSensors(p, r, k))
  <1>1. old \in Seq(Cell)
    BY DEF Packs, Cell
  <1>2. DOMAIN old = 1..Len(old) /\ Len(old) \in Nat
    BY <1>1
  <1>3. \A k \in 1..Len(old) : old[k] \in Cell /\ old[k].state \in DsState
    BY <1>1, <1>2, FieldRange
  <1>4. ASSUME NEW k \in 1..Len(old)
        PROVE  /\ State(k) \in DsState
               /\ State(k).time = old[k].state.time + r.dt
               /\ State(k).i = r.i
               /\ NotHealed(old[k].state, State(k))
    <2>1. old[k].state \in DsState
      BY <1>3
    <2>2. k \in DOMAIN pack.cells
      BY <1>2
    <2>3. /\ Usable(CellSensors(p, r, k))
          /\ CellSensors(p, r, k).i = r.i /\ CellSensors(p, r, k).dt = r.dt
      BY <2>2, SensorsUsable
    <2>4. /\ State(k) \in DsState /\ State(k).i = CellSensors(p, r, k).i
          /\ State(k).time = old[k].state.time + CellSensors(p, r, k).dt
          /\ State(k).entropy >= old[k].state.entropy
          /\ State(k).degradation >= old[k].state.degradation
          /\ State(k).throughput >= old[k].state.throughput
      BY <2>1, <2>3, UpdatedStateAges
    <2> HIDE DEF State
    <2>5. NotHealed(old[k].state, State(k))
      BY <2>1, <2>4, WornIsNotHealed
    <2> QED
      BY <2>3, <2>4, <2>5
  <1>5. new = [k \in 1..Len(old) |-> [old[k] EXCEPT !.state = State(k)]]
    BY <1>2 DEF AgedCells
  <1> HIDE DEF old, new, State
  <1>6. \A k \in 1..Len(old) : new[k] \in Cell /\ new[k].state = State(k)
    BY <1>3, <1>4, <1>5 DEF Cell
  <1>7. new \in Seq(Cell) /\ Len(new) = Len(old)
    BY <1>2, <1>5, <1>6
  <1>8. AgedBy(old, new, r)
    BY <1>4, <1>6, <1>7 DEF AgedBy
  <1> QED
    BY <1>8 DEF old, new

\* Flagging the weak cells changes nothing the flags are computed from.
LEMMA FlaggedKeeps ==
    ASSUME NEW cells \in Seq(Cell)
    PROVE  /\ Flagged(cells) \in Seq(Cell) /\ Len(Flagged(cells)) = Len(cells)
           /\ DOMAIN Flagged(cells) = DOMAIN cells
           /\ \A k \in 1..Len(cells) :
                 /\ Flagged(cells)[k].state = cells[k].state
                 /\ Flagged(cells)[k].weak = Weak(Flagged(cells), k)
           /\ \A name : Field(Flagged(cells), name) = Field(cells, name)
  <1> DEFINE new == Flagged(cells)
  <1>1. DOMAIN cells = 1..Len(cells) /\ Len(cells) \in Nat /\ \A k \in 1..Len(cells) : cells[k] \in Cell
    BY FieldRange
  <1>2. new = [k \in 1..Len(cells) |-> [cells[k] EXCEPT !.weak = Weak(cells, k)]]
    BY <1>1 DEF Flagged
  <1>3. \A k \in 1..Len(cells) : Weak(cells, k) \in BOOLEAN
    BY DEF Weak
  <1> HIDE DEF new
  <1>4. \A k \in 1..Len(cells) :
           new[k] \in Cell /\ new[k].state = cells[k].state /\ new[k].weak = Weak(cells, k)
    BY <1>1, <1>2, <1>3 DEF Cell
  <1>5. new \in Seq(Cell) /\ Len(new) = Len(cells) /\ DOMAIN new = DOMAIN cells
    BY <1>1, <1>2, <1>4
  <1>6. \A name : Field(new, name) = Field(cells, name)
    BY <1>1, <1>4, <1>5 DEF Field
  <1>7. \A k \in 1..Len(cells) : Weak(new, k) = Weak(cells, k)
    BY <1>4, <1>5, <1>6 DEF Weak
  <1>8. /\ new \in Seq(Cell) /\ Len(new) = Len(cells) /\ DOMAIN new = DOMAIN cells
        /\ \A k \in 1..Len(cells) :
              new[k].state = cells[k].state /\ new[k].weak = Weak(new, k)
        /\ \A name : Field(new, name) = Field(cells, name)
    BY <1>4, <1>5, <1>6, <1>7
  <1> QED
    BY <1>8 DEF new

LEMMA AverageIsInt ==
    ASSUME NEW n \in Nat \ {0}, NEW f \in [1..n -> Int]
    PROVE  Average(f) \in Int
  <1>1. IsFiniteSet(1..n) /\ Cardinality(1..n) = n
    BY FS_Interval
  <1>2. Total(f) \in Int
    BY <1>1, TotalIsInt
  <1>3. Average(f) = Total(f) \div n
    BY <1>1 DEF Average
  <1> QED
    BY <1>2, <1>3

\* The statistics of a pack with cells are integers.
LEMMA StatisticsType ==
    ASSUME NEW cells \in Seq(Cell), cells # <<>>, NEW c \in Int
    PROVE  Statistics(cells, c) \in Stats
  <1> DEFINE n == Len(cells)
  <1>1. n \in Nat \ {0} /\ DOMAIN cells = 1..n
    BY FieldRange
  <1>2. Field(cells, "v") \in [1..n -> Int] /\ Field(cells, "t") \in [1..n -> Int]
    BY FieldRange
  <1> HIDE DEF n
  <1>3. IsFiniteSet(1..n) /\ Cardinality(1..n) = n
    BY <1>1, FS_Interval
  <1>4. Total(Field(cells, "v")) \in Int /\ Total(Field(cells, "t")) \in Int
    BY <1>2, <1>3, TotalIsInt
  <1>5. Average(Field(cells, "t")) \in Int
    BY <1>1, <1>2, AverageIsInt
  <1>6. /\ Least(Field(cells, "v")) \in Int /\ Greatest(Field(cells, "v")) \in Int
        /\ Least(Field(cells, "t")) \in Int /\ Greatest(Field(cells, "t")) \in Int
    BY <1>1, <1>2, ExtremesExist
  <1> QED
    BY <1>4, <1>5, <1>6 DEF Statistics, Stats

OneClock(cells) == \A k \in 1..Len(cells) : cells[k].state.time = cells[1].state.time

\* The part of PackIsOneSample that is about the pack alone.
OfOneSample(pack) ==
    /\ OneClock(pack.cells)
    /\ (pack.cells # <<>> /\ pack.cells[1].state.time > 0) =>
          /\ \A k \in 1..Len(pack.cells) :
                /\ pack.cells[k].state.i = pack.stats.current
                /\ pack.cells[k].weak = Weak(pack.cells, k)
          /\ pack.stats = Statistics(pack.cells, pack.stats.current)

LEMMA UpdatedPackIsOfOneSample ==
    ASSUME NEW p \in Profile, p.minV < p.maxV, NEW pack \in Packs, NEW r \in CellSamples,
           ValidSample(pack, r), OneClock(pack.cells)
    PROVE  LET new == UpdatedPack(p, pack, r)
           IN  /\ new \in Packs /\ new.cells # <<>>
               /\ AgedBy(pack.cells, new.cells, r)
               /\ OfOneSample(new)
  <1> DEFINE old == pack.cells
             aged == AgedCells(p, pack, r)
             cells == Flagged(aged)
             stats == Statistics(aged, r.i)
             new == UpdatedPack(p, pack, r)
  <1>1. AgedBy(old, aged, r)
    BY AgedCellsAge
  <1>2. old # <<>> /\ old \in Seq(Cell) /\ r.i \in Int
    BY DoublesAssumption DEF ValidSample, Packs, Cell, IsFinite, Finite
  <1>3. Len(old) \in Nat \ {0}
    BY <1>2
  <1>4. new = [cells |-> cells, stats |-> stats]
    BY DEF UpdatedPack
  <1> HIDE DEF aged, old, new
  <1>5. aged \in Seq(Cell) /\ Len(aged) = Len(old) /\ aged # <<>>
    BY <1>1, <1>3 DEF AgedBy
  <1>6. /\ cells \in Seq(Cell) /\ Len(cells) = Len(aged)
        /\ \A k \in 1..Len(aged) :
              cells[k].state = aged[k].state /\ cells[k].weak = Weak(cells, k)
        /\ DOMAIN cells = DOMAIN aged
        /\ \A name : Field(cells, name) = Field(aged, name)
    BY <1>5, FlaggedKeeps
  <1>7. stats \in Stats /\ stats.current = r.i
    <2>1. stats \in Stats
      BY <1>2, <1>5, StatisticsType
    <2> QED
      BY <2>1 DEF Statistics
  <1>8. stats = Statistics(cells, r.i)
    BY <1>6 DEF Statistics
  <1> HIDE DEF cells, stats
  <1>9. new \in Packs
    BY <1>4, <1>6, <1>7 DEF Packs, Cell, Stats
  <1>10. AgedBy(old, cells, r)
    BY <1>1, <1>5, <1>6 DEF AgedBy
  <1>11. OneClock(cells)
    <2>1. \A k \in 1..Len(old) : cells[k].state.time = old[k].state.time + r.dt
      BY <1>10 DEF AgedBy
    <2>2. Len(cells) = Len(old) /\ 1 \in 1..Len(old)
      BY <1>3, <1>5, <1>6
    <2>3. \A k \in 1..Len(old) : old[k].state.time = old[1].state.time
      BY DEF OneClock, old
    <2> QED
      BY <2>1, <2>2, <2>3 DEF OneClock
  <1>12. \A k \in 1..Len(cells) : cells[k].state.i = r.i /\ cells[k].weak = Weak(cells, k)
    BY <1>5, <1>6, <1>10 DEF AgedBy
  <1>13. cells # <<>>
    BY <1>3, <1>5, <1>6
  <1>14. OfOneSample(new)
    BY <1>4, <1>7, <1>8, <1>11, <1>12 DEF OfOneSample
  <1> QED
    BY <1>4, <1>9, <1>10, <1>13, <1>14 DEF new, old

\* The filter of an average within its range is the average.
LEMMA FilteredKeeps ==
    ASSUME NEW h \in Nat, NEW x \in 0..h
    PROVE  Filtered(x, x, h) = x
  <1>1. Gain \in Int /\ GainUnit \in Nat \ {0}
    BY MultiCellPackAssumption
  <1>2. Gain * (x - x) = 0 /\ 0 \div GainUnit = 0
    BY <1>1
  <1>3. x + (Gain * (x - x)) \div GainUnit = x
    BY <1>2
  <1> QED
    BY <1>3 DEF Filtered, Clamp

LEMMA CellAverages ==
    ASSUME NEW cells \in Seq(Cell), cells # <<>>
    PROVE  /\ \A name \in {"v", "i", "t", "soc", "entropy", "degradation", "throughput"} :
                 Average(Field(cells, name)) \in Int
           /\ Average(Field(cells, "soc")) \in 0..SocFull
           /\ Average(Field(cells, "degradation")) \in 0..Saturation
  <1> DEFINE n == Len(cells)
  <1>1. n \in Nat \ {0} /\ SocFull \in Nat /\ Saturation \in Nat
    BY FieldRange
  <1>2. /\ \A name \in {"v", "i", "t", "soc", "entropy", "degradation", "throughput"} :
              Field(cells, name) \in [1..n -> Int]
        /\ Field(cells, "soc") \in [1..n -> 0..SocFull]
        /\ Field(cells, "degradation") \in [1..n -> 0..Saturation]
    BY FieldRange
  <1> HIDE DEF n
  <1>3. Average(Field(cells, "soc")) \in 0..SocFull
    BY <1>1, <1>2, AverageBounds
  <1>4. Average(Field(cells, "degradation")) \in 0..Saturation
    BY <1>1, <1>2, AverageBounds
  <1>5. ASSUME NEW name \in {"v", "i", "t", "soc", "entropy", "degradation", "throughput"}
        PROVE  Average(Field(cells, name)) \in Int
    BY <1>1, <1>2, AverageIsInt
  <1> QED
    BY <1>3, <1>4, <1>5

\* Where update fails changes what follows the pack and the filter, not them.
FilterHolds(s) ==
    s.kalman => s.filter = [soc |-> Average(Field(s.pack.cells, "soc")),
                            degradation |-> Average(Field(s.pack.cells, "degradation"))]

LEMMA CommittedIsOfOneSample ==
    ASSUME NEW s \in Systems, s.pack # Null, s.chemistry \in DOMAIN Library,
           NEW r \in CellSamples, ValidSample(s.pack, r),
           OneClock(s.pack.cells), s.grouped <= s.listed, NEW point
    PROVE  LET new == CommittedAt(s, r, point)
           IN  /\ new \in Systems /\ new.pack # Null /\ new.chemistry = s.chemistry
               /\ new.pack \in Packs /\ new.pack.cells # <<>>
               /\ AgedBy(s.pack.cells, new.pack.cells, r)
               /\ OfOneSample(new.pack) /\ FilterHolds(new)
               /\ new.grouped <= new.listed
  <1> DEFINE pack == UpdatedPack(Library[s.chemistry], s.pack, r)
             soc == Average(Field(pack.cells, "soc"))
             deg == Average(Field(pack.cells, "degradation"))
             entropy == Average(Field(pack.cells, "entropy"))
             filter == IF s.kalman
                       THEN [soc |-> Filtered(soc, soc, SocFull),
                             degradation |-> Filtered(deg, deg, Saturation)]
                       ELSE s.filter
             first == CommitPack(s, r)
             second == Predict(first)
             third == ListInFleet(second)
             fourth == GroupInFleet(third)
  <1>1. s.pack \in Packs /\ Library[s.chemistry] \in Profile
        /\ Library[s.chemistry].minV < Library[s.chemistry].maxV
    BY MultiCellPackAssumption DEF Systems
  <1>2. /\ pack \in Packs /\ pack.cells # <<>>
        /\ AgedBy(s.pack.cells, pack.cells, r) /\ OfOneSample(pack)
    BY <1>1, UpdatedPackIsOfOneSample
  <1>3. pack # Null
    BY <1>2, MultiCellPackAssumption
  <1>4. first = [s EXCEPT !.pack = pack, !.entropy = entropy, !.filter = filter]
    BY DEF CommitPack
  <1> HIDE DEF pack
  <1>5. pack.cells \in Seq(Cell)
    BY <1>2 DEF Packs, Cell
  <1>6. /\ soc \in 0..SocFull /\ deg \in 0..Saturation /\ entropy \in Int
        /\ SocFull \in Nat /\ Saturation \in Nat
    <2>1. /\ soc \in 0..SocFull /\ deg \in 0..Saturation
      BY <1>2, <1>5, CellAverages
    <2>2. entropy \in Int
      BY <1>2, <1>5, CellAverages
    <2> QED
      BY <1>5, <2>1, <2>2, FieldRange
  <1> HIDE DEF soc, deg, entropy
  <1>7. Filtered(soc, soc, SocFull) = soc /\ Filtered(deg, deg, Saturation) = deg
    BY <1>6, FilteredKeeps
  <1>8. /\ filter \in [soc : Int, degradation : Int]
        /\ s.kalman => filter = [soc |-> soc, degradation |-> deg]
    <2>1. s.filter \in [soc : Int, degradation : Int]
      BY DEF Systems
    <2>2. soc \in Int /\ deg \in Int
      BY <1>6
    <2> QED
      BY <1>7, <2>1, <2>2
  <1> HIDE DEF filter
  <1>9. /\ first \in Systems /\ first.pack = pack /\ first.chemistry = s.chemistry
        /\ first.kalman = s.kalman /\ first.filter = filter
        /\ first.listed = s.listed /\ first.grouped = s.grouped
    BY <1>2, <1>4, <1>6, <1>8 DEF Systems
  <1> HIDE DEF first
  <1>10. Prediction(pack.cells) \in Int
    <2>1. \A name \in {"v", "i", "t", "soc", "entropy", "degradation", "throughput"} :
             Average(Field(pack.cells, name)) \in Int
      BY <1>2, <1>5, CellAverages
    <2>2. /\ Average(Field(pack.cells, "v")) \in Int /\ Average(Field(pack.cells, "i")) \in Int
          /\ Average(Field(pack.cells, "t")) \in Int /\ Average(Field(pack.cells, "soc")) \in Int
          /\ Average(Field(pack.cells, "entropy")) \in Int
          /\ Average(Field(pack.cells, "degradation")) \in Int
          /\ Average(Field(pack.cells, "throughput")) \in Int
      BY <2>1
    <2> QED
      BY <2>2 DEF Prediction, AtLeast
  <1>11. /\ second \in Systems /\ second.pack = pack /\ second.chemistry = s.chemistry
         /\ second.kalman = s.kalman /\ second.filter = filter
         /\ second.listed = s.listed /\ second.grouped = s.grouped
    BY <1>9, <1>10 DEF Predict, Systems
  <1> HIDE DEF second
  <1>12. s.listed \in Nat /\ s.grouped \in Nat
    BY DEF Systems
  <1>13. /\ third \in Systems /\ third.pack = pack /\ third.chemistry = s.chemistry
         /\ third.kalman = s.kalman /\ third.filter = filter
         /\ third.listed = IF second.fleet THEN s.listed + 1 ELSE s.listed
         /\ third.grouped = s.grouped /\ third.fleet = second.fleet
    BY <1>11, <1>12 DEF ListInFleet, Systems
  <1> HIDE DEF third
  <1>14. /\ fourth \in Systems /\ fourth.pack = pack /\ fourth.chemistry = s.chemistry
         /\ fourth.kalman = s.kalman /\ fourth.filter = filter
         /\ fourth.listed = third.listed
         /\ fourth.grouped = IF second.fleet THEN s.grouped + 1 ELSE s.grouped
    BY <1>12, <1>13 DEF GroupInFleet, Systems
  <1> HIDE DEF fourth
  <1> DEFINE Done(new) ==
        /\ new \in Systems /\ new.pack = pack /\ new.chemistry = s.chemistry
        /\ new.kalman = s.kalman /\ new.filter = filter
        /\ new.grouped <= new.listed
  <1>15. Done(first) /\ Done(second) /\ Done(third) /\ Done(fourth)
    BY <1>9, <1>11, <1>12, <1>13, <1>14
  <1>16. CommittedAt(s, r, point) \in {first, second, third, fourth}
    BY DEF CommittedAt, first, second, third, fourth
  <1>17. Done(CommittedAt(s, r, point))
    BY <1>15, <1>16
  <1>18. \A new : Done(new) => FilterHolds(new)
    BY <1>8 DEF FilterHolds, soc, deg
  <1> QED
    BY <1>2, <1>3, <1>17, <1>18

-----------------------------------------------------------------------------
(***************************************************************************)
(* The objects the middleware holds.  A step rebuilds the battery,         *)
(* replaces the system, ages the battery, ages the pack or leaves both as  *)
(* they are.                                                               *)
(***************************************************************************)
Built(ds) == [ready |-> ValidDsConfig(ds), config |-> ds, core |-> FreshCore]

Sound(c) == c.chemistry \in DOMAIN Library /\ c.cells >= 0

Rebuilds == (\E ds \in DsConfigType : single' = Built(ds)) /\ UNCHANGED system
Replaces ==
    /\ \E c \in Configs : system' = NewSystem(c, IF Sound(c) THEN NewPack(c.cells) ELSE Null)
    /\ UNCHANGED single
Cycles == \E r \in Readings : EnhanceCycle(r)
Commits ==
    /\ \E r \in Samples, point \in {"prediction", "list", "group", "end"} :
          PackAccepts(r) /\ system' = CommittedAt(system, r, point)
    /\ ~PackMissing
    /\ UNCHANGED single
Rests == UNCHANGED <<single, system>>

Initialises ==
    \/ \E p \in SimpleInits : InitSimple(p)
    \/ \E c \in Configs :
          InitAdvancedSingle(c) \/ InitAdvancedUnknown(c) \/ InitAdvancedMulti(c)

Uses ==
    \/ \E r \in Readings : EnhanceCycle(r) \/ RejectEnhance(r) \/ EnhanceWithoutBattery(r)
    \/ \E r \in Samples :
          UpdatePack(r) \/ RejectUpdate(r) \/ UpdateWithoutPack(r) \/ UpdateRunsOut(r)
    \/ HealthForecast \/ WeakCells \/ OptimalCharging \/ ResetDiagnostics
    \/ UNCHANGED vars

LEMMA UseKinds ==
    ASSUME Uses
    PROVE  /\ UNCHANGED <<initialized, config, settled>>
           /\ Cycles \/ Commits \/ Rests
  <1>1. ASSUME NEW r \in Readings, EnhanceCycle(r)
        PROVE  UNCHANGED <<initialized, config, settled>> /\ Cycles
    BY <1>1 DEF EnhanceCycle, Ends, Cycles
  <1>2. ASSUME NEW r \in Readings, RejectEnhance(r) \/ EnhanceWithoutBattery(r)
        PROVE  UNCHANGED <<initialized, config, settled>> /\ Rests
    BY <1>2 DEF RejectEnhance, EnhanceWithoutBattery, Refuse, Collapse, Ends, Rests
  <1>3. ASSUME NEW r \in Samples, UpdatePack(r)
        PROVE  UNCHANGED <<initialized, config, settled>> /\ Commits
    BY <1>3 DEF UpdatePack, Ends, Commits
  <1>4. ASSUME NEW r \in Samples, UpdateRunsOut(r)
        PROVE  UNCHANGED <<initialized, config, settled>> /\ Commits
    <2>1. FailurePoints(system) \subseteq {"prediction", "list", "group"}
      BY DEF FailurePoints
    <2> QED
      BY <1>4, <2>1 DEF UpdateRunsOut, Ends, Commits
  <1>5. ASSUME NEW r \in Samples, RejectUpdate(r) \/ UpdateWithoutPack(r)
        PROVE  UNCHANGED <<initialized, config, settled>> /\ Rests
    BY <1>5 DEF RejectUpdate, UpdateWithoutPack, Refuse, Collapse, Ends, Rests
  <1>6. ASSUME HealthForecast \/ WeakCells \/ OptimalCharging \/ ResetDiagnostics
        PROVE  UNCHANGED <<initialized, config, settled>> /\ Rests
    BY <1>6 DEF HealthForecast, WeakCells, OptimalCharging, ResetDiagnostics, AskSingle,
                Refuse, Collapse, Answer, Ends, Rests
  <1>7. ASSUME UNCHANGED vars
        PROVE  UNCHANGED <<initialized, config, settled>> /\ Rests
    BY <1>7 DEF vars, Rests
  <1> QED
    BY <1>1, <1>2, <1>3, <1>4, <1>5, <1>6, <1>7 DEF Uses

LEMMA StepKinds ==
    ASSUME [Next]_vars
    PROVE  Rebuilds \/ Replaces \/ Cycles \/ Commits \/ Rests
  <1>1. ASSUME NEW p \in SimpleInits, InitSimple(p)
        PROVE  Rebuilds
    <2> DEFINE ds == [PackConfig EXCEPT !.capacity = p.capacity, !.voltage = p.voltage,
                                        !.maxTemp = p.maxTemp]
    <2>1. p.capacity \in Double /\ p.voltage \in Double /\ p.maxTemp \in Double
      BY LegacyMiddlewareAssumption
    <2>2. ds \in DsConfigType
      BY <2>1, MultiCellPackAssumption DEF DsConfigType
    <2> HIDE DEF ds
    <2>3. BuildSingle(ds)
      BY <1>1 DEF InitSimple, ds
    <2> QED
      BY <2>2, <2>3 DEF BuildSingle, Rebuilds, Built
  <1>2. ASSUME NEW c \in Configs, InitAdvancedSingle(c)
        PROVE  Rebuilds
    <2>1. c.capacity \in Double /\ c.cells \in Int /\ Library[c.chemistry] \in Profile
      BY <1>2, LegacyMiddlewareAssumption, MultiCellPackAssumption
      DEF InitAdvancedSingle, MiddlewareConfig
    <2>2. /\ Library[c.chemistry].nominalV * c.cells \in Double
          /\ Library[c.chemistry].maxTemp \in Double
      BY <2>1, DoublesAssumption DEF Profile, Finite, Double
    <2>3. ChemistryConfig(c) \in DsConfigType
      BY <2>1, <2>2, MultiCellPackAssumption DEF ChemistryConfig, DsConfigType
    <2> QED
      BY <1>2, <2>3 DEF InitAdvancedSingle, BuildSingle, Rebuilds, Built
  <1>3. ASSUME NEW c \in Configs, InitAdvancedUnknown(c)
        PROVE  Rests
    BY <1>3 DEF InitAdvancedUnknown, Rests
  <1>4. ASSUME NEW c \in Configs, InitAdvancedMulti(c)
        PROVE  Replaces
    BY <1>4 DEF InitAdvancedMulti, Replaces, Sound
  <1>5. [Next]_vars => Initialises \/ Uses
    BY DEF Next, Initialises, Uses
  <1> QED
    BY <1>1, <1>2, <1>3, <1>4, <1>5, UseKinds DEF Initialises

BatteryOk(b) ==
    /\ b \in Batteries
    /\ IF b.ready THEN ValidDsConfig(b.config) ELSE b.core = FreshCore

\* A pack is there only under a chemistry the library knows.
SystemOk(s) ==
    /\ s \in Systems
    /\ s.pack # Null =>
          /\ s.chemistry \in DOMAIN Library
          /\ OfOneSample(s.pack)
          /\ (s.pack.cells # <<>> /\ s.pack.cells[1].state.time > 0) => FilterHolds(s)
          /\ s.grouped <= s.listed

\* What the objects are, and that a pack is of one sample, between two calls.
ObjectsOk ==
    /\ single # Null => BatteryOk(single)
    /\ system # Null => SystemOk(system)

LEMMA BuiltIsOk ==
    ASSUME NEW ds \in DsConfigType
    PROVE  /\ BatteryOk(Built(ds)) /\ Built(ds) # Null
           /\ Built(ds).core.state = FreshState
  <1>1. FreshCore \in [state : DsState, history : Seq(Int)]
    BY FreshIsState DEF FreshCore
  <1>2. ValidDsConfig(ds) \in BOOLEAN
    BY DEF ValidDsConfig
  <1>3. Built(ds) \in Batteries
    BY <1>1, <1>2 DEF Built, Batteries
  <1>4. Built(ds).core.state = FreshState
    BY DEF Built, FreshCore
  <1> QED
    BY <1>2, <1>3, <1>4, LegacyMiddlewareAssumption DEF BatteryOk, Built

LEMMA NewPackIsOk ==
    ASSUME NEW n \in Int, n >= 0
    PROVE  /\ NewPack(n) \in Packs /\ NewPack(n) # Null /\ Len(NewPack(n).cells) = n
           /\ \A k \in 1..n : NewPack(n).cells[k].state = FreshState
           /\ OfOneSample(NewPack(n))
           /\ NewPack(n).cells # <<>> => NewPack(n).cells[1].state.time = 0
  <1> DEFINE cells == [k \in 1..n |-> FreshCell]
             stats == NewPack(n).stats
  <1>1. FreshCell \in Cell /\ FreshCell.state = FreshState /\ FreshState.time = 0
    BY FreshIsState DEF FreshCell, Cell, FreshState
  <1>2. cells \in Seq(Cell) /\ Len(cells) = n /\ \A k \in 1..n : cells[k] = FreshCell
    BY <1>1
  <1>3. stats \in Stats
    BY DEF NewPack, Stats
  <1>4. NewPack(n) = [cells |-> cells, stats |-> stats]
    BY DEF NewPack
  <1> HIDE DEF cells, stats
  <1>5. NewPack(n) \in Packs
    BY <1>2, <1>3, <1>4 DEF Packs, Cell, Stats
  <1>6. OneClock(cells)
    <2>1. \A k \in 1..n : cells[k].state.time = 0
      BY <1>1, <1>2
    <2>2. n > 0 => 1 \in 1..n
      OBVIOUS
    <2> QED
      BY <1>2, <2>1, <2>2 DEF OneClock
  <1>7. cells # <<>> => cells[1].state.time = 0
    <2>1. cells # <<>> => 1 \in 1..n
      BY <1>2
    <2> QED
      BY <1>1, <1>2, <2>1
  <1>8. OfOneSample(NewPack(n))
    BY <1>4, <1>6, <1>7 DEF OfOneSample
  <1> QED
    BY <1>1, <1>2, <1>4, <1>5, <1>7, <1>8, MultiCellPackAssumption

LEMMA NewSystemIsOk ==
    ASSUME NEW c \in Configs
    PROVE  LET new == NewSystem(c, IF Sound(c) THEN NewPack(c.cells) ELSE Null)
           IN  /\ new # Null /\ SystemOk(new)
               /\ Sound(c) => /\ new.pack # Null /\ Len(new.pack.cells) = c.cells
                              /\ \A k \in DOMAIN new.pack.cells :
                                    new.pack.cells[k].state = FreshState
  <1> DEFINE pack == IF Sound(c) THEN NewPack(c.cells) ELSE Null
             new == NewSystem(c, pack)
  <1>1. /\ c \in MiddlewareConfig /\ c.chemistry \in Chemistries /\ c.cells \in Int
        /\ c.kalman \in BOOLEAN /\ c.ml \in BOOLEAN /\ c.fleet \in BOOLEAN
    BY LegacyMiddlewareAssumption DEF MiddlewareConfig
  <1>2. Sound(c) => /\ pack \in Packs /\ pack # Null /\ Len(pack.cells) = c.cells
                    /\ \A k \in 1..c.cells : pack.cells[k].state = FreshState
                    /\ OfOneSample(pack)
                    /\ pack.cells # <<>> => pack.cells[1].state.time = 0
    BY <1>1, NewPackIsOk DEF Sound
  <1>3. ~Sound(c) => pack = Null
    OBVIOUS
  <1> HIDE DEF pack
  <1>4. new \in Systems /\ new.pack = pack /\ new.chemistry = c.chemistry
        /\ new.grouped = 0 /\ new.listed = 0
    BY <1>1, <1>2, <1>3 DEF NewSystem, Systems
  <1> HIDE DEF new
  <1>5. Sound(c) => DOMAIN pack.cells = 1..c.cells
    <2>1. Sound(c) => pack.cells \in Seq(Cell)
      BY <1>2 DEF Packs, Cell
    <2> QED
      BY <1>2, <2>1
  <1>6. new # Null /\ SystemOk(new)
    BY <1>2, <1>3, <1>4, LegacyMiddlewareAssumption DEF SystemOk, Sound
  <1> QED
    BY <1>2, <1>4, <1>5, <1>6 DEF new, pack

\* A cycle ages the battery it has under the configuration it had.
LEMMA CycleAges ==
    ASSUME ObjectsOk, NEW r \in Readings, EnhanceCycle(r)
    PROVE  /\ single # Null /\ single' # Null /\ BatteryOk(single')
           /\ single'.config = single.config /\ single.ready
           /\ NotHealed(single.core.state, single'.core.state)
           /\ single'.core.state.degradation >= single.core.state.degradation
           /\ UNCHANGED system
  <1> DEFINE core == Enhanced(single.config, single.core, r)
  <1>1. /\ single # Null /\ SingleAccepts(r) /\ single' = [single EXCEPT !.core = core]
        /\ UNCHANGED system
    BY DEF EnhanceCycle
  <1>2. single \in Batteries /\ single.ready /\ ValidDsConfig(single.config)
    BY <1>1 DEF ObjectsOk, BatteryOk, SingleAccepts
  <1>3. /\ single.config \in DsConfigType /\ single.core \in Cores
    BY <1>2 DEF Batteries, Cores
  <1>4. r \in Reading /\ ValidSensors(r)
    BY <1>1, LegacyMiddlewareAssumption DEF SingleAccepts, EnhanceSucceeds
  <1>5. /\ core \in Cores /\ NotHealed(single.core.state, core.state)
        /\ core.state.degradation >= single.core.state.degradation
    BY <1>2, <1>3, <1>4, EnhancedAges
  <1> HIDE DEF core
  <1>6. /\ single' \in Batteries /\ single'.core = core
        /\ single'.config = single.config /\ single'.ready = single.ready
    BY <1>1, <1>2, <1>5 DEF Batteries, Cores
  <1>7. BatteryOk(single')
    BY <1>2, <1>6 DEF BatteryOk
  <1> QED
    BY <1>1, <1>2, <1>5, <1>6, <1>7, LegacyMiddlewareAssumption

\* A sample the pack accepts ages all its cells, wherever memory runs out.
LEMMA CommitAges ==
    ASSUME ObjectsOk, Commits
    PROVE  /\ system # Null /\ system' # Null /\ SystemOk(system')
           /\ system.pack # Null /\ system'.pack # Null
           /\ Len(system'.pack.cells) = Len(system.pack.cells)
           /\ DOMAIN system.pack.cells = 1..Len(system.pack.cells)
           /\ \A k \in DOMAIN system.pack.cells :
                 NotHealed(system.pack.cells[k].state, system'.pack.cells[k].state)
           /\ UNCHANGED single
  <1>1. PICK r \in Samples, point \in {"prediction", "list", "group", "end"} :
           PackAccepts(r) /\ system' = CommittedAt(system, r, point)
    BY DEF Commits
  <1>2. system # Null /\ system.pack # Null /\ UNCHANGED single
    BY DEF Commits, PackMissing
  <1>3. /\ system \in Systems /\ system.chemistry \in DOMAIN Library
        /\ OfOneSample(system.pack) /\ system.grouped <= system.listed
    BY <1>2 DEF ObjectsOk, SystemOk
  <1>4. OneClock(system.pack.cells) /\ ValidSample(system.pack, r) /\ r \in CellSamples
    BY <1>1, <1>3, LegacyMiddlewareAssumption
    DEF OfOneSample, PackAccepts, PackSucceeds, CellSamples
  <1> DEFINE new == CommittedAt(system, r, point)
  <1>5. /\ new \in Systems /\ new.pack # Null /\ new.chemistry = system.chemistry
        /\ AgedBy(system.pack.cells, new.pack.cells, r)
        /\ OfOneSample(new.pack) /\ FilterHolds(new) /\ new.grouped <= new.listed
    BY <1>2, <1>3, <1>4, CommittedIsOfOneSample
  <1> HIDE DEF new
  <1>6. SystemOk(new) /\ new # Null
    BY <1>3, <1>5, LegacyMiddlewareAssumption DEF SystemOk
  <1>7. DOMAIN system.pack.cells = 1..Len(system.pack.cells)
    <2>1. system.pack \in Packs
      BY <1>2, <1>3 DEF Systems
    <2>2. system.pack.cells \in Seq(Cell)
      BY <2>1 DEF Packs, Cell
    <2> QED
      BY <2>2
  <1>8. /\ Len(new.pack.cells) = Len(system.pack.cells)
        /\ \A k \in 1..Len(system.pack.cells) :
              NotHealed(system.pack.cells[k].state, new.pack.cells[k].state)
    BY <1>5 DEF AgedBy
  <1>9. system' = new
    BY <1>1 DEF new
  <1> QED
    BY <1>2, <1>5, <1>6, <1>7, <1>8, <1>9

LEMMA ObjectsStay ==
    ASSUME ObjectsOk, [Next]_vars
    PROVE  ObjectsOk'
  <1>1. CASE Rebuilds
    <2>1. PICK ds \in DsConfigType : single' = Built(ds)
      BY <1>1 DEF Rebuilds
    <2>2. BatteryOk(single')
      BY <2>1, BuiltIsOk
    <2> QED
      BY <1>1, <2>2 DEF Rebuilds, ObjectsOk
  <1>2. CASE Replaces
    <2>1. PICK c \in Configs : system' = NewSystem(c, IF Sound(c) THEN NewPack(c.cells) ELSE Null)
      BY <1>2 DEF Replaces
    <2>2. SystemOk(system')
      BY <2>1, NewSystemIsOk
    <2> QED
      BY <1>2, <2>2 DEF Replaces, ObjectsOk
  <1>3. CASE Cycles
    <2>1. PICK r \in Readings : EnhanceCycle(r)
      BY <1>3 DEF Cycles
    <2>2. BatteryOk(single') /\ UNCHANGED system
      BY <2>1, CycleAges
    <2> QED
      BY <2>2 DEF ObjectsOk
  <1>4. CASE Commits
    <2>1. SystemOk(system') /\ UNCHANGED single
      BY <1>4, CommitAges
    <2> QED
      BY <2>1 DEF ObjectsOk
  <1>5. CASE Rests
    BY <1>5 DEF Rests, ObjectsOk
  <1> QED
    BY <1>1, <1>2, <1>3, <1>4, <1>5, StepKinds

LEMMA ObjectsInvariant == Spec => []ObjectsOk
  <1>1. Init => ObjectsOk
    BY DEF Init, ObjectsOk
  <1>2. ObjectsOk /\ [Next]_vars => ObjectsOk'
    BY ObjectsStay
  <1> QED
    BY <1>1, <1>2, PTL DEF Spec

-----------------------------------------------------------------------------
(***************************************************************************)
(* The properties.                                                         *)
(***************************************************************************)

\* A pack is of one sample: cells, statistics, weak-cell flags and filter
\* never mix two samples, though samples are refused and memory runs out
\* between the parts of AdvancedDSSystem::update.
THEOREM PackCorrect == Spec => []PackIsOneSample
  <1>1. ObjectsOk => PackIsOneSample
    <2> SUFFICES ASSUME ObjectsOk, ~PackMissing, system.pack.cells # <<>>,
                        system.pack.cells[1].state.time > 0
                 PROVE  PackIsOneSample
      BY DEF PackIsOneSample
    <2>1. /\ system \in Systems /\ system.pack # Null /\ OfOneSample(system.pack)
          /\ FilterHolds(system) /\ system.grouped <= system.listed
      BY DEF ObjectsOk, SystemOk, PackMissing
    <2>2. system.pack.cells \in Seq(Cell)
      <3>1. system.pack \in Packs
        BY <2>1 DEF Systems
      <3> QED
        BY <3>1 DEF Packs, Cell
    <2>3. DOMAIN system.pack.cells = 1..Len(system.pack.cells)
      BY <2>2
    <2> QED
      BY <2>1, <2>3 DEF PackIsOneSample, OfOneSample, OneClock, FilterHolds
  <1> QED
    BY <1>1, ObjectsInvariant, PTL

\* No call, whatever its sensors say and wherever it fails, heals the single
\* battery or a cell of the pack, or relaxes a charging limit, until the
\* battery is built anew.
THEOREM WearCorrect == Spec => WearNeverHeals
  <1> DEFINE BatteryWears ==
               (single # Null /\ single' # Null) =>
                  /\ NotHealed(single.core.state, single'.core.state)
                  /\ single'.core.state # FreshState =>
                        MaxSafeCurrent(single'.config, single'.core.state)
                            <= MaxSafeCurrent(single.config, single.core.state)
             CellsWear ==
               (/\ system # Null /\ system' # Null
                /\ system.pack # Null /\ system'.pack # Null) =>
                  \A k \in DOMAIN system.pack.cells \cap DOMAIN system'.pack.cells :
                     NotHealed(system.pack.cells[k].state, system'.pack.cells[k].state)
  <1>1. ASSUME ObjectsOk, UNCHANGED single
        PROVE  BatteryWears
    <2> SUFFICES ASSUME single # Null
                 PROVE  /\ NotHealed(single.core.state, single.core.state)
                        /\ single.core.state # FreshState =>
                              MaxSafeCurrent(single.config, single.core.state)
                                  <= MaxSafeCurrent(single.config, single.core.state)
      BY <1>1
    <2>1. BatteryOk(single)
      BY <1>1 DEF ObjectsOk
    <2>2. single.core.state \in DsState
      BY <2>1 DEF BatteryOk, Batteries
    <2>3. NotHealed(single.core.state, single.core.state)
      BY <2>2, SameIsNotHealed
    <2>4. single.core.state # FreshState => ValidDsConfig(single.config)
      BY <2>1 DEF BatteryOk, FreshCore
    <2>5. ValidDsConfig(single.config) => single.config.maxCurrent \in Int
      BY DoublesAssumption DEF ValidDsConfig, IsFinite, Finite
    <2>6. Saturation \in Int /\ single.core.state.degradation \in Int
      BY <2>2, DoublesAssumption, DsModelAssumption DEF DsState, Finite
    <2>7. single.config.maxCurrent \in Int =>
             MaxSafeCurrent(single.config, single.core.state)
                 <= MaxSafeCurrent(single.config, single.core.state)
      BY <2>6 DEF MaxSafeCurrent, AtMost
    <2> QED
      BY <2>3, <2>4, <2>5, <2>7
  <1>2. ASSUME ObjectsOk, UNCHANGED system
        PROVE  CellsWear
    <2> SUFFICES ASSUME system # Null, system.pack # Null, NEW k \in DOMAIN system.pack.cells
                 PROVE  NotHealed(system.pack.cells[k].state, system.pack.cells[k].state)
      BY <1>2
    <2>1. system \in Systems
      BY <1>2 DEF ObjectsOk, SystemOk
    <2>2. system.pack \in Packs
      BY <2>1 DEF Systems
    <2>3. system.pack.cells \in Seq(Cell)
      BY <2>2 DEF Packs, Cell
    <2>4. system.pack.cells[k].state \in DsState
      BY <2>3, FieldRange
    <2> QED
      BY <2>4, SameIsNotHealed
  <1>3. ASSUME ObjectsOk, Rebuilds
        PROVE  BatteryWears /\ CellsWear
    <2>1. PICK ds \in DsConfigType : single' = Built(ds)
      BY <1>3 DEF Rebuilds
    <2>2. single'.core.state = FreshState
      BY <2>1, BuiltIsOk
    <2>3. BatteryWears
      BY <2>2 DEF NotHealed
    <2> QED
      BY <1>2, <1>3, <2>3 DEF Rebuilds
  <1>4. ASSUME ObjectsOk, Replaces
        PROVE  BatteryWears /\ CellsWear
    <2>1. PICK c \in Configs : system' = NewSystem(c, IF Sound(c) THEN NewPack(c.cells) ELSE Null)
      BY <1>4 DEF Replaces
    <2>2. ~Sound(c) => system'.pack = Null
      BY <2>1 DEF NewSystem
    <2>3. Sound(c) => \A k \in DOMAIN system'.pack.cells :
                         system'.pack.cells[k].state = FreshState
      BY <2>1, NewSystemIsOk
    <2>4. CellsWear
      BY <2>2, <2>3 DEF NotHealed
    <2> QED
      BY <1>1, <1>4, <2>4 DEF Replaces
  <1>5. ASSUME ObjectsOk, Cycles
        PROVE  BatteryWears /\ CellsWear
    <2>1. PICK r \in Readings : EnhanceCycle(r)
      BY <1>5 DEF Cycles
    <2>2. /\ single # Null /\ single' # Null /\ BatteryOk(single) /\ BatteryOk(single')
          /\ single'.config = single.config /\ single.ready
          /\ NotHealed(single.core.state, single'.core.state)
          /\ single'.core.state.degradation >= single.core.state.degradation
          /\ UNCHANGED system
      BY <1>5, <2>1, CycleAges DEF ObjectsOk
    <2>3. /\ single.core.state.degradation \in Int /\ single'.core.state.degradation \in Int
          /\ Saturation \in Int
      <3>1. \A b \in Batteries : b.core.state.degradation \in 0..Saturation
        BY DEF Batteries, DsState
      <3>2. Saturation \in Nat
        BY DoublesAssumption, DsModelAssumption DEF Finite
      <3>3. single \in Batteries /\ single' \in Batteries
        BY <2>2 DEF BatteryOk
      <3>4. /\ single.core.state.degradation \in 0..Saturation
            /\ single'.core.state.degradation \in 0..Saturation
        BY <3>1, <3>3
      <3> QED
        BY <3>2, <3>4
    <2>4. single.config.maxCurrent \in Int
      BY <2>2, DoublesAssumption DEF BatteryOk, ValidDsConfig, IsFinite, Finite
    <2>5. MaxSafeCurrent(single'.config, single'.core.state)
              <= MaxSafeCurrent(single.config, single.core.state)
      BY <2>2, <2>3, <2>4 DEF MaxSafeCurrent, AtMost
    <2> QED
      BY <1>2, <1>5, <2>2, <2>5
  <1>6. ASSUME ObjectsOk, Commits
        PROVE  BatteryWears /\ CellsWear
    <2>1. /\ UNCHANGED single
          /\ \A k \in DOMAIN system.pack.cells :
                NotHealed(system.pack.cells[k].state, system'.pack.cells[k].state)
      BY <1>6, CommitAges
    <2> QED
      BY <1>1, <1>6, <2>1
  <1>7. ASSUME ObjectsOk, Rests
        PROVE  BatteryWears /\ CellsWear
    BY <1>1, <1>2, <1>7 DEF Rests
  <1>8. ObjectsOk /\ [Next]_vars => BatteryWears /\ CellsWear
    BY <1>3, <1>4, <1>5, <1>6, <1>7, StepKinds
  <1>9. ObjectsOk /\ [Next]_vars => [BatteryWears /\ CellsWear]_vars
    BY <1>8
  <1> QED
    BY <1>9, ObjectsInvariant, PTL DEF Spec, WearNeverHeals

\* The alarm of the report is set exactly when the report lists weak cells or
\* its own imbalance passes the limit, though the mode switches and memory
\* runs out half way through update_diagnostics.
THEOREM AlarmsCorrect == Spec => []AlarmsMatchReport
  <1> DEFINE Fields == {"degraded", "hot", "weakIds", "weak", "imbalance", "unbalanced"}
             Whole == DOMAIN report = Fields
             Quiet == /\ report.weak = FALSE /\ report.weakIds = {}
                      /\ report.unbalanced = FALSE /\ report.imbalance = 0
  <1>0. Quiet => AlarmsMatchReport
    <2>1. (0 > ImbalanceLimit) = FALSE
      BY LegacyMiddlewareAssumption
    <2> QED
      BY <2>1, Zenon DEF AlarmsMatchReport
  <1>1. Init => Whole /\ AlarmsMatchReport
    BY <1>0 DEF Init, FreshReport
  <1>2. ASSUME Whole, AlarmsMatchReport, [Next]_vars
        PROVE  Whole' /\ AlarmsMatchReport'
    <2>1. ASSUME NEW s, report' = PackHealthReport(s)
          PROVE  Whole' /\ AlarmsMatchReport'
      BY <1>2, <2>1 DEF AlarmsMatchReport, PackHealthReport
    <2>2. ASSUME NEW s, report' = PackReport(s)
          PROVE  Whole' /\ AlarmsMatchReport'
      <3>1. PICK health : health = PackHealthReport(s)
        OBVIOUS
      <3>2. DOMAIN health = Fields
        BY <1>2, <3>1 DEF PackHealthReport
      <3>3. report' = [health EXCEPT
              !.weakIds = WeakIds(s.pack), !.weak = WeakIds(s.pack) # {},
              !.imbalance = Imbalance(s.pack.stats),
              !.unbalanced = Imbalance(s.pack.stats) > ImbalanceLimit,
              !.hot = s.pack.stats.maxT >= Library[config.chemistry].maxTemp]
        BY <2>2, <3>1, Zenon DEF PackReport
      <3> QED
        BY <3>2, <3>3 DEF AlarmsMatchReport
    <2>3. ASSUME NEW s, NEW hot, report' = SingleReport(s, hot)
          PROVE  Whole' /\ AlarmsMatchReport'
      <3>1. Whole' /\ Quiet'
        BY <1>2, <2>3 DEF SingleReport
      <3>2. Quiet' => AlarmsMatchReport'
        BY <1>0, PTL
      <3> QED
        BY <3>1, <3>2
    <2>4. ASSUME report' = FreshReport
          PROVE  Whole' /\ AlarmsMatchReport'
      <3>1. Whole' /\ Quiet'
        BY <2>4 DEF FreshReport
      <3>2. Quiet' => AlarmsMatchReport'
        BY <1>0, PTL
      <3> QED
        BY <3>1, <3>2
    <2>5. ASSUME UNCHANGED report
          PROVE  Whole' /\ AlarmsMatchReport'
      BY <1>2, <2>5 DEF AlarmsMatchReport
    <2> HIDE DEF Whole
    <2>6. ASSUME NEW p \in SimpleInits, InitSimple(p)
          PROVE  UNCHANGED report
      BY <2>6 DEF InitSimple, BuildSingle
    <2>7. ASSUME NEW c \in Configs,
                 InitAdvancedSingle(c) \/ InitAdvancedUnknown(c) \/ InitAdvancedMulti(c)
          PROVE  UNCHANGED report
      BY <2>7 DEF InitAdvancedSingle, BuildSingle, InitAdvancedUnknown, InitAdvancedMulti
    <2>8. ASSUME NEW r \in Readings, EnhanceCycle(r)
          PROVE  UNCHANGED report \/ \E s, hot : report' = SingleReport(s, hot)
      BY <2>8, Zenon DEF EnhanceCycle
    <2>9. ASSUME NEW r \in Readings, RejectEnhance(r) \/ EnhanceWithoutBattery(r)
          PROVE  UNCHANGED report
      BY <2>9 DEF RejectEnhance, EnhanceWithoutBattery, Refuse, Collapse
    <2>10. ASSUME NEW r \in Samples, UpdatePack(r)
           PROVE  UNCHANGED report \/ \E s : report' = PackReport(s)
      BY <2>10, Zenon DEF UpdatePack
    <2>11. ASSUME NEW r \in Samples, UpdateRunsOut(r)
           PROVE  UNCHANGED report \/ \E s : report' = PackHealthReport(s)
      BY <2>11, Zenon DEF UpdateRunsOut
    <2>12. ASSUME NEW r \in Samples, RejectUpdate(r) \/ UpdateWithoutPack(r)
           PROVE  UNCHANGED report
      BY <2>12 DEF RejectUpdate, UpdateWithoutPack, Refuse, Collapse
    <2>13. ASSUME HealthForecast \/ WeakCells \/ OptimalCharging
           PROVE  UNCHANGED report
      BY <2>13 DEF HealthForecast, WeakCells, OptimalCharging, AskSingle, Refuse, Collapse, Answer
    <2>14. ASSUME ResetDiagnostics
           PROVE  report' = FreshReport
      BY <2>14 DEF ResetDiagnostics
    <2>15. ASSUME UNCHANGED vars
           PROVE  UNCHANGED report
      BY <2>15 DEF vars
    <2> QED
      BY <1>2, <2>1, <2>2, <2>3, <2>4, <2>5, <2>6, <2>7, <2>8, <2>9, <2>10, <2>11, <2>12,
         <2>13, <2>14, <2>15 DEF Next
  <1> HIDE DEF Whole
  <1>3. Whole /\ AlarmsMatchReport /\ [Next]_vars => (Whole /\ AlarmsMatchReport)'
    BY <1>2
  <1> QED
    BY <1>1, <1>3, PTL DEF Spec

\* Saturating additions of wear may be made one after the other.
LEMMA SaturatingAdds ==
    ASSUME NEW e \in Nat, NEW a \in Nat, NEW b \in Nat, NEW high \in Nat
    PROVE  AtMost(AtMost(e + a, high) + b, high) = AtMost(e + a + b, high)
  BY DEF AtMost

\* One reading for an interval ages the model as two readings that share it.
LEMMA UpdateSplits ==
    ASSUME NEW s \in DsState, NEW n, Usable(n), NEW m, Usable(m), NEW w, Usable(w),
           m.v = n.v, m.i = n.i, m.t = n.t, m.soc = n.soc,
           w.v = n.v, w.i = n.i, w.t = n.t, w.soc = n.soc, w.dt = n.dt + m.dt
    PROVE  UpdatedState(UpdatedState(s, n), m) = UpdatedState(s, w)
  <1> DEFINE a == Abs(n.i)
             h == ThermalStress(n)
             x == n.dt
             y == m.dt
             once == UpdatedState(s, n)
             S == Saturation
  <1>1. /\ s.entropy \in Nat /\ s.degradation \in Nat
        /\ s.throughput \in Nat /\ s.time \in Nat /\ S \in Nat
        /\ x \in Nat /\ y \in Nat
    BY DoublesAssumption, DsModelAssumption DEF DsState, Usable, Finite
  <1>2. a \in Nat /\ h \in Nat
    BY DoublesAssumption, DsModelAssumption DEF Usable, Abs, ThermalStress, AtLeast, Finite
  <1>3. Abs(m.i) = a /\ ThermalStress(m) = h /\ Abs(w.i) = a /\ ThermalStress(w) = h
    BY DEF ThermalStress
  <1>4. /\ once.entropy = AtMost(s.entropy + x * (h + a), S)
        /\ once.degradation =
              AtMost(s.degradation + ((s.throughput + a * x) - s.throughput) + h * x, S)
        /\ once.throughput = s.throughput + a * x
        /\ once.time = s.time + x
    BY DEF UpdatedState, RawEntropy, RawDegradation, RawThroughput
  <1> DEFINE twice == UpdatedState(once, m)
             whole == UpdatedState(s, w)
  <1>5. /\ twice.v = n.v /\ twice.i = n.i /\ twice.t = n.t /\ twice.soc = n.soc
        /\ twice.entropy = AtMost(once.entropy + y * (h + a), S)
        /\ twice.degradation =
              AtMost(once.degradation + ((once.throughput + a * y) - once.throughput) + h * y, S)
        /\ twice.throughput = once.throughput + a * y
        /\ twice.time = once.time + y
    BY <1>3 DEF UpdatedState, RawEntropy, RawDegradation, RawThroughput
  <1>6. /\ whole.v = n.v /\ whole.i = n.i /\ whole.t = n.t /\ whole.soc = n.soc
        /\ whole.entropy = AtMost(s.entropy + (x + y) * (h + a), S)
        /\ whole.degradation =
              AtMost(s.degradation + ((s.throughput + a * (x + y)) - s.throughput)
                         + h * (x + y), S)
        /\ whole.throughput = s.throughput + a * (x + y)
        /\ whole.time = s.time + (x + y)
    BY <1>3 DEF UpdatedState, RawEntropy, RawDegradation, RawThroughput
  <1>7. /\ twice = [v |-> twice.v, i |-> twice.i, t |-> twice.t, soc |-> twice.soc,
                    entropy |-> twice.entropy, degradation |-> twice.degradation,
                    throughput |-> twice.throughput, time |-> twice.time]
        /\ whole = [v |-> whole.v, i |-> whole.i, t |-> whole.t, soc |-> whole.soc,
                    entropy |-> whole.entropy, degradation |-> whole.degradation,
                    throughput |-> whole.throughput, time |-> whole.time]
    BY DEF UpdatedState
  <1> HIDE DEF a, h, x, y, once, twice, whole, S
  <1>8. /\ a * x \in Nat /\ a * y \in Nat /\ h * x \in Nat /\ h * y \in Nat
        /\ h + a \in Nat /\ x * (h + a) \in Nat /\ y * (h + a) \in Nat
    <2>1. h + a \in Nat
      BY <1>2
    <2> QED
      BY <1>1, <1>2, <2>1, NatProduct
  <1>9. /\ (x + y) * (h + a) = x * (h + a) + y * (h + a)
        /\ a * (x + y) = a * x + a * y /\ h * (x + y) = h * x + h * y
    BY <1>1, <1>2
  <1>10. twice.throughput = whole.throughput /\ twice.time = whole.time
    BY <1>1, <1>4, <1>5, <1>6, <1>8, <1>9
  <1>11. twice.entropy = whole.entropy
    <2>1. AtMost(AtMost(s.entropy + x * (h + a), S) + y * (h + a), S)
             = AtMost(s.entropy + x * (h + a) + y * (h + a), S)
      BY <1>1, <1>8, SaturatingAdds
    <2>2. s.entropy + x * (h + a) + y * (h + a) = s.entropy + (x + y) * (h + a)
      BY <1>1, <1>8, <1>9
    <2> QED
      BY <1>4, <1>5, <1>6, <2>1, <2>2
  <1>12. twice.degradation = whole.degradation
    <2> DEFINE p == a * x + h * x
               q == a * y + h * y
    <2>1. p \in Nat /\ q \in Nat
      BY <1>8
    <2>2. once.throughput \in Nat
      BY <1>1, <1>4, <1>8
    <2>3. s.degradation + ((s.throughput + a * x) - s.throughput) + h * x = s.degradation + p
      BY <1>1, <1>8
    <2>4. once.degradation = AtMost(s.degradation + p, S)
      BY <1>4, <2>3
    <2>5. once.degradation \in Nat
      BY <1>1, <2>1, <2>4 DEF AtMost
    <2>6. once.degradation + ((once.throughput + a * y) - once.throughput) + h * y
             = once.degradation + q
      BY <1>8, <2>2, <2>5
    <2>7. s.degradation + ((s.throughput + a * (x + y)) - s.throughput) + h * (x + y)
             = s.degradation + p + q
      BY <1>1, <1>8, <1>9
    <2> HIDE DEF p, q
    <2>8. AtMost(AtMost(s.degradation + p, S) + q, S) = AtMost(s.degradation + p + q, S)
      BY <1>1, <2>1, SaturatingAdds
    <2> QED
      BY <1>5, <1>6, <2>4, <2>6, <2>7, <2>8
  <1>13. twice = whole
    BY <1>5, <1>6, <1>7, <1>10, <1>11, <1>12
  <1> QED
    BY <1>13 DEF twice, whole, once

\* Polling the battery twice as often ages it no more and no less: however
\* the wear saturates, a reading held for the whole interval leaves the state
\* that the same reading leaves when the interval is split.
THEOREM PollRateCorrect == Spec => []WearIndependentOfPollRate
  <1>1. ASSUME ObjectsOk
        PROVE  WearIndependentOfPollRate
    <2> SUFFICES
          ASSUME NEW r \in Readings, NEW d \in {reading.dt : reading \in Readings},
                 single # Null, IsFinite(r.dt), IsFinite(d), SingleAccepts(r),
                 SingleAccepts([r EXCEPT !.dt = r.dt + d]),
                 EnhanceSucceeds(single.config, Enhanced(single.config, single.core, r),
                                 [r EXCEPT !.dt = d])
          PROVE  Enhanced(single.config, Enhanced(single.config, single.core, r),
                          [r EXCEPT !.dt = d]).state
                     = Enhanced(single.config, single.core, [r EXCEPT !.dt = r.dt + d]).state
      BY DEF WearIndependentOfPollRate
    <2> DEFINE c == single.config
               second == [r EXCEPT !.dt = d]
               whole == [r EXCEPT !.dt = r.dt + d]
    <2>1. single \in Batteries /\ ValidDsConfig(c)
      BY <1>1 DEF ObjectsOk, BatteryOk, SingleAccepts
    <2>2. c \in DsConfigType /\ single.core.state \in DsState
      BY <2>1 DEF Batteries
    <2>3. r \in Reading /\ r.dt \in Int /\ d \in Int
      BY LegacyMiddlewareAssumption, DoublesAssumption DEF IsFinite, Finite
    <2>4. second \in Reading /\ whole \in Reading
      BY <2>3 DEF Reading, Double
    <2>5. ValidSensors(r) /\ ValidSensors(second) /\ ValidSensors(whole)
      BY DEF SingleAccepts, EnhanceSucceeds
    <2>6. Usable(Normalised(c, r)) /\ Normalised(c, r).dt = r.dt
      BY <2>2, <2>1, <2>3, <2>5, NormalisedIsUsable
    <2>7. Usable(Normalised(c, second)) /\ Normalised(c, second).dt = second.dt
      BY <2>2, <2>1, <2>4, <2>5, NormalisedIsUsable
    <2>8. Usable(Normalised(c, whole)) /\ Normalised(c, whole).dt = whole.dt
      BY <2>2, <2>1, <2>4, <2>5, NormalisedIsUsable
    <2>9. /\ second.v = r.v /\ second.i = r.i /\ second.t = r.t /\ second.soc = r.soc
          /\ whole.v = r.v /\ whole.i = r.i /\ whole.t = r.t /\ whole.soc = r.soc
          /\ second.dt = d /\ whole.dt = r.dt + d
      BY <2>3 DEF Reading
    <2> HIDE DEF c, second, whole
    <2>10. ASSUME NEW a \in Reading, NEW b \in Reading,
                  a.v = b.v, a.i = b.i, a.t = b.t, a.soc = b.soc
           PROVE  /\ Normalised(c, a).v = Normalised(c, b).v
                  /\ Normalised(c, a).i = Normalised(c, b).i
                  /\ Normalised(c, a).t = Normalised(c, b).t
                  /\ Normalised(c, a).soc = Normalised(c, b).soc
      BY <2>10 DEF Normalised, Reading
    <2>11. /\ Normalised(c, second).v = Normalised(c, r).v
           /\ Normalised(c, second).i = Normalised(c, r).i
           /\ Normalised(c, second).t = Normalised(c, r).t
           /\ Normalised(c, second).soc = Normalised(c, r).soc
      BY <2>3, <2>4, <2>9, <2>10
    <2>12. /\ Normalised(c, whole).v = Normalised(c, r).v
           /\ Normalised(c, whole).i = Normalised(c, r).i
           /\ Normalised(c, whole).t = Normalised(c, r).t
           /\ Normalised(c, whole).soc = Normalised(c, r).soc
      BY <2>3, <2>4, <2>9, <2>10
    <2>13. Normalised(c, whole).dt = Normalised(c, r).dt + Normalised(c, second).dt
      BY <2>6, <2>7, <2>8, <2>9
    <2>14. UpdatedState(UpdatedState(single.core.state, Normalised(c, r)), Normalised(c, second))
              = UpdatedState(single.core.state, Normalised(c, whole))
      BY <2>2, <2>6, <2>7, <2>8, <2>11, <2>12, <2>13, UpdateSplits
    <2> QED
      BY <2>14 DEF Enhanced, c, second, whole
  <1> QED
    BY <1>1, ObjectsInvariant, PTL

\* While the last initialisation stands, the object its mode needs is there,
\* under a chemistry the library knows.
SettledOk ==
    /\ config \in MiddlewareConfig
    /\ settled =>
          /\ initialized /\ config.chemistry \in DOMAIN Library
          /\ config.mode = "single" => single # Null
          /\ config.mode = "multi" =>
                ~PackMissing /\ Len(system.pack.cells) = config.cells

LEMMA SettledStays ==
    ASSUME ObjectsOk, SettledOk, [Next]_vars
    PROVE  SettledOk'
  <1>1. ASSUME NEW ds \in DsConfigType, BuildSingle(ds), config' \in MiddlewareConfig,
               config'.mode = "single", config'.chemistry \in DOMAIN Library
        PROVE  SettledOk'
    <2>1. single' # Null
      BY <1>1, BuiltIsOk DEF BuildSingle, Built
    <2> QED
      BY <1>1, <2>1 DEF BuildSingle, SettledOk
  <1>2. ASSUME NEW p \in SimpleInits, InitSimple(p)
        PROVE  SettledOk'
    <2> DEFINE ds == [PackConfig EXCEPT !.capacity = p.capacity, !.voltage = p.voltage,
                                        !.maxTemp = p.maxTemp]
    <2>1. p.capacity \in Double /\ p.voltage \in Double /\ p.maxTemp \in Double
      BY LegacyMiddlewareAssumption
    <2>2. ds \in DsConfigType
      BY <2>1, MultiCellPackAssumption DEF DsConfigType
    <2> HIDE DEF ds
    <2>3. BuildSingle(ds)
      BY <1>2 DEF InitSimple, ds
    <2>4. "NMC" \in Chemistries /\ "NMC" \in DOMAIN Library
      BY LegacyMiddlewareAssumption DEF Chemistries
    <2>5. /\ config' \in MiddlewareConfig
          /\ config'.mode = "single" /\ config'.chemistry = "NMC"
      BY <1>2, <2>1, <2>4 DEF InitSimple, SettledOk, MiddlewareConfig
    <2> QED
      BY <1>1, <2>2, <2>3, <2>4, <2>5
  <1>3. ASSUME NEW c \in Configs, InitAdvancedSingle(c)
        PROVE  SettledOk'
    <2>1. /\ c \in MiddlewareConfig /\ c.capacity \in Double /\ c.cells \in Int
          /\ c.chemistry \in DOMAIN Library /\ Library[c.chemistry] \in Profile
      BY <1>3, LegacyMiddlewareAssumption, MultiCellPackAssumption
      DEF InitAdvancedSingle, MiddlewareConfig
    <2>2. /\ Library[c.chemistry].nominalV * c.cells \in Double
          /\ Library[c.chemistry].maxTemp \in Double
      BY <2>1, DoublesAssumption DEF Profile, Finite, Double
    <2>3. ChemistryConfig(c) \in DsConfigType
      BY <2>1, <2>2, MultiCellPackAssumption DEF ChemistryConfig, DsConfigType
    <2>4. config' = c /\ c.mode = "single" /\ BuildSingle(ChemistryConfig(c))
      BY <1>3 DEF InitAdvancedSingle
    <2> QED
      BY <1>1, <2>1, <2>3, <2>4
  <1>4. ASSUME NEW c \in Configs, InitAdvancedUnknown(c)
        PROVE  SettledOk'
    BY <1>4, LegacyMiddlewareAssumption DEF InitAdvancedUnknown, SettledOk
  <1>5. ASSUME NEW c \in Configs, InitAdvancedMulti(c)
        PROVE  SettledOk'
    <2> DEFINE new == NewSystem(c, IF Sound(c) THEN NewPack(c.cells) ELSE Null)
    <2>1. /\ system' = new /\ config' = c /\ c.mode = "multi"
          /\ settled' = Sound(c) /\ initialized' = (initialized \/ Sound(c))
      BY <1>5 DEF InitAdvancedMulti, Sound
    <2>2. /\ new # Null
          /\ Sound(c) => new.pack # Null /\ Len(new.pack.cells) = c.cells
      BY NewSystemIsOk
    <2> HIDE DEF new
    <2> QED
      BY <2>1, <2>2, LegacyMiddlewareAssumption DEF SettledOk, PackMissing, Sound
  <1>6. ASSUME Uses
        PROVE  SettledOk'
    <2>0. UNCHANGED <<initialized, config, settled>> /\ (Cycles \/ Commits \/ Rests)
      BY <1>6, UseKinds
    <2>1. CASE Rests
      BY <2>0, <2>1 DEF Rests, SettledOk, PackMissing
    <2>2. CASE Cycles
      <3>1. PICK r \in Readings : EnhanceCycle(r)
        BY <2>2 DEF Cycles
      <3>2. single' # Null /\ UNCHANGED system
        BY <3>1, CycleAges
      <3> QED
        BY <2>0, <3>2 DEF SettledOk, PackMissing
    <2>3. CASE Commits
      <3>1. /\ system' # Null /\ system'.pack # Null
            /\ Len(system'.pack.cells) = Len(system.pack.cells)
            /\ UNCHANGED single
        BY <2>3, CommitAges
      <3> QED
        BY <2>0, <3>1 DEF SettledOk, PackMissing
    <2> QED
      BY <2>0, <2>1, <2>2, <2>3
  <1>7. [Next]_vars => Initialises \/ Uses
    BY DEF Next, Initialises, Uses
  <1> QED
    BY <1>2, <1>3, <1>4, <1>5, <1>6, <1>7 DEF Initialises

\* A cycle that reports a failure has aged nothing, and no call reaches a null
\* object, while the last initialisation stands; a refused one takes both
\* guarantees away although initialized_ is kept.
THEOREM MisledCorrect == Spec => OnlyRefusedInitMisleads
  <1> DEFINE Stands == settled' /\ (config'.mode = "multi" => config'.cells > 0)
             Honest == outcome' # "undefined" /\ (outcome' = "threw" => Wear' = Wear)
  <1>1. ASSUME NEW ds, BuildSingle(ds), Stands
        PROVE  Honest
    BY <1>1 DEF BuildSingle
  <1>2. ASSUME NEW c \in Configs, InitAdvancedUnknown(c) \/ InitAdvancedMulti(c), Stands
        PROVE  Honest
    BY <1>2 DEF InitAdvancedUnknown, InitAdvancedMulti
  <1>3. ASSUME Rests, outcome' # "undefined"
        PROVE  Honest
    BY <1>3 DEF Rests, Wear
  <1>4. ASSUME SettledOk, settled, NEW r \in Readings, EnhanceCycle(r)
        PROVE  Honest
    BY <1>4 DEF SettledOk, EnhanceCycle, Ends
  <1>5. ASSUME NEW r \in Samples, UpdatePack(r) \/ UpdateRunsOut(r)
        PROVE  Honest
    BY <1>5 DEF UpdatePack, UpdateRunsOut, Ends
  <1>6. ASSUME NEW r \in Readings, RejectEnhance(r)
        PROVE  Rests /\ outcome' # "undefined"
    BY <1>6 DEF RejectEnhance, Refuse, Ends, Rests
  <1>7. ASSUME NEW r \in Samples, RejectUpdate(r)
        PROVE  Rests /\ outcome' # "undefined"
    BY <1>7 DEF RejectUpdate, Refuse, Ends, Rests
  <1>8. ASSUME SettledOk, settled, NEW r \in Readings, EnhanceWithoutBattery(r)
        PROVE  FALSE
    BY <1>8 DEF SettledOk, EnhanceWithoutBattery, MayEnhance
  <1>9. ASSUME SettledOk, settled, NEW r \in Samples, UpdateWithoutPack(r)
        PROVE  FALSE
    BY <1>9 DEF SettledOk, UpdateWithoutPack, MayUpdate
  <1>10. ASSUME SettledOk, ObjectsOk, settled, config.mode = "multi" => config.cells > 0,
                HealthForecast \/ WeakCells \/ OptimalCharging \/ ResetDiagnostics
         PROVE  Rests /\ outcome' # "undefined"
    <2>1. config.mode = "multi" => ~PackMissing /\ system.pack.cells # <<>>
      <3> SUFFICES ASSUME config.mode = "multi" PROVE ~PackMissing /\ system.pack.cells # <<>>
        OBVIOUS
      <3>1. ~PackMissing /\ Len(system.pack.cells) = config.cells /\ config.cells > 0
        BY <1>10 DEF SettledOk
      <3> QED
        BY <3>1
    <2>2. config.mode = "single" => single # Null
      BY <1>10 DEF SettledOk
    <2>3. ASSUME AskSingle, single # Null
          PROVE  Rests /\ outcome' # "undefined"
      BY <2>3 DEF AskSingle, Refuse, Answer, Ends, Rests
    <2>4. ASSUME Refuse \/ Answer
          PROVE  Rests /\ outcome' # "undefined"
      BY <2>4 DEF Refuse, Answer, Ends, Rests
    <2>5. CASE HealthForecast
      BY <2>1, <2>2, <2>3, <2>4, <2>5 DEF HealthForecast
    <2>6. CASE WeakCells
      BY <2>1, <2>4, <2>6 DEF WeakCells
    <2>7. CASE OptimalCharging
      BY <2>1, <2>2, <2>3, <2>4, <2>7 DEF OptimalCharging
    <2>8. CASE ResetDiagnostics
      BY <2>8 DEF ResetDiagnostics, Ends, Rests
    <2> QED
      BY <1>10, <2>5, <2>6, <2>7, <2>8
  <1>11. ASSUME SettledOk, ObjectsOk, Next, ~UNCHANGED vars, Stands
         PROVE  Honest
    <2>1. ASSUME Uses
          PROVE  Honest
      <3>1. UNCHANGED <<config, settled>>
        BY <2>1, UseKinds
      <3>2. settled /\ (config.mode = "multi" => config.cells > 0)
        BY <1>11, <3>1
      <3> HIDE DEF Honest, Stands
      <3> QED
        BY <1>3, <1>4, <1>5, <1>6, <1>7, <1>8, <1>9, <1>10, <1>11, <2>1, <3>2 DEF Uses
    <2>2. ASSUME NEW p \in SimpleInits, InitSimple(p)
          PROVE  Honest
      BY <1>1, <1>11, <2>2 DEF InitSimple
    <2>3. ASSUME NEW c \in Configs, InitAdvancedSingle(c)
          PROVE  Honest
      BY <1>1, <1>11, <2>3 DEF InitAdvancedSingle
    <2>4. ASSUME NEW c \in Configs, InitAdvancedUnknown(c) \/ InitAdvancedMulti(c)
          PROVE  Honest
      BY <1>2, <1>11, <2>4
    <2> QED
      BY <1>11, <2>1, <2>2, <2>3, <2>4 DEF Next, Uses
  <1>12. Init => SettledOk
    <2>1. PackConfig.capacity \in Double /\ "NMC" \in Chemistries
      BY MultiCellPackAssumption, LegacyMiddlewareAssumption DEF DsConfigType, Chemistries
    <2> QED
      BY <2>1 DEF Init, DefaultConfig, SettledOk, MiddlewareConfig
  <1>13. SettledOk /\ ObjectsOk /\ [Next]_vars => SettledOk'
    BY SettledStays
  <1>14. SettledOk /\ ObjectsOk /\ [Next]_vars => [Stands => Honest]_vars
    BY <1>11
  <1> QED
    BY <1>12, <1>13, <1>14, ObjectsInvariant, PTL DEF Spec, OnlyRefusedInitMisleads
=============================================================================
