--------------------------- MODULE MultiCellPack ---------------------------
(***************************************************************************)
(* MultiCellPack, KalmanDSFilter, MLHybridModel and AdvancedDSSystem of    *)
(* include/ds_advanced_features.hpp as operators on records.  A pack runs  *)
(* the degradation model once per series cell under the default            *)
(* configuration, whatever the chemistry; the advanced system commits the  *)
(* pack, then the filter, then the learned prediction, then the fleet      *)
(* contribution, and the last two allocate memory.                         *)
(*                                                                         *)
(* Left out: the filter's covariance, which no caller reads, phi and the   *)
(* metric trace (functions of the cell states), and the sentinels of the   *)
(* minimum and maximum searches.  Averages are rounded down.               *)
(***************************************************************************)
EXTENDS DsModel, FiniteSets, Functions

CONSTANTS
    PackConfig,    \* DSConfig(), what coupling_ of every pack is built from
    Library,       \* ChemistryLibrary: the profile of each known chemistry
    Gain,          \* Kalman gain, in parts of GainUnit
    GainUnit,
    Null           \* the null pointer, and a prediction not made yet

Profile == [minV : Finite, maxV : Finite, nominalV : Finite, maxTemp : Finite]

Packs ==
    [cells : Seq([state : DsState, weak : BOOLEAN]),
     stats : [current : Int, voltage : Int, temperature : Int,
              minV : Int, maxV : Int, minT : Int, maxT : Int]]

ASSUME MultiCellPackAssumption ==
    /\ PackConfig \in DsConfigType /\ ValidDsConfig(PackConfig)
    /\ \A c \in DOMAIN Library :
          Library[c] \in Profile /\ Library[c].minV < Library[c].maxV
    /\ GainUnit \in Nat \ {0} /\ Gain \in 1..(GainUnit - 1)
    /\ Null \notin Packs

FreshCell == [state |-> FreshState, weak |-> FALSE]

NewPack(n) ==
    [cells |-> [k \in 1..n |-> FreshCell],
     stats |-> [current |-> 0, voltage |-> 0, temperature |-> 0,
                minV |-> 0, maxV |-> 0, minT |-> 0, maxT |-> 0]]

Total(f) == FoldFunction(LAMBDA x, y : x + y, 0, f)
Average(f) == Total(f) \div Cardinality(DOMAIN f)

Least(f)    == CHOOSE x \in {f[k] : k \in DOMAIN f} : \A k \in DOMAIN f : x <= f[k]
Greatest(f) == CHOOSE x \in {f[k] : k \in DOMAIN f} : \A k \in DOMAIN f : x >= f[k]

Field(cells, name) == [k \in DOMAIN cells |-> cells[k].state[name]]

\* update_pack_statistics.
Statistics(cells, current) ==
    [current     |-> current,
     voltage     |-> Total(Field(cells, "v")),
     temperature |-> Average(Field(cells, "t")),
     minV |-> Least(Field(cells, "v")), maxV |-> Greatest(Field(cells, "v")),
     minT |-> Least(Field(cells, "t")), maxT |-> Greatest(Field(cells, "t"))]

Imbalance(stats) == stats.maxV - stats.minV
Spread(stats)    == stats.maxT - stats.minT

\* detect_weak_cells: a cell thirty per cent worse than the average.
Weak(cells, k) ==
    10 * Cardinality(DOMAIN cells) * cells[k].state.degradation
        > 13 * Total(Field(cells, "degradation"))

\* What update_all_cells demands of a sample before any cell is touched.
ValidSample(pack, r) ==
    /\ Len(r.volts) = Len(pack.cells) /\ Len(r.temps) = Len(pack.cells)
    /\ pack.cells # <<>>
    /\ IsFinite(r.i) /\ IsFinite(r.dt)
    /\ r.dt > 0 /\ r.dt >= PackConfig.tauMin
    /\ \A k \in DOMAIN r.volts : IsFinite(r.volts[k]) /\ r.volts[k] >= 0
    /\ \A k \in DOMAIN r.temps : IsFinite(r.temps[k])

\* The series current, each cell's own voltage and temperature, and a state
\* of charge read off the chemistry's voltage range.
CellSensors(profile, r, k) ==
    [v |-> r.volts[k], i |-> r.i, t |-> r.temps[k], dt |-> r.dt,
     soc |-> Clamp(((r.volts[k] - profile.minV) * SocFull)
                       \div (profile.maxV - profile.minV), 0, SocFull)]

AgedCells(profile, pack, r) ==
    [k \in DOMAIN pack.cells |->
        [pack.cells[k] EXCEPT !.state = UpdatedState(@, CellSensors(profile, r, k))]]

Flagged(cells) == [k \in DOMAIN cells |-> [cells[k] EXCEPT !.weak = Weak(cells, k)]]

\* Slip: cells are flagged from the degradation before the sample.
UpdatedPackLateFlags(profile, pack, r) ==
    LET aged == AgedCells(profile, pack, r)
    IN  [cells |-> [k \in DOMAIN aged |-> [aged[k] EXCEPT !.weak = Weak(pack.cells, k)]],
         stats |-> Statistics(aged, r.i)]

UpdatedPack(profile, pack, r) ==
    LET aged == AgedCells(profile, pack, r)
    IN  [cells |-> Flagged(aged), stats |-> Statistics(aged, r.i)]

\* The candidate pack is built in full before it is swapped in: one cell or
\* one statistic that fails refuses the sample for all of them.
PackSucceeds(profile, pack, r) ==
    /\ ValidSample(pack, r)
    /\ \A k \in DOMAIN pack.cells :
          UpdateSucceeds(PackConfig, pack.cells[k].state, CellSensors(profile, r, k))
    /\ LET s == Statistics(AgedCells(profile, pack, r), r.i)
       IN  /\ IsFinite(s.voltage)
           /\ IsFinite(Total(r.temps))
           /\ IsFinite(Spread(s))

WeakIds(pack) == {k \in DOMAIN pack.cells : pack.cells[k].weak}

\* get_pack_health reads the most degraded cell.
WorstState(pack) ==
    LET worst == Greatest(Field(pack.cells, "degradation"))
    IN  (CHOOSE c \in {pack.cells[k] : k \in DOMAIN pack.cells} :
            c.state.degradation = worst).state

-----------------------------------------------------------------------------
\* AdvancedDSSystem::init, complete or stopped at the unknown chemistry or at
\* the cell count: the flags are set, the pack is not there.
NewSystem(cfg, pack) ==
    [chemistry |-> cfg.chemistry, kalman |-> cfg.kalman, ml |-> cfg.ml,
     fleet |-> cfg.fleet, pack |-> pack, filter |-> [soc |-> 0, degradation |-> 0],
     entropy |-> 0, prediction |-> Null, listed |-> 0, grouped |-> 0]

\* KalmanDSFilter::predict then update: the model's own average is both the
\* prediction and the measurement.
Filtered(predicted, measured, high) ==
    Clamp(predicted + (Gain * (measured - predicted)) \div GainUnit, 0, high)

\* MLHybridModel::predict with its constant positive weights: a rectified sum
\* of the features, the same number for all three outputs.
Prediction(cells) ==
    LET avg(name) == Average(Field(cells, name))
    IN  AtLeast(avg("soc") + avg("v") + avg("i") + avg("t") + avg("throughput")
                + avg("entropy") + avg("degradation"), 0)

\* The part of AdvancedDSSystem::update that cannot fail once the pack has
\* accepted the sample.
CommitPack(s, r) ==
    LET pack == UpdatedPack(Library[s.chemistry], s.pack, r)
        soc  == Average(Field(pack.cells, "soc"))
        deg  == Average(Field(pack.cells, "degradation"))
    IN  [s EXCEPT
            !.pack = pack,
            !.entropy = Average(Field(pack.cells, "entropy")),
            !.filter = IF s.kalman
                       THEN [soc |-> Filtered(soc, soc, SocFull),
                             degradation |-> Filtered(deg, deg, Saturation)]
                       ELSE @]

Predict(s) == [s EXCEPT !.prediction = IF s.ml THEN Prediction(s.pack.cells) ELSE @]
ListInFleet(s) == IF s.fleet THEN [s EXCEPT !.listed = @ + 1] ELSE s
GroupInFleet(s) == IF s.fleet THEN [s EXCEPT !.grouped = @ + 1] ELSE s

\* Where an allocation of update may fail, and what has been committed then.
FailurePoints(s) ==
    (IF s.ml THEN {"prediction"} ELSE {}) \cup (IF s.fleet THEN {"list", "group"} ELSE {})

CommittedAt(s, r, point) ==
    LET committed == CommitPack(s, r)
    IN  CASE point = "prediction" -> committed
          [] point = "list"       -> Predict(committed)
          [] point = "group"      -> ListInFleet(Predict(committed))
          [] OTHER                -> GroupInFleet(ListInFleet(Predict(committed)))
=============================================================================
