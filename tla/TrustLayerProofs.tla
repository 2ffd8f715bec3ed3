-------------------------- MODULE TrustLayerProofs --------------------------
(***************************************************************************)
(* Proofs about the trust layer: the inductive invariant of LearningEngine *)
(* and, from it, the four properties the learning run checks, and the      *)
(* three properties of the evaluation cycle of Governance.                 *)
(***************************************************************************)
EXTENDS LearningEngine, Governance, FiniteSetTheorems, NaturalsInduction,
        WellFoundedInduction, TLAPS

Name == Names \cup {NoName}

Owner == Compartments \cup {NoName}

Operation == {"proposal", "rollback"}

Envelope == [min : Double, max : Double, step : Double, default : Double,
             current : Double, name : Name, identity : Ids]

Attempted == [id : Ids, auditId : Nat, op : Operation, source : Ids, identity : Ids,
              compartment : Owner, name : Name, previous : Double,
              proposed : Double, applied : Double, approved : BOOLEAN]

Grant == [target : Cells, identity : Ids, compartment : Owner, name : Name]

-----------------------------------------------------------------------------
(***************************************************************************)
(* The inductive invariant.  The four properties compare identities and    *)
(* handles, so they rest on where those come from: everything that carries *)
(* an identity or a handle carries one the counters have passed, never     *)
(* zero where something was granted, and a grant repeats its record.       *)
(***************************************************************************)
TypeInv ==
    /\ targets \in [Cells -> Envelope]
    /\ nextIdentity \in 1..LastId
    /\ nextSnapshot \in 1..LastId
    /\ snapshots \in [Engines -> Seq(Attempted)]
    /\ audit \in [Engines -> Seq(Attempted)]
    /\ DOMAIN grants = Engines
    /\ grants = [e \in Engines |-> grants[e]]
    /\ \A e \in Engines : \A h \in DOMAIN grants[e] : grants[e][h] \in Grant

IdentitiesPassed == \A c \in Cells : targets[c].identity < nextIdentity

RecordsPassed ==
    \A e \in Engines : \A k \in DOMAIN snapshots[e] :
        /\ snapshots[e][k].id \in 1..(nextSnapshot - 1)
        /\ snapshots[e][k].identity \in 1..(nextIdentity - 1)

GrantsRepeatRecords ==
    \A e \in Engines : \A k \in DOMAIN snapshots[e] :
        LET s == snapshots[e][k]
        IN  /\ s.id \in DOMAIN grants[e]
            /\ grants[e][s.id].identity = s.identity
            /\ grants[e][s.id].compartment = s.compartment
            /\ grants[e][s.id].name = s.name

IInv ==
    /\ TypeInv /\ IdentitiesPassed /\ RecordsPassed /\ GrantsRepeatRecords
    /\ NoInheritedGrant /\ HistoriesAgree /\ RecordsReplayTarget

-----------------------------------------------------------------------------
(***************************************************************************)
(* The two counters.                                                       *)
(***************************************************************************)
\* A counter hands out the number it stands at or zero, and goes on past it.
LEMMA CounterStep ==
    ASSUME NEW next \in 1..LastId
    PROVE  /\ Allocated(next) \in Ids
           /\ Advanced(next) \in next..LastId
           /\ Allocated(next) # 0 => /\ Allocated(next) = next
                                     /\ Advanced(next) = next + 1
           /\ Allocated(next) < Advanced(next)
BY LearningAssumption DEF Allocated, Advanced, Ids

\* A fresh envelope under an identity is an envelope.
LEMMA IdentifiedType ==
    ASSUME NEW env \in Envelopes, NEW id \in Ids
    PROVE  /\ Identified(env, id) \in Envelope
           /\ Identified(env, id).identity = id
BY LearningAssumption DEF Identified, Envelope, Name

-----------------------------------------------------------------------------
(***************************************************************************)
(* What the caller does to envelopes leaves the histories alone.  Each of  *)
(* its operations is an instance of one of two changes.                    *)
(***************************************************************************)
\* Every envelope gets a fresh identity or none, or keeps its identity together
\* with its value; nextIdentity goes past the identities given out.
Renewed ==
    /\ targets' \in [Cells -> Envelope]
    /\ nextIdentity' \in nextIdentity..LastId
    /\ \A c \in Cells : targets'[c].identity < nextIdentity'
    /\ \A c \in Cells :
          \/ /\ targets'[c].identity = targets[c].identity
             /\ targets'[c].current = targets[c].current
          \/ targets'[c].identity = 0
          \/ targets'[c].identity >= nextIdentity
    /\ \A c, d \in Cells :
          /\ targets'[c].identity = targets'[d].identity
          /\ targets'[c].identity >= nextIdentity
          => c = d
    /\ UNCHANGED <<nextSnapshot, histories>>

LEMMA ConstructRenews ==
    ASSUME IInv, NEW c \in Cells, Construct(c)
    PROVE  Renewed
<1>1. PICK env \in Envelopes :
          targets' = [targets EXCEPT ![c] = Identified(env, Allocated(nextIdentity))]
  BY DEF Construct
<1>2. /\ nextIdentity \in 1..LastId /\ targets \in [Cells -> Envelope]
      /\ \A d \in Cells : targets[d].identity < nextIdentity
  BY DEF IInv, TypeInv, IdentitiesPassed
<1>3. \A d \in Cells : targets[d].identity \in Ids
  BY <1>2 DEF Envelope
<1>4. /\ Identified(env, Allocated(nextIdentity)) \in Envelope
      /\ Identified(env, Allocated(nextIdentity)).identity = Allocated(nextIdentity)
  BY <1>2, CounterStep, IdentifiedType
<1>5. nextIdentity' = Advanced(nextIdentity) /\ UNCHANGED <<nextSnapshot, histories>>
  BY DEF Construct
<1>6. \A d \in Cells : targets'[d] = IF d = c THEN Identified(env, Allocated(nextIdentity))
                                              ELSE targets[d]
  BY <1>1, <1>2
<1>7. targets' \in [Cells -> Envelope]
  BY <1>1, <1>2, <1>4
<1> QED
  BY <1>2, <1>3, <1>4, <1>5, <1>6, <1>7, CounterStep DEF Renewed, Ids

LEMMA CopyRenews ==
    ASSUME IInv, NEW from \in Cells, NEW to \in Cells, Copy(from, to)
    PROVE  Renewed
<1> DEFINE new == [targets[from] EXCEPT !.identity = Allocated(nextIdentity)]
<1>2. /\ nextIdentity \in 1..LastId /\ targets \in [Cells -> Envelope]
      /\ \A d \in Cells : targets[d].identity < nextIdentity
  BY DEF IInv, TypeInv, IdentitiesPassed
<1>3. \A d \in Cells : targets[d].identity \in Ids
  BY <1>2 DEF Envelope
<1>4. new \in Envelope /\ new.identity = Allocated(nextIdentity)
  BY <1>2, CounterStep DEF Envelope
<1>5. /\ targets' = [targets EXCEPT ![to] = new]
      /\ nextIdentity' = Advanced(nextIdentity) /\ UNCHANGED <<nextSnapshot, histories>>
  BY DEF Copy
<1> HIDE DEF new
<1>6. \A d \in Cells : targets'[d] = IF d = to THEN new ELSE targets[d]
  BY <1>5, <1>2
<1>7. targets' \in [Cells -> Envelope]
  BY <1>2, <1>4, <1>5
<1> QED
  BY <1>2, <1>3, <1>4, <1>5, <1>6, <1>7, CounterStep DEF Renewed, Ids

LEMMA MoveRenews ==
    ASSUME IInv, NEW from \in Cells, NEW to \in Cells, Move(from, to)
    PROVE  Renewed
<1> DEFINE new == [targets[from] EXCEPT !.identity = Allocated(nextIdentity)]
           old == [targets[from] EXCEPT !.identity = Allocated(Advanced(nextIdentity))]
<1>2. /\ nextIdentity \in 1..LastId /\ targets \in [Cells -> Envelope]
      /\ \A d \in Cells : targets[d].identity < nextIdentity
  BY DEF IInv, TypeInv, IdentitiesPassed
<1>3. \A d \in Cells : targets[d].identity \in Ids
  BY <1>2 DEF Envelope
<1>4. Advanced(nextIdentity) \in 1..LastId
  BY <1>2, CounterStep
<1>5. new \in Envelope /\ new.identity = Allocated(nextIdentity)
  BY <1>2, CounterStep DEF Envelope
<1>6. old \in Envelope /\ old.identity = Allocated(Advanced(nextIdentity))
  BY <1>2, <1>4, CounterStep DEF Envelope
<1>7. /\ from # to
      /\ targets' = [targets EXCEPT ![to] = new, ![from] = old]
      /\ nextIdentity' = Advanced(Advanced(nextIdentity))
      /\ UNCHANGED <<nextSnapshot, histories>>
  BY <1>2 DEF Move
<1> HIDE DEF new, old
<1>8. \A d \in Cells : targets'[d] = IF d = to THEN new
                                     ELSE IF d = from THEN old ELSE targets[d]
  BY <1>7, <1>2
<1>9. targets' \in [Cells -> Envelope]
  BY <1>2, <1>5, <1>6, <1>7
<1>10. /\ Allocated(nextIdentity) \in Ids /\ Advanced(nextIdentity) \in nextIdentity..LastId
       /\ Allocated(nextIdentity) # 0 => /\ Allocated(nextIdentity) = nextIdentity
                                         /\ Advanced(nextIdentity) = nextIdentity + 1
       /\ Allocated(nextIdentity) < Advanced(nextIdentity)
  BY <1>2, CounterStep
<1>11. /\ Allocated(Advanced(nextIdentity)) \in Ids
       /\ nextIdentity' \in Advanced(nextIdentity)..LastId
       /\ Allocated(Advanced(nextIdentity)) # 0 =>
             Allocated(Advanced(nextIdentity)) = Advanced(nextIdentity)
       /\ Allocated(Advanced(nextIdentity)) < nextIdentity'
  BY <1>4, <1>7, CounterStep
<1> QED
  BY <1>2, <1>3, <1>5, <1>6, <1>7, <1>8, <1>9, <1>10, <1>11 DEF Renewed, Ids

LEMMA LimitsRenew ==
    ASSUME IInv, NEW c \in Cells, NEW lim \in Limits, SetLimits(c, lim)
    PROVE  Renewed
<1>1. /\ targets \in [Cells -> Envelope] /\ nextIdentity \in 1..LastId
      /\ \A d \in Cells : targets[d].identity < nextIdentity
  BY DEF IInv, TypeInv, IdentitiesPassed
<1>2. lim.min \in Double /\ lim.max \in Double /\ lim.step \in Double
  BY LearningAssumption
<1>3. targets' \in [Cells -> Envelope]
  BY <1>1, <1>2 DEF SetLimits, Envelope
<1>4. \A d \in Cells : /\ targets'[d].identity = targets[d].identity
                       /\ targets'[d].current = targets[d].current
                       /\ targets[d].identity \in Ids
  BY <1>1 DEF SetLimits, Envelope
<1> QED
  BY <1>1, <1>3, <1>4 DEF SetLimits, Renewed, counters, Ids

LEMMA RenameRenews ==
    ASSUME IInv, NEW c \in Cells, NEW name \in Names, Rename(c, name)
    PROVE  Renewed
<1>1. /\ targets \in [Cells -> Envelope] /\ nextIdentity \in 1..LastId
      /\ \A d \in Cells : targets[d].identity < nextIdentity
  BY DEF IInv, TypeInv, IdentitiesPassed
<1>3. targets' \in [Cells -> Envelope]
  BY <1>1 DEF Rename, Envelope, Name
<1>4. \A d \in Cells : /\ targets'[d].identity = targets[d].identity
                       /\ targets'[d].current = targets[d].current
                       /\ targets[d].identity \in Ids
  BY <1>1 DEF Rename, Envelope
<1> QED
  BY <1>1, <1>3, <1>4 DEF Rename, Renewed, counters, Ids

-----------------------------------------------------------------------------
(***************************************************************************)
(* The committed records.                                                  *)
(***************************************************************************)
\* A committed record stands in the history of some engine.
LEMMA CommittedWhere ==
    ASSUME NEW identity, NEW r
    PROVE  r \in Committed(identity) <=>
              /\ r.identity = identity
              /\ \E e \in Engines : \E k \in DOMAIN snapshots[e] : r = snapshots[e][k]
BY DEF Committed, Range

\* It carries a handle and an identity the counters have passed.
LEMMA CommittedPassed ==
    ASSUME IInv, NEW identity, NEW r \in Committed(identity)
    PROVE  /\ r.id \in 1..(nextSnapshot - 1)
           /\ identity \in 1..(nextIdentity - 1)
<1>1. PICK e \in Engines : \E k \in DOMAIN snapshots[e] : r = snapshots[e][k]
  BY CommittedWhere
<1>2. r.identity = identity
  BY CommittedWhere
<1> QED
  BY <1>1, <1>2 DEF IInv, RecordsPassed

\* Renewed envelopes keep the invariant: a kept identity keeps its life and its
\* value, and a new one has no life yet.
LEMMA RenewedKeeps ==
    ASSUME IInv, Renewed
    PROVE  IInv'
<1>1. /\ targets \in [Cells -> Envelope] /\ targets' \in [Cells -> Envelope]
      /\ nextIdentity \in 1..LastId /\ nextIdentity' \in nextIdentity..LastId
      /\ nextSnapshot \in 1..LastId
      /\ UNCHANGED <<nextSnapshot, snapshots, audit, grants>>
  BY DEF IInv, TypeInv, Renewed, histories
<1>2. \A c \in Cells : targets[c].identity \in Ids /\ targets'[c].identity \in Ids
  BY <1>1 DEF Envelope
<1>3. TypeInv'
  BY <1>1, LearningAssumption DEF IInv, TypeInv
<1>4. IdentitiesPassed'
  BY DEF Renewed, IdentitiesPassed
<1>5. RecordsPassed'
  <2>1. \A e \in Engines : \A k \in DOMAIN snapshots[e] :
            /\ snapshots[e][k].id \in 1..(nextSnapshot - 1)
            /\ snapshots[e][k].identity \in 1..(nextIdentity' - 1)
    BY <1>1 DEF IInv, RecordsPassed
  <2> QED
    BY <1>1, <2>1 DEF RecordsPassed
<1>6. GrantsRepeatRecords'
  BY <1>1 DEF IInv, GrantsRepeatRecords
<1>7. HistoriesAgree'
  BY <1>1 DEF IInv, HistoriesAgree
<1>8. \A c \in Cells :
        \/ /\ targets'[c].identity = targets[c].identity
           /\ targets'[c].current = targets[c].current
        \/ targets'[c].identity = 0
        \/ targets'[c].identity >= nextIdentity
  BY DEF Renewed
<1>8a. NoInheritedGrant
  BY DEF IInv
<1>9. NoInheritedGrant'
  <2>1. ASSUME NEW c \in Cells, NEW d \in Cells,
               targets'[c].identity = targets'[d].identity, targets'[c].identity # 0
        PROVE  c = d
    <3>1. CASE targets'[c].identity >= nextIdentity
      BY <2>1, <3>1 DEF Renewed
    <3>2. CASE ~(targets'[c].identity >= nextIdentity)
      <4>1. /\ targets'[c].identity = targets[c].identity
            /\ targets'[d].identity = targets[d].identity
        BY <2>1, <3>2, <1>8
      <4> QED
        BY <1>8a, <2>1, <4>1 DEF NoInheritedGrant
    <3> QED
      BY <3>1, <3>2
  <2>2. ASSUME NEW e \in Engines, NEW h \in DOMAIN grants[e], NEW c \in Cells,
               targets'[c].identity = grants[e][h].identity
        PROVE  grants[e][h].target = c
    <3>1. PICK k \in DOMAIN snapshots[e] : h = snapshots[e][k].id
      BY DEF IInv, HistoriesAgree
    <3>2. grants[e][h].identity \in 1..(nextIdentity - 1)
      BY <3>1 DEF IInv, RecordsPassed, GrantsRepeatRecords
    <3>3. targets'[c].identity = targets[c].identity
      BY <1>1, <1>2, <1>8, <2>2, <3>2
    <3>4. targets[c].identity = grants[e][h].identity
      BY <2>2, <3>3
    <3> QED
      BY <1>8a, <3>4 DEF NoInheritedGrant
  <2> QED
    BY <1>1, <2>1, <2>2 DEF NoInheritedGrant
<1>10. RecordsReplayTarget'
  <2>1. \A i : Committed(i)' = Committed(i)
    BY <1>1 DEF Committed
  <2> SUFFICES ASSUME NEW c \in Cells, targets'[c].identity # 0
               PROVE  LET life == Committed(targets'[c].identity)
                      IN  /\ \A r \in life : (\A s \in life : s.id <= r.id)
                                                => r.applied = targets'[c].current
                          /\ \A r, s \in life :
                                /\ r.id < s.id
                                /\ ~\E t \in life : r.id < t.id /\ t.id < s.id
                                => s.previous = r.applied
                          /\ \A e \in Engines : \A r, s \in life \cap Range(snapshots[e]) :
                                r.compartment = s.compartment /\ r.name = s.name
    BY <1>1, <2>1 DEF RecordsReplayTarget, Committed
  <2>2. CASE targets'[c].identity >= nextIdentity
    <3>1. \A r : r \notin Committed(targets'[c].identity)
      BY <1>1, <1>2, <2>2, CommittedPassed
    <3> QED
      BY <3>1
  <2>3. CASE /\ targets'[c].identity = targets[c].identity
             /\ targets'[c].current = targets[c].current
    BY <2>3 DEF IInv, RecordsReplayTarget
  <2> QED
    BY <1>8, <2>2, <2>3
<1> QED
  BY <1>3, <1>4, <1>5, <1>6, <1>7, <1>9, <1>10 DEF IInv

\* A handle that is drawn and thrown away changes nothing else.
LEMMA AbandonKeeps ==
    ASSUME IInv, Abandon
    PROVE  IInv'
<1>1. /\ UNCHANGED <<targets, nextIdentity, snapshots, audit, grants>>
      /\ nextSnapshot \in 1..LastId /\ nextSnapshot' \in nextSnapshot..LastId
  BY CounterStep DEF Abandon, histories, IInv, TypeInv
<1>2. TypeInv'
  BY <1>1, LearningAssumption DEF IInv, TypeInv
<1>3. RecordsPassed'
  <2>1. \A e \in Engines : \A k \in DOMAIN snapshots[e] :
            /\ snapshots[e][k].id \in 1..(nextSnapshot' - 1)
            /\ snapshots[e][k].identity \in 1..(nextIdentity - 1)
    BY <1>1 DEF IInv, RecordsPassed
  <2> QED
    BY <1>1, <2>1 DEF RecordsPassed
<1>4. IdentitiesPassed' /\ GrantsRepeatRecords' /\ NoInheritedGrant' /\ HistoriesAgree'
  BY <1>1 DEF IInv, IdentitiesPassed, GrantsRepeatRecords, NoInheritedGrant, HistoriesAgree
<1>5. RecordsReplayTarget'
  <2>1. \A i : Committed(i)' = Committed(i)
    BY <1>1 DEF Committed
  <2> QED
    BY <1>1, <2>1 DEF IInv, RecordsReplayTarget, Committed
<1> QED
  BY <1>2, <1>3, <1>4, <1>5 DEF IInv

-----------------------------------------------------------------------------
(***************************************************************************)
(* What the engine does to a target: a commit or a refusal.                *)
(***************************************************************************)
\* The record of an attempt, whatever its outcome.
Describes(rec, e, c, op) ==
    /\ rec \in Attempted
    /\ rec.op = op
    /\ rec.auditId = Len(audit[e]) + 1
    /\ rec.identity = targets[c].identity
    /\ rec.name = targets[c].name
    /\ rec.previous = targets[c].current

\* The record of a permitted attempt enters both histories and leaves a grant.
Commit(e, c, rec) ==
    /\ rec.approved
    /\ rec.id = nextSnapshot
    /\ nextSnapshot' = nextSnapshot + 1
    /\ nextSnapshot' \in 1..LastId
    /\ UNCHANGED nextIdentity
    /\ audit' = [audit EXCEPT ![e] = Append(@, rec)]
    /\ snapshots' = [snapshots EXCEPT ![e] = Append(@, rec)]
    /\ grants' = [grants EXCEPT ![e] = Granted(@, c, rec)]
    /\ targets' = [targets EXCEPT ![c].current = rec.applied]

\* That of a refused one enters the audit; a handle may have been drawn for it.
Refuse(e, rec) ==
    /\ ~rec.approved
    /\ nextSnapshot' \in nextSnapshot..LastId
    /\ UNCHANGED <<targets, nextIdentity, snapshots, grants>>
    /\ audit' = [audit EXCEPT ![e] = Append(@, rec)]

\* An attempt is one of the two.
LEMMA AttemptIsOneOfTwo ==
    ASSUME IInv, NEW e \in Engines, NEW c \in Cells, NEW permitted \in BOOLEAN,
           NEW op \in Operation, NEW source \in Ids, NEW compartment \in Owner,
           NEW proposed \in Double,
           Attempt(e, c, permitted, op, source, compartment, proposed)
    PROVE  \E rec \in Attempted :
              /\ Describes(rec, e, c, op)
              /\ rec.compartment = compartment
              /\ \/ permitted /\ rec.applied = proposed /\ Commit(e, c, rec)
                 \/ Refuse(e, rec)
<1> DEFINE id == IF permitted THEN Allocated(nextSnapshot) ELSE 0
           rec == Record(e, id, op, source, c, compartment, proposed)
<1>1. /\ targets[c] \in Envelope /\ nextSnapshot \in 1..LastId
      /\ audit[e] \in Seq(Attempted)
  BY DEF IInv, TypeInv
<1>2. id \in Ids /\ (id # 0 => permitted /\ id = nextSnapshot)
  BY <1>1, CounterStep, LearningAssumption DEF Ids
<1>3. nextSnapshot' = IF permitted THEN Advanced(nextSnapshot) ELSE nextSnapshot
  BY DEF Attempt
<1>4. /\ nextSnapshot' \in nextSnapshot..LastId
      /\ id # 0 => nextSnapshot' = nextSnapshot + 1
  BY <1>1, <1>3, CounterStep
<1>5. RecordAttempt(e, c, rec) /\ UNCHANGED nextIdentity
  BY DEF Attempt
<1> HIDE DEF id
<1>6. rec.approved = (id # 0)
  BY DEF Record
<1>7. /\ rec.id = id /\ rec.op = op /\ rec.auditId = Len(audit[e]) + 1
      /\ rec.identity = targets[c].identity /\ rec.name = targets[c].name
      /\ rec.previous = targets[c].current /\ rec.compartment = compartment
      /\ rec.applied = IF id # 0 THEN proposed ELSE targets[c].current
  BY DEF Record
<1>8. Len(audit[e]) + 1 \in Nat
  BY <1>1
<1>9. rec \in Attempted
  <2>1. (id # 0) \in BOOLEAN
    OBVIOUS
  <2>2. (IF id # 0 THEN proposed ELSE targets[c].current) \in Double
    BY <1>1 DEF Envelope
  <2>3. /\ targets[c].identity \in Ids /\ targets[c].name \in Name
        /\ targets[c].current \in Double
    BY <1>1 DEF Envelope
  <2> QED
    BY <1>2, <1>8, <2>1, <2>2, <2>3 DEF Record, Attempted
<1> HIDE DEF rec
<1>10. Describes(rec, e, c, op)
  BY <1>7, <1>9 DEF Describes
<1>11. CASE id # 0
  <2>1. rec.approved
    BY <1>6, <1>11
  <2>2. Commit(e, c, rec)
    BY <1>1, <1>2, <1>4, <1>5, <1>7, <1>11, <2>1 DEF RecordAttempt, Commit
  <2> QED
    BY <1>2, <1>7, <1>9, <1>10, <1>11, <2>2
<1>12. CASE id = 0
  <2>1. ~rec.approved
    BY <1>6, <1>12
  <2>2. Refuse(e, rec)
    BY <1>4, <1>5, <2>1 DEF RecordAttempt, Refuse
  <2> QED
    BY <1>7, <1>9, <1>10, <2>2
<1> QED
  BY <1>11, <1>12

\* The audit grows by one record at its end, which bears the next number.
AuditGrown(e, rec) ==
    /\ audit' \in [Engines -> Seq(Attempted)]
    /\ Len(audit[e]) \in Nat
    /\ DOMAIN audit[e] = 1..Len(audit[e])
    /\ DOMAIN audit'[e] = 1..(Len(audit[e]) + 1)
    /\ audit'[e][Len(audit[e]) + 1] = rec
    /\ \A n \in DOMAIN audit[e] : audit'[e][n] = audit[e][n]
    /\ \A f \in Engines : f # e => audit'[f] = audit[f]

LEMMA AuditGrows ==
    ASSUME IInv, NEW e \in Engines, NEW c, NEW rec \in Attempted,
           Commit(e, c, rec) \/ Refuse(e, rec)
    PROVE  AuditGrown(e, rec)
<1>1. /\ audit \in [Engines -> Seq(Attempted)]
      /\ audit' = [audit EXCEPT ![e] = Append(@, rec)]
  BY DEF IInv, TypeInv, Commit, Refuse
<1>2. audit'[e] = Append(audit[e], rec) /\ audit[e] \in Seq(Attempted)
  BY <1>1
<1> HIDE DEF Attempted
<1>3. audit' \in [Engines -> Seq(Attempted)]
  BY <1>1, <1>2
<1> QED
  BY <1>1, <1>2, <1>3 DEF AuditGrown

\* A refusal keeps the invariant.
LEMMA RefuseKeeps ==
    ASSUME IInv, NEW e \in Engines, NEW c \in Cells, NEW op, NEW rec,
           Describes(rec, e, c, op), Refuse(e, rec)
    PROVE  IInv'
<1>1. /\ UNCHANGED <<targets, nextIdentity, snapshots, grants>>
      /\ nextSnapshot \in 1..LastId /\ nextSnapshot' \in nextSnapshot..LastId
      /\ audit' = [audit EXCEPT ![e] = Append(@, rec)]
      /\ ~rec.approved
  BY DEF Refuse, IInv, TypeInv
<1>2. /\ audit' \in [Engines -> Seq(Attempted)]
      /\ Len(audit[e]) \in Nat
      /\ DOMAIN audit[e] = 1..Len(audit[e])
      /\ DOMAIN audit'[e] = 1..(Len(audit[e]) + 1)
      /\ audit'[e][Len(audit[e]) + 1] = rec
      /\ \A n \in DOMAIN audit[e] : audit'[e][n] = audit[e][n]
      /\ \A f \in Engines : f # e => audit'[f] = audit[f]
  BY AuditGrows DEF AuditGrown, Describes
<1>3. TypeInv'
  BY <1>1, <1>2, LearningAssumption DEF IInv, TypeInv
<1>4. RecordsPassed'
  <2>1. \A f \in Engines : \A k \in DOMAIN snapshots[f] :
            /\ snapshots[f][k].id \in 1..(nextSnapshot' - 1)
            /\ snapshots[f][k].identity \in 1..(nextIdentity - 1)
    BY <1>1 DEF IInv, RecordsPassed
  <2> QED
    BY <1>1, <2>1 DEF RecordsPassed
<1>5. IdentitiesPassed' /\ GrantsRepeatRecords' /\ NoInheritedGrant'
  BY <1>1 DEF IInv, IdentitiesPassed, GrantsRepeatRecords, NoInheritedGrant
<1>6. RecordsReplayTarget'
  <2>1. \A i : Committed(i)' = Committed(i)
    BY <1>1 DEF Committed
  <2> QED
    BY <1>1, <2>1 DEF IInv, RecordsReplayTarget, Committed
<1>7. HistoriesAgree'
  <2>1. rec.auditId = Len(audit[e]) + 1
    BY DEF Describes
  <2>2. ASSUME NEW f \in Engines
        PROVE  /\ \A n \in DOMAIN audit'[f] :
                     /\ audit'[f][n].auditId = n
                     /\ audit'[f][n].approved =>
                           \E k \in DOMAIN snapshots[f] : snapshots[f][k] = audit'[f][n]
               /\ \A k \in DOMAIN snapshots[f] :
                     /\ snapshots[f][k].approved
                     /\ \E n \in DOMAIN audit'[f] : audit'[f][n] = snapshots[f][k]
    <3>1. CASE f # e
      BY <1>2, <3>1 DEF IInv, HistoriesAgree
    <3>2. CASE f = e
      <4>1. ASSUME NEW n \in DOMAIN audit'[e]
            PROVE  /\ audit'[e][n].auditId = n
                   /\ audit'[e][n].approved =>
                         \E k \in DOMAIN snapshots[e] : snapshots[e][k] = audit'[e][n]
        <5>1. CASE n = Len(audit[e]) + 1
          BY <1>1, <1>2, <2>1, <5>1
        <5>2. CASE n \in DOMAIN audit[e]
          BY <1>2, <5>2 DEF IInv, HistoriesAgree
        <5> QED
          BY <1>2, <5>1, <5>2
      <4>2. ASSUME NEW k \in DOMAIN snapshots[e]
            PROVE  /\ snapshots[e][k].approved
                   /\ \E n \in DOMAIN audit'[e] : audit'[e][n] = snapshots[e][k]
        <5>1. snapshots[e][k].approved
          BY DEF IInv, HistoriesAgree
        <5>2. PICK n \in DOMAIN audit[e] : audit[e][n] = snapshots[e][k]
          BY DEF IInv, HistoriesAgree
        <5>3. n \in DOMAIN audit'[e] /\ audit'[e][n] = snapshots[e][k]
          BY <1>2, <5>2
        <5> QED
          BY <5>1, <5>3
      <4> QED
        BY <3>2, <4>1, <4>2
    <3> QED
      BY <3>1, <3>2
  <2>3. /\ \A f \in Engines :
              /\ \A k, m \in DOMAIN snapshots[f] :
                    k < m => /\ snapshots[f][k].id < snapshots[f][m].id
                             /\ snapshots[f][k].auditId < snapshots[f][m].auditId
              /\ DOMAIN grants[f] = {snapshots[f][k].id : k \in DOMAIN snapshots[f]}
        /\ \A f, g \in Engines : f # g => DOMAIN grants[f] \cap DOMAIN grants[g] = {}
    BY DEF IInv, HistoriesAgree
  <2> QED
    BY <1>1, <2>2, <2>3 DEF HistoriesAgree
<1> QED
  BY <1>3, <1>4, <1>5, <1>6, <1>7 DEF IInv

\* The committed history grows by the same record.
SnapshotsGrown(e, rec) ==
    /\ snapshots' \in [Engines -> Seq(Attempted)]
    /\ Len(snapshots[e]) \in Nat
    /\ DOMAIN snapshots[e] = 1..Len(snapshots[e])
    /\ DOMAIN snapshots'[e] = 1..(Len(snapshots[e]) + 1)
    /\ snapshots'[e][Len(snapshots[e]) + 1] = rec
    /\ \A k \in DOMAIN snapshots[e] : snapshots'[e][k] = snapshots[e][k]
    /\ \A f \in Engines : f # e => snapshots'[f] = snapshots[f]

LEMMA SnapshotsGrow ==
    ASSUME IInv, NEW e \in Engines, NEW c, NEW rec \in Attempted, Commit(e, c, rec)
    PROVE  SnapshotsGrown(e, rec)
<1>1. /\ snapshots \in [Engines -> Seq(Attempted)]
      /\ snapshots' = [snapshots EXCEPT ![e] = Append(@, rec)]
  BY DEF IInv, TypeInv, Commit
<1>2. snapshots'[e] = Append(snapshots[e], rec) /\ snapshots[e] \in Seq(Attempted)
  BY <1>1
<1> HIDE DEF Attempted
<1>3. snapshots' \in [Engines -> Seq(Attempted)]
  BY <1>1, <1>2
<1> QED
  BY <1>1, <1>2, <1>3 DEF SnapshotsGrown

\* Every committed record of the new state is an old one of the same engine or
\* the one just committed.
LEMMA CommitAdds ==
    ASSUME IInv, NEW e \in Engines, NEW c, NEW rec \in Attempted, Commit(e, c, rec)
    PROVE  /\ \A f \in Engines : f # e => Range(snapshots[f])' = Range(snapshots[f])
           /\ Range(snapshots[e])' = Range(snapshots[e]) \cup {rec}
           /\ \A i : Committed(i)' =
                        Committed(i) \cup {r \in {rec} : r.identity = i}
<1>1. /\ DOMAIN snapshots[e] = 1..Len(snapshots[e])
      /\ DOMAIN snapshots'[e] = 1..(Len(snapshots[e]) + 1)
      /\ Len(snapshots[e]) \in Nat
      /\ snapshots'[e][Len(snapshots[e]) + 1] = rec
      /\ \A k \in DOMAIN snapshots[e] : snapshots'[e][k] = snapshots[e][k]
      /\ \A f \in Engines : f # e => snapshots'[f] = snapshots[f]
  BY SnapshotsGrow DEF SnapshotsGrown
<1>2. \A f \in Engines : f # e => Range(snapshots[f])' = Range(snapshots[f])
  BY <1>1 DEF Range
<1>3. Range(snapshots[e])' = Range(snapshots[e]) \cup {rec}
  <2>1. ASSUME NEW r \in Range(snapshots[e])'
        PROVE  r \in Range(snapshots[e]) \cup {rec}
    <3>1. PICK k \in DOMAIN snapshots'[e] : r = snapshots'[e][k]
      BY DEF Range
    <3>2. CASE k = Len(snapshots[e]) + 1
      BY <1>1, <3>1, <3>2
    <3>3. CASE k \in DOMAIN snapshots[e]
      BY <1>1, <3>1, <3>3 DEF Range
    <3> QED
      BY <1>1, <3>2, <3>3
  <2>2. rec \in Range(snapshots[e])'
    BY <1>1 DEF Range
  <2>3. ASSUME NEW r \in Range(snapshots[e])
        PROVE  r \in Range(snapshots[e])'
    <3>1. PICK k \in DOMAIN snapshots[e] : r = snapshots[e][k]
      BY DEF Range
    <3>2. k \in DOMAIN snapshots'[e] /\ r = snapshots'[e][k]
      BY <1>1, <3>1
    <3> QED
      BY <3>2 DEF Range
  <2> QED
    BY <2>1, <2>2, <2>3
<1>4. ASSUME NEW i
      PROVE  Committed(i)' = Committed(i) \cup {r \in {rec} : r.identity = i}
  <2> DEFINE new == {r \in {rec} : r.identity = i}
  <2>1. Committed(i)' = {r \in UNION {Range(snapshots[f])' : f \in Engines} : r.identity = i}
    BY DEF Committed
  <2>2. ASSUME NEW r
        PROVE  r \in Committed(i)' <=> r \in Committed(i) \cup new
    <3>1. r \in Committed(i)' <=>
             r.identity = i /\ \E f \in Engines : r \in Range(snapshots[f])'
      BY <2>1
    <3>2. r \in Committed(i) <=>
             r.identity = i /\ \E f \in Engines : r \in Range(snapshots[f])
      BY DEF Committed
    <3>3. (\E f \in Engines : r \in Range(snapshots[f])') <=>
             (\E f \in Engines : r \in Range(snapshots[f])) \/ r = rec
      BY <1>2, <1>3
    <3> QED
      BY <3>1, <3>2, <3>3
  <2> QED
    BY <2>2
<1> QED
  BY <1>2, <1>3, <1>4

\* The new grant joins the others, which stay.
GrantsGrown(e, c, rec) ==
    /\ rec.id \notin DOMAIN grants[e]
    /\ DOMAIN grants' = Engines
    /\ grants' = [f \in Engines |-> grants'[f]]
    /\ DOMAIN grants'[e] = DOMAIN grants[e] \cup {rec.id}
    /\ \A h \in DOMAIN grants[e] : grants'[e][h] = grants[e][h]
    /\ grants'[e][rec.id] = [target |-> c, identity |-> rec.identity,
                             compartment |-> rec.compartment, name |-> rec.name]
    /\ \A f \in Engines : f # e => grants'[f] = grants[f]

LEMMA GrantsGrow ==
    ASSUME IInv, NEW e \in Engines, NEW c \in Cells, NEW rec \in Attempted,
           Commit(e, c, rec)
    PROVE  GrantsGrown(e, c, rec)
<1>1. /\ DOMAIN grants = Engines /\ grants = [f \in Engines |-> grants[f]]
      /\ rec.id = nextSnapshot
      /\ grants' = [grants EXCEPT ![e] = Granted(@, c, rec)]
  BY DEF IInv, TypeInv, Commit
<1>2. rec.id \notin DOMAIN grants[e]
  <2>1. nextSnapshot \in Nat
    BY LearningAssumption DEF IInv, TypeInv
  <2>2. DOMAIN grants[e] = {snapshots[e][k].id : k \in DOMAIN snapshots[e]}
    BY DEF IInv, HistoriesAgree
  <2>3. \A k \in DOMAIN snapshots[e] : snapshots[e][k].id \in 1..(nextSnapshot - 1)
    BY DEF IInv, RecordsPassed
  <2> QED
    BY <1>1, <2>1, <2>2, <2>3
<1>3. grants'[e] = Granted(grants[e], c, rec)
  BY <1>1
<1>4. \A f \in Engines : f # e => grants'[f] = grants[f]
  BY <1>1
<1>5. DOMAIN grants' = Engines /\ grants' = [f \in Engines |-> grants'[f]]
  BY <1>1
<1> QED
  BY <1>1, <1>2, <1>3, <1>4, <1>5 DEF Granted, GrantsGrown

-----------------------------------------------------------------------------
(***************************************************************************)
(* A commit keeps the invariant.                                           *)
(***************************************************************************)
LEMMA CommitKeepsRanges ==
    ASSUME IInv, NEW e \in Engines, NEW c \in Cells, NEW op, NEW rec,
           Describes(rec, e, c, op), Commit(e, c, rec), rec.identity # 0
    PROVE  TypeInv' /\ IdentitiesPassed' /\ RecordsPassed' /\ GrantsRepeatRecords'
<1>1. /\ rec \in Attempted /\ rec.id = nextSnapshot /\ rec.identity = targets[c].identity
      /\ nextSnapshot' = nextSnapshot + 1 /\ nextSnapshot' \in 1..LastId
      /\ nextIdentity' = nextIdentity /\ nextIdentity \in 1..LastId
      /\ nextSnapshot \in 1..LastId
      /\ targets' = [targets EXCEPT ![c].current = rec.applied]
      /\ targets \in [Cells -> Envelope]
      /\ audit' = [audit EXCEPT ![e] = Append(@, rec)]
      /\ snapshots' = [snapshots EXCEPT ![e] = Append(@, rec)]
      /\ grants' = [grants EXCEPT ![e] = Granted(@, c, rec)]
  BY DEF Describes, Commit, IInv, TypeInv
<1>2. /\ rec.identity \in Ids /\ rec.compartment \in Owner /\ rec.name \in Name
      /\ rec.applied \in Double
  BY <1>1 DEF Attempted
<1>3. /\ targets' \in [Cells -> Envelope]
      /\ \A d \in Cells : targets'[d].identity = targets[d].identity
  BY <1>1, <1>2 DEF Envelope
<1>4. /\ DOMAIN grants' = Engines /\ grants' = [f \in Engines |-> grants'[f]]
      /\ DOMAIN grants'[e] = DOMAIN grants[e] \cup {rec.id}
      /\ \A h \in DOMAIN grants[e] : grants'[e][h] = grants[e][h]
      /\ grants'[e][rec.id] = [target |-> c, identity |-> rec.identity,
                               compartment |-> rec.compartment, name |-> rec.name]
      /\ \A f \in Engines : f # e => grants'[f] = grants[f]
  BY GrantsGrow DEF GrantsGrown, Describes
<1>5. /\ snapshots' \in [Engines -> Seq(Attempted)]
      /\ Len(snapshots[e]) \in Nat
      /\ DOMAIN snapshots[e] = 1..Len(snapshots[e])
      /\ DOMAIN snapshots'[e] = 1..(Len(snapshots[e]) + 1)
      /\ snapshots'[e][Len(snapshots[e]) + 1] = rec
      /\ \A k \in DOMAIN snapshots[e] : snapshots'[e][k] = snapshots[e][k]
      /\ \A f \in Engines : f # e => snapshots'[f] = snapshots[f]
  BY SnapshotsGrow DEF SnapshotsGrown, Describes
<1>6. targets[c].identity \in 1..(nextIdentity - 1)
  <2>1. targets[c].identity \in Ids
    BY <1>1 DEF Envelope
  <2> QED
    BY <1>1, <2>1 DEF IInv, IdentitiesPassed, Ids
<1>7. ASSUME NEW f \in Engines, NEW h \in DOMAIN grants'[f]
      PROVE  grants'[f][h] \in Grant
  <2>1. CASE f # e \/ h \in DOMAIN grants[e]
    BY <1>4, <2>1 DEF IInv, TypeInv
  <2>2. CASE f = e /\ h = rec.id
    BY <1>2, <1>4, <2>2 DEF Grant
  <2> QED
    BY <1>4, <2>1, <2>2
<1>8. TypeInv'
  <2>1. audit' \in [Engines -> Seq(Attempted)]
    BY AuditGrows DEF AuditGrown, Describes
  <2> QED
    BY <1>1, <1>3, <1>4, <1>5, <1>7, <2>1 DEF TypeInv
<1>9. IdentitiesPassed'
  BY <1>1, <1>3 DEF IInv, IdentitiesPassed
<1>10. RecordsPassed'
  <2> SUFFICES ASSUME NEW f \in Engines, NEW k \in DOMAIN snapshots'[f]
               PROVE  /\ snapshots'[f][k].id \in 1..(nextSnapshot' - 1)
                      /\ snapshots'[f][k].identity \in 1..(nextIdentity' - 1)
    BY DEF RecordsPassed
  <2>1. ASSUME k \in DOMAIN snapshots[f], snapshots'[f][k] = snapshots[f][k]
        PROVE  /\ snapshots'[f][k].id \in 1..(nextSnapshot' - 1)
               /\ snapshots'[f][k].identity \in 1..(nextIdentity' - 1)
    <3>1. /\ snapshots[f][k].id \in 1..(nextSnapshot - 1)
          /\ snapshots[f][k].identity \in 1..(nextIdentity - 1)
      BY <2>1 DEF IInv, RecordsPassed
    <3> QED
      BY <1>1, <2>1, <3>1
  <2>2. CASE f # e
    BY <1>5, <2>1, <2>2
  <2>3. CASE f = e /\ k \in DOMAIN snapshots[e]
    BY <1>5, <2>1, <2>3
  <2>4. CASE f = e /\ k = Len(snapshots[e]) + 1
    BY <1>1, <1>5, <1>6, <2>4
  <2> QED
    BY <1>5, <2>2, <2>3, <2>4
<1>11. GrantsRepeatRecords'
  <2> SUFFICES ASSUME NEW f \in Engines, NEW k \in DOMAIN snapshots'[f]
               PROVE  LET s == snapshots'[f][k]
                      IN  /\ s.id \in DOMAIN grants'[f]
                          /\ grants'[f][s.id].identity = s.identity
                          /\ grants'[f][s.id].compartment = s.compartment
                          /\ grants'[f][s.id].name = s.name
    BY DEF GrantsRepeatRecords
  <2>1. CASE f # e
    <3>1. snapshots'[f] = snapshots[f] /\ grants'[f] = grants[f]
      BY <1>4, <1>5, <2>1
    <3>2. GrantsRepeatRecords
      BY DEF IInv
    <3> QED
      BY <3>1, <3>2 DEF GrantsRepeatRecords
  <2>2. CASE f = e /\ k \in DOMAIN snapshots[e]
    BY <1>4, <1>5, <2>2 DEF IInv, GrantsRepeatRecords
  <2>3. CASE f = e /\ k = Len(snapshots[e]) + 1
    BY <1>4, <1>5, <2>3
  <2> QED
    BY <1>5, <2>1, <2>2, <2>3
<1> QED
  BY <1>8, <1>9, <1>10, <1>11

LEMMA CommitKeepsGrants ==
    ASSUME IInv, NEW e \in Engines, NEW c \in Cells, NEW op, NEW rec,
           Describes(rec, e, c, op), Commit(e, c, rec), rec.identity # 0
    PROVE  NoInheritedGrant'
<1>1. /\ rec \in Attempted /\ rec.id = nextSnapshot /\ rec.identity = targets[c].identity
      /\ targets' = [targets EXCEPT ![c].current = rec.applied]
      /\ targets \in [Cells -> Envelope]
      /\ grants' = [grants EXCEPT ![e] = Granted(@, c, rec)]
  BY DEF Describes, Commit, IInv, TypeInv
<1>2. \A d \in Cells : targets'[d].identity = targets[d].identity
  BY <1>1 DEF Envelope
<1>3. /\ DOMAIN grants'[e] = DOMAIN grants[e] \cup {rec.id}
      /\ \A h \in DOMAIN grants[e] : grants'[e][h] = grants[e][h]
      /\ grants'[e][rec.id] = [target |-> c, identity |-> rec.identity,
                               compartment |-> rec.compartment, name |-> rec.name]
      /\ \A f \in Engines : f # e => grants'[f] = grants[f]
  BY GrantsGrow DEF GrantsGrown, Describes
<1>4. ASSUME NEW f \in Engines, NEW h \in DOMAIN grants'[f], NEW d \in Cells,
             targets'[d].identity = grants'[f][h].identity
      PROVE  grants'[f][h].target = d
  <2>1. CASE f # e \/ (f = e /\ h \in DOMAIN grants[e])
    BY <1>2, <1>3, <1>4, <2>1 DEF IInv, NoInheritedGrant
  <2>2. CASE f = e /\ h = rec.id
    <3>1. targets[d].identity = targets[c].identity /\ targets[c].identity # 0
      BY <1>1, <1>2, <1>3, <1>4, <2>2
    <3>2. c = d
      BY <3>1 DEF IInv, NoInheritedGrant
    <3> QED
      BY <1>3, <2>2, <3>2
  <2> QED
    BY <1>3, <2>1, <2>2
<1>5. \A a, b \in Cells :
         targets'[a].identity = targets'[b].identity /\ targets'[a].identity # 0 => a = b
  BY <1>2 DEF IInv, NoInheritedGrant
<1> QED
  BY <1>4, <1>5 DEF NoInheritedGrant

LEMMA CommitKeepsHistories ==
    ASSUME IInv, NEW e \in Engines, NEW c \in Cells, NEW op, NEW rec,
           Describes(rec, e, c, op), Commit(e, c, rec)
    PROVE  HistoriesAgree'
<1>1. /\ rec \in Attempted /\ rec.id = nextSnapshot /\ rec.auditId = Len(audit[e]) + 1
      /\ rec.approved /\ nextSnapshot \in 1..LastId
      /\ audit' = [audit EXCEPT ![e] = Append(@, rec)]
      /\ snapshots' = [snapshots EXCEPT ![e] = Append(@, rec)]
      /\ grants' = [grants EXCEPT ![e] = Granted(@, c, rec)]
  BY DEF Describes, Commit, IInv, TypeInv
<1>2. /\ DOMAIN grants'[e] = DOMAIN grants[e] \cup {rec.id}
      /\ \A f \in Engines : f # e => grants'[f] = grants[f]
  <2>1. GrantsGrown(e, c, rec)
    BY <1>1, GrantsGrow
  <2> QED
    BY <2>1 DEF GrantsGrown
<1>3. /\ Len(snapshots[e]) \in Nat
      /\ DOMAIN snapshots[e] = 1..Len(snapshots[e])
      /\ DOMAIN snapshots'[e] = 1..(Len(snapshots[e]) + 1)
      /\ snapshots'[e][Len(snapshots[e]) + 1] = rec
      /\ \A k \in DOMAIN snapshots[e] : snapshots'[e][k] = snapshots[e][k]
      /\ \A f \in Engines : f # e => snapshots'[f] = snapshots[f]
  BY SnapshotsGrow DEF SnapshotsGrown, Describes
<1>4. /\ Len(audit[e]) \in Nat
      /\ DOMAIN audit[e] = 1..Len(audit[e])
      /\ DOMAIN audit'[e] = 1..(Len(audit[e]) + 1)
      /\ audit'[e][Len(audit[e]) + 1] = rec
      /\ \A n \in DOMAIN audit[e] : audit'[e][n] = audit[e][n]
      /\ \A f \in Engines : f # e => audit'[f] = audit[f]
  BY AuditGrows DEF AuditGrown, Describes
<1>5. /\ \A f \in Engines :
            /\ \A n \in DOMAIN audit[f] :
                  /\ audit[f][n].auditId = n
                  /\ audit[f][n].approved =>
                        \E k \in DOMAIN snapshots[f] : snapshots[f][k] = audit[f][n]
            /\ \A k \in DOMAIN snapshots[f] :
                  /\ snapshots[f][k].approved
                  /\ \E n \in DOMAIN audit[f] : audit[f][n] = snapshots[f][k]
            /\ \A k, m \in DOMAIN snapshots[f] :
                  k < m => /\ snapshots[f][k].id < snapshots[f][m].id
                           /\ snapshots[f][k].auditId < snapshots[f][m].auditId
            /\ DOMAIN grants[f] = {snapshots[f][k].id : k \in DOMAIN snapshots[f]}
      /\ \A f, g \in Engines : f # g => DOMAIN grants[f] \cap DOMAIN grants[g] = {}
  BY DEF IInv, HistoriesAgree
<1>6. \A f \in Engines : \A k \in DOMAIN snapshots[f] :
         snapshots[f][k].id \in 1..(nextSnapshot - 1)
  BY DEF IInv, RecordsPassed
<1>7. \A n \in DOMAIN audit'[e] :
         /\ audit'[e][n].auditId = n
         /\ audit'[e][n].approved =>
               \E k \in DOMAIN snapshots'[e] : snapshots'[e][k] = audit'[e][n]
  <2> TAKE n \in DOMAIN audit'[e]
  <2>1. CASE n = Len(audit[e]) + 1
    <3>1. Len(snapshots[e]) + 1 \in DOMAIN snapshots'[e]
      BY <1>3
    <3> QED
      BY <1>1, <1>3, <1>4, <2>1, <3>1
  <2>2. CASE n \in DOMAIN audit[e]
    <3>1. audit'[e][n] = audit[e][n] /\ audit[e][n].auditId = n
      BY <1>4, <1>5, <2>2
    <3>2. ASSUME audit[e][n].approved
          PROVE  \E k \in DOMAIN snapshots'[e] : snapshots'[e][k] = audit[e][n]
      <4>1. PICK k \in DOMAIN snapshots[e] : snapshots[e][k] = audit[e][n]
        BY <1>5, <2>2, <3>2
      <4>2. k \in DOMAIN snapshots'[e] /\ snapshots'[e][k] = audit[e][n]
        BY <1>3, <4>1
      <4> QED
        BY <4>2
    <3> QED
      BY <3>1, <3>2
  <2> QED
    BY <1>4, <2>1, <2>2
<1>8. \A k \in DOMAIN snapshots'[e] :
         /\ snapshots'[e][k].approved
         /\ \E n \in DOMAIN audit'[e] : audit'[e][n] = snapshots'[e][k]
  <2> TAKE k \in DOMAIN snapshots'[e]
  <2>1. CASE k = Len(snapshots[e]) + 1
    <3>1. Len(audit[e]) + 1 \in DOMAIN audit'[e]
      BY <1>4
    <3> QED
      BY <1>1, <1>3, <1>4, <2>1, <3>1
  <2>2. CASE k \in DOMAIN snapshots[e]
    <3>1. PICK n \in DOMAIN audit[e] : audit[e][n] = snapshots[e][k]
      BY <1>5, <2>2
    <3>2. n \in DOMAIN audit'[e] /\ audit'[e][n] = snapshots'[e][k]
      BY <1>3, <1>4, <2>2, <3>1
    <3> QED
      BY <1>3, <1>5, <2>2, <3>2
  <2> QED
    BY <1>3, <2>1, <2>2
<1>9. \A k \in DOMAIN snapshots[e] :
         snapshots[e][k].id < rec.id /\ snapshots[e][k].auditId < rec.auditId
  <2> TAKE k \in DOMAIN snapshots[e]
  <2>1. snapshots[e][k].id < rec.id
    BY <1>1, <1>6
  <2>2. PICK n \in DOMAIN audit[e] : audit[e][n] = snapshots[e][k]
    BY <1>5
  <2>3. snapshots[e][k].auditId = n
    BY <1>5, <2>2
  <2> QED
    BY <1>1, <1>4, <2>1, <2>3
<1>10. \A k, m \in DOMAIN snapshots'[e] :
          k < m => /\ snapshots'[e][k].id < snapshots'[e][m].id
                   /\ snapshots'[e][k].auditId < snapshots'[e][m].auditId
  <2> TAKE k, m \in DOMAIN snapshots'[e]
  <2> HAVE k < m
  <2>1. k \in DOMAIN snapshots[e]
    BY <1>3
  <2>2. CASE m = Len(snapshots[e]) + 1
    BY <1>3, <1>9, <2>1, <2>2
  <2>3. CASE m \in DOMAIN snapshots[e]
    BY <1>3, <1>5, <2>1, <2>3
  <2> QED
    BY <1>3, <2>2, <2>3
<1>11. DOMAIN grants'[e] = {snapshots'[e][k].id : k \in DOMAIN snapshots'[e]}
  <2>1. \A h \in DOMAIN grants'[e] : \E k \in DOMAIN snapshots'[e] : h = snapshots'[e][k].id
    <3> TAKE h \in DOMAIN grants'[e]
    <3>1. CASE h = rec.id
      <4>1. Len(snapshots[e]) + 1 \in DOMAIN snapshots'[e]
        BY <1>3
      <4> QED
        BY <1>3, <3>1, <4>1
    <3>2. CASE h \in DOMAIN grants[e]
      <4>1. PICK k \in DOMAIN snapshots[e] : h = snapshots[e][k].id
        BY <1>5, <3>2
      <4>2. k \in DOMAIN snapshots'[e] /\ h = snapshots'[e][k].id
        BY <1>3, <4>1
      <4> QED
        BY <4>2
    <3> QED
      BY <1>2, <3>1, <3>2
  <2>2. \A k \in DOMAIN snapshots'[e] : snapshots'[e][k].id \in DOMAIN grants'[e]
    <3> TAKE k \in DOMAIN snapshots'[e]
    <3>1. CASE k = Len(snapshots[e]) + 1
      BY <1>2, <1>3, <3>1
    <3>2. CASE k \in DOMAIN snapshots[e]
      BY <1>2, <1>3, <1>5, <3>2
    <3> QED
      BY <1>3, <3>1, <3>2
  <2> QED
    BY <2>1, <2>2
<1>12. \A f \in Engines : f # e => rec.id \notin DOMAIN grants[f]
  <2> TAKE f \in Engines
  <2>1. DOMAIN grants[f] = {snapshots[f][k].id : k \in DOMAIN snapshots[f]}
    BY <1>5
  <2> QED
    BY <1>1, <1>6, <2>1
<1>13. \A f, g \in Engines : f # g => DOMAIN grants'[f] \cap DOMAIN grants'[g] = {}
  BY <1>2, <1>5, <1>12
<1>14. \A f \in Engines :
          /\ \A n \in DOMAIN audit'[f] :
                /\ audit'[f][n].auditId = n
                /\ audit'[f][n].approved =>
                      \E k \in DOMAIN snapshots'[f] : snapshots'[f][k] = audit'[f][n]
          /\ \A k \in DOMAIN snapshots'[f] :
                /\ snapshots'[f][k].approved
                /\ \E n \in DOMAIN audit'[f] : audit'[f][n] = snapshots'[f][k]
          /\ \A k, m \in DOMAIN snapshots'[f] :
                k < m => /\ snapshots'[f][k].id < snapshots'[f][m].id
                         /\ snapshots'[f][k].auditId < snapshots'[f][m].auditId
          /\ DOMAIN grants'[f] = {snapshots'[f][k].id : k \in DOMAIN snapshots'[f]}
  <2> TAKE f \in Engines
  <2>1. CASE f = e
    BY <2>1, <1>7, <1>8, <1>10, <1>11
  <2>2. CASE f # e
    <3>1. snapshots'[f] = snapshots[f] /\ audit'[f] = audit[f] /\ grants'[f] = grants[f]
      BY <1>2, <1>3, <1>4, <2>2
    <3> QED
      BY <1>5, <3>1
  <2> QED
    BY <2>1, <2>2
<1> QED
  BY <1>13, <1>14 DEF HistoriesAgree

\* The new record is the last of its target's life: it starts where the one
\* before it ended, and its grant binds it to the owner of the earlier ones.
LEMMA CommitKeepsLife ==
    ASSUME IInv, NEW e \in Engines, NEW c \in Cells, NEW op, NEW rec,
           Describes(rec, e, c, op), Commit(e, c, rec),
           MatchesBinding(e, rec.compartment, c)
    PROVE  RecordsReplayTarget'
<1>1. /\ rec \in Attempted /\ rec.id = nextSnapshot /\ rec.identity = targets[c].identity
      /\ rec.name = targets[c].name /\ rec.previous = targets[c].current
      /\ nextSnapshot \in 1..LastId
      /\ targets' = [targets EXCEPT ![c].current = rec.applied]
      /\ targets \in [Cells -> Envelope]
  BY DEF Describes, Commit, IInv, TypeInv
<1>2. /\ \A d \in Cells : targets'[d].identity = targets[d].identity
      /\ \A d \in Cells : d # c => targets'[d].current = targets[d].current
      /\ targets'[c].current = rec.applied
  BY <1>1 DEF Envelope
<1>3. /\ \A f \in Engines : f # e => Range(snapshots[f])' = Range(snapshots[f])
      /\ Range(snapshots[e])' = Range(snapshots[e]) \cup {rec}
      /\ \A i : Committed(i)' = Committed(i) \cup {r \in {rec} : r.identity = i}
  BY <1>1, CommitAdds
<1>4. rec.identity # 0
  BY <1>1 DEF MatchesBinding
<1> SUFFICES ASSUME NEW d \in Cells, targets'[d].identity # 0
             PROVE  LET life == Committed(targets[d].identity)'
                    IN  /\ \A r \in life : (\A s \in life : s.id <= r.id)
                                              => r.applied = targets'[d].current
                        /\ \A r, s \in life :
                              /\ r.id < s.id
                              /\ ~\E t \in life : r.id < t.id /\ t.id < s.id
                              => s.previous = r.applied
                        /\ \A f \in Engines : \A r, s \in life \cap Range(snapshots[f])' :
                              r.compartment = s.compartment /\ r.name = s.name
  BY DEF RecordsReplayTarget, Committed
<1> DEFINE i == targets[d].identity
           old == Committed(i)
<1>5. /\ targets'[d].identity = i /\ i # 0
      /\ Committed(targets[d].identity)' = old \cup {r \in {rec} : r.identity = i}
  <2> DEFINE all == UNION {Range(snapshots[f])' : f \in Engines}
  <2>1. Committed(targets[d].identity)' = {r \in all : r.identity = targets'[d].identity}
    BY DEF Committed
  <2>2. \A j : Committed(j)' = {r \in all : r.identity = j}
    BY DEF Committed
  <2>3. targets'[d].identity = targets[d].identity
    BY <1>2
  <2>4. Committed(targets[d].identity)' = {r \in all : r.identity = targets[d].identity}
    BY <2>1, <2>3
  <2> HIDE DEF all
  <2>5. {r \in all : r.identity = targets[d].identity}
           = Committed(targets[d].identity)
                \cup {r \in {rec} : r.identity = targets[d].identity}
    BY <1>3, <2>2
  <2> QED
    BY <2>3, <2>4, <2>5
<1>6. /\ \A r \in old : (\A s \in old : s.id <= r.id) => r.applied = targets[d].current
      /\ \A r, s \in old :
            /\ r.id < s.id
            /\ ~\E t \in old : r.id < t.id /\ t.id < s.id
            => s.previous = r.applied
      /\ \A f \in Engines : \A r, s \in old \cap Range(snapshots[f]) :
            r.compartment = s.compartment /\ r.name = s.name
  BY <1>5 DEF IInv, RecordsReplayTarget
<1>7. \A r \in old : r.id \in 1..(nextSnapshot - 1) /\ r.identity = i
  BY CommittedPassed, CommittedWhere
<1>8. CASE d # c
  <2>1. rec.identity # i
    BY <1>1, <1>4, <1>8 DEF IInv, NoInheritedGrant
  <2>2. Committed(targets[d].identity)' = old
    BY <1>5, <2>1
  <2>3. \A f \in Engines : old \cap Range(snapshots[f])' = old \cap Range(snapshots[f])
    <3>1. rec \notin old
      BY <1>7, <2>1
    <3> QED
      BY <1>3, <3>1
  <2>4. targets'[d].current = targets[d].current
    BY <1>2, <1>8
  <2> HIDE DEF old
  <2> QED
    BY <1>6, <2>2, <2>3, <2>4
<1>9. CASE d = c
  <2>1. rec.identity = i
    BY <1>1, <1>9
  <2>2. Committed(targets[d].identity)' = old \cup {rec}
    BY <1>5, <2>1
  <2>3. targets[d].current = rec.previous /\ targets'[d].current = rec.applied
    BY <1>1, <1>2, <1>9
  <2>4. \A r \in old : r.id < rec.id /\ r.id \in Nat
    BY <1>1, <1>7
  <2>5. rec.id \in Nat
    BY <1>1, LearningAssumption
  <2>6. ASSUME NEW r \in old \cap Range(snapshots[e])
        PROVE  r.compartment = rec.compartment /\ r.name = rec.name
    <3>1. PICK k \in DOMAIN snapshots[e] : r = snapshots[e][k]
      BY DEF Range
    <3>2. /\ r.id \in DOMAIN grants[e]
          /\ grants[e][r.id].identity = r.identity
          /\ grants[e][r.id].compartment = r.compartment
          /\ grants[e][r.id].name = r.name
      BY <3>1 DEF IInv, GrantsRepeatRecords
    <3>3. r.identity = targets[c].identity
      BY <1>7, <1>9
    <3>4. grants[e][r.id].target = c
      BY <3>2, <3>3 DEF IInv, NoInheritedGrant
    <3> QED
      BY <1>1, <3>2, <3>3, <3>4 DEF MatchesBinding
  <2> HIDE DEF old, i
  <2>7. ASSUME NEW r \in old \cup {rec}, \A s \in old \cup {rec} : s.id <= r.id
        PROVE  r.applied = targets'[d].current
    <3>1. r = rec
      BY <2>4, <2>5, <2>7
    <3> QED
      BY <2>3, <3>1
  <2>8. ASSUME NEW r \in old \cup {rec}, NEW s \in old \cup {rec}, r.id < s.id,
               ~\E t \in old \cup {rec} : r.id < t.id /\ t.id < s.id
        PROVE  s.previous = r.applied
    <3>1. r \in old
      BY <2>4, <2>5, <2>8
    <3>2. CASE s = rec
      <4>1. \A t \in old : t.id <= r.id
        BY <2>4, <2>8, <3>1, <3>2
      <4> QED
        BY <1>6, <2>3, <3>1, <3>2, <4>1
    <3>3. CASE s \in old
      BY <1>6, <2>8, <3>1, <3>3
    <3> QED
      BY <3>2, <3>3
  <2>9. ASSUME NEW f \in Engines, NEW r \in (old \cup {rec}) \cap Range(snapshots[f])',
               NEW s \in (old \cup {rec}) \cap Range(snapshots[f])'
        PROVE  r.compartment = s.compartment /\ r.name = s.name
    <3>1. CASE f = e
      <4>1. ASSUME NEW t \in (old \cup {rec}) \cap Range(snapshots[e])'
            PROVE  t.compartment = rec.compartment /\ t.name = rec.name
        BY <1>3, <2>6
      <4> QED
        BY <2>9, <3>1, <4>1
    <3>2. CASE f # e
      <4>1. r \in Range(snapshots[f]) /\ s \in Range(snapshots[f])
        BY <1>3, <2>9, <3>2
      <4>2. rec \notin Range(snapshots[f])
        <5>1. SUFFICES ASSUME rec \in Range(snapshots[f])
                       PROVE  FALSE
          OBVIOUS
        <5>2. PICK k \in DOMAIN snapshots[f] : rec = snapshots[f][k]
          BY <5>1 DEF Range
        <5>3. rec.id \in 1..(nextSnapshot - 1)
          BY <5>2 DEF IInv, RecordsPassed
        <5> QED
          BY <1>1, <5>3
      <4> QED
        BY <1>6, <2>9, <4>1, <4>2
    <3> QED
      BY <3>1, <3>2
  <2> QED
    BY <2>2, <2>7, <2>8, <2>9
<1> QED
  BY <1>8, <1>9

LEMMA AttemptKeeps ==
    ASSUME IInv, NEW e \in Engines, NEW c \in Cells, NEW permitted \in BOOLEAN,
           NEW op \in Operation, NEW source \in Ids, NEW compartment \in Owner,
           NEW proposed \in Double,
           Attempt(e, c, permitted, op, source, compartment, proposed),
           permitted => MatchesBinding(e, compartment, c)
    PROVE  IInv'
<1>1. PICK rec \in Attempted :
         /\ Describes(rec, e, c, op)
         /\ rec.compartment = compartment
         /\ \/ permitted /\ rec.applied = proposed /\ Commit(e, c, rec)
            \/ Refuse(e, rec)
  BY AttemptIsOneOfTwo
<1>2. CASE permitted /\ Commit(e, c, rec)
  <2>1. MatchesBinding(e, rec.compartment, c)
    BY <1>1, <1>2
  <2>2. rec.identity # 0
    BY <1>1, <2>1 DEF MatchesBinding, Describes
  <2> QED
    BY <1>1, <1>2, <2>1, <2>2, CommitKeepsRanges, CommitKeepsGrants,
       CommitKeepsHistories, CommitKeepsLife DEF IInv
<1>3. CASE Refuse(e, rec)
  BY <1>1, <1>3, RefuseKeeps
<1> QED
  BY <1>1, <1>2, <1>3

-----------------------------------------------------------------------------
(***************************************************************************)
(* The three calls, each an attempt.                                       *)
(***************************************************************************)
\* A handle the engine recorded was recorded once.
LEMMA SourceIsUnique ==
    ASSUME IInv, NEW e \in Engines, NEW h, Sources(e, h) # {}
    PROVE  /\ Min(Sources(e, h)) \in DOMAIN snapshots[e]
           /\ snapshots[e][Min(Sources(e, h))].id = h
<1>1. PICK n \in DOMAIN snapshots[e] : snapshots[e][n].id = h
  BY DEF Sources
<1>2. ASSUME NEW m \in DOMAIN snapshots[e], snapshots[e][m].id = h
      PROVE  m = n
  <2>1. snapshots[e] \in Seq(Attempted)
    BY DEF IInv, TypeInv
  <2>2. m \in Nat /\ n \in Nat
    BY <2>1
  <2>3. \A i, j \in DOMAIN snapshots[e] : i < j => snapshots[e][i].id < snapshots[e][j].id
    BY DEF IInv, HistoriesAgree
  <2>4. snapshots[e][n].id \in 1..(nextSnapshot - 1)
    BY DEF IInv, RecordsPassed
  <2>5. ~(m < n) /\ ~(n < m)
    BY <1>1, <1>2, <2>3, <2>4
  <2> QED
    BY <2>2, <2>5
<1>3. Sources(e, h) = {n}
  BY <1>1, <1>2 DEF Sources
<1>4. n \in Int
  <2>1. snapshots[e] \in Seq(Attempted)
    BY DEF IInv, TypeInv
  <2> QED
    BY <2>1
<1>5. Min({n}) = n
  BY <1>4 DEF Min
<1> QED
  BY <1>1, <1>3, <1>5

\* What a permitted rollback to a value rests on: a record of this engine about
\* this very target under its present name that started from the value.
Remembers(e, c, value) ==
    \E n \in DOMAIN snapshots[e] :
        /\ snapshots[e][n].identity = targets[c].identity
        /\ snapshots[e][n].name = targets[c].name
        /\ snapshots[e][n].previous = value

\* A call of an engine: what it attempts is permitted only for the target's owner,
\* and a rollback only with what the engine remembers.
Call(e, c, permitted, op, source, compartment, proposed) ==
    /\ Attempt(e, c, permitted, op, source, compartment, proposed)
    /\ permitted => MatchesBinding(e, compartment, c)
    /\ permitted /\ op = "rollback" => Remembers(e, c, proposed)

LEMMA ProposeIsCall ==
    ASSUME IInv, NEW e \in Engines, NEW c \in Cells, NEW compartment \in Compartments,
           NEW x \in Proposals, NEW score \in Scores, Propose(e, c, compartment, x, score)
    PROVE  \E permitted \in BOOLEAN, op \in Operation, source \in Ids, owner \in Owner,
              proposed \in Double : Call(e, c, permitted, op, source, owner, proposed)
<1> DEFINE permitted == /\ MayUpdate(Policy, score, targets[c], x)
                        /\ MatchesBinding(e, compartment, c)
<1>1. permitted \in BOOLEAN
  OBVIOUS
<1>2. permitted => MatchesBinding(e, compartment, c)
  OBVIOUS
<1>3. Attempt(e, c, permitted, "proposal", 0, compartment, x)
  BY DEF Propose
<1> HIDE DEF permitted
<1>4. Call(e, c, permitted, "proposal", 0, compartment, x)
  BY <1>2, <1>3 DEF Call
<1>5. 0 \in Ids /\ compartment \in Owner /\ x \in Double
  BY LearningAssumption DEF Ids, Owner
<1>6. "proposal" \in Operation
  BY DEF Operation
<1> USE <1>1, <1>4, <1>5, <1>6
<1> WITNESS permitted \in BOOLEAN, "proposal" \in Operation, 0 \in Ids,
            compartment \in Owner, x \in Double
<1> QED
  BY <1>4

LEMMA RollbackKnownIsCall ==
    ASSUME IInv, NEW e \in Engines, NEW c \in Cells, NEW h \in Ids, RollbackKnown(e, c, h)
    PROVE  \E permitted \in BOOLEAN, op \in Operation, source \in Ids, owner \in Owner,
              proposed \in Double : Call(e, c, permitted, op, source, owner, proposed)
<1> DEFINE n == Min(Sources(e, h))
           src == snapshots[e][n]
           permitted == MayRestore(e, c, h, src)
<1>1. n \in DOMAIN snapshots[e] /\ src.id = h
  BY SourceIsUnique DEF RollbackKnown
<1>2. permitted \in BOOLEAN
  BY DEF MayRestore
<1>3. Attempt(e, c, permitted, "rollback", h, src.compartment, src.previous)
  BY DEF RollbackKnown
<1>4. permitted => /\ MatchesBinding(e, src.compartment, c)
                   /\ GrantedTo(e, c, h)
  BY DEF MayRestore
<1> HIDE DEF permitted, n
<1>5. src \in Attempted
  <2>1. snapshots[e] \in Seq(Attempted)
    BY DEF IInv, TypeInv
  <2> QED
    BY <1>1, <2>1
<1>6. ASSUME permitted
      PROVE  Remembers(e, c, src.previous)
  <2>1. /\ src.id \in DOMAIN grants[e]
        /\ grants[e][src.id].identity = src.identity
        /\ grants[e][src.id].name = src.name
    BY <1>1 DEF IInv, GrantsRepeatRecords
  <2>2. grants[e][h].target = c /\ grants[e][h].identity = targets[c].identity
    BY <1>4, <1>6 DEF GrantedTo
  <2>3. grants[e][h].name = targets[c].name
    BY <1>1, <1>4, <1>6, <2>1, <2>2 DEF MatchesBinding
  <2> QED
    BY <1>1, <2>1, <2>2, <2>3 DEF Remembers
<1>7. Call(e, c, permitted, "rollback", h, src.compartment, src.previous)
  BY <1>3, <1>4, <1>6 DEF Call
<1>8. src.compartment \in Owner /\ src.previous \in Double
  BY <1>5 DEF Attempted
<1> HIDE DEF src
<1>9. "rollback" \in Operation
  BY DEF Operation
<1> USE <1>2, <1>8, <1>9
<1> WITNESS permitted \in BOOLEAN, "rollback" \in Operation, h \in Ids,
            src.compartment \in Owner, src.previous \in Double
<1> QED
  BY <1>7

LEMMA RollbackUnknownIsCall ==
    ASSUME IInv, NEW e \in Engines, NEW c \in Cells, NEW h \in Ids,
           RollbackUnknown(e, c, h)
    PROVE  \E permitted \in BOOLEAN, op \in Operation, source \in Ids, owner \in Owner,
              proposed \in Double : Call(e, c, permitted, op, source, owner, proposed)
<1>1. Call(e, c, FALSE, "rollback", h, NoName, targets[c].current)
  BY DEF RollbackUnknown, Call
<1>2. NoName \in Owner /\ targets[c].current \in Double
  <2>1. targets \in [Cells -> Envelope]
    BY DEF IInv, TypeInv
  <2> QED
    BY <2>1 DEF Owner, Envelope
<1>3. FALSE \in BOOLEAN /\ "rollback" \in Operation
  BY DEF Operation
<1> USE <1>2, <1>3
<1> WITNESS FALSE \in BOOLEAN, "rollback" \in Operation, h \in Ids, NoName \in Owner,
            targets[c].current \in Double
<1> QED
  BY <1>1

\* Every step of an engine is such a call.
LEMMA EngineStepIsCall ==
    ASSUME IInv, EngineStep
    PROVE  \E e \in Engines, c \in Cells, permitted \in BOOLEAN, op \in Operation,
              source \in Ids, owner \in Owner, proposed \in Double :
              Call(e, c, permitted, op, source, owner, proposed)
<1>1. PICK e \in Engines, c \in Cells :
          \/ \E compartment \in Compartments, x \in Proposals, score \in Scores :
                Propose(e, c, compartment, x, score)
          \/ \E h \in Ids : RollbackKnown(e, c, h) \/ RollbackUnknown(e, c, h)
  BY DEF EngineStep
<1>2. \E permitted \in BOOLEAN, op \in Operation, source \in Ids, owner \in Owner,
          proposed \in Double : Call(e, c, permitted, op, source, owner, proposed)
  BY <1>1, ProposeIsCall, RollbackKnownIsCall, RollbackUnknownIsCall
<1> QED
  BY <1>2

-----------------------------------------------------------------------------
(***************************************************************************)
(* The invariant.                                                          *)
(***************************************************************************)
LEMMA InitHolds == Init => IInv
<1> SUFFICES ASSUME Init
             PROVE  IInv
  OBVIOUS
<1>1. PICK order \in [Cells -> 1..Cardinality(Cells)], env \in [Cells -> Envelopes] :
          /\ \A c, d \in Cells : order[c] = order[d] => c = d
          /\ targets = [c \in Cells |->
                Identified(env[c], IF order[c] < LastId THEN order[c] ELSE 0)]
  BY DEF Init
<1>2. /\ nextIdentity = AtMost(Cardinality(Cells) + 1, LastId) /\ nextSnapshot = 1
      /\ snapshots = [e \in Engines |-> <<>>] /\ audit = [e \in Engines |-> <<>>]
      /\ grants = [e \in Engines |-> <<>>]
  BY DEF Init
<1>3. Cardinality(Cells) \in Nat
  BY LearningAssumption, FS_CardinalityType
<1>4. nextIdentity \in 1..LastId
  BY <1>2, <1>3, LearningAssumption DEF AtMost
<1>5. ASSUME NEW c \in Cells
      PROVE  /\ targets[c] \in Envelope
             /\ targets[c].identity = IF order[c] < LastId THEN order[c] ELSE 0
             /\ targets[c].identity < nextIdentity
             /\ targets[c].identity \in Nat
  <2> DEFINE id == IF order[c] < LastId THEN order[c] ELSE 0
  <2>1. order[c] \in 1..Cardinality(Cells) /\ env[c] \in Envelopes
    OBVIOUS
  <2>2. id \in Ids /\ id < nextIdentity
    BY <1>2, <1>3, <2>1, LearningAssumption DEF Ids, AtMost
  <2>3. targets[c] = Identified(env[c], id)
    BY <1>1
  <2>4. Identified(env[c], id) \in Envelope /\ Identified(env[c], id).identity = id
    BY <2>1, <2>2, IdentifiedType
  <2> QED
    BY <2>2, <2>3, <2>4 DEF Ids
<1>6. \A e \in Engines : DOMAIN snapshots[e] = {} /\ DOMAIN audit[e] = {} /\ DOMAIN grants[e] = {}
  BY <1>2
<1>7. TypeInv
  <2>1. targets \in [Cells -> Envelope]
    BY <1>1, <1>5
  <2> QED
    BY <1>2, <1>4, <1>6, <2>1, LearningAssumption DEF TypeInv
<1>8. NoInheritedGrant
  <2>1. \A c, d \in Cells :
           targets[c].identity = targets[d].identity /\ targets[c].identity # 0 => c = d
    BY <1>1, <1>5
  <2> QED
    BY <1>6, <2>1 DEF NoInheritedGrant
<1>9. HistoriesAgree
  BY <1>6 DEF HistoriesAgree
<1>10. RecordsReplayTarget
  <2>1. \A i, r : r \notin Committed(i)
    BY <1>6, CommittedWhere
  <2> QED
    BY <2>1 DEF RecordsReplayTarget
<1> QED
  BY <1>5, <1>6, <1>7, <1>8, <1>9, <1>10
     DEF IInv, IdentitiesPassed, RecordsPassed, GrantsRepeatRecords

LEMMA StepKeeps == IInv /\ [Next]_vars => IInv'
<1> SUFFICES ASSUME IInv, [Next]_vars
             PROVE  IInv'
  OBVIOUS
<1>1. CASE EngineStep
  <2>1. PICK e \in Engines, c \in Cells, permitted \in BOOLEAN, op \in Operation,
             source \in Ids, owner \in Owner, proposed \in Double :
             Call(e, c, permitted, op, source, owner, proposed)
    BY <1>1, EngineStepIsCall
  <2> QED
    BY <2>1, AttemptKeeps DEF Call
<1>2. CASE CallerStep
  <2>1. Renewed
    BY <1>2, ConstructRenews, CopyRenews, MoveRenews, LimitsRenew, RenameRenews
       DEF CallerStep
  <2> QED
    BY <2>1, RenewedKeeps
<1>3. CASE Abandon
  BY <1>3, AbandonKeeps
<1>4. CASE UNCHANGED vars
  <2>1. UNCHANGED <<targets, nextIdentity, nextSnapshot, snapshots, audit, grants>>
    BY <1>4 DEF vars
  <2>2. \A i : Committed(i)' = Committed(i)
    BY <2>1 DEF Committed
  <2>3. RecordsReplayTarget'
    BY <2>1, <2>2 DEF IInv, RecordsReplayTarget, Committed
  <2>4. TypeInv' /\ IdentitiesPassed' /\ RecordsPassed'
    BY <2>1 DEF IInv, TypeInv, IdentitiesPassed, RecordsPassed
  <2>5. GrantsRepeatRecords' /\ NoInheritedGrant' /\ HistoriesAgree'
    BY <2>1 DEF IInv, GrantsRepeatRecords, NoInheritedGrant, HistoriesAgree
  <2> QED
    BY <2>3, <2>4, <2>5 DEF IInv
<1> QED
  BY <1>1, <1>2, <1>3, <1>4 DEF Next

LEMMA Invariance == Spec => []IInv
BY InitHolds, StepKeeps, PTL DEF Spec

-----------------------------------------------------------------------------
\* Copies, moves and rebuilt envelopes never inherit the grants of another.
THEOREM GrantsCorrect == Spec => []NoInheritedGrant
<1>1. IInv => NoInheritedGrant
  BY DEF IInv
<1> QED
  BY <1>1, Invariance, PTL

\* The audit, the committed history, the handles and the grants of every engine
\* tell one story.
THEOREM HistoriesCorrect == Spec => []HistoriesAgree
<1>1. IInv => HistoriesAgree
  BY DEF IInv
<1> QED
  BY <1>1, Invariance, PTL

\* The records of all engines replay the life of every living target.
THEOREM ReplayCorrect == Spec => []RecordsReplayTarget
<1>1. IInv => RecordsReplayTarget
  BY DEF IInv
<1> QED
  BY <1>1, Invariance, PTL

LEMMA RollbackStep ==
    ASSUME IInv, EngineStep, NEW e \in Engines, NEW c \in Cells,
           Len(audit'[e]) > Len(audit[e]), audit'[e][Len(audit'[e])].op = "rollback",
           targets'[c] # targets[c]
    PROVE  /\ targets'[c] = [targets[c] EXCEPT !.current = targets'[c].current]
           /\ Remembers(e, c, targets'[c].current)
<1>1. PICK e0 \in Engines, c0 \in Cells, permitted \in BOOLEAN, op \in Operation,
           source \in Ids, owner \in Owner, proposed \in Double :
           Call(e0, c0, permitted, op, source, owner, proposed)
  BY EngineStepIsCall
<1>2. PICK rec \in Attempted :
         /\ Describes(rec, e0, c0, op)
         /\ \/ permitted /\ rec.applied = proposed /\ Commit(e0, c0, rec)
            \/ Refuse(e0, rec)
  BY <1>1, AttemptIsOneOfTwo DEF Call
<1>3. AuditGrown(e0, rec)
  BY <1>2, AuditGrows
<1>4. e = e0
  <2>1. audit[e] \in Seq(Attempted)
    BY DEF IInv, TypeInv
  <2>2. Len(audit[e]) \in Nat
    BY <2>1
  <2> QED
    BY <1>3, <2>2 DEF AuditGrown
<1>5. op = "rollback"
  <2>1. audit'[e] \in Seq(Attempted)
    BY <1>3 DEF AuditGrown
  <2>2. Len(audit'[e]) \in Nat /\ DOMAIN audit'[e] = 1..Len(audit'[e])
    BY <2>1
  <2>3. Len(audit'[e]) = Len(audit[e]) + 1
    BY <1>3, <1>4, <2>2 DEF AuditGrown
  <2>4. audit'[e][Len(audit'[e])] = rec
    BY <1>3, <1>4, <2>3 DEF AuditGrown
  <2> QED
    BY <1>2, <2>4 DEF Describes
<1>6. ~Refuse(e0, rec)
  BY DEF Refuse
<1>7. /\ permitted /\ rec.applied = proposed
      /\ targets' = [targets EXCEPT ![c0].current = proposed]
  BY <1>2, <1>6 DEF Commit
<1>8. targets \in [Cells -> Envelope]
  BY DEF IInv, TypeInv
<1>9. c = c0
  BY <1>7, <1>8
<1>10. targets'[c] = [targets[c] EXCEPT !.current = proposed] /\ targets[c] \in Envelope
  BY <1>7, <1>8, <1>9
<1>11. targets'[c].current = proposed
  BY <1>10 DEF Envelope
<1>12. Remembers(e, c, proposed)
  BY <1>1, <1>4, <1>5, <1>7, <1>9 DEF Call
<1> QED
  BY <1>10, <1>11, <1>12

\* A rollback restores what that target had while this engine worked on it.
THEOREM RollbackCorrect == Spec => RollbackRestoresOwnPast
<1> DEFINE Step == \A e \in Engines, c \in Cells :
            /\ Len(audit'[e]) > Len(audit[e])
            /\ audit'[e][Len(audit'[e])].op = "rollback"
            /\ targets'[c] # targets[c]
            => /\ targets'[c] = [targets[c] EXCEPT !.current = targets'[c].current]
               /\ \E n \in DOMAIN snapshots[e] :
                     /\ snapshots[e][n].identity = targets[c].identity
                     /\ snapshots[e][n].name = targets[c].name
                     /\ snapshots[e][n].previous = targets'[c].current
<1>1. IInv /\ [Next]_vars => [Step]_vars
  <2> SUFFICES ASSUME IInv, Next
               PROVE  Step
    OBVIOUS
  <2>1. CASE EngineStep
    BY <2>1, RollbackStep DEF Remembers
  <2>2. CASE CallerStep \/ Abandon
    <3>1. UNCHANGED audit
      BY <2>2 DEF CallerStep, Construct, Copy, Move, SetLimits, Rename, Abandon, histories
    <3>2. \A e \in Engines : Len(audit[e]) \in Nat
      BY DEF IInv, TypeInv
    <3> QED
      BY <3>1, <3>2
  <2> QED
    BY <2>1, <2>2 DEF Next
<1> QED
  BY <1>1, Invariance, PTL DEF Spec, RollbackRestoresOwnPast

-----------------------------------------------------------------------------
(***************************************************************************)
(* The score and the level of an array are folds over it.  A fold exists   *)
(* for every array, and what it keeps is shown by the least counterexample.*)
(***************************************************************************)
LEMMA LeastElement ==
    ASSUME NEW T \in SUBSET Nat, T # {}
    PROVE  \E m \in T : \A k \in T : m <= k
  <1> DEFINE R == {ss \in Nat \X Nat : ss[1] < ss[2]}
  <1>1. IsWellFoundedOn(R, Nat)
    BY NatLessThanWellFounded, Zenon DEF OpToRel
  <1>2. \A a, b \in Nat : a < b => <<a, b>> \in R
    OBVIOUS
  <1> HIDE DEF R
  <1>3. PICK m \in T : \A k \in T : ~(<<k, m>> \in R)
    BY <1>1, WFMin
  <1>4. m \in Nat /\ \A k \in T : k \in Nat
    OBVIOUS
  <1>5. \A k \in T : ~(k < m)
    BY <1>2, <1>3, <1>4
  <1> QED
    BY <1>4, <1>5

\* A property of the numbers up to n that holds of zero and of every successor holds
\* of all of them.
LEMMA UpTo ==
    ASSUME NEW n \in Nat, NEW good \in SUBSET (0..n), 0 \in good,
           \A k \in 1..n : k - 1 \in good => k \in good
    PROVE  \A k \in 0..n : k \in good
  <1> DEFINE T == (0..n) \ good
  <1> SUFFICES ASSUME T # {} PROVE FALSE
    OBVIOUS
  <1>1. T \in SUBSET Nat
    OBVIOUS
  <1>2. PICK m \in T : \A k \in T : m <= k
    <2> HIDE DEF T
    <2> QED
      BY <1>1, LeastElement
  <1>3. m # 0 /\ m \in 1..n /\ m - 1 \in 0..n /\ m - 1 \notin T
    BY <1>2
  <1> QED
    BY <1>2, <1>3

\* The first n steps of folding f over xs from base.
IsFold(h, f, base, xs, n) ==
    /\ h \in [0..n -> Int] /\ h[0] = base
    /\ \A k \in 1..n : h[k] = f[<<h[k - 1], xs[k]>>]

LEMMA FoldsExist ==
    ASSUME NEW f \in [Int \X Int -> Int], NEW base \in Int,
           NEW n \in Nat, NEW xs \in [1..n -> Int]
    PROVE  \E h : IsFold(h, f, base, xs, n)
  <1> DEFINE good == {k \in 0..n : \E h : IsFold(h, f, base, xs, k)}
  <1>1. 0 \in good
    <2>1. IsFold([k \in 0..0 |-> base], f, base, xs, 0)
      BY DEF IsFold
    <2> QED
      BY <2>1
  <1>2. ASSUME NEW m \in 1..n, m - 1 \in good PROVE m \in good
    <2>1. PICK h : IsFold(h, f, base, xs, m - 1)
      BY <1>2
    <2>2. h[m - 1] \in Int /\ xs[m] \in Int
      BY <2>1 DEF IsFold
    <2>3. PICK y \in Int : y = f[<<h[m - 1], xs[m]>>]
      BY <2>2
    <2> DEFINE g == [k \in 0..m |-> IF k = m THEN y ELSE h[k]]
    <2>4. g \in [0..m -> Int] /\ g[0] = base /\ g[m] = y /\ g[m - 1] = h[m - 1]
      BY <2>1 DEF IsFold
    <2>5. ASSUME NEW k \in 1..m PROVE g[k] = f[<<g[k - 1], xs[k]>>]
      <3>1. CASE k = m
        BY <2>3, <2>4, <3>1
      <3>2. CASE k # m
        <4>1. k \in 1..(m - 1) /\ k - 1 \in 0..m /\ k - 1 # m /\ k \in 0..m
          BY <3>2
        <4>2. g[k] = h[k] /\ g[k - 1] = h[k - 1]
          BY <4>1
        <4> QED
          BY <2>1, <4>1, <4>2 DEF IsFold
      <3> QED
        BY <3>1, <3>2
    <2> HIDE DEF g
    <2>6. IsFold(g, f, base, xs, m)
      BY <2>4, <2>5 DEF IsFold
    <2> QED
      BY <2>6
  <1> HIDE DEF good
  <1>3. good \in SUBSET (0..n)
    BY DEF good
  <1>4. n \in good
    <2>1. \A k \in 1..n : k - 1 \in good => k \in good
      BY <1>2
    <2>2. \A k \in 0..n : k \in good
      BY <1>1, <1>3, <2>1, UpTo
    <2> QED
      BY <2>2
  <1> QED
    BY <1>4 DEF good

Minimum == [p \in Int \X Int |-> AtMost(p[1], p[2])]
Maximum == [p \in Int \X Int |-> AtLeast(p[1], p[2])]

LEMMA Extremes ==
    /\ Minimum \in [Int \X Int -> Int] /\ Maximum \in [Int \X Int -> Int]
    /\ \A x, y \in Int : /\ Minimum[<<x, y>>] = AtMost(x, y)
                         /\ Maximum[<<x, y>>] = AtLeast(x, y)
  BY DEF Minimum, Maximum, AtMost, AtLeast

\* Evidence whose scores and levels are numbers.
Numeric(ts) ==
    /\ Len(ts) \in Nat
    /\ \A n \in 1..Len(ts) : ts[n].trust \in Int /\ ts[n].level \in Int

\* The lowest score is at most Full and every score, and one of them.
LEMMA LowestTrustIs ==
    ASSUME NEW ts, Numeric(ts)
    PROVE  /\ LowestTrust(ts) \in Int /\ LowestTrust(ts) <= Full
           /\ \A n \in 1..Len(ts) : LowestTrust(ts) <= ts[n].trust
           /\ \/ LowestTrust(ts) = Full
              \/ \E n \in 1..Len(ts) : LowestTrust(ts) = ts[n].trust
  <1> DEFINE Eq(h) == h = [n \in 0..Len(ts) |->
                              IF n = 0 THEN Full ELSE AtMost(h[n - 1], ts[n].trust)]
             low == CHOOSE h : Eq(h)
  <1>1. Len(ts) \in Nat /\ Full \in Int
    BY GovernanceAssumption DEF Numeric
  <1>2. PICK xs \in [1..Len(ts) -> Int] : \A n \in 1..Len(ts) : xs[n] = ts[n].trust
    <2> DEFINE xs == [n \in 1..Len(ts) |-> ts[n].trust]
    <2>1. xs \in [1..Len(ts) -> Int]
      BY DEF Numeric
    <2> QED
      BY <2>1
  <1>3. PICK h : IsFold(h, Minimum, Full, xs, Len(ts))
    BY <1>1, FoldsExist, Extremes
  <1>4. Eq(h)
    <2>1. ASSUME NEW n \in 1..Len(ts) PROVE h[n] = AtMost(h[n - 1], ts[n].trust)
      <3>1. h[n - 1] \in Int /\ xs[n] \in Int
        BY <1>3, <1>1 DEF IsFold
      <3>2. h[n] = Minimum[<<h[n - 1], xs[n]>>]
        BY <1>3 DEF IsFold
      <3>3. h[n] = AtMost(h[n - 1], xs[n])
        BY <3>1, <3>2, Extremes
      <3> QED
        BY <1>2, <3>3
    <2>2. DOMAIN h = 0..Len(ts) /\ h[0] = Full
      BY <1>3 DEF IsFold
    <2>3. h = [n \in 0..Len(ts) |-> h[n]]
      BY <1>3 DEF IsFold
    <2>4. \A n \in 0..Len(ts) :
             h[n] = IF n = 0 THEN Full ELSE AtMost(h[n - 1], ts[n].trust)
      BY <1>1, <2>1, <2>2
    <2> QED
      BY <2>3, <2>4
  <1>5. Eq(low)
    <2> HIDE DEF Eq
    <2> QED
      BY <1>4
  <1>6. LowestTrust(ts) = low[Len(ts)]
    BY Zenon DEF LowestTrust
  <1> HIDE DEF low
  <1>7. /\ low[0] = Full
        /\ \A n \in 1..Len(ts) : low[n] = AtMost(low[n - 1], ts[n].trust)
    <2>1. \A n \in 0..Len(ts) :
             low[n] = IF n = 0 THEN Full ELSE AtMost(low[n - 1], ts[n].trust)
      BY <1>5
    <2> QED
      BY <1>1, <2>1
  <1> HIDE DEF Eq
  <1> DEFINE Lowest(k) == /\ low[k] \in Int /\ low[k] <= Full
                          /\ \A n \in 1..k : low[k] <= ts[n].trust
                          /\ low[k] = Full \/ \E n \in 1..k : low[k] = ts[n].trust
             good == {k \in 0..Len(ts) : Lowest(k)}
  <1>8. 0 \in good
    BY <1>1, <1>7
  <1>9. ASSUME NEW k \in 1..Len(ts), k - 1 \in good PROVE k \in good
    <2>1. PICK x \in Int, y \in Int : x = low[k - 1] /\ y = ts[k].trust
      BY <1>2, <1>9
    <2>2. low[k] = AtMost(x, y) /\ k - 1 \in Nat
      BY <1>7, <2>1
    <2>3. /\ x <= Full /\ \A n \in 1..(k - 1) : x <= ts[n].trust
          /\ x = Full \/ \E n \in 1..(k - 1) : x = ts[n].trust
      BY <1>9, <2>1
    <2>4. \A n \in 1..k : n \in 1..(k - 1) \/ n = k
      BY <1>1
    <2>5. \A n \in 1..k : ts[n].trust \in Int
      BY <1>1 DEF Numeric
    <2>6. low[k] \in Int /\ low[k] <= x /\ low[k] <= y /\ (low[k] = x \/ low[k] = y)
      BY <2>2 DEF AtMost
    <2>7. \A n \in 1..k : low[k] <= ts[n].trust
      BY <2>1, <2>3, <2>4, <2>5, <2>6
    <2>8. low[k] = Full \/ \E n \in 1..k : low[k] = ts[n].trust
      BY <2>1, <2>2, <2>3, <2>6
    <2>9. low[k] <= Full
      BY <1>1, <2>3, <2>6
    <2> QED
      BY <2>6, <2>7, <2>8, <2>9
  <1>10. good \in SUBSET (0..Len(ts))
    OBVIOUS
  <1>11. Len(ts) \in good
    <2> HIDE DEF good
    <2>1. PICK n \in Nat : n = Len(ts)
      BY <1>1
    <2>2. \A k \in 1..n : k - 1 \in good => k \in good
      BY <1>9, <2>1
    <2>3. good \in SUBSET (0..n)
      BY <1>10, <2>1
    <2>4. \A k \in 0..n : k \in good
      BY <1>8, <2>2, <2>3, UpTo
    <2> QED
      BY <2>1, <2>4
  <1> QED
    BY <1>6, <1>11

LEMMA HighestLevelIs ==
    ASSUME NEW ts, Numeric(ts)
    PROVE  /\ HighestLevel(ts) \in Int /\ HighestLevel(ts) >= Normal
           /\ \A n \in 1..Len(ts) : HighestLevel(ts) >= ts[n].level
           /\ \/ HighestLevel(ts) = Normal
              \/ \E n \in 1..Len(ts) : HighestLevel(ts) = ts[n].level
  <1> DEFINE Eq(h) == h = [n \in 0..Len(ts) |->
                              IF n = 0 THEN Normal ELSE AtLeast(h[n - 1], ts[n].level)]
             high == CHOOSE h : Eq(h)
  <1>1. Len(ts) \in Nat /\ Normal \in Int
    BY DEF Numeric, Normal
  <1>2. PICK xs \in [1..Len(ts) -> Int] : \A n \in 1..Len(ts) : xs[n] = ts[n].level
    <2> DEFINE xs == [n \in 1..Len(ts) |-> ts[n].level]
    <2>1. \A n \in 1..Len(ts) : ts[n].level \in Int
      BY <1>1 DEF Numeric
    <2>2. xs \in [1..Len(ts) -> Int]
      BY <2>1
    <2> QED
      BY <2>2
  <1>3. PICK h : IsFold(h, Maximum, Normal, xs, Len(ts))
    BY <1>1, FoldsExist, Extremes
  <1>4. Eq(h)
    <2>1. ASSUME NEW n \in 1..Len(ts) PROVE h[n] = AtLeast(h[n - 1], ts[n].level)
      <3>1. h[n - 1] \in Int /\ xs[n] \in Int
        BY <1>3, <1>1 DEF IsFold
      <3>2. h[n] = Maximum[<<h[n - 1], xs[n]>>]
        BY <1>3 DEF IsFold
      <3>3. h[n] = AtLeast(h[n - 1], xs[n])
        BY <3>1, <3>2, Extremes
      <3> QED
        BY <1>2, <3>3
    <2>2. DOMAIN h = 0..Len(ts) /\ h[0] = Normal
      BY <1>3 DEF IsFold
    <2>3. h = [n \in 0..Len(ts) |-> h[n]]
      BY <1>3 DEF IsFold
    <2>4. \A n \in 0..Len(ts) :
             h[n] = IF n = 0 THEN Normal ELSE AtLeast(h[n - 1], ts[n].level)
      BY <1>1, <2>1, <2>2
    <2> QED
      BY <2>3, <2>4
  <1>5. Eq(high)
    <2> HIDE DEF Eq
    <2> QED
      BY <1>4
  <1>6. HighestLevel(ts) = high[Len(ts)]
    BY Zenon DEF HighestLevel
  <1> HIDE DEF high
  <1>7. /\ high[0] = Normal
        /\ \A n \in 1..Len(ts) : high[n] = AtLeast(high[n - 1], ts[n].level)
    <2>1. \A n \in 0..Len(ts) :
             high[n] = IF n = 0 THEN Normal ELSE AtLeast(high[n - 1], ts[n].level)
      BY <1>5
    <2> QED
      BY <1>1, <2>1
  <1> HIDE DEF Eq
  <1> DEFINE Highest(k) == /\ high[k] \in Int /\ high[k] >= Normal
                           /\ \A n \in 1..k : high[k] >= ts[n].level
                           /\ high[k] = Normal \/ \E n \in 1..k : high[k] = ts[n].level
             good == {k \in 0..Len(ts) : Highest(k)}
  <1>8. 0 \in good
    BY <1>1, <1>7
  <1>9. ASSUME NEW k \in 1..Len(ts), k - 1 \in good PROVE k \in good
    <2>1. PICK x \in Int, y \in Int : x = high[k - 1] /\ y = ts[k].level
      BY <1>2, <1>9
    <2>2. high[k] = AtLeast(x, y) /\ k - 1 \in Nat
      BY <1>7, <2>1
    <2>3. /\ x >= Normal /\ \A n \in 1..(k - 1) : x >= ts[n].level
          /\ x = Normal \/ \E n \in 1..(k - 1) : x = ts[n].level
      BY <1>9, <2>1
    <2>4. \A n \in 1..k : n \in 1..(k - 1) \/ n = k
      BY <1>1
    <2>5. \A n \in 1..k : ts[n].level \in Int
      BY <1>1 DEF Numeric
    <2>6. high[k] \in Int /\ high[k] >= x /\ high[k] >= y /\ (high[k] = x \/ high[k] = y)
      BY <2>2 DEF AtLeast
    <2>7. \A n \in 1..k : high[k] >= ts[n].level
      BY <2>1, <2>3, <2>4, <2>5, <2>6
    <2>8. high[k] = Normal \/ \E n \in 1..k : high[k] = ts[n].level
      BY <2>1, <2>2, <2>3, <2>6
    <2>9. high[k] >= Normal
      BY <1>1, <2>3, <2>6
    <2> QED
      BY <2>6, <2>7, <2>8, <2>9, <1>9
  <1>10. good \in SUBSET (0..Len(ts))
    OBVIOUS
  <1>11. Len(ts) \in good
    <2> HIDE DEF good
    <2>1. PICK n \in Nat : n = Len(ts)
      BY <1>1
    <2>2. \A k \in 1..n : k - 1 \in good => k \in good
      BY <1>9, <2>1
    <2>3. good \in SUBSET (0..n)
      BY <1>10, <2>1
    <2>4. \A k \in 0..n : k \in good
      BY <1>8, <2>2, <2>3, UpTo
    <2> QED
      BY <2>1, <2>4
  <1> QED
    BY <1>6, <1>11

-----------------------------------------------------------------------------
(***************************************************************************)
(* The ladder.  What one piece of evidence demands is the ladder at its    *)
(* own score and level, and the ladder climbs with what it is given.       *)
(***************************************************************************)
LEMMA MaxIs ==
    ASSUME NEW S \in SUBSET Int, NEW x \in S, \A y \in S : x >= y
    PROVE  Max(S) = x
  <1>1. \A z \in S : (\A y \in S : z >= y) => z = x
    OBVIOUS
  <1> QED
    BY <1>1 DEF Max

LEMMA FullIs == Full = 200
  BY GovernanceAssumption

Numbers(p) == p.accept \in Int /\ p.soft \in Int /\ p.hard \in Int

LEMMA PolicyNumbers ==
    ASSUME NEW p, ValidPolicy(p)
    PROVE  /\ Numbers(p) /\ p.hard <= p.soft /\ p.soft <= p.accept
           /\ p.accept <= Full
  BY DoublesAssumption DEF ValidPolicy, ValidScore, IsFinite, Finite, Numbers

LEMMA TelemetryNumbers ==
    ASSUME NEW t, ValidTelemetry(t)
    PROVE  t.trust \in 0..Full /\ t.level \in 0..3
  BY DoublesAssumption
     DEF ValidTelemetry, ValidScore, IsFinite, Finite, Normal, Protective

Rung(p, trust, level, alarm) ==
    IF alarm \/ trust < p.hard \/ level = 3 THEN 3
    ELSE IF trust < p.soft \/ level = 2 THEN 2
    ELSE IF trust < p.accept \/ level = 1 THEN 1 ELSE 0

LEMMA DecideIsRung ==
    ASSUME NEW p, NEW trust, NEW level, NEW alarm \in BOOLEAN
    PROVE  Decide(p, trust, level, alarm) = Rung(p, trust, level, alarm)
  BY DEF Decide, Rung, Normal, SoftCeiling, HardCeiling, Protective

LEMMA DemandIsRung ==
    ASSUME ValidPolicy(policy), NEW t, ValidTelemetry(t), t.anomaly \in BOOLEAN
    PROVE  Demand(t) = Rung(policy, t.trust, t.level, t.anomaly)
  <1>1. /\ t.trust \in Int /\ t.level \in 0..3 /\ Numbers(policy)
        /\ policy.hard <= policy.soft /\ policy.soft <= policy.accept
    BY TelemetryNumbers, PolicyNumbers, TrustAssumption
  <1> DEFINE S == {t.level}
                    \cup (IF t.anomaly \/ t.trust < policy.hard THEN {3} ELSE {})
                    \cup (IF t.trust < policy.soft THEN {2} ELSE {})
                    \cup (IF t.trust < policy.accept THEN {1} ELSE {})
             r == Rung(policy, t.trust, t.level, t.anomaly)
  <1>2. S \in SUBSET Int
    BY <1>1
  <1>3. r \in S
    BY <1>1 DEF Rung, Numbers
  <1>4. \A y \in S : r >= y
    BY <1>1 DEF Rung, Numbers
  <1>5. Demand(t) = Max(S)
    BY DEF Demand, SoftCeiling, HardCeiling, Protective
  <1> HIDE DEF S, r
  <1>6. Max(S) = r
    BY <1>2, <1>3, <1>4, MaxIs
  <1> QED
    BY <1>5, <1>6 DEF r

LEMMA RungMonotone ==
    ASSUME NEW p, Numbers(p), NEW x \in Int, NEW y \in Int, x <= y,
           NEW k \in 0..3, NEW l \in 0..3, k >= l,
           NEW a \in BOOLEAN, NEW b \in BOOLEAN, b => a
    PROVE  Rung(p, x, k, a) >= Rung(p, y, l, b) /\ Rung(p, x, k, a) \in 0..3
  BY DEF Rung, Numbers

-----------------------------------------------------------------------------
(***************************************************************************)
(* The gate over an array.                                                 *)
(***************************************************************************)
Usable(ts) ==
    /\ Len(ts) \in Nat \ {0} /\ DOMAIN ts = 1..Len(ts)
    /\ \A n \in 1..Len(ts) : ValidTelemetry(ts[n]) /\ ts[n].anomaly \in BOOLEAN

LEMMA GateVerdict ==
    ASSUME NEW p, NEW ts \in Seq(CompartmentTelemetry), EvaluateTelemetry(p, ts).valid
    PROVE  /\ ValidPolicy(p) /\ Usable(ts)
           /\ EvaluateTelemetry(p, ts) =
                 Decision(Rung(p, LowestTrust(ts), HighestLevel(ts), AnyAnomaly(ts)),
                          LowestTrust(ts), TRUE)
  <1>1. ~Decision(Protective, 0, FALSE).valid
    BY DEF Decision
  <1>2. /\ ValidPolicy(p) /\ ts # <<>> /\ \A n \in DOMAIN ts : ValidTelemetry(ts[n])
        /\ EvaluateTelemetry(p, ts) =
              Decision(Decide(p, LowestTrust(ts), HighestLevel(ts), AnyAnomaly(ts)),
                       LowestTrust(ts), TRUE)
    BY <1>1 DEF EvaluateTelemetry
  <1>3. Len(ts) \in Nat \ {0} /\ DOMAIN ts = 1..Len(ts)
    BY <1>2
  <1>4. ASSUME NEW n \in 1..Len(ts) PROVE ts[n].anomaly \in BOOLEAN
    <2>1. ts[n] \in CompartmentTelemetry
      BY <1>3
    <2> QED
      BY <2>1 DEF CompartmentTelemetry
  <1>5. AnyAnomaly(ts) \in BOOLEAN
    BY DEF AnyAnomaly
  <1> QED
    BY <1>2, <1>3, <1>4, <1>5, DecideIsRung DEF Usable

LEMMA UsableNumbers ==
    ASSUME NEW ts, Usable(ts)
    PROVE  /\ Numeric(ts)
           /\ LowestTrust(ts) \in 0..Full /\ HighestLevel(ts) \in 0..3
  <1>1. \A n \in 1..Len(ts) : ts[n].trust \in 0..Full /\ ts[n].level \in 0..3
    BY TelemetryNumbers DEF Usable
  <1>2. Full \in Nat
    BY FullIs
  <1>3. Numeric(ts)
    BY <1>1, <1>2 DEF Numeric, Usable
  <1>4. LowestTrust(ts) \in 0..Full
    <2>1. /\ LowestTrust(ts) \in Int /\ LowestTrust(ts) <= Full
          /\ \/ LowestTrust(ts) = Full
             \/ \E n \in 1..Len(ts) : LowestTrust(ts) = ts[n].trust
      BY <1>3, LowestTrustIs
    <2> QED
      BY <1>1, <1>2, <2>1
  <1>5. HighestLevel(ts) \in 0..3
    <2>1. \/ HighestLevel(ts) = 0
          \/ \E n \in 1..Len(ts) : HighestLevel(ts) = ts[n].level
      BY <1>3, HighestLevelIs DEF Normal
    <2> QED
      BY <1>1, <2>1
  <1> QED
    BY <1>3, <1>4, <1>5

\* The decision over an array is the strictest demand of its elements.
LEMMA VerdictIsStrictest ==
    ASSUME NEW ts \in Seq(CompartmentTelemetry), EvaluateTelemetry(policy, ts).valid
    PROVE  EvaluateTelemetry(policy, ts).level =
              Max({Demand(ts[n]) : n \in DOMAIN ts})
  <1> DEFINE low == LowestTrust(ts)
             high == HighestLevel(ts)
             any == AnyAnomaly(ts)
             level == Rung(policy, low, high, any)
  <1>1. /\ ValidPolicy(policy) /\ Usable(ts)
        /\ EvaluateTelemetry(policy, ts).level = level
    BY GateVerdict DEF Decision
  <1>2. /\ Numbers(policy) /\ policy.hard <= policy.soft /\ policy.soft <= policy.accept
        /\ policy.accept <= Full
    <2>1. ValidPolicy(policy)
      BY <1>1
    <2> QED
      BY <2>1, PolicyNumbers
  <1>3. low \in Int /\ high \in 0..3 /\ any \in BOOLEAN /\ Full \in Int
    <2>1. low \in 0..Full /\ high \in 0..3
      BY <1>1, UsableNumbers
    <2>2. any \in BOOLEAN
      BY DEF AnyAnomaly
    <2> HIDE DEF low, high, any
    <2> QED
      BY <2>1, <2>2, FullIs
  <1>4. /\ Len(ts) \in Nat \ {0} /\ DOMAIN ts = 1..Len(ts)
        /\ \A n \in 1..Len(ts) : /\ ts[n].trust \in Int /\ ts[n].level \in 0..3
                                 /\ ts[n].anomaly \in BOOLEAN /\ ValidTelemetry(ts[n])
    BY <1>1, TelemetryNumbers, TrustAssumption DEF Usable
  <1>5. ASSUME NEW n \in 1..Len(ts)
        PROVE  Demand(ts[n]) = Rung(policy, ts[n].trust, ts[n].level, ts[n].anomaly)
    BY <1>1, <1>4, DemandIsRung
  <1>6. ASSUME NEW n \in 1..Len(ts) PROVE level >= Demand(ts[n])
    <2>1. low <= ts[n].trust /\ high >= ts[n].level
      BY <1>1, UsableNumbers, LowestTrustIs, HighestLevelIs
    <2>2. ts[n].anomaly => any
      BY <1>4 DEF AnyAnomaly
    <2>3. PICK x \in Int, k \in 0..3, a \in BOOLEAN :
             x = ts[n].trust /\ k = ts[n].level /\ a = ts[n].anomaly
      BY <1>4
    <2>4. Numbers(policy)
      BY <1>2
    <2> HIDE DEF low, high, any
    <2>5. Rung(policy, low, high, any) >= Rung(policy, x, k, a)
      BY <1>3, <2>1, <2>2, <2>3, <2>4, RungMonotone
    <2> QED
      BY <1>5, <2>3, <2>5
  <1>7. \E n \in 1..Len(ts) : Demand(ts[n]) = level
    <2>1. \/ low = Full
          \/ \E n \in 1..Len(ts) : low = ts[n].trust
      BY <1>1, UsableNumbers, LowestTrustIs
    <2>2. \/ high = 0
          \/ \E n \in 1..Len(ts) : high = ts[n].level
      BY <1>1, UsableNumbers, HighestLevelIs DEF Normal
    <2>3. any => \E n \in 1..Len(ts) : ts[n].anomaly
      BY <1>4 DEF AnyAnomaly
    <2>4. \A n \in 1..Len(ts) : level >= Demand(ts[n])
      BY <1>6
    <2> HIDE DEF low, high, any
    <2>5. ASSUME NEW n \in 1..Len(ts), level > 0,
                 \/ ts[n].anomaly /\ level = 3
                 \/ low = ts[n].trust /\ level = Rung(policy, low, 0, FALSE)
                 \/ high = ts[n].level /\ level = high
          PROVE  Demand(ts[n]) >= level
      BY <1>2, <1>3, <1>4, <1>5, <2>5 DEF Rung, Numbers
    <2>6. \A n \in 1..Len(ts) : Demand(ts[n]) \in 0..3
      BY <1>4, <1>5 DEF Rung
    <2>7. level \in 0..3
      BY DEF Rung
    <2>8. CASE level = 0
      <3>1. 1 \in 1..Len(ts)
        BY <1>4
      <3>2. Demand(ts[1]) = level
        BY <2>4, <2>6, <2>8, <3>1
      <3> QED
        BY <3>1, <3>2
    <2>9. CASE level > 0
      <3>1. \/ any /\ level = 3
            \/ low < policy.accept /\ level = Rung(policy, low, 0, FALSE)
            \/ high > 0 /\ level = high
        BY <1>2, <1>3, <2>9 DEF Rung, Numbers
      <3>2. \E n \in 1..Len(ts) :
               \/ ts[n].anomaly /\ level = 3
               \/ low = ts[n].trust /\ level = Rung(policy, low, 0, FALSE)
               \/ high = ts[n].level /\ level = high
        <4>1. CASE any /\ level = 3
          BY <2>3, <4>1
        <4>2. CASE low < policy.accept /\ level = Rung(policy, low, 0, FALSE)
          <5>1. low # Full
            BY <1>2, <1>3, <4>2 DEF Numbers
          <5> QED
            BY <2>1, <4>2, <5>1
        <4>3. CASE high > 0 /\ level = high
          <5>1. PICK n \in 1..Len(ts) : high = ts[n].level
            BY <1>3, <2>2, <4>3
          <5> HIDE DEF level
          <5> QED
            BY <4>3, <5>1
        <4> QED
          BY <3>1, <4>1, <4>2, <4>3
      <3>3. PICK n \in 1..Len(ts) : Demand(ts[n]) >= level
        BY <2>5, <2>9, <3>2
      <3> HIDE DEF level
      <3>4. Demand(ts[n]) = level
        BY <2>4, <2>6, <2>7, <3>3
      <3> QED
        BY <3>4
    <2> QED
      BY <2>7, <2>8, <2>9
  <1> HIDE DEF level
  <1> DEFINE S == {Demand(ts[n]) : n \in DOMAIN ts}
  <1>8. S \in SUBSET Int
    BY <1>4, <1>5 DEF Rung
  <1>9. level \in S /\ \A y \in S : level >= y
    BY <1>4, <1>6, <1>7
  <1> HIDE DEF S
  <1>10. Max(S) = level
    BY <1>8, <1>9, MaxIs
  <1> QED
    BY <1>1, <1>10 DEF S

\* One unusable element demands protective mode of the whole array.
LEMMA VerdictOverAny ==
    ASSUME NEW ts \in Seq(CompartmentTelemetry), ValidPolicy(policy), ts # <<>>
    PROVE  EvaluateTelemetry(policy, ts).level =
              Max({DemandOrProtect(ts[n]) : n \in DOMAIN ts})
  <1> DEFINE S == {DemandOrProtect(ts[n]) : n \in DOMAIN ts}
  <1>1. CASE \A n \in DOMAIN ts : ValidTelemetry(ts[n])
    <2>1. EvaluateTelemetry(policy, ts).valid
      BY <1>1 DEF EvaluateTelemetry, Decision
    <2>2. S = {Demand(ts[n]) : n \in DOMAIN ts}
      BY <1>1 DEF DemandOrProtect
    <2> QED
      BY <2>1, <2>2, VerdictIsStrictest
  <1>2. CASE \E n \in DOMAIN ts : ~ValidTelemetry(ts[n])
    <2>1. EvaluateTelemetry(policy, ts).level = 3
      BY <1>2 DEF EvaluateTelemetry, Decision, Protective
    <2>2. 3 \in S
      BY <1>2 DEF DemandOrProtect, Protective
    <2>3. ASSUME NEW n \in DOMAIN ts PROVE DemandOrProtect(ts[n]) \in 0..3
      <3>1. CASE ~ValidTelemetry(ts[n])
        BY <3>1 DEF DemandOrProtect, Protective
      <3>2. CASE ValidTelemetry(ts[n])
        <4>1. ts[n] \in CompartmentTelemetry
          OBVIOUS
        <4>2. ts[n].anomaly \in BOOLEAN
          BY <4>1 DEF CompartmentTelemetry
        <4>3. Demand(ts[n]) \in 0..3
          BY <3>2, <4>2, DemandIsRung, TelemetryNumbers DEF Rung
        <4> QED
          BY <3>2, <4>3 DEF DemandOrProtect
      <3> QED
        BY <3>1, <3>2
    <2>4. S \in SUBSET Int /\ \A y \in S : 3 >= y
      BY <2>3
    <2> HIDE DEF S
    <2>5. Max(S) = 3
      BY <2>2, <2>4, MaxIs
    <2> QED
      BY <2>1, <2>5 DEF S
  <1> QED
    BY <1>1, <1>2

-----------------------------------------------------------------------------
(***************************************************************************)
(* A battery in a worse state.                                             *)
(***************************************************************************)
LEMMA BaselineIsInput ==
    BaselineBms \in BmsInputData /\ BaselineAnomaly \in AnomalyInputData
  BY DEF BaselineBms, BaselineAnomaly, BmsInputData, AnomalyInputData, Double

\* The members of a valid input, and the two that are derived from them.
LEMMA ValidBmsNumbers ==
    ASSUME NEW in, ValidBmsInput(in)
    PROVE  /\ in.t \in Int /\ in.soc \in 0..100 /\ in.soh \in 0..100
           /\ Imbalance(in) \in Nat
  <1>1. \A x \in {in.v, in.i, in.t, in.soc, in.soh, in.cellMin, in.cellMax} : x \in Int
    BY DoublesAssumption DEF ValidBmsInput, IsFinite, Finite
  <1> QED
    BY <1>1 DEF ValidBmsInput, Imbalance

LEMMA OverIsNat == \A x, limit \in Int : Over(x, limit) \in Nat
  BY DEF Over, AtLeast

\* The level a temperature, a charge and a score recommend.
Step(t, soc, trust) ==
    IF t >= 60 \/ soc <= 5 \/ trust < 100 THEN 3
    ELSE IF t >= 50 \/ soc <= 15 \/ trust < 140 THEN 2
    ELSE IF t >= 42 \/ soc <= 25 \/ trust < 170 THEN 1 ELSE 0

LEMMA StepIs == \A in : BmsLevel(in) = Step(in.t, in.soc, BmsTrust(in))
  BY SMTT(30) DEF BmsLevel, Step, Normal, SoftCeiling, HardCeiling, Protective

LEMMA HarsherTrust ==
    ASSUME NEW a, NEW b, Harsher(a, b)
    PROVE  /\ BmsTrust(a) \in 0..200 /\ BmsTrust(b) \in 0..200
           /\ BmsTrust(a) <= BmsTrust(b)
           /\ BmsLevel(a) \in 0..3 /\ BmsLevel(b) \in 0..3
           /\ BmsLevel(a) >= BmsLevel(b)
  <1>1. PICK ta \in Int, tb \in Int, ca \in 0..100, cb \in 0..100,
             ha \in 0..100, hb \in 0..100, ia \in Nat, ib \in Nat :
           /\ ta = a.t /\ tb = b.t /\ ca = a.soc /\ cb = b.soc
           /\ ha = a.soh /\ hb = b.soh /\ ia = Imbalance(a) /\ ib = Imbalance(b)
    <2>1. ValidBmsInput(a) /\ ValidBmsInput(b)
      BY DEF Harsher
    <2>2. /\ a.t \in Int /\ a.soc \in 0..100 /\ a.soh \in 0..100 /\ Imbalance(a) \in Nat
          /\ b.t \in Int /\ b.soc \in 0..100 /\ b.soh \in 0..100 /\ Imbalance(b) \in Nat
      BY <2>1, ValidBmsNumbers
    <2> QED
      BY <2>2
  <1>2. ta >= tb /\ ca <= cb /\ ha <= hb /\ ia >= ib
    BY <1>1 DEF Harsher
  <1>3. PICK oa \in Nat, pa \in Nat, qa \in Nat, ra \in Nat :
           /\ oa = Over(ta, 45) /\ pa = Over(20, ca)
           /\ qa = Over(85, ha) /\ ra = Over(ia, 5)
    <2>1. ca \in Int /\ ha \in Int /\ ia \in Int
      OBVIOUS
    <2>2. Over(ta, 45) \in Nat
      BY OverIsNat
    <2>3. Over(20, ca) \in Nat
      BY <2>1, OverIsNat
    <2>4. Over(85, ha) \in Nat
      BY <2>1, OverIsNat
    <2>5. Over(ia, 5) \in Nat
      BY <2>1, OverIsNat
    <2> QED
      BY <2>2, <2>3, <2>4, <2>5
  <1>4. PICK ob \in 0..oa, pb \in 0..pa, qb \in 0..qa, rb \in 0..ra :
           /\ ob = Over(tb, 45) /\ pb = Over(20, cb)
           /\ qb = Over(85, hb) /\ rb = Over(ib, 5)
    <2>1. Over(tb, 45) \in 0..oa
      BY <1>2, <1>3 DEF Over, AtLeast
    <2>2. Over(20, cb) \in 0..pa
      BY <1>2, <1>3 DEF Over, AtLeast
    <2>3. Over(85, hb) \in 0..qa
      BY <1>2, <1>3 DEF Over, AtLeast
    <2>4. Over(ib, 5) \in 0..ra
      BY <1>2, <1>3 DEF Over, AtLeast
    <2> QED
      BY <2>1, <2>2, <2>3, <2>4
  <1>5. PICK xa \in Int, xb \in Int :
           /\ xa = 200 - 5 * oa - 4 * pa - 3 * qa - 10 * ra
           /\ xb = 200 - 5 * ob - 4 * pb - 3 * qb - 10 * rb
           /\ xa <= xb
    OBVIOUS
  <1>6. BmsTrust(a) = Clamp(xa, 0, 200)
    BY <1>1, <1>3, <1>5, FullIs DEF BmsTrust
  <1>7. BmsTrust(b) = Clamp(xb, 0, 200)
    BY <1>1, <1>4, <1>5, FullIs DEF BmsTrust
  <1>8. PICK sa \in 0..200, sb \in 0..200 : sa = BmsTrust(a) /\ sb = BmsTrust(b) /\ sa <= sb
    <2>1. Clamp(xa, 0, 200) \in 0..200 /\ Clamp(xb, 0, 200) \in 0..200
      BY DEF Clamp
    <2>2. Clamp(xa, 0, 200) <= Clamp(xb, 0, 200)
      BY <1>5 DEF Clamp
    <2>3. BmsTrust(a) \in 0..200 /\ BmsTrust(b) \in 0..200 /\ BmsTrust(a) <= BmsTrust(b)
      BY <1>6, <1>7, <2>1, <2>2
    <2> QED
      BY <2>3
  <1>9. BmsLevel(a) \in 0..3 /\ BmsLevel(b) \in 0..3
    BY DEF BmsLevel, Normal, SoftCeiling, HardCeiling, Protective
  <1>10. BmsLevel(a) >= BmsLevel(b)
    <2>1. BmsLevel(a) = Step(ta, ca, sa) /\ BmsLevel(b) = Step(tb, cb, sb)
      BY <1>1, <1>8, StepIs
    <2>2. Step(ta, ca, sa) >= Step(tb, cb, sb)
      BY <1>2, <1>8 DEF Step
    <2> QED
      BY <2>1, <2>2
  <1> QED
    BY <1>8, <1>9, <1>10, SMTT(30)

\* The gate over one piece of evidence is the ladder at its score and level.
LEMMA SingleVerdict ==
    ASSUME NEW p, NEW t \in CompartmentTelemetry
    PROVE  EvaluateTelemetry(p, <<t>>).level =
              IF ValidPolicy(p) /\ ValidTelemetry(t)
              THEN Rung(p, t.trust, t.level, t.anomaly) ELSE 3
  <1> DEFINE ts == <<t>>
  <1>1. ts \in Seq(CompartmentTelemetry) /\ Len(ts) = 1 /\ DOMAIN ts = 1..1 /\ ts[1] = t
        /\ ts # <<>>
    OBVIOUS
  <1> HIDE DEF ts
  <1>2. CASE ~(ValidPolicy(p) /\ ValidTelemetry(t))
    <2>1. ~ValidPolicy(p) \/ \E n \in DOMAIN ts : ~ValidTelemetry(ts[n])
      <3>1. 1 \in DOMAIN ts
        BY <1>1
      <3> QED
        BY <1>1, <1>2, <3>1
    <2>2. EvaluateTelemetry(p, ts) = Decision(Protective, 0, FALSE)
      BY <2>1, Zenon DEF EvaluateTelemetry
    <2> QED
      BY <1>2, <2>2 DEF Decision, Protective, ts
  <1>3. CASE ValidPolicy(p) /\ ValidTelemetry(t)
    <2>1. EvaluateTelemetry(p, ts) =
             Decision(Decide(p, LowestTrust(ts), HighestLevel(ts), AnyAnomaly(ts)),
                      LowestTrust(ts), TRUE)
      <3>1. \A n \in DOMAIN ts : n = 1
        BY <1>1
      <3>2. \A n \in DOMAIN ts : ValidTelemetry(ts[n])
        BY <1>1, <1>3, <3>1
      <3> QED
        BY <1>1, <1>3, <3>2, Zenon DEF EvaluateTelemetry
    <2>2. t.trust \in 0..Full /\ t.level \in 0..3 /\ t.anomaly \in BOOLEAN
      BY <1>3, TelemetryNumbers DEF CompartmentTelemetry
    <2>3. Numeric(ts)
      <3>1. \A n \in 1..Len(ts) : ts[n] = t
        BY <1>1
      <3>2. t.trust \in Int /\ t.level \in Int
        BY <2>2, FullIs
      <3> QED
        BY <1>1, <3>1, <3>2 DEF Numeric
    <2>4. /\ LowestTrust(ts) \in Int /\ LowestTrust(ts) <= t.trust
          /\ LowestTrust(ts) = Full \/ LowestTrust(ts) = t.trust
      BY <1>1, <2>3, LowestTrustIs
    <2>5. LowestTrust(ts) = t.trust
      BY <2>2, <2>4, FullIs
    <2>6. /\ HighestLevel(ts) \in Int /\ HighestLevel(ts) >= t.level
          /\ HighestLevel(ts) = 0 \/ HighestLevel(ts) = t.level
      BY <1>1, <2>3, HighestLevelIs DEF Normal
    <2>7. HighestLevel(ts) = t.level
      BY <2>2, <2>6
    <2>8. AnyAnomaly(ts) = t.anomaly
      <3>1. \A n \in DOMAIN ts : ts[n] = t
        BY <1>1
      <3>2. 1 \in DOMAIN ts
        BY <1>1
      <3>3. AnyAnomaly(ts) <=> t.anomaly
        BY <3>1, <3>2, Zenon DEF AnyAnomaly
      <3>4. AnyAnomaly(ts) \in BOOLEAN
        BY DEF AnyAnomaly
      <3> QED
        BY <2>2, <3>3, <3>4
    <2>9. Decide(p, t.trust, t.level, t.anomaly) = Rung(p, t.trust, t.level, t.anomaly)
      BY <2>2, DecideIsRung
    <2> QED
      BY <1>3, <2>1, <2>5, <2>7, <2>8, <2>9 DEF Decision, ts
  <1> QED
    BY <1>2, <1>3

LEMMA BmsTelemetryIs ==
    ASSUME NEW in \in BmsInputData, NEW dt \in Double
    PROVE  BmsTelemetry(in, dt) \in CompartmentTelemetry
  <1>1. CASE ~ValidBmsInput(in)
    BY <1>1 DEF BmsTelemetry, NoEvidence, CompartmentTelemetry, Protective, Double
  <1>2. CASE ValidBmsInput(in)
    <2>1. Harsher(in, in)
      BY <1>2, ValidBmsNumbers DEF Harsher
    <2>2. BmsTrust(in) \in 0..200 /\ BmsLevel(in) \in 0..3
      BY <2>1, HarsherTrust
    <2>3. in.t \in Int /\ in.soh \in 0..100 /\ Imbalance(in) \in Nat
      BY <1>2, ValidBmsNumbers
    <2>4. 2 * in.soh \in Int /\ Over(in.t, 35) + Imbalance(in) \in Int
      BY <2>3 DEF Over, AtLeast
    <2> QED
      BY <1>2, <2>2, <2>4 DEF BmsTelemetry, CompartmentTelemetry, Double
  <1> QED
    BY <1>1, <1>2

LEMMA HarsherRelaxesNothing ==
    ASSUME NEW p, NEW a \in BmsInputData, NEW b \in BmsInputData, Harsher(a, b)
    PROVE  /\ BmsTelemetry(a, 0).trust <= BmsTelemetry(b, 0).trust
           /\ EvaluateTelemetry(p, <<BmsTelemetry(a, 0)>>).level
                >= EvaluateTelemetry(p, <<BmsTelemetry(b, 0)>>).level
  <1> DEFINE ta == BmsTelemetry(a, 0)
             tb == BmsTelemetry(b, 0)
  <1>1. ta \in CompartmentTelemetry /\ tb \in CompartmentTelemetry
    BY BmsTelemetryIs DEF Double
  <1>2. ValidBmsInput(a) /\ ValidBmsInput(b)
    BY DEF Harsher
  <1>3. /\ ta.time = 0 /\ ta.health = 2 * a.soh /\ ta.trust = BmsTrust(a)
        /\ ta.stress = Over(a.t, 35) + Imbalance(a) /\ ta.level = BmsLevel(a)
        /\ ta.anomaly <=> (BmsLevel(a) = Protective /\ (a.t >= 65 \/ Imbalance(a) > 15))
    BY <1>2 DEF BmsTelemetry
  <1>4. /\ tb.time = 0 /\ tb.health = 2 * b.soh /\ tb.trust = BmsTrust(b)
        /\ tb.stress = Over(b.t, 35) + Imbalance(b) /\ tb.level = BmsLevel(b)
        /\ tb.anomaly <=> (BmsLevel(b) = Protective /\ (b.t >= 65 \/ Imbalance(b) > 15))
    BY <1>2 DEF BmsTelemetry
  <1> HIDE DEF ta, tb
  <1>5. /\ BmsTrust(a) \in 0..200 /\ BmsTrust(b) \in 0..200 /\ BmsTrust(a) <= BmsTrust(b)
        /\ BmsLevel(a) \in 0..3 /\ BmsLevel(b) \in 0..3 /\ BmsLevel(a) >= BmsLevel(b)
    BY HarsherTrust
  <1>6. /\ a.t \in Int /\ b.t \in Int /\ Imbalance(a) \in Nat /\ Imbalance(b) \in Nat
        /\ a.soh \in 0..100 /\ b.soh \in 0..100
    BY <1>2, ValidBmsNumbers
  <1>7. a.t >= b.t /\ Imbalance(a) >= Imbalance(b)
    BY DEF Harsher
  <1>8. /\ ta.trust \in Int /\ tb.trust \in Int /\ ta.trust <= tb.trust
        /\ ta.level \in 0..3 /\ tb.level \in 0..3 /\ ta.level >= tb.level
    BY <1>3, <1>4, <1>5
  <1>9. /\ ta.anomaly \in BOOLEAN /\ tb.anomaly \in BOOLEAN
        /\ tb.anomaly => ta.anomaly
    <2>1. ta.anomaly \in BOOLEAN /\ tb.anomaly \in BOOLEAN
      BY <1>1 DEF CompartmentTelemetry
    <2>2. ASSUME tb.anomaly PROVE ta.anomaly
      BY <1>3, <1>4, <1>5, <1>6, <1>7, <2>2 DEF Protective
    <2> QED
      BY <2>1, <2>2
  <1>10. ValidTelemetry(ta) => ValidTelemetry(tb)
    <2> SUFFICES ASSUME ValidTelemetry(ta) PROVE ValidTelemetry(tb)
      OBVIOUS
    <2>1. MaxFinite \in Nat /\ MaxFinite >= 200
      BY FullIs, TrustAssumption, DoublesAssumption DEF Finite
    <2>2. PICK sa \in Nat, sb \in Nat : sa = ta.stress /\ sb = tb.stress /\ sa >= sb
      BY <1>3, <1>4, <1>6, <1>7 DEF Over, AtLeast
    <2>3. sa \in -MaxFinite..MaxFinite
      BY <2>2 DEF ValidTelemetry, IsFinite, Finite
    <2>4. sb \in -MaxFinite..MaxFinite
      BY <2>1, <2>2, <2>3
    <2>5. ValidScore(tb.health) /\ ValidScore(tb.trust) /\ IsFinite(tb.time)
      BY <1>4, <1>5, <1>6, <2>1, FullIs DEF ValidScore, IsFinite, Finite
    <2> QED
      BY <1>8, <2>2, <2>4, <2>5 DEF ValidTelemetry, IsFinite, Finite, Normal, Protective
  <1>11. EvaluateTelemetry(p, <<ta>>).level >= EvaluateTelemetry(p, <<tb>>).level
    <2> DEFINE ra == Rung(p, ta.trust, ta.level, ta.anomaly)
               rb == Rung(p, tb.trust, tb.level, tb.anomaly)
    <2>1. /\ EvaluateTelemetry(p, <<ta>>).level =
                IF ValidPolicy(p) /\ ValidTelemetry(ta) THEN ra ELSE 3
          /\ EvaluateTelemetry(p, <<tb>>).level =
                IF ValidPolicy(p) /\ ValidTelemetry(tb) THEN rb ELSE 3
      BY <1>1, SingleVerdict
    <2>2. rb \in 0..3
      BY DEF Rung
    <2>3. ValidPolicy(p) => ra >= rb
      <3> SUFFICES ASSUME ValidPolicy(p) PROVE ra >= rb
        OBVIOUS
      <3>1. Numbers(p)
        BY PolicyNumbers
      <3> QED
        BY <1>8, <1>9, <3>1, RungMonotone
    <2> HIDE DEF ra, rb
    <2> QED
      BY <1>10, <2>1, <2>2, <2>3
  <1> QED
    BY <1>8, <1>11 DEF ta, tb

-----------------------------------------------------------------------------
(***************************************************************************)
(* The evaluation cycle.                                                   *)
(***************************************************************************)
\* A compartment's recommendation is what the default thresholds demand of it.
Recommends(t) ==
    /\ t.anomaly \/ t.trust < 100 => t.level = 3
    /\ t.trust < 140 => t.level >= 2
    /\ t.trust < 170 => t.level >= 1

LEMMA BmsRecommends ==
    ASSUME NEW in, NEW dt
    PROVE  Recommends(BmsTelemetry(in, dt))
  <1>1. CASE ~ValidBmsInput(in)
    BY <1>1 DEF BmsTelemetry, NoEvidence, Recommends, Protective
  <1>2. CASE ValidBmsInput(in)
    <2>1. /\ BmsTelemetry(in, dt).trust = BmsTrust(in)
          /\ BmsTelemetry(in, dt).level = BmsLevel(in)
          /\ BmsTelemetry(in, dt).anomaly => BmsLevel(in) = 3
      BY <1>2 DEF BmsTelemetry, Protective
    <2>2. BmsLevel(in) = Step(in.t, in.soc, BmsTrust(in))
      BY StepIs
    <2>3. Harsher(in, in)
      BY <1>2, ValidBmsNumbers DEF Harsher
    <2>4. PICK trust \in 0..200 : trust = BmsTrust(in)
      BY <2>3, HarsherTrust
    <2> QED
      BY <2>1, <2>2, <2>4 DEF Recommends, Step
  <1> QED
    BY <1>1, <1>2

LEMMA ConsistencyIs ==
    ASSUME NEW in \in AnomalyInputData, ValidAnomalyInput(in)
    PROVE  Consistency(in) \in Int
  <1>1. in.mechanical \in Int /\ in.electrical \in Int
    BY DEF ValidAnomalyInput, AnomalyInputData, Double
  <1>2. PICK largest \in Nat :
           largest = AtLeast(Abs(in.mechanical), Abs(in.electrical))
    BY <1>1 DEF AtLeast, Abs
  <1>3. PICK difference \in Nat : difference = Abs(in.mechanical - in.electrical)
    BY <1>1 DEF Abs
  <1>4. PICK k \in Int : k = Full * (largest - difference)
    BY FullIs
  <1>5. largest > 10 => AtLeast(k \div largest, 0) \in Int
    BY DEF AtLeast
  <1>6. MaxFinite \in Int
    BY DoublesAssumption
  <1>7. Consistency(in) = CASE largest <= 10 -> Full
                            [] largest > MaxFinite -> 0
                            [] OTHER -> AtLeast(k \div largest, 0)
    BY <1>2, <1>3, <1>4, Zenon DEF Consistency
  <1> QED
    <2>1. CASE largest <= 10
      <3>1. MaxFinite >= 200
        BY FullIs, TrustAssumption, DoublesAssumption DEF Finite
      <3>2. ~(largest > MaxFinite)
        BY <1>6, <2>1, <3>1
      <3> QED
        BY <1>7, <2>1, <3>2, FullIs
    <2>2. CASE largest > 10
      BY <1>5, <1>6, <1>7, <2>2
    <2> QED
      BY <2>1, <2>2

LEMMA AnomalyRecommends ==
    ASSUME NEW in \in AnomalyInputData
    PROVE  /\ AnomalyTelemetry(in) \in CompartmentTelemetry
           /\ Recommends(AnomalyTelemetry(in))
  <1>1. CASE ~ValidAnomalyInput(in)
    BY <1>1 DEF AnomalyTelemetry, NoEvidence, Recommends, CompartmentTelemetry, Protective,
                Double
  <1>2. CASE ValidAnomalyInput(in)
    <2>1. PICK score \in Int : score = Consistency(in)
      BY <1>2, ConsistencyIs
    <2>2. AnomalyLevel(score) = IF score < 100 THEN 3 ELSE IF score < 140 THEN 2
                                ELSE IF score < 170 THEN 1 ELSE 0
      BY DEF AnomalyLevel, Normal, SoftCeiling, HardCeiling, Protective
    <2>3. PICK alarm \in BOOLEAN, level \in 0..3 :
             /\ alarm = (score < 100) /\ level = AnomalyLevel(score)
      <3>1. AnomalyLevel(score) \in 0..3
        BY <2>2
      <3>2. (score < 100) \in BOOLEAN
        OBVIOUS
      <3> QED
        BY <3>1, <3>2, Zenon
    <2>4. AnomalyTelemetry(in) =
             [time |-> 0, health |-> score, trust |-> score, stress |-> 0,
              anomaly |-> alarm, level |-> level]
      BY <1>2, <2>1, <2>3, Zenon DEF AnomalyTelemetry
    <2>5. AnomalyTelemetry(in) \in CompartmentTelemetry
      BY <2>4 DEF CompartmentTelemetry, Double
    <2>6. /\ AnomalyTelemetry(in).trust = score
          /\ AnomalyTelemetry(in).level = level
          /\ AnomalyTelemetry(in).anomaly = alarm
      BY <2>4
    <2>7. Recommends(AnomalyTelemetry(in))
      <3>1. alarm => score < 100
        BY <2>3
      <3>2. /\ alarm \/ score < 100 => level = 3
            /\ score < 140 => level >= 2
            /\ score < 170 => level >= 1
        BY <2>2, <2>3, <3>1
      <3> QED
        BY <2>6, <3>2, Zenon DEF Recommends
    <2> QED
      BY <2>5, <2>7
  <1> QED
    BY <1>1, <1>2

\* The members have their types.
GovernanceInRange ==
    /\ policy \in TrustGateConfigs
    /\ bms \in BmsInputData /\ anomaly \in AnomalyInputData
    /\ evidence \in Seq(CompartmentTelemetry)

\* The first two pieces of evidence are the compartments' own.
EvidenceIsOwn ==
    Len(evidence) >= 2 => Recommends(evidence[1]) /\ Recommends(evidence[2])

\* The decision on record is the gate's over the evidence on record.
DecisionIsCurrent == decision = EvaluateTelemetry(policy, evidence)

GovernanceInv == GovernanceInRange /\ EvidenceIsOwn /\ DecisionIsCurrent

LEMMA GovernanceInitInv ==
    ASSUME GovernanceInit
    PROVE  GovernanceInv
  BY BaselineIsInput, GovernanceAssumption
     DEF GovernanceInit, GovernanceInv, GovernanceInRange, EvidenceIsOwn, DecisionIsCurrent

LEMMA GovernanceStep ==
    ASSUME GovernanceInv, [GovernanceNext]_governanceVars
    PROVE  GovernanceInv'
  <1> USE DEF GovernanceInv
  <1>1. CASE UNCHANGED governanceVars
    BY <1>1 DEF governanceVars, GovernanceInRange, EvidenceIsOwn, DecisionIsCurrent
  <1>2. ASSUME UNCHANGED <<policy, evidence, decision>>,
               bms' \in BmsInputData, anomaly' \in AnomalyInputData
        PROVE  GovernanceInv'
    BY <1>2 DEF GovernanceInRange, EvidenceIsOwn, DecisionIsCurrent
  <1>3. ASSUME NEW in \in BmsInputs, UpdateBms(in) PROVE GovernanceInv'
    BY <1>2, <1>3, GovernanceAssumption DEF UpdateBms, GovernanceInRange
  <1>4. ASSUME NEW in \in AnomalyInputs, UpdateAnomaly(in) PROVE GovernanceInv'
    BY <1>2, <1>4, GovernanceAssumption DEF UpdateAnomaly, GovernanceInRange
  <1>5. CASE ResetBms \/ ResetAnomaly
    BY <1>2, <1>5, BaselineIsInput DEF ResetBms, ResetAnomaly, GovernanceInRange
  <1>6. ASSUME NEW dt \in Intervals, Evaluate(dt) PROVE GovernanceInv'
    <2>1. PICK t, u \in CompartmentTelemetry :
             /\ t = BmsTelemetry(bms, dt) /\ u = AnomalyTelemetry(anomaly)
             /\ Recommends(t) /\ Recommends(u)
      <3>1. dt \in Double /\ bms \in BmsInputData /\ anomaly \in AnomalyInputData
        BY GovernanceAssumption DEF GovernanceInRange
      <3> QED
        BY <3>1, BmsTelemetryIs, BmsRecommends, AnomalyRecommends
    <2>2. /\ evidence' = <<t, u>> /\ decision' = EvaluateTelemetry(policy, evidence')
          /\ UNCHANGED <<policy, bms, anomaly>>
      BY <1>6, <2>1 DEF Evaluate
    <2>3. GovernanceInRange'
      BY <2>2 DEF GovernanceInRange
    <2>4. EvidenceIsOwn'
      BY <2>1, <2>2 DEF EvidenceIsOwn
    <2>5. DecisionIsCurrent'
      BY <2>2 DEF DecisionIsCurrent
    <2> QED
      BY <2>3, <2>4, <2>5
  <1>7. ASSUME NEW t \in Others, EvaluateMore(t) PROVE GovernanceInv'
    <2>1. /\ Len(evidence) = 2 /\ evidence' = Append(evidence, t)
          /\ decision' = EvaluateTelemetry(policy, evidence')
          /\ UNCHANGED <<policy, bms, anomaly>>
      BY <1>7 DEF EvaluateMore
    <2>2. t \in CompartmentTelemetry
      BY GovernanceAssumption
    <2>3. GovernanceInRange'
      BY <2>1, <2>2 DEF GovernanceInRange
    <2>4. evidence'[1] = evidence[1] /\ evidence'[2] = evidence[2]
      BY <2>1, <2>2 DEF GovernanceInRange
    <2>5. EvidenceIsOwn'
      BY <2>1, <2>4 DEF EvidenceIsOwn
    <2>6. DecisionIsCurrent'
      BY <2>1 DEF DecisionIsCurrent
    <2> QED
      BY <2>3, <2>5, <2>6
  <1> QED
    BY <1>1, <1>3, <1>4, <1>5, <1>6, <1>7 DEF GovernanceNext

LEMMA GovernanceAlways == GovernanceSpec => []GovernanceInv
  <1>1. GovernanceInit => GovernanceInv
    BY GovernanceInitInv
  <1>2. GovernanceInv /\ [GovernanceNext]_governanceVars => GovernanceInv'
    BY GovernanceStep
  <1> QED
    BY <1>1, <1>2, PTL DEF GovernanceSpec

\* The gate decides as strictly as its strictest piece of evidence and no stricter,
\* for any number of pieces in any order.
THEOREM StrictestCorrect == GovernanceSpec => []DecisionIsStrictestDemand
  <1>1. ASSUME GovernanceInv, ValidPolicy(policy), evidence # <<>>
        PROVE  decision.level = Max({DemandOrProtect(evidence[n]) : n \in DOMAIN evidence})
    <2>1. evidence \in Seq(CompartmentTelemetry) /\ decision = EvaluateTelemetry(policy, evidence)
      BY <1>1 DEF GovernanceInv, GovernanceInRange, DecisionIsCurrent
    <2> QED
      BY <1>1, <2>1, VerdictOverAny
  <1>2. GovernanceInv => DecisionIsStrictestDemand
    BY <1>1 DEF DecisionIsStrictestDemand
  <1> QED
    BY <1>2, GovernanceAlways, PTL

\* A battery in a worse state is never trusted more and never allowed more.
THEOREM HarsherCorrect == GovernanceSpec => []HarsherNeverRelaxes
  <1>1. GovernanceInv => HarsherNeverRelaxes
    BY HarsherRelaxesNothing, GovernanceAssumption
       DEF GovernanceInv, GovernanceInRange, HarsherNeverRelaxes
  <1> QED
    BY <1>1, GovernanceAlways, PTL

\* What admits learning in the decision admits it in the gate's two other checks, and
\* the compartments' own thresholds are those of the default policy.
THEOREM ThresholdsCorrect == GovernanceSpec => []ThresholdsAgree
  <1>1. ASSUME GovernanceInv PROVE ThresholdsAgree
    <2>1. /\ policy \in TrustGateConfigs /\ evidence \in Seq(CompartmentTelemetry)
          /\ decision = EvaluateTelemetry(policy, evidence)
      BY <1>1 DEF GovernanceInv, GovernanceInRange, DecisionIsCurrent
    <2>2. ASSUME decision.learning
          PROVE  /\ decision.valid
                 /\ MayUpdate(policy, decision.trust,
                              [min |-> 0, max |-> 1, step |-> 1, current |-> 0,
                               default |-> 0], 1)
                 /\ MayExitProtective(policy, decision.trust, AnyAnomaly(evidence),
                                      policy.recovery)
      <3>1. decision.valid
        <4>1. ~Decision(Protective, 0, FALSE).learning
          <5>1. Decision(Protective, 0, FALSE).learning = (Protective = Normal)
            BY Zenon DEF Decision
          <5>2. Protective # Normal
            BY DEF Protective, Normal
          <5> QED
            BY <5>1, <5>2, Zenon
        <4>2. \A level, trust : Decision(level, trust, TRUE).valid
          BY DEF Decision
        <4>3. \/ EvaluateTelemetry(policy, evidence) = Decision(Protective, 0, FALSE)
              \/ \E level, trust :
                    EvaluateTelemetry(policy, evidence) = Decision(level, trust, TRUE)
          <5>1. CASE \/ ~ValidPolicy(policy) \/ evidence = <<>>
                     \/ \E n \in DOMAIN evidence : ~ValidTelemetry(evidence[n])
            BY <5>1, Zenon DEF EvaluateTelemetry
          <5>2. CASE ~(\/ ~ValidPolicy(policy) \/ evidence = <<>>
                       \/ \E n \in DOMAIN evidence : ~ValidTelemetry(evidence[n]))
            <6>1. EvaluateTelemetry(policy, evidence) =
                     Decision(Decide(policy, LowestTrust(evidence), HighestLevel(evidence),
                                     AnyAnomaly(evidence)), LowestTrust(evidence), TRUE)
              BY <5>2, Zenon DEF EvaluateTelemetry
            <6> QED
              BY <6>1, Zenon
          <5> QED
            BY <5>1, <5>2
        <4> QED
          BY <2>1, <2>2, <4>1, <4>2, <4>3
      <3>2. /\ ValidPolicy(policy) /\ Usable(evidence)
            /\ decision = Decision(Rung(policy, LowestTrust(evidence),
                                        HighestLevel(evidence), AnyAnomaly(evidence)),
                                   LowestTrust(evidence), TRUE)
        BY <2>1, <3>1, GateVerdict
      <3>3. PICK low \in 0..Full : low = LowestTrust(evidence)
        BY <3>2, UsableNumbers
      <3>4. /\ decision.trust = low
            /\ Rung(policy, low, HighestLevel(evidence), AnyAnomaly(evidence)) = 0
        BY <2>2, <3>2, <3>3 DEF Decision, Normal
      <3>5. Numbers(policy)
        BY <3>2, PolicyNumbers
      <3>6. low >= policy.accept /\ ~AnyAnomaly(evidence)
        BY <3>3, <3>4, <3>5, FullIs DEF Rung, Numbers
      <3>7. MaxFinite \in Nat /\ MaxFinite >= 200
        BY FullIs, TrustAssumption, DoublesAssumption DEF Finite
      <3>8. ValidScore(low)
        BY <3>3, <3>7, FullIs DEF ValidScore, IsFinite, Finite
      <3>9. MayExitProtective(policy, decision.trust, AnyAnomaly(evidence),
                              policy.recovery)
        <4>1. policy.recovery \in Nat
          BY <2>1 DEF TrustGateConfigs
        <4>2. policy.recovery >= policy.recovery
          BY <4>1
        <4>3. decision.trust >= policy.accept /\ ValidScore(decision.trust)
          BY <3>4, <3>6, <3>8
        <4> QED
          BY <3>2, <3>6, <4>2, <4>3, Zenon DEF MayExitProtective
      <3>10. IsFinite(0) /\ IsFinite(1)
        BY <3>7 DEF IsFinite, Finite
      <3>11. MayUpdate(policy, decision.trust,
                       [min |-> 0, max |-> 1, step |-> 1, current |-> 0, default |-> 0], 1)
        <4> DEFINE env == [min |-> 0, max |-> 1, step |-> 1, current |-> 0, default |-> 0]
        <4>1. /\ env.min = 0 /\ env.max = 1 /\ env.step = 1
              /\ env.current = 0 /\ env.default = 0
          OBVIOUS
        <4> HIDE DEF env
        <4>2. ValidEnvelope(env)
          BY <3>10, <4>1 DEF ValidEnvelope
        <4>3. /\ env.min <= 1 /\ 1 <= env.max /\ IsFinite(1 - env.current)
              /\ Abs(1 - env.current) <= env.step
          BY <3>10, <4>1 DEF Abs
        <4>4. decision.trust >= policy.accept /\ ValidScore(decision.trust)
          BY <3>4, <3>6, <3>8
        <4>5. MayUpdate(policy, decision.trust, env, 1)
          BY <3>2, <3>10, <4>2, <4>3, <4>4, Zenon DEF MayUpdate
        <4> QED
          BY <4>5 DEF env
      <3> QED
        BY <3>1, <3>9, <3>11
    <2>3. ASSUME policy = DefaultPolicy, decision.valid, Len(evidence) = 2
          PROVE  decision.level = Max({evidence[1].level, evidence[2].level})
      <3>1. ValidPolicy(policy) /\ Usable(evidence)
        BY <2>1, <2>3, GateVerdict
      <3>2. decision.level = Max({Demand(evidence[n]) : n \in DOMAIN evidence})
        BY <2>1, <2>3, VerdictIsStrictest
      <3>3. ASSUME NEW n \in {1, 2} PROVE Demand(evidence[n]) = evidence[n].level
        <4>1. /\ ValidTelemetry(evidence[n]) /\ evidence[n].anomaly \in BOOLEAN
              /\ Recommends(evidence[n])
          BY <1>1, <2>3, <3>1 DEF Usable, GovernanceInv, EvidenceIsOwn
        <4>2. evidence[n].trust \in 0..200 /\ evidence[n].level \in 0..3
          BY <4>1, TelemetryNumbers, FullIs
        <4>3. policy.accept = 170 /\ policy.soft = 140 /\ policy.hard = 100
          BY <2>3, GovernanceAssumption
        <4>4. Demand(evidence[n]) =
                 Rung(policy, evidence[n].trust, evidence[n].level, evidence[n].anomaly)
          BY <3>1, <4>1, DemandIsRung
        <4> QED
          BY <4>1, <4>2, <4>3, <4>4 DEF Rung, Recommends
      <3>4. {Demand(evidence[n]) : n \in DOMAIN evidence}
               = {evidence[1].level, evidence[2].level}
        <4>1. DOMAIN evidence = {1, 2}
          BY <2>1, <2>3
        <4> QED
          BY <3>3, <4>1
      <3> QED
        BY <3>2, <3>4
    <2> QED
      BY <2>2, <2>3 DEF ThresholdsAgree
  <1>2. GovernanceInv => ThresholdsAgree
    BY <1>1
  <1> QED
    BY <1>2, GovernanceAlways, PTL
=============================================================================
