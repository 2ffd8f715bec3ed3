--------------------------- MODULE LearningEngine ---------------------------
(***************************************************************************)
(* LearningEngine of include/ailee_trust_layer/learning_engine.hpp with the *)
(* envelopes it tunes (ParameterEnvelope, ParameterTargetIdentity of       *)
(* ailee_compartment.hpp): gated proposals, rollback by handle, the audit. *)
(*                                                                         *)
(* Several engines work on the same envelopes.  Handles and identities     *)
(* come from two counters of the process; an engine's histories are its    *)
(* own.  The caller owns the envelopes: it copies, moves and replaces      *)
(* them, changes their limits and renames them between the engines' calls. *)
(* Each call holds the engine's mutex and the caller serialises its use of *)
(* an envelope, so a call is one step.                                     *)
(***************************************************************************)
EXTENDS TrustGate, SequencesExt

CONSTANTS
    Engines,       \* LearningEngine instances
    Cells,         \* addresses at which a ParameterEnvelope may live
    Compartments,  \* names a caller may pass; NoName is the empty string
    Names,         \* parameter names; NoName is the empty string
    NoName,
    Envelopes,     \* freshly constructed envelopes, identity aside
    Limits,        \* minima, maxima and steps a caller may assign
    Proposals,     \* values proposed
    Scores,        \* trust scores passed with a proposal
    Policy,        \* the gate's thresholds
    LastId,        \* the largest uint64_t, where both counters stop
    MaxAttempts,   \* bound: calls recorded by all engines together
    MaxDenied      \* bound: how many of them are refused

ASSUME LearningAssumption ==
    /\ LastId \in Nat \ {0} /\ MaxAttempts \in Nat /\ MaxDenied \in Nat
    /\ IsFiniteSet(Cells)
    /\ Envelopes \subseteq [min : Double, max : Double, step : Double,
                            default : Double, current : Double,
                            name : Names \cup {NoName}]
    /\ Limits \subseteq [min : Double, max : Double, step : Double]
    /\ Proposals \subseteq Double

VARIABLES
    targets,       \* the envelope at each address
    nextIdentity,  \* ParameterTargetIdentity::next_
    nextSnapshot,  \* LearningEngine::next_snapshot_id_
    snapshots,     \* per engine: snapshots_
    audit,         \* per engine: audit_records_
    grants         \* per engine: authorizations_, by handle

counters == <<nextIdentity, nextSnapshot>>
histories == <<snapshots, audit, grants>>
vars == <<targets, nextIdentity, nextSnapshot, snapshots, audit, grants>>

Ids == 0..LastId

(***************************************************************************)
(* Both counters hand out each number below LastId once, and zero after.   *)
(***************************************************************************)
Allocated(next) == IF next = LastId THEN 0 ELSE next

Advanced(next) == IF next = LastId THEN LastId ELSE next + 1

-----------------------------------------------------------------------------
(***************************************************************************)
(* The caller's own operations on envelopes.                               *)
(***************************************************************************)
\* A fresh envelope under an identity.
Identified(env, id) ==
    [min |-> env.min, max |-> env.max, step |-> env.step, default |-> env.default,
     current |-> env.current, name |-> env.name, identity |-> id]

\* A new envelope at an address: construction, or destruction and construction.
Construct(c) ==
    /\ \E env \in Envelopes :
          targets' = [targets EXCEPT ![c] = Identified(env, Allocated(nextIdentity))]
    /\ nextIdentity' = Advanced(nextIdentity)
    /\ UNCHANGED <<nextSnapshot, histories>>

\* Slip: the identity is copied with the limits and the value.
CopyKeepingIdentity(from, to) ==
    /\ from # to
    /\ targets' = [targets EXCEPT ![to] = targets[from]]
    /\ UNCHANGED <<counters, histories>>

\* Copy construction or assignment; a target assigned to itself, by copy or by
\* move, is renewed as well.
Copy(from, to) ==
    /\ targets' = [targets EXCEPT
          ![to] = [targets[from] EXCEPT !.identity = Allocated(nextIdentity)]]
    /\ nextIdentity' = Advanced(nextIdentity)
    /\ UNCHANGED <<nextSnapshot, histories>>

\* Move construction or assignment retires the source's identity as well.
Move(from, to) ==
    /\ from # to
    /\ targets' = [targets EXCEPT
          ![to] = [targets[from] EXCEPT !.identity = Allocated(nextIdentity)],
          ![from].identity = Allocated(Advanced(nextIdentity))]
    /\ nextIdentity' = Advanced(Advanced(nextIdentity))
    /\ UNCHANGED <<nextSnapshot, histories>>

\* Ordinary scalar limits change without touching the identity.
SetLimits(c, lim) ==
    /\ targets' = [targets EXCEPT ![c].min = lim.min, ![c].max = lim.max,
                                  ![c].step = lim.step]
    /\ UNCHANGED <<counters, histories>>

Rename(c, name) ==
    /\ targets' = [targets EXCEPT ![c].name = name]
    /\ UNCHANGED <<counters, histories>>

-----------------------------------------------------------------------------
(***************************************************************************)
(* The engine.                                                             *)
(***************************************************************************)
\* target_matches_binding: the first grant binds a live target to one
\* compartment and one name, as far as this engine is concerned.
MatchesBinding(e, compartment, c) ==
    /\ targets[c].identity # 0 /\ compartment # NoName /\ targets[c].name # NoName
    /\ \A h \in DOMAIN grants[e] :
          grants[e][h].target = c /\ grants[e][h].identity = targets[c].identity
              => /\ grants[e][h].compartment = compartment
                 /\ grants[e][h].name = targets[c].name

Record(e, id, op, source, c, compartment, proposed) ==
    [id |-> id, auditId |-> Len(audit[e]) + 1, op |-> op, source |-> source,
     identity |-> targets[c].identity, compartment |-> compartment,
     name |-> targets[c].name, previous |-> targets[c].current,
     proposed |-> proposed,
     applied |-> IF id # 0 THEN proposed ELSE targets[c].current,
     approved |-> id # 0]

\* The grant a handle leaves; a handle that has one keeps it.
Granted(held, c, rec) ==
    [h \in DOMAIN held \cup {rec.id} |->
        IF h \in DOMAIN held THEN held[h]
        ELSE [target |-> c, identity |-> rec.identity,
              compartment |-> rec.compartment, name |-> rec.name]]

\* Slip: the histories are swapped in and the value is left as it was.
RecordAttemptUnapplied(e, c, rec) ==
    /\ audit' = [audit EXCEPT ![e] = Append(@, rec)]
    /\ snapshots' = IF rec.approved THEN [snapshots EXCEPT ![e] = Append(@, rec)]
                                    ELSE snapshots
    /\ grants' = IF rec.approved
                 THEN [grants EXCEPT ![e] = Granted(@, c, rec)]
                 ELSE grants
    /\ UNCHANGED targets

\* Slip: a denied attempt enters the committed history too.
RecordAttemptAll(e, c, rec) ==
    /\ snapshots' = [snapshots EXCEPT ![e] = Append(@, rec)]
    /\ grants' = IF rec.approved
                 THEN [grants EXCEPT ![e] = Granted(@, c, rec)]
                 ELSE grants
    /\ audit' = [audit EXCEPT ![e] = Append(@, rec)]
    /\ targets' = [targets EXCEPT ![c].current = rec.applied]

\* record_attempt: an approved record enters both histories and leaves a grant,
\* a refused one enters the audit only.
RecordAttempt(e, c, rec) ==
    /\ audit' = [audit EXCEPT ![e] = Append(@, rec)]
    /\ \/ /\ rec.approved
          /\ snapshots' = [snapshots EXCEPT ![e] = Append(@, rec)]
          /\ grants' = [grants EXCEPT ![e] = Granted(@, c, rec)]
          /\ targets' = [targets EXCEPT ![c].current = rec.applied]
       \/ /\ ~rec.approved
          /\ UNCHANGED <<targets, snapshots, grants>>

\* Approval takes the next handle, and is withdrawn when none is left.
Attempt(e, c, permitted, op, source, compartment, proposed) ==
    /\ RecordAttempt(e, c,
          Record(e, IF permitted THEN Allocated(nextSnapshot) ELSE 0,
                 op, source, c, compartment, proposed))
    /\ nextSnapshot' = IF permitted THEN Advanced(nextSnapshot) ELSE nextSnapshot
    /\ UNCHANGED nextIdentity

\* propose_parameter_update.
Propose(e, c, compartment, proposed, score) ==
    Attempt(e, c,
            /\ MayUpdate(Policy, score, targets[c], proposed)
            /\ MatchesBinding(e, compartment, c),
            "proposal", 0, compartment, proposed)

Sources(e, h) == {n \in DOMAIN snapshots[e] : snapshots[e][n].id = h}

\* Slip: the grant is compared by address alone.
GrantedByAddress(e, c, h) ==
    h \in DOMAIN grants[e] /\ grants[e][h].target = c

GrantedTo(e, c, h) ==
    /\ h \in DOMAIN grants[e]
    /\ grants[e][h].target = c
    /\ grants[e][h].identity = targets[c].identity

\* The historical value must fit the limits of today; the step limit and the
\* trust score are not consulted again.
MayRestore(e, c, h, src) ==
    /\ GrantedTo(e, c, h)
    /\ MatchesBinding(e, src.compartment, c)
    /\ ValidEnvelope(targets[c])
    /\ IsFinite(src.previous)
    /\ targets[c].min <= src.previous /\ src.previous <= targets[c].max

\* rollback with a handle this engine recorded.
RollbackKnown(e, c, h) ==
    /\ Sources(e, h) # {}
    /\ LET src == snapshots[e][Min(Sources(e, h))]
       IN  Attempt(e, c, MayRestore(e, c, h, src),
                   "rollback", h, src.compartment, src.previous)

\* rollback with any other handle is refused and audited.
RollbackUnknown(e, c, h) ==
    /\ Sources(e, h) = {}
    /\ Attempt(e, c, FALSE, "rollback", h, NoName, targets[c].current)

Attempts == MapThenSumSet(LAMBDA e : Len(audit[e]), Engines)
Denied == Attempts - MapThenSumSet(LAMBDA e : Len(snapshots[e]), Engines)

\* An allocation fails before the commit of a permitted attempt: the exception
\* leaves everything but the handle counter as it was.
Abandon ==
    /\ Attempts < MaxAttempts
    /\ nextSnapshot' = Advanced(nextSnapshot)
    /\ UNCHANGED <<targets, nextIdentity, histories>>

-----------------------------------------------------------------------------
\* Envelopes are constructed one after the other.
Init ==
    /\ \E order \in [Cells -> 1..Cardinality(Cells)], env \in [Cells -> Envelopes] :
          /\ \A c, d \in Cells : order[c] = order[d] => c = d
          /\ targets = [c \in Cells |->
                Identified(env[c], IF order[c] < LastId THEN order[c] ELSE 0)]
    /\ nextIdentity = AtMost(Cardinality(Cells) + 1, LastId)
    /\ nextSnapshot = 1
    /\ snapshots = [e \in Engines |-> <<>>]
    /\ audit = [e \in Engines |-> <<>>]
    /\ grants = [e \in Engines |-> <<>>]

EngineStep ==
    /\ Attempts < MaxAttempts
    /\ \E e \in Engines, c \in Cells :
          \/ \E compartment \in Compartments, x \in Proposals, score \in Scores :
                Propose(e, c, compartment, x, score)
          \/ \E h \in Ids : RollbackKnown(e, c, h) \/ RollbackUnknown(e, c, h)
    /\ Denied' <= MaxDenied

CallerStep ==
    \/ \E c \in Cells : Construct(c)
    \/ \E from, to \in Cells : Copy(from, to) \/ Move(from, to)
    \/ \E c \in Cells, lim \in Limits : SetLimits(c, lim)
    \/ \E c \in Cells, name \in Names : Rename(c, name)

Next == EngineStep \/ CallerStep \/ Abandon

Spec == Init /\ [][Next]_vars

-----------------------------------------------------------------------------
\* A grant names a living target only if it was made for it: whatever was
\* copied, moved or rebuilt since, no other envelope carries its identity, and
\* living identities differ.
NoInheritedGrant ==
    /\ \A c, d \in Cells :
          targets[c].identity = targets[d].identity /\ targets[c].identity # 0 => c = d
    /\ \A e \in Engines : \A h \in DOMAIN grants[e] : \A c \in Cells :
          targets[c].identity = grants[e][h].identity => grants[e][h].target = c

\* The histories and the grants tell one story: the audit is numbered, the
\* committed history is the approved part of it in the order of the audit and of
\* the handles, its handles are the grants, and no handle was given to two engines.
HistoriesAgree ==
    /\ \A e \in Engines :
          /\ \A n \in DOMAIN audit[e] :
                /\ audit[e][n].auditId = n
                /\ audit[e][n].approved =>
                      \E k \in DOMAIN snapshots[e] : snapshots[e][k] = audit[e][n]
          /\ \A k \in DOMAIN snapshots[e] :
                /\ snapshots[e][k].approved
                /\ \E n \in DOMAIN audit[e] : audit[e][n] = snapshots[e][k]
          /\ \A k, m \in DOMAIN snapshots[e] :
                k < m => /\ snapshots[e][k].id < snapshots[e][m].id
                         /\ snapshots[e][k].auditId < snapshots[e][m].auditId
          /\ DOMAIN grants[e] = {snapshots[e][k].id : k \in DOMAIN snapshots[e]}
    /\ \A e, f \in Engines : e # f => DOMAIN grants[e] \cap DOMAIN grants[f] = {}

Committed(identity) ==
    {r \in UNION {Range(snapshots[e]) : e \in Engines} : r.identity = identity}

\* The records of all engines together replay the life of every living target:
\* each transition starts where the one before it ended, the last one ends at the
\* value in use, and each engine worked for one compartment under one name.
RecordsReplayTarget ==
    \A c \in Cells :
        LET life == Committed(targets[c].identity)
        IN  targets[c].identity # 0 =>
                /\ \A r \in life :
                      (\A s \in life : s.id <= r.id) => r.applied = targets[c].current
                /\ \A r, s \in life :
                      /\ r.id < s.id
                      /\ ~\E t \in life : r.id < t.id /\ t.id < s.id
                      => s.previous = r.applied
                /\ \A e \in Engines : \A r, s \in life \cap Range(snapshots[e]) :
                      r.compartment = s.compartment /\ r.name = s.name

\* A rollback that changes a target restores a value that very target had while
\* this engine worked on it, and leaves its limits, name and identity alone.
RollbackRestoresOwnPast ==
    [][ \A e \in Engines, c \in Cells :
            /\ Len(audit'[e]) > Len(audit[e])
            /\ audit'[e][Len(audit'[e])].op = "rollback"
            /\ targets'[c] # targets[c]
            => /\ targets'[c] = [targets[c] EXCEPT !.current = targets'[c].current]
               /\ \E n \in DOMAIN snapshots[e] :
                     /\ snapshots[e][n].identity = targets[c].identity
                     /\ snapshots[e][n].name = targets[c].name
                     /\ snapshots[e][n].previous = targets'[c].current ]_vars
=============================================================================
