-------------------------- MODULE ContinuityLedger --------------------------
(***************************************************************************)
(* EnergyContinuityLedger of include/ds_energy_continuity.hpp: a caller    *)
(* hands in one batch of transfers and stored energies per interval, which *)
(* is committed whole or refused whole.  Compensated sums are exact here.  *)
(* The status a commit returns (balanced, imbalanced, insufficient) is     *)
(* computed from the same numbers with the batch's tolerance, changes      *)
(* nothing and is left out, and so are the error codes of a refusal.       *)
(***************************************************************************)
EXTENDS Doubles, FiniteSets, FiniteSetsExt, Sequences

VARIABLE account    \* state_ and the two accumulated sums

PhysicalNodes == {"Battery", "PowerElectronics", "Motor", "KineticStore",
                  "ThermalSink", "Auxiliary", "ExternalSource"}
EvidenceKinds == {"Measured", "Calculated", "Simulated", "Estimated"}

MaxTransfers == 32

EmptyAccount(session) ==
    [session |-> session, lastEvent |-> 0, events |-> 0, lastEnd |-> 0,
     boundary |-> {}, inbound |-> 0, outbound |-> 0, dissipated |-> 0,
     storageChange |-> 0, residual |-> 0,
     physical |-> [k \in EvidenceKinds |-> 0],
     available |-> [k \in EvidenceKinds |-> 0]]

LedgerInit == account = EmptyAccount(1)

\* reset: a newer session clears everything, any other leaves it alone.
ResetLedger(session) ==
    /\ session > account.session
    /\ account' = EmptyAccount(session)

-----------------------------------------------------------------------------
(* A batch is a record of a session, an event, an interval, a boundary, a  *)
(* sequence of transfers, a sequence of storage observations and the claim *)
(* that the latter are complete.                                           *)

ValidInterval(start, end) ==
    /\ IsFinite(start) /\ IsFinite(end)
    /\ start >= 0 /\ end > start

ValidEvidence(record) == record.accepted /\ record.kind \in EvidenceKinds

ValidQuantity(x) == IsFinite(x) /\ x >= 0

\* The checks on the batch as a whole.
Admissible(b) ==
    /\ b.session = account.session
    /\ b.event > account.lastEvent
    /\ ValidInterval(b.start, b.end)
    /\ account.events # 0 => b.start >= account.lastEnd
    /\ Len(b.transfers) <= MaxTransfers
    /\ Len(b.stores) <= Cardinality(PhysicalNodes)
    /\ b.boundary # {}
    /\ account.events # 0 => b.boundary = account.boundary

Distinct(sequence, key(_)) ==
    \A m, n \in DOMAIN sequence : key(sequence[m]) = key(sequence[n]) => m = n

\* A store that was not observed makes the evidence incomplete, and the claim
\* that it is complete a contradiction.
StoresAcceptable(b) ==
    /\ Distinct(b.stores, LAMBDA s : s.node)
    /\ \A n \in DOMAIN b.stores :
          LET s == b.stores[n]
          IN  /\ s.node \in b.boundary
              /\ ValidEvidence(s)
              /\ ValidQuantity(s.initial) /\ ValidQuantity(s.final)
    /\ b.storesComplete =>
          b.boundary \subseteq {b.stores[n].node : n \in DOMAIN b.stores}

TransfersAcceptable(b) ==
    /\ Distinct(b.transfers, LAMBDA t : t.id)
    /\ \A n \in DOMAIN b.transfers :
          LET t == b.transfers[n]
          IN  /\ t.id # 0
              /\ {t.source, t.destination} \subseteq PhysicalNodes
              /\ t.source # t.destination
              /\ ValidEvidence(t)
              /\ ValidQuantity(t.energy)
              /\ t.start = b.start /\ t.end = b.end
              /\ t.purpose = "PhysicalTransfer" =>
                    {t.source, t.destination} \cap b.boundary # {}

-----------------------------------------------------------------------------
(* What a batch adds.                                                      *)

Inside(node, b) == node \in b.boundary

Enters(t, b) == ~Inside(t.source, b) /\ Inside(t.destination, b)
Leaves(t, b) == Inside(t.source, b) /\ ~Inside(t.destination, b)

Energies(b, Counts(_)) ==
    MapThenSumSet(LAMBDA n : b.transfers[n].energy,
                  {n \in DOMAIN b.transfers : Counts(b.transfers[n])})

Physical(t) == t.purpose = "PhysicalTransfer"

\* Only a crossing to the thermal sink is heat.
Flux(b) ==
    [inbound    |-> Energies(b, LAMBDA t : Physical(t) /\ Enters(t, b)),
     outbound   |-> Energies(b, LAMBDA t : /\ Physical(t) /\ Leaves(t, b)
                                           /\ t.destination # "ThermalSink"),
     dissipated |-> Energies(b, LAMBDA t : /\ Physical(t) /\ Leaves(t, b)
                                           /\ t.destination = "ThermalSink")]

Initial(b) == MapThenSumSet(LAMBDA n : b.stores[n].initial, DOMAIN b.stores)
Final(b)   == MapThenSumSet(LAMBDA n : b.stores[n].final, DOMAIN b.stores)

Residual(b) ==
    Initial(b) - Final(b) + Flux(b).inbound - Flux(b).outbound - Flux(b).dissipated

\* Slip: the commit keeps the former event and the former end.
CandidateWithoutOrder(b) ==
    [account EXCEPT
        !.boundary = b.boundary, !.events = @ + 1,
        !.inbound = @ + Flux(b).inbound, !.outbound = @ + Flux(b).outbound,
        !.dissipated = @ + Flux(b).dissipated,
        !.storageChange = @ + Final(b) - Initial(b),
        !.residual = @ + Residual(b)]

CandidateAccount(b) ==
    [account EXCEPT
        !.lastEvent = b.event, !.lastEnd = b.end, !.boundary = b.boundary,
        !.events = @ + 1,
        !.inbound = @ + Flux(b).inbound, !.outbound = @ + Flux(b).outbound,
        !.dissipated = @ + Flux(b).dissipated,
        !.storageChange = @ + Final(b) - Initial(b),
        !.residual = @ + Residual(b),
        !.physical = [k \in EvidenceKinds |->
            @[k] + Energies(b, LAMBDA t : Physical(t) /\ t.kind = k)],
        !.available = [k \in EvidenceKinds |->
            @[k] + Energies(b, LAMBDA t : ~Physical(t) /\ t.kind = k)]]

ArithmeticSucceeds(b) ==
    LET next == CandidateAccount(b)
        flux == Flux(b)
    IN  /\ \A x \in {Initial(b) + flux.inbound,
                     Final(b) + flux.outbound + flux.dissipated,
                     next.inbound, next.outbound, next.dissipated,
                     next.storageChange, next.residual} : IsFinite(x)
        /\ \A k \in EvidenceKinds :
              IsFinite(next.physical[k]) /\ IsFinite(next.available[k])

Acceptable(b) ==
    /\ Admissible(b)
    /\ StoresAcceptable(b)
    /\ TransfersAcceptable(b)
    /\ ArithmeticSucceeds(b)

\* reconcile: one assignment at the end, or none.
Reconcile(b) == account' = IF Acceptable(b) THEN CandidateAccount(b) ELSE account

=============================================================================
