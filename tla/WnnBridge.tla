----------------------------- MODULE WnnBridge -----------------------------
(***************************************************************************)
(* The telemetry path from the battery middleware to the wave network:     *)
(* SPSCQueue and DSWNNBridge of include/ds_wnn_telemetry_bridge.hpp with   *)
(* the modulator and engine of include/wnn_payload_modulator.hpp.  One     *)
(* producer thread calls update_telemetry, one consumer thread steps the   *)
(* engine, which polls once per step.  Every atomic operation is a step of *)
(* its own, and an acquire load may return any value that is not older     *)
(* than what the thread has seen before, as the C++ memory model allows.   *)
(***************************************************************************)
EXTENDS Naturals, Sequences

CONSTANTS
    Capacity,    \* slots of the ring
    Payload,     \* telemetry payloads
    Nothing      \* a zero payload or a slot never written

ASSUME BridgeAssumption ==
    /\ Capacity \in Nat \ {0}
    /\ Nothing \notin Payload

VARIABLES
    buffer,      \* buffer_
    head, tail,  \* head_ and tail_, both stored with release
    headSeen,    \* the newest head the producer's acquire loads returned
    tailSeen,    \* the newest tail the consumer's acquire loads returned
    producer,    \* where the producer is in push
    consumer,    \* where the consumer is in pop
    item,        \* the payload being pushed
    latest       \* latest_payload_, which pop fills in place

vars == <<buffer, head, tail, headSeen, tailSeen, producer, consumer, item, latest>>

Slots == 0 .. Capacity - 1

\* (i + 1) & mask_, the capacity being a power of two.
Succ(i) == IF i + 1 = Capacity THEN 0 ELSE i + 1

\* Slots from one index up to, but not including, the other, round the ring.
Distance(from, to) == IF from <= to THEN to - from ELSE to + Capacity - from
Nth(i, k) == IF i + k < Capacity THEN i + k ELSE i + k - Capacity

\* What an acquire load may return: anything from the last seen value on.
Views(seen, current) == {Nth(seen, k) : k \in 0 .. Distance(seen, current)}

Init ==
    /\ buffer = [s \in Slots |-> Nothing]
    /\ head = 0 /\ tail = 0 /\ headSeen = 0 /\ tailSeen = 0
    /\ producer = "idle" /\ consumer = "idle"
    /\ item = Nothing /\ latest = Nothing

(***************************************************************************)
(* The producer: update_telemetry builds a payload and pushes it.          *)
(***************************************************************************)
BeginPush(p) ==
    /\ producer = "idle"
    /\ producer' = "check"
    /\ item' = p
    /\ UNCHANGED <<buffer, head, tail, headSeen, tailSeen, consumer, latest>>

\* Slip: a full queue drops its oldest payload from the producer's side.
PushDropsOldest ==
    /\ producer = "check"
    /\ \E h \in Views(headSeen, head) :
          /\ Succ(tail) = h
          /\ headSeen' = h
    /\ head' = Succ(head)
    /\ producer' = "idle"
    /\ item' = Nothing
    /\ UNCHANGED <<buffer, tail, tailSeen, consumer, latest>>

\* The queue looks full: push returns false and the payload is dropped.
PushRefused ==
    /\ producer = "check"
    /\ \E h \in Views(headSeen, head) :
          /\ Succ(tail) = h
          /\ headSeen' = h
    /\ producer' = "idle"
    /\ item' = Nothing
    /\ UNCHANGED <<buffer, head, tail, tailSeen, consumer, latest>>

\* Slip: all slots are used, so the queue is full only when the write would
\* pass the head.
PushUsingEverySlot ==
    /\ producer = "check"
    /\ headSeen' \in Views(headSeen, head)
    /\ producer' = "write"
    /\ UNCHANGED <<buffer, head, tail, tailSeen, consumer, item, latest>>

PushAllowed ==
    /\ producer = "check"
    /\ \E h \in Views(headSeen, head) :
          /\ Succ(tail) # h
          /\ headSeen' = h
    /\ producer' = "write"
    /\ UNCHANGED <<buffer, head, tail, tailSeen, consumer, item, latest>>

PushWrite ==
    /\ producer = "write"
    /\ buffer' = [buffer EXCEPT ![tail] = item]
    /\ producer' = "publish"
    /\ UNCHANGED <<head, tail, headSeen, tailSeen, consumer, item, latest>>

PushPublish ==
    /\ producer = "publish"
    /\ tail' = Succ(tail)
    /\ producer' = "idle"
    /\ item' = Nothing
    /\ UNCHANGED <<buffer, head, headSeen, tailSeen, consumer, latest>>

(***************************************************************************)
(* The consumer: the engine's step polls the modulator, which pops.        *)
(***************************************************************************)
BeginPop ==
    /\ consumer = "idle"
    /\ consumer' = "check"
    /\ UNCHANGED <<buffer, head, tail, headSeen, tailSeen, producer, item, latest>>

\* The queue looks empty: the engine integrates with the payload it had.
PopRefused ==
    /\ consumer = "check"
    /\ head \in Views(tailSeen, tail)
    /\ tailSeen' = head
    /\ consumer' = "idle"
    /\ UNCHANGED <<buffer, head, tail, headSeen, producer, item, latest>>

\* Slip: the last payload is left in the queue.
PopAllBut1 ==
    /\ consumer = "check"
    /\ \E t \in Views(tailSeen, tail) :
          /\ t # head /\ t # Succ(head)
          /\ tailSeen' = t
    /\ consumer' = "read"
    /\ UNCHANGED <<buffer, head, tail, headSeen, producer, item, latest>>

PopAllowed ==
    /\ consumer = "check"
    /\ \E t \in Views(tailSeen, tail) :
          /\ t # head
          /\ tailSeen' = t
    /\ consumer' = "read"
    /\ UNCHANGED <<buffer, head, tail, headSeen, producer, item, latest>>

PopRead ==
    /\ consumer = "read"
    /\ latest' = buffer[head]
    /\ consumer' = "advance"
    /\ UNCHANGED <<buffer, head, tail, headSeen, tailSeen, producer, item>>

PopAdvance ==
    /\ consumer = "advance"
    /\ head' = Succ(head)
    /\ consumer' = "idle"
    /\ UNCHANGED <<buffer, tail, headSeen, tailSeen, producer, item, latest>>

Push == (\E p \in Payload : BeginPush(p))
        \/ PushRefused \/ PushAllowed \/ PushWrite \/ PushPublish
Pop == BeginPop \/ PopRefused \/ PopAllowed \/ PopRead \/ PopAdvance

Next == Push \/ Pop

Spec == Init /\ [][Next]_vars

\* The engine steps for ever, and a store becomes visible to the other thread
\* after finitely many loads: that is the strong fairness of PopAllowed.  The
\* producer is under no obligation.
Fairness == WF_vars(Pop) /\ SF_vars(PopAllowed)

FairSpec == Spec /\ Fairness

-----------------------------------------------------------------------------
\* Indices stay inside the ring, a payload is in hand exactly during a push,
\* and neither thread has seen an index the other has not reached.
TypeOK ==
    /\ buffer \in [Slots -> Payload \cup {Nothing}]
    /\ {head, tail, headSeen, tailSeen} \subseteq Slots
    /\ producer \in {"idle", "check", "write", "publish"}
    /\ consumer \in {"idle", "check", "read", "advance"}
    /\ item \in Payload \cup {Nothing}
    /\ (item = Nothing) = (producer = "idle")
    /\ latest \in Payload \cup {Nothing}

\* The slot the producer fills and the slot the consumer copies are never the
\* same one: push and pop of a trivially copyable payload do not race, however
\* stale the index each thread works with.
NoSlotShared ==
    producer \in {"write", "publish"} /\ consumer \in {"read", "advance"}
        => head # tail

\* The payloads accepted and not yet copied out, oldest first.  The slot of a
\* copied payload is released one step later.
First == IF consumer = "advance" THEN Succ(head) ELSE head
Waiting == [k \in 1 .. Distance(First, tail) |-> buffer[Nth(First, k - 1)]]

\* The ring buffer implements a FIFO of Capacity - 1 payloads: nothing is
\* lost once push returned true, nothing is duplicated, torn or reordered.
Fifo == INSTANCE BoundedFifo
    WITH Limit <- Capacity - 1, queue <- Waiting,
         offer <- item, delivered <- latest
ImplementsFifo == Fifo!Spec

\* Every accepted payload reaches the modulator while the engine keeps
\* stepping, whatever the producer does and however late indices are seen.
EventuallyDelivered ==
    \A p \in Payload :
        (\E k \in DOMAIN Waiting : Waiting[k] = p) ~> (latest = p)

=============================================================================
