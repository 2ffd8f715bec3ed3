---------------------------- MODULE BoundedFifo ----------------------------
(***************************************************************************)
(* What the telemetry queue promises its two threads: payloads come out in *)
(* the order they were accepted, each once and unchanged, and never more   *)
(* than Limit of them are waiting.  An offer may be refused.               *)
(***************************************************************************)
EXTENDS Naturals, Sequences

CONSTANTS
    Limit,       \* payloads that can wait
    Payload,     \* what is passed
    Nothing      \* no offer pending, nothing delivered yet

VARIABLES
    queue,       \* accepted and not delivered, oldest first
    offer,       \* the payload the producer is offering
    delivered    \* the payload delivered last

fifo == <<queue, offer, delivered>>

Init == queue = <<>> /\ offer = Nothing /\ delivered = Nothing

Offer(p) ==
    /\ offer = Nothing
    /\ offer' = p
    /\ UNCHANGED <<queue, delivered>>

Refuse ==
    /\ offer' = Nothing
    /\ UNCHANGED <<queue, delivered>>

Accept ==
    /\ offer # Nothing
    /\ Len(queue) < Limit
    /\ queue' = Append(queue, offer)
    /\ offer' = Nothing
    /\ UNCHANGED delivered

Deliver ==
    /\ queue # <<>>
    /\ delivered' = Head(queue)
    /\ queue' = Tail(queue)
    /\ UNCHANGED offer

Next == (\E p \in Payload : Offer(p)) \/ Refuse \/ Accept \/ Deliver

Spec == Init /\ [][Next]_fifo
=============================================================================
