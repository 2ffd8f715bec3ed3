-------------------------- MODULE WnnBridgeProofs --------------------------
(***************************************************************************)
(* What holds of the ring for every capacity and every set of payloads:    *)
(* indices stay in the ring and producer and consumer never touch the same *)
(* slot, however stale the index each of them works with, and the ring is  *)
(* a FIFO queue that loses, repeats and reorders nothing.                  *)
(***************************************************************************)
EXTENDS WnnBridge, SequenceTheorems, TLAPS

USE BridgeAssumption

\* Walking round the ring stays in the ring.
LEMMA SuccInSlots ==
    ASSUME NEW i \in Slots
    PROVE  Succ(i) \in Slots
  BY DEF Succ, Slots

\* Distances count the steps from one slot to the other.
LEMMA DistanceRange ==
    ASSUME NEW i \in Slots, NEW j \in Slots
    PROVE  /\ Distance(i, j) \in Slots
           /\ Distance(i, j) = 0 <=> i = j
  BY DEF Distance, Slots

\* A stale index lies on the way from the one last seen to the current one.
LEMMA ViewBetween ==
    ASSUME NEW seen \in Slots, NEW current \in Slots, NEW i \in Views(seen, current)
    PROVE  /\ i \in Slots
           /\ Distance(seen, i) + Distance(i, current) = Distance(seen, current)
  <1>1. PICK k \in 0 .. Distance(seen, current) : i = Nth(seen, k)
    BY DEF Views
  <1>2. Distance(seen, current) \in Slots
    BY DistanceRange
  <1>. QED
    BY <1>1, <1>2 DEF Nth, Distance, Slots

\* The storage order of the indices: head as the producer knows it, head, tail as
\* the consumer knows it, tail.
Ordered ==
    /\ Distance(headSeen, head) + Distance(head, tail) = Distance(headSeen, tail)
    /\ Distance(head, tailSeen) + Distance(tailSeen, tail) = Distance(head, tail)

\* Between its check and its store each thread relies on what the check found.
RoomForPush == producer \in {"write", "publish"} => Succ(tail) # headSeen
ItemForPop == consumer \in {"read", "advance"} => head # tailSeen

\* What is about to be published has been written.
Written == producer = "publish" => buffer[tail] = item

IInv == TypeOK /\ Ordered /\ RoomForPush /\ ItemForPop /\ Written

LEMMA InitIInv == Init => IInv
  <1>. SUFFICES ASSUME Init PROVE IInv
    OBVIOUS
  <1>1. 0 \in Slots
    BY DEF Slots
  <1>2. TypeOK
    BY <1>1 DEF Init, TypeOK
  <1>3. Ordered
    BY DEF Init, Ordered, Distance
  <1>. QED
    BY <1>2, <1>3 DEF Init, IInv, RoomForPush, ItemForPop, Written

\* The producer's steps: its view of head moves on, then tail does.
LEMMA PushIInv == IInv /\ Push => IInv'
  <1>. SUFFICES ASSUME IInv, Push PROVE IInv'
    OBVIOUS
  <1>. USE DEF IInv
  <1>1. /\ head \in Slots /\ tail \in Slots /\ headSeen \in Slots /\ tailSeen \in Slots
    BY DEF TypeOK
  <1>2. CASE \E p \in Payload : BeginPush(p)
    BY <1>2 DEF BeginPush, TypeOK, Ordered, RoomForPush, ItemForPop, Written
  <1>3. CASE PushRefused
    <2>1. PICK h \in Views(headSeen, head) : headSeen' = h
      BY <1>3 DEF PushRefused
    <2>2. /\ h \in Slots
          /\ Distance(headSeen, h) + Distance(h, head) = Distance(headSeen, head)
      BY <1>1, <2>1, ViewBetween
    <2>3. TypeOK'
      BY <1>3, <2>1, <2>2 DEF PushRefused, TypeOK
    <2>4. Ordered'
      BY <1>1, <1>3, <2>1, <2>2 DEF PushRefused, Ordered, Distance, Slots
    <2>. QED
      BY <1>3, <2>3, <2>4 DEF PushRefused, RoomForPush, ItemForPop, Written
  <1>4. CASE PushAllowed
    <2>1. PICK h \in Views(headSeen, head) : headSeen' = h /\ Succ(tail) # h
      BY <1>4 DEF PushAllowed
    <2>2. /\ h \in Slots
          /\ Distance(headSeen, h) + Distance(h, head) = Distance(headSeen, head)
      BY <1>1, <2>1, ViewBetween
    <2>3. TypeOK'
      BY <1>4, <2>1, <2>2 DEF PushAllowed, TypeOK
    <2>4. Ordered'
      BY <1>1, <1>4, <2>1, <2>2 DEF PushAllowed, Ordered, Distance, Slots
    <2>. QED
      BY <1>4, <2>1, <2>3, <2>4 DEF PushAllowed, RoomForPush, ItemForPop, Written
  <1>5. CASE PushWrite
    BY <1>1, <1>5 DEF PushWrite, TypeOK, Ordered, RoomForPush, ItemForPop, Written
  <1>6. CASE PushPublish
    <2>1. Succ(tail) # headSeen /\ Succ(tail) \in Slots
      BY <1>1, <1>6, SuccInSlots DEF PushPublish, RoomForPush
    <2>2. TypeOK'
      BY <1>6, <2>1 DEF PushPublish, TypeOK
    <2>3. Ordered'
      BY <1>1, <1>6, <2>1 DEF PushPublish, Ordered, Distance, Succ, Slots
    <2>. QED
      BY <1>6, <2>2, <2>3 DEF PushPublish, RoomForPush, ItemForPop, Written
  <1>. QED
    BY <1>2, <1>3, <1>4, <1>5, <1>6 DEF Push

\* The consumer's steps: its view of tail moves on, then head does.
LEMMA PopIInv == IInv /\ Pop => IInv'
  <1>. SUFFICES ASSUME IInv, Pop PROVE IInv'
    OBVIOUS
  <1>. USE DEF IInv
  <1>1. /\ head \in Slots /\ tail \in Slots /\ headSeen \in Slots /\ tailSeen \in Slots
    BY DEF TypeOK
  <1>2. CASE BeginPop
    BY <1>2 DEF BeginPop, TypeOK, Ordered, RoomForPush, ItemForPop, Written
  <1>3. CASE PopRefused
    <2>1. Distance(tailSeen, head) + Distance(head, tail) = Distance(tailSeen, tail)
      BY <1>1, <1>3, ViewBetween DEF PopRefused
    <2>2. TypeOK'
      BY <1>3 DEF PopRefused, TypeOK
    <2>3. Ordered'
      BY <1>1, <1>3, <2>1 DEF PopRefused, Ordered, Distance, Slots
    <2>. QED
      BY <1>3, <2>2, <2>3 DEF PopRefused, RoomForPush, ItemForPop, Written
  <1>4. CASE PopAllowed
    <2>1. PICK t \in Views(tailSeen, tail) : tailSeen' = t /\ t # head
      BY <1>4 DEF PopAllowed
    <2>2. /\ t \in Slots
          /\ Distance(tailSeen, t) + Distance(t, tail) = Distance(tailSeen, tail)
      BY <1>1, <2>1, ViewBetween
    <2>3. TypeOK'
      BY <1>4, <2>1, <2>2 DEF PopAllowed, TypeOK
    <2>4. Ordered'
      BY <1>1, <1>4, <2>1, <2>2 DEF PopAllowed, Ordered, Distance, Slots
    <2>. QED
      BY <1>4, <2>1, <2>3, <2>4 DEF PopAllowed, RoomForPush, ItemForPop, Written
  <1>5. CASE PopRead
    <2>1. buffer[head] \in Payload \cup {Nothing}
      BY <1>1 DEF TypeOK
    <2>. QED
      BY <1>5, <2>1 DEF PopRead, TypeOK, Ordered, RoomForPush, ItemForPop, Written
  <1>6. CASE PopAdvance
    <2>1. head # tailSeen /\ Succ(head) \in Slots
      BY <1>1, <1>6, SuccInSlots DEF PopAdvance, ItemForPop
    <2>2. TypeOK'
      BY <1>6, <2>1 DEF PopAdvance, TypeOK
    <2>3. Ordered'
      BY <1>1, <1>6, <2>1 DEF PopAdvance, Ordered, Distance, Succ, Slots
    <2>. QED
      BY <1>6, <2>2, <2>3 DEF PopAdvance, RoomForPush, ItemForPop, Written
  <1>. QED
    BY <1>2, <1>3, <1>4, <1>5, <1>6 DEF Pop

LEMMA StutterIInv == IInv /\ UNCHANGED vars => IInv'
  BY DEF IInv, vars, TypeOK, Ordered, RoomForPush, ItemForPop, Written

LEMMA SpecIInv == Spec => []IInv
  <1>1. IInv /\ [Next]_vars => IInv'
    BY PushIInv, PopIInv, StutterIInv DEF Next
  <1>. QED
    BY <1>1, InitIInv, PTL DEF Spec

\* Every index and payload the bridge holds is one the code can hold.
THEOREM TypeCorrect == Spec => []TypeOK
  <1>1. IInv => TypeOK
    BY DEF IInv
  <1>. QED
    BY <1>1, SpecIInv, PTL

\* Producer and consumer never access the same slot at the same time, whatever
\* the capacity and however late each sees the other's index.
THEOREM SlotsNotShared == Spec => []NoSlotShared
  <1>1. IInv => NoSlotShared
    <2>. SUFFICES ASSUME IInv PROVE NoSlotShared
      OBVIOUS
    <2>1. /\ head \in Slots /\ tail \in Slots /\ tailSeen \in Slots
      BY DEF IInv, TypeOK
    <2>. QED
      BY <2>1, DistanceRange DEF IInv, NoSlotShared, ItemForPop, Ordered, Distance, Slots
  <1>. QED
    BY <1>1, SpecIInv, PTL
-----------------------------------------------------------------------------
(***************************************************************************)
(* The ring implements the queue.                                          *)
(***************************************************************************)
LEMMA FirstInSlots ==
    ASSUME IInv
    PROVE  /\ First \in Slots /\ tail \in Slots
           /\ Distance(First, tail) \in Slots
  BY SuccInSlots, DistanceRange DEF IInv, TypeOK, First

\* The slots from one index up to another are in the ring and are not the other,
\* and one step further is the other.
LEMMA NthBefore ==
    ASSUME NEW i \in Slots, NEW j \in Slots
    PROVE  /\ \A k \in 0 .. Distance(i, j) - 1 : Nth(i, k) \in Slots /\ Nth(i, k) # j
           /\ Nth(i, Distance(i, j)) = j
  BY DEF Nth, Distance, Slots

Contents == Payload \cup {Nothing}

LEMMA WaitingIsSeq ==
    ASSUME IInv
    PROVE  /\ Waiting \in Seq(Contents)
           /\ Len(Waiting) = Distance(First, tail)
           /\ \A k \in 1 .. Distance(First, tail) : Waiting[k] = buffer[Nth(First, k - 1)]
  <1> DEFINE n == Distance(First, tail)
  <1>1. n \in Nat
    BY FirstInSlots DEF Slots
  <1>2. \A k \in 1 .. n : buffer[Nth(First, k - 1)] \in Contents
    <2>1. \A k \in 1 .. n : Nth(First, k - 1) \in Slots
      BY <1>1, FirstInSlots, NthBefore
    <2>. QED
      BY <2>1 DEF IInv, TypeOK, Contents
  <1>3. Waiting = [k \in 1 .. n |-> buffer[Nth(First, k - 1)]]
    BY DEF Waiting
  <1>. HIDE DEF n
  <1>4. Waiting \in [1 .. n -> Contents]
    BY <1>2, <1>3
  <1>5. Waiting \in Seq(Contents) /\ Len(Waiting) = n
    BY <1>1, <1>4
  <1>. QED
    BY <1>3, <1>5 DEF n

\* A store that becomes visible appends what the producer holds.
LEMMA PublishAccepts ==
    ASSUME IInv, IInv', PushPublish
    PROVE  Fifo!Accept
  <1>1. /\ head' = head /\ consumer' = consumer /\ buffer' = buffer /\ latest' = latest
        /\ producer = "publish" /\ tail' = Succ(tail) /\ item' = Nothing
    BY DEF PushPublish
  <1>2. /\ First \in Slots /\ tail \in Slots /\ head \in Slots
        /\ headSeen \in Slots /\ tailSeen \in Slots
    BY FirstInSlots DEF IInv, TypeOK
  <1>3. First' = First
    BY <1>1 DEF First
  <1>4. Distance(First, tail) < Capacity - 1
    BY <1>1, <1>2 DEF IInv, Ordered, RoomForPush, ItemForPop, First, Distance, Succ, Slots
  <1>5. Distance(First, Succ(tail)) = Distance(First, tail) + 1
    BY <1>2, <1>4 DEF Distance, Succ, Slots
  <1>6. item \in Contents /\ item # Nothing /\ buffer[tail] = item
    BY <1>1 DEF IInv, TypeOK, Written, Contents
  <1>7. /\ Waiting \in Seq(Contents)
        /\ Len(Waiting) = Distance(First, tail)
        /\ \A k \in 1 .. Distance(First, tail) : Waiting[k] = buffer[Nth(First, k - 1)]
    BY WaitingIsSeq
  <1>8. /\ Waiting' \in Seq(Contents)
        /\ Len(Waiting') = Distance(First, tail) + 1
        /\ \A k \in 1 .. Distance(First, tail) + 1 :
              Waiting'[k] = buffer[Nth(First, k - 1)]
    <2>1. Waiting' = [k \in 1 .. Distance(First, tail) + 1 |-> buffer[Nth(First, k - 1)]]
      BY <1>1, <1>3, <1>5 DEF Waiting
    <2>2. \A k \in 1 .. Distance(First, tail) + 1 : Nth(First, k - 1) \in Slots
      <3>1. Distance(First, tail) \in Nat
        BY <1>2, DistanceRange DEF Slots
      <3>2. \A k \in 0 .. Distance(First, tail) - 1 : Nth(First, k) \in Slots
        BY <1>2, NthBefore
      <3>3. Nth(First, Distance(First, tail)) \in Slots
        BY <1>2, NthBefore
      <3>4. \A k \in 0 .. Distance(First, tail) : Nth(First, k) \in Slots
        BY <3>1, <3>2, <3>3
      <3>. QED
        BY <3>1, <3>4
    <2>3. \A k \in 1 .. Distance(First, tail) + 1 : buffer[Nth(First, k - 1)] \in Contents
      BY <2>2 DEF IInv, TypeOK, Contents
    <2>4. Distance(First, tail) + 1 \in Nat
      BY <1>2, DistanceRange DEF Slots
    <2>. QED
      BY <2>1, <2>3, <2>4
  <1>9. Waiting' = Append(Waiting, item)
    <2>1. /\ Append(Waiting, item) \in Seq(Contents)
          /\ Len(Append(Waiting, item)) = Distance(First, tail) + 1
          /\ \A k \in 1 .. Distance(First, tail) : Append(Waiting, item)[k] = Waiting[k]
          /\ Append(Waiting, item)[Distance(First, tail) + 1] = item
      BY <1>6, <1>7, AppendProperties
    <2>2. Distance(First, tail) \in Nat
      BY <1>2, DistanceRange DEF Slots
    <2>3. Waiting'[Distance(First, tail) + 1] = item
      BY <1>2, <1>6, <1>8, <2>2, NthBefore
    <2>4. \A k \in 1 .. Distance(First, tail) + 1 : Waiting'[k] = Append(Waiting, item)[k]
      BY <1>7, <1>8, <2>1, <2>2, <2>3
    <2>. QED
      BY <1>8, <2>1, <2>4, SeqEqual
  <1>. QED
    BY <1>1, <1>4, <1>6, <1>7, <1>9 DEF Fifo!Accept

\* A copied payload is the oldest one, and is no longer waiting.
LEMMA ReadDelivers ==
    ASSUME IInv, IInv', PopRead
    PROVE  Fifo!Deliver
  <1>1. /\ head' = head /\ tail' = tail /\ buffer' = buffer /\ item' = item
        /\ consumer = "read" /\ consumer' = "advance" /\ latest' = buffer[head]
    BY DEF PopRead
  <1>2. /\ head \in Slots /\ tail \in Slots /\ tailSeen \in Slots
        /\ First = head /\ First' = Succ(head) /\ Succ(head) \in Slots
    BY <1>1, SuccInSlots DEF IInv, TypeOK, First
  <1>3. head # tail
    BY <1>1, <1>2, DistanceRange DEF IInv, ItemForPop, Ordered, Distance, Slots
  <1>4. /\ Distance(head, tail) \in Nat /\ Distance(head, tail) > 0
        /\ Distance(Succ(head), tail) = Distance(head, tail) - 1
        /\ \A k \in 1 .. Distance(head, tail) - 1 : Nth(Succ(head), k - 1) = Nth(head, k)
        /\ Nth(head, 0) = head
    BY <1>2, <1>3 DEF Distance, Succ, Nth, Slots
  <1>5. /\ Waiting \in Seq(Contents)
        /\ Len(Waiting) = Distance(head, tail)
        /\ \A k \in 1 .. Distance(head, tail) : Waiting[k] = buffer[Nth(head, k - 1)]
    BY <1>2, WaitingIsSeq
  <1>6. /\ Waiting' \in Seq(Contents)
        /\ Len(Waiting') = Distance(head, tail) - 1
        /\ \A k \in 1 .. Distance(head, tail) - 1 : Waiting'[k] = buffer[Nth(head, k)]
    <2>1. Waiting' = [k \in 1 .. Distance(Succ(head), tail) |-> buffer[Nth(Succ(head), k - 1)]]
      BY <1>1, <1>2 DEF Waiting
    <2>2. \A k \in 1 .. Distance(Succ(head), tail) : Nth(Succ(head), k - 1) \in Slots
      BY <1>2, <1>4, NthBefore
    <2>3. \A k \in 1 .. Distance(Succ(head), tail) : buffer[Nth(Succ(head), k - 1)] \in Contents
      BY <2>2 DEF IInv, TypeOK, Contents
    <2>. QED
      BY <1>4, <2>1, <2>3
  <1>7. Waiting # <<>>
    BY <1>4, <1>5
  <1>8. Head(Waiting) = buffer[head]
    BY <1>4, <1>5, <1>7
  <1>9. Waiting' = Tail(Waiting)
    <2>1. /\ Tail(Waiting) \in Seq(Contents)
          /\ Len(Tail(Waiting)) = Distance(head, tail) - 1
          /\ \A k \in 1 .. Distance(head, tail) - 1 : Tail(Waiting)[k] = Waiting[k + 1]
      BY <1>5, <1>7, HeadTailProperties
    <2>2. \A k \in 1 .. Distance(head, tail) - 1 : Waiting[k + 1] = buffer[Nth(head, k)]
      BY <1>4, <1>5
    <2>. QED
      BY <1>6, <2>1, <2>2, SeqEqual
  <1>. QED
    BY <1>1, <1>7, <1>8, <1>9 DEF Fifo!Deliver

\* No other step changes what is waiting.
LEMMA WaitingKept ==
    ASSUME IInv,
           head' = head /\ tail' = tail /\ buffer' = buffer,
           (consumer = "advance") = (consumer' = "advance")
    PROVE  Waiting' = Waiting
  BY DEF Waiting, First

LEMMA WriteKeepsWaiting ==
    ASSUME IInv, PushWrite
    PROVE  Waiting' = Waiting
  <1>1. /\ buffer' = [buffer EXCEPT ![tail] = item]
        /\ head' = head /\ tail' = tail /\ consumer' = consumer
    BY DEF PushWrite
  <1>2. First' = First
    BY <1>1 DEF First
  <1>3. \A k \in 1 .. Distance(First, tail) :
            Nth(First, k - 1) \in Slots /\ Nth(First, k - 1) # tail
    BY FirstInSlots, NthBefore DEF Slots
  <1>4. \A k \in 1 .. Distance(First, tail) :
            buffer'[Nth(First, k - 1)] = buffer[Nth(First, k - 1)]
    BY <1>1, <1>3 DEF IInv, TypeOK
  <1>. QED
    BY <1>1, <1>2, <1>4 DEF Waiting

LEMMA AdvanceKeepsWaiting ==
    ASSUME IInv, PopAdvance
    PROVE  Waiting' = Waiting
  <1>1. /\ head' = Succ(head) /\ tail' = tail /\ buffer' = buffer
        /\ consumer = "advance" /\ consumer' = "idle"
    BY DEF PopAdvance
  <1>2. First' = First
    BY <1>1 DEF First
  <1>. QED
    BY <1>1, <1>2 DEF Waiting

LEMMA StepRefines == IInv /\ IInv' /\ [Next]_vars => [Fifo!Next]_Fifo!fifo
  <1>. SUFFICES ASSUME IInv, IInv', [Next]_vars PROVE [Fifo!Next]_Fifo!fifo
    OBVIOUS
  <1>. USE DEF Fifo!fifo, Fifo!Next
  <1>1. ASSUME NEW p \in Payload, BeginPush(p) PROVE Fifo!Offer(p)
    BY <1>1, WaitingKept DEF BeginPush, IInv, TypeOK, Fifo!Offer
  <1>2. CASE PushRefused
    BY <1>2, WaitingKept DEF PushRefused, Fifo!Refuse
  <1>3. CASE PushAllowed
    BY <1>3, WaitingKept DEF PushAllowed
  <1>4. CASE PushWrite
    BY <1>4, WriteKeepsWaiting DEF PushWrite
  <1>5. CASE PushPublish
    BY <1>5, PublishAccepts
  <1>6. CASE BeginPop
    BY <1>6, WaitingKept DEF BeginPop
  <1>7. CASE PopRefused
    BY <1>7, WaitingKept DEF PopRefused
  <1>8. CASE PopAllowed
    BY <1>8, WaitingKept DEF PopAllowed
  <1>9. CASE PopRead
    BY <1>9, ReadDelivers
  <1>10. CASE PopAdvance
    BY <1>10, AdvanceKeepsWaiting DEF PopAdvance
  <1>11. CASE UNCHANGED vars
    BY <1>11, WaitingKept DEF vars
  <1>. QED
    BY <1>1, <1>2, <1>3, <1>4, <1>5, <1>6, <1>7, <1>8, <1>9, <1>10, <1>11
       DEF Next, Push, Pop

LEMMA InitRefines == Init => Fifo!Init
  <1>. SUFFICES ASSUME Init PROVE Fifo!Init
    OBVIOUS
  <1>1. Distance(First, tail) = 0
    BY DEF Init, First, Distance
  <1>2. Waiting = <<>>
    BY <1>1 DEF Waiting
  <1>. QED
    BY <1>2 DEF Init, Fifo!Init

\* The ring implements a FIFO queue of one payload less than its capacity:
\* whatever was accepted is delivered at most once, whole and in order.
THEOREM RingImplementsFifo == Spec => ImplementsFifo
  <1>1. IInv /\ IInv' /\ [Next]_vars => [Fifo!Next]_Fifo!fifo
    BY StepRefines
  <1>. QED
    BY <1>1, InitRefines, SpecIInv, PTL DEF Spec, ImplementsFifo, Fifo!Spec
=============================================================================
