--------------------------- MODULE SpscRefinement ---------------------------
(***************************************************************************)
(* Spsc implements BoundedQueue, for every capacity, every position width  *)
(* and every number of items.                                              *)
(*                                                                         *)
(* Each step of Spsc is one step of the bounded queue or leaves it alone:  *)
(* the room check is Hold, the store of tail is Fill, the read of the slot *)
(* is Take.  What makes the steps legal is the invariant of SpscInvariant: *)
(* room counted against a stale head is room, the slot at head still holds *)
(* its item, and a receive that ends has seen the last one.                *)
(***************************************************************************)
EXTENDS SpscProofs, SequenceTheorems

USE DEF positionVars, liveVars, producerVars, consumerVars, queueVars, parkedVars,
        doorbellVars, ProducerGoes, ConsumerGoes, Returns, RingMoves, RestMoves, EnterSignal,
        ProducerIdle

\* Nothing is disposed of before the teardown.
Untorn == ppc # "torn" => disposed = {}

LEMMA UntornInvariance == Spec => []Untorn
  <1>1. Init => Untorn
    BY DEF Init, Untorn
  <1>2. Untorn /\ [Next]_vars => Untorn'
    <2> SUFFICES ASSUME Untorn, [Next]_vars PROVE Untorn'
      OBVIOUS
    <2> USE DEF Untorn
    <2>1. CASE UNCHANGED vars
      BY <2>1 DEF vars
    <2>2. CASE UserSteps
      BY <2>2 DEF UserSteps, PushLoad, Reserve, SendLive, SendDisconnected,
         DropReservation, DropProducer, StartCall, DropConsumer
    <2>3. CASE ProducerSteps
      BY <2>3 DEF ProducerSteps, PushRefused, PushLive, PushPublish, Publish,
         SendPublish, SendDone, ProducerSignals
    <2>4. CASE ConsumerSteps
      BY <2>4, TakeFrame, ArmFrame, WaitFrame DEF ConsumerSteps
    <2>5. CASE WindowsFails \/ ProducerFlushes \/ ConsumerFlushes
      BY <2>5, FailFrame, ProducerFlushFrame, ConsumerFlushFrame
    <2>6. CASE Teardown
      BY <2>6 DEF Teardown
    <2> QED BY <2>1, <2>2, <2>3, <2>4, <2>5, <2>6 DEF Next
  <1> QED BY <1>1, <1>2, PTL DEF Spec

-----------------------------------------------------------------------------
(* The mapped sequence of items.                                           *)

LEMMA WaitingShape ==
  ASSUME IInv
  PROVE  /\ WaitingItems \in Seq(Nat)
         /\ Len(WaitingItems) = tail - head
         /\ \A i \in 1 .. tail - head : WaitingItems[i] = head + i
  <1>1. head \in Nat /\ tail \in Nat /\ head <= tail
    BY BoundAssumption DEF IInv, TypeOK, BufferInv
  <1>2. tail - head \in Nat
    BY <1>1
  <1>3. WaitingItems \in [1 .. tail - head -> Nat]
    BY <1>1 DEF WaitingItems
  <1>4. WaitingItems \in Seq(Nat)
    BY <1>2, <1>3
  <1>5. Len(WaitingItems) = tail - head
    BY <1>2, <1>3, <1>4
  <1> QED BY <1>4, <1>5 DEF WaitingItems

\* What a step must leave alone for the bounded queue to stutter.
Still == UNCHANGED <<tail, head, ppc, reserved, received, producerLive, call, result,
                     disposed>>

LEMMA StillStutters == Still => UNCHANGED Promise!queue
  BY DEF Still, Promise!queue, WaitingItems, HeldSlots, Withheld, EndTold

(* A store of tail appends the next item, whichever call makes it.          *)
LEMMA PublishFills ==
  ASSUME IInv, Publish("push", "idle") \/ Publish("send", "sent")
  PROVE  Promise!Fill(tail + 1) /\ tail + 1 \in Items
  <1>1. /\ head \in Nat /\ tail \in Nat /\ head <= tail /\ tail < MaxItems
        /\ MaxItems \in Nat
    BY BoundAssumption DEF IInv, TypeOK, BufferInv, ProducerInv, Publish
  <1>2. /\ tail' = tail + 1
        /\ UNCHANGED <<head, received, producerLive, call, result, disposed, reserved>>
    BY DEF Publish
  <1>3. producerLive
    BY DEF IInv, ProducerInv, Publish
  <1>4. HeldSlots > 0 /\ HeldSlots' = HeldSlots - 1
    <2>1. reserved \in Nat /\ (ppc = "send" => reserved > 0)
      BY RingAssumption DEF IInv, TypeOK, ProducerInv
    <2> QED BY <1>2, <2>1 DEF Publish, HeldSlots, Withheld
  <1>5. WaitingItems' = Append(WaitingItems, tail + 1)
    <2>1. WaitingItems' = [i \in 1 .. (tail + 1) - head |-> head + i]
      BY <1>2 DEF WaitingItems
    <2>2. Append(WaitingItems, tail + 1) =
            [i \in 1 .. Len(WaitingItems) + 1 |->
               IF i = Len(WaitingItems) + 1 THEN tail + 1 ELSE WaitingItems[i]]
      BY WaitingShape, AppendIsConcat, AppendProperties
    <2> QED BY <1>1, <2>1, <2>2, WaitingShape
  <1>6. EndTold' = EndTold
    BY <1>2 DEF EndTold
  <1> QED BY <1>1, <1>2, <1>3, <1>4, <1>5, <1>6 DEF Promise!Fill, Items

(* The read of the slot at head takes the oldest item.                      *)
LEMMA ReadTakes == IInv /\ TakeRead => Promise!Take
  <1> SUFFICES ASSUME IInv, TakeRead PROVE Promise!Take
    OBVIOUS
  <1>1. head \in Nat /\ tail \in Nat /\ head < tail
    BY BoundAssumption DEF IInv, TypeOK, BufferInv, ConsumerInv, TakeRead
  <1>2. slots[Index(head)] = head + 1
    BY <1>1 DEF IInv, FifoInv
  <1>3. /\ received' = Append(received, head + 1) /\ head' = head + 1
        /\ UNCHANGED <<tail, ppc, reserved, producerLive, disposed>>
    BY <1>2 DEF TakeRead
  <1>4. EndTold = FALSE /\ EndTold' = FALSE
    BY <1>1 DEF TakeRead, EndTold, IInv, RecvEndIsFinal
  <1>5. WaitingItems # << >> /\ Head(WaitingItems) = head + 1
    BY <1>1, WaitingShape
  <1>6. WaitingItems' = Tail(WaitingItems)
    <2>1. WaitingItems' = [i \in 1 .. tail - (head + 1) |-> (head + 1) + i]
      BY <1>3 DEF WaitingItems
    <2>2. WaitingItems' \in Seq(Nat) /\ Len(WaitingItems') = tail - (head + 1)
      <3>1. tail - (head + 1) \in Nat
        BY <1>1
      <3>2. WaitingItems' \in [1 .. tail - (head + 1) -> Nat]
        BY <1>1, <2>1
      <3> QED BY <3>1, <3>2
    <2>3. /\ Tail(WaitingItems) \in Seq(Nat)
          /\ Len(Tail(WaitingItems)) = tail - (head + 1)
          /\ \A i \in 1 .. tail - (head + 1) : Tail(WaitingItems)[i] = WaitingItems[i + 1]
      BY <1>1, <1>5, WaitingShape, HeadTailProperties
    <2>4. \A i \in 1 .. tail - (head + 1) : WaitingItems[i + 1] = WaitingItems'[i]
      BY <1>1, <2>1, WaitingShape
    <2> HIDE DEF WaitingItems
    <2> QED BY <2>2, <2>3, <2>4, SeqEqual
  <1>7. HeldSlots' = HeldSlots
    BY <1>3 DEF HeldSlots, Withheld
  <1> QED BY <1>3, <1>4, <1>5, <1>6, <1>7 DEF Promise!Take

-----------------------------------------------------------------------------
(* Steps that move one of the bounded queue's other variables.             *)

\* The items, what was taken, the end and the teardown stay as they are.
ItemsStill == UNCHANGED <<tail, head, received, producerLive, call, result, disposed>>

LEMMA ItemsStillFrame ==
  ItemsStill => UNCHANGED <<WaitingItems, received, producerLive, EndTold, disposed>>
  BY DEF ItemsStill, WaitingItems, EndTold

(* A room check that succeeds holds a slot nobody else has, although the head  *)
(* it was made against may be stale.                                           *)
LEMMA RoomCheckHolds ==
  ASSUME IInv, HasRoom, ppc = "idle", ItemsStill,
         \/ ppc' = "room" /\ UNCHANGED reserved
         \/ reserved' = reserved + 1 /\ UNCHANGED ppc
  PROVE  Promise!Hold
  <1>1. /\ head \in Nat /\ tail \in Nat /\ headMem \in Nat /\ headMem <= head
        /\ reserved \in Nat /\ Capacity \in Nat
    BY BoundAssumption, RingAssumption DEF IInv, TypeOK, BufferInv
  <1>2. (tail - headMem) + reserved < Capacity
    BY RoomExact DEF HasRoom
  <1>3. HeldSlots = reserved /\ HeldSlots' = HeldSlots + 1
    BY <1>1 DEF HeldSlots, Withheld
  <1>4. Len(WaitingItems) + HeldSlots < Capacity
    BY <1>1, <1>2, <1>3, WaitingShape
  <1>5. producerLive
    BY DEF IInv, ProducerInv
  <1> QED BY <1>3, <1>4, <1>5, ItemsStillFrame DEF Promise!Hold, Promise!Room

(* A push that finds the consumer gone, and a reservation given up, let go.    *)
LEMMA GivingUpLetsGo ==
  ASSUME IInv, ItemsStill,
         \/ ppc = "room" /\ ppc' = "idle" /\ UNCHANGED reserved
         \/ ppc = "idle" /\ reserved > 0 /\ reserved' = reserved - 1 /\ UNCHANGED ppc
  PROVE  Promise!LetGo
  <1>1. reserved \in Nat
    BY RingAssumption DEF IInv, TypeOK
  <1>2. HeldSlots > 0 /\ HeldSlots' = HeldSlots - 1
    BY <1>1 DEF HeldSlots, Withheld
  <1> QED BY <1>2, ItemsStillFrame DEF Promise!LetGo

(* Moving on with the same slots held is no step of the bounded queue.         *)
LEMMA HoldingOnStutters ==
  ASSUME IInv, ItemsStill,
         \/ ppc \in {"idle", "full", "send"} /\ ppc' \in {"idle", "full", "send"}
            /\ UNCHANGED reserved
         \/ ppc = "room" /\ ppc' = "push" /\ UNCHANGED reserved
         \/ ppc = "sent" /\ ppc' = "idle" /\ reserved' = reserved - 1
  PROVE  UNCHANGED Promise!queue
  <1>1. reserved \in Nat
    BY RingAssumption DEF IInv, TypeOK
  <1>2. UNCHANGED HeldSlots
    BY <1>1 DEF HeldSlots, Withheld
  <1> QED BY <1>2, ItemsStillFrame DEF Promise!queue

(* Dropping the producer closes the queue: a reservation borrows it, so nothing  *)
(* is held.                                                                      *)
LEMMA DropCloses == IInv /\ DropProducer => Promise!Close
  <1> SUFFICES ASSUME IInv, DropProducer PROVE Promise!Close
    OBVIOUS
  <1>1. UNCHANGED <<WaitingItems, received, EndTold, disposed>>
    BY DEF DropProducer, WaitingItems, EndTold
  <1>2. HeldSlots = 0 /\ HeldSlots' = 0
    BY DEF DropProducer, HeldSlots, Withheld
  <1>3. producerLive = TRUE /\ producerLive' = FALSE
    BY DEF DropProducer, IInv, TypeOK, ProducerInv
  <1> QED BY <1>1, <1>2, <1>3 DEF Promise!Close

(* What a receiving call reports: the end only when the queue is closed and     *)
(* empty, which RecvEndIsFinal says of the state reached.                       *)
LEMMA ReportTells ==
  ASSUME IInv, RecvEndIsFinal',
         UNCHANGED <<tail, head, ppc, reserved, received, producerLive, disposed>>
  PROVE  [Promise!Next]_(Promise!queue)
  <1>1. UNCHANGED <<WaitingItems, HeldSlots>>
    BY DEF WaitingItems, HeldSlots, Withheld
  <1>2. EndTold \in BOOLEAN /\ EndTold' \in BOOLEAN
    BY DEF EndTold
  <1>3. CASE EndTold' = EndTold
    BY <1>1, <1>3 DEF Promise!queue
  <1>4. CASE EndTold' = FALSE /\ EndTold = TRUE
    BY <1>1, <1>4 DEF Promise!AskAgain, Promise!Next
  <1>5. CASE EndTold' = TRUE /\ EndTold = FALSE
    <2>1. ~producerLive /\ head = tail
      BY <1>5 DEF EndTold, RecvEndIsFinal
    <2>2. WaitingItems = << >>
      <3>1. head \in Nat /\ tail - head = 0
        BY <2>1 DEF IInv, TypeOK
      <3> QED BY <3>1, WaitingShape, EmptySeq
    <2> QED BY <1>1, <1>5, <2>1, <2>2 DEF Promise!TellEnd, Promise!Next
  <1> QED BY <1>2, <1>3, <1>4, <1>5

(* The teardown disposes of exactly what was never taken.                       *)
LEMMA TeardownDisposes == IInv /\ Untorn /\ Teardown => Promise!Dispose
  <1> SUFFICES ASSUME IInv, Untorn, Teardown PROVE Promise!Dispose
    OBVIOUS
  <1>1. head \in Nat /\ tail \in Nat /\ head <= tail
    BY BoundAssumption DEF IInv, TypeOK, BufferInv
  <1>2. ~producerLive /\ disposed = {}
    BY DEF Teardown, Untorn, IInv, ProducerInv
  <1>3. UNCHANGED <<WaitingItems, HeldSlots, received, producerLive, EndTold>>
    BY DEF Teardown, WaitingItems, HeldSlots, Withheld, EndTold
  <1>4. {slots[Index(p)] : p \in head .. tail - 1} =
          {WaitingItems[i] : i \in 1 .. Len(WaitingItems)}
    <2>1. \A p \in head .. tail - 1 : slots[Index(p)] = p + 1
      BY DEF IInv, FifoInv
    <2>2. {slots[Index(p)] : p \in head .. tail - 1} = head + 1 .. tail
      <3>1. \A p \in head .. tail - 1 : slots[Index(p)] \in head + 1 .. tail
        BY <1>1, <2>1
      <3>2. ASSUME NEW n \in head + 1 .. tail
            PROVE  \E p \in head .. tail - 1 : slots[Index(p)] = n
        <4>1. n - 1 \in head .. tail - 1 /\ slots[Index(n - 1)] = (n - 1) + 1
          BY <1>1, <2>1
        <4> QED BY <1>1, <4>1
      <3> QED BY <3>1, <3>2
    <2>3. {WaitingItems[i] : i \in 1 .. Len(WaitingItems)} = head + 1 .. tail
      <3>1. \A i \in 1 .. Len(WaitingItems) : WaitingItems[i] \in head + 1 .. tail
        BY <1>1, WaitingShape
      <3>2. ASSUME NEW n \in head + 1 .. tail
            PROVE  \E i \in 1 .. Len(WaitingItems) : WaitingItems[i] = n
        <4>1. n - head \in 1 .. Len(WaitingItems) /\ WaitingItems[n - head] = n
          BY <1>1, WaitingShape
        <4> QED BY <4>1
      <3> QED BY <3>1, <3>2
    <2> QED BY <2>2, <2>3
  <1>5. disposed' = {WaitingItems[i] : i \in 1 .. Len(WaitingItems)}
    BY <1>4 DEF Teardown
  <1> QED BY <1>2, <1>3, <1>5 DEF Promise!Dispose

-----------------------------------------------------------------------------
LEMMA InitRefines == Init => Promise!Init
  <1> SUFFICES ASSUME Init PROVE Promise!Init
    OBVIOUS
  <1>1. WaitingItems = << >>
    BY EmptySeq DEF Init, WaitingItems
  <1> QED BY <1>1 DEF Init, ParkedInit, Promise!Init, HeldSlots, Withheld, EndTold

(* Every step of Spsc is a step of the bounded queue or none.                   *)
LEMMA StepRefines ==
  ASSUME IInv, Untorn, RecvEndIsFinal', [Next]_vars
  PROVE  [Promise!Next]_(Promise!queue)
  <1>1. CASE UNCHANGED vars
    BY <1>1, StillStutters DEF vars, Still
  <1>2. CASE PushLoad
    <2>1. CASE HasRoom
      BY <1>2, <2>1, RoomCheckHolds DEF PushLoad, ItemsStill, Promise!Next
    <2>2. CASE ~HasRoom
      BY <1>2, <2>2, HoldingOnStutters DEF PushLoad, ItemsStill
    <2> QED BY <2>1, <2>2
  <1>3. CASE Reserve
    BY <1>3, RoomCheckHolds DEF Reserve, ItemsStill, Promise!Next
  <1>4. CASE SendLive \/ PushRefused \/ SendDone
    BY <1>4, HoldingOnStutters DEF SendLive, PushRefused, SendDone, ItemsStill
  <1>5. CASE SendDisconnected \/ DropReservation
    BY <1>5, GivingUpLetsGo DEF SendDisconnected, DropReservation, ItemsStill,
       Promise!Next
  <1>6. CASE DropProducer
    BY <1>6, DropCloses DEF Promise!Next
  <1>7. CASE StartCall \/ DropConsumer \/ ProducerSignals
    BY <1>7, ReportTells DEF StartCall, CallBegins, DropConsumer, ProducerSignals
  <1>8. CASE PushLive
    <2>1. CASE consumerLiveMem
      BY <1>8, <2>1, HoldingOnStutters DEF PushLive, ItemsStill
    <2>2. CASE ~consumerLiveMem
      BY <1>8, <2>2, GivingUpLetsGo DEF PushLive, ItemsStill, Promise!Next
    <2> QED BY <2>1, <2>2
  <1>9. CASE PushPublish \/ SendPublish
    BY <1>9, PublishFills DEF PushPublish, SendPublish, Promise!Next
  <1>10. CASE TakeRead
    BY <1>10, ReadTakes DEF Promise!Next
  <1>11. CASE Looks(Ready, Gone) /\ UNCHANGED queueVars
    BY <1>11, ReportTells
  <1>12. CASE ArmSteps \/ WaitSteps \/ WindowsFails
    BY <1>12, ArmFrame, WaitFrame, FailFrame, ReportTells
  <1>13. CASE ProducerFlushes \/ ConsumerFlushes
    BY <1>13, ProducerFlushFrame, ConsumerFlushFrame, ReportTells
  <1>14. CASE Teardown
    BY <1>14, TeardownDisposes DEF Promise!Next
  <1> QED BY <1>1, <1>2, <1>3, <1>4, <1>5, <1>6, <1>7, <1>8, <1>9, <1>10, <1>11,
             <1>12, <1>13, <1>14
          DEF Next, UserSteps, ProducerSteps, ConsumerSteps, TakeSteps

(* The spsc queue implements the bounded queue: claimed room is room, items come  *)
(* out once each in the order of their publication, the end is reported only     *)
(* when it is final, and the teardown accounts for the rest, at every capacity.   *)
THEOREM Refinement == Spec => ImplementsQueue
  <1>1. IInv => RecvEndIsFinal
    BY DEF IInv
  <1>2. IInv /\ Untorn /\ RecvEndIsFinal' /\ [Next]_vars
          => [Promise!Next]_(Promise!queue)
    BY StepRefines
  <1> QED BY InitRefines, Invariance, UntornInvariance, <1>1, <1>2, PTL
          DEF Spec, ImplementsQueue, Promise!Spec
=============================================================================
