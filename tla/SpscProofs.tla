----------------------------- MODULE SpscProofs -----------------------------
(***************************************************************************)
(* The theorems about Spsc: the invariant of SpscInvariant is preserved by *)
(* every step, and what it implies.  SpscInvariant has the parts about the *)
(* threads, their stores and the doorbell; the parts about the items, the  *)
(* types and teardown are here.                                            *)
(***************************************************************************)
EXTENDS SpscInvariant

(* Tuples and the common shapes of an action.                              *)
USE DEF positionVars, liveVars, producerVars, consumerVars, queueVars, parkedVars,
        doorbellVars, ProducerGoes, ConsumerGoes, Returns, RingMoves, RestMoves, EnterSignal,
        ProducerIdle

(* Publishing writes a slot outside the unread range; taking reads its first.  *)
LEMMA FifoPublish ==
  ASSUME IInv, NEW from \in {"push", "send"}, NEW to, Publish(from, to)
  PROVE  FifoInv'
  <1> Basics /\ tail' = tail + 1 /\ head' = head
    BY BasicTypes DEF Publish
  <1> USE DEF Basics
  <1>1. head \in Nat /\ tail \in Nat /\ Capacity \in Nat \ {0}
    OBVIOUS
  <1>2. tail - head < Capacity
    BY DEF Publish, IInv, RoomInv, ProducerInv, BufferInv
  <1>w. /\ slots' = [slots EXCEPT ![Index(tail)] = tail + 1]
        /\ slots \in [0 .. Capacity - 1 -> Items \cup {NoItem}]
    BY DEF Publish, IInv, TypeOK
  <1>3. ASSUME NEW p \in head .. tail' - 1
        PROVE  slots'[Index(p)] = p + 1
    <2>0. p \in Nat /\ p <= tail
      BY <1>1
    <2>1. Index(tail) \in 0 .. Capacity - 1 /\ Index(p) \in 0 .. Capacity - 1
      BY <1>1, <2>0, IndexExact
    <2>2. CASE p = tail
      BY <2>1, <2>2, <1>w
    <2>3. CASE p # tail
      <3>1. p \in head .. tail - 1 /\ p \in Nat /\ p <= tail /\ tail - p < Capacity
        BY <1>1, <1>2, <2>0, <2>3
      <3>2. Index(p) # Index(tail)
        BY <1>1, <3>1, <2>3, IndexInjective
      <3>3. slots[Index(p)] = p + 1
        BY <3>1 DEF IInv, FifoInv
      <3> QED BY <2>1, <3>2, <3>3, <1>w
    <2> QED BY <2>2, <2>3
  <1> QED BY <1>3 DEF Publish, IInv, FifoInv, ReceivedInOrder

(* The slot read is the oldest unread one, and holds the next item.            *)
LEMMA FifoTake == IInv /\ TakeRead => FifoInv'
  <1> SUFFICES ASSUME IInv, TakeRead PROVE FifoInv'
    OBVIOUS
  <1>1. head \in Nat /\ tail \in Nat /\ head < tail
    BY BasicTypes DEF Basics, TakeRead, IInv, ConsumerInv, BufferInv
  <1>2. slots[Index(head)] = head + 1
    BY <1>1 DEF IInv, FifoInv
  <1>3. received \in Seq(Int) /\ Len(received) = head
    BY DEF IInv, TypeOK, FifoInv, Items, NoItem
  <1>4. /\ received' = Append(received, head + 1)
        /\ head' = head + 1 /\ tail' = tail /\ slots' = slots
    BY <1>2 DEF TakeRead
  <1>5. Len(received') = head + 1 /\ \A i \in 1 .. head + 1 : received'[i] = i
    BY <1>1, <1>3, <1>4 DEF IInv, FifoInv, ReceivedInOrder
  <1>6. \A p \in head + 1 .. tail - 1 : slots[Index(p)] = p + 1
    BY <1>1 DEF IInv, FifoInv
  <1> QED BY <1>1, <1>4, <1>5, <1>6 DEF FifoInv, ReceivedInOrder

(* The queue is first in, first out.                                           *)
LEMMA FifoStep == IInv /\ Next => FifoInv'
  <1> SUFFICES ASSUME IInv, Next PROVE FifoInv'
    OBVIOUS
  <1>u. ASSUME UNCHANGED <<slots, head, tail, received>> PROVE FifoInv'
    BY <1>u DEF IInv, FifoInv, ReceivedInOrder, Index, Low
  <1>1. CASE UserSteps
    BY <1>1, UserFrame, <1>u
  <1>2. CASE ProducerSteps
    <2>1. CASE PushPublish
      BY <2>1, FifoPublish DEF PushPublish
    <2>2. CASE SendPublish
      BY <2>2, FifoPublish DEF SendPublish
    <2>3. CASE PushRefused \/ PushLive \/ SendDone \/ ProducerSignals
      BY <2>3, <1>u DEF PushRefused, PushLive, SendDone, ProducerSignals, Signal,
         SignalFence, SignalLoad, SignalSwap, SignalSet
    <2> QED BY <1>2, <2>1, <2>2, <2>3 DEF ProducerSteps
  <1>3. CASE TakeSteps
    <2>1. CASE TakeRead
      BY <2>1, FifoTake
    <2>2. CASE (FirstTake(Ready) \/ LastTake(Ready) \/ PopAnswers(Gone)) /\ UNCHANGED queueVars
      BY <2>2, <1>u DEF FirstTake, LastTake, PopAnswers
    <2> QED BY <1>3, <2>1, <2>2 DEF TakeSteps, Looks
  <1>4. CASE ArmSteps
    BY <1>4, ArmFrame, <1>u
  <1>5. CASE WaitSteps
    BY <1>5, WaitFrame, <1>u
  <1>6. CASE WindowsFails
    BY <1>6, FailFrame, <1>u
  <1>7. CASE ProducerFlushes
    BY <1>7, ProducerFlushFrame, <1>u
  <1>8. CASE ConsumerFlushes
    BY <1>8, ConsumerFlushFrame, <1>u
  <1>9. CASE Teardown
    BY <1>9, <1>u DEF Teardown
  <1> QED BY <1>1, <1>2, <1>3, <1>4, <1>5, <1>6, <1>7, <1>8, <1>9
         DEF Next, ConsumerSteps

(* TypeOK in four parts, one per kind of state.                                 *)
PositionTypes ==
  /\ tail \in 0 .. MaxItems /\ tailMem \in 0 .. MaxItems
  /\ head \in Nat /\ headMem \in Nat
  /\ reserved \in 0 .. Capacity
  /\ highWater \in Nat

ThreadTypes ==
  /\ producerLive \in BOOLEAN /\ producerLiveMem \in BOOLEAN
  /\ consumerLive \in BOOLEAN /\ consumerLiveMem \in BOOLEAN
  /\ ppc \in {"idle", "room", "full", "push", "send", "sent", "gone", "torn"}
  /\ ParkedTypeOK

DataTypes ==
  /\ slots \in [0 .. Capacity - 1 -> Items \cup {NoItem}]
  /\ received \in Seq(Items \cup {NoItem})
  /\ disposed \in SUBSET (Items \cup {NoItem})

(* Together they are TypeOK.                                                    *)
LEMMA TypeParts ==
  TypeOK <=> DoorbellTypeOK /\ PositionTypes /\ ThreadTypes /\ DataTypes
  BY DEF TypeOK, PositionTypes, ThreadTypes, DataTypes

(* The doorbell's variables keep their types.                                  *)
LEMMA DoorbellTypeStep == IInv /\ Next => DoorbellTypeOK'
  <1> SUFFICES ASSUME IInv, Next PROVE DoorbellTypeOK'
    OBVIOUS
  <1> DoorbellTypeOK /\ Producers = {producer}
    BY ProducersAssumption DEF IInv, TypeOK
  <1> USE DEF DoorbellTypeOK, RingSteps, RestSteps
  <1>1. CASE UserSteps
    <2>1. CASE PushLoad \/ SendLive
      BY <2>1 DEF PushLoad, SendLive
    <2>2. CASE Reserve \/ SendDisconnected \/ DropReservation
      BY <2>2 DEF Reserve, SendDisconnected, DropReservation
    <2>3. CASE DropProducer
      BY <2>3 DEF DropProducer
    <2>4. CASE StartCall \/ DropConsumer
      BY <2>4 DEF StartCall, CallBegins, DropConsumer
    <2> QED BY <1>1, <2>1, <2>2, <2>3, <2>4 DEF UserSteps
  <1>2. CASE ProducerSteps
    <2>1. CASE PushRefused \/ PushLive
      BY <2>1 DEF PushRefused, PushLive
    <2>2. CASE PushPublish \/ SendPublish
      BY <2>2 DEF PushPublish, Publish, SendPublish
    <2>3. CASE SendDone
      BY <2>3 DEF SendDone
    <2>4. CASE ProducerSignals
      <3>1. CASE SignalFence(producer, ProducerDrained) \/ SignalLoad(producer)
        BY <2>4, <3>1 DEF ProducerSignals, SignalFence, SignalLoad
      <3>2. CASE SignalSwap(producer)
        BY <2>4, <3>2 DEF ProducerSignals, SignalSwap
      <3>3. CASE SignalSet(producer)
        BY <2>4, <3>3 DEF ProducerSignals, SignalSet
      <3> QED BY <2>4, <3>1, <3>2, <3>3 DEF ProducerSignals, Signal
    <2> QED BY <1>2, <2>1, <2>2, <2>3, <2>4 DEF ProducerSteps
  <1>3. CASE TakeSteps
    BY <1>3, TakeFrame
  <1>4. CASE ArmSteps
    <2>1. CASE ArmBegins /\ UNCHANGED queueVars
      BY <2>1 DEF ArmBegins
    <2>2. CASE ArmHandle /\ UNCHANGED queueVars
      BY <2>2 DEF ArmHandle, HandleCreate
    <2>3. CASE ArmClears /\ UNCHANGED queueVars
      BY <2>3, Zenon DEF ArmClears, Clear, ResetEvent, LowerFlag
    <2>4. CASE ArmFences(ConsumerDrained) /\ UNCHANGED queueVars
      BY <2>4 DEF ArmFences, ClearFence
    <2>5. CASE ArmAnswers(Ready) /\ UNCHANGED queueVars
      BY <2>5 DEF ArmAnswers
    <2> QED BY <1>4, <2>1, <2>2, <2>3, <2>4, <2>5 DEF ArmSteps, Arms
  <1>5. CASE WaitSteps
    BY <1>5, WaitFrame
  <1>6. CASE WindowsFails
    <2>1. CASE ArmHandleFails /\ UNCHANGED queueVars
      BY <2>1 DEF ArmHandleFails, HandleFails
    <2>2. CASE WaitErrs /\ UNCHANGED queueVars
      BY <2>2 DEF WaitErrs
    <2> QED BY <1>6, <2>1, <2>2 DEF WindowsFails, Fails
  <1>7. CASE ProducerFlushes
    BY <1>7, ProducerFlushFrame
  <1>8. CASE ConsumerFlushes
    <2>1. CASE FlushHead
      BY <2>1 DEF FlushHead
    <2>2. CASE FlushClear
      BY <2>2, Zenon DEF FlushClear, FlushFlag
    <2>3. CASE FlushConsumerLive
      BY <2>3 DEF FlushConsumerLive
    <2> QED BY <1>8, <2>1, <2>2, <2>3 DEF ConsumerFlushes
  <1>9. CASE Teardown
    BY <1>9 DEF Teardown
  <1> QED BY <1>1, <1>2, <1>3, <1>4, <1>5, <1>6, <1>7, <1>8, <1>9
         DEF Next, ConsumerSteps

(* So do the threads' own.                                                     *)
LEMMA ThreadTypeStep == IInv /\ Next => ThreadTypes'
  <1> SUFFICES ASSUME IInv, Next PROVE ThreadTypes'
    OBVIOUS
  <1> ThreadTypes
    BY TypeParts DEF IInv
  <1> USE DEF ThreadTypes, ParkedTypeOK, ConsumerPlaces, Results
  <1>1. CASE UserSteps
    <2>1. CASE StartCall
      <3>1. call' \in AllCalls
        BY <2>1, CallsAssumption DEF StartCall, CallBegins
      <3> QED BY <2>1, <3>1 DEF StartCall, CallBegins
    <2>2. CASE PushLoad \/ SendLive
      BY <2>2 DEF PushLoad, SendLive
    <2>3. CASE Reserve \/ SendDisconnected \/ DropReservation
      BY <2>3 DEF Reserve, SendDisconnected, DropReservation
    <2>4. CASE DropProducer
      BY <2>4, Zenon DEF DropProducer
    <2>5. CASE DropConsumer
      BY <2>5, Zenon DEF DropConsumer
    <2> QED BY <1>1, <2>1, <2>2, <2>3, <2>4, <2>5 DEF UserSteps
  <1>2. CASE ProducerSteps
    <2>1. CASE PushRefused \/ PushLive
      BY <2>1 DEF PushRefused, PushLive
    <2>2. CASE PushPublish \/ SendPublish
      BY <2>2 DEF PushPublish, Publish, SendPublish
    <2>3. CASE SendDone
      BY <2>3 DEF SendDone
    <2>4. CASE ProducerSignals
      BY <2>4 DEF ProducerSignals, Signal, SignalFence, SignalLoad, SignalSwap,
         SignalSet
    <2> QED BY <1>2, <2>1, <2>2, <2>3, <2>4 DEF ProducerSteps
  <1>3. CASE TakeSteps
    <2>1. CASE FirstTake(Ready) /\ UNCHANGED queueVars
      BY <2>1 DEF FirstTake
    <2>2. CASE LastTake(Ready) /\ UNCHANGED queueVars
      BY <2>2 DEF LastTake
    <2>3. CASE TakeRead
      BY <2>3 DEF TakeRead
    <2>4. CASE PopAnswers(Gone) /\ UNCHANGED queueVars
      BY <2>4 DEF PopAnswers
    <2> QED BY <1>3, <2>1, <2>2, <2>3, <2>4 DEF TakeSteps, Looks
  <1>4. CASE ArmSteps
    <2>1. CASE ArmBegins /\ UNCHANGED queueVars
      BY <2>1 DEF ArmBegins
    <2>2. CASE ArmHandle /\ UNCHANGED queueVars
      BY <2>2 DEF ArmHandle, HandleCreate
    <2>3. CASE ArmClears /\ UNCHANGED queueVars
      BY <2>3 DEF ArmClears, Clear, ResetEvent, LowerFlag
    <2>4. CASE ArmFences(ConsumerDrained) /\ UNCHANGED queueVars
      BY <2>4 DEF ArmFences, ClearFence
    <2>5. CASE ArmAnswers(Ready) /\ UNCHANGED queueVars
      BY <2>5 DEF ArmAnswers
    <2> QED BY <1>4, <2>1, <2>2, <2>3, <2>4, <2>5 DEF ArmSteps, Arms
  <1>5. CASE WaitSteps
    <2>1. CASE AskGone(Gone) /\ UNCHANGED queueVars
      BY <2>1 DEF AskGone, Gone
    <2>2. CASE ReportsEnd /\ UNCHANGED queueVars
      BY <2>2 DEF ReportsEnd
    <2>3. CASE TimesOut /\ UNCHANGED queueVars
      BY <2>3 DEF TimesOut
    <2>4. CASE Parks /\ UNCHANGED queueVars
      BY <2>4 DEF Parks
    <2>5. CASE Wakes /\ UNCHANGED queueVars
      BY <2>5 DEF Wakes
    <2> QED BY <1>5, <2>1, <2>2, <2>3, <2>4, <2>5 DEF WaitSteps, Waits
  <1>6. CASE WindowsFails
    <2>1. CASE ArmHandleFails /\ UNCHANGED queueVars
      BY <2>1 DEF ArmHandleFails, HandleFails
    <2>2. CASE WaitErrs /\ UNCHANGED queueVars
      BY <2>2 DEF WaitErrs
    <2> QED BY <1>6, <2>1, <2>2 DEF WindowsFails, Fails
  <1>7. CASE ProducerFlushes
    <2>1. CASE FlushTail
      BY <2>1 DEF FlushTail
    <2>2. CASE FlushProducerLive
      BY <2>2 DEF FlushProducerLive
    <2> QED BY <1>7, <2>1, <2>2 DEF ProducerFlushes
  <1>8. CASE ConsumerFlushes
    <2>1. CASE FlushHead
      BY <2>1 DEF FlushHead
    <2>2. CASE FlushClear
      BY <2>2 DEF FlushClear, FlushFlag
    <2>3. CASE FlushConsumerLive
      BY <2>3 DEF FlushConsumerLive
    <2> QED BY <1>8, <2>1, <2>2, <2>3 DEF ConsumerFlushes
  <1>9. CASE Teardown
    BY <1>9 DEF Teardown
  <1> QED BY <1>1, <1>2, <1>3, <1>4, <1>5, <1>6, <1>7, <1>8, <1>9
         DEF Next, ConsumerSteps

(* The counters never leave their range: a reservation is only ever taken while  *)
(* there is room for it, and released once.                                      *)
LEMMA PositionTypeStep == IInv /\ Next => PositionTypes'
  <1> SUFFICES ASSUME IInv, Next PROVE PositionTypes'
    OBVIOUS
  <1>r. Distance(tail, headMem) = tail - headMem
    BY RoomExact
  <1>b. Capacity \in Nat /\ Capacity > 0 /\ headMem <= tail
    BY RingAssumption, BoundAssumption DEF IInv, BufferInv, TypeOK
  <1> PositionTypes /\ ProducerInv /\ MaxItems \in Nat
    BY TypeParts, BoundAssumption DEF IInv
  <1> USE DEF PositionTypes, ProducerInv
  <1>1. CASE UserSteps
    <2>1. CASE Reserve
      BY <2>1, <1>r, <1>b DEF Reserve, HasRoom
    <2>2. CASE SendDisconnected \/ DropReservation
      BY <2>2, <1>b DEF SendDisconnected, DropReservation
    <2>3. CASE PushLoad \/ SendLive
      BY <2>3 DEF PushLoad, SendLive
    <2>4. CASE DropProducer
      BY <2>4 DEF DropProducer
    <2>5. CASE StartCall \/ DropConsumer
      BY <2>5 DEF StartCall, CallBegins, DropConsumer
    <2> QED BY <1>1, <2>1, <2>2, <2>3, <2>4, <2>5 DEF UserSteps
  <1>2. CASE ProducerSteps
    <2>1. CASE PushRefused \/ PushLive
      BY <2>1 DEF PushRefused, PushLive
    <2>2. CASE PushPublish \/ SendPublish
      BY <2>2, <1>r, <1>b DEF PushPublish, Publish, SendPublish
    <2>3. CASE SendDone
      BY <2>3, <1>b DEF SendDone
    <2>4. CASE ProducerSignals
      BY <2>4 DEF ProducerSignals, Signal, SignalFence, SignalLoad, SignalSwap,
         SignalSet
    <2> QED BY <1>2, <2>1, <2>2, <2>3, <2>4 DEF ProducerSteps
  <1>3. CASE TakeSteps
    <2>1. CASE FirstTake(Ready) /\ UNCHANGED queueVars
      BY <2>1 DEF FirstTake
    <2>2. CASE LastTake(Ready) /\ UNCHANGED queueVars
      BY <2>2 DEF LastTake
    <2>3. CASE TakeRead
      BY <2>3 DEF TakeRead
    <2>4. CASE PopAnswers(Gone) /\ UNCHANGED queueVars
      BY <2>4 DEF PopAnswers
    <2> QED BY <1>3, <2>1, <2>2, <2>3, <2>4 DEF TakeSteps, Looks
  <1>4. CASE ArmSteps
    BY <1>4, ArmFrame
  <1>5. CASE WaitSteps
    BY <1>5, WaitFrame
  <1>6. CASE WindowsFails
    BY <1>6, FailFrame
  <1>7. CASE ProducerFlushes
    <2>1. CASE FlushTail
      BY <2>1 DEF FlushTail
    <2>2. CASE FlushProducerLive
      BY <2>2 DEF FlushProducerLive
    <2> QED BY <1>7, <2>1, <2>2 DEF ProducerFlushes
  <1>8. CASE ConsumerFlushes
    <2>1. CASE FlushHead
      BY <2>1 DEF FlushHead
    <2>2. CASE FlushClear
      BY <2>2 DEF FlushClear, FlushFlag
    <2>3. CASE FlushConsumerLive
      BY <2>3 DEF FlushConsumerLive
    <2> QED BY <1>8, <2>1, <2>2, <2>3 DEF ConsumerFlushes
  <1>9. CASE Teardown
    BY <1>9 DEF Teardown
  <1> QED BY <1>1, <1>2, <1>3, <1>4, <1>5, <1>6, <1>7, <1>8, <1>9
         DEF Next, ConsumerSteps

(* Slots, received items and disposed ones are items, or a slot never written.  *)
LEMMA DataTypeStep == IInv /\ Next => DataTypes'
  <1> SUFFICES ASSUME IInv, Next PROVE DataTypes'
    OBVIOUS
  <1> DataTypes
    BY TypeParts DEF IInv
  <1> USE DEF DataTypes
  <1>x. \A p \in Nat : Index(p) \in 0 .. Capacity - 1
    BY IndexExact
  <1>h. head \in Nat /\ tail \in 0 .. MaxItems /\ MaxItems \in Nat
    BY BoundAssumption DEF IInv, TypeOK
  <1>1. CASE UserSteps
    BY <1>1, UserFrame
  <1>2. CASE ProducerSteps
    <2>1. CASE PushPublish \/ SendPublish
      <3>1. Index(tail) \in 0 .. Capacity - 1
        BY <1>x, <1>h
      <3>2. tail + 1 \in Items
        BY <2>1, <1>h DEF PushPublish, SendPublish, Publish, Items, ProducerInv, IInv
      <3> QED BY <2>1, <3>1, <3>2 DEF PushPublish, SendPublish, Publish
    <2>2. CASE PushRefused \/ PushLive \/ SendDone \/ ProducerSignals
      BY <2>2 DEF PushRefused, PushLive, SendDone, ProducerSignals, Signal,
         SignalFence, SignalLoad, SignalSwap, SignalSet
    <2> QED BY <1>2, <2>1, <2>2 DEF ProducerSteps
  <1>3. CASE TakeSteps
    <2>1. CASE TakeRead
      <3>1. slots[Index(head)] \in Items \cup {NoItem}
        BY <1>x, <1>h
      <3>2. received' \in Seq(Items \cup {NoItem})
        BY <2>1, <3>1 DEF TakeRead
      <3> QED BY <2>1, <3>2 DEF TakeRead
    <2>2. CASE (FirstTake(Ready) \/ LastTake(Ready) \/ PopAnswers(Gone)) /\ UNCHANGED queueVars
      BY <2>2 DEF FirstTake, LastTake, PopAnswers
    <2> QED BY <1>3, <2>1, <2>2 DEF TakeSteps, Looks
  <1>4. CASE ArmSteps
    BY <1>4, ArmFrame
  <1>5. CASE WaitSteps
    BY <1>5, WaitFrame
  <1>6. CASE WindowsFails
    BY <1>6, FailFrame
  <1>7. CASE ProducerFlushes
    BY <1>7, ProducerFlushFrame
  <1>8. CASE ConsumerFlushes
    BY <1>8, ConsumerFlushFrame
  <1>9. CASE Teardown
    <2>1. \A p \in head .. tail - 1 : slots[Index(p)] \in Items \cup {NoItem}
      BY <1>x, <1>h
    <2> QED BY <1>9, <2>1 DEF Teardown
  <1> QED BY <1>1, <1>2, <1>3, <1>4, <1>5, <1>6, <1>7, <1>8, <1>9
         DEF Next, ConsumerSteps

(* What teardown finds unread is what was published and never received.        *)
LEMMA AccountedStep == IInv /\ Next => Accounted'
  <1> SUFFICES ASSUME IInv, Next PROVE Accounted'
    OBVIOUS
  <1>u. ASSUME ppc' = "torn" => ppc = "torn" /\ UNCHANGED <<tail, received, disposed>>
        PROVE  Accounted'
    BY <1>u DEF IInv, Accounted
  <1>1. CASE UserSteps
    <2>1. ppc' = "torn" => ppc = "torn"
      BY <1>1 DEF UserSteps, PushLoad, Reserve, SendLive, SendDisconnected,
         DropReservation, DropProducer, StartCall, CallBegins, DropConsumer
    <2> QED BY <1>1, <2>1, <1>u, UserFrame
  <1>2. CASE ProducerSteps
    <2>1. ppc' = "torn" => ppc = "torn" /\ tail' = tail
      <3>1. CASE PushRefused \/ PushLive \/ SendDone
        BY <3>1 DEF PushRefused, PushLive, SendDone
      <3>2. CASE PushPublish \/ SendPublish
        BY <3>2 DEF PushPublish, SendPublish, Publish
      <3>3. CASE ProducerSignals
        BY <3>3 DEF ProducerSignals
      <3> QED BY <1>2, <3>1, <3>2, <3>3 DEF ProducerSteps
    <2> QED BY <1>2, <2>1, <1>u, ProducerFrame
  <1>3. CASE TakeSteps
    <2>1. ppc # "torn"
      BY <1>3, TakeFrame DEF IInv, ProducerInv
    <2> QED BY <1>3, <2>1, <1>u, TakeFrame
  <1>4. CASE ArmSteps
    BY <1>4, ArmFrame, <1>u
  <1>5. CASE WaitSteps
    BY <1>5, WaitFrame, <1>u
  <1>6. CASE WindowsFails
    BY <1>6, FailFrame, <1>u
  <1>7. CASE ProducerFlushes
    BY <1>7, ProducerFlushFrame, <1>u
  <1>8. CASE ConsumerFlushes
    BY <1>8, ConsumerFlushFrame, <1>u
  <1>9. CASE Teardown
    <2>0. head \in Nat /\ tail \in Nat /\ head <= tail
      BY BoundAssumption DEF IInv, TypeOK, BufferInv
    <2>1. disposed' = {p + 1 : p \in head .. tail - 1}
      BY <1>9 DEF Teardown, IInv, FifoInv
    <2>2. disposed' = head + 1 .. tail
      BY <2>0, <2>1
    <2>3. {received[i] : i \in 1 .. Len(received)} = 1 .. head
      BY <2>0 DEF IInv, FifoInv, ReceivedInOrder
    <2>4. UNCHANGED <<received, tail>>
      BY <1>9 DEF Teardown
    <2>5. /\ (head + 1 .. tail) \cup (1 .. head) = 1 .. tail
          /\ (head + 1 .. tail) \cap (1 .. head) = {}
      BY <2>0
    <2> QED BY <2>2, <2>3, <2>4, <2>5 DEF Accounted
  <1> QED BY <1>1, <1>2, <1>3, <1>4, <1>5, <1>6, <1>7, <1>8, <1>9
         DEF Next, ConsumerSteps

-----------------------------------------------------------------------------
(* The initial state.                                                          *)
LEMMA InitIInv == Init => IInv
  <1> SUFFICES ASSUME Init PROVE IInv
    OBVIOUS
  <1>c. Capacity \in Nat \ {0} /\ MaxItems \in Nat
    BY RingAssumption, BoundAssumption
  <1> USE ProducersAssumption DEF Init, DoorbellInit, ParkedInit
  <1>1. TypeOK
    <2>1. DoorbellTypeOK /\ ThreadTypes
      BY Zenon DEF DoorbellTypeOK, RingSteps, RestSteps, ThreadTypes, ParkedTypeOK,
         ConsumerPlaces, Results
    <2>2. PositionTypes
      BY <1>c DEF PositionTypes
    <2>3. DataTypes
      BY DEF DataTypes
    <2> QED BY <2>1, <2>2, <2>3, TypeParts
  <1>2. ProducerInv /\ BufferInv /\ RoomInv /\ ConsumerInv
    BY <1>c DEF ProducerInv, BufferInv, RoomInv, ConsumerInv
  <1>3. FifoInv /\ HighWaterBounds
    BY <1>c DEF FifoInv, ReceivedInOrder, HighWaterBounds
  <1>4. DoorbellInv /\ WakeInv /\ RecvEndIsFinal /\ Accounted
    BY DEF DoorbellInv, FlagMirrorsEvent, SettingEvent, WakeInv, RecvEndIsFinal,
       Accounted
  <1> QED BY <1>1, <1>2, <1>3, <1>4 DEF IInv

(* A stuttering step.                                                          *)
LEMMA StutterIInv == IInv /\ UNCHANGED vars => IInv'
  <1> SUFFICES ASSUME IInv, UNCHANGED vars PROVE IInv'
    OBVIOUS
  <1> USE DEF vars, IInv
  <1>1. TypeOK'
    BY DEF TypeOK, DoorbellTypeOK, ParkedTypeOK
  <1>2. ProducerInv' /\ BufferInv' /\ RoomInv'
    BY DEF ProducerInv, BufferInv, RoomInv
  <1>3. ConsumerInv' /\ RecvEndIsFinal' /\ HighWaterBounds'
    BY DEF ConsumerInv, RecvEndIsFinal, HighWaterBounds
  <1>4. FifoInv'
    BY DEF FifoInv, ReceivedInOrder, Index, Low
  <1>5. Accounted'
    BY DEF Accounted
  <1>6. DoorbellInv' /\ WakeInv'
    BY DEF DoorbellInv, FlagMirrorsEvent, SettingEvent, WakeInv
  <1> QED BY <1>1, <1>2, <1>3, <1>4, <1>5, <1>6

(* The invariant holds in every reachable state of every instance.             *)
THEOREM Invariance == Spec => []IInv
  <1>1. IInv /\ [Next]_vars => IInv'
    <2>1. TypeOK' <=> (DoorbellTypeOK /\ PositionTypes /\ ThreadTypes /\ DataTypes)'
      BY DEF TypeOK, PositionTypes, ThreadTypes, DataTypes
    <2> QED BY <2>1, StutterIInv, DoorbellTypeStep, ThreadTypeStep, PositionTypeStep,
       DataTypeStep, ProducerStep, BufferStep, RoomStep, ConsumerStep, FifoStep,
       DoorbellStep, WakeStep, EndStep, HighWaterStep, AccountedStep DEF IInv
  <1> QED BY InitIInv, <1>1, PTL DEF Spec

(* Type correctness of the spsc queue and its doorbell.                         *)
THEOREM TypeCorrect == Spec => []TypeOK
  <1>1. IInv => TypeOK
    BY DEF IInv
  <1> QED BY Invariance, <1>1, PTL

(* A consumer asleep on a queue that has something for it is always about to be *)
(* woken, with total store order and for any interleaving of `signal`, `clear`, *)
(* event creation, pushes, reservations and the producer's drop.                *)
THEOREM WakeupNeverLost == Spec => []NoLostWakeup
  <1>1. IInv => NoLostWakeup
    <2> SUFFICES ASSUME IInv, cpc = "wait", head # tail \/ ~producerLive PROVE RingDue
      BY DEF NoLostWakeup
    <2>1. rest # "store" /\ ~clearing
      BY DEF IInv, DoorbellInv
    <2>2. lit \/ ring[producer] # "out"
      BY DEF IInv, WakeInv
    <2>3. signalled => lit \/ SettingEvent
      BY <2>1 DEF IInv, DoorbellInv, FlagMirrorsEvent
    <2>4. ring[producer] \in RingSteps
      BY ProducersAssumption DEF IInv, TypeOK, DoorbellTypeOK
    <2> QED BY <2>2, <2>3, <2>4, ProducersAssumption DEF RingDue, SettingEvent,
       RingSteps
  <1> QED BY Invariance, <1>1, PTL

(* Items are received in the order they were published, none twice, none        *)
(* overwritten before it was read; the blocking receives report the end of the  *)
(* stream only when it is final; teardown accounts for what is left.            *)
THEOREM FirstInFirstOut == Spec => []StreamIntact
  <1>1. IInv => ReceivedInOrder
    BY DEF IInv, FifoInv
  <1>2. IInv => StreamIntact
    BY <1>1 DEF IInv, StreamIntact
  <1> QED BY Invariance, <1>2, PTL

(* Reserved slots, unread items and an admitted push never exceed the ring.     *)
THEOREM RoomIsKept == Spec => []CapacityKept
  <1>1. IInv => CapacityKept
    <2> SUFFICES ASSUME IInv PROVE CapacityKept
      OBVIOUS
    <2> USE BoundAssumption DEF IInv, TypeOK, RoomInv, BufferInv, ProducerInv
    <2>1. Capacity \in Nat
      BY RingAssumption
    <2>2. CASE ppc = "sent"
      BY <2>1, <2>2 DEF CapacityKept, Withheld
    <2>3. CASE ppc \in {"room", "push"}
      BY <2>1, <2>3 DEF CapacityKept, Withheld
    <2>4. CASE ppc \notin {"sent", "room", "push"}
      BY <2>1, <2>4 DEF CapacityKept, Withheld
    <2> QED BY <2>2, <2>3, <2>4
  <1> QED BY Invariance, <1>1, PTL

(* The doorbell's flag mirrors its event outside the two-step updates, and the  *)
(* high-water metric is never below the depth and never above the capacity.     *)
THEOREM MirrorAndGauge == Spec => [](FlagMirrorsEvent /\ HighWaterBounds)
  <1>1. IInv => FlagMirrorsEvent /\ HighWaterBounds
    BY DEF IInv, DoorbellInv
  <1> QED BY Invariance, <1>1, PTL
=============================================================================
