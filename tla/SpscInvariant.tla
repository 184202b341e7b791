---------------------------- MODULE SpscInvariant ----------------------------
(***************************************************************************)
(* The inductive invariant of Spsc and what follows from it, for every     *)
(* capacity, every position width and every number of items.               *)
(*                                                                         *)
(* The invariant is split by concern; each part is preserved given the     *)
(* ones stated before it.                                                  *)
(***************************************************************************)
EXTENDS Spsc, RingProofs

\* Where the producer thread is decides what its own counters may be.
ProducerInv ==
  /\ producerLive <=> ppc \notin {"gone", "torn"}
  /\ ~producerLive => reserved = 0
  /\ ppc \in {"send", "sent"} => reserved > 0
  /\ ppc \in {"room", "push", "send"} => tail < MaxItems
  /\ ppc \in {"room", "full", "push", "send", "torn"} => ring[producer] = "out"
  /\ ppc = "torn" => cpc = "gone"

\* Memory trails each writer, and a store of the producer is still buffered
\* only while the producer stands before the fence of `signal`.
BufferInv ==
  /\ headMem <= head /\ head <= tailMem /\ tailMem <= tail
  /\ tailMem # tail => ring[producer] = "fence"
  /\ producerLive => producerLiveMem
  /\ producerLiveMem # producerLive => ring[producer] = "fence"
  /\ ~producerLiveMem => tailMem = tail

\* The room the producer has claimed, counted against the head in memory.
RoomInv ==
  /\ ppc = "sent" => (tail - headMem) + reserved <= Capacity + 1
  /\ ppc # "sent" => (tail - headMem) + reserved <= Capacity
  /\ ppc \in {"room", "push"} => (tail - headMem) + reserved < Capacity

\* Where the consumer thread is.
ConsumerInv ==
  /\ cpc = "read" => head < tailMem
  /\ cpc = "ask" => call = "pop"
  /\ cpc \in {"arm", "arming", "check", "live", "deadline", "wait", "finish", "ended"}
       => call # "pop"
  /\ cpc \in {"finish", "ended"} => ~producerLiveMem
  /\ cpc = "ended" => head = tailMem

\* Every unread slot holds its item, and the received ones are all before them.
FifoInv ==
  /\ \A p \in head .. tail - 1 : slots[Index(p)] = p + 1
  /\ Len(received) = head
  /\ ReceivedInOrder

\* The doorbell's own state follows the two calls that move it.
DoorbellInv ==
  /\ rest # "out" <=> cpc = "arming"
  /\ rest \in {"reset", "store", "fence"} => event
  /\ clearing => rest = "fence"
  /\ ring[producer] \in {"swap", "set"} => event
  /\ FlagMirrorsEvent

\* The consumer has found nothing and sleeps, or is about to: whatever it has
\* not seen is announced by a `signal` that has not finished.
WakeInv ==
  /\ cpc \in {"check", "live", "deadline", "wait"} => event
  /\ cpc \in {"live", "deadline", "wait"} /\ head # tail => lit \/ ring[producer] # "out"
  /\ cpc \in {"deadline", "wait"} /\ ~producerLive => lit \/ ring[producer] # "out"

IInv ==
  /\ TypeOK /\ ProducerInv /\ BufferInv /\ RoomInv /\ ConsumerInv /\ FifoInv
  /\ DoorbellInv /\ WakeInv /\ RecvEndIsFinal /\ HighWaterBounds /\ Accounted

-----------------------------------------------------------------------------
(* Tuples and the common shapes of an action.                              *)
USE DEF positionVars, liveVars, producerVars, consumerVars, queueVars, parkedVars,
        doorbellVars, ProducerGoes, ConsumerGoes, Returns, RingMoves, RestMoves, EnterSignal,
        ProducerIdle

(* What each kind of step leaves alone.                                    *)

(* Starting an operation publishes, takes and signals nothing yet.          *)
LEMMA UserFrame ==
  UserSteps =>
    UNCHANGED <<slots, tail, tailMem, head, headMem, producerLiveMem, consumerLiveMem,
                highWater, received, disposed, event, lit, signalled, clearing, rest>>
  BY DEF UserSteps, PushLoad, Reserve, SendLive, SendDisconnected, DropReservation,
     DropProducer, StartCall, CallBegins, DropConsumer

(* A producer inside an operation touches nothing the consumer owns.        *)
LEMMA ProducerFrame ==
  ProducerSteps =>
    UNCHANGED <<tailMem, head, headMem, producerLive, producerLiveMem, consumerLive,
                consumerLiveMem, cpc, call, result, received, disposed, event,
                clearing, rest>>
  BY DEF ProducerSteps, PushRefused, PushLive, PushPublish, Publish, SendPublish,
     SendDone, ProducerSignals, Signal, SignalFence, SignalLoad, SignalSwap, SignalSet

(* A consumer that takes touches nothing the producer owns, nor the doorbell.*)
LEMMA TakeFrame ==
  TakeSteps =>
    UNCHANGED <<slots, tail, tailMem, headMem, producerLive, producerLiveMem,
                consumerLive, consumerLiveMem, reserved, highWater, ppc, call, disposed,
                event, lit, signalled, clearing, ring, rest>> /\ cpc # "gone"
  BY DEF TakeSteps, Looks, FirstTake, LastTake, TakeRead, PopAnswers

(* Arming moves only the doorbell and the consumer's place.                 *)
LEMMA ArmFrame ==
  ArmSteps =>
    UNCHANGED <<slots, tail, tailMem, head, headMem, producerLive, producerLiveMem,
                consumerLive, consumerLiveMem, reserved, highWater, ppc, call, result,
                received, disposed, signalled, ring>>
  BY DEF ArmSteps, Arms, ArmBegins, ArmHandle, HandleCreate, ArmClears, Clear,
     ResetEvent, LowerFlag, ArmFences, ClearFence, ArmAnswers

(* Waiting moves only the consumer's place and its result.                  *)
LEMMA WaitFrame ==
  WaitSteps =>
    UNCHANGED <<slots, tail, tailMem, head, headMem, producerLive, producerLiveMem,
                consumerLive, consumerLiveMem, reserved, highWater, ppc, call,
                received, disposed, event, lit, signalled, clearing, ring, rest>> /\ cpc # "gone"
  BY DEF WaitSteps, Waits, AskGone, Gone, ReportsEnd, TimesOut, Parks, Wakes

(* A failed Windows call is reported and changes nothing else.              *)
LEMMA FailFrame ==
  WindowsFails =>
    UNCHANGED <<slots, tail, tailMem, head, headMem, producerLive, producerLiveMem,
                consumerLive, consumerLiveMem, reserved, highWater, ppc, call,
                received, disposed, event, lit, signalled, clearing, ring>> /\ cpc # "gone"
  BY DEF WindowsFails, Fails, ArmHandleFails, HandleFails, WaitErrs

(* The producer's flushes change memory only.                               *)
LEMMA ProducerFlushFrame ==
  ProducerFlushes =>
    UNCHANGED <<slots, tail, head, headMem, producerLive, consumerLive,
                consumerLiveMem, reserved, highWater, ppc, cpc, call, result, received,
                disposed, event, lit, signalled, clearing, ring, rest>>
  BY DEF ProducerFlushes, FlushTail, FlushProducerLive

(* The consumer's flushes change memory only.                               *)
LEMMA ConsumerFlushFrame ==
  ConsumerFlushes =>
    UNCHANGED <<slots, tail, tailMem, head, producerLive, producerLiveMem,
                consumerLive, reserved, highWater, ppc, cpc, call, result, received,
                disposed, event, lit, ring, rest>>
  BY DEF ConsumerFlushes, FlushHead, FlushClear, FlushFlag, FlushConsumerLive

(* The types that arithmetic and the updates of ring rely on.               *)
Basics ==
  /\ tail \in Nat /\ tailMem \in Nat /\ head \in Nat /\ headMem \in Nat
  /\ reserved \in Nat /\ highWater \in Nat
  /\ MaxItems \in Nat /\ Capacity \in Nat /\ Capacity > 0
  /\ producerLive \in BOOLEAN /\ producerLiveMem \in BOOLEAN
  /\ Producers = {producer} /\ DOMAIN ring = {producer}

(* The invariant gives them.                                                *)
LEMMA BasicTypes == IInv => Basics
  <1> SUFFICES ASSUME IInv PROVE Basics
    OBVIOUS
  <1>1. Capacity \in Nat /\ Capacity > 0
    BY RingAssumption
  <1> QED BY <1>1, ProducersAssumption, BoundAssumption
          DEF IInv, TypeOK, DoorbellTypeOK, Basics

(* A consumer that arms is inside `arm`.                                    *)
LEMMA ArmPlace == IInv /\ ArmSteps => cpc # "gone"
  BY DEF IInv, DoorbellInv, ArmSteps, Arms, ArmBegins, ArmHandle, HandleCreate, ArmClears,
     Clear, ResetEvent, LowerFlag, ArmFences, ArmAnswers

(* The room check computes the room, and the emptiness check emptiness: the *)
(* positions they compare are never a whole wrap apart.                     *)
LEMMA RoomExact ==
  IInv => Distance(tail, headMem) = tail - headMem
  <1> SUFFICES ASSUME IInv PROVE Distance(tail, headMem) = tail - headMem
    OBVIOUS
  <1>1. tail \in Nat /\ headMem \in Nat /\ headMem <= tail
    BY BoundAssumption DEF IInv, TypeOK, BufferInv
  <1>2. tail - headMem < PositionModulus
    BY <1>1, RingAssumption DEF IInv, TypeOK, RoomInv, ProducerInv
  <1> QED BY <1>1, <1>2, DistanceExact

(* Nothing to take is an empty queue, as far as memory goes.                *)
LEMMA EmptyExact ==
  IInv => (Ready <=> head # tailMem)
  <1> SUFFICES ASSUME IInv, Low(head) = Low(tailMem) PROVE head = tailMem
    BY DEF Ready
  <1>1. /\ head \in Nat /\ tailMem \in Nat /\ head <= tailMem
        /\ tail \in Nat /\ headMem \in Nat /\ headMem <= head /\ tailMem <= tail
    BY BoundAssumption DEF IInv, TypeOK, BufferInv
  <1>2. tailMem - head < PositionModulus
    BY <1>1, RingAssumption DEF IInv, TypeOK, RoomInv, ProducerInv
  <1> QED BY <1>1, <1>2, SameLow


(* Only the producer moves ppc and reserved, and it stands outside `signal`    *)
(* whenever it starts an operation.                                          *)
LEMMA ProducerStep == IInv /\ Next => ProducerInv'
  <1> SUFFICES ASSUME IInv, Next PROVE ProducerInv'
    OBVIOUS
  <1> Basics
    BY BasicTypes
  <1> ProducerInv
    BY DEF IInv
  <1> USE DEF Basics, ProducerInv
  <1>1. CASE UserSteps
    <2>1. CASE PushLoad \/ SendLive
      BY <2>1 DEF PushLoad, SendLive
    <2>2. CASE Reserve \/ SendDisconnected \/ DropReservation
      BY <2>2 DEF Reserve, SendDisconnected, DropReservation
    <2>3. CASE DropProducer
      BY <2>3 DEF DropProducer
    <2>4. CASE StartCall \/ DropConsumer
      BY <2>4 DEF StartCall, CallBegins, DropConsumer
    <2> QED BY <1>1, <2>1, <2>2, <2>3, <2>4 DEF UserSteps
  <1>2. CASE ProducerSteps
    <2>1. CASE PushRefused \/ PushLive
      BY <2>1 DEF PushRefused, PushLive
    <2>2. CASE PushPublish \/ SendPublish
      BY <2>2 DEF PushPublish, Publish, SendPublish
    <2>3. CASE SendDone
      BY <2>3 DEF SendDone
    <2>4. CASE ProducerSignals
      BY <2>4 DEF ProducerSignals, Signal, SignalFence, SignalLoad, SignalSwap,
         SignalSet
    <2> QED BY <1>2, <2>1, <2>2, <2>3, <2>4 DEF ProducerSteps
  <1>3. CASE TakeSteps
    BY <1>3, TakeFrame
  <1>4. CASE ArmSteps
    BY <1>4, ArmFrame, ArmPlace
  <1>5. CASE WaitSteps
    BY <1>5, WaitFrame
  <1>6. CASE WindowsFails
    BY <1>6, FailFrame
  <1>7. CASE ProducerFlushes
    BY <1>7, ProducerFlushFrame
  <1>8. CASE ConsumerFlushes
    BY <1>8, ConsumerFlushFrame
  <1>9. CASE Teardown
    BY <1>9 DEF Teardown
  <1> QED BY <1>1, <1>2, <1>3, <1>4, <1>5, <1>6, <1>7, <1>8, <1>9
         DEF Next, ConsumerSteps

(* A fence is what separates the producer's stores from its later loads.       *)
LEMMA BufferStep == IInv /\ Next => BufferInv'
  <1> SUFFICES ASSUME IInv, Next PROVE BufferInv'
    OBVIOUS
  <1> Basics
    BY BasicTypes
  <1> BufferInv /\ ProducerInv
    BY DEF IInv
  <1> USE DEF Basics, BufferInv, ProducerInv
  <1>1. CASE UserSteps
    <2>1. CASE PushLoad \/ SendLive
      BY <2>1 DEF PushLoad, SendLive
    <2>2. CASE Reserve \/ SendDisconnected \/ DropReservation
      BY <2>2 DEF Reserve, SendDisconnected, DropReservation
    <2>3. CASE DropProducer
      BY <2>3 DEF DropProducer
    <2>4. CASE StartCall \/ DropConsumer
      BY <2>4 DEF StartCall, CallBegins, DropConsumer
    <2> QED BY <1>1, <2>1, <2>2, <2>3, <2>4 DEF UserSteps
  <1>2. CASE ProducerSteps
    <2>1. CASE PushRefused \/ PushLive
      BY <2>1 DEF PushRefused, PushLive
    <2>2. CASE PushPublish \/ SendPublish
      BY <2>2 DEF PushPublish, Publish, SendPublish
    <2>3. CASE SendDone
      BY <2>3 DEF SendDone
    <2>4. CASE ProducerSignals
      <3>1. CASE SignalFence(producer, ProducerDrained) \/ SignalLoad(producer)
        BY <2>4, <3>1 DEF ProducerSignals, SignalFence, SignalLoad,
           ProducerDrained
      <3>2. CASE SignalSwap(producer)
        BY <2>4, <3>2 DEF ProducerSignals, SignalSwap
      <3>3. CASE SignalSet(producer)
        BY <2>4, <3>3 DEF ProducerSignals, SignalSet
      <3> QED BY <2>4, <3>1, <3>2, <3>3 DEF ProducerSignals, Signal
    <2> QED BY <1>2, <2>1, <2>2, <2>3, <2>4 DEF ProducerSteps
  <1>3. CASE TakeSteps
    <2>1. CASE TakeRead
      BY <2>1 DEF TakeRead, ConsumerInv, IInv
    <2>2. CASE Looks(Ready, Gone) /\ UNCHANGED queueVars
      BY <2>2 DEF Looks, FirstTake, LastTake, PopAnswers
    <2> QED BY <1>3, <2>1, <2>2 DEF TakeSteps
  <1>4. CASE ArmSteps
    BY <1>4, ArmFrame
  <1>5. CASE WaitSteps
    BY <1>5, WaitFrame
  <1>6. CASE WindowsFails
    BY <1>6, FailFrame
  <1>7. CASE ProducerFlushes
    <2>1. CASE FlushTail
      BY <2>1 DEF FlushTail
    <2>2. CASE FlushProducerLive
      BY <2>2 DEF FlushProducerLive
    <2> QED BY <1>7, <2>1, <2>2 DEF ProducerFlushes
  <1>8. CASE ConsumerFlushes
    <2>1. CASE FlushHead
      BY <2>1 DEF FlushHead
    <2>2. CASE FlushClear
      BY <2>2 DEF FlushClear, FlushFlag
    <2>3. CASE FlushConsumerLive
      BY <2>3 DEF FlushConsumerLive
    <2> QED BY <1>8, <2>1, <2>2, <2>3 DEF ConsumerFlushes
  <1>9. CASE Teardown
    BY <1>9 DEF Teardown
  <1> QED BY <1>1, <1>2, <1>3, <1>4, <1>5, <1>6, <1>7, <1>8, <1>9
         DEF Next, ConsumerSteps

(* A slot is claimed only after the room check has counted it.                 *)
LEMMA RoomStep == IInv /\ Next => RoomInv'
  <1> SUFFICES ASSUME IInv, Next PROVE RoomInv'
    OBVIOUS
  <1>r. Distance(tail, headMem) = tail - headMem
    BY RoomExact
  <1> Basics
    BY BasicTypes
  <1> RoomInv /\ ProducerInv /\ BufferInv
    BY DEF IInv
  <1> USE DEF Basics, RoomInv, ProducerInv, BufferInv
  <1>1. CASE UserSteps
    <2>1. CASE PushLoad
      BY <2>1, <1>r DEF PushLoad, HasRoom
    <2>2. CASE Reserve
      BY <2>2, <1>r DEF Reserve, HasRoom
    <2>3. CASE SendLive
      BY <2>3 DEF SendLive
    <2>4. CASE SendDisconnected \/ DropReservation
      BY <2>4 DEF SendDisconnected, DropReservation
    <2>5. CASE DropProducer \/ StartCall \/ DropConsumer
      BY <2>5 DEF DropProducer, StartCall, CallBegins, DropConsumer
    <2> QED BY <1>1, <2>1, <2>2, <2>3, <2>4, <2>5 DEF UserSteps
  <1>2. CASE ProducerSteps
    <2>1. CASE PushRefused \/ PushLive
      BY <2>1 DEF PushRefused, PushLive
    <2>2. CASE PushPublish
      BY <2>2 DEF PushPublish, Publish
    <2>3. CASE SendPublish
      BY <2>3 DEF SendPublish, Publish
    <2>4. CASE SendDone
      BY <2>4 DEF SendDone
    <2>5. CASE ProducerSignals
      BY <2>5 DEF ProducerSignals, Signal, SignalFence, SignalLoad, SignalSwap,
         SignalSet
    <2> QED BY <1>2, <2>1, <2>2, <2>3, <2>4, <2>5 DEF ProducerSteps
  <1>3. CASE TakeSteps
    BY <1>3, TakeFrame
  <1>4. CASE ArmSteps
    BY <1>4, ArmFrame
  <1>5. CASE WaitSteps
    BY <1>5, WaitFrame
  <1>6. CASE WindowsFails
    BY <1>6, FailFrame
  <1>7. CASE ProducerFlushes
    BY <1>7, ProducerFlushFrame
  <1>8. CASE ConsumerFlushes
    <2>1. CASE FlushHead
      BY <2>1 DEF FlushHead
    <2>2. CASE FlushClear
      BY <2>2 DEF FlushClear, FlushFlag
    <2>3. CASE FlushConsumerLive
      BY <2>3 DEF FlushConsumerLive
    <2> QED BY <1>8, <2>1, <2>2, <2>3 DEF ConsumerFlushes
  <1>9. CASE Teardown
    BY <1>9 DEF Teardown
  <1> QED BY <1>1, <1>2, <1>3, <1>4, <1>5, <1>6, <1>7, <1>8, <1>9
         DEF Next, ConsumerSteps

(* The consumer trusts what it has loaded: tail only grows, and once the       *)
(* producer is seen gone it stays gone and has nothing left in its buffer.   *)
LEMMA ConsumerStep == IInv /\ Next => ConsumerInv'
  <1> SUFFICES ASSUME IInv, Next PROVE ConsumerInv'
    OBVIOUS
  <1>e. Ready <=> head # tailMem
    BY EmptyExact
  <1> Basics
    BY BasicTypes
  <1> ConsumerInv /\ BufferInv /\ ProducerInv
    BY DEF IInv
  <1> USE DEF Basics, ConsumerInv, BufferInv, ProducerInv
  <1>1. CASE UserSteps
    <2>1. CASE PushLoad \/ SendLive
      BY <2>1 DEF PushLoad, SendLive
    <2>2. CASE Reserve \/ SendDisconnected \/ DropReservation
      BY <2>2 DEF Reserve, SendDisconnected, DropReservation
    <2>3. CASE DropProducer
      BY <2>3 DEF DropProducer
    <2>4. CASE StartCall \/ DropConsumer
      BY <2>4 DEF StartCall, CallBegins, DropConsumer
    <2> QED BY <1>1, <2>1, <2>2, <2>3, <2>4 DEF UserSteps
  <1>2. CASE ProducerSteps
    BY <1>2, ProducerFrame
  <1>3. CASE TakeSteps
    <2>1. CASE FirstTake(Ready) /\ UNCHANGED queueVars
      BY <2>1, <1>e DEF FirstTake
    <2>2. CASE LastTake(Ready) /\ UNCHANGED queueVars
      BY <2>2, <1>e DEF LastTake
    <2>3. CASE TakeRead
      BY <2>3 DEF TakeRead
    <2>4. CASE PopAnswers(Gone) /\ UNCHANGED queueVars
      BY <2>4 DEF PopAnswers
    <2> QED BY <1>3, <2>1, <2>2, <2>3, <2>4 DEF TakeSteps, Looks
  <1>4. CASE ArmSteps
    <2>1. CASE (ArmBegins \/ ArmFences(ConsumerDrained) \/ ArmAnswers(Ready)) /\ UNCHANGED queueVars
      BY <2>1, <1>e DEF ArmBegins, ArmFences, ClearFence, ArmAnswers
    <2>2. CASE ArmHandle /\ UNCHANGED queueVars
      BY <2>2 DEF ArmHandle, HandleCreate
    <2>3. CASE ArmClears /\ UNCHANGED queueVars
      BY <2>3 DEF ArmClears, Clear, ResetEvent, LowerFlag
    <2> QED BY <1>4, <2>1, <2>2, <2>3 DEF ArmSteps, Arms
  <1>5. CASE WaitSteps
    <2>1. CASE AskGone(Gone) /\ UNCHANGED queueVars
      BY <2>1 DEF AskGone, Gone
    <2>2. CASE (ReportsEnd \/ TimesOut \/ Parks \/ Wakes) /\ UNCHANGED queueVars
      BY <2>2 DEF ReportsEnd, TimesOut, Parks, Wakes
    <2> QED BY <1>5, <2>1, <2>2 DEF WaitSteps, Waits
  <1>6. CASE WindowsFails
    <2>1. CASE ArmHandleFails /\ UNCHANGED queueVars
      BY <2>1 DEF ArmHandleFails, HandleFails
    <2>2. CASE WaitErrs /\ UNCHANGED queueVars
      BY <2>2 DEF WaitErrs
    <2> QED BY <1>6, <2>1, <2>2 DEF WindowsFails, Fails
  <1>7. CASE ProducerFlushes
    <2>1. CASE FlushTail
      BY <2>1 DEF FlushTail
    <2>2. CASE FlushProducerLive
      BY <2>2 DEF FlushProducerLive
    <2> QED BY <1>7, <2>1, <2>2 DEF ProducerFlushes
  <1>8. CASE ConsumerFlushes
    BY <1>8, ConsumerFlushFrame
  <1>9. CASE Teardown
    BY <1>9 DEF Teardown
  <1> QED BY <1>1, <1>2, <1>3, <1>4, <1>5, <1>6, <1>7, <1>8, <1>9
         DEF Next, ConsumerSteps

(* `clear` resets before it lowers, so the flag never outlives the signal.     *)
LEMMA DoorbellStep == IInv /\ Next => DoorbellInv'
  <1> SUFFICES ASSUME IInv, Next PROVE DoorbellInv'
    OBVIOUS
  <1> Basics
    BY BasicTypes
  <1> DoorbellInv /\ ProducerInv
    BY DEF IInv
  <1> USE DEF Basics, DoorbellInv, FlagMirrorsEvent, SettingEvent, ProducerInv
  <1>1. CASE UserSteps
    <2>1. CASE PushLoad \/ SendLive
      BY <2>1 DEF PushLoad, SendLive
    <2>2. CASE Reserve \/ SendDisconnected \/ DropReservation
      BY <2>2 DEF Reserve, SendDisconnected, DropReservation
    <2>3. CASE DropProducer
      BY <2>3 DEF DropProducer
    <2>4. CASE StartCall \/ DropConsumer
      BY <2>4 DEF StartCall, CallBegins, DropConsumer
    <2> QED BY <1>1, <2>1, <2>2, <2>3, <2>4 DEF UserSteps
  <1>2. CASE ProducerSteps
    <2>1. CASE PushRefused \/ PushLive
      BY <2>1 DEF PushRefused, PushLive
    <2>2. CASE PushPublish \/ SendPublish
      BY <2>2 DEF PushPublish, Publish, SendPublish
    <2>3. CASE SendDone
      BY <2>3 DEF SendDone
    <2>4. CASE ProducerSignals
      <3>1. CASE SignalFence(producer, ProducerDrained) \/ SignalLoad(producer)
        BY <2>4, <3>1 DEF ProducerSignals, SignalFence, SignalLoad
      <3>2. CASE SignalSwap(producer)
        BY <2>4, <3>2 DEF ProducerSignals, SignalSwap
      <3>3. CASE SignalSet(producer)
        BY <2>4, <3>3 DEF ProducerSignals, SignalSet
      <3> QED BY <2>4, <3>1, <3>2, <3>3 DEF ProducerSignals, Signal
    <2> QED BY <1>2, <2>1, <2>2, <2>3, <2>4 DEF ProducerSteps
  <1>3. CASE TakeSteps
    <2>1. CASE FirstTake(Ready) /\ UNCHANGED queueVars
      BY <2>1 DEF FirstTake
    <2>2. CASE LastTake(Ready) /\ UNCHANGED queueVars
      BY <2>2 DEF LastTake
    <2>3. CASE TakeRead
      BY <2>3 DEF TakeRead
    <2>4. CASE PopAnswers(Gone) /\ UNCHANGED queueVars
      BY <2>4 DEF PopAnswers
    <2> QED BY <1>3, <2>1, <2>2, <2>3, <2>4 DEF TakeSteps, Looks
  <1>4. CASE ArmSteps
    <2>1. CASE ArmBegins /\ UNCHANGED queueVars
      BY <2>1 DEF ArmBegins
    <2>2. CASE ArmHandle /\ UNCHANGED queueVars
      BY <2>2 DEF ArmHandle, HandleCreate
    <2>3. CASE ArmClears /\ UNCHANGED queueVars
      BY <2>3 DEF ArmClears, Clear, ResetEvent, LowerFlag
    <2>4. CASE ArmFences(ConsumerDrained) /\ UNCHANGED queueVars
      BY <2>4 DEF ArmFences, ClearFence
    <2>5. CASE ArmAnswers(Ready) /\ UNCHANGED queueVars
      BY <2>5 DEF ArmAnswers
    <2> QED BY <1>4, <2>1, <2>2, <2>3, <2>4, <2>5 DEF ArmSteps, Arms
  <1>5. CASE WaitSteps
    <2>1. CASE AskGone(Gone) /\ UNCHANGED queueVars
      BY <2>1 DEF AskGone, Gone
    <2>2. CASE ReportsEnd /\ UNCHANGED queueVars
      BY <2>2 DEF ReportsEnd
    <2>3. CASE TimesOut /\ UNCHANGED queueVars
      BY <2>3 DEF TimesOut
    <2>4. CASE Parks /\ UNCHANGED queueVars
      BY <2>4 DEF Parks
    <2>5. CASE Wakes /\ UNCHANGED queueVars
      BY <2>5 DEF Wakes
    <2> QED BY <1>5, <2>1, <2>2, <2>3, <2>4, <2>5 DEF WaitSteps, Waits
  <1>6. CASE WindowsFails
    <2>1. CASE ArmHandleFails /\ UNCHANGED queueVars
      BY <2>1 DEF ArmHandleFails, HandleFails
    <2>2. CASE WaitErrs /\ UNCHANGED queueVars
      BY <2>2 DEF WaitErrs
    <2> QED BY <1>6, <2>1, <2>2 DEF WindowsFails, Fails
  <1>7. CASE ProducerFlushes
    BY <1>7, ProducerFlushFrame
  <1>8. CASE ConsumerFlushes
    <2>1. CASE FlushHead
      BY <2>1 DEF FlushHead
    <2>2. CASE FlushClear
      BY <2>2 DEF FlushClear, FlushFlag
    <2>3. CASE FlushConsumerLive
      BY <2>3 DEF FlushConsumerLive
    <2> QED BY <1>8, <2>1, <2>2, <2>3 DEF ConsumerFlushes
  <1>9. CASE Teardown
    BY <1>9 DEF Teardown
  <1> QED BY <1>1, <1>2, <1>3, <1>4, <1>5, <1>6, <1>7, <1>8, <1>9
         DEF Next, ConsumerSteps

(* Store, fence, load on both sides: one of the two sees the other.            *)
LEMMA WakeStep == IInv /\ Next => WakeInv'
  <1> SUFFICES ASSUME IInv, Next PROVE WakeInv'
    OBVIOUS
  <1>e. Ready <=> head # tailMem
    BY EmptyExact
  <1> Basics
    BY BasicTypes
  <1> WakeInv /\ DoorbellInv /\ BufferInv /\ ProducerInv
    BY DEF IInv
  <1> USE DEF Basics, WakeInv, DoorbellInv, BufferInv, ProducerInv
  <1>1. CASE UserSteps
    <2>1. CASE PushLoad \/ SendLive
      BY <2>1 DEF PushLoad, SendLive
    <2>2. CASE Reserve \/ SendDisconnected \/ DropReservation
      BY <2>2 DEF Reserve, SendDisconnected, DropReservation
    <2>3. CASE DropProducer
      BY <2>3 DEF DropProducer
    <2>4. CASE StartCall \/ DropConsumer
      BY <2>4 DEF StartCall, CallBegins, DropConsumer
    <2> QED BY <1>1, <2>1, <2>2, <2>3, <2>4 DEF UserSteps
  <1>2. CASE ProducerSteps
    <2>1. CASE PushRefused \/ PushLive
      BY <2>1 DEF PushRefused, PushLive
    <2>2. CASE PushPublish \/ SendPublish
      BY <2>2 DEF PushPublish, Publish, SendPublish
    <2>3. CASE SendDone
      BY <2>3 DEF SendDone
    <2>4. CASE ProducerSignals
      <3>1. CASE SignalFence(producer, ProducerDrained) \/ SignalLoad(producer)
        BY <2>4, <3>1 DEF ProducerSignals, SignalFence, SignalLoad
      <3>2. CASE SignalSwap(producer)
        BY <2>4, <3>2 DEF ProducerSignals, SignalSwap, FlagMirrorsEvent,
           SettingEvent
      <3>3. CASE SignalSet(producer)
        BY <2>4, <3>3 DEF ProducerSignals, SignalSet
      <3> QED BY <2>4, <3>1, <3>2, <3>3 DEF ProducerSignals, Signal
    <2> QED BY <1>2, <2>1, <2>2, <2>3, <2>4 DEF ProducerSteps
  <1>3. CASE TakeSteps
    <2>1. CASE FirstTake(Ready) /\ UNCHANGED queueVars
      BY <2>1 DEF FirstTake
    <2>2. CASE LastTake(Ready) /\ UNCHANGED queueVars
      BY <2>2 DEF LastTake
    <2>3. CASE TakeRead
      BY <2>3 DEF TakeRead
    <2>4. CASE PopAnswers(Gone) /\ UNCHANGED queueVars
      BY <2>4 DEF PopAnswers
    <2> QED BY <1>3, <2>1, <2>2, <2>3, <2>4 DEF TakeSteps, Looks
  <1>4. CASE ArmSteps
    <2>1. CASE ArmBegins /\ UNCHANGED queueVars
      BY <2>1 DEF ArmBegins
    <2>2. CASE ArmHandle /\ UNCHANGED queueVars
      BY <2>2 DEF ArmHandle, HandleCreate
    <2>3. CASE ArmClears /\ UNCHANGED queueVars
      BY <2>3 DEF ArmClears, Clear, ResetEvent, LowerFlag
    <2>4. CASE ArmFences(ConsumerDrained) /\ UNCHANGED queueVars
      BY <2>4 DEF ArmFences, ClearFence
    <2>5. CASE ArmAnswers(Ready) /\ UNCHANGED queueVars
      BY <2>5, <1>e DEF ArmAnswers
    <2> QED BY <1>4, <2>1, <2>2, <2>3, <2>4, <2>5 DEF ArmSteps, Arms
  <1>5. CASE WaitSteps
    <2>1. CASE AskGone(Gone) /\ UNCHANGED queueVars
      BY <2>1 DEF AskGone, Gone
    <2>2. CASE ReportsEnd /\ UNCHANGED queueVars
      BY <2>2 DEF ReportsEnd
    <2>3. CASE TimesOut /\ UNCHANGED queueVars
      BY <2>3 DEF TimesOut
    <2>4. CASE Parks /\ UNCHANGED queueVars
      BY <2>4 DEF Parks
    <2>5. CASE Wakes /\ UNCHANGED queueVars
      BY <2>5 DEF Wakes
    <2> QED BY <1>5, <2>1, <2>2, <2>3, <2>4, <2>5 DEF WaitSteps, Waits
  <1>6. CASE WindowsFails
    <2>1. CASE ArmHandleFails /\ UNCHANGED queueVars
      BY <2>1 DEF ArmHandleFails, HandleFails
    <2>2. CASE WaitErrs /\ UNCHANGED queueVars
      BY <2>2 DEF WaitErrs
    <2> QED BY <1>6, <2>1, <2>2 DEF WindowsFails, Fails
  <1>7. CASE ProducerFlushes
    BY <1>7, ProducerFlushFrame
  <1>8. CASE ConsumerFlushes
    BY <1>8, ConsumerFlushFrame
  <1>9. CASE Teardown
    BY <1>9 DEF Teardown
  <1> QED BY <1>1, <1>2, <1>3, <1>4, <1>5, <1>6, <1>7, <1>8, <1>9
         DEF Next, ConsumerSteps

(* Disconnected comes after the last take, and the last take is final.         *)
LEMMA EndStep == IInv /\ Next => RecvEndIsFinal'
  <1> SUFFICES ASSUME IInv, Next PROVE RecvEndIsFinal'
    OBVIOUS
  <1> Basics
    BY BasicTypes
  <1> RecvEndIsFinal /\ ConsumerInv /\ BufferInv /\ ProducerInv
    BY DEF IInv
  <1> USE DEF Basics, RecvEndIsFinal, ConsumerInv, BufferInv, ProducerInv
  <1>1. CASE UserSteps
    <2>1. CASE PushLoad \/ SendLive
      BY <2>1 DEF PushLoad, SendLive
    <2>2. CASE Reserve \/ SendDisconnected \/ DropReservation
      BY <2>2 DEF Reserve, SendDisconnected, DropReservation
    <2>3. CASE DropProducer
      BY <2>3 DEF DropProducer
    <2>4. CASE StartCall \/ DropConsumer
      BY <2>4 DEF StartCall, CallBegins, DropConsumer
    <2> QED BY <1>1, <2>1, <2>2, <2>3, <2>4 DEF UserSteps
  <1>2. CASE ProducerSteps
    <2>1. CASE PushRefused \/ PushLive
      BY <2>1 DEF PushRefused, PushLive
    <2>2. CASE PushPublish \/ SendPublish
      BY <2>2 DEF PushPublish, Publish, SendPublish
    <2>3. CASE SendDone
      BY <2>3 DEF SendDone
    <2>4. CASE ProducerSignals
      BY <2>4 DEF ProducerSignals, Signal, SignalFence, SignalLoad, SignalSwap,
         SignalSet
    <2> QED BY <1>2, <2>1, <2>2, <2>3, <2>4 DEF ProducerSteps
  <1>3. CASE TakeSteps
    <2>1. CASE FirstTake(Ready) /\ UNCHANGED queueVars
      BY <2>1 DEF FirstTake
    <2>2. CASE LastTake(Ready) /\ UNCHANGED queueVars
      BY <2>2 DEF LastTake
    <2>3. CASE TakeRead
      BY <2>3 DEF TakeRead
    <2>4. CASE PopAnswers(Gone) /\ UNCHANGED queueVars
      BY <2>4 DEF PopAnswers
    <2> QED BY <1>3, <2>1, <2>2, <2>3, <2>4 DEF TakeSteps, Looks
  <1>4. CASE ArmSteps
    BY <1>4, ArmFrame
  <1>5. CASE WaitSteps
    <2>1. CASE AskGone(Gone) /\ UNCHANGED queueVars
      BY <2>1 DEF AskGone, Gone
    <2>2. CASE ReportsEnd /\ UNCHANGED queueVars
      BY <2>2 DEF ReportsEnd
    <2>3. CASE TimesOut /\ UNCHANGED queueVars
      BY <2>3 DEF TimesOut
    <2>4. CASE Parks /\ UNCHANGED queueVars
      BY <2>4 DEF Parks
    <2>5. CASE Wakes /\ UNCHANGED queueVars
      BY <2>5 DEF Wakes
    <2> QED BY <1>5, <2>1, <2>2, <2>3, <2>4, <2>5 DEF WaitSteps, Waits
  <1>6. CASE WindowsFails
    <2>1. CASE ArmHandleFails /\ UNCHANGED queueVars
      BY <2>1 DEF ArmHandleFails, HandleFails
    <2>2. CASE WaitErrs /\ UNCHANGED queueVars
      BY <2>2 DEF WaitErrs
    <2> QED BY <1>6, <2>1, <2>2 DEF WindowsFails, Fails
  <1>7. CASE ProducerFlushes
    BY <1>7, ProducerFlushFrame
  <1>8. CASE ConsumerFlushes
    BY <1>8, ConsumerFlushFrame
  <1>9. CASE Teardown
    BY <1>9 DEF Teardown
  <1> QED BY <1>1, <1>2, <1>3, <1>4, <1>5, <1>6, <1>7, <1>8, <1>9
         DEF Next, ConsumerSteps

(* The sample uses a head that can only be older, so it errs upwards.          *)
LEMMA HighWaterStep == IInv /\ Next => HighWaterBounds'
  <1> SUFFICES ASSUME IInv, Next PROVE HighWaterBounds'
    OBVIOUS
  <1>r. Distance(tail, headMem) = tail - headMem
    BY RoomExact
  <1> Basics
    BY BasicTypes
  <1> HighWaterBounds /\ RoomInv /\ BufferInv /\ ProducerInv
    BY DEF IInv
  <1> USE DEF Basics, HighWaterBounds, RoomInv, BufferInv, ProducerInv
  <1>1. CASE UserSteps
    BY <1>1, UserFrame
  <1>2. CASE ProducerSteps
    <2>1. CASE PushRefused \/ PushLive
      BY <2>1 DEF PushRefused, PushLive
    <2>2. CASE PushPublish \/ SendPublish
      BY <2>2, <1>r DEF PushPublish, Publish, SendPublish
    <2>3. CASE SendDone
      BY <2>3 DEF SendDone
    <2>4. CASE ProducerSignals
      BY <2>4 DEF ProducerSignals, Signal, SignalFence, SignalLoad, SignalSwap,
         SignalSet
    <2> QED BY <1>2, <2>1, <2>2, <2>3, <2>4 DEF ProducerSteps
  <1>3. CASE TakeSteps
    <2>1. CASE FirstTake(Ready) /\ UNCHANGED queueVars
      BY <2>1 DEF FirstTake
    <2>2. CASE LastTake(Ready) /\ UNCHANGED queueVars
      BY <2>2 DEF LastTake
    <2>3. CASE TakeRead
      BY <2>3 DEF TakeRead
    <2>4. CASE PopAnswers(Gone) /\ UNCHANGED queueVars
      BY <2>4 DEF PopAnswers
    <2> QED BY <1>3, <2>1, <2>2, <2>3, <2>4 DEF TakeSteps, Looks
  <1>4. CASE ArmSteps
    BY <1>4, ArmFrame
  <1>5. CASE WaitSteps
    BY <1>5, WaitFrame
  <1>6. CASE WindowsFails
    BY <1>6, FailFrame
  <1>7. CASE ProducerFlushes
    BY <1>7, ProducerFlushFrame
  <1>8. CASE ConsumerFlushes
    BY <1>8, ConsumerFlushFrame
  <1>9. CASE Teardown
    BY <1>9 DEF Teardown
  <1> QED BY <1>1, <1>2, <1>3, <1>4, <1>5, <1>6, <1>7, <1>8, <1>9
         DEF Next, ConsumerSteps
=============================================================================
