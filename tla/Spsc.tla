-------------------------------- MODULE Spsc --------------------------------
(***************************************************************************)
(* The single-producer single-consumer shape (src/spsc.rs) together with   *)
(* the blocking receive loops that park on it (src/blocking.rs).           *)
(*                                                                         *)
(* Memory.  Total store order, as in Doorbell.  A location with one writer *)
(* is a pair: the writer's own view (tail, head, producerLive,             *)
(* consumerLive) and what memory holds (tailMem, headMem, ...).  A store   *)
(* changes the first, a flush brings the second up to date in program      *)
(* order, and the other thread loads the second.                           *)
(***************************************************************************)
EXTENDS Parked, Ring, Sequences

CONSTANT MaxItems           \* bound: items the producer ever publishes

ASSUME BoundAssumption == MaxItems \in Nat

producer == "producer"

ASSUME ProducersAssumption == Producers = {producer}

VARIABLES slots, tail, tailMem, head, headMem,
          producerLive, producerLiveMem, consumerLive, consumerLiveMem,
          reserved,         \* outstanding reservations, the producer's own
          highWater,        \* the deepest publication seen (Metrics)
          ppc,              \* where the producer thread is
          received,         \* history: the items handed to the caller
          disposed          \* history: the items torn down with the queue

positionVars == <<tail, tailMem, head, headMem>>
liveVars == <<producerLive, producerLiveMem, consumerLive, consumerLiveMem>>
producerVars == <<reserved, highWater, ppc>>
consumerVars == <<parkedVars, received>>
queueVars == <<slots, positionVars, liveVars, producerVars, received, disposed>>
vars == <<queueVars, parkedVars, doorbellVars>>

-----------------------------------------------------------------------------
\* The n-th item published is the number n, so an item shows its own place.
NoItem == 0
Items == 1 .. MaxItems

Init ==
  /\ slots = [i \in 0 .. Capacity - 1 |-> NoItem]
  /\ tail = 0 /\ tailMem = 0
  /\ head = 0 /\ headMem = 0
  /\ producerLive = TRUE /\ producerLiveMem = TRUE
  /\ consumerLive = TRUE /\ consumerLiveMem = TRUE
  /\ reserved = 0
  /\ highWater = 0
  /\ ppc = "idle"
  /\ received = << >>
  /\ disposed = {}
  /\ ParkedInit /\ DoorbellInit

\* The producer is between two calls of its own, outside `signal`.
ProducerIdle == ppc = "idle" /\ ring[producer] = "out"

ProducerGoes(from, to) == ppc = from /\ ppc' = to

-----------------------------------------------------------------------------
(* Producer::push, Producer::reserve and Reservation                       *)

\* Mutant: outstanding reservations are forgotten.
HasRoomForgetsReserved == Distance(tail, headMem) < Capacity

\* The room check `push` and `reserve` share, against the head in memory.
HasRoom == Distance(tail, headMem) + reserved < Capacity

PushLoad ==
  /\ ProducerIdle
  /\ tail < MaxItems
  /\ ppc' = IF HasRoom THEN "room" ELSE "full"
  /\ UNCHANGED <<slots, positionVars, liveVars, reserved, highWater, consumerVars,
                 disposed, doorbellVars>>

\* No room: Disconnected when the consumer is gone, else Full.  Either way the
\* item goes back to the caller and nothing has changed.
PushRefused ==
  /\ ProducerGoes("full", "idle")
  /\ UNCHANGED <<slots, positionVars, liveVars, reserved, highWater, consumerVars,
                 disposed, doorbellVars>>

\* Room: the last look at the consumer before publishing.
PushLive ==
  /\ ProducerGoes("room", IF consumerLiveMem THEN "push" ELSE "idle")
  /\ UNCHANGED <<slots, positionVars, liveVars, reserved, highWater, consumerVars,
                 disposed, doorbellVars>>

\* Mutant: the depth is sampled without the item being published.
PublishSamplesLow(from, to) ==
  /\ ProducerGoes(from, to)
  /\ LET depth == Distance(tail, headMem)
     IN  highWater' = IF depth > highWater THEN depth ELSE highWater
  /\ slots' = [slots EXCEPT ![Index(tail)] = tail + 1]
  /\ tail' = tail + 1
  /\ EnterSignal(producer)
  /\ UNCHANGED <<tailMem, head, headMem, liveVars, reserved, consumerVars, disposed,
                 event, lit, signalled, clearing, rest>>

\* Shared::publish: sample the depth, write the slot, store tail, then signal.
Publish(from, to) ==
  /\ ProducerGoes(from, to)
  /\ LET depth == Distance(tail, headMem) + 1
     IN  highWater' = IF depth > highWater THEN depth ELSE highWater
  /\ slots' = [slots EXCEPT ![Index(tail)] = tail + 1]
  /\ tail' = tail + 1
  /\ EnterSignal(producer)
  /\ UNCHANGED <<tailMem, head, headMem, liveVars, reserved, consumerVars, disposed,
                 event, lit, signalled, clearing, rest>>

PushPublish == Publish("push", "idle")

Reserve ==
  /\ ProducerIdle
  /\ HasRoom
  /\ reserved' = reserved + 1
  /\ UNCHANGED <<slots, positionVars, liveVars, highWater, ppc, consumerVars,
                 disposed, doorbellVars>>

\* Reservation::send: the consumer is gone, and dropping self frees the slot.
SendDisconnected ==
  /\ ProducerIdle
  /\ reserved > 0
  /\ ~consumerLiveMem
  /\ reserved' = reserved - 1
  /\ UNCHANGED <<slots, positionVars, liveVars, highWater, ppc, consumerVars,
                 disposed, doorbellVars>>

\* Reservation::send: no room check, the reservation stands for the room.
SendLive ==
  /\ ProducerIdle
  /\ reserved > 0
  /\ tail < MaxItems
  /\ consumerLiveMem
  /\ ppc' = "send"
  /\ UNCHANGED <<slots, positionVars, liveVars, reserved, highWater, consumerVars,
                 disposed, doorbellVars>>

SendPublish == Publish("send", "sent")

\* Mutant: the Drop that `mem::forget` suppresses runs as well.
SendDoneDropsToo ==
  /\ ring[producer] = "out"
  /\ ProducerGoes("sent", "idle")
  /\ reserved' = reserved - 2
  /\ UNCHANGED <<slots, positionVars, liveVars, highWater, consumerVars, disposed,
                 doorbellVars>>

\* The reservation is given up only after `signal` has returned.
SendDone ==
  /\ ring[producer] = "out"
  /\ ProducerGoes("sent", "idle")
  /\ reserved' = reserved - 1
  /\ UNCHANGED <<slots, positionVars, liveVars, highWater, consumerVars, disposed,
                 doorbellVars>>

\* Drop for Reservation
DropReservation ==
  /\ ProducerIdle
  /\ reserved > 0
  /\ reserved' = reserved - 1
  /\ UNCHANGED <<slots, positionVars, liveVars, highWater, ppc, consumerVars,
                 disposed, doorbellVars>>

\* Drop for Producer.  A reservation borrows the producer, so none is left.
DropProducer ==
  /\ ProducerIdle
  /\ reserved = 0
  /\ ppc' = "gone"
  /\ producerLive' = FALSE
  /\ EnterSignal(producer)
  /\ UNCHANGED <<slots, positionVars, producerLiveMem, consumerLive, consumerLiveMem,
                 reserved, highWater, consumerVars, disposed,
                 event, lit, signalled, clearing, rest>>

\* The producer's buffered stores reach memory, oldest first.
FlushTail ==
  /\ tailMem # tail
  /\ tailMem' = tail
  /\ UNCHANGED <<slots, tail, head, headMem, liveVars, producerVars, consumerVars,
                 disposed, doorbellVars>>

FlushProducerLive ==
  /\ tailMem = tail
  /\ producerLiveMem # producerLive
  /\ producerLiveMem' = producerLive
  /\ UNCHANGED <<slots, positionVars, producerLive, consumerLive, consumerLiveMem,
                 producerVars, consumerVars, disposed, doorbellVars>>

ProducerDrained == tailMem = tail /\ producerLiveMem = producerLive

ProducerSignals ==
  /\ Signal(producer, ProducerDrained)
  /\ UNCHANGED <<slots, positionVars, liveVars, producerVars, consumerVars, disposed>>

-----------------------------------------------------------------------------
(* Consumer::pop, recv and recv_timeout                                    *)

\* What the receive loop asks of the queue: `take` and `arm` compare the
\* consumer's head with the tail in memory.
Ready == Low(head) # Low(tailMem)

Gone == ~producerLiveMem

ConsumerDrained == headMem = head /\ consumerLiveMem = consumerLive

StartCall == CallBegins /\ UNCHANGED queueVars

\* Consumer::take with an item there: read the slot, then store head.
TakeRead ==
  /\ Returns("read", "item")
  /\ received' = Append(received, slots[Index(head)])
  /\ head' = head + 1
  /\ UNCHANGED <<slots, tail, tailMem, headMem, liveVars, producerVars, disposed,
                 doorbellVars>>

\* Drop for Consumer: no signal, the producer never sleeps.
DropConsumer ==
  /\ ConsumerGoes("idle", "gone")
  /\ consumerLive' = FALSE
  /\ UNCHANGED <<slots, positionVars, producerLive, producerLiveMem, consumerLiveMem,
                 producerVars, received, disposed, doorbellVars>>

\* The consumer's buffered stores reach memory, oldest first.
FlushHead ==
  /\ headMem # head
  /\ headMem' = headMem + 1
  /\ UNCHANGED <<slots, tail, tailMem, head, liveVars, producerVars, consumerVars,
                 disposed, doorbellVars>>

FlushClear ==
  /\ FlushFlag(headMem = head)
  /\ UNCHANGED <<slots, positionVars, liveVars, producerVars, consumerVars, disposed>>

FlushConsumerLive ==
  /\ headMem = head
  /\ consumerLiveMem # consumerLive
  /\ consumerLiveMem' = consumerLive
  /\ UNCHANGED <<slots, positionVars, producerLive, producerLiveMem, consumerLive,
                 producerVars, consumerVars, disposed, doorbellVars>>

\* Mutant: teardown walks the slots the consumer last saw published.
TeardownStale ==
  /\ ppc = "gone" /\ ring[producer] = "out" /\ ProducerDrained
  /\ cpc = "gone" /\ ConsumerDrained
  /\ ppc' = "torn"
  /\ disposed' = {slots[Index(p)] : p \in head + 1 .. tail - 1}
  /\ UNCHANGED <<slots, positionVars, liveVars, reserved, highWater, consumerVars,
                 doorbellVars>>

\* Drop for Shared: the last Arc is gone, and every item left is disposed of.
Teardown ==
  /\ ppc = "gone" /\ ring[producer] = "out" /\ ProducerDrained
  /\ cpc = "gone" /\ ConsumerDrained
  /\ ppc' = "torn"
  /\ disposed' = {slots[Index(p)] : p \in head .. tail - 1}
  /\ UNCHANGED <<slots, positionVars, liveVars, reserved, highWater, consumerVars,
                 doorbellVars>>

-----------------------------------------------------------------------------
\* Steps a thread takes only because its user asks for the next operation.
UserSteps ==
  \/ PushLoad \/ Reserve \/ SendLive \/ SendDisconnected \/ DropReservation
  \/ DropProducer \/ StartCall \/ DropConsumer

\* Steps a running thread takes by itself inside an operation.
ProducerSteps ==
  \/ PushRefused \/ PushLive \/ PushPublish \/ SendPublish \/ SendDone
  \/ ProducerSignals

TakeSteps == TakeRead \/ (Looks(Ready, Gone) /\ UNCHANGED queueVars)
ArmSteps == Arms(Ready, ConsumerDrained) /\ UNCHANGED queueVars
WaitSteps == Waits(Gone) /\ UNCHANGED queueVars

ConsumerSteps == TakeSteps \/ ArmSteps \/ WaitSteps

WindowsFails == Fails /\ UNCHANGED queueVars

ProducerFlushes == FlushTail \/ FlushProducerLive
ConsumerFlushes == FlushHead \/ FlushClear \/ FlushConsumerLive

Next ==
  \/ UserSteps \/ ProducerSteps \/ ConsumerSteps \/ WindowsFails
  \/ ProducerFlushes \/ ConsumerFlushes \/ Teardown

Spec == Init /\ [][Next]_vars

\* A thread inside a call keeps running and a store buffer drains.  Nothing is
\* assumed of the user: no call need ever be made, and no Windows call need fail.
Fairness ==
  /\ WF_vars(ProducerSteps) /\ WF_vars(ConsumerSteps)
  /\ WF_vars(ProducerFlushes) /\ WF_vars(ConsumerFlushes)

FairSpec == Spec /\ Fairness

-----------------------------------------------------------------------------
(* Properties                                                              *)

TypeOK ==
  /\ ParkedTypeOK /\ DoorbellTypeOK
  /\ slots \in [0 .. Capacity - 1 -> Items \cup {NoItem}]
  /\ tail \in 0 .. MaxItems /\ tailMem \in 0 .. MaxItems
  /\ head \in Nat /\ headMem \in Nat
  /\ producerLive \in BOOLEAN /\ producerLiveMem \in BOOLEAN
  /\ consumerLive \in BOOLEAN /\ consumerLiveMem \in BOOLEAN
  /\ reserved \in 0 .. Capacity
  /\ highWater \in Nat
  /\ ppc \in {"idle", "room", "full", "push", "send", "sent", "gone", "torn"}
  /\ received \in Seq(Items \cup {NoItem})
  /\ disposed \in SUBSET (Items \cup {NoItem})

\* No lost wakeup (doorbell.rs "signal", spsc.rs "arm"): whenever the consumer
\* sleeps and there is an item to take, or the stream has ended, its event is
\* lit or a producer inside `signal` is certain to light it.
NoLostWakeup ==
  cpc = "wait" /\ (head # tail \/ ~producerLive) => RingDue

\* FIFO and no overwrite (SAFETY comments of `publish` and `take`): the n-th item
\* received is the n-th item published, so no slot is written while it holds an
\* unread item, and none is read before it is written or twice.
ReceivedInOrder == \A i \in 1 .. Len(received) : received[i] = i

\* Reservations that still withhold a slot: a redeemed one is counted until
\* `signal` returns, but its slot is already among the occupied ones.
Withheld == IF ppc = "sent" THEN reserved - 1 ELSE reserved

\* Reserved is guaranteed: unread items and withheld slots fit the ring, also
\* while a push that passed its room check has still to publish.
CapacityKept ==
  (tail - head) + Withheld + (IF ppc \in {"room", "push"} THEN 1 ELSE 0) <= Capacity

\* recv and recv_timeout report the end of the stream only when the producer is
\* gone and every item it published has been received.
RecvEndIsFinal ==
  result = "Disconnected" /\ call # "pop" => ~producerLive /\ head = tail

\* "`pop` reports `Disconnected` only once the queue is genuinely empty"
\* (README.md, step 3 of the waiting protocol).
PopEndIsFinal ==
  result = "Disconnected" /\ call = "pop" => ~producerLive /\ head = tail

\* Observable::high_water: never below the depth the queue has, and never above
\* the capacity, although it is sampled against a stale head.
HighWaterBounds == tail - head <= highWater /\ highWater <= Capacity

\* Every published item is received or disposed of, and no item is both.
Accounted ==
  ppc = "torn" =>
    /\ disposed \cup {received[i] : i \in 1 .. Len(received)} = 1 .. tail
    /\ disposed \cap {received[i] : i \in 1 .. Len(received)} = {}

\* What the consumer may rely on: every published item once, in order, and from
\* the blocking receives the end of the stream only after the last of them.
StreamIntact == ReceivedInOrder /\ Accounted /\ RecvEndIsFinal

\* A receive that blocks comes back once there is something to come back for:
\* an item published and not yet received, or the end of the stream.
RecvReturns ==
  (Receiving /\ (head # tail \/ ~producerLive)) ~> cpc = "idle"

\* The queue Spsc is meant to be.  Its items are those published and not yet taken;
\* a push that passed its room check holds the slot it found.
WaitingItems == [i \in 1 .. tail - head |-> head + i]
HeldSlots == Withheld + (IF ppc \in {"room", "push"} THEN 1 ELSE 0)
EndTold == result = "Disconnected" /\ call # "pop"

Promise == INSTANCE BoundedQueue WITH
  Bound <- Capacity, Item <- Items, waiting <- WaitingItems, held <- HeldSlots,
  taken <- received, closed <- ~producerLive, told <- EndTold, disposed <- disposed

\* Spsc implements the bounded queue: whatever the two threads' interleaving and
\* the delay of their stores, every step is one of its steps or none.
ImplementsQueue == Promise!Spec
=============================================================================
