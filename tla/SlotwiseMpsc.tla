---------------------------- MODULE SlotwiseMpsc ----------------------------
(***************************************************************************)
(* The multi-producer shape whose slots carry sequence numbers             *)
(* (src/slotwise_mpsc.rs).  A producer claims a position with a            *)
(* compare-and-swap on tail, writes the slot and publishes it by storing   *)
(* position + 1 in its sequence; the consumer takes the slot at head once  *)
(* it is published and frees it for the next lap.                          *)
(*                                                                         *)
(* Memory is total store order, as in Doorbell: tail and the handle count  *)
(* change only by read-modify-writes; a publication waits in its           *)
(* producer's buffer (pending) and the consumer's two stores per take wait *)
(* in its own (head before headMem, freed before freedMem).                *)
(***************************************************************************)
EXTENDS Parked, Ring, Sequences, FiniteSets

CONSTANTS MaxItems,         \* bound: positions ever claimed
          MaxLag            \* bound: claims made while a producer holds a stale tail

ASSUME SlotwiseAssumption ==
  /\ MaxItems \in Nat /\ MaxLag \in Nat
  /\ Capacity >= 2 /\ MaxLag + Capacity <= PositionModulus \div 2

VARIABLES slots, sequence,  \* the ring: items, and the sequence of each slot
          tail,             \* the claim counter
          head, headMem,    \* the consumer's position: its own view, memory's
          freed, freedMem,  \* slots it has freed: stores made, stores landed
          handles,          \* the count of live producer handles
          consumerLive, consumerLiveMem,
          highWater,
          ppc,              \* where each producer is
          position,         \* its local of that name
          pending,          \* its publication is still in its store buffer
          received, disposed

ringVars == <<slots, sequence, tail, head, headMem, freed, freedMem>>
liveVars == <<handles, consumerLive, consumerLiveMem>>
pushVars == <<highWater, ppc, position, pending>>
queueVars == <<ringVars, liveVars, pushVars, received, disposed>>
vars == <<queueVars, parkedVars, doorbellVars>>

-----------------------------------------------------------------------------
\* An item is named by the position it was claimed at, counted from one.
NoItem == 0
Items == 1 .. MaxItems

\* The first producer handle; the others come from `clone`.
First == CHOOSE t \in Producers : TRUE

Init ==
  /\ slots = [i \in 0 .. Capacity - 1 |-> NoItem]
  /\ sequence = [i \in 0 .. Capacity - 1 |-> i]
  /\ tail = 0 /\ head = 0 /\ headMem = 0 /\ freed = 0 /\ freedMem = 0
  /\ handles = 1
  /\ consumerLive = TRUE /\ consumerLiveMem = TRUE
  /\ highWater = 0
  /\ ppc = [t \in Producers |-> IF t = First THEN "idle" ELSE "unborn"]
  /\ position = [t \in Producers |-> 0]
  /\ pending = [t \in Producers |-> FALSE]
  /\ received = << >> /\ disposed = {}
  /\ ParkedInit /\ DoorbellInit

ProducerIdle(t) == ppc[t] = "idle" /\ ring[t] = "out"

ProducerGoes(t, from, to) == ppc[t] = from /\ ppc' = [ppc EXCEPT ![t] = to]

\* sequence.wrapping_sub(position) as a signed number
SignedDistance(s, p) ==
  LET d == Distance(s, p)
  IN  IF d < PositionModulus \div 2 THEN d ELSE d - PositionModulus

-----------------------------------------------------------------------------
(* Producer::push                                                          *)

PushLoad(t) ==
  /\ ProducerIdle(t)
  /\ tail < MaxItems
  /\ ppc' = [ppc EXCEPT ![t] = "look"]
  /\ position' = [position EXCEPT ![t] = tail]
  /\ UNCHANGED <<ringVars, liveVars, highWater, pending, received, disposed,
                 parkedVars, doorbellVars>>

\* Mutant: any sequence but the expected one is taken for a full queue.
PushVerdictHasty(difference) == IF difference = 0 THEN "live" ELSE "refuse"

\* Mutant: an off-by-one takes a slot that is still unread for a free one.
PushVerdictOffByOne(difference) ==
  IF difference < -1 THEN "refuse" ELSE IF difference > 0 THEN "reload" ELSE "live"

\* What the slot's sequence says of the proposed position.
PushVerdict(difference) ==
  IF difference < 0 THEN "refuse" ELSE IF difference > 0 THEN "reload" ELSE "live"

PushLook(t) ==
  /\ ProducerGoes(t, "look",
       PushVerdict(SignedDistance(sequence[Index(position[t])], position[t])))
  /\ UNCHANGED <<ringVars, liveVars, highWater, position, pending, received, disposed,
                 parkedVars, doorbellVars>>

\* Disconnected when the consumer is gone, else Full: the item goes back.
PushRefused(t) ==
  /\ ProducerGoes(t, "refuse", "idle")
  /\ UNCHANGED <<ringVars, liveVars, highWater, position, pending, received, disposed,
                 parkedVars, doorbellVars>>

\* Another producer got in: take the tail as it is now.
PushReload(t) ==
  /\ ProducerGoes(t, "reload", "look")
  /\ position' = [position EXCEPT ![t] = tail]
  /\ UNCHANGED <<ringVars, liveVars, highWater, pending, received, disposed,
                 parkedVars, doorbellVars>>

PushLive(t) ==
  /\ ProducerGoes(t, "live", IF consumerLiveMem THEN "claim" ELSE "idle")
  /\ UNCHANGED <<ringVars, liveVars, highWater, position, pending, received, disposed,
                 parkedVars, doorbellVars>>

\* No producer sleeps through a quarter of the position range between its load
\* of tail and its use of it.
LagBounded == \A u \in Producers :
  ppc[u] \in {"look", "reload", "live", "claim"} => tail - position[u] < MaxLag

\* Mutant: the tail is advanced whether or not it is still the proposed position.
PushClaimsBlindly(t) ==
  /\ tail < MaxItems /\ LagBounded
  /\ ProducerGoes(t, "claim", "write")
  /\ tail' = tail + 1
  /\ UNCHANGED <<slots, sequence, head, headMem, freed, freedMem, liveVars, highWater,
                 position, pending, received, disposed, parkedVars, doorbellVars>>

\* compare_exchange_weak on tail: the claim.
PushClaims(t) ==
  /\ tail < MaxItems /\ LagBounded
  /\ Low(tail) = Low(position[t])
  /\ ProducerGoes(t, "claim", "write")
  /\ tail' = tail + 1
  /\ UNCHANGED <<slots, sequence, head, headMem, freed, freedMem, liveVars, highWater,
                 position, pending, received, disposed, parkedVars, doorbellVars>>

\* It fails, for a stale position or for no reason, and hands back the tail.
PushMisses(t) ==
  /\ ProducerGoes(t, "claim", "look")
  /\ position' = [position EXCEPT ![t] = tail]
  /\ UNCHANGED <<ringVars, liveVars, highWater, pending, received, disposed,
                 parkedVars, doorbellVars>>

Sampled(t) ==
  LET depth == Low(Distance(position[t], headMem) + 1)
  IN  IF depth > highWater THEN depth ELSE highWater

\* The claimed slot is written; nobody reads it before the sequence says so.
PushWrites(t) ==
  /\ ProducerGoes(t, "write", "sample")
  /\ slots' = [slots EXCEPT ![Index(position[t])] = position[t] + 1]
  /\ UNCHANGED <<sequence, tail, head, headMem, freed, freedMem, liveVars, highWater,
                 position, pending, received, disposed, parkedVars, doorbellVars>>

\* The depth is sampled, then the sequence stored, then the doorbell rung.
PushPublishes(t) ==
  \/ /\ ProducerGoes(t, "sample", "publish")
     /\ highWater' = Sampled(t)
     /\ UNCHANGED <<ringVars, liveVars, position, pending, received, disposed,
                    parkedVars, doorbellVars>>
  \/ /\ ProducerGoes(t, "publish", "idle")
     /\ pending' = [pending EXCEPT ![t] = TRUE]
     /\ EnterSignal(t)
     /\ UNCHANGED <<ringVars, liveVars, highWater, position, received, disposed,
                    parkedVars, event, lit, signalled, clearing, rest>>

\* The buffered publication reaches memory.
FlushPublish(t) ==
  /\ pending[t]
  /\ pending' = [pending EXCEPT ![t] = FALSE]
  /\ sequence' = [sequence EXCEPT ![Index(position[t])] = position[t] + 1]
  /\ UNCHANGED <<slots, tail, head, headMem, freed, freedMem, liveVars, highWater,
                 ppc, position, received, disposed, parkedVars, doorbellVars>>

ProducerSignals(t) == Signal(t, ~pending[t]) /\ UNCHANGED <<queueVars, parkedVars>>

-----------------------------------------------------------------------------
(* Clone and Drop of a producer handle                                 *)

\* Mutant: the new handle is not counted.
CloneUncounted(t, u) ==
  /\ ProducerIdle(t)
  /\ ProducerGoes(u, "unborn", "idle")
  /\ UNCHANGED <<ringVars, liveVars, highWater, position, pending, received, disposed,
                 parkedVars, doorbellVars>>

Clone(t, u) ==
  /\ ProducerIdle(t)
  /\ ProducerGoes(u, "unborn", "idle")
  /\ handles' = handles + 1
  /\ UNCHANGED <<ringVars, consumerLive, consumerLiveMem, highWater, position,
                 pending, received, disposed, parkedVars, doorbellVars>>

\* Mutant: the wrong departure rings.
LastHandleOffByOne == handles = 2

\* fetch_sub returned 1: this was the last handle.
LastHandle == handles = 1

DropProducer(t) ==
  /\ ProducerIdle(t)
  /\ ppc' = [ppc EXCEPT ![t] = "gone"]
  /\ handles' = handles - 1
  /\ IF LastHandle THEN EnterSignal(t) ELSE UNCHANGED ring
  /\ UNCHANGED <<ringVars, consumerLive, consumerLiveMem, highWater, position,
                 pending, received, disposed, parkedVars, event, lit, signalled,
                 clearing, rest>>

-----------------------------------------------------------------------------
(* The consumer                                                            *)

\* The slot at head is published.  A store of the consumer's own to that slot
\* that is still buffered belongs to an earlier lap and changes no answer.
Ready == Low(sequence[Index(head)]) = Low(head + 1)

Gone == handles = 0

ConsumerDrained ==
  headMem = head /\ freedMem = freed /\ consumerLiveMem = consumerLive

StartCall == CallBegins /\ UNCHANGED queueVars

\* Consumer::take: read the item and store head ...
TakeRead ==
  /\ ConsumerGoes("read", "free")
  /\ received' = Append(received, slots[Index(head)])
  /\ head' = head + 1
  /\ UNCHANGED <<slots, sequence, tail, headMem, freed, freedMem, liveVars, pushVars,
                 disposed, doorbellVars>>

\* ... and then free the slot.
TakeFree ==
  /\ Returns("free", "item")
  /\ freed' = freed + 1
  /\ UNCHANGED <<slots, sequence, tail, head, headMem, freedMem, liveVars, pushVars,
                 received, disposed, doorbellVars>>

FlushHead(turn) ==
  /\ turn /\ headMem < head
  /\ headMem' = headMem + 1
  /\ UNCHANGED <<slots, sequence, tail, head, freed, freedMem, liveVars, highWater,
                 ppc, position, pending, received, disposed, parkedVars,
                 doorbellVars>>

FlushFree(turn) ==
  /\ turn /\ freedMem < freed
  /\ freedMem' = freedMem + 1
  /\ sequence' = [sequence EXCEPT ![Index(freedMem)] = freedMem + Capacity]
  /\ UNCHANGED <<slots, tail, head, headMem, freed, liveVars, pushVars, received,
                 disposed, parkedVars, doorbellVars>>

\* Mutant: the slot is freed before the head moves.
FlushTakeFreeFirst == FlushHead(headMem < freedMem) \/ FlushFree(headMem = freedMem)

\* A take's two stores land in the order they are made.
FlushTake == FlushHead(headMem = freedMem) \/ FlushFree(freedMem < headMem)

FlushClear ==
  /\ FlushFlag(headMem = head /\ freedMem = freed)
  /\ UNCHANGED <<queueVars, parkedVars>>

DropConsumer ==
  /\ ConsumerGoes("idle", "gone")
  /\ consumerLive' = FALSE
  /\ UNCHANGED <<ringVars, handles, consumerLiveMem, pushVars, received, disposed,
                 doorbellVars>>

FlushConsumerLive ==
  /\ headMem = head /\ freedMem = freed
  /\ consumerLiveMem # consumerLive
  /\ consumerLiveMem' = consumerLive
  /\ UNCHANGED <<ringVars, handles, consumerLive, pushVars, received, disposed,
                 parkedVars, doorbellVars>>

\* Drop for Shared: of the positions from head to tail, the published ones.
Teardown ==
  /\ handles = 0 /\ \A t \in Producers : ring[t] = "out" /\ ~pending[t]
  /\ cpc = "gone" /\ ConsumerDrained
  /\ disposed = {}
  /\ disposed' = {NoItem} \cup
       {slots[Index(p)] : p \in {q \in head .. tail - 1 :
                                   Low(sequence[Index(q)]) = Low(q + 1)}}
  /\ UNCHANGED <<ringVars, liveVars, pushVars, received, parkedVars, doorbellVars>>

-----------------------------------------------------------------------------
PushSteps(t) ==
  \/ PushLook(t) \/ PushRefused(t) \/ PushReload(t) \/ PushLive(t) \/ PushClaims(t)
  \/ PushMisses(t) \/ PushWrites(t) \/ PushPublishes(t)

ProducerSteps(t) == PushSteps(t) \/ ProducerSignals(t)

ConsumerSteps ==
  \/ TakeRead \/ TakeFree
  \/ (Looks(Ready, Gone) \/ Arms(Ready, ConsumerDrained) \/ Waits(Gone)) /\ UNCHANGED queueVars

ConsumerFlushes == FlushTake \/ FlushClear \/ FlushConsumerLive

UserSteps ==
  \/ StartCall \/ DropConsumer
  \/ \E t \in Producers :
       PushLoad(t) \/ DropProducer(t) \/ \E u \in Producers : Clone(t, u)

Next ==
  \/ UserSteps
  \/ \E t \in Producers : ProducerSteps(t) \/ FlushPublish(t)
  \/ ConsumerSteps \/ ConsumerFlushes
  \/ Fails /\ UNCHANGED queueVars
  \/ Teardown

Spec == Init /\ [][Next]_vars

-----------------------------------------------------------------------------
(* Properties                                                              *)

TypeOK ==
  /\ ParkedTypeOK /\ DoorbellTypeOK
  /\ slots \in [0 .. Capacity - 1 -> Items \cup {NoItem}]
  /\ sequence \in [0 .. Capacity - 1 -> Nat]
  /\ tail \in 0 .. MaxItems
  /\ head \in Nat /\ headMem \in Nat /\ freed \in Nat /\ freedMem \in Nat
  /\ handles \in 0 .. Cardinality(Producers)
  /\ consumerLive \in BOOLEAN /\ consumerLiveMem \in BOOLEAN
  /\ highWater \in Nat
  /\ ppc \in [Producers -> {"unborn", "idle", "look", "refuse", "reload", "live", "claim",
                            "write", "sample", "publish", "gone"}]
  /\ position \in [Producers -> 0 .. MaxItems]
  /\ pending \in [Producers -> BOOLEAN]
  /\ received \in Seq(Items \cup {NoItem})
  /\ disposed \subseteq Items \cup {NoItem}

\* The item at head is published, in memory or in its producer's buffer.
Published ==
  \/ Ready
  \/ \E t \in Producers : pending[t] /\ position[t] = head

\* No lost wakeup with several producers (slotwise_mpsc.rs "arm", second case):
\* a consumer asleep while the item at head is published, or while no producer
\* is left, has a lit event or a `signal` under way that will light it.
NoLostWakeup == cpc = "wait" /\ (Published \/ Gone) => RingDue

\* "A depth cannot exceed the capacity" (debug_assert in `push`): the mark never
\* shows a depth the ring cannot hold, whatever head the producer read.
HighWaterWithinCapacity == highWater <= Capacity

\* "because positions are claimed in order it is full outright" (`push`): a
\* producer turns to refusal only while every slot is claimed or still unfreed.
RefusedOnlyWhenFull ==
  [][\A t \in Producers :
       ppc[t] = "look" /\ ppc'[t] = "refuse" => tail - freedMem >= Capacity]_vars

\* The queue this shape is meant to be: an item is in it from the moment its
\* position is claimed, though the consumer waits until it is published.
Promise == INSTANCE BoundedQueue WITH
  Bound <- Capacity, Item <- Items,
  waiting <- [i \in 1 .. tail - head |-> head + i],
  held <- 0,
  taken <- received,
  closed <- handles = 0,
  told <- result = "Disconnected" /\ call # "pop",
  disposed <- disposed \ {NoItem}

\* SlotwiseMpsc implements the bounded queue, linearised at the claim: the items
\* come out once each in claim order, never more than the capacity is in, and
\* the end is reported only after the last of them.
ImplementsQueue == Promise!Spec
=============================================================================
