--------------------------- MODULE ReservingMpsc ----------------------------
(***************************************************************************)
(* The multi-producer shape with reservations (src/reserving_mpsc.rs).     *)
(* One claim word holds the count of outstanding reservations and the next *)
(* position; push, reserve, send and dropping a reservation each move it   *)
(* with one compare-and-swap.  A reservation is owned and may be redeemed  *)
(* by any thread; it counts as a producer until it is.                     *)
(*                                                                         *)
(* Memory is total store order, as in Doorbell: the claim word and the     *)
(* producer count change by read-modify-writes, a publication waits in its *)
(* thread's buffer (pending) and the consumer's head in its own (headMem). *)
(* The gauge of the deepest publication, which nothing here reads, is left *)
(* to SlotwiseMpsc.                                                        *)
(***************************************************************************)
EXTENDS Parked, Ring, Sequences, FiniteSets

CONSTANTS MaxReserved,      \* L::MAX_RESERVED: what the layout's count can hold
          MaxItems,         \* bound: positions ever claimed
          MaxLag            \* bound: claims made while a thread holds a stale word

ASSUME ReservingAssumption ==
  /\ MaxReserved \in Nat /\ MaxItems \in Nat /\ MaxLag \in Nat
  /\ Capacity >= 2 /\ MaxLag < PositionModulus

VARIABLES slots, sequence,
          claim,            \* [reserved, position]
          head, headMem,
          producers,        \* producer handles and outstanding reservations alive
          consumerLive, consumerLiveMem,
          handle,           \* which threads hold a Producer
          idleReservations, \* Reservation values that no thread is using
          ppc, op,          \* where each thread is, and in which operation
          word,             \* its copy of the claim word, while it has a use for it
          position,         \* the position it has claimed
          pending,          \* its publication is still in its store buffer
          wasFull,          \* history: the queue had no room when word was loaded
          received, disposed

ringVars == <<slots, sequence, claim, head, headMem>>
liveVars == <<producers, consumerLive, consumerLiveMem>>
threadVars == <<ppc, op, word, position, pending, wasFull>>
ownVars == <<handle, idleReservations>>
historyVars == <<received, disposed>>
queueVars == <<ringVars, liveVars, threadVars, ownVars, historyVars>>
vars == <<queueVars, parkedVars, doorbellVars>>

-----------------------------------------------------------------------------
NoItem == 0
Items == 1 .. MaxItems
Operations == {"none", "push", "reserve", "send", "cancel", "drop"}
Claiming == {"room", "recheck", "refuse", "live", "claim"}
NoWord == [reserved |-> 0, position |-> 0]

Init ==
  /\ slots = [i \in 0 .. Capacity - 1 |-> NoItem]
  /\ sequence = [i \in 0 .. Capacity - 1 |-> i]
  /\ claim = NoWord
  /\ head = 0 /\ headMem = 0
  /\ producers = 1
  /\ consumerLive = TRUE /\ consumerLiveMem = TRUE
  /\ handle \in {{t} : t \in Producers} /\ idleReservations = 0
  /\ ppc = [t \in Producers |-> "idle"]
  /\ op = [t \in Producers |-> "none"]
  /\ word = [t \in Producers |-> NoWord]
  /\ position = [t \in Producers |-> 0]
  /\ pending = [t \in Producers |-> FALSE]
  /\ wasFull = [t \in Producers |-> FALSE]
  /\ received = << >> /\ disposed = {}
  /\ ParkedInit /\ DoorbellInit

Idle(t) == ppc[t] = "idle" /\ ring[t] = "out"

Moves(t, from, to) ==
  /\ ppc[t] = from
  /\ ppc' = [ppc EXCEPT ![t] = to]
  /\ op' = [op EXCEPT ![t] = IF to = "idle" THEN "none" ELSE @]

\* A step that loads no word; the copy is forgotten once the operation has its
\* answer or its exchange.
Goes(t, from, to) ==
  /\ Moves(t, from, to)
  /\ word' = [word EXCEPT ![t] = IF to \in Claiming THEN @ ELSE NoWord]
  /\ wasFull' = [wasFull EXCEPT ![t] = to \in Claiming /\ @]

\* Mutant: only the counts are compared.
SameWordForgetsPosition(v, w) == v.reserved = w.reserved

\* Two claim words are the same bits.
SameWord(v, w) == v.reserved = w.reserved /\ Low(v.position) = Low(w.position)

\* The claim word is loaded, or handed back by a failed exchange.
Loads(t) ==
  /\ word' = [word EXCEPT ![t] = claim]
  /\ wasFull' = [wasFull EXCEPT ![t] =
                   (claim.position - headMem) + claim.reserved >= Capacity]

-----------------------------------------------------------------------------
(* The operations begin by loading the claim word.                         *)

PushBegins(t) ==
  /\ t \in handle /\ claim.position < MaxItems
  /\ op' = [op EXCEPT ![t] = "push"] /\ ppc' = [ppc EXCEPT ![t] = "room"]
  /\ UNCHANGED idleReservations

ReserveBegins(t) ==
  /\ t \in handle
  /\ op' = [op EXCEPT ![t] = "reserve"] /\ ppc' = [ppc EXCEPT ![t] = "room"]
  /\ UNCHANGED idleReservations

\* Reservation::send, the consumer still there.
SendBegins(t) ==
  /\ idleReservations > 0 /\ claim.position < MaxItems
  /\ consumerLiveMem
  /\ idleReservations' = idleReservations - 1
  /\ op' = [op EXCEPT ![t] = "send"] /\ ppc' = [ppc EXCEPT ![t] = "claim"]

\* Drop for Reservation; also `send` once the consumer is gone.
CancelBegins(t) ==
  /\ idleReservations > 0
  /\ idleReservations' = idleReservations - 1
  /\ op' = [op EXCEPT ![t] = "cancel"] /\ ppc' = [ppc EXCEPT ![t] = "claim"]

Begins(t) ==
  /\ Idle(t)
  /\ PushBegins(t) \/ ReserveBegins(t) \/ SendBegins(t) \/ CancelBegins(t)
  /\ Loads(t)
  /\ UNCHANGED <<ringVars, liveVars, position, pending, handle, historyVars,
                 parkedVars, doorbellVars>>

-----------------------------------------------------------------------------
(* push and reserve: is there room beyond the reservations?                *)

\* Mutant: outstanding reservations are not withheld.
HasRoomForgetsReserved(w) == Distance(w.position, headMem) < Capacity

\* has_room_beyond_reservations
HasRoom(w) == Distance(w.position, headMem) < Capacity - w.reserved

\* With room, `push` asks about the consumer and `reserve` about its ceiling;
\* without, the answer is provisional.
Room(t) ==
  /\ Goes(t, "room",
       IF ~HasRoom(word[t]) THEN "recheck"
       ELSE IF op[t] = "push" THEN "live"
       ELSE IF word[t].reserved >= MaxReserved THEN "idle" ELSE "claim")
  /\ UNCHANGED <<ringVars, liveVars, position, pending, ownVars, historyVars,
                 parkedVars, doorbellVars>>

\* Mutant: the refusal is reported without re-reading the claim word.
RecheckSkipped(t) ==
  /\ Goes(t, "recheck", "refuse")
  /\ UNCHANGED <<ringVars, liveVars, position, pending, ownVars, historyVars,
                 parkedVars, doorbellVars>>

\* The claim word is read again, and a word that has moved is tried afresh.
Recheck(t) ==
  \/ /\ SameWord(claim, word[t])
     /\ Goes(t, "recheck", "refuse")
     /\ UNCHANGED <<ringVars, liveVars, position, pending, ownVars,
                    historyVars, parkedVars, doorbellVars>>
  \/ /\ ~SameWord(claim, word[t])
     /\ Moves(t, "recheck", "room")
     /\ Loads(t)
     /\ UNCHANGED <<ringVars, liveVars, position, pending, ownVars,
                    historyVars, parkedVars, doorbellVars>>

\* Full, Disconnected or None: nothing has changed.
Refused(t) ==
  /\ Goes(t, "refuse", "idle")
  /\ UNCHANGED <<ringVars, liveVars, position, pending, ownVars, historyVars,
                 parkedVars, doorbellVars>>

PushLive(t) ==
  /\ Goes(t, "live", IF consumerLiveMem THEN "claim" ELSE "idle")
  /\ UNCHANGED <<ringVars, liveVars, position, pending, ownVars, historyVars,
                 parkedVars, doorbellVars>>

-----------------------------------------------------------------------------
(* The exchange                                                            *)

\* No thread sleeps while the position comes round to the word it holds.
LagBounded == \A u \in Producers :
  ppc[u] \in {"room", "recheck", "live", "claim"} =>
    claim.position - word[u].position < MaxLag

Advances(t) == op[t] \in {"push", "send"}

\* claim_word(...): the count and the position change together.
Exchanged(t) ==
  [reserved |-> word[t].reserved + (IF op[t] = "reserve" THEN 1
                                    ELSE IF op[t] = "push" THEN 0 ELSE -1),
   position |-> word[t].position + (IF Advances(t) THEN 1 ELSE 0)]

\* compare_exchange_weak succeeds.
Claims(t) ==
  /\ SameWord(claim, word[t])
  /\ Advances(t) => claim.position < MaxItems /\ LagBounded
  /\ Goes(t, "claim", IF Advances(t) THEN "publish"
                      ELSE IF op[t] = "reserve" THEN "count" ELSE "release")
  /\ claim' = Exchanged(t)
  /\ position' = [position EXCEPT ![t] = IF Advances(t) THEN word[t].position ELSE 0]
  /\ UNCHANGED <<slots, sequence, head, headMem, liveVars, pending, ownVars,
                 historyVars, parkedVars, doorbellVars>>

\* It fails, for a stale word or for no reason, and hands back the word.
Misses(t) ==
  /\ Moves(t, "claim", IF op[t] \in {"push", "reserve"} THEN "room" ELSE "claim")
  /\ Loads(t)
  /\ UNCHANGED <<ringVars, liveVars, position, pending, ownVars, historyVars,
                 parkedVars, doorbellVars>>

\* Mutant: a reservation is not counted as a producer.
CountSkipped(t) ==
  /\ Goes(t, "count", "idle")
  /\ idleReservations' = idleReservations + 1
  /\ UNCHANGED <<ringVars, liveVars, position, pending, handle, historyVars,
                 parkedVars, doorbellVars>>

\* reserve: the reservation counts as a producer and is handed to the caller.
Count(t) ==
  /\ Goes(t, "count", "idle")
  /\ producers' = producers + 1
  /\ idleReservations' = idleReservations + 1
  /\ UNCHANGED <<ringVars, consumerLive, consumerLiveMem, position, pending,
                 handle, historyVars, parkedVars, doorbellVars>>

-----------------------------------------------------------------------------
(* Shared::publish and Shared::release_producer                            *)

\* The slot's previous occupant is gone: what `publish` spins for.
SlotFree(t) == Distance(position[t], headMem) < Capacity

\* Spin, and write the slot.
Writes(t) ==
  /\ SlotFree(t)
  /\ Goes(t, "publish", "store")
  /\ slots' = [slots EXCEPT ![Index(position[t])] = position[t] + 1]
  /\ UNCHANGED <<sequence, claim, head, headMem, liveVars, position, pending, ownVars,
                 historyVars, parkedVars, doorbellVars>>

\* Mutant: the bell is rung for the item before it is published.
StoresLate(t) ==
  \/ /\ Goes(t, "store", "stored")
     /\ EnterSignal(t)
     /\ UNCHANGED <<ringVars, liveVars, position, pending, ownVars,
                    historyVars, parkedVars, event, lit, signalled, clearing, rest>>
  \/ /\ ring[t] = "out"
     /\ Goes(t, "stored", IF op[t] = "send" THEN "release" ELSE "idle")
     /\ pending' = [pending EXCEPT ![t] = TRUE]
     /\ UNCHANGED <<ringVars, liveVars, position, ownVars, historyVars,
                    parkedVars, doorbellVars>>

\* Publish, then signal; `send` goes on to release its producer count.
Stores(t) ==
  /\ Goes(t, "store", IF op[t] = "send" THEN "release" ELSE "idle")
  /\ pending' = [pending EXCEPT ![t] = TRUE]
  /\ EnterSignal(t)
  /\ UNCHANGED <<ringVars, liveVars, position, ownVars, historyVars,
                 parkedVars, event, lit, signalled, clearing, rest>>

FlushPublish(t) ==
  /\ pending[t]
  /\ pending' = [pending EXCEPT ![t] = FALSE]
  /\ sequence' = [sequence EXCEPT ![Index(position[t])] = position[t] + 1]
  /\ position' = [position EXCEPT ![t] = 0]
  /\ UNCHANGED <<slots, claim, head, headMem, liveVars, ppc, op, word,
                 wasFull, ownVars, historyVars, parkedVars, doorbellVars>>

Signals(t) == Signal(t, ~pending[t]) /\ UNCHANGED <<queueVars, parkedVars>>

\* Drop for Producer.
DropProducer(t) ==
  /\ Idle(t) /\ t \in handle
  /\ handle' = handle \ {t}
  /\ ppc' = [ppc EXCEPT ![t] = "release"] /\ op' = [op EXCEPT ![t] = "drop"]
  /\ UNCHANGED <<ringVars, liveVars, word, position, pending, wasFull,
                 idleReservations, historyVars, parkedVars, doorbellVars>>

\* Mutant: only a departing Producer rings, not a redeemed reservation.
LastRingsProducerOnly(t) == producers = 1 /\ op[t] = "drop"

\* fetch_sub returned 1.
LastRings(t) == producers = 1

Releases(t) ==
  /\ ring[t] = "out" /\ ~pending[t]
  /\ Goes(t, "release", "idle")
  /\ producers' = producers - 1
  /\ IF LastRings(t) THEN EnterSignal(t) ELSE UNCHANGED ring
  /\ UNCHANGED <<ringVars, consumerLive, consumerLiveMem, position, pending,
                 ownVars, historyVars, parkedVars, event, lit, signalled, clearing,
                 rest>>

\* Clone hands a second thread a Producer.
Clone(t, u) ==
  /\ Idle(t) /\ t \in handle /\ u \notin handle
  /\ handle' = handle \cup {u}
  /\ producers' = producers + 1
  /\ UNCHANGED <<ringVars, consumerLive, consumerLiveMem, threadVars,
                 idleReservations, historyVars, parkedVars, doorbellVars>>

-----------------------------------------------------------------------------
(* The consumer                                                            *)

Ready == Low(sequence[Index(head)]) = Low(head + 1)

Gone == producers = 0

ConsumerDrained == headMem = head /\ consumerLiveMem = consumerLive

StartCall == CallBegins /\ UNCHANGED queueVars

\* Consumer::take: storing head is what frees the slot.
TakeRead ==
  /\ Returns("read", "item")
  /\ received' = Append(received, slots[Index(head)])
  /\ head' = head + 1
  /\ UNCHANGED <<slots, sequence, claim, headMem, liveVars, threadVars,
                 ownVars, disposed, doorbellVars>>

FlushHead ==
  /\ headMem < head
  /\ headMem' = headMem + 1
  /\ UNCHANGED <<slots, sequence, claim, head, liveVars, threadVars, ownVars,
                 historyVars, parkedVars, doorbellVars>>

FlushClear == FlushFlag(headMem = head) /\ UNCHANGED <<queueVars, parkedVars>>

DropConsumer ==
  /\ ConsumerGoes("idle", "gone")
  /\ consumerLive' = FALSE
  /\ UNCHANGED <<ringVars, producers, consumerLiveMem, threadVars, ownVars,
                 historyVars, doorbellVars>>

FlushConsumerLive ==
  /\ headMem = head /\ consumerLiveMem # consumerLive
  /\ consumerLiveMem' = consumerLive
  /\ UNCHANGED <<ringVars, producers, consumerLive, threadVars, ownVars,
                 historyVars, parkedVars, doorbellVars>>

\* Drop for Shared: of the positions from head to the claim, the published ones.
Teardown ==
  /\ producers = 0 /\ \A t \in Producers : Idle(t) /\ ~pending[t]
  /\ cpc = "gone" /\ ConsumerDrained
  /\ disposed = {}
  /\ disposed' = {NoItem} \cup
       {slots[Index(p)] : p \in {q \in head .. claim.position - 1 :
                                   Low(sequence[Index(q)]) = Low(q + 1)}}
  /\ UNCHANGED <<ringVars, liveVars, threadVars, ownVars, received,
                 parkedVars, doorbellVars>>

-----------------------------------------------------------------------------
ThreadSteps(t) ==
  \/ Room(t) \/ Recheck(t) \/ Refused(t) \/ PushLive(t) \/ Claims(t) \/ Misses(t)
  \/ Count(t) \/ Writes(t) \/ Stores(t) \/ Signals(t) \/ Releases(t)

ConsumerSteps ==
  \/ TakeRead
  \/ (Looks(Ready, Gone) \/ Arms(Ready, ConsumerDrained) \/ Waits(Gone)) /\ UNCHANGED queueVars

ConsumerFlushes == FlushHead \/ FlushClear \/ FlushConsumerLive

UserSteps ==
  \/ StartCall \/ DropConsumer
  \/ \E t \in Producers :
       Begins(t) \/ DropProducer(t) \/ \E u \in Producers : Clone(t, u)

Next ==
  \/ UserSteps
  \/ \E t \in Producers : ThreadSteps(t) \/ FlushPublish(t)
  \/ ConsumerSteps \/ ConsumerFlushes
  \/ Fails /\ UNCHANGED queueVars
  \/ Teardown

Spec == Init /\ [][Next]_vars

-----------------------------------------------------------------------------
(* Properties                                                              *)

Word == [reserved : 0 .. Capacity, position : 0 .. MaxItems]

TypeOK ==
  /\ ParkedTypeOK /\ DoorbellTypeOK
  /\ slots \in [0 .. Capacity - 1 -> Items \cup {NoItem}]
  /\ sequence \in [0 .. Capacity - 1 -> Nat]
  /\ claim \in Word
  /\ head \in Nat /\ headMem \in Nat
  /\ producers \in Nat
  /\ consumerLive \in BOOLEAN /\ consumerLiveMem \in BOOLEAN
  /\ handle \subseteq Producers /\ idleReservations \in Nat
  /\ ppc \in [Producers -> {"idle", "room", "recheck", "refuse", "live", "claim", "count",
                            "publish", "store", "stored", "release"}]
  /\ op \in [Producers -> Operations]
  /\ word \in [Producers -> Word]
  /\ position \in [Producers -> 0 .. MaxItems]
  /\ pending \in [Producers -> BOOLEAN] /\ wasFull \in [Producers -> BOOLEAN]
  /\ received \in Seq(Items \cup {NoItem})
  /\ disposed \subseteq Items \cup {NoItem}

Published ==
  \/ Ready
  \/ \E t \in Producers : pending[t] /\ position[t] = head

\* No lost wakeup: a consumer asleep while the item at head is published, or while
\* nobody is left who could send one, is about to be woken.
NoLostWakeup == cpc = "wait" /\ (Published \/ Gone) => RingDue

\* "this waits to *see* it, not for it to *become* true" (publish): the slot a
\* thread has claimed is already free in memory, so the spin never waits for the
\* consumer, not even for a reservation held across a lap.
PublishFindsRoom == \A t \in Producers : ppc[t] = "publish" => SlotFree(t)

\* Full, and None from `reserve`, are true of the claim word they were decided on,
\* never the product of a stale word and a head that has overtaken it.
RefusedOnlyWhenFull == \A t \in Producers : ppc[t] = "refuse" => wasFull[t]

\* The queue this shape is meant to be: the claim word's position and count are the
\* items ever admitted and the slots held.
Promise == INSTANCE BoundedQueue WITH
  Bound <- Capacity, Item <- Items,
  waiting <- [i \in 1 .. claim.position - head |-> head + i],
  held <- claim.reserved,
  taken <- received,
  closed <- producers = 0,
  told <- result = "Disconnected" /\ call # "pop",
  disposed <- disposed \ {NoItem}

\* ReservingMpsc implements the bounded queue, linearised at the compare-exchange
\* on the claim word: items and reservations never exceed the capacity, the items
\* come out once each in claim order, and the end only after the last of them.
ImplementsQueue == Promise!Spec
=============================================================================
