----------------------------- MODULE PermitMpsc -----------------------------
(***************************************************************************)
(* The experimental multi-producer shape whose admission is a permit       *)
(* (src/permit_mpsc.rs).  A claimant takes one of Capacity permits with an *)
(* unconditional decrement and puts it back when the count was already     *)
(* spent; the position is a ticket handed out by fetch_add and decides     *)
(* nothing.                                                                *)
(*                                                                         *)
(* This shape never hands out its doorbell, so `signal` finds no event and *)
(* changes nothing; it is left out, and the consumer only pops.  Memory is *)
(* total store order: everything shared changes by read-modify-writes      *)
(* except a publication, which waits in its thread's buffer (pending), and *)
(* head, which no other thread reads before the permit behind it.          *)
(***************************************************************************)
EXTENDS Ring, Sequences, FiniteSets

CONSTANTS Threads,          \* the threads that hold producers or reservations
          MaxItems          \* bound: tickets ever handed out

ASSUME PermitAssumption == MaxItems \in Nat /\ Capacity >= 2

VARIABLES slots, sequence, head, tail,
          permits,          \* signed: the overdrafts make it negative
          producers, consumerLive,
          handle,           \* the threads that hold a Producer
          idleReservations, \* Reservation values no thread is using
          ppc, op, position, pending,
          sawFull,          \* history: no room at some moment since the call began
          cpc, result,      \* the consumer's place in `pop`, and the answer
          received, disposed

ringVars == <<slots, sequence, head, tail>>
threadVars == <<ppc, op, position, pending>>
ownVars == <<producers, handle, idleReservations>>
consumerVars == <<consumerLive, cpc, result, received, disposed>>
vars == <<ringVars, permits, ownVars, threadVars, sawFull, consumerVars>>

NoItem == 0
Items == 1 .. MaxItems

Init ==
  /\ slots = [i \in 0 .. Capacity - 1 |-> NoItem]
  /\ sequence = [i \in 0 .. Capacity - 1 |-> i]
  /\ head = 0 /\ tail = 0
  /\ permits = Capacity
  /\ producers = 1 /\ consumerLive = TRUE
  /\ handle \in {{t} : t \in Threads} /\ idleReservations = 0
  /\ ppc = [t \in Threads |-> "idle"]
  /\ op = [t \in Threads |-> "none"]
  /\ position = [t \in Threads |-> 0]
  /\ pending = [t \in Threads |-> FALSE]
  /\ sawFull = [t \in Threads |-> FALSE]
  /\ cpc = "idle" /\ result = "none"
  /\ received = << >> /\ disposed = {}

At(place) == {t \in Threads : ppc[t] = place}

\* Threads in the middle of returning an unspent reservation's permit.
Returning == {t \in Threads : ppc[t] = "return" /\ op[t] = "cancel"}

\* Room that is spoken for: items, permits in hand, and the slot being freed.
SpokenFor ==
  (tail - head) + Cardinality(At("ticket")) + Cardinality(At("count"))
  + Cardinality(Returning) + idleReservations + (IF cpc = "free" THEN 1 ELSE 0)

Full == SpokenFor >= Capacity

Goes(t, from, to) ==
  /\ ppc[t] = from /\ ppc' = [ppc EXCEPT ![t] = to]
  /\ op' = [op EXCEPT ![t] = IF to = "idle" THEN "none" ELSE @]
  /\ sawFull' = [sawFull EXCEPT ![t] = @ /\ to # "idle"]

Starts(t, operation, at) ==
  /\ ppc[t] = "idle" /\ ppc' = [ppc EXCEPT ![t] = at]
  /\ op' = [op EXCEPT ![t] = operation]
  /\ sawFull' = [sawFull EXCEPT ![t] = Full]

-----------------------------------------------------------------------------
(* Admission                                                               *)

\* push: the consumer is still there.
PushBegins(t) ==
  /\ t \in handle /\ consumerLive
  /\ Starts(t, "push", "permit")
  /\ UNCHANGED <<ringVars, permits, ownVars, position, pending, consumerVars>>

ReserveBegins(t) ==
  /\ t \in handle
  /\ Starts(t, "reserve", "permit")
  /\ UNCHANGED <<ringVars, permits, ownVars, position, pending, consumerVars>>

\* Mutant: the last permit is handed out twice.
AdmitsOneMore == permits >= 0

\* fetch_sub returned a positive count.
Admits == permits > 0

\* take_permit: the decrement decides and claims.
TakePermit(t) ==
  /\ ~pending[t]
  /\ ppc[t] = "permit"
  /\ ppc' = [ppc EXCEPT ![t] = IF ~Admits THEN "overdrawn"
                               ELSE IF op[t] = "push" THEN "ticket" ELSE "count"]
  /\ permits' = permits - 1
  /\ sawFull' = [u \in Threads |->
                   sawFull[u] \/ (ppc[u] = "permit" /\ Admits /\ SpokenFor + 1 >= Capacity)]
  /\ UNCHANGED <<ringVars, ownVars, op, position, pending, consumerVars>>

\* Mutant: the overdraft is not put back.
UndoForgotten(t) ==
  /\ Goes(t, "overdrawn", "idle")
  /\ UNCHANGED <<ringVars, permits, ownVars, position, pending, consumerVars>>

\* Put it back, and report Full or Disconnected.
Undo(t) ==
  /\ Goes(t, "overdrawn", "idle")
  /\ permits' = permits + 1
  /\ UNCHANGED <<ringVars, ownVars, position, pending, consumerVars>>

\* Mutant: the reservation does not count as a producer.
CountUncounted(t) ==
  /\ Goes(t, "count", "idle")
  /\ idleReservations' = idleReservations + 1
  /\ UNCHANGED <<ringVars, permits, producers, handle, position, pending, consumerVars>>

\* reserve: the reservation counts as a producer and is handed to the caller.
Count(t) ==
  /\ Goes(t, "count", "idle")
  /\ producers' = producers + 1 /\ idleReservations' = idleReservations + 1
  /\ UNCHANGED <<ringVars, permits, handle, position, pending, consumerVars>>

-----------------------------------------------------------------------------
(* Redeeming, cancelling, publishing                                       *)

\* Reservation::send: the consumer is still there, and no permit is taken.
SendBegins(t) ==
  /\ idleReservations > 0 /\ consumerLive
  /\ Starts(t, "send", "ticket")
  /\ idleReservations' = idleReservations - 1
  /\ UNCHANGED <<ringVars, permits, producers, handle, position, pending, consumerVars>>

\* Mutant: a redeemed reservation gives its permit back as a dropped one does.
GivesBackAlways(t) == op[t] \in {"send", "cancel"}

\* Drop for Reservation returns the permit of one that was not spent.
GivesBack(t) == op[t] = "cancel"

\* Drop for Reservation, unspent; also `send` once the consumer is gone.
CancelBegins(t) ==
  /\ idleReservations > 0
  /\ Starts(t, "cancel", "return")
  /\ idleReservations' = idleReservations - 1
  /\ UNCHANGED <<ringVars, permits, producers, handle, position, pending, consumerVars>>

\* Drop for Reservation, its first half: release_permit if unspent.
Return(t) ==
  /\ ~pending[t]
  /\ Goes(t, "return", "release")
  /\ permits' = IF GivesBack(t) THEN permits + 1 ELSE permits
  /\ UNCHANGED <<ringVars, ownVars, position, pending, consumerVars>>

\* tail.fetch_add
Ticket(t) ==
  /\ tail < MaxItems
  /\ ~pending[t]
  /\ Goes(t, "ticket", "publish")
  /\ position' = [position EXCEPT ![t] = tail]
  /\ tail' = tail + 1
  /\ UNCHANGED <<slots, sequence, head, permits, ownVars, pending, consumerVars>>

\* Shared::publish: write the slot, store its sequence, ring.
Publish(t) ==
  /\ Goes(t, "publish", IF op[t] = "send" THEN "return" ELSE "idle")
  /\ slots' = [slots EXCEPT ![Index(position[t])] = position[t] + 1]
  /\ pending' = [pending EXCEPT ![t] = TRUE]
  /\ UNCHANGED <<sequence, head, tail, permits, ownVars, position, consumerVars>>

FlushPublish(t) ==
  /\ pending[t]
  /\ pending' = [pending EXCEPT ![t] = FALSE]
  /\ sequence' = [sequence EXCEPT ![Index(position[t])] = position[t] + 1]
  /\ position' = [position EXCEPT ![t] = 0]
  /\ UNCHANGED <<slots, head, tail, permits, ownVars, ppc, op, sawFull, consumerVars>>

\* Drop for Reservation, its second half: one producer fewer.
Release(t) ==
  /\ Goes(t, "release", "idle")
  /\ producers' = producers - 1
  /\ UNCHANGED <<ringVars, permits, handle, idleReservations, position, pending,
                 consumerVars>>

DropProducer(t) ==
  /\ ppc[t] = "idle" /\ t \in handle /\ ~pending[t]
  /\ handle' = handle \ {t} /\ producers' = producers - 1
  /\ UNCHANGED <<ringVars, permits, idleReservations, threadVars, sawFull, consumerVars>>

Clone(t, u) ==
  /\ ppc[t] = "idle" /\ t \in handle /\ u \notin handle /\ ~pending[t]
  /\ handle' = handle \cup {u} /\ producers' = producers + 1
  /\ UNCHANGED <<ringVars, permits, idleReservations, threadVars, sawFull, consumerVars>>

-----------------------------------------------------------------------------
(* The consumer                                                            *)

Ready == Low(sequence[Index(head)]) = Low(head + 1)

Pops(from, to, answer) == cpc = from /\ cpc' = to /\ result' = answer

PopTake ==
  /\ Pops("idle", IF Ready THEN "read" ELSE "ask", "none")
  /\ UNCHANGED <<ringVars, permits, ownVars, threadVars, sawFull, consumerLive, received,
                 disposed>>

\* Consumer::take reads the item and moves head ...
TakeRead ==
  /\ Pops("read", "free", "none")
  /\ received' = Append(received, slots[Index(head)])
  /\ head' = head + 1
  /\ UNCHANGED <<slots, sequence, tail, permits, ownVars, threadVars, sawFull, consumerLive,
                 disposed>>

\* ... and release_permit frees the slot.
TakeFree ==
  /\ Pops("free", "idle", "item")
  /\ permits' = permits + 1
  /\ UNCHANGED <<ringVars, ownVars, threadVars, sawFull, consumerLive, received,
                 disposed>>

\* pop asks about the producers only after finding nothing.
PopAsk ==
  /\ Pops("ask", "idle", IF producers = 0 THEN "Disconnected" ELSE "Empty")
  /\ UNCHANGED <<ringVars, permits, ownVars, threadVars, sawFull, consumerLive, received,
                 disposed>>

DropConsumer ==
  /\ Pops("idle", "gone", "none")
  /\ consumerLive' = FALSE
  /\ UNCHANGED <<ringVars, permits, ownVars, threadVars, sawFull, received, disposed>>

\* Drop for Shared: of the positions from head to tail, the published ones.
Teardown ==
  /\ producers = 0 /\ cpc = "gone" /\ disposed = {}
  /\ \A t \in Threads : ppc[t] = "idle" /\ ~pending[t]
  /\ disposed' = {NoItem} \cup
       {slots[Index(p)] : p \in {q \in head .. tail - 1 :
                                   Low(sequence[Index(q)]) = Low(q + 1)}}
  /\ UNCHANGED <<ringVars, permits, ownVars, threadVars, sawFull, consumerLive, cpc,
                 result, received>>

-----------------------------------------------------------------------------
ThreadSteps(t) ==
  \/ PushBegins(t) \/ ReserveBegins(t) \/ TakePermit(t) \/ Undo(t) \/ Count(t)
  \/ SendBegins(t) \/ CancelBegins(t) \/ Return(t) \/ Ticket(t) \/ Publish(t)
  \/ FlushPublish(t) \/ Release(t) \/ DropProducer(t)
  \/ \E u \in Threads : Clone(t, u)

ConsumerSteps == PopTake \/ TakeRead \/ TakeFree \/ PopAsk \/ DropConsumer

Next == (\E t \in Threads : ThreadSteps(t)) \/ ConsumerSteps \/ Teardown

Spec == Init /\ [][Next]_vars

-----------------------------------------------------------------------------
(* Properties                                                              *)

ThreadPlaces == {"idle", "permit", "overdrawn", "count", "ticket", "publish", "return",
                 "release"}

TypeOK ==
  /\ slots \in [0 .. Capacity - 1 -> Nat]
  /\ sequence \in [0 .. Capacity - 1 -> Nat]
  /\ head \in Nat /\ tail \in Nat
  /\ permits \in Int
  /\ producers \in Nat /\ consumerLive \in BOOLEAN
  /\ handle \subseteq Threads /\ idleReservations \in Nat
  /\ ppc \in [Threads -> ThreadPlaces]
  /\ op \in [Threads -> {"none", "push", "reserve", "send", "cancel"}]
  /\ position \in [Threads -> Nat]
  /\ pending \in [Threads -> BOOLEAN] /\ sawFull \in [Threads -> BOOLEAN]
  /\ cpc \in {"idle", "read", "free", "ask", "gone"}
  /\ result \in {"none", "item", "Empty", "Disconnected"}
  /\ received \in Seq(Nat)
  /\ disposed \subseteq Nat

\* The permits are conserved (take_permit, release_permit): the count differs from
\* the unspoken-for room by the overdrafts not yet undone, and by nothing else.
PermitsConserved == permits = Capacity - SpokenFor - Cardinality(At("overdrawn"))

\* "PushError::Full when no unreserved room remains" (push): a claimant is turned
\* away only if every slot was spoken for at some moment of its call.
RefusedOnlyWhenFull == \A t \in Threads : ppc[t] = "overdrawn" => sawFull[t]

\* The queue this shape is meant to be: an item is in it from its ticket on, and a
\* permit in hand, or kept by a reservation, is a slot held.
Promise == INSTANCE BoundedQueue WITH
  Bound <- Capacity, Item <- Items,
  waiting <- [i \in 1 .. tail - head |-> head + i],
  held <- Cardinality(At("ticket")) + Cardinality(At("count"))
          + Cardinality(Returning) + idleReservations,
  taken <- received,
  closed <- producers = 0,
  told <- FALSE,
  disposed <- disposed \ {NoItem}

\* PermitMpsc implements the bounded queue, linearised at the ticket: the items
\* come out once each in ticket order, never more than the capacity is in or
\* promised, and no reservation outlives the last producer.
ImplementsQueue == Promise!Spec
=============================================================================
