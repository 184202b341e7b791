-------------------------- MODULE NotificationQueue --------------------------
(***************************************************************************)
(* The bounded queue between the watchers and one client of                *)
(* windows-file-watcher (src/queue.rs): best-effort notifications that     *)
(* are latched as a loss when there is no room, reservations that must     *)
(* always find theirs, standing slots that are used again and again, the   *)
(* doorbell, and the prod that resumes a paused watcher.                   *)
(*                                                                         *)
(* Every operation runs under the `items` lock; what it does after the     *)
(* lock (notify_all, prod, dropping the sender inside a reservation) is a  *)
(* step of its own.  A notification is abstracted to the watch it is for   *)
(* and its number among the best-effort ones sent for that watch.          *)
(***************************************************************************)
EXTENDS Integers, Sequences, FiniteSets, Functions

CONSTANTS Threads,          \* the threads that send
          Watches,          \* the watches of the session
          Asking,           \* those that keep a standing slot for questions
          Bound,            \* capacity: a NonZeroUsize
          MaxSends,         \* bound: best-effort notifications, of all watches
          MaxReservations,  \* bound: Reservation values ever made
          MaxQuestions      \* bound: messages sent through one standing slot

ASSUME QueueAssumption ==
  /\ Bound \in Nat \ {0}
  /\ MaxSends \in Nat /\ MaxReservations \in Nat /\ MaxQuestions \in Nat
  /\ IsFiniteSet(Threads) /\ IsFiniteSet(Watches) /\ Asking \subseteq Watches

VARIABLES queue, reserved, latched, senders,    \* State, under `items`
          doorbell,         \* "none" until asked for, then the event's state
          slot,             \* the standing slot of each asking watch
          reservations,     \* Reservation values that no thread is using
          reservable,       \* how many more will be made
          handle,           \* the threads that hold a Sender
          tpc,              \* where each thread is
          cpc,              \* where the client is
          sent,             \* history: best-effort notifications sent per watch
          asked,            \* history: messages sent through each standing slot
          seen,             \* history: the last one received, and losses told since
          heard             \* history: the last message received from each slot

stateVars == <<queue, reserved, latched, senders>>
ownVars == <<slot, reservations, reservable, handle>>
history == <<sent, asked, seen, heard>>
vars == <<stateVars, doorbell, ownVars, tpc, cpc, history>>

-----------------------------------------------------------------------------
(* Notifications, entries and State                                        *)

Batch(w, n) == [kind |-> "batch", watch |-> w, n |-> n]
Desync(w) == [kind |-> "desync", watch |-> w, n |-> 0]
Promised == [kind |-> "promised", watch |-> "none", n |-> 0]
Question(w, n) == [kind |-> "question", watch |-> w, n |-> n]

\* Entry::standing: the value is in the slot's state, not in the entry.
Standing(w) == Question(w, 0)

Free(q, r) == Bound - Len(q) - r

BestEffortRoom(q, r, l) == IF Free(q, r) > Len(l) THEN Free(q, r) - Len(l) ELSE 0

Pending(q, l, s) == q # << >> \/ l # << >> \/ s = 0

Least(a, b) == IF a < b THEN a ELSE b

\* flush_latched: as many losses as there is room for become entries.
Flushed(q, r, l) ==
  q \o [i \in 1 .. Least(Free(q, r), Len(l)) |-> Desync(l[i])]
StillLatched(q, r, l) == SubSeq(l, Least(Free(q, r), Len(l)) + 1, Len(l))

\* Mutant: the loss is forgotten when one of another watch is already latched.
LatchOnlyOne(l, w) == IF l # << >> THEN l ELSE Append(l, w)

\* latch: one loss per watch, however many notifications it stands for.
Latch(l, w) == IF \E i \in 1 .. Len(l) : l[i] = w THEN l ELSE Append(l, w)

\* refresh_doorbell: the event, once made, follows the state.
Refreshed(q, l, s) ==
  IF doorbell = "none" THEN "none" ELSE IF Pending(q, l, s) THEN "lit" ELSE "dark"

\* Mutant: prods on the wrong edge.
ProdsLate(q, r, l) == BestEffortRoom(q, r, l) = 2

\* freed_resumers: somebody is prodded only as room appears.
Prods(q, r, l) == BestEffortRoom(q, r, l) = 1

-----------------------------------------------------------------------------
NoSlot == [alive |-> FALSE, inFlight |-> FALSE, queued |-> 0]

Init ==
  /\ queue = << >> /\ reserved = 0 /\ latched = << >> /\ senders = 1
  /\ doorbell = "none"
  /\ slot = [w \in Asking |-> NoSlot]
  /\ reservations = 0 /\ reservable = MaxReservations
  /\ handle \in {{t} : t \in Threads}
  /\ tpc = [t \in Threads |-> "idle"] /\ cpc = "idle"
  /\ sent = [w \in Watches |-> 0] /\ asked = [w \in Asking |-> 0]
  /\ seen = [w \in Watches |-> [n |-> 0, told |-> 0]] /\ heard = [w \in Asking |-> 0]

Goes(t, from, to) == tpc[t] = from /\ tpc' = [tpc EXCEPT ![t] = to]

AllSent == FoldFunction(+, 0, sent)

\* A thread whose operation needs a Sender of its own, between two operations.
Holds(t) == tpc[t] = "idle" /\ t \in handle

-----------------------------------------------------------------------------
(* Sender                                                                  *)

\* Mutant: the new notification goes in before the losses that came earlier.
SendUnflushed(t, w) ==
  /\ Holds(t) /\ AllSent < MaxSends
  /\ Goes(t, "idle", "notify")
  /\ sent' = [sent EXCEPT ![w] = @ + 1]
  /\ IF Free(queue, reserved) > 0
       THEN queue' = Append(queue, Batch(w, sent'[w])) /\ latched' = latched
       ELSE queue' = queue /\ latched' = Latch(latched, w)
  /\ doorbell' = Refreshed(queue', latched', senders)
  /\ UNCHANGED <<reserved, senders, ownVars, cpc, asked, seen, heard>>

\* send: the losses before it, then the notification or one more loss.
Send(t, w) ==
  /\ Holds(t) /\ AllSent < MaxSends
  /\ Goes(t, "idle", "notify")
  /\ sent' = [sent EXCEPT ![w] = @ + 1]
  /\ LET q == Flushed(queue, reserved, latched)
         l == StillLatched(queue, reserved, latched)
     IN  IF Free(q, reserved) > 0
           THEN queue' = Append(q, Batch(w, sent'[w])) /\ latched' = l
           ELSE queue' = q /\ latched' = Latch(l, w)
  /\ doorbell' = Refreshed(queue', latched', senders)
  /\ UNCHANGED <<reserved, senders, ownVars, cpc, asked, seen, heard>>

\* Mutant: a slot that a loss is waiting for is given away as well.
MayReserveAnyway == TRUE

MayReserve == Free(queue, reserved) > 0

\* reserve and reserve_standing, their first lock: the slot is counted.
Reserve(t) ==
  /\ Holds(t) /\ reservable > 0 /\ MayReserve
  /\ Goes(t, "idle", "reserving")
  /\ reserved' = reserved + 1 /\ reservable' = reservable - 1
  /\ UNCHANGED <<queue, latched, senders, doorbell, slot, reservations, handle, cpc,
                 history>>

\* ... and the second: the sender the reservation keeps is cloned.
Reserved(t) ==
  /\ Goes(t, "reserving", "idle")
  /\ senders' = senders + 1 /\ reservations' = reservations + 1
  /\ UNCHANGED <<queue, reserved, latched, doorbell, slot, reservable, handle, cpc,
                 history>>

\* The slot is used by nobody before `reserve_standing` has returned it.
ReserveStanding(t, w) ==
  /\ Holds(t) /\ slot[w] = NoSlot /\ asked[w] = 0 /\ MayReserve
  /\ \A u \in Threads : tpc[u] # "standing"
  /\ Goes(t, "idle", "standing")
  /\ reserved' = reserved + 1
  /\ UNCHANGED <<queue, latched, senders, doorbell, ownVars, cpc, history>>

ReservedStanding(t, w) ==
  /\ Goes(t, "standing", "idle")
  /\ slot[w] = NoSlot /\ asked[w] = 0
  /\ slot' = [slot EXCEPT ![w].alive = TRUE]
  /\ senders' = senders + 1
  /\ UNCHANGED <<queue, reserved, latched, doorbell, reservations, reservable, handle,
                 cpc, history>>

Clone(t, u) ==
  /\ Holds(t) /\ u \notin handle
  /\ handle' = handle \cup {u} /\ senders' = senders + 1
  /\ UNCHANGED <<queue, reserved, latched, doorbell, slot, reservations, reservable,
                 tpc, cpc, history>>

\* Mutant: the doorbell is left as it was.
SenderGoneSilently == senders' = senders - 1 /\ UNCHANGED doorbell

\* Drop for Sender: the end of the stream is something to observe.
SenderGone ==
  /\ senders' = senders - 1
  /\ doorbell' = IF senders = 1 THEN Refreshed(queue, latched, 0) ELSE doorbell

AfterSenderGone == IF senders = 1 THEN "notify" ELSE "idle"

DropSender(t) ==
  /\ Holds(t)
  /\ Goes(t, "idle", AfterSenderGone)
  /\ handle' = handle \ {t}
  /\ SenderGone
  /\ UNCHANGED <<queue, reserved, latched, slot, reservations, reservable, cpc, history>>
-----------------------------------------------------------------------------
(* Reservation                                                             *)

\* send: flushed while the reservation is still counted, so it cannot fail.
Redeem(t) ==
  /\ reservations > 0
  /\ Goes(t, "idle", "redeemed")
  /\ reservations' = reservations - 1 /\ reserved' = reserved - 1
  /\ queue' = Append(Flushed(queue, reserved, latched), Promised)
  /\ latched' = StillLatched(queue, reserved, latched)
  /\ doorbell' = Refreshed(queue', latched', senders)
  /\ UNCHANGED <<senders, slot, reservable, handle, cpc, history>>

\* Where releasing a slot leads: the paused producers are prodded first.
AfterRelease(r) == IF Prods(queue, r, latched) THEN "prod" ELSE "release"

\* Drop for an unused Reservation.
DropReservation(t) ==
  /\ reservations > 0
  /\ reservations' = reservations - 1 /\ reserved' = reserved - 1
  /\ Goes(t, "idle", AfterRelease(reserved - 1))
  /\ UNCHANGED <<queue, latched, senders, doorbell, slot, reservable, handle, cpc,
                 history>>

-----------------------------------------------------------------------------
(* StandingSlot                                                            *)

\* Mutant: a second question is queued behind the first.
StandingSendTwice(t, w) ==
  /\ slot[w].alive /\ asked[w] < MaxQuestions
  /\ Goes(t, "idle", "notify")
  /\ asked' = [asked EXCEPT ![w] = @ + 1]
  /\ slot' = [slot EXCEPT ![w].inFlight = TRUE, ![w].queued = asked'[w]]
  /\ queue' = Append(Flushed(queue, reserved, latched), Standing(w))
  /\ latched' = StillLatched(queue, reserved, latched)
  /\ reserved' = reserved - 1
  /\ doorbell' = Refreshed(queue', latched', senders)
  /\ UNCHANGED <<senders, reservations, reservable, handle, cpc, sent, seen, heard>>

\* send: a message still queued is replaced where it stands; otherwise the slot
\* itself moves into the queue.
StandingSend(t, w) ==
  /\ slot[w].alive /\ asked[w] < MaxQuestions
  /\ Goes(t, "idle", "notify")
  /\ asked' = [asked EXCEPT ![w] = @ + 1]
  /\ slot' = [slot EXCEPT ![w].inFlight = TRUE, ![w].queued = asked'[w]]
  /\ IF slot[w].inFlight
       THEN UNCHANGED <<queue, latched, reserved, doorbell>>
       ELSE /\ queue' = Append(Flushed(queue, reserved, latched), Standing(w))
            /\ latched' = StillLatched(queue, reserved, latched)
            /\ reserved' = reserved - 1
            /\ doorbell' = Refreshed(queue', latched', senders)
  /\ UNCHANGED <<senders, reservations, reservable, handle, cpc, sent, seen, heard>>

\* Mutant: the reservation of a message still queued is released as well.
DropStandingAlways(t, w) ==
  /\ slot[w].alive
  /\ slot' = [slot EXCEPT ![w].alive = FALSE]
  /\ reserved' = reserved - 1
  /\ Goes(t, "idle", AfterRelease(reserved - 1))
  /\ UNCHANGED <<queue, latched, senders, doorbell, reservations, reservable, handle,
                 cpc, history>>

\* Drop for StandingSlot: a message still queued keeps the reservation, and the
\* take that finds the slot gone lets it go.
DropStanding(t, w) ==
  /\ slot[w].alive
  /\ slot' = [slot EXCEPT ![w].alive = FALSE]
  /\ IF slot[w].inFlight
       THEN reserved' = reserved /\ Goes(t, "idle", "release")
       ELSE reserved' = reserved - 1 /\ Goes(t, "idle", AfterRelease(reserved - 1))
  /\ UNCHANGED <<queue, latched, senders, doorbell, reservations, reservable, handle,
                 cpc, history>>

-----------------------------------------------------------------------------
(* What follows once the lock is released                                  *)

\* arrived.notify_all()
Woken == IF cpc = "asleep" THEN "recv" ELSE cpc

Notify(t) ==
  /\ \/ Goes(t, "notify", "idle")
     \/ Goes(t, "redeemed", "release")
  /\ cpc' = Woken
  /\ UNCHANGED <<stateVars, doorbell, ownVars, history>>

\* prod: every registered producer is told to look again.
Prod(t) ==
  /\ Goes(t, "prod", "release")
  /\ UNCHANGED <<stateVars, doorbell, ownVars, cpc, history>>

\* The sender inside a reservation or a standing slot is dropped last.
Release(t) ==
  /\ Goes(t, "release", AfterSenderGone)
  /\ SenderGone
  /\ UNCHANGED <<queue, reserved, latched, ownVars, cpc, history>>

-----------------------------------------------------------------------------
(* Receiver                                                                *)

\* Mutant: a standing entry's reservation is not taken back.
TakeForgetsSlot(w) == reserved

\* take hands a standing entry's reservation back to the slot, if it is there.
ReservedAfterTake(w) == IF slot[w].alive THEN reserved + 1 ELSE reserved

\* What the client makes of a notification.
Sees(message) ==
  LET w == message.watch
  IN  seen' = CASE message.kind = "batch" -> [seen EXCEPT ![w] = [n |-> message.n, told |-> 0]]
                [] message.kind = "desync" -> [seen EXCEPT ![w].told = @ + 1]
                [] OTHER -> seen

\* take: the oldest entry, or when there is none the oldest loss.
Take ==
  \/ /\ queue # << >>
     /\ queue' = Tail(queue) /\ latched' = latched
     /\ Sees(Head(queue))
     /\ LET w == Head(queue).watch
        IN  IF Head(queue).kind = "question"
              THEN /\ heard' = [heard EXCEPT ![w] = slot[w].queued]
                   /\ slot' = [slot EXCEPT ![w].inFlight = FALSE, ![w].queued = 0]
                   /\ reserved' = ReservedAfterTake(w)
              ELSE UNCHANGED <<slot, reserved, heard>>
  \/ /\ queue = << >> /\ latched # << >>
     /\ latched' = Tail(latched)
     /\ Sees(Desync(Head(latched)))
     /\ UNCHANGED <<queue, slot, reserved, heard>>

\* try_recv, recv and recv_timeout, from taking something to prodding.
Receives ==
  /\ Take
  /\ doorbell' = Refreshed(queue', latched', senders)
  /\ cpc' = IF Prods(queue', reserved', latched') THEN "prod" ELSE "idle"
  /\ UNCHANGED <<senders, reservations, reservable, handle, tpc, sent, asked>>

TryRecv == cpc = "idle" /\ Receives

\* recv and recv_timeout differ in TimesOut only.
BeginRecv ==
  /\ cpc = "idle" /\ cpc' = "recv"
  /\ UNCHANGED <<stateVars, doorbell, ownVars, tpc, history>>

RecvTakes == cpc = "recv" /\ Receives

NothingThere == queue = << >> /\ latched = << >>

\* None: nothing to take and nobody left to send.
RecvEnds ==
  /\ cpc = "recv" /\ NothingThere /\ senders = 0
  /\ cpc' = "ended"
  /\ UNCHANGED <<stateVars, doorbell, ownVars, tpc, history>>

\* The condition variable releases the lock as it goes to sleep.
RecvSleeps ==
  /\ cpc = "recv" /\ NothingThere /\ senders # 0
  /\ cpc' = "asleep"
  /\ UNCHANGED <<stateVars, doorbell, ownVars, tpc, history>>

\* recv_timeout: the deadline wakes it, or has passed when it looks.
TimesOut ==
  /\ \/ cpc = "asleep" /\ cpc' = "recv"
     \/ cpc = "recv" /\ NothingThere /\ senders # 0 /\ cpc' = "idle"
  /\ UNCHANGED <<stateVars, doorbell, ownVars, tpc, history>>

ClientProds ==
  /\ cpc = "prod" /\ cpc' = "idle"
  /\ UNCHANGED <<stateVars, doorbell, ownVars, tpc, history>>

\* ensure_doorbell: created under the lock in the state the queue is in.
AskDoorbell ==
  /\ cpc = "idle" /\ doorbell = "none"
  /\ doorbell' = IF Pending(queue, latched, senders) THEN "lit" ELSE "dark"
  /\ UNCHANGED <<stateVars, ownVars, tpc, cpc, history>>

-----------------------------------------------------------------------------
ThreadSteps(t) == Reserved(t) \/ Notify(t) \/ Prod(t) \/ Release(t)
                  \/ \E w \in Asking : ReservedStanding(t, w)

UserSteps(t) ==
  \/ Reserve(t) \/ Redeem(t) \/ DropReservation(t) \/ DropSender(t)
  \/ \E w \in Watches : Send(t, w)
  \/ \E w \in Asking : ReserveStanding(t, w) \/ StandingSend(t, w) \/ DropStanding(t, w)
  \/ \E u \in Threads : Clone(t, u)

ClientSteps == RecvTakes \/ RecvEnds \/ RecvSleeps \/ TimesOut \/ ClientProds

Next ==
  \/ \E t \in Threads : ThreadSteps(t) \/ UserSteps(t)
  \/ ClientSteps \/ TryRecv \/ BeginRecv \/ AskDoorbell

Spec == Init /\ [][Next]_vars

-----------------------------------------------------------------------------
(* Properties                                                              *)

TypeOK ==
  /\ queue \in Seq([kind : {"batch", "desync", "promised", "question"},
                     watch : Watches \cup {"none"}, n : Nat])
  /\ reserved \in Nat /\ senders \in Nat /\ latched \in Seq(Watches)
  /\ doorbell \in {"none", "lit", "dark"}
  /\ slot \in [Asking -> [alive : BOOLEAN, inFlight : BOOLEAN, queued : Nat]]
  /\ reservations \in Nat /\ reservable \in Nat /\ handle \subseteq Threads
  /\ tpc \in [Threads -> {"idle", "notify", "reserving", "standing", "redeemed", "prod",
                          "release"}]
  /\ cpc \in {"idle", "recv", "asleep", "prod", "ended"}
  /\ sent \in [Watches -> Nat] /\ asked \in [Asking -> Nat]

\* Who holds a counted slot: reservations, those being made, and standing slots
\* whose message is not in the queue.
Holders ==
  reservations + Cardinality({t \in Threads : tpc[t] \in {"reserving", "standing"}})
  + Cardinality({w \in Asking : slot[w].alive /\ ~slot[w].inFlight})

\* "a reserved message cannot be refused" (Reservation::send, StandingSlot::send,
\* which push without looking): entries and counted slots never exceed the bound,
\* and the count is exactly what its holders can still redeem.
RoomKept == Len(queue) + reserved <= Bound /\ reserved = Holders

\* What the client has still to receive, in order.
Coming == queue \o [i \in 1 .. Len(latched) |-> Desync(latched[i])]

\* "a loss is reported at the point it happened" (send): between two notifications
\* of a watch that the client receives one after the other, numbers are missing
\* exactly where a Desync stands, and each Desync stands for a loss of its own.
LossIsReported ==
  \A w \in Watches :
    LET places == {i \in 1 .. Len(Coming) : Coming[i] = Batch(w, Coming[i].n)}
        prior(k) == {i \in places : i < k}
        from(k) == IF prior(k) = {} THEN 0
                   ELSE CHOOSE i \in prior(k) : \A j \in prior(k) : j <= i
        before(k) == IF from(k) = 0 THEN seen[w].n ELSE Coming[from(k)].n
        told(k) == Cardinality({i \in from(k) + 1 .. k - 1 : Coming[i] = Desync(w)})
                   + (IF from(k) = 0 THEN seen[w].told ELSE 0)
        Explained(k, n) ==
          LET missing == n - before(k) - 1
          IN  missing >= told(k) /\ (missing > 0 => told(k) > 0)
    IN  /\ \A k \in places : Explained(k, Coming[k].n)
        /\ Explained(Len(Coming) + 1, sent[w] + 1)

\* A message of a standing slot reaches the client unless a newer one replaces it,
\* and once: what is queued is the newest, and when nothing is queued the newest
\* has been heard (StandingSlot::send, take).
QuestionsKept ==
  \A w \in Asking :
    LET places == {i \in 1 .. Len(queue) : queue[i] = Standing(w)}
    IN  /\ Cardinality(places) = IF slot[w].inFlight THEN 1 ELSE 0
        /\ slot[w].inFlight => slot[w].queued = asked[w] /\ heard[w] < asked[w]
        /\ ~slot[w].inFlight => heard[w] = asked[w]

\* The event tells the truth: lit exactly while there is something to take or the
\* stream has ended, whatever put it there or took it away (refresh_doorbell).
DoorbellTells == doorbell # "none" => (doorbell = "lit" <=> Pending(queue, latched, senders))

\* None from recv is final: nothing is queued and nobody can send any more.
EndIsFinal ==
  cpc = "ended" =>
    /\ NothingThere /\ handle = {} /\ reservations = 0
    /\ \A w \in Asking : ~slot[w].alive

\* "so == 1 catches the crossing and cannot be stepped over" (freed_resumers): room
\* for a best-effort notification never appears without a prod.
RoomIsProdded ==
  [][BestEffortRoom(queue, reserved, latched) = 0
     /\ BestEffortRoom(queue, reserved, latched)' > 0
       => cpc' = "prod" \/ \E t \in Threads : tpc[t] = "idle" /\ tpc'[t] = "prod"]_vars

\* No notification is slept through: a client asleep on the condition variable with
\* something to take, or at the end of the stream, is about to be notified.
NoLostWakeup ==
  cpc = "asleep" /\ Pending(queue, latched, senders) =>
    \E t \in Threads : tpc[t] \in {"notify", "redeemed"}

\* The client always gets to know: neither the event it waits on from outside nor
\* the call it sleeps in misses a notification, and the end comes only at the end.
ClientIsTold == DoorbellTells /\ NoLostWakeup /\ EndIsFinal
=============================================================================
