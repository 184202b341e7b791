---------------------------- MODULE BoundedQueue ----------------------------
(***************************************************************************)
(* What every shape of windows-waitable-queues promises its user, with the *)
(* ring, the memory model and the waiting left out: a bounded FIFO in      *)
(* which room can be held before an item is there to fill it.              *)
(*                                                                         *)
(* The shapes are shown to implement this specification (Promise!Spec in   *)
(* Spsc, SlotwiseMpsc, ReservingMpsc and PermitMpsc).                      *)
(***************************************************************************)
EXTENDS Naturals, Sequences

CONSTANTS Bound,            \* the capacity
          Item              \* the items that may travel the queue

VARIABLES waiting,          \* items admitted and not yet taken, oldest first
          held,             \* slots promised to somebody who has not filled them
          taken,            \* the items the consumer has had, in order
          closed,           \* no producer is left
          told,             \* a blocking receive has reported the end
          disposed          \* the items torn down with the queue

queue == <<waiting, held, taken, closed, told, disposed>>

Init ==
  /\ waiting = << >> /\ held = 0 /\ taken = << >>
  /\ closed = FALSE /\ told = FALSE /\ disposed = {}

\* There is a slot that is neither occupied nor promised.
Room == Len(waiting) + held < Bound

Hold ==
  /\ ~closed /\ Room
  /\ held' = held + 1
  /\ UNCHANGED <<waiting, taken, closed, told, disposed>>

LetGo ==
  /\ held > 0
  /\ held' = held - 1
  /\ UNCHANGED <<waiting, taken, closed, told, disposed>>

\* A held slot is filled: no room is asked for.
Fill(item) ==
  /\ ~closed /\ held > 0
  /\ held' = held - 1
  /\ waiting' = Append(waiting, item)
  /\ UNCHANGED <<taken, closed, told, disposed>>

\* An item is admitted into room nobody holds.
Admit(item) ==
  /\ ~closed /\ Room
  /\ waiting' = Append(waiting, item)
  /\ UNCHANGED <<held, taken, closed, told, disposed>>

Take ==
  /\ waiting # << >>
  /\ taken' = Append(taken, Head(waiting))
  /\ waiting' = Tail(waiting)
  /\ UNCHANGED <<held, closed, told, disposed>>

\* The last producer leaves, and holds nothing.
Close ==
  /\ ~closed /\ held = 0
  /\ closed' = TRUE
  /\ UNCHANGED <<waiting, held, taken, told, disposed>>

\* A blocking receive reports the end: nothing is left and nothing can come.
TellEnd ==
  /\ closed /\ waiting = << >>
  /\ told' = TRUE
  /\ UNCHANGED <<waiting, held, taken, closed, disposed>>

\* The consumer asks again.
AskAgain ==
  /\ told /\ told' = FALSE
  /\ UNCHANGED <<waiting, held, taken, closed, disposed>>

\* The queue is torn down with whatever was never taken.
Dispose ==
  /\ closed /\ disposed = {}
  /\ disposed' = {waiting[i] : i \in 1 .. Len(waiting)}
  /\ UNCHANGED <<waiting, held, taken, closed, told>>

Next ==
  \/ Hold \/ LetGo \/ Take \/ Close \/ TellEnd \/ AskAgain \/ Dispose
  \/ \E item \in Item : Fill(item) \/ Admit(item)

Spec == Init /\ [][Next]_queue
=============================================================================
