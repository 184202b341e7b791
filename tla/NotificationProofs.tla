------------------------- MODULE NotificationProofs -------------------------
(***************************************************************************)
(* What the notification queue guarantees for any number of threads,       *)
(* watches and standing slots and for any bound.                           *)
(*                                                                         *)
(* The argument: two numbers stand for sets.  `reserved` counts those who  *)
(* may still push without looking (RoomKept); it stays exact across the    *)
(* hand-over of a standing slot's reservation to the queue and back only   *)
(* because the slot is in the queue once, exactly while it is in flight    *)
(* (Once).  `senders` counts those who may still act (Counted), so it is   *)
(* positive at every step of a thread; hence the end is the end and the    *)
(* event follows the state, although most operations leave it alone.       *)
(***************************************************************************)
EXTENDS NotificationQueue, FiniteSetTheorems, TLAPS

\* What may stand in the queue.
Entry == [kind : {"batch", "desync", "promised", "question"},
          watch : Watches \cup {"none"}, n : Nat]

\* Standing slots that are in use, that stand in the queue, that hold a counted slot.
Alive == {w \in Asking : slot[w].alive}
InFlight == {w \in Asking : slot[w].inFlight}
Loaned == {w \in Asking : slot[w].alive /\ ~slot[w].inFlight}

\* Threads that are making a reservation, and that have a sender still to let go.
Reserving == {t \in Threads : tpc[t] \in {"reserving", "standing"}}
Letting == {t \in Threads : tpc[t] \in {"redeemed", "prod", "release"}}

\* The values of one slot, of a thread's place and of the client's.
SlotState == [alive : BOOLEAN, inFlight : BOOLEAN, queued : Nat]

Steps == {"idle", "notify", "reserving", "standing", "redeemed", "prod", "release"}

ClientPlaces == {"idle", "recv", "asleep", "prod", "ended"}

\* TypeOK without the two counts and without what the client sees.
Typed ==
  /\ queue \in Seq(Entry) /\ latched \in Seq(Watches)
  /\ reservations \in Nat /\ reservable \in Nat /\ handle \subseteq Threads
  /\ slot \in [Asking -> SlotState] /\ tpc \in [Threads -> Steps]
  /\ sent \in [Watches -> Nat] /\ asked \in [Asking -> Nat]

\* The client's place and its event.
Flags == cpc \in ClientPlaces /\ doorbell \in {"none", "lit", "dark"}

\* A standing slot is in the queue once, exactly while it is in flight.
Once ==
  /\ \A i \in 1 .. Len(queue) : queue[i].kind = "question" =>
       queue[i].watch \in InFlight /\ queue[i] = Standing(queue[i].watch)
  /\ \A w \in InFlight : \E i \in 1 .. Len(queue) : queue[i] = Standing(w)
  /\ \A i, j \in 1 .. Len(queue) : queue[i].kind = "question" /\ queue[i] = queue[j] => i = j

\* What is queued for a slot is the newest message; when nothing is, it has been heard.
Newest ==
  /\ heard \in [Asking -> Nat]
  /\ \A w \in Asking :
       /\ w \in InFlight => slot[w].queued = asked[w] /\ heard[w] < asked[w]
       /\ w \notin InFlight => heard[w] = asked[w]

\* `senders` stands for the handles, and the senders inside reservations and slots.
Counted ==
  /\ senders = Cardinality(handle) + reservations + Cardinality(Alive) + Cardinality(Letting)
  /\ Reserving \subseteq handle

\* The client saw the end when nobody was left to send.
Ended == cpc = "ended" => senders = 0 /\ NothingThere

\* The inductive invariant.
IInv == Typed /\ Flags /\ Once /\ Newest /\ RoomKept /\ Counted /\ Ended /\ DoorbellTells
        /\ NoLostWakeup

\* What one thread or slot adds to the counts of reservations, senders and slots.
RNum(s) == IF s \in {"reserving", "standing"} THEN 1 ELSE 0
LNum(s) == IF s \in {"redeemed", "prod", "release"} THEN 1 ELSE 0

ANum(s) == IF s.alive THEN 1 ELSE 0
FNum(s) == IF s.alive /\ ~s.inFlight THEN 1 ELSE 0

\* Steps of the client that touch its own place, or its event, only.
ClientStill == UNCHANGED <<stateVars, ownVars, tpc, history>>

\* A count changes by what the one element that may have moved makes of it.
LEMMA OneMoves ==
  ASSUME NEW S, IsFiniteSet(S), NEW A \in SUBSET S, NEW B \in SUBSET S, NEW x \in S,
         \A y \in S : y # x => (y \in A <=> y \in B)
  PROVE  /\ Cardinality(A) \in Nat /\ Cardinality(B) \in Nat
         /\ (x \in A <=> x \in B) => Cardinality(B) = Cardinality(A)
         /\ x \notin A /\ x \in B => Cardinality(B) = Cardinality(A) + 1
         /\ x \in A /\ x \notin B => Cardinality(B) = Cardinality(A) - 1
<1>1. IsFiniteSet(A) /\ IsFiniteSet(B)
  BY FS_Subset
<1>2. Cardinality(A) \in Nat /\ Cardinality(B) \in Nat
  BY <1>1, FS_CardinalityType
<1>3. (x \in A <=> x \in B) => A = B
  OBVIOUS
<1>4. ASSUME x \notin A, x \in B PROVE Cardinality(B) = Cardinality(A) + 1
  <2>1. B = A \cup {x}
    BY <1>4
  <2> QED
    BY <1>1, <1>4, <2>1, FS_AddElement
<1>5. ASSUME x \in A, x \notin B PROVE Cardinality(B) = Cardinality(A) - 1
  <2>1. B = A \ {x}
    BY <1>5
  <2> QED
    BY <1>1, <1>5, <2>1, FS_RemoveElement
<1> QED
  BY <1>2, <1>3, <1>4, <1>5

\* What the entries of a concatenation are.
LEMMA Joined ==
  ASSUME NEW S, NEW s \in Seq(S), NEW z \in Seq(S)
  PROVE  /\ s \o z \in Seq(S) /\ Len(s \o z) = Len(s) + Len(z)
         /\ \A i \in 1 .. Len(s) : (s \o z)[i] = s[i]
         /\ \A i \in Len(s) + 1 .. Len(s) + Len(z) : (s \o z)[i] = z[i - Len(s)]
<1>1. Len(s) \in Nat /\ Len(z) \in Nat
  OBVIOUS
<1>2. Len(s \o z) = Len(s) + Len(z)
  OBVIOUS
<1>3. \A i \in 1 .. Len(s) : (s \o z)[i] = s[i]
  OBVIOUS
<1>4. \A i \in Len(s) + 1 .. Len(s) + Len(z) : (s \o z)[i] = z[i - Len(s)]
  OBVIOUS
<1>5. s \o z \in Seq(S)
  OBVIOUS
<1> QED
  BY <1>2, <1>3, <1>4, <1>5

\* What a flush leaves: the entries that were there, then losses only; no more than
\* there is room for, and a loss stays latched only when the room is used up.
LEMMA FlushShape ==
  ASSUME NEW q \in Seq(Entry), NEW r \in Nat, NEW l \in Seq(Watches),
         Len(q) + r <= Bound
  PROVE  /\ Flushed(q, r, l) \in Seq(Entry) /\ StillLatched(q, r, l) \in Seq(Watches)
         /\ Len(Flushed(q, r, l)) + r <= Bound
         /\ Len(Flushed(q, r, l)) + Len(StillLatched(q, r, l)) = Len(q) + Len(l)
         /\ Len(q) <= Len(Flushed(q, r, l))
         /\ \A i \in 1 .. Len(q) : Flushed(q, r, l)[i] = q[i]
         /\ \A i \in Len(q) + 1 .. Len(Flushed(q, r, l)) :
              Flushed(q, r, l)[i].kind = "desync"
<1> DEFINE k == Least(Free(q, r), Len(l))
           d == [i \in 1 .. k |-> Desync(l[i])]
<1>1. Len(q) \in Nat /\ Len(l) \in Nat /\ Bound \in Nat
  BY QueueAssumption
<1>2. k \in 0 .. Len(l) /\ k <= Bound - Len(q) - r
  BY <1>1 DEF Least, Free
<1>3. \A i \in 1 .. k : l[i] \in Watches /\ Desync(l[i]) \in Entry /\ Desync(l[i]).kind = "desync"
  BY <1>1, <1>2 DEF Desync, Entry
<1> HIDE DEF k
<1>4. d \in Seq(Entry) /\ Len(d) = k
  BY <1>2, <1>3
<1>5. \A i \in 1 .. k : d[i].kind = "desync"
  BY <1>3
<1> HIDE DEF d
<1>6. Flushed(q, r, l) = q \o d
  BY DEF Flushed, k, d
<1>7. /\ q \o d \in Seq(Entry) /\ Len(q \o d) = Len(q) + k
      /\ \A i \in 1 .. Len(q) : (q \o d)[i] = q[i]
      /\ \A i \in Len(q) + 1 .. Len(q) + k : (q \o d)[i] = d[i - Len(q)]
  BY <1>4, Joined, Zenon
<1>8. StillLatched(q, r, l) = SubSeq(l, k + 1, Len(l))
  BY DEF StillLatched, k
<1>9. StillLatched(q, r, l) \in Seq(Watches) /\ Len(StillLatched(q, r, l)) = Len(l) - k
  BY <1>1, <1>2, <1>8
<1>10. \A i \in Len(q) + 1 .. Len(q) + k : (q \o d)[i].kind = "desync"
  BY <1>1, <1>2, <1>5, <1>7
<1> QED
  BY <1>1, <1>2, <1>6, <1>7, <1>9, <1>10

\* Those steps are all the client does between two takes.
LEMMA StillSteps ==
  RecvEnds \/ RecvSleeps \/ TimesOut \/ ClientProds \/ BeginRecv \/ AskDoorbell
  \/ UNCHANGED vars => ClientStill
BY Zenon DEF RecvEnds, RecvSleeps, TimesOut, ClientProds, BeginRecv, AskDoorbell, ClientStill, vars

\* What a thread's moving does to the counts of threads.
LEMMA Went ==
  ASSUME Typed, NEW t \in Threads, NEW from, NEW to \in Steps, Goes(t, from, to)
  PROVE  /\ tpc' \in [Threads -> Steps] /\ tpc'[t] = to /\ tpc[t] = from
         /\ \A u \in Threads : u # t => tpc'[u] = tpc[u]
         /\ Cardinality(Reserving') = Cardinality(Reserving) + RNum(to) - RNum(from)
         /\ Cardinality(Letting') = Cardinality(Letting) + LNum(to) - LNum(from)
         /\ Cardinality(Reserving) \in Nat /\ Cardinality(Letting) \in Nat
<1>1. /\ tpc' \in [Threads -> Steps] /\ tpc'[t] = to /\ tpc[t] = from
      /\ \A u \in Threads : u # t => tpc'[u] = tpc[u]
  BY DEF Goes, Typed
<1>2. IsFiniteSet(Threads)
  BY QueueAssumption
<1>3. /\ Cardinality(Reserving) \in Nat
      /\ Cardinality(Reserving') = Cardinality(Reserving) + RNum(to) - RNum(from)
  <2>1. /\ Reserving \in SUBSET Threads /\ Reserving' \in SUBSET Threads
        /\ \A u \in Threads : u # t => (u \in Reserving <=> u \in Reserving')
        /\ t \in Reserving <=> from \in {"reserving", "standing"}
        /\ t \in Reserving' <=> to \in {"reserving", "standing"}
    BY <1>1, Zenon DEF Reserving
  <2>2. /\ Cardinality(Reserving) \in Nat /\ Cardinality(Reserving') \in Nat
        /\ (t \in Reserving <=> t \in Reserving') => Cardinality(Reserving') = Cardinality(Reserving)
        /\ t \notin Reserving /\ t \in Reserving' => Cardinality(Reserving') = Cardinality(Reserving) + 1
        /\ t \in Reserving /\ t \notin Reserving' => Cardinality(Reserving') = Cardinality(Reserving) - 1
    BY <1>2, <2>1, OneMoves
  <2> QED
    BY <2>1, <2>2 DEF RNum
<1>4. /\ Cardinality(Letting) \in Nat
      /\ Cardinality(Letting') = Cardinality(Letting) + LNum(to) - LNum(from)
  <2>1. /\ Letting \in SUBSET Threads /\ Letting' \in SUBSET Threads
        /\ \A u \in Threads : u # t => (u \in Letting <=> u \in Letting')
        /\ t \in Letting <=> from \in {"redeemed", "prod", "release"}
        /\ t \in Letting' <=> to \in {"redeemed", "prod", "release"}
    BY <1>1, Zenon DEF Letting
  <2>2. /\ Cardinality(Letting) \in Nat /\ Cardinality(Letting') \in Nat
        /\ (t \in Letting <=> t \in Letting') => Cardinality(Letting') = Cardinality(Letting)
        /\ t \notin Letting /\ t \in Letting' => Cardinality(Letting') = Cardinality(Letting) + 1
        /\ t \in Letting /\ t \notin Letting' => Cardinality(Letting') = Cardinality(Letting) - 1
    BY <1>2, <2>1, OneMoves
  <2> QED
    BY <2>1, <2>2 DEF LNum
<1> QED
  BY <1>1, <1>3, <1>4

\* What a change of one standing slot does to the sets and counts of slots.
LEMMA SlotWent ==
  ASSUME Typed, NEW w \in Asking, slot' \in [Asking -> SlotState],
         \A v \in Asking : v # w => slot'[v] = slot[v]
  PROVE  /\ Cardinality(Alive') = Cardinality(Alive) + ANum(slot'[w]) - ANum(slot[w])
         /\ Cardinality(Loaned') = Cardinality(Loaned) + FNum(slot'[w]) - FNum(slot[w])
         /\ Cardinality(Alive) \in Nat /\ Cardinality(Loaned) \in Nat
         /\ w \in InFlight' <=> slot'[w].inFlight
         /\ w \in InFlight <=> slot[w].inFlight
         /\ \A v \in Asking : v # w => (v \in InFlight' <=> v \in InFlight)
<1>1. IsFiniteSet(Asking)
  BY QueueAssumption, FS_Subset
<1>2. /\ Cardinality(Alive) \in Nat
      /\ Cardinality(Alive') = Cardinality(Alive) + ANum(slot'[w]) - ANum(slot[w])
  <2>1. /\ Alive \in SUBSET Asking /\ Alive' \in SUBSET Asking
        /\ \A v \in Asking : v # w => (v \in Alive <=> v \in Alive')
        /\ w \in Alive <=> slot[w].alive
        /\ w \in Alive' <=> slot'[w].alive
    BY Zenon DEF Alive
  <2>2. /\ Cardinality(Alive) \in Nat /\ Cardinality(Alive') \in Nat
        /\ (w \in Alive <=> w \in Alive') => Cardinality(Alive') = Cardinality(Alive)
        /\ w \notin Alive /\ w \in Alive' => Cardinality(Alive') = Cardinality(Alive) + 1
        /\ w \in Alive /\ w \notin Alive' => Cardinality(Alive') = Cardinality(Alive) - 1
    BY <1>1, <2>1, OneMoves
  <2>3. /\ ANum(slot[w]) = IF w \in Alive THEN 1 ELSE 0
        /\ ANum(slot'[w]) = IF w \in Alive' THEN 1 ELSE 0
    BY <2>1, Zenon DEF ANum
  <2> QED
    BY <2>2, <2>3
<1>3. /\ Cardinality(Loaned) \in Nat
      /\ Cardinality(Loaned') = Cardinality(Loaned) + FNum(slot'[w]) - FNum(slot[w])
  <2>1. /\ Loaned \in SUBSET Asking /\ Loaned' \in SUBSET Asking
        /\ \A v \in Asking : v # w => (v \in Loaned <=> v \in Loaned')
        /\ w \in Loaned <=> slot[w].alive /\ ~slot[w].inFlight
        /\ w \in Loaned' <=> slot'[w].alive /\ ~slot'[w].inFlight
    BY Zenon DEF Loaned
  <2>2. /\ Cardinality(Loaned) \in Nat /\ Cardinality(Loaned') \in Nat
        /\ (w \in Loaned <=> w \in Loaned') => Cardinality(Loaned') = Cardinality(Loaned)
        /\ w \notin Loaned /\ w \in Loaned' => Cardinality(Loaned') = Cardinality(Loaned) + 1
        /\ w \in Loaned /\ w \notin Loaned' => Cardinality(Loaned') = Cardinality(Loaned) - 1
    BY <1>1, <2>1, OneMoves
  <2>3. /\ FNum(slot[w]) = IF w \in Loaned THEN 1 ELSE 0
        /\ FNum(slot'[w]) = IF w \in Loaned' THEN 1 ELSE 0
    BY <2>1, Zenon DEF FNum
  <2> QED
    BY <2>2, <2>3
<1>4. /\ w \in InFlight' <=> slot'[w].inFlight
      /\ w \in InFlight <=> slot[w].inFlight
      /\ \A v \in Asking : v # w => (v \in InFlight' <=> v \in InFlight)
  BY Zenon DEF InFlight
<1> QED
  BY <1>2, <1>3, <1>4

\* What each operation on a standing slot makes of it.
LEMMA SlotSteps ==
  ASSUME Typed, NEW w \in Asking
  PROVE  /\ \A t \in Threads : ReservedStanding(t, w) =>
              /\ slot' \in [Asking -> SlotState] /\ \A v \in Asking : v # w => slot'[v] = slot[v]
              /\ ~slot[w].alive /\ ~slot[w].inFlight /\ slot'[w].alive /\ ~slot'[w].inFlight
         /\ \A t \in Threads : StandingSend(t, w) =>
              /\ slot' \in [Asking -> SlotState] /\ \A v \in Asking : v # w => slot'[v] = slot[v]
              /\ slot[w].alive /\ slot'[w].alive /\ slot'[w].inFlight /\ slot'[w].queued = asked[w] + 1
         /\ \A t \in Threads : DropStanding(t, w) =>
              /\ slot' \in [Asking -> SlotState] /\ \A v \in Asking : v # w => slot'[v] = slot[v]
              /\ slot[w].alive /\ ~slot'[w].alive /\ (slot'[w].inFlight <=> slot[w].inFlight)
              /\ slot'[w].queued = slot[w].queued
         /\ slot' = [slot EXCEPT ![w].inFlight = FALSE, ![w].queued = 0] =>
              /\ slot' \in [Asking -> SlotState] /\ \A v \in Asking : v # w => slot'[v] = slot[v]
              /\ (slot'[w].alive <=> slot[w].alive) /\ ~slot'[w].inFlight
<1> USE DEF Typed, SlotState
<1>1. ASSUME NEW t \in Threads, ReservedStanding(t, w)
      PROVE  /\ slot' \in [Asking -> SlotState] /\ \A v \in Asking : v # w => slot'[v] = slot[v]
             /\ ~slot[w].alive /\ ~slot[w].inFlight /\ slot'[w].alive /\ ~slot'[w].inFlight
  <2>1. slot[w] = NoSlot /\ slot' = [slot EXCEPT ![w].alive = TRUE]
    BY <1>1 DEF ReservedStanding
  <2>2. NoSlot.alive = FALSE /\ NoSlot.inFlight = FALSE
    BY DEF NoSlot
  <2>3. slot'[w].alive = TRUE /\ slot'[w].inFlight = slot[w].inFlight
    BY <2>1
  <2>4. slot' \in [Asking -> SlotState] /\ \A v \in Asking : v # w => slot'[v] = slot[v]
    BY <2>1, Zenon
  <2> QED
    BY <2>1, <2>2, <2>3, <2>4, Zenon
<1>2. ASSUME NEW t \in Threads, StandingSend(t, w)
      PROVE  /\ slot' \in [Asking -> SlotState] /\ \A v \in Asking : v # w => slot'[v] = slot[v]
             /\ slot[w].alive /\ slot'[w].alive /\ slot'[w].inFlight /\ slot'[w].queued = asked[w] + 1
  <2>1. /\ slot[w].alive /\ asked' = [asked EXCEPT ![w] = @ + 1]
        /\ slot' = [slot EXCEPT ![w].inFlight = TRUE, ![w].queued = asked'[w]]
    BY <1>2, Zenon DEF StandingSend
  <2>2. asked'[w] = asked[w] + 1 /\ asked'[w] \in Nat
    BY <2>1
  <2>3. /\ slot'[w].inFlight = TRUE /\ slot'[w].alive = slot[w].alive
        /\ slot'[w].queued = asked'[w]
    BY <2>1, Zenon
  <2>4. slot' \in [Asking -> SlotState] /\ \A v \in Asking : v # w => slot'[v] = slot[v]
    BY <2>1, <2>2, Zenon
  <2> QED
    BY <2>1, <2>2, <2>3, <2>4, Zenon
<1>3. ASSUME NEW t \in Threads, DropStanding(t, w)
      PROVE  /\ slot' \in [Asking -> SlotState] /\ \A v \in Asking : v # w => slot'[v] = slot[v]
             /\ slot[w].alive /\ ~slot'[w].alive /\ (slot'[w].inFlight <=> slot[w].inFlight)
             /\ slot'[w].queued = slot[w].queued
  BY <1>3, Zenon DEF DropStanding
<1>4. ASSUME slot' = [slot EXCEPT ![w].inFlight = FALSE, ![w].queued = 0]
      PROVE  /\ slot' \in [Asking -> SlotState] /\ \A v \in Asking : v # w => slot'[v] = slot[v]
             /\ (slot'[w].alive <=> slot[w].alive) /\ ~slot'[w].inFlight
  BY <1>4, Zenon
<1> QED
  BY <1>1, <1>2, <1>3, <1>4, Zenon

\* The counts are natural numbers.
LEMMA Sizes ==
  ASSUME Typed, RoomKept, Counted
  PROVE  /\ reserved \in Nat /\ senders \in Nat
         /\ Cardinality(Reserving) \in Nat /\ Cardinality(Loaned) \in Nat
         /\ Cardinality(handle) \in Nat /\ Cardinality(Alive) \in Nat
         /\ Cardinality(Letting) \in Nat /\ IsFiniteSet(handle)
         /\ reserved = reservations + Cardinality(Reserving) + Cardinality(Loaned)
         /\ Len(queue) \in Nat /\ Len(latched) \in Nat /\ Bound \in Nat
<1>1. IsFiniteSet(Threads) /\ IsFiniteSet(Asking)
  BY QueueAssumption, FS_Subset
<1>2. /\ Reserving \subseteq Threads /\ Letting \subseteq Threads /\ handle \subseteq Threads
      /\ Loaned \subseteq Asking /\ Alive \subseteq Asking
  BY DEF Typed, Reserving, Letting, Loaned, Alive
<1>3. /\ Cardinality(Reserving) \in Nat /\ Cardinality(Loaned) \in Nat
      /\ Cardinality(handle) \in Nat /\ Cardinality(Alive) \in Nat
      /\ Cardinality(Letting) \in Nat /\ IsFiniteSet(handle)
  BY <1>1, <1>2, FS_Subset, FS_CardinalityType
<1>4. reserved = reservations + Cardinality(Reserving) + Cardinality(Loaned)
  BY DEF RoomKept, Holders, Reserving, Loaned
<1> QED
  BY <1>3, <1>4, QueueAssumption DEF Typed, Counted

\* What the oldest entry's leaving makes of the queue.
LEMMA Taken ==
  ASSUME NEW S, NEW q \in Seq(S), q # << >>
  PROVE  /\ Tail(q) \in Seq(S) /\ Len(Tail(q)) = Len(q) - 1 /\ Head(q) = q[1] /\ Head(q) \in S
         /\ Len(q) \in Nat /\ Len(q) > 0
         /\ \A i \in 1 .. Len(q) - 1 : Tail(q)[i] = q[i + 1]
OBVIOUS

\* What comes after the entries that were there changes nothing for the slots when it
\* is none of theirs.
LEMMA OnceGrows ==
  ASSUME Typed, Once, queue' \in Seq(Entry), Len(queue) <= Len(queue'),
         \A i \in 1 .. Len(queue) : queue'[i] = queue[i],
         \A i \in Len(queue) + 1 .. Len(queue') : queue'[i].kind # "question",
         InFlight' = InFlight
  PROVE  Once'
<1>1. Len(queue) \in Nat /\ Len(queue') \in Nat
  BY DEF Typed
<1>2. \A i \in 1 .. Len(queue') : queue'[i].kind = "question" => i \in 1 .. Len(queue)
  BY <1>1
<1>4. ASSUME NEW i \in 1 .. Len(queue'), queue'[i].kind = "question"
      PROVE  queue'[i].watch \in InFlight' /\ queue'[i] = Standing(queue'[i].watch)
  BY <1>2, <1>4 DEF Once
<1>5. ASSUME NEW w \in InFlight' PROVE \E i \in 1 .. Len(queue') : queue'[i] = Standing(w)
  <2>1. PICK i \in 1 .. Len(queue) : queue[i] = Standing(w)
    BY DEF Once
  <2> QED
    BY <1>1, <2>1
<1>6. ASSUME NEW i \in 1 .. Len(queue'), NEW j \in 1 .. Len(queue'),
             queue'[i].kind = "question", queue'[i] = queue'[j]
      PROVE  i = j
  BY <1>2, <1>6 DEF Once
<1>7. \A w : Standing(w)' = Standing(w)
  BY DEF Standing, Question
<1> QED
  BY <1>4, <1>5, <1>6, <1>7, Zenon DEF Once

\* Where releasing a slot or a sender leads.
LEMMA Leads == /\ AfterSenderGone \in {"notify", "idle"} /\ (senders = 1 => AfterSenderGone = "notify")
               /\ \A r : AfterRelease(r) \in {"prod", "release"}
BY Zenon DEF AfterSenderGone, AfterRelease

\* The steps of a thread leave tpc typed.
LEMMA PlacesStep == Typed /\ [Next]_vars => tpc' \in [Threads -> Steps]
<1> SUFFICES ASSUME Typed, [Next]_vars PROVE tpc' \in [Threads -> Steps]
  OBVIOUS
<1>1. ASSUME NEW t \in Threads, NEW from, NEW to \in Steps, Goes(t, from, to)
      PROVE  tpc' \in [Threads -> Steps]
  BY <1>1, Went
<1>2. {"idle", "notify", "reserving", "standing", "redeemed", "prod", "release"} \subseteq Steps
  BY DEF Steps
<1>3. ASSUME NEW t \in Threads, ThreadSteps(t) PROVE tpc' \in [Threads -> Steps]
  BY <1>1, <1>2, <1>3, Leads, Zenon DEF ThreadSteps, Reserved, Notify, Prod, Release, ReservedStanding
<1>4. ASSUME NEW t \in Threads, UserSteps(t) PROVE tpc' \in [Threads -> Steps]
  BY <1>1, <1>2, <1>4, Leads, Zenon DEF UserSteps, Reserve, Redeem, DropReservation, DropSender, Send,
     ReserveStanding, StandingSend, DropStanding, Clone, Typed
<1>5. ClientSteps \/ TryRecv \/ BeginRecv \/ AskDoorbell \/ UNCHANGED vars
        => tpc' \in [Threads -> Steps]
  <2>1. ClientStill \/ Receives => tpc' = tpc
    BY DEF ClientStill, Receives
  <2>2. ClientSteps \/ TryRecv \/ BeginRecv \/ AskDoorbell \/ UNCHANGED vars
          => ClientStill \/ Receives
    BY StillSteps, Zenon DEF ClientSteps, RecvTakes, TryRecv
  <2> QED
    BY <2>1, <2>2 DEF Typed
<1> QED
  BY <1>3, <1>4, <1>5, Zenon DEF Next

\* The queue and what is latched stay typed.
LEMMA QueueTypedStep ==
  Typed /\ RoomKept /\ Counted /\ [Next]_vars =>
    queue' \in Seq(Entry) /\ latched' \in Seq(Watches)
<1> SUFFICES ASSUME Typed, RoomKept, Counted, [Next]_vars
             PROVE  queue' \in Seq(Entry) /\ latched' \in Seq(Watches)
  OBVIOUS
<1> DEFINE F == Flushed(queue, reserved, latched)
           L == StillLatched(queue, reserved, latched)
<1>1. F \in Seq(Entry) /\ L \in Seq(Watches)
  BY Sizes, FlushShape DEF Typed, RoomKept
<1>2. Promised \in Entry /\ (\A w \in Asking : Standing(w) \in Entry)
      /\ \A w \in Watches, n \in Nat : Batch(w, n) \in Entry
  BY QueueAssumption DEF Entry, Promised, Standing, Question, Batch
<1> HIDE DEF F, L
<1>3. ASSUME NEW t \in Threads, NEW w \in Watches, Send(t, w)
      PROVE  queue' \in Seq(Entry) /\ latched' \in Seq(Watches)
  <2>1. sent'[w] \in Nat
    BY <1>3 DEF Send, Typed
  <2>2. \/ queue' = Append(F, Batch(w, sent'[w])) /\ latched' = L
        \/ queue' = F /\ latched' = Latch(L, w)
    BY <1>3, Zenon DEF Send, F, L
  <2>3. Append(F, Batch(w, sent'[w])) \in Seq(Entry)
    BY <1>1, <1>2, <2>1
  <2>4. Latch(L, w) \in Seq(Watches)
    <3>1. Append(L, w) \in Seq(Watches)
      BY <1>1
    <3> QED
      BY <1>1, <3>1, Zenon DEF Latch
  <2> QED
    BY <1>1, <2>2, <2>3, <2>4, Zenon
<1>4. ASSUME NEW t \in Threads, Redeem(t)
      PROVE  queue' \in Seq(Entry) /\ latched' \in Seq(Watches)
  BY <1>1, <1>2, <1>4 DEF Redeem, F, L
<1>5. ASSUME NEW t \in Threads, NEW w \in Asking, StandingSend(t, w)
      PROVE  queue' \in Seq(Entry) /\ latched' \in Seq(Watches)
  <2>1. \/ queue' = queue /\ latched' = latched
        \/ queue' = Append(F, Standing(w)) /\ latched' = L
    BY <1>5, Zenon DEF StandingSend, F, L
  <2>2. Append(F, Standing(w)) \in Seq(Entry)
    BY <1>1, <1>2
  <2> QED
    BY <1>1, <2>1, <2>2, Zenon DEF Typed
<1>6. ASSUME Receives PROVE queue' \in Seq(Entry) /\ latched' \in Seq(Watches)
  <2>1. \/ queue # << >> /\ queue' = Tail(queue) /\ latched' = latched
        \/ latched # << >> /\ latched' = Tail(latched) /\ queue' = queue
    BY <1>6, Zenon DEF Receives, Take
  <2>2. queue # << >> => Tail(queue) \in Seq(Entry)
    BY Taken DEF Typed
  <2>3. latched # << >> => Tail(latched) \in Seq(Watches)
    BY Taken DEF Typed
  <2> QED
    BY <2>1, <2>2, <2>3, Zenon DEF Typed
<1>7. ASSUME queue' = queue /\ latched' = latched
      PROVE  queue' \in Seq(Entry) /\ latched' \in Seq(Watches)
  BY <1>7 DEF Typed
<1>8. ASSUME NEW t \in Threads,
             Reserved(t) \/ Notify(t) \/ Prod(t) \/ Release(t) \/ Reserve(t) \/ DropReservation(t)
             \/ DropSender(t) \/ (\E u \in Threads : Clone(t, u))
             \/ \E w \in Asking : ReservedStanding(t, w) \/ ReserveStanding(t, w) \/ DropStanding(t, w)
      PROVE  queue' = queue /\ latched' = latched
  BY <1>8, Zenon DEF Reserved, Notify, Prod, Release, Reserve, DropReservation, DropSender, Clone,
     ReservedStanding, ReserveStanding, DropStanding, stateVars
<1>9. ClientStill => queue' = queue /\ latched' = latched
  BY DEF ClientStill, stateVars
<1> QED
  BY <1>3, <1>4, <1>5, <1>6, <1>7, <1>8, <1>9, StillSteps, Zenon
  DEF Next, ThreadSteps, UserSteps, ClientSteps, RecvTakes, TryRecv

\* The three things a take can find: an entry, the message of a standing slot, a loss.
TakesEntry ==
  /\ queue # << >> /\ queue' = Tail(queue) /\ latched' = latched
  /\ queue[1].kind # "question" /\ slot' = slot /\ reserved' = reserved /\ heard' = heard

TakesQuestion(w) ==
  /\ queue # << >> /\ queue' = Tail(queue) /\ latched' = latched
  /\ queue[1] = Standing(w)
  /\ heard' = [heard EXCEPT ![w] = slot[w].queued]
  /\ slot' = [slot EXCEPT ![w].inFlight = FALSE, ![w].queued = 0]
  /\ reserved' = IF slot[w].alive THEN reserved + 1 ELSE reserved

TakesLoss ==
  /\ queue = << >> /\ queue' = queue /\ latched # << >> /\ latched' = Tail(latched)
  /\ slot' = slot /\ reserved' = reserved /\ heard' = heard

\* A take finds one of the three, and only a slot in flight has a message there.
LEMMA TakeFinds ==
  ASSUME Typed, Once, Receives
  PROVE  TakesEntry \/ (\E w \in InFlight : TakesQuestion(w)) \/ TakesLoss
<1>1. CASE queue = << >>
  BY <1>1, Zenon DEF Receives, Take, TakesLoss
<1>2. CASE queue # << >>
  <2>1. Head(queue) = queue[1] /\ 1 \in 1 .. Len(queue)
    BY <1>2, Taken DEF Typed
  <2>2. CASE queue[1].kind # "question"
    BY <1>2, <2>1, <2>2, Zenon DEF Receives, Take, TakesEntry
  <2>3. CASE queue[1].kind = "question"
    <3> DEFINE w == queue[1].watch
    <3>1. w \in InFlight /\ queue[1] = Standing(w)
      BY <2>1, <2>3 DEF Once
    <3>2. TakesQuestion(w)
      BY <1>2, <2>1, <2>3, <3>1, Zenon DEF Receives, Take, TakesQuestion, ReservedAfterTake
    <3> QED
      BY <3>1, <3>2, Zenon
  <2> QED
    BY <2>2, <2>3
<1> QED
  BY <1>1, <1>2

\* What the steps own, and the histories of the senders, stay typed.
LEMMA OwnTypedStep ==
  Typed /\ Once /\ [Next]_vars =>
    /\ reservations' \in Nat /\ reservable' \in Nat /\ handle' \subseteq Threads
    /\ slot' \in [Asking -> SlotState]
    /\ sent' \in [Watches -> Nat] /\ asked' \in [Asking -> Nat]
<1> DEFINE Own == /\ reservations' \in Nat /\ reservable' \in Nat /\ handle' \subseteq Threads
                  /\ slot' \in [Asking -> SlotState]
                  /\ sent' \in [Watches -> Nat] /\ asked' \in [Asking -> Nat]
<1> SUFFICES ASSUME Typed, Once, [Next]_vars PROVE Own
  OBVIOUS
<1>1. ASSUME UNCHANGED <<reservations, reservable, handle, slot, sent, asked>> PROVE Own
  BY <1>1 DEF Typed
<1>2. ASSUME NEW t \in Threads, Reserved(t) PROVE Own
  BY <1>2 DEF Reserved, Typed, history
<1>3. ASSUME NEW t \in Threads, Notify(t) \/ Prod(t) \/ Release(t) PROVE Own
  BY <1>1, <1>3, Zenon DEF Notify, Prod, Release, ownVars, history
<1>4. ASSUME NEW t \in Threads, NEW w \in Asking, ReservedStanding(t, w) PROVE Own
  BY <1>4, SlotSteps, Zenon DEF ReservedStanding, Typed, history
<1>5. ASSUME NEW t \in Threads, Reserve(t) PROVE Own
  BY <1>5 DEF Reserve, Typed, history
<1>6. ASSUME NEW t \in Threads, Redeem(t) \/ DropReservation(t) PROVE Own
  BY <1>6 DEF Redeem, DropReservation, Typed, history
<1>7. ASSUME NEW t \in Threads, DropSender(t) PROVE Own
  BY <1>7 DEF DropSender, Typed, history
<1>8. ASSUME NEW t \in Threads, NEW w \in Watches, Send(t, w) PROVE Own
  BY <1>8 DEF Send, Typed, ownVars
<1>9. ASSUME NEW t \in Threads, NEW w \in Asking, ReserveStanding(t, w) PROVE Own
  BY <1>1, <1>9 DEF ReserveStanding, ownVars, history
<1>10. ASSUME NEW t \in Threads, NEW w \in Asking, StandingSend(t, w) PROVE Own
  <2>1. /\ UNCHANGED <<reservations, reservable, handle, sent>>
        /\ asked' = [asked EXCEPT ![w] = @ + 1]
    BY <1>10, Zenon DEF StandingSend
  <2>2. slot' \in [Asking -> SlotState]
    BY <1>10, SlotSteps, Zenon
  <2>3. asked' \in [Asking -> Nat]
    <3>1. asked \in [Asking -> Nat]
      BY DEF Typed
    <3> QED
      BY <2>1, <3>1
  <2> QED
    BY <2>1, <2>2, <2>3, Zenon DEF Typed
<1>11. ASSUME NEW t \in Threads, NEW w \in Asking, DropStanding(t, w) PROVE Own
  BY <1>11, SlotSteps, Zenon DEF DropStanding, Typed, history
<1>12. ASSUME NEW t \in Threads, NEW u \in Threads, Clone(t, u) PROVE Own
  BY <1>12 DEF Clone, Typed, history
<1>13. ASSUME Receives PROVE Own
  <2>1. UNCHANGED <<reservations, reservable, handle, sent, asked>>
    BY <1>13 DEF Receives
  <2>2. slot' \in [Asking -> SlotState]
    BY <1>13, TakeFinds, SlotSteps, Zenon DEF TakesEntry, TakesQuestion, TakesLoss, InFlight, Typed
  <2> QED
    BY <2>1, <2>2 DEF Typed
<1>14. ASSUME ClientStill PROVE Own
  BY <1>1, <1>14 DEF ClientStill, ownVars, history
<1> HIDE DEF Own
<1> QED
  BY <1>2, <1>3, <1>4, <1>5, <1>6, <1>7, <1>8, <1>9, <1>10, <1>11, <1>12, <1>13, <1>14,
     StillSteps, Zenon
  DEF Next, ThreadSteps, UserSteps, ClientSteps, RecvTakes, TryRecv

\* The types are preserved.
LEMMA TypedStep == Typed /\ Once /\ RoomKept /\ Counted /\ [Next]_vars => Typed'
BY PlacesStep, QueueTypedStep, OwnTypedStep DEF Typed

\* Nothing that holds a counted slot changes while slots, reservations and threads do not.
LEMMA HoldersFrame ==
  ASSUME slot' = slot, tpc' = tpc
  PROVE  /\ Reserving' = Reserving /\ Letting' = Letting
         /\ Loaned' = Loaned /\ Alive' = Alive /\ InFlight' = InFlight
BY DEF Reserving, Letting, Loaned, Alive, InFlight

\* Slots alone.
LEMMA SlotFrame ==
  ASSUME slot' = slot
  PROVE  Loaned' = Loaned /\ Alive' = Alive /\ InFlight' = InFlight
BY DEF Loaned, Alive, InFlight

\* Entries and counted slots stay within the bound, and the count exact.
LEMMA RoomStep ==
  Typed /\ Once /\ RoomKept /\ Counted /\ [Next]_vars => RoomKept'
<1> SUFFICES ASSUME Typed, Once, RoomKept, Counted, [Next]_vars PROVE RoomKept'
  OBVIOUS
<1> DEFINE F == Flushed(queue, reserved, latched)
           L == StillLatched(queue, reserved, latched)
           R == Cardinality(Reserving)
           N == Cardinality(Loaned)
<1>1. /\ reserved \in Nat /\ R \in Nat /\ N \in Nat /\ reserved = reservations + R + N
      /\ Len(queue) \in Nat /\ Bound \in Nat /\ reservations \in Nat
      /\ Len(queue) + reserved <= Bound
  BY Sizes DEF Typed, RoomKept
<1>2. F \in Seq(Entry) /\ Len(F) \in Nat /\ Len(F) + reserved <= Bound
  BY <1>1, FlushShape DEF Typed
<1>3. \A x : Len(Append(F, x)) = Len(F) + 1
  BY <1>2
<1>4. RoomKept' <=> Len(queue') + reserved' <= Bound /\ reserved' = reservations' + R' + N'
  BY DEF RoomKept, Holders, Reserving, Loaned
<1> HIDE DEF F, L, R, N
<1>5. ASSUME NEW t \in Threads, NEW from, NEW to \in Steps, Goes(t, from, to)
      PROVE  R' = R + RNum(to) - RNum(from)
  BY <1>5, Went DEF R
<1>6. slot' = slot => N' = N
  BY SlotFrame DEF N
<1>7. {"idle", "notify", "reserving", "standing", "redeemed", "prod", "release"} \subseteq Steps
  BY DEF Steps
<1>8. /\ RNum("idle") = 0 /\ RNum("notify") = 0 /\ RNum("reserving") = 1 /\ RNum("standing") = 1
      /\ RNum("redeemed") = 0 /\ RNum("prod") = 0 /\ RNum("release") = 0
  BY DEF RNum
<1>9. ASSUME NEW t \in Threads, Reserved(t) PROVE RoomKept'
  <2>1. Goes(t, "reserving", "idle") /\ slot' = slot /\ queue' = queue /\ reserved' = reserved
        /\ reservations' = reservations + 1
    BY <1>9 DEF Reserved
  <2>2. R' = R - 1 /\ N' = N
    BY <1>1, <1>5, <1>6, <1>7, <1>8, <2>1
  <2> QED
    BY <1>1, <1>4, <2>1, <2>2
<1>10. ASSUME NEW t \in Threads, Notify(t) \/ Prod(t) \/ Release(t) PROVE RoomKept'
  <2>1. /\ slot' = slot /\ queue' = queue /\ reserved' = reserved /\ reservations' = reservations
        /\ \E from \in Steps, to \in Steps : Goes(t, from, to) /\ RNum(from) = 0 /\ RNum(to) = 0
    BY <1>10, <1>7, <1>8, Leads, Zenon DEF Notify, Prod, Release, stateVars, ownVars
  <2>2. R' = R /\ N' = N
    BY <1>1, <1>5, <1>6, <2>1
  <2> QED
    BY <1>1, <1>4, <2>1, <2>2
<1>11. ASSUME NEW t \in Threads, NEW w \in Asking, ReservedStanding(t, w) PROVE RoomKept'
  <2>1. Goes(t, "standing", "idle") /\ queue' = queue /\ reserved' = reserved
        /\ reservations' = reservations
    BY <1>11 DEF ReservedStanding
  <2>2. FNum(slot[w]) = 0 /\ FNum(slot'[w]) = 1
    BY <1>11, SlotSteps, Zenon DEF FNum
  <2>3. N' = N + FNum(slot'[w]) - FNum(slot[w])
    <3>1. slot' \in [Asking -> SlotState] /\ \A v \in Asking : v # w => slot'[v] = slot[v]
      BY <1>11, SlotSteps, Zenon
    <3> QED
      BY <3>1, SlotWent, Zenon DEF N
  <2>4. R' = R - 1
    BY <1>1, <1>5, <1>7, <1>8, <2>1
  <2> QED
    BY <1>1, <1>4, <2>1, <2>2, <2>3, <2>4
<1>12. ASSUME NEW t \in Threads, Reserve(t) \/ \E w \in Asking : ReserveStanding(t, w)
       PROVE  RoomKept'
  <2>1. /\ slot' = slot /\ queue' = queue /\ reserved' = reserved + 1
        /\ reservations' = reservations /\ Bound - Len(queue) - reserved > 0
        /\ Goes(t, "idle", "reserving") \/ Goes(t, "idle", "standing")
    BY <1>12, Zenon DEF Reserve, ReserveStanding, MayReserve, Free, ownVars
  <2>2. R' = R + 1 /\ N' = N
    BY <1>1, <1>5, <1>6, <1>7, <1>8, <2>1
  <2> QED
    BY <1>1, <1>4, <2>1, <2>2
<1>13. ASSUME NEW t \in Threads, Redeem(t) PROVE RoomKept'
  <2>1. /\ slot' = slot /\ queue' = Append(F, Promised) /\ reserved' = reserved - 1
        /\ reservations' = reservations - 1 /\ Goes(t, "idle", "redeemed")
    BY <1>13 DEF Redeem, F
  <2>2. R' = R /\ N' = N
    BY <1>1, <1>5, <1>6, <1>7, <1>8, <2>1
  <2> QED
    BY <1>1, <1>2, <1>3, <1>4, <2>1, <2>2
<1>14. ASSUME NEW t \in Threads, DropReservation(t) PROVE RoomKept'
  <2>1. /\ slot' = slot /\ queue' = queue /\ reserved' = reserved - 1
        /\ reservations' = reservations - 1
        /\ \E to \in Steps : Goes(t, "idle", to) /\ RNum(to) = 0
    BY <1>14, <1>7, <1>8, Leads, Zenon DEF DropReservation
  <2>2. R' = R /\ N' = N
    BY <1>1, <1>5, <1>6, <1>8, <2>1
  <2> QED
    BY <1>1, <1>4, <2>1, <2>2
<1>15. ASSUME NEW t \in Threads, DropSender(t) PROVE RoomKept'
  <2>1. /\ slot' = slot /\ queue' = queue /\ reserved' = reserved /\ reservations' = reservations
        /\ \E to \in Steps : Goes(t, "idle", to) /\ RNum(to) = 0
    BY <1>15, <1>7, <1>8, Leads, Zenon DEF DropSender
  <2>2. R' = R /\ N' = N
    BY <1>1, <1>5, <1>6, <1>8, <2>1
  <2> QED
    BY <1>1, <1>4, <2>1, <2>2
<1>16. ASSUME NEW t \in Threads, NEW w \in Watches, Send(t, w) PROVE RoomKept'
  <2>1. /\ slot' = slot /\ reserved' = reserved /\ reservations' = reservations
        /\ Goes(t, "idle", "notify")
        /\ \/ Bound - Len(F) - reserved > 0 /\ queue' = Append(F, Batch(w, sent'[w]))
           \/ queue' = F
    BY <1>16, Zenon DEF Send, F, Free, ownVars
  <2>2. R' = R /\ N' = N
    BY <1>1, <1>5, <1>6, <1>7, <1>8, <2>1
  <2>3. Len(queue') + reserved <= Bound
    BY <1>1, <1>2, <1>3, <2>1
  <2> QED
    BY <1>1, <1>4, <2>1, <2>2, <2>3
<1>17. ASSUME NEW t \in Threads, NEW w \in Asking, StandingSend(t, w) PROVE RoomKept'
  <2>1. /\ reservations' = reservations /\ Goes(t, "idle", "notify")
        /\ slot[w].inFlight => queue' = queue /\ reserved' = reserved
        /\ ~slot[w].inFlight => queue' = Append(F, Standing(w)) /\ reserved' = reserved - 1
    BY <1>17, Zenon DEF StandingSend, F
  <2>2. /\ FNum(slot'[w]) = 0
        /\ slot[w].inFlight => FNum(slot[w]) = 0
        /\ ~slot[w].inFlight => FNum(slot[w]) = 1
    BY <1>17, SlotSteps, Zenon DEF FNum
  <2>3. N' = N + FNum(slot'[w]) - FNum(slot[w])
    <3>1. slot' \in [Asking -> SlotState] /\ \A v \in Asking : v # w => slot'[v] = slot[v]
      BY <1>17, SlotSteps, Zenon
    <3> QED
      BY <3>1, SlotWent, Zenon DEF N
  <2>4. R' = R
    BY <1>1, <1>5, <1>7, <1>8, <2>1
  <2>5. CASE slot[w].inFlight
    BY <1>1, <1>4, <2>1, <2>2, <2>3, <2>4, <2>5
  <2>6. CASE ~slot[w].inFlight
    <3>1. /\ Len(queue') = Len(F) + 1 /\ reserved' = reserved - 1
          /\ FNum(slot'[w]) = 0 /\ FNum(slot[w]) = 1
      BY <1>3, <2>1, <2>2, <2>6, Zenon
    <3> QED
      BY <1>1, <1>2, <1>4, <2>1, <2>3, <2>4, <3>1
  <2> QED
    BY <2>5, <2>6
<1>18. ASSUME NEW t \in Threads, NEW w \in Asking, DropStanding(t, w) PROVE RoomKept'
  <2>1. /\ reservations' = reservations /\ queue' = queue
        /\ slot[w].inFlight => reserved' = reserved
        /\ ~slot[w].inFlight => reserved' = reserved - 1
        /\ \E to \in Steps : Goes(t, "idle", to) /\ RNum(to) = 0
    BY <1>18, <1>7, <1>8, Leads, Zenon DEF DropStanding
  <2>2. /\ FNum(slot'[w]) = 0
        /\ slot[w].inFlight => FNum(slot[w]) = 0
        /\ ~slot[w].inFlight => FNum(slot[w]) = 1
    BY <1>18, SlotSteps, Zenon DEF FNum
  <2>3. N' = N + FNum(slot'[w]) - FNum(slot[w])
    <3>1. slot' \in [Asking -> SlotState] /\ \A v \in Asking : v # w => slot'[v] = slot[v]
      BY <1>18, SlotSteps, Zenon
    <3> QED
      BY <3>1, SlotWent, Zenon DEF N
  <2>4. R' = R
    BY <1>1, <1>5, <1>8, <2>1
  <2>5. CASE slot[w].inFlight
    BY <1>1, <1>4, <2>1, <2>2, <2>3, <2>4, <2>5
  <2>6. CASE ~slot[w].inFlight
    BY <1>1, <1>4, <2>1, <2>2, <2>3, <2>4, <2>6
  <2> QED
    BY <2>5, <2>6
<1>19. ASSUME NEW t \in Threads, NEW u \in Threads, Clone(t, u) PROVE RoomKept'
  BY <1>1, <1>4, <1>19, HoldersFrame DEF Clone, R, N
<1>20. ASSUME Receives PROVE RoomKept'
  <2>1. tpc' = tpc /\ reservations' = reservations
    BY <1>20 DEF Receives
  <2>2. R' = R
    BY <2>1 DEF R, Reserving
  <2>3. queue # << >> => Len(Tail(queue)) = Len(queue) - 1 /\ Len(queue) > 0
    BY Taken DEF Typed
  <2>4. CASE TakesEntry
    BY <1>1, <1>4, <1>6, <2>1, <2>2, <2>3, <2>4 DEF TakesEntry
  <2>5. ASSUME NEW w \in InFlight, TakesQuestion(w) PROVE RoomKept'
    <3>1. w \in Asking /\ slot[w].inFlight
      BY DEF InFlight
    <3>2. /\ FNum(slot[w]) = 0
          /\ slot[w].alive => FNum(slot'[w]) = 1 /\ reserved' = reserved + 1
          /\ ~slot[w].alive => FNum(slot'[w]) = 0 /\ reserved' = reserved
      BY <2>5, <3>1, SlotSteps, Zenon DEF FNum, TakesQuestion
    <3>3. N' = N + FNum(slot'[w]) - FNum(slot[w])
      <4>1. slot' \in [Asking -> SlotState] /\ \A v \in Asking : v # w => slot'[v] = slot[v]
        BY <2>5, <3>1, SlotSteps, Zenon DEF TakesQuestion
      <4> QED
        BY <3>1, <4>1, SlotWent, Zenon DEF N
    <3>4. Len(queue') = Len(queue) - 1
      BY <2>3, <2>5 DEF TakesQuestion
    <3>5. CASE slot[w].alive
      BY <1>1, <1>4, <2>1, <2>2, <3>2, <3>3, <3>4, <3>5
    <3>6. CASE ~slot[w].alive
      BY <1>1, <1>4, <2>1, <2>2, <3>2, <3>3, <3>4, <3>6
    <3> QED
      BY <3>5, <3>6
  <2>6. CASE TakesLoss
    BY <1>1, <1>4, <1>6, <2>1, <2>2, <2>6 DEF TakesLoss
  <2> QED
    BY <1>20, <2>4, <2>5, <2>6, TakeFinds
<1>21. ASSUME ClientStill PROVE RoomKept'
  BY <1>1, <1>4, <1>21, HoldersFrame DEF ClientStill, stateVars, ownVars, R, N
<1> QED
  BY <1>9, <1>10, <1>11, <1>12, <1>13, <1>14, <1>15, <1>16, <1>17, <1>18, <1>19, <1>20, <1>21,
     StillSteps, Zenon
  DEF Next, ThreadSteps, UserSteps, ClientSteps, RecvTakes, TryRecv

\* The count of senders stays exact, and whoever is making a reservation has a handle.
LEMMA CountedStep ==
  Typed /\ Once /\ RoomKept /\ Counted /\ [Next]_vars => Counted'
<1> SUFFICES ASSUME Typed, Once, RoomKept, Counted, [Next]_vars PROVE Counted'
  OBVIOUS
<1> DEFINE H == Cardinality(handle)
           A == Cardinality(Alive)
           G == Cardinality(Letting)
           Sum == senders = H + reservations + A + G
<1>1. /\ H \in Nat /\ A \in Nat /\ G \in Nat /\ reservations \in Nat /\ senders \in Nat
      /\ IsFiniteSet(handle) /\ Sum
  BY Sizes DEF Typed, Counted
<1>2. Counted' <=> Sum' /\ Reserving' \subseteq handle'
  BY DEF Counted
<1>3. handle' = handle => H' = H
  OBVIOUS
<1> HIDE DEF H, A, G
<1>4. ASSUME NEW t \in Threads, NEW from, NEW to \in Steps, Goes(t, from, to)
      PROVE  /\ G' = G + LNum(to) - LNum(from)
             /\ \A u \in Reserving' : (u = t /\ to \in {"reserving", "standing"}) \/ u \in Reserving \ {t}
  <2>1. G' = G + LNum(to) - LNum(from)
    BY <1>4, Went DEF G
  <2>2. /\ tpc'[t] = to /\ \A u \in Threads : u # t => tpc'[u] = tpc[u]
    BY <1>4, Went
  <2> QED
    BY <2>1, <2>2, Zenon DEF Reserving
<1>5. slot' = slot => A' = A
  BY SlotFrame DEF A
<1>6. {"idle", "notify", "reserving", "standing", "redeemed", "prod", "release"} \subseteq Steps
  BY DEF Steps
<1>7. /\ LNum("idle") = 0 /\ LNum("notify") = 0 /\ LNum("reserving") = 0 /\ LNum("standing") = 0
      /\ LNum("redeemed") = 1 /\ LNum("prod") = 1 /\ LNum("release") = 1
  BY DEF LNum
<1>8. \A to : LNum(to) = 1 => to \notin {"reserving", "standing"}
  BY DEF LNum
<1>9. ASSUME NEW t \in Threads, NEW from \in Steps, NEW to \in Steps, Goes(t, from, to),
             to \notin {"reserving", "standing"}, handle \ {t} \subseteq handle'
      PROVE  Reserving' \subseteq handle'
  BY <1>4, <1>9, Zenon DEF Counted
<1>10. ASSUME NEW t \in Threads, Reserved(t) PROVE Counted'
  <2>1. /\ Goes(t, "reserving", "idle") /\ slot' = slot /\ handle' = handle
        /\ senders' = senders + 1 /\ reservations' = reservations + 1
    BY <1>10 DEF Reserved
  <2>2. G' = G /\ A' = A /\ H' = H
    BY <1>1, <1>3, <1>4, <1>5, <1>6, <1>7, <2>1
  <2>3. Reserving' \subseteq handle'
    BY <1>6, <1>9, <2>1
  <2> QED
    BY <1>1, <1>2, <2>1, <2>2, <2>3
<1>11. ASSUME NEW t \in Threads, Notify(t) \/ Prod(t) PROVE Counted'
  <2>1. /\ slot' = slot /\ handle' = handle /\ senders' = senders /\ reservations' = reservations
        /\ \E from \in Steps, to \in Steps : /\ Goes(t, from, to) /\ LNum(from) = LNum(to)
                                             /\ to \notin {"reserving", "standing"}
    BY <1>6, <1>7, <1>11, Zenon DEF Notify, Prod, stateVars, ownVars
  <2>2. G' = G /\ A' = A /\ H' = H
    <3>1. PICK from \in Steps, to \in Steps : Goes(t, from, to) /\ LNum(from) = LNum(to)
      BY <2>1
    <3>2. LNum(from) \in Nat
      BY DEF LNum
    <3> QED
      BY <1>1, <1>3, <1>4, <1>5, <2>1, <3>1, <3>2
  <2>3. Reserving' \subseteq handle'
    BY <1>9, <2>1
  <2> QED
    BY <1>1, <1>2, <2>1, <2>2, <2>3
<1>12. ASSUME NEW t \in Threads, Release(t) PROVE Counted'
  <2>1. /\ slot' = slot /\ handle' = handle /\ senders' = senders - 1
        /\ reservations' = reservations
        /\ \E to \in Steps : /\ Goes(t, "release", to) /\ LNum(to) = 0
                             /\ to \notin {"reserving", "standing"}
    BY <1>6, <1>7, <1>12, Leads, Zenon DEF Release, SenderGone, ownVars
  <2>2. G' = G - 1 /\ A' = A /\ H' = H
    BY <1>1, <1>3, <1>4, <1>5, <1>7, <2>1
  <2>3. Reserving' \subseteq handle'
    BY <1>6, <1>9, <2>1
  <2> QED
    BY <1>1, <1>2, <2>1, <2>2, <2>3
<1>13. ASSUME NEW t \in Threads, NEW w \in Asking, ReservedStanding(t, w) PROVE Counted'
  <2>1. /\ Goes(t, "standing", "idle") /\ handle' = handle
        /\ senders' = senders + 1 /\ reservations' = reservations
    BY <1>13 DEF ReservedStanding
  <2>2. ANum(slot[w]) = 0 /\ ANum(slot'[w]) = 1
    BY <1>13, SlotSteps, Zenon DEF ANum
  <2>3. A' = A + ANum(slot'[w]) - ANum(slot[w])
    <3>1. slot' \in [Asking -> SlotState] /\ \A v \in Asking : v # w => slot'[v] = slot[v]
      BY <1>13, SlotSteps, Zenon
    <3> QED
      BY <3>1, SlotWent, Zenon DEF A
  <2>4. G' = G /\ H' = H
    BY <1>1, <1>3, <1>4, <1>6, <1>7, <2>1
  <2>5. Reserving' \subseteq handle'
    BY <1>6, <1>9, <2>1
  <2> QED
    BY <1>1, <1>2, <2>1, <2>2, <2>3, <2>4, <2>5
<1>14. ASSUME NEW t \in Threads, Reserve(t) \/ \E w \in Asking : ReserveStanding(t, w)
       PROVE  Counted'
  <2>1. /\ slot' = slot /\ handle' = handle /\ senders' = senders /\ t \in handle
        /\ reservations' = reservations
        /\ Goes(t, "idle", "reserving") \/ Goes(t, "idle", "standing")
    BY <1>14, Zenon DEF Reserve, ReserveStanding, ownVars, Holds
  <2>2. G' = G /\ A' = A /\ H' = H
    BY <1>1, <1>3, <1>4, <1>5, <1>6, <1>7, <2>1
  <2>3. Reserving' \subseteq handle'
    BY <1>4, <1>6, <2>1, Zenon DEF Counted
  <2> QED
    BY <1>1, <1>2, <2>1, <2>2, <2>3
<1>15. ASSUME NEW t \in Threads, Redeem(t) \/ DropReservation(t) PROVE Counted'
  <2>1. /\ slot' = slot /\ handle' = handle /\ senders' = senders
        /\ reservations' = reservations - 1
        /\ \E to \in Steps : Goes(t, "idle", to) /\ LNum(to) = 1
    BY <1>6, <1>7, <1>15, Leads, Zenon DEF Redeem, DropReservation
  <2>2. G' = G + 1 /\ A' = A /\ H' = H
    BY <1>1, <1>3, <1>4, <1>5, <1>7, <2>1
  <2>3. Reserving' \subseteq handle'
    BY <1>6, <1>8, <1>9, <2>1
  <2> QED
    BY <1>1, <1>2, <2>1, <2>2, <2>3
<1>16. ASSUME NEW t \in Threads, DropSender(t) PROVE Counted'
  <2>1. /\ slot' = slot /\ handle' = handle \ {t} /\ senders' = senders - 1 /\ t \in handle
        /\ reservations' = reservations
        /\ \E to \in Steps : /\ Goes(t, "idle", to) /\ LNum(to) = 0
                             /\ to \notin {"reserving", "standing"}
    BY <1>6, <1>7, <1>16, Leads, Zenon DEF DropSender, SenderGone, Holds
  <2>2. G' = G /\ A' = A
    BY <1>1, <1>4, <1>5, <1>7, <2>1
  <2>3. H' = H - 1
    <3>1. Cardinality(handle \ {t}) = Cardinality(handle) - 1
      BY <1>1, <2>1, FS_RemoveElement, Zenon
    <3> QED
      BY <2>1, <3>1, Zenon DEF H
  <2>4. Reserving' \subseteq handle'
    BY <1>6, <1>9, <2>1
  <2> QED
    BY <1>1, <1>2, <2>1, <2>2, <2>3, <2>4
<1>17. ASSUME NEW t \in Threads, NEW w \in Watches, Send(t, w) PROVE Counted'
  <2>1. /\ slot' = slot /\ handle' = handle /\ senders' = senders
        /\ reservations' = reservations /\ Goes(t, "idle", "notify")
    BY <1>17, Zenon DEF Send, ownVars
  <2>2. G' = G /\ A' = A /\ H' = H
    BY <1>1, <1>3, <1>4, <1>5, <1>6, <1>7, <2>1
  <2>3. Reserving' \subseteq handle'
    BY <1>6, <1>9, <2>1
  <2> QED
    BY <1>1, <1>2, <2>1, <2>2, <2>3
<1>18. ASSUME NEW t \in Threads, NEW w \in Asking, StandingSend(t, w) PROVE Counted'
  <2>1. /\ handle' = handle /\ senders' = senders /\ reservations' = reservations
        /\ Goes(t, "idle", "notify")
    BY <1>18, Zenon DEF StandingSend
  <2>2. ANum(slot[w]) = 1 /\ ANum(slot'[w]) = 1
    BY <1>18, SlotSteps, Zenon DEF ANum
  <2>3. A' = A + ANum(slot'[w]) - ANum(slot[w])
    <3>1. slot' \in [Asking -> SlotState] /\ \A v \in Asking : v # w => slot'[v] = slot[v]
      BY <1>18, SlotSteps, Zenon
    <3> QED
      BY <3>1, SlotWent, Zenon DEF A
  <2>4. G' = G /\ H' = H
    BY <1>1, <1>3, <1>4, <1>6, <1>7, <2>1
  <2>5. Reserving' \subseteq handle'
    BY <1>6, <1>9, <2>1
  <2> QED
    BY <1>1, <1>2, <2>1, <2>2, <2>3, <2>4, <2>5
<1>19. ASSUME NEW t \in Threads, NEW w \in Asking, DropStanding(t, w) PROVE Counted'
  <2>1. /\ handle' = handle /\ senders' = senders /\ reservations' = reservations
        /\ \E to \in Steps : Goes(t, "idle", to) /\ LNum(to) = 1
    BY <1>6, <1>7, <1>19, Leads, Zenon DEF DropStanding
  <2>2. ANum(slot[w]) = 1 /\ ANum(slot'[w]) = 0
    BY <1>19, SlotSteps, Zenon DEF ANum
  <2>3. A' = A + ANum(slot'[w]) - ANum(slot[w])
    <3>1. slot' \in [Asking -> SlotState] /\ \A v \in Asking : v # w => slot'[v] = slot[v]
      BY <1>19, SlotSteps, Zenon
    <3> QED
      BY <3>1, SlotWent, Zenon DEF A
  <2>4. G' = G + 1 /\ H' = H
    BY <1>1, <1>3, <1>4, <1>7, <2>1
  <2>5. Reserving' \subseteq handle'
    BY <1>6, <1>8, <1>9, <2>1
  <2> QED
    BY <1>1, <1>2, <2>1, <2>2, <2>3, <2>4, <2>5
<1>20. ASSUME NEW t \in Threads, NEW u \in Threads, Clone(t, u) PROVE Counted'
  <2>1. /\ slot' = slot /\ tpc' = tpc /\ handle' = handle \cup {u} /\ u \notin handle
        /\ senders' = senders + 1 /\ reservations' = reservations
    BY <1>20 DEF Clone
  <2>2. G' = G /\ A' = A /\ Reserving' = Reserving
    BY <2>1, HoldersFrame DEF G, A
  <2>3. H' = H + 1
    <3>1. Cardinality(handle \cup {u}) = Cardinality(handle) + 1
      BY <1>1, <2>1, FS_AddElement, Zenon
    <3> QED
      BY <2>1, <3>1, Zenon DEF H
  <2> QED
    BY <1>1, <1>2, <2>1, <2>2, <2>3 DEF Counted
<1>21. ASSUME Receives PROVE Counted'
  <2>1. tpc' = tpc /\ reservations' = reservations /\ senders' = senders /\ handle' = handle
    BY <1>21 DEF Receives
  <2>2. G' = G /\ H' = H /\ Reserving' = Reserving
    BY <2>1 DEF G, H, Reserving, Letting
  <2>3. A' = A
    <3>1. CASE slot' = slot
      BY <1>5, <3>1
    <3>2. ASSUME NEW w \in InFlight, TakesQuestion(w) PROVE A' = A
      <4>1. w \in Asking
        BY DEF InFlight
      <4>2. ANum(slot'[w]) = ANum(slot[w]) /\ ANum(slot[w]) \in Nat
        <5>1. slot'[w].alive <=> slot[w].alive
          BY <3>2, <4>1, SlotSteps, Zenon DEF TakesQuestion
        <5>2. ANum(slot'[w]) = ANum(slot[w])
          BY <5>1, Zenon DEF ANum
        <5> QED
          BY <5>2 DEF ANum
      <4>3. A' = A + ANum(slot'[w]) - ANum(slot[w])
        <5>1. slot' \in [Asking -> SlotState] /\ \A v \in Asking : v # w => slot'[v] = slot[v]
          BY <3>2, <4>1, SlotSteps, Zenon DEF TakesQuestion
        <5> QED
          BY <4>1, <5>1, SlotWent, Zenon DEF A
      <4> QED
        BY <1>1, <4>2, <4>3
    <3> QED
      BY <1>21, <3>1, <3>2, TakeFinds, Zenon DEF TakesEntry, TakesLoss
  <2> QED
    BY <1>1, <1>2, <2>1, <2>2, <2>3 DEF Counted
<1>22. ASSUME ClientStill PROVE Counted'
  <2>1. /\ slot' = slot /\ tpc' = tpc /\ handle' = handle /\ senders' = senders
        /\ reservations' = reservations
    BY <1>22 DEF ClientStill, stateVars, ownVars
  <2>2. G' = G /\ A' = A /\ Reserving' = Reserving
    BY <2>1, HoldersFrame DEF G, A
  <2> QED
    BY <1>1, <1>2, <1>3, <2>1, <2>2 DEF Counted
<1> HIDE DEF Sum
<1> QED
  BY <1>10, <1>11, <1>12, <1>13, <1>14, <1>15, <1>16, <1>17, <1>18, <1>19, <1>20, <1>21, <1>22,
     StillSteps, Zenon
  DEF Next, ThreadSteps, UserSteps, ClientSteps, RecvTakes, TryRecv

\* An entry that leaves, or comes, and the slot it belongs to.
LEMMA OnceStep ==
  Typed /\ Once /\ RoomKept /\ Counted /\ [Next]_vars => Once'
<1> SUFFICES ASSUME Typed, Once, RoomKept, Counted, [Next]_vars PROVE Once'
  OBVIOUS
<1> DEFINE F == Flushed(queue, reserved, latched)
<1>1. /\ F \in Seq(Entry) /\ Len(F) \in Nat /\ Len(queue) \in Nat /\ Len(queue) <= Len(F)
      /\ \A i \in 1 .. Len(queue) : F[i] = queue[i]
      /\ \A i \in Len(queue) + 1 .. Len(F) : F[i].kind = "desync"
  <2>1. /\ queue \in Seq(Entry) /\ reserved \in Nat /\ latched \in Seq(Watches)
        /\ Len(queue) + reserved <= Bound /\ Len(queue) \in Nat
    BY Sizes DEF Typed, RoomKept
  <2>2. /\ F \in Seq(Entry) /\ Len(queue) <= Len(F)
        /\ \A i \in 1 .. Len(queue) : F[i] = queue[i]
        /\ \A i \in Len(queue) + 1 .. Len(F) : F[i].kind = "desync"
    BY <2>1, FlushShape, Zenon
  <2>3. Len(F) \in Nat
    BY <2>2
  <2> QED
    BY <2>1, <2>2, <2>3
<1>2. \A w : Standing(w)' = Standing(w) /\ Standing(w).kind = "question" /\ Standing(w).watch = w
  BY DEF Standing, Question
<1>3. InFlight \subseteq Asking
  BY DEF InFlight
<1> HIDE DEF F
<1>4. ASSUME queue' = queue, InFlight' = InFlight PROVE Once'
  BY <1>1, <1>4, OnceGrows DEF Typed
<1>5. ASSUME slot' = slot, queue' = F PROVE Once'
  <2>1. \A i \in Len(queue) + 1 .. Len(queue') : queue'[i].kind # "question"
    BY <1>1, <1>5
  <2> QED
    BY <1>1, <1>5, <2>1, OnceGrows, SlotFrame
<1>6. ASSUME slot' = slot, NEW x \in Entry, x.kind # "question", queue' = Append(F, x) PROVE Once'
  <2>1. /\ queue' \in Seq(Entry) /\ Len(queue') = Len(F) + 1
        /\ \A i \in 1 .. Len(F) : queue'[i] = F[i]
        /\ queue'[Len(F) + 1] = x
    BY <1>1, <1>6
  <2>2. \A i \in Len(queue) + 1 .. Len(queue') : queue'[i].kind # "question"
    BY <1>1, <1>6, <2>1
  <2>3. Len(queue) <= Len(queue') /\ \A i \in 1 .. Len(queue) : queue'[i] = queue[i]
    BY <1>1, <2>1
  <2> QED
    BY <1>6, <2>1, <2>2, <2>3, OnceGrows, SlotFrame
<1>7. Promised \in Entry /\ Promised.kind # "question"
      /\ \A w \in Watches, n \in Nat : Batch(w, n) \in Entry /\ Batch(w, n).kind # "question"
  BY DEF Entry, Promised, Batch
<1>8. ASSUME NEW t \in Threads, NEW w \in Watches, Send(t, w) PROVE Once'
  <2>1. sent'[w] \in Nat
    BY <1>8 DEF Send, Typed
  <2>2. slot' = slot /\ (queue' = Append(F, Batch(w, sent'[w])) \/ queue' = F)
    BY <1>8, Zenon DEF Send, F, ownVars
  <2> QED
    BY <1>5, <1>6, <1>7, <2>1, <2>2, Zenon
<1>9. ASSUME NEW t \in Threads, Redeem(t) PROVE Once'
  BY <1>6, <1>7, <1>9, Zenon DEF Redeem, F
<1>10. ASSUME NEW t \in Threads, NEW w \in Asking, StandingSend(t, w) PROVE Once'
  <2>1. w \in InFlight' /\ \A v \in Asking : v # w => (v \in InFlight' <=> v \in InFlight)
    <3>1. /\ slot' \in [Asking -> SlotState] /\ \A v \in Asking : v # w => slot'[v] = slot[v]
          /\ slot'[w].inFlight
      BY <1>10, SlotSteps, Zenon
    <3> QED
      BY <3>1, SlotWent, Zenon
  <2>2. w \in InFlight <=> slot[w].inFlight
    BY Zenon DEF InFlight
  <2>3. InFlight' \subseteq Asking
    BY DEF InFlight
  <2>4. CASE slot[w].inFlight
    <3>1. InFlight' = InFlight
      BY <1>3, <2>1, <2>2, <2>3, <2>4
    <3>2. queue' = queue
      BY <1>10, <2>4, Zenon DEF StandingSend
    <3> QED
      BY <1>4, <3>1, <3>2
  <2>5. CASE ~slot[w].inFlight
    <3>1. queue' = Append(F, Standing(w))
      BY <1>10, <2>5, Zenon DEF StandingSend, F
    <3>2. /\ Len(queue') = Len(F) + 1 /\ \A i \in 1 .. Len(F) : queue'[i] = F[i]
          /\ queue'[Len(F) + 1] = Standing(w)
      BY <1>1, <3>1
    <3>3. InFlight' = InFlight \cup {w} /\ w \notin InFlight
      BY <1>3, <2>1, <2>2, <2>3, <2>5
    <3>4. \A i \in 1 .. Len(queue') : queue'[i].kind = "question" =>
            \/ i \in 1 .. Len(queue) /\ queue'[i] = queue[i] /\ queue[i].watch # w
            \/ i = Len(F) + 1 /\ queue'[i] = Standing(w)
      <4>1. ASSUME NEW i \in 1 .. Len(queue'), queue'[i].kind = "question", i # Len(F) + 1
            PROVE  i \in 1 .. Len(queue) /\ queue'[i] = queue[i]
        BY <1>1, <3>2, <4>1
      <4> QED
        BY <3>2, <3>3, <4>1 DEF Once
    <3>5. ASSUME NEW i \in 1 .. Len(queue'), queue'[i].kind = "question"
          PROVE  queue'[i].watch \in InFlight' /\ queue'[i] = Standing(queue'[i].watch)
      BY <1>2, <3>3, <3>4, <3>5 DEF Once
    <3>6. ASSUME NEW v \in InFlight' PROVE \E i \in 1 .. Len(queue') : queue'[i] = Standing(v)
      <4>1. CASE v = w
        BY <1>1, <3>2, <4>1
      <4>2. CASE v \in InFlight
        <5>1. PICK i \in 1 .. Len(queue) : queue[i] = Standing(v)
          BY <4>2 DEF Once
        <5> QED
          BY <1>1, <3>2, <5>1
      <4> QED
        BY <3>3, <4>1, <4>2
    <3>7. ASSUME NEW i \in 1 .. Len(queue'), NEW j \in 1 .. Len(queue'),
                 queue'[i].kind = "question", queue'[i] = queue'[j]
          PROVE  i = j
      BY <1>1, <1>2, <3>4, <3>7 DEF Once
    <3> QED
      BY <1>2, <3>5, <3>6, <3>7, Zenon DEF Once
  <2> QED
    BY <2>4, <2>5
<1>11. ASSUME NEW t \in Threads, NEW w \in Asking, ReservedStanding(t, w) \/ DropStanding(t, w)
       PROVE  Once'
  <2>1. /\ slot' \in [Asking -> SlotState] /\ \A v \in Asking : v # w => slot'[v] = slot[v]
        /\ slot'[w].inFlight <=> slot[w].inFlight
    BY <1>11, SlotSteps, Zenon
  <2>2. InFlight' = InFlight
    BY <2>1, Zenon DEF InFlight
  <2>3. queue' = queue
    BY <1>11, Zenon DEF ReservedStanding, DropStanding
  <2> QED
    BY <1>4, <2>2, <2>3
<1>12. ASSUME NEW t \in Threads,
              Reserved(t) \/ Notify(t) \/ Prod(t) \/ Release(t) \/ Reserve(t) \/ DropReservation(t)
              \/ DropSender(t) \/ (\E u \in Threads : Clone(t, u))
              \/ \E w \in Asking : ReserveStanding(t, w)
       PROVE  Once'
  <2>1. queue' = queue /\ slot' = slot
    BY <1>12, Zenon DEF Reserved, Notify, Prod, Release, Reserve, DropReservation, DropSender, Clone,
       ReserveStanding, stateVars, ownVars
  <2> QED
    BY <1>4, <2>1, SlotFrame
<1>13. ASSUME queue # << >>, queue' = Tail(queue), InFlight' \subseteq InFlight,
              \A v \in InFlight : v \notin InFlight' <=> queue[1] = Standing(v)
       PROVE  Once'
  <2>1. /\ Len(queue') = Len(queue) - 1 /\ Len(queue) > 0
        /\ \A i \in 1 .. Len(queue) - 1 : queue'[i] = queue[i + 1]
    BY <1>13, Taken DEF Typed
  <2>2. \A i \in 1 .. Len(queue') : i + 1 \in 1 .. Len(queue) /\ i + 1 # 1 /\ queue'[i] = queue[i + 1]
    BY <1>1, <2>1
  <2>3. 1 \in 1 .. Len(queue)
    BY <1>1, <2>1
  <2>4. ASSUME NEW i \in 1 .. Len(queue'), queue'[i].kind = "question"
        PROVE  queue'[i].watch \in InFlight' /\ queue'[i] = Standing(queue'[i].watch)
    <3>1. queue[i + 1].watch \in InFlight /\ queue[i + 1] = Standing(queue[i + 1].watch)
      BY <2>2, <2>4 DEF Once
    <3>2. queue[1] # queue[i + 1]
      BY <2>2, <2>3, <2>4 DEF Once
    <3> QED
      BY <1>13, <2>2, <3>1, <3>2
  <2>5. ASSUME NEW v \in InFlight' PROVE \E i \in 1 .. Len(queue') : queue'[i] = Standing(v)
    <3>1. v \in InFlight /\ queue[1] # Standing(v)
      BY <1>13
    <3>2. PICK i \in 1 .. Len(queue) : queue[i] = Standing(v)
      BY <3>1 DEF Once
    <3>3. i # 1 /\ i - 1 \in 1 .. Len(queue')
      BY <1>1, <2>1, <3>1, <3>2
    <3>4. queue'[i - 1] = queue[i]
      BY <2>2, <3>3
    <3> QED
      BY <3>2, <3>3, <3>4
  <2>6. ASSUME NEW i \in 1 .. Len(queue'), NEW j \in 1 .. Len(queue'),
               queue'[i].kind = "question", queue'[i] = queue'[j]
        PROVE  i = j
    <3>1. i + 1 = j + 1
      BY <2>2, <2>6 DEF Once
    <3> QED
      BY <3>1
  <2> QED
    BY <1>2, <2>4, <2>5, <2>6, Zenon DEF Once
<1>14. ASSUME Receives PROVE Once'
  <2>1. CASE TakesEntry
    <3>1. InFlight' = InFlight
      BY <2>1, SlotFrame DEF TakesEntry
    <3>2. \A v \in InFlight : queue[1] # Standing(v)
      BY <1>2, <2>1, Zenon DEF TakesEntry
    <3> QED
      BY <1>13, <2>1, <3>1, <3>2 DEF TakesEntry
  <2>2. ASSUME NEW w \in InFlight, TakesQuestion(w) PROVE Once'
    <3>1. w \in Asking
      BY <1>3
    <3>2. w \notin InFlight' /\ \A v \in Asking : v # w => (v \in InFlight' <=> v \in InFlight)
      <4>1. /\ slot' \in [Asking -> SlotState] /\ \A v \in Asking : v # w => slot'[v] = slot[v]
            /\ ~slot'[w].inFlight
        BY <2>2, <3>1, SlotSteps, Zenon DEF TakesQuestion
      <4> QED
        BY <3>1, <4>1, SlotWent, Zenon
    <3>3. InFlight' \subseteq InFlight
      BY <1>3, <3>2 DEF InFlight
    <3>4. queue[1] = Standing(w) /\ \A v : Standing(v) = Standing(w) => v = w
      <4>1. ASSUME NEW v, Standing(v) = Standing(w) PROVE v = w
        <5>1. Standing(v).watch = v /\ Standing(w).watch = w
          BY <1>2
        <5> QED
          BY <4>1, <5>1
      <4>2. \A v : Standing(v) = Standing(w) => v = w
        BY <4>1
      <4> QED
        BY <2>2, <4>2, Zenon DEF TakesQuestion
    <3> QED
      BY <1>3, <1>13, <2>2, <3>2, <3>3, <3>4 DEF TakesQuestion
  <2>3. CASE TakesLoss
    BY <1>4, <2>3, SlotFrame DEF TakesLoss
  <2> QED
    BY <1>14, <2>1, <2>2, <2>3, TakeFinds
<1>15. ASSUME ClientStill PROVE Once'
  BY <1>4, <1>15, SlotFrame DEF ClientStill, stateVars, ownVars
<1> QED
  BY <1>8, <1>9, <1>10, <1>11, <1>12, <1>14, <1>15, StillSteps, Zenon
  DEF Next, ThreadSteps, UserSteps, ClientSteps, RecvTakes, TryRecv

\* The newest message of a slot is the one queued, or has been heard.
LEMMA NewestStep ==
  Typed /\ Once /\ Newest /\ [Next]_vars => Newest'
<1> SUFFICES ASSUME Typed, Once, Newest, [Next]_vars PROVE Newest'
  OBVIOUS
<1> DEFINE New(w) == /\ w \in InFlight => slot[w].queued = asked[w] /\ heard[w] < asked[w]
                     /\ w \notin InFlight => heard[w] = asked[w]
<1>1. Newest' <=> heard' \in [Asking -> Nat] /\ \A w \in Asking : New(w)'
  BY DEF Newest
<1>2. heard \in [Asking -> Nat] /\ (\A w \in Asking : New(w)) /\ asked \in [Asking -> Nat]
  BY DEF Newest, Typed
<1>3. ASSUME NEW w \in Asking, slot'[w].queued = slot[w].queued, w \in InFlight' <=> w \in InFlight,
             asked'[w] = asked[w], heard'[w] = heard[w]
      PROVE  New(w)'
  BY <1>2, <1>3
<1>4. ASSUME slot' = slot, asked' = asked, heard' = heard PROVE Newest'
  BY <1>4, SlotFrame DEF Newest
<1> HIDE DEF New
<1>5. ASSUME NEW t \in Threads, NEW w \in Asking, StandingSend(t, w) PROVE Newest'
  <2>1. asked' = [asked EXCEPT ![w] = @ + 1] /\ heard' = heard
    BY <1>5, Zenon DEF StandingSend
  <2>2. /\ w \in InFlight' /\ \A v \in Asking : v # w => (v \in InFlight' <=> v \in InFlight)
        /\ \A v \in Asking : v # w => slot'[v] = slot[v]
        /\ slot'[w].queued = asked[w] + 1
    <3>1. /\ slot' \in [Asking -> SlotState] /\ \A v \in Asking : v # w => slot'[v] = slot[v]
          /\ slot'[w].inFlight /\ slot'[w].queued = asked[w] + 1
      BY <1>5, SlotSteps, Zenon
    <3> QED
      BY <3>1, SlotWent, Zenon
  <2>3. asked'[w] = asked[w] + 1 /\ \A v \in Asking : v # w => asked'[v] = asked[v]
    BY <1>2, <2>1
  <2>4. ASSUME NEW v \in Asking, v # w PROVE New(v)'
    BY <1>3, <2>1, <2>2, <2>3, <2>4
  <2>5. New(w)'
    BY <1>2, <2>1, <2>2, <2>3 DEF New
  <2> QED
    BY <1>1, <1>2, <2>1, <2>4, <2>5
<1>6. ASSUME NEW t \in Threads, NEW w \in Asking, ReservedStanding(t, w) \/ DropStanding(t, w)
      PROVE  Newest'
  <2>1. asked' = asked /\ heard' = heard
    BY <1>6, Zenon DEF ReservedStanding, DropStanding, history
  <2>2. /\ slot' \in [Asking -> SlotState] /\ \A v \in Asking : v # w => slot'[v] = slot[v]
        /\ slot'[w].inFlight <=> slot[w].inFlight
    BY <1>6, SlotSteps, Zenon
  <2>3. \A v \in Asking : v \in InFlight' <=> v \in InFlight
    BY <2>2, SlotWent, Zenon
  <2>4. w \in InFlight => slot'[w].queued = slot[w].queued
    <3>1. CASE DropStanding(t, w)
      BY <3>1, SlotSteps, Zenon
    <3>2. CASE ReservedStanding(t, w)
      BY <3>2, SlotSteps, Zenon DEF InFlight
    <3> QED
      BY <1>6, <3>1, <3>2
  <2>5. ASSUME NEW v \in Asking PROVE New(v)'
    BY <1>2, <2>1, <2>2, <2>3, <2>4 DEF New
  <2> QED
    BY <1>1, <1>2, <2>1, <2>5
<1>7. ASSUME NEW t \in Threads, NEW w \in Watches, Send(t, w) PROVE Newest'
  BY <1>4, <1>7, Zenon DEF Send, ownVars
<1>8. ASSUME NEW t \in Threads,
             Reserved(t) \/ Notify(t) \/ Prod(t) \/ Release(t) \/ Reserve(t) \/ Redeem(t)
             \/ DropReservation(t) \/ DropSender(t) \/ (\E u \in Threads : Clone(t, u))
             \/ \E w \in Asking : ReserveStanding(t, w)
      PROVE  Newest'
  BY <1>4, <1>8, Zenon DEF Reserved, Notify, Prod, Release, Reserve, Redeem, DropReservation,
     DropSender, Clone, ReserveStanding, ownVars, history
<1>9. ASSUME Receives PROVE Newest'
  <2>1. asked' = asked
    BY <1>9 DEF Receives
  <2>2. ASSUME NEW w \in InFlight, TakesQuestion(w) PROVE Newest'
    <3>1. w \in Asking
      BY DEF InFlight
    <3>2. /\ w \notin InFlight' /\ \A v \in Asking : v # w => (v \in InFlight' <=> v \in InFlight)
          /\ \A v \in Asking : v # w => slot'[v] = slot[v]
      <4>1. /\ slot' \in [Asking -> SlotState] /\ \A v \in Asking : v # w => slot'[v] = slot[v]
            /\ ~slot'[w].inFlight
        BY <2>2, <3>1, SlotSteps, Zenon DEF TakesQuestion
      <4> QED
        BY <3>1, <4>1, SlotWent, Zenon
    <3>3. slot[w].queued = asked[w] /\ heard' = [heard EXCEPT ![w] = slot[w].queued]
      BY <1>2, <2>2, <3>1 DEF New, TakesQuestion
    <3>4. /\ heard' \in [Asking -> Nat] /\ heard'[w] = asked[w]
          /\ \A v \in Asking : v # w => heard'[v] = heard[v]
      BY <1>2, <3>1, <3>3
    <3>5. ASSUME NEW v \in Asking, v # w PROVE New(v)'
      BY <1>3, <2>1, <3>2, <3>4, <3>5
    <3>6. New(w)'
      BY <2>1, <3>2, <3>4 DEF New
    <3> QED
      BY <1>1, <3>4, <3>5, <3>6
  <2> QED
    BY <1>4, <1>9, <2>1, <2>2, TakeFinds, Zenon DEF TakesEntry, TakesLoss
<1>10. ASSUME ClientStill PROVE Newest'
  BY <1>4, <1>10 DEF ClientStill, ownVars, history
<1> QED
  BY <1>5, <1>6, <1>7, <1>8, <1>9, <1>10, StillSteps, Zenon
  DEF Next, ThreadSteps, UserSteps, ClientSteps, RecvTakes, TryRecv

\* How a thread's step looks to the client, unless it notifies: something has been sent,
\* or nothing has changed, or one sender is gone.
Sends(t) ==
  /\ doorbell' = Refreshed(queue', latched', senders) /\ senders' = senders
  /\ Goes(t, "idle", "notify") \/ Goes(t, "idle", "redeemed")

Quietly(t) ==
  /\ queue' = queue /\ latched' = latched /\ doorbell' = doorbell
  /\ senders' = senders \/ senders' = senders + 1
  /\ \/ tpc' = tpc
     \/ \E from \in Steps \ {"notify", "redeemed"}, to \in Steps : Goes(t, from, to)

Goodbye(t) ==
  /\ queue' = queue /\ latched' = latched /\ SenderGone
  /\ Goes(t, "idle", AfterSenderGone) \/ Goes(t, "release", AfterSenderGone)

\* Whoever acts holds a sender, in its hand or inside what it holds.
LEMMA HasSender ==
  ASSUME Typed, RoomKept, Counted,
         handle # {} \/ reservations > 0 \/ Alive # {} \/ Letting # {}
  PROVE  senders > 0
<1>1. /\ IsFiniteSet(handle) /\ IsFiniteSet(Alive) /\ IsFiniteSet(Letting)
  <2>1. IsFiniteSet(Threads) /\ IsFiniteSet(Asking)
    BY QueueAssumption, FS_Subset
  <2> QED
    BY <2>1, FS_Subset DEF Typed, Alive, Letting
<1>2. /\ handle # {} => Cardinality(handle) # 0
      /\ Alive # {} => Cardinality(Alive) # 0
      /\ Letting # {} => Cardinality(Letting) # 0
  BY <1>1, FS_EmptySet
<1>3. /\ Cardinality(handle) \in Nat /\ Cardinality(Alive) \in Nat /\ Cardinality(Letting) \in Nat
      /\ reservations \in Nat
  BY Sizes, Zenon DEF Typed
<1>4. senders = Cardinality(handle) + reservations + Cardinality(Alive) + Cardinality(Letting)
  BY DEF Counted
<1> QED
  BY <1>2, <1>3, <1>4

\* Every step of a thread looks like one of these.
LEMMA ThreadLooks ==
  ASSUME Typed, RoomKept, Counted, NEW t \in Threads, ThreadSteps(t) \/ UserSteps(t)
  PROVE  Notify(t) \/ (senders > 0 /\ cpc' = cpc /\ (Sends(t) \/ Quietly(t) \/ Goodbye(t)))
<1>1. {"idle", "notify", "reserving", "standing", "redeemed", "prod", "release"} \subseteq Steps
      /\ {"idle", "reserving", "standing", "prod", "release"} \subseteq Steps \ {"notify", "redeemed"}
  BY DEF Steps
<1>2. t \in handle => senders > 0
  BY HasSender
<1>3. tpc[t] \in {"prod", "release"} => senders > 0
  <2>1. tpc[t] \in {"prod", "release"} => t \in Letting
    BY DEF Letting
  <2> QED
    BY <2>1, HasSender
<1>4. tpc[t] \in {"reserving", "standing"} => senders > 0
  BY <1>2 DEF Reserving, Counted
<1>5. reservations > 0 => senders > 0
  BY HasSender
<1>6. \A w \in Asking : slot[w].alive => senders > 0
  <2>1. \A w \in Asking : slot[w].alive => Alive # {}
    BY Zenon DEF Alive
  <2> QED
    BY <2>1, HasSender
<1>7. ASSUME Reserved(t) PROVE senders > 0 /\ cpc' = cpc /\ Quietly(t)
  BY <1>1, <1>4, <1>7, Zenon DEF Reserved, Quietly, Goes
<1>8. ASSUME Prod(t) PROVE senders > 0 /\ cpc' = cpc /\ Quietly(t)
  BY <1>1, <1>3, <1>8, Zenon DEF Prod, Quietly, Goes, stateVars
<1>9. ASSUME Release(t) PROVE senders > 0 /\ cpc' = cpc /\ Goodbye(t)
  BY <1>3, <1>9, Zenon DEF Release, Goodbye, Goes
<1>10. ASSUME NEW w \in Asking, ReservedStanding(t, w)
       PROVE  senders > 0 /\ cpc' = cpc /\ Quietly(t)
  BY <1>1, <1>4, <1>10, Zenon DEF ReservedStanding, Quietly, Goes
<1>11. ASSUME Reserve(t) \/ \E w \in Asking : ReserveStanding(t, w)
       PROVE  senders > 0 /\ cpc' = cpc /\ Quietly(t)
  BY <1>1, <1>2, <1>11, Zenon DEF Reserve, ReserveStanding, Quietly, Goes, Holds
<1>12. ASSUME Redeem(t) PROVE senders > 0 /\ cpc' = cpc /\ Sends(t)
  BY <1>5, <1>12, Zenon DEF Redeem, Sends
<1>13. ASSUME DropReservation(t) PROVE senders > 0 /\ cpc' = cpc /\ Quietly(t)
  BY <1>1, <1>5, <1>13, Leads, Zenon DEF DropReservation, Quietly
<1>14. ASSUME DropSender(t) PROVE senders > 0 /\ cpc' = cpc /\ Goodbye(t)
  BY <1>2, <1>14, Zenon DEF DropSender, Goodbye, Holds
<1>15. ASSUME NEW w \in Watches, Send(t, w) PROVE senders > 0 /\ cpc' = cpc /\ Sends(t)
  BY <1>2, <1>15, Zenon DEF Send, Sends, Holds
<1>16. ASSUME NEW w \in Asking, StandingSend(t, w)
       PROVE  senders > 0 /\ cpc' = cpc /\ (Sends(t) \/ Quietly(t))
  BY <1>1, <1>6, <1>16, Zenon DEF StandingSend, Sends, Quietly
<1>17. ASSUME NEW w \in Asking, DropStanding(t, w) PROVE senders > 0 /\ cpc' = cpc /\ Quietly(t)
  BY <1>1, <1>6, <1>17, Leads, Zenon DEF DropStanding, Quietly
<1>18. ASSUME NEW u \in Threads, Clone(t, u) PROVE senders > 0 /\ cpc' = cpc /\ Quietly(t)
  BY <1>2, <1>18, Zenon DEF Clone, Quietly, Holds
<1> DEFINE Fits == \/ Notify(t)
                   \/ senders > 0 /\ cpc' = cpc /\ (Sends(t) \/ Quietly(t) \/ Goodbye(t))
<1>19. ASSUME ThreadSteps(t) PROVE Fits
  <2>1. Reserved(t) \/ Prod(t) \/ Release(t) => Fits
    BY <1>7, <1>8, <1>9, Zenon
  <2>2. \A w \in Asking : ReservedStanding(t, w) => Fits
    BY <1>10, Zenon
  <2>3. Notify(t) => Fits
    OBVIOUS
  <2> HIDE DEF Fits
  <2> QED
    BY <1>19, <2>1, <2>2, <2>3, Zenon DEF ThreadSteps
<1>20. ASSUME UserSteps(t) PROVE Fits
  <2>1. Reserve(t) \/ Redeem(t) \/ DropReservation(t) \/ DropSender(t) => Fits
    BY <1>11, <1>12, <1>13, <1>14, Zenon
  <2>2. \A w \in Watches : Send(t, w) => Fits
    BY <1>15, Zenon
  <2>3. \A w \in Asking : ReserveStanding(t, w) \/ StandingSend(t, w) \/ DropStanding(t, w) => Fits
    BY <1>11, <1>16, <1>17, Zenon
  <2>4. \A u \in Threads : Clone(t, u) => Fits
    BY <1>18, Zenon
  <2> HIDE DEF Fits
  <2> QED
    BY <1>20, <2>1, <2>2, <2>3, <2>4, Zenon DEF UserSteps
<1> QED
  BY <1>19, <1>20, Zenon

\* The event keeps following the state.
LEMMA DoorbellStep ==
  Typed /\ Once /\ RoomKept /\ Counted /\ Flags /\ DoorbellTells /\ [Next]_vars => Flags' /\ DoorbellTells'
<1> SUFFICES ASSUME Typed, Once, RoomKept, Counted, Flags, DoorbellTells, [Next]_vars
             PROVE  Flags' /\ DoorbellTells'
  OBVIOUS
<1> DEFINE P == Pending(queue, latched, senders)
           Rings == doorbell \in {"none", "lit", "dark"} /\ DoorbellTells
<1>1. senders \in Nat /\ Rings
  BY Sizes DEF Flags
<1>2. ASSUME doorbell' = Refreshed(queue', latched', senders'), cpc' \in ClientPlaces
      PROVE  Flags' /\ DoorbellTells'
  BY <1>2, Zenon DEF Refreshed, Flags, DoorbellTells, Pending
<1>3. ASSUME doorbell' = doorbell, P' <=> P, cpc' \in ClientPlaces
      PROVE  Flags' /\ DoorbellTells'
  BY <1>3, Zenon DEF Flags, DoorbellTells
<1>4. queue' = queue /\ latched' = latched /\ (senders' = 0 <=> senders = 0) => (P' <=> P)
  BY Zenon DEF Pending
<1> HIDE DEF P
<1>5. ASSUME NEW t \in Threads, ThreadSteps(t) \/ UserSteps(t) PROVE Flags' /\ DoorbellTells'
  <2>1. CASE Notify(t)
    <3>1. cpc' \in ClientPlaces
      BY <2>1, Zenon DEF Notify, Woken, Flags, ClientPlaces
    <3> QED
      BY <1>3, <1>4, <2>1, <3>1 DEF Notify, stateVars
  <2>2. CASE senders > 0 /\ cpc' = cpc /\ Sends(t)
    BY <1>2, <2>2 DEF Sends, Flags
  <2>3. CASE senders > 0 /\ cpc' = cpc /\ Quietly(t)
    <3>1. senders' = 0 <=> senders = 0
      BY <1>1, <2>3 DEF Quietly
    <3> QED
      BY <1>3, <1>4, <2>3, <3>1 DEF Quietly, Flags
  <2>4. CASE senders > 0 /\ cpc' = cpc /\ Goodbye(t)
    <3>1. CASE senders = 1
      <4>1. doorbell' = Refreshed(queue, latched, 0) /\ senders' = 0
        BY <2>4, <3>1 DEF Goodbye, SenderGone
      <4>2. queue' = queue /\ latched' = latched /\ cpc' \in ClientPlaces
        BY <2>4 DEF Goodbye, Flags
      <4> QED
        BY <1>2, <4>1, <4>2
    <3>2. CASE senders # 1
      <4>1. doorbell' = doorbell /\ senders' # 0 /\ senders # 0
        BY <1>1, <2>4, <3>2 DEF Goodbye, SenderGone
      <4> QED
        BY <1>3, <1>4, <2>4, <4>1 DEF Goodbye, Flags
    <3> QED
      BY <3>1, <3>2
  <2> QED
    BY <1>5, <2>1, <2>2, <2>3, <2>4, ThreadLooks, Zenon
<1>6. ASSUME Receives PROVE Flags' /\ DoorbellTells'
  <2>1. doorbell' = Refreshed(queue', latched', senders') /\ cpc' \in ClientPlaces
    BY <1>6 DEF Receives, ClientPlaces
  <2> QED
    BY <1>2, <2>1
<1>7. ASSUME RecvEnds \/ RecvSleeps \/ TimesOut \/ ClientProds \/ BeginRecv \/ UNCHANGED vars
      PROVE  Flags' /\ DoorbellTells'
  <2>1. /\ queue' = queue /\ latched' = latched /\ senders' = senders /\ doorbell' = doorbell
        /\ cpc' = cpc \/ cpc' \in ClientPlaces
    BY <1>7, Zenon DEF RecvEnds, RecvSleeps, TimesOut, ClientProds, BeginRecv, vars, stateVars,
       ClientPlaces
  <2> QED
    BY <1>3, <1>4, <2>1 DEF Flags
<1>8. ASSUME AskDoorbell PROVE Flags' /\ DoorbellTells'
  <2>1. /\ queue' = queue /\ latched' = latched /\ senders' = senders /\ cpc' = cpc
        /\ doorbell' = IF Pending(queue, latched, senders) THEN "lit" ELSE "dark"
    BY <1>8 DEF AskDoorbell, stateVars
  <2>2. Pending(queue, latched, senders)' <=> Pending(queue, latched, senders)
    BY <2>1, Zenon DEF Pending
  <2>3. doorbell' = "lit" <=> Pending(queue, latched, senders)'
    BY <2>1, <2>2
  <2> QED
    BY <2>1, <2>3 DEF Flags, DoorbellTells
<1> QED
  BY <1>5, <1>6, <1>7, <1>8, Zenon DEF Next, ClientSteps, RecvTakes, TryRecv

\* Nothing comes after the end.
LEMMA EndedStep ==
  Typed /\ Once /\ RoomKept /\ Counted /\ Flags /\ Ended /\ [Next]_vars => Ended'
<1> SUFFICES ASSUME Typed, Once, RoomKept, Counted, Flags, Ended, [Next]_vars, cpc' = "ended"
             PROVE  senders' = 0 /\ NothingThere'
  BY DEF Ended
<1>1. senders \in Nat
  BY Sizes
<1>2. ASSUME cpc = "ended", queue' = queue, latched' = latched, senders' = senders
      PROVE  senders' = 0 /\ NothingThere'
  BY <1>2 DEF Ended, NothingThere
<1>3. ASSUME NEW t \in Threads, ThreadSteps(t) \/ UserSteps(t) PROVE senders' = 0 /\ NothingThere'
  <2>1. CASE Notify(t)
    <3>1. cpc = "ended"
      BY <2>1 DEF Notify, Woken
    <3> QED
      BY <1>2, <2>1, <3>1 DEF Notify, stateVars
  <2>2. CASE senders > 0 /\ cpc' = cpc
    BY <1>1, <2>2 DEF Ended
  <2> QED
    BY <1>3, <2>1, <2>2, ThreadLooks, Zenon
<1>4. ASSUME Receives PROVE FALSE
  BY <1>4 DEF Receives
<1>5. ASSUME RecvEnds PROVE senders' = 0 /\ NothingThere'
  BY <1>5 DEF RecvEnds, NothingThere, stateVars
<1>6. ASSUME RecvSleeps \/ TimesOut \/ ClientProds \/ BeginRecv PROVE FALSE
  BY <1>6 DEF RecvSleeps, TimesOut, ClientProds, BeginRecv
<1>7. ASSUME AskDoorbell \/ UNCHANGED vars PROVE senders' = 0 /\ NothingThere'
  BY <1>2, <1>7 DEF AskDoorbell, vars, stateVars
<1> QED
  BY <1>3, <1>4, <1>5, <1>6, <1>7, Zenon DEF Next, ClientSteps, RecvTakes, TryRecv

\* Somebody is always about to wake a client that sleeps on something.
LEMMA WakeStep ==
  Typed /\ Once /\ RoomKept /\ Counted /\ NoLostWakeup /\ [Next]_vars => NoLostWakeup'
<1> DEFINE P == Pending(queue, latched, senders)
           About(u) == tpc[u] \in {"notify", "redeemed"}
<1> SUFFICES ASSUME Typed, Once, RoomKept, Counted, NoLostWakeup, [Next]_vars,
                    cpc' = "asleep", P'
             PROVE  \E u \in Threads : About(u)'
  BY Zenon DEF NoLostWakeup
<1>1. senders \in Nat
  BY Sizes
<1>2. cpc = "asleep" /\ P => \E u \in Threads : About(u)
  BY Zenon DEF NoLostWakeup
<1>3. queue' = queue /\ latched' = latched /\ (senders' = 0 <=> senders = 0) => P
  BY Zenon DEF Pending
<1> HIDE DEF P
<1>4. ASSUME NEW t \in Threads, ThreadSteps(t) \/ UserSteps(t) PROVE \E u \in Threads : About(u)'
  <2>1. Notify(t) => FALSE
    BY DEF Notify, Woken
  <2>2. ASSUME NEW from \in Steps, NEW to \in {"notify", "redeemed"}, Goes(t, from, to)
        PROVE  \E u \in Threads : About(u)'
    BY <2>2, Went DEF Steps
  <2>3. ASSUME NEW from \in Steps \ {"notify", "redeemed"}, NEW to \in Steps, Goes(t, from, to),
               \E u \in Threads : About(u)
        PROVE  \E u \in Threads : About(u)'
    BY <2>3, Went
  <2>4. CASE cpc' = cpc /\ Sends(t)
    BY <2>2, <2>4 DEF Sends, Steps
  <2>5. CASE senders > 0 /\ cpc' = cpc /\ Quietly(t)
    <3>1. senders' = 0 <=> senders = 0
      BY <1>1, <2>5 DEF Quietly
    <3>2. \E u \in Threads : About(u)
      BY <1>2, <1>3, <2>5, <3>1 DEF Quietly
    <3> QED
      BY <2>3, <2>5, <3>2 DEF Quietly
  <2>6. CASE senders > 0 /\ cpc' = cpc /\ Goodbye(t)
    <3>1. CASE senders = 1
      BY <2>2, <2>6, <3>1, Leads DEF Goodbye, Steps
    <3>2. CASE senders # 1
      <4>1. senders' # 0 /\ senders # 0
        BY <1>1, <2>6, <3>2 DEF Goodbye, SenderGone
      <4>2. \E u \in Threads : About(u)
        BY <1>2, <1>3, <2>6, <4>1 DEF Goodbye
      <4>3. AfterSenderGone \in Steps
        BY Leads DEF Steps
      <4> QED
        BY <2>3, <2>6, <4>2, <4>3 DEF Goodbye, Steps
    <3> QED
      BY <3>1, <3>2
  <2> QED
    BY <1>4, <2>1, <2>4, <2>5, <2>6, ThreadLooks, Zenon
<1>5. ASSUME Receives PROVE FALSE
  BY <1>5 DEF Receives
<1>6. ASSUME RecvSleeps PROVE FALSE
  <2>1. queue = << >> /\ latched = << >> /\ senders # 0
    BY <1>6 DEF RecvSleeps, NothingThere
  <2>2. P
    BY <1>3, <1>6 DEF RecvSleeps, stateVars
  <2> QED
    BY <2>1, <2>2, Zenon DEF P, Pending
<1>7. ASSUME RecvEnds \/ TimesOut \/ ClientProds \/ BeginRecv \/ AskDoorbell PROVE FALSE
  BY <1>7 DEF RecvEnds, TimesOut, ClientProds, BeginRecv, AskDoorbell
<1>8. ASSUME UNCHANGED vars PROVE \E u \in Threads : About(u)'
  BY <1>2, <1>3, <1>8 DEF vars, stateVars
<1> HIDE DEF About
<1> QED
  BY <1>4, <1>5, <1>6, <1>7, <1>8, Zenon DEF Next, ClientSteps, RecvTakes, TryRecv

\* The whole invariant is preserved.
LEMMA IInvStep == IInv /\ [Next]_vars => IInv'
<1> SUFFICES ASSUME IInv, [Next]_vars PROVE IInv'
  OBVIOUS
<1>1. Typed /\ Flags /\ Once /\ Newest /\ RoomKept /\ Counted /\ Ended /\ DoorbellTells /\ NoLostWakeup
  BY DEF IInv
<1>2. Typed' /\ RoomKept' /\ Counted'
  BY <1>1, TypedStep, RoomStep, CountedStep, Zenon
<1>3. Once' /\ Newest'
  BY <1>1, OnceStep, NewestStep, Zenon
<1>4. Flags' /\ DoorbellTells' /\ Ended' /\ NoLostWakeup'
  BY <1>1, DoorbellStep, EndedStep, WakeStep, Zenon
<1> QED
  BY <1>2, <1>3, <1>4, Zenon DEF IInv

\* Room for a best-effort notification appears only by one, as a slot is released or
\* something is taken, and whoever releases or takes goes on to prod.
LEMMA ProdStep ==
  ASSUME IInv, Next, BestEffortRoom(queue, reserved, latched) = 0,
         BestEffortRoom(queue, reserved, latched)' > 0
  PROVE  cpc' = "prod" \/ \E t \in Threads : tpc[t] = "idle" /\ tpc'[t] = "prod"
<1> DEFINE F == Flushed(queue, reserved, latched)
           L == StillLatched(queue, reserved, latched)
           Goal == cpc' = "prod" \/ \E t \in Threads : tpc[t] = "idle" /\ tpc'[t] = "prod"
<1>1. /\ Typed /\ Once /\ RoomKept /\ Counted
      /\ reserved \in Nat /\ Len(queue) \in Nat /\ Len(latched) \in Nat /\ Bound \in Nat
      /\ queue \in Seq(Entry) /\ latched \in Seq(Watches) /\ Len(queue) + reserved <= Bound
  <2>1. Typed /\ Once /\ RoomKept /\ Counted
    BY DEF IInv
  <2>2. reserved \in Nat /\ Len(queue) \in Nat /\ Len(latched) \in Nat /\ Bound \in Nat
    BY <2>1, Sizes, Zenon
  <2> QED
    BY <2>1, <2>2, Zenon DEF Typed, RoomKept
<1>2. /\ F \in Seq(Entry) /\ L \in Seq(Watches)
      /\ Len(F) + Len(L) = Len(queue) + Len(latched)
  BY <1>1, FlushShape, Zenon
<1>3. /\ Len(F) \in Nat /\ Len(L) \in Nat
      /\ \A x : Len(Append(F, x)) = Len(F) + 1
      /\ \A w \in Watches : Len(Latch(L, w)) \in Nat /\ Len(Latch(L, w)) >= Len(L)
  BY <1>2 DEF Latch
<1> HIDE DEF F, L
<1>4. Bound - Len(queue) - reserved - Len(latched) <= 0
  BY <1>1 DEF BestEffortRoom, Free
<1>5. ASSUME reserved' \in Int, Len(queue') \in Nat, Len(latched') \in Nat
      PROVE  Bound - Len(queue') - reserved' - Len(latched') > 0
  BY <1>1, <1>5 DEF BestEffortRoom, Free
<1>6. ASSUME queue' = queue, latched' = latched, reserved' = reserved \/ reserved' = reserved + 1
      PROVE  FALSE
  BY <1>1, <1>4, <1>5, <1>6
<1>7. ASSUME queue' = queue, latched' = latched, reserved' = reserved - 1
      PROVE  AfterRelease(reserved - 1) = "prod"
  <2>1. Prods(queue, reserved - 1, latched)
    BY <1>1, <1>4, <1>5, <1>7 DEF Prods, BestEffortRoom, Free
  <2> QED
    BY <2>1, Zenon DEF AfterRelease
<1>8. ASSUME NEW x, queue' = Append(F, x), latched' = L, reserved' = reserved \/ reserved' = reserved - 1
      PROVE  FALSE
  <2>1. Len(queue') = Len(F) + 1 /\ Len(latched') = Len(L)
    BY <1>3, <1>8, Zenon
  <2>2. Len(queue') \in Nat /\ Len(latched') \in Nat /\ reserved' \in Int
    BY <1>1, <1>3, <1>8, <2>1
  <2>3. Bound - Len(queue') - reserved' - Len(latched') > 0
    BY <1>5, <2>2, Zenon
  <2>4. Len(queue') + Len(latched') = Len(queue) + Len(latched) + 1
    BY <1>1, <1>2, <1>3, <2>1
  <2>5. reserved' >= reserved - 1 /\ reserved' \in Int
    BY <1>1, <1>8
  <2> QED
    BY <1>1, <1>4, <2>2, <2>3, <2>4, <2>5, SMTT(20)
<1>9. ASSUME NEW t \in Threads, NEW to \in Steps, Goes(t, "idle", to), to = "prod" PROVE Goal
  BY <1>1, <1>9, Went
<1>10. ASSUME NEW t \in Threads, NEW w \in Watches, Send(t, w) PROVE FALSE
  <2>1. /\ reserved' = reserved
        /\ \/ queue' = Append(F, Batch(w, sent'[w])) /\ latched' = L
           \/ queue' = F /\ latched' = Latch(L, w)
    BY <1>10, Zenon DEF Send, F, L
  <2>2. CASE queue' = F /\ latched' = Latch(L, w)
    BY <1>1, <1>2, <1>3, <1>4, <1>5, <2>1, <2>2
  <2> QED
    BY <1>8, <2>1, <2>2
<1>11. ASSUME NEW t \in Threads, Redeem(t) PROVE FALSE
  BY <1>8, <1>11, Zenon DEF Redeem, F, L
<1>12. ASSUME NEW t \in Threads, NEW w \in Asking, StandingSend(t, w) PROVE FALSE
  BY <1>6, <1>8, <1>12, Zenon DEF StandingSend, F, L
<1>13. ASSUME NEW t \in Threads, DropReservation(t) PROVE Goal
  <2>1. queue' = queue /\ latched' = latched /\ reserved' = reserved - 1
        /\ Goes(t, "idle", AfterRelease(reserved - 1))
    BY <1>13, Zenon DEF DropReservation
  <2> QED
    BY <1>7, <1>9, <2>1 DEF Steps
<1>14. ASSUME NEW t \in Threads, NEW w \in Asking, DropStanding(t, w) PROVE Goal
  <2>1. /\ queue' = queue /\ latched' = latched
        /\ \/ reserved' = reserved
           \/ reserved' = reserved - 1 /\ Goes(t, "idle", AfterRelease(reserved - 1))
    BY <1>14, Zenon DEF DropStanding
  <2> QED
    BY <1>6, <1>7, <1>9, <2>1 DEF Steps
<1>15. ASSUME NEW t \in Threads,
              Reserved(t) \/ Notify(t) \/ Prod(t) \/ Release(t) \/ Reserve(t) \/ DropSender(t)
              \/ (\E u \in Threads : Clone(t, u))
              \/ \E w \in Asking : ReservedStanding(t, w) \/ ReserveStanding(t, w)
       PROVE  FALSE
  BY <1>6, <1>15, Zenon DEF Reserved, Notify, Prod, Release, Reserve, DropSender, Clone,
     ReservedStanding, ReserveStanding, stateVars
<1>16. ASSUME Receives PROVE Goal
  <2>1. SUFFICES Prods(queue', reserved', latched')
    BY <1>16, Zenon DEF Receives
  <2>2. queue # << >> => Len(Tail(queue)) = Len(queue) - 1 /\ Len(queue) > 0
    BY <1>1, Taken
  <2>3. latched # << >> => Len(Tail(latched)) = Len(latched) - 1 /\ Len(latched) > 0
    BY <1>1, Taken
  <2>4. \/ /\ Len(queue') = Len(queue) - 1 /\ Len(queue) > 0 /\ Len(latched') = Len(latched)
           /\ reserved' = reserved \/ reserved' = reserved + 1
        \/ /\ Len(latched') = Len(latched) - 1 /\ Len(latched) > 0 /\ Len(queue') = Len(queue)
           /\ reserved' = reserved
    BY <1>1, <1>16, <2>2, <2>3, TakeFinds, Zenon DEF TakesEntry, TakesQuestion, TakesLoss
  <2> QED
    BY <1>1, <1>4, <1>5, <2>4 DEF Prods, BestEffortRoom, Free
<1>17. ASSUME ClientStill PROVE FALSE
  BY <1>6, <1>17 DEF ClientStill, stateVars
<1>18. ASSUME NEW t \in Threads, ThreadSteps(t) PROVE Goal
  BY <1>15, <1>18, Zenon DEF ThreadSteps
<1>19. ASSUME NEW t \in Threads, UserSteps(t) PROVE Goal
  BY <1>10, <1>11, <1>12, <1>13, <1>14, <1>15, <1>19, Zenon DEF UserSteps
<1> HIDE DEF Goal
<1>20. Goal
  BY <1>16, <1>17, <1>18, <1>19, StillSteps, Zenon DEF Next, ClientSteps, RecvTakes, TryRecv
<1> QED
  BY <1>20 DEF Goal

\* What holds at the start.
LEMMA IInvInit == Init => IInv
<1> SUFFICES ASSUME Init PROVE IInv
  OBVIOUS
<1>1. PICK t \in Threads : handle = {t}
  BY DEF Init
<1>2. /\ NoSlot \in SlotState /\ "idle" \in Steps
  BY DEF NoSlot, SlotState, Steps
<1>3. Typed
  BY <1>1, <1>2, QueueAssumption DEF Init, Typed
<1>4. NoSlot.alive = FALSE /\ NoSlot.inFlight = FALSE
  BY DEF NoSlot
<1>5. \A w \in Asking : slot[w] = NoSlot
  BY DEF Init
<1>6. InFlight = {} /\ Alive = {} /\ Loaned = {}
  BY <1>4, <1>5, Zenon DEF InFlight, Alive, Loaned
<1>7. Reserving = {} /\ Letting = {}
  BY DEF Init, Reserving, Letting
<1>8. Cardinality(handle) = 1 /\ Cardinality({}) = 0
  BY <1>1, FS_Singleton, FS_EmptySet
<1>9. Len(queue) = 0 /\ reserved = 0 /\ reservations = 0 /\ senders = 1
  BY DEF Init
<1>10. Once
  BY <1>6, <1>9 DEF Once
<1>11. Newest
  BY <1>6 DEF Newest, Init
<1>12. RoomKept
  <2>1. Holders = reservations + Cardinality(Reserving) + Cardinality(Loaned)
    BY DEF Holders, Reserving, Loaned
  <2> QED
    BY <1>6, <1>7, <1>8, <1>9, <2>1, QueueAssumption DEF RoomKept
<1>13. Counted
  BY <1>1, <1>6, <1>7, <1>8, <1>9 DEF Counted
<1>14. Flags /\ Ended /\ DoorbellTells /\ NoLostWakeup
  BY DEF Init, Flags, ClientPlaces, Ended, DoorbellTells, NoLostWakeup
<1> QED
  BY <1>3, <1>10, <1>11, <1>12, <1>13, <1>14, Zenon DEF IInv

\* The invariant, for any number of threads and watches and any bound.
THEOREM Inductive == Spec => []IInv
<1> QED
  BY IInvInit, IInvStep, PTL DEF Spec

\* Types are kept, the two counts included (State in queue.rs).
THEOREM TypeCorrect == Spec => []TypeOK
<1>1. IInv => TypeOK
  <2> SUFFICES ASSUME IInv PROVE TypeOK
    OBVIOUS
  <2>1. Typed /\ Flags /\ RoomKept /\ Counted
    BY DEF IInv
  <2>2. reserved \in Nat /\ senders \in Nat
    BY <2>1, Sizes
  <2> QED
    BY <2>1, <2>2, Zenon DEF Typed, Flags, TypeOK, Entry, SlotState, Steps, ClientPlaces
<1> QED
  BY <1>1, Inductive, PTL

\* A reserved message always finds room: `reserved` is exactly what its holders can still
\* redeem, and with the entries it never exceeds the bound (Reservation::send,
\* StandingSlot::send).
THEOREM ReservedIsKept == Spec => []RoomKept
<1>1. IInv => RoomKept
  BY DEF IInv
<1> QED
  BY <1>1, Inductive, PTL

\* A standing slot is in the queue once at most, with its newest message, and a message
\* that is not there any more has been heard (StandingSlot::send, take).
THEOREM NewestIsHeard == Spec => []QuestionsKept
<1>1. IInv => QuestionsKept
  <2> SUFFICES ASSUME IInv PROVE QuestionsKept
    OBVIOUS
  <2> DEFINE places(w) == {i \in 1 .. Len(queue) : queue[i] = Standing(w)}
  <2>1. Once /\ Newest
    BY DEF IInv
  <2>2. \A w : Standing(w).kind = "question" /\ Standing(w).watch = w
    BY DEF Standing, Question
  <2>3. \A w \in Asking : w \in InFlight <=> slot[w].inFlight
    BY Zenon DEF InFlight
  <2>4. ASSUME NEW w \in Asking, w \in InFlight PROVE Cardinality(places(w)) = 1
    <3>1. PICK i \in 1 .. Len(queue) : queue[i] = Standing(w)
      BY <2>1, <2>4 DEF Once
    <3>2. ASSUME NEW j \in 1 .. Len(queue), queue[j] = Standing(w) PROVE j = i
      <4>1. queue[i].kind = "question" /\ queue[i] = queue[j]
        BY <2>2, <3>1, <3>2
      <4> QED
        BY <2>1, <4>1 DEF Once
    <3>3. places(w) = {i}
      BY <3>1, <3>2, Zenon
    <3> HIDE DEF places
    <3> QED
      BY <3>3, FS_Singleton, Zenon
  <2>5. ASSUME NEW w \in Asking, w \notin InFlight PROVE Cardinality(places(w)) = 0
    <3>1. ASSUME NEW j \in 1 .. Len(queue), queue[j] = Standing(w) PROVE FALSE
      <4>1. queue[j].kind = "question" /\ queue[j].watch = w
        BY <2>2, <3>1
      <4> QED
        BY <2>1, <2>5, <4>1 DEF Once
    <3>2. places(w) = {}
      BY <3>1, Zenon
    <3> HIDE DEF places
    <3> QED
      BY <3>2, FS_EmptySet, Zenon
  <2>6. \A w \in Asking : Cardinality(places(w)) = IF slot[w].inFlight THEN 1 ELSE 0
    <3> HIDE DEF places
    <3> QED
      BY <2>3, <2>4, <2>5, Zenon
  <2>7. \A w \in Asking :
          /\ slot[w].inFlight => slot[w].queued = asked[w] /\ heard[w] < asked[w]
          /\ ~slot[w].inFlight => heard[w] = asked[w]
    BY <2>1, <2>3, Zenon DEF Newest
  <2>8. ASSUME NEW w \in Asking
        PROVE  /\ Cardinality(places(w)) = IF slot[w].inFlight THEN 1 ELSE 0
               /\ slot[w].inFlight => slot[w].queued = asked[w] /\ heard[w] < asked[w]
               /\ ~slot[w].inFlight => heard[w] = asked[w]
    <3>1. Cardinality(places(w)) = IF slot[w].inFlight THEN 1 ELSE 0
      BY <2>6
    <3>2. slot[w].inFlight => slot[w].queued = asked[w] /\ heard[w] < asked[w]
      BY <2>7, Zenon
    <3>3. ~slot[w].inFlight => heard[w] = asked[w]
      BY <2>7
    <3> QED
      BY <3>1, <3>2, <3>3
  <2> QED
    BY <2>8 DEF QuestionsKept
<1> QED
  BY <1>1, Inductive, PTL

\* The client gets to know of everything: the event follows the state, no notification is
\* slept through, and None is the end (refresh_doorbell, recv, Drop for Sender).
THEOREM NothingMissed == Spec => []ClientIsTold
<1>1. IInv => ClientIsTold
  <2> SUFFICES ASSUME IInv PROVE ClientIsTold
    OBVIOUS
  <2>1. /\ Typed /\ RoomKept /\ Counted /\ Ended /\ DoorbellTells /\ NoLostWakeup
    BY DEF IInv
  <2>2. ASSUME cpc = "ended"
        PROVE  /\ NothingThere /\ handle = {} /\ reservations = 0
               /\ \A w \in Asking : ~slot[w].alive
    <3>1. senders = 0 /\ NothingThere
      BY <2>1, <2>2 DEF Ended
    <3>2. ~(handle # {} \/ reservations > 0 \/ Alive # {} \/ Letting # {})
      BY <2>1, <3>1, HasSender
    <3>3. \A w \in Asking : ~slot[w].alive
      BY <3>2, Zenon DEF Alive
    <3>4. reservations = 0
      BY <2>1, <3>2 DEF Typed
    <3> QED
      BY <3>1, <3>2, <3>3, <3>4
  <2>3. EndIsFinal
    BY <2>2, Zenon DEF EndIsFinal
  <2> QED
    BY <2>1, <2>3 DEF ClientIsTold
<1> QED
  BY <1>1, Inductive, PTL

\* Room for a best-effort notification never appears without a prod, so no paused watcher
\* is forgotten (freed_resumers).
THEOREM RoomProds == Spec => RoomIsProdded
<1>1. IInv /\ [Next]_vars =>
        [BestEffortRoom(queue, reserved, latched) = 0
         /\ BestEffortRoom(queue, reserved, latched)' > 0
           => cpc' = "prod" \/ \E t \in Threads : tpc[t] = "idle" /\ tpc'[t] = "prod"]_vars
  BY ProdStep
<1> QED
  BY <1>1, Inductive, PTL DEF Spec, RoomIsProdded
=============================================================================
