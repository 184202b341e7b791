--------------------------- MODULE ServicerProofs ---------------------------
(***************************************************************************)
(* What the request queue guarantees for any number of producers, pool     *)
(* threads and closers.                                                    *)
(*                                                                         *)
(* The argument: the right to drain is one token.  It is a producer about  *)
(* to ring, a submission in the pool or a drain that has still to look at  *)
(* the queue; there is never more than one (OneToken), because a producer  *)
(* takes it only when the flag is idle and the flag is idle only when it   *)
(* is nowhere.  So handlers do not overlap, and since requests are taken   *)
(* from the front they are handled in order (InOrder).  Shutting down      *)
(* destroys the token: once no producer publishes nobody can ring again    *)
(* (ClosedForGood), and the cancellation removes the last submission.      *)
(***************************************************************************)
EXTENDS Servicer, FiniteSetTheorems, TLAPS

\* The producers `publishing` counts, when f says where each producer is.
PublishersOf(f) == {p \in Producers : f[p] \in {"ringing", "rung"}}

\* TypeOK without its counts, in three parts.
QueueTyped ==
  /\ items \in Seq(1 .. MaxRequests) /\ drain \in {"idle", "scheduled"}
  /\ publishing \in Int /\ queued \in Nat

Numbers ==
  /\ accepted \in 0 .. MaxRequests
  /\ handling \in [Workers -> 0 .. accepted] /\ request \in [Producers -> 0 .. accepted]
  /\ served \subseteq 1 .. accepted /\ discarded \subseteq 1 .. accepted
  /\ submitted \subseteq 1 .. accepted
  /\ asked \in [Quiescers -> SUBSET (1 .. accepted)]

Places ==
  /\ worker \in [Workers -> {"none", "draining", "handling", "returning"}]
  /\ producer \in [Producers -> {"idle", "ringing", "rung", "rejected"}]
  /\ closer \in [Closers -> {"idle", "asleep", "woken", "cancelling", "waiting", "down"}]
  /\ quiescer \in [Quiescers -> {"idle", "waiting", "returned"}]

Flag == closed \in BOOLEAN

Typed == QueueTyped /\ Numbers /\ Places /\ Flag

\* The handler of a pool thread has a request exactly while it runs, and so has a
\* producer that is publishing.
InHand ==
  /\ \A w \in Workers : worker[w] = "handling" => handling[w] > 0
  /\ \A p \in Producers : producer[p] \in {"ringing", "rung"} => request[p] > 0

\* `publishing` stands for the producers between their two critical sections.
Counted == publishing = Cardinality(PublishersOf(producer))

\* The right to drain is in one place at most, and then the flag says so.
OneToken ==
  /\ queued <= 1
  /\ \A p, q \in Ringing : p = q
  /\ \A w, x \in Draining : w = x
  /\ queued = 1 => Ringing = {} /\ Draining = {}
  /\ Ringing # {} => Draining = {}
  /\ queued = 1 \/ Ringing # {} \/ Draining # {} => drain = "scheduled"

\* The queue holds the last requests accepted, in order; what came before them is
\* finished, but for the one in a handler.
InOrder ==
  /\ \A i \in 1 .. Len(items) : items[i] = (accepted - Len(items)) + i
  /\ \A w \in Workers : worker[w] = "handling" =>
       /\ served = 1 .. (handling[w] - 1)
       /\ ~closed => handling[w] = accepted - Len(items)
  /\ ~closed /\ (\A w \in Workers : worker[w] # "handling") => served = 1 .. (accepted - Len(items))

\* A closed queue is empty; a closer that went past the publishers left none behind;
\* a cancellation leaves nothing in the pool.
ClosedForGood ==
  /\ closed => items = << >>
  /\ \A c \in Closers :
       /\ closer[c] # "idle" => closed
       /\ closer[c] \in {"cancelling", "waiting", "down"} => Publishers = {}
       /\ closer[c] \in {"waiting", "down"} => queued = 0
       /\ closer[c] = "down" => Quiet

\* While the queue is open the flag means that somebody has the right to drain, and the
\* flag is up while requests wait.
FlagIsOwed ==
  /\ ~closed /\ drain = "scheduled" => Ringing # {} \/ queued > 0 \/ Draining # {}
  /\ items # << >> => drain = "scheduled"

IInv ==
  /\ Typed /\ InHand /\ Counted /\ OneToken /\ InOrder /\ ClosedForGood /\ FlagIsOwed

\* The steps of each kind of thread.
ProducerStep(p) == Submit(p) \/ Rejected(p) \/ ProducerSteps(p)

CloserStep(c) == ShutDown(c) \/ WakesUnasked(c) \/ CloserSteps(c)

QuiescerStep(q) == Quiesce(q) \/ QuiesceReturns(q)

-----------------------------------------------------------------------------
\* Every step is the step of some thread.
LEMMA Kinds ==
  ASSUME [Next]_vars
  PROVE  \/ \E p \in Producers : ProducerStep(p)
         \/ \E w \in Workers : Start(w) \/ WorkerSteps(w)
         \/ \E c \in Closers : CloserStep(c)
         \/ \E q \in Quiescers : QuiescerStep(q)
         \/ UNCHANGED vars
BY DEF Next, ProducerStep, CloserStep, QuiescerStep

\* The flag stays Boolean.
LEMMA FlagStep == Flag /\ [Next]_vars => Flag'
<1> SUFFICES ASSUME Flag, [Next]_vars PROVE Flag'
  OBVIOUS
<1> USE DEF Flag, queueVars, poolVars, callerVars, historyVars
<1>1. ASSUME NEW p \in Producers, ProducerStep(p) PROVE Flag'
  BY <1>1, Zenon DEF ProducerStep, ProducerSteps, Submit, MustRing, ProducerGoes, Rejected,
     Ring, Published, Notified
<1>2. ASSUME NEW w \in Workers, Start(w) \/ WorkerSteps(w) PROVE Flag'
  BY <1>2, Zenon DEF WorkerSteps, Start, WorkerGoes, Pop, Handled, DrainEnds, Returns
<1>3. ASSUME NEW c \in Closers, CloserStep(c) PROVE Flag'
  BY <1>3, Zenon DEF CloserStep, CloserSteps, ShutDown, CloserGoes, WaitsForPublishers, Wakes,
     WakesUnasked, Cancels, ShutDownReturns
<1>4. ASSUME NEW q \in Quiescers, QuiescerStep(q) PROVE Flag'
  BY <1>4, Zenon DEF QuiescerStep, Quiesce, QuiesceReturns
<1>5. CASE UNCHANGED vars
  BY <1>5, Zenon DEF vars
<1> QED BY <1>1, <1>2, <1>3, <1>4, <1>5, Kinds

\* The queue keeps its type.
LEMMA QueueTypedStep == QueueTyped /\ accepted \in 0 .. MaxRequests /\ [Next]_vars => QueueTyped'
<1> SUFFICES ASSUME QueueTyped, accepted \in 0 .. MaxRequests, [Next]_vars PROVE QueueTyped'
  OBVIOUS
<1> USE ServicerAssumption DEF QueueTyped, queueVars, poolVars, callerVars, historyVars
<1>1. ASSUME NEW p \in Producers, ProducerStep(p) PROVE QueueTyped'
  <2>1. CASE Submit(p)
    BY <2>1 DEF Submit, MustRing, ProducerGoes
  <2>2. CASE Rejected(p)
    BY <2>2 DEF Rejected, ProducerGoes
  <2>3. CASE Ring(p)
    BY <2>3 DEF Ring, ProducerGoes
  <2>4. CASE Published(p)
    BY <2>4 DEF Published, ProducerGoes, Notified
  <2> QED BY <1>1, <2>1, <2>2, <2>3, <2>4 DEF ProducerStep, ProducerSteps
<1>2. ASSUME NEW w \in Workers, Start(w) \/ WorkerSteps(w) PROVE QueueTyped'
  <2>1. CASE Start(w)
    BY <2>1 DEF Start, WorkerGoes
  <2>2. CASE Pop(w)
    BY <2>2 DEF Pop, WorkerGoes
  <2>3. CASE Handled(w)
    BY <2>3 DEF Handled, WorkerGoes
  <2>4. CASE DrainEnds(w)
    BY <2>4 DEF DrainEnds, WorkerGoes
  <2>5. CASE Returns(w)
    BY <2>5 DEF Returns, WorkerGoes
  <2> QED BY <1>2, <2>1, <2>2, <2>3, <2>4, <2>5 DEF WorkerSteps
<1>3. ASSUME NEW c \in Closers, CloserStep(c) PROVE QueueTyped'
  <2>1. CASE ShutDown(c)
    BY <2>1 DEF ShutDown, CloserGoes, WaitsForPublishers
  <2>2. CASE Wakes(c) \/ WakesUnasked(c)
    BY <2>2 DEF Wakes, CloserGoes, WaitsForPublishers, WakesUnasked
  <2>3. CASE Cancels(c)
    BY <2>3 DEF Cancels, CloserGoes
  <2>4. CASE ShutDownReturns(c)
    BY <2>4 DEF ShutDownReturns, CloserGoes
  <2> QED BY <1>3, <2>1, <2>2, <2>3, <2>4 DEF CloserStep, CloserSteps
<1>4. ASSUME NEW q \in Quiescers, QuiescerStep(q) PROVE QueueTyped'
  BY <1>4 DEF QuiescerStep, Quiesce, QuiesceReturns
<1>5. CASE UNCHANGED vars
  BY <1>5 DEF vars
<1> QED BY <1>1, <1>2, <1>3, <1>4, <1>5, Kinds

\* What is queued was accepted.
LEMMA QueuedWereAccepted ==
  ASSUME QueueTyped, Numbers, InOrder
  PROVE  \A i \in 1 .. Len(items) : items[i] \in 1 .. accepted
<1> SUFFICES ASSUME NEW i \in 1 .. Len(items) PROVE items[i] \in 1 .. accepted
  OBVIOUS
<1>1. items[i] = (accepted - Len(items)) + i
  BY DEF InOrder
<1>2. items[i] \in 1 .. MaxRequests /\ Len(items) \in Nat /\ accepted \in Nat
  BY ServicerAssumption DEF QueueTyped, Numbers
<1> QED BY <1>1, <1>2

\* Requests are numbered up to the last one accepted.
LEMMA NumbersStep == QueueTyped /\ Numbers /\ InHand /\ InOrder /\ [Next]_vars => Numbers'
<1> SUFFICES ASSUME QueueTyped, Numbers, InHand, InOrder, [Next]_vars PROVE Numbers'
  OBVIOUS
<1> USE ServicerAssumption DEF Numbers, QueueTyped, queueVars, poolVars, callerVars, historyVars
<1>1. ASSUME NEW p \in Producers, ProducerStep(p) PROVE Numbers'
  <2>1. CASE Submit(p)
    <3>1. /\ accepted' = accepted + 1 /\ accepted' \in 0 .. MaxRequests
          /\ 0 .. accepted \subseteq 0 .. accepted' /\ 1 .. accepted \subseteq 1 .. accepted'
          /\ accepted' \in 0 .. accepted' /\ accepted' \in 1 .. accepted'
      BY <2>1 DEF Submit
    <3>2. handling' = handling /\ served' = served /\ discarded' = discarded /\ asked' = asked
      BY <2>1 DEF Submit
    <3>3. /\ request' = [request EXCEPT ![p] = accepted'] \/ request' = request
          /\ submitted' = submitted \cup {accepted'} \/ submitted' = submitted
      BY <2>1 DEF Submit
    <3>4. handling' \in [Workers -> 0 .. accepted'] /\ request' \in [Producers -> 0 .. accepted']
      BY <3>1, <3>2, <3>3
    <3>5. /\ served' \subseteq 1 .. accepted' /\ discarded' \subseteq 1 .. accepted'
          /\ submitted' \subseteq 1 .. accepted'
      BY <3>1, <3>2, <3>3
    <3>6. asked' \in [Quiescers -> SUBSET (1 .. accepted')]
      BY <3>1, <3>2
    <3> QED BY <3>1, <3>4, <3>5, <3>6
  <2>2. CASE Rejected(p)
    BY <2>2 DEF Rejected, ProducerGoes
  <2>3. CASE Ring(p)
    BY <2>3 DEF Ring, ProducerGoes
  <2>4. CASE Published(p)
    <3>1. request[p] \in 1 .. accepted
      BY <2>4 DEF Published, ProducerGoes, InHand
    <3>2. request' \in [Producers -> 0 .. accepted]
      BY <2>4 DEF Published, None
    <3>3. submitted' = submitted \cup {request[p]} /\ accepted' = accepted
      BY <2>4 DEF Published
    <3>4. submitted' \subseteq 1 .. accepted'
      BY <3>1, <3>3
    <3> QED BY <2>4, <3>2, <3>3, <3>4 DEF Published
  <2> QED BY <1>1, <2>1, <2>2, <2>3, <2>4 DEF ProducerStep, ProducerSteps
<1>2. ASSUME NEW w \in Workers, Start(w) \/ WorkerSteps(w) PROVE Numbers'
  <2>1. CASE Start(w)
    BY <2>1 DEF Start, WorkerGoes
  <2>2. CASE Pop(w)
    <3>1. Head(items) \in 1 .. accepted
      BY <2>2, QueuedWereAccepted DEF Pop
    <3> QED BY <2>2, <3>1 DEF Pop
  <2>3. CASE Handled(w)
    <3>1. handling[w] \in 1 .. accepted
      BY <2>3 DEF Handled, WorkerGoes, InHand
    <3>2. handling' \in [Workers -> 0 .. accepted]
      BY <2>3 DEF Handled, None
    <3>3. served' = served \cup {handling[w]} /\ accepted' = accepted
      BY <2>3 DEF Handled
    <3>4. served' \subseteq 1 .. accepted'
      BY <3>1, <3>3
    <3> QED BY <2>3, <3>2, <3>3, <3>4 DEF Handled
  <2>4. CASE DrainEnds(w)
    BY <2>4 DEF DrainEnds, WorkerGoes
  <2>5. CASE Returns(w)
    BY <2>5 DEF Returns, WorkerGoes
  <2> QED BY <1>2, <2>1, <2>2, <2>3, <2>4, <2>5 DEF WorkerSteps
<1>3. ASSUME NEW c \in Closers, CloserStep(c) PROVE Numbers'
  <2>1. CASE ShutDown(c)
    <3>1. {items[i] : i \in 1 .. Len(items)} \subseteq 1 .. accepted
      BY QueuedWereAccepted
    <3> QED BY <2>1, <3>1 DEF ShutDown
  <2>2. CASE Wakes(c) \/ WakesUnasked(c)
    BY <2>2 DEF Wakes, CloserGoes, WaitsForPublishers, WakesUnasked
  <2>3. CASE Cancels(c)
    BY <2>3 DEF Cancels, CloserGoes
  <2>4. CASE ShutDownReturns(c)
    BY <2>4 DEF ShutDownReturns, CloserGoes
  <2> QED BY <1>3, <2>1, <2>2, <2>3, <2>4 DEF CloserStep, CloserSteps
<1>4. ASSUME NEW q \in Quiescers, QuiescerStep(q) PROVE Numbers'
  BY <1>4 DEF QuiescerStep, Quiesce, QuiesceReturns
<1>5. CASE UNCHANGED vars
  BY <1>5 DEF vars
<1> QED BY <1>1, <1>2, <1>3, <1>4, <1>5, Kinds

\* Every thread stays at one of its places.
LEMMA PlacesStep == Places /\ [Next]_vars => Places'
<1> SUFFICES ASSUME Places, [Next]_vars PROVE Places'
  OBVIOUS
<1> USE DEF Places, queueVars, poolVars, callerVars, historyVars
<1>1. ASSUME NEW p \in Producers, ProducerStep(p) PROVE Places'
  <2>1. CASE Submit(p)
    BY <2>1 DEF Submit, MustRing, ProducerGoes
  <2>2. CASE Rejected(p)
    BY <2>2 DEF Rejected, ProducerGoes
  <2>3. CASE Ring(p)
    BY <2>3 DEF Ring, ProducerGoes
  <2>4. CASE Published(p)
    BY <2>4 DEF Published, ProducerGoes, Notified
  <2> QED BY <1>1, <2>1, <2>2, <2>3, <2>4 DEF ProducerStep, ProducerSteps
<1>2. ASSUME NEW w \in Workers, Start(w) \/ WorkerSteps(w) PROVE Places'
  <2>1. CASE Start(w)
    BY <2>1 DEF Start, WorkerGoes
  <2>2. CASE Pop(w)
    BY <2>2 DEF Pop, WorkerGoes
  <2>3. CASE Handled(w)
    BY <2>3 DEF Handled, WorkerGoes
  <2>4. CASE DrainEnds(w)
    BY <2>4 DEF DrainEnds, WorkerGoes
  <2>5. CASE Returns(w)
    BY <2>5 DEF Returns, WorkerGoes
  <2> QED BY <1>2, <2>1, <2>2, <2>3, <2>4, <2>5 DEF WorkerSteps
<1>3. ASSUME NEW c \in Closers, CloserStep(c) PROVE Places'
  <2>1. CASE ShutDown(c)
    BY <2>1 DEF ShutDown, CloserGoes, WaitsForPublishers
  <2>2. CASE Wakes(c) \/ WakesUnasked(c)
    BY <2>2 DEF Wakes, CloserGoes, WaitsForPublishers, WakesUnasked
  <2>3. CASE Cancels(c)
    BY <2>3 DEF Cancels, CloserGoes
  <2>4. CASE ShutDownReturns(c)
    BY <2>4 DEF ShutDownReturns, CloserGoes
  <2> QED BY <1>3, <2>1, <2>2, <2>3, <2>4 DEF CloserStep, CloserSteps
<1>4. ASSUME NEW q \in Quiescers, QuiescerStep(q) PROVE Places'
  BY <1>4 DEF QuiescerStep, Quiesce, QuiesceReturns
<1>5. CASE UNCHANGED vars
  BY <1>5 DEF vars
<1> QED BY <1>1, <1>2, <1>3, <1>4, <1>5, Kinds

\* A handler that runs and a producer that publishes keep their request.
LEMMA InHandStep == Typed /\ InHand /\ [Next]_vars => InHand'
<1> SUFFICES ASSUME Typed, InHand, [Next]_vars PROVE InHand'
  OBVIOUS
<1> USE ServicerAssumption DEF InHand, Typed, QueueTyped, Numbers, Places, queueVars, poolVars,
   callerVars, historyVars
<1>1. ASSUME NEW p \in Producers, ProducerStep(p) PROVE InHand'
  <2>1. CASE Submit(p)
    <3>1. accepted' > 0 /\ worker' = worker /\ handling' = handling
      BY <2>1 DEF Submit
    <3>2. CASE MustRing
      <4>1. producer' = [producer EXCEPT ![p] = "ringing"] /\ request' = [request EXCEPT ![p] = accepted']
        BY <2>1, <3>2 DEF Submit, ProducerGoes
      <4> QED BY <3>1, <4>1
    <3>3. CASE ~MustRing
      <4>1. producer' = producer /\ request' = request
        BY <2>1, <3>3 DEF Submit, ProducerGoes
      <4> QED BY <3>1, <4>1
    <3> QED BY <3>2, <3>3
  <2>2. CASE Rejected(p)
    BY <2>2 DEF Rejected, ProducerGoes
  <2>3. CASE Ring(p)
    BY <2>3 DEF Ring, ProducerGoes
  <2>4. CASE Published(p)
    BY <2>4 DEF Published, ProducerGoes, Notified
  <2> QED BY <1>1, <2>1, <2>2, <2>3, <2>4 DEF ProducerStep, ProducerSteps
<1>2. ASSUME NEW w \in Workers, Start(w) \/ WorkerSteps(w) PROVE InHand'
  <2>1. CASE Start(w)
    BY <2>1 DEF Start, WorkerGoes
  <2>2. CASE Pop(w)
    <3>1. Head(items) > 0
      BY <2>2 DEF Pop, QueueTyped
    <3> QED BY <2>2, <3>1 DEF Pop, WorkerGoes
  <2>3. CASE Handled(w)
    BY <2>3 DEF Handled, WorkerGoes
  <2>4. CASE DrainEnds(w)
    BY <2>4 DEF DrainEnds, WorkerGoes
  <2>5. CASE Returns(w)
    BY <2>5 DEF Returns, WorkerGoes
  <2> QED BY <1>2, <2>1, <2>2, <2>3, <2>4, <2>5 DEF WorkerSteps
<1>3. ASSUME NEW c \in Closers, CloserStep(c) PROVE InHand'
  <2>1. CASE ShutDown(c)
    BY <2>1 DEF ShutDown, CloserGoes, WaitsForPublishers
  <2>2. CASE Wakes(c) \/ WakesUnasked(c)
    BY <2>2 DEF Wakes, CloserGoes, WaitsForPublishers, WakesUnasked
  <2>3. CASE Cancels(c)
    BY <2>3 DEF Cancels, CloserGoes
  <2>4. CASE ShutDownReturns(c)
    BY <2>4 DEF ShutDownReturns, CloserGoes
  <2> QED BY <1>3, <2>1, <2>2, <2>3, <2>4 DEF CloserStep, CloserSteps
<1>4. ASSUME NEW q \in Quiescers, QuiescerStep(q) PROVE InHand'
  BY <1>4 DEF QuiescerStep, Quiesce, QuiesceReturns
<1>5. CASE UNCHANGED vars
  BY <1>5 DEF vars
<1> QED BY <1>1, <1>2, <1>3, <1>4, <1>5, Kinds

\* Counting the publishers: one more, one less, or the same.
LEMMA PublishersCounted ==
  ASSUME NEW f, NEW g, NEW p \in Producers, \A q \in Producers \ {p} : g[q] = f[q]
  PROVE  /\ Cardinality(PublishersOf(f)) \in Nat
         /\ f[p] \notin {"ringing", "rung"} /\ g[p] \in {"ringing", "rung"} =>
              Cardinality(PublishersOf(g)) = Cardinality(PublishersOf(f)) + 1
         /\ f[p] \in {"ringing", "rung"} /\ g[p] \notin {"ringing", "rung"} =>
              Cardinality(PublishersOf(g)) = Cardinality(PublishersOf(f)) - 1
         /\ (f[p] \in {"ringing", "rung"} <=> g[p] \in {"ringing", "rung"}) =>
              PublishersOf(g) = PublishersOf(f)
<1>1. IsFiniteSet(PublishersOf(f))
  BY FS_Subset, ServicerAssumption DEF PublishersOf
<1>2. Cardinality(PublishersOf(f)) \in Nat
  BY <1>1, FS_CardinalityType
<1>3. ASSUME f[p] \notin {"ringing", "rung"}, g[p] \in {"ringing", "rung"}
      PROVE  Cardinality(PublishersOf(g)) = Cardinality(PublishersOf(f)) + 1
  <2>1. PublishersOf(g) = PublishersOf(f) \cup {p} /\ p \notin PublishersOf(f)
    BY <1>3 DEF PublishersOf
  <2> HIDE DEF PublishersOf
  <2> QED BY <1>1, <2>1, FS_AddElement
<1>4. ASSUME f[p] \in {"ringing", "rung"}, g[p] \notin {"ringing", "rung"}
      PROVE  Cardinality(PublishersOf(g)) = Cardinality(PublishersOf(f)) - 1
  <2>1. PublishersOf(g) = PublishersOf(f) \ {p} /\ p \in PublishersOf(f)
    BY <1>4 DEF PublishersOf
  <2> HIDE DEF PublishersOf
  <2> QED BY <1>1, <2>1, FS_RemoveElement
<1>5. ASSUME f[p] \in {"ringing", "rung"} <=> g[p] \in {"ringing", "rung"}
      PROVE  PublishersOf(g) = PublishersOf(f)
  BY <1>5 DEF PublishersOf
<1> QED BY <1>2, <1>3, <1>4, <1>5

\* The count follows every producer through its two critical sections.
LEMMA CountedStep == Typed /\ Counted /\ [Next]_vars => Counted'
<1> SUFFICES ASSUME Typed, Counted, [Next]_vars PROVE Counted'
  OBVIOUS
<1> USE DEF Counted, Typed, QueueTyped, Places, queueVars, poolVars, callerVars, historyVars
<1>1. ASSUME NEW p \in Producers, ProducerStep(p) PROVE Counted'
  <2>1. \A q \in Producers \ {p} : producer'[q] = producer[q]
    BY <1>1 DEF ProducerStep, ProducerSteps, Submit, Rejected, Ring, Published, ProducerGoes
  <2>2. CASE Submit(p) /\ MustRing
    <3>1. publishing' = publishing + 1 /\ producer[p] = "idle" /\ producer'[p] = "ringing"
      BY <2>2 DEF Submit, ProducerGoes
    <3> QED BY <2>1, <3>1, PublishersCounted
  <2>3. CASE Submit(p) /\ ~MustRing
    <3>1. publishing' = publishing /\ producer' = producer
      BY <2>3 DEF Submit, ProducerGoes
    <3> QED BY <3>1 DEF PublishersOf
  <2>4. CASE Rejected(p) \/ Ring(p)
    <3>1. /\ publishing' = publishing
          /\ producer[p] \in {"ringing", "rung"} <=> producer'[p] \in {"ringing", "rung"}
      BY <2>4 DEF Rejected, Ring, ProducerGoes
    <3> QED BY <2>1, <3>1, PublishersCounted
  <2>5. CASE Published(p)
    <3>1. publishing' = publishing - 1 /\ producer[p] = "rung" /\ producer'[p] = "idle"
      BY <2>5 DEF Published, ProducerGoes
    <3> QED BY <2>1, <3>1, PublishersCounted
  <2> QED BY <1>1, <2>2, <2>3, <2>4, <2>5 DEF ProducerStep, ProducerSteps
<1>2. ASSUME publishing' = publishing, producer' = producer PROVE Counted'
  BY <1>2 DEF PublishersOf
<1>3. ASSUME NEW w \in Workers, Start(w) \/ WorkerSteps(w) PROVE Counted'
  BY <1>2, <1>3 DEF WorkerSteps, Start, Pop, Handled, DrainEnds, Returns
<1>4. ASSUME NEW c \in Closers, CloserStep(c) PROVE Counted'
  BY <1>2, <1>4 DEF CloserStep, CloserSteps, ShutDown, Wakes, WakesUnasked, Cancels, ShutDownReturns
<1>5. ASSUME NEW q \in Quiescers, QuiescerStep(q) PROVE Counted'
  BY <1>2, <1>5 DEF QuiescerStep, Quiesce, QuiesceReturns
<1>6. CASE UNCHANGED vars
  BY <1>2, <1>6 DEF vars
<1> QED BY <1>1, <1>3, <1>4, <1>5, <1>6, Kinds

\* Where nothing is counted nobody publishes.
LEMMA NobodyPublishes == Counted /\ publishing <= 0 => Publishers = {}
<1> SUFFICES ASSUME Counted, publishing <= 0 PROVE Publishers = {}
  OBVIOUS
<1>1. Publishers = PublishersOf(producer)
  BY DEF Publishers, PublishersOf
<1>2. IsFiniteSet(PublishersOf(producer))
  BY FS_Subset, ServicerAssumption DEF PublishersOf
<1>3. Cardinality(PublishersOf(producer)) = 0
  BY <1>2, FS_CardinalityType DEF Counted
<1> QED BY <1>1, <1>2, <1>3, FS_EmptySet

\* The token is taken when the flag is idle, handed on, and put down with the flag.
LEMMA OneTokenStep == Typed /\ OneToken /\ [Next]_vars => OneToken'
<1> SUFFICES ASSUME Typed, OneToken, [Next]_vars PROVE OneToken'
  OBVIOUS
<1> USE DEF OneToken, Ringing, Draining, Typed, QueueTyped, Places, queueVars, poolVars,
   callerVars, historyVars
<1>1. ASSUME NEW p \in Producers, ProducerStep(p) PROVE OneToken'
  <2>1. CASE Submit(p)
    BY <2>1 DEF Submit, MustRing, ProducerGoes
  <2>2. CASE Rejected(p)
    BY <2>2 DEF Rejected, ProducerGoes
  <2>3. CASE Ring(p)
    BY <2>3 DEF Ring, ProducerGoes
  <2>4. CASE Published(p)
    BY <2>4 DEF Published, ProducerGoes, Notified
  <2> QED BY <1>1, <2>1, <2>2, <2>3, <2>4 DEF ProducerStep, ProducerSteps
<1>2. ASSUME NEW w \in Workers, Start(w) \/ WorkerSteps(w) PROVE OneToken'
  <2>1. CASE Start(w)
    BY <2>1 DEF Start, WorkerGoes
  <2>2. CASE Pop(w)
    BY <2>2 DEF Pop, WorkerGoes
  <2>3. CASE Handled(w)
    BY <2>3 DEF Handled, WorkerGoes
  <2>4. CASE DrainEnds(w)
    BY <2>4 DEF DrainEnds, WorkerGoes
  <2>5. CASE Returns(w)
    BY <2>5 DEF Returns, WorkerGoes
  <2> QED BY <1>2, <2>1, <2>2, <2>3, <2>4, <2>5 DEF WorkerSteps
<1>3. ASSUME NEW c \in Closers, CloserStep(c) PROVE OneToken'
  <2>1. CASE ShutDown(c)
    BY <2>1 DEF ShutDown, CloserGoes, WaitsForPublishers
  <2>2. CASE Wakes(c) \/ WakesUnasked(c)
    BY <2>2 DEF Wakes, CloserGoes, WaitsForPublishers, WakesUnasked
  <2>3. CASE Cancels(c)
    BY <2>3 DEF Cancels, CloserGoes
  <2>4. CASE ShutDownReturns(c)
    BY <2>4 DEF ShutDownReturns, CloserGoes
  <2> QED BY <1>3, <2>1, <2>2, <2>3, <2>4 DEF CloserStep, CloserSteps
<1>4. ASSUME NEW q \in Quiescers, QuiescerStep(q) PROVE OneToken'
  BY <1>4 DEF QuiescerStep, Quiesce, QuiesceReturns
<1>5. CASE UNCHANGED vars
  BY <1>5 DEF vars
<1> QED BY <1>1, <1>2, <1>3, <1>4, <1>5, Kinds

\* What shut_down has established stays.
LEMMA ClosedStep == Typed /\ Counted /\ ClosedForGood /\ [Next]_vars => ClosedForGood'
<1> SUFFICES ASSUME Typed, Counted, ClosedForGood, [Next]_vars PROVE ClosedForGood'
  OBVIOUS
<1> USE NobodyPublishes DEF ClosedForGood, Publishers, Quiet, Typed, QueueTyped, Places,
   queueVars, poolVars, callerVars, historyVars
<1>1. ASSUME NEW p \in Producers, ProducerStep(p) PROVE ClosedForGood'
  <2>1. CASE Submit(p)
    BY <2>1 DEF Submit, MustRing, ProducerGoes
  <2>2. CASE Rejected(p)
    BY <2>2 DEF Rejected, ProducerGoes
  <2>3. CASE Ring(p)
    BY <2>3 DEF Ring, ProducerGoes
  <2>4. CASE Published(p)
    BY <2>4 DEF Published, ProducerGoes, Notified
  <2> QED BY <1>1, <2>1, <2>2, <2>3, <2>4 DEF ProducerStep, ProducerSteps
<1>2. ASSUME NEW w \in Workers, Start(w) \/ WorkerSteps(w) PROVE ClosedForGood'
  <2>1. CASE Start(w)
    BY <2>1 DEF Start, WorkerGoes
  <2>2. CASE Pop(w)
    BY <2>2 DEF Pop, WorkerGoes
  <2>3. CASE Handled(w)
    BY <2>3 DEF Handled, WorkerGoes
  <2>4. CASE DrainEnds(w)
    BY <2>4 DEF DrainEnds, WorkerGoes
  <2>5. CASE Returns(w)
    BY <2>5 DEF Returns, WorkerGoes
  <2> QED BY <1>2, <2>1, <2>2, <2>3, <2>4, <2>5 DEF WorkerSteps
<1>3. ASSUME NEW c \in Closers, CloserStep(c) PROVE ClosedForGood'
  <2>1. CASE ShutDown(c)
    BY <2>1 DEF ShutDown, CloserGoes, WaitsForPublishers
  <2>2. CASE Wakes(c) \/ WakesUnasked(c)
    BY <2>2 DEF Wakes, CloserGoes, WaitsForPublishers, WakesUnasked
  <2>3. CASE Cancels(c)
    BY <2>3 DEF Cancels, CloserGoes
  <2>4. CASE ShutDownReturns(c)
    BY <2>4 DEF ShutDownReturns, CloserGoes
  <2> QED BY <1>3, <2>1, <2>2, <2>3, <2>4 DEF CloserStep, CloserSteps
<1>4. ASSUME NEW q \in Quiescers, QuiescerStep(q) PROVE ClosedForGood'
  BY <1>4 DEF QuiescerStep, Quiesce, QuiesceReturns
<1>5. CASE UNCHANGED vars
  BY <1>5 DEF vars
<1> QED BY <1>1, <1>2, <1>3, <1>4, <1>5, Kinds

\* Nobody puts the token down while requests wait.
LEMMA OwedStep == Typed /\ OneToken /\ ClosedForGood /\ FlagIsOwed /\ [Next]_vars => FlagIsOwed'
<1> SUFFICES ASSUME Typed, OneToken, ClosedForGood, FlagIsOwed, [Next]_vars PROVE FlagIsOwed'
  OBVIOUS
<1> USE DEF FlagIsOwed, ClosedForGood, OneToken, Ringing, Draining, Typed, QueueTyped, Places,
   queueVars, poolVars, callerVars, historyVars
<1>1. ASSUME NEW p \in Producers, ProducerStep(p) PROVE FlagIsOwed'
  <2>1. CASE Submit(p)
    BY <2>1 DEF Submit, MustRing, ProducerGoes
  <2>2. CASE Rejected(p)
    BY <2>2 DEF Rejected, ProducerGoes
  <2>3. CASE Ring(p)
    BY <2>3 DEF Ring, ProducerGoes
  <2>4. CASE Published(p)
    BY <2>4 DEF Published, ProducerGoes, Notified
  <2> QED BY <1>1, <2>1, <2>2, <2>3, <2>4 DEF ProducerStep, ProducerSteps
<1>2. ASSUME NEW w \in Workers, Start(w) \/ WorkerSteps(w) PROVE FlagIsOwed'
  <2>1. CASE Start(w)
    BY <2>1 DEF Start, WorkerGoes
  <2>2. CASE Pop(w)
    BY <2>2 DEF Pop, WorkerGoes
  <2>3. CASE Handled(w)
    BY <2>3 DEF Handled, WorkerGoes
  <2>4. CASE DrainEnds(w)
    BY <2>4 DEF DrainEnds, WorkerGoes
  <2>5. CASE Returns(w)
    BY <2>5 DEF Returns, WorkerGoes
  <2> QED BY <1>2, <2>1, <2>2, <2>3, <2>4, <2>5 DEF WorkerSteps
<1>3. ASSUME NEW c \in Closers, CloserStep(c) PROVE FlagIsOwed'
  <2>1. CASE ShutDown(c)
    BY <2>1 DEF ShutDown, CloserGoes, WaitsForPublishers
  <2>2. CASE Wakes(c) \/ WakesUnasked(c)
    BY <2>2 DEF Wakes, CloserGoes, WaitsForPublishers, WakesUnasked
  <2>3. CASE Cancels(c)
    BY <2>3 DEF Cancels, CloserGoes
  <2>4. CASE ShutDownReturns(c)
    BY <2>4 DEF ShutDownReturns, CloserGoes
  <2> QED BY <1>3, <2>1, <2>2, <2>3, <2>4 DEF CloserStep, CloserSteps
<1>4. ASSUME NEW q \in Quiescers, QuiescerStep(q) PROVE FlagIsOwed'
  BY <1>4 DEF QuiescerStep, Quiesce, QuiesceReturns
<1>5. CASE UNCHANGED vars
  BY <1>5 DEF vars
<1> QED BY <1>1, <1>2, <1>3, <1>4, <1>5, Kinds

\* Requests leave the queue from the front and one at a time.
LEMMA InOrderStep == Typed /\ InHand /\ OneToken /\ ClosedForGood /\ InOrder /\ [Next]_vars => InOrder'
<1> SUFFICES ASSUME Typed, InHand, OneToken, ClosedForGood, InOrder, [Next]_vars PROVE InOrder'
  OBVIOUS
<1> USE ServicerAssumption DEF InOrder, InHand, ClosedForGood, Typed, QueueTyped, Numbers,
   Places, queueVars, poolVars, callerVars, historyVars
<1>1. ASSUME NEW p \in Producers, ProducerStep(p) PROVE InOrder'
  <2>1. CASE Submit(p)
    BY <2>1 DEF Submit, MustRing, ProducerGoes
  <2>2. CASE Rejected(p)
    BY <2>2 DEF Rejected, ProducerGoes
  <2>3. CASE Ring(p)
    BY <2>3 DEF Ring, ProducerGoes
  <2>4. CASE Published(p)
    BY <2>4 DEF Published, ProducerGoes, Notified
  <2> QED BY <1>1, <2>1, <2>2, <2>3, <2>4 DEF ProducerStep, ProducerSteps
<1>2. ASSUME NEW w \in Workers, Start(w) \/ WorkerSteps(w) PROVE InOrder'
  <2>1. CASE Start(w)
    BY <2>1 DEF Start, WorkerGoes
  <2>2. CASE Pop(w)
    <3>1. /\ items # << >> /\ items' = Tail(items) /\ worker[w] = "draining"
          /\ worker' = [worker EXCEPT ![w] = "handling"]
          /\ handling' = [handling EXCEPT ![w] = Head(items)]
          /\ closed' = closed /\ accepted' = accepted /\ served' = served
      BY <2>2 DEF Pop, WorkerGoes
    <3>2. ~closed
      BY <3>1 DEF ClosedForGood
    <3>3. \A x \in Workers : worker[x] # "handling"
      BY <3>1 DEF OneToken, Draining
    <3>4. served = 1 .. (accepted - Len(items))
      BY <3>2, <3>3
    <3>5. Head(items) = (accepted - Len(items)) + 1
      BY <3>1
    <3>6. Len(items') = Len(items) - 1 /\ \A i \in 1 .. Len(items') : items'[i] = items[i + 1]
      BY <3>1
    <3>7. \A i \in 1 .. Len(items') : items'[i] = (accepted' - Len(items')) + i
      <4> SUFFICES ASSUME NEW i \in 1 .. Len(items') PROVE items'[i] = (accepted' - Len(items')) + i
        OBVIOUS
      <4>1. i + 1 \in 1 .. Len(items) /\ items'[i] = items[i + 1]
        BY <3>6
      <4>2. items[i + 1] = (accepted - Len(items)) + (i + 1)
        BY <4>1
      <4> QED BY <4>1, <4>2, <3>1, <3>6
    <3>8. worker'[w] = "handling" /\ \A x \in Workers : worker'[x] = "handling" => x = w
      BY <3>1, <3>3
    <3>9. handling'[w] = (accepted - Len(items)) + 1
      BY <3>1, <3>5
    <3>10. served' = 1 .. (handling'[w] - 1)
      BY <3>1, <3>4, <3>9
    <3>11. handling'[w] = accepted' - Len(items')
      BY <3>1, <3>6, <3>9
    <3> QED BY <3>7, <3>8, <3>10, <3>11
  <2>3. CASE Handled(w)
    <3>1. /\ worker[w] = "handling" /\ worker' = [worker EXCEPT ![w] = "draining"]
          /\ served' = served \cup {handling[w]}
          /\ items' = items /\ closed' = closed /\ accepted' = accepted
      BY <2>3 DEF Handled, WorkerGoes
    <3>2. \A x \in Workers : worker'[x] # "handling"
      BY <3>1 DEF OneToken, Draining
    <3>3. served = 1 .. (handling[w] - 1) /\ handling[w] \in Nat /\ handling[w] > 0
      BY <3>1
    <3>4. served' = 1 .. handling[w]
      BY <3>1, <3>3
    <3>5. ~closed => handling[w] = accepted - Len(items)
      BY <3>1
    <3>6. \A i \in 1 .. Len(items') : items'[i] = (accepted' - Len(items')) + i
      BY <3>1
    <3>7. ~closed' => served' = 1 .. (accepted' - Len(items'))
      BY <3>1, <3>4, <3>5
    <3> QED BY <3>2, <3>6, <3>7
  <2>4. CASE DrainEnds(w)
    BY <2>4 DEF DrainEnds, WorkerGoes
  <2>5. CASE Returns(w)
    BY <2>5 DEF Returns, WorkerGoes
  <2> QED BY <1>2, <2>1, <2>2, <2>3, <2>4, <2>5 DEF WorkerSteps
<1>3. ASSUME NEW c \in Closers, CloserStep(c) PROVE InOrder'
  <2>1. CASE ShutDown(c)
    BY <2>1 DEF ShutDown, CloserGoes, WaitsForPublishers
  <2>2. CASE Wakes(c) \/ WakesUnasked(c)
    BY <2>2 DEF Wakes, CloserGoes, WaitsForPublishers, WakesUnasked
  <2>3. CASE Cancels(c)
    BY <2>3 DEF Cancels, CloserGoes
  <2>4. CASE ShutDownReturns(c)
    BY <2>4 DEF ShutDownReturns, CloserGoes
  <2> QED BY <1>3, <2>1, <2>2, <2>3, <2>4 DEF CloserStep, CloserSteps
<1>4. ASSUME NEW q \in Quiescers, QuiescerStep(q) PROVE InOrder'
  BY <1>4 DEF QuiescerStep, Quiesce, QuiesceReturns
<1>5. CASE UNCHANGED vars
  BY <1>5 DEF vars
<1> QED BY <1>1, <1>2, <1>3, <1>4, <1>5, Kinds

\* The invariant holds initially.
LEMMA IInvInit == Init => IInv
<1> SUFFICES ASSUME Init PROVE IInv
  OBVIOUS
<1> USE ServicerAssumption DEF Init, None
<1>1. Flag
  BY Zenon DEF Flag
<1>2. QueueTyped /\ Places /\ InHand
  BY DEF QueueTyped, Places, InHand
<1>3. Numbers
  BY DEF Numbers
<1>4. Counted
  <2>1. PublishersOf(producer) = {}
    BY DEF PublishersOf
  <2> QED BY <2>1, FS_EmptySet DEF Counted
<1>5. OneToken /\ FlagIsOwed
  BY DEF OneToken, FlagIsOwed, Ringing, Draining
<1>6. InOrder
  BY DEF InOrder
<1>7. ClosedForGood
  BY DEF ClosedForGood
<1> QED BY <1>1, <1>2, <1>3, <1>4, <1>5, <1>6, <1>7 DEF IInv, Typed

\* Every step preserves the invariant.
LEMMA IInvStep == IInv /\ [Next]_vars => IInv'
<1> SUFFICES ASSUME IInv, [Next]_vars PROVE IInv'
  OBVIOUS
<1>1. accepted \in 0 .. MaxRequests
  BY DEF IInv, Typed, Numbers
<1>2. Typed'
  BY <1>1, FlagStep, QueueTypedStep, NumbersStep, PlacesStep DEF IInv, Typed
<1>3. InHand' /\ Counted' /\ OneToken' /\ ClosedForGood' /\ FlagIsOwed' /\ InOrder'
  BY InHandStep, CountedStep, OneTokenStep, ClosedStep, OwedStep, InOrderStep DEF IInv
<1> QED BY <1>2, <1>3 DEF IInv

\* The inductive invariant of the request queue (servicing.rs).
THEOREM Inductive == Spec => []IInv
BY IInvInit, IInvStep, PTL DEF Spec

\* Every variable keeps its type, no two submissions are outstanding and `publishing` is the
\* number of producers between the queue lock and the end of `submit` (servicing.rs:80).
THEOREM TypeCorrect == Spec => []TypeOK
<1>1. IInv => TypeOK
  <2> SUFFICES ASSUME IInv PROVE TypeOK
    OBVIOUS
  <2>1. publishing = Cardinality(Publishers)
    BY DEF IInv, Counted, Publishers, PublishersOf
  <2>2. queued \in 0 .. 1
    BY DEF IInv, Typed, QueueTyped, OneToken
  <2> QED BY <2>1, <2>2 DEF IInv, Typed, QueueTyped, Numbers, Places, Flag, TypeOK
<1> QED BY <1>1, Inductive, PTL

\* Handlers run one at a time and in submission order (servicing.rs:172), for any number of
\* producers and of pool threads.
THEOREM SerialInOrder == Spec => []OneAtATimeInOrder
<1>1. IInv => OneAtATimeInOrder
  BY DEF IInv, InOrder, OneAtATimeInOrder
<1> QED BY <1>1, Inductive, PTL

\* Coalescing never loses a ring: a request that waits is owed a drain (servicing.rs:224).
THEOREM NoLostRing == Spec => []WaitingIsOwed
<1>1. IInv => WaitingIsOwed
  BY DEF IInv, FlagIsOwed, ClosedForGood, WaitingIsOwed
<1> QED BY <1>1, Inductive, PTL

\* After shut_down returns no handler executes or can start (servicing.rs:255), however many
\* producers were between the lock and the pool when it was called.
THEOREM ShutDownIsFinal == Spec => []DownIsFinal
<1>1. IInv => DownIsFinal
  BY DEF IInv, ClosedForGood, DownIsFinal
<1> QED BY <1>1, Inductive, PTL
=============================================================================
