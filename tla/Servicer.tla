------------------------------ MODULE Servicer ------------------------------
(***************************************************************************)
(* The request queue of the file-change monitor (windows-file-watcher:     *)
(* servicing.rs).  Producers enqueue requests under a lock and ring, that  *)
(* is submit one ThreadpoolWork, only when no drain is outstanding; the    *)
(* ring itself happens after the lock is released.  A drain runs on a pool *)
(* thread and applies the handler to every request until none is left.    *)
(* shut_down closes the queue, waits for the producers caught between the  *)
(* lock and the ring, cancels and waits for the work.                      *)
(*                                                                         *)
(* A request is the number of its acceptance: the first is 1.  Every step  *)
(* is one critical section of the queue lock or one call of the pool.      *)
(* The pool is external: it runs one callback per submission, on any of    *)
(* its threads, and two callbacks of one object may run at once.           *)
(***************************************************************************)
EXTENDS Integers, Sequences, FiniteSets

CONSTANTS Producers,        \* threads that call `submit`
          Workers,          \* pool threads
          Closers,          \* threads that call `shut_down`; `Drop` is one
          Quiescers,        \* threads that call `quiesce`
          MaxRequests       \* bound: requests accepted

ASSUME ServicerAssumption == MaxRequests \in Nat /\ IsFiniteSet(Producers)

VARIABLES items, drain, closed, publishing,   \* struct Queue
          queued,           \* submissions the pool has not started
          worker,           \* where each pool thread is ...
          handling,         \* ... and the request its handler is applied to
          producer, closer, quiescer,         \* where each caller is
          request,          \* the request each producer's `submit` is about
          accepted,         \* history: requests accepted so far
          served,           \* history: requests whose handler returned
          discarded,        \* history: requests shut_down threw away
          submitted,        \* history: requests whose `submit` has returned
          asked             \* history: `submitted` when quiesce was called

queueVars == <<items, drain, closed, publishing>>
poolVars == <<queued, worker, handling>>
callerVars == <<producer, request, closer, quiescer>>
historyVars == <<accepted, served, discarded, submitted, asked>>
vars == <<queueVars, poolVars, callerVars, historyVars>>

None == 0                   \* no request

Init ==
  /\ items = << >> /\ drain = "idle" /\ closed = FALSE /\ publishing = 0
  /\ queued = 0
  /\ worker = [w \in Workers |-> "none"] /\ handling = [w \in Workers |-> None]
  /\ producer = [p \in Producers |-> "idle"] /\ request = [p \in Producers |-> None]
  /\ closer = [c \in Closers |-> "idle"]
  /\ quiescer = [q \in Quiescers |-> "idle"]
  /\ accepted = 0 /\ served = {} /\ discarded = {} /\ submitted = {}
  /\ asked = [q \in Quiescers |-> {}]

ProducerGoes(p, from, to) == producer[p] = from /\ producer' = [producer EXCEPT ![p] = to]

CloserGoes(c, from, to) == closer[c] = from /\ closer' = [closer EXCEPT ![c] = to]

WorkerGoes(w, from, to) == worker[w] = from /\ worker' = [worker EXCEPT ![w] = to]

\* What WaitForThreadpoolWorkCallbacks waits for.
Quiet == queued = 0 /\ \A w \in Workers : worker[w] = "none"

-----------------------------------------------------------------------------
(* submit                                                                  *)

\* Mutant: the queue's own edge instead of the drain's.
MustRingWhenEmpty == items = << >>

\* Whether this enqueue must ring.
MustRing == drain = "idle"

\* The first critical section.  Only the producer that rings has more to do.
Submit(p) ==
  /\ ~closed /\ accepted < MaxRequests
  /\ accepted' = accepted + 1
  /\ items' = Append(items, accepted')
  /\ drain' = "scheduled"
  /\ \/ /\ MustRing
        /\ ProducerGoes(p, "idle", "ringing")
        /\ publishing' = publishing + 1
        /\ request' = [request EXCEPT ![p] = accepted']
        /\ UNCHANGED submitted
     \/ /\ ~MustRing
        /\ ProducerGoes(p, "idle", "idle")
        /\ submitted' = submitted \cup {accepted'}
        /\ UNCHANGED <<publishing, request>>
  /\ UNCHANGED <<closed, poolVars, closer, quiescer, served, discarded, asked>>

\* A closed queue hands the request back.
Rejected(p) ==
  /\ closed
  /\ ProducerGoes(p, "idle", "rejected")
  /\ UNCHANGED <<queueVars, poolVars, request, closer, quiescer, historyVars>>

\* ThreadpoolWork::submit, outside the lock.
Ring(p) ==
  /\ ProducerGoes(p, "ringing", "rung")
  /\ queued' = queued + 1
  /\ UNCHANGED <<queueVars, worker, handling, request, closer, quiescer, historyVars>>

\* Mutant: the last publisher forgets to notify.
NotifiesNobody == closer

\* `notify_all`: every sleeper on `published` runs again.
Notified == [c \in Closers |-> IF closer[c] = "asleep" THEN "woken" ELSE closer[c]]

\* The second critical section.
Published(p) ==
  /\ ProducerGoes(p, "rung", "idle")
  /\ publishing' = publishing - 1
  /\ closer' = IF publishing' = 0 THEN Notified ELSE closer
  /\ submitted' = submitted \cup {request[p]}
  /\ request' = [request EXCEPT ![p] = None]
  /\ UNCHANGED <<items, drain, closed, poolVars, quiescer, accepted, served, discarded, asked>>

-----------------------------------------------------------------------------
(* drain, on a pool thread                                                 *)

\* The pool starts a submission.
Start(w) ==
  /\ queued > 0
  /\ WorkerGoes(w, "none", "draining")
  /\ queued' = queued - 1
  /\ UNCHANGED <<queueVars, handling, callerVars, historyVars>>

\* A request is taken under the lock, and handled outside it.
Pop(w) ==
  /\ items # << >>
  /\ WorkerGoes(w, "draining", "handling")
  /\ handling' = [handling EXCEPT ![w] = Head(items)]
  /\ items' = Tail(items)
  /\ UNCHANGED <<drain, closed, publishing, queued, callerVars, historyVars>>

\* Mutant: one request per ring.
HandledOne(w) ==
  /\ WorkerGoes(w, "handling", "returning")
  /\ served' = served \cup {handling[w]}
  /\ handling' = [handling EXCEPT ![w] = None]
  /\ drain' = "idle"
  /\ UNCHANGED <<items, closed, publishing, queued, callerVars, accepted, discarded, submitted, asked>>

\* The handler returns and the loop goes round.
Handled(w) ==
  /\ WorkerGoes(w, "handling", "draining")
  /\ served' = served \cup {handling[w]}
  /\ handling' = [handling EXCEPT ![w] = None]
  /\ UNCHANGED <<queueVars, queued, callerVars, accepted, discarded, submitted, asked>>

\* Nothing is left: the flag is the last thing the drain touches.
DrainEnds(w) ==
  /\ items = << >>
  /\ WorkerGoes(w, "draining", "returning")
  /\ drain' = "idle"
  /\ UNCHANGED <<items, closed, publishing, queued, handling, callerVars, historyVars>>

\* The callback returns to the pool.
Returns(w) ==
  /\ WorkerGoes(w, "returning", "none")
  /\ UNCHANGED <<queueVars, queued, handling, callerVars, historyVars>>

-----------------------------------------------------------------------------
(* shut_down and quiesce                                                   *)

\* Mutant: the producers between the lock and the ring are forgotten.
NeverWaits == "cancelling"

\* Where the caller goes that finds the lock free: asleep while anyone publishes.
WaitsForPublishers == IF publishing > 0 THEN "asleep" ELSE "cancelling"

\* The queue is closed and emptied in the critical section that looks for publishers.
ShutDown(c) ==
  /\ CloserGoes(c, "idle", WaitsForPublishers)
  /\ closed' = TRUE
  /\ discarded' = discarded \cup {items[i] : i \in 1 .. Len(items)}
  /\ items' = << >>
  /\ UNCHANGED <<drain, publishing, poolVars, producer, request, quiescer, accepted, served,
                 submitted, asked>>

\* A sleeper that was notified has the lock again ...
Wakes(c) ==
  /\ CloserGoes(c, "woken", WaitsForPublishers)
  /\ UNCHANGED <<queueVars, poolVars, producer, request, quiescer, historyVars>>

\* ... and so may one that was not: a condition variable wakes spuriously.
WakesUnasked(c) ==
  /\ CloserGoes(c, "asleep", WaitsForPublishers)
  /\ UNCHANGED <<queueVars, poolVars, producer, request, quiescer, historyVars>>

\* cancel_pending: what has not started never will ...
Cancels(c) ==
  /\ CloserGoes(c, "cancelling", "waiting")
  /\ queued' = 0
  /\ UNCHANGED <<queueVars, worker, handling, producer, request, quiescer, historyVars>>

\* ... and what has started is waited for.
ShutDownReturns(c) ==
  /\ Quiet
  /\ CloserGoes(c, "waiting", "down")
  /\ UNCHANGED <<queueVars, poolVars, producer, request, quiescer, historyVars>>

Quiesce(q) ==
  /\ quiescer[q] = "idle"
  /\ quiescer' = [quiescer EXCEPT ![q] = "waiting"]
  /\ asked' = [asked EXCEPT ![q] = submitted]
  /\ UNCHANGED <<queueVars, poolVars, producer, request, closer, accepted, served, discarded,
                 submitted>>

QuiesceReturns(q) ==
  /\ Quiet
  /\ quiescer[q] = "waiting"
  /\ quiescer' = [quiescer EXCEPT ![q] = "returned"]
  /\ UNCHANGED <<queueVars, poolVars, producer, request, closer, historyVars>>

-----------------------------------------------------------------------------
ProducerSteps(p) == Ring(p) \/ Published(p)

WorkerSteps(w) == Pop(w) \/ Handled(w) \/ DrainEnds(w) \/ Returns(w)

CloserSteps(c) == Wakes(c) \/ Cancels(c) \/ ShutDownReturns(c)

Next ==
  \/ \E p \in Producers : Submit(p) \/ Rejected(p) \/ ProducerSteps(p)
  \/ \E w \in Workers : Start(w) \/ WorkerSteps(w)
  \/ \E c \in Closers : ShutDown(c) \/ WakesUnasked(c) \/ CloserSteps(c)
  \/ \E q \in Quiescers : Quiesce(q) \/ QuiesceReturns(q)

Spec == Init /\ [][Next]_vars

\* A thread that is inside a call goes on; the pool starts what was submitted and
\* handlers return.  Nobody has to call anything.
Fairness ==
  /\ \A p \in Producers : WF_vars(ProducerSteps(p))
  /\ \A w \in Workers : WF_vars(WorkerSteps(w))
  /\ WF_vars(\E w \in Workers : Start(w))
  /\ \A c \in Closers : WF_vars(CloserSteps(c))

FairSpec == Spec /\ Fairness

-----------------------------------------------------------------------------
(* Properties                                                              *)

Ringing == {p \in Producers : producer[p] = "ringing"}

Publishers == {p \in Producers : producer[p] \in {"ringing", "rung"}}

Draining == {w \in Workers : worker[w] \in {"draining", "handling"}}

\* Type correctness: a request in hand is a request that was accepted, the pool never
\* holds two submissions, and `publishing` is the number of producers it stands for.
TypeOK ==
  /\ items \in Seq(1 .. MaxRequests)
  /\ drain \in {"idle", "scheduled"} /\ closed \in BOOLEAN
  /\ publishing = Cardinality(Publishers)
  /\ queued \in 0 .. 1
  /\ worker \in [Workers -> {"none", "draining", "handling", "returning"}]
  /\ handling \in [Workers -> 0 .. accepted]
  /\ producer \in [Producers -> {"idle", "ringing", "rung", "rejected"}]
  /\ request \in [Producers -> 0 .. accepted]
  /\ closer \in [Closers -> {"idle", "asleep", "woken", "cancelling", "waiting", "down"}]
  /\ quiescer \in [Quiescers -> {"idle", "waiting", "returned"}]
  /\ accepted \in 0 .. MaxRequests
  /\ served \subseteq 1 .. accepted /\ discarded \subseteq 1 .. accepted
  /\ submitted \subseteq 1 .. accepted
  /\ asked \in [Quiescers -> SUBSET (1 .. accepted)]

\* `handle` runs one call at a time, in submission order (servicing.rs:172): when a
\* handler is applied to a request, every earlier request is finished and no later one
\* has begun, although the callbacks of two rings may overlap.
OneAtATimeInOrder ==
  \A w \in Workers : worker[w] = "handling" => served = 1 .. (handling[w] - 1)

\* No lost ring: while requests wait, somebody is bound to drain them, a producer about
\* to ring, a submission in the pool or a drain that has still to look.
WaitingIsOwed ==
  items # << >> => Ringing # {} \/ queued > 0 \/ Draining # {}

\* After shut_down returns, no handler is executing or can start (servicing.rs:255),
\* whatever a producer was in the middle of.
DownIsFinal ==
  \A c \in Closers : closer[c] = "down" => Quiet /\ Publishers = {} /\ items = << >>

\* Every accepted request is handled, or discarded by shut_down.
Settles ==
  \A r \in 1 .. MaxRequests : r <= accepted ~> r \in served \cup discarded

\* shut_down returns, although it waits for publishers, for its own wake-up and for the drain.
ShutDownCompletes ==
  \A c \in Closers : closer[c] # "idle" ~> closer[c] = "down"

\* What a caller may count on in the end: its request is dealt with, its shutdown returns.
Completes == Settles /\ ShutDownCompletes

\* `quiesce`: "Block until every request submitted so far has been serviced"
\* (servicing.rs:311).
QuiesceServices ==
  \A q \in Quiescers : quiescer[q] = "returned" => asked[q] \subseteq served \cup discarded
=============================================================================
