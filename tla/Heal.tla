-------------------------------- MODULE Heal --------------------------------
(***************************************************************************)
(* The self-heal registry (windows-threadpool-sys: heal.rs).  A cancelled  *)
(* callback may sever its pool: nothing is dispatched any more until some  *)
(* work is submitted.  Each pool in use has an entry with a work object of *)
(* its own; a cancellation stamps the entry, a healer ticking on a thread  *)
(* of its own submits the work of every entry stamped since its last       *)
(* dispatch, and an entry nobody needs is retired.                         *)
(*                                                                         *)
(* One pool is modelled, with the entries it has in the course of time:    *)
(* entries of different pools share only the registry lock and the         *)
(* healer's thread.  A step is one atomic operation, one critical section  *)
(* of the registry lock, or one call of the system.                        *)
(***************************************************************************)
EXTENDS Integers, FiniteSets

CONSTANTS Objects,          \* objects on the pool, each with its own thread
          Workers,          \* the pool's threads
          Healer,           \* the healer's only thread
          OverdueAfter,     \* OVERDUE_AFTER, in ticks of the interrupt clock
          MaxEntries,       \* bound: entries the pool ever has
          MaxCancels,       \* bound: cancellations
          LastCancel,       \* bound: no cancellation after this instant
          MaxTime           \* bound: the last instant

ASSUME HealAssumption ==
  /\ OverdueAfter \in Nat \ {0} /\ MaxEntries \in Nat
  /\ MaxCancels \in Nat /\ LastCancel \in Nat /\ MaxTime \in Nat
  /\ IsFiniteSet(Objects) /\ IsFiniteSet(Workers)
  /\ Healer \notin Objects \cup Workers /\ Objects \cap Workers = {}

VARIABLES clock,            \* QueryInterruptTime
          severed,          \* the pool dispatches nothing until a submission
          registry, made,   \* the registry, and how many entries were ever made
          entry,            \* struct PoolEntry
          queued,           \* repairs submitted and not dispatched
          freed,            \* entries whose Drop has finished
          running,          \* ensure_running's RUNNING
          list, pass,       \* the healer's vector of entries, and what it is for
          live, claim,      \* the objects, and the entry of each Registration
          pc, hold, time,   \* per thread: place, entry at hand, clock reading
          cancels,          \* cancellations so far
          owed              \* history: per cancellation, the entry that owes a repair

poolVars == <<severed, queued>>
registryVars == <<registry, made>>
healerVars == <<running, list, pass>>
objectVars == <<live, claim>>
history == <<cancels, owed>>
vars == <<clock, poolVars, registryVars, entry, freed, healerVars, objectVars,
          pc, hold, time, history>>

Entries == 1 .. MaxEntries
None == 0                   \* no entry
Holders == Objects \cup {Healer}
Threads == Holders \cup Workers

NewEntry == [objects |-> 1, cancelled |-> 0, started |-> 0, submitted |-> 0,
             outstanding |-> 0, stuck |-> 0]

Init ==
  /\ clock = 1 /\ severed = FALSE /\ queued = [e \in Entries |-> 0]
  /\ registry = {} /\ made = 0 /\ entry = [e \in Entries |-> NewEntry] /\ freed = {}
  /\ running = FALSE /\ list = {} /\ pass = "scan"
  /\ live = [o \in Objects |-> FALSE] /\ claim = [o \in Objects |-> None]
  /\ pc = [t \in Threads |-> "idle"] /\ hold = [t \in Threads |-> None]
  /\ time = [t \in Threads |-> 0]
  /\ cancels = 0 /\ owed = [o \in Objects |-> None]

Goes(t, from, to) == pc[t] = from /\ pc' = [pc EXCEPT ![t] = to]

Later(a, b) == IF a < b THEN b ELSE a

-----------------------------------------------------------------------------
(* PoolEntry                                                               *)

\* Mutant: a dispatch in the same clock tick is taken for a later one.
UnhealedStrictly(cancelled, started) == cancelled # 0 /\ cancelled > started

\* PoolEntry::unhealed.
Unhealed(cancelled, started) == cancelled # 0 /\ cancelled >= started

InFlight(e) == entry[e].outstanding > 0

\* is_retirable, read under the registry lock.
Retirable(r) == r.objects = 0 /\ ~Unhealed(r.cancelled, r.started) /\ r.outstanding = 0

\* Mutant: an entry found is not counted again.
RegistersUncounted(e) ==
  \/ e \in registry /\ UNCHANGED <<entry, registryVars>>
  \/ /\ registry = {} /\ e = made + 1 /\ e \in Entries
     /\ entry' = [entry EXCEPT ![e] = NewEntry]
     /\ registry' = {e} /\ made' = e
  \/ registry = {} /\ e = None /\ UNCHANGED <<entry, registryVars>>

\* register: the pool's entry, a new one, or None when its work object cannot be
\* created; a found or new entry counts the caller.
Registers(e) ==
  \/ /\ e \in registry
     /\ entry' = [entry EXCEPT ![e].objects = @ + 1]
     /\ UNCHANGED registryVars
  \/ /\ registry = {} /\ e = made + 1 /\ e \in Entries
     /\ entry' = [entry EXCEPT ![e] = NewEntry]
     /\ registry' = {e} /\ made' = e
  \/ registry = {} /\ e = None /\ UNCHANGED <<entry, registryVars>>

-----------------------------------------------------------------------------
(* The objects: creation, cancellation and drop                            *)

Create(o) ==
  /\ pc[o] = "idle" /\ ~live[o]
  /\ \E e \in Entries \cup {None} : Registers(e) /\ claim' = [claim EXCEPT ![o] = e]
  /\ live' = [live EXCEPT ![o] = TRUE]
  /\ UNCHANGED <<clock, poolVars, freed, healerVars, pc, hold, time, history>>

\* The cancelling call has returned and may have severed the pool; owe_repair looks at
\* the object's registration.
Cancel(o) ==
  /\ live[o] /\ clock <= LastCancel /\ cancels < MaxCancels
  /\ cancels' = cancels + 1
  /\ Goes(o, "idle", IF claim[o] = None THEN "untracked" ELSE "reading")
  /\ hold' = [hold EXCEPT ![o] = claim[o]]
  /\ severed' \in {severed, TRUE}
  /\ UNCHANGED <<clock, queued, registryVars, entry, freed, healerVars, objectVars,
                 time, owed>>

\* Registration::owe_repair_untracked: one is made now, or the pool stays untracked.
OweRepairUntracked(o) ==
  /\ \E e \in Entries \cup {None} :
       /\ Registers(e) /\ hold' = [hold EXCEPT ![o] = e]
       /\ Goes(o, "untracked", IF e = None THEN "idle" ELSE "reading")
  /\ UNCHANGED <<clock, poolVars, freed, healerVars, objectVars, time, history>>

\* mark_and_arrange_repair: the clock is read ...
ReadCancelled(o) ==
  /\ Goes(o, "reading", "marking")
  /\ time' = [time EXCEPT ![o] = clock]
  /\ owed' = [owed EXCEPT ![o] = hold[o]]
  /\ UNCHANGED <<clock, poolVars, registryVars, entry, freed, healerVars, objectVars,
                 hold, cancels>>

\* fetch_max, the way every stamp is published.
Stamp(old, at) == Later(old, at)

\* ... and the reading published.
MarkCancelled(o) ==
  /\ Goes(o, "marking", "starting")
  /\ entry' = [entry EXCEPT ![hold[o]].cancelled = Stamp(@, time[o])]
  /\ time' = [time EXCEPT ![o] = 0]
  /\ UNCHANGED <<clock, poolVars, registryVars, freed, healerVars, objectVars, hold,
                 history>>

\* owe_repair returns; a registration made for it is dropped.
Returns(o, from) ==
  \/ /\ claim[o] = None
     /\ Goes(o, from, "releasing") /\ UNCHANGED hold
  \/ /\ claim[o] # None
     /\ Goes(o, from, "idle") /\ hold' = [hold EXCEPT ![o] = None]


\* Without a healer the canceller submits the repair itself.
WithoutHealer(o) == Goes(o, "starting", "submitting") /\ UNCHANGED hold

\* ensure_running, which may fail to build the healer.
EnsureRunning(o) ==
  /\ \/ running' = TRUE /\ Returns(o, "starting")
     \/ ~running /\ UNCHANGED running /\ WithoutHealer(o)
  /\ UNCHANGED <<clock, poolVars, registryVars, entry, freed, list, pass, objectVars,
                 time, history>>

\* The object goes, and its registration with it.
Close(o) ==
  /\ live[o]
  /\ Goes(o, "idle", IF claim[o] = None THEN "idle" ELSE "releasing")
  /\ live' = [live EXCEPT ![o] = FALSE]
  /\ hold' = [hold EXCEPT ![o] = claim[o]]
  /\ claim' = [claim EXCEPT ![o] = None]
  /\ UNCHANGED <<clock, poolVars, registryVars, entry, freed, healerVars, time,
                 history>>

\* release, under the registry lock; the references go after it.
Release(o) ==
  /\ Goes(o, "releasing", "dropping")
  /\ LET r == [entry[hold[o]] EXCEPT !.objects = @ - 1]
     IN  /\ entry' = [entry EXCEPT ![hold[o]] = r]
         /\ registry' = IF Retirable(r) THEN registry \ {hold[o]} ELSE registry
  /\ UNCHANGED <<clock, poolVars, made, freed, healerVars, objectVars, hold, time,
                 history>>

-----------------------------------------------------------------------------
(* submit_repair, by the healer or by a canceller without one              *)

ReadSubmitted(t) ==
  /\ Goes(t, "submitting", "stamping")
  /\ time' = [time EXCEPT ![t] = clock]
  /\ UNCHANGED <<clock, poolVars, registryVars, entry, freed, healerVars, objectVars,
                 hold, history>>

StampSubmitted(t) ==
  /\ Goes(t, "stamping", "counting")
  /\ entry' = [entry EXCEPT ![hold[t]].submitted = Stamp(@, time[t])]
  /\ time' = [time EXCEPT ![t] = 0]
  /\ UNCHANGED <<clock, poolVars, registryVars, freed, healerVars, objectVars, hold,
                 history>>

\* Mutant: the submission is stamped and not counted.
CountSubmittedForgets(t) ==
  /\ Goes(t, "counting", "handing")
  /\ UNCHANGED <<clock, poolVars, registryVars, entry, freed, healerVars, objectVars,
                 hold, time, history>>

CountSubmitted(t) ==
  /\ Goes(t, "counting", "handing")
  /\ entry' = [entry EXCEPT ![hold[t]].outstanding = @ + 1]
  /\ UNCHANGED <<clock, poolVars, registryVars, freed, healerVars, objectVars, hold,
                 time, history>>

\* SubmitThreadpoolWork, which releases a severed pool.
HandOver(t) ==
  /\ \/ t = Healer /\ Goes(t, "handing", "dropping") /\ UNCHANGED hold
     \/ t # Healer /\ Returns(t, "handing")
  /\ queued' = [queued EXCEPT ![hold[t]] = @ + 1]
  /\ severed' = FALSE
  /\ UNCHANGED <<clock, registryVars, entry, freed, healerVars, objectVars, time,
                 history>>

SubmitRepair(t) == ReadSubmitted(t) \/ StampSubmitted(t) \/ CountSubmitted(t) \/ HandOver(t)

-----------------------------------------------------------------------------
(* Dropping an Arc of an entry, and PoolEntry::drop                        *)

Referenced(e, t) ==
  \/ e \in registry \/ \E o \in Objects : claim[o] = e
  \/ \E u \in Holders \ {t} : hold[u] = e
  \/ t # Healer /\ e \in list

\* Where a thread goes on once its reference is gone.
AfterDrop(t) == IF t # Healer THEN "idle" ELSE IF pass = "scan" THEN "next" ELSE "reaping"

\* The last reference runs the drop, the others just go.
DropReference(t) ==
  /\ IF Referenced(hold[t], t)
       THEN Goes(t, "dropping", AfterDrop(t)) /\ hold' = [hold EXCEPT ![t] = None]
       ELSE Goes(t, "dropping", "draining") /\ UNCHANGED hold
  /\ UNCHANGED <<clock, poolVars, registryVars, entry, freed, healerVars, objectVars,
                 time, history>>

\* Mutant: the work object is closed without waiting for its callbacks.
QuietAlways(e) == TRUE

\* What WaitForThreadpoolWorkCallbacks waits for.
Quiet(e) == queued[e] = 0 /\ \A w \in Workers : hold[w] # e

Drain(t) ==
  /\ Goes(t, "draining", AfterDrop(t))
  /\ Quiet(hold[t])
  /\ freed' = freed \cup {hold[t]}
  /\ hold' = [hold EXCEPT ![t] = None]
  /\ UNCHANGED <<clock, poolVars, registryVars, entry, healerVars, objectVars, time,
                 history>>

-----------------------------------------------------------------------------
(* tick, on the healer's thread                                            *)

HealerMoves(from, to) ==
  /\ Goes(Healer, from, to)
  /\ UNCHANGED <<clock, poolVars, made, freed, running, objectVars, history>>

\* entries(): the references are cloned under the lock.
Tick ==
  /\ running
  /\ HealerMoves("idle", "next")
  /\ list' = registry /\ pass' = "scan"
  /\ UNCHANGED <<registry, entry, hold, time>>

\* unhealed loads the cancellation's stamp first ...
LookCancelled ==
  \E e \in list :
    /\ HealerMoves("next", "look")
    /\ list' = list \ {e}
    /\ hold' = [hold EXCEPT ![Healer] = e]
    /\ time' = [time EXCEPT ![Healer] = entry[e].cancelled]
    /\ UNCHANGED <<registry, entry, pass>>

\* ... and then the dispatch's.
LookStarted ==
  /\ HealerMoves("look", IF Unhealed(time[Healer], entry[hold[Healer]].started)
                           THEN "flight" ELSE "dropping")
  /\ time' = [time EXCEPT ![Healer] = 0]
  /\ UNCHANGED <<registry, entry, list, pass, hold>>

LookInFlight ==
  /\ \/ /\ HealerMoves("flight", "judging") /\ InFlight(hold[Healer])
        /\ time' = [time EXCEPT ![Healer] = clock]
     \/ HealerMoves("flight", "submitting") /\ ~InFlight(hold[Healer]) /\ UNCHANGED time
  /\ UNCHANGED <<registry, entry, list, pass, hold>>

\* repair_overdue, with the clock read before; a repair not overdue is left alone.
Judge ==
  LET e == hold[Healer]
      overdue == InFlight(e) /\ time[Healer] - entry[e].submitted >= OverdueAfter
  IN  /\ HealerMoves("judging", IF overdue THEN "submitting" ELSE "dropping")
      /\ entry' = IF overdue THEN [entry EXCEPT ![e].stuck = @ + 1] ELSE entry
      /\ time' = [time EXCEPT ![Healer] = 0]
      /\ UNCHANGED <<registry, list, pass, hold>>

\* retire_idle, under the registry lock.
RetireIdle ==
  LET idle == {e \in registry : Retirable(entry[e])}
  IN  /\ list = {}
      /\ HealerMoves("next", "reaping")
      /\ registry' = registry \ idle
      /\ list' = idle /\ pass' = "reap"
      /\ UNCHANGED <<entry, hold, time>>

Reap ==
  \/ \E e \in list :
       /\ HealerMoves("reaping", "dropping")
       /\ list' = list \ {e}
       /\ hold' = [hold EXCEPT ![Healer] = e]
       /\ UNCHANGED <<registry, entry, pass, time>>
  \/ /\ list = {}
     /\ HealerMoves("reaping", "idle")
     /\ UNCHANGED <<registry, entry, list, pass, hold, time>>

-----------------------------------------------------------------------------
(* repair_trampoline, on a thread of the pool                              *)

Dispatch(w) ==
  \E e \in Entries :
    /\ ~severed /\ queued[e] > 0
    /\ Goes(w, "idle", "entered")
    /\ queued' = [queued EXCEPT ![e] = @ - 1]
    /\ hold' = [hold EXCEPT ![w] = e]
    /\ UNCHANGED <<clock, severed, registryVars, entry, freed, healerVars, objectVars,
                   time, cancels, owed>>

\* A reading of the clock answers the cancellations whose own reading is behind it.
ReadStarted(w) ==
  /\ Goes(w, "entered", "started")
  /\ time' = [time EXCEPT ![w] = clock]
  /\ owed' = [o \in Objects |-> IF owed[o] = hold[w] THEN None ELSE owed[o]]
  /\ UNCHANGED <<clock, poolVars, registryVars, entry, freed, healerVars, objectVars,
                 hold, cancels>>

StampStarted(w) ==
  /\ Goes(w, "started", "lowering")
  /\ entry' = [entry EXCEPT ![hold[w]].started = Stamp(@, time[w])]
  /\ time' = [time EXCEPT ![w] = 0]
  /\ UNCHANGED <<clock, poolVars, registryVars, freed, healerVars, objectVars, hold,
                 history>>

\* note_repair_started, saturating.
Lower(w) ==
  /\ Goes(w, "lowering", "noting")
  /\ entry' = [entry EXCEPT ![hold[w]].outstanding = Later(0, @ - 1)]
  /\ UNCHANGED <<clock, poolVars, registryVars, freed, healerVars, objectVars, hold,
                 time, history>>

\* count_repair_run, and the callback returns.
NoteRun(w) ==
  /\ Goes(w, "noting", "idle")
  /\ entry' = [entry EXCEPT ![hold[w]].stuck = 0]
  /\ hold' = [hold EXCEPT ![w] = None]
  /\ UNCHANGED <<clock, poolVars, registryVars, freed, healerVars, objectVars, time,
                 history>>

TimePasses ==
  /\ clock < MaxTime
  /\ clock >= LastCancel => \A o \in Objects : pc[o] \notin {"untracked", "reading"}
  /\ clock' = clock + 1
  /\ UNCHANGED <<poolVars, registryVars, entry, freed, healerVars, objectVars, pc,
                 hold, time, history>>

-----------------------------------------------------------------------------
ObjectSteps(o) ==
  \/ OweRepairUntracked(o) \/ ReadCancelled(o) \/ MarkCancelled(o) \/ EnsureRunning(o)
  \/ Release(o) \/ SubmitRepair(o) \/ DropReference(o) \/ Drain(o)

HealerSteps ==
  \/ Tick \/ LookCancelled \/ LookStarted \/ LookInFlight \/ Judge \/ RetireIdle \/ Reap
  \/ SubmitRepair(Healer) \/ DropReference(Healer) \/ Drain(Healer)

WorkerSteps(w) ==
  Dispatch(w) \/ ReadStarted(w) \/ StampStarted(w) \/ Lower(w) \/ NoteRun(w)

Next ==
  \/ \E o \in Objects : Create(o) \/ Cancel(o) \/ Close(o) \/ ObjectSteps(o)
  \/ HealerSteps
  \/ \E w \in Workers : WorkerSteps(w)
  \/ TimePasses

Spec == Init /\ [][Next]_vars

\* Threads inside the code run on, the healer's timer ticks, an unsevered pool
\* dispatches and time passes.  Nobody has to create, cancel or close anything.
Fairness ==
  /\ \A o \in Objects : WF_vars(ObjectSteps(o))
  /\ WF_vars(HealerSteps) /\ WF_vars(TimePasses)
  /\ \A w \in Workers : WF_vars(WorkerSteps(w))

FairSpec == Spec /\ Fairness

-----------------------------------------------------------------------------
(* Properties                                                              *)

TypeOK ==
  /\ clock \in 1 .. Later(1, MaxTime) /\ severed \in BOOLEAN /\ queued \in [Entries -> Nat]
  /\ registry \subseteq Entries /\ made \in 0 .. MaxEntries /\ freed \subseteq Entries
  /\ entry \in [Entries -> [objects : Nat, cancelled : Nat, started : Nat, submitted : Nat,
                            outstanding : Nat, stuck : Nat]]
  /\ running \in BOOLEAN /\ list \subseteq Entries /\ pass \in {"scan", "reap"}
  /\ live \in [Objects -> BOOLEAN] /\ claim \in [Objects -> Entries \cup {None}]
  /\ pc \in [Threads -> {"idle", "untracked", "reading", "marking", "starting",
                         "releasing", "submitting", "stamping", "counting", "handing",
                         "dropping", "draining", "next", "look", "flight", "judging",
                         "reaping", "entered", "started", "lowering", "noting"}]
  /\ hold \in [Threads -> Entries \cup {None}] /\ time \in [Threads -> Nat]
  /\ cancels \in 0 .. MaxCancels
  /\ owed \in [Objects -> Entries \cup {None}]

\* repair_in_flight reading false with a repair outstanding "is the one answer it must
\* never give" (submit_repair): the count is the repairs counted and not handed over, those queued, and those
\* dispatched whose callback has not lowered it yet, so it never saturates either.
EveryRepairCounted ==
  \A e \in Entries :
    entry[e].outstanding =
      queued[e] + Cardinality({t \in Holders : hold[t] = e /\ pc[t] = "handing"})
      + Cardinality({w \in Workers : hold[w] = e /\ pc[w] \in {"entered", "started", "lowering"}})

\* A cancellation is never forgotten: from the moment it is published until a repair
\* callback has read a later clock, its entry reads as unhealed and stays registered,
\* whatever order stamps are published in and however coarse the clock is.
NeverForgotten ==
  \A o \in Objects :
    owed[o] # None /\ pc[o] # "marking" =>
      owed[o] \in registry /\ Unhealed(entry[owed[o]].cancelled, entry[owed[o]].started)

\* The callback's context outlives it (PoolEntry::drop): once an entry is freed nothing
\* of the pool, of the registry, of the healer or of an object refers to it.
NothingDangles ==
  \A e \in freed :
    /\ queued[e] = 0 /\ e \notin registry \cup list
    /\ \A t \in Threads : hold[t] # e
    /\ \A o \in Objects : claim[o] # e

\* "The drain then only ever waits for callbacks that have already started, which
\* complete" (outstanding): the healer never drains an entry with a repair queued.
HealerNeverParked == pc[Healer] = "draining" => queued[hold[Healer]] = 0

=============================================================================
