--------------------------- MODULE ThreadpoolWait ---------------------------
(***************************************************************************)
(* A thread-pool wait object (windows-threadpool-sys: wait.rs, rearm.rs,   *)
(* obligation.rs): user threads arm, disarm, drain, cancel and drop it     *)
(* while its callback runs on pool threads and re-arms it from inside.     *)
(*                                                                         *)
(* The pool is external.  A watching object fires at most once per arming: *)
(* it stops watching and queues one callback.  A wait for callbacks        *)
(* returns when none is queued or executing.  Nothing orders the pool      *)
(* against the calls here but the suppression lock, which is what this     *)
(* module is about.                                                        *)
(***************************************************************************)
EXTENDS Integers, FiniteSets

CONSTANTS Users,            \* threads that hold a reference to the object
          Workers,          \* pool threads
          MaxQueued,        \* bound: callbacks queued at once
          MaxArms           \* bound: calls of `arm`

Free == "free"              \* nobody holds the lock

ASSUME WaitAssumption ==
  MaxQueued \in Nat /\ MaxArms \in Nat /\ IsFiniteSet(Users) /\ Free \notin Workers

VARIABLES open,             \* CloseThreadpoolWait has not been called
          context,          \* the callback context has not been freed
          handle,           \* the watched handle has not been closed
          watching, queued, \* the pool's view of the object
          suppressed,       \* RearmSuppression: its count ...
          lock,             \* ... and who holds its lock
          owed,             \* CloseObligation
          worker, user,     \* where each pool thread and each user is
          dropping,         \* where the owner is in Drop
          arms,             \* calls of `arm` so far
          disturbed,        \* history: somebody armed during this user's stop
          disarmed          \* history: nothing was armed since the last disarm

poolVars == <<watching, queued>>
lifeVars == <<open, context, handle, dropping>>
suppressVars == <<suppressed, lock>>
historyVars == <<arms, disturbed, disarmed>>
vars == <<poolVars, lifeVars, suppressVars, owed, worker, user, historyVars>>

Init ==
  /\ open = TRUE /\ context = TRUE /\ handle = TRUE /\ dropping = "no"
  /\ watching = FALSE /\ queued = 0
  /\ suppressed = 0 /\ lock = Free
  /\ owed = FALSE
  /\ worker = [w \in Workers |-> "none"]
  /\ user = [u \in Users |-> "idle"]
  /\ arms = 0 /\ disturbed = [u \in Users |-> FALSE] /\ disarmed = TRUE

WorkerGoes(w, from, to) == worker[w] = from /\ worker' = [worker EXCEPT ![w] = to]

UserGoes(u, from, to) == user[u] = from /\ user' = [user EXCEPT ![u] = to]

\* What WaitForThreadpoolWaitCallbacks waits for.
Quiet == queued = 0 /\ \A w \in Workers : worker[w] = "none"

NoneRunning == \A w \in Workers : worker[w] = "none"

-----------------------------------------------------------------------------
(* The pool (external)                                                     *)

\* A signal, or the timeout it was armed with, activates the wait.
Fires ==
  /\ open /\ watching /\ queued < MaxQueued
  /\ watching' = FALSE /\ queued' = queued + 1
  /\ UNCHANGED <<lifeVars, suppressVars, owed, worker, user, historyVars>>

\* A pool thread takes the activation and enters the trampoline.
Dispatch(w) ==
  /\ queued > 0
  /\ WorkerGoes(w, "none", "entered")
  /\ queued' = queued - 1
  /\ UNCHANGED <<watching, lifeVars, suppressVars, owed, user, historyVars>>

-----------------------------------------------------------------------------
(* wait_trampoline and WaitActivation::rearm                               *)

\* The activation consumed the arming, so nothing is owed for it.
Settles(w) ==
  /\ WorkerGoes(w, "entered", "body")
  /\ owed' = FALSE
  /\ UNCHANGED <<poolVars, lifeVars, suppressVars, user, historyVars>>

\* The callback asks to be armed again, and waits for the lock.
RearmCalls(w) ==
  /\ WorkerGoes(w, "body", "locking")
  /\ UNCHANGED <<poolVars, lifeVars, suppressVars, owed, user, historyVars>>

\* Mutant: the count is read before the lock is taken.
AllowsStale == TRUE

\* Zero suppressions: re-arming is allowed.
Allows == suppressed = 0

\* rearm_reporting: under the lock, and suppressed ...
RearmSuppressed(w) ==
  /\ lock = Free /\ ~Allows
  /\ WorkerGoes(w, "locking", "body")
  /\ UNCHANGED <<poolVars, lifeVars, suppressVars, owed, user, historyVars>>

\* ... or not: record the obligation ...
RearmRecords(w) ==
  /\ lock = Free /\ Allows
  /\ WorkerGoes(w, "locking", "arming")
  /\ lock' = w /\ owed' = TRUE
  /\ UNCHANGED <<poolVars, lifeVars, suppressed, user, historyVars>>

\* ... and arm, still holding the lock.
RearmPublishes(w) ==
  /\ lock = w
  /\ WorkerGoes(w, "arming", "body")
  /\ lock' = Free
  /\ watching' = TRUE
  /\ disarmed' = FALSE
  /\ UNCHANGED <<queued, lifeVars, suppressed, owed, user, arms, disturbed>>

\* Mutant: the obligation is recorded after the arming is published.
RearmLate(w) ==
  \/ /\ lock = Free /\ Allows
     /\ WorkerGoes(w, "locking", "arming")
     /\ lock' = w /\ watching' = TRUE /\ disarmed' = FALSE
     /\ UNCHANGED <<queued, lifeVars, suppressed, owed, user, arms, disturbed>>
  \/ /\ lock = w
     /\ WorkerGoes(w, "arming", "body")
     /\ lock' = Free /\ owed' = TRUE
     /\ UNCHANGED <<poolVars, lifeVars, suppressed, user, historyVars>>

\* CloseObligation::record_live_before, around the arming.
Rearm(w) == RearmRecords(w) \/ RearmPublishes(w)

CallbackReturns(w) ==
  /\ WorkerGoes(w, "body", "none")
  /\ UNCHANGED <<poolVars, lifeVars, suppressVars, owed, user, historyVars>>

-----------------------------------------------------------------------------
(* The calls of ThreadpoolWait                                             *)

Callable == dropping = "no"

\* arm: record, then publish; it does not pass through the suppression.
Arm(u) ==
  /\ Callable /\ arms < MaxArms
  /\ UserGoes(u, "idle", "arming")
  /\ owed' = TRUE /\ arms' = arms + 1
  /\ UNCHANGED <<poolVars, lifeVars, suppressVars, worker, disturbed, disarmed>>

ArmPublishes(u) ==
  /\ UserGoes(u, "arming", "idle")
  /\ watching' = TRUE
  /\ disturbed' = [v \in Users |-> disturbed[v] \/ user[v] \in {"drain", "settle", "release"}]
  /\ disarmed' = FALSE
  /\ UNCHANGED <<queued, lifeVars, suppressVars, owed, worker, arms>>

Disarm(u) ==
  /\ Callable /\ user[u] = "idle"
  /\ watching' = FALSE /\ disarmed' = TRUE
  /\ UNCHANGED <<queued, lifeVars, suppressVars, owed, worker, user, arms, disturbed>>

WaitBegins(u) ==
  /\ Callable
  /\ UserGoes(u, "idle", "waiting")
  /\ UNCHANGED <<poolVars, lifeVars, suppressVars, owed, worker, historyVars>>

WaitReturns(u) ==
  /\ Quiet
  /\ UserGoes(u, "waiting", "idle")
  /\ UNCHANGED <<poolVars, lifeVars, suppressVars, owed, worker, historyVars>>

\* try_cancel_pending drops what is queued and waits for what is executing; the
\* repair it then owes its pool is the self-heal's business.
CancelBegins(u) ==
  /\ Callable
  /\ UserGoes(u, "idle", "cancelling")
  /\ queued' = 0
  /\ disarmed' = (disarmed \/ queued > 0)
  /\ UNCHANGED <<watching, lifeVars, suppressVars, owed, worker, arms, disturbed>>

CancelReturns(u) ==
  /\ NoneRunning
  /\ UserGoes(u, "cancelling", "idle")
  /\ UNCHANGED <<poolVars, lifeVars, suppressVars, owed, worker, historyVars>>

\* Mutant: the lock is kept for the drain.
SuppressKeepsLock ==
  /\ lock = Free /\ lock' = "drainer"
  /\ suppressed' = suppressed + 1
  /\ watching' = FALSE
  /\ UNCHANGED queued

\* suppress_and_disarm: both under one acquisition of the lock.
SuppressAndDisarm ==
  /\ lock = Free
  /\ suppressed' = suppressed + 1
  /\ watching' = FALSE
  /\ UNCHANGED <<queued, lock>>

\* stop_and_drain: suppress and disarm, ...
Stop(u) ==
  /\ Callable
  /\ UserGoes(u, "idle", "drain")
  /\ SuppressAndDisarm
  /\ disturbed' = [disturbed EXCEPT ![u] = FALSE] /\ disarmed' = TRUE
  /\ UNCHANGED <<lifeVars, owed, worker, arms>>

\* ... let the queued callbacks run, with the lock released, ...
StopDrains(u) ==
  /\ Quiet
  /\ UserGoes(u, "drain", "settle")
  /\ UNCHANGED <<poolVars, lifeVars, suppressVars, owed, worker, historyVars>>

\* ... and only then settle the obligation, ...
StopSettles(u) ==
  /\ UserGoes(u, "settle", "release")
  /\ owed' = FALSE
  /\ UNCHANGED <<poolVars, lifeVars, suppressVars, worker, historyVars>>

\* Mutant: suppression is a flag, and a finishing stop clears it.
ReleasedFlag == 0

\* Mutant: the count is raised again.
ReleasedUp == suppressed + 1

\* RearmSuppression::release saturates at zero.
Released == IF suppressed > 0 THEN suppressed - 1 ELSE 0

\* ... and lift this caller's suppression.
StopReleases(u) ==
  /\ lock = Free
  /\ UserGoes(u, "release", "idle")
  /\ suppressed' = Released
  /\ UNCHANGED <<poolVars, lifeVars, lock, owed, worker, historyVars>>

-----------------------------------------------------------------------------
(* Drop for ThreadpoolWait: exclusive, so no call is in progress.          *)

DropGoes(from, to) == dropping = from /\ dropping' = to

\* Suppressed for good, and disarmed.
DropBegins ==
  /\ \A u \in Users : user[u] = "idle"
  /\ DropGoes("no", "drain")
  /\ SuppressAndDisarm
  /\ disarmed' = TRUE
  /\ UNCHANGED <<open, context, handle, owed, worker, user, arms, disturbed>>

\* Mutant: the drain is left out.
DropSkipsDrain ==
  /\ DropGoes("drain", "close")
  /\ UNCHANGED <<poolVars, open, context, handle, suppressVars, owed, worker, user, historyVars>>

DropDrains ==
  /\ Quiet
  /\ DropGoes("drain", "close")
  /\ UNCHANGED <<poolVars, open, context, handle, suppressVars, owed, worker, user, historyVars>>

DropCloses ==
  /\ DropGoes("close", "free")
  /\ open' = FALSE
  /\ UNCHANGED <<poolVars, context, handle, suppressVars, owed, worker, user, historyVars>>

DropFrees ==
  /\ DropGoes("free", "target")
  /\ context' = FALSE
  /\ UNCHANGED <<poolVars, open, handle, suppressVars, owed, worker, user, historyVars>>

\* The target field drops last.
DropTarget ==
  /\ DropGoes("target", "done")
  /\ handle' = FALSE
  /\ UNCHANGED <<poolVars, open, context, suppressVars, owed, worker, user, historyVars>>

-----------------------------------------------------------------------------
WorkerSteps(w) == Settles(w) \/ RearmSuppressed(w) \/ Rearm(w)

UserStarts(u) == Arm(u) \/ Disarm(u) \/ WaitBegins(u) \/ CancelBegins(u) \/ Stop(u)

UserSteps(u) ==
  \/ ArmPublishes(u) \/ WaitReturns(u) \/ CancelReturns(u)
  \/ StopDrains(u) \/ StopSettles(u) \/ StopReleases(u)

DropSteps == DropDrains \/ DropCloses \/ DropFrees \/ DropTarget

Next ==
  \/ Fires
  \/ \E w \in Workers : Dispatch(w) \/ RearmCalls(w) \/ WorkerSteps(w) \/ CallbackReturns(w)
  \/ \E u \in Users : UserStarts(u) \/ UserSteps(u)
  \/ DropBegins \/ DropSteps

Spec == Init /\ [][Next]_vars

\* The pool dispatches what it has queued, callbacks return, and threads inside a
\* call go on.  A lock that keeps coming free is eventually granted.
Fairness ==
  /\ \A w \in Workers :
       WF_vars(Dispatch(w)) /\ SF_vars(WorkerSteps(w)) /\ SF_vars(CallbackReturns(w))
  /\ \A u \in Users : WF_vars(UserSteps(u)) /\ SF_vars(StopReleases(u))
  /\ WF_vars(DropSteps)

FairSpec == Spec /\ Fairness

-----------------------------------------------------------------------------
(* Properties                                                              *)

\* The states of the pieces; at most every user and Drop suppress at once.
TypeOK ==
  /\ open \in BOOLEAN /\ context \in BOOLEAN /\ handle \in BOOLEAN
  /\ dropping \in {"no", "drain", "close", "free", "target", "done"}
  /\ watching \in BOOLEAN /\ queued \in 0 .. MaxQueued
  /\ suppressed \in 0 .. Cardinality(Users) + 1
  /\ lock \in Workers \cup {Free}
  /\ owed \in BOOLEAN
  /\ worker \in [Workers -> {"none", "entered", "body", "locking", "arming"}]
  /\ user \in [Users -> {"idle", "arming", "waiting", "cancelling", "drain", "settle", "release"}]
  /\ arms \in 0 .. MaxArms
  /\ disturbed \in [Users -> BOOLEAN] /\ disarmed \in BOOLEAN

\* "the drain below could then return with the object armed, and the close and
\* context free would race a freshly queued callback" (Drop): once the object is
\* being closed nothing is watching, queued or running, whatever callbacks did.
ClosedIsQuiet == dropping \in {"close", "free", "target", "done"} => ~watching /\ Quiet

\* The context and the handle outlive every callback and every watch.
NothingDangles ==
  /\ watching \/ ~Quiet => context /\ open
  /\ watching => handle

\* Drop is safe: it closes a quiet object and frees only what is out of use.
DropIsSafe == ClosedIsQuiet /\ NothingDangles

\* "no callback is queued or executing, and the object is not watching"
\* (stop_and_drain), provided no other thread armed it during the call.
StopLeavesIdle ==
  [][\A u \in Users :
       user[u] = "release" /\ user'[u] = "idle" /\ ~disturbed[u] => ~watching /\ Quiet]_vars

\* A drained object does not claim to owe a drain (record_live_before): when the
\* obligation stands and no arming is under way, the pool still watches or holds
\* an activation, or the caller disarmed or cancelled without draining.
OwedIsTrue ==
  owed /\ (\A w \in Workers : worker[w] # "arming") /\ (\A u \in Users : user[u] # "arming") =>
    watching \/ queued > 0 \/ (\E w \in Workers : worker[w] = "entered") \/ disarmed

\* The count is the number of suppressions in force: the stops under way, and Drop.
SuppressionsCounted ==
  suppressed = Cardinality({u \in Users : user[u] \in {"drain", "settle", "release"}})
               + (IF dropping = "no" THEN 0 ELSE 1)

\* Neither a stop nor Drop waits for ever on a callback that is itself waiting for
\* the suppression lock.
StopReturns == \A u \in Users : user[u] = "drain" ~> user[u] = "idle"

\* Drop reaches its end: it drains with the lock released, so a callback parked on
\* the lock can finish.
DropCompletes == dropping = "drain" ~> dropping = "done"
=============================================================================
