----------------------------- MODULE WaitProofs -----------------------------
(***************************************************************************)
(* What the suppression of ThreadpoolWait guarantees for any number of     *)
(* users and pool threads.                                                 *)
(*                                                                         *)
(* The argument: a re-arm holds the lock from its check of the count to    *)
(* the arming, and the count is raised under the lock, so while a          *)
(* suppression is in force no callback is between its check and its        *)
(* arming (NoRearmUnderWay).  The count is the number of suppressions in   *)
(* force (SuppressionsCounted), so it stays above zero until the last of   *)
(* them is lifted.  From the moment of the disarm on, then, only a call of *)
(* arm can make the object watch again; a drain that finds it quiet        *)
(* leaves it quiet (StoppedIsIdle, DroppedIsIdle).                         *)
(***************************************************************************)
EXTENDS ThreadpoolWait, FiniteSetTheorems, TLAPS

Stopping == {"drain", "settle", "release"}

\* The users in the middle of stop_and_drain, when f says where each user is.
StoppersOf(f) == {u \in Users : f[u] \in Stopping}

\* TypeOK without its bound on the count, in three parts.
Flags ==
  /\ open \in BOOLEAN /\ context \in BOOLEAN /\ handle \in BOOLEAN
  /\ watching \in BOOLEAN /\ owed \in BOOLEAN
  /\ disarmed \in BOOLEAN /\ disturbed \in [Users -> BOOLEAN]

Counts == queued \in 0 .. MaxQueued /\ arms \in 0 .. MaxArms /\ suppressed \in Nat

Places ==
  /\ dropping \in {"no", "drain", "close", "free", "target", "done"}
  /\ lock \in Workers \cup {Free}
  /\ worker \in [Workers -> {"none", "entered", "body", "locking", "arming"}]
  /\ user \in [Users -> {"idle", "arming", "waiting", "cancelling", "drain", "settle", "release"}]

Typed == Flags /\ Counts /\ Places

\* The lock is held by the callback that is about to arm, and by no other thread.
LockIsHeldToArm == \A w \in Workers : worker[w] = "arming" <=> lock = w

\* While a suppression is in force no callback is between its check and its arming.
NoRearmUnderWay == suppressed > 0 => lock = Free

\* Drop is exclusive, and nothing re-arms the object after its disarm.
DroppedIsIdle ==
  dropping # "no" =>
    /\ \A u \in Users : user[u] = "idle"
    /\ ~watching
    /\ dropping # "drain" => Quiet

\* The same for a stop, until somebody calls arm.
StoppedIsIdle ==
  \A u \in StoppersOf(user) : ~disturbed[u] => ~watching /\ (user[u] # "drain" => Quiet)

\* What is released when.
ReleasedInOrder ==
  /\ ~open => dropping \in {"free", "target", "done"}
  /\ ~context => dropping \in {"target", "done"}
  /\ ~handle => dropping = "done"

IInv ==
  /\ Typed /\ LockIsHeldToArm /\ NoRearmUnderWay /\ SuppressionsCounted
  /\ DroppedIsIdle /\ StoppedIsIdle /\ ReleasedInOrder /\ OwedIsTrue

\* The kinds of steps, as the proofs below split them.
WorkerStep(w) == Dispatch(w) \/ RearmCalls(w) \/ WorkerSteps(w) \/ CallbackReturns(w)

DropStep == DropBegins \/ DropSteps

-----------------------------------------------------------------------------
\* Every step is one of these (Next).
LEMMA Kinds ==
  ASSUME [Next]_vars
  PROVE  \/ Fires
         \/ \E w \in Workers : WorkerStep(w)
         \/ \E u \in Users : UserStarts(u) \/ UserSteps(u)
         \/ DropStep
         \/ UNCHANGED vars
BY DEF Next, WorkerStep, DropStep

\* Flags stay Boolean.
LEMMA FlagsStep == Flags /\ [Next]_vars => Flags'
<1> SUFFICES ASSUME Flags, [Next]_vars PROVE Flags'
  OBVIOUS
<1> USE DEF Flags, poolVars, lifeVars, suppressVars, historyVars
<1>1. CASE Fires
  BY <1>1, Zenon DEF Fires
<1>2. ASSUME NEW w \in Workers, WorkerStep(w) PROVE Flags'
  BY <1>2, Zenon DEF WorkerStep, Dispatch, RearmCalls, CallbackReturns, WorkerSteps, Settles,
     RearmSuppressed, Rearm, RearmRecords, RearmPublishes
<1>3. ASSUME NEW u \in Users, UserStarts(u) PROVE Flags'
  <2>1. CASE Arm(u) \/ Disarm(u) \/ WaitBegins(u) \/ CancelBegins(u)
    BY <2>1, Zenon DEF Arm, Disarm, WaitBegins, CancelBegins
  <2>2. CASE Stop(u)
    BY <2>2, Zenon DEF Stop, SuppressAndDisarm
  <2> QED BY <1>3, <2>1, <2>2 DEF UserStarts
<1>4. ASSUME NEW u \in Users, UserSteps(u) PROVE Flags'
  BY <1>4, Zenon DEF UserSteps, ArmPublishes, WaitReturns, CancelReturns, StopDrains, StopSettles,
     StopReleases
<1>5. CASE DropStep
  BY <1>5, Zenon DEF DropStep, DropBegins, DropSteps, DropDrains, DropCloses, DropFrees, DropTarget,
     SuppressAndDisarm
<1>6. CASE UNCHANGED vars
  BY <1>6, Zenon DEF vars
<1> QED BY <1>1, <1>2, <1>3, <1>4, <1>5, <1>6, Kinds

\* The counts stay in their bounds.
LEMMA CountsStep == Counts /\ [Next]_vars => Counts'
<1> SUFFICES ASSUME Counts, [Next]_vars PROVE Counts'
  OBVIOUS
<1> USE WaitAssumption DEF Counts, poolVars, lifeVars, suppressVars, historyVars
<1>1. CASE Fires
  BY <1>1 DEF Fires
<1>2. ASSUME NEW w \in Workers, WorkerStep(w) PROVE Counts'
  BY <1>2 DEF WorkerStep, Dispatch, RearmCalls, CallbackReturns, WorkerSteps, Settles,
     RearmSuppressed, Rearm, RearmRecords, RearmPublishes
<1>3. ASSUME NEW u \in Users, UserStarts(u) PROVE Counts'
  BY <1>3 DEF UserStarts, Arm, Disarm, WaitBegins, CancelBegins, Stop, SuppressAndDisarm
<1>4. ASSUME NEW u \in Users, UserSteps(u) PROVE Counts'
  BY <1>4 DEF UserSteps, ArmPublishes, WaitReturns, CancelReturns, StopDrains, StopSettles,
     StopReleases, Released
<1>5. CASE DropStep
  BY <1>5 DEF DropStep, DropBegins, DropSteps, DropDrains, DropCloses, DropFrees, DropTarget,
     SuppressAndDisarm
<1>6. CASE UNCHANGED vars
  BY <1>6 DEF vars
<1> QED BY <1>1, <1>2, <1>3, <1>4, <1>5, <1>6, Kinds

\* Every thread stays at one of its places.
LEMMA PlacesStep == Places /\ [Next]_vars => Places'
<1> SUFFICES ASSUME Places, [Next]_vars PROVE Places'
  OBVIOUS
<1> USE DEF Places, poolVars, lifeVars, suppressVars, historyVars
<1>1. CASE Fires
  BY <1>1 DEF Fires
<1>2. ASSUME NEW w \in Workers, WorkerStep(w) PROVE Places'
  BY <1>2 DEF WorkerStep, Dispatch, RearmCalls, CallbackReturns, WorkerSteps, Settles,
     RearmSuppressed, Rearm, RearmRecords, RearmPublishes, WorkerGoes
<1>3. ASSUME NEW u \in Users, UserStarts(u) PROVE Places'
  BY <1>3 DEF UserStarts, Arm, Disarm, WaitBegins, CancelBegins, Stop, SuppressAndDisarm, UserGoes
<1>4. ASSUME NEW u \in Users, UserSteps(u) PROVE Places'
  BY <1>4 DEF UserSteps, ArmPublishes, WaitReturns, CancelReturns, StopDrains, StopSettles,
     StopReleases, UserGoes
<1>5. CASE DropStep
  BY <1>5 DEF DropStep, DropBegins, DropSteps, DropDrains, DropCloses, DropFrees, DropTarget,
     DropGoes, SuppressAndDisarm
<1>6. CASE UNCHANGED vars
  BY <1>6 DEF vars
<1> QED BY <1>1, <1>2, <1>3, <1>4, <1>5, <1>6, Kinds

\* The lock goes to the callback that arms, and comes back when it has armed.
LEMMA LockStep == Places /\ LockIsHeldToArm /\ [Next]_vars => LockIsHeldToArm'
<1> SUFFICES ASSUME Places, LockIsHeldToArm, [Next]_vars PROVE LockIsHeldToArm'
  OBVIOUS
<1> USE WaitAssumption DEF Places, LockIsHeldToArm, poolVars, lifeVars, suppressVars, historyVars
<1>1. CASE Fires
  BY <1>1 DEF Fires
<1>2. ASSUME NEW w \in Workers, WorkerStep(w) PROVE LockIsHeldToArm'
  BY <1>2 DEF Allows, WorkerStep, Dispatch, RearmCalls, CallbackReturns, WorkerSteps, Settles,
     RearmSuppressed, Rearm, RearmRecords, RearmPublishes, WorkerGoes
<1>3. ASSUME NEW u \in Users, UserStarts(u) PROVE LockIsHeldToArm'
  BY <1>3 DEF UserStarts, Arm, Disarm, WaitBegins, CancelBegins, Stop, SuppressAndDisarm, UserGoes
<1>4. ASSUME NEW u \in Users, UserSteps(u) PROVE LockIsHeldToArm'
  BY <1>4 DEF UserSteps, ArmPublishes, WaitReturns, CancelReturns, StopDrains, StopSettles,
     StopReleases, Released, UserGoes
<1>5. CASE DropStep
  BY <1>5 DEF DropStep, DropBegins, DropSteps, DropDrains, DropCloses, DropFrees, DropTarget,
     DropGoes, SuppressAndDisarm
<1>6. CASE UNCHANGED vars
  BY <1>6 DEF vars
<1> QED BY <1>1, <1>2, <1>3, <1>4, <1>5, <1>6, Kinds

\* The count is raised, and read, only while the lock is free.
LEMMA NoRearmStep == Counts /\ Places /\ LockIsHeldToArm /\ NoRearmUnderWay /\ [Next]_vars => NoRearmUnderWay'
<1> SUFFICES ASSUME Counts, Places, LockIsHeldToArm, NoRearmUnderWay, [Next]_vars PROVE NoRearmUnderWay'
  OBVIOUS
<1> USE DEF Counts, Places, LockIsHeldToArm, NoRearmUnderWay, poolVars, lifeVars, suppressVars, historyVars
<1>1. CASE Fires
  BY <1>1 DEF Fires
<1>2. ASSUME NEW w \in Workers, WorkerStep(w) PROVE NoRearmUnderWay'
  BY <1>2 DEF Allows, WorkerStep, Dispatch, RearmCalls, CallbackReturns, WorkerSteps, Settles,
     RearmSuppressed, Rearm, RearmRecords, RearmPublishes, WorkerGoes
<1>3. ASSUME NEW u \in Users, UserStarts(u) PROVE NoRearmUnderWay'
  BY <1>3 DEF UserStarts, Arm, Disarm, WaitBegins, CancelBegins, Stop, SuppressAndDisarm, UserGoes
<1>4. ASSUME NEW u \in Users, UserSteps(u) PROVE NoRearmUnderWay'
  BY <1>4 DEF UserSteps, ArmPublishes, WaitReturns, CancelReturns, StopDrains, StopSettles,
     StopReleases, Released, UserGoes
<1>5. CASE DropStep
  BY <1>5 DEF DropStep, DropBegins, DropSteps, DropDrains, DropCloses, DropFrees, DropTarget,
     DropGoes, SuppressAndDisarm
<1>6. CASE UNCHANGED vars
  BY <1>6 DEF vars
<1> QED BY <1>1, <1>2, <1>3, <1>4, <1>5, <1>6, Kinds

\* Nothing is freed before the step of Drop that frees it.
LEMMA ReleasedStep == Flags /\ Places /\ ReleasedInOrder /\ [Next]_vars => ReleasedInOrder'
<1> SUFFICES ASSUME Flags, Places, ReleasedInOrder, [Next]_vars PROVE ReleasedInOrder'
  OBVIOUS
<1> USE DEF Flags, Places, ReleasedInOrder, poolVars, lifeVars, suppressVars, historyVars
<1>1. CASE Fires
  BY <1>1 DEF Fires
<1>2. ASSUME NEW w \in Workers, WorkerStep(w) PROVE ReleasedInOrder'
  BY <1>2 DEF Allows, WorkerStep, Dispatch, RearmCalls, CallbackReturns, WorkerSteps, Settles,
     RearmSuppressed, Rearm, RearmRecords, RearmPublishes, WorkerGoes
<1>3. ASSUME NEW u \in Users, UserStarts(u) PROVE ReleasedInOrder'
  BY <1>3 DEF UserStarts, Arm, Disarm, WaitBegins, CancelBegins, Stop, SuppressAndDisarm, UserGoes
<1>4. ASSUME NEW u \in Users, UserSteps(u) PROVE ReleasedInOrder'
  BY <1>4 DEF UserSteps, ArmPublishes, WaitReturns, CancelReturns, StopDrains, StopSettles,
     StopReleases, Released, UserGoes
<1>5. CASE DropStep
  BY <1>5 DEF DropStep, DropBegins, DropSteps, DropDrains, DropCloses, DropFrees, DropTarget,
     DropGoes, SuppressAndDisarm
<1>6. CASE UNCHANGED vars
  BY <1>6 DEF vars
<1> QED BY <1>1, <1>2, <1>3, <1>4, <1>5, <1>6, Kinds

\* The users that are stopping the object change only when one begins or ends a stop.
LEMMA StoppersCounted ==
  ASSUME NEW f, NEW g, NEW u \in Users, \A v \in Users \ {u} : f[v] = g[v]
  PROVE  LET before == Cardinality(StoppersOf(f))
             after  == Cardinality(StoppersOf(g))
         IN  /\ before \in Nat
             /\ (f[u] \in Stopping <=> g[u] \in Stopping) => after = before
             /\ f[u] \notin Stopping /\ g[u] \in Stopping => after = before + 1
             /\ f[u] \in Stopping /\ g[u] \notin Stopping => before > 0 /\ after = before - 1
<1> DEFINE S == StoppersOf(f)
           T == StoppersOf(g)
<1>1. IsFiniteSet(Users) /\ S \subseteq Users
  BY WaitAssumption DEF StoppersOf
<1>2. IsFiniteSet(S) /\ Cardinality(S) \in Nat
  BY <1>1, FS_Subset, FS_CardinalityType
<1>3. ASSUME f[u] \in Stopping <=> g[u] \in Stopping PROVE T = S
  BY <1>3 DEF StoppersOf
<1>4. ASSUME f[u] \notin Stopping, g[u] \in Stopping PROVE Cardinality(T) = Cardinality(S) + 1
  <2>1. u \notin S /\ T = S \cup {u}
    BY <1>4 DEF StoppersOf
  <2> HIDE DEF S, T
  <2> QED BY <1>2, <2>1, FS_AddElement
<1>5. ASSUME f[u] \in Stopping, g[u] \notin Stopping
      PROVE  Cardinality(S) > 0 /\ Cardinality(T) = Cardinality(S) - 1
  <2>1. u \in S /\ T = S \ {u}
    BY <1>5 DEF StoppersOf
  <2> HIDE DEF S, T
  <2>2. Cardinality(S) # 0
    BY <1>2, <2>1, FS_EmptySet
  <2>3. Cardinality(S \ {u}) = Cardinality(S) - 1
    BY <1>2, <2>1, FS_RemoveElement
  <2> QED BY <1>2, <2>1, <2>2, <2>3
<1> QED BY <1>2, <1>3, <1>4, <1>5

\* The count is the number of suppressions in force after every step: only a stop that
\* begins or ends, and Drop, touch either.
LEMMA CountedStep == Typed /\ SuppressionsCounted /\ DroppedIsIdle /\ [Next]_vars => SuppressionsCounted'
<1> SUFFICES ASSUME Typed, SuppressionsCounted, DroppedIsIdle, [Next]_vars
             PROVE  SuppressionsCounted'
  OBVIOUS
<1> DEFINE Dropped == IF dropping = "no" THEN 0 ELSE 1
<1>a. suppressed = Cardinality(StoppersOf(user)) + Dropped
  BY DEF SuppressionsCounted, StoppersOf, Stopping
<1>b. SUFFICES suppressed' = Cardinality(StoppersOf(user')) + Dropped'
  BY DEF SuppressionsCounted, StoppersOf, Stopping
<1> HIDE DEF Dropped
<1>c. ASSUME UNCHANGED <<user, suppressed, dropping>> PROVE suppressed' = Cardinality(StoppersOf(user')) + Dropped'
  BY <1>a, <1>c DEF Dropped
<1> USE DEF poolVars, lifeVars, suppressVars, historyVars
<1>1. CASE Fires
  BY <1>1, <1>c DEF Fires
<1>2. ASSUME NEW w \in Workers, WorkerStep(w) PROVE suppressed' = Cardinality(StoppersOf(user')) + Dropped'
  BY <1>2, <1>c DEF WorkerStep, Dispatch, RearmCalls, CallbackReturns, WorkerSteps, Settles,
     RearmSuppressed, Rearm, RearmRecords, RearmPublishes
<1>3. ASSUME NEW u \in Users, UserStarts(u) \/ UserSteps(u)
      PROVE  suppressed' = Cardinality(StoppersOf(user')) + Dropped'
  <2>1. user \in [Users -> {"idle", "arming", "waiting", "cancelling", "drain", "settle", "release"}]
    BY DEF Typed, Places
  <2>2. user' = user \/ \E to : user' = [user EXCEPT ![u] = to]
    BY <1>3 DEF UserStarts, Arm, Disarm, WaitBegins, CancelBegins, Stop, UserSteps, ArmPublishes,
       WaitReturns, CancelReturns, StopDrains, StopSettles, StopReleases, UserGoes
  <2>3. \A v \in Users \ {u} : user[v] = user'[v]
    BY <2>1, <2>2
  <2>4. /\ Cardinality(StoppersOf(user)) \in Nat
        /\ (user[u] \in Stopping <=> user'[u] \in Stopping) =>
             Cardinality(StoppersOf(user')) = Cardinality(StoppersOf(user))
        /\ user[u] \notin Stopping /\ user'[u] \in Stopping =>
             Cardinality(StoppersOf(user')) = Cardinality(StoppersOf(user)) + 1
        /\ user[u] \in Stopping /\ user'[u] \notin Stopping =>
             Cardinality(StoppersOf(user)) > 0 /\ Cardinality(StoppersOf(user')) = Cardinality(StoppersOf(user)) - 1
    BY <2>3, StoppersCounted
  <2>5. Dropped' = Dropped /\ Dropped \in {0, 1}
    BY <1>3 DEF Dropped, UserStarts, Arm, Disarm, WaitBegins, CancelBegins, Stop, UserSteps,
       ArmPublishes, WaitReturns, CancelReturns, StopDrains, StopSettles, StopReleases
  <2>6. CASE Arm(u) \/ Disarm(u) \/ WaitBegins(u) \/ CancelBegins(u)
    BY <1>a, <2>1, <2>4, <2>5, <2>6 DEF Stopping, Arm, Disarm, WaitBegins, CancelBegins, UserGoes
  <2>7. CASE Stop(u)
    BY <1>a, <2>1, <2>4, <2>5, <2>7 DEF Stopping, Stop, SuppressAndDisarm, UserGoes
  <2>8. CASE ArmPublishes(u) \/ WaitReturns(u) \/ CancelReturns(u) \/ StopDrains(u) \/ StopSettles(u)
    BY <1>a, <2>1, <2>4, <2>5, <2>8 DEF Stopping, ArmPublishes, WaitReturns, CancelReturns,
       StopDrains, StopSettles, UserGoes
  <2>9. CASE StopReleases(u)
    BY <1>a, <2>1, <2>4, <2>5, <2>9 DEF Stopping, StopReleases, Released, UserGoes
  <2> QED BY <1>3, <2>6, <2>7, <2>8, <2>9 DEF UserStarts, UserSteps
<1>4. CASE DropStep
  <2>1. StoppersOf(user') = StoppersOf(user) /\ Cardinality(StoppersOf(user)) \in Nat
    <3>1. UNCHANGED user
      BY <1>4 DEF DropStep, DropBegins, DropSteps, DropDrains, DropCloses, DropFrees, DropTarget
    <3>2. StoppersOf(user) \subseteq Users
      BY DEF StoppersOf
    <3> QED BY <3>1, <3>2, WaitAssumption, FS_Subset, FS_CardinalityType
  <2>2. CASE DropBegins
    BY <1>a, <2>1, <2>2 DEF DropBegins, DropGoes, SuppressAndDisarm, Dropped
  <2>3. CASE DropSteps
    BY <1>a, <2>1, <2>3 DEF DropSteps, DropDrains, DropCloses, DropFrees, DropTarget, DropGoes, Dropped
  <2> QED BY <1>4, <2>2, <2>3 DEF DropStep
<1>5. CASE UNCHANGED vars
  BY <1>5, <1>c DEF vars
<1> QED BY <1>1, <1>2, <1>3, <1>4, <1>5, Kinds

\* During a stop and during Drop the count is above zero, so no callback can arm.
LEMMA NobodyArms ==
  ASSUME Typed, LockIsHeldToArm, NoRearmUnderWay, SuppressionsCounted,
         dropping # "no" \/ StoppersOf(user) # {}
  PROVE  suppressed > 0 /\ \A w \in Workers : worker[w] # "arming" /\ lock # w
<1>1. Cardinality(StoppersOf(user)) \in Nat
      /\ (StoppersOf(user) # {} => Cardinality(StoppersOf(user)) # 0)
  <2>1. StoppersOf(user) \subseteq Users
    BY DEF StoppersOf
  <2>2. IsFiniteSet(StoppersOf(user))
    BY <2>1, WaitAssumption, FS_Subset
  <2> QED BY <2>2, FS_CardinalityType, FS_EmptySet
<1>2. suppressed = Cardinality(StoppersOf(user)) + (IF dropping = "no" THEN 0 ELSE 1)
  BY DEF SuppressionsCounted, StoppersOf, Stopping
<1>3. suppressed > 0
  BY <1>1, <1>2
<1>4. lock = Free /\ \A w \in Workers : lock # w
  BY <1>3, WaitAssumption DEF NoRearmUnderWay
<1> QED BY <1>3, <1>4 DEF LockIsHeldToArm

\* After Drop's disarm nothing arms the object: calls are over, and callbacks are suppressed.
LEMMA DroppedStep ==
  ASSUME Typed, LockIsHeldToArm, NoRearmUnderWay, SuppressionsCounted, DroppedIsIdle, [Next]_vars
  PROVE  DroppedIsIdle'
<1> USE DEF DroppedIsIdle, Quiet, poolVars, lifeVars, suppressVars, historyVars
<1> Places /\ Counts
  BY DEF Typed
<1>n. dropping # "no" => \A w \in Workers : worker[w] # "arming" /\ lock # w
  BY NobodyArms
<1>1. CASE Fires
  BY <1>1 DEF Fires, Places
<1>2. ASSUME NEW w \in Workers, WorkerStep(w) PROVE DroppedIsIdle'
  <2>1. CASE RearmPublishes(w)
    BY <1>n, <2>1 DEF RearmPublishes
  <2>2. CASE Dispatch(w)
    BY <2>2 DEF Dispatch, WorkerGoes, Places, Counts
  <2>3. CASE Settles(w) \/ RearmCalls(w) \/ RearmSuppressed(w)
    BY <2>3 DEF Settles, RearmCalls, RearmSuppressed, WorkerGoes, Places
  <2>4. CASE RearmRecords(w) \/ CallbackReturns(w)
    BY <2>4 DEF RearmRecords, CallbackReturns, WorkerGoes, Places
  <2> QED BY <1>2, <2>1, <2>2, <2>3, <2>4 DEF WorkerStep, WorkerSteps, Rearm
<1>3. ASSUME NEW u \in Users, UserStarts(u) PROVE DroppedIsIdle'
  BY <1>3 DEF Callable, UserStarts, Arm, Disarm, WaitBegins, CancelBegins, Stop
<1>4. ASSUME NEW u \in Users, UserSteps(u) PROVE DroppedIsIdle'
  BY <1>4 DEF UserSteps, ArmPublishes, WaitReturns, CancelReturns, StopDrains, StopSettles,
     StopReleases, UserGoes
<1>5. CASE DropStep
  <2>1. CASE DropBegins
    BY <2>1 DEF DropBegins, DropGoes, SuppressAndDisarm
  <2>2. CASE DropSteps
    BY <2>2 DEF DropSteps, DropDrains, DropCloses, DropFrees, DropTarget, DropGoes
  <2> QED BY <1>5, <2>1, <2>2 DEF DropStep
<1>6. CASE UNCHANGED vars
  BY <1>6 DEF vars
<1> QED BY <1>1, <1>2, <1>3, <1>4, <1>5, <1>6, Kinds

\* After a stop's disarm only a call of arm makes the object watch, and that call marks the
\* stop disturbed.
LEMMA StoppedStep ==
  ASSUME Typed, LockIsHeldToArm, NoRearmUnderWay, SuppressionsCounted, StoppedIsIdle, [Next]_vars
  PROVE  StoppedIsIdle'
<1> USE DEF StoppedIsIdle, StoppersOf, Stopping, Quiet, poolVars, lifeVars, suppressVars, historyVars
<1> Places /\ Counts /\ disturbed \in [Users -> BOOLEAN]
  BY DEF Typed, Flags
<1>n. (\E u \in Users : user[u] \in Stopping) => \A w \in Workers : lock # w
  BY NobodyArms DEF StoppersOf
<1>1. CASE Fires
  BY <1>1 DEF Fires, Places
<1>2. ASSUME NEW w \in Workers, WorkerStep(w) PROVE StoppedIsIdle'
  <2>1. CASE RearmPublishes(w)
    BY <1>n, <2>1 DEF RearmPublishes
  <2>2. CASE Dispatch(w)
    BY <2>2 DEF Dispatch, WorkerGoes, Places, Counts
  <2>3. CASE Settles(w) \/ RearmCalls(w) \/ RearmSuppressed(w)
    BY <2>3 DEF Settles, RearmCalls, RearmSuppressed, WorkerGoes, Places
  <2>4. CASE RearmRecords(w) \/ CallbackReturns(w)
    BY <2>4 DEF RearmRecords, CallbackReturns, WorkerGoes, Places
  <2> QED BY <1>2, <2>1, <2>2, <2>3, <2>4 DEF WorkerStep, WorkerSteps, Rearm
<1>3. ASSUME NEW u \in Users, UserStarts(u) PROVE StoppedIsIdle'
  <2>1. CASE Arm(u) \/ WaitBegins(u)
    BY <2>1 DEF Arm, WaitBegins, UserGoes, Places
  <2>2. CASE Disarm(u)
    BY <2>2 DEF Disarm, Places
  <2>3. CASE CancelBegins(u)
    BY <2>3 DEF CancelBegins, UserGoes, Places
  <2>4. CASE Stop(u)
    BY <2>4 DEF Stop, SuppressAndDisarm, UserGoes, Places
  <2> QED BY <1>3, <2>1, <2>2, <2>3, <2>4 DEF UserStarts
<1>4. ASSUME NEW u \in Users, UserSteps(u) PROVE StoppedIsIdle'
  <2>1. CASE ArmPublishes(u)
    BY <2>1 DEF ArmPublishes, UserGoes, Places
  <2>2. CASE WaitReturns(u) \/ CancelReturns(u) \/ StopDrains(u)
    BY <2>2 DEF WaitReturns, CancelReturns, StopDrains, UserGoes, Places
  <2>3. CASE StopSettles(u) \/ StopReleases(u)
    BY <2>3 DEF StopSettles, StopReleases, UserGoes, Places
  <2> QED BY <1>4, <2>1, <2>2, <2>3 DEF UserSteps
<1>5. CASE DropStep
  <2>1. CASE DropBegins
    BY <2>1 DEF DropBegins
  <2>2. CASE DropSteps
    BY <2>2 DEF DropSteps, DropDrains, DropCloses, DropFrees, DropTarget
  <2> QED BY <1>5, <2>1, <2>2 DEF DropStep
<1>6. CASE UNCHANGED vars
  BY <1>6 DEF vars
<1> QED BY <1>1, <1>2, <1>3, <1>4, <1>5, <1>6, Kinds

\* The obligation is recorded before the arming is published, so it never stands without
\* what it stands for.
LEMMA OwedStep == Typed /\ OwedIsTrue /\ [Next]_vars => OwedIsTrue'
<1> SUFFICES ASSUME Typed, OwedIsTrue, [Next]_vars PROVE OwedIsTrue'
  OBVIOUS
<1> USE DEF OwedIsTrue, poolVars, lifeVars, suppressVars, historyVars
<1> Places /\ Counts
  BY DEF Typed
<1>1. CASE Fires
  BY <1>1 DEF Fires, Counts
<1>2. ASSUME NEW w \in Workers, WorkerStep(w) PROVE OwedIsTrue'
  <2>1. CASE Dispatch(w)
    BY <2>1 DEF Dispatch, WorkerGoes, Places
  <2>2. CASE Settles(w)
    BY <2>2 DEF Settles
  <2>3. CASE RearmCalls(w) \/ RearmSuppressed(w) \/ CallbackReturns(w)
    BY <2>3 DEF RearmCalls, RearmSuppressed, CallbackReturns, WorkerGoes, Places
  <2>4. CASE RearmRecords(w) \/ RearmPublishes(w)
    BY <2>4 DEF RearmRecords, RearmPublishes, WorkerGoes, Places
  <2> QED BY <1>2, <2>1, <2>2, <2>3, <2>4 DEF WorkerStep, WorkerSteps, Rearm
<1>3. ASSUME NEW u \in Users, UserStarts(u) PROVE OwedIsTrue'
  <2>1. CASE Arm(u)
    BY <2>1 DEF Arm, UserGoes, Places
  <2>2. CASE Disarm(u) \/ Stop(u)
    BY <2>2 DEF Disarm, Stop
  <2>3. CASE WaitBegins(u) \/ CancelBegins(u)
    BY <2>3 DEF WaitBegins, CancelBegins, UserGoes, Places
  <2> QED BY <1>3, <2>1, <2>2, <2>3 DEF UserStarts
<1>4. ASSUME NEW u \in Users, UserSteps(u) PROVE OwedIsTrue'
  <2>1. CASE ArmPublishes(u) \/ StopSettles(u)
    BY <2>1 DEF ArmPublishes, StopSettles
  <2>2. CASE WaitReturns(u) \/ CancelReturns(u) \/ StopDrains(u) \/ StopReleases(u)
    BY <2>2 DEF WaitReturns, CancelReturns, StopDrains, StopReleases, UserGoes, Places
  <2> QED BY <1>4, <2>1, <2>2 DEF UserSteps
<1>5. CASE DropStep
  BY <1>5 DEF DropStep, DropBegins, DropSteps, DropDrains, DropCloses, DropFrees, DropTarget
<1>6. CASE UNCHANGED vars
  BY <1>6 DEF vars
<1> QED BY <1>1, <1>2, <1>3, <1>4, <1>5, <1>6, Kinds

-----------------------------------------------------------------------------
\* A new object satisfies the inductive invariant (ThreadpoolWait::new).
LEMMA IInvInit == Init => IInv
<1> SUFFICES ASSUME Init PROVE IInv
  OBVIOUS
<1> USE WaitAssumption DEF Init
<1>1. Flags
  BY Zenon DEF Flags
<1>2. Counts /\ Places
  BY DEF Counts, Places
<1>3. SuppressionsCounted
  <2>1. {u \in Users : user[u] \in {"drain", "settle", "release"}} = {}
    OBVIOUS
  <2> QED BY <2>1, FS_EmptySet DEF SuppressionsCounted
<1>4. LockIsHeldToArm /\ NoRearmUnderWay /\ DroppedIsIdle /\ ReleasedInOrder /\ OwedIsTrue
  BY DEF LockIsHeldToArm, NoRearmUnderWay, DroppedIsIdle, ReleasedInOrder, OwedIsTrue
<1>5. StoppedIsIdle
  BY DEF StoppedIsIdle, StoppersOf, Stopping
<1> QED BY <1>1, <1>2, <1>3, <1>4, <1>5 DEF IInv, Typed

\* Every step preserves it.
LEMMA IInvStep == IInv /\ [Next]_vars => IInv'
<1> SUFFICES ASSUME IInv, [Next]_vars PROVE IInv'
  OBVIOUS
<1>1. Typed'
  BY FlagsStep, CountsStep, PlacesStep DEF IInv, Typed
<1>2. LockIsHeldToArm' /\ NoRearmUnderWay' /\ ReleasedInOrder'
  BY LockStep, NoRearmStep, ReleasedStep DEF IInv, Typed
<1>3. SuppressionsCounted' /\ DroppedIsIdle'
  BY CountedStep, DroppedStep DEF IInv
<1>4. StoppedIsIdle' /\ OwedIsTrue'
  BY StoppedStep, OwedStep DEF IInv
<1> QED BY <1>1, <1>2, <1>3, <1>4 DEF IInv

\* The inductive invariant holds throughout.
THEOREM Inductive == Spec => []IInv
BY IInvInit, IInvStep, PTL DEF Spec

\* Every variable keeps its type; the count never exceeds one per user and one for Drop.
THEOREM TypeCorrect == Spec => []TypeOK
<1>1. ASSUME IInv PROVE TypeOK
  <2>1. suppressed \in 0 .. Cardinality(Users) + 1
    <3>1. StoppersOf(user) \subseteq Users /\ IsFiniteSet(Users)
      BY WaitAssumption DEF StoppersOf
    <3>2. /\ Cardinality(StoppersOf(user)) \in Nat /\ Cardinality(Users) \in Nat
          /\ Cardinality(StoppersOf(user)) <= Cardinality(Users)
      BY <3>1, FS_Subset, FS_CardinalityType
    <3>3. suppressed = Cardinality(StoppersOf(user)) + (IF dropping = "no" THEN 0 ELSE 1)
      BY <1>1 DEF IInv, SuppressionsCounted, StoppersOf, Stopping
    <3> QED BY <3>2, <3>3
  <2> QED BY <1>1, <2>1 DEF IInv, Typed, Flags, Counts, Places, TypeOK
<1> QED BY <1>1, Inductive, PTL

\* The count is exact, for any number of concurrent stops (rearm.rs).
THEOREM CountIsExact == Spec => []SuppressionsCounted
<1>1. IInv => SuppressionsCounted
  BY DEF IInv
<1> QED BY <1>1, Inductive, PTL

\* Drop closes an object that nothing watches, queues for or runs in.
THEOREM DropClosesQuiet == Spec => []ClosedIsQuiet
<1>1. IInv => ClosedIsQuiet
  BY DEF IInv, Typed, Places, DroppedIsIdle, ClosedIsQuiet
<1> QED BY <1>1, Inductive, PTL

\* The context and the watched handle outlive every callback and every watch.
THEOREM NoDangling == Spec => []NothingDangles
<1>1. IInv => NothingDangles
  BY DEF IInv, DroppedIsIdle, ReleasedInOrder, NothingDangles
<1> QED BY <1>1, Inductive, PTL

\* Drop is safe for any number of users, pool threads and re-armings.
THEOREM DropSafe == Spec => []DropIsSafe
<1>1. ClosedIsQuiet /\ NothingDangles => DropIsSafe
  BY DEF DropIsSafe
<1> QED BY <1>1, DropClosesQuiet, NoDangling, PTL

\* A recorded obligation stands for an arming (CloseObligation).
THEOREM ObligationIsTrue == Spec => []OwedIsTrue
<1>1. IInv => OwedIsTrue
  BY DEF IInv
<1> QED BY <1>1, Inductive, PTL

\* stop_and_drain returns with the object idle unless somebody armed it meanwhile.
THEOREM StopGuarantee == Spec => StopLeavesIdle
<1> DEFINE LeavesIdle ==
      \A u \in Users : user[u] = "release" /\ user'[u] = "idle" /\ ~disturbed[u] => ~watching /\ Quiet
<1>1. IInv => LeavesIdle
  BY DEF IInv, StoppedIsIdle, StoppersOf, Stopping
<1>2. [](IInv) => [][LeavesIdle]_vars
  BY <1>1, PTL
<1> QED BY <1>2, Inductive, PTL DEF StopLeavesIdle
=============================================================================
