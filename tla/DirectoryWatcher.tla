-------------------------- MODULE DirectoryWatcher --------------------------
(***************************************************************************)
(* One watched directory: `WatcherInner` and the `DirectoryWatcher` that   *)
(* owns it (crates/windows-file-watcher/src/watcher.rs).                   *)
(*                                                                         *)
(* Four kinds of thread run its code: the completion callbacks of the      *)
(* outstanding read, the retry timer's callback, the callback of the       *)
(* resume work, and the monitor's thread, which adds and removes routes,   *)
(* forwards the clients' answers and finally drops the watcher.  The code  *)
(* is cut where it takes or releases `gate`, `routes` or `reopen_lock`;    *)
(* the two sections that take a second lock while holding one keep the     *)
(* first across a step.                                                    *)
(*                                                                         *)
(* A route's queue is reduced to whether it has room: NotificationQueue    *)
(* shows that room appearing in a full queue prods every registered        *)
(* watcher.  A queue holds one notification here, so any send fills it.    *)
(***************************************************************************)
EXTENDS Naturals, Sequences, FiniteSets

CONSTANTS
    Watches,        \* the subscriptions that may join this directory
    First,          \* the one the watcher is started for
    Widening,       \* those whose scope needs the kernel's subtree reach
    Interactive,    \* those that answer retry questions
    Confirm,        \* those that answer volume-change questions
    Reporting,      \* those that asked for liveness reports
    Completions,    \* threads that run completion callbacks
    Retries,        \* threads that run the retry timer's callback
    MaxFailures,    \* bound on the failures of the file system
    MaxMoves        \* bound on the reopens that land on another volume

Resumer == "resume"
Monitor == "monitor"
Threads == Completions \cup Retries \cup {Resumer, Monitor}
Nobody == "nobody"

VARIABLES
    gate,           \* ArmGate
    endpoint,       \* which tier is installed
    read,           \* the endpoint's outstanding read, or its armed wait
    routes,         \* the watches served
    room,           \* whose queues have room
    fault,          \* FaultState, or NoFault
    volume,         \* VolumeChangeState, or NoVolume
    question,       \* what each standing slot holds, until the client takes it
    replies,        \* answers on their way through the monitor
    timer,          \* the retry timer is set
    work,           \* the resume work is submitted
    stopped,        \* a permanent failure was recorded
    lock,           \* who holds gate, routes and reopen_lock
    stack,          \* where each thread is, and where it returns to
    owned,          \* the DirectoryWatcher has not been dropped
    alive,          \* WatcherInner has not been dropped
    joined,         \* the watches that have joined so far
    registered,     \* those whose queues prod this watcher
    subject,        \* the watches the monitor's present call is about
    failures,
    moves

watching == <<gate, endpoint, read, stopped>>
asking == <<fault, volume, question, replies>>
clients == <<routes, room, joined, registered, subject>>
roster == <<routes, joined, registered, subject>>
pool == <<timer, work>>
refs == <<owned, alive>>
budget == <<failures, moves>>
vars == <<gate, endpoint, read, routes, room, fault, volume, question, replies,
          timer, work, stopped, lock, stack, owned, alive, joined,
          registered, subject, failures, moves>>

NoFault == [held |-> FALSE, awaiting |-> {}]
NoVolume == [held |-> FALSE, awaiting |-> {}, stopping |-> {}]

Gates == {"Open", "Backpressured", "Reopening", "Faulted",
          "VolumeChangePending", "TornDown"}

Free(l) == lock[l] = Nobody

\* Where a thread is: the top of its stack of places.
At(t) == IF stack[t] = <<>> THEN "idle" ELSE Head(stack[t])
Running(t) == At(t) \notin {"idle", "gone"}

\* A callback upgrades a Weak, so it can start only while some strong
\* reference exists: the DirectoryWatcher's or a running callback's.
Upgrades == owned \/ \E t \in Threads : Running(t) /\ At(t) # "drop"

\* Returning from a callback gives its strong reference back.  The last one to
\* do so runs WatcherInner's Drop where it stands.
Last(t) == ~owned /\ \A u \in Threads \ {t} : ~Running(u)
Unwound(t, rest) == IF rest = <<>> /\ Last(t) THEN <<"drop">> ELSE rest

Starts(t, places) == stack' = [stack EXCEPT ![t] = places]
Goes(t, place) == Starts(t, <<place>> \o Tail(stack[t]))
Returns(t) == Starts(t, Unwound(t, Tail(stack[t])))

Fails == failures < MaxFailures /\ failures' = failures + 1

HasRoom == \E w \in routes : w \in room

Init ==
    /\ gate = "Open"
    /\ endpoint = "detailed"
    /\ read = "pending"
    /\ routes = {First}
    /\ room \in {r \in SUBSET Watches : First \in r}
    /\ fault = NoFault
    /\ volume = NoVolume
    /\ question = [w \in Watches |-> "none"]
    /\ replies = {}
    /\ timer = FALSE
    /\ work = FALSE
    /\ stopped = FALSE
    /\ lock = [l \in {"gate", "routes", "reopen"} |-> Nobody]
    /\ stack = [t \in Threads |-> <<>>]
    /\ owned = TRUE
    /\ alive = TRUE
    /\ joined = {First}
    /\ registered = {First}
    /\ subject = {}
    /\ failures = 0
    /\ moves = 0

-----------------------------------------------------------------------------
(***************************************************************************)
(* Arming.  `arm`, `arm_after_install` and `resume_arm` take the gate and  *)
(* differ in the states they refuse; `arm_locked` then reads the routes    *)
(* while it still holds the gate.                                          *)
(***************************************************************************)
ArmRefusedReopening == gate = "Reopening"

ArmRefused == gate \in {"TornDown", "Reopening"}

Arm(c) ==
    /\ At(c) = "arm"
    /\ Free("gate")
    /\ IF ArmRefused
       THEN Returns(c) /\ UNCHANGED lock
       ELSE Goes(c, "look") /\ lock' = [lock EXCEPT !["gate"] = c]
    /\ UNCHANGED <<watching, asking, clients, pool, refs, budget>>

\* install holds reopen_lock for its whole body, and gives it back on return.
Returned(t) == IF lock["reopen"] = t THEN [lock EXCEPT !["reopen"] = Nobody]
               ELSE lock

ArmAfterInstall(t) ==
    /\ At(t) = "armAfterInstall"
    /\ Free("gate")
    /\ IF gate = "TornDown"
       THEN Returns(t) /\ lock' = Returned(t)
       ELSE Goes(t, "look") /\ lock' = [lock EXCEPT !["gate"] = t]
    /\ UNCHANGED <<watching, asking, clients, pool, refs, budget>>

ResumeArm ==
    /\ At(Resumer) = "resume"
    /\ Free("gate")
    /\ IF gate # "Backpressured"
       THEN Returns(Resumer) /\ UNCHANGED lock
       ELSE Goes(Resumer, "look") /\ lock' = [lock EXCEPT !["gate"] = Resumer]
    /\ UNCHANGED <<watching, asking, clients, pool, refs, budget>>

\* The gate is given up, and reopen_lock with it if this arm ends an install.
Armed(t) == [l \in DOMAIN lock |-> IF lock[l] = t THEN Nobody ELSE lock[l]]

\* No route has room: the watcher pauses until a client drains.
Pauses(t) ==
    /\ ~HasRoom
    /\ gate' = "Backpressured"
    /\ lock' = Armed(t)
    /\ Returns(t)
    /\ UNCHANGED <<endpoint, read, failures>>

Submits(t) ==
    /\ HasRoom
    /\ endpoint # "none"
    /\ gate' = "Open"
    /\ read' = IF read = "idle" \/ endpoint = "coarse" THEN "pending" ELSE "doubled"
    /\ lock' = Armed(t)
    /\ Returns(t)
    /\ UNCHANGED <<endpoint, failures>>

\* Where a failed arm goes once the fault is entered: a completed read still
\* publishes the batch it brought, everyone else is done.
AfterFailedArm(t) == SelectSeq(Tail(stack[t]), LAMBDA place : place = "publish")

\* The submission fails, or there is no endpoint to submit to.
SubmitFails(t) ==
    /\ HasRoom
    /\ endpoint # "coarse"
    /\ endpoint = "detailed" => failures < MaxFailures
    /\ failures' = IF endpoint = "detailed" THEN failures + 1 ELSE failures
    /\ gate' = "Open"
    /\ lock' = Armed(t)
    /\ Starts(t, <<"fault">> \o AfterFailedArm(t))
    /\ UNCHANGED <<endpoint, read>>

\* Detailed watching is unsupported: install tears the endpoint down, which
\* has nothing outstanding, and goes on to the coarse tier.
Downgrades(t) ==
    /\ HasRoom
    /\ lock["reopen"] = t
    /\ endpoint = "detailed"
    /\ Fails
    /\ gate' = "Open"
    /\ endpoint' = "none"
    /\ lock' = [lock EXCEPT !["gate"] = Nobody]
    /\ Goes(t, "coarse")
    /\ UNCHANGED read

ArmLocked(t) ==
    /\ At(t) = "look"
    /\ Free("routes")
    /\ Pauses(t) \/ Submits(t) \/ SubmitFails(t) \/ Downgrades(t)
    /\ UNCHANGED <<stopped, asking, clients, pool, refs, moves>>

-----------------------------------------------------------------------------
(***************************************************************************)
(* Completions: `on_completion` and `on_activation`.                       *)
(***************************************************************************)
\* A read, or an activation of the coarse wait, brings changes: the watcher
\* re-arms first and publishes afterwards.
Completes ==
    \E c \in Completions :
        /\ At(c) = "idle"
        /\ read \in {"pending", "cancelled"}
        /\ Upgrades
        /\ read' = "idle"
        /\ Starts(c, <<"arm", IF endpoint = "coarse" THEN "desync" ELSE "publish">>)
        /\ UNCHANGED <<gate, endpoint, stopped, asking, clients, pool, refs,
                       budget, lock>>

\* It brings an error, as when the directory is deleted.
CompletesInError ==
    \E c \in Completions :
        /\ At(c) = "idle"
        /\ read \in {"pending", "cancelled"}
        /\ Upgrades
        /\ Fails
        /\ read' = "idle"
        /\ Starts(c, <<"fault">>)
        /\ UNCHANGED <<gate, endpoint, stopped, asking, clients, pool, refs,
                       moves, lock>>

\* Teardown cancelled it: the callback returns without a word.
CompletesAborted ==
    /\ read = "cancelled"
    /\ read' = "idle"
    /\ UNCHANGED <<gate, endpoint, stopped, asking, clients, pool, refs,
                   budget, lock, stack>>

\* Each route gets the changes its scope selects, and every route a desync.
Publish(c) ==
    /\ At(c) \in {"publish", "desync"}
    /\ Free("routes")
    /\ \E hit \in IF At(c) = "publish" THEN SUBSET routes ELSE {routes} :
           room' = room \ hit
    /\ Returns(c)
    /\ UNCHANGED <<watching, asking, roster, pool, refs, budget, lock>>

-----------------------------------------------------------------------------
(***************************************************************************)
(* Faults: `enter_fault`, the answers, and the retry they schedule.        *)
(***************************************************************************)
EnterFault(t) ==
    /\ At(t) = "fault"
    /\ Free("gate")
    /\ IF gate = "TornDown"
       THEN Returns(t) /\ UNCHANGED gate
       ELSE Goes(t, "ask") /\ gate' = "Faulted"
    /\ UNCHANGED <<endpoint, read, stopped, asking, clients, pool, refs, budget,
                   lock>>

\* Under the routes lock: report, record whose answers are awaited, then ask.
Ask(t) ==
    /\ At(t) = "ask"
    /\ Free("routes")
    /\ room' = room \ (routes \cap Reporting)
    /\ LET asked == routes \cap Interactive
       IN  /\ fault' = [held |-> TRUE, awaiting |-> asked]
           /\ question' = [w \in Watches |-> IF w \in asked THEN "retry" ELSE question[w]]
           /\ IF asked = {} THEN Goes(t, "schedule") ELSE Returns(t)
    /\ UNCHANGED <<watching, volume, replies, roster, pool, refs, budget,
                   lock>>

\* ThreadpoolTimer::set_after, which a drain in progress does not hold back.
Set == timer' = TRUE

ResolveAndSchedule(t) ==
    /\ At(t) = "schedule"
    /\ Set
    /\ Returns(t)
    /\ UNCHANGED <<watching, asking, clients, work, refs, budget, lock>>

\* A client takes a question out of its queue and replies to it.
Replies(w) ==
    /\ question[w] # "none"
    /\ question' = [question EXCEPT ![w] = "none"]
    /\ \E reply \in IF question[w] = "retry" THEN {"retry"} ELSE {"adopt", "stop"} :
           replies' = replies \cup {<<w, reply>>}
    /\ UNCHANGED <<watching, fault, volume, clients, pool, refs, budget, lock, stack>>


Settles(w) ==
    /\ fault' = [fault EXCEPT !.awaiting = @ \ {w}]
    /\ IF fault.awaiting = {w} THEN Set ELSE UNCHANGED timer

Answer(w) ==
    /\ At(Monitor) = "idle" /\ owned
    /\ <<w, "retry">> \in replies
    /\ replies' = replies \ {<<w, "retry">>}
    /\ Settles(w)
    /\ UNCHANGED <<watching, volume, question, clients, work, refs, budget, lock,
                   stack>>

-----------------------------------------------------------------------------
(***************************************************************************)
(* The retry timer's callback: `retry_reestablish`.                        *)
(***************************************************************************)
TimerFires ==
    \E k \in Retries :
        /\ timer
        /\ At(k) = "idle"
        /\ timer' = FALSE
        /\ IF Upgrades THEN Starts(k, <<"retry">>) ELSE UNCHANGED stack
        /\ UNCHANGED <<watching, asking, clients, work, refs, budget, lock>>

\* The directory is opened again by its path.  It opens, on the same volume or
\* on another; or fails for now; or can never be opened again.
Retry(k) ==
    /\ At(k) = "retry"
    /\ Free("gate")
    /\ IF gate = "TornDown"
       THEN Returns(k) /\ UNCHANGED budget
       ELSE \/ Starts(k, <<"install", "resolve">>) /\ UNCHANGED budget
            \/ /\ moves < MaxMoves /\ moves' = moves + 1
               /\ Goes(k, "moved") /\ UNCHANGED failures
            \/ Fails /\ Goes(k, "fault") /\ UNCHANGED moves
            \/ Fails /\ Goes(k, "record") /\ UNCHANGED moves
    /\ UNCHANGED <<watching, asking, clients, pool, refs, lock>>

\* record_stop: the first permanent failure ends the fault for good.
RecordStop(k) ==
    /\ At(k) = "record"
    /\ stopped' = TRUE
    /\ fault' = IF stopped THEN fault ELSE NoFault
    /\ IF stopped THEN Returns(k) ELSE Goes(k, "desync")
    /\ UNCHANGED <<gate, endpoint, read, volume, question, replies, clients, pool,
                   refs, budget, lock>>

\* on_path_based_reopen, on another volume: with the routes locked, nobody to
\* ask means going ahead; otherwise the gate is taken on top of the routes.
Moved(k) ==
    /\ At(k) = "moved"
    /\ Free("routes")
    /\ IF routes \cap Confirm = {}
       THEN Starts(k, <<"install", "resolve">>) /\ UNCHANGED lock
       ELSE /\ Goes(k, "movedAsk")
            /\ lock' = [lock EXCEPT !["routes"] = k]
    /\ UNCHANGED <<watching, asking, clients, pool, refs, budget>>

MovedAsk(k) ==
    /\ At(k) = "movedAsk"
    /\ Free("gate")
    /\ lock' = [lock EXCEPT !["routes"] = Nobody]
    /\ Returns(k)
    /\ LET asked == routes \cap Confirm
       IN  IF gate = "TornDown"
           THEN UNCHANGED <<gate, volume, question>>
           ELSE /\ gate' = "VolumeChangePending"
                /\ volume' = [held |-> TRUE, awaiting |-> asked, stopping |-> {}]
                /\ question' = [w \in Watches |->
                                   IF w \in asked THEN "volume" ELSE question[w]]
    /\ UNCHANGED <<endpoint, read, stopped, fault, replies, clients, pool, refs,
                   budget>>

-----------------------------------------------------------------------------
(***************************************************************************)
(* `install`: take over the gate, retire the old endpoint, establish and   *)
(* arm a new one.                                                          *)
(***************************************************************************)
MayInstallAnyway == TRUE

MayInstall == Free("reopen")

Install(t) ==
    /\ At(t) = "install"
    /\ MayInstall
    /\ Free("gate")
    /\ IF gate = "TornDown"
       THEN Returns(t) /\ UNCHANGED <<gate, lock>>
       ELSE /\ gate' = "Reopening"
            /\ lock' = [lock EXCEPT !["reopen"] = t]
            /\ Goes(t, "teardown")
    /\ UNCHANGED <<endpoint, read, stopped, asking, clients, pool, refs, budget>>

\* The endpoint is taken out and what is outstanding on it cancelled.  A read
\* may complete all the same; a coarse wait is disarmed.
Taken ==
    /\ endpoint' = "none"
    /\ read' = CASE read = "pending" /\ endpoint = "detailed" -> "cancelled"
                 [] endpoint = "coarse" -> "idle"
                 [] OTHER -> read

TeardownEndpoint(t) ==
    /\ At(t) = "teardown"
    /\ Taken
    /\ Goes(t, "rundown")
    /\ UNCHANGED <<gate, stopped, asking, clients, pool, refs, budget, lock>>

\* run_down and stop_and_drain return once nothing is outstanding and no
\* completion callback is running.
RanDown == read = "idle" /\ \A c \in Completions : ~Running(c)

RunDown(t) ==
    /\ At(t) = "rundown"
    /\ RanDown
    /\ Goes(t, "establish")
    /\ UNCHANGED <<watching, asking, clients, pool, refs, budget, lock>>

\* establish_detailed, and establish_coarse after a downgrade.
Establish(t) ==
    /\ At(t) \in {"establish", "coarse"}
    /\ \/ /\ endpoint' = IF At(t) = "coarse" THEN "coarse" ELSE "detailed"
          /\ Goes(t, "armAfterInstall")
          /\ UNCHANGED <<lock, failures>>
       \/ /\ Fails
          /\ lock' = Returned(t)
          /\ Starts(t, <<"fault">>)
          /\ UNCHANGED endpoint
    /\ UNCHANGED <<gate, read, stopped, asking, clients, pool, refs, moves>>

\* resolve_fault_success, once install has returned: forget the fault, then
\* tell every route it must rescan, then that watching has resumed.
ResolveFaultSuccess(t) ==
    /\ At(t) = "resolve"
    /\ fault' = NoFault
    /\ Goes(t, "reestablished")
    /\ UNCHANGED <<watching, volume, question, replies, clients, pool, refs, budget,
                   lock>>

Reestablished(t) ==
    /\ At(t) \in {"reestablished", "resumed"}
    /\ Free("routes")
    /\ room' = room \ IF At(t) = "resumed" THEN routes \cap Reporting ELSE routes
    /\ IF At(t) = "resumed" THEN Returns(t) ELSE Goes(t, "resumed")
    /\ UNCHANGED <<watching, asking, roster, pool, refs, budget, lock>>

-----------------------------------------------------------------------------
(***************************************************************************)
(* The client drains, and the resume work runs.                            *)
(***************************************************************************)
Drains(w) ==
    /\ w \in joined \ room
    /\ room' = room \cup {w}
    /\ work' = (work \/ (w \in registered /\ Upgrades))
    /\ UNCHANGED <<watching, asking, roster, timer, refs, budget, lock, stack>>

Resume ==
    /\ work
    /\ At(Resumer) = "idle"
    /\ work' = FALSE
    /\ IF Upgrades THEN Starts(Resumer, <<"resume">>)
       ELSE UNCHANGED stack
    /\ UNCHANGED <<watching, asking, clients, timer, refs, budget, lock>>

-----------------------------------------------------------------------------
(***************************************************************************)
(* The monitor's thread: `add_route`, `remove_route`, the answers to a     *)
(* volume change, and dropping the watcher.                                *)
(***************************************************************************)
Called(step) == At(Monitor) = step /\ owned

AddRoute(w) ==
    /\ Called("idle")
    /\ w \notin joined
    /\ Free("routes")
    /\ routes' = routes \cup {w}
    /\ joined' = joined \cup {w}
    /\ subject' = {w}
    /\ Starts(Monitor, IF w \in Widening /\ routes \cap Widening = {}
                       THEN <<"register", "widen">> ELSE <<"register">>)
    /\ UNCHANGED <<watching, asking, room, registered, pool, refs, budget, lock>>

RegisterResume ==
    /\ Called("register")
    /\ registered' = registered \cup subject
    /\ subject' = {}
    /\ Returns(Monitor)
    /\ UNCHANGED <<watching, asking, routes, room, joined, pool, refs, budget, lock>>

\* A new recursive route reopens the directory, but only an open gate's.
Widen ==
    /\ Called("widen")
    /\ Free("gate")
    /\ IF gate = "Open" THEN Goes(Monitor, "install") ELSE Returns(Monitor)
    /\ UNCHANGED <<watching, asking, clients, pool, refs, budget, lock>>

RemoveRoute(w) ==
    /\ Called("idle")
    /\ w \in routes
    /\ Free("routes")
    /\ routes' = routes \ {w}
    /\ subject' = {w}
    /\ Starts(Monitor, <<"unfault">>)
    /\ UNCHANGED <<watching, asking, room, joined, registered, pool, refs, budget,
                   lock>>

RemoveFromFault ==
    /\ Called("unfault")
    /\ \E w \in subject : Settles(w)
    /\ Goes(Monitor, "unvolume")
    /\ UNCHANGED <<watching, volume, question, replies, clients, work, refs, budget,
                   lock>>

\* The last answer awaited about a volume change resolves it.
Decides(w, stopping) ==
    /\ volume' = [volume EXCEPT !.awaiting = @ \ {w}, !.stopping = @ \cup stopping]
    /\ Starts(Monitor, IF volume.awaiting = {w} THEN <<"decide">> ELSE <<>>)

RemoveFromVolumeChange ==
    /\ Called("unvolume")
    /\ \E w \in subject : Decides(w, {})
    /\ subject' = {}
    /\ UNCHANGED <<watching, fault, question, replies, routes, room, joined,
                   registered, pool, refs, budget, lock>>

AnswerVolumeChange(w, decision) ==
    /\ Called("idle")
    /\ <<w, decision>> \in replies
    /\ replies' = replies \ {<<w, decision>>}
    /\ Decides(w, IF decision = "stop" /\ w \in volume.awaiting THEN {w} ELSE {})
    /\ UNCHANGED <<watching, fault, question, clients, pool, refs, budget, lock>>

\* resolve_volume_change takes the pending state out, drops the routes that
\* said stop, and installs the handle unless none is left.
TakeVolumeChange ==
    /\ Called("decide")
    /\ subject' = volume.stopping
    /\ volume' = NoVolume
    /\ Goes(Monitor, "depart")
    /\ UNCHANGED <<watching, fault, question, replies, routes, room, joined,
                   registered, pool, refs, budget, lock>>

Depart ==
    /\ Called("depart")
    /\ Free("routes")
    /\ routes' = routes \ subject
    /\ subject' = {}
    /\ IF routes \subseteq subject THEN Returns(Monitor)
       ELSE Starts(Monitor, <<"install", "resolve">>)
    /\ UNCHANGED <<watching, asking, room, joined, registered, pool, refs, budget,
                   lock>>

\* DirectoryWatcher::stop, which its Drop calls: close the gate, stop the timer
\* and wait for its callback, then retire the endpoint.
Stop ==
    /\ Called("idle")
    /\ Free("gate")
    /\ gate' = "TornDown"
    /\ timer' = FALSE
    /\ Starts(Monitor, <<"drain">>)
    /\ UNCHANGED <<endpoint, read, stopped, asking, clients, work, refs, budget,
                   lock>>

StopDrains ==
    /\ Called("drain")
    /\ \A k \in Retries : ~Running(k)
    /\ Goes(Monitor, "stopTeardown")
    /\ UNCHANGED <<watching, asking, clients, pool, refs, budget, lock>>

StopTearsDown ==
    /\ Called("stopTeardown")
    /\ Taken
    /\ Goes(Monitor, "stopRundown")
    /\ UNCHANGED <<gate, stopped, asking, clients, pool, refs, budget, lock>>

StopReturns ==
    /\ Called("stopRundown")
    /\ RanDown
    /\ owned' = FALSE
    /\ Starts(Monitor, IF \A t \in Threads \ {Monitor} : ~Running(t)
                       THEN <<"drop">> ELSE <<"gone">>)
    /\ UNCHANGED <<watching, asking, clients, pool, alive, budget, lock>>

\* WatcherInner's Drop takes out what endpoint there is and drains the resume work
\* and the timer: each waits until no callback of that object is running.
DropInner(t) ==
    /\ At(t) = "drop"
    /\ ~Running(Resumer)
    /\ \A k \in Retries : ~Running(k)
    /\ alive' = FALSE
    /\ Taken
    /\ work' = FALSE
    /\ timer' = FALSE
    /\ routes' = {}
    /\ Starts(t, <<"gone">>)
    /\ UNCHANGED <<gate, stopped, asking, room, joined, registered, subject, owned, budget,
                   lock>>

-----------------------------------------------------------------------------
Callback(t) ==
    \/ ArmLocked(t) \/ EnterFault(t) \/ Ask(t) \/ ResolveAndSchedule(t)
    \/ DropInner(t)

Opener(t) ==
    \/ Install(t) \/ TeardownEndpoint(t) \/ RunDown(t) \/ Establish(t)
    \/ ArmAfterInstall(t) \/ ResolveFaultSuccess(t) \/ Reestablished(t)

CompletionStep(c) == Arm(c) \/ Publish(c)
RetryStep(k) == Retry(k) \/ RecordStop(k) \/ Moved(k) \/ MovedAsk(k) \/ Publish(k)

MonitorStep ==
    \/ RegisterResume \/ Widen \/ RemoveFromFault \/ RemoveFromVolumeChange
    \/ TakeVolumeChange \/ Depart \/ StopDrains \/ StopTearsDown \/ StopReturns

MonitorCall ==
    \/ \E w \in Watches : AddRoute(w) \/ RemoveRoute(w) \/ Answer(w)
    \/ \E w \in Watches, decision \in {"adopt", "stop"} : AnswerVolumeChange(w, decision)
    \/ Stop

Next ==
    \/ Completes \/ CompletesInError \/ CompletesAborted
    \/ TimerFires \/ Resume \/ ResumeArm
    \/ \E t \in Threads : Callback(t)
    \/ \E t \in Retries \cup {Monitor} : Opener(t)
    \/ \E c \in Completions : CompletionStep(c)
    \/ \E k \in Retries : RetryStep(k)
    \/ MonitorStep \/ MonitorCall
    \/ \E w \in Watches : Drains(w) \/ Replies(w)

Spec == Init /\ [][Next]_vars

-----------------------------------------------------------------------------
(***************************************************************************)
(* Properties                                                              *)
(***************************************************************************)
TypeOK ==
    /\ gate \in Gates
    /\ endpoint \in {"none", "detailed", "coarse"}
    /\ read \in {"idle", "pending", "cancelled", "doubled"}
    /\ routes \subseteq joined /\ registered \subseteq joined
    /\ joined \subseteq Watches /\ room \subseteq Watches
    /\ fault.awaiting \subseteq joined
    /\ volume.awaiting \cup volume.stopping \subseteq joined
    /\ question \in [Watches -> {"none", "retry", "volume"}]
    /\ lock \in [{"gate", "routes", "reopen"} -> Threads \cup {Nobody}]
    /\ failures \in 0..MaxFailures /\ moves \in 0..MaxMoves

\* No thread is inside the watcher, which has not been dropped.
AtRest == owned /\ \A t \in Threads : ~Running(t)

\* A question put to a watch that it can still take, or its answer on the way.
Asked(w) == question[w] = "retry" \/ <<w, "retry">> \in replies
AskedVolume(w) ==
    question[w] = "volume" \/ \E d \in {"adopt", "stop"} : <<w, d>> \in replies

\* The timer is set, or an answer the fault awaits can still set it.
RetryToCome == timer \/ \E w \in fault.awaiting : Asked(w)


(***************************************************************************)
(* Two reads are never outstanding on one directory handle: they would     *)
(* share its change stream.  arm, resume_arm and install can all submit    *)
(* one, from different threads; the gate and reopen_lock keep them apart.  *)
(***************************************************************************)
OneRead == read # "doubled"

(***************************************************************************)
(* Once DirectoryWatcher::stop has returned, the directory is let go of    *)
(* for good: no endpoint, nothing outstanding, no completion callback, and *)
(* the gate closed, whatever retries, resumes and faults were under way.   *)
(***************************************************************************)
StopIsFinal ==
    ~owned => /\ endpoint = "none"
              /\ read = "idle"
              /\ gate = "TornDown"
              /\ \A c \in Completions : ~Running(c)

(***************************************************************************)
(* WatcherInner's Drop is never run by a callback of the objects it        *)
(* drains.  stop() waits for the timer and for the endpoint, but not for   *)
(* the resume work, and a callback that outlives the DirectoryWatcher      *)
(* holds the last reference: dropping it there waits for the work's        *)
(* callbacks from inside one of them, and the routes' senders are never    *)
(* released.  The closing comment of DirectoryWatcher's Drop has every     *)
(* callback finished by then.                                              *)
(***************************************************************************)
DropSparesItself == \A t \in Retries \cup {Resumer} : At(t) # "drop"

(***************************************************************************)
(* Nor do the following hold of the code; the README tells the behaviours  *)
(* that break them.                                                        *)
(***************************************************************************)
\* A faulted watcher that is at rest and has not stopped remembers its fault.
FaultIsHeld == AtRest /\ gate = "Faulted" /\ ~stopped => fault.held

\* Two threads never hold gate and routes while waiting for the other one.
NoLockCycle == ~ \E t, u \in Threads : At(t) = "look" /\ At(u) = "movedAsk"

\* A watcher at rest is paused only while every route's queue is full.
PausedOnlyWhenFull == AtRest /\ gate = "Backpressured" /\ HasRoom => work

\* A subscription's standing slot serves one question at a time.
OneQuestion == fault.awaiting \cap volume.awaiting = {}

\* Nothing is about to be enqueued once stop() has returned.
NothingEnqueuedAfterStop ==
    ~owned => \A t \in Threads :
        At(t) \notin {"ask", "publish", "desync", "reestablished", "resumed"}
=============================================================================
