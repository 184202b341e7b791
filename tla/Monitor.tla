------------------------------ MODULE Monitor -------------------------------
(***************************************************************************)
(* The monitor's resident state: which subscription is served by which     *)
(* watcher, and which watcher watches which directory                      *)
(* (crates/windows-file-watcher/src/monitor.rs, with the requests of       *)
(* watch.rs and session.rs).                                               *)
(*                                                                         *)
(* Requests are applied one at a time, in order, by the servicing path     *)
(* (module Servicer).  Three other parties touch the resident state: the   *)
(* retry timer of a watcher, whose callback reopens the path and, finding  *)
(* another directory there, moves the watcher to its new key; the retry    *)
(* timer of a subscription still waiting for its target; and shut_down.    *)
(* A section under the resident lock is one step, save the one that drops  *)
(* a watcher without letting go of the lock.                               *)
(*                                                                         *)
(* A path leads to a directory, to nothing (retryable) or to something     *)
(* that can never be watched; the file system changes that at any time.    *)
(* Of a watcher (module DirectoryWatcher) this module keeps its path, the  *)
(* identity it believes it has, its routes, whether it stopped for good,   *)
(* whether it is asking about a volume change, and its retry callback.     *)
(***************************************************************************)
EXTENDS Naturals, Sequences, FiniteSets, Functions, SequencesExt

CONSTANTS
    Watches,        \* subscriptions, each made and cancelled at most once
    Paths,
    PathOf,         \* the path each subscription names
    Dirs,           \* directory identities
    Watchers,       \* watcher instances that may exist at once
    Interactive,    \* subscriptions that answer retry questions
    MaxMoves        \* bound on changes of the file system

VARIABLES
    target,         \* where each path leads
    moves,
    open,           \* the servicing path accepts requests
    requests,       \* its queue
    service,        \* what it is doing, and for whom
    held,           \* the servicing path holds the resident lock across a wait
    subscriptions,  \* Resident.subscriptions
    directories,    \* Resident.directories
    watcher,        \* the watchers themselves
    callback,       \* each watcher's retry callback
    closer,         \* the thread in shut_down
    dropping,       \* the watchers it has taken out and not yet dropped
    question,       \* retry questions the clients have not answered
    made,           \* subscriptions made, cancelled
    sent            \* what each subscription has been told for good

files == <<target, moves>>
path == <<open, requests, service, held>>
resident == <<subscriptions, directories>>
threads == <<watcher, callback>>
ending == <<closer, dropping>>
client == <<question, made, sent>>
vars == <<target, moves, open, requests, service, held, subscriptions, directories,
          watcher, callback, closer, dropping, question, made, sent>>

None == "none"
NotThere == {"missing", "unwatchable"}

NoSubscription == [state |-> "absent", dir |-> None, timer |-> FALSE, awaiting |-> FALSE]
Pending(asks) == [state |-> "pending", dir |-> None, timer |-> ~asks, awaiting |-> asks]
Routed(d) == [state |-> "routed", dir |-> d, timer |-> FALSE, awaiting |-> FALSE]

NoWatcher == [life |-> "none", path |-> None, id |-> None, on |-> None,
              routes |-> {}, stopped |-> FALSE, asking |-> FALSE]

Idle == [at |-> "idle", watch |-> None, dir |-> None, drop |-> None, first |-> FALSE]
NoCallback == [at |-> "idle", old |-> None, drop |-> None]

Init ==
    /\ target \in [Paths -> Dirs]
    /\ moves = 0
    /\ open = TRUE
    /\ requests = <<>>
    /\ service = Idle
    /\ held = FALSE
    /\ subscriptions = [w \in Watches |-> NoSubscription]
    /\ directories = [d \in Dirs |-> None]
    /\ watcher = [x \in Watchers |-> NoWatcher]
    /\ callback = [x \in Watchers |-> NoCallback]
    /\ closer = "running"
    /\ dropping = {}
    /\ question = {}
    /\ made = [w \in Watches |-> "no"]
    /\ sent = [w \in Watches |-> {}]

Busy(x) == callback[x].at # "idle"

\* The retry callback's own check of the gate, which stop() has closed.
Torn(x) == watcher[x].life # "live"

Tell(w, what) == sent' = [sent EXCEPT ![w] = @ \cup {what}]

-----------------------------------------------------------------------------
(***************************************************************************)
(* The clients, the file system and the timers of pending subscriptions.   *)
(***************************************************************************)
Enqueue(op, w) == requests' = Append(requests, [op |-> op, watch |-> w])

\* Session::subscribe, then Watch::cancel or the Watch's Drop: once each.
Submit(w) ==
    /\ open
    /\ made[w] # "cancelled"
    /\ IF made[w] = "no"
       THEN Enqueue("subscribe", w) /\ made' = [made EXCEPT ![w] = "subscribed"]
       ELSE Enqueue("cancel", w) /\ made' = [made EXCEPT ![w] = "cancelled"]
    /\ UNCHANGED <<files, open, service, held, resident, threads, ending, question, sent>>

AnswersRetry(w) ==
    /\ open
    /\ w \in question
    /\ question' = question \ {w}
    /\ Enqueue("answer", w)
    /\ UNCHANGED <<files, open, service, held, resident, threads, ending, made, sent>>

\* A watcher asking about a volume change is answered by one of its routes.
AnswersVolumeChange(w) ==
    /\ open
    /\ \E x \in Watchers : watcher[x].asking /\ w \in watcher[x].routes
    /\ ~ \E i \in 1..Len(requests) : requests[i] = [op |-> "volume", watch |-> w]
    /\ Enqueue("volume", w)
    /\ UNCHANGED <<files, open, service, held, resident, threads, ending, client>>

\* The retry timer of a pending subscription submits a Retry.
PendingFires(w) ==
    /\ subscriptions[w].timer
    /\ subscriptions' = [subscriptions EXCEPT ![w].timer = FALSE]
    /\ IF open THEN Enqueue("retry", w) ELSE UNCHANGED requests
    /\ UNCHANGED <<files, open, service, held, directories, threads, ending, client>>

Moves(p) ==
    /\ moves < MaxMoves
    /\ moves' = moves + 1
    /\ \E there \in (Dirs \cup NotThere) \ {target[p]} : target' = [target EXCEPT ![p] = there]
    /\ UNCHANGED <<path, resident, threads, ending, client>>

-----------------------------------------------------------------------------
(***************************************************************************)
(* The servicing path.                                                     *)
(***************************************************************************)
Request == Head(requests)
Takes(op) == service = Idle /\ requests # <<>> /\ Request.op = op

\* Start on a Subscribe, or on the Retry of a subscription still pending, which
\* leaves the table meanwhile.
BeginSubscribe ==
    /\ Takes("subscribe")
    /\ service' = [Idle EXCEPT !.at = "open", !.watch = Request.watch, !.first = TRUE]
    /\ requests' = Tail(requests)
    /\ UNCHANGED <<files, open, held, resident, threads, ending, client>>

BeginRetry ==
    /\ Takes("retry")
    /\ requests' = Tail(requests)
    /\ IF subscriptions[Request.watch].state = "pending"
       THEN /\ subscriptions' = [subscriptions EXCEPT ![Request.watch] = NoSubscription]
            /\ service' = [Idle EXCEPT !.at = "open", !.watch = Request.watch]
       ELSE UNCHANGED <<subscriptions, service>>
    /\ UNCHANGED <<files, open, held, directories, threads, ending, client>>

\* The Subscribe's completion is sent when it is done; a Retry has none left.
Done == /\ service' = Idle
        /\ IF service.first THEN Tell(service.watch, "replied") ELSE UNCHANGED sent

Fail == service' = Idle /\ Tell(service.watch, "failed")

\* park_pending: the subscription waits for its target, by timer or by answer.
Park ==
    /\ subscriptions' = [subscriptions EXCEPT ![service.watch] =
                            Pending(service.watch \in Interactive)]
    /\ question' = question \cup ({service.watch} \cap Interactive)
    /\ Done

\* It gives up if no timer can be made; a Retry that finds its target still
\* missing has one already.
CannotPark == Fail /\ UNCHANGED <<subscriptions, question>>

Open ==
    LET there == target[PathOf[service.watch]]
    IN  /\ service.at = "open"
        /\ CASE there = "missing" -> Park \/ (service.first /\ CannotPark)
             [] there = "unwatchable" -> Fail /\ UNCHANGED <<subscriptions, question>>
             [] OTHER -> /\ service' = [service EXCEPT !.at = "route", !.dir = there]
                         /\ UNCHANGED <<subscriptions, question, sent>>
        /\ UNCHANGED <<files, open, requests, held, directories, threads, ending, made>>

\* The watcher in the table for a directory, unless it stopped for good.
Living(d) == {x \in Watchers : directories[d] = x /\ ~watcher[x].stopped}

\* route_established joins the directory's watcher if it has a living one.
Coalesce ==
    /\ service.at = "route"
    /\ \E x \in Living(service.dir) :
           watcher' = [watcher EXCEPT ![x].routes = @ \cup {service.watch}]
    /\ subscriptions' = [subscriptions EXCEPT ![service.watch] = Routed(service.dir)]
    /\ Done
    /\ UNCHANGED <<files, open, requests, held, directories, callback, ending, question,
                   made>>

\* Otherwise what is left there is taken out under the lock and dropped after.
Closed(xs) == [x \in Watchers |->
                  IF x \in xs THEN [watcher[x] EXCEPT !.life = "stopping"] ELSE watcher[x]]

Discard ==
    /\ service.at = "route"
    /\ Living(service.dir) = {}
    /\ directories' = [directories EXCEPT ![service.dir] = None]
    /\ watcher' = Closed({directories[service.dir]})
    /\ service' = [service EXCEPT !.at = "discard", !.drop = directories[service.dir]]
    /\ UNCHANGED <<files, open, requests, held, subscriptions, callback, ending, client>>

\* A drop returns once the watcher's retry callback has; then it is no more.
Dropped(x) == x \in Watchers => ~Busy(x)
Gone(x) == [y \in Watchers |-> IF y = x THEN NoWatcher ELSE watcher[y]]

Discarded ==
    /\ service.at = "discard"
    /\ Dropped(service.drop)
    /\ watcher' = Gone(service.drop)
    /\ service' = [service EXCEPT !.at = "start", !.drop = None]
    /\ UNCHANGED <<files, open, requests, held, resident, callback, ending, client>>

\* DirectoryWatcher::start, outside the lock.  Its read may fail to arm, which
\* parks the subscription.
Start ==
    /\ service.at = "start"
    /\ \/ \E x \in Watchers :
              /\ watcher[x] = NoWatcher
              /\ watcher' = [watcher EXCEPT ![x] =
                     [life |-> "live", path |-> PathOf[service.watch], id |-> service.dir,
                      on |-> service.dir, routes |-> {service.watch}, stopped |-> FALSE,
                      asking |-> FALSE]]
              /\ service' = [service EXCEPT !.at = "insert", !.drop = x]
              /\ UNCHANGED <<subscriptions, question, sent>>
       \/ (Park \/ CannotPark) /\ UNCHANGED watcher
    /\ UNCHANGED <<files, open, requests, held, directories, callback, ending, made>>

\* The new watcher enters the table under the directory it was opened on.  One
\* found there is dropped by the insertion itself, under the lock.
Insert ==
    LET found == directories[service.dir]
    IN  /\ service.at = "insert"
        /\ directories' = [directories EXCEPT ![service.dir] = service.drop]
        /\ watcher' = Closed({found})
        /\ IF found = None
           THEN /\ subscriptions' = [subscriptions EXCEPT ![service.watch] =
                                        Routed(service.dir)]
                /\ Done
                /\ UNCHANGED held
           ELSE /\ service' = [service EXCEPT !.at = "replace", !.drop = found]
                /\ held' = TRUE
                /\ UNCHANGED <<subscriptions, sent>>
        /\ UNCHANGED <<files, open, requests, callback, ending, question, made>>

Replaced ==
    /\ service.at = "replace"
    /\ Dropped(service.drop)
    /\ watcher' = Gone(service.drop)
    /\ subscriptions' = [subscriptions EXCEPT ![service.watch] = Routed(service.dir)]
    /\ held' = FALSE
    /\ Done
    /\ UNCHANGED <<files, open, requests, directories, callback, ending, question, made>>

\* Some routes leave watcher x, found under d; the last to go takes it along.
\* A volume change settled on the way installs the handle it was asked about.
Leave(x, d, leaving, settled, at) ==
    LET left == watcher[x].routes \ leaving
    IN  /\ watcher' = [watcher EXCEPT
               ![x].routes = left,
               ![x].life = IF left = {} THEN "stopping" ELSE @,
               ![x].asking = @ /\ ~settled,
               ![x].on = IF settled /\ left # {} THEN watcher[x].id ELSE @]
        /\ directories' = [directories EXCEPT ![d] = IF left = {} THEN None ELSE @]
        /\ subscriptions' = [w \in Watches |->
                                IF w \in leaving THEN NoSubscription ELSE subscriptions[w]]
        /\ service' = [Idle EXCEPT !.at = at, !.watch = Request.watch,
                                   !.drop = IF left = {} THEN x ELSE None]

\* The watcher a subscription's table entry leads to.
Serving(w) == {x \in Watchers : /\ subscriptions[w].state = "routed"
                                /\ directories[subscriptions[w].dir] = x}

\* Request::Cancel.  If the watch was the last one asked about a volume change,
\* its removal settles the question, and others may turn out to have said stop.
Cancel ==
    LET w == Request.watch
    IN  /\ Takes("cancel")
        /\ requests' = Tail(requests)
        /\ \/ \E x \in Serving(w) :
                  \/ Leave(x, subscriptions[w].dir, {w}, FALSE, "cancel")
                  \/ /\ watcher[x].asking
                     /\ \E stopped \in SUBSET watcher[x].routes :
                            Leave(x, subscriptions[w].dir, stopped \cup {w}, TRUE, "cancel")
           \/ /\ Serving(w) = {}
              /\ subscriptions' = [subscriptions EXCEPT ![w] = NoSubscription]
              /\ service' = [Idle EXCEPT !.at = "cancel", !.watch = w]
              /\ UNCHANGED <<directories, watcher>>
        /\ UNCHANGED <<files, open, held, callback, ending, client>>

\* answer_volume_change: nothing yet, or the last answer, by which some routes
\* stop.
AnswerVolumeChange ==
    LET w == Request.watch
    IN  /\ Takes("volume")
        /\ requests' = Tail(requests)
        /\ \/ /\ UNCHANGED <<subscriptions, directories, watcher, service>>
           \/ \E x \in Serving(w) :
                  /\ watcher[x].asking /\ w \in watcher[x].routes
                  /\ \E stopped \in SUBSET watcher[x].routes :
                         Leave(x, subscriptions[w].dir, stopped, TRUE, "volume")
        /\ UNCHANGED <<files, open, held, callback, ending, client>>

\* The watcher left without routes is dropped outside the lock, and only then
\* is Cancelled sent.
TornDown ==
    /\ service.at \in {"cancel", "volume"}
    /\ Dropped(service.drop)
    /\ watcher' = Gone(service.drop)
    /\ service' = Idle
    /\ IF service.at = "cancel" THEN Tell(service.watch, "cancelled") ELSE UNCHANGED sent
    /\ UNCHANGED <<files, open, requests, held, resident, callback, ending, question, made>>

\* An answer to a pending subscription's question sets its timer; one to a
\* watcher's question is the watcher's affair (module DirectoryWatcher).
AnsweredUntimed(w) ==
    IF subscriptions[w].state = "pending" /\ subscriptions[w].awaiting
    THEN [subscriptions EXCEPT ![w].awaiting = FALSE]
    ELSE subscriptions

Answered(w) ==
    IF subscriptions[w].state = "pending" /\ subscriptions[w].awaiting
    THEN [subscriptions EXCEPT ![w].awaiting = FALSE, ![w].timer = TRUE]
    ELSE subscriptions

Answer ==
    /\ Takes("answer")
    /\ requests' = Tail(requests)
    /\ subscriptions' = Answered(Request.watch)
    /\ UNCHANGED <<files, open, service, held, directories, threads, ending, client>>

-----------------------------------------------------------------------------
(***************************************************************************)
(* A watcher's retry callback: `retry_reestablish` and what follows it.    *)
(***************************************************************************)
CallbackGoes(x, next) == callback' = [callback EXCEPT ![x] = next]

\* The watched directory is gone from under its path, so the read fails and the
\* retry timer is set; it fires.
Fires(x) ==
    /\ watcher[x].life = "live" /\ ~watcher[x].stopped
    /\ target[watcher[x].path] # watcher[x].on
    /\ callback[x].at = "idle"
    /\ CallbackGoes(x, [NoCallback EXCEPT !.at = "retry"])
    /\ UNCHANGED <<files, path, resident, watcher, ending, client>>

\* The path is opened again.  The watcher's idea of its identity changes at
\* once, its key in the table only with the resident lock.
Retry(x) ==
    LET there == target[watcher[x].path]
    IN  /\ callback[x].at = "retry"
        /\ IF Torn(x) \/ there \in NotThere
           THEN /\ CallbackGoes(x, NoCallback)
                /\ watcher' = [watcher EXCEPT
                       ![x].stopped = @ \/ (~Torn(x) /\ there = "unwatchable")]
           ELSE /\ CallbackGoes(x, [NoCallback EXCEPT
                       !.at = IF there = watcher[x].id THEN "install" ELSE "rekey",
                       !.old = watcher[x].id])
                /\ watcher' = [watcher EXCEPT ![x].id = there]
        /\ UNCHANGED <<files, path, resident, ending, client>>

\* What rekey makes of the subscriptions: those under the old key are now under
\* the new one, and those that could not be handed over are gone.
RehomedNot(old, new, lost) ==
    [w \in Watches |-> IF w \in lost THEN NoSubscription ELSE subscriptions[w]]

Rehomed(old, new, lost) ==
    [w \in Watches |-> IF w \in lost THEN NoSubscription
                       ELSE IF subscriptions[w] = Routed(old) THEN Routed(new)
                       ELSE subscriptions[w]]

\* rekey: the watcher found under the old key moves to the new one.  Another
\* found there hands its routes over, or its subscriptions fail if the path
\* can no longer be opened, and is dropped once the lock is released.
Rekey(x) ==
    LET old == callback[x].old
        new == watcher[x].id
        mover == directories[old]
        found == directories[new]
        handed == IF found = None THEN {} ELSE watcher[found].routes
        kept == IF target[watcher[mover].path] \in NotThere THEN {} ELSE handed
    IN  /\ callback[x].at = "rekey"
        /\ ~held
        /\ IF mover = None
           THEN /\ CallbackGoes(x, [NoCallback EXCEPT !.at = "install"])
                /\ UNCHANGED <<watcher, resident, sent>>
           ELSE /\ CallbackGoes(x, [NoCallback EXCEPT
                       !.at = IF found = None THEN "install" ELSE "drop", !.drop = found])
                /\ watcher' = [y \in Watchers |->
                       CASE y = mover -> [watcher[y] EXCEPT !.routes = @ \cup kept]
                         [] y = found -> [watcher[y] EXCEPT !.routes = {}, !.life = "stopping"]
                         [] OTHER -> watcher[y]]
                /\ directories' = [directories EXCEPT ![old] = None, ![new] = mover]
                /\ subscriptions' = Rehomed(old, new, handed \ kept)
                /\ sent' = [w \in Watches |-> IF w \in handed \ kept
                                              THEN sent[w] \cup {"failed"} ELSE sent[w]]
        /\ UNCHANGED <<files, path, ending, question, made>>

DropFound(x) ==
    /\ callback[x].at = "drop"
    /\ Dropped(callback[x].drop)
    /\ watcher' = Gone(callback[x].drop)
    /\ CallbackGoes(x, [NoCallback EXCEPT !.at = "install"])
    /\ UNCHANGED <<files, path, resident, ending, client>>

\* The reopened directory is installed, or its volume is another one and the
\* routes are asked about it first.
Install(x) ==
    /\ callback[x].at = "install"
    /\ CallbackGoes(x, NoCallback)
    /\ IF Torn(x) THEN UNCHANGED watcher
       ELSE \/ watcher' = [watcher EXCEPT ![x].on = watcher[x].id]
            \/ watcher[x].routes # {} /\ watcher' = [watcher EXCEPT ![x].asking = TRUE]
    /\ UNCHANGED <<files, path, resident, ending, client>>

-----------------------------------------------------------------------------
(***************************************************************************)
(* shut_down: close the servicing path and wait for it, take everything    *)
(* out of the table, drop the watchers one by one.                         *)
(***************************************************************************)
ShutDown ==
    /\ closer = "running"
    /\ closer' = "closing"
    /\ open' = FALSE
    /\ requests' = <<>>
    /\ UNCHANGED <<files, service, held, resident, threads, dropping, client>>

MayTakeAnyway == TRUE

MayTake == service = Idle

TakeAll ==
    /\ closer = "closing"
    /\ MayTake
    /\ closer' = "dropping"
    /\ dropping' = Range(directories) \ {None}
    /\ directories' = [d \in Dirs |-> None]
    /\ subscriptions' = [w \in Watches |-> NoSubscription]
    /\ UNCHANGED <<files, path, threads, client>>

\* Each is stopped in turn, which waits for its retry callback.
DropOne(x) ==
    /\ closer = "dropping"
    /\ x \in dropping
    /\ IF watcher[x].life = "live"
       THEN watcher' = Closed({x}) /\ UNCHANGED dropping
       ELSE /\ Dropped(x)
            /\ watcher' = Gone(x)
            /\ dropping' = dropping \ {x}
    /\ UNCHANGED <<files, path, resident, callback, closer, client>>

AllDropped ==
    /\ closer = "dropping"
    /\ dropping = {}
    /\ closer' = "down"
    /\ UNCHANGED <<files, path, resident, threads, dropping, client>>

-----------------------------------------------------------------------------
Servicing ==
    \/ BeginSubscribe \/ BeginRetry \/ Open \/ Coalesce \/ Discard \/ Discarded
    \/ Start \/ Insert \/ Replaced \/ Cancel \/ AnswerVolumeChange \/ TornDown
    \/ Answer

Callback(x) == Fires(x) \/ Retry(x) \/ Rekey(x) \/ DropFound(x) \/ Install(x)

Next ==
    \/ \E w \in Watches : Submit(w) \/ AnswersRetry(w) \/ AnswersVolumeChange(w)
                          \/ PendingFires(w)
    \/ \E p \in Paths : Moves(p)
    \/ Servicing
    \/ \E x \in Watchers : Callback(x)
    \/ ShutDown \/ TakeAll \/ (\E x \in Watchers : DropOne(x)) \/ AllDropped

Spec == Init /\ [][Next]_vars

-----------------------------------------------------------------------------
(***************************************************************************)
(* Properties                                                              *)
(***************************************************************************)
TypeOK ==
    /\ target \in [Paths -> Dirs \cup NotThere]
    /\ subscriptions \in [Watches -> {NoSubscription} \cup {Routed(d) : d \in Dirs}
                              \cup [state : {"pending"}, dir : {None},
                                    timer : BOOLEAN, awaiting : BOOLEAN]]
    /\ directories \in [Dirs -> Watchers \cup {None}]
    /\ \A x \in Watchers : watcher[x].routes \subseteq Watches
    /\ service.at # "idle" => service.watch \in Watches
    /\ dropping \subseteq Watchers
    /\ question \subseteq Watches

(***************************************************************************)
(* Cancelled is the last word on a subscription: once it is sent, no       *)
(* watcher has a route for it through which anything could follow.  The    *)
(* Cancel finds the route through two tables, while retry callbacks move   *)
(* watchers from key to key, merge them, and a fresh watcher is started    *)
(* beside them (monitor.rs, the comment in Request::Cancel: "nothing from  *)
(* this subscription can be enqueued after this point").                   *)
(***************************************************************************)
CancelledIsLast ==
    \A w \in Watches : "cancelled" \in sent[w] =>
        \A x \in Watchers : w \notin watcher[x].routes

(***************************************************************************)
(* A subscription whose target cannot be opened is never forgotten: until  *)
(* it is cancelled or the monitor shuts down, its retry timer is set, a    *)
(* Retry is queued, or the client has the question or has answered it.     *)
(***************************************************************************)
PendingIsRetried ==
    \A w \in Watches : subscriptions[w].state = "pending" /\ open =>
        \/ subscriptions[w].timer
        \/ Contains(requests, [op |-> "retry", watch |-> w])
        \/ /\ subscriptions[w].awaiting
           /\ \/ w \in question
              \/ Contains(requests, [op |-> "answer", watch |-> w])

(***************************************************************************)
(* When shut_down has returned, nothing is watching: no watcher is live,   *)
(* neither one that was being started or re-keyed when it began, nor one   *)
(* that a request still in hand could have added to the table behind it.   *)
(***************************************************************************)
NothingWatches ==
    closer = "down" => \A x \in Watchers : watcher[x].life # "live"

(***************************************************************************)
(* The properties below do not hold of the code; the README tells the      *)
(* behaviours that break them.                                             *)
(***************************************************************************)
\* A watcher is kept under the identity of the directory it watches.
KeyIsIdentity ==
    \A d \in Dirs, x \in Watchers :
        directories[d] = x /\ ~Busy(x) => watcher[x].id = d

\* A subscription said to be watching has a route in the watcher it names.
WatchingIsRouted ==
    \A w \in Watches : \A x \in Serving(w) :
        ~held /\ ~watcher[x].stopped => w \in watcher[x].routes

\* rekey never drops the watcher whose callback is running it.
CallbackSparesItself ==
    \A x \in Watchers : callback[x].drop # x

\* A thread that holds the resident lock never waits for a callback that wants it.
LockIsGivenBack == held => callback[service.drop].at # "rekey"
=============================================================================
