---------------------------- MODULE RecvTimeout -----------------------------
(***************************************************************************)
(* The deadline of `recv_timeout` (src/blocking.rs), which Parked leaves   *)
(* to chance: the clock, the conversion of what remains to the             *)
(* milliseconds WaitForSingleObject takes, and the value there that means  *)
(* for ever.                                                               *)
(*                                                                         *)
(* Time is counted in ticks, several to a millisecond, because a Duration  *)
(* is finer than the wait.  The queue is reduced to what the loop asks of  *)
(* it: is there an item, are the producers gone, is the doorbell lit.  A   *)
(* doorbell may also be lit for nothing, by a ring that was under way when *)
(* its item was taken.  Failures inside `arm` are left to Parked.          *)
(***************************************************************************)
EXTENDS Integers

CONSTANTS TicksPerMilli,
          Infinite,         \* INFINITE = u32::MAX, the wait that never ends
          Timeouts,         \* the timeouts callers pass, in ticks
          MaxInstant        \* the last instant an Instant can represent

ASSUME RecvTimeoutAssumption ==
  /\ TicksPerMilli \in Nat \ {0}
  /\ Infinite \in Nat /\ Infinite > 1
  /\ Timeouts \subseteq Nat
  /\ MaxInstant \in Nat

VARIABLES now,
          pc,               \* where the caller is in `recv_timeout`
          deadline,
          wakeAt,           \* when its wait runs out
          lit, item, gone,  \* the doorbell and the queue behind it
          result

callVars == <<pc, deadline, wakeAt, result>>
queueVars == <<lit, item, gone>>
vars == <<now, callVars, queueVars>>

Never == -1

Init ==
  /\ now = 0
  /\ pc = "idle" /\ deadline = 0 /\ wakeAt = 0 /\ result = "none"
  /\ lit = FALSE /\ item = FALSE /\ gone = FALSE

-----------------------------------------------------------------------------
(* The queue's side, and the clock                                         *)

\* The clock of the model runs a millisecond past the last deadline.
LastTick == MaxInstant + TicksPerMilli

Tick == now < LastTick /\ now' = now + 1 /\ UNCHANGED <<callVars, queueVars>>

Push ==
  /\ ~item /\ ~gone
  /\ item' = TRUE /\ lit' = TRUE
  /\ UNCHANGED <<now, callVars, gone>>

LastProducerDrops ==
  /\ ~gone
  /\ gone' = TRUE /\ lit' = TRUE
  /\ UNCHANGED <<now, callVars, item>>

StaleRing == ~gone /\ lit' = TRUE /\ UNCHANGED <<now, callVars, item, gone>>

-----------------------------------------------------------------------------
(* recv_timeout                                                            *)

Begin ==
  /\ pc = "idle"
  /\ \E timeout \in Timeouts :
       deadline' = IF now + timeout <= MaxInstant THEN now + timeout ELSE Never
  /\ pc' = "pop" /\ result' = "none"
  /\ UNCHANGED <<now, wakeAt, queueVars>>

Goes(from, to) == pc = from /\ pc' = to /\ UNCHANGED <<now, deadline, wakeAt, result>>

Returns(from, outcome) ==
  /\ pc = from /\ pc' = "idle"
  /\ result' = outcome
  /\ UNCHANGED <<now, deadline, wakeAt>>

Pop ==
  \/ item /\ Returns("pop", "item") /\ item' = FALSE /\ UNCHANGED <<lit, gone>>
  \/ ~item /\ Goes("pop", "arm") /\ UNCHANGED queueVars

\* arm: clear the doorbell, then look again.
Arm ==
  /\ Goes("arm", IF item THEN "pop" ELSE "alive")
  /\ lit' = FALSE
  /\ UNCHANGED <<item, gone>>

Alive ==
  /\ Goes("alive", IF gone THEN "finish" ELSE "remaining")
  /\ UNCHANGED queueVars

Finish ==
  /\ Returns("finish", IF item THEN "item" ELSE "Disconnected")
  /\ item' = FALSE
  /\ UNCHANGED <<lit, gone>>

MaxFinite == Infinite - 1
MinWait == 1

\* Mutant: the fallback and the clamp are to u32::MAX, which is INFINITE.
WaitMillisUnclamped(remaining) ==
  LET m == remaining \div TicksPerMilli
  IN  IF m > Infinite THEN Infinite ELSE IF m < MinWait THEN MinWait ELSE m

\* Mutant: what is left of the last millisecond becomes a poll.
WaitMillisTruncated(remaining) ==
  LET m == remaining \div TicksPerMilli
  IN  IF m > MaxFinite THEN MaxFinite ELSE m

\* Mutant: the deadline is subtracted the wrong way round.
WaitMillisUnchecked(remaining) == -remaining

\* wait_millis: as_millis truncates, try_from fails above u32::MAX, clamp.
WaitMillis(remaining) ==
  LET m == remaining \div TicksPerMilli
      converted == IF m > Infinite THEN MaxFinite ELSE m
  IN  IF converted < MinWait THEN MinWait
      ELSE IF converted > MaxFinite THEN MaxFinite ELSE converted

Sleeps(m) ==
  /\ pc' = "wait"
  /\ wakeAt' = IF m = Infinite THEN Never ELSE now + m * TicksPerMilli

\* Mutant: every turn gets the whole budget again.
RemainingAfresh(d) == IF d = 0 THEN 0 ELSE 2 * TicksPerMilli

\* Mutant: a remainder below a millisecond counts as none.
RemainingWholeMillis(d) == IF d > now THEN ((d - now) \div TicksPerMilli) * TicksPerMilli ELSE 0

\* deadline.saturating_duration_since(now)
Remaining(d) == IF d > now THEN d - now ELSE 0

\* An unrepresentable deadline is the untimed `recv`.
Decide ==
  /\ pc = "remaining"
  /\ \/ deadline = Never /\ Sleeps(Infinite) /\ UNCHANGED result
     \/ /\ deadline # Never /\ Remaining(deadline) = 0
        /\ pc' = "idle" /\ result' = "Timeout" /\ UNCHANGED wakeAt
     \/ /\ deadline # Never /\ Remaining(deadline) > 0
        /\ Sleeps(WaitMillis(Remaining(deadline))) /\ UNCHANGED result
  /\ UNCHANGED <<now, deadline, queueVars>>

\* WAIT_OBJECT_0 or WAIT_TIMEOUT: go round again.
Wake ==
  /\ lit \/ (wakeAt # Never /\ now >= wakeAt)
  /\ pc = "wait" /\ pc' = "pop" /\ wakeAt' = 0
  /\ UNCHANGED <<now, deadline, result, queueVars>>

WaitFails == Returns("wait", "Io") /\ UNCHANGED queueVars

-----------------------------------------------------------------------------
CallSteps == Pop \/ Arm \/ Alive \/ Finish \/ Decide \/ Wake

Next == Tick \/ Push \/ LastProducerDrops \/ StaleRing \/ Begin \/ CallSteps \/ WaitFails

\* The clock runs and the calling thread is scheduled.
Spec == Init /\ [][Next]_vars /\ WF_vars(Tick) /\ WF_vars(CallSteps)

-----------------------------------------------------------------------------
(* Properties                                                              *)

TypeOK ==
  /\ now \in 0 .. LastTick
  /\ pc \in {"idle", "pop", "arm", "alive", "finish", "remaining", "wait"}
  /\ deadline \in Nat \cup {Never}
  /\ wakeAt \in Nat \cup {Never}
  /\ lit \in BOOLEAN /\ item \in BOOLEAN /\ gone \in BOOLEAN
  /\ result \in {"none", "item", "Timeout", "Disconnected", "Io"}

\* A bounded call never enters the unbounded wait, and no wait outlasts the
\* deadline by a whole millisecond ("clamping costs an extra turn and nothing else").
WaitsWithinDeadline ==
  pc = "wait" /\ deadline # Never =>
    wakeAt # Never /\ wakeAt < deadline + TicksPerMilli

\* "never zero": every wait asked for sleeps, so the loop does not reset the event
\* once per turn through the last fraction of the budget.
NeverPolls == [][pc # "wait" /\ pc' = "wait" => wakeAt' = Never \/ wakeAt' > now]_vars

\* Timeout is reported only once the deadline has passed.
TimeoutIsNotEarly == result = "Timeout" => now >= deadline

\* The deadline bounds the waits from above and the Timeout answer from below.
DeadlineKept == WaitsWithinDeadline /\ TimeoutIsNotEarly

\* "The timeout bounds the whole call": with nothing but stale rings arriving, a
\* call with a deadline returns.
TimedCallReturns == (pc # "idle" /\ deadline # Never) ~> pc = "idle"
=============================================================================
