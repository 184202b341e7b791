------------------------------- MODULE Parked -------------------------------
(***************************************************************************)
(* The receive loops every shape shares (src/blocking.rs, the Parked       *)
(* trait) and `pop`, which is one turn of them without the waiting.        *)
(*                                                                         *)
(* A shape says what it would find (ready), whether every producer is gone *)
(* (gone) and whether the consumer's stores have reached memory (drained); *)
(* the loop never looks at the queue in any other way.  Taking the item    *)
(* found is the shape's own action, from "read".                           *)
(***************************************************************************)
EXTENDS Doorbell

CONSTANT Calls              \* which receiving calls the consumer makes

AllCalls == {"pop", "recv", "recv_timeout"}

ASSUME CallsAssumption == Calls \subseteq AllCalls

VARIABLES cpc,              \* where the consumer thread is
          call,             \* the receiving call it is in or made last
          result            \* what that call returned

parkedVars == <<cpc, call, result>>

ConsumerPlaces == {"idle", "take", "read", "free", "ask", "arm", "arming", "check",
                    "live", "finish", "ended", "deadline", "wait", "gone"}

Results == {"none", "item", "Empty", "Disconnected", "Timeout", "Io"}

ParkedTypeOK ==
  /\ cpc \in ConsumerPlaces
  /\ call \in AllCalls \cup {"none"}
  /\ result \in Results

ParkedInit == cpc = "idle" /\ call = "none" /\ result = "none"

ConsumerGoes(from, to) ==
  cpc = from /\ cpc' = to /\ UNCHANGED <<call, result>>

Returns(from, outcome) ==
  cpc = from /\ cpc' = "idle" /\ result' = outcome /\ UNCHANGED call

CallBegins ==
  /\ cpc = "idle" /\ cpc' = "take"
  /\ call' \in Calls
  /\ result' = "none"
  /\ UNCHANGED doorbellVars

\* The first take: `pop` goes on to ask about disconnection, the loops to arm.
FirstTake(ready) ==
  /\ ConsumerGoes("take", IF ready THEN "read" ELSE IF call = "pop" THEN "ask" ELSE "arm")
  /\ UNCHANGED doorbellVars

\* `pop` found nothing and now asks whether the producers are gone.
PopAnswers(gone) ==
  /\ Returns("ask", IF gone THEN "Disconnected" ELSE "Empty")
  /\ UNCHANGED doorbellVars

-----------------------------------------------------------------------------
(* Consumer::arm: handle(), clear(), and a second look at the queue        *)

ArmBegins ==
  /\ ConsumerGoes("arm", "arming")
  /\ rest' = "handle"
  /\ UNCHANGED <<event, lit, signalled, clearing, ring>>

ArmHandle == HandleCreate /\ UNCHANGED parkedVars

ArmHandleFails == HandleFails /\ Returns("arming", "Io")

ArmClears == Clear /\ UNCHANGED parkedVars

ArmFences(drained) == ClearFence(drained) /\ ConsumerGoes("arming", "check")

\* Waiting is safe only if there is still nothing to take after the clear.
ArmAnswers(ready) ==
  /\ ConsumerGoes("check", IF ready THEN "take" ELSE "live")
  /\ UNCHANGED doorbellVars

-----------------------------------------------------------------------------
(* The rest of a turn                                                      *)

\* Mutant: the end is reported without the last take.
AskGoneOnly(gone) ==
  /\ ConsumerGoes("live", IF gone THEN "ended" ELSE "deadline")
  /\ UNCHANGED doorbellVars

\* `is_disconnected`, and the last take (`finish`) when it says so.
AskGone(gone) ==
  /\ ConsumerGoes("live", IF gone THEN "finish" ELSE "deadline")
  /\ UNCHANGED doorbellVars

LastTake(ready) ==
  /\ ConsumerGoes("finish", IF ready THEN "read" ELSE "ended")
  /\ UNCHANGED doorbellVars

ReportsEnd == Returns("ended", "Disconnected") /\ UNCHANGED doorbellVars

\* recv_timeout: nothing remains of the budget.
TimesOut ==
  /\ call = "recv_timeout"
  /\ Returns("deadline", "Timeout")
  /\ UNCHANGED doorbellVars

Parks == ConsumerGoes("deadline", "wait") /\ UNCHANGED doorbellVars

\* WaitForSingleObject returns: the event is lit, or the timed wait ran out.
Wakes ==
  /\ lit \/ call = "recv_timeout"
  /\ ConsumerGoes("wait", "take")
  /\ UNCHANGED doorbellVars

WaitErrs == Returns("wait", "Io") /\ UNCHANGED doorbellVars

-----------------------------------------------------------------------------
(* The steps by kind, for a shape to take with its own state unchanged.    *)

Looks(ready, gone) == FirstTake(ready) \/ LastTake(ready) \/ PopAnswers(gone)

Arms(ready, drained) ==
  ArmBegins \/ ArmHandle \/ ArmClears \/ ArmFences(drained) \/ ArmAnswers(ready)

Waits(gone) == AskGone(gone) \/ ReportsEnd \/ TimesOut \/ Parks \/ Wakes

\* A Windows call fails and the receive returns the error.
Fails == ArmHandleFails \/ WaitErrs

\* The consumer thread is inside a receiving call.
Receiving == cpc \notin {"idle", "gone"}
=============================================================================
