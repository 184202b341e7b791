------------------------------ MODULE Doorbell ------------------------------
(***************************************************************************)
(* The doorbell of windows-waitable-queues (src/doorbell.rs): a manual-    *)
(* reset event created on first use, a flag that mirrors it so that a      *)
(* producer can skip a redundant SetEvent, and the two calls that move     *)
(* them, `signal` and `clear`.                                             *)
(*                                                                         *)
(* Each call is split at the points where another thread can get in.  A    *)
(* queue shape EXTENDS this module, enters a call by changing ring[t] or   *)
(* rest, and takes its steps among its own.                                *)
(*                                                                         *)
(* Memory is total store order: a plain or release store waits in its      *)
(* thread's store buffer until a flush, a SeqCst fence blocks until the    *)
(* buffer is empty, and a read-modify-write or a kernel call acts on       *)
(* memory.  The only plain store in this module is the one `clear` makes;  *)
(* clearing says that it is still buffered.                                *)
(***************************************************************************)
CONSTANT Producers      \* the threads that may call `signal`

VARIABLES event,        \* the OnceLock holds an event
          lit,          \* kernel state of that event
          signalled,    \* the mirror flag, as memory holds it
          clearing,     \* `signalled = false` sits in the consumer's buffer
          ring,         \* where each producer is inside `signal`
          rest          \* where the consumer is inside `arm`'s doorbell part

doorbellVars == <<event, lit, signalled, clearing, ring, rest>>

RingSteps == {"out", "fence", "load", "swap", "set"}
RestSteps == {"out", "handle", "reset", "store", "fence"}

DoorbellTypeOK ==
  /\ event \in BOOLEAN
  /\ lit \in BOOLEAN
  /\ signalled \in BOOLEAN
  /\ clearing \in BOOLEAN
  /\ ring \in [Producers -> RingSteps]
  /\ rest \in RestSteps

DoorbellInit ==
  /\ event = FALSE
  /\ lit = FALSE
  /\ signalled = FALSE
  /\ clearing = FALSE
  /\ ring = [t \in Producers |-> "out"]
  /\ rest = "out"

-----------------------------------------------------------------------------
(* Doorbell::signal                                                        *)

\* A producer calls `signal`: the conjunct its caller's action carries.
EnterSignal(t) == ring' = [ring EXCEPT ![t] = "fence"]

RingMoves(t, from, to) ==
  /\ ring[t] = from
  /\ ring' = [ring EXCEPT ![t] = to]

\* Mutant: the fence in `signal` is dropped.
SignalFenceDropped(t, drained) ==
  /\ RingMoves(t, "fence", "load")
  /\ UNCHANGED <<event, lit, signalled, clearing, rest>>

\* fence(SeqCst): waits for the caller's own stores to reach memory.
SignalFence(t, drained) ==
  /\ drained
  /\ RingMoves(t, "fence", "load")
  /\ UNCHANGED <<event, lit, signalled, clearing, rest>>

\* No event yet: nobody can be waiting on it, so return.
SignalLoad(t) ==
  /\ RingMoves(t, "load", IF event THEN "swap" ELSE "out")
  /\ UNCHANGED <<event, lit, signalled, clearing, rest>>

\* swap(true, AcqRel): an event already marked lit needs no SetEvent.
SignalSwap(t) ==
  /\ RingMoves(t, "swap", IF signalled THEN "out" ELSE "set")
  /\ signalled' = TRUE
  /\ UNCHANGED <<event, lit, clearing, rest>>

SignalSet(t) ==
  /\ RingMoves(t, "set", "out")
  /\ lit' = TRUE
  /\ UNCHANGED <<event, signalled, clearing, rest>>

Signal(t, drained) ==
  \/ SignalFence(t, drained)
  \/ SignalLoad(t)
  \/ SignalSwap(t)
  \/ SignalSet(t)

-----------------------------------------------------------------------------
(* Doorbell::handle and Doorbell::clear, as the consumer's `arm` runs them *)

RestMoves(from, to) ==
  /\ rest = from
  /\ rest' = to

\* handle(): publishes an unsignalled event once, and only finds it after that.
HandleCreate ==
  /\ RestMoves("handle", "reset")
  /\ event' = TRUE
  /\ UNCHANGED <<lit, signalled, clearing, ring>>

\* handle(): CreateEventW fails, and `arm` returns the error.
HandleFails ==
  /\ ~event
  /\ RestMoves("handle", "out")
  /\ UNCHANGED <<event, lit, signalled, clearing, ring>>

ResetEvent(from, to) ==
  /\ RestMoves(from, to)
  /\ lit' = FALSE
  /\ UNCHANGED <<event, signalled, clearing, ring>>

LowerFlag(from, to) ==
  /\ RestMoves(from, to)
  /\ clearing' = TRUE
  /\ UNCHANGED <<event, lit, signalled, ring>>

\* Mutant: the flag is lowered before the event is reset.
ClearFlagFirst == LowerFlag("reset", "store") \/ ResetEvent("store", "fence")

\* clear(): the event is reset first and the flag lowered second.
Clear == ResetEvent("reset", "store") \/ LowerFlag("store", "fence")

\* The buffered `signalled = false` reaches memory once older stores have.
FlushFlag(olderFlushed) ==
  /\ olderFlushed
  /\ clearing
  /\ clearing' = FALSE
  /\ signalled' = FALSE
  /\ UNCHANGED <<event, lit, ring, rest>>

\* Mutant: the fence in `clear` is dropped.
ClearFenceDropped(drained) ==
  /\ RestMoves("fence", "out")
  /\ UNCHANGED <<event, lit, signalled, clearing, ring>>

\* fence(SeqCst), the other half of the pair.
ClearFence(drained) ==
  /\ drained
  /\ ~clearing
  /\ RestMoves("fence", "out")
  /\ UNCHANGED <<event, lit, signalled, clearing, ring>>

-----------------------------------------------------------------------------
(* The flag must never outlive the signal it mirrors.                      *)

SettingEvent == \E t \in Producers : ring[t] = "set"

\* A raised flag stands for a lit event, for a SetEvent a producer is about to
\* make, or for a lowering by `clear` that is still to come.
FlagMirrorsEvent ==
  signalled => lit \/ SettingEvent \/ rest = "store" \/ clearing

\* What a sleeping consumer relies on: the event is lit, or some producer inside
\* `signal` is certain to light it.
RingDue ==
  \/ lit
  \/ SettingEvent
  \/ ~signalled /\ \E t \in Producers : ring[t] \in {"fence", "load", "swap"}
=============================================================================
