-------------------------------- MODULE Ring --------------------------------
(***************************************************************************)
(* Positions and slots of the ring every shape of windows-waitable-queues  *)
(* is built on.                                                            *)
(*                                                                         *)
(* The code keeps a position in an integer of 2^BITS values and lets it    *)
(* wrap; a slot is named by the position's low bits, because the capacity  *)
(* is a power of two.  The models keep the untruncated count and put every *)
(* use the code makes of a position through Low, so wrapping is real and   *)
(* yet a position never means two items in a property.                     *)
(***************************************************************************)
EXTENDS Integers

CONSTANTS Capacity,         \* slots in the ring
          PositionModulus   \* 2^BITS: where a position wraps

\* A power-of-two capacity below the width divides it; nothing else is needed.
ASSUME RingAssumption ==
  /\ Capacity \in Nat \ {0}
  /\ PositionModulus \in Nat
  /\ PositionModulus > Capacity
  /\ PositionModulus % Capacity = 0

Low(position) == position % PositionModulus

\* tail.wrapping_sub(head)
Distance(t, h) == (Low(t) - Low(h)) % PositionModulus

\* Mutant: the mask is one bit short, so two positions share a slot too soon.
IndexShort(position) == Low(position) % (IF Capacity > 1 THEN Capacity \div 2 ELSE 1)

\* position & mask
Index(position) == Low(position) % Capacity
=============================================================================
