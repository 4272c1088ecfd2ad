------------------------- MODULE AllocationOwnership -------------------------
(***************************************************************************)
(* What a redirection of descriptors promises, whatever transaction        *)
(* carries it out: the replacement allocation exists whenever a descriptor *)
(* can lead to it.  References come and go one by one; the allocation is   *)
(* released only when none is left.                                        *)
(***************************************************************************)
CONSTANT Reference

VARIABLES
  allocation,  \* is the replacement allocated?
  references   \* the references that lead, or may be led back, to it

vars == <<allocation, references>>

Init == allocation = FALSE /\ references = {}

Allocate == ~allocation /\ allocation' = TRUE /\ UNCHANGED references

Refer(r) ==
  /\ allocation
  /\ references' = references \cup {r}
  /\ UNCHANGED allocation

Drop(r) ==
  /\ references' = references \ {r}
  /\ UNCHANGED allocation

Release ==
  /\ allocation
  /\ references = {}
  /\ allocation' = FALSE
  /\ UNCHANGED references

Next == Allocate \/ (\E r \in Reference : Refer(r) \/ Drop(r)) \/ Release

Spec == Init /\ [][Next]_vars
=============================================================================
