----------------------------- MODULE LatencyLoan -----------------------------
(***************************************************************************)
(* What the waitable pacer promises the game about its swapchains, however *)
(* it decides and retires: it borrows one swapchain at a time, gives only  *)
(* that one another latency, and gives the latency back with the swapchain *)
(* before it borrows the next, or before the game's swapchain is gone.     *)
(***************************************************************************)
CONSTANTS Swapchains, NoSwapchain

VARIABLES
  live,      \* the game's swapchains
  borrower,  \* the one the pacer has, or none
  altered    \* those that do not run with the latency the game asked for

vars == <<live, borrower, altered>>

Init == live = {} /\ borrower = NoSwapchain /\ altered = {}

Create(c) ==
  /\ c \notin live /\ live' = live \cup {c}
  /\ UNCHANGED <<borrower, altered>>

Destroy(c) ==
  /\ c \in live \ {borrower} /\ live' = live \ {c}
  /\ UNCHANGED <<borrower, altered>>

Borrow(c) ==
  /\ borrower = NoSwapchain /\ altered = {}
  /\ c \in live /\ borrower' = c
  /\ UNCHANGED <<live, altered>>

Alter ==
  /\ borrower \in live /\ altered' = {borrower}
  /\ UNCHANGED <<live, borrower>>

\* To a game that keeps the swapchain, or is destroying it.
GiveBack ==
  /\ borrower \in live
  /\ borrower' = NoSwapchain /\ altered' = {}
  /\ live' \in {live, live \ {borrower}}

Next == (\E c \in Swapchains : Create(c) \/ Destroy(c) \/ Borrow(c)) \/ Alter \/ GiveBack

Spec == Init /\ [][Next]_vars
=============================================================================
