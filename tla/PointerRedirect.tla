--------------------------- MODULE PointerRedirect ---------------------------
(***************************************************************************)
(* A kernel redirection (thin_geometry, midpoint, blackwell): descriptors  *)
(* of the provider that hold the address of its fatbin are made to hold    *)
(* the address of a replacement allocation, by one PatchTransaction.  The  *)
(* caller keeps the allocation for as long as pointerredirect::Pending     *)
(* says that a descriptor may still lead to it, and tries to restore again *)
(* later.                                                                  *)
(***************************************************************************)
EXTENDS PatchTransaction

VARIABLES
  allocation, \* is Redirect::allocation a live VirtualAlloc block?
  status      \* what the caller believes

vars == <<bytes, applied, prot, readable, txLocals, faults, allocation, status>>

Statuses == {"none", "installing", "installed", "pending", "restoring"}

TypeOK == TxTypeOK /\ allocation \in BOOLEAN /\ status \in Statuses

Init == TxInit /\ allocation = FALSE /\ status = "none"

(* thin_geometry::Apply refuses while a previous redirect owns memory.     *)
Install ==
  /\ status = "none"
  /\ allocation' = TRUE
  /\ status' = "installing"
  /\ ApplyBegin

(* Success, a clean failure (release the allocation), or a rollback that   *)
(* is still pending (keep allocation and records).                         *)
Installed ==
  /\ at = "returned"
  /\ status = "installing"
  /\ IF ok
     THEN status' = "installed" /\ UNCHANGED allocation
     ELSE IF Pending
          THEN status' = "pending" /\ UNCHANGED allocation
          ELSE status' = "none" /\ allocation' = FALSE
  /\ Go("idle")
  /\ UNCHANGED <<bytes, applied, prot, readable, faults>>

Uninstall ==
  /\ status \in {"installed", "pending"}
  /\ status' = "restoring"
  /\ UNCHANGED allocation
  /\ RestoreBegin

(* Wrong: a restore always releases the allocation.                        *)
ReleaseOnRestore ==
  /\ at = "returned"
  /\ status = "restoring"
  /\ status' = "none"
  /\ allocation' = FALSE
  /\ Go("idle")
  /\ UNCHANGED <<bytes, applied, prot, readable, faults>>

Uninstalled ==
  /\ at = "returned"
  /\ status = "restoring"
  /\ IF Pending
     THEN status' = "pending" /\ UNCHANGED allocation
     ELSE status' = "none" /\ allocation' = FALSE
  /\ Go("idle")
  /\ UNCHANGED <<bytes, applied, prot, readable, faults>>

Transaction == TxStep /\ UNCHANGED <<allocation, status>>
Environment == OtherStep /\ UNCHANGED <<allocation, status>>

Next == Install \/ Installed \/ Uninstall \/ Uninstalled \/ Transaction \/ Environment

Spec == Init /\ [][Next]_vars

(* The transaction is straight-line code on one thread: once called it     *)
(* keeps running.  Nothing obliges the caller to install or to uninstall.  *)
FairSpec == Spec /\ WF_vars(Transaction) /\ WF_vars(Installed \/ Uninstalled)

----------------------------------------------------------------------------
(* No descriptor can lead to memory that has been released: neither one    *)
(* holding the replacement, nor one holding half of it after a failed      *)
(* copy, nor one another patcher may put back to the replacement.          *)
NoDanglingReference == (\E s \in Site : bytes[s] \in Ours) => allocation

(* Every byte of ours has an applied record, which is what a later Restore *)
(* works from, and a record exists only while the caller keeps the vector. *)
EveryWriteIsOwned ==
  \A s \in Site : /\ bytes[s] \in Ours => applied[s]
                  /\ applied[s] => status # "none"

(* All or nothing as the caller sees it: installed means every write is    *)
(* applied, and after a refusal or a finished restore none is.             *)
AllOrNothing ==
  at = "idle" => /\ status = "installed" => \A s \in Site : applied[s]
                 /\ status = "none" => \A s \in Site : ~applied[s]

(* As long as no VirtualProtect or copy has failed, every page has its     *)
(* original protection back between transactions, shared pages included.   *)
ProtectionRestored ==
  at = "idle" /\ faults = 0 => \A p \in Page : prot[p] = "locked"

(* "Another writer owns these bytes now. Never overwrite it": within the   *)
(* caller's boundary only the other writer takes its bytes away.           *)
ForeignBytesKept ==
  [][~RacingWriter =>
       \A s \in Site : bytes[s] \in Foreign /\ bytes'[s] # bytes[s] => OtherWriter(s)]_vars

(* The steps a call has before it at most: each write of a Restore is      *)
(* looked at and copied, each of an Apply as well, each opened page is     *)
(* closed, and a refusal adds a Restore before or after the closing.       *)
RestoreSteps(write) == 2 * write + 2
CloseSteps(pages)   == pages + 1 + RestoreSteps(N)
CopySteps(pages)    == RestoreSteps(N) + CloseSteps(pages)
MostSteps           == 3 * N + 3 + CopySteps(N)

StepsLeft ==
  CASE at = "open"     -> N - opened + 1 + 2 * N + 2 + CopySteps(N)
    [] at = "check"    -> 2 * (N + 1 - k) + 2 + CopySteps(opened)
    [] at = "copy"     -> 2 * (N + 1 - k) + 1 + CopySteps(opened)
    [] at = "close"    -> CloseSteps(opened)
    [] at = "rcheck"   -> RestoreSteps(k) + (IF within = "rollback" THEN CloseSteps(opened) ELSE 0)
    [] at = "rcopy"    -> RestoreSteps(k) - 1 + (IF within = "rollback" THEN CloseSteps(opened) ELSE 0)
    [] at = "returned" -> 1
    [] at = "idle"     -> 0

(* No loop of Apply, its rollback or Restore starts over, whatever fails   *)
(* or another writer does: each step of a call brings its return nearer,   *)
(* nobody else's moves it away, and a call has MostSteps at most.          *)
CallsWindDown ==
  [][/\ StepsLeft' \in 0..MostSteps
     /\ Transaction \/ Installed \/ Uninstalled => StepsLeft' < StepsLeft
     /\ Environment => StepsLeft' = StepsLeft]_vars

(* Every call of Apply and Restore returns, whatever fails on the way.     *)
CallsReturn == at # "idle" ~> at = "idle"

(* The redirection implements the ownership discipline.                    *)
Ownership == INSTANCE AllocationOwnership WITH
  Reference  <- Site,
  references <- {s \in Site : bytes[s] \in Ours}

OwnershipSpec == Ownership!Spec
=============================================================================
