--------------------------- MODULE PatchTransaction ---------------------------
(***************************************************************************)
(* The write transaction of patch_transaction.hpp: a vector of writes      *)
(* (address, original bytes, replacement bytes, applied flag) that Apply   *)
(* commits as a whole and Restore takes back.                              *)
(*                                                                         *)
(* A step ends where another writer of the same bytes could run, and any   *)
(* VirtualProtect or copy may fail.  A site's bytes are abstracted to what *)
(* memcmp tells apart: the original, the replacement, a torn mixture left  *)
(* by a copy that failed half way, and the bytes of another writer, who    *)
(* remembers what it wrote over and may put that back.                     *)
(*                                                                         *)
(* The caller, and the specification, are in PointerRedirect.              *)
(***************************************************************************)
EXTENDS Integers

CONSTANTS
  N,            \* number of writes in the vector
  Page,         \* pages of memory
  PageOf,       \* the page of each write's address
  RacingWriter, \* may another writer run between a memcmp and its memcpy?
  MaxFaults     \* bound: failed VirtualProtect and copy calls per behaviour

Site == 1..N

ASSUME NAssumption      == N \in Nat \ {0}
ASSUME PageOfAssumption == PageOf \in [Site -> Page]
ASSUME RacingAssumption == RacingWriter \in BOOLEAN
ASSUME FaultsAssumption == MaxFaults \in Nat

VARIABLES
  bytes,     \* what memcmp sees at each site
  applied,   \* Write::applied
  prot,      \* protection of each page
  readable,  \* what Readable answers for each page
  at,        \* where the running call is
  k,         \* the write its loop is at
  opened,    \* Apply's `opened`
  saved,     \* Apply's `protections`
  ok,        \* Apply's `ok`
  within,    \* which call of Restore is running
  faults     \* calls that have failed so far

txLocals == <<at, k, opened, saved, ok, within>>

Contents    == {"original", "replacement", "torn", "over_original", "over_replacement"}
Foreign     == {"over_original", "over_replacement"}
Ours        == {"replacement", "torn", "over_replacement"}
Protections == {"locked", "writable"}

Labels      == {"idle", "open", "check", "copy", "close", "returned", "rcheck", "rcopy"}
RestoreCall == {"rollback", "unwind", "caller"}

TxTypeOK ==
  /\ bytes \in [Site -> Contents]
  /\ applied \in [Site -> BOOLEAN]
  /\ prot \in [Page -> Protections]
  /\ readable \in [Page -> BOOLEAN]
  /\ at \in Labels
  /\ k \in 0..(N + 1)
  /\ opened \in 0..N
  /\ saved \in [Site -> Protections]
  /\ ok \in BOOLEAN
  /\ within \in RestoreCall
  /\ faults \in Nat

TxInit ==
  /\ bytes = [s \in Site |-> "original"]
  /\ applied = [s \in Site |-> FALSE]
  /\ prot = [p \in Page |-> "locked"]
  /\ readable = [p \in Page |-> TRUE]
  /\ at = "idle" /\ k = 1 /\ opened = 0 /\ ok = FALSE /\ within = "caller"
  /\ saved = [s \in Site |-> "locked"]
  /\ faults = 0

Pending == \E s \in Site : applied[s]

Succeeds == UNCHANGED faults
Fails    == faults < MaxFaults /\ faults' = faults + 1

MoveTo(label, write) ==
  at' = label /\ k' = write /\ UNCHANGED <<opened, saved, ok, within>>

Go(label) == MoveTo(label, k)

(* Start Restore at the last write; inside Apply this is a failure.        *)
EnterRestore(call) ==
  /\ at' = "rcheck"
  /\ k' = N
  /\ within' = call
  /\ ok' = (ok /\ call = "caller")
  /\ UNCHANGED <<opened, saved>>

----------------------------------------------------------------------------
(* Apply.  The preflight only reads; it refuses the whole vector before    *)
(* anything changes.                                                       *)
ApplyBegin ==
  /\ at = "idle"
  /\ IF \A s \in Site : ~applied[s] /\ readable[PageOf[s]] /\ bytes[s] = "original"
     THEN at' = "open" /\ ok' = TRUE
     ELSE at' = "returned" /\ ok' = FALSE
  /\ opened' = 0
  /\ UNCHANGED <<bytes, applied, prot, readable, k, saved, within, faults>>

(* Every site is made writable before any byte changes.                    *)
ApplyOpen ==
  /\ at = "open"
  /\ opened < N
  /\ LET s == opened + 1 IN
     \/ /\ Succeeds
        /\ prot' = [prot EXCEPT ![PageOf[s]] = "writable"]
        /\ saved' = [saved EXCEPT ![s] = prot[PageOf[s]]]
        /\ opened' = s
        /\ at' = IF s = N THEN "check" ELSE "open"
        /\ k' = 1
        /\ UNCHANGED ok
     \/ /\ Fails
        /\ at' = "close"
        /\ ok' = FALSE
        /\ UNCHANGED <<prot, saved, opened, k>>
  /\ UNCHANGED <<bytes, applied, readable, within>>

(* Wrong: the write is not owned while its bytes are being copied.         *)
CopyUnowned ==
  /\ at = "check"
  /\ IF k > N
     THEN Go("close")
     ELSE IF bytes[k] = "original" THEN Go("copy") ELSE EnterRestore("rollback")
  /\ UNCHANGED <<bytes, applied, prot, readable, faults>>

(* Wrong: a site another writer changed is passed over.                    *)
PassOverChanged ==
  /\ at = "check"
  /\ IF k > N
     THEN Go("close") /\ UNCHANGED applied
     ELSE IF bytes[k] = "original"
          THEN Go("copy") /\ applied' = [applied EXCEPT ![k] = TRUE]
          ELSE MoveTo(at, k + 1) /\ UNCHANGED applied
  /\ UNCHANGED <<bytes, prot, readable, faults>>

(* A write is owned (applied) before its first byte is copied.             *)
ApplyCheck ==
  /\ at = "check"
  /\ IF k > N
     THEN Go("close") /\ UNCHANGED applied
     ELSE IF bytes[k] = "original"
          THEN Go("copy") /\ applied' = [applied EXCEPT ![k] = TRUE]
          ELSE EnterRestore("rollback") /\ UNCHANGED applied
  /\ UNCHANGED <<bytes, prot, readable, faults>>

ApplyCopy ==
  /\ at = "copy"
  /\ \/ /\ Succeeds
        /\ bytes' = [bytes EXCEPT ![k] = "replacement"]
        /\ MoveTo("check", k + 1)
     \/ /\ Fails
        /\ \E left \in {"original", "torn"} : bytes' = [bytes EXCEPT ![k] = left]
        /\ EnterRestore("rollback")
  /\ UNCHANGED <<applied, prot, readable>>

(* Wrong: protections come back in the order they were opened.             *)
CloseForward ==
  /\ at = "close"
  /\ opened > 0
  /\ LET s == N + 1 - opened IN
     \/ /\ Succeeds
        /\ prot' = [prot EXCEPT ![PageOf[s]] = saved[s]]
        /\ UNCHANGED ok
     \/ /\ Fails
        /\ ok' = FALSE
        /\ UNCHANGED prot
  /\ opened' = opened - 1
  /\ UNCHANGED <<bytes, applied, readable, at, k, saved, within>>

(* Wrong: the loop over the opened sites runs once too often.              *)
ClosePastFirst ==
  /\ at = "close"
  /\ opened >= 0
  /\ opened' = opened - 1
  /\ UNCHANGED <<bytes, applied, prot, readable, at, k, saved, ok, within, faults>>

(* Protections come back in reverse: where sites share a page only the     *)
(* first VirtualProtect saw the real protection.                           *)
ApplyClose ==
  /\ at = "close"
  /\ opened > 0
  /\ \/ /\ Succeeds
        /\ prot' = [prot EXCEPT ![PageOf[opened]] = saved[opened]]
        /\ UNCHANGED ok
     \/ /\ Fails
        /\ ok' = FALSE
        /\ UNCHANGED prot
  /\ opened' = opened - 1
  /\ UNCHANGED <<bytes, applied, readable, at, k, saved, within>>

ApplyEnd ==
  /\ at = "close"
  /\ opened = 0
  /\ IF ok THEN Go("returned") ELSE EnterRestore("unwind")
  /\ UNCHANGED <<bytes, applied, prot, readable, faults>>

----------------------------------------------------------------------------
(* Restore, last write first.  A write whose bytes are neither the         *)
(* original nor the replacement is left alone and stays applied.           *)
RestoreBegin ==
  /\ at = "idle"
  /\ EnterRestore("caller")
  /\ UNCHANGED <<bytes, applied, prot, readable, faults>>

(* Wrong: anything that is not the original is overwritten.                *)
TakeAnything ==
  /\ at = "rcheck"
  /\ k > 0
  /\ LET seen == applied[k] /\ readable[PageOf[k]] IN
     IF seen /\ bytes[k] # "original"
     THEN Go("rcopy") /\ UNCHANGED applied
     ELSE /\ MoveTo(at, k - 1)
          /\ applied' = [applied EXCEPT ![k] = @ /\ ~seen]
  /\ UNCHANGED <<bytes, prot, readable, faults>>

(* Wrong: a write that cannot be restored is tried for ever.               *)
RetryForever ==
  /\ at = "rcheck"
  /\ k > 0
  /\ LET seen == applied[k] /\ readable[PageOf[k]] IN
     IF seen /\ bytes[k] = "replacement"
     THEN Go("rcopy") /\ UNCHANGED applied
     ELSE /\ MoveTo(at, IF applied[k] THEN k ELSE k - 1)
          /\ UNCHANGED applied
  /\ UNCHANGED <<bytes, prot, readable, faults>>

RestoreCheck ==
  /\ at = "rcheck"
  /\ k > 0
  /\ LET seen == applied[k] /\ readable[PageOf[k]] IN
     IF seen /\ bytes[k] = "replacement"
     THEN Go("rcopy") /\ UNCHANGED applied
     ELSE /\ MoveTo(at, k - 1)
          /\ applied' = [applied EXCEPT ![k] =
                           @ /\ ~(seen /\ bytes[k] = "original")]
  /\ UNCHANGED <<bytes, prot, readable, faults>>

(* Wrong: a copy that failed is tried again before the next write.         *)
RetryCopy ==
  /\ at = "rcopy"
  /\ \/ Fails /\ MoveTo("rcheck", k) /\ UNCHANGED <<bytes, applied, prot>>
     \/ /\ Succeeds /\ MoveTo("rcheck", k - 1)
        /\ bytes' = [bytes EXCEPT ![k] = "original"]
        /\ applied' = [applied EXCEPT ![k] = FALSE]
        /\ UNCHANGED prot
  /\ UNCHANGED readable

(* protect, copy, protect back: any of the three may fail.                 *)
RestoreCopy ==
  /\ at = "rcopy"
  /\ MoveTo("rcheck", k - 1)
  /\ \/ Fails /\ UNCHANGED <<bytes, applied, prot>>
     \/ \E copied, closed \in BOOLEAN, left \in {"replacement", "torn"} :
          /\ bytes' = [bytes EXCEPT ![k] = IF copied THEN "original" ELSE left]
          /\ applied' = [applied EXCEPT ![k] = ~copied]
          /\ prot' = [prot EXCEPT ![PageOf[k]] = IF closed THEN @ ELSE "writable"]
          /\ IF copied /\ closed THEN Succeeds ELSE Fails
  /\ UNCHANGED readable

RestoreEnd ==
  /\ at = "rcheck"
  /\ k = 0
  /\ Go(IF within = "rollback" THEN "close" ELSE "returned")
  /\ UNCHANGED <<bytes, applied, prot, readable, faults>>

----------------------------------------------------------------------------
(* The rest of the process: another patcher of the same bytes, and the     *)
(* loader changing what is readable.  With RacingWriter = FALSE the caller *)
(* keeps the "safe execution boundary" the header asks for, and no other   *)
(* writer runs between a memcmp and the memcpy it licenses.                *)
OtherWriter(s) ==
  /\ RacingWriter \/ at \notin {"copy", "rcopy"}
  /\ \/ bytes[s] = "original" /\ bytes' = [bytes EXCEPT ![s] = "over_original"]
     \/ bytes[s] = "replacement" /\ bytes' = [bytes EXCEPT ![s] = "over_replacement"]
     \/ bytes[s] = "over_original" /\ bytes' = [bytes EXCEPT ![s] = "original"]
     \/ bytes[s] = "over_replacement" /\ bytes' = [bytes EXCEPT ![s] = "replacement"]
  /\ UNCHANGED <<applied, prot, readable, txLocals, faults>>

Remap(p) ==
  /\ at = "idle"
  /\ readable' = [readable EXCEPT ![p] = ~@]
  /\ UNCHANGED <<bytes, applied, prot, txLocals, faults>>

TxStep ==
  \/ ApplyOpen \/ ApplyCheck \/ ApplyCopy \/ ApplyClose \/ ApplyEnd
  \/ RestoreCheck \/ RestoreCopy \/ RestoreEnd

OtherStep == (\E s \in Site : OtherWriter(s)) \/ (\E p \in Page : Remap(p))
=============================================================================
