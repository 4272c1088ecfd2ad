------------------------ MODULE PointerRedirect_proofs ------------------------
(***************************************************************************)
(* Proofs about PointerRedirect for every number of writes, every layout   *)
(* of pages, any number of failing calls, and with the other writer        *)
(* running at any instant (RacingWriter is not constrained).               *)
(***************************************************************************)
EXTENDS PointerRedirect, TLAPS

(* Where the call is, against what the caller believes.                    *)
Control ==
  /\ at = "idle" <=> status \in {"none", "installed", "pending"}
  /\ status = "restoring" => /\ at \in {"rcheck", "rcopy", "returned"}
                             /\ at # "returned" => within = "caller"
  /\ status = "installing" /\ at \in {"rcheck", "rcopy"} => ~ok
  /\ at \in {"open", "check", "copy"} => ok
  /\ at \in {"check", "copy"} => k >= 1
  /\ at \in {"copy", "rcopy"} => k \in Site
  /\ at = "rcheck" => k \in 0..N

(* How much of the vector is applied: everything before the write the loop *)
(* of Apply is at, and the whole of it once Apply has succeeded.           *)
Progress ==
  /\ at \in {"check", "copy"} => \A s \in Site : s < k => applied[s]
  /\ at = "copy" => applied[k]
  /\ status = "installing" /\ at \in {"close", "returned"} /\ ok
       => \A s \in Site : applied[s]
  /\ status = "installed" => \A s \in Site : applied[s]

Kept == allocation <=> status # "none"

IInv == TypeOK /\ Control /\ Progress /\ Kept /\ EveryWriteIsOwned

USE NAssumption, PageOfAssumption

LEMMA InitInv == Init => IInv
<1> SUFFICES ASSUME Init PROVE IInv
  OBVIOUS
<1> USE DEF Init, TxInit
<1>1. TypeOK
  <2>1. "original" \in Contents /\ "locked" \in Protections
    BY DEF Contents, Protections
  <2>2. at \in Labels /\ within \in RestoreCall /\ status \in Statuses
    BY DEF Labels, RestoreCall, Statuses
  <2>3. k = 1 /\ opened = 0 /\ faults = 0 /\ ok = FALSE /\ allocation = FALSE
    OBVIOUS
  <2>4. bytes \in [Site -> Contents] /\ applied \in [Site -> BOOLEAN] /\ saved \in [Site -> Protections]
    BY <2>1
  <2>5. prot \in [Page -> Protections] /\ readable \in [Page -> BOOLEAN]
    BY <2>1
  <2>6. k \in 0..(N + 1) /\ opened \in 0..N /\ faults \in Nat
    BY <2>3, NAssumption
  <2> HIDE DEF Init, TxInit
  <2> QED
    BY <2>2, <2>3, <2>4, <2>5, <2>6 DEF TypeOK, TxTypeOK
<1>2. Control /\ Progress /\ Kept
  BY DEF Control, Progress, Kept
<1>3. EveryWriteIsOwned
  BY DEF EveryWriteIsOwned, Ours
<1> QED
  BY <1>1, <1>2, <1>3 DEF IInv

(* Inside Apply's own steps the caller is installing; inside Restore's the *)
(* write the loop is at is one of the vector.                              *)
LEMMA WhereTheCallIs ==
  ASSUME TypeOK, Control
  PROVE  /\ at \in {"open", "check", "copy", "close"} => status = "installing"
         /\ at \in {"rcheck", "rcopy"} => status \in {"installing", "restoring"}
         /\ at = "check" => k \in 1..(N + 1)
         /\ at \in {"copy", "rcopy"} => k \in Site
         /\ at = "rcheck" /\ k > 0 => k \in Site
BY DEF TypeOK, TxTypeOK, Control, Statuses, Site

LEMMA TypeStep ==
  ASSUME IInv, [Next]_vars
  PROVE  TypeOK'
<1> USE DEF TypeOK, TxTypeOK
<1>0. TypeOK /\ Control
  BY DEF IInv
<1>1. ASSUME Fails \/ Succeeds PROVE faults' \in Nat
  BY <1>0, <1>1 DEF Fails, Succeeds
<1>2. CASE Install
  <2>1. /\ UNCHANGED <<bytes, applied, prot, readable, k, saved, within, faults>>
        /\ opened' = 0 /\ at' \in {"open", "returned"} /\ ok' \in BOOLEAN
        /\ status' = "installing" /\ allocation' = TRUE
    BY <1>2 DEF Install, ApplyBegin
  <2> QED
    BY <1>0, <2>1 DEF Labels, Statuses
<1>3. CASE Installed \/ Uninstalled
  BY <1>0, <1>3 DEF Installed, Uninstalled, Go, MoveTo, Labels, Statuses
<1>4. CASE Uninstall
  BY <1>0, <1>4 DEF Uninstall, RestoreBegin, EnterRestore, Labels, Statuses, RestoreCall
<1>5. CASE ApplyOpen /\ UNCHANGED <<allocation, status>>
  <2> DEFINE s == opened + 1
  <2>1. s \in Site /\ s \in 0..N /\ PageOf[s] \in Page
    BY <1>0, <1>5 DEF ApplyOpen, Site
  <2>2. at' \in Labels /\ "writable" \in Protections
    BY <1>5 DEF ApplyOpen, Labels, Protections
  <2>3. k' \in 0..(N + 1)
    BY <1>0, <1>5 DEF ApplyOpen
  <2>4. prot' \in [Page -> Protections] /\ saved' \in [Site -> Protections]
    BY <1>0, <1>5, <2>1, <2>2 DEF ApplyOpen
  <2>5. ok' \in BOOLEAN /\ opened' \in 0..N
    BY <1>0, <1>5, <2>1 DEF ApplyOpen
  <2>6. faults' \in Nat /\ UNCHANGED <<bytes, applied, readable, within>>
    BY <1>1, <1>5 DEF ApplyOpen
  <2> QED
    BY <1>0, <1>5, <2>2, <2>3, <2>4, <2>5, <2>6
<1>6. CASE ApplyCheck /\ UNCHANGED <<allocation, status>>
  <2>1. applied' \in [Site -> BOOLEAN]
    BY <1>0, <1>6, WhereTheCallIs DEF ApplyCheck
  <2>2. at' \in {"close", "copy", "rcheck"} /\ k' \in {k, N} /\ within' \in {within, "rollback"}
    BY <1>6 DEF ApplyCheck, Go, MoveTo, EnterRestore
  <2>4. ok' \in BOOLEAN
    BY <1>0, <1>6 DEF ApplyCheck, Go, MoveTo, EnterRestore
  <2>5. at' \in Labels /\ k' \in 0..(N + 1) /\ within' \in RestoreCall
    BY <1>0, <2>2 DEF Labels, RestoreCall
  <2>3. UNCHANGED <<bytes, prot, readable, faults, opened, saved>>
    BY <1>6 DEF ApplyCheck, Go, MoveTo, EnterRestore
  <2> QED
    BY <1>0, <1>6, <2>1, <2>3, <2>4, <2>5
<1>7. CASE ApplyCopy /\ UNCHANGED <<allocation, status>>
  <2>1. bytes' \in [Site -> Contents]
    BY <1>0, <1>7, WhereTheCallIs DEF ApplyCopy, Contents
  <2>2. k \in Site /\ k + 1 \in 0..(N + 1)
    BY <1>0, <1>7, WhereTheCallIs DEF ApplyCopy, Site
  <2>3. at' \in {"check", "rcheck"} /\ k' \in {k + 1, N} /\ within' \in {within, "rollback"}
    BY <1>7 DEF ApplyCopy, MoveTo, EnterRestore
  <2>5. ok' \in BOOLEAN
    BY <1>0, <1>7 DEF ApplyCopy, MoveTo, EnterRestore
  <2>6. at' \in Labels /\ k' \in 0..(N + 1) /\ within' \in RestoreCall
    BY <1>0, <2>2, <2>3 DEF Labels, RestoreCall
  <2>4. UNCHANGED <<applied, prot, readable, opened, saved>> /\ faults' \in Nat
    BY <1>1, <1>7 DEF ApplyCopy, MoveTo, EnterRestore
  <2> QED
    BY <1>0, <1>7, <2>1, <2>4, <2>5, <2>6
<1>8. CASE ApplyClose /\ UNCHANGED <<allocation, status>>
  <2>1. opened \in Site /\ PageOf[opened] \in Page /\ opened' \in 0..N
    BY <1>0, <1>8 DEF ApplyClose, Site
  <2>2. prot' \in [Page -> Protections] /\ ok' \in BOOLEAN
    BY <1>0, <1>8, <2>1 DEF ApplyClose
  <2>3. UNCHANGED <<bytes, applied, readable, at, k, saved, within>> /\ faults' \in Nat
    BY <1>1, <1>8 DEF ApplyClose
  <2> QED
    BY <1>0, <1>8, <2>1, <2>2, <2>3
<1>9. CASE (ApplyEnd \/ RestoreEnd) /\ UNCHANGED <<allocation, status>>
  <2>1. at' \in Labels /\ k' \in 0..(N + 1) /\ within' \in RestoreCall /\ ok' \in BOOLEAN
    BY <1>0, <1>9 DEF ApplyEnd, RestoreEnd, Go, MoveTo, EnterRestore, Labels, RestoreCall
  <2>2. UNCHANGED <<bytes, applied, prot, readable, faults, opened, saved>>
    BY <1>9 DEF ApplyEnd, RestoreEnd, Go, MoveTo, EnterRestore
  <2> QED
    BY <1>0, <1>9, <2>1, <2>2
<1>10. CASE RestoreCheck /\ UNCHANGED <<allocation, status>>
  <2>1. at' \in Labels /\ k' \in 0..(N + 1)
    BY <1>0, <1>10 DEF RestoreCheck, Go, MoveTo, Labels
  <2>2. applied' \in [Site -> BOOLEAN]
    BY <1>0, <1>10 DEF RestoreCheck
  <2>3. UNCHANGED <<bytes, prot, readable, faults, opened, saved, ok, within>>
    BY <1>10 DEF RestoreCheck, Go, MoveTo
  <2> QED
    BY <1>0, <1>10, <2>1, <2>2, <2>3
<1>11. CASE RestoreCopy /\ UNCHANGED <<allocation, status>>
  <2>1. k \in Site /\ PageOf[k] \in Page /\ k - 1 \in 0..(N + 1)
    BY <1>0, <1>11, WhereTheCallIs DEF RestoreCopy, Site
  <2>2. {"original", "replacement", "torn"} \subseteq Contents
    BY DEF Contents
  <2>6. bytes' \in [Site -> Contents] /\ applied' \in [Site -> BOOLEAN]
    <3>1. CASE UNCHANGED <<bytes, applied, prot>>
      BY <1>0, <3>1
    <3>2. ASSUME NEW copied \in BOOLEAN, NEW left \in {"replacement", "torn"},
                 bytes' = [bytes EXCEPT ![k] = IF copied THEN "original" ELSE left],
                 applied' = [applied EXCEPT ![k] = ~copied]
          PROVE  bytes' \in [Site -> Contents] /\ applied' \in [Site -> BOOLEAN]
      BY <1>0, <2>1, <2>2, <3>2
    <3> QED
      BY <1>11, <3>1, <3>2 DEF RestoreCopy
  <2>3. prot' \in [Page -> Protections]
    BY <1>0, <1>11, <2>1 DEF RestoreCopy, Protections
  <2>4. at' = "rcheck" /\ k' \in 0..(N + 1) /\ UNCHANGED <<opened, saved, ok, within, readable>>
    BY <1>11, <2>1 DEF RestoreCopy, MoveTo
  <2>5. faults' \in Nat
    BY <1>1, <1>11 DEF RestoreCopy
  <2> QED
    BY <1>0, <1>11, <2>3, <2>4, <2>5, <2>6 DEF Labels
<1>12. CASE Environment
  <2>1. bytes' \in [Site -> Contents]
    BY <1>0, <1>12 DEF Environment, OtherStep, OtherWriter, Remap, Contents
  <2>2. readable' \in [Page -> BOOLEAN]
    BY <1>0, <1>12 DEF Environment, OtherStep, OtherWriter, Remap
  <2>3. UNCHANGED <<applied, prot, at, k, opened, saved, ok, within, faults, allocation, status>>
    BY <1>12 DEF Environment, OtherStep, OtherWriter, Remap, txLocals
  <2> QED
    BY <1>0, <2>1, <2>2, <2>3
<1>13. CASE UNCHANGED vars
  BY <1>0, <1>13 DEF vars, txLocals
<1> QED
  BY <1>2, <1>3, <1>4, <1>5, <1>6, <1>7, <1>8, <1>9, <1>10, <1>11, <1>12, <1>13
  DEF Next, Transaction, TxStep

(* The control, progress and ownership parts, one action at a time.        *)
LEMMA InvStep ==
  ASSUME IInv, [Next]_vars
  PROVE  (Control /\ Progress /\ Kept /\ EveryWriteIsOwned)'
<1>0. TypeOK /\ Control /\ Progress /\ Kept /\ EveryWriteIsOwned
  BY DEF IInv
<1>t. /\ k \in 0..(N + 1) /\ opened \in 0..N /\ ok \in BOOLEAN
      /\ applied \in [Site -> BOOLEAN] /\ bytes \in [Site -> Contents]
      /\ status \in Statuses /\ allocation \in BOOLEAN
  BY <1>0 DEF TypeOK, TxTypeOK
<1>1. CASE Install
  <2>1. /\ at = "idle" /\ status = "none"
        /\ \/ at' = "open" /\ ok'
           \/ at' = "returned" /\ ~ok'
        /\ status' = "installing" /\ allocation' = TRUE /\ UNCHANGED <<bytes, applied>>
    BY <1>1 DEF Install, ApplyBegin
  <2> QED
    BY <1>0, <2>1 DEF Control, Progress, Kept, EveryWriteIsOwned
<1>2. CASE Installed
  <2>1. /\ at = "returned" /\ status = "installing" /\ at' = "idle"
        /\ \/ ok /\ status' = "installed" /\ allocation' = allocation
           \/ Pending /\ status' = "pending" /\ allocation' = allocation
           \/ ~Pending /\ status' = "none" /\ allocation' = FALSE
        /\ UNCHANGED <<bytes, applied>>
    BY <1>2 DEF Installed, Go, MoveTo
  <2> QED
    BY <1>0, <2>1 DEF Control, Progress, Kept, EveryWriteIsOwned, Pending
<1>3. CASE Uninstall
  <2>1. /\ at = "idle" /\ status \in {"installed", "pending"}
        /\ at' = "rcheck" /\ within' = "caller" /\ k' = N
        /\ status' = "restoring" /\ UNCHANGED <<bytes, applied, allocation>>
    BY <1>3 DEF Uninstall, RestoreBegin, EnterRestore
  <2> QED
    BY <1>0, <2>1 DEF Control, Progress, Kept, EveryWriteIsOwned
<1>4. CASE Uninstalled
  <2>1. /\ at = "returned" /\ status = "restoring" /\ at' = "idle"
        /\ \/ Pending /\ status' = "pending" /\ allocation' = allocation
           \/ ~Pending /\ status' = "none" /\ allocation' = FALSE
        /\ UNCHANGED <<bytes, applied>>
    BY <1>4 DEF Uninstalled, Go, MoveTo
  <2> QED
    BY <1>0, <2>1 DEF Control, Progress, Kept, EveryWriteIsOwned, Pending
<1>5. CASE ApplyOpen /\ UNCHANGED <<allocation, status>>
  <2>1. /\ at = "open"
        /\ \/ at' = "open" /\ (ok' <=> ok)
           \/ at' = "check" /\ (ok' <=> ok) /\ k' = 1
           \/ at' = "close" /\ ~ok'
        /\ UNCHANGED <<bytes, applied, within, status, allocation>>
    BY <1>5 DEF ApplyOpen
  <2>2. ok /\ status = "installing"
    BY <1>0, <2>1, WhereTheCallIs DEF Control
  <2>3. \A s \in Site : ~(s < 1)
    BY DEF Site
  <2>4. Control'
    BY <1>0, <2>1, <2>2 DEF Control
  <2>5. Progress'
    BY <1>0, <2>1, <2>2, <2>3 DEF Progress
  <2> QED
    BY <1>0, <2>1, <2>4, <2>5 DEF Kept, EveryWriteIsOwned
<1>6. CASE ApplyCheck /\ UNCHANGED <<allocation, status>>
  <2>1. at = "check" /\ ok /\ status = "installing" /\ k \in 1..(N + 1)
    BY <1>0, <1>6, WhereTheCallIs DEF Control, ApplyCheck
  <2>2. UNCHANGED <<bytes, status, allocation>>
    BY <1>6 DEF ApplyCheck
  <2>3. CASE k > N
    <3>1. at' = "close" /\ (ok' <=> ok) /\ UNCHANGED applied
      BY <1>6, <2>3 DEF ApplyCheck, Go, MoveTo
    <3>2. \A s \in Site : s < k
      BY <2>1, <2>3 DEF Site
    <3> QED
      BY <1>0, <2>1, <2>2, <3>1, <3>2 DEF Control, Progress, Kept, EveryWriteIsOwned
  <2>4. CASE ~(k > N) /\ bytes[k] = "original"
    <3>1. at' = "copy" /\ (ok' <=> ok) /\ k' = k /\ applied' = [applied EXCEPT ![k] = TRUE]
      BY <1>6, <2>4 DEF ApplyCheck, Go, MoveTo
    <3>2. k \in Site /\ k >= 1
      BY <2>1, <2>4 DEF Site
    <3> QED
      BY <1>0, <1>t, <2>1, <2>2, <3>1, <3>2 DEF Control, Progress, Kept, EveryWriteIsOwned
  <2>5. CASE ~(k > N) /\ bytes[k] # "original"
    <3>1. at' = "rcheck" /\ ~ok' /\ k' = N /\ UNCHANGED applied
      BY <1>6, <2>5 DEF ApplyCheck, EnterRestore
    <3> QED
      BY <1>0, <2>1, <2>2, <3>1 DEF Control, Progress, Kept, EveryWriteIsOwned
  <2> QED
    BY <2>3, <2>4, <2>5
<1>7. CASE ApplyCopy /\ UNCHANGED <<allocation, status>>
  <2>1. at = "copy" /\ ok /\ status = "installing" /\ k \in Site /\ applied[k]
    BY <1>0, <1>7, WhereTheCallIs DEF Control, Progress, ApplyCopy
  <2>2. UNCHANGED <<applied, status, allocation>>
    BY <1>7 DEF ApplyCopy
  <2>3. /\ \/ at' = "check" /\ (ok' <=> ok) /\ k' = k + 1
           \/ at' = "rcheck" /\ ~ok' /\ k' = N
        /\ \A s \in Site : s # k => bytes'[s] = bytes[s]
    BY <1>t, <1>7, <2>1 DEF ApplyCopy, MoveTo, EnterRestore
  <2>4. EveryWriteIsOwned' /\ Kept'
    BY <1>0, <2>1, <2>2, <2>3 DEF EveryWriteIsOwned, Kept
  <2>5. k + 1 >= 1 /\ \A s \in Site : s < k + 1 => s < k \/ s = k
    BY <2>1 DEF Site
  <2> QED
    BY <1>0, <1>t, <2>1, <2>2, <2>3, <2>4, <2>5, NAssumption DEF Control, Progress, Site
<1>8. CASE ApplyClose /\ UNCHANGED <<allocation, status>>
  <2>1. at = "close" /\ status = "installing"
    BY <1>0, <1>8, WhereTheCallIs DEF ApplyClose
  <2>2. UNCHANGED <<bytes, applied, at, status, allocation>> /\ (ok' => ok)
    BY <1>8 DEF ApplyClose
  <2> QED
    BY <1>0, <2>1, <2>2 DEF Control, Progress, Kept, EveryWriteIsOwned
<1>9. CASE ApplyEnd /\ UNCHANGED <<allocation, status>>
  <2>1. at = "close" /\ status = "installing"
    BY <1>0, <1>9, WhereTheCallIs DEF ApplyEnd
  <2>2. /\ \/ at' = "returned" /\ (ok' <=> ok)
           \/ at' = "rcheck" /\ ~ok' /\ k' = N
        /\ UNCHANGED <<bytes, applied, status, allocation>>
    BY <1>9 DEF ApplyEnd, Go, MoveTo, EnterRestore
  <2> QED
    BY <1>0, <2>1, <2>2 DEF Control, Progress, Kept, EveryWriteIsOwned
<1>10. CASE RestoreCheck /\ UNCHANGED <<allocation, status>>
  <2>1. at = "rcheck" /\ status \in {"installing", "restoring"} /\ k \in Site
    BY <1>0, <1>10, WhereTheCallIs DEF RestoreCheck
  <2>2. /\ at' \in {"rcheck", "rcopy"} /\ UNCHANGED <<bytes, ok, within, status, allocation>>
    BY <1>10, <2>1 DEF RestoreCheck, Go, MoveTo
  <2>5. \A s \in Site : /\ applied'[s] => applied[s]
                        /\ applied[s] /\ ~applied'[s] => bytes[s] = "original"
    BY <1>t, <1>10, <2>1 DEF RestoreCheck, Go, MoveTo
  <2>3. /\ at' = "rcopy" => k' \in Site
        /\ at' = "rcheck" => k' \in 0..N
    BY <1>t, <1>10, <2>1 DEF RestoreCheck, Go, MoveTo, Site
  <2>4. EveryWriteIsOwned' /\ Kept'
    BY <1>0, <1>t, <2>2, <2>5 DEF EveryWriteIsOwned, Kept, Ours
  <2> QED
    BY <1>0, <2>1, <2>2, <2>3, <2>4 DEF Control, Progress
<1>11. CASE RestoreCopy /\ UNCHANGED <<allocation, status>>
  <2>1. at = "rcopy" /\ status \in {"installing", "restoring"} /\ k \in Site
    BY <1>0, <1>11, WhereTheCallIs DEF RestoreCopy
  <2>2. at' = "rcheck" /\ k' \in 0..N /\ UNCHANGED <<ok, within, status, allocation>>
    BY <1>11, <2>1 DEF RestoreCopy, MoveTo, Site
  <2>3. EveryWriteIsOwned' /\ Kept'
    BY <1>0, <1>t, <1>11, <2>1 DEF EveryWriteIsOwned, Kept, Ours, RestoreCopy
  <2> QED
    BY <1>0, <2>1, <2>2, <2>3 DEF Control, Progress
<1>12. CASE RestoreEnd /\ UNCHANGED <<allocation, status>>
  <2>1. at = "rcheck" /\ status \in {"installing", "restoring"}
    BY <1>0, <1>12, WhereTheCallIs DEF RestoreEnd
  <2>2. /\ at' = IF within = "rollback" THEN "close" ELSE "returned"
        /\ UNCHANGED <<bytes, applied, ok, within, status, allocation>>
    BY <1>12 DEF RestoreEnd, Go, MoveTo
  <2> QED
    BY <1>0, <2>1, <2>2 DEF Control, Progress, Kept, EveryWriteIsOwned
<1>13. CASE Environment
  <2>1. UNCHANGED <<applied, at, k, ok, within, allocation, status>>
    BY <1>13 DEF Environment, OtherStep, OtherWriter, Remap, txLocals
  <2>2. \A s \in Site : bytes'[s] \in Ours => bytes[s] \in Ours
    BY <1>t, <1>13 DEF Environment, OtherStep, OtherWriter, Remap, Ours
  <2> QED
    BY <1>0, <2>1, <2>2 DEF Control, Progress, Kept, EveryWriteIsOwned
<1>14. CASE UNCHANGED vars
  BY <1>0, <1>14 DEF vars, txLocals, Control, Progress, Kept, EveryWriteIsOwned
<1> QED
  BY <1>1, <1>2, <1>3, <1>4, <1>5, <1>6, <1>7, <1>8, <1>9, <1>10, <1>11, <1>12, <1>13, <1>14
  DEF Next, Transaction, TxStep

THEOREM Invariance == Spec => []IInv
<1>1. IInv /\ [Next]_vars => IInv'
  BY TypeStep, InvStep DEF IInv
<1> QED
  BY InitInv, <1>1, PTL DEF Spec

(* Type correctness of every reachable state.                              *)
THEOREM TypeCorrect == Spec => []TypeOK
BY Invariance, PTL DEF IInv

(* No descriptor ever leads to a released allocation: Apply's rollback and *)
(* Restore may be refused or fail at any call, and any other writer may    *)
(* run at any instant.                                                     *)
THEOREM NoDangling == Spec => []NoDanglingReference
<1>1. IInv => NoDanglingReference
  BY DEF IInv, EveryWriteIsOwned, Kept, NoDanglingReference
<1> QED
  BY Invariance, <1>1, PTL

(* The bytes the transaction wrote always have a record to restore from.   *)
THEOREM WritesAreOwned == Spec => []EveryWriteIsOwned
BY Invariance, PTL DEF IInv

(* Installed means the whole vector is applied; none means none of it is.  *)
THEOREM Atomicity == Spec => []AllOrNothing
<1>1. IInv => AllOrNothing
  BY DEF IInv, Progress, EveryWriteIsOwned, AllOrNothing
<1> QED
  BY Invariance, <1>1, PTL

(* The redirection implements AllocationOwnership: a step of the           *)
(* transaction adds at most the reference of the write it is at, and the   *)
(* allocation is released only when no reference is left.                  *)
THEOREM Refinement == Spec => OwnershipSpec
<1> DEFINE refs == {s \in Site : bytes[s] \in Ours}
<1>1. Init => Ownership!Init
  BY DEF Init, TxInit, Ownership!Init, Ours
<1>2. IInv /\ IInv' /\ [Next]_vars => [Ownership!Next]_Ownership!vars
  <2> SUFFICES ASSUME IInv, IInv', [Next]_vars
               PROVE  [Ownership!Next]_Ownership!vars
    OBVIOUS
  <2> USE DEF Ownership!Next, Ownership!vars
  <2>0. TypeOK /\ Kept /\ EveryWriteIsOwned /\ Kept' /\ EveryWriteIsOwned' /\ Control
    BY DEF IInv
  <2>1. CASE Install
    <3>1. bytes' = bytes /\ allocation' = TRUE /\ allocation = FALSE
      BY <2>0, <2>1 DEF Install, ApplyBegin, Kept, TypeOK
    <3> QED
      BY <3>1 DEF Ownership!Allocate
  <2>2. CASE Installed \/ Uninstalled
    <3>1. bytes' = bytes
      BY <2>2 DEF Installed, Uninstalled
    <3>2. \/ status' # "none" /\ allocation' = allocation
          \/ status' = "none" /\ allocation' = FALSE
      BY <2>2 DEF Installed, Uninstalled
    <3>3. allocation = TRUE
      BY <2>0, <2>2 DEF Kept, TypeOK, Installed, Uninstalled
    <3>4. status' = "none" => refs = {}
      BY <2>0, <3>1 DEF EveryWriteIsOwned
    <3> QED
      BY <3>1, <3>2, <3>3, <3>4 DEF Ownership!Release
  <2>3. ASSUME UNCHANGED allocation,
               UNCHANGED bytes \/ \E s \in Site, v \in Contents : bytes' = [bytes EXCEPT ![s] = v]
        PROVE  [Ownership!Next]_Ownership!vars
    <3>1. CASE UNCHANGED bytes
      BY <2>3, <3>1
    <3>2. CASE \E s \in Site, v \in Contents : bytes' = [bytes EXCEPT ![s] = v]
      <4> PICK s \in Site, v \in Contents : bytes' = [bytes EXCEPT ![s] = v]
        BY <3>2
      <4>1. CASE v \in Ours
        <5>1. refs' = refs \cup {s}
          BY <2>0, <4>1 DEF TypeOK, TxTypeOK
        <5>2. allocation
          BY <2>0, <2>3, <4>1 DEF TypeOK, TxTypeOK, EveryWriteIsOwned, Kept
        <5> QED
          BY <2>3, <5>1, <5>2 DEF Ownership!Refer
      <4>2. CASE v \notin Ours
        <5>1. refs' = refs \ {s}
          BY <2>0, <4>2 DEF TypeOK, TxTypeOK
        <5> QED
          BY <2>3, <5>1 DEF Ownership!Drop
      <4> QED
        BY <4>1, <4>2
    <3> QED
      BY <2>3, <3>1, <3>2
  <2>4. CASE Uninstall
    BY <2>3, <2>4 DEF Uninstall, RestoreBegin
  <2>5. CASE Transaction
    <3>1. at = "copy" \/ at = "rcopy" => k \in Site
      BY <2>0 DEF Control
    <3>2. {"original", "replacement", "torn"} \subseteq Contents
      BY DEF Contents
    <3>3. UNCHANGED bytes \/ \E s \in Site, v \in Contents : bytes' = [bytes EXCEPT ![s] = v]
      <4>1. CASE ApplyCopy
        BY <3>1, <3>2, <4>1 DEF ApplyCopy
      <4>2. CASE RestoreCopy
        BY <3>1, <3>2, <4>2 DEF RestoreCopy
      <4> QED
        BY <2>5, <4>1, <4>2 DEF Transaction, TxStep, ApplyOpen, ApplyCheck, ApplyClose, ApplyEnd,
                                RestoreCheck, RestoreEnd
    <3> QED
      BY <2>3, <2>5, <3>3 DEF Transaction
  <2>6. CASE Environment
    <3>1. UNCHANGED bytes \/ \E s \in Site, v \in Contents : bytes' = [bytes EXCEPT ![s] = v]
      BY <2>6 DEF Environment, OtherStep, OtherWriter, Remap, Contents
    <3> QED
      BY <2>3, <2>6, <3>1 DEF Environment
  <2>7. CASE UNCHANGED vars
    BY <2>7 DEF vars
  <2> QED
    BY <2>1, <2>2, <2>4, <2>5, <2>6, <2>7 DEF Next
<1> QED
  BY Invariance, <1>1, <1>2, PTL DEF Spec, OwnershipSpec, Ownership!Spec

----------------------------------------------------------------------------
(* Page protections.  What the call has opened, and nothing else, is       *)
(* writable; of the sites on one page the first alone saved the protection *)
(* the page had, which is why Apply closes them in reverse.                *)
Opened(p, n) == \E s \in 1..n : PageOf[s] = p

Closed ==
  \/ at \in {"open", "check", "copy", "close"}
  \/ at \in {"rcheck", "rcopy"} /\ within = "rollback"
  \/ opened = 0

PagesOpen ==
  /\ \A p \in Page : prot[p] = IF Opened(p, opened) THEN "writable" ELSE "locked"
  /\ \A s \in 1..opened :
       saved[s] = IF Opened(PageOf[s], s - 1) THEN "writable" ELSE "locked"

PagesKept == Closed /\ (faults = 0 => PagesOpen)

(* A failed call is counted, so nothing is claimed of the pages after it.  *)
LEMMA NoFault ==
  ASSUME TypeOK
  PROVE  /\ Fails => faults' # 0
         /\ Succeeds => faults' = faults
  BY DEF TypeOK, TxTypeOK, Fails, Succeeds

LEMMA ProtectionStep ==
  ASSUME TypeOK, Control, PagesKept, [Next]_vars
  PROVE  PagesKept'
<1>t. /\ opened \in 0..N /\ faults \in Nat /\ prot \in [Page -> Protections]
      /\ saved \in [Site -> Protections] /\ PageOf \in [Site -> Page]
  BY DEF TypeOK, TxTypeOK
<1> USE DEF PagesKept, Closed
<1>1. ASSUME UNCHANGED <<prot, saved, opened>>, faults' = 0 => faults = 0
      PROVE  faults' = 0 => PagesOpen'
  BY <1>1 DEF PagesOpen
<1>2. CASE Install
  <2>1. at = "idle" /\ opened = 0 /\ opened' = 0 /\ UNCHANGED <<prot, saved, faults>>
    BY <1>2 DEF Install, ApplyBegin
  <2> QED
    BY <1>1, <2>1
<1>3. CASE Installed \/ Uninstalled
  BY <1>1, <1>3 DEF Installed, Uninstalled, Go, MoveTo
<1>4. CASE Uninstall
  BY <1>1, <1>4 DEF Uninstall, RestoreBegin, EnterRestore
<1>5. CASE ApplyOpen
  <2>1. at' \in {"open", "check", "close"} /\ opened < N
    BY <1>5 DEF ApplyOpen
  <2>2. CASE Fails
    BY <1>5, <2>1, <2>2, NoFault
  <2> DEFINE s == opened + 1
  <2>3. CASE /\ Succeeds /\ opened' = s
             /\ prot' = [prot EXCEPT ![PageOf[s]] = "writable"]
             /\ saved' = [saved EXCEPT ![s] = prot[PageOf[s]]]
    <3>1. s \in Site /\ PageOf[s] \in Page /\ opened = s - 1
      BY <1>t, <2>1 DEF Site
    <3>2. \A p \in Page : Opened(p, s) <=> Opened(p, opened) \/ PageOf[s] = p
      BY <1>t, <3>1 DEF Opened
    <3>3. ASSUME PagesOpen PROVE PagesOpen'
      <4>1. \A p \in Page : prot'[p] = IF Opened(p, s) THEN "writable" ELSE "locked"
        BY <1>t, <2>3, <3>1, <3>2, <3>3 DEF PagesOpen
      <4>2. saved'[s] = IF Opened(PageOf[s], s - 1) THEN "writable" ELSE "locked"
        BY <1>t, <2>3, <3>1, <3>3 DEF PagesOpen
      <4>3. \A r \in 1..opened : r # s /\ saved'[r] = saved[r]
        BY <1>t, <2>3, <3>1 DEF Site
      <4>4. \A r \in 1..s : r = s \/ r \in 1..opened
        BY <1>t, <3>1
      <4> QED
        BY <2>3, <3>3, <4>1, <4>2, <4>3, <4>4 DEF PagesOpen, Opened
    <3> QED
      BY <2>1, <2>3, <3>3, NoFault
  <2> QED
    BY <1>5, <2>2, <2>3 DEF ApplyOpen
<1>6. CASE ApplyCheck
  BY <1>1, <1>6 DEF ApplyCheck, Go, MoveTo, EnterRestore
<1>7. CASE ApplyCopy
  <2>1. UNCHANGED <<prot, saved, opened>> /\ at' \in {"check", "rcheck"}
        /\ (at' = "rcheck" => within' = "rollback")
    BY <1>7 DEF ApplyCopy, MoveTo, EnterRestore
  <2>2. faults' = 0 => faults = 0
    BY <1>7, NoFault DEF ApplyCopy
  <2> QED
    BY <1>1, <2>1, <2>2
<1>8. CASE ApplyClose
  <2>1. at = "close" /\ at' = "close" /\ opened \in Site /\ opened' = opened - 1 /\ UNCHANGED saved
    BY <1>t, <1>8 DEF ApplyClose, Site
  <2>2. CASE Fails
    BY <2>1, <2>2, NoFault
  <2>3. CASE Succeeds /\ prot' = [prot EXCEPT ![PageOf[opened]] = saved[opened]]
    <3>1. \A p \in Page : Opened(p, opened) <=> Opened(p, opened - 1) \/ PageOf[opened] = p
      BY <1>t, <2>1 DEF Opened, Site
    <3>2. PageOf[opened] \in Page /\ opened \in 1..opened /\ 1..(opened - 1) \subseteq 1..opened
      BY <1>t, <2>1 DEF Site
    <3>3. ASSUME PagesOpen PROVE PagesOpen'
      <4>1. \A p \in Page : prot'[p] = IF Opened(p, opened - 1) THEN "writable" ELSE "locked"
        BY <1>t, <2>3, <3>1, <3>2, <3>3 DEF PagesOpen
      <4> QED
        BY <2>1, <3>2, <3>3, <4>1 DEF PagesOpen, Opened
    <3> QED
      BY <2>1, <2>3, <3>3, NoFault
  <2> QED
    BY <1>8, <2>2, <2>3 DEF ApplyClose
<1>9. CASE ApplyEnd
  BY <1>1, <1>9 DEF ApplyEnd, Go, MoveTo, EnterRestore
<1>10. CASE RestoreCheck
  BY <1>1, <1>10 DEF RestoreCheck, Go, MoveTo
<1>11. CASE RestoreCopy
  <2>1. at = "rcopy" /\ at' = "rcheck" /\ UNCHANGED <<opened, saved, within>>
    BY <1>11 DEF RestoreCopy, MoveTo
  <2>2. CASE Fails
    BY <2>1, <2>2, NoFault
  <2>3. CASE Succeeds /\ prot' = [prot EXCEPT ![PageOf[k]] = @]
    <3>1. prot' = prot
      BY <1>t, <2>3
    <3> QED
      BY <1>1, <2>1, <2>3, <3>1, NoFault
  <2> QED
    BY <1>11, <2>2, <2>3 DEF RestoreCopy
<1>12. CASE RestoreEnd
  BY <1>1, <1>12 DEF RestoreEnd, Go, MoveTo
<1>13. CASE Environment
  BY <1>1, <1>13 DEF Environment, OtherStep, OtherWriter, Remap, txLocals
<1>14. CASE UNCHANGED vars
  BY <1>1, <1>14 DEF vars, txLocals
<1> QED
  BY <1>2, <1>3, <1>4, <1>5, <1>6, <1>7, <1>8, <1>9, <1>10, <1>11, <1>12, <1>13, <1>14
  DEF Next, Transaction, TxStep

(* As long as no call failed, every page is back under its own protection  *)
(* between transactions, pages that several writes share included.         *)
THEOREM ProtectionIsRestored == Spec => []ProtectionRestored
<1>1. Init => PagesKept
  BY DEF Init, TxInit, PagesKept, Closed, PagesOpen, Opened
<1>2. IInv /\ PagesKept /\ [Next]_vars => PagesKept'
  BY ProtectionStep DEF IInv
<1>3. PagesKept => ProtectionRestored
  BY DEF PagesKept, Closed, PagesOpen, Opened, ProtectionRestored
<1> QED
  BY Invariance, <1>1, <1>2, <1>3, PTL DEF Spec

(* A copy under way, in the caller's boundary, still has before it what    *)
(* the memcmp saw.                                                         *)
Checked ==
  ~RacingWriter => /\ at = "copy" => bytes[k] = "original"
                   /\ at = "rcopy" => bytes[k] = "replacement"

LEMMA CheckedStep ==
  ASSUME Checked, [Next]_vars
  PROVE  Checked'
<1> USE DEF Checked
<1>1. CASE Install \/ Installed \/ Uninstalled \/ Uninstall
  BY <1>1 DEF Install, ApplyBegin, Installed, Uninstalled, Uninstall, RestoreBegin, EnterRestore, Go, MoveTo
<1>2. CASE ApplyOpen \/ ApplyClose \/ ApplyEnd \/ RestoreEnd
  BY <1>2 DEF ApplyOpen, ApplyClose, ApplyEnd, RestoreEnd, Go, MoveTo, EnterRestore
<1>3. CASE ApplyCheck \/ RestoreCheck
  BY <1>3 DEF ApplyCheck, RestoreCheck, Go, MoveTo, EnterRestore
<1>4. CASE ApplyCopy \/ RestoreCopy
  BY <1>4 DEF ApplyCopy, RestoreCopy, MoveTo, EnterRestore
<1>5. CASE Environment
  BY <1>5 DEF Environment, OtherStep, OtherWriter, Remap, txLocals
<1>6. CASE UNCHANGED vars
  BY <1>6 DEF vars, txLocals
<1> QED
  BY <1>1, <1>2, <1>3, <1>4, <1>5, <1>6 DEF Next, Transaction, TxStep

(* Within the caller's boundary the transaction never overwrites what      *)
(* another writer put there: only that writer takes its bytes away.        *)
THEOREM ForeignBytesAreKept == Spec => ForeignBytesKept
<1>1. Init => Checked
  BY DEF Init, TxInit, Checked
<1>2. ASSUME IInv, Checked, [Next]_vars, ~RacingWriter,
             NEW s \in Site, bytes[s] \in Foreign, bytes'[s] # bytes[s]
      PROVE  OtherWriter(s)
  <2>1. bytes \in [Site -> Contents] /\ (at \in {"copy", "rcopy"} => k \in Site)
    BY <1>2 DEF IInv, TypeOK, TxTypeOK, Control
  <2>2. CASE ApplyCopy \/ RestoreCopy
    BY <1>2, <2>1, <2>2 DEF ApplyCopy, RestoreCopy, Checked, Foreign
  <2>3. CASE \E r \in Site : OtherWriter(r)
    <3>1. PICK r \in Site : OtherWriter(r)
      BY <2>3
    <3>2. r = s
      BY <1>2, <2>1, <3>1 DEF OtherWriter
    <3> QED
      BY <3>1, <3>2
  <2>4. CASE UNCHANGED bytes
    BY <1>2, <2>4
  <2> QED
    BY <1>2, <2>2, <2>3, <2>4
    DEF Next, Transaction, TxStep, Environment, OtherStep, Remap, Install, ApplyBegin, Installed, Uninstall,
        RestoreBegin, Uninstalled, ApplyOpen, ApplyCheck, ApplyClose, ApplyEnd, RestoreCheck, RestoreEnd, vars
<1>3. IInv /\ Checked /\ [Next]_vars =>
        [~RacingWriter => \A s \in Site : bytes[s] \in Foreign /\ bytes'[s] # bytes[s] => OtherWriter(s)]_vars
  BY <1>2
<1>4. Checked /\ [Next]_vars => Checked'
  BY CheckedStep
<1> QED
  BY Invariance, <1>1, <1>3, <1>4, PTL DEF Spec, ForeignBytesKept
----------------------------------------------------------------------------
(* The steps a call has left are a number, and no more than MostSteps.     *)
StepsBounded == StepsLeft \in 0..MostSteps

LEMMA StepsAreBounded == IInv => StepsBounded
<1> SUFFICES ASSUME IInv PROVE StepsLeft \in 0..MostSteps
  BY DEF StepsBounded
<1> USE DEF StepsLeft, MostSteps, CopySteps, CloseSteps, RestoreSteps
<1>1. /\ at \in Labels /\ k \in Int /\ opened \in 0..N /\ N \in Nat \ {0}
      /\ at = "check" => k \in 1..(N + 1)
      /\ at \in {"copy", "rcopy"} => k \in 1..N
      /\ at = "rcheck" => k \in 0..N
  BY WhereTheCallIs DEF IInv, TypeOK, TxTypeOK, Control, Site
<1>2. CASE at \in {"idle", "returned", "open", "close"}
  BY <1>1, <1>2
<1>3. CASE at \in {"check", "copy"}
  BY <1>1, <1>3
<1>4. CASE at \in {"rcheck", "rcopy"}
  BY <1>1, <1>4
<1> QED
  BY <1>1, <1>2, <1>3, <1>4 DEF Labels

(* A step of the call leaves it fewer, also where it gives up its writes.  *)
LEMMA StepsGoDown ==
  ASSUME IInv, Transaction \/ Installed \/ Uninstalled
  PROVE  StepsLeft' < StepsLeft
<1> USE DEF StepsLeft, CopySteps, CloseSteps, RestoreSteps
<1>1. k \in Int /\ opened \in 0..N /\ N \in Nat \ {0} /\ (at \in {"copy", "rcopy"} => k \in 1..N)
  BY DEF IInv, TypeOK, TxTypeOK, Control, Site
<1>2. CASE Installed \/ Uninstalled
  BY <1>2 DEF Installed, Uninstalled, Go, MoveTo
<1>3. CASE ApplyOpen
  BY <1>1, <1>3 DEF ApplyOpen
<1>4. CASE ApplyCheck
  <2>1. /\ at = "check" /\ opened' = opened
        /\ \/ k > N /\ at' = "close"
           \/ at' = "copy" /\ k' = k
           \/ k \leq N /\ at' = "rcheck" /\ k' = N /\ within' = "rollback"
    BY <1>1, <1>4 DEF ApplyCheck, Go, MoveTo, EnterRestore
  <2>2. k \in 1..(N + 1)
    BY <2>1, WhereTheCallIs DEF IInv
  <2> QED
    BY <1>1, <2>1, <2>2
<1>5. CASE ApplyCopy
  BY <1>1, <1>5 DEF ApplyCopy, MoveTo, EnterRestore
<1>6. CASE ApplyClose
  BY <1>1, <1>6 DEF ApplyClose
<1>7. CASE ApplyEnd
  BY <1>1, <1>7 DEF ApplyEnd, Go, MoveTo, EnterRestore
<1>8. CASE RestoreCheck
  BY <1>1, <1>8 DEF RestoreCheck, Go, MoveTo
<1>9. CASE RestoreCopy
  BY <1>1, <1>9 DEF RestoreCopy, MoveTo
<1>10. CASE RestoreEnd
  BY <1>1, <1>10 DEF RestoreEnd, Go, MoveTo
<1> QED
  BY <1>2, <1>3, <1>4, <1>5, <1>6, <1>7, <1>8, <1>9, <1>10 DEF Transaction, TxStep

(* Apply, its rollback and Restore end after a number of steps that the    *)
(* size of the vector alone bounds, whatever fails and whoever else writes *)
(* to the same bytes.                                                      *)
THEOREM CallsEnd == Spec => CallsWindDown
<1>1. ASSUME Environment PROVE StepsLeft' = StepsLeft
  BY <1>1 DEF Environment, OtherStep, OtherWriter, Remap, txLocals, StepsLeft
<1>2. IInv /\ StepsBounded' /\ [Next]_vars =>
        [/\ StepsLeft' \in 0..MostSteps
         /\ Transaction \/ Installed \/ Uninstalled => StepsLeft' < StepsLeft
         /\ Environment => StepsLeft' = StepsLeft]_vars
  BY <1>1, StepsGoDown DEF StepsBounded
<1> QED
  BY Invariance, StepsAreBounded, <1>2, PTL DEF Spec, CallsWindDown
=============================================================================
