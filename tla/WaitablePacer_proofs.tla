------------------------- MODULE WaitablePacer_proofs -------------------------
(***************************************************************************)
(* The retirement of the swapchain's handle, the latency the pacer forces  *)
(* and the owner of a paced call, for every number of sleeping threads, of *)
(* swapchains and of published handles.                                    *)
(***************************************************************************)
EXTENDS WaitablePacer, FiniteSetTheorems, TLAPS

ReaderLabels == {"load", "wait", "leave"}
ReaderSet    == {t \in Threads : at[t] \in ReaderLabels}

Typed ==
  /\ at \in [Threads -> Labels] /\ held \in [Threads -> Nat]
  /\ handle \in Nat /\ generation \in Nat /\ event \in Nat
  /\ latency \in [Swapchains -> {1, NativeLatency}]
  /\ live \subseteq Swapchains

(* The count is that of the threads between EnterReader and LeaveReader.   *)
Counted == IsFiniteSet(ReaderSet) /\ readers = Cardinality(ReaderSet)

(* A retirement takes the handle away before it counts, so that a thread   *)
(* that enters later has nothing to wait on.                               *)
Withdrawn ==
  /\ step \in {"count", "wait", "clear", "finish"} => handle = 0
  /\ \A t \in Threads : at[t] = "wait" => held[t] # 0
  /\ UnawaitedHandleFree

(* The forced latency follows the owner, the owner is alive, and without a *)
(* retirement under way a paced state has an owner and the owner a handle. *)
Owned ==
  /\ owner # NoSwapchain => owner \in live
  /\ primary # NoSwapchain => primary \in live
  /\ \A c \in live : latency[c] = 1 <=> forced /\ owner = c
  /\ step \in {"free", "mark"} /\ owner # NoSwapchain => handle # 0
  /\ step \in {"free", "mark"} /\ state \in Pacing => owner # NoSwapchain

IInv == Typed /\ Counted /\ Withdrawn /\ Owned

----------------------------------------------------------------------------
Thread(t) == Sleep(t) \/ SleepSteps(t)

Callbacks == \E c \in Swapchains : OnInitSwapchain(c) \/ OnDestroySwapchain(c) \/ Adopt(c)

Manager == Present \/ Locked \/ Callbacks \/ ChangeSettings

LEMMA Actors == [Next]_vars <=> (\E t \in Threads : Thread(t)) \/ Manager \/ UNCHANGED vars
  BY DEF Next, Thread, Manager, Callbacks

(* The sleeping threads write neither the pacer's settings nor the         *)
(* manager's variables, and take a state out of pacing or one step on.     *)
LEMMA ThreadLeaves ==
  ASSUME NEW t \in Threads, Thread(t)
  PROVE  /\ UNCHANGED <<handle, generation, retire, lab, chains, manager, openEvent, closed>>
         /\ state' \in {state, "Fallback"} \/ (state = "Probing" /\ state' = "ActivationPending")
         /\ signaled => signaled'
  <1> USE DEF SetFallback
  <1>1. CASE Sleep(t)
    BY <1>1 DEF Sleep, control, kernel
  <1>2. CASE LoseMfg(t) \/ EnterScope(t) \/ Token(t)
    BY <1>2 DEF LoseMfg, EnterScope, Token, control, kernel
  <1>3. CASE EnterReader(t) \/ LoadHandle(t) \/ Wait(t) \/ LeaveReader(t)
    BY <1>3 DEF EnterReader, LoadHandle, Wait, LeaveReader, control, kernel
  <1>4. CASE LookForRetirement(t) \/ LeaveScope(t)
    BY <1>4 DEF LookForRetirement, LeaveScope, control, kernel
  <1>5. CASE Signal(t)
    BY <1>5 DEF Signal, control
  <1>6. CASE NativeSleep(t)
    BY <1>6 DEF NativeSleep, control, kernel
  <1>7. QED
    BY <1>1, <1>2, <1>3, <1>4, <1>5, <1>6 DEF Thread, SleepSteps

(* Where a thread goes: it enters the readers by EnterReader, leaves them  *)
(* by LeaveReader, and holds a handle it found when it waits.              *)
LEMMA ThreadMoves ==
  ASSUME NEW t \in Threads, Thread(t), Typed
  PROVE  /\ \E label \in Labels : at' = [at EXCEPT ![t] = label]
         /\ \/ UNCHANGED readers /\ (at[t] \in ReaderLabels <=> at'[t] \in ReaderLabels)
            \/ readers' = readers + 1 /\ at[t] \notin ReaderLabels /\ at'[t] \in ReaderLabels
            \/ readers' = readers - 1 /\ at[t] \in ReaderLabels /\ at'[t] \notin ReaderLabels
         /\ held' \in [Threads -> Nat] /\ (\A u \in Threads \ {t} : held'[u] = held[u])
         /\ at'[t] = "wait" => handle # 0 /\ held'[t] = handle
  <1> USE DEF Typed, Goes, Labels, ReaderLabels
  <1>1. CASE Sleep(t)
    BY <1>1 DEF Sleep
  <1>2. CASE LoseMfg(t) \/ EnterScope(t) \/ Token(t)
    BY <1>2 DEF LoseMfg, EnterScope, Token, locals
  <1>3. CASE EnterReader(t)
    BY <1>3 DEF EnterReader, locals
  <1>4. CASE LoadHandle(t)
    BY <1>4 DEF LoadHandle
  <1>5. CASE Wait(t) \/ LeaveReader(t)
    BY <1>5 DEF Wait, LeaveReader
  <1>6. CASE LookForRetirement(t) \/ Signal(t)
    BY <1>6 DEF LookForRetirement, Signal
  <1>7. CASE NativeSleep(t) \/ LeaveScope(t)
    BY <1>7 DEF NativeSleep, LeaveScope, locals
  <1>8. QED
    BY <1>1, <1>2, <1>3, <1>4, <1>5, <1>6, <1>7 DEF Thread, SleepSteps

(* The manager moves no thread.                                            *)
LEMMA ManagerLeaves == ASSUME Manager PROVE UNCHANGED <<at, held, readers>>
  <1>1. CASE Present
    BY <1>1 DEF Present, TurnOff, SuspendWithoutMfg, TakeFallback, LeaveOldSwapchain, Publish, PublishFails,
         Activate, ActivateFails, RetireOr, BeginRetire, locals
  <1>2. CASE Locked
    BY <1>2 DEF Locked, TakeHandle, CountReaders, Woken, ClearRetirement, FinishRetire, MarkActivated, locals
  <1>3. CASE Callbacks
    BY <1>3 DEF Callbacks, OnInitSwapchain, OnDestroySwapchain, Adopt, BeginRetire, locals
  <1>4. CASE ChangeSettings
    BY <1>4 DEF ChangeSettings, locals
  <1>5. QED
    BY <1>1, <1>2, <1>3, <1>4 DEF Manager

----------------------------------------------------------------------------
LEMMA TypedStep == ASSUME IInv, [Next]_vars PROVE Typed'
  <1>0. Typed
    BY DEF IInv
  <1>1. CASE UNCHANGED vars
    BY <1>0, <1>1 DEF Typed, vars, retire, chains, locals
  <1>2. ASSUME NEW t \in Threads, Thread(t) PROVE Typed'
    BY <1>0, <1>2, ThreadLeaves, ThreadMoves DEF Typed, retire, chains
  <1>3. CASE Manager
    <2> USE DEF Typed, NativeLatency
    <2>1. handle' \in {handle, 0, generation + 1} /\ generation' \in {generation, generation + 1}
          /\ event' \in {event, 0, generation}
      <3>1. CASE Present
        BY <3>1 DEF Present, TurnOff, SuspendWithoutMfg, TakeFallback, LeaveOldSwapchain, Publish, PublishFails,
             Activate, ActivateFails, RetireOr, BeginRetire, retire
      <3>2. CASE Locked
        BY <3>2 DEF Locked, TakeHandle, CountReaders, Woken, ClearRetirement, FinishRetire, MarkActivated, retire
      <3>3. CASE Callbacks \/ ChangeSettings
        BY <3>3 DEF Callbacks, ChangeSettings, OnInitSwapchain, OnDestroySwapchain, Adopt, BeginRetire, retire
      <3>4. QED
        BY <1>3, <3>1, <3>2, <3>3 DEF Manager
    <2>2. latency' \in [Swapchains -> {1, NativeLatency}] /\ live' \subseteq Swapchains
      <3>1. CASE Present
        BY <1>0, <3>1 DEF Present, TurnOff, SuspendWithoutMfg, TakeFallback, LeaveOldSwapchain, Publish, PublishFails,
             Activate, ActivateFails, RetireOr, BeginRetire, chains
      <3>2. CASE Locked
        BY <1>0, <3>2 DEF Locked, TakeHandle, CountReaders, Woken, ClearRetirement, FinishRetire, MarkActivated, chains
      <3>3. CASE Callbacks \/ ChangeSettings
        BY <1>0, <3>3 DEF Callbacks, ChangeSettings, OnInitSwapchain, OnDestroySwapchain, Adopt, BeginRetire, chains
      <3>4. QED
        BY <1>3, <3>1, <3>2, <3>3 DEF Manager
    <2>3. QED
      BY <1>0, <1>3, <2>1, <2>2, ManagerLeaves
  <1>4. QED
    BY <1>1, <1>2, <1>3, Actors

LEMMA CountedStep == ASSUME IInv, [Next]_vars PROVE Counted'
  <1>0. Typed /\ Counted
    BY DEF IInv
  <1>1. CASE UNCHANGED <<at, readers>>
    BY <1>0, <1>1 DEF Counted, ReaderSet
  <1>2. ASSUME NEW t \in Threads, Thread(t) PROVE Counted'
    <2>1. PICK label \in Labels : at' = [at EXCEPT ![t] = label]
      BY <1>0, <1>2, ThreadMoves
    <2>2. at'[t] = label /\ \A u \in Threads \ {t} : at'[u] = at[u]
      BY <1>0, <2>1 DEF Typed
    <2>3. CASE UNCHANGED readers /\ (at[t] \in ReaderLabels <=> at'[t] \in ReaderLabels)
      <3>1. ReaderSet' = ReaderSet
        BY <2>2, <2>3 DEF ReaderSet
      <3>2. QED
        BY <1>0, <2>3, <3>1 DEF Counted
    <2>4. CASE readers' = readers + 1 /\ at[t] \notin ReaderLabels /\ at'[t] \in ReaderLabels
      <3>1. ReaderSet' = ReaderSet \cup {t} /\ t \notin ReaderSet
        BY <2>2, <2>4 DEF ReaderSet
      <3>2. QED
        BY <1>0, <2>4, <3>1, FS_AddElement DEF Counted
    <2>5. CASE readers' = readers - 1 /\ at[t] \in ReaderLabels /\ at'[t] \notin ReaderLabels
      <3>1. ReaderSet' = ReaderSet \ {t} /\ t \in ReaderSet
        BY <2>2, <2>5 DEF ReaderSet
      <3>2. QED
        BY <1>0, <2>5, <3>1, FS_RemoveElement DEF Counted
    <2>6. QED
      BY <1>0, <1>2, <2>3, <2>4, <2>5, ThreadMoves
  <1>3. QED
    BY <1>1, <1>2, Actors, ManagerLeaves DEF vars

LEMMA WithdrawnStep == ASSUME IInv, [Next]_vars PROVE Withdrawn'
  <1>0. Typed /\ Counted /\ Withdrawn
    BY DEF IInv
  <1> USE DEF Withdrawn, UnawaitedHandleFree
  <1>1. CASE UNCHANGED vars
    BY <1>0, <1>1 DEF vars, manager, retire, kernel, locals
  <1>2. ASSUME NEW t \in Threads, Thread(t) PROVE Withdrawn'
    <2>1. UNCHANGED <<handle, taken, step>> /\ (signaled => signaled')
      BY <1>2, ThreadLeaves DEF retire, manager
    <2>2. \A u \in Threads \ {t} : at'[u] = at[u] /\ held'[u] = held[u]
      BY <1>0, <1>2, ThreadMoves DEF Typed
    <2>3. at'[t] = "wait" => handle # 0 /\ held'[t] = handle
      BY <1>0, <1>2, ThreadMoves
    <2>4. QED
      BY <1>0, <2>1, <2>2, <2>3
  <1>3. CASE Present
    <2>1. step = "free" /\ step' \in {"free", "mark", "take"}
      BY <1>3 DEF Present, Presents, MayPublish, TurnOff, SuspendWithoutMfg, TakeFallback, LeaveOldSwapchain, Publish,
           PublishFails, Activate, ActivateFails, RetireOr, BeginRetire, manager
    <2>2. UNCHANGED <<at, held>>
      BY <1>3, ManagerLeaves DEF Manager
    <2>3. QED
      BY <1>0, <2>1, <2>2
  <1>4. CASE Locked
    <2>1. UNCHANGED <<at, held>>
      BY <1>4, ManagerLeaves DEF Manager
    <2>2. CASE TakeHandle
      BY <1>0, <2>1, <2>2 DEF TakeHandle
    <2>3. CASE CountReaders
      <3>1. ASSUME readers = 0, NEW t \in Threads PROVE at[t] # "wait"
        <4>1. ReaderSet = {}
          BY <1>0, <3>1, FS_EmptySet DEF Counted
        <4>2. QED
          BY <4>1 DEF ReaderSet, ReaderLabels
      <3>2. QED
        BY <1>0, <2>1, <2>3, <3>1 DEF CountReaders
    <2>4. CASE Woken
      BY <1>0, <2>1, <2>4 DEF Woken, retire, kernel
    <2>5. CASE ClearRetirement \/ FinishRetire \/ MarkActivated
      BY <1>0, <2>1, <2>5 DEF ClearRetirement, FinishRetire, MarkActivated
    <2>6. QED
      BY <1>4, <2>2, <2>3, <2>4, <2>5 DEF Locked
  <1>5. CASE Callbacks \/ ChangeSettings
    <2>1. UNCHANGED <<at, held>>
      BY <1>5, ManagerLeaves DEF Manager
    <2>2. step' = "take" \/ UNCHANGED <<handle, step, taken, signaled>>
      BY <1>5 DEF Callbacks, ChangeSettings, OnInitSwapchain, OnDestroySwapchain, Adopt, BeginRetire, retire,
           manager, kernel
    <2>3. QED
      BY <1>0, <2>1, <2>2
  <1>6. QED
    BY <1>1, <1>2, <1>3, <1>4, <1>5, Actors DEF Manager

LEMMA OwnedStep == ASSUME IInv, [Next]_vars PROVE Owned'
  <1>0. Typed /\ Owned /\ NoSwapchain \notin Swapchains
    BY PacerAssumption DEF IInv
  <1> USE DEF Owned, Pacing, Typed
  <1>1. CASE UNCHANGED <<vars>>
    BY <1>0, <1>1 DEF vars, control, lab, chains, manager
  <1>2. ASSUME NEW t \in Threads, Thread(t) PROVE Owned'
    BY <1>0, <1>2, ThreadLeaves DEF lab, chains, manager
  <1>3. ASSUME NEW why, BeginRetire(why), UNCHANGED control PROVE Owned'
    BY <1>0, <1>3 DEF BeginRetire, chains
  <1>4. ASSUME NEW why, RetireOr(why) PROVE Owned'
    <2>1. CASE owner # NoSwapchain /\ BeginRetire(why)
      BY <1>0, <2>1 DEF BeginRetire, chains
    <2>2. CASE owner = NoSwapchain
      BY <1>0, <1>4, <2>2 DEF RetireOr, Settle, chains, manager
    <2>3. QED
      BY <1>4, <2>1, <2>2 DEF RetireOr
  <1>5. CASE TurnOff \/ SuspendWithoutMfg \/ TakeFallback \/ LeaveOldSwapchain
    <2>1. CASE TurnOff
      BY <1>0, <2>1 DEF TurnOff, BeginRetire, chains, manager
    <2>2. CASE LeaveOldSwapchain
      BY <1>0, <2>2 DEF LeaveOldSwapchain, BeginRetire, chains
    <2>3. QED
      BY <1>4, <1>5, <2>1, <2>2 DEF SuspendWithoutMfg, TakeFallback
  <1>6. CASE Publish
    BY <1>0, <1>6 DEF Publish, MayPublish, Presents, chains, manager
  <1>7. CASE PublishFails \/ ActivateFails
    BY <1>0, <1>7 DEF PublishFails, ActivateFails, SetFallback, chains, manager
  <1>8. CASE Activate
    BY <1>0, <1>8 DEF Activate, Presents, control, NativeLatency
  <1>9. CASE TakeHandle \/ CountReaders \/ Woken \/ ClearRetirement
    BY <1>0, <1>9 DEF TakeHandle, CountReaders, Woken, ClearRetirement, lab, chains
  <1>10. CASE MarkActivated
    BY <1>0, <1>10 DEF MarkActivated, lab, chains
  <1>11. CASE FinishRetire
    <2>1. state' \notin Pacing /\ owner' = NoSwapchain /\ forced' = FALSE
      BY <1>11 DEF FinishRetire, Settle
    <2>2. live' \subseteq live /\ (primary' # NoSwapchain => primary' \in live')
      BY <1>0, <1>11 DEF FinishRetire
    <2>3. \A c \in live : latency'[c] # 1
      BY <1>0, <1>11 DEF FinishRetire, NativeLatency
    <2>4. QED
      BY <2>1, <2>2, <2>3
  <1>12. ASSUME NEW c \in Swapchains, OnInitSwapchain(c) PROVE Owned'
    <2>1. /\ c \notin live /\ live' = live \cup {c} /\ latency' = [latency EXCEPT ![c] = NativeLatency]
          /\ primary' \in {c, primary} /\ UNCHANGED <<owner, forced, step, handle>>
          /\ state' \in {state, "WaitingForSwapchain"}
      BY <1>12 DEF OnInitSwapchain, control, manager
    <2>2. QED
      BY <1>0, <2>1 DEF NativeLatency
  <1>13. ASSUME NEW c \in Swapchains, OnDestroySwapchain(c) PROVE Owned'
    <2>1. CASE owner = c
      BY <1>0, <1>13, <2>1 DEF OnDestroySwapchain, BeginRetire, chains
    <2>2. CASE owner # c
      BY <1>0, <1>13, <2>2 DEF OnDestroySwapchain, control, lab, manager
    <2>3. QED
      BY <2>1, <2>2
  <1>14. ASSUME NEW c \in Swapchains, Adopt(c) PROVE Owned'
    BY <1>0, <1>14 DEF Adopt, control, lab, manager
  <1>15. CASE ChangeSettings
    BY <1>0, <1>15 DEF ChangeSettings, control, lab, chains, manager
  <1>16. QED
    BY <1>1, <1>2, <1>5, <1>6, <1>7, <1>8, <1>9, <1>10, <1>11, <1>12, <1>13, <1>14, <1>15, Actors
       DEF Manager, Present, Locked, Callbacks

LEMMA Initially == Init => IInv
  <1> SUFFICES ASSUME Init PROVE IInv
    OBVIOUS
  <1>1. Typed
    BY DEF Init, Typed, Labels, NativeLatency
  <1>2. Counted
    <2>1. ReaderSet = {}
      BY DEF Init, ReaderSet, ReaderLabels
    <2>2. QED
      BY <2>1, FS_EmptySet DEF Init, Counted
  <1>3. Withdrawn /\ Owned
    BY DEF Init, Withdrawn, UnawaitedHandleFree, Owned, Pacing, NativeLatency
  <1>4. QED
    BY <1>1, <1>2, <1>3 DEF IInv

LEMMA Inductive == Spec => []IInv
  <1>1. IInv /\ [Next]_vars => IInv'
    BY TypedStep, CountedStep, WithdrawnStep, OwnedStep DEF IInv
  <1>2. QED
    BY <1>1, Initially, PTL DEF Spec

(* RetireWaitable closes no handle a thread waits on, unless a reader has  *)
(* signaled its event.                                                     *)
THEOREM NoWaitedHandleIsClosed == Spec => []UnawaitedHandleFree
  <1>1. IInv => UnawaitedHandleFree
    BY DEF IInv, Withdrawn
  <1>2. QED
    BY <1>1, Inductive, PTL

(* Between the manager's turns only the owner of an activated pacer runs   *)
(* with a latency of one frame.                                            *)
THEOREM LatencyIsRestored == Spec => []LatencyRestored
  <1>1. IInv => LatencyRestored
    BY DEF IInv, Owned, LatencyRestored
  <1>2. QED
    BY <1>1, Inductive, PTL

(* A paced call finds a handle, of a swapchain that exists.                *)
THEOREM PacerIsOwned == Spec => []PacerOwned
  <1>1. IInv => PacerOwned
    BY DEF IInv, Owned, PacerOwned
  <1>2. QED
    BY <1>1, Inductive, PTL

(* Only a pacer whose probe has passed, and stood, becomes active.         *)
THEOREM ActivationIsEarned == Spec => ActivationEarned
  <1>1. ASSUME [Next]_vars, state # "Active", state' = "Active" PROVE state = "ActivationPending"
    <2>1. ~UNCHANGED state
      BY <1>1
    <2>2. CASE \E t \in Threads : Thread(t)
      BY <1>1, <2>1, <2>2, ThreadLeaves
    <2>3. CASE Present
      BY <1>1, <2>1, <2>3 DEF Present, TurnOff, SuspendWithoutMfg, TakeFallback, LeaveOldSwapchain, Publish,
         PublishFails, Activate, ActivateFails, RetireOr, BeginRetire, Settle, SetFallback, control
    <2>4. CASE Locked
      BY <1>1, <2>1, <2>4 DEF Locked, TakeHandle, CountReaders, Woken, ClearRetirement, FinishRetire, MarkActivated,
         Settle, control
    <2>5. CASE Callbacks \/ ChangeSettings
      BY <1>1, <2>1, <2>5 DEF Callbacks, ChangeSettings, OnInitSwapchain, OnDestroySwapchain, Adopt, BeginRetire, control
    <2>6. QED
      BY <1>1, <2>1, <2>2, <2>3, <2>4, <2>5, Actors DEF Manager, vars, control
  <1>2. QED
    BY <1>1, PTL DEF Spec, ActivationEarned

----------------------------------------------------------------------------
(* The latency as a loan.                                                  *)

\* Who runs with another latency, by what the manager has noted.
Lent == IF forced /\ owner # NoSwapchain THEN {owner} ELSE {}

(* The swapchain that runs with another latency is the owner's.            *)
LEMMA AlteredIsLent == IInv => Altered = Lent
  BY PacerAssumption DEF IInv, Typed, Owned, Altered, Lent, NativeLatency

(* The sleeping threads and most of the manager's steps leave the loan.    *)
LEMMA LoanLeft ==
  ASSUME UNCHANGED <<live, latency, owner>>
  PROVE  UNCHANGED Loan!vars
  BY DEF Altered, Loan!vars

(* What changes the loan: a present lends or alters, the last step of a    *)
(* retirement gives back, and the game creates and destroys what the pacer *)
(* does not have.                                                          *)
LEMMA LoanStep == ASSUME IInv, IInv', [Next]_vars PROVE [Loan!Next]_(Loan!vars)
  <1>0. Typed /\ Owned /\ Altered = Lent /\ NoSwapchain \notin Swapchains
    BY AlteredIsLent, PacerAssumption DEF IInv
  <1>1. Altered' = Lent'
    BY PacerAssumption DEF IInv, Typed, Owned, Altered, Lent, NativeLatency
  <1> USE DEF Loan!Next, Loan!vars
  <1>2. CASE UNCHANGED vars
    BY <1>2, LoanLeft DEF vars, lab, chains
  <1>3. ASSUME NEW t \in Threads, Thread(t) PROVE [Loan!Next]_(Loan!vars)
    BY <1>3, ThreadLeaves, LoanLeft DEF lab, chains
  <1>4. CASE TurnOff \/ SuspendWithoutMfg \/ TakeFallback \/ LeaveOldSwapchain \/ PublishFails \/ ActivateFails
    BY <1>4, LoanLeft DEF TurnOff, SuspendWithoutMfg, TakeFallback, LeaveOldSwapchain, PublishFails,
       ActivateFails, RetireOr, BeginRetire, chains
  <1>5. CASE Publish
    <2>1. /\ owner = NoSwapchain /\ owner' = primary /\ primary \in live /\ live' = live
          /\ latency' = latency
      BY <1>0, <1>5 DEF Publish, MayPublish, Presents, Owned, chains
    <2>2. Altered = {} /\ Altered' = Altered /\ primary \in Swapchains
      BY <1>0, <2>1 DEF Lent, Altered, Typed
    <2> QED
      BY <2>1, <2>2 DEF Loan!Borrow
  <1>6. CASE Activate
    <2>1. UNCHANGED <<live, owner>> /\ forced' = TRUE /\ owner \in live /\ owner # NoSwapchain
      BY <1>0, <1>6 DEF Activate, Presents, Owned
    <2>2. Altered' = {owner}
      BY <1>1, <2>1 DEF Lent
    <2> QED
      BY <2>1, <2>2 DEF Loan!Alter
  <1>7. CASE TakeHandle \/ CountReaders \/ Woken \/ ClearRetirement \/ MarkActivated
    BY <1>7, LoanLeft DEF TakeHandle, CountReaders, Woken, ClearRetirement, MarkActivated, lab, chains
  <1>8. CASE FinishRetire
    <2>1. /\ owner' = NoSwapchain /\ live' \in {live, live \ {owner}}
          /\ latency' = IF forced THEN [latency EXCEPT ![owner] = NativeLatency] ELSE latency
      BY <1>8 DEF FinishRetire
    <2>2. Altered' = {}
      BY <1>1, <2>1 DEF Lent
    <2>3. CASE owner # NoSwapchain
      BY <1>0, <2>1, <2>2, <2>3 DEF Loan!GiveBack, Owned
    <2>4. CASE owner = NoSwapchain
      <3>1. live' = live /\ Altered = {}
        BY <1>0, <2>1, <2>4 DEF Typed, Lent
      <3> QED
        BY <2>1, <2>2, <2>4, <3>1
    <2> QED
      BY <2>3, <2>4
  <1>9. ASSUME NEW c \in Swapchains, OnInitSwapchain(c) PROVE [Loan!Next]_(Loan!vars)
    <2>1. c \notin live /\ live' = live \cup {c} /\ UNCHANGED <<owner, forced>>
      BY <1>9 DEF OnInitSwapchain
    <2>2. Altered' = Altered
      BY <1>0, <1>1, <2>1 DEF Lent
    <2> QED
      BY <2>1, <2>2 DEF Loan!Create
  <1>10. ASSUME NEW c \in Swapchains, OnDestroySwapchain(c) PROVE [Loan!Next]_(Loan!vars)
    <2>1. CASE owner = c
      BY <1>10, <2>1, LoanLeft DEF OnDestroySwapchain, BeginRetire, chains
    <2>2. CASE owner # c
      <3>1. c \in live \ {owner} /\ live' = live \ {c} /\ UNCHANGED <<owner, forced>>
        BY <1>10, <2>2 DEF OnDestroySwapchain, lab
      <3>2. Altered' = Altered
        BY <1>0, <1>1, <3>1 DEF Lent
      <3> QED
        BY <3>1, <3>2 DEF Loan!Destroy
    <2> QED
      BY <2>1, <2>2
  <1>11. ASSUME NEW c \in Swapchains, Adopt(c) PROVE [Loan!Next]_(Loan!vars)
    BY <1>11, LoanLeft DEF Adopt, lab
  <1>12. CASE ChangeSettings
    BY <1>12, LoanLeft DEF ChangeSettings, lab, chains
  <1> QED
    BY <1>2, <1>3, <1>4, <1>5, <1>6, <1>7, <1>8, <1>9, <1>10, <1>11, <1>12, Actors
       DEF Manager, Present, Locked, Callbacks

(* The pacer implements LatencyLoan: it borrows one swapchain at a time,   *)
(* alters no other, and gives the latency back before the next.            *)
THEOREM LatencyIsALoan == Spec => LoanSpec
  <1>1. Init => Loan!Init
    BY DEF Init, Loan!Init, Altered
  <1>2. QED
    BY <1>1, LoanStep, Inductive, PTL DEF Spec, LoanSpec, Loan!Spec

----------------------------------------------------------------------------
(* The types that only the type invariant needs.                           *)
----------------------------------------------------------------------------
TypedSettings ==
  requested \in BOOLEAN /\ mfg \in BOOLEAN /\ threads \in ThreadCounts
TypedControl ==
  /\ state \in States /\ reason \in Reasons /\ given \in Reasons
  /\ inflight \in 0..(Width - 1)
TypedHandles ==
  /\ generation \in 0..Generations[threads]
  /\ handle \in Handles /\ event \in Handles /\ taken \in Handles
  /\ openEvent \in Handles /\ closed \subseteq Handles
TypedManager ==
  /\ owner \in Swapchains \cup {NoSwapchain} /\ primary \in Swapchains \cup {NoSwapchain}
  /\ step \in Steps /\ cause \in Causes
TypedFlags ==
  /\ latched \in BOOLEAN /\ forced \in BOOLEAN /\ wasRequested \in BOOLEAN
  /\ retiring \in BOOLEAN /\ signaled \in BOOLEAN
TypedLocals ==
  /\ seen \in [Threads -> States] /\ last \in [Threads -> BOOLEAN]
  /\ held \in [Threads -> Handles]

(* Only as many threads as the game has are inside HandleSleep.            *)
Inside == \A t \in Threads : at[t] # "away" => t <= threads

(* A thread that entered while probing counts one sample at most, and none *)
(* enters so once the probe has its samples.                               *)
Sampling == {t \in Threads : at[t] \in {"scope", "token", "native"} /\ seen[t] = "Probing"}
Sampled ==
  /\ samples \in Nat
  /\ state = "Probing" => samples < ProbeSamples
  /\ samples + Cardinality(Sampling) <= ProbeSamples + threads

TInv == /\ TypedSettings /\ TypedControl /\ TypedHandles /\ TypedManager /\ TypedFlags
        /\ TypedLocals /\ Inside /\ Sampled

LEMMA LargestHandle ==
  /\ MaxHandle \in Nat /\ \A n \in ThreadCounts : Generations[n] \in Nat /\ Generations[n] <= MaxHandle
  /\ \A n \in ThreadCounts : 0..Generations[n] \subseteq Handles
  /\ 0 \in Handles
  <1> DEFINE Last == {Generations[k] : k \in ThreadCounts}
  <1>1. \E n \in Last : \A k \in ThreadCounts : Generations[k] <= n
    BY GenerationsAssumption
  <1>2. MaxHandle \in Last /\ \A k \in ThreadCounts : Generations[k] <= MaxHandle
    BY <1>1 DEF MaxHandle
  <1>3. \A n \in ThreadCounts : Generations[n] \in Nat
    BY GenerationsAssumption
  <1>4. MaxHandle \in Nat
    BY <1>2, <1>3
  <1>5. QED
    BY <1>2, <1>3, <1>4 DEF Handles

LEMMA ThreadNumbers ==
  /\ Threads \subseteq Nat \ {0}
  /\ \A n \in ThreadCounts : /\ n \in Nat /\ n \in 1..(Width - 1)
                             /\ \A S \in SUBSET Threads :
                                  (\A t \in S : t <= n) => IsFiniteSet(S) /\ Cardinality(S) \in 0..n
  <1> DEFINE most == CHOOSE n \in ThreadCounts : \A k \in ThreadCounts : k <= n
  <1>1. most \in ThreadCounts
    BY GenerationsAssumption
  <1>2. most \in Nat
    BY <1>1, GenerationsAssumption
  <1>3. Threads = 1..most
    BY DEF Threads
  <1>4. Threads \subseteq Nat \ {0}
    BY <1>2, <1>3
  <1>5. ASSUME NEW n \in ThreadCounts PROVE n \in Nat /\ n \in 1..(Width - 1)
    BY GenerationsAssumption, PacerAssumption
  <1>6. ASSUME NEW n \in ThreadCounts, NEW S \in SUBSET Threads, \A t \in S : t <= n
        PROVE  IsFiniteSet(S) /\ Cardinality(S) \in 0..n
    <2>1. n \in Nat \ {0}
      BY <1>5
    <2>2. S \in SUBSET (1..n)
      BY <1>4, <1>6, <2>1
    <2>3. IsFiniteSet(1..n) /\ Cardinality(1..n) = n
      BY <2>1, FS_Interval
    <2>4. IsFiniteSet(S) /\ Cardinality(S) <= n
      BY <2>2, <2>3, FS_Subset
    <2>5. QED
      BY <2>1, <2>4, FS_CardinalityType
  <1>7. QED
    BY <1>4, <1>5, <1>6

LEMMA SettingsStep == ASSUME TypedSettings, [Next]_vars PROVE TypedSettings' /\ threads' = threads
  <1> USE DEF TypedSettings
  <1>1. CASE UNCHANGED vars
    BY <1>1 DEF vars, shared
  <1>2. ASSUME NEW t \in Threads, Thread(t) PROVE UNCHANGED <<shared, threads>>
    <2>1. CASE Sleep(t) \/ LoseMfg(t) \/ EnterScope(t) \/ Token(t) \/ EnterReader(t) \/ LoadHandle(t)
      BY <2>1 DEF Sleep, LoseMfg, EnterScope, Token, EnterReader, LoadHandle
    <2>2. CASE Wait(t) \/ LeaveReader(t) \/ LookForRetirement(t) \/ Signal(t) \/ NativeSleep(t) \/ LeaveScope(t)
      BY <2>2 DEF Wait, LeaveReader, LookForRetirement, Signal, NativeSleep, LeaveScope
    <2>3. QED
      BY <1>2, <2>1, <2>2 DEF Thread, SleepSteps
  <1>3. CASE Present
    BY <1>3 DEF Present, TurnOff, SuspendWithoutMfg, TakeFallback, LeaveOldSwapchain, Publish, PublishFails,
         Activate, ActivateFails, RetireOr, BeginRetire, shared
  <1>4. CASE Locked
    BY <1>4 DEF Locked, TakeHandle, CountReaders, Woken, ClearRetirement, FinishRetire, MarkActivated, shared
  <1>5. CASE Callbacks
    BY <1>5 DEF Callbacks, OnInitSwapchain, OnDestroySwapchain, Adopt, BeginRetire, shared
  <1>6. CASE ChangeSettings
    BY <1>6 DEF ChangeSettings
  <1>7. QED
    BY <1>1, <1>2, <1>3, <1>4, <1>5, <1>6, Actors DEF Manager, shared

LEMMA Counting == ASSUME NEW n \in Int PROVE n % Width \in 0..(Width - 1)
  BY PacerAssumption

LEMMA ControlStep == ASSUME TypedControl, TypedLocals, [Next]_vars PROVE TypedControl'
  <1> USE DEF TypedControl, States, Reasons
  <1>1. CASE UNCHANGED vars
    BY <1>1 DEF vars, control, manager
  <1>2. ASSUME NEW t \in Threads, Thread(t) PROVE TypedControl'
    <2>1. inflight' \in 0..(Width - 1)
      <3>1. CASE EnterScope(t)
        BY <3>1, Counting DEF EnterScope
      <3>2. CASE LeaveScope(t)
        BY <3>2, Counting DEF LeaveScope
      <3>3. CASE Sleep(t) \/ LoseMfg(t) \/ Token(t) \/ EnterReader(t) \/ LoadHandle(t) \/ Wait(t)
        BY <3>3 DEF Sleep, LoseMfg, Token, EnterReader, LoadHandle, Wait
      <3>4. CASE LeaveReader(t) \/ LookForRetirement(t) \/ Signal(t) \/ NativeSleep(t)
        BY <3>4 DEF LeaveReader, LookForRetirement, Signal, NativeSleep
      <3>5. QED
        BY <1>2, <3>1, <3>2, <3>3, <3>4 DEF Thread, SleepSteps
    <2>2. reason' \in Reasons
      <3> USE DEF SetFallback
      <3>1. CASE Sleep(t) \/ LoseMfg(t) \/ EnterScope(t) \/ Token(t) \/ EnterReader(t) \/ LoadHandle(t)
        BY <3>1 DEF Sleep, LoseMfg, EnterScope, Token, EnterReader, LoadHandle, control
      <3>2. CASE Wait(t) \/ LeaveReader(t) \/ LookForRetirement(t) \/ Signal(t) \/ NativeSleep(t) \/ LeaveScope(t)
        BY <3>2 DEF Wait, LeaveReader, LookForRetirement, Signal, NativeSleep, LeaveScope, control
      <3>3. QED
        BY <1>2, <3>1, <3>2 DEF Thread, SleepSteps
    <2>3. QED
      BY <1>2, <2>1, <2>2, ThreadLeaves DEF manager
  <1>3. CASE Present
    <2>1. 0 \in 0..(Width - 1)
      BY PacerAssumption
    <2> USE DEF RetireOr, BeginRetire, Settle, SetFallback, control, manager
    <2>2. CASE TurnOff \/ SuspendWithoutMfg
      BY <2>2 DEF TurnOff, SuspendWithoutMfg
    <2>3. CASE TakeFallback \/ LeaveOldSwapchain
      BY <2>3 DEF TakeFallback, LeaveOldSwapchain
    <2>4. CASE Publish \/ PublishFails \/ Activate \/ ActivateFails
      BY <2>1, <2>4 DEF Publish, PublishFails, Activate, ActivateFails
    <2>5. QED
      BY <1>3, <2>2, <2>3, <2>4 DEF Present
  <1>4. CASE Locked
    BY <1>4 DEF Locked, TakeHandle, CountReaders, Woken, ClearRetirement, FinishRetire, MarkActivated, Settle,
         control, manager
  <1>5. CASE Callbacks \/ ChangeSettings
    BY <1>5 DEF Callbacks, ChangeSettings, OnInitSwapchain, OnDestroySwapchain, Adopt, BeginRetire, control, manager
  <1>6. QED
    BY <1>1, <1>2, <1>3, <1>4, <1>5, Actors DEF Manager

LEMMA HandlesStep ==
  ASSUME TypedHandles, TypedSettings, [Next]_vars
  PROVE  TypedHandles'
  <1>0. threads \in ThreadCounts /\ threads' = threads /\ generation \in Handles /\ 0 \in Handles
    BY SettingsStep, LargestHandle DEF TypedSettings, TypedHandles
  <1> USE DEF TypedHandles
  <1>1. CASE UNCHANGED vars
    BY <1>0, <1>1 DEF vars, retire, kernel
  <1>2. ASSUME NEW t \in Threads, Thread(t) PROVE TypedHandles'
    BY <1>0, <1>2, ThreadLeaves DEF retire
  <1>3. CASE Publish
    <2>1. generation + 1 \in 0..Generations[threads]
      BY <1>0, <1>3, LargestHandle DEF Publish
    <2>2. generation + 1 \in Handles
      BY <1>0, <2>1, LargestHandle
    <2>3. QED
      BY <1>0, <1>3, <2>1, <2>2 DEF Publish, retire, kernel
  <1>4. CASE TurnOff \/ SuspendWithoutMfg \/ TakeFallback \/ LeaveOldSwapchain
    BY <1>0, <1>4 DEF TurnOff, SuspendWithoutMfg, TakeFallback, LeaveOldSwapchain, RetireOr, BeginRetire, retire,
         kernel
  <1>5. CASE PublishFails \/ Activate \/ ActivateFails
    BY <1>0, <1>5 DEF PublishFails, Activate, ActivateFails, retire, kernel
  <1>6. CASE Locked
    BY <1>0, <1>6 DEF Locked, TakeHandle, CountReaders, Woken, ClearRetirement, FinishRetire, MarkActivated, retire,
         kernel
  <1>7. CASE Callbacks \/ ChangeSettings
    BY <1>0, <1>7 DEF Callbacks, ChangeSettings, OnInitSwapchain, OnDestroySwapchain, Adopt, BeginRetire, retire,
         kernel
  <1>8. QED
    BY <1>1, <1>2, <1>3, <1>4, <1>5, <1>6, <1>7, Actors DEF Manager, Present

LEMMA ManagerStep == ASSUME TypedManager, [Next]_vars PROVE TypedManager'
  <1> USE DEF TypedManager, Steps, Causes
  <1>1. CASE UNCHANGED vars
    BY <1>1 DEF vars, lab, chains, manager
  <1>2. ASSUME NEW t \in Threads, Thread(t) PROVE TypedManager'
    BY <1>2, ThreadLeaves DEF lab, chains, manager
  <1>3. CASE Present
    BY <1>3 DEF Present, Presents, TurnOff, SuspendWithoutMfg, TakeFallback, LeaveOldSwapchain, Publish, PublishFails,
         MayPublish, Activate, ActivateFails, RetireOr, BeginRetire, lab, chains, manager
  <1>4. CASE Locked
    BY <1>4 DEF Locked, TakeHandle, CountReaders, Woken, ClearRetirement, FinishRetire, MarkActivated, lab, chains
  <1>5. CASE Callbacks \/ ChangeSettings
    BY <1>5 DEF Callbacks, ChangeSettings, OnInitSwapchain, OnDestroySwapchain, Adopt, BeginRetire, lab, chains,
         manager
  <1>6. QED
    BY <1>1, <1>2, <1>3, <1>4, <1>5, Actors DEF Manager

LEMMA FlagsStep == ASSUME TypedFlags, TypedSettings, [Next]_vars PROVE TypedFlags'
  <1> USE DEF TypedFlags
  <1>0. ASSUME NEW why, NEW before, Settle(why, before) PROVE latched' \in BOOLEAN
    BY <1>0 DEF Settle
  <1>1. CASE UNCHANGED vars
    BY <1>1 DEF vars, lab, retire, kernel
  <1>2. ASSUME NEW t \in Threads, Thread(t) PROVE TypedFlags'
    <2>1. signaled' \in BOOLEAN
      <3>1. CASE Signal(t)
        BY <3>1 DEF Signal
      <3>2. CASE Sleep(t) \/ LoseMfg(t) \/ EnterScope(t) \/ Token(t) \/ EnterReader(t) \/ LoadHandle(t)
        BY <3>2 DEF Sleep, LoseMfg, EnterScope, Token, EnterReader, LoadHandle, kernel
      <3>3. CASE Wait(t) \/ LeaveReader(t) \/ LookForRetirement(t) \/ NativeSleep(t) \/ LeaveScope(t)
        BY <3>3 DEF Wait, LeaveReader, LookForRetirement, NativeSleep, LeaveScope, kernel
      <3>4. QED
        BY <1>2, <3>1, <3>2, <3>3 DEF Thread, SleepSteps
    <2>2. QED
      BY <1>2, <2>1, ThreadLeaves DEF lab, retire
  <1>3. CASE Present
    <2>1. Latched \in BOOLEAN
      BY DEF Latched
    <2>2. QED
      BY <1>3, <1>0, <2>1 DEF Present, TurnOff, SuspendWithoutMfg, TakeFallback, LeaveOldSwapchain, Publish,
         PublishFails, Activate, ActivateFails, RetireOr, BeginRetire, lab, retire, kernel
  <1>4. CASE Locked
    BY <1>0, <1>4 DEF Locked, TakeHandle, CountReaders, Woken, ClearRetirement, FinishRetire, MarkActivated, lab,
         retire, kernel
  <1>5. CASE Callbacks \/ ChangeSettings
    BY <1>5 DEF Callbacks, ChangeSettings, OnInitSwapchain, OnDestroySwapchain, Adopt, BeginRetire, lab, retire,
         kernel
  <1>6. QED
    BY <1>1, <1>2, <1>3, <1>4, <1>5, Actors DEF Manager

LEMMA LocalsStep ==
  ASSUME TypedLocals, TypedControl, TypedHandles, [Next]_vars
  PROVE  TypedLocals'
  <1>0. 0 \in Handles /\ state \in States /\ "Native" \in States /\ handle \in Handles /\ event \in Handles
    BY LargestHandle DEF TypedControl, TypedHandles, States
  <1> USE DEF TypedLocals
  <1>1. CASE UNCHANGED locals
    BY <1>1 DEF locals
  <1>2. ASSUME NEW t \in Threads, Thread(t) PROVE TypedLocals'
    <2>1. CASE Sleep(t)
      BY <1>0, <2>1 DEF Sleep
    <2>2. CASE LoadHandle(t)
      BY <1>0, <2>2 DEF LoadHandle
    <2>3. CASE Wait(t) \/ Signal(t)
      BY <1>0, <2>3 DEF Wait, Signal
    <2>4. CASE LeaveReader(t)
      BY <2>4 DEF LeaveReader
    <2>5. CASE LookForRetirement(t)
      BY <1>0, <2>5 DEF LookForRetirement
    <2>6. CASE LeaveScope(t)
      BY <1>0, <2>6 DEF LeaveScope
    <2>7. CASE LoseMfg(t) \/ EnterScope(t) \/ Token(t) \/ EnterReader(t) \/ NativeSleep(t)
      BY <1>1, <2>7 DEF LoseMfg, EnterScope, Token, EnterReader, NativeSleep
    <2>8. QED
      BY <1>2, <2>1, <2>2, <2>3, <2>4, <2>5, <2>6, <2>7 DEF Thread, SleepSteps
  <1>3. CASE Manager
    <2>1. CASE Present
      BY <2>1 DEF Present, TurnOff, SuspendWithoutMfg, TakeFallback, LeaveOldSwapchain, Publish, PublishFails,
         Activate, ActivateFails, RetireOr, BeginRetire, locals
    <2>2. CASE Locked
      BY <2>2 DEF Locked, TakeHandle, CountReaders, Woken, ClearRetirement, FinishRetire, MarkActivated, locals
    <2>3. CASE Callbacks \/ ChangeSettings
      BY <2>3 DEF Callbacks, ChangeSettings, OnInitSwapchain, OnDestroySwapchain, Adopt, BeginRetire, locals
    <2>4. QED
      BY <1>3, <2>1, <2>2, <2>3 DEF Manager
  <1>4. QED
    BY <1>1, <1>2, <1>3, Actors DEF vars

LEMMA InsideStep ==
  ASSUME Typed, Inside, TypedSettings, [Next]_vars
  PROVE  Inside'
  <1>0. threads' = threads
    BY SettingsStep
  <1> USE DEF Inside
  <1>1. CASE UNCHANGED at
    BY <1>0, <1>1
  <1>2. ASSUME NEW t \in Threads, Thread(t) PROVE Inside'
    <2>1. t <= threads
      <3>1. CASE Sleep(t)
        BY <3>1 DEF Sleep
      <3>2. CASE SleepSteps(t)
        <4>1. at[t] # "away"
          BY <3>2 DEF SleepSteps, LoseMfg, EnterScope, Token, EnterReader, LoadHandle, Wait, LeaveReader,
             LookForRetirement, Signal, NativeSleep, LeaveScope
        <4>2. QED
          BY <4>1
      <3>3. QED
        BY <1>2, <3>1, <3>2 DEF Thread
    <2>2. \A u \in Threads \ {t} : at'[u] = at[u]
      BY <1>2, ThreadMoves DEF Typed
    <2>3. QED
      BY <1>0, <2>1, <2>2
  <1>3. QED
    BY <1>1, <1>2, Actors, ManagerLeaves DEF vars

(* The threads of Sampling, and how many samples they may still add.       *)
LEMMA ThreadSamples ==
  ASSUME NEW t \in Threads, Thread(t), Typed, TypedLocals, samples \in Nat
  PROVE  \/ state = "Probing" /\ UNCHANGED <<samples, state>>
         \/ /\ UNCHANGED samples /\ Sampling' \subseteq Sampling
            /\ state' = "Probing" => state = "Probing"
         \/ /\ samples' = samples + 1 /\ t \in Sampling /\ Sampling' = Sampling \ {t}
            /\ state' = "Probing" => state = "Probing" /\ samples + 1 < ProbeSamples
  <1> USE DEF Typed, TypedLocals, Goes, Sampling, SetFallback
  <1>1. CASE Sleep(t)
    BY <1>1 DEF Sleep, control
  <1>2. CASE LoseMfg(t) \/ EnterScope(t) \/ Token(t)
    BY <1>2 DEF LoseMfg, EnterScope, Token, locals, control
  <1>3. CASE EnterReader(t)
    BY <1>3 DEF EnterReader, locals, control
  <1>4. CASE LoadHandle(t) \/ Wait(t)
    BY <1>4 DEF LoadHandle, Wait, control
  <1>5. CASE LeaveReader(t) \/ LookForRetirement(t)
    BY <1>5 DEF LeaveReader, LookForRetirement, control
  <1>6. CASE Signal(t)
    BY <1>6 DEF Signal, control
  <1>7. CASE NativeSleep(t)
    <2>1. Sampling' = Sampling \ {t} /\ at[t] = "native"
      BY <1>7 DEF NativeSleep, locals
    <2>2. CASE UNCHANGED samples
      BY <1>7, <2>1, <2>2 DEF NativeSleep, control
    <2>3. CASE ~UNCHANGED samples
      <3>1. /\ seen[t] = "Probing" /\ samples' = samples + 1
            /\ state' = IF samples + 1 >= ProbeSamples /\ state = "Probing"
                        THEN "ActivationPending" ELSE state
        BY <1>7, <2>3 DEF NativeSleep
      <3>2. t \in Sampling
        BY <2>1, <3>1
      <3>3. state' = "Probing" => state = "Probing" /\ samples + 1 < ProbeSamples
        BY <3>1, PacerAssumption
      <3>4. QED
        BY <2>1, <3>1, <3>2, <3>3
    <2>4. QED
      BY <2>2, <2>3
  <1>8. CASE LeaveScope(t)
    BY <1>8 DEF LeaveScope, control
  <1>9. QED
    BY <1>1, <1>2, <1>3, <1>4, <1>5, <1>6, <1>7, <1>8 DEF Thread, SleepSteps

LEMMA ManagerSamples ==
  ASSUME Manager
  PROVE  /\ UNCHANGED <<at, seen>>
         /\ \/ samples' = 0
            \/ UNCHANGED samples /\ (state' = "Probing" => state = "Probing")
  <1>1. CASE Present
    BY <1>1 DEF Present, TurnOff, SuspendWithoutMfg, TakeFallback, LeaveOldSwapchain, Publish, PublishFails,
         Activate, ActivateFails, RetireOr, BeginRetire, Settle, SetFallback, locals, control
  <1>2. CASE Locked
    BY <1>2 DEF Locked, TakeHandle, CountReaders, Woken, ClearRetirement, FinishRetire, MarkActivated, Settle,
         locals, control
  <1>3. CASE Callbacks \/ ChangeSettings
    BY <1>3 DEF Callbacks, ChangeSettings, OnInitSwapchain, OnDestroySwapchain, Adopt, BeginRetire, locals, control
  <1>4. QED
    BY <1>1, <1>2, <1>3 DEF Manager

LEMMA SampledStep ==
  ASSUME Typed, TInv, [Next]_vars, Inside'
  PROVE  Sampled'
  <1>0. /\ TypedLocals /\ Inside /\ samples \in Nat /\ threads' = threads /\ threads \in ThreadCounts
        /\ threads \in Nat /\ ProbeSamples \in Nat \ {0}
    BY SettingsStep, ThreadNumbers, PacerAssumption DEF TInv, TypedSettings, Sampled
  <1>1. /\ state = "Probing" => samples < ProbeSamples
        /\ samples + Cardinality(Sampling) <= ProbeSamples + threads
    BY DEF TInv, Sampled
  <1>2. IsFiniteSet(Sampling) /\ Cardinality(Sampling) \in 0..threads
    <2>1. Sampling \subseteq Threads /\ \A t \in Sampling : t <= threads
      BY <1>0 DEF Sampling, Inside
    <2>2. QED
      BY <1>0, <2>1, ThreadNumbers
  <1>3. IsFiniteSet(Sampling') /\ Cardinality(Sampling') \in 0..threads
    <2>1. Sampling' \subseteq Threads /\ \A t \in Sampling' : t <= threads
      BY <1>0 DEF Sampling, Inside
    <2>2. QED
      BY <1>0, <2>1, ThreadNumbers
  <1>4. ASSUME samples' \in Nat, state' = "Probing" => samples' < ProbeSamples,
               samples' + Cardinality(Sampling') <= ProbeSamples + threads
        PROVE  Sampled'
    BY <1>0, <1>4 DEF Sampled
  <1>5. CASE state = "Probing" /\ UNCHANGED <<samples, state>>
    BY <1>0, <1>1, <1>3, <1>4, <1>5
  <1>6. CASE UNCHANGED samples /\ Sampling' \subseteq Sampling /\ (state' = "Probing" => state = "Probing")
    <2>1. Cardinality(Sampling') <= Cardinality(Sampling)
      BY <1>2, <1>6, FS_Subset
    <2>2. QED
      BY <1>0, <1>1, <1>2, <1>3, <1>4, <1>6, <2>1
  <1>7. ASSUME NEW t \in Threads, samples' = samples + 1, t \in Sampling, Sampling' = Sampling \ {t},
               state' = "Probing" => state = "Probing" /\ samples + 1 < ProbeSamples
        PROVE  Sampled'
    <2>1. Cardinality(Sampling') = Cardinality(Sampling) - 1
      BY <1>2, <1>7, FS_RemoveElement
    <2>2. QED
      BY <1>0, <1>1, <1>2, <1>4, <1>7, <2>1
  <1>8. CASE samples' = 0
    BY <1>0, <1>3, <1>4, <1>8
  <1>9. CASE UNCHANGED vars
    <2>1. UNCHANGED <<samples, state>> /\ Sampling' = Sampling
      BY <1>9 DEF vars, control, locals, Sampling
    <2>2. QED
      BY <1>6, <2>1
  <1>10. CASE Manager
    <2>1. Sampling' = Sampling
      BY <1>10, ManagerSamples DEF Sampling
    <2>2. QED
      BY <1>6, <1>8, <1>10, <2>1, ManagerSamples
  <1>11. ASSUME NEW t \in Threads, Thread(t) PROVE Sampled'
    BY <1>0, <1>5, <1>6, <1>7, <1>11, ThreadSamples
  <1>12. QED
    BY <1>9, <1>10, <1>11, Actors

LEMMA InitiallyTyped == Init => TInv
  <1> SUFFICES ASSUME Init PROVE TInv
    OBVIOUS
  <1>1. TypedSettings /\ TypedFlags /\ Inside
    BY DEF Init, TypedSettings, TypedFlags, Inside
  <1>2. TypedControl
    BY PacerAssumption DEF Init, TypedControl, States, Reasons
  <1>3. TypedHandles
    BY LargestHandle DEF Init, TypedHandles
  <1>4. TypedManager
    BY DEF Init, TypedManager, Steps, Causes
  <1>5. TypedLocals
    BY LargestHandle DEF Init, TypedLocals, States
  <1>6. Sampled
    <2>1. Sampling = {}
      BY DEF Init, Sampling
    <2>2. Cardinality(Sampling) = 0 /\ threads \in Nat
      BY <2>1, FS_EmptySet, ThreadNumbers DEF Init
    <2>3. QED
      BY <2>2, PacerAssumption DEF Init, Sampled
  <1>7. QED
    BY <1>1, <1>2, <1>3, <1>4, <1>5, <1>6 DEF TInv

(* Every counter of the pacer keeps its range: the readers that of the     *)
(* game's threads, the samples one beyond the probe for each thread inside *)
(* a native sleep when the last one counts.                                *)
THEOREM TypeCorrect == Spec => []TypeOK
  <1>1. TInv /\ IInv /\ [Next]_vars => TInv'
    <2> SUFFICES ASSUME TInv, IInv, [Next]_vars PROVE TInv'
      OBVIOUS
    <2>0. Typed /\ Inside
      BY DEF IInv, TInv
    <2>1. TypedSettings' /\ TypedControl'
      BY SettingsStep, ControlStep DEF TInv
    <2>2. TypedHandles' /\ TypedManager'
      BY HandlesStep, ManagerStep DEF TInv
    <2>3. TypedFlags' /\ TypedLocals'
      BY FlagsStep, LocalsStep DEF TInv
    <2>4. Inside'
      BY <2>0, InsideStep DEF TInv
    <2>5. Sampled'
      BY <2>0, <2>4, SampledStep
    <2>6. QED
      BY <2>1, <2>2, <2>3, <2>4, <2>5 DEF TInv
  <1>2. TInv /\ IInv => TypeOK
    <2> SUFFICES ASSUME TInv, IInv PROVE TypeOK
      OBVIOUS
    <2>1. threads \in ThreadCounts /\ threads \in Nat
      BY ThreadNumbers DEF TInv, TypedSettings
    <2>2. readers \in 0..threads
      <3>1. ReaderSet \subseteq Threads /\ \A t \in ReaderSet : t <= threads
        BY DEF ReaderSet, ReaderLabels, TInv, Inside
      <3>2. QED
        BY <2>1, <3>1, ThreadNumbers DEF IInv, Counted
    <2>3. samples \in 0..(ProbeSamples + threads)
      <3>1. Sampling \subseteq Threads /\ \A t \in Sampling : t <= threads
        BY DEF Sampling, TInv, Inside
      <3>2. Cardinality(Sampling) \in 0..threads
        BY <2>1, <3>1, ThreadNumbers
      <3>3. QED
        BY <2>1, <3>2, PacerAssumption DEF TInv, Sampled
    <2>4. generation \in Handles
      BY <2>1, LargestHandle DEF TInv, TypedHandles
    <2>5. /\ requested \in BOOLEAN /\ mfg \in BOOLEAN /\ state \in States /\ reason \in Reasons
          /\ given \in Reasons /\ inflight \in 0..(Width - 1)
      BY DEF TInv, TypedSettings, TypedControl
    <2>6. /\ handle \in Handles /\ event \in Handles /\ taken \in Handles
          /\ openEvent \in Handles /\ closed \subseteq Handles
      BY DEF TInv, TypedHandles
    <2>7. TypedManager /\ TypedFlags /\ TypedLocals
      BY DEF TInv
    <2>8. Typed
      BY DEF IInv
    <2>9. QED
      BY <2>1, <2>2, <2>3, <2>4, <2>5, <2>6, <2>7, <2>8
         DEF TypeOK, TypedManager, TypedFlags, TypedLocals, Typed
  <1>3. QED
    BY <1>1, <1>2, InitiallyTyped, Inductive, Initially, PTL DEF Spec
----------------------------------------------------------------------------
(* The wait of a retirement.  What a reader that leaves finds of the       *)
(* retirement under way: its flag and its event.                           *)
Handshake ==
  /\ step \in {"take", "count", "wait"} => retiring /\ event = openEvent
  /\ step = "wait" => event # 0

LEMMA HandshakeStep == ASSUME Handshake, [Next]_vars PROVE Handshake'
  <1> USE DEF Handshake
  <1>1. CASE UNCHANGED vars
    BY <1>1 DEF vars, retire, manager, kernel
  <1>2. ASSUME NEW t \in Threads, Thread(t) PROVE Handshake'
    BY <1>2, ThreadLeaves DEF retire, manager
  <1>3. CASE Present
    BY <1>3 DEF Present, Presents, MayPublish, TurnOff, SuspendWithoutMfg, TakeFallback, LeaveOldSwapchain, Publish,
         PublishFails, Activate, ActivateFails, RetireOr, BeginRetire, retire, manager, kernel
  <1>4. CASE Locked
    BY <1>4 DEF Locked, TakeHandle, CountReaders, Woken, ClearRetirement, FinishRetire, MarkActivated, retire, kernel
  <1>5. CASE Callbacks \/ ChangeSettings
    BY <1>5 DEF Callbacks, ChangeSettings, OnInitSwapchain, OnDestroySwapchain, Adopt, BeginRetire, retire,
         manager, kernel
  <1>6. QED
    BY <1>1, <1>2, <1>3, <1>4, <1>5, Actors DEF Manager

\* Who wakes the retirement.
Wakes(t) ==
  \/ at[t] \in {"load", "wait", "leave"}
  \/ at[t] = "look" /\ last[t]
  \/ at[t] = "signal" /\ held[t] = openEvent

(* The thread that will wake it hands that on: a reader that leaves to     *)
(* another one, or as the last to itself.                                  *)
LEMMA WakeupHandedOn ==
  ASSUME TypeOK, Counted, Handshake, step = "wait", NEW t \in Threads, Thread(t),
         NEW w \in Threads, Wakes(w)
  PROVE  signaled' \/ \E u \in Threads : Wakes(u)'
  <1> USE DEF Wakes, Goes
  <1>1. at \in [Threads -> Labels] /\ held \in [Threads -> Handles] /\ last \in [Threads -> BOOLEAN]
    BY DEF TypeOK
  <1>2. retiring /\ event = openEvent /\ event # 0 /\ openEvent' = openEvent
    BY ThreadLeaves DEF Handshake
  <1>3. CASE w # t
    <2>1. at'[w] = at[w] /\ held'[w] = held[w] /\ last'[w] = last[w]
      BY <1>1, <1>3 DEF Thread, SleepSteps, Sleep, LoseMfg, EnterScope, Token, EnterReader, LoadHandle, Wait,
           LeaveReader, LookForRetirement, Signal, NativeSleep, LeaveScope, locals
    <2>2. QED
      BY <1>2, <2>1
  <1>4. CASE w = t /\ at[t] \in {"load", "wait"}
    <2>1. at'[t] \in {"wait", "leave"}
      BY <1>1, <1>4 DEF Thread, SleepSteps, Sleep, LoseMfg, EnterScope, Token, EnterReader, LoadHandle, Wait,
           LeaveReader, LookForRetirement, Signal, NativeSleep, LeaveScope
    <2>2. QED
      BY <2>1
  <1>5. CASE w = t /\ at[t] = "leave"
    <2>1. LeaveReader(t)
      BY <1>5 DEF Thread, SleepSteps, Sleep, LoseMfg, EnterScope, Token, EnterReader, LoadHandle, Wait,
           LookForRetirement, Signal, NativeSleep, LeaveScope
    <2>2. at'[t] = "look" /\ last'[t] = (readers = 1) /\ \A u \in Threads \ {t} : at'[u] = at[u]
      BY <1>1, <2>1 DEF LeaveReader
    <2>3. CASE readers = 1
      BY <2>2, <2>3
    <2>4. CASE readers # 1
      <3>1. t \in ReaderSet /\ IsFiniteSet(ReaderSet) /\ readers = Cardinality(ReaderSet)
        BY <1>5 DEF ReaderSet, ReaderLabels, Counted
      <3>2. IsFiniteSet(ReaderSet \ {t}) /\ Cardinality(ReaderSet \ {t}) = readers - 1
        BY <3>1, FS_RemoveElement
      <3>3. readers \in Nat
        BY <3>1, FS_CardinalityType
      <3>4. PICK u \in ReaderSet : u # t
        BY <2>4, <3>2, <3>3, FS_EmptySet
      <3>5. u \in Threads /\ at'[u] \in {"load", "wait", "leave"}
        BY <2>2, <3>4 DEF ReaderSet, ReaderLabels
      <3>6. QED
        BY <3>5
    <2>5. QED
      BY <2>3, <2>4
  <1>6. CASE w = t /\ at[t] = "look"
    <2>1. LookForRetirement(t)
      BY <1>6 DEF Thread, SleepSteps, Sleep, LoseMfg, EnterScope, Token, EnterReader, LoadHandle, Wait,
           LeaveReader, Signal, NativeSleep, LeaveScope
    <2>2. at'[t] = "signal" /\ held'[t] = event
      BY <1>1, <1>2, <1>6, <2>1 DEF LookForRetirement
    <2>3. QED
      BY <1>2, <2>2
  <1>7. CASE w = t /\ at[t] = "signal"
    <2>1. Signal(t)
      BY <1>7 DEF Thread, SleepSteps, Sleep, LoseMfg, EnterScope, Token, EnterReader, LoadHandle, Wait,
           LeaveReader, LookForRetirement, NativeSleep, LeaveScope
    <2>2. QED
      BY <1>7, <2>1 DEF Signal
  <1>8. QED
    BY <1>3, <1>4, <1>5, <1>6, <1>7

LEMMA WakeupStep ==
  ASSUME TypeOK, Counted, Handshake, WakeupIsOwed, [Next]_vars
  PROVE  WakeupIsOwed'
  <1> USE DEF WakeupIsOwed
  <1>1. CASE UNCHANGED vars
    BY <1>1 DEF vars, manager, kernel, locals
  <1>2. ASSUME NEW t \in Threads, Thread(t) PROVE WakeupIsOwed'
    <2>1. step' = step /\ (signaled => signaled')
      BY <1>2, ThreadLeaves DEF manager
    <2>2. CASE step = "wait" /\ ~signaled
      <3>1. PICK w \in Threads : Wakes(w)
        BY <2>2 DEF Wakes
      <3>2. signaled' \/ \E u \in Threads : Wakes(u)'
        BY <1>2, <2>2, <3>1, WakeupHandedOn
      <3>3. QED
        BY <3>2 DEF Wakes
    <2>3. QED
      BY <2>1, <2>2
  <1>3. CASE CountReaders
    <2>1. ASSUME readers # 0 PROVE \E t \in Threads : at[t] \in {"load", "wait", "leave"}
      BY <2>1, FS_EmptySet DEF Counted, ReaderSet, ReaderLabels
    <2>2. QED
      BY <1>3, <2>1, ManagerLeaves DEF CountReaders, Manager, Locked
  <1>4. CASE Present
    BY <1>4 DEF Present, Presents, MayPublish, TurnOff, SuspendWithoutMfg, TakeFallback, LeaveOldSwapchain, Publish,
         PublishFails, Activate, ActivateFails, RetireOr, BeginRetire, manager
  <1>5. CASE TakeHandle \/ Woken \/ ClearRetirement \/ FinishRetire \/ MarkActivated
    BY <1>5 DEF TakeHandle, Woken, ClearRetirement, FinishRetire, MarkActivated
  <1>6. CASE Callbacks \/ ChangeSettings
    <2>1. step' = "take" \/ UNCHANGED <<step, signaled, openEvent, at, held, last>>
      BY <1>6 DEF Callbacks, ChangeSettings, OnInitSwapchain, OnDestroySwapchain, Adopt, BeginRetire, manager,
           kernel, locals
    <2>2. QED
      BY <2>1
  <1>7. QED
    BY <1>1, <1>2, <1>3, <1>4, <1>5, <1>6, Actors DEF Manager, Locked

(* No wakeup of a retirement is lost: as long as it waits, and is not yet  *)
(* signaled, some thread is on its way to do it, however many threads      *)
(* sleep and enter meanwhile.                                              *)
THEOREM RetirementIsWoken == Spec => []WakeupIsOwed
  <1>1. Init => Handshake /\ WakeupIsOwed
    BY DEF Init, Handshake, WakeupIsOwed
  <1>2. IInv => Counted
    BY DEF IInv
  <1>3. QED
    BY <1>1, <1>2, Inductive, TypeCorrect, HandshakeStep, WakeupStep, PTL DEF Spec
=============================================================================
