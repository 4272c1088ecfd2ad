---------------------------- MODULE WaitablePacer ----------------------------
(***************************************************************************)
(* The DXGI Waitable pacer (reflex_pacing.hpp, addon_latency.inl and the   *)
(* swapchain callbacks of addon.cpp).  The game's threads call slReflex-   *)
(* Sleep; while the pacer is active such a call waits on a handle          *)
(* duplicated from the primary swapchain, without any lock.  Present and   *)
(* the swapchain callbacks publish the handle, activate the pacer after a  *)
(* probe of native sleeps, and retire the handle again: they hold          *)
(* g_reflex_waitable.lock and so form one process, the manager.            *)
(***************************************************************************)
EXTENDS Integers, FiniteSets

CONSTANTS
  Swapchains,   \* the swapchains the game may create
  NoSwapchain,
  Generations,  \* bound: [number of sleeping threads -> handles published]
  ProbeSamples, \* 120 in the code
  Width         \* bound: the modulus of g_sleep_inflight, 2^32 in the code

ThreadCounts == DOMAIN Generations
Threads      == 1..(CHOOSE n \in ThreadCounts : \A k \in ThreadCounts : k <= n)
MaxHandle    == CHOOSE n \in {Generations[k] : k \in ThreadCounts} :
                  \A k \in ThreadCounts : Generations[k] <= n

\* The table is bounded, so that the largest count and the last handle exist.
ASSUME GenerationsAssumption ==
  /\ ThreadCounts \subseteq Nat \ {0}
  /\ \A n \in ThreadCounts : Generations[n] \in Nat /\ n < Width
  /\ \E n \in ThreadCounts : \A k \in ThreadCounts : k <= n
  /\ \E n \in ThreadCounts : \A k \in ThreadCounts : Generations[k] <= Generations[n]
ASSUME PacerAssumption ==
  /\ NoSwapchain \notin Swapchains
  /\ ProbeSamples \in Nat \ {0}
  /\ Width \in Nat \ {0}

States  == {"Native", "WaitingForSwapchain", "Probing", "ActivationPending",
            "Active", "Fallback"}
Pacing  == {"Probing", "ActivationPending", "Active"}
Reasons == {"None", "NotRequested", "MfgInactive", "PublishFailed",
            "MaximumLatencySetFailed", "SwapchainChanged", "BadToken",
            "ConcurrentSleep", "NativeSleepFailed", "NoWaitableHandle",
            "WaitFailed"}
Handles == 0..MaxHandle   \* 0 is the null handle; so are the events'
Labels  == {"away", "scope", "token", "enter", "load", "wait", "leave",
            "look", "signal", "native", "exit"}
Steps   == {"free", "mark", "take", "count", "wait", "clear", "finish"}
Causes  == {"none", "off", "inactive", "fallback", "changed", "destroyed"}

VARIABLES
  requested,     \* the user selected the waitable pacer
  mfg,           \* g_mfg_multiplier is 2..6
  state, reason, \* g_waitable_state, g_fallback_reason
  handle,        \* g_waitable_handle
  generation,    \* g_reflex_waitable.generation, the number of handles so far
  readers, retiring, event, \* the reader count and the retirement handshake
  inflight,      \* g_sleep_inflight
  samples,       \* g_probe_samples
  owner, latched, forced, wasRequested, \* g_reflex_waitable
  live, primary, latency, \* the swapchains, their MaximumFrameLatency
  step, cause,   \* the manager: where it stands, why it retires,
  given,         \* and the fallback reason it read before
  taken,         \* the handle the manager took
  openEvent, signaled, \* the kernel's event object
  closed,        \* handles closed so far
  at, seen, last, held, \* the sleeping threads: label and locals
  threads        \* how many of them the game has

shared  == <<requested, mfg>>
control == <<state, reason>>
lab     == <<owner, latched, forced, wasRequested>>
chains  == <<live, primary, latency>>
kernel  == <<openEvent, signaled, closed>>
retire  == <<retiring, event, taken>>
manager == <<step, cause, given>>
locals  == <<seen, last, held>>
vars == <<shared, control, handle, generation, readers, retire, inflight, samples,
          lab, chains, manager, kernel, at, locals, threads>>

NativeLatency == 2  \* what the game asked for; the pacer wants 1

TypeOK ==
  /\ requested \in BOOLEAN /\ mfg \in BOOLEAN
  /\ state \in States /\ reason \in Reasons
  /\ handle \in Handles /\ generation \in Handles
  /\ readers \in 0..threads /\ retiring \in BOOLEAN /\ event \in Handles
  /\ inflight \in 0..(Width - 1) /\ samples \in 0..(ProbeSamples + threads)
  /\ owner \in Swapchains \cup {NoSwapchain} /\ latched \in BOOLEAN
  /\ forced \in BOOLEAN /\ wasRequested \in BOOLEAN
  /\ live \subseteq Swapchains /\ primary \in Swapchains \cup {NoSwapchain}
  /\ latency \in [Swapchains -> {1, NativeLatency}]
  /\ step \in Steps /\ cause \in Causes /\ given \in Reasons /\ taken \in Handles
  /\ openEvent \in Handles /\ signaled \in BOOLEAN /\ closed \subseteq Handles
  /\ at \in [Threads -> Labels] /\ seen \in [Threads -> States]
  /\ last \in [Threads -> BOOLEAN] /\ held \in [Threads -> Handles]
  /\ threads \in ThreadCounts

Init ==
  /\ requested = FALSE /\ mfg = FALSE
  /\ state = "Native" /\ reason = "None"
  /\ handle = 0 /\ generation = 0
  /\ readers = 0 /\ retiring = FALSE /\ event = 0 /\ taken = 0
  /\ inflight = 0 /\ samples = 0
  /\ owner = NoSwapchain /\ latched = FALSE /\ forced = FALSE /\ wasRequested = FALSE
  /\ live = {} /\ primary = NoSwapchain
  /\ latency = [c \in Swapchains |-> NativeLatency]
  /\ step = "free" /\ cause = "none" /\ given = "None"
  /\ openEvent = 0 /\ signaled = FALSE /\ closed = {}
  /\ at = [t \in Threads |-> "away"] /\ seen = [t \in Threads |-> "Native"]
  /\ last = [t \in Threads |-> FALSE] /\ held = [t \in Threads |-> 0]
  /\ threads \in ThreadCounts

SetFallback(why) == state' = "Fallback" /\ reason' = why
Goes(t, label)   == at' = [at EXCEPT ![t] = label]

(***************************************************************************)
(* HandleSleep, on a thread of the game.  Any other state, and a pacer     *)
(* that is not requested, is the native sleep and changes nothing here.    *)
(***************************************************************************)
Sleep(t) ==
  /\ t <= threads /\ at[t] = "away"
  /\ requested /\ state \in Pacing
  /\ seen' = [seen EXCEPT ![t] = state]
  /\ Goes(t, "scope")
  /\ UNCHANGED <<shared, control, handle, generation, readers, retire, inflight, samples,
                 lab, chains, manager, kernel, last, held, threads>>

\* Without live multi-frame generation an active pacer gives up.
LoseMfg(t) ==
  /\ at[t] = "scope" /\ ~mfg
  /\ IF seen[t] = "Active" THEN SetFallback("MfgInactive") ELSE UNCHANGED control
  /\ Goes(t, "away")
  /\ UNCHANGED <<shared, handle, generation, readers, retire, inflight, samples, lab,
                 chains, manager, kernel, locals, threads>>

\* SleepScope: only the thread that finds the count at zero goes on.
EnterScope(t) ==
  /\ at[t] = "scope" /\ mfg
  /\ inflight' = (inflight + 1) % Width
  /\ IF inflight = 0
     THEN Goes(t, "token") /\ UNCHANGED control
     ELSE Goes(t, "exit") /\ SetFallback("ConcurrentSleep")
  /\ UNCHANGED <<shared, handle, generation, readers, retire, samples, lab, chains,
                 manager, kernel, locals, threads>>

\* ValidateToken: a repeated or an older frame token ends the pacing.
Token(t) ==
  /\ at[t] = "token"
  /\ \/ /\ Goes(t, IF seen[t] = "Active" THEN "enter" ELSE "native")
        /\ UNCHANGED control
     \/ Goes(t, "exit") /\ SetFallback("BadToken")
  /\ UNCHANGED <<shared, handle, generation, readers, retire, inflight, samples, lab,
                 chains, manager, kernel, locals, threads>>

\* ReaderScope: count first, then load the handle.
EnterReader(t) ==
  /\ at[t] = "enter"
  /\ readers' = readers + 1
  /\ Goes(t, "load")
  /\ UNCHANGED <<shared, control, handle, generation, retire, inflight, samples, lab,
                 chains, manager, kernel, locals, threads>>

(* Wrong: a missing handle returns early, past the reader's destructor.    *)
LoadHandleOrReturn(t) ==
  /\ at[t] = "load"
  /\ held' = [held EXCEPT ![t] = handle]
  /\ IF handle = 0
     THEN Goes(t, "exit") /\ SetFallback("NoWaitableHandle")
     ELSE Goes(t, "wait") /\ UNCHANGED control
  /\ UNCHANGED <<shared, handle, generation, readers, retire, inflight, samples, lab,
                 chains, manager, kernel, seen, last, threads>>

LoadHandle(t) ==
  /\ at[t] = "load"
  /\ held' = [held EXCEPT ![t] = handle]
  /\ IF handle = 0
     THEN Goes(t, "leave") /\ SetFallback("NoWaitableHandle")
     ELSE Goes(t, "wait") /\ UNCHANGED control
  /\ UNCHANGED <<shared, handle, generation, readers, retire, inflight, samples, lab,
                 chains, manager, kernel, seen, last, threads>>

\* The swapchain signals, or the wait times out or fails.
Wait(t) ==
  /\ at[t] = "wait"
  /\ UNCHANGED control \/ SetFallback("WaitFailed")
  /\ held' = [held EXCEPT ![t] = 0]
  /\ Goes(t, "leave")
  /\ UNCHANGED <<shared, handle, generation, readers, retire, inflight, samples, lab,
                 chains, manager, kernel, seen, last, threads>>

(* Wrong: the count before the reader left is taken for the one after.     *)
LeaveUncounted(t) ==
  /\ at[t] = "leave"
  /\ readers' = readers - 1
  /\ last' = [last EXCEPT ![t] = (readers = 0)]
  /\ Goes(t, "look")
  /\ UNCHANGED <<shared, control, handle, generation, retire, inflight, samples, lab,
                 chains, manager, kernel, seen, held, threads>>

LeaveReader(t) ==
  /\ at[t] = "leave"
  /\ readers' = readers - 1
  /\ last' = [last EXCEPT ![t] = (readers = 1)]
  /\ Goes(t, "look")
  /\ UNCHANGED <<shared, control, handle, generation, retire, inflight, samples, lab,
                 chains, manager, kernel, seen, held, threads>>

(* Wrong: a reader that leaves does not tell the one who retires.          *)
LeaveSilently(t) ==
  /\ at[t] = "look"
  /\ Goes(t, "exit")
  /\ last' = [last EXCEPT ![t] = FALSE]
  /\ UNCHANGED <<shared, control, handle, generation, readers, retire, inflight,
                 samples, lab, chains, manager, kernel, seen, held, threads>>

\* The last reader out takes the event of a retirement under way ...
LookForRetirement(t) ==
  /\ at[t] = "look"
  /\ IF last[t] /\ retiring /\ event # 0
     THEN Goes(t, "signal") /\ held' = [held EXCEPT ![t] = event]
     ELSE Goes(t, "exit") /\ UNCHANGED held
  /\ last' = [last EXCEPT ![t] = FALSE]
  /\ UNCHANGED <<shared, control, handle, generation, readers, retire, inflight,
                 samples, lab, chains, manager, kernel, seen, threads>>

\* ... and signals it, which does nothing if it has been closed meanwhile.
Signal(t) ==
  /\ at[t] = "signal"
  /\ signaled' = (signaled \/ held[t] = openEvent)
  /\ held' = [held EXCEPT ![t] = 0]
  /\ Goes(t, "exit")
  /\ UNCHANGED <<shared, control, handle, generation, readers, retire, inflight, samples,
                 lab, chains, manager, openEvent, closed, seen, last, threads>>

\* While probing, a native sleep; enough of them ask for activation.
NativeSleep(t) ==
  /\ at[t] = "native"
  /\ \/ SetFallback("NativeSleepFailed") /\ UNCHANGED samples
     \/ /\ seen[t] # "Probing"
        /\ UNCHANGED <<control, samples>>
     \/ /\ seen[t] = "Probing"
        /\ samples' = samples + 1
        /\ state' = IF samples + 1 >= ProbeSamples /\ state = "Probing"
                    THEN "ActivationPending" ELSE state
        /\ UNCHANGED reason
  /\ Goes(t, "exit")
  /\ UNCHANGED <<shared, handle, generation, readers, retire, inflight, lab, chains,
                 manager, kernel, locals, threads>>

LeaveScope(t) ==
  /\ at[t] = "exit"
  /\ inflight' = (inflight - 1) % Width
  /\ seen' = [seen EXCEPT ![t] = "Native"]
  /\ Goes(t, "away")
  /\ UNCHANGED <<shared, control, handle, generation, readers, retire, samples, lab,
                 chains, manager, kernel, last, held, threads>>

(***************************************************************************)
(* The manager.  What each reason to retire leaves behind:                 *)
(***************************************************************************)
Settle(why, before) ==
  /\ state' = CASE why = "off" -> "Native"
                [] why \in {"inactive", "destroyed"} -> "WaitingForSwapchain"
                [] OTHER -> "Fallback"
  /\ reason' = CASE why = "off" -> "NotRequested"
                 [] why = "inactive" -> "MfgInactive"
                 [] why = "fallback" -> before
                 [] OTHER -> "SwapchainChanged"
  /\ latched' = (why \in {"fallback", "changed"})

\* RetireWaitable, first half: the event may fail to be created.
BeginRetire(why) ==
  /\ cause' = why /\ given' = reason
  /\ retiring' = TRUE
  /\ event' \in {0, generation}
  /\ openEvent' = event' /\ signaled' = FALSE
  /\ step' = "take"
  /\ UNCHANGED <<shared, control, handle, generation, readers, taken, inflight, samples,
                 owner, latched, forced, chains, closed, at, locals, threads>>

\* Without an owner only the settings change.
RetireOr(why) ==
  \/ owner # NoSwapchain /\ BeginRetire(why)
  \/ /\ owner = NoSwapchain
     /\ Settle(why, reason)
     /\ UNCHANGED <<shared, handle, generation, readers, retire, inflight, samples,
                    owner, forced, chains, manager, kernel, at, locals, threads>>

TakeHandle ==
  /\ step = "take"
  /\ taken' = handle /\ handle' = 0
  /\ step' = "count"
  /\ UNCHANGED <<shared, control, generation, readers, retiring, event, inflight, samples,
                 lab, chains, cause, given, kernel, at, locals, threads>>

(* Wrong: without an event the handle is returned whoever waits on it.     *)
CountWithoutLeak ==
  /\ step = "count"
  /\ step' = IF readers # 0 /\ event # 0 THEN "wait" ELSE "clear"
  /\ UNCHANGED <<shared, control, handle, generation, readers, retire, inflight, samples,
                 lab, chains, cause, given, kernel, at, locals, threads>>

\* A reader may hold the handle: wait for it, or without an event leak it.
CountReaders ==
  /\ step = "count"
  /\ step' = IF readers # 0 /\ event # 0 THEN "wait" ELSE "clear"
  /\ taken' = IF readers # 0 /\ event = 0 THEN 0 ELSE taken
  /\ UNCHANGED <<shared, control, handle, generation, readers, retiring, event, inflight,
                 samples, lab, chains, cause, given, kernel, at, locals, threads>>

Woken ==
  /\ step = "wait" /\ signaled
  /\ step' = "clear"
  /\ UNCHANGED <<shared, control, handle, generation, readers, retire, inflight, samples,
                 lab, chains, cause, given, kernel, at, locals, threads>>

ClearRetirement ==
  /\ step = "clear"
  /\ retiring' = FALSE /\ event' = 0
  /\ openEvent' = 0 /\ signaled' = FALSE
  /\ step' = "finish"
  /\ UNCHANGED <<shared, control, handle, generation, readers, taken, inflight, samples,
                 lab, chains, cause, given, closed, at, locals, threads>>

(* Wrong: the latency the pacer forced stays on the swapchain.             *)
FinishKeepingLatency ==
  /\ step = "finish"
  /\ closed' = closed \cup ({taken} \ {0})
  /\ taken' = 0
  /\ owner' = NoSwapchain /\ forced' = FALSE
  /\ Settle(cause, given)
  /\ live' = IF cause = "destroyed" THEN live \ {owner} ELSE live
  /\ primary' = IF cause = "destroyed" /\ primary = owner THEN NoSwapchain ELSE primary
  /\ step' = "free" /\ cause' = "none" /\ given' = "None"
  /\ UNCHANGED <<shared, handle, generation, readers, retiring, event, inflight, samples,
                 wasRequested, latency, openEvent, signaled, at, locals, threads>>

\* RestoreReflexWaitableLocked: close the handle, give the swapchain its own
\* latency back, and go on in the function that retired.
FinishRetire ==
  /\ step = "finish"
  /\ closed' = closed \cup ({taken} \ {0})
  /\ taken' = 0
  /\ latency' = IF forced THEN [latency EXCEPT ![owner] = NativeLatency] ELSE latency
  /\ owner' = NoSwapchain /\ forced' = FALSE
  /\ Settle(cause, given)
  /\ live' = IF cause = "destroyed" THEN live \ {owner} ELSE live
  /\ primary' = IF cause = "destroyed" /\ primary = owner THEN NoSwapchain ELSE primary
  /\ step' = "free" /\ cause' = "none" /\ given' = "None"
  /\ UNCHANGED <<shared, handle, generation, readers, retiring, event, inflight, samples,
                 wasRequested, openEvent, signaled, at, locals, threads>>

(***************************************************************************)
(* UpdateReflexPacingLab, at a present of the primary swapchain.           *)
(***************************************************************************)
Presents    == step = "free" /\ primary # NoSwapchain
\* A changed selection takes the latch off before anything else.
Latched     == latched /\ requested = wasRequested

TurnOff ==
  /\ Presents /\ ~requested /\ wasRequested
  /\ wasRequested' = FALSE
  /\ \/ owner # NoSwapchain /\ BeginRetire("off")
     \/ /\ owner = NoSwapchain
        /\ state' = "Native" /\ latched' = FALSE
        /\ UNCHANGED <<shared, reason, handle, generation, readers, retire, inflight,
                       samples, owner, forced, chains, manager, kernel, at, locals, threads>>

SuspendWithoutMfg ==
  /\ Presents /\ requested /\ ~mfg
  /\ wasRequested' = TRUE
  /\ RetireOr("inactive")

TakeFallback ==
  /\ Presents /\ requested /\ mfg /\ state = "Fallback"
  /\ wasRequested' = TRUE
  /\ RetireOr("fallback")

LeaveOldSwapchain ==
  /\ Presents /\ requested /\ mfg /\ state # "Fallback"
  /\ owner \notin {NoSwapchain, primary}
  /\ wasRequested' = TRUE
  /\ BeginRetire("changed")

MayPublish ==
  /\ Presents /\ requested /\ mfg /\ state # "Fallback"
  /\ owner = NoSwapchain /\ ~Latched

\* PublishReflexWaitableLocked and PublishWaitable.  ResetProbeState zeroes
\* g_sleep_inflight whoever is inside SleepScope.
Publish ==
  /\ MayPublish /\ generation < Generations[threads]
  /\ generation' = generation + 1
  /\ handle' = generation + 1
  /\ owner' = primary
  /\ inflight' = 0 /\ samples' = 0
  /\ state' = "Probing" /\ reason' = "None"
  /\ latched' = FALSE /\ forced' = FALSE /\ wasRequested' = TRUE
  /\ UNCHANGED <<shared, readers, retire, chains, manager, kernel, at, locals, threads>>

\* No waitable flag, no handle, or a DXGI call fails.
PublishFails ==
  /\ MayPublish
  /\ SetFallback("PublishFailed")
  /\ latched' = Latched /\ wasRequested' = TRUE
  /\ UNCHANGED <<shared, handle, generation, readers, retire, inflight, samples, owner,
                 forced, chains, manager, kernel, at, locals, threads>>

\* SetMaximumFrameLatency(1), then MarkActivationResult in a step of its own.
Activate ==
  /\ Presents /\ requested /\ mfg /\ state = "ActivationPending"
  /\ owner = primary
  /\ forced' = TRUE
  /\ latency' = [latency EXCEPT ![owner] = 1]
  /\ latched' = Latched /\ wasRequested' = TRUE
  /\ step' = "mark"
  /\ UNCHANGED <<shared, control, handle, generation, readers, retire, inflight, samples,
                 owner, live, primary, cause, given, kernel, at, locals, threads>>

ActivateFails ==
  /\ Presents /\ requested /\ mfg /\ state = "ActivationPending"
  /\ owner = primary
  /\ SetFallback("MaximumLatencySetFailed")
  /\ latched' = Latched /\ wasRequested' = TRUE
  /\ UNCHANGED <<shared, handle, generation, readers, retire, inflight, samples, owner,
                 forced, chains, manager, kernel, at, locals, threads>>

(* Wrong: the result is stored, not exchanged against ActivationPending.   *)
MarkBlindly ==
  /\ step = "mark"
  /\ state' = "Active"
  /\ step' = "free"
  /\ UNCHANGED <<shared, reason, handle, generation, readers, retire, inflight, samples,
                 lab, chains, cause, given, kernel, at, locals, threads>>

MarkActivated ==
  /\ step = "mark"
  /\ state' = IF state = "ActivationPending" THEN "Active" ELSE state
  /\ step' = "free"
  /\ UNCHANGED <<shared, reason, handle, generation, readers, retire, inflight, samples,
                 lab, chains, cause, given, kernel, at, locals, threads>>

(***************************************************************************)
(* The swapchain callbacks and the panel.                                  *)
(***************************************************************************)
\* A new swapchain becomes the primary one if there is none or if it is larger.
OnInitSwapchain(c) ==
  /\ step = "free" /\ c \notin live
  /\ live' = live \cup {c}
  /\ latency' = [latency EXCEPT ![c] = NativeLatency]
  /\ \/ /\ primary' = c
        /\ latched' = FALSE
        /\ IF requested
           THEN state' = "WaitingForSwapchain" /\ reason' = "None"
           ELSE UNCHANGED control
     \/ primary # NoSwapchain /\ UNCHANGED <<primary, latched, control>>
  /\ UNCHANGED <<shared, handle, generation, readers, retire, inflight, samples, owner,
                 forced, wasRequested, manager, kernel, at, locals, threads>>

(* Wrong: only the end of the primary swapchain retires the pacer.         *)
RetirePrimaryOnly(c) ==
  /\ step = "free" /\ c \in live
  /\ IF owner = c /\ primary = c
     THEN BeginRetire("destroyed") /\ UNCHANGED wasRequested
     ELSE /\ live' = live \ {c}
          /\ primary' = IF primary = c THEN NoSwapchain ELSE primary
          /\ UNCHANGED <<shared, control, handle, generation, readers, retire, inflight,
                         samples, lab, latency, manager, kernel, at, locals, threads>>

OnDestroySwapchain(c) ==
  /\ step = "free" /\ c \in live
  /\ IF owner = c
     THEN BeginRetire("destroyed") /\ UNCHANGED wasRequested
     ELSE /\ live' = live \ {c}
          /\ primary' = IF primary = c THEN NoSwapchain ELSE primary
          /\ UNCHANGED <<shared, control, handle, generation, readers, retire, inflight,
                         samples, lab, latency, manager, kernel, at, locals, threads>>

\* A present adopts a swapchain when none is primary.
Adopt(c) ==
  /\ primary = NoSwapchain /\ c \in live
  /\ primary' = c
  /\ UNCHANGED <<shared, control, handle, generation, readers, retire, inflight, samples,
                 lab, live, latency, manager, kernel, at, locals, threads>>

ChangeSettings ==
  /\ \/ requested' = ~requested /\ UNCHANGED mfg
     \/ mfg' = ~mfg /\ UNCHANGED requested
  /\ UNCHANGED <<control, handle, generation, readers, retire, inflight, samples, lab,
                 chains, manager, kernel, at, locals, threads>>

SleepSteps(t) ==
  \/ LoseMfg(t) \/ EnterScope(t) \/ Token(t) \/ EnterReader(t) \/ LoadHandle(t)
  \/ Wait(t) \/ LeaveReader(t) \/ LookForRetirement(t) \/ Signal(t)
  \/ NativeSleep(t) \/ LeaveScope(t)
Locked ==   \* the steps that finish what a present or a callback began
  TakeHandle \/ CountReaders \/ Woken \/ ClearRetirement \/ FinishRetire \/ MarkActivated
Present ==
  \/ TurnOff \/ SuspendWithoutMfg \/ TakeFallback \/ LeaveOldSwapchain
  \/ Publish \/ PublishFails \/ Activate \/ ActivateFails

Next ==
  \/ \E t \in Threads : Sleep(t) \/ SleepSteps(t)
  \/ Present \/ Locked
  \/ \E c \in Swapchains : OnInitSwapchain(c) \/ OnDestroySwapchain(c) \/ Adopt(c)
  \/ ChangeSettings

Spec == Init /\ [][Next]_vars

\* A thread inside HandleSleep runs on: the native sleep returns and the wait
\* has a timeout.  So does the thread that retires, once it is woken.  Nothing
\* makes the game sleep, present, or create a swapchain.
FairSpec ==
  /\ Spec
  /\ \A t \in Threads : WF_vars(SleepSteps(t))
  /\ WF_vars(Locked)

-----------------------------------------------------------------------------
\* RetireWaitable does not go on to close a handle some thread waits on, unless
\* a reader has signaled the event: without an event it leaks the handle.
UnawaitedHandleFree ==
  step = "clear" /\ ~signaled => \A t \in Threads : at[t] = "wait" => held[t] # taken

\* reflex_pacing.hpp:261: "never close a handle still in use".
HandleInUse == \A t \in Threads : at[t] = "wait" => held[t] \notin closed

\* Between the manager's turns exactly the swapchain that owns an activated
\* pacer runs with the latency of one frame; every other has its own.
LatencyRestored ==
  step = "free" => \A c \in live : latency[c] = 1 <=> forced /\ owner = c

\* While calls may be paced there is a published handle, and it belongs to a
\* swapchain that still exists.
PacerOwned ==
  step = "free" /\ state \in Pacing => handle # 0 /\ owner \in live

\* A fallback a game thread decides while the latency is being forced is not
\* overwritten: only a pacer whose probe has passed, and stood, becomes active.
ActivationEarned ==
  [][state # "Active" /\ state' = "Active" => state = "ActivationPending"]_vars

\* The pacer borrows swapchains as LatencyLoan promises: one at a time, with
\* the latency given back before the next, or before the game destroys it.
Altered  == {c \in live : latency[c] # NativeLatency}
Loan     == INSTANCE LatencyLoan WITH borrower <- owner, altered <- Altered
LoanSpec == Loan!Spec

\* No wakeup is lost.  The retirement that counted readers waits without a
\* timeout; until it is signaled there is a thread that will signal it: one of
\* the readers counted, the last of them before it looks for a retirement, or
\* one with this retirement's event in hand.
WakeupIsOwed ==
  step = "wait" /\ ~signaled =>
    \E t \in Threads : \/ at[t] \in {"load", "wait", "leave"}
                       \/ at[t] = "look" /\ last[t]
                       \/ at[t] = "signal" /\ held[t] = openEvent

\* RetireWaitable waits without a timeout; some reader wakes it.
RetireReturns == step # "free" ~> step = "free"

\* README.md: a "concurrent sleep" is what ends the pacing with that reason.
\* With one sleeping thread there are no concurrent sleeps.
NoFalseConcurrency == threads = 1 => reason # "ConcurrentSleep"
=============================================================================
