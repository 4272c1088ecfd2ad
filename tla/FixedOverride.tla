---------------------------- MODULE FixedOverride ----------------------------
(***************************************************************************)
(* The game's slDLSSGSetOptions call as the addon hooks it                 *)
(* (framecount.hpp: HookedSetOptions and CallSetOptions).  One call of the *)
(* game becomes up to ten requests to the provider: a forced frame count,  *)
(* its retry, Dynamic with and without UI recomposition, and in the end    *)
(* the game's own request.  The overlay, the latency guard, the swapchain  *)
(* callbacks and GetState run on other threads and write the same atomics  *)
(* between any two steps of the call.                                      *)
(*                                                                         *)
(* A count is numFramesToGenerate, a multiplier is a count plus one, and   *)
(* zero means "none".  The game asks for eOff or eOn.                      *)
(***************************************************************************)
EXTENDS Integers, FiniteSets

CONSTANTS
  GameCounts,  \* the counts a game may ask for
  Multipliers, \* the fixed multipliers a user may select
  MaxTransientDynamicFailures, \* 4 in the code
  MaxDisturbances \* bound: steps of other threads during one call

ASSUME CountsAssumption == GameCounts \subseteq Nat \ {0}
ASSUME MultipliersAssumption == Multipliers \subseteq 2..6
ASSUME FailuresAssumption == MaxTransientDynamicFailures \in Nat \ {0}
ASSUME DisturbancesAssumption == MaxDisturbances \in Nat

Answers  == {"ok", "transient", "structural"}
Statuses == {"Native", "Pending", "Applied", "Rejected", "BlockedByPacing",
             "UnsupportedAbi", "DynamicPriority", "MatchedGameRequest",
             "StreamlineBefore27"}
Counts   == {0} \cup GameCounts \cup {m - 1 : m \in Multipliers}
              \cup {m - 2 : m \in Multipliers}

\* Why CallSetOptions is called, and which of its requests is under way.
Purposes == {"none", "off", "dynamic", "native", "fixed", "matched", "old",
             "abi", "pacing", "refused", "force", "retry", "fallback"}
Phases   == {"none", "forwarded", "same", "dynamicOnly", "own"}
Labels   == {"idle", "route", "prepare", "submit", "answered", "conclude",
             "returned"}

\* A request as the provider sees it.
Request(on, dynamic, count, ui) ==
  [on |-> on, dynamic |-> dynamic, count |-> count, ui |-> ui]
Requests == [on : BOOLEAN, dynamic : BOOLEAN, count : Counts, ui : BOOLEAN]

VARIABLES
  multiplier,    \* g_force_multiplier
  trial,         \* g_latency_guard_multiplier_override
  dynamicWanted, \* g_dynamic_mfg_enabled
  capable,       \* D3D12, the version stack and GetState's capability bit
  uiWanted,      \* the recomposition mode and the HDR state ask for the UI path
  ancient,       \* the loaded Streamline is older than 2.7
  abiKnown,      \* the game was built with a known version of DLSSGOptions
  notice,        \* an overlay change whose Notify... call is still to come
  declined,      \* g_dynamic_runtime_declined
  applied,       \* g_dynamic_applied
  failures,      \* g_dynamic_set_failures, as far as its limit
  refused,       \* g_override_refusal
  status,        \* g_fixed_override_status
  lastForced,    \* g_last_forced
  effective,     \* g_last_effective_generated, 0 when not g_effective_request_seen
  at,            \* where the game's call stands
  gameOn, gameCount, \* the game's own request
  desired,       \* the forced count
  purpose, phase,
  override, dynamic, ui,       \* the arguments and locals of CallSetOptions
  answer,        \* the provider's last answer
  accepted,      \* the request the provider runs with
  calls,         \* requests submitted during this call of the game
  submitted,     \* the last of them
  disturbed,     \* steps other threads took during this call
  rounds,        \* Dynamic rounds refused since the last retry boundary
  refusals,      \* forced requests of this call refused since the last boundary
  earned         \* the remembered count was refused twice since that boundary

settings  == <<multiplier, trial, dynamicWanted, capable, uiWanted, ancient, abiKnown, notice>>
dynamics  == <<declined, applied, failures>>
telemetry == <<status, lastForced, effective>>
theCall   == <<gameOn, gameCount, desired, override, dynamic, ui>>
provider  == <<answer, accepted, calls, submitted>>
history   == <<disturbed, rounds, refusals, earned>>
vars == <<settings, dynamics, refused, telemetry, at, theCall, purpose, phase,
          provider, history>>

TypeOK ==
  /\ multiplier \in {0} \cup Multipliers
  /\ trial \in {0} \cup {m - 1 : m \in Multipliers}
  /\ dynamicWanted \in BOOLEAN /\ capable \in BOOLEAN /\ uiWanted \in BOOLEAN
  /\ ancient \in BOOLEAN /\ notice \in {"none", "multiplier", "dynamic"}
  /\ declined \in BOOLEAN /\ applied \in BOOLEAN /\ failures \in 0..MaxTransientDynamicFailures
  /\ refused \in Counts /\ status \in Statuses
  /\ lastForced \in Counts /\ effective \in Counts
  /\ at \in Labels /\ gameOn \in BOOLEAN /\ gameCount \in Counts
  /\ abiKnown \in BOOLEAN /\ desired \in Counts
  /\ purpose \in Purposes /\ phase \in Phases
  /\ override \in BOOLEAN /\ dynamic \in BOOLEAN /\ ui \in BOOLEAN
  /\ answer \in Answers /\ accepted \in Requests /\ submitted \in Requests
  /\ calls \in 0..10 /\ disturbed \in 0..MaxDisturbances /\ rounds \in 0..(MaxTransientDynamicFailures + 1)
  /\ refusals \in 0..2 /\ earned \in BOOLEAN

NoRequest == Request(FALSE, FALSE, 0, FALSE)

Init ==
  /\ multiplier \in {0} \cup Multipliers
  /\ trial = 0
  /\ dynamicWanted \in BOOLEAN
  /\ capable = FALSE
  /\ uiWanted \in BOOLEAN
  \* Streamline older than 2.7 comes with a known structure.
  /\ ancient \in BOOLEAN /\ abiKnown \in BOOLEAN /\ (ancient => abiKnown)
  /\ notice = "none"
  /\ declined = FALSE /\ applied = FALSE /\ failures = 0
  /\ refused = 0
  /\ status = IF multiplier = 0 THEN "Native" ELSE "Pending"
  /\ lastForced = 0 /\ effective = 0
  /\ at = "idle" /\ purpose = "none" /\ phase = "none"
  /\ gameOn = FALSE /\ gameCount = 0 /\ desired = 0
  /\ override = FALSE /\ dynamic = FALSE /\ ui = FALSE
  /\ answer = "ok" /\ accepted = NoRequest /\ submitted = NoRequest /\ calls = 0
  /\ disturbed = 0 /\ rounds = 0 /\ refusals = 0 /\ earned = TRUE

AtMost(limit, n) == IF n > limit THEN limit ELSE n

Go(label) == at' = label

(***************************************************************************)
(* HookedSetOptions, up to its switch over forcepolicy::Resolve.           *)
(***************************************************************************)
DynamicReady == dynamicWanted /\ capable /\ ~declined

\* The latency trial may lower a fixed multiplier, never raise it.
Multiplier ==
  IF multiplier # 0 /\ trial # 0 /\ trial < multiplier THEN trial ELSE multiplier

Resolve(on, count) ==
  IF ~on THEN "off"
  ELSE IF DynamicReady THEN "dynamic"
  ELSE IF Multiplier = 0 THEN "native"
  ELSE IF Multiplier - 1 = count THEN "matched"
  ELSE "fixed"

\* A deliberate off/on cycle of the game is a retry boundary for both paths.
OffBoundary ==
  /\ declined' = FALSE
  /\ applied' = FALSE
  /\ refused' = 0
  /\ rounds' = 0
  /\ earned' = TRUE
  /\ UNCHANGED failures

Enter(on, count) ==
  /\ at = "idle"
  /\ gameOn' = on /\ gameCount' = count
  /\ IF on THEN UNCHANGED <<dynamics, refused, rounds, earned>> ELSE OffBoundary
  /\ purpose' = Resolve(on, count)
  /\ desired' = IF Multiplier = 0 THEN 0 ELSE Multiplier - 1
  /\ calls' = 0 /\ refusals' = 0 /\ disturbed' = 0
  /\ phase' = "none"
  /\ Go(IF Resolve(on, count) = "fixed" THEN "route" ELSE "prepare")
  /\ UNCHANGED <<settings, telemetry, override, dynamic, ui, answer, accepted, submitted>>

(* Wrong: the version of Streamline is not looked at.                      *)
GateAnyVersion(pacingReady) ==
  IF ~abiKnown THEN "abi"
  ELSE IF desired > 1 /\ ~pacingReady THEN "pacing"
  ELSE IF refused # 0 /\ refused = desired THEN "refused"
  ELSE "force"

(* Wrong: a refused count is tried again at every call.                    *)
GateForgetful(pacingReady) ==
  IF ancient /\ desired > 1 THEN "old"
  ELSE IF ~abiKnown THEN "abi"
  ELSE IF desired > 1 /\ ~pacingReady THEN "pacing"
  ELSE "force"

\* The gates before a forced count, in the code's order.
Gate(pacingReady) ==
  IF ancient /\ desired > 1 THEN "old"
  ELSE IF ~abiKnown THEN "abi"
  ELSE IF desired > 1 /\ ~pacingReady THEN "pacing"
  ELSE IF refused # 0 /\ refused = desired THEN "refused"
  ELSE "force"

\* Pacing is not ready only under the legacy software-flip option, when the
\* provider's field could not be verified.
Route ==
  /\ at = "route"
  /\ \E pacingReady \in BOOLEAN : purpose' = Gate(pacingReady)
  /\ Go("prepare")
  /\ UNCHANGED <<settings, dynamics, refused, telemetry, theCall, phase, provider, history>>

(***************************************************************************)
(* CallSetOptions.  It reads the Dynamic gate and the UI mode again, so it *)
(* may see another world than HookedSetOptions did.                        *)
(***************************************************************************)
Prepare ==
  /\ at = "prepare"
  /\ LET dyn == gameOn /\ DynamicReady
         recompose == gameOn /\ uiWanted
         forced == purpose \in {"force", "retry"}
         advanced == dyn \/ recompose \/ forced
         \* BuildAdvancedOptions refuses an unknown structure version.
         decline == dyn /\ ~abiKnown
     IN  /\ override' = forced /\ dynamic' = dyn /\ ui' = recompose
         /\ phase' = IF advanced /\ abiKnown THEN "forwarded" ELSE "own"
         /\ declined' = (declined \/ decline)
         /\ applied' = (applied /\ ~decline)
  /\ Go("submit")
  /\ UNCHANGED <<settings, failures, refused, telemetry, gameOn, gameCount, desired,
                 purpose, provider, history>>

GameRequest == Request(gameOn, FALSE, gameCount, FALSE)
Count       == IF override THEN desired ELSE gameCount

Submission ==
  CASE phase \in {"forwarded", "same"} -> Request(gameOn, dynamic, Count, ui)
    [] phase = "dynamicOnly"           -> Request(gameOn, TRUE, Count, FALSE)
    [] OTHER                           -> GameRequest

\* The provider takes the request or refuses it and keeps the one it has.
Submit ==
  /\ at = "submit"
  /\ answer' \in Answers
  /\ submitted' = Submission
  /\ accepted' = IF answer' = "ok" THEN Submission ELSE accepted
  /\ calls' = calls + 1
  /\ Go("answered")
  /\ UNCHANGED <<settings, dynamics, refused, telemetry, theCall, purpose, phase, history>>

\* The Dynamic request was taken, at once or by one of its two retries.
DynamicTaken ==
  /\ at = "answered" /\ answer = "ok"
  /\ phase # "own" /\ dynamic
  /\ applied' = TRUE
  /\ failures' = 0
  /\ rounds' = 0
  /\ Go("conclude")
  /\ UNCHANGED <<settings, declined, refused, telemetry, theCall, purpose, phase,
                 provider, disturbed, refusals, earned>>

\* The game's own request was answered, or a fixed one was taken.
Answered ==
  /\ at = "answered"
  /\ phase = "own" \/ (answer = "ok" /\ ~dynamic)
  /\ Go("conclude")
  /\ UNCHANGED <<settings, dynamics, refused, telemetry, theCall, purpose, phase,
                 provider, history>>

\* A refused Dynamic request is repeated once as it was if it also asked for
\* recomposition, then submitted without recomposition.
RetryDynamic ==
  /\ at = "answered" /\ answer # "ok" /\ dynamic
  /\ phase \in {"forwarded", "same"}
  /\ phase' = IF phase = "forwarded" /\ ui THEN "same" ELSE "dynamicOnly"
  /\ Go("submit")
  /\ UNCHANGED <<settings, dynamics, refused, telemetry, theCall, purpose, provider, history>>

\* The round is lost: try again at a later call of the game, or decline.  A
\* forced count is handed back to HookedSetOptions, any other request gives way
\* to the game's own.
DynamicRefused ==
  /\ at = "answered" /\ answer # "ok" /\ phase = "dynamicOnly"
  /\ LET n == AtMost(MaxTransientDynamicFailures, failures + 1)
     IN  /\ failures' = n
         /\ declined' = ~(answer = "transient" /\ n < MaxTransientDynamicFailures)
  /\ applied' = FALSE
  /\ rounds' = AtMost(MaxTransientDynamicFailures + 1, rounds + 1)
  /\ phase' = IF override THEN phase ELSE "own"
  /\ Go(IF override THEN "conclude" ELSE "submit")
  /\ UNCHANGED <<settings, refused, telemetry, theCall, purpose, provider,
                 disturbed, refusals, earned>>

(* Wrong: a refused override falls back inside CallSetOptions, where the   *)
(* native answer hides the refusal.                                        *)
FallBackSilently ==
  /\ at = "answered" /\ answer # "ok" /\ phase = "forwarded" /\ ~dynamic
  /\ phase' = "own"
  /\ Go("submit")
  /\ UNCHANGED <<settings, dynamics, refused, telemetry, theCall, purpose, provider, history>>

FixedRefused ==
  /\ at = "answered" /\ answer # "ok" /\ phase = "forwarded" /\ ~dynamic
  /\ phase' = IF override THEN phase ELSE "own"
  /\ Go(IF override THEN "conclude" ELSE "submit")
  /\ UNCHANGED <<settings, dynamics, refused, telemetry, theCall, purpose, provider, history>>

(***************************************************************************)
(* HookedSetOptions, after CallSetOptions returned.                        *)
(***************************************************************************)
\* Telemetry of a call that ended with the game's own count.
Passed(newStatus) ==
  /\ lastForced' = 0
  /\ effective' = IF answer = "ok" THEN gameCount ELSE 0
  /\ status' = newStatus

PassedStatus ==
  CASE purpose = "native"  -> "Native"
    [] purpose = "matched" -> "MatchedGameRequest"
    [] purpose = "old"     -> "StreamlineBefore27"
    [] purpose = "abi"     -> "UnsupportedAbi"
    [] purpose = "pacing"  -> "BlockedByPacing"
    [] OTHER               -> "Rejected"

FinishPassed ==
  /\ at = "conclude"
  /\ purpose \in {"native", "matched", "old", "abi", "pacing", "refused", "fallback"}
  /\ Passed(PassedStatus)
  /\ Go("returned")
  /\ UNCHANGED <<settings, dynamics, refused, theCall, purpose, phase, provider, history>>

\* The multiplier was read when the call began: desired holds it.
SelectedOr(other) == IF desired # 0 THEN "Pending" ELSE other

FinishOff ==
  /\ at = "conclude" /\ purpose = "off"
  /\ lastForced' = 0 /\ effective' = 0
  /\ status' = SelectedOr("Native")
  /\ Go("returned")
  /\ UNCHANGED <<settings, dynamics, refused, theCall, purpose, phase, provider, history>>

FinishDynamic ==
  /\ at = "conclude" /\ purpose = "dynamic"
  /\ IF applied
     THEN lastForced' = 0 /\ effective' = 0 /\ status' = "DynamicPriority"
     ELSE Passed(SelectedOr("Native"))
  /\ Go("returned")
  /\ UNCHANGED <<settings, dynamics, refused, theCall, purpose, phase, provider, history>>

FinishForced ==
  /\ at = "conclude" /\ purpose \in {"force", "retry"} /\ answer = "ok"
  /\ lastForced' = desired /\ effective' = desired
  /\ status' = "Applied"
  /\ Go("returned")
  /\ UNCHANGED <<settings, dynamics, refused, theCall, purpose, phase, provider, history>>

\* The first refusal may be transient state: the same count once more.
RetryForced ==
  /\ at = "conclude" /\ purpose = "force" /\ answer # "ok"
  /\ purpose' = "retry"
  /\ refusals' = refusals + 1
  /\ Go("prepare")
  /\ UNCHANGED <<settings, dynamics, refused, telemetry, theCall, phase, provider,
                 disturbed, rounds, earned>>

(* Wrong: the refusal is returned to the game as it is.                    *)
RefuseWithoutFallback ==
  /\ at = "conclude" /\ purpose = "retry" /\ answer # "ok"
  /\ lastForced' = 0 /\ effective' = 0
  /\ refused' = desired
  /\ status' = "Rejected"
  /\ refusals' = refusals + 1
  /\ earned' = (refusals = 1)
  /\ Go("returned")
  /\ UNCHANGED <<settings, dynamics, theCall, purpose, phase, provider,
                 disturbed, rounds>>

\* The count is refused: remember it and put the game's own request through.
RefuseForced ==
  /\ at = "conclude" /\ purpose = "retry" /\ answer # "ok"
  /\ lastForced' = 0
  /\ refused' = desired
  /\ purpose' = "fallback"
  /\ refusals' = refusals + 1
  /\ earned' = (refusals = 1)
  /\ Go("prepare")
  /\ UNCHANGED <<settings, dynamics, status, effective, theCall, phase, provider,
                 disturbed, rounds>>

\* Back in the game; the locals of the call are gone.
Return ==
  /\ at = "returned"
  /\ gameOn' = FALSE /\ gameCount' = 0 /\ desired' = 0
  /\ override' = FALSE /\ dynamic' = FALSE /\ ui' = FALSE
  /\ purpose' = "none" /\ phase' = "none"
  /\ answer' = "ok" /\ submitted' = NoRequest /\ calls' = 0
  /\ refusals' = 0 /\ disturbed' = 0
  /\ Go("idle")
  /\ UNCHANGED <<settings, dynamics, refused, telemetry, accepted, rounds, earned>>

(***************************************************************************)
(* The other threads.                                                      *)
(***************************************************************************)
\* What a step of another thread leaves alone, and the mark it makes.
Elsewhere ==
  /\ \/ at = "idle" /\ UNCHANGED disturbed
     \/ at # "idle" /\ disturbed < MaxDisturbances /\ disturbed' = disturbed + 1
  /\ UNCHANGED <<uiWanted, ancient, abiKnown, at, theCall, purpose, phase, provider>>

\* The boundaries at which a refusal is forgotten.
Forget == refused' = 0 /\ refusals' = 0 /\ earned' = TRUE

\* The overlay stores the choice, and notifies in a later step.
SelectMultiplier(m) ==
  /\ notice = "none" /\ m # multiplier
  /\ multiplier' = m
  /\ notice' = "multiplier"
  /\ UNCHANGED <<trial, dynamicWanted, capable, dynamics, refused, telemetry,
                 rounds, refusals, earned>>
  /\ Elsewhere

NotifyFixedMultiplierChanged ==
  /\ notice = "multiplier"
  /\ notice' = "none"
  /\ lastForced' = 0 /\ effective' = 0 /\ trial' = 0
  /\ status' = "Pending"
  /\ Forget
  /\ UNCHANGED <<multiplier, dynamicWanted, capable, dynamics, rounds>>
  /\ Elsewhere

\* The Dynamic checkbox, or a new target rate for it.
ChangeDynamic ==
  /\ notice = "none"
  /\ dynamicWanted' \in BOOLEAN
  /\ notice' = "dynamic"
  /\ UNCHANGED <<multiplier, trial, capable, dynamics, refused, telemetry,
                 rounds, refusals, earned>>
  /\ Elsewhere

NotifyDynamicModeChanged ==
  /\ notice = "dynamic"
  /\ notice' = "none"
  /\ applied' = FALSE /\ declined' = FALSE /\ failures' = 0 /\ rounds' = 0
  /\ effective' = 0
  /\ status' = IF multiplier # 0 THEN "Pending" ELSE "Native"
  /\ UNCHANGED <<multiplier, trial, dynamicWanted, capable, refused, lastForced,
                 refusals, earned>>
  /\ Elsewhere

\* GetState reports the capability bit, or the primary swapchain's API changes.
ObserveCapability ==
  /\ capable' = ~capable
  /\ UNCHANGED <<multiplier, trial, dynamicWanted, notice, dynamics, refused,
                 telemetry, rounds, refusals, earned>>
  /\ Elsewhere

\* A new primary swapchain; destroying one goes with ObserveCapability.
NotifySwapchainTransition ==
  /\ refused # 0 \/ trial # 0 \/ at # "idle"
  /\ trial' = 0
  /\ Forget
  /\ UNCHANGED <<multiplier, dynamicWanted, capable, notice, dynamics, telemetry, rounds>>
  /\ Elsewhere

\* The latency guard tries the next lower multiplier, or gives it back.
LatencyTrial ==
  /\ trial' \in {0} \cup (IF multiplier >= 3 THEN {multiplier - 1} ELSE {})
  /\ trial' # 0 => ~applied
  /\ trial' # trial
  /\ UNCHANGED <<multiplier, dynamicWanted, capable, notice, dynamics, refused,
                 telemetry, rounds, refusals, earned>>
  /\ Elsewhere

\* The user changes the recomposition mode, or the primary output its HDR state.
ChangeUiMode ==
  /\ at = "idle"
  /\ uiWanted' = ~uiWanted
  /\ UNCHANGED <<multiplier, trial, dynamicWanted, capable, ancient, abiKnown, notice, dynamics,
                 refused, telemetry, at, theCall, purpose, phase, provider, history>>

Call ==
  \/ Route \/ Prepare \/ Submit
  \/ DynamicTaken \/ Answered \/ RetryDynamic \/ DynamicRefused \/ FixedRefused
  \/ FinishPassed \/ FinishOff \/ FinishDynamic
  \/ FinishForced \/ RetryForced \/ RefuseForced
  \/ Return

Others ==
  \/ \E m \in {0} \cup Multipliers : SelectMultiplier(m)
  \/ NotifyFixedMultiplierChanged
  \/ ChangeDynamic \/ NotifyDynamicModeChanged
  \/ ObserveCapability \/ NotifySwapchainTransition
  \/ LatencyTrial \/ ChangeUiMode

Next ==
  \/ \E on \in BOOLEAN, count \in GameCounts : Enter(on, count)
  \/ Call
  \/ Others

Spec == Init /\ [][Next]_vars

-----------------------------------------------------------------------------
(* "Never leave the game worse than we found it": a call that fails has    *)
(* put the game's own request through last, whatever was forced before it  *)
(* and whatever the other threads did meanwhile.                           *)
GameNotLeftWorse == at = "returned" /\ answer # "ok" => submitted = GameRequest

(* Frame Generation Off reaches the provider once and as the game sent it. *)
(* No count above the game's two-times limit reaches a Streamline older    *)
(* than 2.7 and no count is rewritten in a structure of unknown version.   *)
SentIsAllowed ==
  at = "answered" =>
    /\ ~gameOn => calls = 1 /\ submitted = GameRequest
    /\ submitted.count # gameCount => abiKnown /\ (submitted.count > 1 => ~ancient)

(* A call of the game costs at most ten requests.  Undisturbed, a count    *)
(* refused before costs one request, two with recomposition, a count       *)
(* refused now four, and a lost Dynamic round four.  No count is forced    *)
(* while it is remembered as refused.  Between two retry boundaries        *)
(* Dynamic loses at most the limit of rounds, each cut short by the game's *)
(* own request.                                                            *)
RequestsBounded ==
  /\ calls <= 10
  /\ at = "returned" /\ disturbed = 0 =>
       calls <= CASE purpose \in {"fallback", "dynamic"} -> 4
                  [] purpose = "off" -> 1
                  [] OTHER -> 2
  /\ at = "submit" /\ purpose = "force" => refused # desired
  /\ rounds <= MaxTransientDynamicFailures

(* After a call that no other thread disturbed, what the panel shows is    *)
(* what the provider runs with: an effective count, an applied override,   *)
(* or Dynamic's priority.  So a race with one call is healed by the next.  *)
TelemetryIsTrue ==
  at = "returned" /\ disturbed = 0 =>
    /\ effective # 0 => accepted = Request(TRUE, FALSE, effective, accepted.ui)
    /\ status = "Applied" => effective = lastForced /\ lastForced # 0
    /\ status = "DynamicPriority" => accepted.on /\ accepted.dynamic

(* Comment of HookedSetOptions: a remembered count was refused twice since *)
(* the last reset boundary.                                                *)
RefusedSinceBoundary == refused # 0 => earned

(* The panel's "Dynamic MFG active" is said of a provider that runs        *)
(* Dynamic.                                                                *)
ActiveIsDynamic == at = "idle" /\ notice = "none" /\ capable /\ applied => accepted.dynamic
=============================================================================
