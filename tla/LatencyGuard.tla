----------------------------- MODULE LatencyGuard -----------------------------
(***************************************************************************)
(* UpdateLatencyGuard (addon_latency.inl) and what it acts through: the    *)
(* two trials, the submission of Reflex options on the thread that gave    *)
(* them, and the override of the multiplier, which FixedOverride sends on.  *)
(*                                                                         *)
(* A present updates the pacing lab and then the guard.  The panel and the *)
(* swapchain callbacks run between the presents of the same thread, so the *)
(* guard's only rival is a thread that gives Reflex options and does not   *)
(* present.  Measurements and expired timers are inputs of an update.      *)
(***************************************************************************)
EXTENDS ReflexOptions, MultiplierTrial

CONSTANTS
  Configured,  \* the multipliers the user selects, 0 for the game's
  Reported     \* those the driver reports, 0 when it cannot be asked

ASSUME ConfiguredAssumption == Configured \subseteq {0} \cup 2..6 /\ 0 \in Configured
ASSUME ReportedAssumption == Reported \subseteq {0} \cup 2..6

VARIABLES
  requested, lastRequested, \* the waitable pacer is selected, and was at the last update
  configured,  \* g_force_multiplier
  override,    \* g_latency_guard_multiplier_override
  trial,       \* the static MultiplierTrial
  queue,       \* the static QueueTrial
  guard,       \* where UpdateLatencyGuard is
  guardMode, safe, userReady, trigger, oldCap \* its locals

pacer    == <<requested, lastRequested>>
trials   == <<trial, queue>>
locals   == <<guardMode, safe, userReady, trigger, oldCap>>
provided == <<native, provider, told, ownerPresents>>
vars == <<reflexVars, pacer, configured, override, trials, guard, locals>>

GuardLabels == {"away", "enter", "refresh", "try", "trim", "cap", "last"}

TypeOK ==
  /\ ReflexTypeOK
  /\ requested \in BOOLEAN /\ lastRequested \in BOOLEAN
  /\ configured \in Configured /\ override \in {0} \cup Tried
  /\ trial.phase \in Phases /\ trial.configured \in Configured
  /\ trial.approved \in Configured \cup Tried /\ trial.candidate \in {0} \cup Tried
  /\ trial.override \in {0} \cup Tried /\ Len(trial.window) < Window
  /\ queue \in [phase : QueuePhases, cap : {0} \cup Caps, stable : 0..Stable,
                windows : 0..Windows, multiplier : 0..6, cooling : BOOLEAN]
  /\ guard \in GuardLabels /\ guardMode \in {"off", "monitor", "automatic"}
  /\ safe \in BOOLEAN /\ userReady \in BOOLEAN /\ trigger \in BOOLEAN
  /\ oldCap \in {0} \cup Caps

Init ==
  /\ ReflexInit
  /\ requested = FALSE /\ lastRequested = FALSE
  /\ configured = 0 /\ override = 0
  /\ trial = Reset(0) /\ queue = NoTrial
  /\ guard = "away" /\ guardMode = "off" /\ safe = FALSE /\ userReady = FALSE
  /\ trigger = FALSE /\ oldCap = 0

----------------------------------------------------------------------------
(* Present.  What its own thread submits it waits for.                     *)

PresentMayRun == ownerPresents => sub = "idle"

Return == guard' = "away" /\ guardMode' = "off" /\ safe' = FALSE /\ userReady' = FALSE
          /\ trigger' = FALSE /\ oldCap' = 0

\* ActiveMultiplierForEstimate: frame generation counts as active when any of
\* these says so, or when the game's own last request or the driver does.
MfgSeen == IF Fixed(live) \/ Fixed(override) \/ Fixed(configured) THEN {TRUE} ELSE BOOLEAN

\* The pacer probes, or falls back, once frame generation is seen.
NextPacing(active) ==
  CASE ~requested -> {"native"}
    [] requested /\ ~active -> {"waiting"}
    [] requested /\ active /\ pacing = "fallback" -> {"fallback"}
    [] requested /\ active /\ pacing # "fallback" -> {"controls", "fallback"}

\* UpdateReflexPacingLab: a pacer newly requested takes the guard's place,
\* and a driver's multiplier that changed calls for a replay.
UpdatePacing ==
  /\ guard = "away" /\ PresentMayRun
  /\ \E active \in MfgSeen, changed \in BOOLEAN :
       /\ changed => requested \/ userCap
       /\ pacing' \in NextPacing(active)
       /\ behind' = IF changed THEN Holders ELSE behind
       /\ pending' = (pending \/ changed \/ (requested /\ ~lastRequested))
  /\ IF requested /\ ~lastRequested
     THEN ready' = FALSE /\ cap' = 0 /\ override' = 0
     ELSE UNCHANGED <<guardCap, override>>
  /\ lastRequested' = requested
  /\ guard' = "enter"
  /\ UNCHANGED <<mode, userCap, live, provided, submission, requested, configured, trials, locals>>

\* RefreshReflexTarget, called with pending set to p.
RefreshOr(p) ==
  IF ownerPresents /\ native # "none"
  THEN Replay /\ pending' = p
  ELSE sub' = sub /\ pending' = TRUE

\* The mode is read once; a pending refresh is taken over.
EnterGuard ==
  /\ guard = "enter"
  /\ LET m == IF mode = "automatic" /\ pacing = "controls" THEN "monitor" ELSE mode
     IN \/ /\ ~pending /\ ~ready /\ m # "automatic"  \* the panel is closed
           /\ Return
           /\ UNCHANGED <<pending, submission, guardCap, behind>>
        \/ /\ pending \/ ready \/ m # "off"
           /\ guard' = "refresh" /\ guardMode' = m
           /\ IF pending THEN RefreshOr(FALSE) ELSE UNCHANGED <<sub, pending>>
           /\ UNCHANGED <<wanted, chosen, answered, overridden, guardCap, behind, safe,
                          userReady, trigger, oldCap>>
        \/ /\ pending \/ ready \/ m # "off"          \* the device cannot be asked
           /\ Return
           /\ IF ready
              THEN ready' = FALSE /\ cap' = 0 /\ behind' = Holders /\ pending' = TRUE
              ELSE UNCHANGED <<guardCap, behind, pending>>
           /\ UNCHANGED submission
  /\ UNCHANGED <<settings, live, provided, pacer, configured, override, trials>>

\* Off, monitoring with the panel closed, or within 500 ms of a sample.
LeaveGuard ==
  /\ guard = "refresh" /\ PresentMayRun
  /\ Return
  /\ UNCHANGED <<reflexVars, pacer, configured, override, trials>>

\* The multiplier is observed, and the user's own cap comes first; once the
\* pacer is active, no longer probing, the cap is not asked for.
Sample ==
  /\ guard = "refresh" /\ PresentMayRun /\ guardMode # "off"
  /\ live' \in Reported
  /\ userReady' = UserSourceCapReady
  /\ \/ userCap /\ ~UserSourceCapReady /\ ~UserSourceCapRejected /\ RefreshOr(TRUE)
     \/ /\ ~userCap \/ UserSourceCapReady \/ UserSourceCapRejected \/ pacing = "controls"
        /\ UNCHANGED <<sub, pending>>
  /\ guard' = "try"
  /\ UNCHANGED <<settings, guardCap, behind, provided, wanted, chosen, answered,
                 overridden, pacer, configured, override, trials, guardMode, safe,
                 trigger, oldCap>>

BaseSafe ==  \* of what is known without measuring
  guardMode = "automatic" /\ live # 0 /\ Replayable /\ Fixed(configured)

\* The multiplier is not lowered while a cap is tried or kept.
TryMultiplier ==
  /\ guard = "try" /\ PresentMayRun
  /\ safe' \in {FALSE, BaseSafe}
  /\ \E triggered, other, late, better \in IF safe' THEN BOOLEAN ELSE {FALSE},
        sample \in {"old", "broken", "good"} :
       /\ trigger' = (triggered /\ safe' /\ cap = 0)
       /\ trial' = Update(trial,
            [behind |-> "multiplier" \in behind, configured |-> configured, live |-> live,
             safe |-> safe' /\ cap = 0, trigger |-> trigger', other |-> other,
             ready |-> userReady, sample |-> sample, late |-> late, better |-> better])
  /\ override' = Override(trial')
  /\ behind' = behind \ {"multiplier"}
  /\ guard' = "trim" /\ guardMode' = "off" /\ userReady' = FALSE
  /\ UNCHANGED <<settings, guardCap, live, pending, provided, submission, pacer,
                 configured, queue, oldCap>>

\* Wrong: a reduction that was kept does not stand against a cap.
MultiplierOnTrial ==
  \/ trial.phase \notin {"idle", "accepted", "cooldown"}
  \/ trigger /\ ~(trial.attempted /\ trial.phase = "cooldown")

MultiplierInPlay ==
  \/ override # 0
  \/ trial.phase \notin {"idle", "cooldown"}
  \/ trigger /\ ~(trial.attempted /\ trial.phase = "cooldown")

QueueTrimSafe == safe /\ ~userCap /\ native # "strict" /\ ~MultiplierInPlay

TrimQueue ==
  /\ guard = "trim"
  /\ oldCap' = cap
  /\ \E confident \in {FALSE, QueueTrimSafe} :
     \E recommended \in {0} \cup Caps, late, steady \in IF confident THEN BOOLEAN ELSE {FALSE},
        sample \in {"old", "good"}, verdict \in {"worse", "open", "better"} :
       queue' = UpdateQueue(queue,
         [behind |-> "queue" \in behind, live |-> live, safe |-> confident,
          recommended |-> recommended, steady |-> steady,
          acknowledged |-> ReadQueueCapAck, late |-> late, sample |-> sample,
          verdict |-> verdict])
  /\ behind' = behind \ {"queue"}
  /\ guard' = "cap" /\ safe' = FALSE /\ trigger' = FALSE
  /\ UNCHANGED <<settings, guardCap, live, pending, provided, submission, pacer,
                 configured, override, trial, guardMode, userReady>>

\* cooldown_until is thirty seconds after the stop: longer than the rest of the
\* update that stopped and than any submission under way at its end.
CoolWhile(underWay) == queue' = [queue EXCEPT !.cooling = @ /\ underWay]

StoreCap ==
  /\ guard = "cap"
  /\ CoolWhile(sub # "idle")
  /\ cap' = queue.cap /\ ready' = (queue.cap # 0)
  /\ IF cap' = oldCap THEN Return
     ELSE guard' = "last" /\ oldCap' = 0 /\ UNCHANGED <<guardMode, safe, userReady, trigger>>
  /\ UNCHANGED <<settings, live, pending, behind, provided, submission, pacer,
                 configured, override, trial>>

\* Wrong: a cap that is withdrawn is not taken back.
RefreshOnlyNew ==
  /\ guard = "last"
  /\ IF cap # 0 THEN RefreshOr(TRUE) ELSE UNCHANGED <<sub, pending>>
  /\ Return
  /\ UNCHANGED <<settings, guardCap, live, behind, provided, wanted, chosen, answered,
                 overridden, pacer, configured, override, trials>>

RefreshChanged ==
  /\ guard = "last"
  /\ RefreshOr(TRUE)
  /\ Return
  /\ UNCHANGED <<settings, guardCap, live, behind, provided, wanted, chosen, answered,
                 overridden, pacer, configured, override, trials>>

Present ==
  \/ UpdatePacing \/ EnterGuard \/ LeaveGuard \/ Sample
  \/ TryMultiplier \/ TrimQueue \/ StoreCap \/ RefreshChanged

----------------------------------------------------------------------------
(* The game, on the presenting thread between presents or on another one.  *)

elsewhere == <<pacer, configured, override, trials, guard, locals>>

BetweenPresents == guard = "away" /\ PresentMayRun
GameMayCall     == ownerPresents => guard = "away"

GiveOptions ==
  /\ GameMayCall
  /\ \E options \in Options : HookedReflexSetOptions(options)
  /\ UNCHANGED elsewhere

Sleep == GameMayCall /\ HookedReflexSleep /\ UNCHANGED elsewhere

Submit ==
  /\ Submission
  /\ CoolWhile(sub' # "idle" \/ guard = "cap")
  /\ UNCHANGED <<pacer, configured, override, trial, guard, locals>>

\* A sleep that the waitable pacer cannot serve.
PacerFallsBack ==
  /\ GameMayCall
  /\ pacing = "controls" /\ pacing' = "fallback"
  /\ UNCHANGED <<mode, userCap, guardCap, live, pending, behind, provided, submission,
                 elsewhere>>

----------------------------------------------------------------------------
(* The panel and the swapchain callbacks.                                  *)

untouched == <<live, provided, submission, trials, guard, locals>>

SelectMode(m) ==
  /\ mode' = m
  /\ cap' = 0 /\ override' = 0 /\ ready' = FALSE /\ pending' = TRUE /\ behind' = Holders
  /\ UNCHANGED <<userCap, pacing, pacer, configured, untouched>>

NotifyFixedMultiplierChanged(m) ==
  /\ m # configured
  /\ configured' = m /\ override' = 0 /\ behind' = Holders
  /\ IF userCap # (source = "user")
     THEN pending' = TRUE /\ userRejected' = FALSE
     ELSE UNCHANGED <<pending, userRejected>>
  /\ UNCHANGED <<settings, guardCap, live, native, provider, accepted, ack, source,
                 succeeded, ownerPresents, submission, pacer, trials, guard,
                 locals>>

NotifySourceFpsCapChanged ==
  /\ userCap' = ~userCap
  /\ userRejected' = FALSE /\ behind' = Holders /\ pending' = TRUE
  /\ UNCHANGED <<mode, pacing, guardCap, live, native, provider, accepted, ack, source,
                 succeeded, ownerPresents, submission, pacer, configured, override, trials, guard, locals>>

\* NotifyReflexPacingSettingChanged, for the choice of the pacing method.
SelectPacing ==
  /\ requested' = ~requested
  /\ behind' = Holders /\ pending' = TRUE
  /\ UNCHANGED <<settings, guardCap, lastRequested, configured, override, untouched>>

NotifySwapchainTransition ==
  /\ behind' = Holders
  /\ pending' = (pending \/ ready) /\ ready' = FALSE /\ cap' = 0 /\ live' = 0
  /\ override' = 0 /\ userRejected' = FALSE
  /\ pacing' = IF requested THEN "waiting" ELSE pacing
  /\ UNCHANGED <<mode, userCap, native, provider, accepted, ack, source, succeeded,
                 ownerPresents, submission, pacer, configured, trials, guard,
                 locals>>

Others ==
  /\ BetweenPresents
  /\ \/ \E m \in {"off", "monitor", "automatic"} : SelectMode(m)
     \/ \E m \in Configured : NotifyFixedMultiplierChanged(m)
     \/ NotifySourceFpsCapChanged
     \/ SelectPacing
     \/ NotifySwapchainTransition

Game == GiveOptions \/ Sleep \/ Submit \/ PacerFallsBack

Next == Present \/ Game \/ Others

Spec == Init /\ [][Next]_vars

----------------------------------------------------------------------------
(* A reduction is kept only if every step down to it won a comparison of a *)
(* window measured at it with one measured at the step above.              *)
OnlyWinnersAreKept ==
  trial.phase \in {"accepted", "waiting_for_original", "measuring_original"} =>
    \A m \in trial.approved..(trial.configured - 1) : <<{m}, {m + 1}>> \in trial.won

(* Two controllers never act at once: not a cap and a lower multiplier,    *)
(* and neither while the waitable pacer probes or controls pacing.         *)
OneController ==
  /\ cap = 0 \/ override = 0
  /\ pacing = "controls" => cap = 0 /\ override = 0

(* A cap that is measured or kept is one Streamline acknowledged, and what *)
(* it acknowledged it runs with.                                           *)
AcknowledgedCapInForce == ReadQueueCapAck \in Caps => provider = ReadQueueCapAck

(* The guard's cap does not outlive its withdrawal: it is in force only    *)
(* while the guard wants it, or its replay is on the way, or Streamline    *)
(* refused the replay and no one knows.                                    *)
WithdrawnCapRestored ==
  provider \in Caps /\ sub = "idle" /\ succeeded /\ ~ready => pending \/ guard = "last"

(* Wanted: acknowledged as native means that the limit is native.          *)
NativeIsConfirmed == ReadQueueCapAck = 0 => provider \notin Caps
=============================================================================
