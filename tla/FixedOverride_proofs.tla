------------------------- MODULE FixedOverride_proofs -------------------------
(***************************************************************************)
(* The safety of HookedSetOptions, for every set of counts and             *)
(* multipliers, every limit of failures and any number of steps of other   *)
(* threads within one call.                                                *)
(***************************************************************************)
EXTENDS FixedOverride, TLAPS

Working == at \in {"submit", "answered", "conclude"}
Forcing == purpose \in {"force", "retry"}
Passing == {"native", "matched", "old", "abi", "pacing", "refused", "fallback"}

(* Where a call stands says what it is about: a forced count is sent only  *)
(* in a forced pass, and an off request is never rewritten.                *)
Control ==
  /\ at = "route" => purpose = "fixed"
  /\ at \notin {"idle", "route"} => purpose \in Passing \cup {"off", "dynamic", "force", "retry"}
  /\ at # "idle" => (gameOn <=> purpose # "off")
  /\ Working => /\ phase \in {"forwarded", "same", "dynamicOnly", "own"}
                /\ override <=> Forcing
                /\ phase \in {"same", "dynamicOnly"} => dynamic
                /\ phase # "own" => gameOn /\ abiKnown
                /\ override => phase # "own"

(* A pass that forces a count came through every gate.                     *)
ForcedIsAllowed ==
  /\ trial # 0 => trial >= 2
  /\ at = "route" => desired # 0
  /\ at # "idle" /\ Forcing => desired # 0 /\ abiKnown /\ (desired > 1 => ~ancient)
  /\ at \notin {"idle", "returned"} /\ purpose = "force" => refused # desired

(* What was sent is what the call stands for, and a refusal is the end of  *)
(* a pass only if it can be retried or was the game's own request.         *)
Sent ==
  /\ at \in {"answered", "conclude"} =>
       submitted = Submission /\ (answer = "ok" => accepted = Submission)
  /\ at = "conclude" /\ answer # "ok" => phase = "own" \/ override
  /\ GameNotLeftWorse

(* The requests of a call: three in a forced pass, four in any other.      *)
Before(p) == CASE p = "retry" -> 3 [] p = "fallback" -> 6 [] OTHER -> 0
Nth(ph)   == CASE ph = "same" -> 1 [] ph = "dynamicOnly" -> 2 [] ph = "own" -> 3 [] OTHER -> 0

Counted ==
  /\ at = "route" => calls = 0 /\ refusals = 0
  /\ at = "prepare" => calls <= Before(purpose)
  /\ at = "submit" => calls <= Before(purpose) + Nth(phase)
  /\ at \in {"answered", "conclude"} => calls <= Before(purpose) + Nth(phase) + 1
  /\ purpose = "off" /\ at = "submit" => calls = 0
  /\ purpose = "off" /\ at \in {"answered", "conclude", "returned"} => calls = 1
  /\ at # "idle" /\ purpose = "force" => refusals = 0
  /\ at # "idle" /\ purpose = "retry" => refusals <= 1

(* While no other thread has stepped in, the Dynamic gate stands as the    *)
(* call first saw it, so the passes of a fixed count never try Dynamic.    *)
Before0(p)   == CASE p = "retry" -> 1 [] p = "fallback" -> 2 [] OTHER -> 0
Nth0(p, ph)  == IF p = "dynamic" THEN Nth(ph) ELSE IF ph = "own" THEN 1 ELSE 0

Undisturbed ==
  disturbed = 0 =>
    /\ at = "route" => ~DynamicReady
    /\ at = "prepare" => /\ purpose = "dynamic" <=> gameOn /\ DynamicReady
                         /\ calls <= Before0(purpose)
    /\ Working => /\ purpose # "dynamic" => ~dynamic /\ (gameOn => ~DynamicReady)
                  /\ purpose = "dynamic" => dynamic /\ (phase = "own" => ~applied)
    /\ at = "conclude" /\ purpose = "dynamic" => phase = "own" \/ applied
    /\ at = "submit" => calls <= Before0(purpose) + Nth0(purpose, phase)
    /\ at \in {"answered", "conclude"} => calls <= Before0(purpose) + Nth0(purpose, phase) + 1
    /\ at = "returned" => calls <= CASE purpose \in {"fallback", "dynamic"} -> 4
                                     [] purpose = "off" -> 1
                                     [] OTHER -> 2

(* A lost Dynamic round is a failure, and one is only begun below the      *)
(* limit.                                                                  *)
Rounds ==
  /\ rounds <= failures
  /\ ~declined => rounds < MaxTransientDynamicFailures
  /\ at \in {"submit", "answered"} /\ dynamic /\ phase # "own" => rounds < MaxTransientDynamicFailures

IInv ==
  /\ TypeOK /\ Control /\ ForcedIsAllowed /\ Sent /\ Counted /\ Undisturbed /\ Rounds
  /\ TelemetryIsTrue

----------------------------------------------------------------------------
(* Types.                                                                  *)

\* Split so that a leaf has numbers or truth values to reason about.
Switches ==
  /\ dynamicWanted \in BOOLEAN /\ capable \in BOOLEAN /\ uiWanted \in BOOLEAN
  /\ ancient \in BOOLEAN /\ abiKnown \in BOOLEAN /\ declined \in BOOLEAN /\ applied \in BOOLEAN
  /\ gameOn \in BOOLEAN /\ override \in BOOLEAN /\ dynamic \in BOOLEAN /\ ui \in BOOLEAN
  /\ earned \in BOOLEAN

Names ==
  /\ notice \in {"none", "multiplier", "dynamic"} /\ status \in Statuses /\ at \in Labels
  /\ purpose \in Purposes /\ phase \in Phases /\ answer \in Answers

Numbers ==
  /\ multiplier \in {0} \cup Multipliers /\ trial \in {0} \cup {m - 1 : m \in Multipliers}
  /\ failures \in 0..MaxTransientDynamicFailures /\ refused \in Counts
  /\ lastForced \in Counts /\ effective \in Counts /\ gameCount \in Counts /\ desired \in Counts
  /\ calls \in 0..10 /\ disturbed \in 0..MaxDisturbances
  /\ rounds \in 0..(MaxTransientDynamicFailures + 1) /\ refusals \in 0..2

LEMMA TypeParts == TypeOK <=> Switches /\ Names /\ Numbers /\ accepted \in Requests /\ submitted \in Requests
  BY DEF TypeOK, Switches, Names, Numbers

LEMMA SwitchesStep == ASSUME Switches, [Next]_vars PROVE Switches'
  <1> USE DEF Switches
  <1>1. CASE UNCHANGED vars
    BY <1>1 DEF vars, settings, dynamics, theCall, history
  <1>2. ASSUME NEW on \in BOOLEAN, NEW count \in GameCounts, Enter(on, count) PROVE Switches'
    BY <1>2 DEF Enter, OffBoundary, settings, dynamics
  <1>3. CASE Route
    BY <1>3 DEF Route, settings, dynamics, theCall, history
  <1>4. CASE Prepare
    <2>1. /\ override' \in BOOLEAN /\ dynamic' \in BOOLEAN /\ ui' \in BOOLEAN
          /\ declined' \in BOOLEAN /\ applied' \in BOOLEAN
      BY <1>4 DEF Prepare
    <2>2. UNCHANGED <<settings, gameOn, earned>>
      BY <1>4 DEF Prepare, history
    <2>3. QED
      BY <2>1, <2>2 DEF settings
  <1>5. CASE Submit
    BY <1>5 DEF Submit, settings, dynamics, theCall, history
  <1>6. CASE DynamicTaken
    BY <1>6 DEF DynamicTaken, settings, theCall
  <1>7. CASE Answered \/ RetryDynamic \/ FixedRefused
    BY <1>7 DEF Answered, RetryDynamic, FixedRefused, settings, dynamics, theCall, history
  <1>8. CASE DynamicRefused
    BY <1>8 DEF DynamicRefused, settings, theCall
  <1>9. CASE FinishPassed \/ FinishOff \/ FinishDynamic \/ FinishForced
    BY <1>9 DEF FinishPassed, FinishOff, FinishDynamic, FinishForced, settings, dynamics, theCall, history
  <1>10. CASE RetryForced \/ RefuseForced
    BY <1>10 DEF RetryForced, RefuseForced, settings, dynamics, theCall
  <1>11. CASE Return
    BY <1>11 DEF Return, settings, dynamics
  <1>12. CASE Others
    <2>1. /\ UNCHANGED <<ancient, abiKnown, gameOn, override, dynamic, ui>>
          /\ uiWanted' \in BOOLEAN /\ earned' \in BOOLEAN /\ dynamicWanted' \in BOOLEAN
          /\ capable' \in BOOLEAN /\ declined' \in BOOLEAN /\ applied' \in BOOLEAN
      <3>1. CASE ChangeUiMode
        BY <3>1 DEF ChangeUiMode, dynamics, theCall, history
      <3>2. CASE LatencyTrial \/ NotifySwapchainTransition \/ ObserveCapability
        BY <3>2 DEF LatencyTrial, NotifySwapchainTransition, ObserveCapability, Elsewhere, Forget, dynamics, theCall
      <3>3. CASE NotifyDynamicModeChanged \/ ChangeDynamic
        BY <3>3 DEF NotifyDynamicModeChanged, ChangeDynamic, Elsewhere, dynamics, theCall
      <3>4. CASE NotifyFixedMultiplierChanged \/ \E m \in {0} \cup Multipliers : SelectMultiplier(m)
        BY <3>4 DEF NotifyFixedMultiplierChanged, SelectMultiplier, Elsewhere, Forget, dynamics, theCall
      <3>5. QED
        BY <1>12, <3>1, <3>2, <3>3, <3>4 DEF Others
    <2>2. QED
      BY <2>1
  <1>13. QED
    BY <1>1, <1>2, <1>3, <1>4, <1>5, <1>6, <1>7, <1>8, <1>9, <1>10, <1>11, <1>12 DEF Next, Call

LEMMA NamesStep == ASSUME Names, [Next]_vars PROVE Names'
  <1> USE DEF Names
  <1>1. CASE UNCHANGED vars
    BY <1>1 DEF vars, settings, telemetry, provider
  <1>2. ASSUME NEW on \in BOOLEAN, NEW count \in GameCounts, Enter(on, count) PROVE Names'
    BY <1>2 DEF Enter, Go, Resolve, settings, telemetry, Labels, Purposes, Phases
  <1>3. CASE Route
    BY <1>3 DEF Route, Gate, Go, settings, telemetry, provider, Labels, Purposes
  <1>4. CASE Prepare
    BY <1>4 DEF Prepare, Go, settings, telemetry, provider, Labels, Phases
  <1>5. CASE Submit
    BY <1>5 DEF Submit, Go, settings, telemetry, Labels
  <1>6. CASE DynamicTaken \/ Answered \/ RetryDynamic
    BY <1>6 DEF DynamicTaken, Answered, RetryDynamic, Go, settings, telemetry, provider, Labels, Phases
  <1>7. CASE DynamicRefused \/ FixedRefused
    BY <1>7 DEF DynamicRefused, FixedRefused, Go, settings, telemetry, provider, Labels, Phases
  <1>8. CASE FinishPassed \/ FinishOff \/ FinishDynamic \/ FinishForced
    <2>1. status' \in Statuses
      BY <1>8 DEF FinishPassed, FinishOff, FinishDynamic, FinishForced, Passed, PassedStatus, SelectedOr, Statuses
    <2>2. at' = "returned" /\ UNCHANGED <<notice, purpose, phase, answer>>
      BY <1>8 DEF FinishPassed, FinishOff, FinishDynamic, FinishForced, Go, settings, provider
    <2>3. QED
      BY <2>1, <2>2 DEF Labels
  <1>9. CASE RetryForced \/ RefuseForced \/ Return
    BY <1>9 DEF RetryForced, RefuseForced, Return, Go, settings, telemetry, provider, Labels, Purposes, Phases, Answers
  <1>10. CASE Others
    <2>1. UNCHANGED <<at, purpose, phase, answer>>
      BY <1>10 DEF Others, SelectMultiplier, NotifyFixedMultiplierChanged, ChangeDynamic, NotifyDynamicModeChanged,
           ObserveCapability, NotifySwapchainTransition, LatencyTrial, ChangeUiMode, Elsewhere, provider
    <2>2. notice' \in {notice, "none", "multiplier", "dynamic"} /\ status' \in {status, "Pending", "Native"}
      BY <1>10 DEF Others, SelectMultiplier, NotifyFixedMultiplierChanged, ChangeDynamic, NotifyDynamicModeChanged,
           ObserveCapability, NotifySwapchainTransition, LatencyTrial, ChangeUiMode, telemetry
    <2>3. QED
      BY <2>1, <2>2 DEF Statuses
  <1>11. QED
    BY <1>1, <1>2, <1>3, <1>4, <1>5, <1>6, <1>7, <1>8, <1>9, <1>10 DEF Next, Call

(* What another thread leaves alone, and what it may do.                   *)
LEMMA OthersLeave ==
  ASSUME Others
  PROVE  /\ UNCHANGED <<ancient, abiKnown, at, theCall, purpose, phase, provider>>
         /\ \/ at = "idle" /\ disturbed' = disturbed
            \/ at # "idle" /\ disturbed < MaxDisturbances /\ disturbed' = disturbed + 1
  <1>1. CASE ChangeUiMode
    BY <1>1 DEF ChangeUiMode, history
  <1>2. CASE Elsewhere
    BY <1>2 DEF Elsewhere
  <1>3. QED
    BY <1>1, <1>2 DEF Others, SelectMultiplier, NotifyFixedMultiplierChanged, ChangeDynamic, NotifyDynamicModeChanged,
       ObserveCapability, NotifySwapchainTransition, LatencyTrial

LEMMA OthersWrite ==
  ASSUME Others
  PROVE  /\ refused' \in {refused, 0} /\ refusals' \in {refusals, 0}
         /\ lastForced' \in {lastForced, 0} /\ effective' \in {effective, 0}
         /\ multiplier' = multiplier \/ multiplier' \in {0} \cup Multipliers
         /\ trial' \in {trial, 0} \/ (multiplier >= 3 /\ trial' = multiplier - 1)
         /\ UNCHANGED <<failures, rounds, declined>> \/ (failures' = 0 /\ rounds' = 0)
  <1>1. CASE ChangeUiMode
    BY <1>1 DEF ChangeUiMode, history, dynamics, telemetry
  <1>2. CASE LatencyTrial
    BY <1>2 DEF LatencyTrial, dynamics, telemetry
  <1>3. CASE NotifySwapchainTransition
    BY <1>3 DEF NotifySwapchainTransition, Forget, dynamics, telemetry
  <1>4. CASE ObserveCapability
    BY <1>4 DEF ObserveCapability, dynamics, telemetry
  <1>5. CASE NotifyDynamicModeChanged
    BY <1>5 DEF NotifyDynamicModeChanged
  <1>6. CASE ChangeDynamic
    BY <1>6 DEF ChangeDynamic, dynamics, telemetry
  <1>7. CASE NotifyFixedMultiplierChanged
    BY <1>7 DEF NotifyFixedMultiplierChanged, Forget, dynamics
  <1>8. CASE \E m \in {0} \cup Multipliers : SelectMultiplier(m)
    BY <1>8 DEF SelectMultiplier, dynamics, telemetry
  <1>9. QED
    BY <1>1, <1>2, <1>3, <1>4, <1>5, <1>6, <1>7, <1>8 DEF Others

LEMMA CountsAreNat ==
  /\ Counts \subseteq Nat /\ 0 \in Counts /\ GameCounts \subseteq Counts
  /\ \A m \in Multipliers : m \in 2..6 /\ m - 1 \in Counts /\ m - 2 \in Counts
  <1>1. \A m \in Multipliers : m \in 2..6 /\ m - 1 \in Nat /\ m - 2 \in Nat
    BY MultipliersAssumption
  <1>2. \A m \in Multipliers : m - 1 \in Counts /\ m - 2 \in Counts
    BY DEF Counts
  <1>3. 0 \in Counts /\ GameCounts \subseteq Counts
    BY DEF Counts
  <1>4. ASSUME NEW n \in Counts PROVE n \in Nat
    BY <1>1, CountsAssumption DEF Counts
  <1>5. QED
    BY <1>1, <1>2, <1>3, <1>4

(* The multiplier a call reads is the user's, or one below it.             *)
LEMMA MultiplierType ==
  ASSUME Numbers, ForcedIsAllowed
  PROVE  /\ Multiplier \in 0..6
         /\ Multiplier # 0 => Multiplier >= 2 /\ Multiplier - 1 \in Counts
  BY CountsAreNat DEF Numbers, ForcedIsAllowed, Multiplier

LEMMA NumbersStep == ASSUME IInv, [Next]_vars PROVE Numbers'
  <1>1. Numbers /\ Names
    BY TypeParts DEF IInv
  <1> USE CountsAreNat, FailuresAssumption, DisturbancesAssumption DEF Numbers
  <1>2. CASE UNCHANGED vars
    BY <1>1, <1>2 DEF vars, settings, dynamics, telemetry, theCall, provider, history
  <1>3. ASSUME NEW on \in BOOLEAN, NEW count \in GameCounts, Enter(on, count) PROVE Numbers'
    <2>1. desired' \in Counts
      BY <1>1, <1>3, MultiplierType DEF Enter, IInv
    <2>2. QED
      BY <1>1, <1>3, <2>1 DEF Enter, OffBoundary, settings, dynamics, telemetry
  <1>4. CASE Route \/ Prepare
    BY <1>1, <1>4 DEF Route, Prepare, settings, dynamics, telemetry, theCall, provider, history
  <1>5. CASE Submit
    <2>1. calls <= Before(purpose) + Nth(phase)
      BY <1>5 DEF Submit, IInv, Counted
    <2>. calls <= 9
      BY <1>1, <2>1 DEF Before, Nth
    <2>2. QED
      BY <1>1, <1>5, <2>1 DEF Submit, settings, dynamics, telemetry, theCall, history
  <1>6. CASE DynamicTaken \/ Answered \/ RetryDynamic \/ FixedRefused
    BY <1>1, <1>6 DEF DynamicTaken, Answered, RetryDynamic, FixedRefused, settings, dynamics, telemetry,
         theCall, provider, history
  <1>7. CASE DynamicRefused
    BY <1>1, <1>7 DEF DynamicRefused, AtMost, settings, telemetry, theCall, provider
  <1>8. CASE FinishPassed \/ FinishOff \/ FinishDynamic \/ FinishForced
    BY <1>1, <1>8 DEF FinishPassed, FinishOff, FinishDynamic, FinishForced, Passed, settings, dynamics,
         theCall, provider, history
  <1>9. CASE RetryForced \/ RefuseForced
    <2>1. refusals' \in 0..2
      BY <1>1, <1>9 DEF RetryForced, RefuseForced, IInv, Counted
    <2>2. QED
      BY <1>1, <1>9, <2>1 DEF RetryForced, RefuseForced, settings, dynamics, telemetry, theCall, provider
  <1>10. CASE Return
    BY <1>1, <1>10 DEF Return, settings, dynamics, telemetry
  <1>11. CASE Others
    BY <1>1, <1>11, OthersLeave, OthersWrite DEF theCall, provider
  <1>12. QED
    BY <1>2, <1>3, <1>4, <1>5, <1>6, <1>7, <1>8, <1>9, <1>10, <1>11 DEF Next, Call

(* What is sent is a request, and what the provider runs with was sent.    *)
LEMMA SubmissionType == ASSUME TypeOK PROVE Submission \in Requests /\ GameRequest \in Requests
  <1>1. Switches /\ gameCount \in Counts /\ desired \in Counts
    BY TypeParts DEF Numbers
  <1>2. \A o \in BOOLEAN, d \in BOOLEAN, c \in Counts, u \in BOOLEAN : Request(o, d, c, u) \in Requests
    BY DEF Request, Requests
  <1>3. QED
    BY <1>1, <1>2 DEF Submission, GameRequest, Count, Switches

LEMMA TypeStep == ASSUME IInv, [Next]_vars PROVE TypeOK'
  <1>1. Switches /\ Names /\ Numbers /\ accepted \in Requests /\ submitted \in Requests
    BY TypeParts DEF IInv
  <1>2. accepted' \in Requests /\ submitted' \in Requests
    <2>1. CASE Submit
      BY <1>1, <2>1, SubmissionType DEF Submit, IInv
    <2>2. CASE Return
      <3>1. NoRequest \in Requests
        BY CountsAreNat DEF NoRequest, Request, Requests
      <3>2. QED
        BY <1>1, <2>2, <3>1 DEF Return
    <2>3. CASE UNCHANGED <<accepted, submitted>>
      BY <1>1, <2>3
    <2>4. CASE Others
      BY <1>1, <2>4, <2>3, OthersLeave DEF provider
    <2>5. QED
      BY <2>1, <2>2, <2>3, <2>4
         DEF Next, Call, vars, Enter, Route, Prepare, DynamicTaken, Answered, RetryDynamic, DynamicRefused,
             FixedRefused, FinishPassed, FinishOff, FinishDynamic, FinishForced, RetryForced, RefuseForced,
             provider
  <1>3. QED
    <2>1. Switches' /\ Names' /\ Numbers'
      BY <1>1, SwitchesStep, NamesStep, NumbersStep
    <2>2. QED
      BY <1>2, <2>1 DEF TypeOK, Switches, Names, Numbers

----------------------------------------------------------------------------
(* The control of a call.                                                  *)

LEMMA ControlStep == ASSUME IInv, [Next]_vars PROVE Control'
  <1>0. Control /\ ForcedIsAllowed /\ Names /\ Switches
    BY TypeParts DEF IInv
  <1> USE DEF Control, Working, Forcing, Passing
  <1>1. CASE UNCHANGED vars
    BY <1>0, <1>1 DEF vars, settings, theCall
  <1>2. ASSUME NEW on \in BOOLEAN, NEW count \in GameCounts, Enter(on, count) PROVE Control'
    BY <1>0, <1>2 DEF Enter, Go, Resolve
  <1>3. CASE Route
    BY <1>0, <1>3 DEF Route, Gate, Go, theCall
  <1>4. CASE Prepare
    <2>1. UNCHANGED <<purpose, gameOn, abiKnown>> /\ at' = "submit"
      BY <1>4 DEF Prepare, Go, settings
    <2>2. override' <=> Forcing
      BY <1>4 DEF Prepare
    <2>3. phase' = IF abiKnown /\ ((gameOn /\ (DynamicReady \/ uiWanted)) \/ Forcing) THEN "forwarded" ELSE "own"
      BY <1>4 DEF Prepare
    <2>4. Forcing => abiKnown /\ gameOn
      BY <1>0, <1>4 DEF Prepare, ForcedIsAllowed
    <2>5. QED
      BY <1>0, <1>4, <2>1, <2>2, <2>3, <2>4 DEF Prepare
  <1>5. CASE Submit
    BY <1>0, <1>5 DEF Submit, Go, settings, theCall
  <1>6. CASE DynamicTaken \/ Answered
    BY <1>0, <1>6 DEF DynamicTaken, Answered, Go, settings, theCall
  <1>7. CASE RetryDynamic \/ FixedRefused
    BY <1>0, <1>7 DEF RetryDynamic, FixedRefused, Go, settings, theCall
  <1>8. CASE DynamicRefused
    BY <1>0, <1>8 DEF DynamicRefused, Go, settings, theCall
  <1>9. CASE FinishPassed \/ FinishOff \/ FinishDynamic \/ FinishForced
    BY <1>0, <1>9 DEF FinishPassed, FinishOff, FinishDynamic, FinishForced, Go, settings, theCall
  <1>10. CASE RetryForced \/ RefuseForced \/ Return
    BY <1>0, <1>10 DEF RetryForced, RefuseForced, Return, Go, settings, theCall
  <1>11. CASE Others
    BY <1>0, <1>11, OthersLeave DEF theCall
  <1>12. QED
    BY <1>1, <1>2, <1>3, <1>4, <1>5, <1>6, <1>7, <1>8, <1>9, <1>10, <1>11 DEF Next, Call

LEMMA ForcedStep == ASSUME IInv, [Next]_vars PROVE ForcedIsAllowed'
  <1>0. Control /\ ForcedIsAllowed /\ Names /\ Numbers
    BY TypeParts DEF IInv
  <1> USE CountsAreNat DEF ForcedIsAllowed, Forcing
  <1>1. CASE UNCHANGED vars
    BY <1>0, <1>1 DEF vars, settings, theCall
  <1>2. ASSUME NEW on \in BOOLEAN, NEW count \in GameCounts, Enter(on, count) PROVE ForcedIsAllowed'
    <2>1. at' \in {"route", "prepare"} /\ trial' = trial /\ purpose' = Resolve(on, count)
      BY <1>2 DEF Enter, Go, settings
    <2>2. purpose' \notin {"force", "retry"}
      BY <2>1 DEF Resolve
    <2>3. at' = "route" => Multiplier # 0 /\ desired' = Multiplier - 1
      BY <1>2 DEF Enter, Go, Resolve
    <2>4. QED
      BY <1>0, <2>1, <2>2, <2>3, MultiplierType
  <1>3. CASE Route
    BY <1>0, <1>3 DEF Route, Gate, Go, settings, theCall, Control
  <1>4. CASE Prepare
    BY <1>0, <1>4 DEF Prepare, Go, settings
  <1>5. CASE Submit
    BY <1>0, <1>5 DEF Submit, Go, settings, theCall
  <1>6. CASE DynamicTaken \/ Answered \/ RetryDynamic \/ FixedRefused \/ DynamicRefused
    BY <1>0, <1>6 DEF DynamicTaken, Answered, RetryDynamic, FixedRefused, DynamicRefused, Go, settings, theCall
  <1>7. CASE FinishPassed \/ FinishOff \/ FinishDynamic \/ FinishForced
    BY <1>0, <1>7 DEF FinishPassed, FinishOff, FinishDynamic, FinishForced, Go, settings, theCall
  <1>8. CASE RetryForced \/ RefuseForced \/ Return
    BY <1>0, <1>8 DEF RetryForced, RefuseForced, Return, Go, settings, theCall
  <1>9. CASE Others
    BY <1>0, <1>9, OthersLeave, OthersWrite DEF theCall, Numbers
  <1>10. QED
    BY <1>1, <1>2, <1>3, <1>4, <1>5, <1>6, <1>7, <1>8, <1>9 DEF Next, Call

LEMMA SentStep == ASSUME IInv, [Next]_vars PROVE Sent'
  <1>0. Control /\ Sent /\ Names
    BY TypeParts DEF IInv
  <1>a. UNCHANGED <<theCall, phase>> => UNCHANGED <<Submission, GameRequest>>
    BY DEF theCall, Submission, GameRequest, Count
  <1> USE DEF Sent, GameNotLeftWorse
  <1>1. CASE UNCHANGED vars
    BY <1>0, <1>a, <1>1 DEF vars, theCall, provider
  <1>2. ASSUME NEW on \in BOOLEAN, NEW count \in GameCounts, Enter(on, count) PROVE Sent'
    BY <1>2 DEF Enter, Go
  <1>3. CASE Route \/ Prepare
    BY <1>3 DEF Route, Prepare, Go
  <1>4. CASE Submit
    BY <1>a, <1>4 DEF Submit, Go
  <1>5. CASE DynamicTaken \/ Answered
    <2>1. at' = "conclude" /\ at = "answered" /\ UNCHANGED <<theCall, phase, override, answer, accepted, submitted>>
      BY <1>5 DEF DynamicTaken, Answered, Go, theCall, provider
    <2>2. answer # "ok" => phase = "own"
      BY <1>5 DEF DynamicTaken, Answered
    <2>3. QED
      BY <1>0, <1>a, <2>1, <2>2
  <1>6. CASE RetryDynamic
    BY <1>6 DEF RetryDynamic, Go
  <1>7. CASE FixedRefused \/ DynamicRefused
    BY <1>0, <1>a, <1>7 DEF FixedRefused, DynamicRefused, Go, theCall, provider
  <1>8. CASE FinishPassed \/ FinishOff \/ FinishDynamic \/ FinishForced
    <2>1. at' = "returned" /\ UNCHANGED <<answer, submitted, gameOn, gameCount>>
      BY <1>8 DEF FinishPassed, FinishOff, FinishDynamic, FinishForced, Go, theCall, provider
    <2>2. answer # "ok" => purpose \notin {"force", "retry"} /\ phase = "own"
      BY <1>0, <1>8 DEF FinishPassed, FinishOff, FinishDynamic, FinishForced, Control, Working, Forcing
    <2>3. answer # "ok" => submitted = GameRequest
      BY <1>0, <1>8, <2>2 DEF FinishPassed, FinishOff, FinishDynamic, FinishForced, Submission
    <2>4. QED
      BY <2>1, <2>3 DEF GameRequest
  <1>9. CASE RetryForced \/ RefuseForced \/ Return
    BY <1>9 DEF RetryForced, RefuseForced, Return, Go
  <1>10. CASE Others
    <2>1. UNCHANGED <<at, theCall, purpose, phase, override, answer, accepted, submitted>>
      BY <1>10, OthersLeave DEF theCall, provider
    <2>2. QED
      BY <1>0, <1>a, <2>1
  <1>11. QED
    BY <1>1, <1>2, <1>3, <1>4, <1>5, <1>6, <1>7, <1>8, <1>9, <1>10 DEF Next, Call

----------------------------------------------------------------------------
(* The price of a call.                                                    *)

LEMMA CountedStep == ASSUME IInv, [Next]_vars PROVE Counted'
  <1>0. Control /\ Counted /\ Names /\ Numbers
    BY TypeParts DEF IInv
  <1> USE DEF Counted, Before, Nth
  <1>1. CASE UNCHANGED vars
    BY <1>0, <1>1 DEF vars, provider, history
  <1>2. ASSUME NEW on \in BOOLEAN, NEW count \in GameCounts, Enter(on, count) PROVE Counted'
    <2>1. at' \in {"route", "prepare"} /\ calls' = 0 /\ refusals' = 0
      BY <1>2 DEF Enter, Go
    <2>2. QED
      BY <2>1
  <1>3. CASE Route
    <2>1. at = "route" /\ at' = "prepare" /\ UNCHANGED <<calls, refusals>>
      BY <1>3 DEF Route, Go, provider, history
    <2>2. purpose' \notin {"retry", "off", "fallback"}
      BY <1>3 DEF Route, Gate
    <2>3. QED
      BY <1>0, <2>1, <2>2
  <1>4. CASE Prepare
    <2>1. at = "prepare" /\ at' = "submit" /\ phase' \in {"forwarded", "own"} /\ UNCHANGED <<purpose, calls, refusals>>
      BY <1>4 DEF Prepare, Go, provider, history
    <2>2. QED
      BY <1>0, <2>1 DEF Numbers
  <1>5. CASE Submit
    <2>1. at = "submit" /\ at' = "answered" /\ calls' = calls + 1 /\ UNCHANGED <<purpose, phase, refusals>>
      BY <1>5 DEF Submit, Go, history
    <2>2. QED
      BY <1>0, <2>1 DEF Numbers
  <1>6. CASE DynamicTaken \/ Answered
    <2>1. at = "answered" /\ at' = "conclude" /\ UNCHANGED <<purpose, phase, calls, refusals>>
      BY <1>6 DEF DynamicTaken, Answered, Go, provider, history
    <2>2. QED
      BY <1>0, <2>1 DEF Numbers
  <1>7. CASE RetryDynamic \/ DynamicRefused \/ FixedRefused
    <2>1. at = "answered" /\ at' \in {"submit", "conclude"} /\ UNCHANGED <<purpose, calls, refusals>>
      BY <1>7 DEF RetryDynamic, DynamicRefused, FixedRefused, Go, provider, history
    <2>2. phase \in {"forwarded", "same", "dynamicOnly"} /\ purpose # "off"
      BY <1>0, <1>7 DEF RetryDynamic, DynamicRefused, FixedRefused, Control, Working
    <2>3. /\ at' = "submit" => Nth(phase') >= Nth(phase) + 1
          /\ at' = "conclude" => phase' = phase
      BY <1>7, <2>2 DEF RetryDynamic, DynamicRefused, FixedRefused, Go
    <2>4. Nth(phase) \in Nat /\ Nth(phase') \in Nat /\ Before(purpose) \in Nat
      OBVIOUS
    <2>5. QED
      BY <1>0, <2>1, <2>2, <2>3, <2>4 DEF Numbers
  <1>8. CASE FinishPassed \/ FinishOff \/ FinishDynamic \/ FinishForced
    <2>1. at = "conclude" /\ at' = "returned" /\ UNCHANGED <<purpose, calls, refusals>>
      BY <1>8 DEF FinishPassed, FinishOff, FinishDynamic, FinishForced, Go, provider, history
    <2>2. QED
      BY <1>0, <2>1
  <1>9. CASE RetryForced \/ RefuseForced
    <2>1. at = "conclude" /\ at' = "prepare" /\ calls' = calls /\ refusals' = refusals + 1
      BY <1>9 DEF RetryForced, RefuseForced, Go, provider
    <2>2. purpose \in {"force", "retry"} /\ purpose' = IF purpose = "force" THEN "retry" ELSE "fallback"
      BY <1>9 DEF RetryForced, RefuseForced
    <2>3. phase \in {"forwarded", "same", "dynamicOnly"}
      BY <1>0, <2>1, <2>2 DEF Control, Working, Forcing
    <2>4. calls <= Before(purpose) + Nth(phase) + 1 /\ Nth(phase) <= 2
      BY <1>0, <2>1, <2>3
    <2>5. QED
      BY <1>0, <2>1, <2>2, <2>4 DEF Numbers
  <1>10. CASE Return
    BY <1>10 DEF Return, Go
  <1>11. CASE Others
    BY <1>0, <1>11, OthersLeave, OthersWrite DEF provider
  <1>12. QED
    BY <1>1, <1>2, <1>3, <1>4, <1>5, <1>6, <1>7, <1>8, <1>9, <1>10, <1>11 DEF Next, Call

LEMMA UndisturbedStep == ASSUME IInv, [Next]_vars PROVE Undisturbed'
  <1>0. Control /\ Counted /\ Undisturbed /\ Names /\ Numbers
    BY TypeParts DEF IInv
  <1> USE DEF Undisturbed, Before0, Nth0, Nth, Working
  <1>1. CASE UNCHANGED vars
    BY <1>0, <1>1 DEF vars, settings, dynamics, theCall, provider, history, DynamicReady
  <1>2. ASSUME NEW on \in BOOLEAN, NEW count \in GameCounts, Enter(on, count) PROVE Undisturbed'
    <2>1. at' \in {"route", "prepare"} /\ calls' = 0 /\ gameOn' = on /\ purpose' = Resolve(on, count)
      BY <1>2 DEF Enter, Go
    <2>2. on => UNCHANGED <<dynamicWanted, capable, declined>>
      BY <1>2 DEF Enter, settings, dynamics
    <2>3. on => DynamicReady' = DynamicReady
      BY <2>2 DEF DynamicReady
    <2>4. at' = "route" <=> Resolve(on, count) = "fixed"
      BY <1>2 DEF Enter, Go
    <2>5. /\ Resolve(on, count) = "fixed" => on /\ ~DynamicReady
          /\ Resolve(on, count) = "dynamic" <=> on /\ DynamicReady
      BY DEF Resolve
    <2>6. QED
      BY <2>1, <2>3, <2>4, <2>5
  <1>3. CASE Route
    <2>1. at = "route" /\ at' = "prepare" /\ UNCHANGED <<calls, disturbed, dynamicWanted, capable, declined>>
      BY <1>3 DEF Route, Go, provider, history, settings, dynamics
    <2>2. purpose' \notin {"retry", "dynamic", "fallback"}
      BY <1>3 DEF Route, Gate
    <2>3. QED
      BY <1>0, <2>1, <2>2 DEF Counted, DynamicReady
  <1>4. CASE Prepare
    <2>1. at = "prepare" /\ at' = "submit" /\ UNCHANGED <<purpose, calls, disturbed, gameOn, dynamicWanted, capable, abiKnown>>
      BY <1>4 DEF Prepare, Go, provider, history, settings
    <2>2. /\ dynamic' <=> gameOn /\ DynamicReady
          /\ phase' \in {"forwarded", "own"}
          /\ phase' = "own" /\ dynamic' => ~abiKnown /\ ~applied'
          /\ ~dynamic' => (declined' <=> declined)
      BY <1>4 DEF Prepare
    <2>3. ~dynamic' => (DynamicReady' <=> DynamicReady)
      BY <2>1, <2>2 DEF DynamicReady
    <2>4. QED
      BY <1>0, <2>1, <2>2, <2>3 DEF Numbers
  <1>5. CASE Submit
    <2>1. at = "submit" /\ at' = "answered" /\ calls' = calls + 1
          /\ UNCHANGED <<purpose, phase, disturbed, gameOn, dynamic, applied, dynamicWanted, capable, declined>>
      BY <1>5 DEF Submit, Go, history, settings, dynamics, theCall
    <2>2. QED
      BY <1>0, <2>1 DEF Numbers, DynamicReady
  <1>6. CASE DynamicTaken \/ Answered
    <2>1. at = "answered" /\ at' = "conclude"
          /\ UNCHANGED <<purpose, phase, calls, disturbed, gameOn, dynamic, dynamicWanted, capable, declined>>
      BY <1>6 DEF DynamicTaken, Answered, Go, provider, history, settings, dynamics, theCall
    <2>2. /\ phase = "own" => applied' = applied
          /\ dynamic => phase = "own" \/ applied'
      BY <1>6 DEF DynamicTaken, Answered, dynamics
    <2>3. QED
      BY <1>0, <2>1, <2>2 DEF DynamicReady
  <1>7. CASE RetryDynamic \/ FixedRefused
    <2>1. at = "answered" /\ at' \in {"submit", "conclude"}
          /\ UNCHANGED <<purpose, calls, disturbed, gameOn, dynamic, applied, dynamicWanted, capable, declined>>
      BY <1>7 DEF RetryDynamic, FixedRefused, Go, provider, history, settings, dynamics, theCall
    <2>2. /\ phase \in {"forwarded", "same"} /\ phase' \in {"same", "dynamicOnly", "own"} \cup {phase}
          /\ phase' = "own" => ~dynamic
          /\ at' = "submit" => phase' = "own" \/ (dynamic /\ Nth(phase') >= Nth(phase) + 1)
          /\ at' = "conclude" => phase' = phase /\ ~dynamic
      BY <1>7 DEF RetryDynamic, FixedRefused, Go
    <2>3. disturbed = 0 => (purpose = "dynamic" <=> dynamic)
      BY <1>0, <2>1
    <2>4. disturbed = 0 /\ at' = "submit" => calls <= Before0(purpose) + Nth0(purpose, phase')
      <3> SUFFICES ASSUME disturbed = 0, at' = "submit" PROVE calls <= Before0(purpose) + Nth0(purpose, phase')
        OBVIOUS
      <3>1. calls <= Before0(purpose) + Nth0(purpose, phase) + 1
        BY <1>0, <2>1
      <3>2. CASE dynamic
        <4>1. purpose = "dynamic" /\ Nth(phase') >= Nth(phase) + 1
          BY <2>2, <2>3, <3>2
        <4>2. QED
          BY <1>0, <3>1, <4>1 DEF Numbers
      <3>3. CASE ~dynamic
        <4>1. purpose # "dynamic" /\ phase # "own" /\ phase' = "own"
          BY <2>2, <2>3, <3>3
        <4>2. QED
          BY <1>0, <3>1, <4>1 DEF Numbers
      <3>4. QED
        BY <3>2, <3>3
    <2>5. QED
      BY <1>0, <2>1, <2>2, <2>3, <2>4 DEF DynamicReady
  <1>8. CASE DynamicRefused
    <2>1. at = "answered" /\ at' \in {"submit", "conclude"} /\ phase = "dynamicOnly" /\ ~applied'
          /\ UNCHANGED <<purpose, calls, disturbed, gameOn, override, dynamic, dynamicWanted, capable>>
          /\ phase' = (IF override THEN phase ELSE "own") /\ (at' = "conclude" <=> override)
      BY <1>8 DEF DynamicRefused, Go, provider, settings, theCall
    <2>2. dynamic /\ (override <=> Forcing)
      BY <1>0, <2>1 DEF Control
    <2>3. disturbed = 0 => purpose = "dynamic" /\ ~override
      BY <1>0, <2>1, <2>2 DEF Forcing
    <2>4. QED
      BY <1>0, <2>1, <2>2, <2>3
  <1>9. CASE FinishPassed \/ FinishOff \/ FinishDynamic \/ FinishForced
    <2>1. at = "conclude" /\ at' = "returned" /\ UNCHANGED <<purpose, calls, disturbed>>
      BY <1>9 DEF FinishPassed, FinishOff, FinishDynamic, FinishForced, Go, provider, history
    <2>2. purpose \in {"force", "retry"} => phase # "own"
      BY <1>0, <2>1 DEF Control, Forcing
    <2>3. purpose = "off" => calls = 1
      BY <1>0, <2>1 DEF Counted
    <2>4. disturbed = 0 => calls <= Before0(purpose) + Nth0(purpose, phase) + 1
      BY <1>0, <2>1
    <2>5. disturbed = 0 => calls <= CASE purpose \in {"fallback", "dynamic"} -> 4
                                      [] purpose = "off" -> 1
                                      [] OTHER -> 2
      BY <1>0, <2>2, <2>3, <2>4 DEF Numbers
    <2>6. QED
      BY <2>1, <2>5
  <1>10. CASE RetryForced \/ RefuseForced
    <2>1. at = "conclude" /\ at' = "prepare" /\ calls' = calls
          /\ UNCHANGED <<disturbed, gameOn, dynamicWanted, capable, declined>>
      BY <1>10 DEF RetryForced, RefuseForced, Go, provider, settings, theCall, dynamics
    <2>2. purpose \in {"force", "retry"} /\ purpose' = IF purpose = "force" THEN "retry" ELSE "fallback"
      BY <1>10 DEF RetryForced, RefuseForced
    <2>3. phase # "own"
      BY <1>0, <2>1, <2>2 DEF Control, Forcing
    <2>4. QED
      BY <1>0, <2>1, <2>2, <2>3 DEF DynamicReady
  <1>11. CASE Return
    BY <1>11 DEF Return, Go
  <1>12. CASE Others
    <2>1. at' = at /\ (at # "idle" => disturbed' = disturbed + 1)
      BY <1>12, OthersLeave
    <2>2. QED
      BY <1>0, <2>1 DEF Numbers
  <1>13. QED
    BY <1>1, <1>2, <1>3, <1>4, <1>5, <1>6, <1>7, <1>8, <1>9, <1>10, <1>11, <1>12 DEF Next, Call

LEMMA RoundsStep == ASSUME IInv, [Next]_vars PROVE Rounds'
  <1>0. Control /\ Rounds /\ Names /\ Numbers
    BY TypeParts DEF IInv
  <1> USE FailuresAssumption DEF Rounds
  <1>1. CASE UNCHANGED vars
    BY <1>0, <1>1 DEF vars, dynamics, theCall, history
  <1>2. ASSUME NEW on \in BOOLEAN, NEW count \in GameCounts, Enter(on, count) PROVE Rounds'
    <2>1. at' \in {"route", "prepare"}
      BY <1>2 DEF Enter, Go
    <2>2. UNCHANGED <<dynamics, rounds>> \/ (rounds' = 0 /\ failures' = failures)
      BY <1>2 DEF Enter, OffBoundary
    <2>3. QED
      BY <1>0, <2>1, <2>2 DEF dynamics, Numbers
  <1>3. CASE Route
    BY <1>0, <1>3 DEF Route, Go, dynamics, history
  <1>4. CASE Prepare
    <2>1. dynamic' => ~declined
      BY <1>4 DEF Prepare, DynamicReady
    <2>2. ~declined' => ~declined
      BY <1>4 DEF Prepare
    <2>3. UNCHANGED <<failures, rounds>>
      BY <1>4 DEF Prepare, history
    <2>4. QED
      BY <1>0, <2>1, <2>2, <2>3
  <1>5. CASE Submit
    BY <1>0, <1>5 DEF Submit, Go, dynamics, history, theCall
  <1>6. CASE DynamicTaken
    <2>1. rounds' = 0 /\ failures' = 0
      BY <1>6 DEF DynamicTaken
    <2>2. QED
      BY <2>1
  <1>7. CASE Answered \/ RetryDynamic \/ FixedRefused
    <2>1. at = "answered" /\ UNCHANGED <<failures, declined, rounds, dynamic>>
      BY <1>7 DEF Answered, RetryDynamic, FixedRefused, dynamics, theCall, history
    <2>2. dynamic /\ at' = "submit" => phase # "own"
      BY <1>7 DEF Answered, RetryDynamic, FixedRefused, Go
    <2>3. at' # "answered"
      BY <1>7 DEF Answered, RetryDynamic, FixedRefused, Go
    <2>4. QED
      BY <1>0, <2>1, <2>2, <2>3
  <1>8. CASE DynamicRefused
    <2>1. at = "answered" /\ phase = "dynamicOnly"
      BY <1>8 DEF DynamicRefused
    <2>2. rounds < MaxTransientDynamicFailures /\ rounds <= failures
      BY <1>0, <2>1 DEF Control, Working
    <2>3. failures' = AtMost(MaxTransientDynamicFailures, failures + 1)
          /\ rounds' = AtMost(MaxTransientDynamicFailures + 1, rounds + 1)
          /\ (~declined' => failures' < MaxTransientDynamicFailures)
      BY <1>8 DEF DynamicRefused
    <2>4. at' = "conclude" \/ phase' = "own"
      BY <1>8 DEF DynamicRefused, Go
    <2>5. rounds' = rounds + 1 /\ rounds' <= failures'
      BY <1>0, <2>2, <2>3 DEF AtMost, Numbers
    <2>6. failures' \in Nat /\ rounds' \in Nat
      BY <1>0, <2>3 DEF AtMost, Numbers
    <2>7. QED
      BY <2>3, <2>4, <2>5, <2>6
  <1>9. CASE FinishPassed \/ FinishOff \/ FinishDynamic \/ FinishForced
    BY <1>0, <1>9 DEF FinishPassed, FinishOff, FinishDynamic, FinishForced, Go, dynamics, history
  <1>10. CASE RetryForced \/ RefuseForced \/ Return
    BY <1>0, <1>10 DEF RetryForced, RefuseForced, Return, Go, dynamics
  <1>11. CASE Others
    <2>1. UNCHANGED <<at, dynamic, phase>>
      BY <1>11, OthersLeave DEF theCall
    <2>2. QED
      BY <1>0, <1>11, <2>1, OthersWrite DEF Numbers
  <1>12. QED
    BY <1>1, <1>2, <1>3, <1>4, <1>5, <1>6, <1>7, <1>8, <1>9, <1>10, <1>11 DEF Next, Call

----------------------------------------------------------------------------
(* What the panel shows.                                                   *)

LEMMA TelemetryStep == ASSUME IInv, [Next]_vars PROVE TelemetryIsTrue'
  <1>0. /\ Control /\ ForcedIsAllowed /\ Sent /\ Undisturbed /\ TelemetryIsTrue
        /\ Switches /\ Names /\ Numbers
    BY TypeParts DEF IInv
  <1> USE DEF TelemetryIsTrue
  <1>1. CASE UNCHANGED vars
    BY <1>0, <1>1 DEF vars, telemetry, provider, history
  <1>2. ASSUME NEW on \in BOOLEAN, NEW count \in GameCounts, Enter(on, count) PROVE TelemetryIsTrue'
    BY <1>2 DEF Enter, Go
  <1>3. CASE Route \/ Prepare \/ Submit
    BY <1>3 DEF Route, Prepare, Submit, Go
  <1>4. CASE DynamicTaken \/ Answered \/ RetryDynamic \/ DynamicRefused \/ FixedRefused
    BY <1>4 DEF DynamicTaken, Answered, RetryDynamic, DynamicRefused, FixedRefused, Go
  <1>5. ASSUME at = "conclude", disturbed = 0, answer = "ok", ~dynamic, gameOn
        PROVE  accepted = Request(TRUE, FALSE, Count, accepted.ui)
    <2>1. accepted = Submission /\ phase \in {"forwarded", "same", "own"}
      BY <1>0, <1>5 DEF Sent, Control, Working
    <2>2. phase = "own" => ~override
      BY <1>0, <1>5 DEF Control, Working
    <2>3. gameOn = TRUE /\ dynamic = FALSE
      BY <1>0, <1>5 DEF Switches
    <2>4. \E u \in BOOLEAN : accepted = Request(TRUE, FALSE, Count, u)
      <3>1. CASE phase = "own"
        BY <2>1, <2>2, <2>3, <3>1 DEF Submission, GameRequest, Count
      <3>2. CASE phase # "own"
        <4>1. accepted = Request(gameOn, dynamic, Count, ui)
          BY <2>1, <3>2 DEF Submission
        <4>2. QED
          BY <1>0, <2>3, <4>1 DEF Switches
      <3>3. QED
        BY <3>1, <3>2
    <2>5. QED
      BY <2>4 DEF Request
  <1>6. CASE FinishPassed \/ (FinishDynamic /\ ~applied)
    <2>1. /\ at = "conclude" /\ at' = "returned" /\ UNCHANGED <<accepted, disturbed>>
          /\ effective' = (IF answer = "ok" THEN gameCount ELSE 0)
          /\ status' \notin {"Applied", "DynamicPriority"}
      BY <1>6 DEF FinishPassed, FinishDynamic, Passed, PassedStatus, SelectedOr, Go, provider, history
    <2>2. purpose \in Passing \/ (purpose = "dynamic" /\ ~applied)
      BY <1>6 DEF FinishPassed, FinishDynamic, Passing
    <2>3. gameOn /\ ~override
      BY <1>0, <2>1, <2>2 DEF Control, Working, Forcing, Passing
    <2>4. disturbed = 0 /\ purpose # "dynamic" => ~dynamic
      BY <1>0, <2>1 DEF Undisturbed, Working
    <2>5. disturbed = 0 /\ purpose = "dynamic" => phase = "own"
      BY <1>0, <2>1, <2>2 DEF Undisturbed, Working, Passing
    <2>6. disturbed = 0 /\ answer = "ok" => accepted = Request(TRUE, FALSE, gameCount, accepted.ui)
      <3>1. CASE purpose # "dynamic"
        BY <1>5, <2>1, <2>3, <2>4, <3>1 DEF Count
      <3>2. ASSUME purpose = "dynamic", disturbed = 0, answer = "ok"
            PROVE  accepted = Request(TRUE, FALSE, gameCount, accepted.ui)
        <4>1. accepted = GameRequest
          BY <1>0, <2>1, <2>5, <3>2 DEF Sent, Submission
        <4>2. gameOn = TRUE
          BY <1>0, <2>3 DEF Switches
        <4>3. QED
          BY <4>1, <4>2 DEF GameRequest, Request
      <3>3. QED
        BY <3>1, <3>2
    <2>7. QED
      BY <2>1, <2>6
  <1>7. CASE FinishDynamic /\ applied
    <2>1. /\ at = "conclude" /\ purpose = "dynamic" /\ effective' = 0 /\ status' = "DynamicPriority"
          /\ UNCHANGED <<accepted, disturbed>>
      BY <1>7 DEF FinishDynamic, provider, history
    <2>2. disturbed = 0 => dynamic /\ phase # "own"
      BY <1>0, <1>7, <2>1 DEF Undisturbed, Working
    <2>3. gameOn /\ ~override
      BY <1>0, <2>1 DEF Control, Working, Forcing
    <2>4. disturbed = 0 => accepted = Submission
      BY <1>0, <2>1, <2>2, <2>3 DEF Sent, Names, Answers
    <2>5. disturbed = 0 => accepted.on /\ accepted.dynamic
      <3> SUFFICES ASSUME disturbed = 0 PROVE accepted.on /\ accepted.dynamic
        OBVIOUS
      <3>1. gameOn = TRUE /\ dynamic = TRUE /\ phase \in {"forwarded", "same", "dynamicOnly"}
        BY <1>0, <2>1, <2>2, <2>3 DEF Control, Working, Switches
      <3>2. accepted = Submission
        BY <2>4
      <3>3. \E n, u : accepted = Request(TRUE, TRUE, n, u)
        BY <3>1, <3>2 DEF Submission
      <3>4. QED
        BY <3>3 DEF Request
    <2>6. QED
      BY <2>1, <2>5
  <1>8. CASE FinishOff
    BY <1>8 DEF FinishOff, SelectedOr
  <1>9. CASE FinishForced
    <2>1. /\ at = "conclude" /\ purpose \in {"force", "retry"} /\ answer = "ok"
          /\ effective' = desired /\ lastForced' = desired /\ status' = "Applied"
          /\ UNCHANGED <<accepted, disturbed>>
      BY <1>9 DEF FinishForced, provider, history
    <2>2. gameOn /\ override /\ desired # 0
      BY <1>0, <2>1 DEF Control, Working, Forcing, ForcedIsAllowed
    <2>3. disturbed = 0 => ~dynamic
      BY <1>0, <2>1 DEF Undisturbed, Working
    <2>4. disturbed = 0 => accepted = Request(TRUE, FALSE, desired, accepted.ui)
      BY <1>5, <2>1, <2>2, <2>3 DEF Count
    <2>5. QED
      BY <2>1, <2>2, <2>4
  <1>10. CASE RetryForced \/ RefuseForced \/ Return
    BY <1>10 DEF RetryForced, RefuseForced, Return, Go
  <1>11. CASE Others
    <2>1. at' = at /\ (at # "idle" => disturbed' = disturbed + 1)
      BY <1>11, OthersLeave
    <2>2. QED
      BY <1>0, <2>1 DEF Numbers
  <1>12. QED
    BY <1>1, <1>2, <1>3, <1>4, <1>6, <1>7, <1>8, <1>9, <1>10, <1>11 DEF Next, Call

----------------------------------------------------------------------------
LEMMA Initially == Init => IInv
  <1> SUFFICES ASSUME Init PROVE IInv
    OBVIOUS
  <1>1. Switches
    BY DEF Init, Switches
  <1>2. Names
    BY DEF Init, Names, Statuses, Labels, Purposes, Phases, Answers
  <1>3. Numbers
    BY CountsAreNat, FailuresAssumption, DisturbancesAssumption DEF Init, Numbers
  <1>4. NoRequest \in Requests
    BY CountsAreNat DEF NoRequest, Request, Requests
  <1>5. TypeOK
    BY <1>1, <1>2, <1>3, <1>4, TypeParts DEF Init
  <1>6. Control /\ ForcedIsAllowed /\ Sent /\ Counted /\ Undisturbed /\ TelemetryIsTrue
    BY DEF Init, Control, Working, Forcing, ForcedIsAllowed, Sent, GameNotLeftWorse, Counted, Undisturbed,
           TelemetryIsTrue
  <1>7. Rounds
    BY FailuresAssumption DEF Init, Rounds
  <1>8. QED
    BY <1>5, <1>6, <1>7 DEF IInv

LEMMA Step == IInv /\ [Next]_vars => IInv'
  BY TypeStep, ControlStep, ForcedStep, SentStep, CountedStep, UndisturbedStep, RoundsStep, TelemetryStep DEF IInv

LEMMA Inductive == Spec => []IInv
  BY Initially, Step, PTL DEF Spec

(* Every variable keeps its type: every count is one of the game's, of the *)
(* user's or of the trial below it, and no counter passes its limit.       *)
THEOREM TypeCorrect == Spec => []TypeOK
  <1>1. IInv => TypeOK
    BY DEF IInv
  <1>2. QED
    BY <1>1, Inductive, PTL

(* A failed call of the game put the game's own request through last.      *)
THEOREM GameIsNotLeftWorse == Spec => []GameNotLeftWorse
  <1>1. IInv => GameNotLeftWorse
    BY DEF IInv, Sent
  <1>2. QED
    BY <1>1, Inductive, PTL

(* Off reaches the provider once, as the game sent it, and a count is only *)
(* rewritten where the structure and the Streamline version allow it.      *)
THEOREM WhatIsSentIsAllowed == Spec => []SentIsAllowed
  <1>1. IInv => SentIsAllowed
    <2> SUFFICES ASSUME IInv, at = "answered"
                 PROVE  /\ ~gameOn => calls = 1 /\ submitted = GameRequest
                        /\ submitted.count # gameCount => abiKnown /\ (submitted.count > 1 => ~ancient)
      BY DEF SentIsAllowed
    <2>1. Control /\ ForcedIsAllowed /\ Sent /\ Counted
      BY DEF IInv
    <2>2. submitted = Submission /\ phase \in {"forwarded", "same", "dynamicOnly", "own"}
      BY <2>1 DEF Sent, Control, Working
    <2>3. submitted.count = IF phase = "own" THEN gameCount ELSE Count
      BY <2>2 DEF Submission, GameRequest, Request
    <2>4. ~gameOn => calls = 1 /\ submitted = GameRequest
      <3>1. ~gameOn => purpose = "off" /\ phase = "own"
        BY <2>1 DEF Control, Working
      <3>2. QED
        BY <2>1, <2>2, <3>1 DEF Counted, Submission
    <2>5. submitted.count # gameCount => submitted.count = desired /\ Forcing
      BY <2>1, <2>3 DEF Count, Control, Working
    <2>6. QED
      BY <2>1, <2>4, <2>5 DEF ForcedIsAllowed
  <1>2. QED
    BY <1>1, Inductive, PTL

(* The price of a call, and the rounds Dynamic may lose.                   *)
THEOREM RequestsAreBounded == Spec => []RequestsBounded
  <1>1. IInv => RequestsBounded
    <2> SUFFICES ASSUME IInv PROVE RequestsBounded
      OBVIOUS
    <2>1. Numbers /\ ForcedIsAllowed /\ Undisturbed /\ Rounds
      BY TypeParts DEF IInv
    <2>2. rounds <= MaxTransientDynamicFailures
      BY <2>1, FailuresAssumption DEF Numbers, Rounds
    <2>3. calls <= 10
      BY <2>1 DEF Numbers
    <2>4. at = "submit" /\ purpose = "force" => refused # desired
      BY <2>1 DEF ForcedIsAllowed
    <2>5. QED
      BY <2>1, <2>2, <2>3, <2>4 DEF RequestsBounded, Undisturbed
  <1>2. QED
    BY <1>1, Inductive, PTL

(* After an undisturbed call the panel shows what the provider runs with.  *)
THEOREM TelemetryHolds == Spec => []TelemetryIsTrue
  <1>1. IInv => TelemetryIsTrue
    BY DEF IInv
  <1>2. QED
    BY <1>1, Inductive, PTL
=============================================================================
