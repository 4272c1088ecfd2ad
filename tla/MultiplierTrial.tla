---------------------------- MODULE MultiplierTrial ----------------------------
(***************************************************************************)
(* The multiplier trial of the Latency Guard (latency_trial.hpp): a phase  *)
(* machine that lowers a fixed multiplier one step at a time, compares a   *)
(* window of measurements at each step with one at the step above, and     *)
(* keeps what won.  Update is a function of the trial and of what the      *)
(* guard observed, as in the code, where it has no other effect.           *)
(*                                                                         *)
(* A sample is the multiplier the driver reported with it; what was        *)
(* measured is an input: whether the window won (in.better).  So are       *)
(* timers: in.late says whether the one of the current phase has expired.  *)
(***************************************************************************)
EXTENDS Integers, Sequences

CONSTANT Window  \* samples in a window, 8 in the code

ASSUME WindowAssumption == Window \in Nat \ {0}

Fixed(m) == m \in 2..6
Tried    == 3..6     \* what a trial may run at

Phases == {"idle", "collecting_baseline", "waiting_for_candidate",
           "measuring_candidate", "accepted", "waiting_for_original",
           "measuring_original", "cooldown"}

(***************************************************************************)
(* What the guard tells a trial:                                           *)
(*   behind       the epoch is not the one the trial was started under     *)
(*   configured   the user's multiplier, 0 for the game's                  *)
(*   live         the multiplier the driver reports, 0 when unknown        *)
(*   safe         nothing stands against a trial                           *)
(*   trigger      there is a reason to try less                            *)
(*   other        and it is not the one the trial was started for          *)
(*   ready        the user's own cap is in force                           *)
(*   sample       "old" with frames counted before, "broken", or "good"    *)
(*   late, better see above                                                *)
(* The code's two windows are one here: they are never filled together, and *)
(* what is left in a window or a summary that is not read again is dropped. *)
(***************************************************************************)
Reset(configured) ==
  [phase |-> "idle", configured |-> configured, approved |-> configured,
   candidate |-> 0, override |-> 0,
   window |-> <<>>,
   baseline |-> {},     \* the multipliers behind the summary compared with
   accepted |-> FALSE, attempted |-> FALSE,
   won |-> {}]          \* history: the comparisons won, <<lower, higher>>

\* The multipliers a window was measured at.
Measured(window) == {window[i] : i \in DOMAIN window}

StartBaseline(t) ==
  [t EXCEPT !.phase = "collecting_baseline", !.window = <<>>]

StartNextCandidate(t) ==
  IF t.approved = 3
  THEN [t EXCEPT !.candidate = 0, !.window = <<>>, !.phase = "accepted"]
  ELSE [t EXCEPT !.candidate = t.approved - 1, !.override = t.approved - 1,
                 !.window = <<>>, !.phase = "waiting_for_candidate",
                 !.attempted = TRUE]

HoldApproved(t, cooldown) ==
  LET lower == t.approved < t.configured
  IN [t EXCEPT !.candidate = 0, !.window = <<>>,
               !.baseline = IF lower THEN @ ELSE {},
               !.override = IF lower THEN t.approved ELSE 0,
               !.accepted = lower,
               !.phase = IF lower THEN "accepted"
                         ELSE IF cooldown THEN "cooldown" ELSE "idle"]

----------------------------------------------------------------------------
(* One operator per phase: what Update does in it.                         *)

CollectBaseline(t, in) ==
  LET s == IF in.other THEN StartBaseline(t) ELSE t
      w == Append(s.window, in.live)
  IN IF ~in.trigger \/ in.live # t.approved THEN HoldApproved(t, FALSE)
     ELSE CASE ~in.ready -> [s EXCEPT !.window = <<>>]
            [] in.ready /\ in.sample = "old" -> s
            [] in.ready /\ in.sample = "broken" -> HoldApproved(s, FALSE)
            [] in.ready /\ in.sample = "good" ->
               IF Len(w) < Window THEN [s EXCEPT !.window = w]
               ELSE StartNextCandidate([s EXCEPT !.baseline = Measured(w)])

Begin(t, in) ==
  IF in.trigger /\ in.live = t.configured
  THEN CollectBaseline(StartBaseline([t EXCEPT !.approved = t.configured, !.won = {}]),
                       [in EXCEPT !.other = FALSE])
  ELSE t

CoolDown(t, in) ==
  IF in.late THEN Begin([t EXCEPT !.phase = "idle", !.attempted = FALSE], in) ELSE t

\* Nothing is measured until the driver reports the multiplier asked for.
Await(t, in, multiplier, next, cooldown) ==
  CASE in.live = multiplier /\ in.ready ->
         [t EXCEPT !.phase = next, !.window = <<>>]
    [] ~(in.live = multiplier /\ in.ready) /\ in.late -> HoldApproved(t, cooldown)
    [] OTHER -> t

\* Wrong: a sample is counted whatever the driver reports with it.
MeasureAnything(t, in, multiplier, previous, cooldown) ==
  CASE ~in.ready -> [t EXCEPT !.window = <<>>, !.phase = previous]
    [] in.ready /\ in.sample = "old" -> t
    [] in.ready /\ in.sample = "broken" -> HoldApproved(t, cooldown)
    [] OTHER -> [t EXCEPT !.window = Append(@, in.live)]

Measure(t, in, multiplier, previous, cooldown) ==
  CASE ~in.ready -> [t EXCEPT !.window = <<>>, !.phase = previous]
    [] in.ready /\ in.live = multiplier /\ in.sample = "old" -> t
    [] in.ready /\ (in.live # multiplier \/ in.sample = "broken") -> HoldApproved(t, cooldown)
    [] OTHER -> [t EXCEPT !.window = Append(@, in.live)]

Full(t) == Len(t.window) = Window

Compare(t, in) ==
  IF ~in.better THEN HoldApproved(t, TRUE)
  ELSE StartNextCandidate(
         [t EXCEPT !.approved = t.candidate, !.accepted = TRUE,
                   !.won = @ \cup {<<Measured(t.window), t.baseline>>},
                   !.baseline = Measured(t.window)])

\* Thirty seconds after a reduction was kept, the original is tried again.
Recheck(t, in) ==
  LET s == [t EXCEPT !.override = IF t.approved < t.configured THEN t.approved ELSE 0]
  IN IF s.accepted /\ in.late
     THEN [s EXCEPT !.override = 0, !.candidate = t.configured,
                    !.window = <<>>, !.phase = "waiting_for_original"]
     ELSE s

ReturnToOriginal(t, in) ==
  LET s == [t EXCEPT !.approved = t.configured, !.accepted = FALSE, !.override = 0,
                     !.baseline = Measured(t.window), !.won = {}]
  IN IF in.trigger THEN StartNextCandidate(s)
     ELSE [s EXCEPT !.phase = "idle", !.candidate = 0, !.window = <<>>,
                    !.baseline = {}, !.attempted = FALSE]

Safely(t, in) ==
  CASE t.phase = "cooldown"              -> CoolDown(t, in)
    [] t.phase = "idle"                  -> Begin(t, in)
    [] t.phase = "collecting_baseline"   -> CollectBaseline(t, in)
    [] t.phase = "waiting_for_candidate" ->
         Await(t, in, t.candidate, "measuring_candidate", TRUE)
    [] t.phase = "measuring_candidate"   ->
         LET s == Measure(t, in, t.candidate, "waiting_for_candidate", TRUE)
         IN IF Full(s) THEN Compare(s, in) ELSE s
    [] t.phase = "accepted"              -> Recheck(t, in)
    [] t.phase = "waiting_for_original"  ->
         Await(t, in, t.configured, "measuring_original", FALSE)
    [] t.phase = "measuring_original"    ->
         LET s == Measure(t, in, t.configured, "waiting_for_original", FALSE)
         IN IF Full(s) THEN ReturnToOriginal(s, in) ELSE s

Update(t, in) ==
  LET s == IF in.behind \/ in.configured # t.configured THEN Reset(in.configured) ELSE t
  IN IF in.safe /\ s.configured \in 4..6 THEN Safely(s, in)
     ELSE IF s.override # 0 \/ s.phase # "idle" THEN Reset(in.configured) ELSE s

\* What Update returns: the override the game's next request is to use.
Override(t) == IF t.phase \in {"idle", "cooldown"} THEN 0 ELSE t.override
=============================================================================
