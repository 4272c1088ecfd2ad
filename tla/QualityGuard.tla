----------------------------- MODULE QualityGuard ------------------------------
(***************************************************************************)
(* The guard over the optional HUD-less and UI inputs of a viewport, and   *)
(* the temporal resets that a later slSetConstants carries to Streamline   *)
(* (framecount.hpp, quality_guard.hpp).  Options, tags, the swap chain and *)
(* the panel request resets, on several threads.                           *)
(***************************************************************************)
EXTENDS Naturals

CONSTANTS
  Senders,    \* threads that call slSetConstants
  TagBatches, \* the tag batches the game submits
  MaxResets   \* bounds reset_requested

VARIABLES
  described,  \* options_seen, and whether frame generation is on
  resets,     \* reset_requested and reset_applied
  reached,    \* the last request made before a reset Streamline accepted
  constants,  \* per thread: the SetConstants call
  quality,    \* g_hdr_compatibility_mode and whether HDR is active
  hud         \* QualityViewportState: the tags

vars == <<described, resets, reached, constants, quality, hud>>

Sending == [at |-> "idle", requested |-> 0]

\* A viewport without tags keeps the path its optional inputs last took.
NoHud(path) ==
  [path |-> path, frame |-> 0, output |-> 0, hudless |-> FALSE, ui |-> FALSE, invalid |-> FALSE, eligible |-> FALSE]

\* The resets and the calls that carry them.
ResetsTyped ==
  /\ resets \in [requested : 0..MaxResets, applied : 0..MaxResets] /\ reached \in 0..MaxResets
  /\ constants \in [Senders -> [at : {"idle", "calling", "accepted"}, requested : 0..MaxResets]]

TypeOK ==
  /\ described \in {"never", "off", "on"} /\ ResetsTyped
  /\ quality.mode \in {"native", "final", "hybrid"} /\ quality.hdr \in BOOLEAN
  /\ hud.path \in 0..2 /\ hud.invalid \in BOOLEAN /\ hud.output \in 0..2

\* What the game tags a frame with, for the outputs and sizes considered.
BatchesTyped ==
  TagBatches \subseteq [gives : SUBSET {"hudless", "ui"}, clears : SUBSET {"hudless", "ui"}, output : 0..2,
                        size : 1..2, broken : BOOLEAN, frame : Nat]

Init ==
  /\ described = "never" /\ resets = [requested |-> 0, applied |-> 0] /\ reached = 0
  /\ constants = [t \in Senders |-> Sending] /\ quality = [mode |-> "hybrid", hdr |-> FALSE]
  /\ hud = NoHud(0)

UsesQualityGuard == quality.mode \in {"final", "hybrid"}

(* Another request, within the bound. *)
RequestReset(r) == [r EXCEPT !.requested = IF @ < MaxResets THEN @ + 1 ELSE @]

(* ObserveOptionsTransition: a change of seen options requests a reset. *)
ObserveOptions(new) ==
  /\ described' = new
  /\ resets' = IF described # "never" /\ UsesQualityGuard THEN RequestReset(resets) ELSE resets
  /\ UNCHANGED <<reached, constants, quality, hud>>

----------------------------------------------------------------------------
(* FilterHudSeparationTags.  A batch says which optional inputs it gives   *)
(* or clears, the size of a back buffer tagged with them and whether they  *)
(* fit the output.                                                         *)

Live(b) == b.gives # {}
HasHudSeparation(b) == Live(b) \/ b.clears # {}
OutputAfter(b, expected) == IF b.output # 0 THEN b.output ELSE expected
Structural(b, expected) ==
  Live(b) /\ (b.broken \/ (OutputAfter(b, expected) # 0 /\ b.size # OutputAfter(b, expected)))

(* The viewport after the batch, and whether the optional inputs are held  *)
(* back from Streamline.  A new frame, when the call names one, ends what  *)
(* was tagged for the last; another output ends all of it.                 *)
ObserveTags(b, h, expected) ==
  LET shown == OutputAfter(b, expected)
      moved == h.output # 0 /\ shown # 0 /\ shown # h.output
      begun == IF b.frame # 0 /\ b.frame # h.frame THEN [h EXCEPT !.frame = b.frame, !.hudless = FALSE, !.ui = FALSE]
               ELSE h
      fresh == IF moved THEN [NoHud(h.path) EXCEPT !.frame = begun.frame, !.output = shown]
               ELSE [begun EXCEPT !.output = IF shown # 0 THEN shown ELSE @]
      pair  == b.gives = {"hudless", "ui"}
      bad   == Structural(b, expected)
      now   == [fresh EXCEPT
                  !.hudless = "hudless" \in b.gives \/ (@ /\ "hudless" \notin b.clears),
                  !.ui = "ui" \in b.gives \/ (@ /\ "ui" \notin b.clears),
                  !.invalid = bad \/ (@ /\ ~pair /\ b.clears = {})]
      eligible == /\ now.hudless /\ now.ui /\ ~now.invalid /\ ~bad /\ ~quality.hdr
                  /\ b.frame # 0 => pair
  IN IF ~HasHudSeparation(b) THEN [h |-> fresh, moved |-> moved, hold |-> FALSE]
     ELSE IF quality.mode = "hybrid"
     THEN [h |-> [now EXCEPT !.eligible = eligible], moved |-> moved,
           hold |-> ~eligible \/ (~fresh.eligible /\ ~pair)]
     ELSE [h |-> [fresh EXCEPT !.eligible = FALSE], moved |-> moved, hold |-> bad \/ quality.hdr]

NeedsInputReset(previous, path) == IF previous = 0 THEN path = 2 ELSE previous # path

(* The viewport's lock is only tried, for the expected output and then for *)
(* the description: when another call holds it, the optional inputs are    *)
(* held back.                                                              *)
SetTag(b) ==
  /\ UsesQualityGuard
  /\ \E contended \in {"never", "snapshot", "description"}, ok \in BOOLEAN :
       LET observed == ObserveTags(b, hud, IF contended = "snapshot" THEN 0 ELSE hud.output)
           seen == CASE contended = "never" -> observed
                     [] contended = "snapshot" -> [observed EXCEPT !.hold = @ \/ HasHudSeparation(b)]
                     [] OTHER -> [h |-> hud, moved |-> FALSE, hold |-> HasHudSeparation(b)]
           path == IF seen.hold THEN 2 ELSE 1
           after == IF Live(b) THEN IF ok THEN [seen.h EXCEPT !.path = path] ELSE [seen.h EXCEPT !.invalid = TRUE]
                    ELSE seen.h
           once == IF seen.moved THEN RequestReset(resets) ELSE resets IN
       /\ hud' = after
       /\ resets' = IF Live(b) /\ ok /\ NeedsInputReset(hud.path, path) THEN RequestReset(once) ELSE once
  /\ UNCHANGED <<described, reached, constants, quality>>

(* NotifySwapchainTransition, and NotifyQualityModeChanged of the panel.   *)
ForgetOutputDescriptions ==
  /\ hud' = NoHud(hud.path)
  /\ \/ (resets' = IF UsesQualityGuard THEN RequestReset(resets) ELSE resets) /\ UNCHANGED quality
     \/ /\ \E mode \in {"native", "final", "hybrid"} : quality' = [quality EXCEPT !.mode = mode]
        /\ resets' = RequestReset(resets)
  /\ UNCHANGED <<described, reached, constants>>

NotifyHdrState ==
  /\ quality' = [quality EXCEPT !.hdr = ~@]
  /\ IF UsesQualityGuard
     THEN hud' = NoHud(hud.path) /\ resets' = RequestReset(resets)
     ELSE UNCHANGED <<hud, resets>>
  /\ UNCHANGED <<described, reached, constants>>

----------------------------------------------------------------------------
(* HookedSetConstants: the requests pending when the call begins are       *)
(* answered by it when Streamline accepts the constants.                   *)

SetConstants(t) ==
  /\ constants[t].at = "idle" /\ described = "on" /\ resets.requested # resets.applied
  /\ constants' = [constants EXCEPT ![t] = [at |-> "calling", requested |-> resets.requested]]
  /\ UNCHANGED <<described, resets, reached, quality, hud>>

Submitted(t) ==
  /\ constants[t].at = "calling"
  /\ \/ constants' = [constants EXCEPT ![t].at = "accepted"] /\ reached' = resets.requested
     \/ constants' = [constants EXCEPT ![t] = Sending] /\ UNCHANGED reached
  /\ UNCHANGED <<described, resets, quality, hud>>

(* Wrong: the requests are taken as they are after the call.              *)
AnswerLatest(r, requested) == [r EXCEPT !.applied = r.requested]

Answer(r, requested) == [r EXCEPT !.applied = requested]

ResetApplied(t) ==
  /\ constants[t].at = "accepted" /\ resets' = Answer(resets, constants[t].requested)
  /\ constants' = [constants EXCEPT ![t] = Sending]
  /\ UNCHANGED <<described, reached, quality, hud>>

Next ==
  \/ \E new \in {"off", "on"} : ObserveOptions(new)
  \/ \E b \in TagBatches : SetTag(b)
  \/ ForgetOutputDescriptions \/ NotifyHdrState
  \/ \E t \in Senders : SetConstants(t) \/ Submitted(t) \/ ResetApplied(t)

Spec == Init /\ [][Next]_vars

----------------------------------------------------------------------------
(* A reset is taken as applied only when Streamline accepted constants     *)
(* with the reset set after it was requested, whatever is requested while  *)
(* a submission is in flight (framecount.hpp:1906-1965).                   *)
ResetReachesHistory == resets.applied <= reached

=============================================================================
