----------------------------- MODULE KernelPatches -----------------------------
(***************************************************************************)
(* The kernels a provider carries and what is written over them: Blackwell *)
(* cubins in their Ada slots or in rebuilt fatbins (blackwell.hpp), the    *)
(* temporal kernel (midpoint.hpp), and the thin-geometry rewrites          *)
(* (thin_geometry.hpp), with the records addon_provider.inl keeps of them. *)
(* A patch changes bytes of the provider's image, or leads a fatbin's      *)
(* descriptors to a copy; either may fail, and so may taking it back.      *)
(* All of it runs under the maintenance lock, on one provider.             *)
(***************************************************************************)
EXTENDS Naturals, Sequences, FiniteSets

CONSTANTS
  Home,         \* each kernel's fatbin in the provider
  Order,        \* the addresses of the cubin kernels
  Descriptors,  \* the references to each fatbin
  Settings      \* the settings and cubin tables of the builds considered

Cubins  == {"motion", "inpaint", "decision"}
Kernels == Cubins \cup {"temporal", "blend", "previous"}
Fatbins == {Home[k] : k \in Kernels}
Slots   == Fatbins \X Descriptors
Places  == 1..(Cardinality(Kernels) + 1)   \* where a copy may be allocated

VARIABLES
  settings,  \* read at startup
  image,     \* what the provider's own fatbins hold, per kernel
  leads,     \* where a descriptor leads: 0 is the provider's fatbin
  copies,    \* per place: the fatbin copied and its kernels, or nothing
  at,        \* what maintenance is doing
  left,      \* the kernels it has not reached
  inPlace,   \* blackwell: the slots written and recorded
  redirected, \* per subsystem: the descriptors recorded, with their place
  held,      \* per subsystem: the places recorded
  result,    \* per subsystem: what it reports applied, per kernel
  rejected,  \* g_midpoint_rejected_modules
  thinKept   \* g_thin_geometry_modules has the provider

vars == <<settings, image, leads, copies, at, left, inPlace, redirected, held, result, rejected, thinKept>>

Subsystems == {"blackwell", "midpoint", "thin"}
Nowhere    == [of |-> "none", kernels |-> <<>>]
Native     == [k \in Kernels |-> "native"]
None       == [k \in Kernels |-> "none"]
NoRecord   == [s \in Subsystems |-> None]

TypeOK ==
  /\ settings \in Settings /\ DOMAIN image = Kernels /\ leads \in [Slots -> Places \cup {0}]
  /\ at \in {"idle", "applying", "undo", "midpoint", "thin", "detached"} /\ inPlace \subseteq Cubins
  /\ left \subseteq Kernels /\ rejected \in BOOLEAN /\ thinKept \in BOOLEAN
  /\ \A s \in Subsystems : held[s] \subseteq Places /\ redirected[s] \subseteq Slots \X Places
  /\ \A p \in Places : copies[p] = Nowhere \/ copies[p].of \in Fatbins

Init ==
  /\ settings \in Settings /\ image = Native /\ leads = [d \in Slots |-> 0]
  /\ copies = [p \in Places |-> Nowhere] /\ at = "idle" /\ left = {} /\ inPlace = {}
  /\ redirected = [s \in Subsystems |-> {}] /\ held = [s \in Subsystems |-> {}]
  /\ result = NoRecord /\ rejected = FALSE /\ thinKept = FALSE

----------------------------------------------------------------------------
(* Choosing a variant: the first of a ladder that the generated table      *)
(* offers for this provider.                                               *)

First(ladder, otherwise) ==
  IF \E i \in DOMAIN ladder : ladder[i] \in settings.offered
  THEN ladder[CHOOSE i \in DOMAIN ladder :
                /\ ladder[i] \in settings.offered
                /\ \A j \in 1..(i - 1) : ladder[j] \notin settings.offered]
  ELSE otherwise

(* What PatchBlackwellInModule asks for. *)
Adaptive  == settings.adaptive /\ settings.supported
Scatter   == settings.scatter /\ ~settings.adaptive /\ settings.supported
GuardMode == CASE ~settings.supported -> "off"
               [] settings.supported /\ settings.adaptive -> "balanced"
               [] OTHER -> settings.guard

SilhouetteGuardMechanism ==
  CASE GuardMode = "aggressive" -> "aggressive"
    [] GuardMode = "balanced" /\ settings.adaptive ->
         CASE settings.profile = 3 /\ settings.oriented ->
                IF settings.temporalGeometry THEN "v31_temporal" ELSE "v31_local"
           [] settings.profile = 1 -> "geometry_v1"
           [] OTHER -> "geometry_v2"
    [] GuardMode = "balanced" /\ ~settings.adaptive ->
         CASE settings.refinement /\ settings.confidenceV2 -> "smooth_v2"
           [] settings.refinement /\ ~settings.confidenceV2 -> "refined"
           [] OTHER -> "motion_depth"
    [] OTHER -> "intermediate_scatter"

GeometryLadder ==
  LET on == GuardMode # "off" \/ Scatter
      If(c, mechanism) == IF on /\ c THEN <<mechanism>> ELSE <<>>
      adaptive == Adaptive /\ GuardMode = "balanced"
      balanced == settings.refinement /\ GuardMode = "balanced"
  IN If(TRUE, SilhouetteGuardMechanism)
     \o If(adaptive /\ SilhouetteGuardMechanism = "v31_temporal", "v31_local")
     \o If(adaptive /\ settings.profile = 3 /\ settings.oriented, "geometry_v2")
     \o If(adaptive, "geometry_v1")
     \o If(balanced /\ settings.confidenceV2, "refined")
     \o If(balanced \/ GuardMode = "aggressive", "motion_depth")
     \o If(GuardMode # "off" /\ Scatter, "intermediate_scatter")

InpaintLadder ==
  LET If(c, mechanism) == IF Adaptive /\ c THEN <<mechanism>> ELSE <<>>
      v3   == settings.profile = 3
      mode == settings.inpaintMode
  IN If(v3 /\ mode = 2, "decision_v3_temporal") \o If(v3 /\ mode # 0, "decision_v3_local")
     \o If((v3 /\ mode # 0) \/ settings.profile # 1, "decision_v2") \o If(TRUE, "decision_v1")

Replacement(k) ==
  CASE k = "motion"   -> First(GeometryLadder, "blackwell")
    [] k = "decision" -> First(InpaintLadder, "blackwell")
    [] OTHER          -> "blackwell"

----------------------------------------------------------------------------
(* Redirecting a fatbin.                                                   *)

SlotsOf(f)  == {d \in Slots : d[1] = f}
Current(f)  == [k \in {x \in Kernels : Home[x] = f} |-> image[k]]
Free == CHOOSE p \in Places : copies[p] = Nowhere

(* A rebuild that took the kernels from the table and not from the fatbin  *)
(* as it is.                                                               *)
RebuiltFromFile(k, with) ==
  [of |-> Home[k],
   kernels |-> [x \in {y \in Kernels : Home[y] = Home[k]} |-> IF x = k THEN with ELSE "native"]]

Rebuilt(k, with) == [of |-> Home[k], kernels |-> [Current(Home[k]) EXCEPT ![k] = with]]

(* The temporal rebuild ends after the rewritten entry: what followed it in *)
(* the fatbin is not in the copy.                                          *)
BuildTemporalFatbin ==
  [of |-> Home["temporal"],
   kernels |-> [k \in DOMAIN Current(Home["temporal"]) |-> IF k = "temporal" THEN "temporal" ELSE "dropped"]]

(* pointerredirect::Apply over every reference to the fatbin: all or none, *)
(* except those whose rollback fails.  It refuses when a reference no      *)
(* longer leads to the provider's fatbin or there is none.                 *)
Redirections(k) ==
  LET slots == {d \in SlotsOf(Home[k]) : leads[d] = 0} IN
  IF slots = {} THEN {[ok |-> FALSE, slots |-> {}]}
  ELSE {[ok |-> TRUE, slots |-> slots]} \cup {[ok |-> FALSE, slots |-> stuck] : stuck \in SUBSET slots}

Lead(slots, p) == [d \in Slots |-> IF d \in slots THEN p ELSE leads[d]]

(* What a restore of the recorded descriptors `was` leaves: those of       *)
(* `stuck` cannot be restored now and stay recorded.                       *)
BackIn(was, stuck) ==
  [d \in Slots |-> IF (\E p \in Places : <<d, p>> \in was) /\ d \notin stuck THEN 0 ELSE leads[d]]
Kept(was, stuck)  == {r \in was : r[1] \in stuck}
Released(places)  == [p \in Places |-> IF p \in places THEN Nowhere ELSE copies[p]]

(* The places of a subsystem that may be freed: the Blackwell record frees *)
(* its allocations only when nothing of it is left, a redirect its own.    *)
Freeable(s, kept, keptInPlace) ==
  IF s = "blackwell" THEN IF kept = {} /\ keptInPlace = {} THEN held[s] ELSE {}
  ELSE {p \in held[s] : \A r \in kept : r[2] # p}

Recorded(s) == held[s] # {} \/ redirected[s] # {} \/ (s = "blackwell" /\ inPlace # {})
ModuleHasTemporalPatch == Recorded("midpoint") \/ Recorded("blackwell")

----------------------------------------------------------------------------
(* PatchBlackwellInModule: blackwell::Apply goes through the candidates in *)
(* address order.  Without the motion-vector kernel it does not begin.     *)

Lowest(ks) == CHOOSE k \in ks : \A l \in ks : Order[k] <= Order[l]

PatchTemporalInModule ==
  /\ at = "idle" /\ ~ModuleHasTemporalPatch /\ ~settings.native /\ ~rejected
  /\ IF settings.framework /\ "motion" \in settings.matched
     THEN at' = "applying" /\ left' = settings.matched
     ELSE at' = "midpoint" /\ UNCHANGED left
  /\ UNCHANGED <<settings, image, leads, copies, inPlace, redirected, held, result, rejected, thinKept>>

ApplyInPlace ==
  LET k == Lowest(left) IN
  /\ at = "applying" /\ left # {} /\ Replacement(k) \notin settings.oversized
  /\ \/ /\ image' = [image EXCEPT ![k] = Replacement(k)] /\ inPlace' = inPlace \cup {k}
        /\ result' = [result EXCEPT !["blackwell"][k] = Replacement(k)]
        /\ left' = left \ {k} /\ UNCHANGED at
     \/ at' = "undo" /\ UNCHANGED <<image, inPlace, result, left>>   \* VirtualProtect failed
  /\ UNCHANGED <<settings, leads, copies, redirected, held, rejected, thinKept>>

(* One redirection for the subsystem s.  A copy whose descriptors were all *)
(* rolled back is freed at once, but by blackwell::Apply only in Restore.  *)
Redirect(s, k, copy, with, outcome) ==
  LET kept == outcome.slots # {} \/ s = "blackwell" IN
  /\ leads' = Lead(outcome.slots, Free)
  /\ redirected' = [redirected EXCEPT ![s] = @ \cup {<<d, Free>> : d \in outcome.slots}]
  /\ held' = IF kept THEN [held EXCEPT ![s] = @ \cup {Free}] ELSE held
  /\ copies' = IF kept THEN [copies EXCEPT ![Free] = copy] ELSE copies
  /\ result' = IF outcome.ok THEN [result EXCEPT ![s][k] = with] ELSE result

RedirectOversizedCubin ==
  LET k == Lowest(left) IN
  /\ at = "applying" /\ left # {} /\ Replacement(k) \in settings.oversized
  /\ \E outcome \in Redirections(k) :
       /\ Redirect("blackwell", k, Rebuilt(k, Replacement(k)), Replacement(k), outcome)
       /\ IF outcome.ok THEN left' = left \ {k} /\ UNCHANGED at ELSE at' = "undo" /\ UNCHANGED left
  /\ UNCHANGED <<settings, image, inPlace, rejected, thinKept>>

(* Restore after a failure: the record of what it cannot take back is kept *)
(* with an empty result, and the midpoint rewrite is tried only without.   *)
Undo ==
  /\ at = "undo"
  /\ \E stuck \in SUBSET {r[1] : r \in redirected["blackwell"]}, stuckKernels \in SUBSET inPlace :
       LET kept == Kept(redirected["blackwell"], stuck)
           free == Freeable("blackwell", kept, stuckKernels) IN
       /\ leads' = BackIn(redirected["blackwell"], stuck)
       /\ image' = [k \in Kernels |-> IF k \in inPlace \ stuckKernels THEN "native" ELSE image[k]]
       /\ inPlace' = stuckKernels
       /\ redirected' = [redirected EXCEPT !["blackwell"] = kept]
       /\ copies' = Released(free) /\ held' = [held EXCEPT !["blackwell"] = @ \ free]
  /\ result' = [result EXCEPT !["blackwell"] = None]
  /\ at' = "midpoint" /\ left' = {} /\ UNCHANGED <<settings, rejected, thinKept>>

PatchMidpointInModule ==
  /\ at = "midpoint" /\ at' = "idle"
  /\ IF ModuleHasTemporalPatch
     THEN UNCHANGED <<leads, copies, redirected, held, result, rejected>>
     ELSE \E outcome \in Redirections("temporal") :
            /\ Redirect("midpoint", "temporal", BuildTemporalFatbin, "temporal", outcome)
            /\ rejected' = (~outcome.ok \/ rejected)
  /\ UNCHANGED <<settings, image, left, inPlace, thinKept>>

FinishApply ==
  /\ at = "applying" /\ left = {} /\ at' = "idle"
  /\ UNCHANGED <<settings, image, leads, copies, left, inPlace, redirected, held, result, rejected, thinKept>>

----------------------------------------------------------------------------
(* PatchThinGeometryInModule: the warp blend, then the previous scatter,   *)
(* each through a rebuilt fatbin whose rewrite falls back V3 -> V2 -> V1.  *)
(* Maintenance always tries the temporal patch first.                      *)

(* Whether every exact text the rewrite looks for is in the kernel. *)
RewriteValidatedWarpBlend(version) == version \in settings.offered

Blend ==
  LET ladder == SubSeq(<<"blend_v3", "blend_v2", "blend_v1">>, 4 - settings.profile, 3) IN
  CASE ~settings.adaptive -> "native profile"
    [] settings.adaptive /\ (\E i \in DOMAIN ladder : RewriteValidatedWarpBlend(ladder[i])) -> First(ladder, "none")
    [] OTHER -> "none"

ThinGeometryRequested ==
  settings.adaptive \/ settings.blend \/ settings.previous \/ settings.scatter \/ settings.guard # "off"

PatchThinGeometryInModule ==
  /\ at = "idle" /\ ~thinKept /\ ThinGeometryRequested /\ (settings.native => settings.fixes)
  /\ settings.native \/ ModuleHasTemporalPatch \/ rejected
  /\ at' = "thin"
  /\ left' = IF ~settings.supported THEN {}
             ELSE (IF settings.adaptive \/ settings.blend THEN {"blend"} ELSE {})
                  \cup (IF ~settings.native /\ ~settings.adaptive /\ settings.previous THEN {"previous"} ELSE {})
  /\ UNCHANGED <<settings, image, leads, copies, inPlace, redirected, held, result, rejected, thinKept>>

RedirectFatbin ==
  LET k == IF "blend" \in left THEN "blend" ELSE "previous"
      with == IF k = "blend" THEN Blend ELSE "retained" IN
  /\ at = "thin" /\ left # {} /\ left' = left \ {k}
  /\ IF with = "none" THEN UNCHANGED <<leads, copies, redirected, held, result>>
     ELSE \E outcome \in Redirections(k) : Redirect("thin", k, Rebuilt(k, with), with, outcome)
  /\ UNCHANGED <<settings, image, at, inPlace, rejected, thinKept>>

(* The guard and the scatter are the Blackwell motion-vector kernel's: the *)
(* record repeats what that one reports.                                   *)
KeepThinGeometryResult ==
  /\ at = "thin" /\ left = {} /\ at' = "idle" /\ thinKept' = TRUE
  /\ result' = [result EXCEPT !["thin"]["motion"] =
                   IF /\ settings.supported /\ result["blackwell"]["motion"] # "blackwell"
                      /\ GuardMode = "off" \/ result["blackwell"]["motion"] # "intermediate_scatter"
                   THEN result["blackwell"]["motion"] ELSE "none"]
  /\ UNCHANGED <<settings, image, leads, copies, left, inPlace, redirected, held, rejected>>

----------------------------------------------------------------------------
(* RestoreThinGeometry and RestoreMidpoint at detach.                      *)

Detach ==
  /\ at = "idle" /\ at' = "detached" /\ rejected' = FALSE
  /\ \E stuck \in SUBSET {r[1] : r \in UNION {redirected[s] : s \in Subsystems}},
        stuckKernels \in SUBSET inPlace :
       LET kept == [s \in Subsystems |-> Kept(redirected[s], stuck)]
           free == [s \in Subsystems |-> Freeable(s, kept[s], stuckKernels)] IN
       /\ leads' = BackIn(UNION {redirected[s] : s \in Subsystems}, stuck)
       /\ image' = [k \in Kernels |-> IF k \in inPlace \ stuckKernels THEN "native" ELSE image[k]]
       /\ inPlace' = stuckKernels /\ redirected' = kept
       /\ copies' = Released(UNION {free[s] : s \in Subsystems})
       /\ held' = [s \in Subsystems |-> held[s] \ free[s]]
       /\ thinKept' = (kept["thin"] # {} /\ thinKept)
       /\ result' = [s \in Subsystems |->
                       IF kept[s] # {} \/ (s = "blackwell" /\ stuckKernels # {}) THEN result[s] ELSE None]
  /\ UNCHANGED <<settings, left>>

Next ==
  \/ PatchTemporalInModule \/ ApplyInPlace \/ RedirectOversizedCubin \/ Undo \/ FinishApply
  \/ PatchMidpointInModule \/ PatchThinGeometryInModule \/ RedirectFatbin
  \/ KeepThinGeometryResult \/ Detach

Spec == Init /\ [][Next]_vars

----------------------------------------------------------------------------
Leading(d, k) == IF leads[d] = 0 THEN image[k] ELSE copies[leads[d]].kernels[k]

(* Every kernel a record reports applied is the one every reference to its *)
(* fatbin leads to, the kernels written in place included after another of *)
(* the same fatbin was redirected (blackwell.hpp:592-982).                 *)
InEffect ==
  at \in {"idle", "midpoint", "thin"} =>
    \A s \in Subsystems, k \in Kernels : result[s][k] # "none" =>
      \A d \in SlotsOf(Home[k]) : Leading(d, k) = result[s][k]

(* Whatever failed and whatever could not be taken back, a changed slot or *)
(* descriptor is on some record, and the copy a descriptor leads to is     *)
(* allocated and on the same record (blackwell.hpp:573-590).               *)
ChangesRecorded ==
  /\ \A k \in Kernels : image[k] # "native" => k \in inPlace
  /\ \A d \in Slots : leads[d] # 0 =>
       /\ copies[leads[d]].of = d[1]
       /\ \E s \in Subsystems : <<d, leads[d]>> \in redirected[s] /\ leads[d] \in held[s]

(* Both: what the panel is told of a kernel is so, and what could still be *)
(* taken back is known.                                                    *)
ReportedInEffect == InEffect /\ ChangesRecorded

=============================================================================
