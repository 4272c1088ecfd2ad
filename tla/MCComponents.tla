---------------------------- MODULE MCComponents ----------------------------
(***************************************************************************)
(* Small instances of the twelve components, checked in one run.           *)
(***************************************************************************)
EXTENDS Components

\* One provider, found by its name and announced by the loader.
MCProviders == {"g"}

\* Two cubin kernels share a fatbin; builds that differ in what they offer,
\* in what is switched on, and in what the provider matches.
Build == [framework |-> TRUE, native |-> FALSE, fixes |-> FALSE, supported |-> TRUE,
          matched |-> {"motion", "inpaint", "decision"}, adaptive |-> TRUE, profile |-> 3,
          oriented |-> TRUE, temporalGeometry |-> FALSE, guard |-> "balanced", refinement |-> FALSE,
          confidenceV2 |-> FALSE, scatter |-> FALSE, blend |-> FALSE, previous |-> FALSE,
          inpaintMode |-> 1, offered |-> {"v31_local", "decision_v3_local", "blend_v2"},
          oversized |-> {"v31_local", "v31_temporal", "decision_v3_local", "decision_v3_temporal"}]
Plain == [Build EXCEPT !.adaptive = FALSE]
MCSettings ==
  {Build,
   [Build EXCEPT !.temporalGeometry = TRUE, !.inpaintMode = 2, !.offered = {"v31_local", "decision_v2"}],
   [Build EXCEPT !.profile = 2, !.offered = {"geometry_v1", "decision_v1", "blend_v1"}],
   [Plain EXCEPT !.refinement = TRUE, !.confidenceV2 = TRUE, !.blend = TRUE, !.previous = TRUE,
                 !.offered = {"refined"}],
   [Plain EXCEPT !.guard = "aggressive", !.scatter = TRUE, !.offered = {"intermediate_scatter"}],
   [Plain EXCEPT !.guard = "off", !.blend = TRUE, !.previous = TRUE, !.matched = {"inpaint"}],
   [Build EXCEPT !.native = TRUE, !.fixes = TRUE, !.matched = {}],
   [Plain EXCEPT !.guard = "off", !.previous = TRUE, !.framework = FALSE, !.supported = FALSE]}
MCOrder == [inpaint |-> 1, motion |-> 2, decision |-> 3]
MCHome  == [motion |-> "f1", inpaint |-> "f1", decision |-> "f2",
            temporal |-> "f3", blend |-> "f4", previous |-> "f5"]

MCPlans == {[signature |-> 1, compare |-> 1, ui |-> FALSE],
            [signature |-> 2, compare |-> 1, ui |-> TRUE],
            [signature |-> 3, compare |-> 2, ui |-> TRUE]}

\* A batch of inputs, a broken-off one of the UI alone, and one that clears.
MCTagBatches ==
  {[gives |-> {"hudless", "ui"}, clears |-> {}, output |-> 0, size |-> 1, broken |-> FALSE, frame |-> 1],
   [gives |-> {"ui"}, clears |-> {}, output |-> 1, size |-> 1, broken |-> FALSE, frame |-> 0],
   [gives |-> {}, clears |-> {"hudless"}, output |-> 2, size |-> 2, broken |-> FALSE, frame |-> 2]}

Saved(old, xmx, preset, top, safe) ==
  [old |-> old, xmx |-> xmx, preset |-> preset, ceiling |-> top, safe |-> safe]
MCStarts == {Saved(TRUE, TRUE, FALSE, TRUE, FALSE), Saved(FALSE, FALSE, TRUE, FALSE, FALSE),
             Saved(FALSE, TRUE, TRUE, FALSE, FALSE), Saved(TRUE, TRUE, TRUE, TRUE, TRUE)}
MCFaults == {{}, {"support", "load", "arch", "drs"},
             {"create", "evaluate", "requirements", "streamline"}}

MCBatches == {{"depth", "motion"}, {"hud"}}
=============================================================================
