------------------------------ MODULE Components ------------------------------
(***************************************************************************)
(* The components that share no state with one another, each on an         *)
(* instance of its own.  A behaviour chooses one of them and stays with    *)
(* it, so the states are those of the components added up, not multiplied. *)
(***************************************************************************)
EXTENDS Integers

CONSTANTS
  \* ProviderMaintenance
  Providers, Game, Noticed, Profiled, Passes, QuietPasses,
  \* CudaTemporal
  Multipliers, Sizes, Functions,
  \* KernelPatches
  Settings, Descriptors, Order, Home,
  \* StateEvidence, QualityGuard
  Samplers, Epochs, Plans,
  Senders, MaxResets, TagBatches,
  \* AddonHooks, SessionFiles
  Starts, Faults, MaxCopies,
  Pids, MaxProcesses, SessionCopies, Offer,
  \* XeFGContexts
  Handles, MaxContexts, ContextCounts,
  \* XeMfgWaits, XeMfgOutput
  MaxWaitId, Capacity, RetainedFrames, Boundary, MaxCalls,
  Callers, Windows, MaxOutputs, MaxInits, Continuity,
  \* XeMfgInputs
  Viewports, MaxInputId, MaxSent, MaxEpoch, Batches, Quiet, Outcomes, Slips,
  \* SyntheticFrames
  GameThreads, Recorders, Depth, Evidence, MaxFrameId, SyntheticOutputs

VARIABLES
  part,  \* the component of this behaviour
  \* ProviderMaintenance
  loaded, lease, hasher, inspected, known, gate, temporal, thin, hook, resident, ceiling,
  maint, streamline, loaderLock, rescan, pass, quiet, at, todo,
  \* CudaTemporal
  mode, inpaintMode, installed, state, dispatch, effective, asked,
  \* KernelPatches
  settings, image, leads, copies, kernelAt, left, inPlace, redirected, held, result, rejected, thinKept,
  \* StateEvidence, QualityGuard
  options, observing, validation, evidence, sampling, estimate, announcing, overtaken,
  described, resets, reached, constants, quality, hud,
  \* AddonHooks, SessionFiles
  start, copy, guest, hooks, failing, hints,
  marker, request, ini, staged, process, sessionCopy, unseen, adopted,
  \* XeFGContexts
  startup, model, live, on, contexts, native, paced, opening, owning, user,
  \* XeMfgWaits, XeMfgOutput
  frame, waiting, lastWait, unslept, last, presenting, closed, call, xell, calls,
  out, tried, output, leased, unconfirmed, retained, sdkLock, creation, plugin, sl,
  \* XeMfgInputs
  seen, chosen, wanted, nativeOff, epoch, gone, windowed, packet, now, previous, enabled, entered,
  sdk, sent,
  \* SyntheticFrames
  queue, synLive, made, owned, ownerName, active, requested, synStreamline, synContexts,
  ffxRequested, features, evaluation, inPresent, slept, shown

----------------------------------------------------------------------------
(* The instances.                                                          *)

Provider == INSTANCE ProviderMaintenance WITH Quiet <- QuietPasses

Cuda == INSTANCE CudaTemporal

Kernels == INSTANCE KernelPatches WITH at <- kernelAt

States == INSTANCE StateEvidence

Guard == INSTANCE QualityGuard

Hooks == INSTANCE AddonHooks

Session == INSTANCE SessionFiles WITH copy <- sessionCopy, MaxCopies <- SessionCopies

XeFG == INSTANCE XeFGContexts WITH Counts <- ContextCounts

Waits == INSTANCE XeMfgWaits WITH MaxId <- MaxWaitId, Retained <- RetainedFrames

Bridge == INSTANCE XeMfgOutput

Inputs == INSTANCE XeMfgInputs WITH MaxId <- MaxInputId

Synthetic == INSTANCE SyntheticFrames
  WITH live <- synLive, streamline <- synStreamline, contexts <- synContexts,
       MaxId <- MaxFrameId, MaxOutputs <- SyntheticOutputs, Threads <- GameThreads

(* An estimate that is asked for differs from none.                        *)
ASSUME PlansAreEstimates == States!PlansAreEstimates

(* What the sizes of the instances have to be.                             *)
ASSUME WaitsAssumption == MaxWaitId \in Nat /\ Capacity \in Nat /\ Boundary \in Nat /\ MaxCalls \in Nat
ASSUME OutputAssumption == Bridge!NoOne \notin Callers /\ MaxOutputs \in Nat /\ MaxInits \in Nat
ASSUME CudaAssumption == Multipliers \subseteq 2..6 /\ Sizes \subseteq Nat /\ 1 \in Functions
ASSUME HooksAssumption ==
  /\ Starts \subseteq [old : BOOLEAN, xmx : BOOLEAN, preset : BOOLEAN, ceiling : BOOLEAN, safe : BOOLEAN]
  /\ MaxCopies \in Nat
ASSUME SessionAssumption == Pids \subseteq Nat \ {0} /\ MaxProcesses \in Nat
ASSUME ProviderAssumption ==
  /\ Game \subseteq Providers /\ Providers \cap ({Provider!NoOne} \cup Provider!Actors) = {}
  /\ Passes \in Nat /\ QuietPasses \in Nat \ {0}
ASSUME InputsAssumption ==
  MaxInputId \in Nat /\ MaxSent \in Nat /\ MaxEpoch \in Nat /\ Batches \subseteq (SUBSET Inputs!Kinds) \ {{}}
ASSUME SyntheticAssumption ==
  /\ Depth \in Nat \ {0} /\ Evidence \in Nat \ {0} /\ MaxFrameId \in Nat /\ SyntheticOutputs \in Nat
  /\ \A t, u \in Recorders : t = u
ASSUME KernelsAssumption ==
  /\ \A s \in Settings : s.matched \subseteq Kernels!Cubins /\ "blackwell" \notin s.oversized
  /\ Order \in [Kernels!Cubins -> Nat]
  /\ \A k, l \in Kernels!Cubins : k # l /\ Home[k] = Home[l] /\ Order[k] <= Order[l] => k = "inpaint"
  /\ \A k \in {"blend", "previous"}, l \in Kernels!Kernels : Home[k] = Home[l] => k = l
ASSUME GuardAssumption == MaxResets \in Nat /\ Guard!BatchesTyped

----------------------------------------------------------------------------
Parts == {"provider", "cuda", "kernels", "evidence", "guard", "hooks", "session",
          "xefg", "waits", "output", "inputs", "synthetic"}

\* The variables of a component that is not chosen are 0.
NoProvider ==
  /\ loaded = 0 /\ lease = 0 /\ hasher = 0 /\ inspected = 0 /\ known = 0 /\ gate = 0
  /\ temporal = 0 /\ thin = 0 /\ hook = 0 /\ resident = 0 /\ ceiling = 0 /\ maint = 0
  /\ streamline = 0 /\ loaderLock = 0 /\ rescan = 0 /\ pass = 0 /\ quiet = 0 /\ at = 0
  /\ todo = 0
NoCuda ==
  /\ mode = 0 /\ inpaintMode = 0 /\ installed = 0 /\ state = 0 /\ dispatch = 0 /\ effective = 0
  /\ asked = 0
NoKernels ==
  /\ settings = 0 /\ image = 0 /\ leads = 0 /\ copies = 0 /\ kernelAt = 0 /\ left = 0
  /\ inPlace = 0 /\ redirected = 0 /\ held = 0 /\ result = 0 /\ rejected = 0 /\ thinKept = 0
NoStates ==
  /\ options = 0 /\ observing = 0 /\ validation = 0 /\ evidence = 0 /\ sampling = 0
  /\ estimate = 0 /\ announcing = 0 /\ overtaken = 0
NoGuard ==
  /\ described = 0 /\ resets = 0 /\ reached = 0 /\ constants = 0 /\ quality = 0 /\ hud = 0
NoHooks ==
  /\ start = 0 /\ copy = 0 /\ guest = 0 /\ hooks = 0 /\ failing = 0 /\ hints = 0
NoSession ==
  /\ marker = 0 /\ request = 0 /\ ini = 0 /\ staged = 0 /\ process = 0 /\ sessionCopy = 0
  /\ unseen = 0 /\ adopted = 0
NoXeFG ==
  /\ startup = 0 /\ model = 0 /\ live = 0 /\ on = 0 /\ contexts = 0 /\ native = 0 /\ paced = 0
  /\ opening = 0 /\ owning = 0 /\ user = 0
NoWaits ==
  /\ frame = 0 /\ waiting = 0 /\ lastWait = 0 /\ unslept = 0 /\ last = 0 /\ presenting = 0
  /\ closed = 0 /\ call = 0 /\ xell = 0 /\ calls = 0
NoBridge ==
  /\ out = 0 /\ tried = 0 /\ output = 0 /\ leased = 0 /\ unconfirmed = 0 /\ retained = 0
  /\ sdkLock = 0 /\ creation = 0 /\ plugin = 0 /\ sl = 0
NoInputs ==
  /\ seen = 0 /\ chosen = 0 /\ wanted = 0 /\ nativeOff = 0 /\ epoch = 0 /\ gone = 0
  /\ windowed = 0 /\ packet = 0 /\ now = 0 /\ previous = 0 /\ enabled = 0 /\ entered = 0
  /\ sdk = 0 /\ sent = 0
NoSynthetic ==
  /\ queue = 0 /\ synLive = 0 /\ made = 0 /\ owned = 0 /\ ownerName = 0 /\ active = 0
  /\ requested = 0 /\ synStreamline = 0 /\ synContexts = 0 /\ ffxRequested = 0 /\ features = 0
  /\ evaluation = 0 /\ inPresent = 0 /\ slept = 0 /\ shown = 0

Init ==
  /\ part \in Parts
  /\ IF part = "provider" THEN Provider!Init ELSE NoProvider
  /\ IF part = "cuda" THEN Cuda!Init ELSE NoCuda
  /\ IF part = "kernels" THEN Kernels!Init ELSE NoKernels
  /\ IF part = "evidence" THEN States!Init ELSE NoStates
  /\ IF part = "guard" THEN Guard!Init ELSE NoGuard
  /\ IF part = "hooks" THEN Hooks!Init ELSE NoHooks
  /\ IF part = "session" THEN Session!Init ELSE NoSession
  /\ IF part = "xefg" THEN XeFG!Init ELSE NoXeFG
  /\ IF part = "waits" THEN Waits!Init ELSE NoWaits
  /\ IF part = "output" THEN Bridge!Init ELSE NoBridge
  /\ IF part = "inputs" THEN Inputs!Init ELSE NoInputs
  /\ IF part = "synthetic" THEN Synthetic!Init ELSE NoSynthetic

provider  == <<loaded, lease, hasher, inspected, known, gate, temporal, thin, hook, resident, ceiling,
               maint, streamline, loaderLock, rescan, pass, quiet, at, todo>>
cuda      == <<mode, inpaintMode, installed, state, dispatch, effective, asked>>
kernels   == <<settings, image, leads, copies, kernelAt, left, inPlace, redirected, held, result,
               rejected, thinKept>>
samples   == <<options, observing, validation, evidence, sampling, estimate, announcing, overtaken>>
guarding  == <<described, resets, reached, constants, quality, hud>>
addon     == <<start, copy, guest, hooks, failing, hints>>
session   == <<marker, request, ini, staged, process, sessionCopy, unseen, adopted>>
xefg      == <<startup, model, live, on, contexts, native, paced, opening, owning, user>>
waits     == <<frame, waiting, lastWait, unslept, last, presenting, closed, call, xell, calls>>
bridge    == <<out, tried, output, leased, unconfirmed, retained, sdkLock, creation, plugin, sl>>
inputs    == <<seen, chosen, wanted, nativeOff, epoch, gone, windowed, packet, now, previous, enabled,
               entered, sdk, sent>>
synthetic == <<queue, synLive, made, owned, ownerName, active, requested, synStreamline, synContexts,
               ffxRequested, features, evaluation, inPresent, slept, shown>>
dlssg == <<cuda, kernels, samples, guarding>>
files == <<addon, session>>
xemfg == <<xefg, waits, bridge, inputs, synthetic>>
vars  == <<part, provider, dlssg, files, xemfg>>

Next ==
  /\ UNCHANGED part
  /\ \/ part = "provider" /\ Provider!Next /\ UNCHANGED <<dlssg, files, xemfg>>
     \/ part = "cuda" /\ Cuda!Next
        /\ UNCHANGED <<provider, kernels, samples, guarding, files, xemfg>>
     \/ part = "kernels" /\ Kernels!Next
        /\ UNCHANGED <<provider, cuda, samples, guarding, files, xemfg>>
     \/ part = "evidence" /\ States!Next
        /\ UNCHANGED <<provider, cuda, kernels, guarding, files, xemfg>>
     \/ part = "guard" /\ Guard!Next
        /\ UNCHANGED <<provider, cuda, kernels, samples, files, xemfg>>
     \/ part = "hooks" /\ Hooks!Next /\ UNCHANGED <<provider, dlssg, session, xemfg>>
     \/ part = "session" /\ Session!Next /\ UNCHANGED <<provider, dlssg, addon, xemfg>>
     \/ part = "xefg" /\ XeFG!Next
        /\ UNCHANGED <<provider, dlssg, files, waits, bridge, inputs, synthetic>>
     \/ part = "waits" /\ Waits!Next
        /\ UNCHANGED <<provider, dlssg, files, xefg, bridge, inputs, synthetic>>
     \/ part = "output" /\ Bridge!Next
        /\ UNCHANGED <<provider, dlssg, files, xefg, waits, inputs, synthetic>>
     \/ part = "inputs" /\ Inputs!Next
        /\ UNCHANGED <<provider, dlssg, files, xefg, waits, bridge, synthetic>>
     \/ part = "synthetic" /\ Synthetic!Next
        /\ UNCHANGED <<provider, dlssg, files, xefg, waits, bridge, inputs>>

Spec == Init /\ [][Next]_vars

----------------------------------------------------------------------------
(* Every component's state has its type.                                   *)
TypeOK ==
  /\ part \in Parts
  /\ CASE part = "provider" -> Provider!TypeOK [] part = "cuda" -> Cuda!TypeOK
       [] part = "kernels" -> Kernels!TypeOK [] part = "evidence" -> States!TypeOK
       [] part = "guard" -> Guard!TypeOK [] part = "hooks" -> Hooks!TypeOK
       [] part = "session" -> Session!TypeOK [] part = "xefg" -> XeFG!TypeOK
       [] part = "waits" -> Waits!TypeOK [] part = "output" -> Bridge!TypeOK
       [] part = "inputs" -> Inputs!TypeOK [] part = "synthetic" -> Synthetic!TypeOK

(* A provider that was patched or hooked stays mapped (addon_provider.inl). *)
ChangedStaysMapped == part = "provider" => Provider!ChangedStaysMapped

(* A load of the game under the loader's lock can always go on, or a       *)
(* thread it waits for can (addon_discovery.inl, addon_streamline.inl).    *)
LoadNeverStuck == part = "provider" => Provider!LoadNeverStuck

(* The thread that a thread waits for waits for nobody, so no two of those *)
(* that look for providers wait for one another (addon_provider.inl).      *)
WaitsEnd == part = "provider" => Provider!WaitsEnd

(* The history the GPU is told of lies in its arena (cuda_temporal.hpp).   *)
HistoryInArena == part = "cuda" => Cuda!HistoryInArena

(* A kernel reported as applied is in effect, and what was changed is on   *)
(* record (blackwell.hpp, midpoint.hpp, thin_geometry.hpp).                *)
ReportedInEffect == part = "kernels" => Kernels!ReportedInEffect

(* A pending VRAM estimate is owed by somebody, unless it was overtaken    *)
(* before it was called so (framecount.hpp).                               *)
PendingIsOwed == part = "evidence" => States!PendingIsOwed

(* A temporal reset counts as applied only when Streamline accepted        *)
(* constants that carry it (framecount.hpp).                               *)
ResetReachesHistory == part = "guard" => Guard!ResetReachesHistory

(* A call through a hook ends in the original function, also after the     *)
(* addon was loaded twice (ngx_hook.hpp, addon.cpp).                       *)
TrampolinesEnd == part = "hooks" => Hooks!TrampolinesEnd

(* A jump into the addon leads into a copy that stays (addon_provider.inl). *)
OnlyResidentHooks == part = "hooks" => Hooks!OnlyResidentHooks

(* Safe mode is offered only for sessions that ended unseen, and lasts for *)
(* the process that started in it (support_files.hpp).                     *)
SafeModeEarned == part = "session" => Session!SafeModeEarned

(* A context with the model generates only while it is paced               *)
(* (xemfg/backend.cpp).                                                    *)
ModelIsPaced == part = "xefg" => XeFG!ModelIsPaced

(* XeLL is asked for the frames it expects, one at a time, and has of a    *)
(* frame only what follows its wait (xemfg/native_latency.cpp).            *)
WaitsThenMarkers == part = "waits" => Waits!WaitsThenMarkers

(* Intel's frame generation is created and initialized alone, and XeLL     *)
(* outlives it (xemfg/native_swapchain.cpp).                               *)
SdkAlone == part = "output" => Bridge!SdkAlone

(* Streamline's generator, once unloaded, is not loaded again beside an    *)
(* output (xemfg/native_streamline.cpp).                                   *)
NotReloadedBeside == [][part = "output" => Bridge!StaysUnloaded]_vars

(* A frame is generated from inputs of the present epoch that the game has *)
(* not taken back (xemfg/native_frame_packet.cpp).                         *)
GeneratedFromCurrent == [][part = "inputs" => Inputs!GeneratesFromCurrent]_vars

(* Synthesized frames are slept for and shown in order                     *)
(* (xemfg/native_synthetic.cpp).                                           *)
FramesInOrder == part = "synthetic" => Synthetic!FramesInOrder
=============================================================================
