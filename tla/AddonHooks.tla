------------------------------- MODULE AddonHooks -------------------------------
(***************************************************************************)
(* The hooks the add-on puts on functions of other modules, over the life  *)
(* of the copies of it that ReShade loads (addon.cpp): who installs what,  *)
(* when, and what an unload leaves behind.  Every transaction of Detours   *)
(* may fail, the one that takes hooks back too (ngx_hook.hpp).  The next   *)
(* copy is mapped at the same address, so a jump left behind leads into    *)
(* its code, with its own trampolines.  Until a copy is pinned, ReShade    *)
(* may unload it; the first Present and DLSS-G being turned on pin it.     *)
(*                                                                         *)
(* The hooks are: the NGX preset hook "create" (addon_provider.inl), the   *)
(* admission of older GPUs "support", "requirements" and "arch"            *)
(* (preada_admission.hpp), the driver setting "drs" (drs_override.hpp),    *)
(* XMX's "evaluate" (xmx_hook.hpp), "load" (loadhook.hpp) and the          *)
(* interposer's "streamline" (framecount.hpp).                             *)
(***************************************************************************)
EXTENDS Naturals, FiniteSets

CONSTANTS
  Starts,     \* what a copy may read at its start: see LoadConfig
  Faults,     \* sets of hooks whose transactions fail together
  MaxCopies   \* bound: copies loaded

Host == [create |-> "ngx", requirements |-> "ngx", support |-> "interposer", streamline |-> "interposer",
         arch |-> "nvapi", drs |-> "nvapi", evaluate |-> "provider", load |-> "kernel"]
Entries == DOMAIN Host
Guests  == {"ngx", "interposer", "provider"}

VARIABLES
  start,    \* the saved settings, the GPU, and safe mode
  copy,     \* the loaded copy of the add-on
  guest,    \* the modules mapped
  hooks,    \* per function: its first bytes, and the copy's g_real_ pointer
  failing,  \* the hooks whose next transactions fail
  hints     \* the preset hints of a parameter block, and whether the game's are saved

vars == <<start, copy, guest, hooks, failing, hints>>

Clean  == [code |-> "own", real |-> "null"]
NoCopy == [loaded |-> FALSE, serial |-> 0, xmx |-> FALSE, preset |-> FALSE, ceiling |-> FALSE, presented |-> FALSE,
           resident |-> FALSE, once |-> {}, slot |-> "none", initHook |-> FALSE, told |-> "nothing"]

Init ==
  /\ start \in Starts
  /\ copy = NoCopy /\ guest = {"kernel"}
  /\ hooks = [e \in Entries |-> Clean]
  /\ failing = {}
  /\ hints = [value |-> "game", saved |-> FALSE]

----------------------------------------------------------------------------
(* Detours, one hook at a time.                                            *)

\* Wrong: misses the jumps an unloaded copy left.
NeverJumps(h) == FALSE

\* The function's first bytes lead into the add-on's image.
JumpsIntoSelf(h) == h.code = "jump"

\* What a trampoline made of these bytes runs.
Trampoline(h) == IF h.code = "jump" THEN "detour" ELSE "function"

Attached(h) == [code |-> "jump", real |-> Trampoline(h)]

\* All of a module's hooks, or none; never over a hook of its own, living or left.
Install(h, ok) ==
  IF h.real # "null" \/ JumpsIntoSelf(h) \/ ~ok THEN h ELSE Attached(h)

\* InstallOne on a pointer already resolved, which a failure leaves in place.
InstallOne(h, ok) ==
  IF JumpsIntoSelf(h) \/ ~ok THEN [h EXCEPT !.real = Trampoline(h)] ELSE Attached(h)

\* The same for a provider's slot, whose failure clears the pointer.
InstallSlot(h, ok) == IF JumpsIntoSelf(h) \/ ~ok THEN h ELSE Attached(h)

Installed(h) == h = [code |-> "jump", real |-> "function"]

Uninstall(h, ok) == IF Installed(h) /\ ok THEN Clean ELSE h

Batch(hs, es) == [e \in Entries |-> IF e \in es THEN Install(hs[e], e \notin failing) ELSE hs[e]]

----------------------------------------------------------------------------
(* Who wants which hook.                                                   *)

Engaged(c) == start.old /\ c.xmx

\* The preset hook as 1.8.2 installed it, by any copy.
AnyCopy(c) == TRUE

\* Pinned already, or a real Present was seen, which pins as well.
EnsureResident(c) == c.resident \/ c.presented

PresetHookWanted(c) == c.preset \/ Engaged(c)

TryInstallPresetHook(c) ==
  IF PresetHookWanted(c) /\ EnsureResident(c) /\ "ngx" \in guest THEN {"create"} ELSE {}

TryInstallStreamline(c)   == IF Engaged(c) /\ "interposer" \in guest THEN {"support"} ELSE {}
TryInstallRequirements(c) == IF Engaged(c) /\ "ngx" \in guest THEN {"requirements"} ELSE {}

\* framecount::TryInstall; slInit only when something is to be done around it.
TryInstallInterposer == IF "interposer" \in guest THEN {"streamline"} ELSE {}

InitHookWanted(c) == Engaged(c) \/ c.ceiling

\* EnsureArchHook loads NVAPI; drsoverride::TryInstall only where it may.
Once(c, e) == IF e \in c.once THEN {} ELSE {e}
Drs(c, mayLoad) == IF c.ceiling /\ (mayLoad \/ "nvapi" \in guest) THEN Once(c, "drs") ELSE {}
Arch(c) == IF Engaged(c) THEN Once(c, "arch") ELSE {}

\* Installs the interposer's and NGX's hooks es and NVAPI's hooks ones.
Apply(c, es, ones) ==
  LET after == Batch(hooks, es)
  IN /\ hooks' = [e \in Entries |-> IF e \in ones THEN InstallOne(after[e], e \notin failing) ELSE after[e]]
     /\ guest' = IF ones = {} THEN guest ELSE guest \cup {"nvapi"}
     /\ copy' = [c EXCEPT !.once = @ \cup ones,
                          !.initHook = @ \/ (hooks["streamline"].real = "null" /\ "streamline" \in es
                                              /\ Installed(after["streamline"]) /\ InitHookWanted(c))]

\* xmx::Attach: a copy that may be unloaded only remembers the provider.
AttachXmx(c) ==
  IF "provider" \in guest /\ c.xmx /\ c.slot = "none"
  THEN [c EXCEPT !.slot = IF c.resident THEN "queued" ELSE "pending"] ELSE c

\* RunProviderMaintenance, as far as it hooks.
Maintenance(c) == TryInstallPresetHook(c) \cup TryInstallStreamline(c) \cup TryInstallRequirements(c)

----------------------------------------------------------------------------
(* The copies: DllMain, ReShade's events.                                  *)

LoadConfig ==
  [NoCopy EXCEPT !.loaded = TRUE, !.serial = copy.serial + 1, !.xmx = start.xmx /\ ~start.safe,
                 !.preset = start.preset /\ ~start.safe, !.ceiling = start.ceiling /\ ~start.safe]

DllMain ==
  /\ ~copy.loaded /\ copy.serial < MaxCopies
  /\ LET c == AttachXmx(LoadConfig)
     IN Apply(c, {"load"} \cup Maintenance(c) \cup TryInstallInterposer, Drs(c, FALSE))
  /\ UNCHANGED <<start, failing, hints>>

\* OnInitDevice, OnInitCommandQueue and the discovery worker's passes.
RunCreationMaintenance ==
  /\ copy.loaded
  /\ LET c == AttachXmx(copy) IN Apply(c, {"load"} \cup Maintenance(c) \cup TryInstallInterposer, Drs(c, TRUE))
  /\ UNCHANGED <<start, failing, hints>>

\* The game maps a module. The load hook tells the add-on, once it is in.
Notify ==
  /\ \E g \in Guests \ guest :
       /\ guest' = guest \cup {g}
       /\ IF copy.loaded /\ Installed(hooks["load"])
          THEN LET told == CASE g = "interposer" ->
                                  {"streamline"} \cup (IF Engaged(copy) THEN {"support"} ELSE {})
                             [] g = "ngx" ->
                                  (IF PresetHookWanted(copy) /\ EnsureResident(copy) THEN {"create"} ELSE {})
                                    \cup (IF Engaged(copy) THEN {"requirements"} ELSE {})
                             [] g = "provider" -> {}
                   after == Batch(hooks, told)
               IN /\ hooks' = after
                  /\ copy' = [copy EXCEPT
                       !.slot = IF g = "provider" /\ copy.xmx /\ @ = "none"
                                THEN IF copy.resident THEN "queued" ELSE "pending" ELSE @,
                       !.initHook = @ \/ ("streamline" \in told /\ Installed(after["streamline"])
                                           /\ InitHookWanted(copy))]
          ELSE UNCHANGED <<hooks, copy>>
  /\ UNCHANGED <<start, failing, hints>>

\* The first real Present pins the add-on and lets XMX install; every Present
\* tries the preset hook again.
OnPresent ==
  /\ copy.loaded
  /\ LET c == [copy EXCEPT !.presented = TRUE, !.resident = TRUE,
                           !.slot = IF @ = "pending" THEN "queued" ELSE @]
     IN Apply(c, TryInstallPresetHook(c), {})
  /\ UNCHANGED <<start, failing, hints>>

\* The game turns DLSS-G on: the add-on is pinned first, and XMX's hook is in
\* place, or has failed, before Streamline creates frame generation.
BeforeFrameGeneration ==
  /\ copy.loaded /\ copy.xmx /\ Installed(hooks["streamline"])
  /\ copy' = [copy EXCEPT !.resident = TRUE, !.slot = IF @ = "pending" THEN "done" ELSE @]
  /\ hooks' = IF copy.slot = "pending"
              THEN [hooks EXCEPT !["evaluate"] = InstallSlot(@, "evaluate" \notin failing)] ELSE hooks
  /\ UNCHANGED <<start, guest, failing, hints>>

\* The short-lived thread of InstallInThread.
InstallInThread ==
  /\ copy.slot = "queued"
  /\ hooks' = [hooks EXCEPT !["evaluate"] = InstallSlot(@, "evaluate" \notin failing)]
  /\ copy' = [copy EXCEPT !.slot = "done"]
  /\ UNCHANGED <<start, guest, failing, hints>>

\* ReShade unloads a copy that nothing pinned. A hook that cannot be taken back
\* stays on its function; the copy's pointers go with it.
Detach ==
  /\ copy.loaded /\ ~copy.resident
  /\ hooks' = [e \in Entries |-> [Uninstall(hooks[e], e \notin failing) EXCEPT !.real = "null"]]
  /\ copy' = [NoCopy EXCEPT !.serial = copy.serial]
  /\ UNCHANGED <<start, guest, failing, hints>>

\* A thread that starts or may not be opened makes transactions fail for a while.
Disturb == failing' \in Faults /\ failing' # failing /\ UNCHANGED <<start, copy, guest, hooks, hints>>

----------------------------------------------------------------------------
(* The game's calls through the hooks.                                     *)

\* slInit inside the admission scope (preada InitScope, drs_override).
InitScope ==
  /\ copy.loaded /\ copy.initHook
  /\ Apply(copy, {}, Drs(copy, TRUE) \cup Arch(copy))
  /\ UNCHANGED <<start, failing, hints>>

\* slIsFeatureSupported: an adapter Streamline refuses is asked about again with
\* NVAPI answering Ada, and admitted; any other refusal stands.
HookedIsFeatureSupported ==
  /\ copy.loaded /\ Engaged(copy) /\ Installed(hooks["support"])
  /\ \E native \in {"ok", "adapter", "driver"} :
       LET c == [copy EXCEPT !.told = IF native = "adapter" THEN "ok" ELSE native]
       IN Apply(c, {}, IF native = "adapter" THEN Arch(c) ELSE {})
  /\ UNCHANGED <<start, failing, hints>>

\* GetFeatureRequirements: always asked with NVAPI answering Ada; only the
\* adapter's bit is cleared, and a driver's refusal stays beside it.
HookedRequirements ==
  /\ copy.loaded /\ Engaged(copy) /\ Installed(hooks["requirements"])
  /\ \E bits \in SUBSET {"adapter", "driver"} :
       LET c == [copy EXCEPT !.told = IF bits \ {"adapter"} = {} THEN "ok" ELSE "driver"] IN Apply(c, {}, Arch(c))
  /\ UNCHANGED <<start, failing, hints>>

\* NGX CreateFeature of DLSS: the selected preset goes in as a hint, and the
\* game's own comes back when the selection ends.
HookedCreateFeature ==
  /\ copy.loaded /\ Installed(hooks["create"])
  /\ hints' = CASE copy.preset -> [value |-> "selected", saved |-> TRUE]
                [] ~copy.preset /\ hints.saved -> [value |-> "game", saved |-> FALSE]
                [] OTHER -> hints
  /\ UNCHANGED <<start, copy, guest, hooks, failing>>

\* The panel's selectors, drawn by a Present.
SelectPreset ==
  /\ copy.loaded /\ copy.presented
  /\ LET c == [copy EXCEPT !.preset = ~@] IN Apply(c, TryInstallPresetHook(c), {})
  /\ UNCHANGED <<start, failing, hints>>

Next ==
  \/ DllMain \/ RunCreationMaintenance \/ Notify \/ OnPresent \/ BeforeFrameGeneration
  \/ InstallInThread \/ Detach \/ Disturb
  \/ InitScope \/ HookedIsFeatureSupported \/ HookedRequirements \/ HookedCreateFeature \/ SelectPreset

Spec == Init /\ [][Next]_vars

TypeOK ==
  /\ copy.serial \in 0..MaxCopies /\ copy.once \subseteq {"arch", "drs"}
  /\ copy.told \in {"nothing", "ok", "driver"} /\ copy.slot \in {"none", "pending", "queued", "done"}
  /\ hooks \in [Entries -> [code : {"own", "jump"}, real : {"null", "function", "detour"}]]
  /\ hints.value = "selected" => hints.saved

\* NVAPI's two hooks keep the pointer a refused InstallOne was given, so they
\* are left out of the next property.
Cleared == Entries \ {"arch", "drs"}

\* No function the game calls runs a detour that calls itself: a hook left by
\* an unloaded copy is never hooked over, so a trampoline leads to the function
\* (ngx_hook.hpp JumpsIntoSelf, Install).
TrampolinesEnd == copy.loaded => \A e \in Cleared : hooks[e].code = "jump" => hooks[e].real # "detour"

\* The hooks that cannot be undone, the preset's and XMX's, are never on a
\* function while the copy they jump into can be unloaded or is gone
\* (addon.cpp EnsureResident, addon_provider.inl TryInstallPresetHook).
OnlyResidentHooks == \A e \in {"create", "evaluate"} : hooks[e].code = "jump" => copy.loaded /\ copy.resident

=============================================================================
