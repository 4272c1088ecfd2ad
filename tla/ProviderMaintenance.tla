-------------------------- MODULE ProviderMaintenance --------------------------
(***************************************************************************)
(* How a DLSS-G provider is found, identified, leased, patched and hooked  *)
(* (addon_provider.inl, addon_discovery.inl, addon_streamline.inl,         *)
(* module_session.hpp, xmx_hook.hpp, loadhook.hpp).                        *)
(*                                                                         *)
(* Five threads meet: the bounded discovery worker, the thread in which    *)
(* the game maps a provider, the one in which it maps Streamline's plugin, *)
(* the short-lived threads that install the XMX hook, and the panel.  They *)
(* share the maintenance locks and the lock of the module sessions, which  *)
(* is held as long as the code of a module is hashed and which no one      *)
(* waits for: contention makes Acquire fail.                               *)
(*                                                                         *)
(* A provider is where it is mapped; an address may be unmapped and mapped *)
(* again until a lease or a pin retains it.                                *)
(***************************************************************************)
EXTENDS Naturals, FiniteSets

CONSTANTS
  Providers,  \* where a provider may be mapped
  Game,       \* those found by their name, nvngx_dlssg.dll
  Noticed,    \* those whose path tells the loader's notification what they are
  Profiled,   \* those with an exact or generic profile
  Passes,     \* kDiscoveryRetryLimit, 40 in the code
  Quiet       \* quiet passes before the worker stops, 4 in the code

Plugin == "sl.dlss_g"
Images == Providers \cup {Plugin}
NoOne  == "no one"
Actors == {"worker", "loader", "plugin"}
Stages == {"remember", "gates", "temporal", "thin"}

VARIABLES
  loaded,    \* what is mapped
  lease,     \* modulesession::sessions, with what the identity was hashed from
  hasher,    \* who holds the lock of the sessions, hashing
  inspected, known,  \* g_inspected_modules, g_dlssg_modules
  gate, temporal, thin,  \* what was done to a provider
  hook,      \* the XMX hook of a provider
  resident,  \* the addon is pinned
  ceiling,   \* g_ceiling_patched
  maint, streamline, loaderLock,  \* who holds them
  rescan, pass, quiet,   \* g_provider_rescan_requested and the worker's locals
  at, todo   \* where a thread is, and the modules its stage has left

sessions == <<lease, hasher>>
lists    == <<inspected, known>>
patches  == <<gate, temporal, thin>>
locks    == <<maint, streamline, loaderLock>>
pacing   == <<rescan, pass, quiet>>
vars == <<loaded, sessions, lists, patches, hook, resident, ceiling, locks, pacing, at, todo>>

Labels == {"away", "finished", "sleep", "lock", "find", "hash", "unlock", "attach",
           "streamline", "ceiling", "leave", "check", "looking"} \cup Stages

TypeOK ==
  /\ loaded \subseteq Images /\ inspected \subseteq Providers /\ known \subseteq Providers
  /\ lease \in [Images -> {"none", "failed", "original", "hooked"}]
  /\ hasher \in {NoOne} \cup Actors \cup Providers
  /\ gate \in [Providers -> {"none", "patched", "refused", "contended", "unrecorded"}]
  /\ temporal \in [Providers -> {"none", "kernels", "midpoint", "rejected"}]
  /\ thin \subseteq Providers
  /\ hook \in [Providers -> {"none", "queued", "waiting", "installing", "failed",
                             "hooked", "unrecorded", "recorded"}]
  /\ resident \in BOOLEAN /\ ceiling \in BOOLEAN
  /\ maint \in {NoOne, "panel"} \cup Actors /\ streamline \in {NoOne} \cup Actors
  /\ loaderLock \in {NoOne} \cup Actors
  /\ rescan \in BOOLEAN /\ pass \in 0..Passes /\ quiet \in 0..Quiet
  /\ at \in [Actors -> Labels] /\ todo \in [Actors -> SUBSET Images]

Init ==
  /\ loaded \in SUBSET Images /\ inspected = {} /\ known = {}
  /\ lease = [m \in Images |-> "none"] /\ hasher = NoOne
  /\ gate = [p \in Providers |-> "none"] /\ temporal = [p \in Providers |-> "none"]
  /\ thin = {} /\ hook = [p \in Providers |-> "none"]
  /\ resident = FALSE /\ ceiling = FALSE
  /\ maint = NoOne /\ streamline = NoOne /\ loaderLock = NoOne
  /\ rescan = FALSE /\ pass = 0 /\ quiet = 0
  /\ at = [a \in Actors |-> "away"] /\ todo = [a \in Actors |-> {}]

Goto(a, label) == at' = [at EXCEPT ![a] = label]
Done(a, m)     == todo' = [todo EXCEPT ![a] = @ \ {m}]
Begin(a, label, modules) == Goto(a, label) /\ todo' = [todo EXCEPT ![a] = modules]

----------------------------------------------------------------------------
(* Whom a thread waits for.  The worker waits for a lock; the threads that *)
(* map a module take theirs if they are free, and go on without otherwise. *)

(* Wrong: the notification waits for the maintenance, as the worker does.  *)
AwaitedByLoader(a) ==
  (CASE a = "worker" /\ at[a] = "find" -> {loaderLock}
     [] a # "plugin" /\ at[a] = "lock" -> {maint} \cup (IF a = "worker" THEN {loaderLock} ELSE {})
     [] a = "worker" /\ at[a] = "streamline" /\ ~ceiling /\ Plugin \in loaded -> {streamline}
     [] OTHER -> {}) \ {NoOne}

Awaited(a) ==
  (CASE a = "worker" /\ at[a] = "lock" -> {maint, loaderLock}
     [] a = "worker" /\ at[a] = "find" -> {loaderLock}
     [] a = "worker" /\ at[a] = "streamline" /\ ~ceiling /\ Plugin \in loaded -> {streamline}
     [] OTHER -> {}) \ {NoOne}

----------------------------------------------------------------------------
(* Module sessions.  The lease retains the module before it is hashed.     *)

Contended == hasher # NoOne
Leased(m) == lease[m] \in {"original", "hooked"}

(* Wrong: the module is used without a lease.                              *)
AcquiredFree(m) == ~Contended
Acquired(m)     == ~Contended /\ Leased(m)

MayHash(m) == ~Contended /\ lease[m] = "none" /\ m \in loaded

\* What is hashed is the code as it is, an XMX hook not yet recorded included.
Inspect(m) ==
  {"failed", IF m \in Providers /\ hook[m] \in {"hooked", "unrecorded", "recorded"}
             THEN "hooked" ELSE "original"}

\* What the worker only found is not; what is being hashed, or loaded, is.
Retained(m) ==
  \/ lease[m] # "none" \/ (m \in Providers /\ hook[m] # "none") \/ hasher = m
  \/ \E a \in Actors : m \in todo[a] /\ (a # "worker" \/ hasher = a)

(* The image is again what was hashed, our own recorded bytes apart.       *)
Validate(p) == lease[p] = "original" /\ hook[p] \notin {"hooked", "unrecorded"}

----------------------------------------------------------------------------
(* One module in one stage of ProcessLoadedDlssgModule, or of the worker's *)
(* pass.  The first Acquire of a module hashes it; each later one may find *)
(* the lock taken.                                                         *)

Hash(a, m) ==
  /\ at[a] \in Stages /\ m \in todo[a] /\ MayHash(m)
  /\ ~(at[a] = "gates" /\ gate[m] # "none")
  /\ hasher' = a
  /\ UNCHANGED <<loaded, lease, lists, patches, hook, resident, ceiling, locks, pacing, at, todo>>

Hashed(a, m) ==
  /\ hasher = a /\ m \in todo[a] /\ lease[m] = "none" /\ m \in loaded
  /\ \E identity \in Inspect(m) : lease' = [lease EXCEPT ![m] = identity]
  /\ hasher' = NoOne
  /\ UNCHANGED <<loaded, lists, patches, hook, resident, ceiling, locks, pacing, at, todo>>

RememberDlssgModule(a, m) ==
  /\ at[a] = "remember" /\ m \in todo[a] /\ ~MayHash(m) /\ hasher # a
  /\ known' = IF Acquired(m) THEN known \cup {m} ELSE known
  /\ IF a = "worker" THEN Begin(a, "find", {}) ELSE Goto(a, "gates") /\ UNCHANGED todo
  /\ UNCHANGED <<loaded, sessions, inspected, patches, hook, resident, ceiling, locks, pacing>>

\* Whatever the reason, a refused module is not tried again.
GateResult(m) ==
  CASE Contended -> "contended"
    [] Acquired(m) /\ Validate(m) /\ m \in Profiled -> "patched"
    [] Acquired(m) /\ lease[m] = "original" /\ ~Validate(m) -> "unrecorded"
    [] OTHER -> "refused"

PatchArchGatesInModule(a, m) ==
  /\ at[a] = "gates" /\ m \in todo[a] /\ hasher # a
  /\ ~MayHash(m) \/ gate[m] # "none"
  /\ gate' = IF gate[m] = "none" THEN [gate EXCEPT ![m] = GateResult(m)] ELSE gate
  /\ IF a = "worker" THEN Done(a, m) /\ UNCHANGED at ELSE Goto(a, "temporal") /\ UNCHANGED todo
  /\ UNCHANGED <<loaded, sessions, lists, temporal, thin, hook, resident, ceiling, locks, pacing>>

\* The full kernels first, and without them the midpoint rewrite.
PatchTemporalInModule(a, m) ==
  /\ at[a] = "temporal" /\ m \in todo[a] /\ ~MayHash(m) /\ hasher # a
  /\ IF temporal[m] = "none" /\ Acquired(m)
     THEN \E result \in {"kernels", "midpoint", "rejected"} :
            temporal' = [temporal EXCEPT ![m] = result]
     ELSE UNCHANGED temporal
  /\ IF a = "worker" THEN Done(a, m) /\ UNCHANGED at ELSE Goto(a, "thin") /\ UNCHANGED todo
  /\ UNCHANGED <<loaded, sessions, lists, gate, thin, hook, resident, ceiling, locks, pacing>>

PatchThinGeometryInModule(a, m) ==
  /\ at[a] = "thin" /\ m \in todo[a] /\ ~MayHash(m) /\ hasher # a
  /\ thin' = IF Acquired(m) THEN thin \cup {m} ELSE thin
  /\ IF a = "worker" THEN Done(a, m) /\ UNCHANGED at ELSE Goto(a, "unlock") /\ UNCHANGED todo
  /\ UNCHANGED <<loaded, sessions, lists, gate, temporal, hook, resident, ceiling, locks, pacing>>

Unlock(a) ==
  /\ at[a] = "unlock"
  /\ maint' = NoOne
  /\ Begin(a, "attach", IF a = "worker" THEN known ELSE todo[a])
  /\ UNCHANGED <<loaded, sessions, lists, patches, hook, resident, ceiling, streamline,
                 loaderLock, pacing>>

\* A module is pinned here; who is not resident installs nothing.
Attach(a, m) ==
  /\ at[a] = "attach" /\ m \in todo[a]
  /\ hook' = IF hook[m] # "none" \/ m \notin loaded THEN hook
             ELSE [hook EXCEPT ![m] = IF resident THEN "waiting" ELSE "queued"]
  /\ IF a = "worker" THEN Done(a, m) /\ UNCHANGED at ELSE Begin(a, "leave", {})
  /\ UNCHANGED <<loaded, sessions, lists, patches, resident, ceiling, locks, pacing>>

Stage(a) ==
  \/ Unlock(a)
  \/ \E m \in todo[a] :
       \/ Hash(a, m) \/ Hashed(a, m)
       \/ m \in Providers /\ \/ RememberDlssgModule(a, m) \/ PatchArchGatesInModule(a, m)
                             \/ PatchTemporalInModule(a, m)
                             \/ PatchThinGeometryInModule(a, m)
                             \/ Attach(a, m)

----------------------------------------------------------------------------
(* The bounded discovery worker.  A request for another pass that comes    *)
(* while one runs is seen when the pass is over.                           *)

WakeUp ==
  /\ at["worker"] = "sleep" /\ pass < Passes
  /\ pass' = pass + 1 /\ rescan' = FALSE
  /\ Goto("worker", "lock")
  /\ UNCHANGED <<loaded, sessions, lists, patches, hook, resident, ceiling, locks, quiet, todo>>

\* The module found by its name is remembered, or tried again, in every pass.
RunProviderMaintenance ==
  /\ at["worker"] = "lock" /\ Awaited("worker") = {}
  /\ maint' = "worker"
  /\ IF Game \cap loaded = {} THEN Begin("worker", "find", {})
     ELSE \E p \in Game \cap loaded : Begin("worker", "remember", {p})
  /\ UNCHANGED <<loaded, sessions, lists, patches, hook, resident, ceiling, streamline,
                 loaderLock, pacing>>

\* A snapshot of the modules takes the loader's lock; each is looked at once.
DiscoverDlssgModules ==
  /\ at["worker"] = "find" /\ Awaited("worker") = {}
  /\ LET new == (loaded \cap Providers) \ inspected
     IN IF new = {} THEN Begin("worker", "gates", known) /\ UNCHANGED inspected
        ELSE \E p \in new : inspected' = inspected \cup {p} /\ Begin("worker", "remember", {p})
  /\ UNCHANGED <<loaded, sessions, known, patches, hook, resident, ceiling, locks, pacing>>

NextStage ==
  /\ todo["worker"] = {}
  /\ \/ at["worker"] = "gates"    /\ Begin("worker", "temporal", known)
     \/ at["worker"] = "temporal" /\ Begin("worker", "thin", known)
     \/ at["worker"] = "thin"     /\ Begin("worker", "unlock", {})
     \/ at["worker"] = "attach"   /\ Begin("worker", "streamline", {})
  /\ UNCHANGED <<loaded, sessions, lists, patches, hook, resident, ceiling, locks, pacing>>

TryPatchFrameCountCeiling ==
  /\ at["worker"] = "streamline" /\ Awaited("worker") = {}
  /\ IF ceiling \/ Plugin \notin loaded
     THEN Goto("worker", "check") /\ UNCHANGED <<streamline, todo>>
     ELSE streamline' = "worker" /\ Begin("worker", "ceiling", {Plugin})
  /\ UNCHANGED <<loaded, sessions, lists, patches, hook, resident, ceiling, maint,
                 loaderLock, pacing>>

DiscoveryRequirementsMet ==
  /\ \E p \in Providers : gate[p] = "patched"
  /\ \E p \in Providers : temporal[p] \in {"kernels", "midpoint"}
  /\ ceiling

EndPass ==
  /\ at["worker"] = "check"
  /\ LET ready == DiscoveryRequirementsMet /\ ~rescan
         over  == (ready /\ quiet + 1 = Quiet) \/ pass = Passes
     IN /\ quiet' = IF ready THEN quiet + 1 ELSE 0
        /\ Goto("worker", IF over THEN "finished" ELSE "sleep")
  /\ UNCHANGED <<loaded, sessions, lists, patches, hook, resident, ceiling, locks, rescan,
                 pass, todo>>

StartDiscoveryWorker ==
  /\ at["worker"] = "away"
  /\ Goto("worker", "sleep")
  /\ UNCHANGED <<loaded, sessions, lists, patches, hook, resident, ceiling, locks, pacing, todo>>

Worker ==
  \/ StartDiscoveryWorker \/ WakeUp \/ RunProviderMaintenance \/ DiscoverDlssgModules
  \/ NextStage \/ TryPatchFrameCountCeiling \/ EndPass

----------------------------------------------------------------------------
(* Loading.  A nested load runs its notification under the loader's lock;  *)
(* so nothing there waits for a lock whose holder may need the loader's.   *)

Load(a, m) ==
  /\ at[a] = "away" /\ m \notin loaded /\ loaderLock = NoOne
  /\ loaded' = loaded \cup {m}
  /\ IF m = Plugin \/ m \in Noticed
     THEN loaderLock' = a /\ Begin(a, "lock", {m})
     ELSE UNCHANGED <<loaderLock, at, todo>>
  /\ UNCHANGED <<sessions, lists, patches, hook, resident, ceiling, maint, streamline, pacing>>

(* Wrong: the notification waits for the worker's pass to end.             *)
WaitForMaintenance ==
  /\ at["loader"] = "lock" /\ maint = NoOne
  /\ maint' = "loader" /\ Goto("loader", "remember")
  /\ UNCHANGED <<loaded, sessions, lists, patches, hook, resident, ceiling, streamline,
                 loaderLock, pacing, todo>>

ProcessLoadedDlssgModule ==
  /\ at["loader"] = "lock" /\ Awaited("loader") = {}
  /\ IF maint = NoOne
     THEN maint' = "loader" /\ Goto("loader", "remember") /\ UNCHANGED rescan
     ELSE rescan' = TRUE /\ Goto("loader", "attach") /\ UNCHANGED maint
  /\ UNCHANGED <<loaded, sessions, lists, patches, hook, resident, ceiling, streamline,
                 loaderLock, pass, quiet, todo>>

ProcessLoadedStreamlineDlssgPlugin ==
  /\ at["plugin"] = "lock" /\ Awaited("plugin") = {}
  /\ IF streamline = NoOne
     THEN streamline' = "plugin" /\ Goto("plugin", "ceiling") /\ UNCHANGED <<rescan, todo>>
     ELSE rescan' = TRUE /\ Begin("plugin", "leave", {}) /\ UNCHANGED streamline
  /\ UNCHANGED <<loaded, sessions, lists, patches, hook, resident, ceiling, maint,
                 loaderLock, pass, quiet>>

\* Unlike a provider, a plugin that could not be leased is tried again.
HashPlugin(a) ==
  /\ at[a] = "ceiling" /\ MayHash(Plugin)
  /\ hasher' = a
  /\ UNCHANGED <<loaded, lease, lists, patches, hook, resident, ceiling, locks, pacing, at, todo>>

PatchFrameCountCeiling(a) ==
  /\ at[a] = "ceiling" /\ ~MayHash(Plugin) /\ hasher # a
  /\ ceiling' = (ceiling \/ Acquired(Plugin))
  /\ streamline' = NoOne
  /\ Begin(a, IF a = "worker" THEN "check" ELSE "leave", {})
  /\ UNCHANGED <<loaded, sessions, lists, patches, hook, resident, maint, loaderLock, pacing>>

Return(a) ==
  /\ at[a] = "leave"
  /\ loaderLock' = NoOne /\ Begin(a, "away", {})
  /\ UNCHANGED <<loaded, sessions, lists, patches, hook, resident, ceiling, maint,
                 streamline, pacing>>

Unload(p) ==
  /\ p \in loaded /\ ~Retained(p) /\ loaderLock = NoOne
  /\ loaded' = loaded \ {p}
  /\ UNCHANGED <<sessions, lists, patches, hook, resident, ceiling, locks, pacing, at, todo>>

Loading ==
  \/ \E p \in Providers : Load("loader", p)
  \/ Load("plugin", Plugin)
  \/ ProcessLoadedDlssgModule \/ ProcessLoadedStreamlineDlssgPlugin
  \/ \E a \in {"loader", "plugin"} : Return(a)

Streamline == \E a \in {"worker", "plugin"} : HashPlugin(a) \/ PatchFrameCountCeiling(a)

----------------------------------------------------------------------------
(* The XMX hook.  Its thread waits for the lease, for a fifth of a second  *)
(* at most, hooks, and then records the bytes it changed as the addon's.   *)

untouched == <<loaded, lists, patches, resident, ceiling, locks, pacing, at, todo>>

HashForHook(p) ==
  /\ hook[p] \in {"waiting", "hooked"} /\ MayHash(p)
  /\ hasher' = p
  /\ UNCHANGED <<lease, hook, untouched>>

HashedForHook(p) ==
  /\ hasher = p
  /\ \E identity \in Inspect(p) : lease' = [lease EXCEPT ![p] = identity]
  /\ hasher' = NoOne
  /\ UNCHANGED <<hook, untouched>>

InstallSlot(p) ==
  /\ \/ hook[p] = "waiting" /\ (Acquired(p) \/ Contended \/ lease[p] = "failed") /\ hasher # p
        /\ hook' = [hook EXCEPT ![p] = "installing"]
     \/ hook[p] = "installing"
        /\ \E result \in {"hooked", "failed"} : hook' = [hook EXCEPT ![p] = result]
  /\ UNCHANGED <<sessions, untouched>>

RecordHookBytes(p) ==
  /\ hook[p] = "hooked" /\ ~MayHash(p) /\ hasher # p
  /\ hook' = [hook EXCEPT ![p] = IF Acquired(p) THEN "recorded" ELSE "unrecorded"]
  /\ UNCHANGED <<sessions, untouched>>

Release ==
  /\ ~resident /\ resident' = TRUE
  /\ hook' = [p \in Providers |-> IF hook[p] = "queued" THEN "waiting" ELSE hook[p]]
  /\ UNCHANGED <<loaded, sessions, lists, patches, ceiling, locks, pacing, at, todo>>

\* The panel reads the list of providers, under the lock, if it is free.
CheckDriverOnlyProvider ==
  /\ \/ maint = NoOne /\ maint' = "panel"
     \/ maint = "panel" /\ maint' = NoOne
  /\ UNCHANGED <<loaded, sessions, lists, patches, hook, resident, ceiling, streamline,
                 loaderLock, pacing, at, todo>>

Hooking ==
  \/ \E p \in Providers :
       HashForHook(p) \/ HashedForHook(p) \/ InstallSlot(p) \/ RecordHookBytes(p)
  \/ Release

Next ==
  \/ Worker \/ Loading \/ Streamline \/ Hooking \/ CheckDriverOnlyProvider
  \/ \E a \in Actors : Stage(a)
  \/ \E p \in Providers : Unload(p)

(* What a thread does next once it has begun; what the game does, and the  *)
(* worker's and the hook's start, are not among it.                        *)
UnderWay ==
  \/ WakeUp \/ RunProviderMaintenance \/ DiscoverDlssgModules \/ NextStage
  \/ TryPatchFrameCountCeiling \/ EndPass
  \/ ProcessLoadedDlssgModule \/ ProcessLoadedStreamlineDlssgPlugin
  \/ \E a \in Actors : Stage(a) \/ HashPlugin(a) \/ PatchFrameCountCeiling(a) \/ Return(a)
  \/ \E p \in Providers : HashedForHook(p)
  \/ maint = "panel" /\ CheckDriverOnlyProvider

Spec == Init /\ [][Next]_vars

----------------------------------------------------------------------------
(* Nothing is patched or hooked where nothing, or something else, may be   *)
(* mapped: what was changed stays mapped.                                  *)
ChangedStaysMapped ==
  \A p \in Providers :
    \/ gate[p] = "patched" \/ temporal[p] \in {"kernels", "midpoint"}
    \/ hook[p] \in {"installing", "hooked", "unrecorded", "recorded"}
    => p \in loaded

(* Whoever a thread waits for is under way with the lock in hand, and      *)
(* waits for nobody: there is no circle of waits through the loader's lock *)
(* and that of the maintenance, and no lock of a thread that has left.     *)
WaitsEnd ==
  \A a \in Actors : \A b \in Awaited(a) \ {"panel"} :
    b # a /\ at[b] \notin {"away", "finished", "sleep"} /\ Awaited(b) = {}

(* No load of the game is ever stuck: while one is under way and holds the *)
(* loader's lock, it or a thread it waits for can go on, though the        *)
(* worker's pass needs that lock with the one of the maintenance in hand.  *)
LoadNeverStuck == (\E a \in {"loader", "plugin"} : at[a] # "away") => ENABLED UnderWay
=============================================================================
