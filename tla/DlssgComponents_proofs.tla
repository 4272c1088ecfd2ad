------------------------ MODULE DlssgComponents_proofs ------------------------
(***************************************************************************)
(* What the components around NVIDIA's provider guarantee, for every size  *)
(* of their instances.  Each has a section: the inductive invariant of its *)
(* instance, that its initial states have it, that its steps keep it, and  *)
(* what follows from it.  Components_proofs composes them.                 *)
(***************************************************************************)
EXTENDS Components, FiniteSetTheorems, SequenceTheorems, TLAPS

(* The kernels' instance counts as this module does.                       *)
LEMMA KernelsCardinality == \A S : Kernels!Cardinality(S) = Cardinality(S)
  BY DEF Kernels!Cardinality, Cardinality

----------------------------------------------------------------------------
(* The providers and the threads that patch them (ProviderMaintenance).    *)

\* The worker stops when it has counted all its quiet passes.
ProviderTyped == Provider!TypeOK /\ (at["worker"] # "finished" => quiet < QuietPasses)

\* What is leased, hooked or being hashed for a hook is mapped; patches need a lease.
HeldIsMapped ==
  /\ \A m \in Provider!Images : lease[m] # "none" => m \in loaded
  /\ \A p \in Providers : hook[p] # "none" \/ hasher = p => p \in loaded
  /\ \A p \in Providers : gate[p] = "patched" \/ temporal[p] \in {"kernels", "midpoint"} => lease[p] # "none"

MappedInv == ProviderTyped /\ HeldIsMapped

(* Nothing is held when the addon is loaded.                               *)
LEMMA MappedInit == Provider!Init => MappedInv
  <1> SUFFICES ASSUME Provider!Init PROVE MappedInv
    OBVIOUS
  <1>1. ProviderTyped
    <2>1. pass \in 0..Passes /\ quiet \in 0..QuietPasses /\ quiet < QuietPasses
      BY ProviderAssumption DEF Provider!Init
    <2>2. at \in [Provider!Actors -> Provider!Labels] /\ todo \in [Provider!Actors -> SUBSET Provider!Images]
      BY DEF Provider!Init, Provider!Labels
    <2>3. gate \in [Providers -> {"none", "patched", "refused", "contended", "unrecorded"}]
          /\ temporal \in [Providers -> {"none", "kernels", "midpoint", "rejected"}]
          /\ lease \in [Provider!Images -> {"none", "failed", "original", "hooked"}]
      BY DEF Provider!Init
    <2>4. hook \in [Providers -> {"none", "queued", "waiting", "installing", "failed",
                                 "hooked", "unrecorded", "recorded"}]
      BY DEF Provider!Init
    <2> QED
      BY <2>1, <2>2, <2>3, <2>4 DEF Provider!Init, ProviderTyped, Provider!TypeOK
  <1>2. HeldIsMapped
    BY ProviderAssumption DEF Provider!Init, HeldIsMapped, Provider!NoOne
  <1> QED
    BY <1>1, <1>2 DEF MappedInv

(* The discovery worker holds nothing more than it did.                    *)
LEMMA WorkerKeeps == MappedInv /\ Provider!Worker => MappedInv'
  <1> SUFFICES ASSUME MappedInv, Provider!Worker PROVE MappedInv'
    OBVIOUS
  <1>1. UNCHANGED <<loaded, lease, hasher, gate, temporal, thin, hook, resident, ceiling>>
    BY DEF Provider!Worker, Provider!StartDiscoveryWorker, Provider!WakeUp,
       Provider!RunProviderMaintenance, Provider!DiscoverDlssgModules, Provider!NextStage,
       Provider!TryPatchFrameCountCeiling, Provider!EndPass, Provider!sessions, Provider!patches
  <1>2. HeldIsMapped'
    BY <1>1 DEF MappedInv, HeldIsMapped
  <1>3. ProviderTyped'
    <2>1. CASE Provider!StartDiscoveryWorker \/ Provider!WakeUp
      <3>1. UNCHANGED <<Provider!lists, Provider!locks, quiet, todo>>
        BY <2>1 DEF Provider!StartDiscoveryWorker, Provider!WakeUp, Provider!pacing
      <3>2. at' \in [Provider!Actors -> Provider!Labels] /\ at["worker"] # "finished"
        BY <2>1 DEF Provider!StartDiscoveryWorker, Provider!WakeUp, MappedInv, ProviderTyped,
           Provider!TypeOK, Provider!Goto, Provider!Labels, Provider!Actors
      <3>3. pass' \in 0..Passes /\ rescan' \in BOOLEAN
        <4>1. pass \in 0..Passes /\ rescan \in BOOLEAN
          BY DEF MappedInv, ProviderTyped, Provider!TypeOK
        <4>2. CASE Provider!StartDiscoveryWorker
          BY <4>1, <4>2 DEF Provider!StartDiscoveryWorker, Provider!pacing
        <4>3. CASE Provider!WakeUp
          <5>1. pass < Passes /\ pass' = pass + 1 /\ rescan' = FALSE
            BY <4>3 DEF Provider!WakeUp
          <5>2. Passes \in Nat
            BY ProviderAssumption
          <5>3. pass' \in 0..Passes
            BY <4>1, <5>1, <5>2
          <5>4. rescan' \in BOOLEAN
            BY <5>1
          <5> QED
            BY <5>3, <5>4
        <4> QED
          BY <2>1, <4>2, <4>3
      <3> QED
        BY <1>1, <3>1, <3>2, <3>3 DEF MappedInv, ProviderTyped, Provider!TypeOK, Provider!lists,
           Provider!locks
    <2>2. CASE Provider!RunProviderMaintenance \/ Provider!DiscoverDlssgModules
      BY <2>2, <1>1, ProviderAssumption DEF Provider!RunProviderMaintenance,
         Provider!DiscoverDlssgModules, MappedInv,
         ProviderTyped, Provider!TypeOK, Provider!Begin, Provider!Goto, Provider!Labels, Provider!Stages, Provider!Actors, Provider!Images, Provider!lists, Provider!locks, Provider!pacing
    <2>3. CASE Provider!NextStage \/ Provider!TryPatchFrameCountCeiling
      BY <2>3, <1>1, ProviderAssumption DEF Provider!NextStage, Provider!TryPatchFrameCountCeiling,
         MappedInv,
         ProviderTyped, Provider!TypeOK, Provider!Begin, Provider!Goto, Provider!Labels, Provider!Stages, Provider!Actors, Provider!Images, Provider!lists, Provider!locks, Provider!pacing
    <2>4. CASE Provider!EndPass
      BY <2>4, <1>1, ProviderAssumption DEF Provider!EndPass, MappedInv,
         ProviderTyped, Provider!TypeOK, Provider!Goto, Provider!Labels, Provider!Stages, Provider!Actors, Provider!Images, Provider!lists, Provider!locks, Provider!pacing
    <2> QED
      BY <2>1, <2>2, <2>3, <2>4 DEF Provider!Worker
  <1> QED
    BY <1>2, <1>3 DEF MappedInv

(* Loads and their notifications patch and hook nothing by themselves.     *)
LEMMA LoadingKeeps == MappedInv /\ (Provider!Loading \/ Provider!Streamline) => MappedInv'
  <1> SUFFICES ASSUME MappedInv, Provider!Loading \/ Provider!Streamline PROVE MappedInv'
    OBVIOUS
  <1>1. UNCHANGED <<lease, gate, temporal, thin, hook, resident>> /\ loaded \subseteq loaded'
        /\ (hasher' = hasher \/ hasher' \in Provider!Actors)
    BY DEF Provider!Loading, Provider!Streamline, Provider!Load, Provider!ProcessLoadedDlssgModule,
       Provider!ProcessLoadedStreamlineDlssgPlugin, Provider!Return,
       Provider!HashPlugin, Provider!PatchFrameCountCeiling, Provider!sessions, Provider!patches,
       Provider!Actors
  <1>2. HeldIsMapped'
    BY <1>1, ProviderAssumption DEF MappedInv, HeldIsMapped
  <1>3. ProviderTyped'
    <2>1. ASSUME NEW a \in Provider!Actors \ {"worker"}, NEW m \in Provider!Images, Provider!Load(a, m) PROVE ProviderTyped'
      BY <2>1, <1>1 DEF Provider!Load, MappedInv, ProviderTyped, Provider!TypeOK, Provider!Begin,
         Provider!Goto, Provider!Labels, Provider!Stages, Provider!Actors, Provider!lists,
         Provider!patches,
         Provider!locks, Provider!pacing, Provider!sessions
    <2>2. CASE Provider!ProcessLoadedDlssgModule \/ Provider!ProcessLoadedStreamlineDlssgPlugin
      <3>1. UNCHANGED <<loaded, Provider!lists, Provider!sessions, ceiling, loaderLock, pass, quiet>>
        BY <2>2 DEF Provider!ProcessLoadedDlssgModule, Provider!ProcessLoadedStreamlineDlssgPlugin
      <3>2. at' \in [Provider!Actors -> Provider!Labels] /\ at'["worker"] = at["worker"] /\ todo' \in [Provider!Actors -> SUBSET Provider!Images]
        BY <2>2 DEF Provider!ProcessLoadedDlssgModule, Provider!ProcessLoadedStreamlineDlssgPlugin,
           MappedInv, ProviderTyped,
           Provider!TypeOK, Provider!Begin, Provider!Goto, Provider!Labels, Provider!Stages,
           Provider!Actors
      <3>3. /\ maint' \in {Provider!NoOne, "panel"} \cup Provider!Actors /\ streamline' \in {Provider!NoOne} \cup Provider!Actors
            /\ rescan' \in BOOLEAN
        BY <2>2 DEF Provider!ProcessLoadedDlssgModule, Provider!ProcessLoadedStreamlineDlssgPlugin,
           MappedInv, ProviderTyped,
           Provider!TypeOK, Provider!Actors
      <3> QED
        BY <1>1, <3>1, <3>2, <3>3 DEF MappedInv, ProviderTyped, Provider!TypeOK, Provider!lists,
           Provider!sessions
    <2>3. ASSUME NEW a \in {"loader", "plugin"}, Provider!Return(a) PROVE ProviderTyped'
      BY <2>3, <1>1 DEF Provider!Return, MappedInv, ProviderTyped, Provider!TypeOK, Provider!Begin,
         Provider!Goto, Provider!Labels, Provider!Stages, Provider!Actors, Provider!lists,
         Provider!patches, Provider!locks, Provider!pacing, Provider!sessions
    <2>4. ASSUME NEW a \in {"worker", "plugin"}, Provider!HashPlugin(a) \/ Provider!PatchFrameCountCeiling(a) PROVE ProviderTyped'
      <3>1. UNCHANGED <<loaded, Provider!lists, maint, loaderLock, Provider!pacing>>
        BY <2>4 DEF Provider!HashPlugin, Provider!PatchFrameCountCeiling, Provider!locks
      <3>2. at' \in [Provider!Actors -> Provider!Labels] /\ todo' \in [Provider!Actors -> SUBSET Provider!Images]
            /\ (at'["worker"] # "finished" => at["worker"] # "finished")
        BY <2>4 DEF Provider!HashPlugin, Provider!PatchFrameCountCeiling, MappedInv, ProviderTyped,
           Provider!TypeOK, Provider!Begin, Provider!Goto, Provider!Labels, Provider!Stages,
           Provider!Actors
      <3>3. streamline' \in {Provider!NoOne} \cup Provider!Actors /\ ceiling' \in BOOLEAN
        BY <2>4 DEF Provider!HashPlugin, Provider!PatchFrameCountCeiling, MappedInv, ProviderTyped,
           Provider!TypeOK, Provider!Actors, Provider!locks
      <3>4. hasher' \in {Provider!NoOne} \cup Provider!Actors \cup Providers
        BY <2>4, <1>1 DEF Provider!HashPlugin, Provider!PatchFrameCountCeiling, MappedInv,
           ProviderTyped, Provider!TypeOK, Provider!Actors, Provider!sessions
      <3> QED
        BY <1>1, <3>1, <3>2, <3>3, <3>4 DEF MappedInv, ProviderTyped, Provider!TypeOK, Provider!lists,
           Provider!pacing
    <2> QED
      BY <2>1, <2>2, <2>3, <2>4 DEF Provider!Loading, Provider!Streamline, Provider!Images,
         Provider!Actors
  <1> QED
    BY <1>2, <1>3 DEF MappedInv

(* A stage of a thread patches only what it could lease.                   *)
LEMMA StageKeeps ==
  ASSUME MappedInv, NEW a \in Provider!Actors, Provider!Stage(a)
  PROVE  MappedInv'
  <1>1. CASE Provider!Unlock(a)
    <2>1. UNCHANGED <<loaded, lease, hasher, gate, temporal, thin, hook, resident, ceiling>>
      BY <1>1 DEF Provider!Unlock, Provider!sessions, Provider!patches
    <2>2. HeldIsMapped'
      BY <2>1 DEF MappedInv, HeldIsMapped
    <2>3. ProviderTyped'
      BY <1>1, <2>1 DEF Provider!Unlock, MappedInv, ProviderTyped, Provider!TypeOK, Provider!Begin,
         Provider!Goto, Provider!Labels, Provider!Stages, Provider!Actors, Provider!Images,
         Provider!lists, Provider!pacing
    <2> QED
      BY <2>2, <2>3 DEF MappedInv
  <1>2. ASSUME NEW m \in todo[a], Provider!Hash(a, m) PROVE MappedInv'
    <2>1. UNCHANGED <<loaded, lease, gate, temporal, thin, hook, resident, ceiling, at, todo>> /\ hasher' = a
      BY <1>2 DEF Provider!Hash, Provider!patches
    <2>2. HeldIsMapped'
      BY <2>1, ProviderAssumption DEF MappedInv, HeldIsMapped
    <2>3. ProviderTyped'
      BY <1>2, <2>1 DEF Provider!Hash, MappedInv, ProviderTyped, Provider!TypeOK, Provider!lists,
         Provider!locks, Provider!pacing
    <2> QED
      BY <2>2, <2>3 DEF MappedInv
  <1>3. ASSUME NEW m \in todo[a], Provider!Hashed(a, m) PROVE MappedInv'
    <2>1. m \in Provider!Images /\ m \in loaded
      BY <1>3 DEF Provider!Hashed, MappedInv, ProviderTyped, Provider!TypeOK
    <2>2. UNCHANGED <<loaded, gate, temporal, thin, hook, resident, ceiling, at, todo>> /\ hasher' = Provider!NoOne
      BY <1>3 DEF Provider!Hashed, Provider!patches
    <2>3. PICK identity \in {"failed", "original", "hooked"} : lease' = [lease EXCEPT ![m] = identity]
      BY <1>3 DEF Provider!Hashed, Provider!Inspect
    <2>4. HeldIsMapped'
      BY <2>1, <2>2, <2>3, ProviderAssumption DEF MappedInv, ProviderTyped, Provider!TypeOK,
         HeldIsMapped, Provider!Images
    <2>5. ProviderTyped'
      BY <1>3, <2>1, <2>2, <2>3 DEF Provider!Hashed, MappedInv, ProviderTyped, Provider!TypeOK,
         Provider!lists, Provider!locks, Provider!pacing
    <2> QED
      BY <2>4, <2>5 DEF MappedInv
  <1>4. ASSUME NEW m \in todo[a], m \in Providers, Provider!RememberDlssgModule(a, m) PROVE MappedInv'
    <2>1. UNCHANGED <<loaded, lease, hasher, gate, temporal, thin, hook, resident, ceiling>>
      BY <1>4 DEF Provider!RememberDlssgModule, Provider!sessions, Provider!patches
    <2>2. HeldIsMapped'
      BY <2>1 DEF MappedInv, HeldIsMapped
    <2>3. ProviderTyped'
      BY <1>4, <2>1 DEF Provider!RememberDlssgModule, MappedInv, ProviderTyped, Provider!TypeOK,
         Provider!Begin, Provider!Goto, Provider!Labels, Provider!Stages, Provider!Actors,
         Provider!Images, Provider!locks, Provider!pacing
    <2> QED
      BY <2>2, <2>3 DEF MappedInv
  <1>5. ASSUME NEW m \in todo[a], m \in Providers, Provider!PatchArchGatesInModule(a, m) PROVE MappedInv'
    <2>1. UNCHANGED <<loaded, lease, hasher, temporal, thin, hook, resident, ceiling>>
      BY <1>5 DEF Provider!PatchArchGatesInModule, Provider!sessions
    <2>2. PICK r \in {"none", "patched", "refused", "contended", "unrecorded"} :
            gate' = [gate EXCEPT ![m] = r] /\ (r = "patched" => lease[m] # "none" \/ gate[m] = "patched")
      <3>1. CASE gate[m] = "none"
        BY <1>5, <3>1 DEF Provider!PatchArchGatesInModule, Provider!GateResult, Provider!Acquired,
           Provider!Leased
      <3>2. CASE gate[m] # "none"
        <4>1. gate' = [gate EXCEPT ![m] = gate[m]]
          BY <1>5, <3>2 DEF Provider!PatchArchGatesInModule, MappedInv, ProviderTyped, Provider!TypeOK
        <4> QED
          BY <1>5, <4>1 DEF MappedInv, ProviderTyped, Provider!TypeOK
      <3> QED
        BY <3>1, <3>2
    <2>3. HeldIsMapped'
      BY <1>5, <2>1, <2>2 DEF MappedInv, ProviderTyped, Provider!TypeOK, HeldIsMapped
    <2>4. ProviderTyped'
      BY <1>5, <2>1, <2>2 DEF Provider!PatchArchGatesInModule, MappedInv, ProviderTyped,
         Provider!TypeOK, Provider!Done, Provider!Goto, Provider!Labels, Provider!Stages,
         Provider!Actors, Provider!lists, Provider!locks, Provider!pacing
    <2> QED
      BY <2>3, <2>4 DEF MappedInv
  <1>6. ASSUME NEW m \in todo[a], m \in Providers, Provider!PatchTemporalInModule(a, m) PROVE MappedInv'
    <2>1. UNCHANGED <<loaded, lease, hasher, gate, thin, hook, resident, ceiling>>
      BY <1>6 DEF Provider!PatchTemporalInModule, Provider!sessions
    <2>2. PICK r \in {"none", "kernels", "midpoint", "rejected"} :
            temporal' = [temporal EXCEPT ![m] = r] /\ (r = temporal[m] \/ lease[m] # "none")
      <3>1. CASE temporal[m] = "none" /\ Provider!Acquired(m)
        BY <1>6, <3>1 DEF Provider!PatchTemporalInModule, Provider!Acquired, Provider!Leased
      <3>2. CASE ~(temporal[m] = "none" /\ Provider!Acquired(m))
        <4>1. temporal' = [temporal EXCEPT ![m] = temporal[m]]
          BY <1>6, <3>2 DEF Provider!PatchTemporalInModule, MappedInv, ProviderTyped, Provider!TypeOK
        <4> QED
          BY <1>6, <4>1 DEF MappedInv, ProviderTyped, Provider!TypeOK
      <3> QED
        BY <3>1, <3>2
    <2>3. HeldIsMapped'
      BY <1>6, <2>1, <2>2 DEF MappedInv, ProviderTyped, Provider!TypeOK, HeldIsMapped
    <2>4. ProviderTyped'
      BY <1>6, <2>1, <2>2 DEF Provider!PatchTemporalInModule, MappedInv, ProviderTyped,
         Provider!TypeOK, Provider!Done, Provider!Goto, Provider!Labels, Provider!Stages,
         Provider!Actors, Provider!lists, Provider!locks, Provider!pacing
    <2> QED
      BY <2>3, <2>4 DEF MappedInv
  <1>7. ASSUME NEW m \in todo[a], m \in Providers, Provider!PatchThinGeometryInModule(a, m) PROVE MappedInv'
    <2>1. UNCHANGED <<loaded, lease, hasher, gate, temporal, hook, resident, ceiling>>
      BY <1>7 DEF Provider!PatchThinGeometryInModule, Provider!sessions
    <2>2. HeldIsMapped'
      BY <2>1 DEF MappedInv, HeldIsMapped
    <2>3. ProviderTyped'
      BY <1>7, <2>1 DEF Provider!PatchThinGeometryInModule, MappedInv, ProviderTyped, Provider!TypeOK,
         Provider!Done, Provider!Goto, Provider!Labels, Provider!Stages,
         Provider!Actors, Provider!lists, Provider!locks, Provider!pacing
    <2> QED
      BY <2>2, <2>3 DEF MappedInv
  <1>8. ASSUME NEW m \in todo[a], m \in Providers, Provider!Attach(a, m) PROVE MappedInv'
    <2>1. UNCHANGED <<loaded, lease, hasher, gate, temporal, thin, resident, ceiling>>
      BY <1>8 DEF Provider!Attach, Provider!sessions, Provider!patches
    <2>2. PICK r \in {"none", "queued", "waiting", "installing", "failed", "hooked", "unrecorded", "recorded"} :
            hook' = [hook EXCEPT ![m] = r] /\ (r = hook[m] \/ m \in loaded)
      <3>1. CASE hook[m] # "none" \/ m \notin loaded
        <4>1. hook' = [hook EXCEPT ![m] = hook[m]]
          BY <1>8, <3>1 DEF Provider!Attach, MappedInv, ProviderTyped, Provider!TypeOK
        <4> QED
          BY <1>8, <4>1 DEF MappedInv, ProviderTyped, Provider!TypeOK
      <3>2. CASE ~(hook[m] # "none" \/ m \notin loaded)
        BY <1>8, <3>2 DEF Provider!Attach
      <3> QED
        BY <3>1, <3>2
    <2>3. HeldIsMapped'
      BY <1>8, <2>1, <2>2 DEF MappedInv, ProviderTyped, Provider!TypeOK, HeldIsMapped
    <2>4. ProviderTyped'
      BY <1>8, <2>1, <2>2 DEF Provider!Attach, MappedInv, ProviderTyped, Provider!TypeOK,
         Provider!Begin, Provider!Done, Provider!Goto, Provider!Labels, Provider!Stages,
         Provider!Actors,
         Provider!lists, Provider!locks, Provider!pacing
    <2> QED
      BY <2>3, <2>4 DEF MappedInv
  <1> QED
    BY <1>1, <1>2, <1>3, <1>4, <1>5, <1>6, <1>7, <1>8 DEF Provider!Stage

(* The hook goes into what is mapped, and is not taken out.                *)
LEMMA HookingKeeps == MappedInv /\ (Provider!Hooking \/ Provider!CheckDriverOnlyProvider) => MappedInv'
  <1> SUFFICES ASSUME MappedInv, Provider!Hooking \/ Provider!CheckDriverOnlyProvider PROVE MappedInv'
    OBVIOUS
  <1>1. ASSUME NEW p \in Providers, Provider!HashForHook(p) PROVE MappedInv'
    <2>1. UNCHANGED <<lease, hook, Provider!untouched>> /\ hasher' = p /\ p \in loaded
      BY <1>1 DEF Provider!HashForHook, Provider!MayHash
    <2>2. HeldIsMapped'
      BY <2>1 DEF MappedInv, HeldIsMapped, Provider!untouched, Provider!patches
    <2>3. ProviderTyped'
      BY <2>1 DEF MappedInv, ProviderTyped, Provider!TypeOK, Provider!untouched, Provider!lists,
         Provider!patches, Provider!locks, Provider!pacing
    <2> QED
      BY <2>2, <2>3 DEF MappedInv
  <1>2. ASSUME NEW p \in Providers, Provider!HashedForHook(p) PROVE MappedInv'
    <2>1. UNCHANGED <<hook, Provider!untouched>> /\ hasher' = Provider!NoOne /\ p \in loaded
      BY <1>2 DEF Provider!HashedForHook, MappedInv, HeldIsMapped
    <2>2. PICK identity \in {"failed", "original", "hooked"} : lease' = [lease EXCEPT ![p] = identity]
      BY <1>2 DEF Provider!HashedForHook, Provider!Inspect
    <2>3. HeldIsMapped'
      BY <2>1, <2>2, ProviderAssumption DEF MappedInv, ProviderTyped, Provider!TypeOK, HeldIsMapped,
         Provider!Images, Provider!untouched, Provider!patches
    <2>4. ProviderTyped'
      BY <2>1, <2>2 DEF MappedInv, ProviderTyped, Provider!TypeOK, Provider!untouched, Provider!lists,
         Provider!patches, Provider!locks, Provider!pacing
    <2> QED
      BY <2>3, <2>4 DEF MappedInv
  <1>3. ASSUME NEW p \in Providers, Provider!InstallSlot(p) \/ Provider!RecordHookBytes(p) PROVE MappedInv'
    <2>1. UNCHANGED <<lease, hasher, Provider!untouched>> /\ hook[p] # "none"
      BY <1>3 DEF Provider!InstallSlot, Provider!RecordHookBytes, Provider!sessions
    <2>2. PICK r \in {"installing", "failed", "hooked", "unrecorded", "recorded"} : hook' = [hook EXCEPT ![p] = r]
      BY <1>3 DEF Provider!InstallSlot, Provider!RecordHookBytes
    <2>3. HeldIsMapped'
      BY <2>1, <2>2 DEF MappedInv, ProviderTyped, Provider!TypeOK, HeldIsMapped, Provider!untouched,
         Provider!patches
    <2>4. ProviderTyped'
      BY <2>1, <2>2 DEF MappedInv, ProviderTyped, Provider!TypeOK, Provider!untouched, Provider!lists,
         Provider!patches, Provider!locks, Provider!pacing
    <2> QED
      BY <2>3, <2>4 DEF MappedInv
  <1>4. CASE Provider!Release
    <2>1. UNCHANGED <<loaded, lease, hasher, Provider!lists, gate, temporal, thin, ceiling, Provider!locks, Provider!pacing, at, todo>>
          /\ resident' = TRUE
      BY <1>4 DEF Provider!Release, Provider!sessions, Provider!patches
    <2>2. hook' = [p \in Providers |-> IF hook[p] = "queued" THEN "waiting" ELSE hook[p]]
      BY <1>4 DEF Provider!Release
    <2>3. HeldIsMapped'
      BY <2>1, <2>2 DEF MappedInv, HeldIsMapped
    <2>4. ProviderTyped'
      BY <2>1, <2>2 DEF MappedInv, ProviderTyped, Provider!TypeOK, Provider!lists, Provider!locks,
         Provider!pacing
    <2> QED
      BY <2>3, <2>4 DEF MappedInv
  <1>5. CASE Provider!CheckDriverOnlyProvider
    BY <1>5 DEF Provider!CheckDriverOnlyProvider, MappedInv, ProviderTyped, Provider!TypeOK,
       HeldIsMapped, Provider!sessions, Provider!lists, Provider!patches,
       Provider!pacing
  <1> QED
    BY <1>1, <1>2, <1>3, <1>4, <1>5 DEF Provider!Hooking

(* Every step keeps what is held mapped.                                   *)
LEMMA MappedStep == MappedInv /\ [Provider!Next]_(Provider!vars) => MappedInv'
  <1> SUFFICES ASSUME MappedInv, [Provider!Next]_(Provider!vars) PROVE MappedInv'
    OBVIOUS
  <1>1. ASSUME NEW p \in Providers, Provider!Unload(p) PROVE MappedInv'
    <2>1. UNCHANGED <<Provider!sessions, Provider!lists, Provider!patches, hook, resident, ceiling, Provider!locks, Provider!pacing, at, todo>>
          /\ loaded' = loaded \ {p} /\ lease[p] = "none" /\ hook[p] = "none" /\ hasher # p
      BY <1>1 DEF Provider!Unload, Provider!Retained
    <2>2. HeldIsMapped'
      BY <2>1 DEF MappedInv, HeldIsMapped, Provider!sessions, Provider!patches
    <2>3. ProviderTyped'
      BY <2>1 DEF MappedInv, ProviderTyped, Provider!TypeOK, Provider!sessions, Provider!lists,
         Provider!patches, Provider!locks, Provider!pacing
    <2> QED
      BY <2>2, <2>3 DEF MappedInv
  <1>2. CASE UNCHANGED Provider!vars
    BY <1>2 DEF Provider!vars, MappedInv, ProviderTyped, Provider!TypeOK, HeldIsMapped,
       Provider!sessions, Provider!lists, Provider!patches, Provider!locks, Provider!pacing
  <1> QED
    BY <1>1, <1>2, WorkerKeeps, LoadingKeeps, StageKeeps, HookingKeeps DEF Provider!Next

(* Who has a lock is where it is held: the worker and the loader's thread  *)
(* with the maintenance, and a thread that maps a module with the loader's *)
(* lock from the notification to its return.                               *)
LocksHeld ==
  /\ maint \in {Provider!NoOne, "panel", "worker", "loader"}
  /\ streamline \in {Provider!NoOne, "worker", "plugin"}
  /\ loaderLock \in {Provider!NoOne, "loader", "plugin"}
  /\ maint = "worker" => at["worker"] \in {"find", "unlock"} \cup Provider!Stages
  /\ maint = "loader" => at["loader"] \in {"unlock"} \cup Provider!Stages
  /\ \A a \in {"worker", "plugin"} : streamline = a => at[a] = "ceiling"
  /\ \A a \in {"loader", "plugin"} : loaderLock = a => at[a] \notin {"away", "finished", "sleep"}

(* A thread takes a lock where it then holds it, and leaves that place     *)
(* with the lock released.                                                 *)
LEMMA LocksStep == Provider!TypeOK /\ LocksHeld /\ [Provider!Next]_(Provider!vars) => LocksHeld'
  <1> SUFFICES ASSUME Provider!TypeOK, LocksHeld, [Provider!Next]_(Provider!vars) PROVE LocksHeld'
    OBVIOUS
  <1> USE DEF LocksHeld, Provider!locks, Provider!Stages, Provider!NoOne
  <1>1. DOMAIN at = Provider!Actors /\ at = [a \in Provider!Actors |-> at[a]]
    BY DEF Provider!TypeOK
  <1>2. ASSUME Provider!Worker PROVE LocksHeld'
    <2>1. CASE Provider!StartDiscoveryWorker \/ Provider!WakeUp \/ Provider!EndPass
      BY <1>1, <2>1 DEF Provider!StartDiscoveryWorker, Provider!WakeUp, Provider!EndPass,
         Provider!Goto, Provider!Actors
    <2>2. CASE Provider!RunProviderMaintenance
      BY <1>1, <2>2 DEF Provider!RunProviderMaintenance, Provider!Begin, Provider!Goto, Provider!Actors
    <2>3. CASE Provider!DiscoverDlssgModules
      BY <1>1, <2>3 DEF Provider!DiscoverDlssgModules, Provider!Begin, Provider!Goto, Provider!Actors
    <2>4. CASE Provider!NextStage
      BY <1>1, <2>4 DEF Provider!NextStage, Provider!Begin, Provider!Goto, Provider!Actors
    <2>5. CASE Provider!TryPatchFrameCountCeiling
      BY <1>1, <2>5 DEF Provider!TryPatchFrameCountCeiling, Provider!Begin, Provider!Goto, Provider!Actors
    <2> QED
      BY <1>2, <2>1, <2>2, <2>3, <2>4, <2>5 DEF Provider!Worker
  <1>3. ASSUME NEW a \in {"loader", "plugin"}, NEW m, Provider!Load(a, m) PROVE LocksHeld'
    BY <1>1, <1>3 DEF Provider!Load, Provider!Begin, Provider!Goto, Provider!Actors
  <1>4. CASE Provider!ProcessLoadedDlssgModule
    BY <1>1, <1>4 DEF Provider!ProcessLoadedDlssgModule, Provider!Goto, Provider!Actors
  <1>5. CASE Provider!ProcessLoadedStreamlineDlssgPlugin
    BY <1>1, <1>5 DEF Provider!ProcessLoadedStreamlineDlssgPlugin, Provider!Begin, Provider!Goto,
       Provider!Actors
  <1>6. ASSUME NEW a \in {"loader", "plugin"}, Provider!Return(a) PROVE LocksHeld'
    BY <1>1, <1>6 DEF Provider!Return, Provider!Begin, Provider!Goto, Provider!Actors
  <1>7. ASSUME NEW a \in {"worker", "plugin"}, Provider!PatchFrameCountCeiling(a) PROVE LocksHeld'
    BY <1>1, <1>7 DEF Provider!PatchFrameCountCeiling, Provider!Begin, Provider!Goto, Provider!Actors
  <1>8. ASSUME NEW a \in Provider!Actors, Provider!Unlock(a) PROVE LocksHeld'
    BY <1>1, <1>8 DEF Provider!Unlock, Provider!Begin, Provider!Goto, Provider!Actors
  <1>9. ASSUME NEW a \in Provider!Actors, NEW m,
               \/ Provider!RememberDlssgModule(a, m) \/ Provider!PatchArchGatesInModule(a, m)
               \/ Provider!PatchTemporalInModule(a, m) \/ Provider!PatchThinGeometryInModule(a, m)
               \/ Provider!Attach(a, m)
        PROVE  LocksHeld'
    <2>1. /\ UNCHANGED <<maint, streamline, loaderLock>>
          /\ at[a] \in {"attach"} \cup Provider!Stages
          /\ \/ UNCHANGED at
             \/ /\ at[a] \in Provider!Stages
                /\ \E label \in {"find", "unlock"} \cup Provider!Stages :
                     (label = "find" => a = "worker") /\ at' = [at EXCEPT ![a] = label]
             \/ at[a] = "attach" /\ at' = [at EXCEPT ![a] = "leave"]
      BY <1>1, <1>9 DEF Provider!RememberDlssgModule, Provider!PatchArchGatesInModule,
         Provider!PatchTemporalInModule, Provider!PatchThinGeometryInModule, Provider!Attach,
         Provider!Begin, Provider!Goto, Provider!Actors
    <2>2. PICK label : (at' = at \/ at' = [at EXCEPT ![a] = label]) /\ label \notin {"away", "finished", "sleep"}
                       /\ \/ label \in {"find", "unlock"} \cup Provider!Stages /\ (label = "find" => a = "worker")
                          \/ at[a] = "attach"
      BY <2>1
    <2>3. at'[a] \in {at[a], label} /\ \A b \in Provider!Actors \ {a} : at'[b] = at[b]
      BY <1>1, <2>2
    <2>4. UNCHANGED <<maint, streamline, loaderLock>> /\ at[a] \in {"attach"} \cup Provider!Stages
      BY <2>1
    <2>5. maint = "worker" => at'["worker"] \in {"find", "unlock"} \cup Provider!Stages
      BY <2>2, <2>3, <2>4 DEF Provider!Actors
    <2>6. maint = "loader" => at'["loader"] \in {"unlock"} \cup Provider!Stages
      BY <2>2, <2>3, <2>4 DEF Provider!Actors
    <2>7. \A b \in {"worker", "plugin"} : streamline = b => at'[b] = "ceiling"
      BY <2>2, <2>3, <2>4 DEF Provider!Actors
    <2>8. \A b \in {"loader", "plugin"} : loaderLock = b => at'[b] \notin {"away", "finished", "sleep"}
      BY <2>2, <2>3, <2>4 DEF Provider!Actors
    <2> QED
      BY <2>4, <2>5, <2>6, <2>7, <2>8
  <1>10. ASSUME NEW a \in Provider!Actors, NEW m, Provider!Hash(a, m) \/ Provider!Hashed(a, m) \/ Provider!HashPlugin(a)
         PROVE  LocksHeld'
    BY <1>10 DEF Provider!Hash, Provider!Hashed, Provider!HashPlugin
  <1>11. CASE Provider!Hooking \/ Provider!CheckDriverOnlyProvider
    BY <1>11 DEF Provider!Hooking, Provider!HashForHook, Provider!HashedForHook, Provider!InstallSlot,
       Provider!RecordHookBytes, Provider!Release, Provider!CheckDriverOnlyProvider, Provider!untouched
  <1>12. ASSUME NEW p, Provider!Unload(p) PROVE LocksHeld'
    BY <1>12 DEF Provider!Unload
  <1>13. CASE UNCHANGED Provider!vars
    BY <1>13 DEF Provider!vars
  <1>14. CASE Provider!Loading \/ Provider!Streamline
    BY <1>3, <1>4, <1>5, <1>6, <1>7, <1>10, <1>14 DEF Provider!Loading, Provider!Streamline, Provider!Actors
  <1>15. ASSUME NEW a \in Provider!Actors, Provider!Stage(a) PROVE LocksHeld'
    BY <1>8, <1>9, <1>10, <1>15 DEF Provider!Stage
  <1> QED
    BY <1>2, <1>11, <1>12, <1>13, <1>14, <1>15 DEF Provider!Next

(* Only the worker waits, and where it waits it holds nothing that a       *)
(* thread it waits for wants.                                              *)
LEMMA HoldersGoOn == Provider!TypeOK /\ LocksHeld => Provider!WaitsEnd
  <1> SUFFICES ASSUME Provider!TypeOK, LocksHeld,
                      NEW a \in Provider!Actors, NEW b \in Provider!Awaited(a) \ {"panel"}
               PROVE  b # a /\ at[b] \notin {"away", "finished", "sleep"} /\ Provider!Awaited(b) = {}
    BY DEF Provider!WaitsEnd
  <1>1. a = "worker" /\ b \in {maint, loaderLock, streamline} \ {Provider!NoOne}
    BY DEF Provider!Awaited
  <1>2. b # "worker" /\ b \in {"loader", "plugin"} /\ at[b] \notin {"away", "finished", "sleep"}
    BY <1>1 DEF Provider!Awaited, LocksHeld, Provider!Stages
  <1>3. Provider!Awaited(b) = {}
    BY <1>2 DEF Provider!Awaited
  <1> QED
    BY <1>1, <1>2, <1>3

ProviderInv == MappedInv /\ LocksHeld

(* Nothing is held when the addon is loaded, no lock either.               *)
LEMMA ProviderInit == Provider!Init => ProviderInv
  BY MappedInit DEF Provider!Init, ProviderInv, LocksHeld, Provider!NoOne

(* Every step keeps what is held mapped, and the locks where they are held. *)
LEMMA ProviderStep == ProviderInv /\ [Provider!Next]_(Provider!vars) => ProviderInv'
  BY MappedStep, LocksStep DEF ProviderInv, MappedInv, ProviderTyped

(* What was changed was leased or hooked, and who holds a lock waits for   *)
(* nobody.                                                                 *)
LEMMA ProviderSafe == ProviderInv => Provider!TypeOK /\ Provider!ChangedStaysMapped /\ Provider!WaitsEnd
  <1>1. ProviderInv => Provider!TypeOK /\ Provider!ChangedStaysMapped
    BY DEF ProviderInv, MappedInv, ProviderTyped, HeldIsMapped, Provider!ChangedStaysMapped, Provider!Images
  <1> QED
    BY <1>1, HoldersGoOn DEF ProviderInv

----------------------------------------------------------------------------
(* The kernels of a provider (KernelPatches).                              *)

KernelsTyped ==
  /\ settings \in Settings /\ leads \in [Kernels!Slots -> Kernels!Places \cup {0}]
  /\ kernelAt \in {"idle", "applying", "undo", "midpoint", "thin", "detached"} /\ inPlace \subseteq Kernels!Cubins
  /\ left \subseteq Kernels!Kernels /\ rejected \in BOOLEAN /\ thinKept \in BOOLEAN
  /\ redirected \in [Kernels!Subsystems -> SUBSET (Kernels!Slots \X Kernels!Places)] /\ held \in [Kernels!Subsystems -> SUBSET Kernels!Places]
  /\ image = [k \in Kernels!Kernels |-> image[k]]
  /\ copies = [p \in Kernels!Places |-> copies[p]]
  /\ \A p \in Kernels!Places : copies[p] = Kernels!Nowhere \/ copies[p].of \in Kernels!Fatbins

\* Who holds the copies, and how many.
CopiesHeld ==
  /\ \A p \in Kernels!Places : copies[p] # Kernels!Nowhere <=> \E s \in Kernels!Subsystems : p \in held[s]
  /\ \A s, t \in Kernels!Subsystems : s # t => held[s] \cap held[t] = {}
  /\ Cardinality(held["blackwell"]) <= 3 /\ Cardinality(held["midpoint"]) <= 1 /\ Cardinality(held["thin"]) <= 2
  /\ kernelAt = "applying" => Cardinality(held["blackwell"]) + Cardinality(left) <= 3
  /\ kernelAt = "thin" => Cardinality(held["thin"]) + Cardinality(left) <= 2

LeadsHome(k) == \A d \in Kernels!SlotsOf(Home[k]) : leads[d] = 0

ThinUntouched == held["thin"] = {} /\ redirected["thin"] = {} /\ result["thin"] = Kernels!None

\* How far maintenance is.
Stages ==
  /\ kernelAt = "applying" => left \subseteq Kernels!Cubins /\ \A k \in left : LeadsHome(k)
  /\ kernelAt \in {"applying", "undo", "midpoint"} => ~Kernels!Recorded("midpoint") /\ ~thinKept
  /\ kernelAt = "midpoint" => result["blackwell"] = Kernels!None
  /\ kernelAt # "thin" /\ ~thinKept => ThinUntouched /\ LeadsHome("blend") /\ LeadsHome("previous")
  /\ kernelAt = "thin" => /\ left \subseteq {"blend", "previous"} /\ ~thinKept
                          /\ \A k \in left : LeadsHome(k) /\ result["thin"][k] = "none"
  /\ kernelAt = "thin" \/ thinKept => settings.native \/ Kernels!ModuleHasTemporalPatch \/ rejected

\* What is reported, by whom.
Reports ==
  /\ DOMAIN result = Kernels!Subsystems /\ \A s \in Kernels!Subsystems : result[s] = [k \in Kernels!Kernels |-> result[s][k]]
  /\ \A k \in Kernels!Kernels : /\ result["blackwell"][k] # "none" => k \in Kernels!Cubins
                                /\ result["midpoint"][k] # "none" => k = "temporal"
                                /\ result["thin"][k] # "none" => k \in {"blend", "previous", "motion"}
  /\ \A s \in {"blackwell", "midpoint"} : ~Kernels!Recorded(s) => result[s] = Kernels!None

Effective ==
  \A s \in Kernels!Subsystems, k \in Kernels!Kernels : result[s][k] # "none" =>
    \A d \in Kernels!SlotsOf(Home[k]) : Kernels!Leading(d, k) = result[s][k]

KernelsInv ==
  /\ KernelsTyped /\ Kernels!ChangesRecorded
  /\ kernelAt # "detached" => CopiesHeld /\ Stages /\ Reports /\ (kernelAt # "undo" => Effective)

(* There is a place more than kernels.                                     *)
LEMMA PlacesCounted ==
  /\ IsFiniteSet(Kernels!Places) /\ Cardinality(Kernels!Places) = 7 /\ Kernels!Places \subseteq Nat \ {0}
  /\ IsFiniteSet(Kernels!Cubins) /\ Cardinality(Kernels!Cubins) = 3
  /\ Cardinality({}) = 0 /\ IsFiniteSet({"blend", "previous"}) /\ Cardinality({"blend", "previous"}) = 2
  <1>1. IsFiniteSet({}) /\ Cardinality({}) = 0
    BY FS_EmptySet
  <1>2. IsFiniteSet({"motion"}) /\ Cardinality({"motion"}) = 1
    BY FS_Singleton
  <1>3. IsFiniteSet({"motion", "inpaint"}) /\ Cardinality({"motion", "inpaint"}) = 2
    <2>1. {"motion", "inpaint"} = {"motion"} \cup {"inpaint"} /\ "inpaint" \notin {"motion"}
      OBVIOUS
    <2> QED
      BY <1>2, <2>1, FS_AddElement
  <1>4. IsFiniteSet(Kernels!Cubins) /\ Cardinality(Kernels!Cubins) = 3
    <2>1. Kernels!Cubins = {"motion", "inpaint"} \cup {"decision"} /\ "decision" \notin {"motion", "inpaint"}
      BY DEF Kernels!Cubins
    <2> QED
      BY <1>3, <2>1, FS_AddElement
  <1>5. IsFiniteSet(Kernels!Cubins \cup {"temporal"}) /\ Cardinality(Kernels!Cubins \cup {"temporal"}) = 4
    <2>1. "temporal" \notin Kernels!Cubins
      BY DEF Kernels!Cubins
    <2> QED
      BY <1>4, <2>1, FS_AddElement
  <1>6. IsFiniteSet(Kernels!Cubins \cup {"temporal", "blend"}) /\ Cardinality(Kernels!Cubins \cup {"temporal", "blend"}) = 5
    <2>1. "blend" \notin Kernels!Cubins \cup {"temporal"}
          /\ Kernels!Cubins \cup {"temporal", "blend"} = (Kernels!Cubins \cup {"temporal"}) \cup {"blend"}
      BY DEF Kernels!Cubins
    <2> QED
      BY <1>5, <2>1, FS_AddElement
  <1>7. IsFiniteSet(Kernels!Kernels) /\ Cardinality(Kernels!Kernels) = 6
    <2>1. "previous" \notin Kernels!Cubins \cup {"temporal", "blend"}
          /\ Kernels!Kernels = (Kernels!Cubins \cup {"temporal", "blend"}) \cup {"previous"}
      BY DEF Kernels!Cubins, Kernels!Kernels
    <2> QED
      BY <1>6, <2>1, FS_AddElement
  <1>8. Kernels!Places = 1..7
    BY <1>7, KernelsCardinality DEF Kernels!Places
  <1>9. IsFiniteSet(1..7) /\ Cardinality(1..7) = 7
    <2>1. 1 \in Int /\ 7 \in Int
      OBVIOUS
    <2>2. IsFiniteSet(1..7) /\ Cardinality(1..7) = IF 1 > 7 THEN 0 ELSE 7 - 1 + 1
      BY <2>1, FS_Interval
    <2> QED
      BY <2>2
  <1>10. 1..7 \subseteq Nat \ {0}
    OBVIOUS
  <1>11. IsFiniteSet({"blend"}) /\ Cardinality({"blend"}) = 1
    BY FS_Singleton
  <1>12. IsFiniteSet({"blend", "previous"}) /\ Cardinality({"blend", "previous"}) = 2
    <2>1. {"blend", "previous"} = {"blend"} \cup {"previous"} /\ "previous" \notin {"blend"}
      OBVIOUS
    <2> QED
      BY <1>11, <2>1, FS_AddElement
  <1> QED
    BY <1>1, <1>4, <1>8, <1>9, <1>10, <1>12

(* A copy finds its place.                                                 *)
LEMMA FreePlace ==
  ASSUME KernelsTyped, CopiesHeld
  PROVE  Kernels!Free \in Kernels!Places /\ copies[Kernels!Free] = Kernels!Nowhere /\ \A s \in Kernels!Subsystems : Kernels!Free \notin held[s]
  <1> DEFINE b == held["blackwell"]
             m == held["midpoint"]
             n == held["thin"]
  <1>1. b \subseteq Kernels!Places /\ m \subseteq Kernels!Places /\ n \subseteq Kernels!Places
    BY DEF KernelsTyped, Kernels!Subsystems
  <1>2. Cardinality(b) <= 3 /\ Cardinality(m) <= 1 /\ Cardinality(n) <= 2
    BY DEF CopiesHeld
  <1> HIDE DEF b, m, n
  <1>3. IsFiniteSet(b) /\ IsFiniteSet(m) /\ IsFiniteSet(n)
    BY <1>1, PlacesCounted, FS_Subset
  <1>4. IsFiniteSet(b \cup m) /\ Cardinality(b \cup m) <= 4
    <2>1. IsFiniteSet(b \cap m)
      BY <1>3, FS_Intersection
    <2>2. IsFiniteSet(b \cup m) /\ Cardinality(b \cup m) = Cardinality(b) + Cardinality(m) - Cardinality(b \cap m)
      BY <1>3, FS_Union
    <2>3. Cardinality(b) \in Nat /\ Cardinality(m) \in Nat /\ Cardinality(b \cap m) \in Nat
      BY <1>3, <2>1, FS_CardinalityType
    <2> QED
      BY <1>2, <2>2, <2>3
  <1>5. Cardinality((b \cup m) \cup n) <= 6
    <2> DEFINE c == b \cup m
    <2>1. IsFiniteSet(c) /\ Cardinality(c) <= 4
      BY <1>4
    <2> HIDE DEF c
    <2>2. IsFiniteSet(c \cap n)
      BY <1>3, <2>1, FS_Intersection
    <2>3. Cardinality(c \cup n) = Cardinality(c) + Cardinality(n) - Cardinality(c \cap n)
      BY <1>3, <2>1, FS_Union
    <2>4. Cardinality(c) \in Nat /\ Cardinality(n) \in Nat /\ Cardinality(c \cap n) \in Nat
      BY <1>3, <2>1, <2>2, FS_CardinalityType
    <2>5. Cardinality(c \cup n) <= 6
      BY <1>2, <2>1, <2>3, <2>4
    <2> QED
      BY <2>5 DEF c
  <1>6. \E p \in Kernels!Places : copies[p] = Kernels!Nowhere
    <2> SUFFICES ASSUME \A p \in Kernels!Places : copies[p] # Kernels!Nowhere PROVE FALSE
      OBVIOUS
    <2>1. \A p \in Kernels!Places : p \in (b \cup m) \cup n
      BY DEF CopiesHeld, Kernels!Subsystems, b, m, n
    <2>2. (b \cup m) \cup n = Kernels!Places
      BY <1>1, <2>1
    <2>3. Cardinality(Kernels!Places) <= 6
      BY <1>5, <2>2
    <2> QED
      BY <2>3, PlacesCounted
  <1>7. Kernels!Free \in Kernels!Places /\ copies[Kernels!Free] = Kernels!Nowhere
    BY <1>6 DEF Kernels!Free
  <1> QED
    BY <1>7 DEF CopiesHeld

(* What a redirection does, whether it succeeds or some of it is stuck.    *)
Leadable(k) == {d \in Kernels!SlotsOf(Home[k]) : leads[d] = 0}

(* It leads away only what led to the provider, and all of it when it      *)
(* succeeds.                                                               *)
LEMMA WhatRedirects ==
  ASSUME NEW k \in Kernels!Kernels, NEW outcome \in Kernels!Redirections(k)
  PROVE  /\ outcome.slots \subseteq Leadable(k) /\ outcome.ok \in BOOLEAN
         /\ outcome.ok => outcome.slots = Leadable(k) /\ outcome.slots # {}
  <1>1. CASE Leadable(k) = {}
    <2>1. outcome = [ok |-> FALSE, slots |-> {}]
      BY <1>1 DEF Kernels!Redirections, Leadable
    <2> QED
      BY <2>1
  <1>2. CASE Leadable(k) # {}
    <2>1. outcome \in {[ok |-> TRUE, slots |-> Leadable(k)]}
            \cup {[ok |-> FALSE, slots |-> stuck] : stuck \in SUBSET Leadable(k)}
      BY <1>2 DEF Kernels!Redirections, Leadable
    <2>2. CASE outcome = [ok |-> TRUE, slots |-> Leadable(k)]
      BY <1>2, <2>2
    <2>3. CASE outcome \in {[ok |-> FALSE, slots |-> stuck] : stuck \in SUBSET Leadable(k)}
      <3>1. PICK stuck \in SUBSET Leadable(k) : outcome = [ok |-> FALSE, slots |-> stuck]
        BY <2>3
      <3> QED
        BY <3>1
    <2> QED
      BY <2>1, <2>2, <2>3
  <1> QED
    BY <1>1, <1>2

(* ... and what it leads away, and whose copy it is, is recorded.          *)
LEMMA Redirected ==
  ASSUME KernelsTyped, Kernels!ChangesRecorded, CopiesHeld,
         NEW s \in Kernels!Subsystems, NEW k \in Kernels!Kernels, NEW rebuilt, rebuilt # Kernels!Nowhere, rebuilt.of = Home[k],
         NEW with, NEW outcome \in Kernels!Redirections(k), Kernels!Redirect(s, k, rebuilt, with, outcome), UNCHANGED <<image, inPlace>>
  PROVE  /\ leads' \in [Kernels!Slots -> Kernels!Places \cup {0}]
         /\ redirected' \in [Kernels!Subsystems -> SUBSET (Kernels!Slots \X Kernels!Places)] /\ held' \in [Kernels!Subsystems -> SUBSET Kernels!Places]
         /\ copies' = [p \in Kernels!Places |-> copies'[p]]
         /\ \A p \in Kernels!Places : copies'[p] = Kernels!Nowhere \/ copies'[p].of \in Kernels!Fatbins
         /\ Kernels!ChangesRecorded'
         /\ \A p \in Kernels!Places : copies'[p] # Kernels!Nowhere <=> \E t \in Kernels!Subsystems : p \in held'[t]
         /\ \A t, u \in Kernels!Subsystems : t # u => held'[t] \cap held'[u] = {}
         /\ Cardinality(held'[s]) <= Cardinality(held[s]) + 1
         /\ \A t \in Kernels!Subsystems : t # s => held'[t] = held[t] /\ redirected'[t] = redirected[t]
         /\ \A d \in Kernels!Slots : d \notin outcome.slots => leads'[d] = leads[d]
         /\ \A d \in Kernels!Slots : leads[d] # 0 => copies'[leads[d]] = copies[leads[d]]
         /\ \A d \in outcome.slots : d \in Kernels!Slots /\ leads'[d] # 0 /\ copies'[leads'[d]] = rebuilt
         /\ outcome.slots # {} => redirected'[s] # {}
         /\ outcome.slots # {} \/ s = "blackwell" => held'[s] # {}
         /\ redirected[s] \subseteq redirected'[s] /\ held[s] \subseteq held'[s]
  <1> DEFINE f == Kernels!Free
             kept == outcome.slots # {} \/ s = "blackwell"
             more == {<<d, f>> : d \in outcome.slots}
  <1>1. f \in Kernels!Places /\ copies[f] = Kernels!Nowhere /\ (\A t \in Kernels!Subsystems : f \notin held[t]) /\ f # 0
    BY FreePlace, PlacesCounted
  <1>2. /\ leads' = [d \in Kernels!Slots |-> IF d \in outcome.slots THEN f ELSE leads[d]]
        /\ redirected' = [redirected EXCEPT ![s] = redirected[s] \cup more]
        /\ held' = IF kept THEN [held EXCEPT ![s] = held[s] \cup {f}] ELSE held
        /\ copies' = IF kept THEN [copies EXCEPT ![f] = rebuilt] ELSE copies
    BY DEF Kernels!Redirect, Kernels!Lead
  <1> HIDE DEF f
  <1>3. outcome.slots \subseteq Kernels!Slots
    BY WhatRedirects DEF Leadable, Kernels!SlotsOf
  <1>4. leads' \in [Kernels!Slots -> Kernels!Places \cup {0}]
    BY <1>1, <1>2, <1>3 DEF KernelsTyped
  <1>5. more \subseteq Kernels!Slots \X Kernels!Places
    BY <1>1, <1>3
  <1>6. /\ redirected' \in [Kernels!Subsystems -> SUBSET (Kernels!Slots \X Kernels!Places)]
        /\ redirected'[s] = redirected[s] \cup more
        /\ \A t \in Kernels!Subsystems : t # s => redirected'[t] = redirected[t]
    <2>1. redirected \in [Kernels!Subsystems -> SUBSET (Kernels!Slots \X Kernels!Places)]
      BY DEF KernelsTyped
    <2> HIDE DEF more
    <2> QED
      BY <1>2, <1>5, <2>1
  <1>7. /\ held' \in [Kernels!Subsystems -> SUBSET Kernels!Places]
        /\ held'[s] = (IF kept THEN held[s] \cup {f} ELSE held[s])
        /\ \A t \in Kernels!Subsystems : t # s => held'[t] = held[t]
    <2>1. held \in [Kernels!Subsystems -> SUBSET Kernels!Places]
      BY DEF KernelsTyped
    <2> QED
      BY <1>1, <1>2, <2>1
  <1>8. /\ copies' = [p \in Kernels!Places |-> copies'[p]]
        /\ \A p \in Kernels!Places : p # f => copies'[p] = copies[p]
        /\ copies'[f] = (IF kept THEN rebuilt ELSE Kernels!Nowhere)
    <2>1. copies = [p \in Kernels!Places |-> copies[p]]
      BY DEF KernelsTyped
    <2>2. CASE kept
      BY <1>1, <1>2, <2>1, <2>2
    <2>3. CASE ~kept
      BY <1>1, <1>2, <2>1, <2>3
    <2> QED
      BY <2>2, <2>3
  <1>9. \A p \in Kernels!Places : copies'[p] = Kernels!Nowhere \/ copies'[p].of \in Kernels!Fatbins
    <2>1. Home[k] \in Kernels!Fatbins
      BY DEF Kernels!Fatbins
    <2> QED
      BY <1>8, <2>1 DEF KernelsTyped
  <1>10. \A p \in Kernels!Places : copies'[p] # Kernels!Nowhere <=> \E t \in Kernels!Subsystems : p \in held'[t]
    <2> SUFFICES ASSUME NEW p \in Kernels!Places PROVE copies'[p] # Kernels!Nowhere <=> \E t \in Kernels!Subsystems : p \in held'[t]
      OBVIOUS
    <2>1. CASE p # f
      BY <1>7, <1>8, <2>1 DEF CopiesHeld
    <2>2. CASE p = f
      BY <1>1, <1>7, <1>8, <2>2 DEF CopiesHeld
    <2> QED
      BY <2>1, <2>2
  <1>11. \A t, u \in Kernels!Subsystems : t # u => held'[t] \cap held'[u] = {}
    BY <1>1, <1>7 DEF CopiesHeld
  <1>12. Cardinality(held'[s]) <= Cardinality(held[s]) + 1
    <2>1. held[s] \subseteq Kernels!Places
      BY DEF KernelsTyped
    <2>2. IsFiniteSet(held[s])
      BY <2>1, PlacesCounted, FS_Subset
    <2>3. Cardinality(held[s]) \in Nat /\ Cardinality(held[s] \cup {f}) = Cardinality(held[s]) + 1
      BY <1>1, <2>2, FS_AddElement, FS_CardinalityType
    <2> QED
      BY <1>7, <2>3
  <1>13. \A d \in Kernels!Slots : leads[d] # 0 => leads[d] \in Kernels!Places /\ leads[d] # f
    BY <1>1 DEF Kernels!ChangesRecorded, KernelsTyped
  <1>14. \A d \in Kernels!Slots : leads[d] # 0 => copies'[leads[d]] = copies[leads[d]]
    BY <1>8, <1>13
  <1>15. \A d \in outcome.slots : leads'[d] = f /\ d[1] = Home[k] /\ d \in Kernels!Slots
    BY <1>2, <1>3, WhatRedirects DEF Leadable, Kernels!SlotsOf
  <1>16. \A d \in outcome.slots : d \in Kernels!Slots /\ leads'[d] # 0 /\ copies'[leads'[d]] = rebuilt
    BY <1>1, <1>8, <1>15
  <1>17. Kernels!ChangesRecorded'
    <2>1. \A x \in Kernels!Kernels : image'[x] # "native" => x \in inPlace'
      BY DEF Kernels!ChangesRecorded
    <2>2. ASSUME NEW d \in Kernels!Slots, leads'[d] # 0
          PROVE  /\ copies'[leads'[d]].of = d[1]
                 /\ \E t \in Kernels!Subsystems : <<d, leads'[d]>> \in redirected'[t] /\ leads'[d] \in held'[t]
      <3>1. CASE d \in outcome.slots
        <4>1. <<d, f>> \in more
          BY <3>1
        <4> QED
          BY <1>6, <1>7, <1>15, <1>16, <3>1, <4>1
      <3>2. CASE d \notin outcome.slots
        <4>1. leads'[d] = leads[d] /\ leads[d] # 0
          BY <1>2, <2>2, <3>2
        <4>2. copies[leads[d]].of = d[1]
          BY <4>1 DEF Kernels!ChangesRecorded
        <4>3. PICK t \in Kernels!Subsystems : <<d, leads[d]>> \in redirected[t] /\ leads[d] \in held[t]
          BY <4>1 DEF Kernels!ChangesRecorded
        <4>4. <<d, leads[d]>> \in redirected'[t] /\ leads[d] \in held'[t]
          BY <1>6, <1>7, <4>3
        <4> QED
          BY <1>14, <4>1, <4>2, <4>4
      <3> QED
        BY <3>1, <3>2
    <2> QED
      BY <2>1, <2>2 DEF Kernels!ChangesRecorded
  <1>18. \A d \in Kernels!Slots : d \notin outcome.slots => leads'[d] = leads[d]
    BY <1>2
  <1>19. /\ outcome.slots # {} => redirected'[s] # {}
         /\ kept => held'[s] # {}
         /\ redirected[s] \subseteq redirected'[s] /\ held[s] \subseteq held'[s]
    <2>1. outcome.slots # {} => more # {}
      OBVIOUS
    <2> QED
      BY <1>6, <1>7, <2>1
  <1> QED
    BY <1>4, <1>6, <1>7, <1>8, <1>9, <1>10, <1>11, <1>12, <1>14, <1>16, <1>17, <1>18, <1>19

(* Taking elements off a set that is counted.                              *)
LEMMA FewerLeft ==
  ASSUME NEW big, IsFiniteSet(big), NEW small, small \subseteq big
  PROVE  Cardinality(small) <= Cardinality(big) /\ Cardinality(small) \in Nat /\ Cardinality(big) \in Nat
  BY FS_Subset, FS_CardinalityType

(* ... or one element.                                                     *)
LEMMA OneLess ==
  ASSUME NEW big, IsFiniteSet(big), NEW x \in big
  PROVE  Cardinality(big) \in Nat /\ Cardinality(big \ {x}) \in Nat /\ Cardinality(big \ {x}) = Cardinality(big) - 1
  <1>1. IsFiniteSet(big \ {x}) /\ Cardinality(big \ {x}) = Cardinality(big) - 1
    BY FS_RemoveElement
  <1> QED
    BY <1>1, FS_CardinalityType

(* The lowest of the candidates is one of them.                            *)
LEMMA LowestIn ==
  ASSUME NEW ks \in SUBSET Kernels!Cubins, ks # {}
  PROVE  Kernels!Lowest(ks) \in ks /\ \A l \in ks : Order[Kernels!Lowest(ks)] <= Order[l]
  <1>1. Order["motion"] \in Nat /\ Order["inpaint"] \in Nat /\ Order["decision"] \in Nat
    BY KernelsAssumption DEF Kernels!Cubins
  <1>2. \E k \in ks : \A l \in ks : Order[k] <= Order[l]
    <2> DEFINE a == Order["motion"]
               b == Order["inpaint"]
               c == Order["decision"]
    <2>1. \A k \in ks : \/ k = "motion" /\ Order[k] = a
                        \/ k = "inpaint" /\ Order[k] = b
                        \/ k = "decision" /\ Order[k] = c
      <3> SUFFICES ASSUME NEW k \in ks
                   PROVE  \/ k = "motion" /\ Order[k] = a
                          \/ k = "inpaint" /\ Order[k] = b
                          \/ k = "decision" /\ Order[k] = c
        OBVIOUS
      <3>1. k = "motion" \/ k = "inpaint" \/ k = "decision"
        BY DEF Kernels!Cubins
      <3> QED
        BY <3>1
    <2>2. a \in Nat /\ b \in Nat /\ c \in Nat
      BY <1>1
    <2> HIDE DEF a, b, c
    <2>3. SUFFICES ASSUME \A k \in ks : \E l \in ks : ~(Order[k] <= Order[l]) PROVE FALSE
      OBVIOUS
    <2>4. CASE "motion" \in ks /\ "inpaint" \in ks
      BY <2>1, <2>2, <2>3, <2>4
    <2>5. CASE "motion" \notin ks
      BY <2>1, <2>2, <2>3, <2>5
    <2>6. CASE "inpaint" \notin ks
      BY <2>1, <2>2, <2>3, <2>6
    <2> QED
      BY <2>4, <2>5, <2>6
  <1> QED
    BY <1>2 DEF Kernels!Lowest

(* With nothing recorded, every descriptor leads to the provider's fatbin. *)
LEMMA AllHome ==
  ASSUME Kernels!ChangesRecorded, ~Kernels!ModuleHasTemporalPatch, ThinUntouched
  PROVE  \A k \in Kernels!Kernels : LeadsHome(k)
  BY DEF Kernels!ChangesRecorded, Kernels!ModuleHasTemporalPatch, Kernels!Recorded, ThinUntouched,
     LeadsHome, Kernels!SlotsOf, Kernels!Subsystems

(* A provider is untouched at first.                                       *)
LEMMA KernelsInit == Kernels!Init => KernelsInv
  <1> SUFFICES ASSUME Kernels!Init PROVE KernelsInv
    OBVIOUS
  <1> USE DEF Kernels!Init
  <1>1. KernelsTyped
    BY DEF KernelsTyped, Kernels!Native, Kernels!Subsystems
  <1>2. Kernels!ChangesRecorded
    BY DEF Kernels!ChangesRecorded, Kernels!Native
  <1>3. CopiesHeld
    BY PlacesCounted DEF CopiesHeld, Kernels!Subsystems
  <1>4. \A s \in Kernels!Subsystems : result[s] = Kernels!None
    BY DEF Kernels!NoRecord
  <1>5. Stages
    BY <1>4 DEF Stages, ThinUntouched, LeadsHome, Kernels!SlotsOf, Kernels!Subsystems
  <1>6. Reports
    BY <1>4 DEF Reports, Kernels!NoRecord, Kernels!None, Kernels!Subsystems
  <1>7. Effective
    BY <1>4 DEF Effective, Kernels!None
  <1> QED
    BY <1>1, <1>2, <1>3, <1>5, <1>6, <1>7 DEF KernelsInv

(* The steps that only say what comes next.                                *)
LEMMA StepPatchTemporalInModule == KernelsInv /\ Kernels!PatchTemporalInModule => KernelsInv'
  <1> SUFFICES ASSUME KernelsInv, Kernels!PatchTemporalInModule PROVE KernelsInv'
    OBVIOUS
  <1>1. /\ kernelAt = "idle" /\ ~Kernels!ModuleHasTemporalPatch /\ ~settings.native /\ ~rejected
        /\ \/ kernelAt' = "applying" /\ left' = settings.matched
           \/ kernelAt' = "midpoint" /\ left' = left
        /\ UNCHANGED <<settings, image, leads, copies, inPlace, redirected, held, result, rejected, thinKept>>
    BY DEF Kernels!PatchTemporalInModule
  <1>2. KernelsTyped /\ Kernels!ChangesRecorded /\ CopiesHeld /\ Stages /\ Reports /\ Effective
    BY <1>1 DEF KernelsInv
  <1>3. ~thinKept /\ ThinUntouched
    BY <1>1, <1>2 DEF Stages
  <1>4. \A k \in Kernels!Kernels : LeadsHome(k)
    BY <1>1, <1>2, <1>3, AllHome
  <1>5. settings.matched \subseteq Kernels!Cubins
    BY <1>2, KernelsAssumption DEF KernelsTyped
  <1>6. KernelsTyped'
    BY <1>1, <1>2, <1>5 DEF KernelsTyped, Kernels!Kernels
  <1>7. Kernels!ChangesRecorded'
    BY <1>1, <1>2 DEF Kernels!ChangesRecorded
  <1>8. CopiesHeld'
    <2>1. kernelAt' = "applying" => Cardinality(held'["blackwell"]) + Cardinality(left') <= 3
      <3>1. Cardinality(settings.matched) <= 3 /\ Cardinality(settings.matched) \in Nat
        BY <1>5, PlacesCounted, FewerLeft
      <3>2. held["blackwell"] = {} /\ Cardinality({}) = 0
        BY <1>1, PlacesCounted DEF Kernels!ModuleHasTemporalPatch, Kernels!Recorded
      <3> QED
        BY <1>1, <3>1, <3>2
    <2> QED
      BY <1>1, <1>2, <2>1 DEF CopiesHeld
  <1>9. Stages'
    <2>1. (Kernels!Recorded("midpoint") <=> Kernels!Recorded("midpoint")') /\ (Kernels!ModuleHasTemporalPatch <=> Kernels!ModuleHasTemporalPatch')
      BY <1>1 DEF Kernels!Recorded, Kernels!ModuleHasTemporalPatch
    <2>2. \A k \in Kernels!Kernels : LeadsHome(k)'
      BY <1>1, <1>4 DEF LeadsHome
    <2>3. ThinUntouched' /\ ~Kernels!Recorded("midpoint") /\ result["blackwell"] = Kernels!None
      BY <1>1, <1>2, <1>3 DEF ThinUntouched, Kernels!ModuleHasTemporalPatch, Reports
    <2> QED
      BY <1>1, <1>2, <1>3, <1>5, <2>1, <2>2, <2>3 DEF Stages, Kernels!Kernels
  <1>10. Reports'
    BY <1>1, <1>2 DEF Reports, Kernels!Recorded
  <1>11. Effective'
    BY <1>1, <1>2 DEF Effective, Kernels!Leading
  <1> QED
    BY <1>6, <1>7, <1>8, <1>9, <1>10, <1>11 DEF KernelsInv

(* When all candidates were reached.                                       *)
LEMMA StepFinishApply == KernelsInv /\ Kernels!FinishApply => KernelsInv'
  <1> SUFFICES ASSUME KernelsInv, Kernels!FinishApply PROVE KernelsInv'
    OBVIOUS
  <1>1. /\ kernelAt = "applying" /\ left = {} /\ kernelAt' = "idle"
        /\ UNCHANGED <<settings, image, leads, copies, left, inPlace, redirected, held, result, rejected, thinKept>>
    BY DEF Kernels!FinishApply
  <1>2. KernelsTyped /\ Kernels!ChangesRecorded /\ CopiesHeld /\ Stages /\ Reports /\ Effective
    BY <1>1 DEF KernelsInv
  <1>3. KernelsTyped' /\ Kernels!ChangesRecorded'
    BY <1>1, <1>2 DEF KernelsTyped, Kernels!ChangesRecorded
  <1>4. CopiesHeld'
    BY <1>1, <1>2 DEF CopiesHeld
  <1>5. Stages'
    BY <1>1, <1>2 DEF Stages, ThinUntouched, LeadsHome
  <1>6. Reports' /\ Effective'
    BY <1>1, <1>2 DEF Reports, Kernels!Recorded, Effective, Kernels!Leading
  <1> QED
    BY <1>3, <1>4, <1>5, <1>6 DEF KernelsInv

(* When the temporal patch has its outcome.                                *)
LEMMA StepPatchThinGeometryInModule == KernelsInv /\ Kernels!PatchThinGeometryInModule => KernelsInv'
  <1> SUFFICES ASSUME KernelsInv, Kernels!PatchThinGeometryInModule PROVE KernelsInv'
    OBVIOUS
  <1>1. /\ kernelAt = "idle" /\ ~thinKept /\ kernelAt' = "thin" /\ left' \subseteq {"blend", "previous"}
        /\ settings.native \/ Kernels!ModuleHasTemporalPatch \/ rejected
        /\ UNCHANGED <<settings, image, leads, copies, inPlace, redirected, held, result, rejected, thinKept>>
    <2>1. left' \subseteq {"blend", "previous"}
      BY DEF Kernels!PatchThinGeometryInModule
    <2> QED
      BY <2>1 DEF Kernels!PatchThinGeometryInModule
  <1>2. KernelsTyped /\ Kernels!ChangesRecorded /\ CopiesHeld /\ Stages /\ Reports /\ Effective
    BY <1>1 DEF KernelsInv
  <1>3. ThinUntouched /\ LeadsHome("blend") /\ LeadsHome("previous")
    BY <1>1, <1>2 DEF Stages
  <1>4. KernelsTyped' /\ Kernels!ChangesRecorded'
    BY <1>1, <1>2 DEF KernelsTyped, Kernels!ChangesRecorded, Kernels!Kernels
  <1>5. CopiesHeld'
    <2>1. Cardinality(left') <= 2 /\ Cardinality(left') \in Nat
      BY <1>1, PlacesCounted, FewerLeft
    <2>2. held["thin"] = {} /\ Cardinality({}) = 0
      BY <1>3, PlacesCounted DEF ThinUntouched
    <2>3. Cardinality(held'["thin"]) + Cardinality(left') <= 2
      BY <1>1, <2>1, <2>2
    <2> QED
      BY <1>1, <1>2, <2>3 DEF CopiesHeld
  <1>6. Stages'
    <2>1. LeadsHome("blend")' /\ LeadsHome("previous")' /\ (Kernels!ModuleHasTemporalPatch <=> Kernels!ModuleHasTemporalPatch')
      BY <1>1, <1>3 DEF LeadsHome, Kernels!Recorded, Kernels!ModuleHasTemporalPatch
    <2>2. result["thin"]["blend"] = "none" /\ result["thin"]["previous"] = "none"
      BY <1>3 DEF ThinUntouched, Kernels!None, Kernels!Kernels
    <2> QED
      BY <1>1, <1>2, <2>1, <2>2 DEF Stages
  <1>7. Reports' /\ Effective'
    BY <1>1, <1>2 DEF Reports, Kernels!Recorded, Effective, Kernels!Leading
  <1> QED
    BY <1>4, <1>5, <1>6, <1>7 DEF KernelsInv

(* The record of thin geometry repeats what another reports.               *)
LEMMA StepKeepThinGeometryResult == KernelsInv /\ Kernels!KeepThinGeometryResult => KernelsInv'
  <1> SUFFICES ASSUME KernelsInv, Kernels!KeepThinGeometryResult PROVE KernelsInv'
    OBVIOUS
  <1>1. PICK r : /\ kernelAt = "thin" /\ left = {} /\ kernelAt' = "idle" /\ thinKept' = TRUE
                 /\ result' = [result EXCEPT !["thin"]["motion"] = r]
                 /\ r = "none" \/ r = result["blackwell"]["motion"]
                 /\ UNCHANGED <<settings, image, leads, copies, left, inPlace, redirected, held, rejected>>
    BY DEF Kernels!KeepThinGeometryResult
  <1>2. KernelsTyped /\ Kernels!ChangesRecorded /\ CopiesHeld /\ Stages /\ Reports /\ Effective
    BY <1>1 DEF KernelsInv
  <1>3. /\ DOMAIN result' = Kernels!Subsystems /\ \A s \in Kernels!Subsystems : result'[s] = [k \in Kernels!Kernels |-> result'[s][k]]
        /\ result'["thin"]["motion"] = r
        /\ \A s \in Kernels!Subsystems : s # "thin" => result'[s] = result[s]
        /\ \A k \in Kernels!Kernels : k # "motion" => result'["thin"][k] = result["thin"][k]
    <2>1. result' = [result EXCEPT !["thin"] = [result["thin"] EXCEPT !["motion"] = r]]
      BY <1>1
    <2>2. DOMAIN result = Kernels!Subsystems /\ "thin" \in Kernels!Subsystems /\ "motion" \in Kernels!Kernels
      BY <1>2 DEF Reports, Kernels!Subsystems, Kernels!Kernels, Kernels!Cubins
    <2>3. /\ DOMAIN result' = Kernels!Subsystems /\ result'["thin"] = [result["thin"] EXCEPT !["motion"] = r]
          /\ \A s \in Kernels!Subsystems : s # "thin" => result'[s] = result[s]
      BY <2>1, <2>2 DEF Reports
    <2>4. result["thin"] = [k \in Kernels!Kernels |-> result["thin"][k]]
      BY <1>2, <2>2 DEF Reports
    <2>5. /\ result'["thin"] = [k \in Kernels!Kernels |-> result'["thin"][k]] /\ result'["thin"]["motion"] = r
          /\ \A k \in Kernels!Kernels : k # "motion" => result'["thin"][k] = result["thin"][k]
      BY <2>2, <2>3, <2>4
    <2> QED
      BY <1>2, <2>3, <2>5 DEF Reports
  <1>4. KernelsTyped' /\ Kernels!ChangesRecorded'
    BY <1>1, <1>2 DEF KernelsTyped, Kernels!ChangesRecorded
  <1>5. CopiesHeld'
    BY <1>1, <1>2 DEF CopiesHeld
  <1>6. Stages'
    BY <1>1, <1>2 DEF Stages, Kernels!Recorded, Kernels!ModuleHasTemporalPatch
  <1>7. Reports'
    <2>1. \A s \in Kernels!Subsystems : Kernels!Recorded(s) <=> Kernels!Recorded(s)'
      BY <1>1 DEF Kernels!Recorded
    <2> QED
      BY <1>2, <1>3, <2>1 DEF Reports, Kernels!Subsystems
  <1>8. Effective'
    <2> SUFFICES ASSUME NEW s \in Kernels!Subsystems, NEW k \in Kernels!Kernels, result'[s][k] # "none", NEW d \in Kernels!SlotsOf(Home[k])
                 PROVE  Kernels!Leading(d, k)' = result'[s][k]
      BY DEF Effective, Kernels!SlotsOf
    <2>1. Kernels!Leading(d, k)' = Kernels!Leading(d, k)
      BY <1>1 DEF Kernels!Leading
    <2>2. CASE s = "thin" /\ k = "motion"
      <3>1. result'[s][k] = result["blackwell"][k] /\ "blackwell" \in Kernels!Subsystems
        BY <1>1, <1>3, <2>2 DEF Kernels!Subsystems
      <3> QED
        BY <1>2, <2>1, <3>1 DEF Effective
    <2>3. CASE ~(s = "thin" /\ k = "motion")
      <3>1. result'[s][k] = result[s][k]
        BY <1>3, <2>3
      <3> QED
        BY <1>2, <2>1, <3>1 DEF Effective
    <2> QED
      BY <2>2, <2>3
  <1> QED
    BY <1>4, <1>5, <1>6, <1>7, <1>8 DEF KernelsInv

(* A kernel written in its slot.                                           *)
LEMMA StepApplyInPlace == KernelsInv /\ Kernels!ApplyInPlace => KernelsInv'
  <1> SUFFICES ASSUME KernelsInv, Kernels!ApplyInPlace PROVE KernelsInv'
    OBVIOUS
  <1> DEFINE k == Kernels!Lowest(left)
  <1>1. kernelAt = "applying" /\ left # {}
    BY DEF Kernels!ApplyInPlace
  <1>2. KernelsTyped /\ Kernels!ChangesRecorded /\ CopiesHeld /\ Stages /\ Reports /\ Effective
    BY <1>1 DEF KernelsInv
  <1>3. k \in left /\ k \in Kernels!Cubins /\ k \in Kernels!Kernels /\ left \subseteq Kernels!Cubins
    <2>1. left \subseteq Kernels!Cubins
      BY <1>1, <1>2 DEF Stages
    <2> QED
      BY <1>1, <2>1, LowestIn DEF Kernels!Kernels
  <1>4. ~Kernels!Recorded("midpoint") /\ ~thinKept /\ ThinUntouched /\ LeadsHome("blend") /\ LeadsHome("previous") /\ LeadsHome(k)
    BY <1>1, <1>2, <1>3 DEF Stages
  <1>5. UNCHANGED <<settings, leads, copies, redirected, held, rejected, thinKept>>
    BY DEF Kernels!ApplyInPlace
  <1>6. \/ /\ image' = [image EXCEPT ![k] = Kernels!Replacement(k)] /\ inPlace' = inPlace \cup {k}
           /\ result' = [result EXCEPT !["blackwell"][k] = Kernels!Replacement(k)]
           /\ left' = left \ {k} /\ kernelAt' = kernelAt
        \/ kernelAt' = "undo" /\ UNCHANGED <<image, inPlace, result, left>>
    BY DEF Kernels!ApplyInPlace
  <1> HIDE DEF k
  <1>7. CASE kernelAt' = "undo" /\ UNCHANGED <<image, inPlace, result, left>>
    <2>1. KernelsTyped' /\ Kernels!ChangesRecorded'
      BY <1>2, <1>5, <1>7 DEF KernelsTyped, Kernels!ChangesRecorded
    <2>2. CopiesHeld' /\ Reports'
      BY <1>2, <1>5, <1>7 DEF CopiesHeld, Reports, Kernels!Recorded
    <2>3. Stages'
      BY <1>4, <1>5, <1>7 DEF Stages, Kernels!Recorded, ThinUntouched, LeadsHome
    <2> QED
      BY <1>7, <2>1, <2>2, <2>3 DEF KernelsInv
  <1>8. CASE /\ image' = [image EXCEPT ![k] = Kernels!Replacement(k)] /\ inPlace' = inPlace \cup {k}
             /\ result' = [result EXCEPT !["blackwell"][k] = Kernels!Replacement(k)]
             /\ left' = left \ {k} /\ kernelAt' = kernelAt
    <2>1. /\ image' = [x \in Kernels!Kernels |-> image'[x]] /\ image'[k] = Kernels!Replacement(k)
          /\ \A x \in Kernels!Kernels : x # k => image'[x] = image[x]
      <3>1. image = [x \in Kernels!Kernels |-> image[x]]
        BY <1>2 DEF KernelsTyped
      <3> QED
        BY <1>3, <1>8, <3>1
    <2>2. /\ DOMAIN result' = Kernels!Subsystems /\ \A s \in Kernels!Subsystems : result'[s] = [x \in Kernels!Kernels |-> result'[s][x]]
          /\ result'["blackwell"][k] = Kernels!Replacement(k)
          /\ \A s \in Kernels!Subsystems : s # "blackwell" => result'[s] = result[s]
          /\ \A x \in Kernels!Kernels : x # k => result'["blackwell"][x] = result["blackwell"][x]
      <3>1. result' = [result EXCEPT !["blackwell"] = [result["blackwell"] EXCEPT ![k] = Kernels!Replacement(k)]]
        BY <1>8
      <3>2. DOMAIN result = Kernels!Subsystems /\ "blackwell" \in Kernels!Subsystems
        BY <1>2 DEF Reports, Kernels!Subsystems
      <3>3. /\ DOMAIN result' = Kernels!Subsystems /\ result'["blackwell"] = [result["blackwell"] EXCEPT ![k] = Kernels!Replacement(k)]
            /\ \A s \in Kernels!Subsystems : s # "blackwell" => result'[s] = result[s]
        BY <3>1, <3>2
      <3>4. result["blackwell"] = [x \in Kernels!Kernels |-> result["blackwell"][x]]
        BY <1>2, <3>2 DEF Reports
      <3>5. /\ result'["blackwell"] = [x \in Kernels!Kernels |-> result'["blackwell"][x]] /\ result'["blackwell"][k] = Kernels!Replacement(k)
            /\ \A x \in Kernels!Kernels : x # k => result'["blackwell"][x] = result["blackwell"][x]
        BY <1>3, <3>3, <3>4
      <3> QED
        BY <1>2, <3>3, <3>5 DEF Reports
    <2>3. KernelsTyped'
      BY <1>2, <1>3, <1>5, <1>8, <2>1 DEF KernelsTyped
    <2>4. Kernels!ChangesRecorded'
      <3>1. \A x \in Kernels!Kernels : image'[x] # "native" => x \in inPlace'
        BY <1>2, <1>8, <2>1 DEF Kernels!ChangesRecorded
      <3> QED
        BY <1>2, <1>5, <3>1 DEF Kernels!ChangesRecorded
    <2>5. CopiesHeld'
      <3>1. Cardinality(held'["blackwell"]) + Cardinality(left') <= 3
        <4>1. IsFiniteSet(left)
          BY <1>3, PlacesCounted, FS_Subset
        <4>2. Cardinality(left) \in Nat /\ Cardinality(left \ {k}) \in Nat /\ Cardinality(left \ {k}) = Cardinality(left) - 1
          BY <1>3, <4>1, OneLess
        <4>3. held["blackwell"] \subseteq Kernels!Places
          BY <1>2 DEF KernelsTyped, Kernels!Subsystems
        <4>4. Cardinality(held["blackwell"]) \in Nat
          BY <4>3, PlacesCounted, FewerLeft
        <4>5. Cardinality(held["blackwell"]) + Cardinality(left) <= 3
          BY <1>1, <1>2 DEF CopiesHeld
        <4> QED
          BY <1>5, <1>8, <4>2, <4>4, <4>5
      <3> QED
        BY <1>1, <1>2, <1>5, <1>8, <3>1 DEF CopiesHeld
    <2>6. Stages'
      <3>1. result'["thin"] = result["thin"]
        BY <2>2 DEF Kernels!Subsystems
      <3>2. \A x \in left' : LeadsHome(x)'
        BY <1>1, <1>2, <1>5, <1>8 DEF Stages, LeadsHome
      <3>3. LeadsHome("blend")' /\ LeadsHome("previous")' /\ ThinUntouched' /\ ~Kernels!Recorded("midpoint")' /\ ~thinKept'
        BY <1>4, <1>5, <3>1 DEF LeadsHome, ThinUntouched, Kernels!Recorded
      <3>4. left' \subseteq Kernels!Cubins /\ kernelAt' = "applying"
        BY <1>1, <1>3, <1>8
      <3> QED
        BY <3>2, <3>3, <3>4 DEF Stages
    <2>7. Reports'
      <3>1. Kernels!Recorded("blackwell")' /\ (Kernels!Recorded("midpoint") <=> Kernels!Recorded("midpoint")')
        BY <1>5, <1>8 DEF Kernels!Recorded
      <3>2. result'["midpoint"] = result["midpoint"] /\ result'["thin"] = result["thin"]
        BY <2>2 DEF Kernels!Subsystems
      <3>3. \A x \in Kernels!Kernels : result'["blackwell"][x] # "none" => x \in Kernels!Cubins
        BY <1>2, <1>3, <2>2 DEF Reports
      <3> QED
        BY <1>2, <2>2, <3>1, <3>2, <3>3 DEF Reports
    <2>8. Effective'
      <3> SUFFICES ASSUME NEW s \in Kernels!Subsystems, NEW x \in Kernels!Kernels, result'[s][x] # "none", NEW d \in Kernels!SlotsOf(Home[x])
                   PROVE  Kernels!Leading(d, x)' = result'[s][x]
        BY DEF Effective, Kernels!SlotsOf
      <3>1. CASE x = k
        <4>1. s = "blackwell"
          <5>1. CASE s = "midpoint"
            <6>1. result["midpoint"][k] # "none"
              BY <2>2, <3>1, <5>1
            <6> QED
              BY <1>2, <1>3, <6>1 DEF Reports, Kernels!Cubins
          <5>2. CASE s = "thin"
            <6>1. result["thin"][k] # "none"
              BY <2>2, <3>1, <5>2
            <6> QED
              BY <1>3, <1>4, <6>1 DEF ThinUntouched, Kernels!None
          <5> QED
            BY <5>1, <5>2 DEF Kernels!Subsystems
        <4>2. leads'[d] = 0
          BY <1>4, <1>5, <3>1 DEF LeadsHome
        <4> QED
          BY <2>1, <2>2, <3>1, <4>1, <4>2 DEF Kernels!Leading
      <3>2. CASE x # k
        <4>1. result'[s][x] = result[s][x]
          BY <2>2, <3>2
        <4>2. Kernels!Leading(d, x)' = Kernels!Leading(d, x)
          BY <1>5, <2>1, <3>2 DEF Kernels!Leading
        <4> QED
          BY <1>2, <4>1, <4>2 DEF Effective
      <3> QED
        BY <3>1, <3>2
    <2> QED
      BY <1>1, <1>8, <2>3, <2>4, <2>5, <2>6, <2>7, <2>8 DEF KernelsInv
  <1> QED
    BY <1>6, <1>7, <1>8

(* Taking back what is recorded, for the subsystems of `of`.               *)
LEMMA TakenBack ==
  ASSUME KernelsTyped, Kernels!ChangesRecorded, CopiesHeld, NEW of \in SUBSET Kernels!Subsystems,
         NEW stuck, NEW stuckKernels \in SUBSET inPlace,
         leads' = Kernels!BackIn(UNION {redirected[s] : s \in of}, stuck),
         image' = [k \in Kernels!Kernels |-> IF k \in inPlace \ stuckKernels THEN "native" ELSE image[k]],
         inPlace' = stuckKernels,
         redirected' = [s \in Kernels!Subsystems |-> IF s \in of THEN Kernels!Kept(redirected[s], stuck) ELSE redirected[s]],
         copies' = Kernels!Released(UNION {Kernels!Freeable(s, Kernels!Kept(redirected[s], stuck), stuckKernels) : s \in of}),
         held' = [s \in Kernels!Subsystems |->
                    IF s \in of THEN held[s] \ Kernels!Freeable(s, Kernels!Kept(redirected[s], stuck), stuckKernels) ELSE held[s]]
  PROVE  /\ leads' \in [Kernels!Slots -> Kernels!Places \cup {0}] /\ image' = [k \in Kernels!Kernels |-> image'[k]] /\ inPlace' \subseteq Kernels!Cubins
         /\ redirected' \in [Kernels!Subsystems -> SUBSET (Kernels!Slots \X Kernels!Places)] /\ held' \in [Kernels!Subsystems -> SUBSET Kernels!Places]
         /\ copies' = [p \in Kernels!Places |-> copies'[p]]
         /\ \A p \in Kernels!Places : copies'[p] = Kernels!Nowhere \/ copies'[p].of \in Kernels!Fatbins
         /\ Kernels!ChangesRecorded'
         /\ \A d \in Kernels!Slots : leads'[d] = 0 \/ leads'[d] = leads[d]
         /\ \A p \in Kernels!Places : copies'[p] # Kernels!Nowhere <=> \E t \in Kernels!Subsystems : p \in held'[t]
         /\ \A s \in Kernels!Subsystems : held'[s] \subseteq held[s] /\ redirected'[s] \subseteq redirected[s]
  <1> DEFINE free(s) == Kernels!Freeable(s, Kernels!Kept(redirected[s], stuck), stuckKernels)
  <1>1. /\ \A d \in Kernels!Slots : leads'[d] = 0 \/ leads'[d] = leads[d]
        /\ leads' = [d \in Kernels!Slots |-> leads'[d]]
        /\ \A d \in Kernels!Slots, s \in of, p \in Kernels!Places : leads'[d] # 0 /\ <<d, p>> \in redirected[s] => d \in stuck
    <2>1. leads' = [d \in Kernels!Slots |-> IF (\E p \in Kernels!Places : <<d, p>> \in UNION {redirected[s] : s \in of}) /\ d \notin stuck
                                     THEN 0 ELSE leads[d]]
      BY DEF Kernels!BackIn
    <2> QED
      BY <2>1
  <1>2. \A s \in of : free(s) \subseteq held[s]
    BY DEF Kernels!Freeable
  <1>3. /\ \A s \in of : s \in Kernels!Subsystems /\ redirected'[s] = Kernels!Kept(redirected[s], stuck) /\ held'[s] = held[s] \ free(s)
        /\ \A s \in Kernels!Subsystems : s \notin of => redirected'[s] = redirected[s] /\ held'[s] = held[s]
    OBVIOUS
  <1>4. /\ copies' = [p \in Kernels!Places |-> copies'[p]]
        /\ \A p \in Kernels!Places : (\E s \in of : p \in free(s)) => copies'[p] = Kernels!Nowhere
        /\ \A p \in Kernels!Places : (\A s \in of : p \notin free(s)) => copies'[p] = copies[p]
    <2>1. copies' = [p \in Kernels!Places |-> IF p \in UNION {free(s) : s \in of} THEN Kernels!Nowhere ELSE copies[p]]
      BY DEF Kernels!Released
    <2> HIDE DEF free
    <2> QED
      BY <2>1
  <1>5. \A s \in Kernels!Subsystems : held'[s] \subseteq held[s] /\ redirected'[s] \subseteq redirected[s]
    <2>1. \A s \in of : Kernels!Kept(redirected[s], stuck) \subseteq redirected[s]
      BY DEF Kernels!Kept
    <2> HIDE DEF free
    <2> QED
      BY <1>3, <2>1
  <1>6. redirected' \in [Kernels!Subsystems -> SUBSET (Kernels!Slots \X Kernels!Places)] /\ held' \in [Kernels!Subsystems -> SUBSET Kernels!Places]
    <2>1. \A s \in Kernels!Subsystems : redirected[s] \subseteq Kernels!Slots \X Kernels!Places /\ held[s] \subseteq Kernels!Places
      BY DEF KernelsTyped
    <2>2. redirected' = [s \in Kernels!Subsystems |-> redirected'[s]] /\ held' = [s \in Kernels!Subsystems |-> held'[s]]
      OBVIOUS
    <2>3. \A s \in Kernels!Subsystems : redirected'[s] \in SUBSET (Kernels!Slots \X Kernels!Places) /\ held'[s] \in SUBSET Kernels!Places
      BY <1>5, <2>1
    <2> QED
      BY <2>2, <2>3
  <1>7. leads' \in [Kernels!Slots -> Kernels!Places \cup {0}]
    <2>1. \A d \in Kernels!Slots : leads'[d] \in Kernels!Places \cup {0}
      BY <1>1 DEF KernelsTyped
    <2> QED
      BY <1>1, <2>1
  <1>8. \A p \in Kernels!Places : copies'[p] = Kernels!Nowhere \/ copies'[p].of \in Kernels!Fatbins
    BY <1>4 DEF KernelsTyped
  <1>9. \A p \in Kernels!Places : copies'[p] # Kernels!Nowhere <=> \E t \in Kernels!Subsystems : p \in held'[t]
    <2> SUFFICES ASSUME NEW p \in Kernels!Places PROVE copies'[p] # Kernels!Nowhere <=> \E t \in Kernels!Subsystems : p \in held'[t]
      OBVIOUS
    <2> HIDE DEF free
    <2>1. CASE \E s \in of : p \in free(s)
      <3>1. PICK s \in of : p \in free(s)
        BY <2>1
      <3>2. \A t \in Kernels!Subsystems : t # s => p \notin held[t]
        BY <1>2, <3>1 DEF CopiesHeld
      <3>3. \A t \in Kernels!Subsystems : p \notin held'[t]
        BY <1>3, <1>5, <3>1, <3>2
      <3> QED
        BY <1>4, <2>1, <3>3
    <2>2. CASE \A s \in of : p \notin free(s)
      <3>1. \A t \in Kernels!Subsystems : p \in held'[t] <=> p \in held[t]
        BY <1>3, <2>2
      <3> QED
        BY <1>4, <2>2, <3>1 DEF CopiesHeld
    <2> QED
      BY <2>1, <2>2
  <1>10. Kernels!ChangesRecorded'
    <2>1. \A x \in Kernels!Kernels : image'[x] # "native" => x \in inPlace'
      BY DEF Kernels!ChangesRecorded
    <2>2. ASSUME NEW d \in Kernels!Slots, leads'[d] # 0
          PROVE  /\ copies'[leads'[d]].of = d[1]
                 /\ \E t \in Kernels!Subsystems : <<d, leads'[d]>> \in redirected'[t] /\ leads'[d] \in held'[t]
      <3> DEFINE p == leads[d]
      <3>1. leads'[d] = p /\ p # 0
        BY <1>1, <2>2
      <3>2. copies[p].of = d[1] /\ \E t \in Kernels!Subsystems : <<d, p>> \in redirected[t] /\ p \in held[t]
        BY <3>1 DEF Kernels!ChangesRecorded
      <3>3. PICK t \in Kernels!Subsystems : <<d, p>> \in redirected[t] /\ p \in held[t]
        BY <3>2
      <3>4. p \in Kernels!Places
        BY <3>3 DEF KernelsTyped
      <3> HIDE DEF p
      <3>5. \A s \in of : s # t => p \notin free(s)
        BY <1>2, <3>3 DEF CopiesHeld
      <3>6. t \in of => <<d, p>> \in Kernels!Kept(redirected[t], stuck) /\ p \notin free(t)
        <4> SUFFICES ASSUME t \in of PROVE <<d, p>> \in Kernels!Kept(redirected[t], stuck) /\ p \notin free(t)
          OBVIOUS
        <4>1. d \in stuck
          BY <1>1, <2>2, <3>3, <3>4
        <4>2. <<d, p>> \in Kernels!Kept(redirected[t], stuck)
          BY <3>3, <4>1 DEF Kernels!Kept
        <4> QED
          BY <4>2 DEF Kernels!Freeable
      <3> HIDE DEF free
      <3>7. copies'[p] = copies[p]
        BY <1>4, <3>4, <3>5, <3>6
      <3>8. <<d, p>> \in redirected'[t] /\ p \in held'[t]
        BY <1>3, <3>3, <3>6
      <3> QED
        BY <3>1, <3>2, <3>7, <3>8
    <2> QED
      BY <2>1, <2>2 DEF Kernels!ChangesRecorded
  <1>11. image' = [k \in Kernels!Kernels |-> image'[k]] /\ inPlace' \subseteq Kernels!Cubins
    BY DEF KernelsTyped
  <1> QED
    BY <1>1, <1>4, <1>5, <1>6, <1>7, <1>8, <1>9, <1>10, <1>11

(* The restore after a failure.                                            *)
LEMMA StepUndo == KernelsInv /\ Kernels!Undo => KernelsInv'
  <1> SUFFICES ASSUME KernelsInv, Kernels!Undo PROVE KernelsInv'
    OBVIOUS
  <1>1. /\ kernelAt = "undo" /\ kernelAt' = "midpoint" /\ left' = {} /\ UNCHANGED <<settings, rejected, thinKept>>
        /\ result' = [result EXCEPT !["blackwell"] = Kernels!None]
    BY DEF Kernels!Undo
  <1>2. KernelsTyped /\ Kernels!ChangesRecorded /\ CopiesHeld /\ Stages /\ Reports
    BY <1>1 DEF KernelsInv
  <1>3. PICK stuck \in SUBSET {r[1] : r \in redirected["blackwell"]}, stuckKernels \in SUBSET inPlace :
          LET kept == Kernels!Kept(redirected["blackwell"], stuck)
              free == Kernels!Freeable("blackwell", kept, stuckKernels) IN
          /\ leads' = Kernels!BackIn(redirected["blackwell"], stuck)
          /\ image' = [k \in Kernels!Kernels |-> IF k \in inPlace \ stuckKernels THEN "native" ELSE image[k]]
          /\ inPlace' = stuckKernels
          /\ redirected' = [redirected EXCEPT !["blackwell"] = kept]
          /\ copies' = Kernels!Released(free) /\ held' = [held EXCEPT !["blackwell"] = @ \ free]
    BY DEF Kernels!Undo
  <1> DEFINE of == {"blackwell"}
             kept == Kernels!Kept(redirected["blackwell"], stuck)
             free == Kernels!Freeable("blackwell", kept, stuckKernels)
  <1>4. /\ redirected = [s \in Kernels!Subsystems |-> redirected[s]] /\ held = [s \in Kernels!Subsystems |-> held[s]]
        /\ of \in SUBSET Kernels!Subsystems /\ \A s : s \in of <=> s = "blackwell"
    BY <1>2 DEF KernelsTyped, Kernels!Subsystems
  <1>5. leads' = Kernels!BackIn(UNION {redirected[s] : s \in of}, stuck)
    <2>1. UNION {redirected[s] : s \in of} = redirected["blackwell"]
      OBVIOUS
    <2> QED
      BY <1>3, <2>1
  <1>6. copies' = Kernels!Released(UNION {Kernels!Freeable(s, Kernels!Kept(redirected[s], stuck), stuckKernels) : s \in of})
    <2>1. UNION {Kernels!Freeable(s, Kernels!Kept(redirected[s], stuck), stuckKernels) : s \in of} = free
      OBVIOUS
    <2> QED
      BY <1>3, <2>1
  <1>7. redirected' = [s \in Kernels!Subsystems |-> IF s \in of THEN Kernels!Kept(redirected[s], stuck) ELSE redirected[s]]
    <2>1. redirected' = [redirected EXCEPT !["blackwell"] = kept]
      BY <1>3
    <2> HIDE DEF of
    <2>2. redirected' = [s \in Kernels!Subsystems |-> IF s = "blackwell" THEN kept ELSE redirected[s]]
      BY <1>4, <2>1
    <2>3. \A s \in Kernels!Subsystems : (IF s = "blackwell" THEN kept ELSE redirected[s])
                               = (IF s \in of THEN Kernels!Kept(redirected[s], stuck) ELSE redirected[s])
      BY <1>4
    <2> QED
      BY <2>2, <2>3
  <1>8. held' = [s \in Kernels!Subsystems |->
                   IF s \in of THEN held[s] \ Kernels!Freeable(s, Kernels!Kept(redirected[s], stuck), stuckKernels) ELSE held[s]]
    <2>1. held' = [held EXCEPT !["blackwell"] = held["blackwell"] \ free]
      BY <1>3
    <2> HIDE DEF of
    <2>2. held' = [s \in Kernels!Subsystems |-> IF s = "blackwell" THEN held["blackwell"] \ free ELSE held[s]]
      BY <1>4, <2>1
    <2>3. \A s \in Kernels!Subsystems : (IF s = "blackwell" THEN held["blackwell"] \ free ELSE held[s])
            = (IF s \in of THEN held[s] \ Kernels!Freeable(s, Kernels!Kept(redirected[s], stuck), stuckKernels) ELSE held[s])
      BY <1>4
    <2> QED
      BY <2>2, <2>3
  <1>9. /\ leads' \in [Kernels!Slots -> Kernels!Places \cup {0}] /\ image' = [k \in Kernels!Kernels |-> image'[k]] /\ inPlace' \subseteq Kernels!Cubins
        /\ redirected' \in [Kernels!Subsystems -> SUBSET (Kernels!Slots \X Kernels!Places)] /\ held' \in [Kernels!Subsystems -> SUBSET Kernels!Places]
        /\ copies' = [p \in Kernels!Places |-> copies'[p]]
        /\ \A p \in Kernels!Places : copies'[p] = Kernels!Nowhere \/ copies'[p].of \in Kernels!Fatbins
        /\ Kernels!ChangesRecorded'
        /\ \A d \in Kernels!Slots : leads'[d] = 0 \/ leads'[d] = leads[d]
        /\ \A p \in Kernels!Places : copies'[p] # Kernels!Nowhere <=> \E t \in Kernels!Subsystems : p \in held'[t]
        /\ \A s \in Kernels!Subsystems : held'[s] \subseteq held[s] /\ redirected'[s] \subseteq redirected[s]
    <2>1. /\ image' = [k \in Kernels!Kernels |-> IF k \in inPlace \ stuckKernels THEN "native" ELSE image[k]]
          /\ inPlace' = stuckKernels
      BY <1>3
    <2> HIDE DEF of
    <2> QED
      BY <1>2, <1>4, <1>5, <1>6, <1>7, <1>8, <2>1, TakenBack
  <1>10. \A s \in Kernels!Subsystems : s # "blackwell" => held'[s] = held[s] /\ redirected'[s] = redirected[s]
    BY <1>4, <1>7, <1>8
  <1> HIDE DEF of, kept, free
  <1>11. /\ DOMAIN result' = Kernels!Subsystems /\ result'["blackwell"] = Kernels!None
         /\ \A s \in Kernels!Subsystems : s # "blackwell" => result'[s] = result[s]
    BY <1>1, <1>2 DEF Reports, Kernels!Subsystems
  <1>12. ~Kernels!Recorded("midpoint") /\ ~thinKept /\ ThinUntouched /\ LeadsHome("blend") /\ LeadsHome("previous")
    BY <1>1, <1>2 DEF Stages
  <1>13. result["midpoint"] = Kernels!None /\ result["thin"] = Kernels!None
    BY <1>2, <1>12 DEF Reports, ThinUntouched
  <1>14. KernelsTyped'
    BY <1>1, <1>2, <1>9 DEF KernelsTyped
  <1>15. CopiesHeld'
    <2>1. \A s, t \in Kernels!Subsystems : s # t => held'[s] \cap held'[t] = {}
      BY <1>2, <1>9 DEF CopiesHeld
    <2>2. Cardinality(held'["blackwell"]) <= 3
      <3>1. IsFiniteSet(held["blackwell"])
        <4>1. held["blackwell"] \subseteq Kernels!Places
          BY <1>2 DEF KernelsTyped, Kernels!Subsystems
        <4> QED
          BY <4>1, PlacesCounted, FS_Subset
      <3>2. held'["blackwell"] \subseteq held["blackwell"]
        BY <1>9 DEF Kernels!Subsystems
      <3>3. /\ Cardinality(held'["blackwell"]) <= Cardinality(held["blackwell"])
            /\ Cardinality(held'["blackwell"]) \in Nat /\ Cardinality(held["blackwell"]) \in Nat
        BY <3>1, <3>2, FewerLeft
      <3> QED
        BY <1>2, <3>3 DEF CopiesHeld
    <2>3. held'["midpoint"] = held["midpoint"] /\ held'["thin"] = held["thin"]
      BY <1>10 DEF Kernels!Subsystems
    <2> QED
      BY <1>1, <1>2, <1>9, <2>1, <2>2, <2>3 DEF CopiesHeld
  <1>16. Stages'
    <2>1. LeadsHome("blend")' /\ LeadsHome("previous")'
      BY <1>9, <1>12 DEF LeadsHome, Kernels!SlotsOf
    <2>2. ~Kernels!Recorded("midpoint")' /\ ThinUntouched'
      BY <1>10, <1>11, <1>12 DEF Kernels!Recorded, ThinUntouched, Kernels!Subsystems
    <2> QED
      BY <1>1, <1>11, <1>12, <2>1, <2>2 DEF Stages
  <1>17. \A s \in Kernels!Subsystems : result'[s] = Kernels!None
    BY <1>11, <1>13 DEF Kernels!Subsystems
  <1>18. Reports' /\ Effective'
    BY <1>11, <1>17 DEF Reports, Effective, Kernels!None, Kernels!Subsystems
  <1> QED
    BY <1>9, <1>14, <1>15, <1>16, <1>18 DEF KernelsInv

(* The restores at detach.                                                 *)
LEMMA StepDetach == KernelsInv /\ Kernels!Detach => KernelsInv'
  <1> SUFFICES ASSUME KernelsInv, Kernels!Detach PROVE KernelsInv'
    OBVIOUS
  <1>1. PICK stuck \in SUBSET {r[1] : r \in UNION {redirected[s] : s \in Kernels!Subsystems}}, stuckKernels \in SUBSET inPlace :
          LET kept == [s \in Kernels!Subsystems |-> Kernels!Kept(redirected[s], stuck)]
              free == [s \in Kernels!Subsystems |-> Kernels!Freeable(s, kept[s], stuckKernels)] IN
          /\ leads' = Kernels!BackIn(UNION {redirected[s] : s \in Kernels!Subsystems}, stuck)
          /\ image' = [k \in Kernels!Kernels |-> IF k \in inPlace \ stuckKernels THEN "native" ELSE image[k]]
          /\ inPlace' = stuckKernels /\ redirected' = kept
          /\ copies' = Kernels!Released(UNION {free[s] : s \in Kernels!Subsystems})
          /\ held' = [s \in Kernels!Subsystems |-> held[s] \ free[s]]
          /\ thinKept' = (kept["thin"] # {} /\ thinKept)
    BY DEF Kernels!Detach
  <1> DEFINE kept == [s \in Kernels!Subsystems |-> Kernels!Kept(redirected[s], stuck)]
             free == [s \in Kernels!Subsystems |-> Kernels!Freeable(s, kept[s], stuckKernels)]
  <1>2. kernelAt = "idle" /\ kernelAt' = "detached" /\ rejected' = FALSE /\ UNCHANGED <<settings, left>>
    BY DEF Kernels!Detach
  <1>3. KernelsTyped /\ Kernels!ChangesRecorded /\ CopiesHeld
    BY <1>2 DEF KernelsInv
  <1>4. \A s \in Kernels!Subsystems : free[s] = Kernels!Freeable(s, Kernels!Kept(redirected[s], stuck), stuckKernels)
    OBVIOUS
  <1>5. copies' = Kernels!Released(UNION {Kernels!Freeable(s, Kernels!Kept(redirected[s], stuck), stuckKernels) : s \in Kernels!Subsystems})
    <2>1. UNION {free[s] : s \in Kernels!Subsystems}
            = UNION {Kernels!Freeable(s, Kernels!Kept(redirected[s], stuck), stuckKernels) : s \in Kernels!Subsystems}
      BY <1>4
    <2>2. copies' = Kernels!Released(UNION {free[s] : s \in Kernels!Subsystems})
      BY <1>1
    <2> QED
      BY <2>1, <2>2
  <1>6. redirected' = [s \in Kernels!Subsystems |-> IF s \in Kernels!Subsystems THEN Kernels!Kept(redirected[s], stuck) ELSE redirected[s]]
    BY <1>1
  <1>7. held' = [s \in Kernels!Subsystems |->
                   IF s \in Kernels!Subsystems THEN held[s] \ Kernels!Freeable(s, Kernels!Kept(redirected[s], stuck), stuckKernels) ELSE held[s]]
    BY <1>1
  <1>8. /\ leads' \in [Kernels!Slots -> Kernels!Places \cup {0}] /\ image' = [k \in Kernels!Kernels |-> image'[k]] /\ inPlace' \subseteq Kernels!Cubins
        /\ redirected' \in [Kernels!Subsystems -> SUBSET (Kernels!Slots \X Kernels!Places)] /\ held' \in [Kernels!Subsystems -> SUBSET Kernels!Places]
        /\ copies' = [p \in Kernels!Places |-> copies'[p]]
        /\ \A p \in Kernels!Places : copies'[p] = Kernels!Nowhere \/ copies'[p].of \in Kernels!Fatbins
        /\ Kernels!ChangesRecorded'
    <2>1. /\ image' = [k \in Kernels!Kernels |-> IF k \in inPlace \ stuckKernels THEN "native" ELSE image[k]]
          /\ inPlace' = stuckKernels /\ leads' = Kernels!BackIn(UNION {redirected[s] : s \in Kernels!Subsystems}, stuck)
      BY <1>1
    <2> HIDE DEF kept, free
    <2>2. PICK of : of = Kernels!Subsystems
      OBVIOUS
    <2>3. /\ of \in SUBSET Kernels!Subsystems /\ leads' = Kernels!BackIn(UNION {redirected[s] : s \in of}, stuck)
          /\ copies' = Kernels!Released(UNION {Kernels!Freeable(s, Kernels!Kept(redirected[s], stuck), stuckKernels) : s \in of})
          /\ redirected' = [s \in Kernels!Subsystems |-> IF s \in of THEN Kernels!Kept(redirected[s], stuck) ELSE redirected[s]]
          /\ held' = [s \in Kernels!Subsystems |->
                        IF s \in of THEN held[s] \ Kernels!Freeable(s, Kernels!Kept(redirected[s], stuck), stuckKernels) ELSE held[s]]
      BY <1>5, <1>6, <1>7, <2>1, <2>2
    <2> QED
      BY <1>3, <2>1, <2>3, TakenBack
  <1>9. thinKept' \in BOOLEAN
    BY <1>1, <1>3 DEF KernelsTyped
  <1>10. KernelsTyped'
    <2> HIDE DEF kept, free
    <2> QED
      BY <1>2, <1>3, <1>8, <1>9 DEF KernelsTyped
  <1> QED
    BY <1>2, <1>8, <1>10 DEF KernelsInv

(* What a redirection, of the subsystem it is for, leaves to show.         *)
Others(s, k) == \A t \in Kernels!Subsystems : t # s => result[t][k] = "none"

(* A redirection keeps in effect what was reported of other kernels.       *)
LEMMA ReportedByOne ==
  ASSUME NEW s \in Kernels!Subsystems, NEW k \in Kernels!Kernels, NEW rebuilt, NEW with, NEW outcome \in Kernels!Redirections(k),
         Effective, LeadsHome(k), Others(s, k),
         \A x \in Kernels!Kernels : Home[x] = Home[k] /\ x # k /\ (\E t \in Kernels!Subsystems : result[t][x] # "none") => rebuilt.kernels[x] = image[x],
         rebuilt.kernels[k] = with, image' = image,
         outcome.ok \/ result[s][k] = "none",
         \A t \in Kernels!Subsystems, x \in Kernels!Kernels : t # s \/ x # k => result'[t][x] = result[t][x],
         result'[s][k] = (IF outcome.ok THEN with ELSE result[s][k]),
         \A d \in Kernels!Slots : d \notin outcome.slots => leads'[d] = leads[d],
         \A d \in Kernels!Slots : leads[d] # 0 => copies'[leads[d]] = copies[leads[d]],
         \A d \in outcome.slots : d \in Kernels!Slots /\ leads'[d] # 0 /\ copies'[leads'[d]] = rebuilt
  PROVE  Effective'
  <1> SUFFICES ASSUME NEW t \in Kernels!Subsystems, NEW x \in Kernels!Kernels, result'[t][x] # "none", NEW d \in Kernels!SlotsOf(Home[x])
               PROVE  Kernels!Leading(d, x)' = result'[t][x]
    BY DEF Effective, Kernels!SlotsOf
  <1>1. d \in Kernels!Slots /\ d[1] = Home[x]
    BY DEF Kernels!SlotsOf
  <1>2. CASE t = s /\ x = k
    <2>1. outcome.ok
      <3>1. ~outcome.ok => result'[t][x] = "none"
        BY <1>2
      <3> QED
        BY <3>1
    <2>2. d \in outcome.slots
      <3>1. leads[d] = 0
        BY <1>2 DEF LeadsHome
      <3>2. d \in Leadable(k)
        BY <1>2, <3>1 DEF Leadable
      <3> QED
        BY <2>1, <3>2, WhatRedirects
    <2> QED
      BY <1>2, <2>1, <2>2 DEF Kernels!Leading
  <1>3. CASE ~(t = s /\ x = k)
    <2>1. result[t][x] = result'[t][x] /\ result[t][x] # "none"
      BY <1>3
    <2>2. x # k
      BY <1>3, <2>1 DEF Others
    <2>3. Kernels!Leading(d, x) = result[t][x]
      BY <2>1 DEF Effective
    <2>4. CASE d \in outcome.slots
      <3>1. d[1] = Home[k] /\ leads[d] = 0
        BY <2>4, WhatRedirects DEF Leadable, Kernels!SlotsOf
      <3>2. rebuilt.kernels[x] = image[x]
        BY <1>1, <2>1, <2>2, <3>1
      <3>3. Kernels!Leading(d, x)' = rebuilt.kernels[x] /\ Kernels!Leading(d, x) = image[x]
        BY <2>4, <3>1 DEF Kernels!Leading
      <3> QED
        BY <2>1, <2>3, <3>2, <3>3
    <2>5. CASE d \notin outcome.slots
      <3>1. Kernels!Leading(d, x)' = Kernels!Leading(d, x)
        BY <1>1, <2>5 DEF Kernels!Leading
      <3> QED
        BY <2>1, <2>3, <3>1
    <2> QED
      BY <2>4, <2>5
  <1> QED
    BY <1>2, <1>3

(* What is reported after it.                                              *)
LEMMA ResultAfter ==
  ASSUME Reports, NEW s \in Kernels!Subsystems, NEW k \in Kernels!Kernels, NEW rebuilt, NEW with, NEW outcome \in Kernels!Redirections(k),
         Kernels!Redirect(s, k, rebuilt, with, outcome)
  PROVE  /\ DOMAIN result' = Kernels!Subsystems /\ \A t \in Kernels!Subsystems : result'[t] = [x \in Kernels!Kernels |-> result'[t][x]]
         /\ \A t \in Kernels!Subsystems, x \in Kernels!Kernels : t # s \/ x # k => result'[t][x] = result[t][x]
         /\ \A t \in Kernels!Subsystems : t # s => result'[t] = result[t]
         /\ result'[s][k] = (IF outcome.ok THEN with ELSE result[s][k])
         /\ ~outcome.ok => result' = result
  <1>1. CASE outcome.ok
    <2>1. result' = [result EXCEPT ![s] = [result[s] EXCEPT ![k] = with]]
      BY <1>1 DEF Kernels!Redirect
    <2>2. DOMAIN result = Kernels!Subsystems /\ result[s] = [x \in Kernels!Kernels |-> result[s][x]]
      BY DEF Reports
    <2>3. /\ DOMAIN result' = Kernels!Subsystems /\ result'[s] = [result[s] EXCEPT ![k] = with]
          /\ \A t \in Kernels!Subsystems : t # s => result'[t] = result[t]
      BY <2>1, <2>2
    <2>4. /\ result'[s] = [x \in Kernels!Kernels |-> result'[s][x]] /\ result'[s][k] = with
          /\ \A x \in Kernels!Kernels : x # k => result'[s][x] = result[s][x]
      BY <2>2, <2>3
    <2> QED
      BY <1>1, <2>3, <2>4 DEF Reports
  <1>2. CASE ~outcome.ok
    <2>1. result' = result
      BY <1>2 DEF Kernels!Redirect
    <2> QED
      BY <1>2, <2>1 DEF Reports
  <1> QED
    BY <1>1, <1>2

(* A fatbin of thin geometry.                                              *)
LEMMA StepRedirectFatbin == KernelsInv /\ Kernels!RedirectFatbin => KernelsInv'
  <1> SUFFICES ASSUME KernelsInv, Kernels!RedirectFatbin PROVE KernelsInv'
    OBVIOUS
  <1>1. PICK k : /\ k = (IF "blend" \in left THEN "blend" ELSE "previous")
                 /\ kernelAt = "thin" /\ left # {} /\ left' = left \ {k}
                 /\ UNCHANGED <<settings, image, kernelAt, inPlace, rejected, thinKept>>
                 /\ \/ UNCHANGED <<leads, copies, redirected, held, result>>
                    \/ \E with, outcome : /\ outcome \in Kernels!Redirections(k)
                                          /\ Kernels!Redirect("thin", k, Kernels!Rebuilt(k, with), with, outcome)
    BY DEF Kernels!RedirectFatbin
  <1>2. KernelsTyped /\ Kernels!ChangesRecorded /\ CopiesHeld /\ Stages /\ Reports /\ Effective
    BY <1>1 DEF KernelsInv
  <1>3. left \subseteq {"blend", "previous"} /\ ~thinKept /\ (settings.native \/ Kernels!ModuleHasTemporalPatch \/ rejected)
    BY <1>1, <1>2 DEF Stages
  <1>4. /\ k \in left /\ k \in {"blend", "previous"} /\ k \in Kernels!Kernels /\ "thin" \in Kernels!Subsystems
        /\ left' \subseteq {"blend", "previous"}
    BY <1>1, <1>3 DEF Kernels!Kernels, Kernels!Subsystems
  <1>5. LeadsHome(k) /\ result["thin"][k] = "none" /\ \A l \in left' : LeadsHome(l) /\ result["thin"][l] = "none" /\ l # k
    BY <1>1, <1>2, <1>4 DEF Stages
  <1>6. \A l \in Kernels!Kernels : Home[l] = Home[k] => l = k
    BY <1>4, KernelsAssumption
  <1>7. Cardinality(held["thin"]) + Cardinality(left) <= 2
    BY <1>1, <1>2 DEF CopiesHeld
  <1>8. Cardinality(left) \in Nat /\ Cardinality(left') \in Nat /\ Cardinality(left') = Cardinality(left) - 1
    <2>1. IsFiniteSet(left)
      BY <1>3, PlacesCounted, FS_Subset
    <2> QED
      BY <1>1, <1>4, <2>1, OneLess
  <1>9. Cardinality(held["thin"]) \in Nat
    <2>1. held["thin"] \subseteq Kernels!Places
      BY <1>2, <1>4 DEF KernelsTyped
    <2> QED
      BY <2>1, PlacesCounted, FewerLeft
  <1>10. CASE UNCHANGED <<leads, copies, redirected, held, result>>
    <2>1. KernelsTyped' /\ Kernels!ChangesRecorded'
      BY <1>1, <1>2, <1>4, <1>10 DEF KernelsTyped, Kernels!ChangesRecorded, Kernels!Kernels
    <2>2. CopiesHeld'
      <3>1. Cardinality(held'["thin"]) + Cardinality(left') <= 2
        BY <1>7, <1>8, <1>9, <1>10
      <3> QED
        BY <1>1, <1>2, <1>10, <3>1 DEF CopiesHeld
    <2>3. Stages'
      <3>1. \A l \in left' : LeadsHome(l)' /\ result'["thin"][l] = "none"
        BY <1>5, <1>10 DEF LeadsHome
      <3>2. settings'.native \/ Kernels!ModuleHasTemporalPatch' \/ rejected'
        BY <1>1, <1>3, <1>10 DEF Kernels!ModuleHasTemporalPatch, Kernels!Recorded
      <3>3. kernelAt' = "thin" /\ ~thinKept'
        BY <1>1, <1>3
      <3> QED
        BY <1>4, <3>1, <3>2, <3>3 DEF Stages
    <2>4. Reports' /\ Effective'
      BY <1>1, <1>2, <1>10 DEF Reports, Kernels!Recorded, Effective, Kernels!Leading
    <2> QED
      BY <1>1, <2>1, <2>2, <2>3, <2>4 DEF KernelsInv
  <1>11. CASE \E with, outcome : outcome \in Kernels!Redirections(k) /\ Kernels!Redirect("thin", k, Kernels!Rebuilt(k, with), with, outcome)
    <2>1. PICK with, outcome : outcome \in Kernels!Redirections(k) /\ Kernels!Redirect("thin", k, Kernels!Rebuilt(k, with), with, outcome)
      BY <1>11
    <2> DEFINE rebuilt == Kernels!Rebuilt(k, with)
    <2>2. rebuilt # Kernels!Nowhere /\ rebuilt.of = Home[k] /\ rebuilt.kernels[k] = with
      BY <1>4 DEF Kernels!Rebuilt, Kernels!Current, Kernels!Nowhere
    <2> HIDE DEF rebuilt
    <2>3. /\ leads' \in [Kernels!Slots -> Kernels!Places \cup {0}]
          /\ redirected' \in [Kernels!Subsystems -> SUBSET (Kernels!Slots \X Kernels!Places)] /\ held' \in [Kernels!Subsystems -> SUBSET Kernels!Places]
          /\ copies' = [p \in Kernels!Places |-> copies'[p]]
          /\ \A p \in Kernels!Places : copies'[p] = Kernels!Nowhere \/ copies'[p].of \in Kernels!Fatbins
          /\ Kernels!ChangesRecorded'
          /\ \A p \in Kernels!Places : copies'[p] # Kernels!Nowhere <=> \E t \in Kernels!Subsystems : p \in held'[t]
          /\ \A t, u \in Kernels!Subsystems : t # u => held'[t] \cap held'[u] = {}
          /\ Cardinality(held'["thin"]) <= Cardinality(held["thin"]) + 1
          /\ \A t \in Kernels!Subsystems : t # "thin" => held'[t] = held[t] /\ redirected'[t] = redirected[t]
          /\ \A d \in Kernels!Slots : d \notin outcome.slots => leads'[d] = leads[d]
          /\ \A d \in Kernels!Slots : leads[d] # 0 => copies'[leads[d]] = copies[leads[d]]
          /\ \A d \in outcome.slots : d \in Kernels!Slots /\ leads'[d] # 0 /\ copies'[leads'[d]] = rebuilt
      <3>1. Kernels!Redirect("thin", k, rebuilt, with, outcome) /\ UNCHANGED <<image, inPlace>>
        BY <1>1, <2>1 DEF rebuilt
      <3> QED
        BY <1>2, <1>4, <2>1, <2>2, <3>1, Redirected
    <2>4. /\ DOMAIN result' = Kernels!Subsystems /\ \A t \in Kernels!Subsystems : result'[t] = [x \in Kernels!Kernels |-> result'[t][x]]
          /\ \A t \in Kernels!Subsystems, x \in Kernels!Kernels : t # "thin" \/ x # k => result'[t][x] = result[t][x]
          /\ \A t \in Kernels!Subsystems : t # "thin" => result'[t] = result[t]
          /\ result'["thin"][k] = (IF outcome.ok THEN with ELSE result["thin"][k])
      BY <1>2, <1>4, <2>1, ResultAfter
    <2>5. KernelsTyped'
      BY <1>1, <1>2, <1>4, <2>3 DEF KernelsTyped, Kernels!Kernels
    <2>6. \A t \in {"blackwell", "midpoint"} : held'[t] = held[t] /\ redirected'[t] = redirected[t] /\ result'[t] = result[t]
      BY <2>3, <2>4 DEF Kernels!Subsystems
    <2>7. CopiesHeld'
      <3>1. Cardinality(held'["thin"]) + Cardinality(left') <= 2 /\ Cardinality(held'["thin"]) <= 2
        <4>1. held'["thin"] \subseteq Kernels!Places
          BY <1>4, <2>3
        <4>2. Cardinality(held'["thin"]) \in Nat
          BY <4>1, PlacesCounted, FewerLeft
        <4>3. Cardinality(held'["thin"]) <= Cardinality(held["thin"]) + 1
          BY <2>3
        <4> QED
          BY <1>7, <1>8, <1>9, <4>2, <4>3
      <3> QED
        BY <1>1, <1>2, <2>3, <2>6, <3>1 DEF CopiesHeld
    <2>8. Stages'
      <3>1. \A l \in left' : LeadsHome(l)' /\ result'["thin"][l] = "none"
        <4> SUFFICES ASSUME NEW l \in left' PROVE LeadsHome(l)' /\ result'["thin"][l] = "none"
          OBVIOUS
        <4>1. l \in Kernels!Kernels /\ Home[l] # Home[k] /\ LeadsHome(l) /\ result["thin"][l] = "none" /\ l # k
          BY <1>4, <1>5, <1>6 DEF Kernels!Kernels
        <4>2. \A d \in Kernels!SlotsOf(Home[l]) : d \in Kernels!Slots /\ d \notin outcome.slots
          BY <1>4, <2>1, <4>1, WhatRedirects DEF Leadable, Kernels!SlotsOf
        <4> QED
          BY <1>4, <2>3, <2>4, <4>1, <4>2 DEF LeadsHome
      <3>2. settings'.native \/ Kernels!ModuleHasTemporalPatch' \/ rejected'
        BY <1>1, <1>3, <2>6 DEF Kernels!ModuleHasTemporalPatch, Kernels!Recorded
      <3>3. kernelAt' = "thin" /\ ~thinKept'
        BY <1>1, <1>3
      <3> QED
        BY <1>4, <3>1, <3>2, <3>3 DEF Stages
    <2>9. Reports'
      <3>1. \A x \in Kernels!Kernels : result'["thin"][x] # "none" => x \in {"blend", "previous", "motion"}
        BY <1>2, <1>4, <2>4 DEF Reports
      <3>2. \A s \in {"blackwell", "midpoint"} : Kernels!Recorded(s)' <=> Kernels!Recorded(s)
        BY <1>1, <2>6 DEF Kernels!Recorded
      <3> QED
        BY <1>2, <2>4, <2>6, <3>1, <3>2 DEF Reports
    <2>10. Effective'
      <3>1. Others("thin", k)
        <4>1. k \notin Kernels!Cubins /\ k # "temporal"
          BY <1>4 DEF Kernels!Cubins
        <4> QED
          BY <1>2, <1>4, <4>1 DEF Others, Reports, Kernels!Subsystems
      <3>2. \A x \in Kernels!Kernels : Home[x] = Home[k] /\ x # k /\ (\E t \in Kernels!Subsystems : result[t][x] # "none") => rebuilt.kernels[x] = image[x]
        BY <1>6
      <3>3. outcome.ok \/ result["thin"][k] = "none"
        BY <1>5
      <3>4. \A t \in Kernels!Subsystems, x \in Kernels!Kernels : t # "thin" \/ x # k => result'[t][x] = result[t][x]
        BY <2>4
      <3>5. result'["thin"][k] = (IF outcome.ok THEN with ELSE result["thin"][k])
        BY <2>4
      <3>6. /\ \A d \in Kernels!Slots : d \notin outcome.slots => leads'[d] = leads[d]
            /\ \A d \in Kernels!Slots : leads[d] # 0 => copies'[leads[d]] = copies[leads[d]]
            /\ \A d \in outcome.slots : d \in Kernels!Slots /\ leads'[d] # 0 /\ copies'[leads'[d]] = rebuilt
        BY <2>3
      <3>7. Effective /\ LeadsHome(k) /\ image' = image /\ rebuilt.kernels[k] = with
        BY <1>1, <1>2, <1>5, <2>2
      <3> QED
        BY <1>4, <2>1, <3>1, <3>2, <3>3, <3>4, <3>5, <3>6, <3>7, ReportedByOne
    <2> QED
      BY <1>1, <2>3, <2>5, <2>7, <2>8, <2>9, <2>10 DEF KernelsInv
  <1> QED
    BY <1>1, <1>10, <1>11

(* A cubin that does not fit in its slot.                                  *)
LEMMA StepRedirectOversizedCubin == KernelsInv /\ Kernels!RedirectOversizedCubin => KernelsInv'
  <1> SUFFICES ASSUME KernelsInv, Kernels!RedirectOversizedCubin PROVE KernelsInv'
    OBVIOUS
  <1>1. PICK k, with, outcome :
          /\ k = Kernels!Lowest(left) /\ with = Kernels!Replacement(k) /\ kernelAt = "applying" /\ left # {} /\ with \in settings.oversized
          /\ outcome \in Kernels!Redirections(k) /\ Kernels!Redirect("blackwell", k, Kernels!Rebuilt(k, with), with, outcome)
          /\ \/ outcome.ok /\ left' = left \ {k} /\ kernelAt' = kernelAt
             \/ ~outcome.ok /\ left' = left /\ kernelAt' = "undo"
          /\ UNCHANGED <<settings, image, inPlace, rejected, thinKept>>
    BY DEF Kernels!RedirectOversizedCubin
  <1>2. KernelsTyped /\ Kernels!ChangesRecorded /\ CopiesHeld /\ Stages /\ Reports /\ Effective
    BY <1>1 DEF KernelsInv
  <1>3. /\ k \in left /\ k \in Kernels!Cubins /\ k \in Kernels!Kernels /\ left \subseteq Kernels!Cubins /\ "blackwell" \in Kernels!Subsystems
        /\ \A l \in left : Order[k] <= Order[l]
    <2>1. left \subseteq Kernels!Cubins
      BY <1>1, <1>2 DEF Stages
    <2> QED
      BY <1>1, <2>1, LowestIn DEF Kernels!Kernels, Kernels!Subsystems
  <1>4. ~Kernels!Recorded("midpoint") /\ ~thinKept /\ ThinUntouched /\ LeadsHome("blend") /\ LeadsHome("previous")
        /\ \A l \in left : LeadsHome(l)
    BY <1>1, <1>2 DEF Stages
  <1>5. k # "inpaint"
    BY <1>1, <1>2, KernelsAssumption DEF KernelsTyped, Kernels!Replacement
  <1>6. \A l \in left \ {k} : Home[l] # Home[k]
    BY <1>3, <1>5, KernelsAssumption
  <1>7. Cardinality(held["blackwell"]) + Cardinality(left) <= 3
    BY <1>1, <1>2 DEF CopiesHeld
  <1>8. Cardinality(left) \in Nat /\ Cardinality(left \ {k}) \in Nat /\ Cardinality(left \ {k}) = Cardinality(left) - 1
    <2>1. IsFiniteSet(left)
      BY <1>3, PlacesCounted, FS_Subset
    <2> QED
      BY <1>3, <2>1, OneLess
  <1>9. Cardinality(held["blackwell"]) \in Nat
    <2>1. held["blackwell"] \subseteq Kernels!Places
      BY <1>2, <1>3 DEF KernelsTyped
    <2> QED
      BY <2>1, PlacesCounted, FewerLeft
  <1> DEFINE rebuilt == Kernels!Rebuilt(k, with)
  <1>10. /\ rebuilt # Kernels!Nowhere /\ rebuilt.of = Home[k] /\ rebuilt.kernels[k] = with
         /\ \A x \in Kernels!Kernels : Home[x] = Home[k] /\ x # k => rebuilt.kernels[x] = image[x]
    BY <1>3 DEF Kernels!Rebuilt, Kernels!Current, Kernels!Nowhere
  <1>11. Kernels!Redirect("blackwell", k, rebuilt, with, outcome) /\ outcome \in Kernels!Redirections(k) /\ UNCHANGED <<image, inPlace>>
    BY <1>1
  <1> HIDE DEF rebuilt
  <1>12. /\ leads' \in [Kernels!Slots -> Kernels!Places \cup {0}]
         /\ redirected' \in [Kernels!Subsystems -> SUBSET (Kernels!Slots \X Kernels!Places)] /\ held' \in [Kernels!Subsystems -> SUBSET Kernels!Places]
         /\ copies' = [p \in Kernels!Places |-> copies'[p]]
         /\ \A p \in Kernels!Places : copies'[p] = Kernels!Nowhere \/ copies'[p].of \in Kernels!Fatbins
         /\ Kernels!ChangesRecorded'
         /\ \A p \in Kernels!Places : copies'[p] # Kernels!Nowhere <=> \E t \in Kernels!Subsystems : p \in held'[t]
         /\ \A t, u \in Kernels!Subsystems : t # u => held'[t] \cap held'[u] = {}
         /\ Cardinality(held'["blackwell"]) <= Cardinality(held["blackwell"]) + 1
         /\ \A t \in Kernels!Subsystems : t # "blackwell" => held'[t] = held[t] /\ redirected'[t] = redirected[t]
         /\ \A d \in Kernels!Slots : d \notin outcome.slots => leads'[d] = leads[d]
         /\ \A d \in Kernels!Slots : leads[d] # 0 => copies'[leads[d]] = copies[leads[d]]
         /\ \A d \in outcome.slots : d \in Kernels!Slots /\ leads'[d] # 0 /\ copies'[leads'[d]] = rebuilt
         /\ held'["blackwell"] # {}
    BY <1>2, <1>3, <1>10, <1>11, Redirected
  <1>13. /\ DOMAIN result' = Kernels!Subsystems /\ \A t \in Kernels!Subsystems : result'[t] = [x \in Kernels!Kernels |-> result'[t][x]]
         /\ \A t \in Kernels!Subsystems, x \in Kernels!Kernels : t # "blackwell" \/ x # k => result'[t][x] = result[t][x]
         /\ \A t \in Kernels!Subsystems : t # "blackwell" => result'[t] = result[t]
         /\ result'["blackwell"][k] = (IF outcome.ok THEN with ELSE result["blackwell"][k])
    BY <1>2, <1>3, <1>11, ResultAfter
  <1>14. \A t \in {"midpoint", "thin"} : held'[t] = held[t] /\ redirected'[t] = redirected[t] /\ result'[t] = result[t]
    BY <1>12, <1>13 DEF Kernels!Subsystems
  <1>15. KernelsTyped'
    <2>1. left' \subseteq Kernels!Kernels /\ kernelAt' \in {"applying", "undo"}
      BY <1>1, <1>3 DEF Kernels!Kernels
    <2> QED
      BY <1>1, <1>2, <1>12, <2>1 DEF KernelsTyped
  <1>16. CopiesHeld'
    <2>1. Cardinality(held'["blackwell"]) <= 3 /\ (kernelAt' = "applying" => Cardinality(held'["blackwell"]) + Cardinality(left') <= 3)
      <3>1. held'["blackwell"] \subseteq Kernels!Places
        BY <1>3, <1>12
      <3>2. Cardinality(held'["blackwell"]) \in Nat
        BY <3>1, PlacesCounted, FewerLeft
      <3>3. Cardinality(held'["blackwell"]) <= Cardinality(held["blackwell"]) + 1
        BY <1>12
      <3>4. Cardinality(held'["blackwell"]) + Cardinality(left \ {k}) <= 3 /\ Cardinality(held'["blackwell"]) <= 3
        BY <1>7, <1>8, <1>9, <3>2, <3>3
      <3>5. kernelAt' = "applying" => left' = left \ {k}
        BY <1>1
      <3> QED
        BY <3>4, <3>5
    <2>2. kernelAt' # "thin"
      BY <1>1
    <2> QED
      BY <1>2, <1>12, <1>14, <2>1, <2>2 DEF CopiesHeld
  <1>17. \A l \in Kernels!Kernels : Home[l] # Home[k] /\ LeadsHome(l) => LeadsHome(l)'
    <2> SUFFICES ASSUME NEW l \in Kernels!Kernels, Home[l] # Home[k], LeadsHome(l) PROVE LeadsHome(l)'
      OBVIOUS
    <2>1. \A d \in Kernels!SlotsOf(Home[l]) : d \in Kernels!Slots /\ d \notin outcome.slots
      BY <1>3, <1>11, WhatRedirects DEF Leadable, Kernels!SlotsOf
    <2> QED
      BY <1>12, <2>1 DEF LeadsHome
  <1>18. Stages'
    <2>1. LeadsHome("blend")' /\ LeadsHome("previous")'
      <3>1. /\ "blend" \in Kernels!Kernels /\ "previous" \in Kernels!Kernels /\ k # "blend" /\ k # "previous"
        BY <1>3 DEF Kernels!Kernels, Kernels!Cubins
      <3>2. Home["blend"] # Home[k] /\ Home["previous"] # Home[k]
        BY <1>3, <3>1, KernelsAssumption
      <3> QED
        BY <1>4, <1>17, <3>1, <3>2
    <2>2. kernelAt' = "applying" => left' \subseteq Kernels!Cubins /\ \A l \in left' : LeadsHome(l)'
      BY <1>1, <1>3, <1>4, <1>6, <1>17 DEF Kernels!Kernels
    <2>3. ~Kernels!Recorded("midpoint")' /\ ~thinKept' /\ ThinUntouched'
      BY <1>1, <1>4, <1>14 DEF Kernels!Recorded, ThinUntouched
    <2>4. kernelAt' \in {"applying", "undo"}
      BY <1>1
    <2> QED
      BY <2>1, <2>2, <2>3, <2>4 DEF Stages
  <1>19. Reports'
    <2>1. \A x \in Kernels!Kernels : result'["blackwell"][x] # "none" => x \in Kernels!Cubins
      BY <1>2, <1>3, <1>13 DEF Reports
    <2>2. Kernels!Recorded("blackwell")' /\ (Kernels!Recorded("midpoint")' <=> Kernels!Recorded("midpoint"))
      BY <1>12, <1>14 DEF Kernels!Recorded
    <2> QED
      BY <1>2, <1>13, <1>14, <2>1, <2>2 DEF Reports
  <1>20. kernelAt' # "undo" => Effective'
    <2> SUFFICES ASSUME outcome.ok PROVE Effective'
      BY <1>1
    <2>1. Others("blackwell", k)
      <3>1. result["midpoint"][k] = "none"
        BY <1>2, <1>3 DEF Reports, Kernels!Cubins
      <3>2. result["thin"][k] = "none"
        BY <1>3, <1>4 DEF ThinUntouched, Kernels!None
      <3> QED
        BY <3>1, <3>2 DEF Others, Kernels!Subsystems
    <2>2. /\ \A t \in Kernels!Subsystems, x \in Kernels!Kernels : t # "blackwell" \/ x # k => result'[t][x] = result[t][x]
          /\ result'["blackwell"][k] = (IF outcome.ok THEN with ELSE result["blackwell"][k])
      BY <1>13
    <2>3. /\ \A d \in Kernels!Slots : d \notin outcome.slots => leads'[d] = leads[d]
          /\ \A d \in Kernels!Slots : leads[d] # 0 => copies'[leads[d]] = copies[leads[d]]
          /\ \A d \in outcome.slots : d \in Kernels!Slots /\ leads'[d] # 0 /\ copies'[leads'[d]] = rebuilt
      BY <1>12
    <2>4. Effective /\ LeadsHome(k) /\ image' = image /\ rebuilt.kernels[k] = with
      BY <1>1, <1>2, <1>3, <1>4, <1>10
    <2>5. \A x \in Kernels!Kernels : Home[x] = Home[k] /\ x # k /\ (\E t \in Kernels!Subsystems : result[t][x] # "none") => rebuilt.kernels[x] = image[x]
      BY <1>10
    <2> QED
      BY <1>3, <1>11, <2>1, <2>2, <2>3, <2>4, <2>5, ReportedByOne
  <1>21. kernelAt' # "detached"
    BY <1>1
  <1> QED
    BY <1>12, <1>15, <1>16, <1>18, <1>19, <1>20 DEF KernelsInv

(* The temporal kernel, in a copy.                                         *)
LEMMA StepPatchMidpointInModule == KernelsInv /\ Kernels!PatchMidpointInModule => KernelsInv'
  <1> SUFFICES ASSUME KernelsInv, Kernels!PatchMidpointInModule PROVE KernelsInv'
    OBVIOUS
  <1>1. /\ kernelAt = "midpoint" /\ kernelAt' = "idle" /\ UNCHANGED <<settings, image, left, inPlace, thinKept>>
        /\ \/ UNCHANGED <<leads, copies, redirected, held, result, rejected>>
           \/ /\ ~Kernels!ModuleHasTemporalPatch /\ rejected' \in BOOLEAN
              /\ \E outcome : /\ outcome \in Kernels!Redirections("temporal")
                              /\ Kernels!Redirect("midpoint", "temporal", Kernels!BuildTemporalFatbin, "temporal", outcome)
    BY DEF Kernels!PatchMidpointInModule
  <1>2. KernelsTyped /\ Kernels!ChangesRecorded /\ CopiesHeld /\ Stages /\ Reports /\ Effective
    BY <1>1 DEF KernelsInv
  <1>3. /\ ~Kernels!Recorded("midpoint") /\ ~thinKept /\ ThinUntouched /\ LeadsHome("blend") /\ LeadsHome("previous")
        /\ result["blackwell"] = Kernels!None
    BY <1>1, <1>2 DEF Stages
  <1>4. CASE UNCHANGED <<leads, copies, redirected, held, result, rejected>>
    <2>1. KernelsTyped' /\ Kernels!ChangesRecorded'
      BY <1>1, <1>2, <1>4 DEF KernelsTyped, Kernels!ChangesRecorded
    <2>2. CopiesHeld' /\ Reports' /\ Effective'
      BY <1>1, <1>2, <1>4 DEF CopiesHeld, Reports, Kernels!Recorded, Effective, Kernels!Leading
    <2>3. Stages'
      BY <1>1, <1>3, <1>4 DEF Stages, ThinUntouched, LeadsHome
    <2> QED
      BY <2>1, <2>2, <2>3 DEF KernelsInv
  <1>5. CASE /\ ~Kernels!ModuleHasTemporalPatch /\ rejected' \in BOOLEAN
             /\ \E outcome : /\ outcome \in Kernels!Redirections("temporal")
                             /\ Kernels!Redirect("midpoint", "temporal", Kernels!BuildTemporalFatbin, "temporal", outcome)
    <2>1. PICK outcome, rebuilt, k, with :
            /\ k = "temporal" /\ with = "temporal" /\ rebuilt = Kernels!BuildTemporalFatbin
            /\ outcome \in Kernels!Redirections(k) /\ Kernels!Redirect("midpoint", k, rebuilt, with, outcome)
      BY <1>5
    <2>2. k \in Kernels!Kernels /\ k \notin Kernels!Cubins /\ "midpoint" \in Kernels!Subsystems /\ UNCHANGED <<image, inPlace>>
      BY <1>1, <2>1 DEF Kernels!Kernels, Kernels!Cubins, Kernels!Subsystems
    <2>3. rebuilt # Kernels!Nowhere /\ rebuilt.of = Home[k] /\ rebuilt.kernels[k] = with
      BY <2>1, <2>2 DEF Kernels!BuildTemporalFatbin, Kernels!Current, Kernels!Nowhere
    <2>4. LeadsHome(k)
      BY <1>2, <1>3, <1>5, <2>2, AllHome
    <2>5. /\ leads' \in [Kernels!Slots -> Kernels!Places \cup {0}]
          /\ redirected' \in [Kernels!Subsystems -> SUBSET (Kernels!Slots \X Kernels!Places)] /\ held' \in [Kernels!Subsystems -> SUBSET Kernels!Places]
          /\ copies' = [p \in Kernels!Places |-> copies'[p]]
          /\ \A p \in Kernels!Places : copies'[p] = Kernels!Nowhere \/ copies'[p].of \in Kernels!Fatbins
          /\ Kernels!ChangesRecorded'
          /\ \A p \in Kernels!Places : copies'[p] # Kernels!Nowhere <=> \E t \in Kernels!Subsystems : p \in held'[t]
          /\ \A t, u \in Kernels!Subsystems : t # u => held'[t] \cap held'[u] = {}
          /\ Cardinality(held'["midpoint"]) <= Cardinality(held["midpoint"]) + 1
          /\ \A t \in Kernels!Subsystems : t # "midpoint" => held'[t] = held[t] /\ redirected'[t] = redirected[t]
          /\ \A d \in Kernels!Slots : d \notin outcome.slots => leads'[d] = leads[d]
          /\ \A d \in Kernels!Slots : leads[d] # 0 => copies'[leads[d]] = copies[leads[d]]
          /\ \A d \in outcome.slots : d \in Kernels!Slots /\ leads'[d] # 0 /\ copies'[leads'[d]] = rebuilt
          /\ outcome.slots # {} => redirected'["midpoint"] # {}
      BY <1>2, <2>1, <2>2, <2>3, Redirected
    <2>6. /\ DOMAIN result' = Kernels!Subsystems /\ \A t \in Kernels!Subsystems : result'[t] = [x \in Kernels!Kernels |-> result'[t][x]]
          /\ \A t \in Kernels!Subsystems, x \in Kernels!Kernels : t # "midpoint" \/ x # k => result'[t][x] = result[t][x]
          /\ \A t \in Kernels!Subsystems : t # "midpoint" => result'[t] = result[t]
          /\ result'["midpoint"][k] = (IF outcome.ok THEN with ELSE result["midpoint"][k])
          /\ ~outcome.ok => result' = result
      BY <1>2, <2>1, <2>2, ResultAfter
    <2>7. \A t \in {"blackwell", "thin"} : held'[t] = held[t] /\ redirected'[t] = redirected[t] /\ result'[t] = result[t]
      BY <2>5, <2>6 DEF Kernels!Subsystems
    <2>8. KernelsTyped'
      BY <1>1, <1>2, <1>5, <2>5 DEF KernelsTyped
    <2>9. CopiesHeld'
      <3>1. Cardinality(held'["midpoint"]) <= 1
        <4>1. held["midpoint"] = {} /\ Cardinality({}) = 0
          BY <1>3, PlacesCounted DEF Kernels!Recorded
        <4> QED
          BY <2>5, <4>1
      <3> QED
        BY <1>1, <1>2, <2>5, <2>7, <3>1 DEF CopiesHeld
    <2>10. Stages'
      <3>1. LeadsHome("blend")' /\ LeadsHome("previous")'
        <4>1. Home["blend"] # Home[k] /\ Home["previous"] # Home[k]
          BY <2>1, <2>2, KernelsAssumption
        <4>2. \A l \in {"blend", "previous"} : \A d \in Kernels!SlotsOf(Home[l]) : d \in Kernels!Slots /\ d \notin outcome.slots
          BY <2>1, <2>2, <4>1, WhatRedirects DEF Leadable, Kernels!SlotsOf
        <4> QED
          BY <1>3, <2>5, <4>2 DEF LeadsHome
      <3>2. ThinUntouched'
        BY <1>3, <2>7 DEF ThinUntouched
      <3> QED
        BY <1>1, <1>3, <3>1, <3>2 DEF Stages
    <2>11. result["midpoint"] = Kernels!None
      BY <1>2, <1>3 DEF Reports
    <2>12. Reports'
      <3>1. \A x \in Kernels!Kernels : result'["midpoint"][x] # "none" => x = "temporal"
        <4>1. \A x \in Kernels!Kernels : result["midpoint"][x] # "none" => x = "temporal"
          BY <1>2 DEF Reports
        <4>2. \A x \in Kernels!Kernels : x # k => result'["midpoint"][x] = result["midpoint"][x]
          BY <2>2, <2>6
        <4> QED
          BY <2>1, <4>1, <4>2
      <3>2. ~Kernels!Recorded("midpoint")' => result'["midpoint"] = Kernels!None
        <4>1. outcome.ok => Kernels!Recorded("midpoint")'
          BY <2>1, <2>2, <2>5, WhatRedirects DEF Kernels!Recorded
        <4> QED
          BY <2>6, <2>11, <4>1
      <3>3. result'["blackwell"] = Kernels!None
        BY <1>3, <2>7
      <3> QED
        BY <1>2, <2>6, <2>7, <3>1, <3>2, <3>3 DEF Reports
    <2>13. Effective'
      <3>1. \A t \in Kernels!Subsystems, x \in Kernels!Kernels : result[t][x] = "none"
        BY <1>3, <2>11 DEF ThinUntouched, Kernels!None, Kernels!Subsystems
      <3>2. Others("midpoint", k) /\ result["midpoint"][k] = "none"
        BY <2>2, <3>1 DEF Others
      <3>3. /\ \A t \in Kernels!Subsystems, x \in Kernels!Kernels : t # "midpoint" \/ x # k => result'[t][x] = result[t][x]
            /\ result'["midpoint"][k] = (IF outcome.ok THEN with ELSE result["midpoint"][k])
        BY <2>6
      <3>4. /\ \A d \in Kernels!Slots : d \notin outcome.slots => leads'[d] = leads[d]
            /\ \A d \in Kernels!Slots : leads[d] # 0 => copies'[leads[d]] = copies[leads[d]]
            /\ \A d \in outcome.slots : d \in Kernels!Slots /\ leads'[d] # 0 /\ copies'[leads'[d]] = rebuilt
        BY <2>5
      <3>5. \A x \in Kernels!Kernels : Home[x] = Home[k] /\ x # k /\ (\E t \in Kernels!Subsystems : result[t][x] # "none") => rebuilt.kernels[x] = image[x]
        BY <3>1
      <3> QED
        BY <1>2, <2>1, <2>2, <2>3, <2>4, <3>2, <3>3, <3>4, <3>5, ReportedByOne
    <2> QED
      BY <2>5, <2>8, <2>9, <2>10, <2>12, <2>13 DEF KernelsInv
  <1> QED
    BY <1>1, <1>4, <1>5

(* Every step of maintenance keeps it.                                     *)
LEMMA KernelsStep == KernelsInv /\ [Kernels!Next]_(Kernels!vars) => KernelsInv'
  <1> SUFFICES ASSUME KernelsInv, [Kernels!Next]_(Kernels!vars) PROVE KernelsInv'
    OBVIOUS
  <1>1. CASE Kernels!Next
    BY <1>1, StepPatchTemporalInModule, StepApplyInPlace, StepRedirectOversizedCubin, StepUndo,
       StepFinishApply,
       StepPatchMidpointInModule, StepPatchThinGeometryInModule, StepRedirectFatbin,
       StepKeepThinGeometryResult, StepDetach DEF Kernels!Next
  <1>2. CASE UNCHANGED Kernels!vars
    <2>1. UNCHANGED <<settings, image, leads, copies, kernelAt, left, inPlace, redirected, held, result, rejected, thinKept>>
      BY <1>2 DEF Kernels!vars
    <2>2. KernelsTyped => KernelsTyped'
      BY <2>1 DEF KernelsTyped
    <2>3. (Kernels!ChangesRecorded => Kernels!ChangesRecorded') /\ (CopiesHeld => CopiesHeld')
      BY <2>1 DEF Kernels!ChangesRecorded, CopiesHeld
    <2>4. Stages => Stages'
      BY <2>1 DEF Stages, ThinUntouched, LeadsHome, Kernels!Recorded, Kernels!ModuleHasTemporalPatch
    <2>5. (Reports => Reports') /\ (Effective => Effective')
      BY <2>1 DEF Reports, Kernels!Recorded, Effective, Kernels!Leading
    <2> QED
      BY <2>1, <2>2, <2>3, <2>4, <2>5 DEF KernelsInv
  <1> QED
    BY <1>1, <1>2

(* What the names of the components say follows.                           *)
LEMMA KernelsSafe == KernelsInv => Kernels!ReportedInEffect /\ Kernels!TypeOK
  <1> SUFFICES ASSUME KernelsInv PROVE Kernels!ReportedInEffect /\ Kernels!TypeOK
    OBVIOUS
  <1>1. KernelsTyped /\ Kernels!ChangesRecorded
    BY DEF KernelsInv
  <1>2. Kernels!InEffect
    <2>1. kernelAt \in {"idle", "midpoint", "thin"} => Effective
      BY DEF KernelsInv
    <2> QED
      BY <2>1 DEF Kernels!InEffect, Effective
  <1>3. DOMAIN image = Kernels!Kernels
    BY <1>1 DEF KernelsTyped
  <1>4. Kernels!TypeOK
    BY <1>1, <1>3 DEF KernelsTyped, Kernels!TypeOK
  <1> QED
    BY <1>1, <1>2, <1>4 DEF Kernels!ReportedInEffect

----------------------------------------------------------------------------
(* The launches of the temporal kernels (CudaTemporal).                    *)

\* The states of the launch bookkeeping, and a launch.
Bound     == {0} \cup Functions
Arenas    == {0, Cuda!HistoryLimit, Cuda!ArenaLimit}
Extents   == {0} \cup Sizes
Factors   == {0} \cup Multipliers
Masks     == SUBSET (1..5)
Phases    == 0..5
Rounds    == 0..2
Turns     == -1..1
Controls  == {Cuda!Off} \cup [enabled : {TRUE}, size : Extents, multiplier : Factors]
InpaintControls == {Cuda!Off} \cup [enabled : {TRUE}, phase : Phases, size : Extents, multiplier : Factors]
BoundContexts == {0} \cup Cuda!Contexts
BoundApis     == {0} \cup Cuda!Apis
CudaStates ==
  [function : Bound, inpaint : Bound, module : Bound, context : BoundContexts, stream : Cuda!Streams,
   api : BoundApis, arena : Arenas, size : Extents, multiplier : Factors, mask : Masks, last : Phases,
   cycles : Rounds, direction : Turns, active : BOOLEAN, local : BOOLEAN, inpaintLocal : BOOLEAN,
   initialized : BOOLEAN, pending : BOOLEAN, control : Controls, inpaintControl : InpaintControls]
LaunchTypes ==
  [kind : {"geometry", "inpaint"}, function : Functions, context : Cuda!Contexts, stream : Cuda!Streams,
   api : Cuda!Apis, known : BOOLEAN, readable : BOOLEAN, size : Sizes, phase : Phases,
   memory : Arenas, uploaded : BOOLEAN]

\* What the two control blocks tell the device lies in the arena.
Lies(s) ==
  /\ s.control.enabled => Cuda!Required(s.control.size, s.control.multiplier) <= s.arena
  /\ s.inpaintControl.enabled =>
       2 * Cuda!Required(s.inpaintControl.size, s.inpaintControl.multiplier) <= s.arena

Sound(s) == s \in CudaStates /\ Lies(s)

CudaInv ==
  /\ mode \in BOOLEAN /\ inpaintMode \in BOOLEAN
  /\ installed \in {"no", "failed", "hooked", "gone"}
  /\ Sound(state)
  /\ dispatch = Cuda!Off \/ dispatch \in [enabled : {TRUE}, geometry : {0} \cup Functions, inpaint : {0} \cup Functions]
  /\ effective \in {0} \cup Multipliers /\ asked \in BOOLEAN

(* The block written when the device's history is turned off.              *)
LEMMA OffIsOff == Cuda!Off.enabled = FALSE /\ Cuda!Off \in Controls /\ Cuda!Off \in InpaintControls
  BY DEF Cuda!Off, Controls, InpaintControls

\* What the fields are given.
LEMMA FieldTypes ==
  /\ Functions \subseteq Bound /\ 0 \in Bound /\ Cuda!Contexts \subseteq BoundContexts /\ 0 \in BoundContexts
  /\ Cuda!Apis \subseteq BoundApis /\ 0 \in BoundApis /\ Sizes \subseteq Extents /\ 0 \in Extents
  /\ {} \in Masks /\ 0 \in Phases /\ 0 \in Rounds /\ 0 \in Turns /\ 0 \in Cuda!Streams
  /\ 0 \in Arenas /\ Cuda!HistoryLimit \in Arenas /\ Cuda!ArenaLimit \in Arenas /\ 0 \in Factors
  /\ \A m \in Masks, p \in 1..5 : m \cup {p} \in Masks /\ p \in Phases
  <1>1. \A m \in Masks, p \in 1..5 : m \cup {p} \in Masks /\ p \in Phases
    BY DEF Masks, Phases
  <1>2. {} \in Masks
    BY DEF Masks
  <1> QED
    BY <1>1, <1>2 DEF Bound, BoundContexts, BoundApis, Extents, Phases, Rounds, Turns, Arenas, Factors,
       Cuda!Streams

(* What two histories need is a number of bytes.                           *)
LEMMA RequiredType ==
  ASSUME NEW size \in Extents, NEW multiplier \in Factors
  PROVE  Cuda!Required(size, multiplier) \in Nat
  <1>1. size \in Nat /\ multiplier \in Nat
    BY CudaAssumption DEF Extents, Factors
  <1>2. multiplier \div 2 \in Nat
    BY <1>1
  <1> QED
    BY <1>1, <1>2 DEF Cuda!Required

(* Nothing is told to the GPU before the first launch.                     *)
LEMMA CudaInit == Cuda!Init => CudaInv
  <1> SUFFICES ASSUME Cuda!Init PROVE CudaInv
    OBVIOUS
  <1>1. Cuda!Blank \in CudaStates
    BY FieldTypes, OffIsOff DEF Cuda!Blank, CudaStates
  <1>2. Lies(Cuda!Blank)
    BY OffIsOff DEF Cuda!Blank, Lies
  <1> QED
    BY <1>1, <1>2 DEF Cuda!Init, CudaInv, Sound

(* Turning the history off tells the GPU of none.                          *)
LEMMA DisabledSound ==
  ASSUME NEW s, Sound(s), NEW write \in BOOLEAN
  PROVE  /\ Sound(Cuda!DisableDeviceHistory(s, write)) /\ Sound(Cuda!DisableInpaintHistory(s, write))
         /\ Sound(Cuda!StayLocal(s)) /\ Sound(Cuda!StayInpaintLocal(s))
  <1>1. Cuda!DisableDeviceHistory(s, write) \in CudaStates /\ Cuda!DisableInpaintHistory(s, write) \in CudaStates
        /\ Cuda!StayLocal(s) \in CudaStates /\ Cuda!StayInpaintLocal(s) \in CudaStates
    BY OffIsOff DEF Sound, CudaStates, Cuda!DisableDeviceHistory, Cuda!DisableInpaintHistory,
       Cuda!StayLocal, Cuda!StayInpaintLocal
  <1>2. Lies(Cuda!DisableDeviceHistory(s, write)) /\ Lies(Cuda!DisableInpaintHistory(s, write))
        /\ Lies(Cuda!StayLocal(s)) /\ Lies(Cuda!StayInpaintLocal(s))
    BY OffIsOff DEF Sound, Lies, CudaStates, Cuda!DisableDeviceHistory, Cuda!DisableInpaintHistory,
       Cuda!StayLocal, Cuda!StayInpaintLocal
  <1> QED
    BY <1>1, <1>2 DEF Sound

(* So does falling back for good.                                          *)
LEMMA FallBackSound ==
  ASSUME NEW s, Sound(s), NEW write \in BOOLEAN
  PROVE  Sound(Cuda!FallBack(s, write)) /\ Sound(Cuda!FallBackInpaint(s, write))
  <1>1. Sound(Cuda!StayLocal(s)) /\ Sound(Cuda!StayInpaintLocal(s))
    BY DisabledSound
  <1> QED
    BY <1>1, DisabledSound DEF Cuda!FallBack, Cuda!FallBackInpaint

\* A step that changes neither a control block nor the arena.
LEMMA SameBlocksSound ==
  ASSUME NEW s, Sound(s), NEW r \in CudaStates, r.control = s.control,
         r.inpaintControl = s.inpaintControl, r.arena = s.arena
  PROVE  Sound(r)
  BY DEF Sound, Lies

(* A launch of another context or stream starts over.                      *)
LEMMA AssociatedSound ==
  ASSUME NEW s, Sound(s), NEW l \in LaunchTypes
  PROVE  Sound(Cuda!Associated(s, l))
  <1> DEFINE bg == [s EXCEPT !.function = l.function, !.module = l.function,
                             !.context = l.context, !.stream = l.stream]
             bi == [s EXCEPT !.inpaint = l.function, !.module = l.function,
                             !.context = l.context, !.stream = l.stream]
  <1>1. Sound(bg) /\ Sound(bi)
    <2>1. bg \in CudaStates /\ bi \in CudaStates
      BY FieldTypes DEF Sound, CudaStates, LaunchTypes
    <2>2. bg.control = s.control /\ bg.inpaintControl = s.inpaintControl /\ bg.arena = s.arena
          /\ bi.control = s.control /\ bi.inpaintControl = s.inpaintControl /\ bi.arena = s.arena
      BY DEF Sound, CudaStates
    <2> HIDE DEF bg, bi
    <2> QED
      BY <2>1, <2>2, SameBlocksSound
  <1>2. Sound(Cuda!StayLocal(s)) /\ Sound(Cuda!StayInpaintLocal(s))
    BY DisabledSound
  <1>3. PICK w \in BOOLEAN : w = (s.context \in {0, l.context})
    <2>1. (s.context \in {0, l.context}) \in BOOLEAN
      OBVIOUS
    <2> QED
      BY <2>1, Zenon
  <1>4. PICK v \in BOOLEAN : v = (s.context = l.context)
    OBVIOUS
  <1>5. Sound(Cuda!FallBack(s, w)) /\ Sound(Cuda!FallBack(s, v)) /\ Sound(Cuda!FallBackInpaint(s, v))
    BY FallBackSound
  <1> HIDE DEF bg, bi
  <1>6. Sound(Cuda!BindTargetFirstTime(s, l))
    BY <1>1, <1>2, <1>3, <1>5 DEF Cuda!BindTargetFirstTime, bg
  <1>7. Sound(Cuda!BindInpaintFirstTime(s, l))
    BY <1>1, <1>2 DEF Cuda!BindInpaintFirstTime, bi
  <1>8. Sound(Cuda!ValidateBoundTarget(s, l)) /\ Sound(Cuda!ValidateBoundInpaint(s, l))
    BY <1>4, <1>5 DEF Cuda!ValidateBoundTarget, Cuda!ValidateBoundInpaint
  <1> QED
    BY <1>6, <1>7, <1>8 DEF Cuda!Associated, LaunchTypes

(* A probe that starts over keeps the multiplier in effect.                *)
LEMMA ResetProbeSound ==
  ASSUME CudaInv, NEW s, Sound(s), NEW l \in LaunchTypes
  PROVE  Sound(Cuda!ResetProbe(s, l)) /\ Cuda!ResetProbe(s, l).multiplier = effective
  <1>1. PICK d : d = Cuda!DisableInpaintHistory(IF s.active THEN Cuda!DisableDeviceHistory(s, TRUE) ELSE s, TRUE)
    OBVIOUS
  <1>2. Sound(d)
    BY <1>1, DisabledSound
  <1> DEFINE r == [d EXCEPT !.size = l.size, !.multiplier = effective, !.mask = {}, !.last = 0,
                            !.cycles = 0, !.direction = 0]
  <1>3. Cuda!ResetProbe(s, l) = r
    BY <1>1 DEF Cuda!ResetProbe
  <1>4. r \in CudaStates /\ r.multiplier = effective
    BY <1>2, FieldTypes DEF Sound, CudaInv, CudaStates, LaunchTypes, Factors
  <1>5. r.control = d.control /\ r.inpaintControl = d.inpaintControl /\ r.arena = d.arena
    BY <1>2 DEF Sound, CudaStates
  <1> HIDE DEF r
  <1> QED
    BY <1>2, <1>3, <1>4, <1>5, SameBlocksSound

(* Counting phases touches no block.                                       *)
LEMMA ObservedSound ==
  ASSUME NEW s, Sound(s), NEW phase \in 1..5
  PROVE  Sound(Cuda!ObservePhaseSequence(s, phase))
  <1>1. Cuda!Direction(s, phase) \in -1..1
    BY DEF Cuda!Direction
  <1>2. PICK direction \in -1..1, cycles \in 0..2 :
          Cuda!ObservePhaseSequence(s, phase) =
            [s EXCEPT !.direction = direction, !.last = phase, !.mask = @ \cup {phase}, !.cycles = cycles]
    <2> DEFINE d == IF s.multiplier = 2 \/ s.last = 0 THEN s.direction ELSE Cuda!Direction(s, phase)
               w == \/ s.multiplier = 2 /\ s.last # 0
                    \/ d = 1 /\ s.last = s.multiplier - 1 /\ phase = 1
                    \/ d = -1 /\ s.last = 1 /\ phase = s.multiplier - 1
               c == IF w /\ s.cycles < 2 THEN s.cycles + 1 ELSE s.cycles
    <2>1. d \in -1..1
      BY <1>1 DEF Sound, CudaStates, Turns
    <2>2. c \in 0..2
      BY DEF Sound, CudaStates, Rounds
    <2>3. Cuda!ObservePhaseSequence(s, phase) =
            [s EXCEPT !.direction = d, !.last = phase, !.mask = @ \cup {phase}, !.cycles = c]
      BY DEF Cuda!ObservePhaseSequence
    <2> HIDE DEF d, w, c
    <2> QED
      BY <2>1, <2>2, <2>3
  <1> DEFINE o == [s EXCEPT !.direction = direction, !.last = phase, !.mask = @ \cup {phase}, !.cycles = cycles]
  <1>3. o \in CudaStates
    BY FieldTypes DEF Sound, CudaStates, Turns, Rounds
  <1>4. o.control = s.control /\ o.inpaintControl = s.inpaintControl /\ o.arena = s.arena
    BY DEF Sound, CudaStates
  <1> HIDE DEF o
  <1> QED
    BY <1>2, <1>3, <1>4, SameBlocksSound DEF o

\* The arena is given once; nothing was told of it before.
LEMMA AllocatedSound ==
  ASSUME NEW s, Sound(s), NEW l \in LaunchTypes
  PROVE  Sound(Cuda!Allocated(s, l)) /\ Cuda!Allocated(s, l).multiplier = s.multiplier /\ Cuda!Allocated(s, l).size = s.size
  <1> SUFFICES ASSUME NEW d, Sound(d), d.arena = s.arena, d.size = s.size, d.multiplier = s.multiplier,
                      s.arena = 0, NEW arena \in {Cuda!HistoryLimit, Cuda!ArenaLimit}
               PROVE  LET a == [d EXCEPT !.arena = arena]
                      IN Sound(a) /\ a.multiplier = s.multiplier /\ a.size = s.size
    <2>1. Sound(Cuda!StayInpaintLocal(s)) /\ Cuda!StayInpaintLocal(s).arena = s.arena
          /\ Cuda!StayInpaintLocal(s).size = s.size /\ Cuda!StayInpaintLocal(s).multiplier = s.multiplier
      BY DisabledSound DEF Cuda!StayInpaintLocal, Sound, CudaStates
    <2> QED
      BY <2>1 DEF Cuda!Allocated
  <1> DEFINE a == [d EXCEPT !.arena = arena]
  <1>1. a \in CudaStates
    BY FieldTypes DEF Sound, CudaStates
  <1>2. a.control = d.control /\ a.inpaintControl = d.inpaintControl /\ a.arena = arena
        /\ a.size = d.size /\ a.multiplier = d.multiplier /\ d.control \in Controls
        /\ d.inpaintControl \in InpaintControls
    BY DEF Sound, CudaStates
  <1> HIDE DEF a
  <1>3. d.control.enabled => Cuda!Required(d.control.size, d.control.multiplier) \in Nat
    <2>1. CASE d.control = Cuda!Off
      BY <2>1, OffIsOff
    <2>2. CASE d.control # Cuda!Off
      BY <1>2, <2>2, RequiredType DEF Controls
    <2> QED
      BY <2>1, <2>2
  <1>4. d.inpaintControl.enabled => Cuda!Required(d.inpaintControl.size, d.inpaintControl.multiplier) \in Nat
    <2>1. CASE d.inpaintControl = Cuda!Off
      BY <2>1, OffIsOff
    <2>2. CASE d.inpaintControl # Cuda!Off
      BY <1>2, <2>2, RequiredType DEF InpaintControls
    <2> QED
      BY <2>1, <2>2
  <1>5. arena \in Nat /\ arena > 0
    BY DEF Cuda!HistoryLimit, Cuda!ArenaLimit
  <1>6. Lies(a)
    BY <1>2, <1>3, <1>4, <1>5 DEF Sound, Lies
  <1> QED
    BY <1>1, <1>2, <1>6 DEF Sound, a

(* What is published fits in what was allocated.                           *)
LEMMA ActivatedSound ==
  ASSUME NEW s, Sound(s), NEW l \in LaunchTypes
  PROVE  Sound(Cuda!Activate(s, l))
  <1>1. PICK a : a = Cuda!Allocated(s, l)
    OBVIOUS
  <1>2. Sound(a) /\ a.multiplier = s.multiplier /\ a.size = s.size
    BY <1>1, AllocatedSound
  <1>3. Sound(Cuda!FallBack(s, TRUE)) /\ Sound(Cuda!FallBack(a, TRUE))
    BY <1>2, FallBackSound
  <1> DEFINE c == [enabled |-> TRUE, size |-> s.size, multiplier |-> s.multiplier]
             t == [a EXCEPT !.active = TRUE, !.control = c]
  <1>4. ASSUME ~(Cuda!Required(s.size, s.multiplier) > Cuda!HistoryLimit), a.arena # 0
        PROVE  Sound(t)
    <2>1. s.size \in Extents /\ s.multiplier \in Factors /\ a.arena \in Arenas
      BY <1>2 DEF Sound, CudaStates
    <2>2. Cuda!Required(s.size, s.multiplier) <= a.arena
      BY <1>4, <2>1, RequiredType DEF Arenas, Cuda!HistoryLimit, Cuda!ArenaLimit
    <2>3. c \in Controls
      BY <2>1 DEF Controls
    <2>4. c.size = s.size /\ c.multiplier = s.multiplier
      OBVIOUS
    <2> HIDE DEF c
    <2>5. t \in CudaStates
      BY <1>2, <2>3 DEF Sound, CudaStates
    <2>6. t.control = c /\ t.inpaintControl = a.inpaintControl /\ t.arena = a.arena
      BY <1>2 DEF Sound, CudaStates
    <2> HIDE DEF t
    <2> QED
      BY <1>2, <2>2, <2>4, <2>5, <2>6 DEF Sound, Lies
  <1> QED
    BY <1>1, <1>3, <1>4 DEF Cuda!Activate

(* So does what the inpainting is told of.                                 *)
LEMMA PublishedSound ==
  ASSUME NEW s, Sound(s), NEW l \in LaunchTypes
  PROVE  Sound(Cuda!PublishInpaintControl(s, l))
  <1> DEFINE c == [enabled |-> TRUE, phase |-> l.phase, size |-> s.size, multiplier |-> s.multiplier]
             t == [s EXCEPT !.initialized = TRUE, !.pending = TRUE, !.inpaintControl = c]
  <1>1. Sound(Cuda!FallBackInpaint(s, TRUE))
    BY FallBackSound
  <1>2. ASSUME Cuda!Fits(s) PROVE Sound(t)
    <2>1. s.size \in Extents /\ s.multiplier \in Factors /\ l.phase \in Phases
      BY DEF Sound, CudaStates, LaunchTypes
    <2>2. c \in InpaintControls
      BY <2>1 DEF InpaintControls
    <2>3. c.size = s.size /\ c.multiplier = s.multiplier
      OBVIOUS
    <2> HIDE DEF c
    <2>4. t \in CudaStates
      BY <2>2 DEF Sound, CudaStates
    <2>5. t.control = s.control /\ t.inpaintControl = c /\ t.arena = s.arena
      BY DEF Sound, CudaStates
    <2> HIDE DEF t
    <2> QED
      BY <1>2, <2>3, <2>4, <2>5 DEF Sound, Lies, Cuda!Fits
  <1> QED
    BY <1>1, <1>2 DEF Cuda!PublishInpaintControl

(* A launch of the inpainting keeps its block sound.                       *)
LEMMA PreparedInpaintSound ==
  ASSUME NEW s, Sound(s), NEW l \in LaunchTypes, NEW just \in BOOLEAN
  PROVE  Sound(Cuda!PrepareInpaint(s, l, just))
  <1> DEFINE t == [s EXCEPT !.pending = FALSE]
  <1>1. t \in CudaStates /\ t.control = s.control /\ t.inpaintControl = s.inpaintControl /\ t.arena = s.arena
    BY DEF Sound, CudaStates
  <1> HIDE DEF t
  <1>2. Sound(t)
    BY <1>1, SameBlocksSound
  <1>3. Sound(Cuda!FallBackInpaint(s, TRUE))
    BY FallBackSound
  <1> QED
    BY <1>2, <1>3 DEF Cuda!PrepareInpaint, t

(* Without a multiplier in effect no history is told of.                   *)
LEMMA NoFrameGenerationSound ==
  ASSUME NEW s, Sound(s)
  PROVE  Sound(Cuda!NoFrameGeneration(s))
  <1>1. Sound(Cuda!DisableInpaintHistory(Cuda!DisableDeviceHistory(s, TRUE), TRUE))
    BY DisabledSound
  <1> QED
    BY <1>1 DEF Cuda!NoFrameGeneration

(* A launch of the geometry kernel keeps both blocks sound.                *)
LEMMA ProbedSound ==
  ASSUME CudaInv, NEW s, Sound(s), NEW l \in LaunchTypes, effective # 0
  PROVE  Sound(Cuda!ProbeGeometry(s, l))
  <1>1. PICK r : r = IF asked THEN Cuda!ResetProbe(s, l) ELSE s
    OBVIOUS
  <1>2. Sound(r)
    BY <1>1, ResetProbeSound
  <1>3. PICK p : p = IF r.size # l.size \/ r.multiplier # effective THEN Cuda!ResetProbe(r, l) ELSE r
    OBVIOUS
  <1>4. Sound(p)
    BY <1>2, <1>3, ResetProbeSound
  <1>5. Sound(Cuda!FallBack(r, TRUE)) /\ Sound(Cuda!FallBack(p, TRUE))
    BY <1>2, <1>4, FallBackSound
  <1>6. ASSUME l.phase \in 1..(effective - 1)
        PROVE  LET o == Cuda!ObservePhaseSequence(p, l.phase)
                   a == IF Cuda!MayActivate(o) THEN Cuda!Activate(o, l) ELSE o
               IN Sound(Cuda!FallBackInpaint(a, TRUE)) /\ Sound(Cuda!PublishInpaintControl(a, l))
    <2>1. l.phase \in 1..5
      BY <1>6, CudaAssumption DEF CudaInv
    <2>2. PICK o : o = Cuda!ObservePhaseSequence(p, l.phase)
      OBVIOUS
    <2>3. Sound(o)
      BY <1>4, <2>1, <2>2, ObservedSound
    <2>4. PICK a : a = IF Cuda!MayActivate(o) THEN Cuda!Activate(o, l) ELSE o
      OBVIOUS
    <2>5. Sound(a)
      BY <2>3, <2>4, ActivatedSound
    <2>6. Sound(Cuda!FallBackInpaint(a, TRUE)) /\ Sound(Cuda!PublishInpaintControl(a, l))
      BY <2>5, FallBackSound, PublishedSound
    <2> QED
      BY <2>2, <2>4, <2>6
  <1> QED
    BY <1>1, <1>3, <1>5, <1>6 DEF Cuda!ProbeGeometry

(* A launch of either kernel keeps both blocks sound.                      *)
LEMMA PreparedSound ==
  ASSUME CudaInv, NEW s, Sound(s), NEW l \in LaunchTypes
  PROVE  Sound(Cuda!Prepared(s, l))
  <1>1. PICK b : b = Cuda!Associated(s, l)
    OBVIOUS
  <1>2. Sound(b)
    BY <1>1, AssociatedSound
  <1>3. PICK k : k = [b EXCEPT !.api = l.api]
    OBVIOUS
  <1>4. Sound(k)
    <2>1. k \in CudaStates
      BY <1>2, <1>3, FieldTypes DEF Sound, CudaStates, LaunchTypes
    <2>2. k.control = b.control /\ k.inpaintControl = b.inpaintControl /\ k.arena = b.arena
      BY <1>2, <1>3 DEF Sound, CudaStates
    <2> QED
      BY <1>2, <2>1, <2>2, SameBlocksSound
  <1>5. Sound(Cuda!FallBack(b, TRUE)) /\ Sound(Cuda!FallBack(k, TRUE)) /\ Sound(Cuda!FallBackInpaint(k, TRUE))
    BY <1>2, <1>4, FallBackSound
  <1>6. PICK just \in BOOLEAN : just = Cuda!FirstTime(s, l)
    BY DEF Cuda!FirstTime
  <1>7. Sound(Cuda!PrepareInpaint(k, l, just)) /\ Sound(Cuda!NoFrameGeneration(k))
        /\ (effective # 0 => Sound(Cuda!ProbeGeometry(k, l)))
    BY <1>4, PreparedInpaintSound, NoFrameGenerationSound, ProbedSound
  <1>8. l.kind \in {"geometry", "inpaint"}
    BY DEF LaunchTypes
  <1> QED
    BY <1>1, <1>2, <1>3, <1>5, <1>6, <1>7, <1>8 DEF Cuda!Prepared

(* A launch of the game is of this type.                                   *)
LEMMA LaunchesTyped == Cuda!Launches \subseteq LaunchTypes
  <1> DEFINE good == [kind : {"geometry", "inpaint"}, function : {1}, context : {1}, stream : {1},
                      api : {1}, known : {TRUE}, readable : {TRUE}, size : Sizes,
                      phase : UNION {0..(m - 1) : m \in Multipliers},
                      memory : {Cuda!ArenaLimit}, uploaded : {TRUE}]
             faulty(l) == {[l EXCEPT !.function = f] : f \in Functions}
                          \cup {[l EXCEPT !.context = 2], [l EXCEPT !.stream = 0], [l EXCEPT !.api = 2],
                                [l EXCEPT !.known = FALSE], [l EXCEPT !.readable = FALSE],
                                [l EXCEPT !.memory = Cuda!HistoryLimit], [l EXCEPT !.memory = 0],
                                [l EXCEPT !.uploaded = FALSE]}
             usual == {l \in good : l.kind = "inpaint" => l.phase = 1}
  <1>1. good \subseteq LaunchTypes
    <2>1. UNION {0..(m - 1) : m \in Multipliers} \subseteq Phases
      BY CudaAssumption DEF Phases
    <2>2. /\ 1 \in Functions /\ 1 \in Cuda!Contexts /\ 1 \in Cuda!Streams /\ 1 \in Cuda!Apis /\ TRUE \in BOOLEAN
          /\ Cuda!ArenaLimit \in Arenas
      BY CudaAssumption, FieldTypes DEF Cuda!Contexts, Cuda!Streams, Cuda!Apis
    <2> HIDE DEF good
    <2> QED
      BY <2>1, <2>2 DEF good, LaunchTypes
  <1>2. ASSUME NEW l \in LaunchTypes, NEW k \in faulty(l) PROVE k \in LaunchTypes
    <2>1. 2 \in Cuda!Contexts /\ 0 \in Cuda!Streams /\ 2 \in Cuda!Apis /\ Cuda!HistoryLimit \in Arenas /\ 0 \in Arenas
      BY FieldTypes DEF Cuda!Contexts, Cuda!Streams, Cuda!Apis
    <2>2. \A f \in Functions : [l EXCEPT !.function = f] \in LaunchTypes
      BY DEF LaunchTypes
    <2>3. [l EXCEPT !.context = 2] \in LaunchTypes /\ [l EXCEPT !.stream = 0] \in LaunchTypes
          /\ [l EXCEPT !.api = 2] \in LaunchTypes
      BY <2>1 DEF LaunchTypes
    <2>4. [l EXCEPT !.known = FALSE] \in LaunchTypes /\ [l EXCEPT !.readable = FALSE] \in LaunchTypes
          /\ [l EXCEPT !.uploaded = FALSE] \in LaunchTypes
      BY DEF LaunchTypes
    <2>5. [l EXCEPT !.memory = Cuda!HistoryLimit] \in LaunchTypes /\ [l EXCEPT !.memory = 0] \in LaunchTypes
      BY <2>1 DEF LaunchTypes
    <2> QED
      BY <1>2, <2>2, <2>3, <2>4, <2>5
  <1>3. Cuda!Launches = usual \cup UNION {faulty(l) : l \in {g \in usual : g.phase = 1}}
    BY DEF Cuda!Launches
  <1> HIDE DEF good, faulty
  <1> QED
    BY <1>1, <1>2, <1>3

(* Every launch, and every change of the settings, keeps it.               *)
LEMMA CudaStep == CudaInv /\ [Cuda!Next]_(Cuda!vars) => CudaInv'
  <1> SUFFICES ASSUME CudaInv, [Cuda!Next]_(Cuda!vars) PROVE CudaInv'
    OBVIOUS
  <1>1. ASSUME NEW l \in Cuda!Launches, Cuda!PrepareLaunch(l) PROVE CudaInv'
    <2>1. PICK t : t = Cuda!Prepared(state, l)
      OBVIOUS
    <2>2. Sound(t)
      BY <2>1, LaunchesTyped, PreparedSound DEF CudaInv
    <2>3. state' = t /\ dispatch' \in {dispatch, Cuda!PublishDispatch(t)} /\ asked' = (asked /\ ~Cuda!SeesReset(state, l))
          /\ UNCHANGED <<mode, inpaintMode, installed, effective>>
      BY <1>1, <2>1 DEF Cuda!PrepareLaunch
    <2>4. dispatch' = dispatch
          \/ dispatch' \in [enabled : {TRUE}, geometry : {0} \cup Functions, inpaint : {0} \cup Functions]
      <3>1. t.function \in {0} \cup Functions /\ t.inpaint \in {0} \cup Functions
        BY <2>2 DEF Sound, CudaStates, Bound
      <3>2. [enabled |-> TRUE, geometry |-> t.function, inpaint |-> t.inpaint]
              \in [enabled : {TRUE}, geometry : {0} \cup Functions, inpaint : {0} \cup Functions]
        BY <3>1
      <3> QED
        BY <2>3, <3>2 DEF Cuda!PublishDispatch
    <2>5. asked' \in BOOLEAN
      BY <2>3
    <2>6. Sound(state)'
      BY <2>2, <2>3 DEF Sound, Lies
    <2> QED
      BY <2>3, <2>4, <2>5, <2>6 DEF CudaInv
  <1>2. CASE Cuda!TryInstall
    BY <1>2 DEF Cuda!TryInstall, CudaInv, Sound, Lies
  <1>3. CASE Cuda!Uninstall
    BY <1>3 DEF Cuda!Uninstall, CudaInv, Sound, Lies
  <1>4. CASE Cuda!RequestHistoryReset
    BY <1>4 DEF Cuda!RequestHistoryReset, CudaInv, Sound, Lies
  <1>5. CASE Cuda!EffectiveMultiplier
    BY <1>5 DEF Cuda!EffectiveMultiplier, CudaInv, Sound, Lies
  <1>6. CASE UNCHANGED Cuda!vars
    BY <1>6 DEF Cuda!vars, CudaInv, Sound, Lies
  <1> QED
    BY <1>1, <1>2, <1>3, <1>4, <1>5, <1>6 DEF Cuda!Next

(* The type and the claim follow.                                          *)
LEMMA CudaSafe == CudaInv => Cuda!TypeOK /\ Cuda!HistoryInArena
  <1> SUFFICES ASSUME CudaInv PROVE Cuda!TypeOK /\ Cuda!HistoryInArena
    OBVIOUS
  <1>1. DOMAIN state = DOMAIN Cuda!Blank
    BY DEF CudaInv, Sound, CudaStates, Cuda!Blank
  <1>2. Cuda!TypeOK
    BY <1>1 DEF CudaInv, Sound, CudaStates, Cuda!TypeOK, Bound, Arenas, Extents, Factors, Masks, Rounds,
       Turns
  <1>3. Cuda!HistoryInArena
    BY DEF CudaInv, Sound, Lies, Cuda!HistoryInArena
  <1> QED
    BY <1>2, <1>3

----------------------------------------------------------------------------
(* The samples of GetState and the estimate mailbox (StateEvidence).       *)

(* The answer to a call changes nothing of the mailbox but, if the call    *)
(* carried an estimate, its status, which is then no longer pending.       *)
LEMMA EstimateType ==
  ASSUME States!PlansAreEstimates, NEW e \in States!Estimates, NEW plan \in Plans \cup {States!NoPlan}, NEW ok \in BOOLEAN
  PROVE  /\ States!CompleteVramEstimate(e, plan, ok) \in States!Estimates
         /\ States!CompleteVramEstimate(e, plan, ok).request = e.request
         /\ States!CompleteVramEstimate(e, plan, ok).status \in {e.status, "ready", "failed"}
         /\ plan # States!NoPlan => States!CompleteVramEstimate(e, plan, ok).status # "pending"
  <1>1. CASE plan = States!NoPlan
    BY <1>1 DEF States!CompleteVramEstimate
  <1>2. CASE plan # States!NoPlan
    <2>1. plan \in [signature : Nat, compare : Nat, ui : BOOLEAN]
      BY <1>2 DEF States!PlansAreEstimates
    <2>2. e.ready \cup {<<plan.ui, plan.compare>>} \in SUBSET (BOOLEAN \X Nat)
      BY <2>1 DEF States!Estimates
    <2>3. QED
      BY <1>2, <2>1, <2>2 DEF States!CompleteVramEstimate, States!Estimates, States!Statuses
  <1>3. QED
    BY <1>1, <1>2

(* The inductive invariant.  The bound on the epochs leaves room for the   *)
(* clearing that is due; only a call in flight carries an estimate; and    *)
(* what the panel is about to call pending is already owed.                *)

RoomToClear == observing => validation < Epochs
CarriedInFlight == \A t \in Samplers : sampling[t].at # "calling" => sampling[t].plan = States!NoPlan

AnnouncedIsOwed ==
  announcing # States!NoPlan /\ ~overtaken =>
    estimate.request = announcing \/ \E t \in Samplers : sampling[t].plan = announcing

StatesInv == States!TypeOK /\ RoomToClear /\ CarriedInFlight /\ AnnouncedIsOwed /\ States!PendingIsOwed

(* Nothing is asked for at first.                                         *)
LEMMA StatesInit == ASSUME States!PlansAreEstimates, States!Init PROVE StatesInv
  <1>1. States!NoEstimate \in States!Estimates
    BY DEF States!NoEstimate, States!Estimates, States!Statuses
  <1>2. States!Asking \in States!Calls
    BY DEF States!PlansAreEstimates, States!Asking, States!Calls
  <1>. observing \in BOOLEAN /\ overtaken \in BOOLEAN
    BY DEF States!Init
  <1>3. States!TypeOK
    BY <1>1, <1>2 DEF States!PlansAreEstimates, States!Init, States!TypeOK
  <1>4. CarriedInFlight
    BY DEF States!Init, CarriedInFlight, States!Asking
  <1>5. RoomToClear /\ AnnouncedIsOwed /\ States!PendingIsOwed
    BY DEF States!Init, RoomToClear, AnnouncedIsOwed, States!PendingIsOwed, States!NoEstimate
  <1>6. QED
    BY <1>3, <1>4, <1>5 DEF StatesInv

(* The panel and the options: what they announce or make pending is in the *)
(* mailbox, or was overtaken.                                              *)
LEMMA StatesQueueStep ==
  ASSUME States!PlansAreEstimates, StatesInv,
         \/ \E new \in 1..2 : States!ObserveOptions(new)
         \/ States!ResetOutputValidationEvidence
         \/ \E plan \in Plans : States!PutVramEstimate(plan)
         \/ States!QueueVramEstimate \/ States!SetVramEstimateWaiting \/ States!ResetVramEstimate
  PROVE  StatesInv'
  <1> USE DEF StatesInv, States!TypeOK, RoomToClear, CarriedInFlight, AnnouncedIsOwed, States!PendingIsOwed, States!mailbox
  <1>1. CASE \E new \in 1..2 : States!ObserveOptions(new)
    BY <1>1 DEF States!ObserveOptions
  <1>2. CASE States!ResetOutputValidationEvidence
    <2>1. Epochs \in Nat
      BY DEF States!PlansAreEstimates
    <2>2. observing' \in BOOLEAN /\ ~observing'
      BY <1>2 DEF States!ResetOutputValidationEvidence
    <2>3. options' \in 0..2 /\ validation' \in 0..Epochs
      BY <1>2, <2>1 DEF States!ResetOutputValidationEvidence
    <2>4. evidence' \in [seen : BOOLEAN, epoch : 0..Epochs]
      BY <1>2, <2>1 DEF States!ResetOutputValidationEvidence
    <2>5. UNCHANGED <<sampling, estimate, announcing, overtaken>>
      BY <1>2 DEF States!ResetOutputValidationEvidence
    <2>6. QED
      BY <2>2, <2>3, <2>4, <2>5
  <1>3. ASSUME NEW plan \in Plans, States!PutVramEstimate(plan) PROVE StatesInv'
    <2>1. plan # States!NoPlan
      BY DEF States!PlansAreEstimates
    <2>2. PICK cleared \in {estimate, [estimate EXCEPT !.ready = {}]} :
            \/ estimate' = cleared /\ UNCHANGED <<announcing, overtaken>>
            \/ /\ estimate' = [cleared EXCEPT !.request = plan]
               /\ announcing' = plan /\ overtaken' = FALSE
      BY <1>3 DEF States!PutVramEstimate
    <2>3. cleared \in States!Estimates /\ cleared.request = estimate.request /\ cleared.status = estimate.status
      BY <2>2 DEF States!Estimates
    <2>4. UNCHANGED <<options, observing, validation, evidence, sampling>> /\ announcing = States!NoPlan
      BY <1>3 DEF States!PutVramEstimate
    <2>5. CASE estimate' = cleared /\ UNCHANGED <<announcing, overtaken>>
      BY <2>3, <2>4, <2>5
    <2>6. CASE estimate' = [cleared EXCEPT !.request = plan] /\ announcing' = plan /\ overtaken' = FALSE
      <3>1. estimate' \in States!Estimates /\ estimate'.request = plan
        BY <2>3, <2>6 DEF States!Estimates
      <3>2. AnnouncedIsOwed' /\ States!PendingIsOwed'
        BY <2>1, <2>6, <3>1
      <3>3. QED
        BY <2>4, <2>6, <3>1, <3>2
    <2>7. QED
      BY <2>2, <2>5, <2>6
  <1>4. CASE States!QueueVramEstimate
    <2>1. announcing.signature \in Nat
      BY <1>4 DEF States!QueueVramEstimate, States!PlansAreEstimates
    <2>2. estimate' \in States!Estimates /\ estimate'.request = estimate.request
      BY <1>4, <2>1 DEF States!QueueVramEstimate, States!Estimates, States!Statuses
    <2>3. announcing' = States!NoPlan /\ UNCHANGED <<options, observing, validation, evidence, sampling, overtaken>>
      BY <1>4 DEF States!QueueVramEstimate
    <2>4. States!PendingIsOwed'
      BY <1>4, <2>2, <2>3 DEF States!QueueVramEstimate
    <2>5. QED
      BY <2>2, <2>3, <2>4
  <1>5. CASE States!SetVramEstimateWaiting
    BY <1>5 DEF States!SetVramEstimateWaiting, States!Estimates, States!Statuses
  <1>6. CASE States!ResetVramEstimate
    BY <1>6 DEF States!ResetVramEstimate, States!NoEstimate, States!Estimates, States!Statuses
  <1>7. QED
    BY <1>1, <1>2, <1>3, <1>4, <1>5, <1>6

(* A call of a game's thread: it takes the request with it, and its answer *)
(* ends the wait, or overtakes the announcement of what it answers.        *)
LEMMA StatesCallStep ==
  ASSUME States!PlansAreEstimates, StatesInv, NEW t \in Samplers,
         States!GetState(t) \/ States!TakeVramEstimate(t) \/ States!Answered(t) \/ States!StillCurrent(t) \/ States!Publish(t)
  PROVE  StatesInv'
  <1> USE DEF StatesInv, States!TypeOK, RoomToClear, States!mailbox
  <1>1. CASE States!GetState(t)
    <2>1. PICK where \in {"taking", "calling"} :
            sampling' = [sampling EXCEPT ![t] = [at |-> where, epoch |-> validation, plan |-> States!NoPlan]]
      BY <1>1 DEF States!GetState
    <2>2. sampling' \in [Samplers -> States!Calls]
      BY <2>1 DEF States!Calls
    <2>3. sampling[t].plan = States!NoPlan
      BY <1>1 DEF States!GetState, CarriedInFlight
    <2>4. \A u \in Samplers : sampling'[u].plan = sampling[u].plan
      BY <2>1, <2>3
    <2>5. CarriedInFlight'
      BY <2>1, <2>3, <2>4 DEF CarriedInFlight
    <2>6. UNCHANGED <<options, observing, validation, evidence, States!mailbox>>
      BY <1>1 DEF States!GetState
    <2>7. AnnouncedIsOwed' /\ States!PendingIsOwed'
      BY <2>4, <2>6 DEF AnnouncedIsOwed, States!PendingIsOwed
    <2>8. QED
      BY <2>2, <2>5, <2>6, <2>7
  <1>2. CASE States!TakeVramEstimate(t)
    <2>1. /\ sampling' = [sampling EXCEPT ![t].at = "calling", ![t].plan = estimate.request]
          /\ estimate' = [estimate EXCEPT !.request = States!NoPlan]
          /\ UNCHANGED <<options, observing, validation, evidence, announcing, overtaken>>
      BY <1>2 DEF States!TakeVramEstimate
    <2>2. sampling' \in [Samplers -> States!Calls] /\ estimate' \in States!Estimates
      BY <2>1 DEF States!Calls, States!Estimates
    <2>3. /\ sampling'[t].plan = estimate.request /\ sampling'[t].at = "calling"
          /\ \A u \in Samplers : u # t => sampling'[u] = sampling[u]
          /\ estimate'.status = estimate.status
      BY <2>1 DEF States!Calls, States!Estimates
    <2>4. sampling[t].plan = States!NoPlan
      BY <1>2 DEF States!TakeVramEstimate, CarriedInFlight
    <2>5. CarriedInFlight'
      BY <2>3 DEF CarriedInFlight
    <2>6. AnnouncedIsOwed' /\ States!PendingIsOwed'
      BY <2>1, <2>3, <2>4 DEF AnnouncedIsOwed, States!PendingIsOwed
    <2>7. QED
      BY <2>1, <2>2, <2>5, <2>6
  <1>3. CASE States!Answered(t)
    <2>1. PICK where \in {"answered", "idle"}, ok \in BOOLEAN :
            /\ estimate' = States!CompleteVramEstimate(estimate, sampling[t].plan, ok)
            /\ sampling' = [sampling EXCEPT ![t].at = where, ![t].plan = States!NoPlan]
      BY <1>3 DEF States!Answered
    <2>2. sampling[t].plan \in Plans \cup {States!NoPlan}
      BY DEF States!Calls
    <2>3. /\ estimate' \in States!Estimates /\ estimate'.request = estimate.request
          /\ estimate'.status = "pending" => estimate.status = "pending"
          /\ sampling[t].plan # States!NoPlan => estimate'.status # "pending"
      <3> DEFINE plan == sampling[t].plan
                 completed == States!CompleteVramEstimate(estimate, plan, ok)
      <3>1. estimate \in States!Estimates /\ plan \in Plans \cup {States!NoPlan}
        BY <2>2
      <3> HIDE DEF plan
      <3>2. /\ completed \in States!Estimates /\ completed.request = estimate.request
            /\ completed.status \in {estimate.status, "ready", "failed"}
            /\ plan # States!NoPlan => completed.status # "pending"
        BY <3>1, EstimateType
      <3>3. estimate' = completed
        BY <2>1 DEF plan
      <3> HIDE DEF completed
      <3> QED
        BY <3>2, <3>3 DEF plan
    <2>4. sampling' \in [Samplers -> States!Calls]
      BY <2>1 DEF States!Calls
    <2>5. /\ sampling'[t].plan = States!NoPlan
          /\ \A u \in Samplers : u # t => sampling'[u] = sampling[u]
      BY <2>1 DEF States!Calls
    <2>6. CarriedInFlight'
      BY <2>5 DEF CarriedInFlight
    <2>7. /\ overtaken' \in BOOLEAN /\ (overtaken => overtaken')
          /\ announcing # States!NoPlan /\ announcing = sampling[t].plan => overtaken'
          /\ UNCHANGED <<options, observing, validation, evidence, announcing>>
      BY <1>3 DEF States!Answered
    <2>8. AnnouncedIsOwed'
      BY <2>3, <2>5, <2>7 DEF AnnouncedIsOwed
    <2>9. States!PendingIsOwed'
      BY <2>3, <2>5, <2>7 DEF States!PendingIsOwed
    <2>10. QED
      BY <2>3, <2>4, <2>6, <2>7, <2>8, <2>9
  <1>4. CASE States!StillCurrent(t) \/ States!Publish(t)
    <2>1. PICK where \in {"publishing", "idle"} : sampling' = [sampling EXCEPT ![t].at = where]
      BY <1>4 DEF States!StillCurrent, States!Publish
    <2>2. sampling' \in [Samplers -> States!Calls]
      BY <2>1 DEF States!Calls
    <2>3. \A u \in Samplers : sampling'[u].plan = sampling[u].plan
      BY <2>1 DEF States!Calls
    <2>4. sampling[t].at # "calling"
      BY <1>4 DEF States!StillCurrent, States!Publish
    <2>5. CarriedInFlight'
      BY <2>1, <2>3, <2>4 DEF CarriedInFlight, States!Calls
    <2>6. UNCHANGED <<options, observing, validation, States!mailbox>>
      BY <1>4 DEF States!StillCurrent, States!Publish
    <2>7. evidence' \in [seen : BOOLEAN, epoch : 0..Epochs]
      <3>1. sampling[t].epoch \in 0..Epochs
        BY DEF States!Calls
      <3>2. CASE States!Publish(t)
        BY <3>1, <3>2 DEF States!Publish
      <3>3. CASE States!StillCurrent(t)
        BY <3>3 DEF States!StillCurrent
      <3>4. QED
        BY <1>4, <3>2, <3>3
    <2>8. AnnouncedIsOwed' /\ States!PendingIsOwed'
      BY <2>3, <2>6 DEF AnnouncedIsOwed, States!PendingIsOwed
    <2>9. QED
      BY <2>2, <2>5, <2>6, <2>7, <2>8
  <1>5. QED
    BY <1>1, <1>2, <1>3, <1>4

(* Every step keeps it.                                                    *)
LEMMA StatesStep == ASSUME States!PlansAreEstimates, StatesInv, [States!Next]_(States!vars) PROVE StatesInv'
  <1>1. CASE UNCHANGED States!vars
    BY <1>1 DEF States!vars, States!mailbox, StatesInv, States!TypeOK, RoomToClear, CarriedInFlight,
       AnnouncedIsOwed, States!PendingIsOwed
  <1>2. QED
    BY <1>1, StatesQueueStep, StatesCallStep DEF States!Next

(* The type and the claim follow.                                          *)
LEMMA StatesSafe == StatesInv => States!TypeOK /\ States!PendingIsOwed
  BY DEF StatesInv

----------------------------------------------------------------------------
(* The tags of a viewport and the temporal resets (QualityGuard).          *)

(* The inductive invariant: a call answers for requests made before it     *)
(* began, and, once accepted, for such as Streamline has.                  *)

ReachedWereRequested == reached <= resets.requested

CallsAnswerForTheirs ==
  \A t \in Senders :
    /\ constants[t].requested <= resets.requested
    /\ constants[t].at = "accepted" => constants[t].requested <= reached

ResetsInv == Guard!ResetsTyped /\ ReachedWereRequested /\ CallsAnswerForTheirs /\ Guard!ResetReachesHistory

(* Nothing was requested at first.                                         *)
LEMMA ResetsInit == ASSUME MaxResets \in Nat, Guard!Init PROVE ResetsInv
  BY DEF Guard!Init, ResetsInv, Guard!ResetsTyped, ReachedWereRequested, CallsAnswerForTheirs,
     Guard!ResetReachesHistory, Guard!Sending

(* A request only adds to those pending.                                   *)
LEMMA ResetsRequestStep ==
  ASSUME MaxResets \in Nat, ResetsInv, resets' \in {resets, Guard!RequestReset(resets), Guard!RequestReset(Guard!RequestReset(resets))},
         UNCHANGED <<reached, constants>>
  PROVE  ResetsInv'
  <1> USE DEF ResetsInv, Guard!ResetsTyped
  <1>1. \A r \in [requested : 0..MaxResets, applied : 0..MaxResets] :
          /\ Guard!RequestReset(r) \in [requested : 0..MaxResets, applied : 0..MaxResets]
          /\ Guard!RequestReset(r).applied = r.applied
          /\ r.requested <= Guard!RequestReset(r).requested
    BY DEF Guard!RequestReset
  <1>2. /\ resets' \in [requested : 0..MaxResets, applied : 0..MaxResets]
        /\ resets'.applied = resets.applied
        /\ resets.requested <= resets'.requested
    BY <1>1
  <1>3. ReachedWereRequested' /\ Guard!ResetReachesHistory'
    BY <1>2 DEF ReachedWereRequested, Guard!ResetReachesHistory
  <1>4. CallsAnswerForTheirs'
    BY <1>2 DEF CallsAnswerForTheirs
  <1>5. QED
    BY <1>2, <1>3, <1>4

(* Options, tags, the swapchain and the panel do nothing else to resets.   *)
LEMMA OthersRequest ==
  ASSUME \/ \E new \in {"off", "on"} : Guard!ObserveOptions(new)
         \/ \E b \in TagBatches : Guard!SetTag(b)
         \/ Guard!ForgetOutputDescriptions \/ Guard!NotifyHdrState
  PROVE  /\ resets' \in {resets, Guard!RequestReset(resets), Guard!RequestReset(Guard!RequestReset(resets))}
         /\ UNCHANGED <<reached, constants>>
  <1>1. CASE \E new \in {"off", "on"} : Guard!ObserveOptions(new)
    BY <1>1 DEF Guard!ObserveOptions
  <1>2. ASSUME NEW b \in TagBatches, Guard!SetTag(b)
        PROVE  /\ resets' \in {resets, Guard!RequestReset(resets), Guard!RequestReset(Guard!RequestReset(resets))}
               /\ UNCHANGED <<reached, constants>>
    <2>1. \E once \in {resets, Guard!RequestReset(resets)} : resets' \in {once, Guard!RequestReset(once)}
      BY <1>2 DEF Guard!SetTag
    <2>2. QED
      BY <1>2, <2>1 DEF Guard!SetTag
  <1>3. CASE Guard!ForgetOutputDescriptions
    BY <1>3 DEF Guard!ForgetOutputDescriptions
  <1>4. CASE Guard!NotifyHdrState
    BY <1>4 DEF Guard!NotifyHdrState
  <1>5. QED
    BY <1>1, <1>2, <1>3, <1>4

(* The calls: what is taken as applied is what an accepted call answers    *)
(* for, and that Streamline has.                                           *)
LEMMA ResetsSendStep ==
  ASSUME MaxResets \in Nat, ResetsInv, NEW t \in Senders, Guard!SetConstants(t) \/ Guard!Submitted(t) \/ Guard!ResetApplied(t)
  PROVE  ResetsInv'
  <1> USE DEF ResetsInv, Guard!ResetsTyped, ReachedWereRequested, CallsAnswerForTheirs, Guard!ResetReachesHistory
  <1>1. CASE Guard!SetConstants(t)
    BY <1>1 DEF Guard!SetConstants
  <1>2. CASE Guard!Submitted(t)
    <2>1. CASE constants' = [constants EXCEPT ![t].at = "accepted"] /\ reached' = resets.requested
      BY <1>2, <2>1 DEF Guard!Submitted
    <2>2. CASE constants' = [constants EXCEPT ![t] = Guard!Sending] /\ UNCHANGED reached
      BY <1>2, <2>2 DEF Guard!Submitted, Guard!Sending
    <2>3. QED
      BY <1>2, <2>1, <2>2 DEF Guard!Submitted
  <1>3. CASE Guard!ResetApplied(t)
    BY <1>3 DEF Guard!ResetApplied, Guard!Answer, Guard!Sending
  <1>4. QED
    BY <1>1, <1>2, <1>3

(* Every step keeps what is claimed of resets.                             *)
LEMMA ResetsStep == ASSUME MaxResets \in Nat, ResetsInv, [Guard!Next]_(Guard!vars) PROVE ResetsInv'
  <1>1. CASE UNCHANGED Guard!vars
    BY <1>1, ResetsRequestStep DEF Guard!vars
  <1>2. CASE Guard!Next
    BY <1>2, ResetsRequestStep, OthersRequest, ResetsSendStep DEF Guard!Next
  <1>3. QED
    BY <1>1, <1>2

(* The types of what the tags leave of a viewport.                         *)

HudStates ==
  [path : 0..2, frame : Nat, output : 0..2, hudless : BOOLEAN, ui : BOOLEAN, invalid : BOOLEAN, eligible : BOOLEAN]

GuardTyped ==
  /\ described \in {"never", "off", "on"} /\ hud \in HudStates
  /\ quality \in [mode : {"native", "final", "hybrid"}, hdr : BOOLEAN]

(* A viewport without tags.                                                *)
LEMMA NewHud == \A p \in 0..2 : Guard!NoHud(p) \in HudStates /\ Guard!NoHud(p).path = p
  BY DEF Guard!NoHud, HudStates

(* A batch of tags leaves a viewport.                                      *)
LEMMA ObservedTags ==
  ASSUME Guard!BatchesTyped, GuardTyped, NEW b \in TagBatches, NEW h \in HudStates, NEW expected \in 0..2
  PROVE  Guard!ObserveTags(b, h, expected).h \in HudStates
  <1> DEFINE display == Guard!OutputAfter(b, expected)
             moved == h.output # 0 /\ display # 0 /\ display # h.output
             begun == IF b.frame # 0 /\ b.frame # h.frame
                      THEN [h EXCEPT !.frame = b.frame, !.hudless = FALSE, !.ui = FALSE] ELSE h
             fresh == IF moved THEN [Guard!NoHud(h.path) EXCEPT !.frame = begun.frame, !.output = display]
                      ELSE [begun EXCEPT !.output = IF display # 0 THEN display ELSE @]
             pair  == b.gives = {"hudless", "ui"}
             bad   == Guard!Structural(b, expected)
             marked   == [fresh EXCEPT
                         !.hudless = "hudless" \in b.gives \/ (@ /\ "hudless" \notin b.clears),
                         !.ui = "ui" \in b.gives \/ (@ /\ "ui" \notin b.clears),
                         !.invalid = bad \/ (@ /\ ~pair /\ b.clears = {})]
             eligible == /\ marked.hudless /\ marked.ui /\ ~marked.invalid /\ ~bad /\ ~quality.hdr
                         /\ b.frame # 0 => pair
  <1>1. b.frame \in Nat /\ b.output \in 0..2
    BY DEF Guard!BatchesTyped
  <1>2. display \in 0..2
    BY <1>1 DEF Guard!OutputAfter
  <1> HIDE DEF display
  <1>3. begun \in HudStates
    BY <1>1 DEF HudStates
  <1> HIDE DEF begun
  <1>4. begun.frame \in Nat /\ h.path \in 0..2
    BY <1>3 DEF HudStates
  <1>5. fresh \in HudStates
    <2>1. CASE moved
      <3> DEFINE none == Guard!NoHud(h.path)
      <3>1. none \in HudStates
        BY <1>4, NewHud
      <3> HIDE DEF none, moved
      <3>2. fresh = [none EXCEPT !.frame = begun.frame, !.output = display]
        BY <2>1 DEF none
      <3> QED
        BY <1>2, <1>4, <3>1, <3>2 DEF HudStates
    <2>2. CASE ~moved
      <3> HIDE DEF moved
      <3>1. fresh = [begun EXCEPT !.output = IF display # 0 THEN display ELSE begun.output]
        BY <2>2
      <3> QED
        BY <1>2, <1>3, <3>1 DEF HudStates
    <2> QED
      BY <2>1, <2>2
  <1> HIDE DEF fresh
  <1>6. PICK x \in BOOLEAN : x = ("hudless" \in b.gives \/ (fresh.hudless /\ "hudless" \notin b.clears))
    OBVIOUS
  <1>7. PICK y \in BOOLEAN : y = ("ui" \in b.gives \/ (fresh.ui /\ "ui" \notin b.clears))
    OBVIOUS
  <1>8. PICK z \in BOOLEAN : z = (bad \/ (fresh.invalid /\ ~pair /\ b.clears = {}))
    OBVIOUS
  <1> HIDE DEF pair, bad
  <1>9. marked = [fresh EXCEPT !.hudless = x, !.ui = y, !.invalid = z]
    BY <1>6, <1>7, <1>8
  <1>10. marked \in HudStates
    <2> HIDE DEF marked
    <2> QED
      BY <1>5, <1>9 DEF HudStates
  <1> HIDE DEF marked
  <1>11. PICK e \in BOOLEAN : e = eligible
    OBVIOUS
  <1>12. [marked EXCEPT !.eligible = e] \in HudStates /\ [fresh EXCEPT !.eligible = FALSE] \in HudStates
    BY <1>5, <1>10 DEF HudStates
  <1>13. Guard!ObserveTags(b, h, expected).h \in {fresh, [marked EXCEPT !.eligible = eligible], [fresh EXCEPT !.eligible = FALSE]}
    BY DEF Guard!ObserveTags, display, begun, fresh, pair, bad, marked
  <1> HIDE DEF eligible
  <1> QED
    BY <1>5, <1>11, <1>12, <1>13

(* Nothing was tagged at first.                                            *)
LEMMA GuardTypedInit == Guard!Init => GuardTyped
  BY NewHud DEF Guard!Init, GuardTyped

(* Options, tags, the swapchain and the panel keep the types.              *)
LEMMA GuardTypedStep ==
  ASSUME Guard!BatchesTyped, GuardTyped, [Guard!Next]_(Guard!vars)
  PROVE  GuardTyped'
  <1>1. CASE \E new \in {"off", "on"} : Guard!ObserveOptions(new)
    BY <1>1 DEF GuardTyped, Guard!ObserveOptions
  <1>2. ASSUME NEW b \in TagBatches, Guard!SetTag(b) PROVE GuardTyped'
    <2>1. PICK contended \in {"never", "snapshot", "description"}, ok \in BOOLEAN :
            LET observed == Guard!ObserveTags(b, hud, IF contended = "snapshot" THEN 0 ELSE hud.output)
                judged == CASE contended = "never" -> observed
                          [] contended = "snapshot" -> [observed EXCEPT !.hold = @ \/ Guard!HasHudSeparation(b)]
                          [] OTHER -> [h |-> hud, moved |-> FALSE, hold |-> Guard!HasHudSeparation(b)]
                path == IF judged.hold THEN 2 ELSE 1
                after == IF Guard!Live(b) THEN IF ok THEN [judged.h EXCEPT !.path = path] ELSE [judged.h EXCEPT !.invalid = TRUE]
                         ELSE judged.h
                once == IF judged.moved THEN Guard!RequestReset(resets) ELSE resets IN
            /\ hud' = after
            /\ resets' = IF Guard!Live(b) /\ ok /\ Guard!NeedsInputReset(hud.path, path) THEN Guard!RequestReset(once) ELSE once
      BY <1>2, Zenon DEF Guard!SetTag
    <2> DEFINE observed == Guard!ObserveTags(b, hud, IF contended = "snapshot" THEN 0 ELSE hud.output)
               judged == CASE contended = "never" -> observed
                         [] contended = "snapshot" -> [observed EXCEPT !.hold = @ \/ Guard!HasHudSeparation(b)]
                         [] OTHER -> [h |-> hud, moved |-> FALSE, hold |-> Guard!HasHudSeparation(b)]
               path == IF judged.hold THEN 2 ELSE 1
    <2>2. hud \in HudStates /\ hud.output \in 0..2
      BY DEF GuardTyped, HudStates
    <2>3. observed.h \in HudStates
      BY <2>2, ObservedTags
    <2>4. observed = [h |-> observed.h, moved |-> observed.moved, hold |-> observed.hold]
      BY DEF Guard!ObserveTags
    <2>5. judged.h \in HudStates
      <3> HIDE DEF observed
      <3>1. [observed EXCEPT !.hold = @ \/ Guard!HasHudSeparation(b)].h = observed.h
        BY <2>4
      <3> QED
        BY <2>2, <2>3, <3>1
    <2> DEFINE was == judged.h
    <2>6. was \in HudStates /\ path \in 0..2
      BY <2>5
    <2>7. hud' = (IF Guard!Live(b) THEN IF ok THEN [was EXCEPT !.path = path] ELSE [was EXCEPT !.invalid = TRUE] ELSE was)
      BY <2>1
    <2> HIDE DEF was, path
    <2>8. hud' \in HudStates
      BY <2>6, <2>7 DEF HudStates
    <2> QED
      BY <1>2, <2>8 DEF GuardTyped, Guard!SetTag
  <1>3. hud \in HudStates /\ hud.path \in 0..2
    BY DEF GuardTyped, HudStates
  <1>4. CASE Guard!ForgetOutputDescriptions
    BY <1>3, <1>4, NewHud DEF GuardTyped, Guard!ForgetOutputDescriptions
  <1>5. CASE Guard!NotifyHdrState
    BY <1>3, <1>5, NewHud DEF GuardTyped, Guard!NotifyHdrState
  <1>6. ASSUME NEW t \in Senders, Guard!SetConstants(t) \/ Guard!Submitted(t) \/ Guard!ResetApplied(t) PROVE GuardTyped'
    BY <1>6 DEF GuardTyped, Guard!SetConstants, Guard!Submitted, Guard!ResetApplied
  <1>7. CASE UNCHANGED Guard!vars
    BY <1>7 DEF GuardTyped, Guard!vars
  <1> QED
    BY <1>1, <1>2, <1>4, <1>5, <1>6, <1>7 DEF Guard!Next

GuardInv == ResetsInv /\ GuardTyped

(* Both parts, at first and after a step.                                  *)
LEMMA GuardInit == ASSUME MaxResets \in Nat, Guard!Init PROVE GuardInv
  BY ResetsInit, GuardTypedInit DEF GuardInv

(* ... whatever the step is.                                               *)
LEMMA GuardStep == ASSUME MaxResets \in Nat, Guard!BatchesTyped, GuardInv, [Guard!Next]_(Guard!vars) PROVE GuardInv'
  BY ResetsStep, GuardTypedStep DEF GuardInv

(* It has what the names of the module say.                                *)
LEMMA GuardSafe == GuardInv => Guard!TypeOK /\ Guard!ResetReachesHistory
  BY DEF GuardInv, ResetsInv, GuardTyped, HudStates, Guard!TypeOK

----------------------------------------------------------------------------
(* The hooks of a copy of the add-on (AddonHooks).                         *)

\* A copy of the add-on, and the state of one hook.
Copies == [loaded : BOOLEAN, serial : 0..MaxCopies, xmx : BOOLEAN, preset : BOOLEAN, ceiling : BOOLEAN,
           presented : BOOLEAN, resident : BOOLEAN, once : SUBSET {"arch", "drs"},
           slot : {"none", "pending", "queued", "done"}, initHook : BOOLEAN,
           told : {"nothing", "ok", "driver"}]
HookStates == [code : {"own", "jump"}, real : {"null", "function", "detour"}]

\* What was presented, or may install XMX's hook, is pinned; what is gone is nothing.
PinnedFirst(c) ==
  /\ c.presented => c.resident
  /\ c.slot = "queued" => c.loaded /\ c.resident
  /\ ~c.loaded => ~c.resident /\ ~c.presented

\* A pointer leads to the function, except where InstallOne may leave it.
LeadsOut(e, h) == e \in Hooks!Cleared => h.real # "detour"

HooksInv ==
  /\ start \in Starts /\ copy \in Copies /\ hooks \in [Hooks!Entries -> HookStates]
  /\ hints \in [value : {"game", "selected"}, saved : BOOLEAN]
  /\ hints.value = "selected" => hints.saved
  /\ PinnedFirst(copy)
  /\ \A e \in Hooks!Entries : LeadsOut(e, hooks[e])
  /\ Hooks!OnlyResidentHooks

(* The hooks, by name, and those that are taken off again.                 *)
LEMMA EntryNames ==
  /\ Hooks!Entries = {"create", "requirements", "support", "streamline", "arch", "drs", "evaluate", "load"}
  /\ Hooks!Cleared = {"create", "requirements", "support", "streamline", "evaluate", "load"}
  BY DEF Hooks!Entries, Hooks!Cleared, Hooks!Host

\* What the three ways of installing make of a hook.
LEMMA InstalledHook ==
  ASSUME NEW e \in Hooks!Entries, NEW h \in HookStates, NEW ok \in BOOLEAN, LeadsOut(e, h)
  PROVE  /\ Hooks!Install(h, ok) \in HookStates /\ LeadsOut(e, Hooks!Install(h, ok))
         /\ Hooks!InstallSlot(h, ok) \in HookStates /\ LeadsOut(e, Hooks!InstallSlot(h, ok))
         /\ Hooks!InstallOne(h, ok) \in HookStates /\ (e \in {"arch", "drs"} => LeadsOut(e, Hooks!InstallOne(h, ok)))
         /\ Hooks!Uninstall(h, ok) \in HookStates /\ LeadsOut(e, Hooks!Uninstall(h, ok))
         /\ (h.code # "jump" => Hooks!Uninstall(h, ok).code # "jump")
  BY EntryNames DEF HookStates, Hooks!Install, Hooks!InstallSlot, Hooks!InstallOne, Hooks!Uninstall,
     Hooks!Installed, Hooks!Attached, Hooks!Trampoline,
     Hooks!JumpsIntoSelf, LeadsOut, Hooks!Clean

(* No copy is loaded and no hook is in.                                    *)
LEMMA HooksInit == Hooks!Init => HooksInv
  <1> SUFFICES ASSUME Hooks!Init PROVE HooksInv
    OBVIOUS
  <1>1. copy \in Copies /\ PinnedFirst(copy)
    BY HooksAssumption DEF Hooks!Init, Hooks!NoCopy, Copies, PinnedFirst
  <1>2. hooks \in [Hooks!Entries -> HookStates] /\ \A e \in Hooks!Entries : LeadsOut(e, hooks[e]) /\ hooks[e].code = "own"
    BY DEF Hooks!Init, Hooks!Clean, HookStates, LeadsOut
  <1> QED
    BY <1>1, <1>2, EntryNames DEF Hooks!Init, HooksInv, Hooks!OnlyResidentHooks

\* Batch keeps the hooks, and touches only those it was asked for.
LEMMA BatchKept ==
  ASSUME hooks \in [Hooks!Entries -> HookStates], \A e \in Hooks!Entries : LeadsOut(e, hooks[e]), NEW es
  PROVE  /\ Hooks!Batch(hooks, es) \in [Hooks!Entries -> HookStates]
         /\ \A e \in Hooks!Entries : LeadsOut(e, Hooks!Batch(hooks, es)[e])
         /\ \A e \in Hooks!Entries : e \notin es => Hooks!Batch(hooks, es)[e] = hooks[e]
  <1>1. ASSUME NEW e \in Hooks!Entries
        PROVE  Hooks!Install(hooks[e], e \notin failing) \in HookStates /\ LeadsOut(e, Hooks!Install(hooks[e], e \notin failing))
    <2>1. PICK ok \in BOOLEAN : ok = (e \notin failing)
      OBVIOUS
    <2> QED
      BY <2>1, InstalledHook
  <1> QED
    BY <1>1 DEF Hooks!Batch

\* Every way to Apply: the preset's hook goes in for a pinned copy only.
LEMMA ApplyKept ==
  ASSUME HooksInv, NEW c \in Copies, NEW es, NEW ones \in SUBSET {"arch", "drs"},
         Hooks!Apply(c, es, ones), UNCHANGED <<start, hints>>, PinnedFirst(c),
         copy.resident => c.loaded /\ c.resident,
         "evaluate" \notin es, "create" \in es => c.loaded /\ c.resident
  PROVE  HooksInv'
  <1> DEFINE after == Hooks!Batch(hooks, es)
  <1>1. hooks \in [Hooks!Entries -> HookStates] /\ \A e \in Hooks!Entries : LeadsOut(e, hooks[e])
    BY DEF HooksInv
  <1>2. /\ after \in [Hooks!Entries -> HookStates]
        /\ \A e \in Hooks!Entries : LeadsOut(e, after[e])
        /\ \A e \in Hooks!Entries : e \notin es => after[e] = hooks[e]
    BY <1>1, BatchKept
  <1>3. hooks' = [e \in Hooks!Entries |-> IF e \in ones THEN Hooks!InstallOne(after[e], e \notin failing) ELSE after[e]]
    BY DEF Hooks!Apply
  <1> HIDE DEF after
  <1>4. ASSUME NEW e \in Hooks!Entries
        PROVE  /\ hooks'[e] \in HookStates /\ LeadsOut(e, hooks[e])'
               /\ e \in {"create", "evaluate"} => hooks'[e] = after[e]
    <2>1. CASE e \in ones
      <3>1. PICK ok \in BOOLEAN : ok = (e \notin failing)
        OBVIOUS
      <3>2. Hooks!InstallOne(after[e], ok) \in HookStates /\ LeadsOut(e, Hooks!InstallOne(after[e], ok)) /\ after[e] \in HookStates
        BY <1>2, <2>1, InstalledHook
      <3>3. hooks'[e] = Hooks!InstallOne(after[e], ok)
        BY <1>3, <2>1, <3>1
      <3> QED
        BY <2>1, <3>2, <3>3 DEF LeadsOut
    <2>2. CASE e \notin ones
      BY <1>2, <1>3, <2>2 DEF LeadsOut
    <2> QED
      BY <2>1, <2>2
  <1>5. hooks' \in [Hooks!Entries -> HookStates]
    BY <1>3, <1>4
  <1>6. /\ copy' \in Copies /\ PinnedFirst(copy)'
        /\ copy'.loaded = c.loaded /\ copy'.resident = c.resident
    <2>1. PICK b \in BOOLEAN : copy' = [c EXCEPT !.once = @ \cup ones, !.initHook = b]
      <3> DEFINE q == c.initHook \/ (hooks["streamline"].real = "null" /\ "streamline" \in es
                                       /\ Hooks!Installed(after["streamline"]) /\ Hooks!InitHookWanted(c))
      <3>1. q \in BOOLEAN
        OBVIOUS
      <3>2. copy' = [c EXCEPT !.once = @ \cup ones, !.initHook = q]
        BY DEF Hooks!Apply, after
      <3> QED
        BY <3>1, <3>2
    <2>2. /\ copy' \in Copies /\ copy'.loaded = c.loaded /\ copy'.resident = c.resident
          /\ copy'.slot = c.slot /\ copy'.presented = c.presented
      BY <2>1 DEF Copies
    <2> QED
      BY <2>2 DEF PinnedFirst
  <1>7. Hooks!OnlyResidentHooks'
    <2> SUFFICES ASSUME NEW e \in {"create", "evaluate"}, hooks'[e].code = "jump"
                 PROVE  c.loaded /\ c.resident
      BY <1>6 DEF Hooks!OnlyResidentHooks
    <2>1. e \in Hooks!Entries /\ hooks'[e] = after[e]
      BY <1>4, EntryNames
    <2>2. CASE e \in es
      BY <2>2
    <2>3. CASE e \notin es
      BY <1>2, <2>1, <2>3 DEF HooksInv, Hooks!OnlyResidentHooks
    <2> QED
      BY <2>2, <2>3
  <1> QED
    BY <1>4, <1>5, <1>6, <1>7 DEF HooksInv

\* A copy that only remembers the provider is as it was.
LEMMA AttachedXmx ==
  ASSUME NEW c \in Copies, PinnedFirst(c), c.loaded
  PROVE  /\ Hooks!AttachXmx(c) \in Copies /\ PinnedFirst(Hooks!AttachXmx(c)) /\ Hooks!AttachXmx(c).loaded
         /\ Hooks!AttachXmx(c).resident = c.resident /\ Hooks!AttachXmx(c).presented = c.presented
  BY DEF Hooks!AttachXmx, Copies, PinnedFirst

(* What a copy asks to install while it is the provider's.                 *)
LEMMA Wanted ==
  ASSUME NEW c \in Copies, PinnedFirst(c), c.loaded
  PROVE  /\ "evaluate" \notin {"load"} \cup Hooks!Maintenance(c) \cup Hooks!TryInstallInterposer
         /\ "create" \in {"load"} \cup Hooks!Maintenance(c) \cup Hooks!TryInstallInterposer => c.loaded /\ c.resident
         /\ "evaluate" \notin Hooks!TryInstallPresetHook(c)
         /\ "create" \in Hooks!TryInstallPresetHook(c) => c.loaded /\ c.resident
  BY DEF Hooks!Maintenance, Hooks!TryInstallInterposer, Hooks!TryInstallPresetHook,
     Hooks!TryInstallStreamline,
     Hooks!TryInstallRequirements, Hooks!EnsureResident, PinnedFirst

(* The hooks that go in alone.                                             *)
LEMMA Ones ==
  ASSUME NEW c \in Copies, NEW may
  PROVE  /\ Hooks!Drs(c, may) \in SUBSET {"arch", "drs"} /\ Hooks!Arch(c) \in SUBSET {"arch", "drs"}
         /\ Hooks!Drs(c, may) \cup Hooks!Arch(c) \in SUBSET {"arch", "drs"} /\ {} \in SUBSET {"arch", "drs"}
  BY DEF Hooks!Drs, Hooks!Arch, Hooks!Once

(* Loading, maintaining and unloading copies keeps it.                     *)
LEMMA HooksStep == HooksInv /\ [Hooks!Next]_(Hooks!vars) => HooksInv'
  <1> SUFFICES ASSUME HooksInv, [Hooks!Next]_(Hooks!vars) PROVE HooksInv'
    OBVIOUS
  <1>0. copy \in Copies /\ PinnedFirst(copy) /\ hooks \in [Hooks!Entries -> HookStates] /\ start \in Starts
    BY DEF HooksInv
  <1>1. CASE Hooks!DllMain
    <2>1. Hooks!LoadConfig \in Copies /\ PinnedFirst(Hooks!LoadConfig) /\ Hooks!LoadConfig.loaded /\ ~Hooks!LoadConfig.resident
          /\ ~Hooks!LoadConfig.presented
      <3>1. PICK x, p, t \in BOOLEAN :
              Hooks!LoadConfig = [Hooks!NoCopy EXCEPT !.loaded = TRUE, !.serial = copy.serial + 1,
              !.xmx = x,
                                          !.preset = p, !.ceiling = t]
        <4>1. (start.xmx /\ ~start.safe) \in BOOLEAN /\ (start.preset /\ ~start.safe) \in BOOLEAN
              /\ (start.ceiling /\ ~start.safe) \in BOOLEAN
          OBVIOUS
        <4> QED
          BY <4>1, Zenon DEF Hooks!LoadConfig
      <3>2. copy.serial + 1 \in 0..MaxCopies
        BY <1>0, <1>1, HooksAssumption DEF Hooks!DllMain, Copies
      <3> QED
        BY <3>1, <3>2 DEF Hooks!NoCopy, Copies, PinnedFirst
    <2>2. PICK c \in Copies : c = Hooks!AttachXmx(Hooks!LoadConfig)
      BY <2>1, AttachedXmx
    <2>3. PinnedFirst(c) /\ c.loaded
      BY <2>1, <2>2, AttachedXmx
    <2>4. Hooks!Apply(c, {"load"} \cup Hooks!Maintenance(c) \cup Hooks!TryInstallInterposer, Hooks!Drs(c, FALSE)) /\ UNCHANGED <<start, hints>>
          /\ ~copy.loaded
      BY <1>1, <2>2 DEF Hooks!DllMain
    <2>5. ~copy.resident
      BY <1>0, <2>4 DEF PinnedFirst
    <2> QED
      BY <2>3, <2>4, <2>5, Wanted, Ones, ApplyKept
  <1>2. CASE Hooks!RunCreationMaintenance
    <2>1. PICK c \in Copies : c = Hooks!AttachXmx(copy)
      BY <1>0, <1>2, AttachedXmx DEF Hooks!RunCreationMaintenance
    <2>2. PinnedFirst(c) /\ c.loaded /\ c.resident = copy.resident
      BY <1>0, <1>2, <2>1, AttachedXmx DEF Hooks!RunCreationMaintenance
    <2>3. Hooks!Apply(c, {"load"} \cup Hooks!Maintenance(c) \cup Hooks!TryInstallInterposer, Hooks!Drs(c, TRUE)) /\ UNCHANGED <<start, hints>>
      BY <1>2, <2>1 DEF Hooks!RunCreationMaintenance
    <2> QED
      BY <2>2, <2>3, Wanted, Ones, ApplyKept
  <1>3. CASE Hooks!Notify
    <2>1. CASE UNCHANGED <<hooks, copy>>
      BY <1>3, <2>1 DEF Hooks!Notify, HooksInv, Hooks!OnlyResidentHooks
    <2>2. CASE ~UNCHANGED <<hooks, copy>>
      <3>1. PICK g \in Hooks!Guests, told \in SUBSET Hooks!Entries, set \in BOOLEAN :
              /\ copy.loaded /\ hooks' = Hooks!Batch(hooks, told) /\ UNCHANGED <<start, hints>>
              /\ "evaluate" \notin told /\ ("create" \in told => Hooks!EnsureResident(copy))
              /\ copy' = [copy EXCEPT
                   !.slot = IF g = "provider" /\ copy.xmx /\ @ = "none"
                            THEN IF copy.resident THEN "queued" ELSE "pending" ELSE @,
                   !.initHook = set]
        <4>1. PICK g \in Hooks!Guests :
                LET told == CASE g = "interposer" ->
                                   {"streamline"} \cup (IF Hooks!Engaged(copy) THEN {"support"} ELSE {})
                              [] g = "ngx" ->
                                   (IF Hooks!PresetHookWanted(copy) /\ Hooks!EnsureResident(copy) THEN {"create"} ELSE {})
                                     \cup (IF Hooks!Engaged(copy) THEN {"requirements"} ELSE {})
                              [] g = "provider" -> {}
                    after == Hooks!Batch(hooks, told)
                IN /\ copy.loaded /\ hooks' = after
                   /\ copy' = [copy EXCEPT
                        !.slot = IF g = "provider" /\ copy.xmx /\ @ = "none"
                                 THEN IF copy.resident THEN "queued" ELSE "pending" ELSE @,
                        !.initHook = @ \/ ("streamline" \in told /\ Hooks!Installed(after["streamline"])
                                            /\ Hooks!InitHookWanted(copy))]
          BY <1>3, <2>2 DEF Hooks!Notify
        <4> DEFINE batch == CASE g = "interposer" ->
                                   {"streamline"} \cup (IF Hooks!Engaged(copy) THEN {"support"} ELSE {})
                              [] g = "ngx" ->
                                   (IF Hooks!PresetHookWanted(copy) /\ Hooks!EnsureResident(copy) THEN {"create"} ELSE {})
                                     \cup (IF Hooks!Engaged(copy) THEN {"requirements"} ELSE {})
                              [] g = "provider" -> {}
                   wants == copy.initHook \/ ("streamline" \in batch /\ Hooks!Installed(Hooks!Batch(hooks, batch)["streamline"])
                                              /\ Hooks!InitHookWanted(copy))
        <4>2. /\ batch \in SUBSET Hooks!Entries /\ "evaluate" \notin batch
              /\ "create" \in batch => Hooks!EnsureResident(copy)
          BY EntryNames DEF Hooks!Guests
        <4>3. wants \in BOOLEAN
          OBVIOUS
        <4>4. /\ copy.loaded /\ hooks' = Hooks!Batch(hooks, batch)
              /\ copy' = [copy EXCEPT
                   !.slot = IF g = "provider" /\ copy.xmx /\ @ = "none"
                            THEN IF copy.resident THEN "queued" ELSE "pending" ELSE @,
                   !.initHook = wants]
          BY <4>1, Zenon
        <4> HIDE DEF batch, wants
        <4>5. UNCHANGED <<start, hints>>
          BY <1>3 DEF Hooks!Notify
        <4> QED
          BY <4>2, <4>3, <4>4, <4>5
      <3>2. /\ copy' \in Copies /\ copy'.loaded /\ copy'.resident = copy.resident /\ PinnedFirst(copy)'
        BY <1>0, <3>1 DEF Copies, PinnedFirst
      <3>3. /\ hooks' \in [Hooks!Entries -> HookStates]
            /\ \A e \in Hooks!Entries : LeadsOut(e, hooks[e])'
            /\ \A e \in Hooks!Entries : e \notin told => hooks'[e] = hooks[e]
        BY <3>1, BatchKept DEF HooksInv, LeadsOut
      <3>4. Hooks!OnlyResidentHooks'
        BY <1>0, <3>1, <3>2, <3>3, EntryNames DEF HooksInv, Hooks!OnlyResidentHooks,
           Hooks!EnsureResident, PinnedFirst
      <3> QED
        BY <3>1, <3>2, <3>3, <3>4 DEF HooksInv
    <2> QED
      BY <2>1, <2>2
  <1>4. CASE Hooks!OnPresent
    <2>1. PICK c \in Copies : /\ c = [copy EXCEPT !.presented = TRUE, !.resident = TRUE,
                                                 !.slot = IF @ = "pending" THEN "queued" ELSE @]
                              /\ PinnedFirst(c) /\ c.loaded /\ c.resident
      <3> DEFINE d == [copy EXCEPT !.presented = TRUE, !.resident = TRUE,
                                   !.slot = IF @ = "pending" THEN "queued" ELSE @]
      <3>1. d \in Copies /\ d.loaded = copy.loaded /\ d.resident
        BY <1>0 DEF Copies
      <3>2. PinnedFirst(d) /\ d.loaded
        BY <1>4, <3>1 DEF Hooks!OnPresent, PinnedFirst
      <3> QED
        BY <3>1, <3>2
    <2>2. Hooks!Apply(c, Hooks!TryInstallPresetHook(c), {}) /\ UNCHANGED <<start, hints>>
      BY <1>4, <2>1 DEF Hooks!OnPresent
    <2> QED
      BY <2>1, <2>2, Wanted, Ones, ApplyKept
  <1>5. CASE Hooks!BeforeFrameGeneration
    <2>1. /\ copy.loaded /\ copy' \in Copies /\ copy'.loaded /\ copy'.resident /\ PinnedFirst(copy)'
          /\ UNCHANGED <<start, hints>>
      BY <1>0, <1>5 DEF Hooks!BeforeFrameGeneration, Copies, PinnedFirst
    <2>2. hooks' = hooks \/ hooks' = [hooks EXCEPT !["evaluate"] = Hooks!InstallSlot(@, "evaluate" \notin failing)]
      BY <1>5 DEF Hooks!BeforeFrameGeneration
    <2>3. ASSUME NEW e \in Hooks!Entries
          PROVE  hooks'[e] \in HookStates /\ LeadsOut(e, hooks[e])'
      <3>1. PICK ok \in BOOLEAN : ok = ("evaluate" \notin failing)
        OBVIOUS
      <3>2. Hooks!InstallSlot(hooks[e], ok) \in HookStates /\ LeadsOut(e, Hooks!InstallSlot(hooks[e], ok))
        BY <1>0, InstalledHook DEF HooksInv
      <3>3. hooks'[e] = hooks[e] \/ hooks'[e] = Hooks!InstallSlot(hooks[e], ok)
        BY <1>0, <2>2, <3>1
      <3> QED
        BY <1>0, <3>2, <3>3 DEF HooksInv, LeadsOut
    <2>4. hooks' \in [Hooks!Entries -> HookStates]
      BY <1>0, <2>2, <2>3
    <2>5. Hooks!OnlyResidentHooks'
      BY <2>1 DEF Hooks!OnlyResidentHooks
    <2> QED
      BY <2>1, <2>3, <2>4, <2>5 DEF HooksInv
  <1>6. CASE Hooks!InstallInThread
    <2>1. /\ copy.loaded /\ copy' \in Copies /\ copy'.loaded /\ copy'.resident /\ PinnedFirst(copy)'
          /\ UNCHANGED <<start, hints>>
      BY <1>0, <1>6 DEF Hooks!InstallInThread, Copies, PinnedFirst
    <2>2. hooks' = hooks \/ hooks' = [hooks EXCEPT !["evaluate"] = Hooks!InstallSlot(@, "evaluate" \notin failing)]
      BY <1>6 DEF Hooks!InstallInThread
    <2>3. ASSUME NEW e \in Hooks!Entries
          PROVE  hooks'[e] \in HookStates /\ LeadsOut(e, hooks[e])'
      <3>1. PICK ok \in BOOLEAN : ok = ("evaluate" \notin failing)
        OBVIOUS
      <3>2. Hooks!InstallSlot(hooks[e], ok) \in HookStates /\ LeadsOut(e, Hooks!InstallSlot(hooks[e], ok))
        BY <1>0, InstalledHook DEF HooksInv
      <3>3. hooks'[e] = hooks[e] \/ hooks'[e] = Hooks!InstallSlot(hooks[e], ok)
        BY <1>0, <2>2, <3>1
      <3> QED
        BY <1>0, <3>2, <3>3 DEF HooksInv, LeadsOut
    <2>4. hooks' \in [Hooks!Entries -> HookStates]
      BY <1>0, <2>2, <2>3
    <2>5. Hooks!OnlyResidentHooks'
      BY <2>1 DEF Hooks!OnlyResidentHooks
    <2> QED
      BY <2>1, <2>3, <2>4, <2>5 DEF HooksInv
  <1>7. CASE Hooks!Detach
    <2>1. /\ copy.loaded /\ ~copy.resident /\ copy' = [Hooks!NoCopy EXCEPT !.serial = copy.serial]
          /\ hooks' = [e \in Hooks!Entries |-> [Hooks!Uninstall(hooks[e], e \notin failing) EXCEPT !.real = "null"]]
          /\ UNCHANGED <<start, hints>>
      BY <1>7 DEF Hooks!Detach
    <2>2. copy' \in Copies /\ PinnedFirst(copy)'
      BY <1>0, <2>1 DEF Hooks!NoCopy, Copies, PinnedFirst
    <2>3. ASSUME NEW e \in Hooks!Entries
          PROVE  /\ hooks'[e] \in HookStates /\ LeadsOut(e, hooks[e])'
                 /\ hooks[e].code # "jump" => hooks'[e].code # "jump"
      <3>1. PICK ok \in BOOLEAN : ok = (e \notin failing)
        OBVIOUS
      <3>2. Hooks!Uninstall(hooks[e], ok) \in HookStates /\ (hooks[e].code # "jump" => Hooks!Uninstall(hooks[e], ok).code # "jump")
        BY <1>0, InstalledHook DEF HooksInv
      <3>3. hooks'[e] = [Hooks!Uninstall(hooks[e], ok) EXCEPT !.real = "null"]
        BY <2>1, <3>1
      <3> QED
        BY <3>2, <3>3 DEF HookStates, LeadsOut
    <2>4. hooks' \in [Hooks!Entries -> HookStates]
      BY <2>1, <2>3
    <2>5. Hooks!OnlyResidentHooks'
      BY <2>1, <2>3, EntryNames DEF HooksInv, Hooks!OnlyResidentHooks
    <2> QED
      BY <2>1, <2>2, <2>3, <2>4, <2>5 DEF HooksInv
  <1>8. CASE Hooks!Disturb
    BY <1>8 DEF Hooks!Disturb, HooksInv, Hooks!OnlyResidentHooks
  <1>9. CASE Hooks!InitScope
    <2>1. PICK c \in Copies : c = copy
      BY <1>0
    <2>2. Hooks!Apply(c, {}, Hooks!Drs(c, TRUE) \cup Hooks!Arch(c)) /\ UNCHANGED <<start, hints>> /\ c.loaded
      BY <1>9, <2>1 DEF Hooks!InitScope
    <2> QED
      BY <1>0, <2>1, <2>2, Ones, ApplyKept
  <1>10. CASE Hooks!HookedIsFeatureSupported
    <2>1. PICK answer \in {"ok", "adapter", "driver"} :
            LET d == [copy EXCEPT !.told = IF answer = "adapter" THEN "ok" ELSE answer]
            IN Hooks!Apply(d, {}, IF answer = "adapter" THEN Hooks!Arch(d) ELSE {})
      BY <1>10 DEF Hooks!HookedIsFeatureSupported
    <2>2. PICK c \in Copies : /\ c = [copy EXCEPT !.told = IF answer = "adapter" THEN "ok" ELSE answer]
                              /\ PinnedFirst(c) /\ c.loaded /\ c.resident = copy.resident
      <3> DEFINE d == [copy EXCEPT !.told = IF answer = "adapter" THEN "ok" ELSE answer]
      <3>1. d \in Copies /\ d.loaded = copy.loaded /\ d.resident = copy.resident
            /\ d.presented = copy.presented /\ d.slot = copy.slot
        BY <1>0 DEF Copies
      <3>2. PinnedFirst(d) /\ d.loaded
        BY <1>0, <1>10, <3>1 DEF Hooks!HookedIsFeatureSupported, PinnedFirst
      <3> QED
        BY <3>1, <3>2
    <2>3. PICK ones \in SUBSET {"arch", "drs"} : Hooks!Apply(c, {}, ones)
      BY <2>1, <2>2, Ones
    <2> QED
      BY <1>10, <2>2, <2>3, ApplyKept DEF Hooks!HookedIsFeatureSupported
  <1>11. CASE Hooks!HookedRequirements
    <2>1. PICK bits \in SUBSET {"adapter", "driver"} :
            LET d == [copy EXCEPT !.told = IF bits \ {"adapter"} = {} THEN "ok" ELSE "driver"]
            IN Hooks!Apply(d, {}, Hooks!Arch(d))
      BY <1>11 DEF Hooks!HookedRequirements
    <2>2. PICK c \in Copies : /\ c = [copy EXCEPT !.told = IF bits \ {"adapter"} = {} THEN "ok" ELSE "driver"]
                              /\ PinnedFirst(c) /\ c.loaded /\ c.resident = copy.resident
      <3> DEFINE d == [copy EXCEPT !.told = IF bits \ {"adapter"} = {} THEN "ok" ELSE "driver"]
      <3>1. d \in Copies /\ d.loaded = copy.loaded /\ d.resident = copy.resident
            /\ d.presented = copy.presented /\ d.slot = copy.slot
        BY <1>0 DEF Copies
      <3>2. PinnedFirst(d) /\ d.loaded
        BY <1>0, <1>11, <3>1 DEF Hooks!HookedRequirements, PinnedFirst
      <3> QED
        BY <3>1, <3>2
    <2>3. Hooks!Apply(c, {}, Hooks!Arch(c))
      BY <2>1, <2>2
    <2> QED
      BY <1>11, <2>2, <2>3, Ones, ApplyKept DEF Hooks!HookedRequirements
  <1>12. CASE Hooks!HookedCreateFeature
    <2>1. /\ hints' \in [value : {"game", "selected"}, saved : BOOLEAN]
          /\ hints'.value = "selected" => hints'.saved
      BY <1>12 DEF Hooks!HookedCreateFeature, HooksInv
    <2> QED
      BY <1>12, <2>1 DEF Hooks!HookedCreateFeature, HooksInv, Hooks!OnlyResidentHooks
  <1>13. CASE Hooks!SelectPreset
    <2>1. PICK c \in Copies : /\ c = [copy EXCEPT !.preset = ~@]
                              /\ PinnedFirst(c) /\ c.loaded /\ c.resident
      <3> DEFINE d == [copy EXCEPT !.preset = ~@]
      <3>1. d \in Copies /\ d.loaded = copy.loaded /\ d.resident = copy.resident
            /\ d.presented = copy.presented /\ d.slot = copy.slot
        BY <1>0 DEF Copies
      <3>2. PinnedFirst(d) /\ d.loaded /\ d.resident
        BY <1>0, <1>13, <3>1 DEF Hooks!SelectPreset, PinnedFirst
      <3> QED
        BY <3>1, <3>2
    <2>2. Hooks!Apply(c, Hooks!TryInstallPresetHook(c), {}) /\ UNCHANGED <<start, hints>>
      BY <1>13, <2>1 DEF Hooks!SelectPreset
    <2> QED
      BY <2>1, <2>2, Wanted, Ones, ApplyKept
  <1>14. CASE UNCHANGED Hooks!vars
    BY <1>14 DEF Hooks!vars, HooksInv, Hooks!OnlyResidentHooks
  <1> QED
    BY <1>1, <1>2, <1>3, <1>4, <1>5, <1>6, <1>7, <1>8, <1>9, <1>10, <1>11, <1>12, <1>13,
       <1>14 DEF Hooks!Next

(* What the names of the components say follows.                           *)
LEMMA HooksSafe == HooksInv => Hooks!TypeOK /\ Hooks!TrampolinesEnd /\ Hooks!OnlyResidentHooks
  <1> SUFFICES ASSUME HooksInv PROVE Hooks!TypeOK /\ Hooks!TrampolinesEnd /\ Hooks!OnlyResidentHooks
    OBVIOUS
  <1>1. Hooks!TypeOK
    BY DEF HooksInv, Copies, HookStates, Hooks!TypeOK
  <1>2. Hooks!TrampolinesEnd
    BY DEF HooksInv, Hooks!TrampolinesEnd, LeadsOut, Hooks!Cleared
  <1> QED
    BY <1>1, <1>2 DEF HooksInv

----------------------------------------------------------------------------
(* The session marker and safe mode (SessionFiles).                        *)

\* The state's types.
SessionTyped ==
  /\ marker \in [pid : Pids \cup {0}, streak : Nat]
  /\ request \in Pids \cup {Session!NoRequest, Session!Unowned}
  /\ ini \in Session!Inis
  /\ staged \in [open : BOOLEAN, before : SUBSET Session!Inis, keys : SUBSET Session!Inis]
  /\ process \in [pid : Pids \cup {0}, copies : Nat, started : 0..MaxProcesses]
  /\ sessionCopy \in [loaded : BOOLEAN, streak : Nat, unclean : BOOLEAN, safe : BOOLEAN,
               active : {"dlssg", "xemfg"}, xmx : BOOLEAN]
  /\ unseen \in Nat /\ adopted \in BOOLEAN

\* A process that a copy began a session in.
Attached == process.pid # 0 /\ process.copies > 0

\* The marker's streak is of ends nobody saw; one more, if its process has gone.
StreakCounted ==
  /\ marker.streak <= unseen
  /\ Attached => marker.pid = process.pid
  /\ ~Attached /\ marker.pid # 0 => marker.streak < unseen
  /\ sessionCopy.streak <= unseen
  /\ unseen <= process.started
  /\ process.pid # 0 => unseen < process.started

\* A request that a copy of this process adopted is there for the next one.
AdoptedStays ==
  /\ sessionCopy.loaded => Attached
  /\ adopted /\ process.pid # 0 => request \in {Session!Unowned, process.pid}
  /\ adopted /\ sessionCopy.loaded => sessionCopy.safe
  /\ sessionCopy.safe => ~sessionCopy.xmx

SessionInv == SessionTyped /\ StreakCounted /\ AdoptedStays

(* The settings may be any; no session was ever begun.                     *)
LEMMA SessionInit == Session!Init => SessionInv
  <1> SUFFICES ASSUME Session!Init PROVE SessionInv
    OBVIOUS
  <1>1. SessionTyped
    <2>1. marker \in [pid : Pids \cup {0}, streak : Nat] /\ request \in Pids \cup {Session!NoRequest, Session!Unowned}
      BY DEF Session!Init, Session!NoMarker
    <2>2. ini \in Session!Inis
      <3>1. [selected |-> "dlssg", xmx |-> TRUE] \in Session!Inis /\ [selected |-> "invalid", xmx |-> FALSE] \in Session!Inis
        BY DEF Session!Inis
      <3> QED
        BY <3>1 DEF Session!Init
    <2>3. staged \in [open : BOOLEAN, before : SUBSET Session!Inis, keys : SUBSET Session!Inis]
      BY DEF Session!Init, Session!NoStage
    <2>4. process \in [pid : Pids \cup {0}, copies : Nat, started : 0..MaxProcesses]
      BY SessionAssumption DEF Session!Init
    <2>5. sessionCopy \in [loaded : BOOLEAN, streak : Nat, unclean : BOOLEAN, safe : BOOLEAN,
                   active : {"dlssg", "xemfg"}, xmx : BOOLEAN]
      BY DEF Session!Init, Session!NoCopy
    <2> QED
      BY <2>1, <2>2, <2>3, <2>4, <2>5 DEF Session!Init, SessionTyped
  <1>2. StreakCounted /\ AdoptedStays
    BY SessionAssumption DEF Session!Init, StreakCounted, AdoptedStays, Session!NoMarker,
       Session!NoRequest, Session!NoCopy, Attached
  <1> QED
    BY <1>1, <1>2 DEF SessionInv

(* The types are kept by every step.                                       *)
LEMMA SessionTypedStep == SessionTyped /\ [Session!Next]_(Session!vars) => SessionTyped'
  <1> SUFFICES ASSUME SessionTyped, [Session!Next]_(Session!vars) PROVE SessionTyped'
    OBVIOUS
  <1> USE SessionAssumption DEF SessionTyped
  <1>1. CASE Session!Start
    <2>1. process' \in [pid : Pids \cup {0}, copies : Nat, started : 0..MaxProcesses]
      BY <1>1 DEF Session!Start
    <2> QED
      BY <1>1, <2>1 DEF Session!Start
  <1>2. CASE Session!Attach
    BY <1>2 DEF Session!Attach, Session!Streak, Session!Unclean, Session!Effective, Session!ReadMode,
       Session!Inis, Session!NoRequest, Session!Unowned
  <1>3. CASE Session!Unload
    BY <1>3 DEF Session!Unload, Session!NoCopy
  <1>4. CASE Session!EndSession
    BY <1>4 DEF Session!EndSession, Session!Left, Session!NoCopy, Session!NoStage, Session!NoMarker
  <1>5. CASE Session!Crash
    BY <1>5 DEF Session!Crash, Session!Left, Session!NoCopy, Session!NoStage
  <1>6. CASE Session!RequestSafeMode
    BY <1>6 DEF Session!RequestSafeMode
  <1>7. CASE Session!ResetStreak
    BY <1>7 DEF Session!ResetStreak
  <1>8. CASE Session!Stage
    BY <1>8 DEF Session!Stage, Session!SelectMode, Session!Modes, Session!Inis
  <1>9. CASE Session!Publish
    BY <1>9 DEF Session!Publish, Session!NoStage
  <1>10. CASE Session!Edit
    BY <1>10 DEF Session!Edit, Session!Inis
  <1>11. CASE UNCHANGED Session!vars
    BY <1>11 DEF Session!vars
  <1> QED
    BY <1>1, <1>2, <1>3, <1>4, <1>5, <1>6, <1>7, <1>8, <1>9, <1>10, <1>11 DEF Session!Next

(* ... and so is what the streak counts.                                   *)
LEMMA SessionStep == SessionInv /\ [Session!Next]_(Session!vars) => SessionInv'
  <1> SUFFICES ASSUME SessionInv, [Session!Next]_(Session!vars) PROVE SessionInv'
    OBVIOUS
  <1>0. SessionTyped /\ SessionTyped'
    BY SessionTypedStep DEF SessionInv
  <1> USE SessionAssumption DEF SessionTyped, SessionInv, StreakCounted, AdoptedStays, Attached
  <1>1. CASE Session!Start
    BY <1>0, <1>1 DEF Session!Start
  <1>2. CASE Session!Attach
    BY <1>0, <1>2 DEF Session!Attach, Session!Streak, Session!NoRequest, Session!Unowned
  <1>3. CASE Session!Unload
    BY <1>0, <1>3 DEF Session!Unload, Session!NoCopy
  <1>4. CASE Session!EndSession
    BY <1>0, <1>4 DEF Session!EndSession, Session!Left, Session!NoCopy, Session!NoMarker
  <1>5. CASE Session!Crash
    BY <1>0, <1>5 DEF Session!Crash, Session!Left, Session!NoCopy
  <1>6. CASE Session!RequestSafeMode
    BY <1>0, <1>6 DEF Session!RequestSafeMode
  <1>7. CASE Session!ResetStreak
    BY <1>0, <1>7 DEF Session!ResetStreak
  <1>8. CASE Session!Stage
    BY <1>0, <1>8 DEF Session!Stage
  <1>9. CASE Session!Publish
    BY <1>0, <1>9 DEF Session!Publish
  <1>10. CASE Session!Edit
    BY <1>0, <1>10 DEF Session!Edit
  <1>11. CASE UNCHANGED Session!vars
    BY <1>0, <1>11 DEF Session!vars
  <1> QED
    BY <1>1, <1>2, <1>3, <1>4, <1>5, <1>6, <1>7, <1>8, <1>9, <1>10, <1>11 DEF Session!Next

(* A streak read at the start is of unseen ends, and a request adopted     *)
(* holds.                                                                  *)
LEMMA SessionSafe == SessionInv => Session!TypeOK /\ Session!SafeModeEarned
  <1> SUFFICES ASSUME SessionInv PROVE Session!TypeOK /\ Session!SafeModeEarned
    OBVIOUS
  <1>1. marker.streak \in 0..MaxProcesses /\ sessionCopy.streak \in 0..MaxProcesses
    BY SessionAssumption DEF SessionInv, SessionTyped, StreakCounted
  <1>2. marker \in [pid : Pids \cup {0}, streak : 0..MaxProcesses]
    BY <1>1 DEF SessionInv, SessionTyped
  <1>3. Session!TypeOK
    BY <1>1, <1>2 DEF SessionInv, SessionTyped, Session!TypeOK
  <1>4. Session!SafeModeEarned
    BY DEF SessionInv, StreakCounted, AdoptedStays, Session!SafeModeEarned
  <1> QED
    BY <1>3, <1>4
=============================================================================
