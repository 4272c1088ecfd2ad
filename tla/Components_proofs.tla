--------------------------- MODULE Components_proofs ---------------------------
(***************************************************************************)
(* The components beside each other: the one a behaviour has chosen keeps  *)
(* the invariant of its section in DlssgComponents_proofs or               *)
(* XeMfgComponents_proofs, so it has what Components says of it.           *)
(***************************************************************************)
EXTENDS DlssgComponents_proofs, XeMfgComponents_proofs

----------------------------------------------------------------------------
(* All of them.                                                            *)

ComponentsInv ==
  /\ part \in Parts
  /\ part = "evidence" => StatesInv
  /\ part = "guard" => GuardInv
  /\ part = "xefg" => XeFGInv
  /\ part = "waits" => WaitsInv
  /\ part = "output" => OutputInv
  /\ part = "cuda" => CudaInv
  /\ part = "hooks" => HooksInv
  /\ part = "session" => SessionInv
  /\ part = "provider" => ProviderInv
  /\ part = "inputs" => InputsInv
  /\ part = "synthetic" => SyntheticInv
  /\ part = "kernels" => KernelsInv

(* The chosen component starts in its invariant.                           *)
LEMMA ComponentsInit == Init => ComponentsInv
  <1> SUFFICES ASSUME Init PROVE ComponentsInv
    OBVIOUS
  <1>1. /\ part \in Parts
        /\ part = "evidence" => States!Init
        /\ part = "guard" => Guard!Init
        /\ part = "xefg" => XeFG!Init
        /\ part = "waits" => Waits!Init
        /\ part = "output" => Bridge!Init
        /\ part = "cuda" => Cuda!Init
        /\ part = "hooks" => Hooks!Init
        /\ part = "session" => Session!Init
        /\ part = "provider" => Provider!Init
        /\ part = "inputs" => Inputs!Init
        /\ part = "synthetic" => Synthetic!Init
        /\ part = "kernels" => Kernels!Init
    BY DEF Init
  <1>2. part = "evidence" => StatesInv
    BY <1>1, StatesInit, PlansAreEstimates
  <1>3. part = "guard" => GuardInv
    BY <1>1, GuardInit, GuardAssumption
  <1>4. part = "xefg" => XeFGInv
    BY <1>1, XeFGInit
  <1> QED
    BY <1>1, <1>2, <1>3, <1>4, WaitsInit, OutputInit, CudaInit, HooksInit, SessionInit, ProviderInit, InputsInit,
       SyntheticInit, KernelsInit DEF ComponentsInv

(* A step of Components is one of the component it has chosen.             *)
LEMMA StepsOfParts ==
  ASSUME [Next]_vars
  PROVE  /\ part' = part
         /\ part = "evidence" => [States!Next]_(States!vars)
         /\ part = "guard" => [Guard!Next]_(Guard!vars)
         /\ part = "xefg" => [XeFG!Next]_(XeFG!vars)
         /\ part = "waits" => [Waits!Next]_(Waits!vars)
         /\ part = "output" => [Bridge!Next]_(Bridge!vars)
         /\ part = "cuda" => [Cuda!Next]_(Cuda!vars)
         /\ part = "hooks" => [Hooks!Next]_(Hooks!vars)
         /\ part = "session" => [Session!Next]_(Session!vars)
         /\ part = "provider" => [Provider!Next]_(Provider!vars)
         /\ part = "inputs" => [Inputs!Next]_(Inputs!vars)
         /\ part = "synthetic" => [Synthetic!Next]_(Synthetic!vars)
         /\ part = "kernels" => [Kernels!Next]_(Kernels!vars)
  <1>1. CASE Next
    <2>1. part' = part
      BY <1>1 DEF Next
    <2>2. /\ part = "evidence" => States!Next
          /\ part = "guard" => Guard!Next
          /\ part = "xefg" => XeFG!Next
          /\ part = "waits" => Waits!Next
          /\ part = "output" => Bridge!Next
          /\ part = "cuda" => Cuda!Next
          /\ part = "hooks" => Hooks!Next
          /\ part = "session" => Session!Next
          /\ part = "provider" => Provider!Next
          /\ part = "inputs" => Inputs!Next
          /\ part = "synthetic" => Synthetic!Next
          /\ part = "kernels" => Kernels!Next
      BY <1>1 DEF Next
    <2> QED
      BY <2>1, <2>2
  <1>2. CASE UNCHANGED vars
    <2>1. UNCHANGED <<part, samples, guarding, xefg, waits, bridge, cuda, addon, session, provider, inputs,
                    synthetic, kernels>>
      BY <1>2 DEF vars, dlssg, files, xemfg
    <2>2. UNCHANGED States!vars /\ UNCHANGED Guard!vars /\ UNCHANGED XeFG!vars /\ UNCHANGED Waits!vars
      BY <2>1 DEF samples, States!vars, States!mailbox, guarding, Guard!vars, xefg, XeFG!vars, waits, Waits!vars
    <2>3. /\ UNCHANGED Bridge!vars /\ UNCHANGED Cuda!vars /\ UNCHANGED Hooks!vars
          /\ UNCHANGED Session!vars
      BY <2>1 DEF bridge, Bridge!vars, cuda, Cuda!vars, addon, Hooks!vars, session, Session!vars
    <2>4. UNCHANGED Provider!vars
      BY <2>1 DEF provider, Provider!vars, Provider!sessions, Provider!lists, Provider!patches, Provider!locks,
         Provider!pacing
    <2>5. UNCHANGED Inputs!vars
      BY <2>1 DEF inputs, Inputs!vars
    <2>6. UNCHANGED Synthetic!vars
      BY <2>1 DEF synthetic, Synthetic!vars
    <2>7. UNCHANGED Kernels!vars
      BY <2>1 DEF kernels, Kernels!vars
    <2> QED
      BY <2>1, <2>2, <2>3, <2>4, <2>5, <2>6, <2>7
  <1> QED
    BY <1>1, <1>2

(* A step of the chosen component keeps it.                                *)
LEMMA ComponentsStep == ComponentsInv /\ [Next]_vars => ComponentsInv'
  <1> SUFFICES ASSUME ComponentsInv, [Next]_vars PROVE ComponentsInv'
    OBVIOUS
  <1>1. part' = part /\ part \in Parts
    BY StepsOfParts DEF ComponentsInv
  <1>2. CASE part = "evidence"
    BY <1>1, <1>2, StepsOfParts, PlansAreEstimates, StatesStep DEF ComponentsInv
  <1>3. CASE part = "guard"
    BY <1>1, <1>3, StepsOfParts, GuardAssumption, GuardStep DEF ComponentsInv
  <1>4. CASE part = "xefg"
    BY <1>1, <1>4, StepsOfParts, XeFGStep DEF ComponentsInv
  <1>5. CASE part = "waits"
    BY <1>1, <1>5, StepsOfParts, WaitsStep DEF ComponentsInv
  <1>6. CASE part = "output"
    BY <1>1, <1>6, StepsOfParts, OutputStep DEF ComponentsInv
  <1>7. CASE part = "cuda"
    BY <1>1, <1>7, StepsOfParts, CudaStep DEF ComponentsInv
  <1>8. CASE part = "hooks"
    BY <1>1, <1>8, StepsOfParts, HooksStep DEF ComponentsInv
  <1>9. CASE part = "session"
    BY <1>1, <1>9, StepsOfParts, SessionStep DEF ComponentsInv
  <1>10. CASE part = "provider"
    BY <1>1, <1>10, StepsOfParts, ProviderStep DEF ComponentsInv
  <1>11. CASE part = "inputs"
    BY <1>1, <1>11, StepsOfParts, InputsStep DEF ComponentsInv
  <1>12. CASE part = "synthetic"
    BY <1>1, <1>12, StepsOfParts, SyntheticStep DEF ComponentsInv
  <1>13. CASE part = "kernels"
    BY <1>1, <1>13, StepsOfParts, KernelsStep DEF ComponentsInv
  <1> QED
    BY <1>1, <1>2, <1>3, <1>4, <1>5, <1>6, <1>7, <1>8, <1>9, <1>10, <1>11, <1>12, <1>13 DEF Parts

(* Every state of Components has it.                                       *)
LEMMA ComponentsInvariance == Spec => []ComponentsInv
  BY ComponentsInit, ComponentsStep, PTL DEF Spec

----------------------------------------------------------------------------
(* What they guarantee.                                                    *)

(* Every component's state has its type.                                   *)
THEOREM TypeCorrect == Spec => []TypeOK
  <1>1. ComponentsInv => TypeOK
    <2> SUFFICES ASSUME ComponentsInv PROVE TypeOK
      OBVIOUS
    <2>1. part = "evidence" => States!TypeOK
      BY StatesSafe DEF ComponentsInv
    <2>2. part = "guard" => Guard!TypeOK
      BY GuardSafe DEF ComponentsInv
    <2>3. part = "xefg" => XeFG!TypeOK
      BY XeFGSafe DEF ComponentsInv
    <2>4. part = "waits" => Waits!TypeOK
      BY DEF ComponentsInv, WaitsInv
    <2>5. part = "output" => Bridge!TypeOK
      BY OutputSafe DEF ComponentsInv
    <2>6. part = "cuda" => Cuda!TypeOK
      BY CudaSafe DEF ComponentsInv
    <2>7. part = "hooks" => Hooks!TypeOK
      BY HooksSafe DEF ComponentsInv
    <2>8. part = "session" => Session!TypeOK
      BY SessionSafe DEF ComponentsInv
    <2>9. part = "provider" => Provider!TypeOK
      BY ProviderSafe DEF ComponentsInv
    <2>10. part = "inputs" => Inputs!TypeOK
      BY InputsSafe DEF ComponentsInv
    <2>11. part = "synthetic" => Synthetic!TypeOK
      BY SyntheticSafe DEF ComponentsInv
    <2>12. part = "kernels" => Kernels!TypeOK
      BY KernelsSafe DEF ComponentsInv
    <2>13. part \in Parts
      BY DEF ComponentsInv
    <2>14. CASE part = "evidence"
      BY <2>1, <2>14 DEF TypeOK, Parts
    <2>15. CASE part = "guard"
      BY <2>2, <2>15 DEF TypeOK, Parts
    <2>16. CASE part = "xefg"
      BY <2>3, <2>16 DEF TypeOK, Parts
    <2>17. CASE part = "waits"
      BY <2>4, <2>17 DEF TypeOK, Parts
    <2>18. CASE part = "output"
      BY <2>5, <2>18 DEF TypeOK, Parts
    <2>19. CASE part = "cuda"
      BY <2>6, <2>19 DEF TypeOK, Parts
    <2>20. CASE part = "hooks"
      BY <2>7, <2>20 DEF TypeOK, Parts
    <2>21. CASE part = "session"
      BY <2>8, <2>21 DEF TypeOK, Parts
    <2>22. CASE part = "provider"
      BY <2>9, <2>22 DEF TypeOK, Parts
    <2>23. CASE part = "inputs"
      BY <2>10, <2>23 DEF TypeOK, Parts
    <2>24. CASE part = "synthetic"
      BY <2>11, <2>24 DEF TypeOK, Parts
    <2>25. CASE part = "kernels"
      BY <2>12, <2>25 DEF TypeOK, Parts
    <2> QED
      BY <2>13, <2>14, <2>15, <2>16, <2>17, <2>18, <2>19, <2>20,
         <2>21, <2>22, <2>23, <2>24, <2>25 DEF Parts
  <1> QED
    BY <1>1, ComponentsInvariance, PTL

(* A kernel reported as applied is in effect, and what was changed is on   *)
(* record (blackwell.hpp, midpoint.hpp, thin_geometry.hpp).                *)
THEOREM ReportedIsInEffect == Spec => []ReportedInEffect
  <1>1. ComponentsInv => ReportedInEffect
    BY KernelsSafe DEF ComponentsInv, ReportedInEffect
  <1> QED
    BY <1>1, ComponentsInvariance, PTL

(* A pending VRAM estimate is owed by somebody, unless it was overtaken    *)
(* before it was called so (framecount.hpp).                               *)
THEOREM PendingEstimateOwed == Spec => []PendingIsOwed
  <1>1. ComponentsInv => PendingIsOwed
    BY StatesSafe DEF ComponentsInv, PendingIsOwed
  <1> QED
    BY <1>1, ComponentsInvariance, PTL

(* A temporal reset counts as applied only when Streamline accepted        *)
(* constants that carry it (framecount.hpp).                               *)
THEOREM AppliedResetsReached == Spec => []ResetReachesHistory
  <1>1. ComponentsInv => ResetReachesHistory
    BY GuardSafe DEF ComponentsInv, ResetReachesHistory
  <1> QED
    BY <1>1, ComponentsInvariance, PTL

(* A context with the model generates only while it is paced               *)
(* (xemfg/backend.cpp).                                                    *)
THEOREM GeneratesOnlyPaced == Spec => []ModelIsPaced
  <1>1. ComponentsInv => ModelIsPaced
    BY XeFGSafe DEF ComponentsInv, ModelIsPaced
  <1> QED
    BY <1>1, ComponentsInvariance, PTL

(* XeLL is asked for the frames it expects, one at a time, and has of a    *)
(* frame only what follows its wait (xemfg/native_latency.cpp).            *)
THEOREM MarkersFollowWaits == Spec => []WaitsThenMarkers
  <1>1. ComponentsInv => WaitsThenMarkers
    BY WaitsSafe DEF ComponentsInv, WaitsThenMarkers
  <1> QED
    BY <1>1, ComponentsInvariance, PTL

(* Intel's frame generation is created and initialized alone, and XeLL     *)
(* outlives it (xemfg/native_swapchain.cpp).                               *)
THEOREM CreatedAlone == Spec => []SdkAlone
  <1>1. ComponentsInv => SdkAlone
    BY OutputSafe DEF ComponentsInv, SdkAlone
  <1> QED
    BY <1>1, ComponentsInvariance, PTL

(* Streamline's generator, once unloaded, is not loaded again beside an    *)
(* output (xemfg/native_streamline.cpp).                                   *)
THEOREM UnloadedStays == Spec => NotReloadedBeside
  <1>1. ComponentsInv /\ [Next]_vars => [part = "output" => Bridge!StaysUnloaded]_vars
    BY StepsOfParts, OutputStays DEF ComponentsInv, OutputInv
  <1> QED
    BY <1>1, ComponentsInvariance, PTL DEF Spec, NotReloadedBeside

(* The history the GPU is told of lies in its arena (cuda_temporal.hpp).   *)
THEOREM ToldHistoryInArena == Spec => []HistoryInArena
  <1>1. ComponentsInv => HistoryInArena
    BY CudaSafe DEF ComponentsInv, HistoryInArena
  <1> QED
    BY <1>1, ComponentsInvariance, PTL

(* A call through a hook ends in the original function, also after the     *)
(* addon was loaded twice (ngx_hook.hpp, addon.cpp).                       *)
THEOREM HookedCallsEnd == Spec => []TrampolinesEnd
  <1>1. ComponentsInv => TrampolinesEnd
    BY HooksSafe DEF ComponentsInv, TrampolinesEnd
  <1> QED
    BY <1>1, ComponentsInvariance, PTL

(* A jump into the addon leads into a copy that stays (addon_provider.inl). *)
THEOREM JumpsIntoResident == Spec => []OnlyResidentHooks
  <1>1. ComponentsInv => OnlyResidentHooks
    BY HooksSafe DEF ComponentsInv, OnlyResidentHooks
  <1> QED
    BY <1>1, ComponentsInvariance, PTL

(* A provider that was patched or hooked stays mapped (addon_provider.inl). *)
THEOREM PatchedStaysMapped == Spec => []ChangedStaysMapped
  <1>1. ComponentsInv => ChangedStaysMapped
    BY ProviderSafe DEF ComponentsInv, ChangedStaysMapped
  <1> QED
    BY <1>1, ComponentsInvariance, PTL

(* The thread that a thread waits for waits for nobody: the worker, which  *)
(* needs the loader's lock while it has that of the maintenance, never     *)
(* waits for a thread that waits for it (addon_provider.inl).              *)
THEOREM WaitsAreShort == Spec => []WaitsEnd
  <1>1. ComponentsInv => WaitsEnd
    BY ProviderSafe DEF ComponentsInv, WaitsEnd
  <1> QED
    BY <1>1, ComponentsInvariance, PTL

(* A frame is generated from inputs of the present epoch that the game has *)
(* not taken back (xemfg/native_frame_packet.cpp).                         *)
THEOREM NothingStaleGenerated == Spec => GeneratedFromCurrent
  <1>1. ComponentsInv /\ [Next]_vars => [part = "inputs" => Inputs!GeneratesFromCurrent]_vars
    BY StepsOfParts, InputsGenerate DEF ComponentsInv
  <1> QED
    BY <1>1, ComponentsInvariance, PTL DEF Spec, GeneratedFromCurrent

(* Safe mode is offered only for sessions that ended unseen, and lasts for *)
(* the process that started in it (support_files.hpp).                     *)
THEOREM SafeModeIsEarned == Spec => []SafeModeEarned
  <1>1. ComponentsInv => SafeModeEarned
    BY SessionSafe DEF ComponentsInv, SafeModeEarned
  <1> QED
    BY <1>1, ComponentsInvariance, PTL

(* Synthesized frames are slept for and shown in order                     *)
(* (xemfg/native_synthetic.cpp).                                           *)
THEOREM SyntheticInOrder == Spec => []FramesInOrder
  <1>1. ComponentsInv => FramesInOrder
    BY SyntheticSafe DEF ComponentsInv, FramesInOrder
  <1> QED
    BY <1>1, ComponentsInvariance, PTL

=============================================================================
