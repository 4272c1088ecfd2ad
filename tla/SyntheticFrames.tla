---------------------------- MODULE SyntheticFrames ----------------------------
(***************************************************************************)
(* Source frames for games without Streamline frame ids                    *)
(* (native_synthetic.cpp, synthetic_queue.hpp): the FidelityFX adapter     *)
(* (native_ffx.cpp) and the DLSS-SR adapter (native_ngx.cpp) give every    *)
(* evaluation an id, sleep before it, and the Presents take the ids in     *)
(* order.  The first sleep of a frame that an evaluation opens is done     *)
(* without the lock, so a Present, another evaluation or the next output's *)
(* Begin can come before the evaluation commits its frame.                 *)
(***************************************************************************)
EXTENDS Naturals, Sequences, SequencesExt

CONSTANTS
  Threads,    \* threads of the game that evaluate
  Recorders,  \* those that record DLSS-SR
  Depth,      \* kDepth
  Evidence,   \* kEvidence
  MaxId,      \* bounds the frames of an output
  MaxOutputs

Adapters == {"fidelityfx", "dlss_sr"}
Outputs  == 1..MaxOutputs

VARIABLES
  queue,      \* FrameQueue
  live,       \* Active(): the output, 0 without one
  made,       \* outputs created, the bound
  owned,      \* the output the synthesized frames belong to
  ownerName,
  active,
  requested,  \* State().requested
  streamline, \* Streamline asks for frames and marked one within kStreamlineQuietMs
  contexts,   \* the FidelityFX stand-ins the game holds
  ffxRequested,
  features,   \* whether a DLSS-SR feature is known
  evaluation, \* per thread: the evaluation in progress
  inPresent,  \* the output between BeforeSourcePresent and AfterSourcePresent
  slept,      \* per output: the ids whose sleep and SIMULATION_START are done, in order
  shown       \* per output: the ids presented, in order

vars == <<queue, live, made, owned, ownerName, active, requested, streamline, contexts,
          ffxRequested, features, evaluation, inPresent, slept, shown>>

NewQueue == [pending |-> <<>>, building |-> 0, presenting |-> 0, evidence |-> 0, submitted |-> FALSE,
             merged |-> FALSE, lastMerged |-> FALSE, pipelined |-> FALSE, refused |-> FALSE]
Idle     == [at |-> "idle", adapter |-> "none", output |-> 0, id |-> 0]

TypeOK ==
  /\ Len(queue.pending) <= Depth /\ ToSet(queue.pending) \subseteq 1..MaxId
  /\ queue.building \in 0..MaxId /\ queue.presenting \in 0..MaxId /\ queue.evidence \in 0..Evidence
  /\ live \in 0..MaxOutputs /\ made \in 0..MaxOutputs /\ owned \in 0..MaxOutputs
  /\ ownerName \in Adapters \cup {"none"} /\ active \in BOOLEAN /\ requested \in BOOLEAN
  /\ streamline \in BOOLEAN /\ contexts \subseteq {"swapchain", "generation"}
  /\ ffxRequested \in BOOLEAN /\ features \in BOOLEAN /\ inPresent \in 0..MaxOutputs
  /\ \A t \in Threads : evaluation[t].at \in {"idle", "sleeping", "woken", "feeding"}
  /\ \A o \in Outputs : slept[o] \in Seq(1..MaxId) /\ shown[o] \in Seq(1..MaxId)

Init ==
  /\ queue = NewQueue /\ live = 0 /\ made = 0 /\ owned = 0 /\ ownerName = "none" /\ active = FALSE
  /\ requested = FALSE /\ streamline = FALSE /\ contexts = {} /\ ffxRequested = FALSE /\ features = FALSE
  /\ evaluation = [t \in Threads |-> Idle] /\ inPresent = 0
  /\ slept = [o \in Outputs |-> <<>>] /\ shown = [o \in Outputs |-> <<>>]

----------------------------------------------------------------------------
(* FrameQueue.  A submission or a present that opens a frame says so in    *)
(* `start`.                                                                *)

Submit(q) ==
  CASE q.building = 0 -> [id |-> 1, start |-> TRUE, q |-> [q EXCEPT !.building = 1]]
    [] q.building # 0 /\ ~q.submitted -> [id |-> q.building, start |-> FALSE, q |-> q]
    [] q.submitted /\ ~q.pipelined ->
         [id |-> q.building, start |-> FALSE, q |-> [q EXCEPT !.merged = TRUE]]
    [] q.submitted /\ q.pipelined /\ Len(q.pending) >= Depth ->
         [id |-> q.building, start |-> FALSE,
          q |-> [q EXCEPT !.pipelined = FALSE, !.refused = TRUE, !.merged = TRUE, !.pending = <<q.building>>]]
    [] OTHER -> [id |-> q.building + 1, start |-> TRUE,
                 q |-> [q EXCEPT !.building = @ + 1, !.submitted = FALSE]]

Commit(q, id) ==
  IF q.submitted \/ id # q.building THEN q
  ELSE [q EXCEPT !.pending = Append(@, id), !.submitted = TRUE]

BeforePresent(q) ==
  IF q.pending # <<>>
  THEN [q EXCEPT !.lastMerged = q.merged, !.merged = FALSE, !.presenting = Head(q.pending)]
  ELSE LET seen == q.lastMerged /\ ~q.refused /\ ~q.pipelined
       IN [q EXCEPT !.lastMerged = FALSE, !.presenting = 0,
                    !.evidence = IF seen THEN @ + 1 ELSE @,
                    !.pipelined = @ \/ (seen /\ q.evidence + 1 >= Evidence)]

AfterPresent(q) ==
  IF q.presenting = 0 \/ q.pending = <<>> \/ Head(q.pending) # q.presenting
  THEN [id |-> 0, start |-> 0, q |-> q]
  ELSE LET shift == [q EXCEPT !.presenting = 0, !.pending = Tail(@)]
       IN IF ~q.submitted THEN [id |-> q.presenting, start |-> 0, q |-> shift]
          ELSE [id |-> q.presenting, start |-> q.building + 1,
                q |-> [shift EXCEPT !.building = @ + 1, !.submitted = FALSE]]

----------------------------------------------------------------------------
(* The owner of the frames.                                                *)

Owner == IF owned # 0 /\ owned = live THEN ownerName ELSE "none"

Driving(adapter) == active /\ Owner = adapter

Begin(o, adapter) == owned' = o /\ ownerName' = adapter /\ active' = FALSE /\ queue' = NewQueue

End == owned' = 0 /\ ownerName' = "none" /\ active' = FALSE

StartFrame(o, id) == slept' = [slept EXCEPT ![o] = Append(@, id)]

\* Streamline's generator is asked for frames: its route owns them.
Deferred == ~active /\ streamline

----------------------------------------------------------------------------
(* An evaluation.  FidelityFX holds its lock throughout, DLSS-SR does not. *)

Locked == \E t \in Threads : evaluation[t].at # "idle" /\ evaluation[t].adapter = "fidelityfx"

Prepare(t) == t \in Threads /\ "generation" \in contexts /\ ffxRequested /\ ~Locked

Feed(t) == t \in Recorders /\ features

May(t, adapter) == IF adapter = "fidelityfx" THEN Prepare(t) ELSE Feed(t)

SubmitFrame(t, adapter) ==
  /\ evaluation[t] = Idle /\ live # 0 /\ May(t, adapter)
  /\ owned = live /\ ownerName = adapter /\ ~Deferred
  /\ active' = TRUE
  /\ LET s == Submit(queue)
     IN /\ s.id <= MaxId
        /\ queue' = IF s.start THEN s.q ELSE Commit(s.q, s.id)
        /\ evaluation' = [evaluation EXCEPT ![t] =
             [at |-> IF s.start THEN "sleeping" ELSE "feeding", adapter |-> adapter, output |-> live, id |-> s.id]]
  /\ UNCHANGED <<live, made, owned, ownerName, requested, streamline, contexts, ffxRequested, features,
                 inPresent, slept, shown>>

Sleep(t) ==
  /\ evaluation[t].at = "sleeping" /\ evaluation' = [evaluation EXCEPT ![t].at = "woken"]
  /\ StartFrame(evaluation[t].output, evaluation[t].id)
  /\ UNCHANGED <<queue, live, made, owned, ownerName, active, requested, streamline, contexts, ffxRequested,
                 features, inPresent, shown>>

(* Wrong: whether the frames are still this output's is not asked again.   *)
CommitAnyway(t) ==
  /\ evaluation[t].at = "woken"
  /\ queue' = Commit(queue, evaluation[t].id)
  /\ evaluation' = [evaluation EXCEPT ![t].at = "feeding"]
  /\ UNCHANGED <<live, made, owned, ownerName, active, requested, streamline, contexts, ffxRequested, features,
                 inPresent, slept, shown>>

\* With the lock again.
Relock(t) ==
  /\ evaluation[t].at = "woken"
  /\ IF owned = evaluation[t].output
     THEN /\ queue' = Commit(queue, evaluation[t].id)
          /\ evaluation' = [evaluation EXCEPT ![t].at = "feeding"]
     ELSE evaluation' = [evaluation EXCEPT ![t] = Idle] /\ UNCHANGED queue
  /\ UNCHANGED <<live, made, owned, ownerName, active, requested, streamline, contexts, ffxRequested, features,
                 inPresent, slept, shown>>

\* The adapter gives the frame its inputs (XeMfgInputs!SubmitResource, SubmitConstants).
Return(t) ==
  /\ evaluation[t].at = "feeding" /\ evaluation' = [evaluation EXCEPT ![t] = Idle]
  /\ requested' = TRUE
  /\ UNCHANGED <<queue, live, made, owned, ownerName, active, streamline, contexts, ffxRequested, features,
                 inPresent, slept, shown>>

----------------------------------------------------------------------------
(* The source Present.                                                     *)

BeforeSourcePresent ==
  /\ live # 0 /\ inPresent = 0 /\ inPresent' = live
  /\ IF active /\ owned = live
     THEN LET q == BeforePresent(queue)
          IN /\ queue' = q
             /\ shown' = IF q.presenting = 0 THEN shown ELSE [shown EXCEPT ![live] = Append(@, q.presenting)]
     ELSE UNCHANGED <<queue, shown>>
  /\ UNCHANGED <<live, made, owned, ownerName, active, requested, streamline, contexts, ffxRequested, features,
                 evaluation, slept>>

AfterSourcePresent ==
  /\ inPresent # 0 /\ inPresent' = 0
  /\ IF active /\ owned = inPresent
     THEN LET p == AfterPresent(queue)
          IN /\ p.start <= MaxId /\ queue' = p.q
             /\ IF p.start = 0 THEN UNCHANGED slept ELSE StartFrame(inPresent, p.start)
     ELSE UNCHANGED <<queue, slept>>
  /\ UNCHANGED <<live, made, owned, ownerName, active, requested, streamline, contexts, ffxRequested, features,
                 evaluation, shown>>

----------------------------------------------------------------------------
(* What the game does with its FidelityFX contexts, its DLSS-SR features   *)
(* and its swapchain.                                                      *)

NewOutput == made < MaxOutputs /\ made' = made + 1 /\ live' = made + 1

\* Without an output yet, the game's FidelityFX swapchain becomes one.
CreateSwapchain ==
  /\ live = 0 /\ ~Locked /\ NewOutput /\ Begin(made + 1, "fidelityfx")
  /\ contexts' = contexts \cup {"swapchain"} /\ ffxRequested' = FALSE
  /\ UNCHANGED <<requested, streamline, features, evaluation, inPresent, slept, shown>>

\* ngx::OutputCreated.
OutputCreated ==
  /\ live = 0 /\ NewOutput /\ Begin(made + 1, "dlss_sr")
  /\ UNCHANGED <<requested, streamline, contexts, ffxRequested, features, evaluation, inPresent, slept, shown>>

\* The swapchain's last reference; the frames end with its FidelityFX context only.
Retire ==
  /\ live # 0 /\ inPresent = 0 /\ live' = 0
  /\ UNCHANGED <<queue, made, owned, ownerName, active, requested, streamline, contexts, ffxRequested, features,
                 evaluation, inPresent, slept, shown>>

CreateHook ==
  /\ Owner = "fidelityfx" /\ contexts' = contexts \cup {"generation"}
  /\ UNCHANGED <<queue, live, made, owned, ownerName, active, requested, streamline, ffxRequested, features,
                 evaluation, inPresent, slept, shown>>

ConfigureHook(enabled) ==
  /\ "generation" \in contexts /\ ~Locked /\ ffxRequested' = enabled
  /\ requested' = IF Driving("fidelityfx") THEN enabled ELSE requested
  /\ UNCHANGED <<queue, live, made, owned, ownerName, active, streamline, contexts, features, evaluation,
                 inPresent, slept, shown>>

DestroyHook(context) ==
  /\ context \in contexts /\ ~Locked /\ contexts' = contexts \ {context}
  /\ IF context = "generation"
     THEN /\ ffxRequested' = FALSE
          /\ requested' = (requested /\ ~Driving("fidelityfx"))
          /\ UNCHANGED <<owned, ownerName, active>>
     ELSE IF ownerName = "fidelityfx" THEN End /\ UNCHANGED <<ffxRequested, requested>>
     ELSE UNCHANGED <<owned, ownerName, active, ffxRequested, requested>>
  /\ UNCHANGED <<queue, live, made, streamline, features, evaluation, inPresent, slept, shown>>

\* A DLSS-SR feature created or released.
Feature ==
  /\ features' = ~features
  /\ UNCHANGED <<queue, live, made, owned, ownerName, active, requested, streamline, contexts, ffxRequested,
                 evaluation, inPresent, slept, shown>>

\* Streamline's options and markers (XeMfgInputs!OptionsHook), and their quiet.
StreamlineActs ==
  /\ streamline' = ~streamline /\ requested' = (requested \/ streamline')
  /\ UNCHANGED <<queue, live, made, owned, ownerName, active, contexts, ffxRequested, features, evaluation,
                 inPresent, slept, shown>>

Next ==
  \/ \E t \in Threads : \/ \E adapter \in Adapters : SubmitFrame(t, adapter)
                        \/ Sleep(t) \/ Relock(t) \/ Return(t)
  \/ BeforeSourcePresent \/ AfterSourcePresent
  \/ CreateSwapchain \/ OutputCreated \/ Retire \/ CreateHook
  \/ \E enabled \in BOOLEAN : ConfigureHook(enabled)
  \/ \E context \in {"swapchain", "generation"} : DestroyHook(context)
  \/ Feature \/ StreamlineActs

Spec == Init /\ [][Next]_vars

----------------------------------------------------------------------------
(* An output's frames are slept for one after the other without a gap, and *)
(* a Present shows only a frame whose sleep is over, later than the one    *)
(* before, however evaluations, Presents, merging and new outputs meet.    *)
FramesInOrder ==
  \A o \in Outputs :
    /\ \A i \in 1..Len(slept[o]) : slept[o][i] = i
    /\ \A i \in 1..Len(shown[o]) : /\ shown[o][i] \in ToSet(slept[o])
                                   /\ i > 1 => shown[o][i - 1] < shown[o][i]
=============================================================================
