----------------------------- MODULE StateEvidence -----------------------------
(***************************************************************************)
(* slDLSSGGetState through its hook (framecount.hpp): the evidence it      *)
(* publishes of the frames really presented, cleared whenever the options  *)
(* of the viewport change, and the panel's memory estimate, a mailbox that *)
(* the next call without options of its own takes and answers.             *)
(***************************************************************************)
EXTENDS Naturals

CONSTANTS
  Samplers,  \* threads that call slDLSSGGetState
  Plans,     \* estimates the panel asks for: [signature, compare, ui]
  Epochs     \* bounds g_output_validation_epoch

VARIABLES
  options,    \* the options the viewport was last seen with, 0 before any
  observing,  \* whether ObserveOptionsTransition has the evidence left to clear
  validation, \* g_output_validation_epoch
  evidence,   \* g_state_seen and the epoch of what was published with it
  sampling,   \* per thread: the GetState call
  estimate,   \* the mailbox and the published estimates
  announcing, \* the estimate the panel has put there but not yet called pending
  overtaken   \* history: it was answered or thrown away before that

mailbox == <<estimate, announcing, overtaken>>
vars == <<options, observing, validation, evidence, sampling, mailbox>>

NoPlan == [signature |-> 0, compare |-> 0, ui |-> FALSE]
Asking == [at |-> "idle", epoch |-> 0, plan |-> NoPlan]
NoEstimate == [request |-> NoPlan, status |-> "idle", signature |-> 0, compare |-> 0, ready |-> {}]
Statuses == {"idle", "waiting", "pending", "ready", "failed"}

Calls == [at : {"idle", "taking", "calling", "answered", "publishing"}, epoch : 0..Epochs, plan : Plans \cup {NoPlan}]
Estimates == [request : Plans \cup {NoPlan}, status : Statuses, signature : Nat, compare : Nat,
              ready : SUBSET (BOOLEAN \X Nat)]

TypeOK ==
  /\ options \in 0..2 /\ observing \in BOOLEAN /\ validation \in 0..Epochs
  /\ evidence \in [seen : BOOLEAN, epoch : 0..Epochs]
  /\ sampling \in [Samplers -> Calls] /\ estimate \in Estimates
  /\ announcing \in Plans \cup {NoPlan} /\ overtaken \in BOOLEAN

\* An estimate the panel asks for is told from none at all, and its
\* signatures are numbers.
PlansAreEstimates ==
  /\ NoPlan \notin Plans /\ Epochs \in Nat
  /\ Plans \subseteq [signature : Nat, compare : Nat, ui : BOOLEAN]

Init ==
  /\ options = 0 /\ observing = FALSE /\ validation = 0 /\ evidence = [seen |-> FALSE, epoch |-> 0]
  /\ sampling = [t \in Samplers |-> Asking]
  /\ estimate = NoEstimate /\ announcing = NoPlan /\ overtaken = FALSE

----------------------------------------------------------------------------
(* ObserveOptionsTransition: the description of the options is replaced    *)
(* under the viewport's lock; the evidence is cleared after it.            *)

ObserveOptions(new) ==
  /\ ~observing /\ new # options /\ validation < Epochs
  /\ options' = new /\ observing' = TRUE
  /\ UNCHANGED <<validation, evidence, sampling, mailbox>>

ResetOutputValidationEvidence ==
  /\ observing /\ validation' = validation + 1 /\ evidence' = [seen |-> FALSE, epoch |-> 0]
  /\ observing' = FALSE
  /\ UNCHANGED <<options, sampling, mailbox>>

----------------------------------------------------------------------------
(* The memory estimate: the panel queues, a GetState call without options  *)
(* takes, asks and completes.                                              *)

(* QueueVramEstimate: the request goes into the mailbox, under its lock.   *)
PutVramEstimate(plan) ==
  LET e == estimate
      known == e.compare # 0 /\ e.compare # plan.compare
      cleared == IF known THEN [e EXCEPT !.ready = {}] ELSE e
      same == e.signature = plan.signature /\ e.status \in {"pending", "ready", "failed"} IN
  /\ announcing = NoPlan
  /\ IF same THEN estimate' = cleared /\ UNCHANGED <<announcing, overtaken>>
     ELSE /\ estimate' = [cleared EXCEPT !.request = plan]
          /\ announcing' = plan /\ overtaken' = FALSE
  /\ UNCHANGED <<options, observing, validation, evidence, sampling>>

(* It is called pending after that.                                        *)
QueueVramEstimate ==
  /\ announcing # NoPlan /\ announcing' = NoPlan
  /\ estimate' = [estimate EXCEPT !.signature = announcing.signature, !.status = "pending"]
  /\ UNCHANGED <<options, observing, validation, evidence, sampling, overtaken>>

(* A snapshot that is not complete keeps a finished or pending estimate.   *)
SetVramEstimateWaiting ==
  /\ announcing = NoPlan
  /\ estimate' = [estimate EXCEPT !.status = IF @ \in {"idle", "waiting", "failed"} THEN "waiting" ELSE @]
  /\ UNCHANGED <<options, observing, validation, evidence, sampling, announcing, overtaken>>

(* An answer that leaves a failed estimate pending. *)
CompleteOnSuccess(e, plan, ok) ==
  IF plan = NoPlan \/ ~ok THEN e
  ELSE [e EXCEPT !.compare = plan.compare, !.ready = @ \cup {<<plan.ui, plan.compare>>}, !.status = "ready"]

CompleteVramEstimate(e, plan, ok) ==
  IF plan = NoPlan THEN e
  ELSE IF ok THEN [e EXCEPT !.compare = plan.compare, !.ready = @ \cup {<<plan.ui, plan.compare>>},
                            !.status = "ready"]
  ELSE [e EXCEPT !.status = "failed"]

----------------------------------------------------------------------------
(* HookedGetState.                                                         *)

GetState(t) ==
  /\ sampling[t].at = "idle"
  /\ \E withOptions \in BOOLEAN :
       LET where == IF ~withOptions /\ estimate.status = "pending" THEN "taking" ELSE "calling" IN
       sampling' = [sampling EXCEPT ![t] = [at |-> where, epoch |-> validation, plan |-> NoPlan]]
  /\ UNCHANGED <<options, observing, validation, evidence, mailbox>>

(* What is pending is taken from the mailbox, under its lock.              *)
TakeVramEstimate(t) ==
  /\ sampling[t].at = "taking"
  /\ sampling' = [sampling EXCEPT ![t].at = "calling", ![t].plan = estimate.request]
  /\ estimate' = [estimate EXCEPT !.request = NoPlan]
  /\ UNCHANGED <<options, observing, validation, evidence, announcing, overtaken>>

Answered(t) ==
  /\ sampling[t].at = "calling"
  /\ \E ok, estimated \in BOOLEAN :
       /\ estimate' = CompleteVramEstimate(estimate, sampling[t].plan, ok /\ estimated)
       /\ sampling' = [sampling EXCEPT ![t].at = IF ok THEN "answered" ELSE "idle", ![t].plan = NoPlan]
  /\ overtaken' = (overtaken \/ (announcing # NoPlan /\ announcing = sampling[t].plan))
  /\ UNCHANGED <<options, observing, validation, evidence, announcing>>

(* The epoch is compared once; what was sampled is stored after.           *)
StillCurrent(t) ==
  /\ sampling[t].at = "answered"
  /\ sampling' = [sampling EXCEPT ![t].at = IF sampling[t].epoch = validation THEN "publishing" ELSE "idle"]
  /\ UNCHANGED <<options, observing, validation, evidence, mailbox>>

Publish(t) ==
  /\ sampling[t].at = "publishing" /\ evidence' = [seen |-> TRUE, epoch |-> sampling[t].epoch]
  /\ sampling' = [sampling EXCEPT ![t].at = "idle"]
  /\ UNCHANGED <<options, observing, validation, mailbox>>

(* NotifySwapchainTransition. *)
ResetVramEstimate ==
  /\ estimate' = NoEstimate /\ overtaken' = (overtaken \/ announcing # NoPlan)
  /\ UNCHANGED <<options, observing, validation, evidence, sampling, announcing>>

Next ==
  \/ \E new \in 1..2 : ObserveOptions(new)
  \/ ResetOutputValidationEvidence
  \/ \E plan \in Plans : PutVramEstimate(plan)
  \/ QueueVramEstimate \/ SetVramEstimateWaiting \/ ResetVramEstimate
  \/ \E t \in Samplers :
       GetState(t) \/ TakeVramEstimate(t) \/ Answered(t) \/ StillCurrent(t) \/ Publish(t)

Spec == Init /\ [][Next]_vars

----------------------------------------------------------------------------
(* An estimate that is pending is in the mailbox or with a GetState call   *)
(* that will complete it: the panel, which asks again only when it is not, *)
(* never waits for an answer nobody owes (framecount.hpp:398-487).  Unless *)
(* the request was answered, or a new swap chain threw it away, in the     *)
(* instant between the mailbox and the store of its status.                *)
PendingIsOwed ==
  estimate.status = "pending" /\ ~overtaken =>
    estimate.request # NoPlan \/ \E t \in Samplers : sampling[t].plan # NoPlan
=============================================================================
