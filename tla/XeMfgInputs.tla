------------------------------ MODULE XeMfgInputs ------------------------------
(***************************************************************************)
(* The inputs of a source frame in the XeMFG backend: the hooks of         *)
(* Streamline that see the game's resource tags, constants and options     *)
(* (native_streamline.cpp), the packet that checks and passes them to the  *)
(* SDK (native_frame_packet.cpp, native_ui.cpp), and the source Present    *)
(* that admits a frame to generation or shows it alone.                    *)
(*                                                                         *)
(* A hook notes the output and its epoch, calls Streamline, and only then  *)
(* uses what it noted: the game may have resized the output, left windowed *)
(* presentation or given the output up in the meantime.  The SDK keeps the *)
(* first tag of a kind and a tag cannot be taken back, so a frame that     *)
(* loses an input is shown alone.  The generator's viewport moves at a     *)
(* Present to one that sends complete inputs.                              *)
(***************************************************************************)
EXTENDS Naturals, FiniteSets

CONSTANTS
  Viewports,
  MaxId,     \* bounds the frames
  MaxSent,   \* bounds the calls of the game
  MaxEpoch,  \* bounds resizes, changes of display mode and outputs
  Batches,   \* the kinds of resource one call tags
  Quiet,     \* frames without inputs after which another viewport may be taken (30)
  Outcomes,  \* what may become of a tag: a subset of Outcome
  Slips      \* the conditions of admission that belong to other parts

None     == "none"
Ids      == 1..MaxId
Required == {"depth", "motion"}
Kinds    == Required \cup {"hud"}
Outcome  == {"removed", "refused", "conflicting", "tagged", "held", "failed"}

VARIABLES
  seen,      \* per viewport: what it asked for, its last inputs and constants
  chosen,    \* Bridge::viewport
  wanted,    \* whether the game wants frames generated
  nativeOff, \* whether Streamline's own generator is known to be off
  epoch,
  gone,      \* whether the output has retired
  windowed,  \* presentationSupported
  packet,    \* the frames with inputs, by id
  now,       \* the frame of the game's last marker: State().presenting
  previous,  \* Output::last, the id last presented in this epoch
  enabled,   \* whether the SDK generates
  entered,   \* the call of the game in flight, and the epoch it noted
  sdk,       \* the tags and constants the SDK was given: their frame and origin
  sent       \* calls of the game, to bound them

vars == <<seen, chosen, wanted, nativeOff, epoch, gone, windowed, packet, now, previous,
          enabled, entered, sdk, sent>>

NotSeen == [mode |-> "off", inputs |-> 0, constants |-> 0, complete |-> FALSE]
Outside == [at |-> "outside", id |-> 0, viewport |-> None, epoch |-> 0, kinds |-> {}]

\* Where an input comes from: a viewport, in an epoch.
Origins == [viewport : Viewports, epoch : 0..MaxEpoch]
NoFrame == [known |-> FALSE, resources |-> {}, held |-> {}, constants |-> None,
            camera |-> [viewport |-> None, epoch |-> 0], failed |-> FALSE, paced |-> FALSE]

TypeOK ==
  /\ seen \in [Viewports -> [mode : {"off", "on"}, inputs : 0..MaxId, constants : 0..MaxId, complete : BOOLEAN]]
  /\ chosen \in Viewports \cup {None} /\ wanted \in BOOLEAN /\ nativeOff \in BOOLEAN
  /\ epoch \in 0..MaxEpoch /\ gone \in BOOLEAN /\ windowed \in BOOLEAN
  /\ DOMAIN packet = Ids
  /\ \A i \in Ids : /\ packet[i].resources \subseteq Kinds
                    /\ packet[i].held \subseteq [kind : Kinds, from : Origins]
                    /\ packet[i].constants \in {None, "valid", "invalid"}
  /\ now \in 0..MaxId /\ previous \in 0..MaxId /\ enabled \in BOOLEAN /\ sent \in 0..MaxSent
  /\ entered.at \in {"outside", "tags", "constants"} /\ entered.id \in 0..MaxId
  /\ sdk \subseteq [id : Ids, kind : Kinds \cup {"constants"}, from : Origins]

Init ==
  /\ seen = [v \in Viewports |-> NotSeen] /\ chosen = None /\ wanted = FALSE /\ nativeOff = FALSE
  /\ epoch = 0 /\ gone = FALSE /\ windowed = TRUE
  /\ packet = [i \in Ids |-> NoFrame] /\ now = 0 /\ previous = 0 /\ enabled = FALSE
  /\ entered = Outside /\ sdk = {} /\ sent = 0

----------------------------------------------------------------------------
(* The viewports.                                                          *)

Near(a, b) == a <= b + 1 /\ b <= a + 1

ObserveViewport(v, id, inputs, constants) ==
  LET s == [seen[v] EXCEPT !.inputs = IF inputs THEN id ELSE @, !.constants = IF constants THEN id ELSE @]
  IN seen' = [seen EXCEPT ![v] = [s EXCEPT !.complete =
                 @ \/ (s.inputs # 0 /\ s.constants # 0 /\ Near(s.inputs, s.constants))]]

\* The first that asks for frames is taken; another has to wait.
SelectViewport(v) == chosen' = IF chosen = None THEN v ELSE chosen

\* Streamline is always told off, and may refuse.
OptionsHook(v, mode) ==
  /\ sent < MaxSent /\ sent' = sent + 1
  /\ seen' = [seen EXCEPT ![v].mode = mode]
  /\ IF mode = "on" THEN SelectViewport(v) ELSE UNCHANGED chosen
  /\ \E ok \in BOOLEAN :
       IF chosen' = v THEN nativeOff' = ok /\ wanted' = (mode = "on") ELSE UNCHANGED <<nativeOff, wanted>>
  /\ UNCHANGED <<epoch, gone, windowed, packet, now, previous, enabled, entered, sdk>>

----------------------------------------------------------------------------
(* The game's tags and constants.  A hook enters, Streamline answers, and  *)
(* the hook uses the lease it took at entry.                               *)

Enter(at, v, id, kinds) ==
  /\ entered = Outside /\ sent < MaxSent /\ sent' = sent + 1 /\ id \in {now + 1, now + 2} \cap Ids
  /\ entered' = [at |-> at, id |-> id, viewport |-> v, epoch |-> epoch, kinds |-> kinds]
  /\ UNCHANGED <<seen, chosen, wanted, nativeOff, epoch, gone, windowed, packet, now, previous, enabled, sdk>>

(* Wrong: the output of the call is looked at, not its epoch.              *)
SameOutput(lease) == ~gone

\* InputLease::Current.
Current(lease) == ~gone /\ lease.epoch = epoch

From(c) == [viewport |-> c.viewport, epoch |-> c.epoch]

\* A tag the SDK already has cannot be taken back: the frame is given up.
Reject(frame, kind) ==
  [frame EXCEPT !.failed = @ \/ kind # "hud" \/ kind \in frame.resources]

\* What may become of one tag of a frame that is known.
Possible(frame, kind) ==
  {o \in Outcomes : /\ o = "conflicting" => kind = "hud" /\ kind \in frame.resources
                    /\ o = "held" => kind # "depth"
                    /\ o \in {"tagged", "held", "failed"} => kind \notin frame.resources}
  \cup {"duplicate" : x \in frame.resources \cap {kind}}

Withdraw(frame, kind) ==
  [(IF kind \in frame.resources THEN [Reject(frame, kind) EXCEPT !.failed = TRUE] ELSE frame)
     EXCEPT !.resources = @ \ {kind}]

\* Jittered motion and a HUD in another format are kept for the Present.
StageMotion(frame, from) == [frame EXCEPT !.held = @ \cup {[kind |-> "motion", from |-> from]}]
StageHudCopy(frame, from) == [frame EXCEPT !.held = @ \cup {[kind |-> "hud", from |-> from]}]

SubmitResource(frame, kind, outcome, from) ==
  CASE outcome = "removed" -> Withdraw(frame, kind)
    [] outcome \in {"refused", "conflicting"} -> Reject(frame, kind)
    [] outcome = "failed" -> [frame EXCEPT !.failed = TRUE]
    [] outcome = "tagged" -> [frame EXCEPT !.resources = @ \cup {kind}]
    [] outcome = "held"   -> [(IF kind = "motion" THEN StageMotion(frame, from) ELSE StageHudCopy(frame, from))
                                EXCEPT !.resources = @ \cup {kind}]
    [] OTHER -> frame

SubmitBatch(frame, kinds, o, from) ==
  LET one(kind) == SubmitResource(frame, kind, o[kind], from)
      each == {one(kind) : kind \in kinds}
  IN [frame EXCEPT !.known = TRUE,
        !.resources = {k \in Kinds : IF k \in kinds THEN k \in one(k).resources ELSE k \in @},
        !.held = UNION {f.held : f \in each}, !.failed = \E f \in each : f.failed]

\* Only the chosen viewport's inputs count; nothing of another epoch does.
Counts(c) == chosen = c.viewport /\ Current(c)

Tags ==
  /\ entered.at = "tags" /\ entered' = Outside
  /\ IF Required \subseteq entered.kinds THEN ObserveViewport(entered.viewport, entered.id, TRUE, FALSE)
                                         ELSE UNCHANGED seen
  /\ IF Counts(entered)
     THEN \E o \in [entered.kinds -> Outcome \cup {"duplicate"}] :
            LET i == entered.id
            IN /\ \A k \in entered.kinds : o[k] \in Possible(packet[i], k)
               /\ packet' = [packet EXCEPT ![i] = SubmitBatch(@, entered.kinds, o, From(entered))]
               /\ sdk' = sdk \cup {[id |-> i, kind |-> k, from |-> From(entered)] :
                                     k \in {kk \in entered.kinds : o[kk] = "tagged"}}
     ELSE UNCHANGED <<packet, sdk>>
  /\ UNCHANGED <<chosen, wanted, nativeOff, epoch, gone, windowed, now, previous, enabled, sent>>

\* Constants follow the conventions the output was made with, or do not.
SubmitConstants(frame, valid, from) ==
  [frame EXCEPT !.known = TRUE, !.constants = valid, !.camera = from]

ConstantsHook ==
  /\ entered.at = "constants" /\ entered' = Outside
  /\ ObserveViewport(entered.viewport, entered.id, FALSE, TRUE)
  /\ \E valid \in {"valid", "invalid"} :
       packet' = IF Counts(entered)
                 THEN [packet EXCEPT ![entered.id] = SubmitConstants(@, valid, From(entered))]
                 ELSE packet
  /\ UNCHANGED <<chosen, wanted, nativeOff, epoch, gone, windowed, now, previous, enabled, sdk, sent>>

\* Streamline refused the call.
RejectUpstreamInput ==
  /\ entered # Outside /\ entered' = Outside
  /\ packet' = IF Counts(entered)
               THEN [packet EXCEPT ![entered.id].known = TRUE, ![entered.id].failed = TRUE] ELSE packet
  /\ UNCHANGED <<seen, chosen, wanted, nativeOff, epoch, gone, windowed, now, previous, enabled, sdk, sent>>

\* The wait for the frame is over and its markers are in (XeMfgWaits).
Paced(id) ==
  /\ ~gone /\ id = now + 1 /\ id \in Ids /\ ~packet[id].paced
  /\ packet' = [packet EXCEPT ![id].known = TRUE, ![id].paced = TRUE]
  /\ UNCHANGED <<seen, chosen, wanted, nativeOff, epoch, gone, windowed, now, previous, enabled, entered, sdk, sent>>

----------------------------------------------------------------------------
(* The source Present.                                                     *)

Recent(v, id) == seen[v].inputs + 2 >= id /\ seen[v].constants + 2 >= id

Candidates(id) == {v \in Viewports \ {chosen} : seen[v].mode = "on" /\ seen[v].complete /\ Recent(v, id)}

Later(a, b) == IF a > b THEN a ELSE b

Silent(id) ==
  \/ ~seen[chosen].complete
  \/ id > Later(seen[chosen].inputs, seen[chosen].constants) + Quiet

ReselectViewport(id) ==
  IF id # 0 /\ chosen # None /\ Candidates(id) # {} /\ Silent(id)
  THEN chosen' \in Candidates(id) /\ wanted' = TRUE
  ELSE UNCHANGED <<chosen, wanted>>

\* compatibility::Blocker finds nothing; `others` stands for the conditions of other parts.
Admitted(id, others) ==
  /\ others /\ windowed /\ wanted' /\ nativeOff
  /\ id > previous /\ packet[id].known /\ packet[id].paced
  /\ Required \subseteq packet[id].resources
  /\ packet[id].constants = "valid" /\ ~packet[id].failed

HeldBack(id, kind) == {[id |-> id, kind |-> h.kind, from |-> h.from] : h \in {x \in packet[id].held : x.kind = kind}}

SubmitDejitteredMotion(id) == HeldBack(id, "motion")
SubmitPendingHud(id)       == HeldBack(id, "hud")

\* In this order, and the first refusal ends it: `done` is how far it came.
Submitted(id, done) ==
  (IF done >= 1 THEN SubmitDejitteredMotion(id) ELSE {})
  \cup (IF done >= 2 THEN SubmitPendingHud(id) ELSE {})
  \cup IF done = 3 THEN {[id |-> id, kind |-> "constants", from |-> packet[id].camera]} ELSE {}

\* SetEnabled only on a change; refused, the output is taken to be off.
SwitchGenerator(ready, accepted) == enabled' = (ready /\ (enabled \/ accepted))

\* FrameStore::Prune keeps the two frames before the one presented.
Prune(id) == [i \in Ids |-> IF id > i + 2 THEN NoFrame ELSE packet[i]]

(* BeforePresent, the Present and AfterPresent run under the lock of the   *)
(* presents.  The id is the last the game marked, the same twice when it   *)
(* did not mark this one.                                                  *)
SourcePresent(id) ==
  /\ ~gone /\ id \in {now, now + 1} \cap Ids
  /\ ReselectViewport(id)
  /\ \E others \in Slips, done \in 0..3, accepted \in BOOLEAN :
       /\ sdk' = {t \in sdk : t.id >= id}
                   \cup IF Admitted(id, others) THEN Submitted(id, done) ELSE {}
       /\ SwitchGenerator(Admitted(id, others) /\ done = 3, accepted)
  /\ now' = id /\ previous' = id /\ packet' = Prune(id)
  /\ UNCHANGED <<seen, nativeOff, epoch, gone, windowed, entered, sent>>

----------------------------------------------------------------------------
(* The output.                                                             *)

\* The SDK is taken to drop what it was tagged with its proxy's old buffers.
NextEpoch ==
  /\ epoch < MaxEpoch /\ epoch' = epoch + 1
  /\ packet' = [i \in Ids |-> NoFrame] /\ previous' = 0 /\ sdk' = {}
  /\ UNCHANGED now

\* Swapchain::Resized.
Resized ==
  /\ ~gone /\ NextEpoch /\ enabled' = FALSE /\ windowed' \in BOOLEAN
  /\ UNCHANGED <<seen, chosen, wanted, nativeOff, gone, entered, sent>>

SetFullscreenState ==
  /\ ~gone /\ NextEpoch /\ windowed' = ~windowed
  /\ UNCHANGED <<seen, chosen, wanted, nativeOff, gone, enabled, entered, sent>>

Retire ==
  /\ ~gone /\ gone' = TRUE /\ chosen' = None /\ enabled' = FALSE
  /\ UNCHANGED <<seen, wanted, nativeOff, epoch, windowed, packet, now, previous, entered, sdk, sent>>

\* The next output is told from the last by its epoch.
CreateOutput ==
  /\ gone /\ gone' = FALSE /\ NextEpoch /\ windowed' = TRUE
  /\ UNCHANGED <<seen, chosen, wanted, nativeOff, enabled, entered, sent>>

Next ==
  \/ \E v \in Viewports, mode \in {"off", "on"} : OptionsHook(v, mode)
  \/ \E v \in Viewports, id \in Ids :
       \/ \E kinds \in Batches : Enter("tags", v, id, kinds)
       \/ Enter("constants", v, id, {})
  \/ Tags \/ ConstantsHook \/ RejectUpstreamInput
  \/ \E id \in Ids : Paced(id) \/ SourcePresent(id)
  \/ Resized \/ SetFullscreenState \/ Retire \/ CreateOutput

Spec == Init /\ [][Next]_vars

----------------------------------------------------------------------------
Generated == enabled' /\ previous' # previous /\ epoch' = epoch
Given     == {t \in sdk' : t.id = previous'}

(* A frame is generated from depth, motion and constants the SDK really    *)
(* has, all from calls the game entered in the output's present epoch, and *)
(* from no tag the game has since taken back, whatever the order of tags,  *)
(* removals, resizes and Presents.                                         *)
GeneratesFromCurrent ==
  Generated =>
    /\ Required \cup {"constants"} \subseteq {t.kind : t \in Given}
    /\ \A t \in Given : /\ t.from.epoch = epoch
                        /\ t.kind \in packet[previous'].resources \cup {"constants"}
GeneratedFromCurrent == [][GeneratesFromCurrent]_vars
=============================================================================
