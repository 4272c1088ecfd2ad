------------------------------ MODULE CudaTemporal ------------------------------
(***************************************************************************)
(* The phase-validated confidence history of Adaptive Quality V3           *)
(* (cuda_temporal.hpp).  The addon hooks the launches of the CUDA driver;  *)
(* before a launch of one of two kernels it decides, under a lock, whether *)
(* the kernel may read and write its history, and says so in a control     *)
(* block of the device.  The geometry kernel is launched with the phase of *)
(* the frame; the inpaint kernel has no phase of its own and is given that *)
(* of the geometry launch before it.                                       *)
(*                                                                         *)
(* A phase is its number; 0 stands for one that is no phase.  A size is in *)
(* units of a third of the arena, the driver's failures are choices.       *)
(***************************************************************************)
EXTENDS Integers

CONSTANTS
  Multipliers,  \* effective multipliers, 2..6 in the code
  Sizes,        \* of the frame, in units of history
  Functions     \* kernels of one name, each of a module of its own

HistoryLimit == 2   \* kHistoryLimit, 64 MiB
ArenaLimit   == 3   \* kArenaLimit, 96 MiB
Contexts == {1, 2}
Streams  == {0, 1}  \* the default stream is 0
Apis     == {1, 2}
Off      == [enabled |-> FALSE]

VARIABLES
  mode, inpaintMode,  \* whether each history is asked for, fixed at load
  installed,          \* the launch hooks
  state,              \* g_state, with the two control blocks of the device
  dispatch,           \* g_dispatch
  effective,          \* the multiplier in effect, 0 without frame generation
  asked               \* a reset is requested that no launch has seen

vars == <<mode, inpaintMode, installed, state, dispatch, effective, asked>>

Blank == [function |-> 0, inpaint |-> 0, module |-> 0, context |-> 0, stream |-> 0,
          api |-> 0, arena |-> 0, size |-> 0, multiplier |-> 0, mask |-> {}, last |-> 0,
          cycles |-> 0, direction |-> 0, active |-> FALSE, local |-> FALSE,
          inpaintLocal |-> FALSE, initialized |-> FALSE, pending |-> FALSE,
          control |-> Off, inpaintControl |-> Off]

Required(size, multiplier) == size * (multiplier \div 2)

TypeOK ==
  /\ mode \in BOOLEAN /\ inpaintMode \in BOOLEAN
  /\ installed \in {"no", "failed", "hooked", "gone"}
  /\ DOMAIN state = DOMAIN Blank
  /\ state.function \in {0} \cup Functions /\ state.inpaint \in {0} \cup Functions
  /\ state.arena \in {0, HistoryLimit, ArenaLimit}
  /\ state.multiplier \in {0} \cup Multipliers /\ state.size \in {0} \cup Sizes
  /\ state.mask \subseteq 1..5 /\ state.cycles \in 0..2 /\ state.direction \in -1..1
  /\ dispatch = Off \/ dispatch.geometry \in {0} \cup Functions
  /\ effective \in {0} \cup Multipliers /\ asked \in BOOLEAN

Init ==
  /\ mode \in BOOLEAN /\ inpaintMode \in BOOLEAN
  /\ installed = "no" /\ state = Blank /\ dispatch = Off
  /\ effective = 0 /\ asked = FALSE

----------------------------------------------------------------------------
(* Falling back.                                                           *)

Complete(s) ==
  /\ mode => s.function # 0 \/ s.local
  /\ inpaintMode => s.inpaint # 0 \/ s.inpaintLocal

PublishDispatch(s) ==
  IF Complete(s) THEN [enabled |-> TRUE, geometry |-> s.function, inpaint |-> s.inpaint]
  ELSE dispatch

\* A control block of another context is not written.
DisableDeviceHistory(s, write) ==
  [s EXCEPT !.active = FALSE, !.control = IF write THEN Off ELSE @]

DisableInpaintHistory(s, write) ==
  [s EXCEPT !.initialized = FALSE, !.pending = FALSE,
            !.inpaintControl = IF write THEN Off ELSE @]

StayLocal(s)        == [s EXCEPT !.local = TRUE]
StayInpaintLocal(s) == [s EXCEPT !.inpaintLocal = TRUE]

FallBack(s, write)        == DisableDeviceHistory(StayLocal(s), write)
FallBackInpaint(s, write) == DisableInpaintHistory(StayInpaintLocal(s), write)

----------------------------------------------------------------------------
(* Binding.  known: the function, its parameters, its module's symbols and *)
(* its magic are those of the addon's kernel.                              *)

BindTargetFirstTime(s, l) ==
  CASE \/ s.context \notin {0, l.context}
       \/ s.stream \notin {0, l.stream}    -> FallBack(s, s.context \in {0, l.context})
    [] ~l.known                            -> StayLocal(s)
    [] OTHER -> [s EXCEPT !.function = l.function, !.module = l.function,
                          !.context = l.context, !.stream = l.stream]

BindInpaintFirstTime(s, l) ==
  IF \/ s.module \notin {0, l.function} \/ s.context \notin {0, l.context}
     \/ s.stream \notin {0, l.stream} \/ ~l.known
  THEN StayInpaintLocal(s)
  ELSE [s EXCEPT !.inpaint = l.function, !.module = l.function,
                 !.context = l.context, !.stream = l.stream]

ValidateBoundTarget(s, l) ==
  IF s.function = l.function /\ s.context = l.context /\ s.stream = l.stream THEN s
  ELSE FallBack(s, s.context = l.context)

ValidateBoundInpaint(s, l) ==
  IF s.inpaint = l.function /\ s.context = l.context /\ s.stream = l.stream THEN s
  ELSE FallBackInpaint(s, s.context = l.context)

FirstTime(s, l) == IF l.kind = "geometry" THEN s.function = 0 ELSE s.inpaint = 0

Associated(s, l) ==
  CASE l.kind = "geometry" /\ FirstTime(s, l)  -> BindTargetFirstTime(s, l)
    [] l.kind = "geometry" /\ ~FirstTime(s, l) -> ValidateBoundTarget(s, l)
    [] l.kind = "inpaint" /\ FirstTime(s, l)   -> BindInpaintFirstTime(s, l)
    [] l.kind = "inpaint" /\ ~FirstTime(s, l)  -> ValidateBoundInpaint(s, l)

Accepted(s, l) ==
  LET b == Associated(s, l)
  IN /\ (IF l.kind = "geometry" THEN b.function ELSE b.inpaint) = l.function
     /\ b.context = l.context /\ b.stream = l.stream

----------------------------------------------------------------------------
(* The probe, and what it allows.                                          *)

ResetProbe(s, l) ==
  [DisableInpaintHistory(IF s.active THEN DisableDeviceHistory(s, TRUE) ELSE s, TRUE)
     EXCEPT !.size = l.size, !.multiplier = effective, !.mask = {}, !.last = 0,
            !.cycles = 0, !.direction = 0]

Ascending(s)  == IF s.last = s.multiplier - 1 THEN 1 ELSE s.last + 1
Descending(s) == IF s.last = 1 THEN s.multiplier - 1 ELSE s.last - 1

\* 0 where the phase does not continue the sequence.
Direction(s, phase) ==
  CASE s.direction # 1 /\ phase = Descending(s) /\ ~(s.direction = 0 /\ phase = Ascending(s)) -> -1
    [] s.direction # -1 /\ phase = Ascending(s) -> 1
    [] OTHER -> 0

Sequential(s, phase) == s.multiplier = 2 \/ s.last = 0 \/ Direction(s, phase) # 0

ObservePhaseSequence(s, phase) ==
  LET direction == IF s.multiplier = 2 \/ s.last = 0 THEN s.direction ELSE Direction(s, phase)
      wrapped   == \/ s.multiplier = 2 /\ s.last # 0
                   \/ direction = 1 /\ s.last = s.multiplier - 1 /\ phase = 1
                   \/ direction = -1 /\ s.last = 1 /\ phase = s.multiplier - 1
  IN [s EXCEPT !.direction = direction, !.last = phase, !.mask = @ \cup {phase},
               !.cycles = IF wrapped /\ @ < 2 THEN @ + 1 ELSE @]

\* The arena is allocated once, as large as the driver and the mode allow.
Allocated(s, l) ==
  CASE s.arena # 0 -> s
    [] s.arena = 0 /\ l.memory = ArenaLimit /\ inpaintMode -> [s EXCEPT !.arena = ArenaLimit]
    [] s.arena = 0 /\ l.memory = HistoryLimit /\ inpaintMode ->
         [StayInpaintLocal(s) EXCEPT !.arena = HistoryLimit]
    [] s.arena = 0 /\ l.memory # 0 /\ ~inpaintMode -> [s EXCEPT !.arena = HistoryLimit]
    [] OTHER -> s

Activate(s, l) ==
  LET required == Required(s.size, s.multiplier)
      a        == Allocated(s, l)
  IN IF required > HistoryLimit THEN FallBack(s, TRUE)
     ELSE IF a.arena = 0 \/ ~l.uploaded THEN FallBack(a, TRUE)
     ELSE [a EXCEPT !.active = TRUE,
                    !.control = [enabled |-> TRUE, size |-> s.size, multiplier |-> s.multiplier]]

MayActivate(s) == ~s.active /\ s.mask = 1..(s.multiplier - 1) /\ s.cycles >= 2

\* Wrong: the history of the inpaint kernel is assumed to fit.
FitsAlways(s) == TRUE
Fits(s) == 2 * Required(s.size, s.multiplier) <= s.arena

PublishInpaintControl(s, l) ==
  CASE ~inpaintMode \/ s.inpaintLocal \/ s.inpaint = 0 \/ ~s.active -> s
    [] inpaintMode /\ ~s.inpaintLocal /\ s.inpaint # 0 /\ s.active ->
         IF ~Fits(s) \/ ~l.uploaded THEN FallBackInpaint(s, TRUE)
         ELSE [s EXCEPT !.initialized = TRUE, !.pending = TRUE,
                        !.inpaintControl = [enabled |-> TRUE, phase |-> l.phase, size |-> s.size,
                                            multiplier |-> s.multiplier]]

----------------------------------------------------------------------------
(* A launch.                                                               *)

Requested(l) == IF l.kind = "geometry" THEN mode \/ inpaintMode ELSE inpaintMode

Dispatched(l) ==
  dispatch.enabled =>
    l.function = (IF l.kind = "geometry" THEN dispatch.geometry ELSE dispatch.inpaint)

Considered(s, l) ==
  /\ Dispatched(l) /\ Requested(l)
  /\ ~(l.kind = "geometry" /\ s.local /\ ~inpaintMode)
  /\ ~(l.kind = "inpaint" /\ s.inpaintLocal)

\* justBound: this launch is the one that bound the inpaint kernel.
PrepareInpaint(s, l, justBound) ==
  CASE l.size # s.size -> FallBackInpaint(s, TRUE)
    [] l.size = s.size /\ s.pending -> [s EXCEPT !.pending = FALSE]
    [] l.size = s.size /\ ~s.pending ->
         IF ~justBound /\ s.active /\ s.initialized THEN FallBackInpaint(s, TRUE) ELSE s

NoFrameGeneration(s) ==
  IF s.active \/ s.initialized
  THEN DisableInpaintHistory(DisableDeviceHistory(s, TRUE), TRUE) ELSE s

ProbeGeometry(s, l) ==
  LET r == IF asked THEN ResetProbe(s, l) ELSE s
      p == IF r.size # l.size \/ r.multiplier # effective THEN ResetProbe(r, l) ELSE r
      o == ObservePhaseSequence(p, l.phase)
      a == IF MayActivate(o) THEN Activate(o, l) ELSE o
  IN CASE l.phase \notin 1..(effective - 1) -> FallBack(r, TRUE)
       [] l.phase \in 1..(effective - 1) /\ ~Sequential(p, l.phase) -> FallBack(p, TRUE)
       [] l.phase \in 1..(effective - 1) /\ Sequential(p, l.phase) ->
            IF a.pending /\ inpaintMode /\ a.initialized THEN FallBackInpaint(a, TRUE)
            ELSE PublishInpaintControl(a, l)

Prepared(s, l) ==
  LET b == Associated(s, l)
      k == [b EXCEPT !.api = l.api]
  IN CASE ~Considered(s, l) -> s
       [] Considered(s, l) /\ ~Accepted(s, l) -> b
       [] Considered(s, l) /\ Accepted(s, l) /\ b.api \notin {0, l.api} -> FallBack(b, TRUE)
       [] Considered(s, l) /\ Accepted(s, l) /\ b.api \in {0, l.api} ->
            IF ~l.readable
            THEN IF l.kind = "geometry" THEN FallBack(k, TRUE) ELSE FallBackInpaint(k, TRUE)
            ELSE CASE l.kind = "inpaint" -> PrepareInpaint(k, l, FirstTime(s, l))
                   [] l.kind = "geometry" /\ effective = 0 -> NoFrameGeneration(k)
                   [] l.kind = "geometry" /\ effective # 0 -> ProbeGeometry(k, l)

SeesReset(s, l) ==
  /\ l.kind = "geometry" /\ effective # 0 /\ Considered(s, l) /\ Accepted(s, l)
  /\ l.readable /\ Associated(s, l).api \in {0, l.api}

\* The table is published when a kernel is bound, or will never be, or when
\* the arena could not hold both histories.
Publishes(s, l, t) ==
  /\ Considered(s, l)
  /\ (FirstTime(s, l) \/ (t.arena # s.arena /\ t.inpaintLocal /\ ~s.inpaintLocal))

\* The faults of a launch are tried one at a time.
Launches ==
  LET good == [kind : {"geometry", "inpaint"}, function : {1}, context : {1}, stream : {1},
               api : {1}, known : {TRUE}, readable : {TRUE}, size : Sizes,
               phase : UNION {0..(m - 1) : m \in Multipliers},
               memory : {ArenaLimit}, uploaded : {TRUE}]
      faulty(l) == {[l EXCEPT !.function = f] : f \in Functions}
                   \cup {[l EXCEPT !.context = 2], [l EXCEPT !.stream = 0], [l EXCEPT !.api = 2],
                         [l EXCEPT !.known = FALSE], [l EXCEPT !.readable = FALSE],
                         [l EXCEPT !.memory = HistoryLimit], [l EXCEPT !.memory = 0],
                         [l EXCEPT !.uploaded = FALSE]}
      usual == {l \in good : l.kind = "inpaint" => l.phase = 1}
  IN usual \cup UNION {faulty(l) : l \in {g \in usual : g.phase = 1}}

\* PrepareLaunch and the launch it is made for.
PrepareLaunch(l) ==
  /\ installed = "hooked"
  /\ LET t == Prepared(state, l)
     IN /\ state' = t
        /\ dispatch' = IF Publishes(state, l, t) THEN PublishDispatch(t) ELSE dispatch
  /\ asked' = (asked /\ ~SeesReset(state, l))
  /\ UNCHANGED <<mode, inpaintMode, installed, effective>>

----------------------------------------------------------------------------

TryInstall ==
  /\ installed = "no" /\ (mode \/ inpaintMode)
  /\ installed' \in {"failed", "hooked"}
  /\ UNCHANGED <<mode, inpaintMode, state, dispatch, effective, asked>>

Uninstall ==
  /\ installed = "hooked"
  /\ installed' = "gone" /\ dispatch' = Off
  /\ UNCHANGED <<mode, inpaintMode, state, effective, asked>>

RequestHistoryReset ==
  /\ ~asked /\ asked' = TRUE
  /\ UNCHANGED <<mode, inpaintMode, installed, state, dispatch, effective>>

\* The multiplier in effect is the business of framecount.hpp.
EffectiveMultiplier ==
  /\ effective' \in ({0} \cup Multipliers) \ {effective}
  /\ UNCHANGED <<mode, inpaintMode, installed, state, dispatch, asked>>

Next ==
  \/ \E l \in Launches : PrepareLaunch(l)
  \/ TryInstall \/ Uninstall \/ RequestHistoryReset \/ EffectiveMultiplier

Spec == Init /\ [][Next]_vars

----------------------------------------------------------------------------
(* What the device is told it may use lies in the arena that was given.    *)
HistoryInArena ==
  /\ state.control.enabled =>
       Required(state.control.size, state.control.multiplier) <= state.arena
  /\ state.inpaintControl.enabled =>
       2 * Required(state.inpaintControl.size, state.inpaintControl.multiplier) <= state.arena
=============================================================================
