------------------------------- MODULE XeMfgWaits -------------------------------
(***************************************************************************)
(* How the game's latency waits and markers become XeLL's                  *)
(* (native_latency.cpp, native_streamline.cpp, latency_marker_policy.hpp,  *)
(* frame_store.hpp).                                                       *)
(*                                                                         *)
(* XeLL wants, for each source frame, one wait and then its markers, and   *)
(* in its strict mode the waits of consecutive frames.  A game may wait    *)
(* for a frame that has been simulated, wait twice, or not at all, from a  *)
(* thread of its own; a lock is held for each look at the frames but never *)
(* over a wait.  A call is therefore in as many steps as it takes the lock.*)
(*                                                                         *)
(* The frame generation is requested, the native one is off, and XeLL is   *)
(* the one that waits; the markers of the rendering go as those of the     *)
(* simulation and are left out, and so is the note that a frame's marker   *)
(* or wait was refused, which keeps the frame from being admitted.         *)
(***************************************************************************)
EXTENDS Naturals, FiniteSets

CONSTANTS
  MaxId,     \* frames 1..MaxId; 0 is none
  Capacity,  \* of the store of frames, 16 in the code
  Retained,  \* frames kept behind the presented one, 2 in the code
  Boundary,  \* simulations without a wait before the bridge waits, 8 in the code
  MaxCalls   \* bounds the game's waits and markers

Ids        == 1..MaxId
Markers    == {"simStart", "simEnd", "presentStart"}
Simulation == {"simStart", "simEnd"}
Nothing    == "none"
Threads    == {"input", "main"}  \* the one waits, the other sends the markers

VARIABLES
  frame,       \* Output::frames
  waiting,     \* sleepActive
  lastWait,    \* lastXellSleep
  unslept,     \* unsleptSimulationStarts
  last, presenting,
  closed,      \* retired
  call,        \* what a thread is doing
  xell,        \* the SDK's: the last wait it took, and whether it failed once
  calls        \* of the game so far

vars == <<frame, waiting, lastWait, unslept, last, presenting, closed, call, xell, calls>>

Idle  == [at |-> "idle", id |-> 0, marker |-> Nothing]
Fresh == [slept |-> FALSE, inFlight |-> FALSE, observed |-> {}, markers |-> {}, target |-> 0]
Frame == [slept : BOOLEAN, inFlight : BOOLEAN,
          observed : SUBSET Markers, markers : SUBSET Markers, target : 0..MaxId]

TypeOK ==
  /\ DOMAIN frame \subseteq Ids /\ \A i \in DOMAIN frame : frame[i] \in Frame
  /\ Cardinality(DOMAIN frame) <= Capacity
  /\ waiting \in BOOLEAN /\ lastWait \in 0..MaxId /\ unslept \in 0..Boundary
  /\ last \in 0..MaxId /\ presenting \in 0..MaxId /\ closed \in BOOLEAN
  /\ call \in [Threads -> [at : {"idle", "resolved", "waiting", "forward"},
                           id : 0..MaxId, marker : Markers \cup {Nothing}]]
  /\ xell \in [last : 0..MaxId, failed : BOOLEAN] /\ calls \in 0..MaxCalls

Init ==
  /\ frame = <<>> /\ waiting = FALSE /\ lastWait = 0 /\ unslept = 0
  /\ last = 0 /\ presenting = 0 /\ closed = FALSE
  /\ call = [t \in Threads |-> Idle] /\ xell = [last |-> 0, failed |-> FALSE]
  /\ calls = 0

----------------------------------------------------------------------------
(* The store never evicts a frame to admit another.                        *)

\* Wrong: room is taken for granted.
AlwaysRoom(id) == TRUE
MayAcquire(id) == id \in DOMAIN frame \/ Cardinality(DOMAIN frame) < Capacity
Acquire(id)    == IF id \in DOMAIN frame THEN frame[id] ELSE Fresh
Put(id, f)     == [i \in DOMAIN frame \cup {id} |-> IF i = id THEN f ELSE frame[i]]

Return(t)      == call' = [call EXCEPT ![t] = Idle]
Go(t, where)   == call' = [call EXCEPT ![t] = where]

(* A wait after the simulation of a frame is the one before the next.      *)
SourceSleepFrame(source, observed) ==
  CASE Simulation \subseteq observed -> source + 1
    [] observed \cap Simulation = {} -> source
    [] OTHER -> 0

Called == calls < MaxCalls /\ calls' = calls + 1

NotStarted(id) ==
  id \notin DOMAIN frame
  \/ (frame[id].observed = {} /\ ~frame[id].slept /\ ~frame[id].inFlight)

\* SleepHook: a wait for a source is resolved once, whatever comes of it.
AssociateSourceSleep(source) ==
  /\ call["input"] = Idle /\ Called /\ ~closed /\ MayAcquire(source)
  /\ LET f        == Acquire(source)
         selected == IF f.target # 0 THEN f.target ELSE SourceSleepFrame(source, f.observed)
         refused  == selected = 0 \/ (f.target = 0 /\ selected # source /\ ~NotStarted(selected))
     IN /\ selected <= MaxId
        /\ frame' = Put(source, IF refused THEN f ELSE [f EXCEPT !.target = selected])
        /\ IF refused THEN UNCHANGED call
           ELSE Go("input", [at |-> "resolved", id |-> selected, marker |-> Nothing])
  /\ UNCHANGED <<waiting, lastWait, unslept, last, presenting, closed, xell>>

After(t) == IF call[t].marker = Nothing THEN Idle ELSE [call[t] EXCEPT !.at = "forward"]

Newer(id) == id > lastWait

MayWait(id) ==
  /\ ~closed /\ MayAcquire(id) /\ Newer(id) /\ ~waiting
  /\ ~Acquire(id).slept /\ ~Acquire(id).inFlight

\* SleepSourceFrame until the lock is given back; the mode may be refused.
BeginWait(t) ==
  /\ call[t].at = "resolved"
  /\ LET id == call[t].id
     IN \/ /\ MayWait(id)
           /\ frame' = Put(id, [Acquire(id) EXCEPT !.inFlight = TRUE])
           /\ waiting' = TRUE /\ lastWait' = id
           /\ call' = [call EXCEPT ![t].at = "waiting"]
        \/ /\ frame' = IF ~closed /\ MayAcquire(id) THEN Put(id, Acquire(id)) ELSE frame
           /\ Go(t, After(t)) /\ UNCHANGED <<waiting, lastWait>>
  /\ UNCHANGED <<unslept, last, presenting, closed, xell, calls>>

(* Wrong: the frames the game skipped are left out.                        *)
NoWalk(id) == {}

\* The frames the game skipped are waited for without pacing.
WalkSkippedSleeps(id) == IF xell.last = 0 THEN {} ELSE (xell.last + 1)..(id - 1)

Expected(id) == xell.last = 0 \/ xell.last + Cardinality(WalkSkippedSleeps(id)) + 1 = id

\* XeLL took the wait, or it failed; the output may be gone by then.
EndWait(t) ==
  /\ call[t].at = "waiting" /\ waiting' = FALSE
  /\ \E took \in (IF Expected(call[t].id) /\ ~xell.failed THEN {TRUE} ELSE {}) \cup {FALSE} :
       LET id == call[t].id
       IN /\ xell' = IF took THEN [xell EXCEPT !.last = id] ELSE [xell EXCEPT !.failed = TRUE]
          /\ frame' = IF closed \/ id \notin DOMAIN frame THEN frame
                      ELSE [frame EXCEPT ![id].inFlight = FALSE, ![id].slept = took]
  /\ Go(t, After(t))
  /\ UNCHANGED <<lastWait, unslept, last, presenting, closed, calls>>

----------------------------------------------------------------------------
(* Markers.  A simulation that starts without a wait, time and again, is   *)
(* where the bridge waits itself.                                          *)

Counted(id, m) == m = "simStart" /\ m \notin Acquire(id).observed /\ ~Acquire(id).slept

BoundarySleep(id, m) ==
  /\ Counted(id, m) /\ unslept + 1 >= Boundary
  /\ Acquire(id).observed = {} /\ ~waiting /\ ~Acquire(id).inFlight

CaptureMarker(id, m) ==
  /\ call["main"] = Idle /\ Called
  /\ presenting' = IF m = "presentStart" THEN id ELSE presenting
  /\ IF closed \/ ~MayAcquire(id) THEN UNCHANGED <<frame, unslept>>
     ELSE /\ frame' = Put(id, [Acquire(id) EXCEPT !.observed = @ \cup {m}])
          /\ unslept' = IF Counted(id, m) /\ unslept < Boundary THEN unslept + 1 ELSE unslept
  /\ Go("main", [at |-> IF ~closed /\ MayAcquire(id) /\ BoundarySleep(id, m)
                        THEN "resolved" ELSE "forward", id |-> id, marker |-> m])
  /\ UNCHANGED <<waiting, lastWait, last, closed, xell>>

Classify(f, m) ==
  /\ f.slept /\ ~f.inFlight
  /\ m = "simEnd" => "simStart" \in f.markers

ForwardSourceMarker ==
  /\ call["main"].at = "forward"
  /\ LET id == call["main"].id
         m  == call["main"].marker
         f  == Acquire(id)
     IN IF closed \/ ~MayAcquire(id) THEN UNCHANGED frame
        ELSE \E taken \in SUBSET {m} :
               /\ taken # {} => Classify(f, m)
               /\ frame' = Put(id, [f EXCEPT !.markers = @ \cup taken])
  /\ Return("main")
  /\ UNCHANGED <<waiting, lastWait, unslept, last, presenting, closed, xell, calls>>

----------------------------------------------------------------------------
(* The presentation, and the end of the output.                            *)

Prune(presented) == [i \in {j \in DOMAIN frame : presented <= j + Retained} |-> frame[i]]

SourcePresent ==
  /\ ~closed /\ presenting # last /\ last' = presenting
  /\ frame' = Prune(presenting)
  /\ UNCHANGED <<waiting, lastWait, unslept, presenting, closed, call, xell, calls>>

RetirePresentation ==
  /\ ~closed /\ closed' = TRUE
  /\ UNCHANGED <<frame, waiting, lastWait, unslept, last, presenting, call, xell, calls>>

Next ==
  \/ \E id \in Ids : AssociateSourceSleep(id) \/ \E m \in Markers : CaptureMarker(id, m)
  \/ \E t \in Threads : BeginWait(t) \/ EndWait(t)
  \/ ForwardSourceMarker \/ SourcePresent \/ RetirePresentation

Spec == Init /\ [][Next]_vars

----------------------------------------------------------------------------
(* XeLL is asked by one thread at a time, and, until it fails, for the     *)
(* frame it expects, whatever the game skipped, repeated or sent late.     *)
(* What it has of a frame, it has after the frame's wait, an end after its *)
(* start; and a frame whose wait is on has given it nothing.               *)
WaitsThenMarkers ==
  /\ \A t, u \in Threads : call[t].at = "waiting" /\ call[u].at = "waiting" => t = u
  /\ \A t \in Threads : call[t].at = "waiting" /\ ~xell.failed
                          => xell.last < call[t].id /\ Expected(call[t].id)
  /\ \A i \in DOMAIN frame :
       /\ frame[i].markers # {} => frame[i].slept /\ i <= xell.last
       /\ "simEnd" \in frame[i].markers => "simStart" \in frame[i].markers
       /\ frame[i].inFlight => frame[i].markers = {}
=============================================================================
