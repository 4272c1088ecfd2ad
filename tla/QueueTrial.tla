------------------------------ MODULE QueueTrial ------------------------------
(***************************************************************************)
(* The queue trial of the Latency Guard (latency_trial.hpp): it proposes a *)
(* small cap of the source rate, waits until the submission of Reflex      *)
(* options acknowledges it, measures, keeps it for at most thirty seconds  *)
(* if it won, and after that waits until the native limit is acknowledged. *)
(* Update is a function, as in the code.  Measurements and timers are      *)
(* inputs, as in MultiplierTrial.                                          *)
(***************************************************************************)
EXTENDS Integers

CONSTANTS
  Caps,     \* the caps that may be recommended, compared for equality only
  Stable,   \* windows that must agree before a cap is proposed, 4 in the code
  Windows   \* windows measured before it is judged, 3 in the code

ASSUME CapsAssumption == \A c \in Caps : c # 0 /\ c # 0 - 1 /\ c # 0 - 2
ASSUME StableAssumption == Stable \in Nat \ {0} /\ Windows \in Nat \ {0}

Unknown == 0 - 1  \* UINT32_MAX: contention, an old epoch, a refused submission

QueuePhases == {"idle", "waiting_for_application", "measuring", "accepted",
                "waiting_for_restoration"}

NoTrial == [phase |-> "idle", cap |-> 0, stable |-> 0, windows |-> 0, multiplier |-> 0,
            cooling |-> FALSE]   \* cooldown_until cannot have passed

(***************************************************************************)
(* What the guard tells it, besides what MultiplierTrial is told:          *)
(*   recommended   the cap the pressure on the queue calls for, or 0, also *)
(*                 before cooldown_until                                   *)
(*   steady        it is within one frame a second of the last one         *)
(*   acknowledged  Unknown, or the cap acknowledged last, 0 for none       *)
(*   late          the cap was proposed longer ago than its phase allows   *)
(*   sample        "old" with frames counted before, or "good"             *)
(*   verdict       "worse": the source rate moved or the latency grew, or  *)
(*                 after four seconds too little was gained; then "better" *)
(*                 or before that "open"                                   *)
(***************************************************************************)
Stop(q) ==
  [q EXCEPT !.cap = 0, !.stable = 0, !.windows = 0, !.phase = "waiting_for_restoration",
            !.cooling = TRUE]

Propose(q, in) ==
  LET agreeing == IF in.steady /\ q.stable > 0 THEN q.stable + 1 ELSE 1
  IN CASE q.cooling \/ in.recommended = 0 -> [q EXCEPT !.stable = 0]
       [] ~q.cooling /\ in.recommended # 0 /\ in.sample = "old" -> q
       [] OTHER -> IF agreeing < Stable THEN [q EXCEPT !.stable = agreeing]
                   ELSE [q EXCEPT !.stable = agreeing, !.cap = in.recommended,
                                  !.phase = "waiting_for_application"]

AwaitApplication(q, in) ==
  CASE in.acknowledged = q.cap -> [q EXCEPT !.phase = "measuring", !.windows = 0]
    [] in.acknowledged # q.cap /\ in.late -> Stop(q)
    [] OTHER -> q

Judge(q, in) ==
  LET measured == IF q.windows < Windows THEN q.windows + 1 ELSE q.windows
  IN [q EXCEPT !.windows = measured,
               !.phase = IF measured >= Windows /\ in.verdict = "better" THEN "accepted" ELSE @]

MeasureCap(q, in) ==
  CASE in.acknowledged # q.cap \/ in.late -> Stop(q)
    [] in.acknowledged = q.cap /\ ~in.late /\ in.sample = "old" -> q
    [] OTHER -> IF in.verdict = "worse" THEN Stop(q) ELSE Judge(q, in)

\* The native limit has to be confirmed before anything is proposed again.
AwaitRestoration(q, in) ==
  IF in.acknowledged # 0 THEN q ELSE Propose([q EXCEPT !.phase = "idle"], in)

UpdateQueue(q, in) ==
  LET s == IF in.behind \/ in.live # q.multiplier
           THEN [Stop(q) EXCEPT !.multiplier = in.live] ELSE q
  IN CASE ~in.safe /\ s.cap # 0 -> Stop(s)
       [] ~in.safe /\ s.cap = 0 -> [s EXCEPT !.stable = 0]
       [] in.safe /\ s.phase = "waiting_for_restoration" -> AwaitRestoration(s, in)
       [] in.safe /\ s.phase = "waiting_for_application" -> AwaitApplication(s, in)
       [] in.safe /\ s.phase \in {"measuring", "accepted"} -> MeasureCap(s, in)
       [] in.safe /\ s.phase = "idle" -> Propose(s, in)
=============================================================================
