-------------------------- MODULE LatencyGuard_proofs --------------------------
(***************************************************************************)
(* The invariants of the latency guard, for every set of caps and          *)
(* multipliers, every length of a window and whichever thread gives the    *)
(* Reflex options: what a trial keeps has won, two controllers never act   *)
(* together, an acknowledged cap is in force and a withdrawn one is not    *)
(* left there.                                                             *)
(***************************************************************************)
EXTENDS LatencyGuard, TLAPS

(* The multiplier trial.                                                   *)

TrialRecord ==
  [phase : Phases, configured : Configured, approved : Configured \cup Tried,
   candidate : {0} \cup Tried, override : {0} \cup Tried, window : Seq(Nat),
   baseline : SUBSET Nat, accepted : BOOLEAN, attempted : BOOLEAN,
   won : SUBSET ((SUBSET Nat) \X (SUBSET Nat))]

TrialInputs ==
  [behind : BOOLEAN, configured : Configured, live : 0..6, safe : BOOLEAN, trigger : BOOLEAN,
   other : BOOLEAN, ready : BOOLEAN, sample : {"old", "broken", "good"}, late : BOOLEAN,
   better : BOOLEAN]

\* Every sample in a window was taken at one multiplier.
MeasuredAt(window, multiplier) == \A i \in DOMAIN window : window[i] = multiplier

\* Every step down to what is approved won its comparison.
Won(t) ==
  /\ t.configured \in 4..6 /\ t.approved \in 3..t.configured
  /\ \A m \in t.approved..(t.configured - 1) : <<{m}, {m + 1}>> \in t.won

Earned(t) ==
  /\ t.phase \notin {"idle", "cooldown"} => Won(t)
  /\ t.phase = "collecting_baseline" => t.approved = t.configured /\ MeasuredAt(t.window, t.approved)
  /\ t.phase \in {"waiting_for_candidate", "measuring_candidate"} =>
       t.approved # 3 /\ t.candidate = t.approved - 1 /\ t.baseline = {t.approved}
  /\ t.phase = "measuring_candidate" => MeasuredAt(t.window, t.candidate)
  /\ t.phase \in {"accepted", "waiting_for_original", "measuring_original"} =>
       t.approved # t.configured
  /\ t.phase = "measuring_original" => MeasuredAt(t.window, t.configured)
  /\ Len(t.window) < Window

Trials == {t \in TrialRecord : Earned(t)}

\* A window of samples of one multiplier stays one.
LEMMA OneSource ==
  ASSUME NEW w \in Seq(Nat), NEW m \in Nat, MeasuredAt(w, m)
  PROVE  /\ Append(w, m) \in Seq(Nat) /\ Len(Append(w, m)) = Len(w) + 1
         /\ MeasuredAt(Append(w, m), m)
         /\ Len(w) > 0 => Measured(w) = {m}
  BY DEF MeasuredAt, Measured

LEMMA Empty ==
  ASSUME NEW m PROVE <<>> \in Seq(Nat) /\ Len(<<>>) = 0 /\ MeasuredAt(<<>>, m)
  BY DEF MeasuredAt

LEMMA ResetType == ASSUME NEW c \in Configured PROVE Reset(c) \in Trials
  BY WindowAssumption, ConfiguredAssumption, Empty DEF Reset, Trials, TrialRecord, Earned, Phases

\* Falling back on what is approved.
LEMMA HoldType ==
  ASSUME NEW t \in TrialRecord, NEW cooldown \in BOOLEAN, Won(t)
  PROVE  HoldApproved(t, cooldown) \in Trials
  <1> DEFINE h == HoldApproved(t, cooldown)
  <1>1. CASE t.approved < t.configured
    <2>1. h = [t EXCEPT !.candidate = 0, !.window = <<>>, !.override = t.approved,
                        !.accepted = TRUE, !.phase = "accepted"]
      BY <1>1 DEF HoldApproved, TrialRecord
    <2> HIDE DEF h
    <2>2. t.approved \in Tried
      BY DEF Won, Tried
    <2>3. h \in TrialRecord
      BY <2>1, <2>2, Empty DEF TrialRecord, Phases
    <2>4. Won(h) /\ h.phase = "accepted" /\ h.window = <<>> /\ h.approved # h.configured
      BY <1>1, <2>1 DEF Won, TrialRecord
    <2>5. QED
      BY <2>3, <2>4, WindowAssumption, Empty DEF Trials, Earned, h
  <1>2. CASE ~(t.approved < t.configured)
    <2>1. PICK ph \in {"idle", "cooldown"} : ph = IF cooldown THEN "cooldown" ELSE "idle"
      OBVIOUS
    <2>2. h = [t EXCEPT !.candidate = 0, !.window = <<>>, !.baseline = {}, !.override = 0,
                        !.accepted = FALSE, !.phase = ph]
      <3>1. (t.approved < t.configured) = FALSE
        BY <1>2
      <3>2. QED
        BY <2>1, <3>1 DEF HoldApproved
    <2> HIDE DEF h
    <2>3. h \in TrialRecord /\ h.phase = ph /\ h.window = <<>>
      BY <2>2, Empty DEF TrialRecord, Phases
    <2>4. QED
      BY <2>3, WindowAssumption, Empty DEF Trials, Earned, h
  <1>3. QED
    BY <1>1, <1>2

\* Trying the next lower multiplier, or keeping the lowest.
LEMMA NextType ==
  ASSUME NEW t \in TrialRecord, Won(t), t.baseline = {t.approved}
  PROVE  StartNextCandidate(t) \in Trials
  <1> DEFINE s == StartNextCandidate(t)
  <1>1. CASE t.approved = 3
    <2>1. s = [t EXCEPT !.candidate = 0, !.window = <<>>, !.phase = "accepted"]
      BY <1>1 DEF StartNextCandidate
    <2> HIDE DEF s
    <2>2. s \in TrialRecord
      BY <2>1, Empty DEF TrialRecord, Phases
    <2>3. Won(s) /\ s.phase = "accepted" /\ s.window = <<>> /\ s.approved # s.configured
      BY <1>1, <2>1 DEF Won, TrialRecord
    <2>4. QED
      BY <2>2, <2>3, WindowAssumption, Empty DEF Trials, Earned, s
  <1>2. CASE t.approved # 3
    <2>1. s = [t EXCEPT !.candidate = t.approved - 1, !.override = t.approved - 1,
                        !.window = <<>>, !.phase = "waiting_for_candidate", !.attempted = TRUE]
      BY <1>2 DEF StartNextCandidate
    <2> HIDE DEF s
    <2>2. t.approved - 1 \in Tried
      BY <1>2 DEF Won, Tried
    <2>3. s \in TrialRecord
      BY <2>1, <2>2, Empty DEF TrialRecord, Phases
    <2>4. Won(s) /\ s.phase = "waiting_for_candidate" /\ s.window = <<>>
          /\ s.approved # 3 /\ s.candidate = s.approved - 1 /\ s.baseline = {s.approved}
      BY <1>2, <2>1 DEF Won, TrialRecord
    <2>5. QED
      BY <2>3, <2>4, WindowAssumption, Empty DEF Trials, Earned, s
  <1>3. QED
    BY <1>1, <1>2

LEMMA Fields ==
  ASSUME NEW t \in Trials
  PROVE  /\ t \in TrialRecord /\ Earned(t) /\ t.window \in Seq(Nat) /\ Len(t.window) \in Nat
         /\ Len(t.window) < Window /\ Window \in Nat \ {0}
  <1>1. t \in TrialRecord /\ Earned(t) /\ t.window \in Seq(Nat)
    BY DEF Trials, TrialRecord
  <1>2. QED
    BY <1>1, WindowAssumption DEF Earned

LEMMA BaselineType ==
  ASSUME NEW t \in Trials, Won(t), t.approved = t.configured
  PROVE  /\ StartBaseline(t) \in Trials /\ StartBaseline(t).phase = "collecting_baseline"
         /\ StartBaseline(t).approved = t.approved
  <1> DEFINE s == StartBaseline(t)
  <1>1. s \in TrialRecord /\ s.phase = "collecting_baseline" /\ s.window = <<>>
        /\ s.approved = t.approved /\ s.configured = t.configured /\ s.won = t.won
    BY Empty, Fields DEF StartBaseline, TrialRecord, Phases
  <1> HIDE DEF s
  <1>2. Won(s)
    BY <1>1 DEF Won
  <1>3. s \in Trials
    BY <1>1, <1>2, WindowAssumption, Empty DEF Trials, Earned
  <1>4. QED
    BY <1>1, <1>3 DEF s

LEMMA CollectType ==
  ASSUME NEW t \in Trials, NEW in \in TrialInputs, t.phase = "collecting_baseline"
  PROVE  CollectBaseline(t, in) \in Trials
  <1>1. Won(t) /\ t.approved = t.configured
    BY Fields DEF Earned
  <1>2. in.live \in Nat /\ in.ready \in BOOLEAN /\ in.sample \in {"old", "broken", "good"}
    BY DEF TrialInputs
  <1>3. CASE ~in.trigger \/ in.live # t.approved
    BY <1>1, <1>3, Fields, HoldType DEF CollectBaseline
  <1>4. CASE in.trigger /\ in.live = t.approved
    <2>1. PICK s \in {t, StartBaseline(t)} : s = IF in.other THEN StartBaseline(t) ELSE t
      OBVIOUS
    <2>2. s \in Trials /\ s.phase = "collecting_baseline" /\ s.approved = t.approved
      BY <1>1, <2>1, BaselineType
    <2>3. Won(s) /\ s.approved = s.configured /\ MeasuredAt(s.window, s.approved)
      BY <2>2, Fields DEF Earned
    <2> DEFINE w == Append(s.window, in.live)
    <2>4. w \in Seq(Nat) /\ Len(w) = Len(s.window) + 1 /\ MeasuredAt(w, s.approved)
          /\ Measured(w) = {s.approved}
      <3>1. w \in Seq(Nat) /\ Len(w) = Len(s.window) + 1 /\ MeasuredAt(w, s.approved)
        BY <1>2, <1>4, <2>2, <2>3, OneSource, Fields
      <3>2. Len(w) > 0
        BY <2>2, <3>1, Fields
      <3>3. s.approved \in Nat
        BY <2>3 DEF Won
      <3> HIDE DEF w
      <3>4. QED
        BY <3>1, <3>2, <3>3, OneSource
    <2>5. CollectBaseline(t, in) =
            CASE ~in.ready -> [s EXCEPT !.window = <<>>]
              [] in.ready /\ in.sample = "old" -> s
              [] in.ready /\ in.sample = "broken" -> HoldApproved(s, FALSE)
              [] in.ready /\ in.sample = "good" ->
                 IF Len(w) < Window THEN [s EXCEPT !.window = w]
                 ELSE StartNextCandidate([s EXCEPT !.baseline = Measured(w)])
      BY <1>4, <2>1 DEF CollectBaseline
    <2> HIDE DEF w
    <2>6. [s EXCEPT !.window = <<>>] \in Trials
      <3> DEFINE r == [s EXCEPT !.window = <<>>]
      <3>1. r \in TrialRecord /\ r.window = <<>> /\ r.phase = "collecting_baseline"
            /\ r.approved = r.configured /\ Won(r)
        BY <2>2, <2>3, Empty, Fields DEF TrialRecord, Won
      <3> HIDE DEF r
      <3>2. r \in Trials
        BY <3>1, WindowAssumption, Empty DEF Trials, Earned
      <3>3. QED
        BY <3>2 DEF r
    <2>7. ASSUME Len(w) < Window PROVE [s EXCEPT !.window = w] \in Trials
      <3> DEFINE r == [s EXCEPT !.window = w]
      <3>1. r \in TrialRecord /\ r.window = w /\ r.phase = "collecting_baseline"
            /\ r.approved = s.approved /\ r.approved = r.configured /\ Won(r)
        BY <2>2, <2>3, <2>4, Fields DEF TrialRecord, Won
      <3> HIDE DEF r
      <3>2. r \in Trials
        BY <2>4, <2>7, <3>1 DEF Trials, Earned
      <3>3. QED
        BY <3>2 DEF r
    <2>8. StartNextCandidate([s EXCEPT !.baseline = Measured(w)]) \in Trials
      <3> DEFINE r == [s EXCEPT !.baseline = {s.approved}]
      <3>1. {s.approved} \in SUBSET Nat
        BY <2>3 DEF Won
      <3>2. r \in TrialRecord /\ r.baseline = {s.approved} /\ r.approved = s.approved
            /\ r.configured = s.configured /\ r.won = s.won
        BY <2>2, <3>1, Fields DEF TrialRecord
      <3>3. Won(r)
        BY <2>3, <3>2 DEF Won
      <3>4. QED
        BY <2>4, <3>2, <3>3, NextType
    <2>9. HoldApproved(s, FALSE) \in Trials
      BY <2>2, <2>3, Fields, HoldType
    <2>10. QED
      BY <1>2, <2>2, <2>5, <2>6, <2>7, <2>8, <2>9
  <1>5. QED
    BY <1>3, <1>4

LEMMA BeginType ==
  ASSUME NEW t \in Trials, NEW in \in TrialInputs, t.configured \in 4..6
  PROVE  Begin(t, in) \in Trials
  <1> DEFINE s == [t EXCEPT !.approved = t.configured, !.won = {}]
             b == StartBaseline(s)
             calm == [in EXCEPT !.other = FALSE]
  <1>1. s \in TrialRecord /\ s.approved = t.configured /\ s.configured = t.configured
    BY Fields DEF TrialRecord
  <1>2. Won(s)
    BY <1>1 DEF Won
  <1>3. b \in TrialRecord /\ b.phase = "collecting_baseline" /\ b.window = <<>>
        /\ b.approved = b.configured /\ Won(b)
    BY <1>1, <1>2, Empty DEF StartBaseline, TrialRecord, Phases, Won
  <1>4. calm \in TrialInputs
    BY DEF TrialInputs
  <1>5. Begin(t, in) \in {t, CollectBaseline(b, calm)}
    BY DEF Begin
  <1> HIDE DEF b, calm
  <1>6. b \in Trials
    BY <1>3, WindowAssumption, Empty DEF Trials, Earned
  <1>7. QED
    BY <1>3, <1>4, <1>5, <1>6, CollectType

LEMMA CoolDownType ==
  ASSUME NEW t \in Trials, NEW in \in TrialInputs, t.configured \in 4..6
  PROVE  CoolDown(t, in) \in Trials
  <1> DEFINE s == [t EXCEPT !.phase = "idle", !.attempted = FALSE]
  <1>1. s \in TrialRecord /\ s.phase = "idle" /\ s.window = t.window /\ s.configured \in 4..6
    BY Fields DEF TrialRecord, Phases
  <1>2. CoolDown(t, in) \in {t, Begin(s, in)}
    BY DEF CoolDown
  <1> HIDE DEF s
  <1>3. s \in Trials
    BY <1>1, Fields DEF Trials, Earned
  <1>4. QED
    BY <1>1, <1>2, <1>3, BeginType

LEMMA AwaitType ==
  ASSUME NEW t \in Trials, NEW in, NEW multiplier, NEW next, NEW cooldown \in BOOLEAN,
         \/ t.phase = "waiting_for_candidate" /\ next = "measuring_candidate"
         \/ t.phase = "waiting_for_original" /\ next = "measuring_original"
  PROVE  Await(t, in, multiplier, next, cooldown) \in Trials
  <1>1. Won(t)
    BY Fields DEF Earned
  <1> DEFINE s == [t EXCEPT !.phase = next, !.window = <<>>]
  <1>2. s \in TrialRecord /\ s.phase = next /\ s.window = <<>> /\ Won(s) /\ s.baseline = t.baseline
        /\ s.approved = t.approved /\ s.configured = t.configured /\ s.candidate = t.candidate
    BY <1>1, Empty, Fields DEF TrialRecord, Phases, Won
  <1>3. Await(t, in, multiplier, next, cooldown) \in {s, HoldApproved(t, cooldown), t}
    BY DEF Await
  <1> HIDE DEF s
  <1>4. s \in Trials
    BY <1>2, WindowAssumption, Empty, Fields DEF Trials, Earned
  <1>5. QED
    BY <1>1, <1>3, <1>4, Fields, HoldType

\* A measured sample ends the trial, waits again, or fills the window.
LEMMA SampleType ==
  ASSUME NEW t \in Trials, NEW in \in TrialInputs, NEW multiplier \in Nat, NEW previous, NEW cooldown \in BOOLEAN,
         MeasuredAt(t.window, multiplier),
         \/ t.phase = "measuring_candidate" /\ previous = "waiting_for_candidate"
         \/ t.phase = "measuring_original" /\ previous = "waiting_for_original",
         NEW s, s = Measure(t, in, multiplier, previous, cooldown)
  PROVE  \/ s \in Trials /\ ~Full(s)
         \/ /\ s = [t EXCEPT !.window = Append(@, multiplier)]
            /\ s \in TrialRecord /\ MeasuredAt(s.window, multiplier) /\ Len(s.window) <= Window
            /\ Full(s) => Measured(s.window) = {multiplier}
  <1>1. Won(t)
    BY Fields DEF Earned
  <1>2. in.ready \in BOOLEAN /\ in.sample \in {"old", "broken", "good"}
    BY DEF TrialInputs
  <1>3. ASSUME NEW r \in Trials PROVE ~Full(r)
    BY Fields DEF Full
  <1>4. CASE ~in.ready
    <2>1. s = [t EXCEPT !.window = <<>>, !.phase = previous]
      BY <1>2, <1>4 DEF Measure
    <2>2. s \in TrialRecord /\ s.phase = previous /\ s.window = <<>> /\ s.baseline = t.baseline
          /\ s.approved = t.approved /\ s.configured = t.configured /\ s.candidate = t.candidate
          /\ s.won = t.won
      BY <2>1, Empty, Fields DEF TrialRecord, Phases
    <2>3. Won(s)
      BY <1>1, <2>2 DEF Won
    <2>4. s \in Trials
      BY <2>2, <2>3, WindowAssumption, Empty, Fields DEF Trials, Earned
    <2>5. QED
      BY <1>3, <2>4
  <1>5. CASE in.ready /\ (in.live # multiplier \/ in.sample = "broken")
    <2>1. s = HoldApproved(t, cooldown)
      BY <1>2, <1>5 DEF Measure
    <2>2. QED
      BY <1>1, <1>3, <2>1, Fields, HoldType
  <1>6. CASE in.ready /\ in.live = multiplier /\ in.sample = "old"
    BY <1>2, <1>3, <1>6 DEF Measure
  <1>7. CASE in.ready /\ in.live = multiplier /\ in.sample = "good"
    <2> DEFINE w == Append(t.window, multiplier)
    <2>1. s = [t EXCEPT !.window = w]
      BY <1>2, <1>7 DEF Measure
    <2>2. w \in Seq(Nat) /\ Len(w) = Len(t.window) + 1 /\ MeasuredAt(w, multiplier)
      BY OneSource, Fields
    <2>3. Len(w) > 0 /\ Len(w) <= Window
      BY <2>2, Fields
    <2> HIDE DEF w
    <2>4. Measured(w) = {multiplier}
      BY <2>2, <2>3, OneSource
    <2>5. s \in TrialRecord /\ s.window = w
      BY <2>1, <2>2, Fields DEF TrialRecord
    <2>6. QED
      BY <2>1, <2>2, <2>3, <2>4, <2>5 DEF w
  <1>8. QED
    BY <1>2, <1>4, <1>5, <1>6, <1>7

\* The comparison at the end of a window at a lower multiplier.
LEMMA CompareType ==
  ASSUME NEW t \in TrialRecord, NEW in, Won(t), t.approved # 3, t.candidate = t.approved - 1,
         t.baseline = {t.approved}, Measured(t.window) = {t.candidate}
  PROVE  Compare(t, in) \in Trials
  <1> DEFINE s == [t EXCEPT !.approved = t.candidate, !.accepted = TRUE,
                            !.won = @ \cup {<<{t.candidate}, {t.approved}>>},
                            !.baseline = {t.candidate}]
  <1>1. t.candidate \in Tried /\ t.candidate \in Nat /\ t.approved \in Nat
    BY DEF Won, Tried
  <1>2. {t.candidate} \in SUBSET Nat /\ {t.approved} \in SUBSET Nat
    BY <1>1
  <1>3. s \in TrialRecord
    <2>1. PICK won \in SUBSET ((SUBSET Nat) \X (SUBSET Nat)) :
            won = t.won \cup {<<{t.candidate}, {t.approved}>>}
      <3>1. {<<{t.candidate}, {t.approved}>>} \in SUBSET ((SUBSET Nat) \X (SUBSET Nat))
        BY <1>2
      <3>2. t.won \in SUBSET ((SUBSET Nat) \X (SUBSET Nat))
        BY DEF TrialRecord
      <3>3. QED
        BY <3>1, <3>2, Zenon
    <2>2. PICK base \in SUBSET Nat : base = {t.candidate}
      BY <1>2
    <2>3. s = [t EXCEPT !.approved = t.candidate, !.accepted = TRUE, !.won = won, !.baseline = base]
      BY <2>1, <2>2
    <2>4. QED
      BY <1>1, <2>3 DEF TrialRecord
  <1>4. s.approved = t.candidate /\ s.configured = t.configured /\ s.baseline = {s.approved}
        /\ s.won = t.won \cup {<<{t.candidate}, {t.approved}>>}
    BY DEF TrialRecord
  <1>5. Compare(t, in) \in {HoldApproved(t, TRUE), StartNextCandidate(s)}
    BY DEF Compare
  <1> HIDE DEF s
  <1>6. Won(s)
    <2>1. s.configured \in 4..6 /\ s.approved \in 3..s.configured
      BY <1>4 DEF Won
    <2>2. ASSUME NEW m \in s.approved..(s.configured - 1) PROVE <<{m}, {m + 1}>> \in s.won
      <3>1. CASE m = t.candidate
        <4>1. m + 1 = t.approved
          BY <1>1, <3>1
        <4>2. QED
          BY <1>4, <3>1, <4>1
      <3>2. CASE m # t.candidate
        <4>1. m \in t.approved..(t.configured - 1)
          BY <1>1, <1>4, <2>1, <2>2, <3>2
        <4>2. QED
          BY <1>4, <4>1 DEF Won
      <3>3. QED
        BY <3>1, <3>2
    <2>3. QED
      BY <2>1, <2>2 DEF Won
  <1>7. QED
    BY <1>3, <1>4, <1>5, <1>6, HoldType, NextType

LEMMA RecheckType ==
  ASSUME NEW t \in Trials, NEW in, t.phase = "accepted"
  PROVE  Recheck(t, in) \in Trials
  <1>1. Won(t) /\ t.approved # t.configured
    BY Fields DEF Earned
  <1>2. t.approved \in Tried /\ t.configured \in Tried
    BY <1>1 DEF Won, Tried
  <1>3. PICK o \in {0, t.approved} : o = IF t.approved < t.configured THEN t.approved ELSE 0
    OBVIOUS
  <1> DEFINE s == [t EXCEPT !.override = o]
             u == [t EXCEPT !.override = 0, !.candidate = t.configured,
                            !.window = <<>>, !.phase = "waiting_for_original"]
  <1>4. Recheck(t, in) \in {s, u}
    BY <1>3, Fields DEF Recheck, TrialRecord
  <1>5. s \in TrialRecord /\ s.phase = "accepted" /\ s.window = t.window
        /\ s.approved = t.approved /\ s.configured = t.configured /\ s.won = t.won
    BY <1>2, <1>3, Fields DEF TrialRecord
  <1>6. u \in TrialRecord /\ u.phase = "waiting_for_original" /\ u.window = <<>>
        /\ u.approved = t.approved /\ u.configured = t.configured /\ u.won = t.won
    BY <1>2, Fields, Empty DEF TrialRecord, Phases
  <1> HIDE DEF s, u
  <1>7. Won(s) /\ Won(u)
    BY <1>1, <1>5, <1>6 DEF Won
  <1>8. s \in Trials /\ u \in Trials
    BY <1>1, <1>5, <1>6, <1>7, Fields, Empty DEF Trials, Earned
  <1>9. QED
    BY <1>4, <1>8

\* The end of a window at the original multiplier.
LEMMA ReturnType ==
  ASSUME NEW t \in TrialRecord, NEW in, Won(t), Measured(t.window) = {t.configured}
  PROVE  ReturnToOriginal(t, in) \in Trials
  <1> DEFINE s == [t EXCEPT !.approved = t.configured, !.accepted = FALSE, !.override = 0,
                            !.baseline = {t.configured}, !.won = {}]
             u == [s EXCEPT !.phase = "idle", !.candidate = 0, !.window = <<>>,
                            !.baseline = {}, !.attempted = FALSE]
  <1>1. {t.configured} \in SUBSET Nat
    BY DEF Won
  <1>2. s \in TrialRecord /\ s.approved = t.configured /\ s.configured = t.configured
        /\ s.baseline = {s.approved}
    BY <1>1 DEF TrialRecord
  <1>3. u \in TrialRecord /\ u.phase = "idle" /\ u.window = <<>>
    BY <1>2, Empty DEF TrialRecord, Phases
  <1>4. ReturnToOriginal(t, in) \in {StartNextCandidate(s), u}
    BY DEF ReturnToOriginal
  <1> HIDE DEF s, u
  <1>5. Won(s)
    BY <1>2 DEF Won
  <1>6. u \in Trials
    BY <1>3, WindowAssumption, Empty DEF Trials, Earned
  <1>7. QED
    BY <1>2, <1>4, <1>5, <1>6, NextType

(* Whatever the guard observes, what a trial keeps has won every step.     *)
LEMMA TrialUpdated ==
  ASSUME NEW t \in Trials, NEW in \in TrialInputs
  PROVE  /\ Update(t, in) \in Trials
         /\ ~in.safe => Override(Update(t, in)) = 0
  <1> DEFINE n == IF in.behind \/ in.configured # t.configured THEN Reset(in.configured) ELSE t
  <1>1. n \in Trials
    BY ResetType DEF TrialInputs
  <1>2. PICK s \in Trials : s = n
    BY <1>1
  <1>3. Update(t, in) = IF in.safe /\ s.configured \in 4..6 THEN Safely(s, in)
                        ELSE IF s.override # 0 \/ s.phase # "idle" THEN Reset(in.configured) ELSE s
    BY <1>2 DEF Update
  <1> HIDE DEF n
  <1>4. Reset(in.configured) \in Trials /\ Override(Reset(in.configured)) = 0
    BY ResetType DEF TrialInputs, Override, Reset
  <1>5. s.phase = "idle" => Override(s) = 0
    BY DEF Override
  <1>6. ASSUME s.configured \in 4..6 PROVE Safely(s, in) \in Trials
    <2>1. s.phase \in Phases
      BY Fields DEF TrialRecord
    <2>2. CASE s.phase \in {"cooldown", "idle", "collecting_baseline", "waiting_for_candidate",
                            "accepted", "waiting_for_original"}
      BY <1>6, <2>2, CoolDownType, BeginType, CollectType, AwaitType, RecheckType DEF Safely
    <2>3. CASE s.phase = "measuring_candidate"
      <3>1. Won(s) /\ s.approved # 3 /\ s.candidate = s.approved - 1 /\ s.baseline = {s.approved}
            /\ MeasuredAt(s.window, s.candidate)
        BY <2>3, Fields DEF Earned
      <3>2. s.candidate \in Nat
        BY <3>1 DEF Won
      <3>3. PICK u : u = Measure(s, in, s.candidate, "waiting_for_candidate", TRUE)
        OBVIOUS
      <3>4. Safely(s, in) = IF Full(u) THEN Compare(u, in) ELSE u
        BY <2>3, <3>3 DEF Safely
      <3>5. CASE u \in Trials /\ ~Full(u)
        BY <3>4, <3>5
      <3>6. CASE /\ u = [s EXCEPT !.window = Append(@, s.candidate)]
                 /\ u \in TrialRecord /\ MeasuredAt(u.window, s.candidate) /\ Len(u.window) <= Window
                 /\ Full(u) => Measured(u.window) = {s.candidate}
        <4>1. u.phase = "measuring_candidate" /\ u.approved = s.approved /\ u.candidate = s.candidate
              /\ u.baseline = s.baseline /\ u.configured = s.configured /\ u.won = s.won
          BY <2>3, <3>6, Fields DEF TrialRecord
        <4>2. Won(u)
          BY <3>1, <4>1 DEF Won
        <4>3. CASE Full(u)
          BY <3>1, <3>4, <3>6, <4>1, <4>2, <4>3, CompareType
        <4>4. CASE ~Full(u)
          <5>1. Len(u.window) < Window
            BY <3>6, <4>4, WindowAssumption DEF Full, TrialRecord
          <5>2. u \in Trials
            BY <3>1, <3>6, <4>1, <4>2, <5>1 DEF Trials, Earned
          <5>3. QED
            BY <3>4, <4>4, <5>2
        <4>5. QED
          BY <4>3, <4>4
      <3>7. \/ u \in Trials /\ ~Full(u)
            \/ /\ u = [s EXCEPT !.window = Append(@, s.candidate)]
               /\ u \in TrialRecord /\ MeasuredAt(u.window, s.candidate) /\ Len(u.window) <= Window
               /\ Full(u) => Measured(u.window) = {s.candidate}
        <4>1. PICK multiplier \in Nat : multiplier = s.candidate
          BY <3>2
        <4>2. PICK cooldown \in BOOLEAN : cooldown = TRUE
          OBVIOUS
        <4>3. MeasuredAt(s.window, multiplier) /\ u = Measure(s, in, multiplier, "waiting_for_candidate", cooldown)
          BY <3>1, <3>3, <4>1, <4>2, Zenon
        <4>4. QED
          BY <2>3, <4>1, <4>3, SampleType
      <3>8. QED
        BY <3>5, <3>6, <3>7
    <2>4. CASE s.phase = "measuring_original"
      <3>1. Won(s) /\ s.approved # s.configured /\ MeasuredAt(s.window, s.configured)
        BY <2>4, Fields DEF Earned
      <3>2. s.configured \in Nat
        BY <3>1 DEF Won
      <3>3. PICK u : u = Measure(s, in, s.configured, "waiting_for_original", FALSE)
        OBVIOUS
      <3>4. Safely(s, in) = IF Full(u) THEN ReturnToOriginal(u, in) ELSE u
        BY <2>4, <3>3 DEF Safely
      <3>5. CASE u \in Trials /\ ~Full(u)
        BY <3>4, <3>5
      <3>6. CASE /\ u = [s EXCEPT !.window = Append(@, s.configured)]
                 /\ u \in TrialRecord /\ MeasuredAt(u.window, s.configured) /\ Len(u.window) <= Window
                 /\ Full(u) => Measured(u.window) = {s.configured}
        <4>1. u.phase = "measuring_original" /\ u.approved = s.approved
              /\ u.configured = s.configured /\ u.won = s.won
          BY <2>4, <3>6, Fields DEF TrialRecord
        <4>2. Won(u)
          BY <3>1, <4>1 DEF Won
        <4>3. CASE Full(u)
          BY <3>1, <3>4, <3>6, <4>1, <4>2, <4>3, ReturnType
        <4>4. CASE ~Full(u)
          <5>1. Len(u.window) < Window
            BY <3>6, <4>4, WindowAssumption DEF Full, TrialRecord
          <5>2. u \in Trials
            BY <3>1, <3>6, <4>1, <4>2, <5>1 DEF Trials, Earned
          <5>3. QED
            BY <3>4, <4>4, <5>2
        <4>5. QED
          BY <4>3, <4>4
      <3>7. \/ u \in Trials /\ ~Full(u)
            \/ /\ u = [s EXCEPT !.window = Append(@, s.configured)]
               /\ u \in TrialRecord /\ MeasuredAt(u.window, s.configured) /\ Len(u.window) <= Window
               /\ Full(u) => Measured(u.window) = {s.configured}
        <4>1. PICK multiplier \in Nat : multiplier = s.configured
          BY <3>2
        <4>2. PICK cooldown \in BOOLEAN : cooldown = FALSE
          OBVIOUS
        <4>3. MeasuredAt(s.window, multiplier) /\ u = Measure(s, in, multiplier, "waiting_for_original", cooldown)
          BY <3>1, <3>3, <4>1, <4>2, Zenon
        <4>4. QED
          BY <2>4, <4>1, <4>3, SampleType
      <3>8. QED
        BY <3>5, <3>6, <3>7
    <2>5. QED
      BY <2>1, <2>2, <2>3, <2>4 DEF Phases
  <1>7. QED
    BY <1>3, <1>4, <1>5, <1>6
----------------------------------------------------------------------------
(* The queue trial.                                                         *)

QueueRecord ==
  [phase : QueuePhases, cap : {0} \cup Caps, stable : 0..Stable, windows : 0..Windows,
   multiplier : 0..6, cooling : BOOLEAN]

\* A cap is proposed where the windows agree, and is none before that.
Proposing(q) == q.phase \in {"idle", "waiting_for_restoration"}

Queues == {q \in QueueRecord : /\ Proposing(q) => q.stable < Stable /\ q.cap = 0
                               /\ ~Proposing(q) => q.cap # 0}

QueueInputs ==
  [behind : BOOLEAN, live : 0..6, safe : BOOLEAN, recommended : {0} \cup Caps, steady : BOOLEAN,
   acknowledged : {Unknown, 0} \cup Caps, late : BOOLEAN, sample : {"old", "good"},
   verdict : {"worse", "open", "better"}]

LEMMA StopType ==
  ASSUME NEW q \in Queues
  PROVE  Stop(q) \in Queues /\ Stop(q).cap = 0 /\ Stop(q).cooling
  <1> DEFINE s == Stop(q)
  <1>1. s = [q EXCEPT !.cap = 0, !.stable = 0, !.windows = 0, !.phase = "waiting_for_restoration",
                      !.cooling = TRUE]
    BY DEF Stop
  <1> HIDE DEF s
  <1>2. s \in QueueRecord /\ s.phase = "waiting_for_restoration" /\ s.cap = 0 /\ s.stable = 0 /\ s.cooling
    <2>1. q \in QueueRecord /\ 0 \in 0..Stable /\ 0 \in 0..Windows
      BY StableAssumption DEF Queues
    <2>2. QED
      BY <1>1, <2>1 DEF QueueRecord, QueuePhases
  <1>3. s \in Queues /\ s.cap = 0 /\ s.cooling
    BY <1>2, StableAssumption DEF Queues, Proposing
  <1>4. QED
    BY <1>3 DEF s

\* What becomes of the cap q in the next record r.
Succeeds(q, r) ==
  \/ r.cap = q.cap /\ (q.cooling => r.cooling)
  \/ r.cap = 0 /\ r.cooling
  \/ q.cap = 0 /\ ~q.cooling

LEMMA ProposeType ==
  ASSUME NEW q \in Queues, NEW in \in QueueInputs, q.phase = "idle"
  PROVE  Propose(q, in) \in Queues /\ Succeeds(q, Propose(q, in))
  <1> DEFINE agreeing == IF in.steady /\ q.stable > 0 THEN q.stable + 1 ELSE 1
             p == Propose(q, in)
  <1>1. q \in QueueRecord /\ q.cap = 0 /\ q.stable < Stable /\ q.cooling \in BOOLEAN
    BY DEF Queues, QueueRecord, Proposing
  <1>2. agreeing \in 0..Stable
    BY <1>1, StableAssumption DEF QueueRecord
  <1>3. PICK n \in 0..Stable : n = agreeing
    BY <1>2
  <1> HIDE DEF agreeing
  <1>4. CASE q.cooling \/ in.recommended = 0
    <2>1. p = [q EXCEPT !.stable = 0]
      BY <1>1, <1>4 DEF Propose
    <2>2. QED
      BY <1>1, <2>1, StableAssumption DEF Queues, QueueRecord, Proposing, Succeeds
  <1>5. CASE ~q.cooling /\ in.recommended # 0 /\ in.sample = "old"
    BY <1>1, <1>5 DEF Propose, Succeeds
  <1>6. CASE ~q.cooling /\ in.recommended # 0 /\ in.sample # "old"
    <2>1. p = IF n < Stable THEN [q EXCEPT !.stable = n]
              ELSE [q EXCEPT !.stable = n, !.cap = in.recommended, !.phase = "waiting_for_application"]
      BY <1>1, <1>3, <1>6 DEF Propose, agreeing
    <2>2. in.recommended \in Caps
      BY <1>6 DEF QueueInputs
    <2>3. p \in Queues
      <3>1. CASE n < Stable
        BY <1>1, <2>1, <3>1, StableAssumption DEF Queues, QueueRecord, QueuePhases, Proposing
      <3>2. CASE ~(n < Stable)
        <4>1. p \in QueueRecord /\ p.phase = "waiting_for_application" /\ p.cap = in.recommended
          BY <1>1, <2>1, <2>2, <3>2 DEF QueueRecord, QueuePhases
        <4>2. in.recommended # 0
          BY <1>6
        <4>3. QED
          BY <4>1, <4>2 DEF Queues, Proposing
      <3>3. QED
        BY <3>1, <3>2
    <2>4. QED
      BY <1>1, <1>6, <2>3 DEF Succeeds
  <1>7. QED
    BY <1>4, <1>5, <1>6

LEMMA ApplicationType ==
  ASSUME NEW q \in Queues, NEW in \in QueueInputs, q.phase = "waiting_for_application"
  PROVE  AwaitApplication(q, in) \in Queues /\ Succeeds(q, AwaitApplication(q, in))
  <1> DEFINE s == [q EXCEPT !.phase = "measuring", !.windows = 0]
  <1>1. s \in QueueRecord /\ s.phase = "measuring" /\ s.cap = q.cap /\ s.cooling = q.cooling
    <2>1. q \in QueueRecord /\ 0 \in 0..Windows
      BY StableAssumption DEF Queues
    <2>2. QED
      BY <2>1 DEF QueueRecord, QueuePhases
  <1>2. AwaitApplication(q, in) \in {s, Stop(q), q}
    BY DEF AwaitApplication
  <1> HIDE DEF s
  <1>3. s \in Queues
    BY <1>1 DEF Queues, Proposing
  <1>4. QED
    BY <1>1, <1>2, <1>3, StopType DEF Succeeds

LEMMA MeasureCapType ==
  ASSUME NEW q \in Queues, NEW in \in QueueInputs, q.phase \in {"measuring", "accepted"}
  PROVE  MeasureCap(q, in) \in Queues /\ Succeeds(q, MeasureCap(q, in))
  <1> DEFINE measured == IF q.windows < Windows THEN q.windows + 1 ELSE q.windows
  <1>1. PICK n \in 0..Windows : n = measured
    BY StableAssumption DEF Queues, QueueRecord
  <1> HIDE DEF measured
  <1>2. PICK ph \in {"measuring", "accepted"} : Judge(q, in) = [q EXCEPT !.windows = n, !.phase = ph]
    <2>1. CASE measured >= Windows /\ in.verdict = "better"
      BY <1>1, <2>1 DEF Judge, measured
    <2>2. CASE ~(measured >= Windows /\ in.verdict = "better")
      BY <1>1, <2>2 DEF Judge, measured
    <2>3. QED
      BY <2>1, <2>2
  <1>3. Judge(q, in) \in Queues /\ Judge(q, in).cap = q.cap /\ Judge(q, in).cooling = q.cooling
    BY <1>2 DEF Queues, QueueRecord, QueuePhases, Proposing
  <1>4. MeasureCap(q, in) \in {Stop(q), q, Judge(q, in)}
    BY DEF MeasureCap
  <1>5. QED
    BY <1>3, <1>4, StopType DEF Succeeds

LEMMA RestorationType ==
  ASSUME NEW q \in Queues, NEW in \in QueueInputs, q.phase = "waiting_for_restoration"
  PROVE  AwaitRestoration(q, in) \in Queues /\ Succeeds(q, AwaitRestoration(q, in))
  <1> DEFINE s == [q EXCEPT !.phase = "idle"]
  <1>1. s \in Queues /\ s.phase = "idle" /\ s.cap = q.cap /\ s.cooling = q.cooling
    BY DEF Queues, QueueRecord, QueuePhases, Proposing
  <1>2. AwaitRestoration(q, in) \in {q, Propose(s, in)}
    BY DEF AwaitRestoration
  <1> HIDE DEF s
  <1>3. QED
    BY <1>1, <1>2, ProposeType DEF Succeeds

(* The queue trial keeps no cap where it is not safe; it withdraws one     *)
(* only into a cooldown and proposes one only out of it.                   *)
LEMMA QueueUpdated ==
  ASSUME NEW q \in Queues, NEW in \in QueueInputs
  PROVE  /\ UpdateQueue(q, in) \in Queues
         /\ ~in.safe => UpdateQueue(q, in).cap = 0
         /\ Succeeds(q, UpdateQueue(q, in))
  <1> DEFINE n == IF in.behind \/ in.live # q.multiplier
                  THEN [Stop(q) EXCEPT !.multiplier = in.live] ELSE q
  <1>1. n \in Queues /\ (n = q \/ (n.cap = 0 /\ n.cooling))
    <2>1. in.live \in 0..6
      BY DEF QueueInputs
    <2>2. [Stop(q) EXCEPT !.multiplier = in.live] \in Queues
          /\ [Stop(q) EXCEPT !.multiplier = in.live].cap = 0
          /\ [Stop(q) EXCEPT !.multiplier = in.live].cooling
      BY <2>1, StopType DEF Queues, QueueRecord, Proposing
    <2>3. QED
      BY <2>2
  <1>2. PICK s \in Queues : s = n
    BY <1>1
  <1>3. UpdateQueue(q, in) =
          CASE ~in.safe /\ s.cap # 0 -> Stop(s)
            [] ~in.safe /\ s.cap = 0 -> [s EXCEPT !.stable = 0]
            [] in.safe /\ s.phase = "waiting_for_restoration" -> AwaitRestoration(s, in)
            [] in.safe /\ s.phase = "waiting_for_application" -> AwaitApplication(s, in)
            [] in.safe /\ s.phase \in {"measuring", "accepted"} -> MeasureCap(s, in)
            [] in.safe /\ s.phase = "idle" -> Propose(s, in)
    BY <1>2 DEF UpdateQueue
  <1> HIDE DEF n
  <1>4. UpdateQueue(q, in) \in Queues /\ Succeeds(s, UpdateQueue(q, in))
        /\ (~in.safe => UpdateQueue(q, in).cap = 0)
    <2>1. CASE ~in.safe /\ s.cap # 0
      BY <1>3, <2>1, StopType DEF Succeeds
    <2>2. CASE ~in.safe /\ s.cap = 0
      <3>1. [s EXCEPT !.stable = 0] \in Queues /\ [s EXCEPT !.stable = 0].cap = 0
            /\ [s EXCEPT !.stable = 0].cooling = s.cooling
        BY <2>2, StableAssumption DEF Queues, QueueRecord, Proposing
      <3>2. UpdateQueue(q, in) = [s EXCEPT !.stable = 0]
        BY <1>3, <2>2
      <3>3. QED
        BY <2>2, <3>1, <3>2 DEF Succeeds
    <2>3. CASE in.safe
      <3>1. s.phase \in QueuePhases
        BY DEF Queues, QueueRecord
      <3>2. QED
        BY <1>3, <2>3, <3>1, RestorationType, ApplicationType, MeasureCapType, ProposeType DEF QueuePhases
    <2>4. QED
      BY <2>1, <2>2, <2>3
  <1>5. Succeeds(q, UpdateQueue(q, in))
    BY <1>1, <1>2, <1>4 DEF Succeeds
  <1>6. QED
    BY <1>4, <1>5

----------------------------------------------------------------------------
(* Types, by the groups of variables that the steps leave alone together.  *)

SettingsTyped ==
  mode \in {"off", "monitor", "automatic"} /\ userCap \in BOOLEAN
  /\ pacing \in {"native", "waiting", "controls", "fallback"}
CapTyped == cap \in {0} \cup Caps /\ ready \in BOOLEAN
LiveTyped == live \in {0} \cup 2..6
BehindTyped == behind \subseteq Holders
ToldTyped ==
  accepted \in {Unknown} \cup Limits /\ ack \in {0} \cup Caps
  /\ source \in {"native", "user", "guard"} /\ succeeded \in BOOLEAN /\ userRejected \in BOOLEAN
ProviderTyped == provider \in Limits
NativeTyped == native \in {"none", "opaque", "loose", "strict"}
SubmissionTyped ==
  sub \in Labels /\ wanted \in Limits /\ chosen \in Limits
  /\ answered \in BOOLEAN /\ overridden \in BOOLEAN
PacerTyped == requested \in BOOLEAN /\ lastRequested \in BOOLEAN
MultiplierTyped == configured \in Configured /\ override \in {0} \cup Tried
LocalsTyped ==
  guardMode \in {"off", "monitor", "automatic"} /\ safe \in BOOLEAN /\ userReady \in BOOLEAN
  /\ trigger \in BOOLEAN /\ oldCap \in {0} \cup Caps

Typed ==
  /\ SettingsTyped /\ CapTyped /\ LiveTyped /\ pending \in BOOLEAN /\ BehindTyped
  /\ ToldTyped /\ ProviderTyped /\ NativeTyped /\ ownerPresents \in BOOLEAN
  /\ SubmissionTyped /\ PacerTyped /\ MultiplierTyped
  /\ trial \in Trials /\ queue \in Queues /\ guard \in GuardLabels /\ LocalsTyped

\* What a step leaves alone keeps its type.
LEMMA Stays ==
  ASSUME Typed
  PROVE  /\ UNCHANGED settings => SettingsTyped'
         /\ UNCHANGED guardCap => CapTyped'
         /\ UNCHANGED live => LiveTyped'
         /\ UNCHANGED pending => (pending \in BOOLEAN)'
         /\ UNCHANGED behind => BehindTyped'
         /\ UNCHANGED told => ToldTyped'
         /\ UNCHANGED provider => ProviderTyped'
         /\ UNCHANGED native => NativeTyped'
         /\ UNCHANGED ownerPresents => (ownerPresents \in BOOLEAN)'
         /\ UNCHANGED provided => ToldTyped' /\ ProviderTyped' /\ NativeTyped' /\ (ownerPresents \in BOOLEAN)'
         /\ UNCHANGED submission => SubmissionTyped'
         /\ UNCHANGED pacer => PacerTyped'
         /\ UNCHANGED <<configured, override>> => MultiplierTyped'
         /\ UNCHANGED trial => (trial \in Trials)'
         /\ UNCHANGED queue => (queue \in Queues)'
         /\ UNCHANGED trials => (trial \in Trials)' /\ (queue \in Queues)'
         /\ UNCHANGED guard => (guard \in GuardLabels)'
         /\ UNCHANGED locals => LocalsTyped'
  <1>1. SettingsTyped /\ CapTyped /\ LiveTyped /\ pending \in BOOLEAN /\ BehindTyped
        /\ ToldTyped /\ ProviderTyped /\ NativeTyped /\ ownerPresents \in BOOLEAN
        /\ SubmissionTyped /\ PacerTyped /\ MultiplierTyped
        /\ trial \in Trials /\ queue \in Queues /\ guard \in GuardLabels /\ LocalsTyped
    BY DEF Typed
  <1>2. UNCHANGED settings => SettingsTyped'
    BY <1>1 DEF settings, SettingsTyped
  <1>3. UNCHANGED guardCap => CapTyped'
    BY <1>1 DEF guardCap, CapTyped
  <1>4. UNCHANGED live => LiveTyped'
    BY <1>1 DEF LiveTyped
  <1>5. UNCHANGED behind => BehindTyped'
    BY <1>1 DEF BehindTyped
  <1>6. UNCHANGED told => ToldTyped'
    BY <1>1 DEF told, ToldTyped
  <1>7. UNCHANGED provider => ProviderTyped'
    BY <1>1 DEF ProviderTyped
  <1>8. UNCHANGED native => NativeTyped'
    BY <1>1 DEF NativeTyped
  <1>9. UNCHANGED submission => SubmissionTyped'
    BY <1>1 DEF submission, SubmissionTyped
  <1>10. UNCHANGED pacer => PacerTyped'
    BY <1>1 DEF pacer, PacerTyped
  <1>11. UNCHANGED <<configured, override>> => MultiplierTyped'
    BY <1>1 DEF MultiplierTyped
  <1>12. UNCHANGED locals => LocalsTyped'
    BY <1>1 DEF locals, LocalsTyped
  <1>13. UNCHANGED provided => UNCHANGED <<native, provider, told, ownerPresents>>
    BY DEF provided
  <1>14. UNCHANGED trials => UNCHANGED <<trial, queue>>
    BY DEF trials
  <1>15. QED
    BY <1>1, <1>2, <1>3, <1>4, <1>5, <1>6, <1>7, <1>8, <1>9, <1>10, <1>11, <1>12, <1>13, <1>14

LEMMA CooledType ==
  ASSUME NEW underWay \in BOOLEAN, queue \in Queues, CoolWhile(underWay)
  PROVE  /\ queue' \in Queues /\ queue'.cap = queue.cap
         /\ queue'.cooling = (queue.cooling /\ underWay)
  <1>1. PICK still \in BOOLEAN : still = (queue.cooling /\ underWay)
    OBVIOUS
  <1>2. queue' = [queue EXCEPT !.cooling = still]
    BY <1>1 DEF CoolWhile
  <1>3. QED
    BY <1>1, <1>2 DEF Queues, QueueRecord, Proposing

\* What TrimQueue makes of the queue trial.
LEMMA TrimmedQueue ==
  ASSUME Typed, TrimQueue
  PROVE  /\ queue' \in Queues /\ Succeeds(queue, queue')
         /\ queue'.cap # 0 => QueueTrimSafe
  <1> DEFINE In(confident, recommended, late, steady, sample, verdict) ==
        [behind |-> "queue" \in behind, live |-> live, safe |-> confident,
         recommended |-> recommended, steady |-> steady,
         acknowledged |-> ReadQueueCapAck, late |-> late, sample |-> sample,
         verdict |-> verdict]
  <1>1. PICK confident \in {FALSE, QueueTrimSafe} :
          \E recommended \in {0} \cup Caps, late, steady \in IF confident THEN BOOLEAN ELSE {FALSE},
             sample \in {"old", "good"}, verdict \in {"worse", "open", "better"} :
            queue' = UpdateQueue(queue, In(confident, recommended, late, steady, sample, verdict))
    BY DEF TrimQueue
  <1>2. PICK recommended \in {0} \cup Caps, late \in BOOLEAN, steady \in BOOLEAN,
             sample \in {"old", "good"}, verdict \in {"worse", "open", "better"} :
          queue' = UpdateQueue(queue, In(confident, recommended, late, steady, sample, verdict))
    BY <1>1
  <1> DEFINE in == In(confident, recommended, late, steady, sample, verdict)
  <1>3. confident \in BOOLEAN /\ ReadQueueCapAck \in {Unknown, 0} \cup Caps /\ live \in 0..6
    <2>1. confident \in BOOLEAN
      BY DEF QueueTrimSafe
    <2>2. ReadQueueCapAck \in {Unknown, 0} \cup Caps
      BY DEF ReadQueueCapAck, Typed, ToldTyped
    <2>3. live \in 0..6
      BY DEF Typed, LiveTyped
    <2>4. QED
      BY <2>1, <2>2, <2>3
  <1>4. in \in QueueInputs /\ in.safe = confident
    BY <1>3 DEF QueueInputs
  <1>5. queue' = UpdateQueue(queue, in) /\ queue \in Queues
    BY <1>2 DEF Typed
  <1> HIDE DEF in
  <1>6. QED
    BY <1>4, <1>5, QueueUpdated


\* What TryMultiplier makes of the multiplier trial.
LEMMA TriedMultiplier ==
  ASSUME Typed, TryMultiplier
  PROVE  /\ safe' \in BOOLEAN /\ trigger' \in BOOLEAN /\ trial' \in Trials
         /\ override' # 0 => safe' /\ cap = 0
  <1>1. safe' \in BOOLEAN /\ trigger' \in BOOLEAN
    BY DEF TryMultiplier, BaseSafe
  <1> DEFINE In(other, late, better, sample) ==
        [behind |-> "multiplier" \in behind, configured |-> configured, live |-> live,
         safe |-> safe' /\ cap = 0, trigger |-> trigger', other |-> other,
         ready |-> userReady, sample |-> sample, late |-> late, better |-> better]
  <1>2. \E triggered, other, late, better \in IF safe' THEN BOOLEAN ELSE {FALSE},
           sample \in {"old", "broken", "good"} :
          /\ trigger' = (triggered /\ safe' /\ cap = 0)
          /\ trial' = Update(trial, In(other, late, better, sample))
    BY Zenon DEF TryMultiplier
  <1>3. PICK triggered, other, late, better \in IF safe' THEN BOOLEAN ELSE {FALSE},
             sample \in {"old", "broken", "good"} :
          /\ trigger' = (triggered /\ safe' /\ cap = 0)
          /\ trial' = Update(trial, In(other, late, better, sample))
    BY <1>2, Zenon
  <1>4. other \in BOOLEAN /\ late \in BOOLEAN /\ better \in BOOLEAN
    BY <1>3
  <1>5. configured \in Configured /\ live \in 0..6 /\ userReady \in BOOLEAN /\ trial \in Trials
    BY DEF Typed, MultiplierTyped, LiveTyped, LocalsTyped
  <1>6. PICK quiet \in BOOLEAN : quiet = (safe' /\ cap = 0)
    OBVIOUS
  <1>7. PICK old \in BOOLEAN : old <=> "multiplier" \in behind
    <2>1. CASE "multiplier" \in behind
      BY <2>1
    <2>2. CASE "multiplier" \notin behind
      BY <2>2
    <2>3. QED
      BY <2>1, <2>2
  <1> DEFINE in == [behind |-> old, configured |-> configured, live |-> live,
                    safe |-> quiet, trigger |-> trigger', other |-> other,
                    ready |-> userReady, sample |-> sample, late |-> late, better |-> better]
  <1>8. In(other, late, better, sample) = in
    BY <1>6, <1>7
  <1>9. in \in TrialInputs /\ in.safe = quiet
    BY <1>1, <1>3, <1>4, <1>5, <1>6, <1>7 DEF TrialInputs
  <1>10. trial' = Update(trial, in) /\ override' = Override(trial')
    BY <1>3, <1>8 DEF TryMultiplier
  <1> HIDE DEF In, in
  <1>11. QED
    BY <1>1, <1>5, <1>6, <1>9, <1>10, TrialUpdated

LEMMA SubmitTyped == ASSUME Typed, Submit PROVE Typed'
  <1>1. /\ Submission /\ queue' \in Queues
        /\ UNCHANGED <<pacer, configured, override, trial, guard, locals>>
    BY CooledType DEF Submit, Typed
  <1>2. PacerTyped' /\ MultiplierTyped' /\ (trial \in Trials)' /\ (guard \in GuardLabels)' /\ LocalsTyped'
    BY <1>1, Stays
  <1>3. Native \in Limits /\ "idle" \in Labels /\ Choice \in Limits
    BY DEF Native, Limits, Labels, Choice, Typed, CapTyped
  <1>4. Leave => SubmissionTyped'
    BY <1>3 DEF Leave, SubmissionTyped
  <1>5. CASE ForwardOpaque
    <2>1. ProviderTyped'
      BY <1>3, <1>5 DEF ForwardOpaque, ProviderTyped, Typed
    <2>2. ToldTyped'
      BY <1>5 DEF ForwardOpaque, ToldTyped, Typed
    <2>3. QED
      BY <1>1, <1>2, <1>4, <1>5, <2>1, <2>2, Stays DEF ForwardOpaque, Typed
  <1>6. CASE Decide
    <2>1. SubmissionTyped'
      BY <1>3, <1>4, <1>6 DEF Decide, SubmissionTyped, Typed, Labels
    <2>2. QED
      BY <1>1, <1>2, <1>6, <2>1, Stays DEF Decide, Typed
  <1>7. CASE Call
    <2>1. ProviderTyped'
      BY <1>7 DEF Call, Refused, ProviderTyped, SubmissionTyped, Typed
    <2>2. SubmissionTyped'
      BY <1>7 DEF Call, SubmissionTyped, Typed, Labels
    <2>3. QED
      BY <1>1, <1>2, <1>7, <2>1, <2>2, Stays DEF Call, Typed
  <1>8. CASE RetryNative
    <2>1. ProviderTyped'
      BY <1>3, <1>8 DEF RetryNative, Refused, ProviderTyped, Typed
    <2>2. SubmissionTyped'
      BY <1>3, <1>8 DEF RetryNative, SubmissionTyped, Typed, Labels
    <2>3. CapTyped' /\ BehindTyped'
      BY <1>8 DEF RetryNative, CapTyped, BehindTyped
    <2>4. QED
      BY <1>1, <1>2, <1>8, <2>1, <2>2, <2>3, Stays DEF RetryNative, Typed
  <1>9. CASE Publish
    <2>1. ToldTyped'
      <3>1. accepted' \in {Unknown} \cup Limits /\ succeeded' \in BOOLEAN
        BY <1>9 DEF Publish, Typed, SubmissionTyped
      <3>2. source' \in {"native", "user", "guard"} /\ ack' \in {0} \cup Caps
        BY <1>9 DEF Publish, NewSource, Typed, CapTyped
      <3>3. userRejected' \in BOOLEAN
        BY <1>9 DEF Publish, Typed, SubmissionTyped, ToldTyped
      <3>4. QED
        BY <3>1, <3>2, <3>3 DEF ToldTyped
    <2>2. BehindTyped'
      BY <1>9 DEF Publish, Typed, BehindTyped, Holders
    <2>3. QED
      BY <1>1, <1>2, <1>4, <1>9, <2>1, <2>2, Stays DEF Publish, Typed
  <1>10. QED
    BY <1>1, <1>5, <1>6, <1>7, <1>8, <1>9 DEF Submission

LEMMA GameTyped == ASSUME Typed, Game PROVE Typed'
  <1>1. CASE GiveOptions
    <2>1. NativeTyped' /\ pending' = FALSE
      BY <1>1, OptionsAssumption DEF GiveOptions, HookedReflexSetOptions, NativeTyped
    <2>2. SubmissionTyped'
      BY <1>1 DEF GiveOptions, HookedReflexSetOptions, SubmissionTyped, Labels, Typed
    <2>3. QED
      BY <1>1, <2>1, <2>2, Stays DEF GiveOptions, HookedReflexSetOptions, elsewhere, Typed
  <1>2. CASE Sleep
    <2>1. SubmissionTyped'
      BY <1>2 DEF Sleep, HookedReflexSleep, Replay, SubmissionTyped, Labels, Typed
    <2>2. QED
      BY <1>2, <2>1, Stays DEF Sleep, HookedReflexSleep, elsewhere, Typed
  <1>3. CASE PacerFallsBack
    <2>1. SettingsTyped'
      BY <1>3 DEF PacerFallsBack, SettingsTyped, Typed
    <2>2. QED
      BY <1>3, <2>1, Stays DEF PacerFallsBack, elsewhere, Typed
  <1>4. QED
    BY <1>1, <1>2, <1>3, SubmitTyped DEF Game

LEMMA OthersTyped == ASSUME Typed, Others PROVE Typed'
  <1>1. ASSUME NEW m \in {"off", "monitor", "automatic"}, SelectMode(m) PROVE Typed'
    <2>1. SettingsTyped' /\ CapTyped' /\ BehindTyped' /\ MultiplierTyped' /\ pending' \in BOOLEAN
      BY <1>1 DEF SelectMode, Typed, SettingsTyped, CapTyped, BehindTyped, MultiplierTyped
    <2>2. QED
      BY <1>1, <2>1, Stays DEF SelectMode, untouched, Typed
  <1>2. ASSUME NEW m \in Configured, NotifyFixedMultiplierChanged(m) PROVE Typed'
    <2>1. ToldTyped' /\ BehindTyped' /\ MultiplierTyped' /\ pending' \in BOOLEAN
      BY <1>2 DEF NotifyFixedMultiplierChanged, Typed, ToldTyped, BehindTyped, MultiplierTyped
    <2>2. QED
      BY <1>2, <2>1, Stays DEF NotifyFixedMultiplierChanged, Typed
  <1>3. CASE NotifySourceFpsCapChanged
    <2>1. SettingsTyped' /\ ToldTyped' /\ BehindTyped' /\ pending' \in BOOLEAN
      BY <1>3 DEF NotifySourceFpsCapChanged, Typed, SettingsTyped, ToldTyped, BehindTyped
    <2>2. QED
      BY <1>3, <2>1, Stays DEF NotifySourceFpsCapChanged, Typed
  <1>4. CASE SelectPacing
    <2>1. PacerTyped' /\ BehindTyped' /\ pending' \in BOOLEAN
      BY <1>4 DEF SelectPacing, Typed, PacerTyped, BehindTyped
    <2>2. QED
      BY <1>4, <2>1, Stays DEF SelectPacing, untouched, Typed
  <1>5. CASE NotifySwapchainTransition
    <2>1. SettingsTyped' /\ CapTyped' /\ LiveTyped' /\ ToldTyped' /\ BehindTyped' /\ MultiplierTyped'
          /\ pending' \in BOOLEAN
      BY <1>5 DEF NotifySwapchainTransition, Typed, SettingsTyped, CapTyped, LiveTyped, ToldTyped, BehindTyped,
         MultiplierTyped
    <2>2. QED
      BY <1>5, <2>1, Stays DEF NotifySwapchainTransition, Typed
  <1>6. QED
    BY <1>1, <1>2, <1>3, <1>4, <1>5 DEF Others

LEMMA RefreshTyped ==
  ASSUME Typed, NEW p \in BOOLEAN, RefreshOr(p)
  PROVE  sub' \in Labels /\ pending' \in BOOLEAN
  BY DEF RefreshOr, Replay, Typed, SubmissionTyped, Labels

LEMMA PresentTyped == ASSUME Typed, Present PROVE Typed'
  <1>1. Return /\ oldCap' = 0 => (guard \in GuardLabels)' /\ LocalsTyped'
    BY DEF Return, LocalsTyped, GuardLabels
  <1>2. CASE UpdatePacing
    <2>1. PICK active \in BOOLEAN : pacing' \in NextPacing(active)
      BY <1>2 DEF UpdatePacing, MfgSeen
    <2>2. SettingsTyped'
      <3>1. pacing' \in {"native", "waiting", "controls", "fallback"}
        BY <2>1 DEF NextPacing, Typed, PacerTyped
      <3>2. QED
        BY <1>2, <3>1 DEF UpdatePacing, Typed, SettingsTyped
    <2>3. BehindTyped' /\ pending' \in BOOLEAN
      BY <1>2 DEF UpdatePacing, BehindTyped, Typed, PacerTyped
    <2>4. CapTyped' /\ MultiplierTyped'
      BY <1>2 DEF UpdatePacing, CapTyped, MultiplierTyped, guardCap, Typed
    <2>5. PacerTyped' /\ (guard \in GuardLabels)'
      BY <1>2 DEF UpdatePacing, PacerTyped, Typed, GuardLabels
    <2>6. QED
      BY <1>2, <2>2, <2>3, <2>4, <2>5, Stays DEF UpdatePacing, Typed
  <1>3. CASE EnterGuard
    <2>1. (guard \in GuardLabels)' /\ LocalsTyped'
      <3>1. CASE Return
        BY <1>1, <3>1 DEF Return
      <3>2. CASE ~Return
        BY <1>3, <3>2 DEF EnterGuard, LocalsTyped, GuardLabels, Typed, SettingsTyped
      <3>3. QED
        BY <3>1, <3>2
    <2>2. CapTyped' /\ BehindTyped' /\ pending' \in BOOLEAN
      BY <1>3, RefreshTyped DEF EnterGuard, CapTyped, BehindTyped, guardCap, Typed
    <2>3. SubmissionTyped'
      BY <1>3, RefreshTyped DEF EnterGuard, SubmissionTyped, submission, Typed
    <2>4. QED
      BY <1>3, <2>1, <2>2, <2>3, Stays DEF EnterGuard, Typed
  <1>4. CASE LeaveGuard
    <2>1. UNCHANGED <<settings, guardCap, live, pending, behind, native, provider, told, ownerPresents, submission>>
      BY <1>4 DEF LeaveGuard, reflexVars
    <2>2. QED
      BY <1>1, <1>4, <2>1, Stays DEF LeaveGuard, Return, Typed
  <1>5. CASE Sample
    <2>1. LiveTyped'
      BY <1>5, ReportedAssumption DEF Sample, LiveTyped
    <2>2. userReady' \in BOOLEAN
      BY <1>5 DEF Sample, UserSourceCapReady
    <2>3. LocalsTyped' /\ (guard \in GuardLabels)'
      BY <1>5, <2>2 DEF Sample, LocalsTyped, GuardLabels, Typed
    <2>4. SubmissionTyped' /\ pending' \in BOOLEAN
      BY <1>5, RefreshTyped DEF Sample, SubmissionTyped, Typed
    <2>5. QED
      BY <1>5, <2>1, <2>3, <2>4, Stays DEF Sample, Typed
  <1>6. CASE TryMultiplier
    <2>1. safe' \in BOOLEAN /\ trigger' \in BOOLEAN /\ trial' \in Trials
      BY <1>6, TriedMultiplier
    <2>2. MultiplierTyped'
      <3>1. Override(trial') \in {0} \cup Tried
        BY <2>1 DEF Override, Trials, TrialRecord
      <3>2. QED
        BY <1>6, <3>1 DEF TryMultiplier, MultiplierTyped, Typed
    <2>3. BehindTyped' /\ LocalsTyped' /\ (guard \in GuardLabels)'
      BY <1>6, <2>1 DEF TryMultiplier, BehindTyped, LocalsTyped, GuardLabels, Typed
    <2>4. QED
      BY <1>6, <2>1, <2>2, <2>3, Stays DEF TryMultiplier, Typed
  <1>7. CASE TrimQueue
    <2>1. BehindTyped' /\ LocalsTyped' /\ (guard \in GuardLabels)'
      BY <1>7 DEF TrimQueue, BehindTyped, LocalsTyped, GuardLabels, CapTyped, Typed
    <2>2. QED
      BY <1>7, <2>1, TrimmedQueue, Stays DEF TrimQueue, Typed
  <1>8. CASE StoreCap
    <2>1. queue' \in Queues /\ queue.cap \in {0} \cup Caps
      BY <1>8, CooledType DEF StoreCap, Queues, QueueRecord, Typed
    <2>2. CapTyped'
      BY <1>8, <2>1 DEF StoreCap, CapTyped
    <2>3. LocalsTyped' /\ (guard \in GuardLabels)'
      <3>1. CASE Return
        BY <1>1, <3>1 DEF Return
      <3>2. CASE ~Return
        BY <1>8, <3>2 DEF StoreCap, LocalsTyped, GuardLabels, Typed
      <3>3. QED
        BY <3>1, <3>2
    <2>4. QED
      BY <1>8, <2>1, <2>2, <2>3, Stays DEF StoreCap, Typed
  <1>9. CASE RefreshChanged
    <2>1. SubmissionTyped' /\ pending' \in BOOLEAN
      BY <1>9, RefreshTyped DEF RefreshChanged, SubmissionTyped, Typed
    <2>2. QED
      BY <1>1, <1>9, <2>1, Stays DEF RefreshChanged, Return, Typed
  <1>10. QED
    BY <1>2, <1>3, <1>4, <1>5, <1>6, <1>7, <1>8, <1>9 DEF Present

----------------------------------------------------------------------------
(* What the guard found safe stays so until it has acted on it: nothing    *)
(* but its own steps changes the mode, the multiplier or the pacer then,   *)
(* but for a pacer that gives up.                                          *)
SafeStands ==
  /\ guard \in {"away", "enter", "refresh", "cap"} => ~safe
  /\ guard = "away" => guardMode = "off"
  /\ guardMode = "automatic" => pacing # "controls"
  /\ safe => Fixed(live) /\ Fixed(configured) /\ pacing # "controls"
  /\ guard = "cap" /\ queue.cap # 0 =>
       override = 0 /\ Fixed(live) /\ Fixed(configured) /\ pacing # "controls"

(* A cap or a lower multiplier means that frame generation is seen, so a   *)
(* pacer that still waits for it finds neither.                            *)
SeenWhenActing ==
  /\ override # 0 => Fixed(configured)
  /\ cap # 0 => Fixed(live) \/ guard \in {"try", "trim", "cap"}
  /\ lastRequested /\ pacing \in {"native", "waiting"} => cap = 0 /\ override = 0
  /\ lastRequested /\ pacing \in {"native", "waiting"} /\ guard # "away" => ~Fixed(configured)

IInv == SafeStands /\ SeenWhenActing /\ OneController

----------------------------------------------------------------------------
(* The submission of options may withdraw the cap and touches nothing else *)
(* that the controllers go by.                                             *)
LEMMA SubmissionLeaves ==
  ASSUME Submission
  PROVE  UNCHANGED <<mode, userCap, pacing, live>> /\ cap' \in {cap, 0}
  BY DEF Submission, ForwardOpaque, Decide, Call, RetryNative, Publish, settings, guardCap

LEMMA GameStep == ASSUME Typed, IInv, Game PROVE IInv'
  <1>1. /\ UNCHANGED <<lastRequested, configured, override, guard, guardMode, safe>> /\ queue'.cap = queue.cap
        /\ UNCHANGED live /\ cap' \in {cap, 0}
        /\ (pacing' = pacing \/ (pacing = "controls" /\ pacing' = "fallback"))
    <2>1. CASE GiveOptions \/ Sleep
      BY <2>1 DEF GiveOptions, Sleep, HookedReflexSetOptions, HookedReflexSleep, settings, guardCap,
         elsewhere, pacer, trials, locals
    <2>2. CASE Submit
      BY <2>2, SubmissionLeaves, CooledType DEF Submit, Typed, pacer, locals
    <2>3. CASE PacerFallsBack
      BY <2>3 DEF PacerFallsBack, guardCap, elsewhere, pacer, trials, locals
    <2>4. QED
      BY <2>1, <2>2, <2>3 DEF Game
  <1>2. QED
    BY <1>1 DEF IInv, SafeStands, SeenWhenActing, OneController, Fixed

LEMMA OthersStep == ASSUME Typed, IInv, Others PROVE IInv'
  <1>1. guard = "away" /\ UNCHANGED <<queue, guard, guardMode, safe, lastRequested>> /\ live' \in {live, 0}
    BY DEF Others, BetweenPresents, SelectMode, NotifyFixedMultiplierChanged, NotifySourceFpsCapChanged, SelectPacing,
       NotifySwapchainTransition, untouched, trials, locals, pacer
  <1> USE DEF IInv, SafeStands, SeenWhenActing, OneController
  <1>2. ASSUME NEW m, SelectMode(m) PROVE IInv'
    BY <1>1, <1>2 DEF SelectMode, untouched
  <1>3. ASSUME NEW m, NotifyFixedMultiplierChanged(m) PROVE IInv'
    BY <1>1, <1>3 DEF NotifyFixedMultiplierChanged, settings, guardCap
  <1>4. CASE NotifySourceFpsCapChanged
    BY <1>1, <1>4 DEF NotifySourceFpsCapChanged, guardCap
  <1>5. CASE SelectPacing
    BY <1>1, <1>5 DEF SelectPacing, settings, guardCap, untouched
  <1>6. CASE NotifySwapchainTransition
    BY <1>1, <1>6 DEF NotifySwapchainTransition
  <1>7. QED
    BY <1>2, <1>3, <1>4, <1>5, <1>6 DEF Others

LEMMA PresentStep == ASSUME Typed, IInv, Present PROVE IInv'
  <1> USE DEF IInv, SafeStands, SeenWhenActing, OneController
  <1>1. CASE UpdatePacing
    <2>1. PICK active \in MfgSeen : pacing' \in NextPacing(active)
      BY <1>1 DEF UpdatePacing
    <2>2. ~active => ~Fixed(live) /\ ~Fixed(configured)
      BY <2>1 DEF MfgSeen
    <2>3. guard = "away" /\ guard' = "enter" /\ lastRequested' = requested
          /\ UNCHANGED <<live, configured, queue, guardMode, safe>>
      BY <1>1 DEF UpdatePacing, trials, locals
    <2>4. (cap' = 0 /\ override' = 0) \/ (UNCHANGED <<cap, override>> /\ (requested => lastRequested))
      BY <1>1 DEF UpdatePacing, guardCap
    <2>5. pacing' \in {"native", "waiting"} /\ requested => ~active
      BY <2>1 DEF NextPacing
    <2>6. ~active => cap' = 0 /\ override' = 0
      BY <2>2, <2>3, <2>4
    <2>7. pacing' = "controls" => requested /\ pacing # "fallback"
      BY <2>1 DEF NextPacing
    <2>8. pacing' \in {"native", "waiting", "controls", "fallback"}
      BY <2>1 DEF NextPacing
    <2>9. QED
      BY <2>2, <2>3, <2>4, <2>5, <2>6, <2>7, <2>8 DEF Typed, SettingsTyped
  <1>2. CASE EnterGuard
    <2>1. guard = "enter" /\ guard' \in {"away", "refresh"} /\ cap' \in {cap, 0}
          /\ UNCHANGED <<live, pacing, configured, override, queue, lastRequested>>
      BY <1>2 DEF EnterGuard, Return, settings, trials, pacer, guardCap
    <2>2. guardMode' = "automatic" => pacing # "controls"
      BY <1>2 DEF EnterGuard, Return
    <2>3. guard' = "away" => guardMode' = "off"
      BY <1>2 DEF EnterGuard, Return
    <2>4. ~safe'
      BY <2>1, <1>2 DEF EnterGuard, Return
    <2>5. QED
      BY <2>1, <2>2, <2>3, <2>4
  <1>3. CASE LeaveGuard
    BY <1>3 DEF LeaveGuard, Return, reflexVars, settings, guardCap, trials, pacer
  <1>4. CASE Sample
    <2>1. guard = "refresh" /\ guard' = "try" /\ live' \in {0} \cup 2..6
          /\ UNCHANGED <<pacing, configured, override, queue, lastRequested, cap, guardMode, safe>>
      BY <1>4, ReportedAssumption DEF Sample, settings, guardCap, trials, pacer
    <2>2. ~safe
      BY <2>1
    <2>3. QED
      BY <2>1, <2>2
  <1>5. CASE TryMultiplier
    <2>1. guard = "try" /\ guard' = "trim" /\ guardMode' = "off" /\ safe' \in {FALSE, BaseSafe}
          /\ UNCHANGED <<cap, live, pacing, configured, queue, lastRequested>>
      BY <1>5 DEF TryMultiplier, settings, guardCap, pacer
    <2>2. safe' => Fixed(live) /\ Fixed(configured) /\ pacing # "controls"
      BY <2>1 DEF BaseSafe, Fixed, Typed, LiveTyped
    <2>3. override' # 0 => safe' /\ cap = 0
      BY <1>5, TriedMultiplier
    <2>4. QED
      BY <2>1, <2>2, <2>3
  <1>6. CASE TrimQueue
    <2>1. guard = "trim" /\ guard' = "cap" /\ safe' = FALSE
          /\ UNCHANGED <<cap, live, pacing, configured, override, lastRequested, guardMode>>
      BY <1>6 DEF TrimQueue, settings, guardCap, pacer
    <2>2. queue'.cap # 0 => safe /\ override = 0
      BY <1>6, TrimmedQueue DEF QueueTrimSafe, MultiplierInPlay
    <2>3. QED
      BY <2>1, <2>2
  <1>7. CASE StoreCap
    <2>1. queue'.cap = queue.cap
      BY <1>7, CooledType DEF StoreCap, Typed
    <2>2. QED
      BY <1>7, <2>1 DEF StoreCap, Return, settings, pacer
  <1>8. CASE RefreshChanged
    BY <1>8 DEF RefreshChanged, Return, settings, guardCap, trials, pacer
  <1>9. QED
    BY <1>1, <1>2, <1>3, <1>4, <1>5, <1>6, <1>7, <1>8 DEF Present

LEMMA Initially == Init => Typed /\ IInv
  <1> SUFFICES ASSUME Init PROVE Typed /\ IInv
    OBVIOUS
  <1>1. Reset(0) \in Trials
    BY ResetType, ConfiguredAssumption
  <1>2. NoTrial \in Queues /\ NoTrial.cap = 0
    BY StableAssumption DEF NoTrial, Queues, QueueRecord, QueuePhases, Proposing
  <1>3. SettingsTyped /\ CapTyped /\ LiveTyped /\ BehindTyped /\ ToldTyped /\ ProviderTyped /\ NativeTyped
    BY DEF Init, ReflexInit, SettingsTyped, CapTyped, LiveTyped, BehindTyped, ToldTyped, ProviderTyped, NativeTyped,
       Limits, Native, Holders
  <1>4. SubmissionTyped /\ PacerTyped /\ MultiplierTyped /\ LocalsTyped
    BY ConfiguredAssumption DEF Init, ReflexInit, SubmissionTyped, PacerTyped, MultiplierTyped, LocalsTyped, Limits,
       Native, Labels
  <1>5. Typed
    BY <1>1, <1>2, <1>3, <1>4, OwnersAssumption DEF Init, ReflexInit, Typed, GuardLabels
  <1>6. IInv
    BY <1>2 DEF Init, ReflexInit, IInv, SafeStands, SeenWhenActing, OneController
  <1>7. QED
    BY <1>5, <1>6

LEMMA Inductive == Spec => [](Typed /\ IInv)
  <1>1. ASSUME Typed, IInv, [Next]_vars PROVE Typed' /\ IInv'
    <2>1. CASE UNCHANGED vars
      <3>1. UNCHANGED <<reflexVars, pacer, configured, override, trials, guard, locals>>
        BY <2>1 DEF vars
      <3>2. UNCHANGED <<settings, guardCap, live, pending, behind, native, provider, told, ownerPresents, submission>>
        BY <3>1 DEF reflexVars
      <3>3. Typed'
        BY <1>1, <3>1, <3>2, Stays DEF Typed
      <3>4. IInv'
        BY <1>1, <3>1, <3>2 DEF settings, guardCap, pacer, trials, locals,
           IInv, SafeStands, SeenWhenActing, OneController
      <3>5. QED
        BY <3>3, <3>4
    <2>2. QED
      BY <1>1, <2>1, PresentTyped, GameTyped, OthersTyped, PresentStep, GameStep, OthersStep DEF Next
  <1>2. QED
    BY <1>1, Initially, PTL DEF Spec

(* Every variable keeps its range, whatever the numbers and sets.          *)
THEOREM TypeCorrect == Spec => []TypeOK
  <1>1. Typed => TypeOK
    <2> SUFFICES ASSUME Typed PROVE TypeOK
      OBVIOUS
    <2>1. ReflexTypeOK
      BY DEF Typed, ReflexTypeOK, SettingsTyped, CapTyped, LiveTyped, BehindTyped, ToldTyped, ProviderTyped,
         NativeTyped, SubmissionTyped
    <2>2. trial \in TrialRecord /\ Len(trial.window) < Window
      BY DEF Typed, Trials, Earned
    <2>3. queue \in QueueRecord
      BY DEF Typed, Queues
    <2>4. QED
      BY <2>1, <2>2, <2>3 DEF TypeOK, Typed, PacerTyped, MultiplierTyped, LocalsTyped, TrialRecord, QueueRecord
  <1>2. QED
    BY <1>1, Inductive, PTL

(* A reduction that is kept won, at every step down to it, a comparison of *)
(* a full window measured at the lower multiplier with one at the higher.  *)
THEOREM WinnersAreKept == Spec => []OnlyWinnersAreKept
  <1>1. Typed => OnlyWinnersAreKept
    BY DEF Typed, Trials, Earned, Won, OnlyWinnersAreKept
  <1>2. QED
    BY <1>1, Inductive, PTL

(* A cap and a lower multiplier are never in force together, and neither   *)
(* is while the waitable pacer probes or controls the pacing.              *)
THEOREM OneControllerActs == Spec => []OneController
  <1>1. IInv => OneController
    BY DEF IInv
  <1>2. QED
    BY <1>1, Inductive, PTL

----------------------------------------------------------------------------
(* The cap, the submissions under way and what Streamline runs with.       *)

\* The cap is the queue trial's, but for the update that changes it.
CapFollows ==
  /\ ready = (cap # 0)
  /\ guard = "cap" => cap \in {0, oldCap}
  /\ guard # "cap" => cap \in {0, queue.cap}
  /\ cap # 0 /\ queue.cap # cap => queue.cap = 0 /\ queue.cooling

\* A submission under way sends the cap of the trial, or one that a cooldown
\* withdrew and that no other replaces before the submission ends.
CapUnderWay ==
  sub \in {"call", "retry", "publish"} /\ chosen \in Caps =>
    /\ cap \in {0, chosen} /\ queue.cap \in {0, chosen}
    /\ queue.cap = 0 => queue.cooling

\* What is known of the limit in force.
LimitKnown ==
  /\ sub \in {"idle", "decide", "replay", "call"} /\ accepted # Unknown => provider = accepted
  /\ sub \in {"idle", "decide", "replay"} /\ accepted # Unknown /\ "ack" \notin behind /\ ack \in Caps =>
       provider = ack
  /\ sub = "publish" /\ answered => provider = chosen

Wanted == ready \/ pending \/ guard = "last"

\* A cap that Streamline runs with, or is about to, is wanted or will be replayed.
ReplayOwed ==
  /\ sub = "decide" => native # "none"
  /\ sub \in {"call", "retry", "publish", "replay"} => Replayable
  /\ ownerPresents /\ guard \in {"enter", "trim", "cap", "last"} => sub = "idle"
  /\ sub = "idle" /\ succeeded /\ provider \in Caps => Replayable /\ Wanted
  /\ sub = "call" /\ chosen \in Caps => Wanted
  /\ sub = "publish" /\ answered /\ chosen \in Caps => Wanted

CapInv == CapFollows /\ CapUnderWay /\ LimitKnown /\ ReplayOwed

LEMMA NotCaps == Unknown \notin Caps /\ Native \notin Caps /\ User \notin Caps /\ 0 \notin Caps
                 /\ Unknown # Native /\ Unknown # User
  BY CapsAssumption DEF Unknown, Native, User

\* A cap is sent only while it is wanted.
LEMMA CapChosen ==
  ASSUME CapFollows, Choice \in Caps
  PROVE  Choice = cap /\ cap # 0 /\ ready
  BY NotCaps DEF CapFollows, Choice, ShouldApplyLatencyGuardTarget

LEMMA SubmitKeepsCap == ASSUME Typed, CapInv, Submit PROVE CapInv'
  <1>1. /\ queue'.cap = queue.cap /\ queue'.cooling = (queue.cooling /\ (sub' # "idle" \/ guard = "cap"))
        /\ UNCHANGED <<guard, oldCap>> /\ Submission
    BY CooledType DEF Submit, Typed, locals
  <1>2. sub \in Labels
    BY DEF Typed, SubmissionTyped
  <1>3. ASSUME UNCHANGED <<cap, ready>> PROVE CapFollows'
    BY <1>1, <1>3 DEF CapInv, CapFollows
  <1>4. CASE ForwardOpaque
    <2>1. /\ sub = "decide" /\ sub' = "idle" /\ accepted' = Unknown /\ UNCHANGED <<cap, ready>>
          /\ succeeded' => provider' = Native
      BY <1>4 DEF ForwardOpaque, Leave, guardCap
    <2>2. QED
      BY <1>3, <2>1, NotCaps DEF CapInv, CapUnderWay, LimitKnown, ReplayOwed
  <1>5. CASE Decide
    <2>1. PICK limit : limit = IF native = "strict" THEN Native ELSE Choice
      OBVIOUS
    <2>2. limit \in Caps => limit = cap /\ cap # 0 /\ ready
      BY <2>1, CapChosen, NotCaps DEF CapInv
    <2>3. /\ sub \in {"decide", "replay"} /\ native # "opaque"
          /\ UNCHANGED <<cap, ready, pending, behind, native, provider, accepted, ack, succeeded, ownerPresents>>
      BY <1>5 DEF Decide, guardCap, told
    <2>4. CASE sub = "replay" /\ accepted = limit /\ sub' = "idle"
      <3>1. limit # Unknown
        BY <2>1, NotCaps DEF Choice, Typed, CapTyped, Unknown, Native, User
      <3>2. provider \in Caps => Wanted
        BY <2>2, <2>3, <2>4, <3>1 DEF CapInv, LimitKnown, Wanted
      <3>3. LimitKnown' /\ CapUnderWay'
        BY <2>3, <2>4 DEF CapInv, LimitKnown, CapUnderWay
      <3>4. ReplayOwed'
        BY <1>1, <2>3, <2>4, <3>2 DEF CapInv, ReplayOwed, Wanted, Replayable
      <3>5. QED
        BY <1>3, <2>3, <3>3, <3>4 DEF CapInv
    <2>5. CASE sub' = "call" /\ chosen' = limit
      <3>1. CapUnderWay'
        BY <1>1, <2>2, <2>3, <2>5 DEF CapInv, CapUnderWay, CapFollows
      <3>2. LimitKnown'
        BY <2>3, <2>5 DEF CapInv, LimitKnown
      <3>3. Replayable'
        BY <2>3 DEF CapInv, ReplayOwed, Replayable, Typed, NativeTyped
      <3>4. ReplayOwed'
        BY <1>1, <2>2, <2>3, <2>5, <3>3 DEF CapInv, ReplayOwed, Wanted
      <3>5. QED
        BY <1>3, <2>3, <3>1, <3>2, <3>4 DEF CapInv
    <2>6. QED
      BY <1>5, <2>1, <2>4, <2>5 DEF Decide, Leave
  <1>6. CASE Call
    <2>1. /\ sub = "call" /\ sub' \in {"retry", "publish"} /\ answered' \in BOOLEAN
          /\ answered' => provider' = chosen
          /\ sub' = "publish" /\ ~answered' => chosen = Native
          /\ UNCHANGED <<cap, ready, pending, behind, native, ownerPresents, chosen>>
      <3>1. PICK ok \in BOOLEAN :
              /\ answered' = ok /\ overridden' = (~ok /\ chosen # Native)
              /\ ok => provider' = chosen
              /\ sub' = IF overridden' THEN "retry" ELSE "publish"
        BY <1>6 DEF Call
      <3>2. sub = "call" /\ UNCHANGED <<cap, ready, pending, behind, native, ownerPresents, chosen>>
        BY <1>6 DEF Call, guardCap
      <3>3. QED
        BY <3>1, <3>2
    <2>2. QED
      BY <1>1, <1>3, <2>1, NotCaps DEF CapInv, CapUnderWay, LimitKnown, ReplayOwed, Wanted, Replayable
  <1>7. CASE RetryNative
    <2>1. /\ sub = "retry" /\ sub' = "publish" /\ chosen' = Native /\ (answered' => provider' = Native)
          /\ ready' = FALSE /\ cap' = 0 /\ UNCHANGED <<native, ownerPresents>>
      BY <1>7 DEF RetryNative
    <2>2. CapFollows'
      BY <1>1, <2>1 DEF CapInv, CapFollows
    <2>3. QED
      BY <1>1, <2>1, <2>2, NotCaps DEF CapInv, CapUnderWay, LimitKnown, ReplayOwed, Wanted, Replayable
  <1>8. CASE Publish
    <2>1. /\ sub = "publish" /\ sub' = "idle" /\ accepted' = IF answered THEN chosen ELSE Unknown
          /\ succeeded' = answered /\ ack' \in {0, cap} /\ (ack' # 0 => answered /\ chosen \in Caps)
          /\ UNCHANGED <<cap, ready, pending, native, provider, ownerPresents>>
      BY <1>8 DEF Publish, NewSource, Leave, guardCap
    <2>2. LimitKnown'
      BY <2>1, NotCaps DEF CapInv, CapUnderWay, LimitKnown
    <2>3. ReplayOwed'
      BY <1>1, <2>1 DEF CapInv, LimitKnown, ReplayOwed, Wanted, Replayable
    <2>4. QED
      BY <1>3, <2>1, <2>2, <2>3 DEF CapInv, CapUnderWay
  <1>9. QED
    BY <1>1, <1>4, <1>5, <1>6, <1>7, <1>8 DEF Submission

LEMMA GameKeepsCap == ASSUME Typed, CapInv, Game PROVE CapInv'
  <1>1. CASE GiveOptions
    <2>1. /\ sub = "idle" /\ sub' = "decide" /\ native' # "none" /\ (ownerPresents => guard = "away")
          /\ UNCHANGED <<cap, ready, behind, provider, accepted, ack, succeeded, ownerPresents, queue, guard, oldCap>>
      BY <1>1, OptionsAssumption DEF GiveOptions, GameMayCall, HookedReflexSetOptions, guardCap, told, elsewhere,
         trials, locals
    <2>2. QED
      BY <2>1 DEF CapInv, CapFollows, CapUnderWay, LimitKnown, ReplayOwed
  <1>2. CASE Sleep
    <2>1. /\ sub = "idle" /\ sub' = IF Replayable THEN "replay" ELSE "idle"
          /\ ownerPresents => guard = "away"
          /\ UNCHANGED <<cap, ready, behind, native, provider, accepted, ack, succeeded, ownerPresents, queue, guard,
                         oldCap>>
      BY <1>2 DEF Sleep, GameMayCall, HookedReflexSleep, Replay, guardCap, told, elsewhere, trials, locals
    <2>2. QED
      BY <2>1 DEF CapInv, CapFollows, CapUnderWay, LimitKnown, ReplayOwed, Replayable
  <1>3. CASE PacerFallsBack
    BY <1>3 DEF PacerFallsBack, guardCap, provided, told, submission, elsewhere, trials, locals,
       CapInv, CapFollows, CapUnderWay, LimitKnown, ReplayOwed, Wanted, Replayable
  <1>4. QED
    BY <1>1, <1>2, <1>3, SubmitKeepsCap DEF Game

LEMMA OthersKeepCap == ASSUME Typed, CapInv, Others PROVE CapInv'
  <1> DEFINE Kept == UNCHANGED <<queue, guard, oldCap, sub, chosen, answered, native, provider, accepted, ack,
                                 succeeded, ownerPresents>>
             Withdrawn == \/ UNCHANGED <<cap, ready>> /\ (pending => pending')
                          \/ cap' = 0 /\ ready' = FALSE /\ (pending \/ ready => pending')
  <1>1. Kept /\ Withdrawn /\ behind \subseteq behind'
    <2> USE DEF guardCap, told, submission, trials, locals, untouched, provided, Typed, BehindTyped
    <2>1. ASSUME NEW m, SelectMode(m) PROVE Kept /\ Withdrawn /\ behind \subseteq behind'
      BY <2>1 DEF SelectMode
    <2>2. ASSUME NEW m, NotifyFixedMultiplierChanged(m) PROVE Kept /\ Withdrawn /\ behind \subseteq behind'
      BY <2>2 DEF NotifyFixedMultiplierChanged
    <2>3. CASE NotifySourceFpsCapChanged
      BY <2>3 DEF NotifySourceFpsCapChanged
    <2>4. CASE SelectPacing
      BY <2>4 DEF SelectPacing
    <2>5. CASE NotifySwapchainTransition
      BY <2>5 DEF NotifySwapchainTransition
    <2>6. QED
      BY <2>1, <2>2, <2>3, <2>4, <2>5 DEF Others
  <1>2. CapFollows'
    BY <1>1 DEF CapInv, CapFollows
  <1>3. CapUnderWay'
    BY <1>1 DEF CapInv, CapUnderWay
  <1>4. LimitKnown' /\ ReplayOwed'
    BY <1>1 DEF CapInv, LimitKnown, ReplayOwed, Wanted, Replayable
  <1>5. QED
    BY <1>2, <1>3, <1>4 DEF CapInv

LEMMA PresentKeepsCap == ASSUME Typed, CapInv, Present PROVE CapInv'
  <1> DEFINE Kept == UNCHANGED <<chosen, answered, native, provider, accepted, ack, succeeded, ownerPresents>>
  <1>1. ASSUME Kept, UNCHANGED <<cap, ready, queue, behind>>, guard # "cap", guard' \in {"away", "refresh", "try"},
               ownerPresents => sub = "idle", NEW p \in BOOLEAN, RefreshOr(p)
        PROVE  CapInv'
    <2>1. \/ UNCHANGED sub /\ pending' = TRUE
          \/ sub = "idle" /\ Replayable /\ sub' = "replay"
          \/ sub = "idle" /\ ~Replayable /\ sub' = "idle"
      BY <1>1 DEF RefreshOr, Replay
    <2>2. CapFollows'
      BY <1>1 DEF CapInv, CapFollows
    <2>3. CapUnderWay'
      BY <1>1, <2>1 DEF CapInv, CapUnderWay
    <2>4. LimitKnown'
      BY <1>1, <2>1 DEF CapInv, LimitKnown
    <2>5. ReplayOwed'
      BY <1>1, <2>1 DEF CapInv, ReplayOwed, Wanted, Replayable
    <2>6. QED
      BY <2>2, <2>3, <2>4, <2>5 DEF CapInv
  <1> USE DEF guardCap, told, submission, trials, locals, provided
  <1>2. CASE UpdatePacing
    <2>1. /\ Kept /\ UNCHANGED <<queue, oldCap, sub>> /\ guard = "away" /\ guard' = "enter"
          /\ ownerPresents => sub = "idle"
          /\ behind \subseteq behind'
          /\ \/ UNCHANGED <<cap, ready>> /\ (pending => pending')
             \/ cap' = 0 /\ ready' = FALSE /\ pending'
      BY <1>2 DEF UpdatePacing, PresentMayRun, Typed, BehindTyped
    <2>2. CapFollows' /\ CapUnderWay' /\ LimitKnown'
      BY <2>1 DEF CapInv, CapFollows, CapUnderWay, LimitKnown
    <2>3. ReplayOwed'
      BY <2>1 DEF CapInv, ReplayOwed, Wanted, Replayable
    <2>4. QED
      BY <2>2, <2>3 DEF CapInv
  <1>3. CASE EnterGuard
    <2>1. Kept /\ UNCHANGED queue /\ guard = "enter" /\ guard' \in {"away", "refresh"}
      BY <1>3 DEF EnterGuard, Return
    <2>2. ownerPresents => sub = "idle"
      BY <2>1 DEF CapInv, ReplayOwed
    <2>3. CASE UNCHANGED <<cap, ready, behind, sub, pending>>
      BY <2>1, <2>3 DEF CapInv, CapFollows, CapUnderWay, LimitKnown, ReplayOwed, Wanted, Replayable
    <2>4. CASE UNCHANGED <<cap, ready, behind>> /\ RefreshOr(FALSE)
      BY <1>1, <2>1, <2>2, <2>4
    <2>5. CASE cap' = 0 /\ ready' = FALSE /\ behind' = Holders /\ pending' = TRUE /\ UNCHANGED sub
      BY <2>1, <2>5 DEF CapInv, CapFollows, CapUnderWay, LimitKnown, ReplayOwed, Wanted, Replayable, Holders
    <2>6. QED
      BY <1>3, <2>3, <2>4, <2>5 DEF EnterGuard
  <1>4. CASE LeaveGuard
    <2>1. Kept /\ UNCHANGED <<cap, ready, behind, queue, sub, pending>> /\ guard = "refresh" /\ guard' = "away"
      BY <1>4 DEF LeaveGuard, Return, reflexVars
    <2>2. QED
      BY <2>1 DEF CapInv, CapFollows, CapUnderWay, LimitKnown, ReplayOwed, Wanted, Replayable
  <1>5. CASE Sample
    <2>1. /\ Kept /\ UNCHANGED <<cap, ready, behind, queue>> /\ guard = "refresh" /\ guard' = "try"
          /\ ownerPresents => sub = "idle"
          /\ RefreshOr(TRUE) \/ UNCHANGED <<sub, pending>>
      BY <1>5 DEF Sample, PresentMayRun
    <2>2. CASE UNCHANGED <<sub, pending>>
      BY <2>1, <2>2 DEF CapInv, CapFollows, CapUnderWay, LimitKnown, ReplayOwed, Wanted, Replayable
    <2>3. QED
      BY <1>1, <2>1, <2>2
  <1>6. CASE TryMultiplier
    <2>1. /\ Kept /\ UNCHANGED <<cap, ready, queue, sub, pending>> /\ guard = "try" /\ guard' = "trim"
          /\ ownerPresents => sub = "idle"
          /\ behind' = behind \ {"multiplier"}
      BY <1>6 DEF TryMultiplier, PresentMayRun
    <2>2. QED
      BY <2>1 DEF CapInv, CapFollows, CapUnderWay, LimitKnown, ReplayOwed, Wanted, Replayable
  <1>7. CASE TrimQueue
    <2>1. /\ Kept /\ UNCHANGED <<cap, ready, sub, pending>> /\ guard = "trim" /\ guard' = "cap" /\ oldCap' = cap
          /\ behind' = behind \ {"queue"}
      BY <1>7 DEF TrimQueue
    <2>2. Succeeds(queue, queue')
      BY <1>7, TrimmedQueue
    <2>3. CapFollows' /\ CapUnderWay'
      BY <2>1, <2>2, NotCaps DEF CapInv, CapFollows, CapUnderWay, Succeeds
    <2>4. LimitKnown' /\ ReplayOwed'
      BY <2>1 DEF CapInv, LimitKnown, ReplayOwed, Wanted, Replayable
    <2>5. QED
      BY <2>3, <2>4 DEF CapInv
  <1>8. CASE StoreCap
    <2>1. /\ Kept /\ UNCHANGED <<sub, pending, behind>> /\ guard = "cap" /\ guard' \in {"away", "last"}
          /\ cap' = queue.cap /\ ready' = (queue.cap # 0)
          /\ cap' # oldCap => guard' = "last"
      BY <1>8 DEF StoreCap, Return
    <2>2. queue'.cap = queue.cap /\ queue'.cooling = (queue.cooling /\ sub # "idle")
      BY <1>8, CooledType DEF StoreCap, Typed
    <2>3. CapFollows' /\ CapUnderWay'
      BY <2>1, <2>2, NotCaps DEF CapInv, CapFollows, CapUnderWay
    <2>4. Wanted => Wanted'
      BY <2>1 DEF CapInv, CapFollows, Wanted
    <2>5. LimitKnown' /\ ReplayOwed'
      BY <2>1, <2>4 DEF CapInv, LimitKnown, ReplayOwed, Replayable
    <2>6. QED
      BY <2>3, <2>5 DEF CapInv
  <1>9. CASE RefreshChanged
    <2>1. /\ Kept /\ UNCHANGED <<cap, ready, behind, queue>> /\ guard = "last" /\ guard' = "away" /\ RefreshOr(TRUE)
      BY <1>9 DEF RefreshChanged, Return
    <2>2. ownerPresents => sub = "idle"
      BY <2>1 DEF CapInv, ReplayOwed
    <2>3. QED
      BY <1>1, <2>1, <2>2
  <1>10. QED
    BY <1>2, <1>3, <1>4, <1>5, <1>6, <1>7, <1>8, <1>9 DEF Present

LEMMA CapInductive == Spec => []CapInv
  <1>1. Init => CapInv
    BY NotCaps DEF Init, ReflexInit, NoTrial, CapInv, CapFollows, CapUnderWay, LimitKnown, ReplayOwed
  <1>2. ASSUME Typed, CapInv, [Next]_vars PROVE CapInv'
    <2>1. CASE UNCHANGED vars
      <3>1. UNCHANGED <<reflexVars, queue, guard, oldCap>>
        BY <2>1 DEF vars, trials, locals
      <3>2. UNCHANGED <<cap, ready, pending, behind, native, provider, accepted, ack, succeeded, ownerPresents,
                        sub, chosen, answered>>
        BY <3>1 DEF reflexVars, guardCap, told, submission
      <3>3. CapFollows' /\ CapUnderWay'
        BY <1>2, <3>1, <3>2 DEF CapInv, CapFollows, CapUnderWay
      <3>4. LimitKnown' /\ ReplayOwed'
        BY <1>2, <3>1, <3>2 DEF CapInv, LimitKnown, ReplayOwed, Wanted, Replayable
      <3>5. QED
        BY <3>3, <3>4 DEF CapInv
    <2>2. QED
      BY <1>2, <2>1, PresentKeepsCap, GameKeepsCap, OthersKeepCap DEF Next
  <1>3. QED
    BY <1>1, <1>2, Inductive, PTL DEF Spec

(* With any number of caps and whichever thread gives the options: a cap   *)
(* that a trial measures or keeps is the one that Streamline runs with.    *)
THEOREM AcknowledgedInForce == Spec => []AcknowledgedCapInForce
  <1>1. CapInv => AcknowledgedCapInForce
    BY NotCaps DEF CapInv, LimitKnown, AcknowledgedCapInForce, ReadQueueCapAck
  <1>2. QED
    BY <1>1, CapInductive, PTL

(* A withdrawn cap is never left in force without a replay on the way.     *)
THEOREM WithdrawnIsRestored == Spec => []WithdrawnCapRestored
  <1>1. CapInv => WithdrawnCapRestored
    BY DEF CapInv, ReplayOwed, Wanted, WithdrawnCapRestored
  <1>2. QED
    BY <1>1, CapInductive, PTL

============================================================================
