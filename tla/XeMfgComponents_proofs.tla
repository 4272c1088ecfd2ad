------------------------ MODULE XeMfgComponents_proofs ------------------------
(***************************************************************************)
(* What the components of XeMFG guarantee, for every size of their         *)
(* instances: a section each, as in DlssgComponents_proofs.                *)
(***************************************************************************)
EXTENDS Components, FiniteSetTheorems, SequenceTheorems, TLAPS

(* The waits' instance counts as this module does.                         *)
LEMMA SameCardinality == \A S : Waits!Cardinality(S) = Cardinality(S)
  BY DEF Waits!Cardinality, Cardinality

----------------------------------------------------------------------------
(* The contexts of Intel's frame generation (XeFGContexts).                *)

(* The inductive invariant.  Nothing is known of contexts before the hooks *)
(* are in; the SDK's sets are those alive; a context is with the model or  *)
(* without, never both; and what counts as initialized is paced.           *)

NothingSeen == ~XeFG!Hooked => XeFG!Modelled = {} /\ native = {} /\ paced = {} /\ owning = {} /\ on = {}

OfTheLiving == on \cup opening \cup owning \cup native \cup paced \cup XeFG!Modelled \subseteq live

WithOrWithout ==
  /\ XeFG!Modelled \cap native = {}
  /\ XeFG!Modelled # {} => model = "ready"
  /\ model = "ready" => native = {}

InitializedArePaced == \A h \in XeFG!Modelled : contexts[h].initialized => h \in paced

XeFGInv ==
  /\ XeFG!TypeOK /\ NothingSeen /\ OfTheLiving /\ WithOrWithout /\ InitializedArePaced
  /\ on \cap XeFG!Modelled \subseteq paced

(* Nothing was created at first.                                           *)
LEMMA XeFGInit == XeFG!Init => XeFGInv
  BY DEF XeFG!Init, XeFGInv, XeFG!TypeOK, NothingSeen, OfTheLiving, WithOrWithout, InitializedArePaced,
     XeFG!Modelled, XeFG!Hooked

(* Creating: a new context is neither on nor initialized, and the model is *)
(* published only over no context known to be without it.                  *)
LEMMA XeFGCreateStep ==
  ASSUME XeFGInv, NEW h \in Handles, XeFG!CreateUnseen(h) \/ XeFG!CreateForOther(h) \/ \E o \in XeFG!Owners : XeFG!Create(o, h)
  PROVE  XeFGInv'
  <1> USE DEF XeFGInv, XeFG!TypeOK, NothingSeen, OfTheLiving, WithOrWithout, InitializedArePaced, XeFG!Modelled, XeFG!Hooked
  <1>1. CASE XeFG!CreateUnseen(h)
    BY <1>1 DEF XeFG!CreateUnseen
  <1>2. CASE XeFG!CreateForOther(h)
    BY <1>2 DEF XeFG!CreateForOther
  <1>3. ASSUME NEW o \in XeFG!Owners, XeFG!Create(o, h) PROVE XeFGInv'
    <2>1. model' \in {"none", "ready", "rejected"} /\ (model' # model => model = "none" /\ native = {})
      BY <1>3 DEF XeFG!Create, XeFG!Prepare
    <2>2. model = "ready" => model' = "ready"
      BY <1>3 DEF XeFG!Create, XeFG!Prepare
    <2>3. CASE UNCHANGED <<live, contexts, native>>
      BY <1>3, <2>1, <2>2, <2>3 DEF XeFG!Create
    <2>4. CASE /\ live' = live \cup {h} /\ model' = "ready"
               /\ contexts' = [c \in XeFG!Modelled \cup {h} |->
                     IF c = h THEN [owner |-> o, initialized |-> FALSE, generated |-> 0, requested |-> 0]
                     ELSE contexts[c]]
               /\ UNCHANGED native
      <3>1. DOMAIN contexts' = XeFG!Modelled \cup {h}
        BY <2>4
      <3>2. \A c \in XeFG!Modelled : contexts'[c] = contexts[c]
        BY <1>3, <2>4 DEF XeFG!Create
      <3>3. contexts'[h] = [owner |-> o, initialized |-> FALSE, generated |-> 0, requested |-> 0]
        BY <2>4
      <3>4. contexts'[h] \in XeFG!Context
        BY <3>3 DEF XeFG!Context
      <3>5. contexts' \in [XeFG!Modelled' -> XeFG!Context]
        BY <2>4, <3>1, <3>2, <3>4
      <3>6. InitializedArePaced'
        BY <1>3, <3>1, <3>2, <3>3 DEF XeFG!Create
      <3>7. /\ h \in Handles \ live /\ XeFG!Hooked
            /\ UNCHANGED <<startup, on, paced, opening, owning, user>>
        BY <1>3 DEF XeFG!Create
      <3>8. NothingSeen' /\ OfTheLiving' /\ (on \cap XeFG!Modelled \subseteq paced)'
        BY <2>4, <3>1, <3>7
      <3>9. WithOrWithout'
        BY <2>1, <2>4, <3>1, <3>7
      <3>10. QED
        BY <2>1, <2>4, <3>5, <3>6, <3>7, <3>8, <3>9
    <2>5. CASE live' = live \cup {h} /\ model' # "ready" /\ native' = native \cup {h} /\ UNCHANGED contexts
      BY <1>3, <2>1, <2>2, <2>5 DEF XeFG!Create
    <2>6. QED
      BY <1>3, <2>3, <2>4, <2>5 DEF XeFG!Create
  <1>4. QED
    BY <1>1, <1>2, <1>3

(* Initializing: pacing lost is pacing taken back, and turned off.         *)
LEMMA XeFGInitializeStep ==
  ASSUME XeFGInv, NEW h \in Handles, XeFG!Announce(h) \/ XeFG!Initialize(h)
  PROVE  XeFGInv'
  <1> USE DEF XeFGInv, XeFG!TypeOK, NothingSeen, OfTheLiving, WithOrWithout, XeFG!Modelled, XeFG!Hooked
  <1>1. CASE XeFG!Announce(h)
    BY <1>1 DEF XeFG!Announce, InitializedArePaced
  <1>2. CASE XeFG!Initialize(h)
    <2>1. CASE UNCHANGED <<on, contexts, paced, owning>>
      BY <1>2, <2>1 DEF XeFG!Initialize, InitializedArePaced
    <2>2. CASE h \notin XeFG!Modelled /\ UNCHANGED <<on, contexts, paced>> /\ owning' \in {owning, owning \cup {h}}
               /\ (owning' # owning => h \in native)
      BY <1>2, <2>2 DEF XeFG!Initialize, InitializedArePaced
    <2>3. ASSUME h \in XeFG!Modelled, NEW register \in BOOLEAN,
                 contexts' = [contexts EXCEPT ![h].initialized = register],
                 paced' = IF register THEN paced \cup {h} ELSE paced \ {h},
                 on' = IF register THEN on ELSE XeFG!TurnOff(h),
                 owning' \in {owning, owning \cup {h}}
          PROVE  XeFGInv'
      <3>1. XeFG!Modelled' = XeFG!Modelled /\ contexts' \in [XeFG!Modelled -> XeFG!Context]
        BY <2>3 DEF XeFG!Context
      <3>2. /\ contexts'[h].initialized = register
            /\ \A c \in XeFG!Modelled : c # h => contexts'[c] = contexts[c]
        BY <2>3 DEF XeFG!Context
      <3>3. InitializedArePaced'
        BY <2>3, <3>1, <3>2 DEF InitializedArePaced
      <3>4. (on \cap XeFG!Modelled \subseteq paced)' /\ on' \subseteq on /\ paced' \subseteq paced \cup {h}
        BY <2>3, <3>1 DEF XeFG!TurnOff
      <3>5. QED
        BY <1>2, <2>3, <3>1, <3>3, <3>4 DEF XeFG!Initialize
    <2>4. QED
      BY <1>2, <2>1, <2>2, <2>3 DEF XeFG!Initialize, XeFG!GameOwned
  <1>3. QED
    BY <1>1, <1>2

(* Counts and enabling touch neither what is initialized nor the pacing,   *)
(* and only an initialized context is turned on.                           *)
LEMMA XeFGCountStep ==
  ASSUME XeFGInv, NEW h \in Handles,
         XeFG!LastStatus(h) \/ (\E turned \in BOOLEAN : XeFG!Enable(h,
         turned)) \/ (\E count \in ContextCounts : XeFG!Count(h, count))
  PROVE  XeFGInv'
  <1> USE DEF XeFGInv, XeFG!TypeOK, NothingSeen, OfTheLiving, WithOrWithout, XeFG!Modelled, XeFG!Hooked
  <1>1. /\ XeFG!Modelled' = XeFG!Modelled /\ contexts' \in [XeFG!Modelled -> XeFG!Context]
        /\ \A c \in XeFG!Modelled : contexts'[c].initialized = contexts[c].initialized
    <2>1. CASE \/ UNCHANGED contexts
               \/ h \in XeFG!Modelled /\ user \in ContextCounts /\ contexts' = [contexts EXCEPT ![h].generated = user]
      BY <2>1 DEF XeFG!Context
    <2>2. ASSUME NEW count \in ContextCounts, XeFG!Count(h, count)
          PROVE  /\ XeFG!Modelled' = XeFG!Modelled /\ contexts' \in [XeFG!Modelled -> XeFG!Context]
                 /\ \A c \in XeFG!Modelled : contexts'[c].initialized = contexts[c].initialized
      <3>1. contexts[h] \in XeFG!Context
        BY <2>2 DEF XeFG!Count
      <3> DEFINE c == contexts[h]
                 noted == [c EXCEPT !.requested = IF c.owner = "game" THEN count ELSE @]
      <3>2. noted \in XeFG!Context /\ noted.initialized = c.initialized
        BY <3>1 DEF XeFG!Context
      <3>3. \A n \in ContextCounts : [noted EXCEPT !.generated = n] \in XeFG!Context
                              /\ [noted EXCEPT !.generated = n].initialized = c.initialized
        BY <3>2 DEF XeFG!Context
      <3>4. PICK n \in ContextCounts : \/ contexts' = [contexts EXCEPT ![h] = noted]
                               \/ contexts' = [contexts EXCEPT ![h] = [noted EXCEPT !.generated = n]]
        BY <2>2 DEF XeFG!Count
      <3> HIDE DEF noted
      <3>5. CASE contexts' = [contexts EXCEPT ![h] = noted]
        BY <3>2, <3>5
      <3>6. CASE contexts' = [contexts EXCEPT ![h] = [noted EXCEPT !.generated = n]]
        BY <3>3, <3>6
      <3>7. QED
        BY <3>4, <3>5, <3>6
    <2>3. CASE XeFG!ApplyGameCount(h)
      BY <2>1, <2>3 DEF XeFG!ApplyGameCount, XeFG!MayApply
    <2>4. QED
      BY <2>1, <2>2, <2>3 DEF XeFG!LastStatus, XeFG!Enable
  <1>2. UNCHANGED <<startup, model, live, native, paced, opening, owning, user>>
    BY DEF XeFG!LastStatus, XeFG!Enable, XeFG!Count
  <1>3. InitializedArePaced'
    BY <1>1, <1>2 DEF InitializedArePaced
  <1>4. on' \subseteq on \cup {h} /\ (on' = on \/ (XeFG!Hooked /\ h \in live))
    BY DEF XeFG!LastStatus, XeFG!Enable, XeFG!Count
  <1>5. (on \cap XeFG!Modelled \subseteq paced)'
    <2>1. h \in on' /\ h \notin on => (h \in XeFG!Modelled => contexts[h].initialized)
      BY DEF XeFG!LastStatus, XeFG!Enable, XeFG!Count
    <2>2. QED
      BY <1>1, <1>2, <1>4, <2>1 DEF InitializedArePaced
  <1>6. QED
    BY <1>1, <1>2, <1>3, <1>4, <1>5

(* A context that is destroyed is forgotten.                               *)
LEMMA XeFGDestroyStep == ASSUME XeFGInv, NEW h \in Handles, XeFG!Destroy(h) PROVE XeFGInv'
  <1> USE DEF XeFGInv, XeFG!TypeOK, NothingSeen, OfTheLiving, WithOrWithout, InitializedArePaced, XeFG!Modelled, XeFG!Hooked
  <1>1. CASE XeFG!Hooked
    <2>1. /\ contexts' = [c \in XeFG!Modelled \ {h} |-> contexts[c]]
          /\ owning' = owning \ {h} /\ native' = native \ {h} /\ paced' = paced \ {h}
      BY <1>1 DEF XeFG!Destroy
    <2>2. contexts' \in [XeFG!Modelled' -> XeFG!Context] /\ XeFG!Modelled' = XeFG!Modelled \ {h}
      BY <2>1
    <2>3. \A c \in XeFG!Modelled' : contexts'[c] = contexts[c]
      BY <2>1, <2>2
    <2>4. QED
      BY <1>1, <2>1, <2>2, <2>3 DEF XeFG!Destroy
  <1>2. CASE ~XeFG!Hooked
    BY <1>2 DEF XeFG!Destroy
  <1>3. QED
    BY <1>1, <1>2

(* Every step keeps it.                                                    *)
LEMMA XeFGStep == ASSUME XeFGInv, [XeFG!Next]_(XeFG!vars) PROVE XeFGInv'
  <1> USE DEF XeFGInv, XeFG!TypeOK, NothingSeen, OfTheLiving, WithOrWithout, InitializedArePaced, XeFG!Modelled, XeFG!Hooked
  <1>1. CASE UNCHANGED XeFG!vars
    BY <1>1 DEF XeFG!vars
  <1>2. CASE XeFG!Start
    BY <1>2 DEF XeFG!Start
  <1>3. CASE XeFG!SetGameMultiplier
    BY <1>3 DEF XeFG!SetGameMultiplier
  <1>4. QED
    BY <1>1, <1>2, <1>3, XeFGCreateStep, XeFGInitializeStep, XeFGCountStep,
       XeFGDestroyStep DEF XeFG!Next

(* The type and the claim follow.                                          *)
LEMMA XeFGSafe == XeFGInv => XeFG!TypeOK /\ XeFG!ModelIsPaced
  BY DEF XeFGInv, OfTheLiving, WithOrWithout, XeFG!ModelIsPaced

----------------------------------------------------------------------------
(* The waits and markers of Intel's latency queue (XeMfgWaits).            *)

Calls == [at : {"idle", "resolved", "waiting", "forward"},
          id : 0..MaxWaitId, marker : Waits!Markers \cup {Waits!Nothing}]

\* What one frame of the store may hold.
WaitedFirst(i, f) ==
  /\ f.slept => i <= xell.last /\ ~f.inFlight
  /\ f.markers # {} => f.slept
  /\ "simEnd" \in f.markers => "simStart" \in f.markers

\* A wait that is on holds the flag, is the newest, and its frame has nothing yet.
OneWaiter ==
  /\ xell.last <= lastWait
  /\ \A t \in Waits!Threads : call[t].at = "waiting" =>
       /\ waiting /\ call[t].id = lastWait /\ xell.last < lastWait
       /\ call[t].id \in DOMAIN frame => ~frame[call[t].id].slept
  /\ \A t, u \in Waits!Threads : call[t].at = "waiting" /\ call[u].at = "waiting" => t = u

WaitsInv ==
  /\ Waits!TypeOK
  /\ \A t \in Waits!Threads : call[t].at = "forward" => call[t].marker \in Waits!Markers
  /\ \A t \in Waits!Threads : call[t].at # "idle" => call[t].id \in Waits!Ids
  /\ \A i \in DOMAIN frame : WaitedFirst(i, frame[i])
  /\ OneWaiter

(* A bridge that was just opened has served no wait.                       *)
LEMMA WaitsInit == Waits!Init => WaitsInv
  <1> SUFFICES ASSUME Waits!Init PROVE WaitsInv
    OBVIOUS
  <1>1. Waits!TypeOK
    <2>1. DOMAIN frame = {}
      BY DEF Waits!Init
    <2>2. Cardinality(DOMAIN frame) = 0
      BY <2>1, FS_EmptySet
    <2>3. call \in [Waits!Threads -> Calls]
      BY WaitsAssumption DEF Waits!Init, Waits!Idle, Calls, Waits!Nothing
    <2>4. xell \in [last : 0..MaxWaitId, failed : BOOLEAN]
      BY WaitsAssumption DEF Waits!Init
    <2>5. /\ waiting = FALSE /\ lastWait = 0 /\ unslept = 0 /\ last = 0 /\ presenting = 0
          /\ closed = FALSE /\ calls = 0
      BY DEF Waits!Init
    <2>6. lastWait \in 0..MaxWaitId /\ unslept \in 0..Boundary /\ last \in 0..MaxWaitId
          /\ presenting \in 0..MaxWaitId /\ calls \in 0..MaxCalls /\ 0 <= Capacity
      BY <2>5, WaitsAssumption
    <2>7. call \in [Waits!Threads -> [at : {"idle", "resolved", "waiting", "forward"},
                               id : 0..MaxWaitId, marker : Waits!Markers \cup {Waits!Nothing}]]
      BY <2>3 DEF Calls
    <2> QED
      BY <2>1, <2>2, <2>4, <2>5, <2>6, <2>7, SameCardinality, Zenon DEF Waits!TypeOK
  <1>2. DOMAIN frame = {}
    BY DEF Waits!Init
  <1> QED
    BY <1>1, <1>2 DEF Waits!Init, WaitsInv, OneWaiter, Waits!Idle

\* The store with one frame put into it.
LEMMA StorePut ==
  ASSUME Waits!TypeOK, NEW id \in Waits!Ids, NEW f \in Waits!Frame, Waits!MayAcquire(id), frame' = Waits!Put(id, f)
  PROVE  /\ DOMAIN frame' = DOMAIN frame \cup {id}
         /\ DOMAIN frame' \subseteq Waits!Ids
         /\ frame'[id] = f
         /\ \A i \in DOMAIN frame : i # id => frame'[i] = frame[i]
         /\ \A i \in DOMAIN frame' : frame'[i] \in Waits!Frame
         /\ Cardinality(DOMAIN frame') <= Capacity
  <1>1. DOMAIN frame' = DOMAIN frame \cup {id}
    BY DEF Waits!Put
  <1>2. IsFiniteSet(DOMAIN frame) /\ Cardinality(DOMAIN frame) \in Nat
    <2>1. IsFiniteSet(Waits!Ids)
      BY FS_Interval, WaitsAssumption DEF Waits!Ids
    <2> QED
      BY <2>1, FS_Subset, FS_CardinalityType DEF Waits!TypeOK
  <1>3. Cardinality(DOMAIN frame') <= Capacity
    <2>1. CASE id \in DOMAIN frame
      <3>1. DOMAIN frame' = DOMAIN frame
        BY <1>1, <2>1
      <3> QED
        BY <3>1, SameCardinality DEF Waits!TypeOK
    <2>2. CASE id \notin DOMAIN frame
      <3>1. Cardinality(DOMAIN frame') = Cardinality(DOMAIN frame) + 1
        BY <1>1, <1>2, <2>2, FS_AddElement
      <3> QED
        BY <1>2, <2>2, <3>1, WaitsAssumption, SameCardinality DEF Waits!MayAcquire
    <2> QED
      BY <2>1, <2>2
  <1> QED
    BY <1>1, <1>3 DEF Waits!Put, Waits!TypeOK

(* What is taken of the store is a frame.                                  *)
LEMMA AcquiredIsFrame ==
  ASSUME Waits!TypeOK, NEW id \in Waits!Ids
  PROVE  Waits!Acquire(id) \in Waits!Frame
  <1>1. Waits!Fresh \in Waits!Frame
    BY WaitsAssumption DEF Waits!Fresh, Waits!Frame
  <1> QED
    BY <1>1 DEF Waits!Acquire, Waits!TypeOK

(* ... and one that had its wait, if it has anything.                      *)
LEMMA AcquiredWaited ==
  ASSUME WaitsInv, NEW id \in Waits!Ids
  PROVE  WaitedFirst(id, Waits!Acquire(id))
  BY DEF WaitsInv, WaitedFirst, Waits!Acquire, Waits!Fresh

\* A step that puts one such frame into the store keeps the store.
LEMMA StoreKept ==
  ASSUME WaitsInv, NEW id \in Waits!Ids, NEW f \in Waits!Frame, Waits!MayAcquire(id), frame' = Waits!Put(id, f),
         xell.last <= xell'.last, xell.last \in Nat, xell'.last \in Nat, WaitedFirst(id, f)'
  PROVE  \A i \in DOMAIN frame' : WaitedFirst(i, frame[i])'
  <1>1. Waits!TypeOK
    BY DEF WaitsInv
  <1> SUFFICES ASSUME NEW i \in DOMAIN frame' PROVE WaitedFirst(i, frame[i])'
    OBVIOUS
  <1>2. DOMAIN frame' = DOMAIN frame \cup {id} /\ frame'[id] = f /\ DOMAIN frame' \subseteq Waits!Ids
        /\ \A j \in DOMAIN frame : j # id => frame'[j] = frame[j]
    BY <1>1, StorePut
  <1>3. i \in Nat
    BY <1>2, WaitsAssumption DEF Waits!Ids
  <1>4. CASE i = id
    BY <1>2, <1>4
  <1>5. CASE i # id
    <2>1. frame'[i] = frame[i] /\ WaitedFirst(i, frame[i])
      BY <1>2, <1>5 DEF WaitsInv
    <2> QED
      BY <1>3, <2>1 DEF WaitedFirst
  <1> QED
    BY <1>4, <1>5

(* Every call of the game and of the bridge keeps it.                      *)
LEMMA WaitsStep == WaitsInv /\ [Waits!Next]_(Waits!vars) => WaitsInv'
  <1> SUFFICES ASSUME WaitsInv, [Waits!Next]_(Waits!vars) PROVE WaitsInv'
    OBVIOUS
  <1>0. Waits!TypeOK /\ xell.last \in Nat /\ lastWait \in Nat /\ MaxWaitId \in Nat
    BY WaitsAssumption DEF WaitsInv, Waits!TypeOK
  <1>1. ASSUME NEW id \in Waits!Ids, Waits!AssociateSourceSleep(id) PROVE WaitsInv'
    <2>1. /\ call["input"] = Waits!Idle /\ ~closed /\ Waits!MayAcquire(id) /\ calls' \in 0..MaxCalls
          /\ UNCHANGED <<waiting, lastWait, unslept, last, presenting, closed, xell>>
      BY <1>0, <1>1, WaitsAssumption DEF Waits!AssociateSourceSleep, Waits!Called, Waits!TypeOK
    <2>2. call \in [Waits!Threads -> Calls] /\ "input" \in Waits!Threads
      BY <1>0 DEF Waits!TypeOK, Calls, Waits!Threads
    <2>3. Waits!Acquire(id) \in Waits!Frame /\ WaitedFirst(id, Waits!Acquire(id)) /\ id \in Nat
      BY <1>0, AcquiredIsFrame, AcquiredWaited DEF Waits!Ids
    <2>4. PICK selected \in Nat :
            /\ selected <= MaxWaitId
            /\ \/ frame' = Waits!Put(id, Waits!Acquire(id)) /\ UNCHANGED call
               \/ /\ selected # 0 /\ frame' = Waits!Put(id, [Waits!Acquire(id) EXCEPT !.target = selected])
                  /\ call' = [call EXCEPT !["input"] = [at |-> "resolved", id |-> selected, marker |-> Waits!Nothing]]
      <3> DEFINE g   == Waits!Acquire(id)
                 sel == IF g.target # 0 THEN g.target ELSE Waits!SourceSleepFrame(id, g.observed)
      <3>1. sel \in Nat
        BY <1>0, <2>3 DEF Waits!SourceSleepFrame, Waits!Frame
      <3> QED
        BY <1>1, <3>1 DEF Waits!AssociateSourceSleep, Waits!Go
    <2>5. PICK f \in Waits!Frame : /\ frame' = Waits!Put(id, f) /\ f.slept = Waits!Acquire(id).slept
                                   /\ f.markers = Waits!Acquire(id).markers /\ f.inFlight = Waits!Acquire(id).inFlight
      BY <1>0, <2>3, <2>4 DEF Waits!Frame
    <2>6. \A i \in DOMAIN frame' : WaitedFirst(i, frame[i])'
      <3>1. WaitedFirst(id, f)'
        BY <2>1, <2>3, <2>5 DEF WaitedFirst
      <3> QED
        BY <1>0, <2>1, <2>5, <3>1, StoreKept
    <2>7. /\ DOMAIN frame' = DOMAIN frame \cup {id}
          /\ DOMAIN frame' \subseteq Waits!Ids /\ Cardinality(DOMAIN frame') <= Capacity
          /\ frame'[id] = f /\ \A i \in DOMAIN frame' : frame'[i] \in Waits!Frame
          /\ \A i \in DOMAIN frame : i # id => frame'[i] = frame[i]
      BY <1>0, <2>1, <2>5, StorePut
    <2>8. f.slept => id \in DOMAIN frame /\ frame[id].slept
      BY <2>5 DEF Waits!Acquire, Waits!Fresh
    <2>9. /\ call' \in [Waits!Threads -> Calls]
          /\ \A u \in Waits!Threads : \/ call'[u] = call[u]
                                      \/ call'[u].at = "resolved" /\ call'[u].id \in Waits!Ids
      <3>1. CASE UNCHANGED call
        BY <2>2, <3>1
      <3>2. CASE ~UNCHANGED call
        <4>1. [at |-> "resolved", id |-> selected, marker |-> Waits!Nothing] \in Calls /\ selected \in Waits!Ids
          BY <1>0, <2>4, <3>2 DEF Calls, Waits!Ids
        <4> QED
          BY <2>2, <2>4, <3>2, <4>1
      <3> QED
        BY <3>1, <3>2
    <2>10. Waits!TypeOK'
      BY <1>0, <2>1, <2>7, <2>9, SameCardinality DEF Waits!TypeOK, Calls
    <2>11. OneWaiter'
      BY <1>0, <2>1, <2>7, <2>8, <2>9 DEF WaitsInv, OneWaiter
    <2> QED
      BY <2>6, <2>9, <2>10, <2>11 DEF WaitsInv
  <1>2. ASSUME NEW id \in Waits!Ids, NEW m \in Waits!Markers, Waits!CaptureMarker(id, m) PROVE WaitsInv'
    <2> DEFINE c == [at |-> IF ~closed /\ Waits!MayAcquire(id) /\ Waits!BoundarySleep(id, m)
                           THEN "resolved" ELSE "forward", id |-> id, marker |-> m]
    <2>1. /\ call["main"] = Waits!Idle /\ calls' \in 0..MaxCalls /\ call' = [call EXCEPT !["main"] = c]
          /\ presenting' \in {id, presenting}
          /\ UNCHANGED <<waiting, lastWait, last, closed, xell>>
      BY <1>0, <1>2, WaitsAssumption DEF Waits!CaptureMarker, Waits!Called, Waits!Go, Waits!TypeOK
    <2>2. call \in [Waits!Threads -> Calls] /\ "main" \in Waits!Threads
      BY <1>0 DEF Waits!TypeOK, Calls, Waits!Threads
    <2>3. Waits!Acquire(id) \in Waits!Frame /\ WaitedFirst(id, Waits!Acquire(id)) /\ id \in Nat
      BY <1>0, AcquiredIsFrame, AcquiredWaited DEF Waits!Ids
    <2>4. c \in Calls /\ c.at \in {"resolved", "forward"} /\ c.id = id /\ c.marker = m
      BY <1>0 DEF Calls, Waits!Ids
    <2>5. /\ call' \in [Waits!Threads -> Calls] /\ call'["main"] = c
          /\ \A u \in Waits!Threads : u # "main" => call'[u] = call[u]
      <3> HIDE DEF c
      <3> QED
        BY <2>1, <2>2, <2>4
    <2>6. unslept' \in 0..Boundary
      BY <1>0, <1>2, WaitsAssumption DEF Waits!CaptureMarker, Waits!TypeOK
    <2> DEFINE Kept ==
          /\ DOMAIN frame' \subseteq Waits!Ids /\ Cardinality(DOMAIN frame') <= Capacity
          /\ \A i \in DOMAIN frame' : frame'[i] \in Waits!Frame /\ WaitedFirst(i, frame[i])'
          /\ \A i \in DOMAIN frame' : frame'[i].slept => i \in DOMAIN frame /\ frame[i].slept
    <2>7. Kept
      <3>1. CASE UNCHANGED frame
        BY <1>0, <2>1, <3>1, SameCardinality DEF WaitsInv, Waits!TypeOK, WaitedFirst
      <3>2. CASE Waits!MayAcquire(id) /\ frame' = Waits!Put(id, [Waits!Acquire(id) EXCEPT !.observed = @ \cup {m}])
        <4>1. PICK f \in Waits!Frame : /\ frame' = Waits!Put(id, f) /\ f.slept = Waits!Acquire(id).slept
                                       /\ f.markers = Waits!Acquire(id).markers /\ f.inFlight = Waits!Acquire(id).inFlight
          BY <2>3, <3>2 DEF Waits!Frame
        <4>2. WaitedFirst(id, f)'
          BY <2>1, <2>3, <4>1 DEF WaitedFirst
        <4>3. \A i \in DOMAIN frame' : WaitedFirst(i, frame[i])'
          <5>1. Waits!MayAcquire(id) /\ frame' = Waits!Put(id, f) /\ xell' = xell
            BY <2>1, <3>2, <4>1
          <5> QED
            BY <1>0, <4>2, <5>1, StoreKept
        <4>4. /\ DOMAIN frame' = DOMAIN frame \cup {id}
              /\ DOMAIN frame' \subseteq Waits!Ids /\ Cardinality(DOMAIN frame') <= Capacity
              /\ frame'[id] = f /\ \A i \in DOMAIN frame' : frame'[i] \in Waits!Frame
              /\ \A i \in DOMAIN frame : i # id => frame'[i] = frame[i]
          BY <1>0, <3>2, <4>1, StorePut
        <4>5. f.slept => id \in DOMAIN frame /\ frame[id].slept
          BY <4>1 DEF Waits!Acquire, Waits!Fresh
        <4> QED
          BY <4>3, <4>4, <4>5
      <3> QED
        BY <1>2, <3>1, <3>2 DEF Waits!CaptureMarker
    <2> HIDE DEF c
    <2>8. Waits!TypeOK'
      BY <1>0, <2>1, <2>5, <2>6, <2>7, SameCardinality DEF Waits!TypeOK, Calls, Waits!Ids
    <2>9. OneWaiter'
      BY <1>0, <2>1, <2>4, <2>5, <2>7 DEF WaitsInv, OneWaiter
    <2> QED
      BY <2>4, <2>5, <2>7, <2>8, <2>9 DEF WaitsInv
  <1>3. ASSUME NEW t \in Waits!Threads, Waits!BeginWait(t) PROVE WaitsInv'
    <2>0. PICK id \in Waits!Ids : id = call[t].id
      BY <1>3 DEF Waits!BeginWait, WaitsInv
    <2>1. call[t].at = "resolved" /\ call[t].id = id
          /\ UNCHANGED <<unslept, last, presenting, closed, xell, calls>>
      BY <1>3, <2>0 DEF Waits!BeginWait
    <2>2. call \in [Waits!Threads -> Calls] /\ call[t] \in Calls
      BY <1>0 DEF Waits!TypeOK, Calls
    <2>3. Waits!Acquire(id) \in Waits!Frame /\ WaitedFirst(id, Waits!Acquire(id)) /\ id \in Nat
      BY <1>0, <2>1, AcquiredIsFrame, AcquiredWaited DEF Waits!Ids
    <2>4. CASE /\ Waits!MayWait(id) /\ frame' = Waits!Put(id, [Waits!Acquire(id) EXCEPT !.inFlight = TRUE])
               /\ waiting' = TRUE /\ lastWait' = id
               /\ call' = [call EXCEPT ![t].at = "waiting"]
      <3>0. PICK f \in Waits!Frame : f = [Waits!Acquire(id) EXCEPT !.inFlight = TRUE]
        BY <2>3 DEF Waits!Frame
      <3>1. f.slept = FALSE /\ f.markers = Waits!Acquire(id).markers /\ Waits!Acquire(id).slept = FALSE
        BY <2>3, <2>4, <3>0 DEF Waits!Frame, Waits!MayWait
      <3>11. WaitedFirst(id, f)'
        BY <2>1, <2>3, <3>1 DEF WaitedFirst
      <3>2. Waits!MayAcquire(id) /\ id > lastWait /\ ~waiting /\ frame' = Waits!Put(id, f)
        BY <2>4, <3>0 DEF Waits!MayWait, Waits!Newer
      <3>3. \A i \in DOMAIN frame' : WaitedFirst(i, frame[i])'
        BY <1>0, <2>1, <3>11, <3>2, StoreKept
      <3>4. /\ DOMAIN frame' \subseteq Waits!Ids /\ Cardinality(DOMAIN frame') <= Capacity
            /\ frame'[id] = f /\ \A i \in DOMAIN frame' : frame'[i] \in Waits!Frame
        BY <1>0, <3>2, StorePut
      <3>5. /\ call' \in [Waits!Threads -> Calls] /\ call'[t].at = "waiting" /\ call'[t].id = id
            /\ \A u \in Waits!Threads : u # t => call'[u] = call[u]
        <4>1. call' = [call EXCEPT ![t] = [call[t] EXCEPT !.at = "waiting"]]
          BY <2>4
        <4>2. [call[t] EXCEPT !.at = "waiting"] \in Calls
          BY <2>2 DEF Calls
        <4>3. call'[t] = [call[t] EXCEPT !.at = "waiting"]
          BY <2>2, <4>1
        <4>4. call'[t].at = "waiting" /\ call'[t].id = id
          BY <2>1, <2>2, <4>3 DEF Calls
        <4> QED
          BY <2>2, <4>1, <4>2, <4>4
      <3>6. Waits!TypeOK'
        BY <1>0, <2>1, <2>4, <3>4, <3>5, SameCardinality DEF Waits!TypeOK, Calls, Waits!Ids
      <3>7. \A u \in Waits!Threads : call[u].at # "waiting"
        BY <3>2 DEF WaitsInv, OneWaiter
      <3>8. OneWaiter'
        BY <1>0, <2>1, <2>3, <2>4, <3>1, <3>2, <3>4, <3>5, <3>7 DEF WaitsInv, OneWaiter
      <3> QED
        BY <2>1, <3>3, <3>5, <3>6, <3>8 DEF WaitsInv
    <2>5. CASE /\ frame' = IF ~closed /\ Waits!MayAcquire(id) THEN Waits!Put(id, Waits!Acquire(id)) ELSE frame
               /\ Waits!Go(t, Waits!After(t)) /\ UNCHANGED <<waiting, lastWait>>
      <3>1. Waits!After(t) \in Calls /\ Waits!After(t).at \in {"idle", "forward"}
            /\ (Waits!After(t).at = "forward" => Waits!After(t).marker \in Waits!Markers /\ Waits!After(t).id = call[t].id)
        BY <2>2, WaitsAssumption DEF Waits!After, Calls, Waits!Idle, Waits!Nothing
      <3>2. call' \in [Waits!Threads -> Calls] /\ call'[t] = Waits!After(t)
            /\ \A u \in Waits!Threads : u # t => call'[u] = call[u]
        BY <2>2, <2>5, <3>1 DEF Waits!Go
      <3> DEFINE Kept ==
            /\ DOMAIN frame' \subseteq Waits!Ids /\ Cardinality(DOMAIN frame') <= Capacity
            /\ \A i \in DOMAIN frame' : frame'[i] \in Waits!Frame /\ WaitedFirst(i, frame[i])'
            /\ \A i \in DOMAIN frame' : frame'[i].slept => i \in DOMAIN frame /\ frame[i].slept
      <3>3. Kept
        <4>1. CASE Waits!MayAcquire(id) /\ frame' = Waits!Put(id, Waits!Acquire(id))
          <5>0. PICK f \in Waits!Frame : f = Waits!Acquire(id)
            BY <2>3
          <5>1. WaitedFirst(id, f)' /\ frame' = Waits!Put(id, f) /\ Waits!MayAcquire(id)
            BY <2>1, <2>3, <4>1, <5>0 DEF WaitedFirst
          <5>2. \A i \in DOMAIN frame' : WaitedFirst(i, frame[i])'
            BY <1>0, <2>1, <5>1, StoreKept
          <5>3. /\ DOMAIN frame' = DOMAIN frame \cup {id}
                /\ DOMAIN frame' \subseteq Waits!Ids /\ Cardinality(DOMAIN frame') <= Capacity
                /\ frame'[id] = f /\ \A i \in DOMAIN frame' : frame'[i] \in Waits!Frame
                /\ \A i \in DOMAIN frame : i # id => frame'[i] = frame[i]
            BY <1>0, <5>1, StorePut
          <5>4. f.slept => id \in DOMAIN frame /\ frame[id].slept
            BY <5>0 DEF Waits!Acquire, Waits!Fresh
          <5> QED
            BY <5>2, <5>3, <5>4
        <4>2. CASE frame' = frame
          BY <1>0, <2>1, <4>2, SameCardinality DEF WaitsInv, Waits!TypeOK, WaitedFirst
        <4> QED
          BY <2>5, <4>1, <4>2
      <3>4. Waits!TypeOK'
        BY <1>0, <2>1, <2>5, <3>2, <3>3, SameCardinality DEF Waits!TypeOK, Calls
      <3>5. OneWaiter'
        BY <1>0, <2>1, <2>5, <3>1, <3>2, <3>3 DEF WaitsInv, OneWaiter
      <3> QED
        BY <2>0, <2>1, <3>1, <3>2, <3>3, <3>4, <3>5 DEF WaitsInv
    <2> QED
      BY <1>3, <2>0, <2>4, <2>5 DEF Waits!BeginWait
  <1>4. ASSUME NEW t \in Waits!Threads, Waits!EndWait(t) PROVE WaitsInv'
    <2> DEFINE id == call[t].id
    <2>1. call[t].at = "waiting" /\ waiting' = FALSE /\ call' = [call EXCEPT ![t] = Waits!After(t)]
          /\ UNCHANGED <<lastWait, unslept, last, presenting, closed, calls>>
      BY <1>4 DEF Waits!EndWait, Waits!Go
    <2>2. PICK took \in BOOLEAN :
            /\ xell' = IF took THEN [xell EXCEPT !.last = id] ELSE [xell EXCEPT !.failed = TRUE]
            /\ frame' = IF closed \/ id \notin DOMAIN frame THEN frame
                        ELSE [frame EXCEPT ![id].inFlight = FALSE, ![id].slept = took]
      BY <1>4 DEF Waits!EndWait
    <2>3. id \in Waits!Ids /\ id = lastWait /\ id \in Nat /\ xell.last < id
          /\ (id \in DOMAIN frame => ~frame[id].slept)
      BY <1>0, <2>1 DEF WaitsInv, OneWaiter, Waits!Ids
    <2>4. call \in [Waits!Threads -> Calls] /\ call[t] \in Calls
      BY <1>0 DEF Waits!TypeOK, Calls
    <2>5. Waits!After(t) \in Calls /\ Waits!After(t).at \in {"idle", "forward"}
          /\ (Waits!After(t).at = "forward" => Waits!After(t).marker \in Waits!Markers /\ Waits!After(t).id = call[t].id)
      BY <2>4, WaitsAssumption DEF Waits!After, Calls, Waits!Idle, Waits!Nothing
    <2>6. call' \in [Waits!Threads -> Calls] /\ call'[t] = Waits!After(t)
          /\ \A u \in Waits!Threads : u # t => call'[u] = call[u]
      BY <2>1, <2>4, <2>5
    <2>7. xell' \in [last : 0..MaxWaitId, failed : BOOLEAN] /\ xell'.last = (IF took THEN id ELSE xell.last)
      BY <1>0, <2>2, <2>3 DEF Waits!TypeOK, Waits!Ids
    <2>8. DOMAIN frame' = DOMAIN frame
      BY <2>2
    <2>9. ASSUME NEW i \in DOMAIN frame'
          PROVE  frame'[i] \in Waits!Frame /\ WaitedFirst(i, frame[i])'
      <3>1. frame[i] \in Waits!Frame /\ WaitedFirst(i, frame[i]) /\ i \in Nat
        BY <1>0, <2>8, <2>9 DEF WaitsInv, Waits!TypeOK, Waits!Ids
      <3>2. CASE frame'[i] = frame[i]
        BY <1>0, <2>3, <2>7, <3>1, <3>2 DEF WaitedFirst
      <3>3. CASE frame'[i] # frame[i]
        <4>1. i = id /\ frame' = [frame EXCEPT ![id].inFlight = FALSE, ![id].slept = took]
          BY <2>2, <2>8, <3>3
        <4>2. frame'[i] = [frame[i] EXCEPT !.inFlight = FALSE, !.slept = took]
          BY <2>8, <4>1
        <4>3. frame'[i] \in Waits!Frame /\ frame'[i].slept = took /\ frame'[i].inFlight = FALSE
              /\ frame'[i].markers = frame[i].markers
          BY <3>1, <4>2 DEF Waits!Frame
        <4> QED
          BY <2>3, <2>7, <3>1, <4>1, <4>3 DEF WaitedFirst
      <3> QED
        BY <3>2, <3>3
    <2>10. Waits!TypeOK'
      BY <1>0, <2>1, <2>6, <2>7, <2>8, <2>9 DEF Waits!TypeOK, Calls
    <2>11. \A u \in Waits!Threads : call'[u].at # "waiting"
      BY <2>1, <2>5, <2>6 DEF WaitsInv, OneWaiter
    <2>12. OneWaiter'
      BY <1>0, <2>1, <2>3, <2>7, <2>11 DEF WaitsInv, OneWaiter
    <2> QED
      BY <2>3, <2>5, <2>6, <2>9, <2>10, <2>12 DEF WaitsInv
  <1>5. CASE Waits!ForwardSourceMarker
    <2>0. call["main"].at = "forward" /\ "main" \in Waits!Threads /\ call["main"] \in Calls
      BY <1>0, <1>5 DEF Waits!ForwardSourceMarker, Waits!TypeOK, Waits!Threads, Calls
    <2>1. call["main"].at = "forward" /\ call' = [call EXCEPT !["main"] = Waits!Idle]
          /\ UNCHANGED <<waiting, lastWait, unslept, last, presenting, closed, xell, calls>>
      BY <1>5 DEF Waits!ForwardSourceMarker, Waits!Return
    <2>2. call \in [Waits!Threads -> Calls] /\ "main" \in Waits!Threads /\ Waits!Idle \in Calls
      BY <1>0, WaitsAssumption DEF Waits!TypeOK, Calls, Waits!Idle, Waits!Threads, Waits!Nothing
    <2>3. call' \in [Waits!Threads -> Calls]
          /\ call'["main"] = Waits!Idle
          /\ \A t \in Waits!Threads : t # "main" => call'[t] = call[t]
      BY <2>1, <2>2
    <2>4. CASE UNCHANGED frame
      BY <2>1, <2>3, <2>4 DEF WaitsInv, Waits!TypeOK, OneWaiter, WaitedFirst, Calls, Waits!Idle
    <2>5. CASE ~UNCHANGED frame
      <3>0. PICK id \in Waits!Ids, m \in Waits!Markers : id = call["main"].id /\ m = call["main"].marker
        BY <2>0, <2>1 DEF WaitsInv, Calls
      <3>1. PICK taken \in SUBSET {m} :
              /\ taken # {} => Waits!Classify(Waits!Acquire(id), m)
              /\ frame' = Waits!Put(id, [Waits!Acquire(id) EXCEPT !.markers = @ \cup taken])
        BY <1>5, <2>5, <3>0 DEF Waits!ForwardSourceMarker
      <3>2. Waits!MayAcquire(id)
        BY <1>5, <2>5, <3>0 DEF Waits!ForwardSourceMarker
      <3>3. Waits!Acquire(id) \in Waits!Frame /\ WaitedFirst(id, Waits!Acquire(id)) /\ id \in Nat
        BY <1>0, AcquiredIsFrame, AcquiredWaited DEF Waits!Ids
      <3>4. PICK f \in Waits!Frame : /\ frame' = Waits!Put(id, f) /\ f.slept = Waits!Acquire(id).slept
                                     /\ f.markers = Waits!Acquire(id).markers \cup taken
                                     /\ f.inFlight = Waits!Acquire(id).inFlight
        BY <3>1, <3>3 DEF Waits!Frame
      <3>5. WaitedFirst(id, f)'
        BY <2>1, <3>1, <3>3, <3>4 DEF WaitedFirst, Waits!Classify
      <3>6. \A i \in DOMAIN frame' : WaitedFirst(i, frame[i])'
        <4>1. xell' = xell
          BY <2>1
        <4> QED
          BY <1>0, <3>2, <3>4, <3>5, <4>1, StoreKept
      <3>7. /\ DOMAIN frame' = DOMAIN frame \cup {id}
            /\ DOMAIN frame' \subseteq Waits!Ids /\ Cardinality(DOMAIN frame') <= Capacity
            /\ frame'[id] = f /\ \A i \in DOMAIN frame' : frame'[i] \in Waits!Frame
            /\ \A i \in DOMAIN frame : i # id => frame'[i] = frame[i]
        BY <1>0, <3>2, <3>4, StorePut
      <3>8. f.slept => id \in DOMAIN frame /\ frame[id].slept
        BY <3>4 DEF Waits!Acquire, Waits!Fresh
      <3>9. Waits!TypeOK'
        BY <1>0, <2>1, <2>3, <3>7, SameCardinality DEF Waits!TypeOK, Calls
      <3>10. OneWaiter'
        BY <1>0, <2>1, <2>3, <3>7, <3>8 DEF WaitsInv, OneWaiter, Waits!Idle
      <3>11. \A u \in Waits!Threads : /\ call'[u].at = "forward" => call'[u].marker \in Waits!Markers
                                      /\ call'[u].at # "idle" => call'[u].id \in Waits!Ids
        BY <2>3 DEF WaitsInv, Waits!Idle
      <3> QED
        BY <3>6, <3>9, <3>10, <3>11 DEF WaitsInv
    <2> QED
      BY <2>4, <2>5
  <1>6. CASE Waits!SourcePresent
    <2>1. DOMAIN frame' \subseteq DOMAIN frame /\ \A i \in DOMAIN frame' : frame'[i] = frame[i]
      BY <1>6 DEF Waits!SourcePresent, Waits!Prune
    <2>2. Cardinality(DOMAIN frame') <= Capacity
      <3>1. IsFiniteSet(DOMAIN frame)
        <4>1. IsFiniteSet(Waits!Ids)
          BY <1>0, FS_Interval DEF Waits!Ids
        <4> QED
          BY <1>0, <4>1, FS_Subset DEF Waits!TypeOK
      <3> QED
        BY <1>0, <2>1, <3>1, FS_Subset, FS_CardinalityType, WaitsAssumption,
           SameCardinality DEF Waits!TypeOK
    <2>3. UNCHANGED <<waiting, lastWait, unslept, presenting, closed, call, xell, calls>> /\ last' = presenting
      BY <1>6 DEF Waits!SourcePresent
    <2> QED
      BY <2>1, <2>2, <2>3, SameCardinality DEF WaitsInv, Waits!TypeOK, OneWaiter, WaitedFirst
  <1>7. CASE Waits!RetirePresentation
    BY <1>7 DEF Waits!RetirePresentation, WaitsInv, Waits!TypeOK, OneWaiter, WaitedFirst, Waits!Threads,
       Waits!Markers, Waits!Nothing
  <1>8. CASE UNCHANGED Waits!vars
    BY <1>8 DEF Waits!vars, WaitsInv, Waits!TypeOK, OneWaiter, WaitedFirst
  <1> QED
    BY <1>1, <1>2, <1>3, <1>4, <1>5, <1>6, <1>7, <1>8 DEF Waits!Next

(* A frame's wait was asked of XeLL, and its markers came after.           *)
LEMMA WaitsSafe == WaitsInv => Waits!WaitsThenMarkers
  <1> SUFFICES ASSUME WaitsInv PROVE Waits!WaitsThenMarkers
    OBVIOUS
  <1>0. xell.last \in Nat /\ lastWait \in Nat
    BY WaitsAssumption DEF WaitsInv, Waits!TypeOK
  <1>1. ASSUME NEW t \in Waits!Threads, call[t].at = "waiting"
        PROVE  xell.last < call[t].id /\ Waits!Expected(call[t].id)
    <2> DEFINE id == call[t].id
    <2>1. id \in Nat /\ xell.last < id
      BY <1>0, <1>1 DEF WaitsInv, OneWaiter
    <2>2. Cardinality((xell.last + 1)..(id - 1)) = id - 1 - xell.last
      <3> DEFINE a == xell.last + 1
                 b == id - 1
      <3>1. a \in Int /\ b \in Int /\ a <= b + 1
        BY <1>0, <2>1
      <3>2. Cardinality(a..b) = IF a > b THEN 0 ELSE b - a + 1
        <4> HIDE DEF a, b
        <4> QED
          BY <3>1, FS_Interval
      <3> QED
        BY <1>0, <2>1, <3>1, <3>2
    <2> QED
      BY <1>0, <2>1, <2>2, SameCardinality DEF Waits!Expected, Waits!WalkSkippedSleeps
  <1>2. ASSUME NEW i \in DOMAIN frame
        PROVE  /\ frame[i].markers # {} => frame[i].slept /\ i <= xell.last
               /\ "simEnd" \in frame[i].markers => "simStart" \in frame[i].markers
               /\ frame[i].inFlight => frame[i].markers = {}
    BY <1>2 DEF WaitsInv, WaitedFirst
  <1> QED
    BY <1>1, <1>2 DEF Waits!WaitsThenMarkers, WaitsInv, OneWaiter

----------------------------------------------------------------------------
(* The output of Intel's frame generation (XeMfgOutput).                   *)

Makes == {"making", "made", "ready", "undo"}
Ends  == {"closing", "closed", "destroyed"}
OutStates == [fg : BOOLEAN, ll : BOOLEAN, proxy : {"none", "game", "quarantined"},
              retired : BOOLEAN, window : Windows \cup {Bridge!NoOne}]
CreationStates == [at : {"idle", "admitted", "making", "made", "ready", "undo", "closing", "closed", "destroyed"},
              n : 0..MaxOutputs, window : Windows \cup {Bridge!NoOne}]
SlStates  == [up : BOOLEAN, inits : 0..MaxInits, isolated : BOOLEAN, missing : BOOLEAN,
              accepted : BOOLEAN, physical : BOOLEAN, stopping : BOOLEAN]

\* TypeOK, its records' sets named.
OutputTyped ==
  /\ out \in [Bridge!Outputs -> OutStates] /\ tried \in 0..MaxOutputs /\ output \in 0..MaxOutputs
  /\ leased \subseteq Bridge!Outputs /\ unconfirmed \in BOOLEAN
  /\ retained \in [Windows -> {"none", "held", "ready"}] /\ sdkLock \in Callers \cup {Bridge!NoOne}
  /\ creation \in [Callers -> CreationStates] /\ plugin \in BOOLEAN /\ sl \in SlStates

\* Who makes an output holds the lock, beside no output and no context.
MadeAlone ==
  \A c \in Callers : creation[c].at \in Makes =>
    /\ sdkLock = c /\ output = 0 /\ ~unconfirmed
    /\ creation[c].n \in Bridge!Outputs /\ creation[c].n <= tried /\ creation[c].n \notin leased
    /\ \A m \in Bridge!Outputs : m # creation[c].n => ~out[m].fg
    /\ creation[c].at \in {"made", "ready"} => out[creation[c].n].ll

\* Who ends an output is the one that retired it.
EndedOnce ==
  \A c \in Callers : creation[c].at \in Ends =>
    /\ output # 0 /\ creation[c].n = output /\ out[output].retired
    /\ creation[c].at = "destroyed" => unconfirmed \/ ~out[output].fg
    /\ \A d \in Callers : creation[d].at \in Ends => d = c

\* A context that is alive is the output's, or its maker's, or was refused its end.
ContextsKnown ==
  ~unconfirmed /\ sdkLock = Bridge!NoOne => \A m \in Bridge!Outputs : out[m].fg => m = output

XellOutlives ==
  /\ leased \subseteq 1..tried /\ output <= tried
  /\ output # 0 => out[output].ll
  /\ \A m \in Bridge!Outputs : m \in leased \/ out[m].fg => out[m].ll

OutputInv == OutputTyped /\ MadeAlone /\ EndedOnce /\ ContextsKnown /\ XellOutlives

(* A process starts without an output.                                     *)
LEMMA OutputInit == Bridge!Init => OutputInv
  <1> SUFFICES ASSUME Bridge!Init PROVE OutputInv
    OBVIOUS
  <1>1. Bridge!Unborn \in OutStates /\ Bridge!Idle \in CreationStates /\ Bridge!Down \in SlStates
    BY OutputAssumption DEF OutStates, CreationStates, SlStates, Bridge!Unborn, Bridge!Idle, Bridge!Down
  <1>2. OutputTyped
    <2>1. tried \in 0..MaxOutputs /\ output \in 0..MaxOutputs
      BY OutputAssumption DEF Bridge!Init
    <2>2. out \in [Bridge!Outputs -> OutStates] /\ creation \in [Callers -> CreationStates] /\ sl \in SlStates
      BY <1>1 DEF Bridge!Init
    <2>3. retained \in [Windows -> {"none", "held", "ready"}]
      BY DEF Bridge!Init
    <2>4. /\ leased \subseteq Bridge!Outputs /\ unconfirmed \in BOOLEAN /\ sdkLock \in Callers \cup {Bridge!NoOne}
          /\ plugin \in BOOLEAN
      BY DEF Bridge!Init
    <2> QED
      BY <2>1, <2>2, <2>3, <2>4 DEF OutputTyped
  <1>3. MadeAlone /\ EndedOnce
    BY DEF Bridge!Init, MadeAlone, EndedOnce, Makes, Ends, Bridge!Idle
  <1>4. ContextsKnown /\ XellOutlives
    BY OutputAssumption DEF Bridge!Init, ContextsKnown, XellOutlives, Bridge!Unborn
  <1> QED
    BY <1>2, <1>3, <1>4 DEF OutputInv

\* The hooks of Streamline's startup keep what they know typed.
LEMMA StreamlineTyped ==
  ASSUME OutputTyped, NEW s \in SlStates
  PROVE  /\ Bridge!IsolatePresentation(s) \subseteq SlStates
         /\ \A r \in Bridge!IsolatePresentation(s) : r.inits = s.inits /\ (~s.physical => ~r.physical)
         /\ Bridge!AdmitMissingDlssgPlugin \subseteq SlStates
  <1>1. plugin \in BOOLEAN /\ sl \in SlStates
    BY DEF OutputTyped
  <1>2. ASSUME NEW took \in BOOLEAN, NEW m \in BOOLEAN
        PROVE  LET r == [s EXCEPT !.missing = m, !.isolated = took, !.physical = @ /\ ~took]
               IN r \in SlStates /\ r.inits = s.inits /\ (~s.physical => ~r.physical)
    <2>1. PICK b \in BOOLEAN : b = (s.physical /\ ~took)
      OBVIOUS
    <2>2. [s EXCEPT !.missing = m, !.isolated = took, !.physical = b] \in SlStates
      BY DEF SlStates
    <2>3. [s EXCEPT !.missing = m, !.isolated = took, !.physical = s.physical /\ ~took]
            = [s EXCEPT !.missing = m, !.isolated = took, !.physical = b]
      BY <2>1
    <2> QED
      BY <2>1, <2>2, <2>3 DEF SlStates
  <1>3. \A r \in Bridge!Isolated(s) : r \in SlStates /\ r.inits = s.inits /\ (~s.physical => ~r.physical)
    <2> SUFFICES ASSUME NEW took \in BOOLEAN
                 PROVE LET r == [s EXCEPT !.missing = ~plugin, !.isolated = took, !.physical = @ /\ ~took]
                       IN r \in SlStates /\ r.inits = s.inits /\ (~s.physical => ~r.physical)
      BY DEF Bridge!Isolated
    <2>1. PICK m \in BOOLEAN : m = ~plugin
      OBVIOUS
    <2> QED
      BY <1>2, <2>1
  <1>4. Bridge!AdmitMissingDlssgPlugin \subseteq SlStates
    <2> SUFFICES ASSUME NEW a \in BOOLEAN PROVE [sl EXCEPT !.accepted = @ \/ a] \in SlStates
      BY DEF Bridge!AdmitMissingDlssgPlugin
    <2>1. PICK b \in BOOLEAN : b = (sl.accepted \/ a)
      OBVIOUS
    <2>2. [sl EXCEPT !.accepted = b] \in SlStates
      BY <1>1 DEF SlStates
    <2> QED
      BY <2>1, <2>2
  <1> QED
    BY <1>3, <1>4 DEF Bridge!IsolatePresentation

(* The types are kept by every step.                                       *)
LEMMA OutputTypedStep == OutputTyped /\ [Bridge!Next]_(Bridge!vars) => OutputTyped'
  <1> SUFFICES ASSUME OutputTyped, [Bridge!Next]_(Bridge!vars) PROVE OutputTyped'
    OBVIOUS
  <1> USE DEF OutputTyped
  <1>0. OutputTyped
    OBVIOUS
  <1>f. /\ MaxOutputs \in Nat /\ MaxInits \in Nat /\ Bridge!Outputs = 1..MaxOutputs
        /\ Bridge!Idle \in CreationStates
    BY OutputAssumption DEF Bridge!Outputs, CreationStates, Bridge!Idle
  <1>c. ASSUME NEW c \in Callers, NEW where \in {"idle", "admitted", "making", "made", "ready", "undo",
                                                "closing", "closed", "destroyed"}, Bridge!Go(c, where)
        PROVE  creation' \in [Callers -> CreationStates]
    <2>1. [creation[c] EXCEPT !.at = where] \in CreationStates
      BY <1>0 DEF CreationStates
    <2>2. creation' = [creation EXCEPT ![c] = [creation[c] EXCEPT !.at = where]]
      BY <1>0, <1>c DEF Bridge!Go
    <2> QED
      BY <1>0, <2>1, <2>2
  <1>r. ASSUME NEW c \in Callers, Bridge!Return(c) PROVE creation' \in [Callers -> CreationStates]
    BY <1>0, <1>f, <1>r DEF Bridge!Return
  <1>k. ASSUME NEW n \in Bridge!Outputs, NEW fg \in BOOLEAN, NEW ll \in BOOLEAN, NEW retired \in BOOLEAN
        PROVE  /\ [out[n] EXCEPT !.fg = fg] \in OutStates
               /\ [out[n] EXCEPT !.ll = ll] \in OutStates
               /\ [out[n] EXCEPT !.retired = retired] \in OutStates
               /\ [out[n] EXCEPT !.fg = fg, !.ll = ll, !.retired = retired] \in OutStates
               /\ [out[n] EXCEPT !.ll = ll, !.retired = retired] \in OutStates
               /\ \A p \in {"none", "game", "quarantined"} : [out[n] EXCEPT !.proxy = p] \in OutStates
    BY <1>0 DEF OutStates
  <1>v. ASSUME NEW w \in Windows \cup {Bridge!NoOne}, NEW v \in {"none", "held", "ready"}
        PROVE  [retained EXCEPT ![w] = v] \in [Windows -> {"none", "held", "ready"}]
    BY <1>0
  <1>g. ASSUME NEW n, NEW ok \in BOOLEAN, Bridge!ConfirmNativeRetirement(n, ok)
        PROVE  unconfirmed' \in BOOLEAN /\ retained' \in [Windows -> {"none", "held", "ready"}]
    <2>1. unconfirmed' \in BOOLEAN
      <3>1. PICK b \in BOOLEAN : b = (unconfirmed \/ ~ok)
        OBVIOUS
      <3> QED
        BY <3>1, <1>g DEF Bridge!ConfirmNativeRetirement
    <2>2. retained' \in [Windows -> {"none", "held", "ready"}]
      BY <1>0, <1>g DEF Bridge!ConfirmNativeRetirement
    <2> QED
      BY <2>1, <2>2
  <1>u. ASSUME NEW n \in Bridge!Outputs PROVE Bridge!Unowned(n) \in [Bridge!Outputs -> OutStates]
    <2>1. out[n].fg \in BOOLEAN
      BY <1>0 DEF OutStates
    <2>2. [out[n] EXCEPT !.ll = out[n].fg] \in OutStates
      BY <1>k, <2>1
    <2>3. Bridge!Unowned(n) = [out EXCEPT ![n] = [out[n] EXCEPT !.ll = out[n].fg]]
      BY <1>0 DEF Bridge!Unowned
    <2> QED
      BY <1>0, <2>2, <2>3
  <1>m. ASSUME NEW c \in Callers
        PROVE  creation[c].n \in 0..MaxOutputs /\ creation[c].window \in Windows \cup {Bridge!NoOne}
    BY <1>0 DEF CreationStates
  <1>1. ASSUME NEW c \in Callers, NEW w \in Windows, Bridge!CreateOutput(c, w) PROVE OutputTyped'
    <2>1. [at |-> "admitted", n |-> 0, window |-> w] \in CreationStates
      BY <1>f DEF CreationStates
    <2> QED
      BY <1>0, <1>1, <2>1 DEF Bridge!CreateOutput, Bridge!FactoryHook, Bridge!ClearRetainedNative,
         Bridge!Streamline
  <1>2. ASSUME NEW c \in Callers, Bridge!Select(c) PROVE OutputTyped'
    <2>1. sl' \in SlStates
      BY <1>0, <1>2, StreamlineTyped DEF Bridge!Select
    <2>2. tried' \in 0..MaxOutputs /\ sdkLock' \in Callers \cup {Bridge!NoOne}
      BY <1>0, <1>f, <1>2 DEF Bridge!Select
    <2>3. creation' \in [Callers -> CreationStates]
      <3>1. CASE creation' = [creation EXCEPT ![c].at = "making", ![c].n = tried + 1]
        <4>1. tried + 1 \in 0..MaxOutputs
          BY <1>0, <1>f, <1>2 DEF Bridge!Select
        <4>2. [creation[c] EXCEPT !.at = "making", !.n = tried + 1] \in CreationStates
          BY <1>0, <4>1 DEF CreationStates
        <4>3. creation' = [creation EXCEPT ![c] = [creation[c] EXCEPT !.at = "making", !.n = tried + 1]]
          BY <1>0, <3>1
        <4> QED
          BY <1>0, <4>2, <4>3
      <3> QED
        BY <1>0, <1>r, <1>2, <3>1 DEF Bridge!Select
    <2>4. retained' \in [Windows -> {"none", "held", "ready"}]
      BY <1>0, <1>2, <1>m DEF Bridge!Select, Bridge!FactoryHook, Bridge!ClearRetainedNative
    <2>5. UNCHANGED <<out, output, leased, unconfirmed, plugin>>
      BY <1>2 DEF Bridge!Select
    <2> QED
      BY <1>0, <2>1, <2>2, <2>3, <2>4, <2>5
  <1>3. ASSUME NEW c \in Callers, Bridge!MakeContexts(c) PROVE OutputTyped'
    <2>1. PICK fg \in BOOLEAN :
            /\ out' = [out EXCEPT ![creation[c].n] = [Bridge!Unborn EXCEPT !.ll = TRUE, !.fg = fg, !.window = creation[c].window]]
            /\ Bridge!Go(c, IF fg THEN "made" ELSE "undo")
      BY <1>3 DEF Bridge!MakeContexts
    <2>2. [Bridge!Unborn EXCEPT !.ll = TRUE, !.fg = fg, !.window = creation[c].window] \in OutStates
      BY <1>m DEF Bridge!Unborn, OutStates
    <2>3. out' \in [Bridge!Outputs -> OutStates]
      BY <1>0, <2>1, <2>2
    <2>4. creation' \in [Callers -> CreationStates]
      BY <1>c, <2>1
    <2> QED
      BY <1>0, <1>3, <2>3, <2>4 DEF Bridge!MakeContexts, Bridge!Streamline
  <1>4. ASSUME NEW c \in Callers, Bridge!InitFromSwapChainDesc(c) PROVE OutputTyped'
    <2>1. PICK r \in Bridge!CreateFinalNativeOutput(creation[c].window) :
            /\ retained' = [retained EXCEPT ![creation[c].window] = r.kept]
            /\ Bridge!Go(c, IF r.shown THEN "ready" ELSE "undo")
      BY <1>4 DEF Bridge!InitFromSwapChainDesc
    <2>2. creation' \in [Callers -> CreationStates]
      BY <1>c, <2>1
    <2>3. retained' \in [Windows -> {"none", "held", "ready"}]
      <3> SUFFICES ASSUME creation[c].window \in Windows PROVE r.kept \in {"none", "held", "ready"}
        BY <1>0, <2>1
      <3>1. PICK kept \in {"none", "held", "ready"} : kept = retained[creation[c].window]
        BY <1>0
      <3>2. PICK q \in Bridge!ReuseNativeOutput(kept) : r.kept = q.kept
        BY <2>1, <3>1 DEF Bridge!CreateFinalNativeOutput
      <3> QED
        BY <3>1, <3>2 DEF Bridge!ReuseNativeOutput
    <2> QED
      BY <1>0, <1>4, <2>2, <2>3 DEF Bridge!InitFromSwapChainDesc, Bridge!Streamline
  <1>5. ASSUME NEW c \in Callers, Bridge!Wrap(c) PROVE OutputTyped'
    <2>1. out' \in [Bridge!Outputs -> OutStates]
      <3>1. CASE creation[c].n \in Bridge!Outputs
        <4>1. out' = [out EXCEPT ![creation[c].n] = [out[creation[c].n] EXCEPT !.proxy = "game"]]
          BY <1>0, <1>5, <3>1 DEF Bridge!Wrap
        <4> QED
          BY <1>0, <1>k, <3>1, <4>1
      <3>2. CASE creation[c].n \notin Bridge!Outputs
        BY <1>0, <1>5, <3>2 DEF Bridge!Wrap
      <3> QED
        BY <3>1, <3>2
    <2> QED
      BY <1>0, <1>5, <1>m, <1>r, <2>1 DEF Bridge!Wrap, Bridge!Streamline
  <1>6. ASSUME NEW c \in Callers, Bridge!Undo(c) PROVE OutputTyped'
    <2>n. PICK n \in 0..MaxOutputs : n = creation[c].n
      BY <1>m
    <2>1. out' \in [Bridge!Outputs -> OutStates]
      <3>1. CASE n \notin Bridge!Outputs
        BY <1>0, <1>6, <3>1, <2>n DEF Bridge!Undo
      <3>2. CASE n \in Bridge!Outputs
        <4>1. CASE out[n].fg
          <5>1. PICK ok \in BOOLEAN : out' = [out EXCEPT ![n].fg = ~ok, ![n].ll = ~ok, ![n].retired = TRUE]
            BY <1>6, <4>1, <2>n DEF Bridge!Undo
          <5>2. out' = [out EXCEPT ![n] = [out[n] EXCEPT !.fg = ~ok, !.ll = ~ok, !.retired = TRUE]]
            BY <1>0, <3>2, <5>1
          <5>3. PICK no \in BOOLEAN : no = ~ok
            OBVIOUS
          <5>4. [out[n] EXCEPT !.fg = no, !.ll = no, !.retired = TRUE] \in OutStates
            BY <1>k, <3>2
          <5> QED
            BY <1>0, <5>2, <5>3, <5>4
        <4>2. CASE ~out[n].fg
          <5>1. out' = [out EXCEPT ![n] = [out[n] EXCEPT !.ll = FALSE, !.retired = TRUE]]
            BY <1>0, <1>6, <2>n, <3>2, <4>2 DEF Bridge!Undo
          <5> QED
            BY <1>0, <1>k, <3>2, <5>1
        <4> QED
          BY <4>1, <4>2
      <3> QED
        BY <3>1, <3>2
    <2>2. unconfirmed' \in BOOLEAN /\ retained' \in [Windows -> {"none", "held", "ready"}]
      BY <1>0, <1>6, <1>g, <2>n DEF Bridge!Undo
    <2> QED
      BY <1>0, <1>6, <1>r, <2>1, <2>2 DEF Bridge!Undo, Bridge!Streamline
  <1>7. ASSUME NEW c \in Callers, Bridge!Release(c) PROVE OutputTyped'
    <2>1. output \in Bridge!Outputs
      BY <1>0, <1>f, <1>7 DEF Bridge!Release
    <2>2. out' = [out EXCEPT ![output] = [out[output] EXCEPT !.retired = TRUE]]
      BY <1>0, <1>7, <2>1 DEF Bridge!Release
    <2>3. out' \in [Bridge!Outputs -> OutStates]
      BY <1>0, <1>k, <2>1, <2>2
    <2>4. [at |-> "closing", n |-> output, window |-> out[output].window] \in CreationStates
      <3>1. out[output].window \in Windows \cup {Bridge!NoOne}
        BY <1>0, <2>1 DEF OutStates
      <3> QED
        BY <1>0, <3>1 DEF CreationStates
    <2> QED
      BY <1>0, <1>7, <2>3, <2>4 DEF Bridge!Release, Bridge!Streamline
  <1>8. ASSUME NEW c \in Callers, Bridge!PreRetire(c) PROVE OutputTyped'
    <2>n. PICK n \in 0..MaxOutputs : n = creation[c].n
      BY <1>m
    <2>1. PICK p \in {"none", "quarantined"} : out' = [out EXCEPT ![n].proxy = p]
      BY <1>8, <2>n DEF Bridge!PreRetire
    <2>2. out' \in [Bridge!Outputs -> OutStates]
      <3>1. CASE n \in Bridge!Outputs
        <4>1. out' = [out EXCEPT ![n] = [out[n] EXCEPT !.proxy = p]]
          BY <1>0, <2>1, <3>1
        <4> QED
          BY <1>0, <1>k, <3>1, <4>1
      <3>2. CASE n \notin Bridge!Outputs
        BY <1>0, <2>1, <3>2
      <3> QED
        BY <3>1, <3>2
    <2>3. creation' \in [Callers -> CreationStates] /\ unconfirmed' \in BOOLEAN
      BY <1>0, <1>8, <1>c DEF Bridge!PreRetire
    <2>4. retained' \in [Windows -> {"none", "held", "ready"}]
      BY <1>0, <1>8 DEF Bridge!PreRetire, Bridge!RetainNativeOutput
    <2> QED
      BY <1>0, <1>8, <2>2, <2>3, <2>4 DEF Bridge!PreRetire, Bridge!Streamline
  <1>9. ASSUME NEW c \in Callers, Bridge!DestroyContext(c) PROVE OutputTyped'
    <2>n. PICK n \in 0..MaxOutputs : n = creation[c].n
      BY <1>m
    <2>1. PICK ok \in BOOLEAN : out' = [out EXCEPT ![n].fg = ~ok] /\ Bridge!ConfirmNativeRetirement(n, ok)
      BY <1>9, <2>n DEF Bridge!DestroyContext
    <2>2. out' \in [Bridge!Outputs -> OutStates]
      <3>1. CASE n \in Bridge!Outputs
        <4>1. out' = [out EXCEPT ![n] = [out[n] EXCEPT !.fg = ~ok]]
          BY <1>0, <2>1, <3>1
        <4>2. PICK no \in BOOLEAN : no = ~ok
          OBVIOUS
        <4> QED
          BY <1>0, <1>k, <3>1, <4>1, <4>2
      <3>2. CASE n \notin Bridge!Outputs
        BY <1>0, <2>1, <3>2
      <3> QED
        BY <3>1, <3>2
    <2>3. creation' \in [Callers -> CreationStates] /\ unconfirmed' \in BOOLEAN
          /\ retained' \in [Windows -> {"none", "held", "ready"}]
      BY <1>9, <1>c, <1>g, <2>1 DEF Bridge!DestroyContext
    <2> QED
      BY <1>0, <1>9, <2>2, <2>3 DEF Bridge!DestroyContext, Bridge!Streamline
  <1>10. ASSUME NEW c \in Callers, Bridge!Forget(c) PROVE OutputTyped'
    <2>1. out' \in [Bridge!Outputs -> OutStates]
      <3>1. CASE creation[c].n \in Bridge!Outputs
        BY <1>0, <1>10, <1>u, <3>1 DEF Bridge!Forget
      <3>2. CASE creation[c].n \notin Bridge!Outputs
        BY <1>0, <1>10, <3>2 DEF Bridge!Forget, Bridge!Unowned
      <3> QED
        BY <3>1, <3>2
    <2> QED
      BY <1>0, <1>f, <1>10, <1>r, <2>1 DEF Bridge!Forget, Bridge!Streamline
  <1>11. CASE Bridge!Lease
    BY <1>0, <1>f, <1>11 DEF Bridge!Lease, Bridge!Streamline
  <1>12. ASSUME NEW n \in Bridge!Outputs, Bridge!EndLease(n) PROVE OutputTyped'
    <2>1. out' \in [Bridge!Outputs -> OutStates]
      BY <1>0, <1>12, <1>u DEF Bridge!EndLease
    <2> QED
      BY <1>0, <1>12, <2>1 DEF Bridge!EndLease, Bridge!Streamline
  <1>13. CASE Bridge!InitHook
    <2>1. sl.inits + 1 \in 0..MaxInits
      BY <1>0, <1>f, <1>13 DEF Bridge!InitHook, SlStates
    <2>2. [Bridge!Down EXCEPT !.up = TRUE, !.inits = sl.inits + 1, !.physical = plugin] \in SlStates
      BY <1>0, <2>1 DEF Bridge!Down, SlStates
    <2>3. sl' \in SlStates
      BY <1>13, <2>2, StreamlineTyped DEF Bridge!InitHook
    <2> QED
      BY <1>0, <1>13, <2>3 DEF Bridge!InitHook
  <1>14. CASE Bridge!DeviceHook
    <2>1. sl' \in SlStates
      BY <1>0, <1>14, StreamlineTyped DEF Bridge!DeviceHook
    <2> QED
      BY <1>0, <1>14, <2>1 DEF Bridge!DeviceHook
  <1>15. CASE Bridge!ShutdownHook
    <2>1. sl' \in SlStates
      BY <1>0, <1>15 DEF Bridge!ShutdownHook, SlStates
    <2> QED
      BY <1>0, <1>15, <2>1 DEF Bridge!ShutdownHook
  <1>16. ASSUME NEW e \in BOOLEAN, Bridge!SetLoadedHook(e) PROVE OutputTyped'
    <2>1. sl' \in SlStates
      BY <1>0, <1>16 DEF Bridge!SetLoadedHook, Bridge!Loaded, SlStates
    <2> QED
      BY <1>0, <1>16, <2>1 DEF Bridge!SetLoadedHook
  <1>17. CASE UNCHANGED Bridge!vars
    BY <1>0, <1>17 DEF Bridge!vars
  <1> QED
    BY <1>1, <1>2, <1>3, <1>4, <1>5, <1>6, <1>7, <1>8, <1>9, <1>10, <1>11, <1>12, <1>13, <1>14, <1>15,
       <1>16, <1>17 DEF Bridge!Next

(* ... and so is who makes what.                                           *)
LEMMA OutputStep == OutputInv /\ [Bridge!Next]_(Bridge!vars) => OutputInv'
  <1> SUFFICES ASSUME OutputInv, [Bridge!Next]_(Bridge!vars) PROVE OutputInv'
    OBVIOUS
  <1>0. OutputTyped /\ OutputTyped' /\ MadeAlone /\ EndedOnce /\ ContextsKnown /\ XellOutlives
    BY OutputTypedStep DEF OutputInv
  <1>t. /\ out \in [Bridge!Outputs -> OutStates] /\ tried \in 0..MaxOutputs /\ output \in 0..MaxOutputs
        /\ creation \in [Callers -> CreationStates] /\ MaxOutputs \in Nat /\ Bridge!Outputs = 1..MaxOutputs
        /\ Bridge!NoOne \notin Callers /\ unconfirmed \in BOOLEAN
    BY <1>0, OutputAssumption DEF OutputTyped, Bridge!Outputs
  <1> USE DEF Makes, Ends
  <1>n. ASSUME NEW c \in Callers PROVE creation[c].n \in 0..MaxOutputs
    BY <1>t DEF CreationStates
  <1>1. ASSUME NEW c \in Callers, NEW w \in Windows, Bridge!CreateOutput(c, w) PROVE OutputInv'
    BY <1>0, <1>t, <1>1 DEF OutputInv, Bridge!CreateOutput, Bridge!Idle, MadeAlone, EndedOnce,
       ContextsKnown, XellOutlives
  <1>2. ASSUME NEW c \in Callers, Bridge!Select(c) PROVE OutputInv'
    <2>1. CASE UNCHANGED <<sdkLock, tried>>
      <3>1. creation' = [creation EXCEPT ![c] = Bridge!Idle]
        BY <1>t, <1>2, <2>1 DEF Bridge!Select, Bridge!Return
      <3> QED
        BY <1>0, <1>t, <1>2, <2>1, <3>1 DEF OutputInv, Bridge!Select, Bridge!Idle, MadeAlone, EndedOnce,
           ContextsKnown, XellOutlives
    <2>2. CASE ~UNCHANGED <<sdkLock, tried>>
      <3>1. /\ ~unconfirmed /\ output = 0 /\ sdkLock = Bridge!NoOne /\ sdkLock' = c /\ tried' = tried + 1
            /\ creation' = [creation EXCEPT ![c].at = "making", ![c].n = tried + 1]
            /\ tried < MaxOutputs /\ UNCHANGED <<out, output, leased, unconfirmed>>
        BY <1>2, <2>2 DEF Bridge!Select, Bridge!Admissible
      <3>2. /\ creation'[c].at = "making" /\ creation'[c].n = tried + 1
            /\ \A d \in Callers \ {c} : creation'[d] = creation[d]
        BY <1>t, <3>1 DEF CreationStates
      <3>3. \A m \in Bridge!Outputs : ~out[m].fg
        BY <1>0, <1>t, <3>1 DEF ContextsKnown
      <3>4. MadeAlone'
        BY <1>0, <1>t, <3>1, <3>2, <3>3 DEF MadeAlone, XellOutlives
      <3>5. EndedOnce'
        BY <1>0, <1>t, <3>1, <3>2 DEF EndedOnce
      <3>6. ContextsKnown' /\ XellOutlives'
        BY <1>0, <1>t, <3>1 DEF ContextsKnown, XellOutlives
      <3> QED
        BY <1>0, <3>4, <3>5, <3>6 DEF OutputInv
    <2> QED
      BY <2>1, <2>2
  <1>3. ASSUME NEW c \in Callers, Bridge!MakeContexts(c) PROVE OutputInv'
    <2>1. PICK fg \in BOOLEAN :
            /\ out' = [out EXCEPT ![creation[c].n] = [Bridge!Unborn EXCEPT !.ll = TRUE, !.fg = fg, !.window = creation[c].window]]
            /\ Bridge!Go(c, IF fg THEN "made" ELSE "undo")
      BY <1>3 DEF Bridge!MakeContexts
    <2>2. PICK n \in Bridge!Outputs : n = creation[c].n
      BY <1>0, <1>3 DEF Bridge!MakeContexts, MadeAlone
    <2>3. /\ out'[n].fg = fg /\ out'[n].ll /\ \A m \in Bridge!Outputs \ {n} : out'[m] = out[m]
      BY <1>t, <2>1, <2>2 DEF Bridge!Unborn
    <2>4. /\ creation'[c].at \in {"made", "undo"} /\ creation'[c].n = n
          /\ \A d \in Callers \ {c} : creation'[d] = creation[d]
      BY <1>t, <2>1, <2>2 DEF Bridge!Go, CreationStates
    <2>5. /\ sdkLock = c /\ output = 0 /\ ~unconfirmed /\ n <= tried /\ n \notin leased
          /\ \A m \in Bridge!Outputs : m # n => ~out[m].fg
          /\ UNCHANGED <<tried, output, leased, unconfirmed, sdkLock>>
      BY <1>0, <1>3, <2>2 DEF Bridge!MakeContexts, MadeAlone
    <2>6. MadeAlone'
      <3>1. \A d \in Callers \ {c} : creation[d].at \notin Makes
        BY <1>0, <2>5 DEF MadeAlone
      <3> QED
        BY <2>2, <2>3, <2>4, <2>5, <3>1 DEF MadeAlone
    <2>7. EndedOnce' /\ ContextsKnown'
      BY <1>0, <1>t, <2>4, <2>5 DEF EndedOnce, ContextsKnown
    <2>8. XellOutlives'
      BY <1>0, <1>t, <2>3, <2>5 DEF XellOutlives
    <2> QED
      BY <1>0, <2>6, <2>7, <2>8 DEF OutputInv
  <1>4. ASSUME NEW c \in Callers, Bridge!InitFromSwapChainDesc(c) PROVE OutputInv'
    <2>1. PICK where \in {"ready", "undo"} : Bridge!Go(c, where)
      BY <1>4 DEF Bridge!InitFromSwapChainDesc
    <2>2. /\ creation'[c].at \in {"ready", "undo"} /\ creation'[c].n = creation[c].n
          /\ \A d \in Callers \ {c} : creation'[d] = creation[d]
      BY <1>t, <2>1 DEF Bridge!Go, CreationStates
    <2>3. UNCHANGED <<out, tried, output, leased, unconfirmed, sdkLock>> /\ creation[c].at = "made"
      BY <1>4 DEF Bridge!InitFromSwapChainDesc
    <2>4. MadeAlone' /\ EndedOnce'
      BY <1>0, <2>2, <2>3 DEF MadeAlone, EndedOnce
    <2>5. ContextsKnown' /\ XellOutlives'
      BY <1>0, <2>3 DEF ContextsKnown, XellOutlives
    <2> QED
      BY <1>0, <2>4, <2>5 DEF OutputInv
  <1>5. ASSUME NEW c \in Callers, Bridge!Wrap(c) PROVE OutputInv'
    <2>1. PICK n \in Bridge!Outputs : n = creation[c].n
      BY <1>0, <1>5 DEF Bridge!Wrap, MadeAlone
    <2>2. /\ sdkLock = c /\ output = 0 /\ ~unconfirmed /\ n <= tried /\ n \notin leased /\ out[n].ll
          /\ \A m \in Bridge!Outputs : m # n => ~out[m].fg
      BY <1>0, <1>5, <2>1 DEF Bridge!Wrap, MadeAlone
    <2>3. /\ output' = n /\ UNCHANGED <<tried, leased, unconfirmed>>
          /\ \A m \in Bridge!Outputs : out'[m].fg = out[m].fg /\ out'[m].ll = out[m].ll
      BY <1>t, <1>5, <2>1 DEF Bridge!Wrap, OutStates
    <2>4. creation'[c].at = "idle" /\ \A d \in Callers \ {c} : creation'[d] = creation[d]
      BY <1>t, <1>5 DEF Bridge!Wrap, Bridge!Return, Bridge!Idle
    <2>5. MadeAlone' /\ EndedOnce'
      BY <1>0, <2>2, <2>4 DEF MadeAlone, EndedOnce
    <2>6. ContextsKnown' /\ XellOutlives'
      BY <1>0, <1>t, <2>2, <2>3 DEF ContextsKnown, XellOutlives
    <2> QED
      BY <1>0, <2>5, <2>6 DEF OutputInv
  <1>6. ASSUME NEW c \in Callers, Bridge!Undo(c) PROVE OutputInv'
    <2>1. PICK n \in Bridge!Outputs : n = creation[c].n
      BY <1>0, <1>6 DEF Bridge!Undo, MadeAlone
    <2>2. /\ sdkLock = c /\ output = 0 /\ ~unconfirmed /\ n <= tried /\ n \notin leased
          /\ \A m \in Bridge!Outputs : m # n => ~out[m].fg
      BY <1>0, <1>6, <2>1 DEF Bridge!Undo, MadeAlone
    <2>3. /\ \A m \in Bridge!Outputs \ {n} : out'[m] = out[m]
          /\ out'[n].fg => out'[n].ll /\ unconfirmed'
          /\ UNCHANGED <<tried, output, leased>>
      <3>1. ASSUME NEW ok \in BOOLEAN, out[n].fg,
                   out' = [out EXCEPT ![n].fg = ~ok, ![n].ll = ~ok, ![n].retired = TRUE],
                   Bridge!ConfirmNativeRetirement(n, ok)
            PROVE  (\A m \in Bridge!Outputs \ {n} : out'[m] = out[m]) /\ (out'[n].fg => out'[n].ll /\ unconfirmed')
        BY <1>t, <3>1 DEF Bridge!ConfirmNativeRetirement, OutStates
      <3>2. ASSUME ~out[n].fg, out' = [out EXCEPT ![n].ll = FALSE, ![n].retired = TRUE]
            PROVE  (\A m \in Bridge!Outputs \ {n} : out'[m] = out[m]) /\ ~out'[n].fg
        BY <1>t, <3>2 DEF OutStates
      <3> QED
        BY <1>6, <2>1, <3>1, <3>2 DEF Bridge!Undo
    <2>4. creation'[c].at = "idle" /\ \A d \in Callers \ {c} : creation'[d] = creation[d]
      BY <1>t, <1>6 DEF Bridge!Undo, Bridge!Return, Bridge!Idle
    <2>5. MadeAlone' /\ EndedOnce'
      BY <1>0, <2>2, <2>4 DEF MadeAlone, EndedOnce
    <2>6. ContextsKnown' /\ XellOutlives'
      BY <1>0, <1>t, <2>2, <2>3 DEF ContextsKnown, XellOutlives
    <2> QED
      BY <1>0, <2>5, <2>6 DEF OutputInv
  <1>7. ASSUME NEW c \in Callers, Bridge!Release(c) PROVE OutputInv'
    <2>1. output # 0 /\ ~out[output].retired /\ output \in Bridge!Outputs
      BY <1>t, <1>7 DEF Bridge!Release
    <2>2. /\ UNCHANGED <<tried, output, leased, unconfirmed, sdkLock>> /\ out'[output].retired
          /\ \A m \in Bridge!Outputs : out'[m].fg = out[m].fg /\ out'[m].ll = out[m].ll
      BY <1>t, <1>7, <2>1 DEF Bridge!Release, OutStates
    <2>3. /\ creation'[c].at = "closing" /\ creation'[c].n = output
          /\ \A d \in Callers \ {c} : creation'[d] = creation[d]
      BY <1>t, <1>7 DEF Bridge!Release
    <2>4. \A d \in Callers \ {c} : creation[d].at \notin Makes \cup Ends
      BY <1>0, <2>1 DEF MadeAlone, EndedOnce
    <2>5. MadeAlone' /\ EndedOnce'
      BY <2>1, <2>2, <2>3, <2>4 DEF MadeAlone, EndedOnce
    <2>6. ContextsKnown' /\ XellOutlives'
      BY <1>0, <1>t, <2>1, <2>2 DEF ContextsKnown, XellOutlives
    <2> QED
      BY <1>0, <2>5, <2>6 DEF OutputInv
  \* Who ends the output ends it alone, and nobody makes another meanwhile.
  <1>e. ASSUME NEW c \in Callers, creation[c].at \in Ends
        PROVE  /\ output \in Bridge!Outputs /\ creation[c].n = output /\ out[output].retired
               /\ \A d \in Callers \ {c} : creation[d].at \notin Makes \cup Ends
    BY <1>0, <1>t, <1>e DEF MadeAlone, EndedOnce
  <1>8. ASSUME NEW c \in Callers, Bridge!PreRetire(c) PROVE OutputInv'
    <2>1. creation[c].at = "closing" /\ UNCHANGED <<tried, output, leased, sdkLock>>
      BY <1>8 DEF Bridge!PreRetire
    <2>2. PICK p \in {"none", "quarantined"} : out' = [out EXCEPT ![output].proxy = p]
      BY <1>8, <1>e, <2>1 DEF Bridge!PreRetire
    <2>3. \A m \in Bridge!Outputs : out'[m].fg = out[m].fg /\ out'[m].ll = out[m].ll /\ out'[m].retired = out[m].retired
      BY <1>t, <2>2 DEF OutStates
    <2>4. PICK where \in {"closed", "destroyed"} :
            Bridge!Go(c, where) /\ (where = "destroyed" => unconfirmed') /\ (unconfirmed => unconfirmed')
      BY <1>8 DEF Bridge!PreRetire
    <2>5. /\ creation'[c].at \in Ends /\ creation'[c].n = output
          /\ creation'[c].at = "destroyed" => unconfirmed'
          /\ \A d \in Callers \ {c} : creation'[d] = creation[d]
      BY <1>t, <1>e, <2>1, <2>4 DEF Bridge!Go, CreationStates
    <2>6. MadeAlone' /\ EndedOnce'
      BY <1>t, <1>e, <2>1, <2>3, <2>5 DEF MadeAlone, EndedOnce
    <2>7. ContextsKnown' /\ XellOutlives'
      BY <1>0, <1>t, <2>1, <2>3, <2>4 DEF ContextsKnown, XellOutlives
    <2> QED
      BY <1>0, <2>6, <2>7 DEF OutputInv
  <1>9. ASSUME NEW c \in Callers, Bridge!DestroyContext(c) PROVE OutputInv'
    <2>1. creation[c].at = "closed" /\ sdkLock = Bridge!NoOne /\ UNCHANGED <<tried, output, leased, sdkLock>>
      BY <1>9 DEF Bridge!DestroyContext
    <2>2. PICK ok \in BOOLEAN : out' = [out EXCEPT ![output].fg = ~ok] /\ unconfirmed' = (unconfirmed \/ ~ok)
      BY <1>9, <1>e, <2>1 DEF Bridge!DestroyContext, Bridge!ConfirmNativeRetirement
    <2>3. /\ \A m \in Bridge!Outputs : out'[m].ll = out[m].ll /\ out'[m].retired = out[m].retired
          /\ \A m \in Bridge!Outputs \ {output} : out'[m].fg = out[m].fg
          /\ out'[output].fg = ~ok
      BY <1>t, <1>e, <2>1, <2>2 DEF OutStates
    <2>4. /\ creation'[c].at = "destroyed" /\ creation'[c].n = output
          /\ \A d \in Callers \ {c} : creation'[d] = creation[d]
      BY <1>t, <1>e, <1>9, <2>1 DEF Bridge!DestroyContext, Bridge!Go, CreationStates
    <2>5. MadeAlone' /\ EndedOnce'
      BY <1>t, <1>e, <2>1, <2>2, <2>3, <2>4 DEF MadeAlone, EndedOnce
    <2>6. ContextsKnown' /\ XellOutlives'
      BY <1>0, <1>t, <1>e, <2>1, <2>2, <2>3 DEF ContextsKnown, XellOutlives
    <2> QED
      BY <1>0, <2>5, <2>6 DEF OutputInv
  <1>o. ASSUME NEW n \in Bridge!Outputs
        PROVE  /\ Bridge!Unowned(n)[n].fg = out[n].fg /\ Bridge!Unowned(n)[n].ll = out[n].fg
               /\ Bridge!Unowned(n)[n].retired = out[n].retired
               /\ \A m \in Bridge!Outputs \ {n} : Bridge!Unowned(n)[m] = out[m]
    BY <1>t DEF Bridge!Unowned, OutStates
  <1>10. ASSUME NEW c \in Callers, Bridge!Forget(c) PROVE OutputInv'
    <2>1. /\ creation[c].at = "destroyed" /\ output' = 0 /\ UNCHANGED <<tried, leased, unconfirmed, sdkLock>>
          /\ unconfirmed \/ ~out[output].fg
      BY <1>0, <1>10 DEF Bridge!Forget, EndedOnce
    <2>2. out' = IF output \in leased THEN out ELSE Bridge!Unowned(output)
      BY <1>10, <1>e, <2>1 DEF Bridge!Forget
    <2>3. /\ \A m \in Bridge!Outputs : out'[m].fg = out[m].fg
          /\ \A m \in Bridge!Outputs : m \in leased \/ out[m].fg => out'[m].ll
      <3>1. CASE output \in leased
        BY <1>0, <2>2, <3>1 DEF XellOutlives
      <3>2. CASE output \notin leased
        BY <1>0, <1>t, <1>e, <1>o, <2>1, <2>2, <3>2 DEF XellOutlives
      <3> QED
        BY <3>1, <3>2
    <2>4. creation'[c].at = "idle" /\ \A d \in Callers \ {c} : creation'[d] = creation[d]
      BY <1>t, <1>10 DEF Bridge!Forget, Bridge!Return, Bridge!Idle
    <2>5. MadeAlone' /\ EndedOnce'
      BY <1>e, <2>1, <2>4 DEF MadeAlone, EndedOnce
    <2>6. ContextsKnown' /\ XellOutlives'
      BY <1>0, <1>t, <2>1, <2>3 DEF ContextsKnown, XellOutlives
    <2> QED
      BY <1>0, <2>5, <2>6 DEF OutputInv
  <1>11. CASE Bridge!Lease
    <2>1. /\ output # 0 /\ output \in Bridge!Outputs /\ leased' = leased \cup {output}
          /\ UNCHANGED <<out, tried, output, unconfirmed, sdkLock, creation>>
      BY <1>t, <1>11 DEF Bridge!Lease
    <2>2. MadeAlone' /\ EndedOnce' /\ ContextsKnown'
      BY <1>0, <2>1 DEF MadeAlone, EndedOnce, ContextsKnown
    <2>3. XellOutlives'
      BY <1>0, <1>t, <2>1 DEF XellOutlives
    <2> QED
      BY <1>0, <2>2, <2>3 DEF OutputInv
  <1>12. ASSUME NEW n \in Bridge!Outputs, Bridge!EndLease(n) PROVE OutputInv'
    <2>1. /\ n \in leased /\ leased' = leased \ {n} /\ out' = IF n = output THEN out ELSE Bridge!Unowned(n)
          /\ UNCHANGED <<tried, output, unconfirmed, sdkLock, creation>>
      BY <1>12 DEF Bridge!EndLease
    <2>2. /\ \A m \in Bridge!Outputs : out'[m].fg = out[m].fg /\ out'[m].retired = out[m].retired
          /\ \A m \in Bridge!Outputs \ {n} : out'[m].ll = out[m].ll
          /\ out[n].fg \/ n = output => out'[n].ll
      BY <1>0, <1>o, <2>1 DEF XellOutlives
    <2>3. MadeAlone'
      BY <1>0, <2>1, <2>2 DEF MadeAlone
    <2>4. EndedOnce'
      BY <1>0, <1>t, <2>1, <2>2 DEF EndedOnce
    <2>5. ContextsKnown' /\ XellOutlives'
      BY <1>0, <1>t, <2>1, <2>2 DEF ContextsKnown, XellOutlives
    <2> QED
      BY <1>0, <2>3, <2>4, <2>5 DEF OutputInv
  <1>13. CASE UNCHANGED <<out, tried, output, leased, unconfirmed, sdkLock, creation>>
    BY <1>0, <1>13 DEF OutputInv, MadeAlone, EndedOnce, ContextsKnown, XellOutlives
  <1>14. CASE Bridge!InitHook \/ Bridge!DeviceHook \/ Bridge!ShutdownHook \/ (\E e \in BOOLEAN : Bridge!SetLoadedHook(e)) \/ UNCHANGED Bridge!vars
    BY <1>13, <1>14 DEF Bridge!InitHook, Bridge!DeviceHook, Bridge!ShutdownHook, Bridge!SetLoadedHook,
       Bridge!vars
  <1> QED
    BY <1>1, <1>2, <1>3, <1>4, <1>5, <1>6, <1>7, <1>8, <1>9, <1>10, <1>11, <1>12, <1>14 DEF Bridge!Next

(* One that makes an output is alone; a context of XeLL waits for it.      *)
LEMMA OutputSafe == OutputInv => Bridge!TypeOK /\ Bridge!SdkAlone
  BY DEF OutputInv, OutputTyped, Bridge!TypeOK, OutStates, CreationStates, SlStates, MadeAlone,
     XellOutlives, Bridge!SdkAlone, Makes

(* No step loads what was unloaded beside an output.                       *)
LEMMA OutputStays == OutputTyped /\ [Bridge!Next]_(Bridge!vars) => Bridge!StaysUnloaded
  <1> SUFFICES ASSUME OutputTyped, [Bridge!Next]_(Bridge!vars), output # 0, ~sl.physical, sl'.inits = sl.inits PROVE ~sl'.physical
    BY DEF Bridge!StaysUnloaded
  <1>1. sl \in SlStates
    BY DEF OutputTyped
  <1>2. CASE Bridge!InitHook
    <2>1. sl'.inits = sl.inits + 1
      <3>1. [Bridge!Down EXCEPT !.up = TRUE, !.inits = sl.inits + 1, !.physical = plugin] \in SlStates
        <4>1. sl.inits + 1 \in 0..MaxInits
          BY <1>1, <1>2, OutputAssumption DEF Bridge!InitHook, SlStates
        <4> QED
          BY <4>1 DEF OutputTyped, Bridge!Down, SlStates
      <3> QED
        BY <1>2, <3>1, StreamlineTyped DEF Bridge!InitHook, Bridge!Down
    <2> QED
      BY <1>1, <2>1, OutputAssumption DEF SlStates
  <1>3. CASE Bridge!DeviceHook
    BY <1>1, <1>3, StreamlineTyped DEF Bridge!DeviceHook
  <1>4. CASE Bridge!ShutdownHook
    BY <1>1, <1>4 DEF Bridge!ShutdownHook, SlStates
  <1>5. ASSUME NEW e \in BOOLEAN, Bridge!SetLoadedHook(e) PROVE ~sl'.physical
    BY <1>1, <1>5 DEF Bridge!SetLoadedHook, Bridge!Loaded, SlStates
  <1>6. ASSUME NEW c \in Callers, Bridge!Select(c) PROVE ~sl'.physical
    BY <1>6 DEF Bridge!Select, Bridge!Admissible
  <1>7. CASE UNCHANGED sl
    BY <1>7
  <1> QED
    BY <1>2, <1>3, <1>4, <1>5, <1>6, <1>7 DEF Bridge!Next, Bridge!vars, Bridge!Streamline,
       Bridge!CreateOutput, Bridge!MakeContexts,
       Bridge!InitFromSwapChainDesc, Bridge!Wrap, Bridge!Undo, Bridge!Release, Bridge!PreRetire,
       Bridge!DestroyContext, Bridge!Forget, Bridge!Lease, Bridge!EndLease

----------------------------------------------------------------------------
(* The inputs of a generated frame (XeMfgInputs).                          *)

SeenStates   == [mode : {"off", "on"}, inputs : 0..MaxInputId, constants : 0..MaxInputId, complete : BOOLEAN]
HeldStates   == SUBSET [kind : {"motion", "hud"}, from : Inputs!Origins]
Cameras      == [viewport : Viewports \cup {Inputs!None}, epoch : 0..MaxEpoch]
PacketStates == [known : BOOLEAN, resources : SUBSET Inputs!Kinds, held : HeldStates,
                 constants : {Inputs!None, "valid", "invalid"}, camera : Cameras,
                 failed : BOOLEAN, paced : BOOLEAN]
TagCalls     == [at : {"tags"}, id : Inputs!Ids, viewport : Viewports, epoch : 0..MaxEpoch, kinds : Batches]
CameraCalls  == [at : {"constants"}, id : Inputs!Ids, viewport : Viewports, epoch : 0..MaxEpoch, kinds : {{}}]

InputsTyped ==
  /\ seen \in [Viewports -> SeenStates]
  /\ chosen \in Viewports \cup {Inputs!None} /\ wanted \in BOOLEAN /\ nativeOff \in BOOLEAN
  /\ epoch \in 0..MaxEpoch /\ gone \in BOOLEAN /\ windowed \in BOOLEAN
  /\ packet \in [Inputs!Ids -> PacketStates]
  /\ now \in 0..MaxInputId /\ previous \in 0..MaxInputId /\ enabled \in BOOLEAN /\ sent \in 0..MaxSent
  /\ entered \in {Inputs!Outside} \cup TagCalls \cup CameraCalls
  /\ sdk \subseteq [id : Inputs!Ids, kind : Inputs!Kinds \cup {"constants"}, from : Inputs!Origins]

\* All that is kept came in the present epoch.
OfThisEpoch ==
  /\ \A t \in sdk : t.from.epoch = epoch
  /\ \A i \in Inputs!Ids : /\ \A x \in packet[i].held : x.from.epoch = epoch
                           /\ packet[i].constants # Inputs!None => packet[i].camera \in Inputs!Origins /\ packet[i].camera.epoch = epoch

\* What a frame that can still be presented has been given is what its packet says.
AsGiven(i) ==
  /\ \A k \in packet[i].resources : \/ \E t \in sdk : t.id = i /\ t.kind = k
                                    \/ \E x \in packet[i].held : x.kind = k
  /\ ~packet[i].failed =>
       /\ \A t \in sdk : t.id = i => t.kind \in packet[i].resources \cup {"constants"}
       /\ \A x \in packet[i].held : x.kind \in packet[i].resources

InputsInv ==
  /\ InputsTyped /\ OfThisEpoch
  /\ \A i \in Inputs!Ids : i >= now => AsGiven(i)

\* What one tag makes of a frame, and a batch of them.
KeptByTag(f, g, ks, origin) ==
  /\ g \in PacketStates /\ g.constants = f.constants /\ g.camera = f.camera
  /\ f.failed => g.failed
  /\ \A k \in f.resources : k \in g.resources \/ g.failed
  /\ \A k \in g.resources : k \in f.resources \/ k \in ks
  /\ \A x \in f.held : x \in g.held
  /\ \A x \in g.held : x \in f.held \/ (x.kind \in ks /\ x.from = origin /\ x.kind \in g.resources)

GivenByTag(f, g, k, outcome) ==
  /\ k \in g.resources => k \in f.resources \/ outcome = "tagged" \/ \E x \in g.held : x.kind = k
  /\ outcome = "tagged" => k \in g.resources

(* A rejected tag takes nothing back.                                      *)
LEMMA RejectKeeps ==
  ASSUME NEW f \in PacketStates, NEW k \in Inputs!Kinds
  PROVE  /\ Inputs!Reject(f, k) \in PacketStates /\ Inputs!Reject(f, k).constants = f.constants
         /\ Inputs!Reject(f, k).camera = f.camera /\ Inputs!Reject(f, k).resources = f.resources
         /\ Inputs!Reject(f, k).held = f.held /\ (f.failed => Inputs!Reject(f, k).failed)
  <1>1. PICK b \in BOOLEAN : b = (f.failed \/ k # "hud" \/ k \in f.resources)
    OBVIOUS
  <1>2. Inputs!Reject(f, k) = [f EXCEPT !.failed = b]
    BY <1>1 DEF Inputs!Reject, PacketStates
  <1>3. f.failed => b
    BY <1>1
  <1>4. [f EXCEPT !.failed = b] \in PacketStates
    BY DEF PacketStates
  <1> QED
    BY <1>2, <1>3, <1>4 DEF PacketStates

(* One tag: a resource that is lost fails the frame.                       *)
LEMMA TagKeeps ==
  ASSUME NEW f \in PacketStates, NEW k \in Inputs!Kinds, NEW outcome \in Inputs!Possible(f, k), NEW origin \in Inputs!Origins
  PROVE  /\ KeptByTag(f, Inputs!SubmitResource(f, k, outcome, origin), {k}, origin)
         /\ GivenByTag(f, Inputs!SubmitResource(f, k, outcome, origin), k, outcome)
  <1> DEFINE g == Inputs!SubmitResource(f, k, outcome, origin)
  <1>0. f.resources \in SUBSET Inputs!Kinds /\ f.held \in HeldStates /\ f.failed \in BOOLEAN
    BY DEF PacketStates
  <1>1. CASE outcome = "removed"
    <2>1. g = Inputs!Withdraw(f, k)
      BY <1>1 DEF Inputs!SubmitResource
    <2>2. CASE k \in f.resources
      <3>1. g = [[Inputs!Reject(f, k) EXCEPT !.failed = TRUE] EXCEPT !.resources = @ \ {k}]
        BY <2>1, <2>2 DEF Inputs!Withdraw
      <3>2. PICK r : r = Inputs!Reject(f, k)
        OBVIOUS
      <3>3. r \in PacketStates /\ r.constants = f.constants /\ r.camera = f.camera
            /\ r.resources = f.resources /\ r.held = f.held
        BY <3>2, RejectKeeps
      <3>4. /\ g.failed = TRUE /\ g.resources = f.resources \ {k} /\ g.constants = f.constants
            /\ g.camera = f.camera /\ g.held = f.held
        BY <3>1, <3>2, <3>3 DEF PacketStates
      <3>5. f.resources \ {k} \in SUBSET Inputs!Kinds
        BY <1>0
      <3>6. g = [r EXCEPT !.failed = TRUE, !.resources = f.resources \ {k}]
        BY <3>1, <3>2, <3>3 DEF PacketStates
      <3>7. g \in PacketStates
        BY <3>3, <3>5, <3>6 DEF PacketStates
      <3> QED
        BY <1>1, <3>4, <3>7 DEF KeptByTag, GivenByTag
    <2>3. CASE k \notin f.resources
      <3>1. g = [f EXCEPT !.resources = @ \ {k}]
        BY <2>1, <2>3 DEF Inputs!Withdraw
      <3>2. f.resources \ {k} = f.resources
        BY <2>3
      <3>3. g = f
        BY <3>1, <3>2 DEF PacketStates
      <3> QED
        BY <1>1, <2>3, <3>3 DEF KeptByTag, GivenByTag
    <2> QED
      BY <2>2, <2>3
  <1>2. CASE outcome \in {"refused", "conflicting"}
    <2>1. g = Inputs!Reject(f, k)
      BY <1>2 DEF Inputs!SubmitResource
    <2> QED
      BY <1>2, <2>1, RejectKeeps DEF KeptByTag, GivenByTag
  <1>3. CASE outcome = "failed"
    <2>1. g = [f EXCEPT !.failed = TRUE]
      BY <1>3 DEF Inputs!SubmitResource
    <2>2. g \in PacketStates /\ g.failed /\ g.resources = f.resources /\ g.held = f.held
          /\ g.constants = f.constants /\ g.camera = f.camera
      BY <2>1 DEF PacketStates
    <2> QED
      BY <1>3, <2>2 DEF KeptByTag, GivenByTag
  <1>4. CASE outcome = "tagged"
    <2>1. g = [f EXCEPT !.resources = @ \cup {k}]
      BY <1>4 DEF Inputs!SubmitResource
    <2>2. f.resources \cup {k} \in SUBSET Inputs!Kinds
      BY <1>0
    <2>3. g \in PacketStates
      BY <2>1, <2>2 DEF PacketStates
    <2>4. /\ g.failed = f.failed /\ g.resources = f.resources \cup {k} /\ g.held = f.held
          /\ g.constants = f.constants /\ g.camera = f.camera
      BY <2>1 DEF PacketStates
    <2> QED
      BY <1>4, <2>3, <2>4 DEF KeptByTag, GivenByTag
  <1>5. CASE outcome = "held"
    <2>1. k \in {"motion", "hud"}
      BY <1>5 DEF Inputs!Possible, Inputs!Kinds, Inputs!Required
    <2>2. g = [[f EXCEPT !.held = @ \cup {[kind |-> k, from |-> origin]}] EXCEPT !.resources = @ \cup {k}]
      BY <1>5, <2>1 DEF Inputs!SubmitResource, Inputs!StageMotion, Inputs!StageHudCopy
    <2>3. f.resources \cup {k} \in SUBSET Inputs!Kinds /\ f.held \cup {[kind |-> k, from |-> origin]} \in HeldStates
      BY <1>0, <2>1 DEF HeldStates
    <2>4. g \in PacketStates
      BY <2>2, <2>3 DEF PacketStates
    <2>5. /\ g.failed = f.failed /\ g.resources = f.resources \cup {k}
          /\ g.held = f.held \cup {[kind |-> k, from |-> origin]}
          /\ g.constants = f.constants /\ g.camera = f.camera
      BY <2>2 DEF PacketStates
    <2>6. PICK x0 : x0 = [kind |-> k, from |-> origin]
      OBVIOUS
    <2>7. x0.kind = k /\ x0.from = origin /\ x0 \in g.held /\ \A x \in g.held : x \in f.held \/ x = x0
      BY <2>5, <2>6
    <2>8. GivenByTag(f, g, k, outcome)
      BY <1>5, <2>7 DEF GivenByTag
    <2> QED
      BY <2>4, <2>5, <2>7, <2>8 DEF KeptByTag
  <1>6. CASE outcome \notin {"removed", "refused", "conflicting", "failed", "tagged", "held"}
    <2>1. g = f
      BY <1>6 DEF Inputs!SubmitResource
    <2>2. outcome # "duplicate" => k \in f.resources \/ TRUE
      OBVIOUS
    <2> QED
      BY <1>6, <2>1 DEF KeptByTag, GivenByTag
  <1> QED
    BY <1>1, <1>2, <1>3, <1>4, <1>5, <1>6

(* A batch: as much of every tag of it.                                    *)
LEMMA BatchKeeps ==
  ASSUME NEW f \in PacketStates, NEW ks \in Batches, NEW o, NEW origin \in Inputs!Origins,
         \A k \in ks : o[k] \in Inputs!Possible(f, k)
  PROVE  /\ KeptByTag(f, Inputs!SubmitBatch(f, ks, o, origin), ks, origin)
         /\ \A k \in ks : GivenByTag(f, Inputs!SubmitBatch(f, ks, o, origin), k, o[k])
  <1> DEFINE one(k) == Inputs!SubmitResource(f, k, o[k], origin)
             each == {one(k) : k \in ks}
             rs == {k \in Inputs!Kinds : IF k \in ks THEN k \in one(k).resources ELSE k \in f.resources}
             hs == UNION {e.held : e \in each}
             g == Inputs!SubmitBatch(f, ks, o, origin)
  <1>0. ks \subseteq Inputs!Kinds /\ ks # {} /\ f.resources \subseteq Inputs!Kinds
    <2>1. ks \in SUBSET Inputs!Kinds /\ ks # {}
      BY InputsAssumption
    <2> QED
      BY <2>1 DEF PacketStates
  <1>1. \A k \in ks : KeptByTag(f, one(k), {k}, origin) /\ GivenByTag(f, one(k), k, o[k])
    BY <1>0, TagKeeps
  <1>2. PICK b \in BOOLEAN : b = (\E e \in each : e.failed)
    OBVIOUS
  <1>3. g = [f EXCEPT !.known = TRUE, !.resources = rs, !.held = hs, !.failed = b]
    BY <1>2 DEF Inputs!SubmitBatch
  <1>4. hs \in HeldStates
    <2>1. \A e \in each : e \in PacketStates
      BY <1>1 DEF KeptByTag
    <2> HIDE DEF each
    <2>2. \A e \in each : e.held \in HeldStates
      BY <2>1 DEF PacketStates
    <2> QED
      BY <2>2 DEF HeldStates
  <1>5. rs \in SUBSET Inputs!Kinds
    OBVIOUS
  <1> HIDE DEF rs, hs
  <1>6. g \in PacketStates
    BY <1>3, <1>4, <1>5 DEF PacketStates
  <1>7. /\ g.constants = f.constants /\ g.camera = f.camera /\ g.resources = rs /\ g.held = hs /\ g.failed = b
    BY <1>3 DEF PacketStates
  <1> HIDE DEF g
  <1>8. f.failed => b
    BY <1>0, <1>1, <1>2 DEF KeptByTag
  <1>9. \A k \in f.resources : k \in rs \/ b
    BY <1>0, <1>1, <1>2 DEF KeptByTag, rs
  <1>10. \A k \in rs : k \in f.resources \/ k \in ks
    BY <1>1 DEF rs
  <1>11. \A x \in f.held : x \in hs
    BY <1>0, <1>1 DEF KeptByTag, hs
  <1>12. \A x \in hs : x \in f.held \/ (x.kind \in ks /\ x.from = origin /\ x.kind \in rs)
    <2> SUFFICES ASSUME NEW x \in hs, x \notin f.held PROVE x.kind \in ks /\ x.from = origin /\ x.kind \in rs
      OBVIOUS
    <2>1. PICK k \in ks : x \in one(k).held
      BY DEF hs
    <2>2. x.kind = k /\ x.from = origin /\ k \in one(k).resources
      BY <1>1, <2>1 DEF KeptByTag
    <2> QED
      BY <1>0, <2>1, <2>2 DEF rs
  <1>13. \A k \in ks : /\ k \in rs => k \in f.resources \/ o[k] = "tagged" \/ \E x \in hs : x.kind = k
                       /\ o[k] = "tagged" => k \in rs
    <2> SUFFICES ASSUME NEW k \in ks
                 PROVE  /\ k \in rs => k \in f.resources \/ o[k] = "tagged" \/ \E x \in hs : x.kind = k
                        /\ o[k] = "tagged" => k \in rs
      OBVIOUS
    <2>1. GivenByTag(f, one(k), k, o[k]) /\ k \in Inputs!Kinds
      BY <1>0, <1>1
    <2>2. k \in rs <=> k \in one(k).resources
      BY <2>1 DEF rs
    <2>3. \A x \in one(k).held : x \in hs
      BY DEF hs
    <2> QED
      BY <2>1, <2>2, <2>3 DEF GivenByTag
  <1> QED
    <2>1. KeptByTag(f, g, ks, origin)
      BY <1>6, <1>7, <1>8, <1>9, <1>10, <1>11, <1>12 DEF KeptByTag
    <2>2. \A k \in ks : GivenByTag(f, g, k, o[k])
      BY <1>7, <1>13 DEF GivenByTag
    <2> QED
      BY <2>1, <2>2 DEF g

(* Nothing was seen when the output is made.                               *)
LEMMA InputsInit == Inputs!Init => InputsInv
  <1> SUFFICES ASSUME Inputs!Init PROVE InputsInv
    OBVIOUS
  <1>0. 0 \in 0..MaxEpoch /\ 0 \in 0..MaxInputId /\ 0 \in 0..MaxSent
    BY InputsAssumption
  <1>1. Inputs!NotSeen \in SeenStates
    BY <1>0 DEF Inputs!NotSeen, SeenStates
  <1>2. {} \in HeldStates /\ [viewport |-> Inputs!None, epoch |-> 0] \in Cameras
    BY <1>0 DEF HeldStates, Cameras
  <1>3. Inputs!NoFrame \in PacketStates
    BY <1>2 DEF Inputs!NoFrame, PacketStates
  <1>4. InputsTyped
    BY <1>0, <1>1, <1>3 DEF Inputs!Init, InputsTyped
  <1>5. \A i \in Inputs!Ids : packet[i] = Inputs!NoFrame
    BY DEF Inputs!Init
  <1>6. OfThisEpoch /\ \A i \in Inputs!Ids : AsGiven(i)
    BY <1>5 DEF Inputs!Init, OfThisEpoch, AsGiven, Inputs!NoFrame
  <1> QED
    BY <1>4, <1>6 DEF InputsInv

(* What a viewport was seen to send.                                       *)
LEMMA SeenKept ==
  ASSUME seen \in [Viewports -> SeenStates], NEW v \in Viewports, NEW id \in Inputs!Ids,
         NEW a \in BOOLEAN, NEW b \in BOOLEAN, Inputs!ObserveViewport(v, id, a, b)
  PROVE  seen' \in [Viewports -> SeenStates]
  <1> DEFINE s == [seen[v] EXCEPT !.inputs = IF a THEN id ELSE @, !.constants = IF b THEN id ELSE @]
  <1>1. id \in 0..MaxInputId
    BY InputsAssumption DEF Inputs!Ids
  <1>2. s \in SeenStates
    BY <1>1 DEF SeenStates
  <1>3. PICK c \in BOOLEAN : c = (s.complete \/ (s.inputs # 0 /\ s.constants # 0 /\ Inputs!Near(s.inputs, s.constants)))
    OBVIOUS
  <1>4. seen' = [seen EXCEPT ![v] = [s EXCEPT !.complete = c]]
    BY <1>3 DEF Inputs!ObserveViewport
  <1> HIDE DEF s
  <1>5. [s EXCEPT !.complete = c] \in SeenStates
    BY <1>2 DEF SeenStates
  <1> QED
    BY <1>4, <1>5

(* A frame whose tags are what they were is still as given.                *)
LEMMA SameTags ==
  ASSUME InputsInv, NEW i \in Inputs!Ids, NEW g \in PacketStates, packet' = [packet EXCEPT ![i] = g],
         g.resources = packet[i].resources, g.held = packet[i].held, packet[i].failed => g.failed,
         g.constants # Inputs!None => g.camera \in Inputs!Origins /\ g.camera.epoch = epoch,
         UNCHANGED <<sdk, epoch, now>>
  PROVE  /\ packet' \in [Inputs!Ids -> PacketStates] /\ OfThisEpoch'
         /\ \A j \in Inputs!Ids : j >= now' => AsGiven(j)'
  <1>1. packet \in [Inputs!Ids -> PacketStates]
    BY DEF InputsInv, InputsTyped
  <1>2. packet' \in [Inputs!Ids -> PacketStates] /\ packet'[i] = g /\ \A j \in Inputs!Ids : j # i => packet'[j] = packet[j]
    BY <1>1
  <1>3. OfThisEpoch'
    BY <1>2 DEF InputsInv, OfThisEpoch
  <1>4. ASSUME NEW j \in Inputs!Ids, j >= now' PROVE AsGiven(j)'
    <2>1. AsGiven(j)
      BY <1>4 DEF InputsInv
    <2>2. packet'[j].resources = packet[j].resources /\ packet'[j].held = packet[j].held
          /\ (packet[j].failed => packet'[j].failed)
      BY <1>2
    <2> QED
      BY <2>1, <2>2 DEF AsGiven
  <1> QED
    BY <1>2, <1>3, <1>4

(* What a call in flight says of itself.                                   *)
LEMMA CallTyped ==
  ASSUME InputsTyped, entered # Inputs!Outside
  PROVE  /\ entered.id \in Inputs!Ids /\ entered.viewport \in Viewports /\ entered.epoch \in 0..MaxEpoch
         /\ Inputs!From(entered) \in Inputs!Origins /\ Inputs!From(entered).epoch = entered.epoch
         /\ entered.at = "tags" => entered.kinds \in Batches
  <1>1. entered \in TagCalls \cup CameraCalls
    BY DEF InputsTyped
  <1> QED
    BY <1>1 DEF TagCalls, CameraCalls, Inputs!From, Inputs!Origins

(* The tags of a call in the present epoch.                                *)
LEMMA TagsKeep == InputsInv /\ Inputs!Tags => InputsInv'
  <1> SUFFICES ASSUME InputsInv, Inputs!Tags PROVE InputsInv'
    OBVIOUS
  <1>0. InputsTyped /\ entered.at = "tags" /\ entered # Inputs!Outside /\ entered' = Inputs!Outside
    BY DEF Inputs!Tags, InputsInv, Inputs!Outside
  <1>1. UNCHANGED <<chosen, wanted, nativeOff, epoch, gone, windowed, now, previous, enabled, sent>>
    BY DEF Inputs!Tags
  <1>2. seen' \in [Viewports -> SeenStates]
    BY <1>0, CallTyped, SeenKept DEF Inputs!Tags, InputsTyped
  <1>3. CASE ~Inputs!Counts(entered)
    <2>1. UNCHANGED <<packet, sdk>>
      BY <1>3 DEF Inputs!Tags
    <2> QED
      BY <1>0, <1>1, <1>2, <2>1 DEF InputsInv, InputsTyped, OfThisEpoch, AsGiven
  <1>4. CASE Inputs!Counts(entered)
    <2> DEFINE i == entered.id
               ks == entered.kinds
               origin == Inputs!From(entered)
    <2>1. i \in Inputs!Ids /\ ks \in Batches /\ origin \in Inputs!Origins /\ origin.epoch = epoch
      BY <1>0, <1>4, CallTyped DEF Inputs!Counts, Inputs!Current
    <2>2. PICK o \in [ks -> Inputs!Outcome \cup {"duplicate"}] :
            /\ \A k \in ks : o[k] \in Inputs!Possible(packet[i], k)
            /\ packet' = [packet EXCEPT ![i] = Inputs!SubmitBatch(@, ks, o, origin)]
            /\ sdk' = sdk \cup {[id |-> i, kind |-> k, from |-> origin] : k \in {kk \in ks : o[kk] = "tagged"}}
      BY <1>4 DEF Inputs!Tags
    <2>3. packet[i] \in PacketStates
      BY <2>1 DEF InputsInv, InputsTyped
    <2>4. PICK g : g = Inputs!SubmitBatch(packet[i], ks, o, origin)
      OBVIOUS
    <2>5. KeptByTag(packet[i], g, ks, origin) /\ \A k \in ks : GivenByTag(packet[i], g, k, o[k])
      BY <2>1, <2>2, <2>3, <2>4, BatchKeeps
    <2>6. /\ packet' = [packet EXCEPT ![i] = g] /\ packet'[i] = g /\ packet' \in [Inputs!Ids -> PacketStates]
          /\ \A j \in Inputs!Ids : j # i => packet'[j] = packet[j]
      BY <2>1, <2>2, <2>4, <2>5 DEF InputsInv, InputsTyped, KeptByTag
    <2>7. ks \in SUBSET Inputs!Kinds
      BY <2>1, InputsAssumption
    <2>8. /\ \A t \in sdk : t \in sdk'
          /\ \A t \in sdk' : t \in sdk \/ /\ t.id = i /\ t.from = origin /\ t.kind \in ks /\ o[t.kind] = "tagged"
                                          /\ t \in [id : Inputs!Ids, kind : Inputs!Kinds \cup {"constants"}, from : Inputs!Origins]
      BY <2>1, <2>2, <2>7
    <2>9. \A k \in ks : o[k] = "tagged" => \E t \in sdk' : t.id = i /\ t.kind = k
      <3> SUFFICES ASSUME NEW k \in ks, o[k] = "tagged" PROVE \E t \in sdk' : t.id = i /\ t.kind = k
        OBVIOUS
      <3>1. [id |-> i, kind |-> k, from |-> origin] \in sdk'
        BY <2>2
      <3> QED
        BY <3>1
    <2> HIDE DEF i, ks, origin
    <2>10. InputsTyped'
      <3>1. sdk' \subseteq [id : Inputs!Ids, kind : Inputs!Kinds \cup {"constants"}, from : Inputs!Origins]
        BY <2>8 DEF InputsInv, InputsTyped
      <3> QED
        BY <1>0, <1>1, <1>2, <2>6, <3>1 DEF InputsInv, InputsTyped
    <2>11. OfThisEpoch'
      <3>1. \A t \in sdk' : t.from.epoch = epoch
        BY <2>1, <2>8 DEF InputsInv, OfThisEpoch
      <3>2. ASSUME NEW j \in Inputs!Ids
            PROVE  /\ \A x \in packet'[j].held : x.from.epoch = epoch
                   /\ packet'[j].constants # Inputs!None =>
                        packet'[j].camera \in Inputs!Origins /\ packet'[j].camera.epoch = epoch
        BY <2>1, <2>5, <2>6 DEF InputsInv, OfThisEpoch, KeptByTag
      <3> QED
        BY <1>1, <3>1, <3>2 DEF OfThisEpoch
    <2>12. ASSUME NEW j \in Inputs!Ids, j >= now' PROVE AsGiven(j)'
      <3>1. AsGiven(j)
        BY <1>1, <2>12 DEF InputsInv
      <3>2. CASE j # i
        BY <2>6, <2>8, <3>1, <3>2 DEF AsGiven
      <3>3. CASE j = i
        <4>1. ASSUME NEW k \in g.resources
              PROVE  (\E t \in sdk' : t.id = i /\ t.kind = k) \/ \E x \in g.held : x.kind = k
          <5>1. CASE k \in packet[i].resources
            BY <2>5, <2>8, <3>1, <3>3, <5>1 DEF AsGiven, KeptByTag
          <5>2. CASE k \notin packet[i].resources
            BY <2>5, <2>9, <4>1, <5>2 DEF KeptByTag, GivenByTag
          <5> QED
            BY <5>1, <5>2
        <4>2. ASSUME ~g.failed, NEW t \in sdk', t.id = i PROVE t.kind \in g.resources \cup {"constants"}
          <5>1. CASE t \in sdk
            BY <2>5, <3>1, <3>3, <4>2, <5>1 DEF AsGiven, KeptByTag
          <5>2. CASE t \notin sdk
            BY <2>5, <2>8, <4>2, <5>2 DEF GivenByTag
          <5> QED
            BY <5>1, <5>2
        <4>3. ASSUME ~g.failed, NEW x \in g.held PROVE x.kind \in g.resources
          BY <2>5, <3>1, <3>3, <4>3 DEF AsGiven, KeptByTag
        <4> QED
          BY <2>6, <3>3, <4>1, <4>2, <4>3 DEF AsGiven
      <3> QED
        BY <3>2, <3>3
    <2> QED
      BY <1>1, <2>10, <2>11, <2>12 DEF InputsInv
  <1> QED
    BY <1>3, <1>4

(* The constants of a call, its refusal, and the markers of a frame.       *)
LEMMA MarksKeep ==
  InputsInv /\ (Inputs!ConstantsHook \/ Inputs!RejectUpstreamInput \/ \E id \in Inputs!Ids : Inputs!Paced(id)) => InputsInv'
  <1> SUFFICES ASSUME InputsInv, Inputs!ConstantsHook \/ Inputs!RejectUpstreamInput \/ \E id \in Inputs!Ids : Inputs!Paced(id)
               PROVE  InputsInv'
    OBVIOUS
  <1>0. InputsTyped /\ packet \in [Inputs!Ids -> PacketStates]
    BY DEF InputsInv, InputsTyped
  <1>1. CASE Inputs!ConstantsHook
    <2>1. entered # Inputs!Outside /\ entered' = Inputs!Outside
          /\ UNCHANGED <<chosen, wanted, nativeOff, epoch, gone, windowed, now, previous, enabled, sdk, sent>>
      BY <1>1 DEF Inputs!ConstantsHook, Inputs!Outside
    <2>2. seen' \in [Viewports -> SeenStates]
      BY <1>0, <1>1, <2>1, CallTyped, SeenKept DEF Inputs!ConstantsHook, InputsTyped
    <2>3. PICK valid \in {"valid", "invalid"} :
            packet' = IF Inputs!Counts(entered)
                      THEN [packet EXCEPT ![entered.id] = Inputs!SubmitConstants(@, valid, Inputs!From(entered))] ELSE packet
      BY <1>1 DEF Inputs!ConstantsHook
    <2>4. CASE Inputs!Counts(entered)
      <3>1. entered.id \in Inputs!Ids /\ Inputs!From(entered) \in Inputs!Origins /\ Inputs!From(entered).epoch = epoch
        BY <1>0, <2>1, <2>4, CallTyped DEF Inputs!Counts, Inputs!Current
      <3>2. Inputs!From(entered) \in Cameras
        BY <3>1 DEF Inputs!Origins, Cameras
      <3>3. PICK g : g = Inputs!SubmitConstants(packet[entered.id], valid, Inputs!From(entered))
        OBVIOUS
      <3>4. g \in PacketStates
        <4>1. packet[entered.id] \in PacketStates
          BY <1>0, <3>1
        <4>2. PICK f \in PacketStates : f = packet[entered.id]
          BY <4>1
        <4>3. g = [f EXCEPT !.known = TRUE, !.constants = valid, !.camera = Inputs!From(entered)]
          BY <3>3, <4>2 DEF Inputs!SubmitConstants
        <4> QED
          BY <3>2, <4>3 DEF PacketStates
      <3>5. /\ g.resources = packet[entered.id].resources /\ g.held = packet[entered.id].held
            /\ g.failed = packet[entered.id].failed /\ g.camera = Inputs!From(entered)
        BY <1>0, <3>1, <3>3 DEF Inputs!SubmitConstants, PacketStates
      <3>6. packet' = [packet EXCEPT ![entered.id] = g]
        BY <1>0, <2>3, <2>4, <3>1, <3>3
      <3>7. /\ packet' \in [Inputs!Ids -> PacketStates] /\ OfThisEpoch'
            /\ \A j \in Inputs!Ids : j >= now' => AsGiven(j)'
        BY <2>1, <3>1, <3>4, <3>5, <3>6, SameTags
      <3> QED
        BY <1>0, <2>1, <2>2, <3>7 DEF InputsInv, InputsTyped
    <2>5. CASE ~Inputs!Counts(entered)
      <3>1. packet' = packet
        BY <2>3, <2>5
      <3> QED
        BY <1>0, <2>1, <2>2, <3>1 DEF InputsInv, InputsTyped, OfThisEpoch, AsGiven
    <2> QED
      BY <2>4, <2>5
  <1>2. CASE Inputs!RejectUpstreamInput
    <2>1. entered # Inputs!Outside /\ entered' = Inputs!Outside
          /\ UNCHANGED <<seen, chosen, wanted, nativeOff, epoch, gone, windowed, now, previous, enabled, sdk, sent>>
      BY <1>2 DEF Inputs!RejectUpstreamInput
    <2>2. entered.id \in Inputs!Ids
      BY <1>0, <2>1, CallTyped
    <2>3. CASE Inputs!Counts(entered)
      <3>1. packet' = [packet EXCEPT ![entered.id] = [packet[entered.id] EXCEPT !.known = TRUE, !.failed = TRUE]]
        BY <1>0, <1>2, <2>2, <2>3 DEF Inputs!RejectUpstreamInput
      <3>2. PICK g : g = [packet[entered.id] EXCEPT !.known = TRUE, !.failed = TRUE]
        OBVIOUS
      <3>3. g \in PacketStates /\ g.failed /\ g.resources = packet[entered.id].resources
            /\ g.held = packet[entered.id].held /\ g.camera = packet[entered.id].camera
            /\ g.constants = packet[entered.id].constants
        <4>1. PICK f \in PacketStates : f = packet[entered.id]
          BY <1>0, <2>2
        <4>2. g = [f EXCEPT !.known = TRUE, !.failed = TRUE]
          BY <3>2, <4>1
        <4>3. g \in PacketStates
          BY <4>2 DEF PacketStates
        <4> QED
          BY <4>1, <4>2, <4>3 DEF PacketStates
      <3>4. g.constants # Inputs!None => g.camera \in Inputs!Origins /\ g.camera.epoch = epoch
        BY <2>2, <3>3 DEF InputsInv, OfThisEpoch
      <3>5. /\ packet' \in [Inputs!Ids -> PacketStates] /\ OfThisEpoch'
            /\ \A j \in Inputs!Ids : j >= now' => AsGiven(j)'
        BY <2>1, <2>2, <3>1, <3>2, <3>3, <3>4, SameTags
      <3> QED
        BY <1>0, <2>1, <3>5 DEF InputsInv, InputsTyped
    <2>4. CASE ~Inputs!Counts(entered)
      <3>1. packet' = packet
        BY <1>2, <2>4 DEF Inputs!RejectUpstreamInput
      <3> QED
        BY <1>0, <2>1, <3>1 DEF InputsInv, InputsTyped, OfThisEpoch, AsGiven
    <2> QED
      BY <2>3, <2>4
  <1>3. ASSUME NEW id \in Inputs!Ids, Inputs!Paced(id) PROVE InputsInv'
    <2>1. UNCHANGED <<seen, chosen, wanted, nativeOff, epoch, gone, windowed, now, previous, enabled, entered, sdk, sent>>
      BY <1>3 DEF Inputs!Paced
    <2>2. packet' = [packet EXCEPT ![id] = [packet[id] EXCEPT !.known = TRUE, !.paced = TRUE]]
      BY <1>0, <1>3 DEF Inputs!Paced
    <2>3. PICK g : g = [packet[id] EXCEPT !.known = TRUE, !.paced = TRUE]
      OBVIOUS
    <2>4. g \in PacketStates /\ g.failed = packet[id].failed /\ g.resources = packet[id].resources
          /\ g.held = packet[id].held /\ g.camera = packet[id].camera
          /\ g.constants = packet[id].constants
      BY <1>0, <2>3 DEF PacketStates
    <2>5. g.constants # Inputs!None => g.camera \in Inputs!Origins /\ g.camera.epoch = epoch
      BY <2>4 DEF InputsInv, OfThisEpoch
    <2>6. /\ packet' \in [Inputs!Ids -> PacketStates] /\ OfThisEpoch'
          /\ \A j \in Inputs!Ids : j >= now' => AsGiven(j)'
      BY <2>1, <2>2, <2>3, <2>4, <2>5, SameTags
    <2> QED
      BY <1>0, <2>1, <2>6 DEF InputsInv, InputsTyped
  <1> QED
    BY <1>1, <1>2, <1>3

(* An admitted frame gives the SDK what its packet says.                   *)
LEMMA SubmittedTyped ==
  ASSUME InputsInv, NEW id \in Inputs!Ids, NEW others, Inputs!Admitted(id, others), NEW done \in 0..3
  PROVE  \A t \in Inputs!Submitted(id, done) :
           /\ t \in [id : Inputs!Ids, kind : Inputs!Kinds \cup {"constants"}, from : Inputs!Origins]
           /\ t.id = id /\ t.from.epoch = epoch
           /\ t.kind = "constants" \/ \E x \in packet[id].held : x.kind = t.kind
  <1> SUFFICES ASSUME NEW t \in Inputs!Submitted(id, done)
               PROVE  /\ t \in [id : Inputs!Ids, kind : Inputs!Kinds \cup {"constants"}, from : Inputs!Origins]
                      /\ t.id = id /\ t.from.epoch = epoch
                      /\ t.kind = "constants" \/ \E x \in packet[id].held : x.kind = t.kind
    OBVIOUS
  <1>0. packet[id] \in PacketStates /\ packet[id].constants = "valid"
    BY DEF InputsInv, InputsTyped, Inputs!Admitted
  <1>1. packet[id].held \subseteq [kind : {"motion", "hud"}, from : Inputs!Origins]
    BY <1>0 DEF PacketStates, HeldStates
  <1>2. packet[id].camera \in Inputs!Origins /\ packet[id].camera.epoch = epoch
    BY <1>0 DEF InputsInv, OfThisEpoch, Inputs!None
  <1>3. CASE t \in Inputs!SubmitDejitteredMotion(id) \cup Inputs!SubmitPendingHud(id)
    <2>1. PICK x \in packet[id].held : t = [id |-> id, kind |-> x.kind, from |-> x.from]
      BY <1>3 DEF Inputs!SubmitDejitteredMotion, Inputs!SubmitPendingHud, Inputs!HeldBack
    <2>2. x.kind \in Inputs!Kinds /\ x.from \in Inputs!Origins /\ x.from.epoch = epoch
      BY <1>1, <2>1 DEF Inputs!Kinds, Inputs!Required, InputsInv, OfThisEpoch
    <2> QED
      BY <2>1, <2>2
  <1>4. CASE t = [id |-> id, kind |-> "constants", from |-> packet[id].camera]
    BY <1>2, <1>4
  <1> QED
    BY <1>3, <1>4 DEF Inputs!Submitted

(* The Present admits it, or shows it alone.                               *)
LEMMA PresentKeeps ==
  ASSUME InputsInv, NEW id \in Inputs!Ids, Inputs!SourcePresent(id)
  PROVE  InputsInv'
  <1>0. InputsTyped /\ packet \in [Inputs!Ids -> PacketStates] /\ now \in 0..MaxInputId /\ now <= id /\ MaxInputId \in Nat
    BY InputsAssumption DEF InputsInv, InputsTyped, Inputs!SourcePresent
  <1>1. UNCHANGED <<seen, nativeOff, epoch, gone, windowed, entered, sent>> /\ now' = id /\ previous' = id
        /\ packet' = Inputs!Prune(id)
    BY DEF Inputs!SourcePresent
  <1>2. PICK others \in Slips, done \in 0..3, accepted \in BOOLEAN :
          /\ sdk' = {t \in sdk : t.id >= id} \cup IF Inputs!Admitted(id, others) THEN Inputs!Submitted(id, done) ELSE {}
          /\ Inputs!SwitchGenerator(Inputs!Admitted(id, others) /\ done = 3, accepted)
    BY DEF Inputs!SourcePresent
  <1>3. \A t \in sdk' : \/ t \in sdk
                        \/ /\ t \in [id : Inputs!Ids, kind : Inputs!Kinds \cup {"constants"}, from : Inputs!Origins]
                           /\ t.id = id /\ t.from.epoch = epoch
                           /\ t.kind = "constants" \/ \E x \in packet[id].held : x.kind = t.kind
    BY <1>2, SubmittedTyped
  <1>4. \A t \in sdk : t.id >= id => t \in sdk'
    BY <1>2
  <1>5. Inputs!NoFrame \in PacketStates
    <2>1. {} \in HeldStates /\ [viewport |-> Inputs!None, epoch |-> 0] \in Cameras
      BY InputsAssumption DEF HeldStates, Cameras
    <2> QED
      BY <2>1 DEF Inputs!NoFrame, PacketStates
  <1>6. /\ packet' \in [Inputs!Ids -> PacketStates]
        /\ \A i \in Inputs!Ids : packet'[i] = Inputs!NoFrame \/ packet'[i] = packet[i]
        /\ \A i \in Inputs!Ids : i >= id => packet'[i] = packet[i]
    BY <1>0, <1>1, <1>5 DEF Inputs!Prune, Inputs!Ids
  <1>7. InputsTyped'
    <2>1. sdk' \subseteq [id : Inputs!Ids, kind : Inputs!Kinds \cup {"constants"}, from : Inputs!Origins]
      BY <1>0, <1>3 DEF InputsTyped
    <2>2. chosen' \in Viewports \cup {Inputs!None} /\ wanted' \in BOOLEAN
      BY <1>0 DEF Inputs!SourcePresent, Inputs!ReselectViewport, Inputs!Candidates, InputsTyped
    <2>3. enabled' \in BOOLEAN
      BY <1>2 DEF Inputs!SwitchGenerator
    <2>4. now' \in 0..MaxInputId /\ previous' \in 0..MaxInputId
      BY <1>0, <1>1 DEF Inputs!Ids
    <2> QED
      BY <1>0, <1>1, <1>6, <2>1, <2>2, <2>3, <2>4 DEF InputsTyped
  <1>8. OfThisEpoch'
    <2>1. \A t \in sdk' : t.from.epoch = epoch
      BY <1>3 DEF InputsInv, OfThisEpoch
    <2>2. ASSUME NEW i \in Inputs!Ids
          PROVE  /\ \A x \in packet'[i].held : x.from.epoch = epoch
                 /\ packet'[i].constants # Inputs!None => packet'[i].camera \in Inputs!Origins /\ packet'[i].camera.epoch = epoch
      <3>1. CASE packet'[i] = Inputs!NoFrame
        BY <3>1 DEF Inputs!NoFrame
      <3>2. CASE packet'[i] = packet[i]
        BY <3>2 DEF InputsInv, OfThisEpoch
      <3> QED
        BY <1>6, <3>1, <3>2
    <2> QED
      BY <1>1, <2>1, <2>2 DEF OfThisEpoch
  <1>9. ASSUME NEW i \in Inputs!Ids, i >= now' PROVE AsGiven(i)'
    <2>1. i >= id /\ i >= now /\ packet'[i] = packet[i]
      BY <1>0, <1>1, <1>6, <1>9 DEF Inputs!Ids
    <2>2. AsGiven(i)
      BY <2>1 DEF InputsInv
    <2>3. ASSUME NEW k \in packet[i].resources
          PROVE  (\E t \in sdk' : t.id = i /\ t.kind = k) \/ \E x \in packet[i].held : x.kind = k
      BY <1>4, <2>1, <2>2, <2>3 DEF AsGiven
    <2>4. ASSUME ~packet[i].failed, NEW t \in sdk', t.id = i PROVE t.kind \in packet[i].resources \cup {"constants"}
      BY <1>3, <2>2, <2>4 DEF AsGiven
    <2>5. ~packet[i].failed => \A x \in packet[i].held : x.kind \in packet[i].resources
      BY <2>2 DEF AsGiven
    <2> QED
      BY <2>1, <2>3, <2>4, <2>5 DEF AsGiven
  <1> QED
    BY <1>7, <1>8, <1>9 DEF InputsInv

(* Every step keeps it.                                                    *)
LEMMA InputsStep == InputsInv /\ [Inputs!Next]_(Inputs!vars) => InputsInv'
  <1> SUFFICES ASSUME InputsInv, [Inputs!Next]_(Inputs!vars) PROVE InputsInv'
    OBVIOUS
  <1>0. InputsTyped
    BY DEF InputsInv
  <1>1. ASSUME NEW v \in Viewports, NEW what \in {"off", "on"}, Inputs!OptionsHook(v, what) PROVE InputsInv'
    <2>1. UNCHANGED <<epoch, gone, windowed, packet, now, previous, enabled, entered, sdk>>
      BY <1>1 DEF Inputs!OptionsHook
    <2>2. seen' \in [Viewports -> SeenStates]
      <3>1. seen' = [seen EXCEPT ![v] = [seen[v] EXCEPT !.mode = what]]
        BY <1>0, <1>1 DEF Inputs!OptionsHook, InputsTyped
      <3>2. [seen[v] EXCEPT !.mode = what] \in SeenStates
        BY <1>0 DEF InputsTyped, SeenStates
      <3> QED
        BY <1>0, <3>1, <3>2 DEF InputsTyped
    <2>3. chosen' \in Viewports \cup {Inputs!None}
      BY <1>0, <1>1 DEF Inputs!OptionsHook, Inputs!SelectViewport, InputsTyped
    <2>4. wanted' \in BOOLEAN /\ nativeOff' \in BOOLEAN
      <3>1. PICK b \in BOOLEAN : b = (what = "on")
        OBVIOUS
      <3>2. PICK ok \in BOOLEAN : IF chosen' = v THEN nativeOff' = ok /\ wanted' = b ELSE UNCHANGED <<nativeOff, wanted>>
        BY <1>1, <3>1 DEF Inputs!OptionsHook
      <3> QED
        BY <1>0, <3>2 DEF InputsTyped
    <2>5. sent' \in 0..MaxSent
      BY <1>0, <1>1, InputsAssumption DEF Inputs!OptionsHook, InputsTyped
    <2>6. InputsTyped'
      BY <1>0, <2>1, <2>2, <2>3, <2>4, <2>5 DEF InputsTyped
    <2> QED
      BY <2>1, <2>6 DEF InputsInv, OfThisEpoch, AsGiven
  <1>2. ASSUME NEW v \in Viewports, NEW id \in Inputs!Ids,
               (\E ks \in Batches : Inputs!Enter("tags", v, id, ks)) \/ Inputs!Enter("constants", v, id, {})
        PROVE InputsInv'
    <2>1. UNCHANGED <<seen, chosen, wanted, nativeOff, epoch, gone, windowed, packet, now, previous, enabled, sdk>>
      BY <1>2 DEF Inputs!Enter
    <2>2. entered' \in {Inputs!Outside} \cup TagCalls \cup CameraCalls
      BY <1>0, <1>2 DEF Inputs!Enter, InputsTyped, TagCalls, CameraCalls
    <2>3. sent' \in 0..MaxSent
      BY <1>0, <1>2, InputsAssumption DEF Inputs!Enter, InputsTyped
    <2>4. InputsTyped'
      BY <1>0, <2>1, <2>2, <2>3 DEF InputsTyped
    <2> QED
      BY <2>1, <2>4 DEF InputsInv, OfThisEpoch, AsGiven
  <1>3. CASE Inputs!Retire
    <2>1. UNCHANGED <<seen, wanted, nativeOff, epoch, windowed, packet, now, previous, entered, sdk, sent>>
          /\ gone' = TRUE /\ chosen' = Inputs!None /\ enabled' = FALSE
      BY <1>3 DEF Inputs!Retire
    <2>2. InputsTyped'
      BY <1>0, <2>1 DEF InputsTyped
    <2> QED
      BY <2>1, <2>2 DEF InputsInv, OfThisEpoch, AsGiven
  <1>4. CASE Inputs!Resized \/ Inputs!SetFullscreenState \/ Inputs!CreateOutput
    <2>1. /\ epoch' = epoch + 1 /\ epoch < MaxEpoch /\ packet' = [i \in Inputs!Ids |-> Inputs!NoFrame]
          /\ previous' = 0 /\ sdk' = {} /\ now' = now
          /\ UNCHANGED <<seen, chosen, wanted, nativeOff, entered, sent>>
      BY <1>4 DEF Inputs!Resized, Inputs!SetFullscreenState, Inputs!CreateOutput, Inputs!NextEpoch
    <2>2. windowed' \in BOOLEAN /\ gone' \in BOOLEAN /\ enabled' \in BOOLEAN
      BY <1>0, <1>4 DEF Inputs!Resized, Inputs!SetFullscreenState, Inputs!CreateOutput, InputsTyped
    <2>3. epoch' \in 0..MaxEpoch /\ 0 \in 0..MaxInputId
      BY <1>0, <2>1, InputsAssumption DEF InputsTyped
    <2>4. Inputs!NoFrame \in PacketStates
      <3>1. {} \in HeldStates /\ [viewport |-> Inputs!None, epoch |-> 0] \in Cameras
        BY InputsAssumption DEF HeldStates, Cameras
      <3> QED
        BY <3>1 DEF Inputs!NoFrame, PacketStates
    <2>5. InputsTyped'
      BY <1>0, <2>1, <2>2, <2>3, <2>4 DEF InputsTyped
    <2>6. OfThisEpoch' /\ \A i \in Inputs!Ids : AsGiven(i)'
      BY <2>1 DEF OfThisEpoch, AsGiven, Inputs!NoFrame
    <2> QED
      BY <2>5, <2>6 DEF InputsInv
  <1>5. CASE UNCHANGED Inputs!vars
    BY <1>5 DEF Inputs!vars, InputsInv, InputsTyped, OfThisEpoch, AsGiven
  <1> QED
    BY <1>1, <1>2, <1>3, <1>4, <1>5, TagsKeep, MarksKeep, PresentKeeps DEF Inputs!Next

(* A frame is generated from what was given in the epoch of its Present.   *)
LEMMA InputsGenerate == InputsInv /\ [Inputs!Next]_(Inputs!vars) => Inputs!GeneratesFromCurrent
  <1> SUFFICES ASSUME InputsInv, [Inputs!Next]_(Inputs!vars), Inputs!Generated PROVE Inputs!GeneratesFromCurrent
    BY DEF Inputs!GeneratesFromCurrent
  <1>0. enabled' /\ previous' # previous /\ epoch' = epoch /\ epoch \in Nat
    BY InputsAssumption DEF Inputs!Generated, InputsInv, InputsTyped
  <1>1. PICK id \in Inputs!Ids : Inputs!SourcePresent(id)
    <2>1. ~(Inputs!Resized \/ Inputs!SetFullscreenState \/ Inputs!CreateOutput)
      <3>1. ~Inputs!NextEpoch
        BY <1>0 DEF Inputs!NextEpoch
      <3> QED
        BY <3>1 DEF Inputs!Resized, Inputs!SetFullscreenState, Inputs!CreateOutput
    <2>2. ~(Inputs!Tags \/ Inputs!ConstantsHook \/ Inputs!RejectUpstreamInput \/ Inputs!Retire \/ UNCHANGED Inputs!vars)
      BY <1>0 DEF Inputs!Tags, Inputs!ConstantsHook, Inputs!RejectUpstreamInput, Inputs!Retire,
         Inputs!vars
    <2>3. /\ \A v \in Viewports, what \in {"off", "on"} : ~Inputs!OptionsHook(v, what)
          /\ \A at0, v, i, ks : ~Inputs!Enter(at0, v, i, ks)
          /\ \A i \in Inputs!Ids : ~Inputs!Paced(i)
      BY <1>0 DEF Inputs!OptionsHook, Inputs!Enter, Inputs!Paced
    <2> QED
      BY <2>1, <2>2, <2>3 DEF Inputs!Next
  <1>2. PICK others \in Slips, done \in 0..3, accepted \in BOOLEAN :
          /\ sdk' = {t \in sdk : t.id >= id} \cup IF Inputs!Admitted(id, others) THEN Inputs!Submitted(id, done) ELSE {}
          /\ Inputs!SwitchGenerator(Inputs!Admitted(id, others) /\ done = 3, accepted)
    BY <1>1 DEF Inputs!SourcePresent
  <1>3. Inputs!Admitted(id, others) /\ done = 3
    BY <1>0, <1>2 DEF Inputs!SwitchGenerator
  <1>4. previous' = id /\ id \in {now, now + 1} /\ now \in 0..MaxInputId /\ id >= now /\ id \in Nat
    BY <1>1, InputsAssumption DEF Inputs!SourcePresent, InputsInv, InputsTyped
  <1>5. AsGiven(id) /\ ~packet[id].failed /\ Inputs!Required \subseteq packet[id].resources
    BY <1>3, <1>4 DEF InputsInv, Inputs!Admitted
  <1>6. \A t \in Inputs!Submitted(id, 3) :
           /\ t.id = id /\ t.from.epoch = epoch
           /\ t.kind = "constants" \/ \E x \in packet[id].held : x.kind = t.kind
    BY <1>3, SubmittedTyped
  <1>7. sdk' = {t \in sdk : t.id >= id} \cup Inputs!Submitted(id, 3)
    BY <1>2, <1>3
  <1>8. Inputs!Required \cup {"constants"} \subseteq {t.kind : t \in Inputs!Given}
    <2>1. \E t \in sdk' : t.id = id /\ t.kind = "constants"
      <3>1. [id |-> id, kind |-> "constants", from |-> packet[id].camera] \in Inputs!Submitted(id, 3)
        BY DEF Inputs!Submitted
      <3> QED
        BY <1>7, <3>1
    <2>2. ASSUME NEW k \in Inputs!Required PROVE \E t \in sdk' : t.id = id /\ t.kind = k
      <3>1. CASE \E t \in sdk : t.id = id /\ t.kind = k
        BY <1>4, <1>7, <3>1
      <3>2. CASE \E x \in packet[id].held : x.kind = k
        <4>1. PICK x \in packet[id].held : x.kind = k
          BY <3>2
        <4>2. x.kind = "motion" \/ x.kind = "hud"
          BY <4>1 DEF InputsInv, InputsTyped, PacketStates, HeldStates
        <4>3. [id |-> id, kind |-> x.kind, from |-> x.from] \in Inputs!Submitted(id, 3)
          BY <4>1, <4>2 DEF Inputs!Submitted, Inputs!SubmitDejitteredMotion, Inputs!SubmitPendingHud,
             Inputs!HeldBack
        <4> QED
          BY <1>7, <4>1, <4>3
      <3> QED
        BY <1>5, <3>1, <3>2 DEF AsGiven
    <2> QED
      BY <1>4, <2>1, <2>2 DEF Inputs!Given
  <1>9. ASSUME NEW t \in Inputs!Given PROVE t.from.epoch = epoch /\ t.kind \in packet[previous'].resources \cup {"constants"}
    <2>1. t \in sdk' /\ t.id = id
      BY <1>4, <1>9 DEF Inputs!Given
    <2>2. CASE t \in sdk
      BY <1>4, <1>5, <2>1, <2>2 DEF AsGiven, InputsInv, OfThisEpoch
    <2>3. CASE t \in Inputs!Submitted(id, 3)
      BY <1>4, <1>5, <1>6, <2>3 DEF AsGiven
    <2> QED
      BY <1>7, <2>1, <2>2, <2>3
  <1> QED
    BY <1>8, <1>9 DEF Inputs!GeneratesFromCurrent

(* The type follows.                                                       *)
LEMMA InputsSafe == InputsInv => Inputs!TypeOK
  <1> SUFFICES ASSUME InputsInv PROVE Inputs!TypeOK
    OBVIOUS
  <1>0. InputsTyped /\ DOMAIN packet = Inputs!Ids
    BY DEF InputsInv, InputsTyped
  <1>1. ASSUME NEW i \in Inputs!Ids
        PROVE  /\ packet[i].resources \subseteq Inputs!Kinds
               /\ packet[i].held \subseteq [kind : Inputs!Kinds, from : Inputs!Origins]
               /\ packet[i].constants \in {Inputs!None, "valid", "invalid"}
    <2>1. packet[i] \in PacketStates
      BY <1>0 DEF InputsTyped
    <2>2. packet[i].resources \in SUBSET Inputs!Kinds /\ packet[i].constants \in {Inputs!None, "valid", "invalid"}
          /\ packet[i].held \in HeldStates
      BY <2>1 DEF PacketStates
    <2>3. [kind : {"motion", "hud"}, from : Inputs!Origins] \subseteq [kind : Inputs!Kinds, from : Inputs!Origins]
      BY DEF Inputs!Kinds, Inputs!Required
    <2> QED
      BY <2>2, <2>3 DEF HeldStates
  <1>2. entered.at \in {"outside", "tags", "constants"} /\ entered.id \in 0..MaxInputId
    <2>1. CASE entered = Inputs!Outside
      BY <2>1, InputsAssumption DEF Inputs!Outside
    <2>2. CASE entered \in TagCalls \cup CameraCalls
      BY <2>2, InputsAssumption DEF TagCalls, CameraCalls, Inputs!Ids
    <2> QED
      BY <1>0, <2>1, <2>2 DEF InputsTyped
  <1> QED
    BY <1>0, <1>1, <1>2 DEF InputsTyped, Inputs!TypeOK, SeenStates

----------------------------------------------------------------------------
(* The synthesized source frames (SyntheticFrames).                        *)

FrameIds    == 1..MaxFrameId
QueueStates == [pending : Seq(FrameIds), building : 0..MaxFrameId, presenting : 0..MaxFrameId, evidence : 0..Evidence,
                submitted : BOOLEAN, merged : BOOLEAN, lastMerged : BOOLEAN, pipelined : BOOLEAN,
                refused : BOOLEAN]
Evaluations == [at : {"sleeping", "woken", "feeding"}, adapter : Synthetic!Adapters, output : Synthetic!Outputs, id : FrameIds]

SyntheticTyped ==
  /\ queue \in QueueStates /\ Len(queue.pending) <= Depth
  /\ made \in 0..SyntheticOutputs /\ synLive \in 0..made /\ owned \in 0..made /\ inPresent \in {0, synLive}
  /\ synLive # 0 => owned \in {0, synLive}
  /\ ownerName \in Synthetic!Adapters \cup {"none"} /\ active \in BOOLEAN /\ requested \in BOOLEAN
  /\ synStreamline \in BOOLEAN /\ synContexts \subseteq {"swapchain", "generation"}
  /\ ffxRequested \in BOOLEAN /\ features \in BOOLEAN
  /\ evaluation \in [GameThreads -> {Synthetic!Idle} \cup Evaluations]
  /\ slept \in [Synthetic!Outputs -> Seq(FrameIds)] /\ shown \in [Synthetic!Outputs -> Seq(FrameIds)]

LastShown(o) == IF shown[o] = <<>> THEN 0 ELSE shown[o][Len(shown[o])]

\* What an output has slept for and shown.
InOrder(o) ==
  /\ \A i \in 1..Len(slept[o]) : slept[o][i] = i
  /\ \A i \in 1..Len(shown[o]) : /\ shown[o][i] <= Len(slept[o])
                                 /\ i > 1 => shown[o][i - 1] < shown[o][i]
  /\ o > made => slept[o] = <<>> /\ shown[o] = <<>>

Under(t, o) == evaluation[t] # Synthetic!Idle /\ evaluation[t].output = o

\* One evaluation at a time of an adapter, and of an output.
OneEach ==
  /\ \A t, u \in GameThreads :
       /\ evaluation[t] # Synthetic!Idle /\ evaluation[u] # Synthetic!Idle
       /\ evaluation[t].adapter = evaluation[u].adapter \/ evaluation[t].output = evaluation[u].output
       => t = u
  /\ \A t \in GameThreads : evaluation[t] # Synthetic!Idle =>
       /\ evaluation[t].output <= made
       /\ evaluation[t].adapter = "dlss_sr" => t \in Recorders
       /\ evaluation[t].output = owned => evaluation[t].adapter = ownerName /\ active
       /\ evaluation[t].at = "sleeping" => evaluation[t].id = Len(slept[evaluation[t].output]) + 1

\* The queue by itself: ids in order, the newest last once it is submitted.
Ordered(q) ==
  /\ \A i, j \in 1..Len(q.pending) : i < j => q.pending[i] < q.pending[j]
  /\ \A i \in 1..Len(q.pending) : q.pending[i] <= q.building
  /\ q.submitted => q.pending # <<>> /\ q.pending[Len(q.pending)] = q.building
  /\ ~q.submitted => Len(q.pending) < Depth /\ \A i \in 1..Len(q.pending) : q.pending[i] < q.building
  /\ Len(q.pending) <= Depth
  /\ ~q.pipelined /\ ~q.refused => q.evidence < Evidence
  /\ q.building = 0 => ~q.submitted

\* The queue, and the output it belongs to.
Queued(o) ==
  /\ Ordered(queue)
  /\ ~active => queue = Synthetic!NewQueue
  /\ \A t \in GameThreads : Under(t, o) /\ evaluation[t].at \in {"sleeping", "woken"} =>
                          evaluation[t].id = queue.building /\ ~queue.submitted
  /\ (\A t \in GameThreads : ~(Under(t, o) /\ evaluation[t].at = "sleeping")) => queue.building = Len(slept[o])
  /\ LastShown(o) <= queue.building
  /\ ~queue.submitted /\ queue.building # 0 => LastShown(o) < queue.building
  /\ queue.presenting # 0 => LastShown(o) = queue.presenting
  /\ \A i \in 1..Len(queue.pending) :
       \/ LastShown(o) < queue.pending[i]
       \/ i = 1 /\ inPresent = o /\ queue.pending[i] = queue.presenting

SyntheticInv ==
  /\ SyntheticTyped /\ OneEach
  /\ \A o \in Synthetic!Outputs : InOrder(o)
  /\ owned # 0 => Queued(owned)

\* What an evaluation that asks for a frame does to the queue.
Given(q) == LET s == Synthetic!Submit(q) IN IF s.start THEN s.q ELSE Synthetic!Commit(s.q, s.id)

(* The fields of a queue.                                                  *)
LEMMA QueueFields ==
  ASSUME NEW q \in QueueStates
  PROVE  /\ q.pending \in Seq(FrameIds) /\ Len(q.pending) \in Nat
         /\ \A i \in 1..Len(q.pending) : q.pending[i] \in FrameIds /\ q.pending[i] \in Nat \ {0}
         /\ q.building \in 0..MaxFrameId /\ q.building \in Nat /\ q.presenting \in 0..MaxFrameId
         /\ q.evidence \in 0..Evidence /\ q.evidence \in Nat
         /\ q.submitted \in BOOLEAN /\ q.merged \in BOOLEAN /\ q.lastMerged \in BOOLEAN
         /\ q.pipelined \in BOOLEAN /\ q.refused \in BOOLEAN
  <1>1. q.pending \in Seq(FrameIds)
    BY DEF QueueStates
  <1>2. /\ q.building \in 0..MaxFrameId /\ q.building \in Nat /\ q.presenting \in 0..MaxFrameId
        /\ q.evidence \in 0..Evidence /\ q.evidence \in Nat
    BY SyntheticAssumption DEF QueueStates
  <1>3. /\ q.submitted \in BOOLEAN /\ q.merged \in BOOLEAN /\ q.lastMerged \in BOOLEAN
        /\ q.pipelined \in BOOLEAN /\ q.refused \in BOOLEAN
    BY DEF QueueStates
  <1>4. Len(q.pending) \in Nat /\ \A i \in 1..Len(q.pending) : q.pending[i] \in FrameIds /\ q.pending[i] \in Nat \ {0}
    BY <1>1, SyntheticAssumption DEF FrameIds
  <1> QED
    BY <1>1, <1>2, <1>3, <1>4

(* A frame is committed once, by the evaluation that opened it last.       *)
LEMMA Committed ==
  ASSUME NEW q \in QueueStates, Ordered(q), ~q.submitted, q.building # 0
  PROVE  LET r == Synthetic!Commit(q, q.building)
         IN /\ r \in QueueStates /\ Ordered(r) /\ r.submitted /\ r.building = q.building
            /\ r.presenting = q.presenting /\ Len(r.pending) = Len(q.pending) + 1
            /\ \A i \in 1..Len(q.pending) : r.pending[i] = q.pending[i]
            /\ r.pending[Len(r.pending)] = q.building
  <1> DEFINE r == Synthetic!Commit(q, q.building)
  <1>0. q.building \in FrameIds /\ q.pending \in Seq(FrameIds)
    BY QueueFields, SyntheticAssumption DEF FrameIds
  <1>1. r = [q EXCEPT !.pending = Append(q.pending, q.building), !.submitted = TRUE]
    BY DEF Synthetic!Commit
  <1> HIDE DEF r
  <1>2. /\ r.pending = Append(q.pending, q.building) /\ r.submitted = TRUE /\ r.building = q.building
        /\ r.presenting = q.presenting /\ r.pipelined = q.pipelined /\ r.refused = q.refused
        /\ r.evidence = q.evidence
    BY <1>1 DEF QueueStates
  <1>3. /\ r.pending \in Seq(FrameIds) /\ Len(r.pending) = Len(q.pending) + 1
        /\ \A i \in 1..Len(q.pending) : r.pending[i] = q.pending[i]
        /\ r.pending[Len(r.pending)] = q.building
    BY <1>0, <1>2, AppendProperties
  <1>4. r \in QueueStates
    <2>1. Append(q.pending, q.building) \in Seq(FrameIds)
      BY <1>2, <1>3
    <2> QED
      BY <1>1, <2>1 DEF QueueStates
  <1>5. Ordered(r)
    <2>1. /\ Len(q.pending) \in Nat /\ q.building \in Nat
          /\ \A i \in 1..Len(q.pending) : q.pending[i] \in Nat /\ q.pending[i] < q.building
          /\ Len(q.pending) < Depth
          /\ \A i, j \in 1..Len(q.pending) : i < j => q.pending[i] < q.pending[j]
      BY QueueFields DEF Ordered
    <2>2. \A i \in 1..Len(r.pending) : i \in 1..Len(q.pending) \/ i = Len(r.pending)
      BY <1>3, <2>1
    <2>3. \A i, j \in 1..Len(r.pending) : i < j => r.pending[i] < r.pending[j]
      BY <1>3, <2>1, <2>2
    <2>4. \A i \in 1..Len(r.pending) : r.pending[i] <= r.building
      BY <1>2, <1>3, <2>1, <2>2
    <2>5. r.pending # <<>> /\ r.pending[Len(r.pending)] = r.building /\ Len(r.pending) <= Depth
      <3>1. Len(r.pending) # 0 /\ Len(r.pending) <= Depth
        BY <1>3, <2>1, SyntheticAssumption
      <3>2. r.pending # <<>>
        BY <3>1
      <3> QED
        BY <1>2, <1>3, <3>1, <3>2
    <2>6. (~q.pipelined /\ ~q.refused => q.evidence < Evidence) /\ r.building # 0
      BY <1>2 DEF Ordered
    <2> QED
      BY <1>2, <2>3, <2>4, <2>5, <2>6 DEF Ordered
  <1> QED
    BY <1>2, <1>3, <1>4, <1>5 DEF r

(* A submission opens the next frame, or joins the newest.                 *)
LEMMA Submitted ==
  ASSUME NEW q \in QueueStates, Ordered(q), Synthetic!Submit(q).id <= MaxFrameId
  PROVE  LET s == Synthetic!Submit(q)  r == Given(q)
         IN /\ r \in QueueStates /\ Ordered(r) /\ s.id \in FrameIds /\ s.start \in BOOLEAN
            /\ r.presenting = q.presenting /\ r.building = s.id
            /\ s.start => /\ ~r.submitted /\ s.id = q.building + 1 /\ r.pending = q.pending
            /\ ~s.start => /\ r.submitted /\ s.id = q.building
                           /\ \A i \in 1..Len(r.pending) :
                                 \/ \E j \in 1..Len(q.pending) : r.pending[i] = q.pending[j] /\ (j = 1 => i = 1)
                                 \/ ~q.submitted /\ r.pending[i] = q.building
  <1> DEFINE s == Synthetic!Submit(q)
             r == Given(q)
  <1>0. /\ q.pending \in Seq(FrameIds) /\ Len(q.pending) \in Nat /\ q.building \in Nat
        /\ q.building \in 0..MaxFrameId /\ q.submitted \in BOOLEAN /\ q.pipelined \in BOOLEAN
        /\ \A i \in 1..Len(q.pending) : q.pending[i] \in Nat
    BY QueueFields
  <1>1. CASE q.building = 0
    <2>1. /\ s = [id |-> 1, start |-> TRUE, q |-> [q EXCEPT !.building = 1]]
          /\ r = [q EXCEPT !.building = 1]
      <3>1. ~q.submitted
        BY <1>1 DEF Ordered
      <3> QED
        BY <1>1, <3>1 DEF Synthetic!Submit, Given
    <2> HIDE DEF r, s
    <2>2. 1 \in FrameIds /\ 1 \in 0..MaxFrameId
      BY <2>1, SyntheticAssumption DEF FrameIds, s
    <2>3. r \in QueueStates
      BY <2>1, <2>2 DEF QueueStates
    <2>4. /\ r.pending = q.pending /\ r.building = 1 /\ r.presenting = q.presenting
          /\ r.submitted = q.submitted /\ r.pipelined = q.pipelined /\ r.refused = q.refused
          /\ r.evidence = q.evidence
      BY <2>1 DEF QueueStates
    <2>5. ~q.submitted /\ Ordered(r)
      BY <1>0, <1>1, <2>4 DEF Ordered
    <2> QED
      BY <1>1, <2>1, <2>2, <2>3, <2>4, <2>5 DEF r, s
  <1>2. CASE q.building # 0 /\ ~q.submitted
    <2>1. s = [id |-> q.building, start |-> FALSE, q |-> q] /\ r = Synthetic!Commit(q, q.building)
      BY <1>2 DEF Synthetic!Submit, Given
    <2>2. /\ r \in QueueStates /\ Ordered(r) /\ r.submitted /\ r.building = q.building
          /\ r.presenting = q.presenting /\ Len(r.pending) = Len(q.pending) + 1
          /\ \A i \in 1..Len(q.pending) : r.pending[i] = q.pending[i]
          /\ r.pending[Len(r.pending)] = q.building
      BY <1>2, <2>1, Committed
    <2> HIDE DEF r, s
    <2>3. \A i \in 1..Len(r.pending) : i \in 1..Len(q.pending) \/ r.pending[i] = q.building
      BY <1>0, <2>2
    <2>4. q.building \in FrameIds
      BY <1>0, <1>2 DEF FrameIds
    <2> QED
      BY <1>2, <2>1, <2>2, <2>3, <2>4 DEF r, s
  <1>3. CASE q.building # 0 /\ q.submitted /\ ~q.pipelined
    <2>1. /\ s = [id |-> q.building, start |-> FALSE, q |-> [q EXCEPT !.merged = TRUE]]
          /\ r = Synthetic!Commit([q EXCEPT !.merged = TRUE], q.building)
      BY <1>3 DEF Synthetic!Submit, Given
    <2>2. [q EXCEPT !.merged = TRUE].submitted = q.submitted
      BY DEF QueueStates
    <2>3. r = [q EXCEPT !.merged = TRUE]
      BY <1>3, <2>1, <2>2 DEF Synthetic!Commit
    <2> HIDE DEF r, s
    <2>4. r \in QueueStates
      BY <2>3 DEF QueueStates
    <2>5. /\ r.pending = q.pending /\ r.building = q.building /\ r.presenting = q.presenting
          /\ r.submitted = q.submitted /\ r.pipelined = q.pipelined /\ r.refused = q.refused
          /\ r.evidence = q.evidence
      BY <2>3 DEF QueueStates
    <2>6. Ordered(r) /\ q.building \in FrameIds
      BY <1>0, <1>3, <2>5 DEF Ordered, FrameIds
    <2>7. \A i \in 1..Len(r.pending) :
            \E j \in 1..Len(q.pending) : r.pending[i] = q.pending[j] /\ (j = 1 => i = 1)
      BY <2>5
    <2>8. s.id = q.building /\ s.start = FALSE
      BY <2>1
    <2> QED
      BY <1>3, <2>4, <2>5, <2>6, <2>7, <2>8 DEF r, s
  <1>4. CASE q.building # 0 /\ q.submitted /\ q.pipelined /\ Len(q.pending) >= Depth
    <2> DEFINE n == [q EXCEPT !.pipelined = FALSE, !.refused = TRUE, !.merged = TRUE, !.pending = <<q.building>>]
    <2>1. s = [id |-> q.building, start |-> FALSE, q |-> n] /\ r = Synthetic!Commit(n, q.building)
      BY <1>4 DEF Synthetic!Submit, Given
    <2>2. n.submitted = q.submitted
      BY DEF QueueStates
    <2>3. r = n
      BY <1>4, <2>1, <2>2 DEF Synthetic!Commit
    <2> HIDE DEF r, s
    <2>4. q.building \in FrameIds /\ <<q.building>> \in Seq(FrameIds)
      BY <1>0, <1>4 DEF FrameIds
    <2>5. r \in QueueStates
      BY <2>3, <2>4 DEF QueueStates
    <2>6. /\ r.pending = <<q.building>> /\ r.building = q.building /\ r.presenting = q.presenting
          /\ r.submitted = q.submitted /\ r.refused = TRUE
      BY <2>3 DEF QueueStates
    <2> HIDE DEF n
    <2>7. Len(r.pending) = 1 /\ r.pending[1] = q.building /\ 1 <= Depth
      BY <2>6, SyntheticAssumption
    <2>8. q.pending # <<>> /\ q.pending[Len(q.pending)] = q.building
      BY <1>4 DEF Ordered
    <2>9. Len(q.pending) \in 1..Len(q.pending)
      BY <1>0, <2>8
    <2>10. Ordered(r)
      BY <1>0, <1>4, <2>6, <2>7 DEF Ordered
    <2> QED
      BY <1>4, <2>1, <2>4, <2>5, <2>6, <2>7, <2>8, <2>9, <2>10 DEF r, s
  <1>5. CASE q.building # 0 /\ q.submitted /\ q.pipelined /\ ~(Len(q.pending) >= Depth)
    <2>1. /\ s = [id |-> q.building + 1, start |-> TRUE,
                  q |-> [q EXCEPT !.building = q.building + 1, !.submitted = FALSE]]
          /\ r = [q EXCEPT !.building = q.building + 1, !.submitted = FALSE]
      BY <1>5 DEF Synthetic!Submit, Given
    <2> HIDE DEF r, s
    <2>2. q.building + 1 \in FrameIds /\ q.building + 1 \in 0..MaxFrameId
      BY <1>0, <2>1, SyntheticAssumption DEF FrameIds, s
    <2>3. r \in QueueStates
      BY <2>1, <2>2 DEF QueueStates
    <2>4. /\ r.pending = q.pending /\ r.building = q.building + 1 /\ r.presenting = q.presenting
          /\ r.submitted = FALSE /\ r.pipelined = q.pipelined /\ r.refused = q.refused
          /\ r.evidence = q.evidence
      BY <2>1 DEF QueueStates
    <2>5. Ordered(r)
      BY <1>0, <1>5, <2>4, SyntheticAssumption DEF Ordered
    <2> QED
      BY <2>1, <2>2, <2>3, <2>4, <2>5 DEF r, s
  <1> QED
    BY <1>0, <1>1, <1>2, <1>3, <1>4, <1>5

(* A Present takes the oldest frame submitted, and leaves the others.      *)
LEMMA Presented ==
  ASSUME NEW q \in QueueStates, Ordered(q)
  PROVE  LET r == Synthetic!BeforePresent(q)
         IN /\ r \in QueueStates /\ Ordered(r) /\ r.pending = q.pending /\ r.building = q.building
            /\ r.submitted = q.submitted
            /\ q.pending = <<>> => r.presenting = 0
            /\ q.pending # <<>> => r.presenting = q.pending[1] /\ Len(q.pending) >= 1
  <1> DEFINE r == Synthetic!BeforePresent(q)
  <1>0. /\ q.pending \in Seq(FrameIds) /\ q.evidence \in Nat /\ q.evidence \in 0..Evidence
        /\ q.lastMerged \in BOOLEAN /\ q.merged \in BOOLEAN /\ q.refused \in BOOLEAN /\ q.pipelined \in BOOLEAN
    BY QueueFields
  <1>1. CASE q.pending # <<>>
    <2>1. r = [q EXCEPT !.lastMerged = q.merged, !.merged = FALSE, !.presenting = Head(q.pending)]
      BY <1>1 DEF Synthetic!BeforePresent
    <2> HIDE DEF r
    <2>2. Head(q.pending) = q.pending[1] /\ Len(q.pending) >= 1 /\ Head(q.pending) \in 0..MaxFrameId
      <3>1. Head(q.pending) = q.pending[1] /\ Len(q.pending) >= 1
        BY <1>0, <1>1
      <3>2. q.pending[1] \in FrameIds
        BY <1>0, <3>1
      <3> QED
        BY <3>1, <3>2, SyntheticAssumption DEF FrameIds
    <2>3. r \in QueueStates
      BY <1>0, <2>1, <2>2 DEF QueueStates
    <2>4. /\ r.pending = q.pending /\ r.building = q.building /\ r.presenting = Head(q.pending)
          /\ r.submitted = q.submitted /\ r.pipelined = q.pipelined /\ r.refused = q.refused
          /\ r.evidence = q.evidence
      BY <2>1 DEF QueueStates
    <2>5. Ordered(r)
      BY <2>4 DEF Ordered
    <2> QED
      BY <1>1, <2>2, <2>3, <2>4, <2>5 DEF r
  <1>2. CASE q.pending = <<>>
    <2> DEFINE spotted == q.lastMerged /\ ~q.refused /\ ~q.pipelined
    <2>0. PICK e \in Nat : e = IF spotted THEN q.evidence + 1 ELSE q.evidence
      BY <1>0
    <2>1. PICK b \in BOOLEAN : b = (q.pipelined \/ (spotted /\ q.evidence + 1 >= Evidence))
      OBVIOUS
    <2>2. r = [q EXCEPT !.lastMerged = FALSE, !.presenting = 0, !.evidence = e, !.pipelined = b]
      BY <1>2, <2>0, <2>1 DEF Synthetic!BeforePresent
    <2> HIDE DEF r
    <2>3. e \in 0..Evidence /\ (~b /\ ~q.refused => e < Evidence)
      BY <1>0, <2>0, <2>1, SyntheticAssumption DEF Ordered
    <2>4. r \in QueueStates
      <3>1. 0 \in 0..MaxFrameId /\ FALSE \in BOOLEAN
        BY SyntheticAssumption
      <3> QED
        BY <2>1, <2>2, <2>3, <3>1 DEF QueueStates
    <2>5. /\ r.pending = q.pending /\ r.building = q.building /\ r.presenting = 0
          /\ r.submitted = q.submitted /\ r.pipelined = b /\ r.refused = q.refused /\ r.evidence = e
      BY <2>2 DEF QueueStates
    <2>6. Ordered(r)
      BY <2>3, <2>5 DEF Ordered
    <2> QED
      BY <1>2, <2>4, <2>5, <2>6 DEF r
  <1> QED
    BY <1>1, <1>2

(* After it the frame is gone, and the next is open once this one was the  *)
(* newest.                                                                 *)
LEMMA Shifted ==
  ASSUME NEW q \in QueueStates, Ordered(q), Synthetic!AfterPresent(q).start <= MaxFrameId
  PROVE  LET p == Synthetic!AfterPresent(q)  r == p.q
         IN /\ r \in QueueStates /\ Ordered(r) /\ p.start \in 0..MaxFrameId
            /\ \/ p.start = 0 /\ r = q /\ (q.presenting = 0 \/ q.pending = <<>> \/ q.pending[1] # q.presenting)
               \/ /\ r.presenting = 0 /\ Len(r.pending) = Len(q.pending) - 1
                  /\ \A i \in 1..Len(r.pending) : i + 1 \in 1..Len(q.pending) /\ r.pending[i] = q.pending[i + 1]
                  /\ \/ p.start = 0 /\ ~q.submitted /\ ~r.submitted /\ r.building = q.building
                     \/ p.start = q.building + 1 /\ q.submitted /\ ~r.submitted /\ r.building = q.building + 1
  <1> DEFINE p == Synthetic!AfterPresent(q)
             r == p.q
  <1>0. /\ q.pending \in Seq(FrameIds) /\ Len(q.pending) \in Nat /\ q.building \in Nat
        /\ q.building \in 0..MaxFrameId /\ q.submitted \in BOOLEAN
        /\ \A i \in 1..Len(q.pending) : q.pending[i] \in Nat
    BY QueueFields
  <1>1. CASE q.presenting = 0 \/ q.pending = <<>> \/ Head(q.pending) # q.presenting
    <2>1. p = [id |-> 0, start |-> 0, q |-> q]
      BY <1>1 DEF Synthetic!AfterPresent
    <2>2. q.presenting = 0 \/ q.pending = <<>> \/ q.pending[1] # q.presenting
      BY <1>0, <1>1
    <2> QED
      BY <2>1, <2>2, SyntheticAssumption
  <1>2. CASE ~(q.presenting = 0 \/ q.pending = <<>> \/ Head(q.pending) # q.presenting)
    <2> DEFINE shift == [q EXCEPT !.presenting = 0, !.pending = Tail(q.pending)]
    <2>1. /\ Tail(q.pending) \in Seq(FrameIds) /\ Len(Tail(q.pending)) = Len(q.pending) - 1
          /\ Len(q.pending) >= 1
          /\ \A i \in 1..Len(Tail(q.pending)) : i + 1 \in 1..Len(q.pending) /\ Tail(q.pending)[i] = q.pending[i + 1]
      BY <1>0, <1>2, HeadTailProperties
    <2>2. /\ \A i, j \in 1..Len(Tail(q.pending)) : i < j => Tail(q.pending)[i] < Tail(q.pending)[j]
          /\ \A i \in 1..Len(Tail(q.pending)) : Tail(q.pending)[i] <= q.building /\ Tail(q.pending)[i] \in Nat
          /\ Len(Tail(q.pending)) < Depth
      <3>0. /\ \A i, j \in 1..Len(q.pending) : i < j => q.pending[i] < q.pending[j]
            /\ \A i \in 1..Len(q.pending) : q.pending[i] <= q.building
            /\ Len(q.pending) <= Depth
        BY DEF Ordered
      <3>1. ASSUME NEW i \in 1..Len(Tail(q.pending)), NEW j \in 1..Len(Tail(q.pending)), i < j
            PROVE  Tail(q.pending)[i] < Tail(q.pending)[j]
        <4>1. i + 1 \in 1..Len(q.pending) /\ j + 1 \in 1..Len(q.pending) /\ i + 1 < j + 1
          BY <2>1, <3>1
        <4> QED
          BY <2>1, <3>0, <4>1
      <3>2. \A i \in 1..Len(Tail(q.pending)) : Tail(q.pending)[i] <= q.building /\ Tail(q.pending)[i] \in Nat
        BY <1>0, <2>1, <3>0
      <3>3. Len(Tail(q.pending)) < Depth
        BY <1>0, <2>1, <3>0, SyntheticAssumption
      <3> QED
        BY <3>1, <3>2, <3>3
    <2>3. CASE ~q.submitted
      <3>1. p = [id |-> q.presenting, start |-> 0, q |-> shift]
        BY <1>2, <2>3 DEF Synthetic!AfterPresent
      <3>2. shift \in QueueStates
        <4>1. 0 \in 0..MaxFrameId
          BY SyntheticAssumption
        <4>2. PICK rest \in Seq(FrameIds) : rest = Tail(q.pending)
          BY <2>1
        <4>3. shift = [q EXCEPT !.presenting = 0, !.pending = rest]
          BY <4>2
        <4> QED
          BY <4>1, <4>3 DEF QueueStates
      <3>3. /\ shift.pending = Tail(q.pending) /\ shift.building = q.building /\ shift.presenting = 0
            /\ shift.submitted = q.submitted /\ shift.pipelined = q.pipelined /\ shift.refused = q.refused
            /\ shift.evidence = q.evidence
        BY DEF QueueStates
      <3> HIDE DEF shift
      <3>4. \A i \in 1..Len(Tail(q.pending)) : Tail(q.pending)[i] < q.building
        BY <2>1, <2>3 DEF Ordered
      <3>5. Ordered(shift)
        BY <2>2, <2>3, <3>3, <3>4, SyntheticAssumption, <1>0 DEF Ordered
      <3>6. p.start = 0 /\ r = shift
        BY <3>1
      <3>7. 0 \in 0..MaxFrameId
        BY SyntheticAssumption
      <3> HIDE DEF p
      <3> QED
        BY <2>1, <2>3, <3>2, <3>3, <3>5, <3>6, <3>7 DEF p
    <2>4. CASE q.submitted
      <3> DEFINE n == [shift EXCEPT !.building = q.building + 1, !.submitted = FALSE]
      <3>0. n = [q EXCEPT !.presenting = 0, !.pending = Tail(q.pending), !.building = q.building + 1, !.submitted = FALSE]
        BY DEF QueueStates
      <3>1. p = [id |-> q.presenting, start |-> q.building + 1, q |-> n]
        BY <1>2, <2>4 DEF Synthetic!AfterPresent, QueueStates
      <3>2. q.building + 1 \in 0..MaxFrameId
        BY <1>0, <3>1, SyntheticAssumption
      <3> HIDE DEF n
      <3>3. n \in QueueStates
        <4>1. 0 \in 0..MaxFrameId /\ FALSE \in BOOLEAN
          BY SyntheticAssumption
        <4>2. PICK rest \in Seq(FrameIds) : rest = Tail(q.pending)
          BY <2>1
        <4>3. PICK next \in 0..MaxFrameId : next = q.building + 1
          BY <3>2
        <4>4. n = [q EXCEPT !.presenting = 0, !.pending = rest, !.building = next, !.submitted = FALSE]
          BY <3>0, <4>2, <4>3
        <4> HIDE DEF shift
        <4> QED
          BY <4>1, <4>4 DEF QueueStates
      <3>4. /\ n.pending = Tail(q.pending) /\ n.building = q.building + 1 /\ n.presenting = 0
            /\ n.submitted = FALSE /\ n.pipelined = q.pipelined /\ n.refused = q.refused
            /\ n.evidence = q.evidence
        BY <3>0 DEF QueueStates
      <3>5. Ordered(n)
        BY <1>0, <2>2, <3>4, SyntheticAssumption DEF Ordered
      <3>6. p.start = q.building + 1 /\ r = n
        BY <3>1
      <3> HIDE DEF p
      <3> QED
        BY <1>0, <2>1, <2>4, <3>2, <3>3, <3>4, <3>5, <3>6 DEF p
    <2> QED
      BY <1>0, <2>3, <2>4
  <1> QED
    BY <1>1, <1>2

(* An evaluation that is not idle is one of an adapter, for an output.     *)
LEMMA Evaluating ==
  ASSUME SyntheticTyped
  PROVE  /\ \A t \in GameThreads : evaluation[t] # Synthetic!Idle => evaluation[t] \in Evaluations
         /\ \A t \in GameThreads : evaluation[t] # Synthetic!Idle =>
              /\ evaluation[t].output \in Synthetic!Outputs /\ evaluation[t].output # 0 /\ evaluation[t].id \in FrameIds
              /\ evaluation[t].adapter \in Synthetic!Adapters
         /\ \A t \in GameThreads : evaluation[t].at # "idle" => evaluation[t] # Synthetic!Idle
         /\ \A t \in GameThreads : evaluation[t] # Synthetic!Idle => evaluation[t].at # "idle"
  <1>1. \A t \in GameThreads : evaluation[t] \in {Synthetic!Idle} \cup Evaluations
    BY DEF SyntheticTyped
  <1>2. \A t \in GameThreads : evaluation[t] # Synthetic!Idle => evaluation[t] \in Evaluations
    BY <1>1
  <1>3. \A e \in Evaluations : /\ e.output \in Synthetic!Outputs /\ e.output # 0 /\ e.id \in FrameIds
                                /\ e.adapter \in Synthetic!Adapters /\ e.at # "idle"
    BY DEF Evaluations, Synthetic!Outputs
  <1>4. Synthetic!Idle.at = "idle"
    BY DEF Synthetic!Idle
  <1> QED
    BY <1>2, <1>3, <1>4

(* Nothing is evaluated and no frame is open before the first output.      *)
LEMMA SyntheticInit == Synthetic!Init => SyntheticInv
  <1> SUFFICES ASSUME Synthetic!Init PROVE SyntheticInv
    OBVIOUS
  <1>1. queue \in QueueStates
    <2>1. <<>> \in Seq(FrameIds) /\ 0 \in 0..MaxFrameId /\ 0 \in 0..Evidence
      BY SyntheticAssumption
    <2> QED
      BY <2>1 DEF Synthetic!Init, Synthetic!NewQueue, QueueStates
  <1>2. <<>> \in Seq(FrameIds)
    OBVIOUS
  <1>3. SyntheticTyped
    <2>1. evaluation \in [GameThreads -> {Synthetic!Idle} \cup Evaluations]
      BY DEF Synthetic!Init
    <2>2. slept \in [Synthetic!Outputs -> Seq(FrameIds)] /\ shown \in [Synthetic!Outputs -> Seq(FrameIds)]
      BY <1>2 DEF Synthetic!Init
    <2>3. made \in 0..SyntheticOutputs /\ synLive \in 0..made /\ owned \in 0..made
      BY SyntheticAssumption DEF Synthetic!Init
    <2>4. Len(queue.pending) <= Depth
      <3>1. queue.pending = <<>>
        BY DEF Synthetic!Init, Synthetic!NewQueue
      <3>2. Len(queue.pending) = 0
        BY <3>1
      <3> QED
        BY <3>2, SyntheticAssumption
    <2> QED
      BY <1>1, <2>1, <2>2, <2>3, <2>4 DEF Synthetic!Init, SyntheticTyped
  <1>4. \A t \in GameThreads : evaluation[t] = Synthetic!Idle
    BY DEF Synthetic!Init
  <1>5. OneEach
    BY <1>4 DEF OneEach
  <1>6. \A o \in Synthetic!Outputs : InOrder(o)
    BY DEF Synthetic!Init, InOrder
  <1> QED
    BY <1>3, <1>5, <1>6 DEF Synthetic!Init, SyntheticInv

(* An evaluation is given a frame: alone for its adapter and its output.   *)
LEMMA SubmitKeeps ==
  ASSUME SyntheticInv, NEW t \in GameThreads, NEW adapter \in Synthetic!Adapters, Synthetic!SubmitFrame(t, adapter)
  PROVE  SyntheticInv'
  <1> DEFINE s == Synthetic!Submit(queue)
  <1>0. SyntheticTyped /\ OneEach /\ queue \in QueueStates
    BY DEF SyntheticInv, SyntheticTyped
  <1>1. /\ evaluation[t] = Synthetic!Idle /\ synLive # 0 /\ owned = synLive /\ ownerName = adapter /\ active' = TRUE
        /\ Synthetic!May(t, adapter)
        /\ UNCHANGED <<synLive, made, owned, ownerName, requested, synStreamline, synContexts, ffxRequested, features,
                       inPresent, slept, shown>>
    BY DEF Synthetic!SubmitFrame
  <1>2. s.id <= MaxFrameId /\ queue' = Given(queue)
    BY DEF Synthetic!SubmitFrame, Given
  <1>3. evaluation' = [evaluation EXCEPT ![t] =
          [at |-> IF s.start THEN "sleeping" ELSE "feeding", adapter |-> adapter, output |-> synLive, id |-> s.id]]
    BY DEF Synthetic!SubmitFrame
  <1>4. synLive \in Synthetic!Outputs /\ owned \in Synthetic!Outputs /\ synLive <= made
    BY <1>0, <1>1, SyntheticAssumption DEF SyntheticTyped, Synthetic!Outputs
  <1>5. Queued(owned) /\ Ordered(queue)
    BY <1>1 DEF SyntheticInv, Queued
  <1>6. /\ queue' \in QueueStates /\ Ordered(queue') /\ s.id \in FrameIds /\ s.start \in BOOLEAN
        /\ queue'.presenting = queue.presenting /\ queue'.building = s.id
        /\ s.start => /\ ~queue'.submitted /\ s.id = queue.building + 1 /\ queue'.pending = queue.pending
        /\ ~s.start => /\ queue'.submitted /\ s.id = queue.building
                       /\ \A i \in 1..Len(queue'.pending) :
                             \/ \E j \in 1..Len(queue.pending) : queue'.pending[i] = queue.pending[j] /\ (j = 1 => i = 1)
                             \/ ~queue.submitted /\ queue'.pending[i] = queue.building
    BY <1>0, <1>2, <1>5, Submitted
  <1> HIDE DEF s
  <1>7. /\ evaluation' \in [GameThreads -> {Synthetic!Idle} \cup Evaluations]
        /\ \A u \in GameThreads : u # t => evaluation'[u] = evaluation[u]
        /\ evaluation'[t] # Synthetic!Idle /\ evaluation'[t].adapter = adapter /\ evaluation'[t].output = synLive
        /\ evaluation'[t].id = s.id /\ evaluation'[t].at = (IF s.start THEN "sleeping" ELSE "feeding")
    <2>1. PICK e \in Evaluations : e = [at |-> IF s.start THEN "sleeping" ELSE "feeding", adapter |-> adapter,
                                       output |-> synLive, id |-> s.id]
      BY <1>4, <1>6 DEF Evaluations
    <2>2. e.at = (IF s.start THEN "sleeping" ELSE "feeding") /\ e.adapter = adapter /\ e.output = synLive /\ e.id = s.id
      BY <2>1
    <2>3. e # Synthetic!Idle
      BY <2>2 DEF Synthetic!Idle
    <2>4. evaluation \in [GameThreads -> {Synthetic!Idle} \cup Evaluations]
      BY <1>0 DEF SyntheticTyped
    <2> QED
      BY <1>3, <2>1, <2>2, <2>3, <2>4
  <1>8. \A u \in GameThreads : u # t /\ evaluation[u] # Synthetic!Idle =>
          evaluation[u].adapter # adapter /\ evaluation[u].output # synLive
    <2> SUFFICES ASSUME NEW u \in GameThreads, u # t, evaluation[u] # Synthetic!Idle,
                        evaluation[u].adapter = adapter \/ evaluation[u].output = synLive
                 PROVE  FALSE
      OBVIOUS
    <2>1. evaluation[u].adapter = adapter
      BY <1>0, <1>1 DEF OneEach
    <2>2. evaluation[u].at # "idle"
      BY <1>0, Evaluating
    <2>3. CASE adapter = "fidelityfx"
      BY <1>1, <2>1, <2>2, <2>3 DEF Synthetic!May, Synthetic!Prepare, Synthetic!Locked
    <2>4. CASE adapter = "dlss_sr"
      <3>1. t \in Recorders
        BY <1>1, <2>4 DEF Synthetic!May, Synthetic!Feed
      <3>2. u \in Recorders
        BY <1>0, <2>1, <2>4 DEF OneEach
      <3> QED
        BY <3>1, <3>2, SyntheticAssumption
    <2> QED
      BY <2>3, <2>4 DEF Synthetic!Adapters
  <1>9. \A u \in GameThreads : ~Under(u, owned)
    BY <1>1, <1>8 DEF Under
  <1>10. queue.building = Len(slept[owned]) /\ queue.building \in Nat
    BY <1>0, <1>5, <1>9, QueueFields DEF Queued
  <1>11. SyntheticTyped'
    BY <1>0, <1>1, <1>6, <1>7 DEF SyntheticTyped, Ordered
  <1>12. OneEach'
    <2>1. \A u \in GameThreads : evaluation'[u] # Synthetic!Idle =>
            /\ evaluation'[u].output <= made
            /\ evaluation'[u].adapter = "dlss_sr" => u \in Recorders
            /\ evaluation'[u].output = owned => evaluation'[u].adapter = ownerName
            /\ evaluation'[u].at = "sleeping" => evaluation'[u].id = Len(slept[evaluation'[u].output]) + 1
      <3> SUFFICES ASSUME NEW u \in GameThreads, evaluation'[u] # Synthetic!Idle
                   PROVE  /\ evaluation'[u].output <= made
                          /\ evaluation'[u].adapter = "dlss_sr" => u \in Recorders
                          /\ evaluation'[u].output = owned => evaluation'[u].adapter = ownerName
                          /\ evaluation'[u].at = "sleeping" =>
                               evaluation'[u].id = Len(slept[evaluation'[u].output]) + 1
        OBVIOUS
      <3>1. CASE u # t
        BY <1>0, <1>7, <3>1 DEF OneEach
      <3>2. CASE u = t
        <4>1. adapter = "dlss_sr" => t \in Recorders
          BY <1>1 DEF Synthetic!May, Synthetic!Feed
        <4> QED
          BY <1>1, <1>4, <1>6, <1>7, <1>10, <3>2, <4>1
      <3> QED
        BY <3>1, <3>2
    <2>2. \A u, v \in GameThreads :
            /\ evaluation'[u] # Synthetic!Idle /\ evaluation'[v] # Synthetic!Idle
            /\ evaluation'[u].adapter = evaluation'[v].adapter \/ evaluation'[u].output = evaluation'[v].output
            => u = v
      BY <1>0, <1>7, <1>8 DEF OneEach
    <2> QED
      BY <1>1, <2>1, <2>2 DEF OneEach
  <1>13. \A o \in Synthetic!Outputs : InOrder(o)'
    BY <1>1 DEF SyntheticInv, InOrder
  <1>14. Queued(owned)'
    <2>1. LastShown(owned) \in Nat /\ LastShown(owned)' = LastShown(owned)
      <3>1. shown[owned] \in Seq(FrameIds)
        BY <1>0, <1>4 DEF SyntheticTyped
      <3>2. shown[owned] # <<>> => shown[owned][Len(shown[owned])] \in FrameIds
        BY <3>1
      <3> QED
        BY <1>1, <3>2 DEF LastShown, FrameIds
    <2>2. \A u \in GameThreads : Under(u, owned)' => u = t
      BY <1>1, <1>7, <1>8 DEF Under
    <2>3. \A u \in GameThreads : Under(u, owned)' /\ evaluation'[u].at \in {"sleeping", "woken"} =>
             evaluation'[u].id = queue'.building /\ ~queue'.submitted
      BY <1>6, <1>7, <2>2
    <2>4. (\A u \in GameThreads : ~(Under(u, owned)' /\ evaluation'[u].at = "sleeping")) =>
            queue'.building = Len(slept[owned])
      <3>1. Under(t, owned)'
        BY <1>1, <1>7 DEF Under
      <3> QED
        BY <1>6, <1>7, <1>10, <3>1
    <2>5. /\ LastShown(owned) <= queue'.building
          /\ ~queue'.submitted /\ queue'.building # 0 => LastShown(owned) < queue'.building
          /\ queue'.presenting # 0 => LastShown(owned) = queue'.presenting
      BY <1>5, <1>6, <1>10, <2>1 DEF Queued
    <2>6. \A i \in 1..Len(queue'.pending) :
            \/ LastShown(owned) < queue'.pending[i]
            \/ i = 1 /\ inPresent = owned /\ queue'.pending[i] = queue'.presenting
      <3>1. \A i \in 1..Len(queue.pending) :
              \/ LastShown(owned) < queue.pending[i]
              \/ i = 1 /\ inPresent = owned /\ queue.pending[i] = queue'.presenting
        BY <1>5, <1>6 DEF Queued
      <3>2. CASE s.start
        BY <1>6, <3>1, <3>2
      <3>3. CASE ~s.start
        <4>1. ~queue.submitted => LastShown(owned) < queue.building
          <5>1. queue.building # 0
            BY <1>6, <3>3 DEF FrameIds
          <5> QED
            BY <1>5, <5>1 DEF Queued
        <4> QED
          BY <1>6, <3>1, <3>3, <4>1
      <3> QED
        BY <3>2, <3>3
    <2> QED
      BY <1>1, <1>6, <2>1, <2>3, <2>4, <2>5, <2>6 DEF Queued
  <1> QED
    BY <1>11, <1>12, <1>13, <1>14 DEF SyntheticInv

(* What an output has shown last.                                          *)
LEMMA LastTyped ==
  ASSUME SyntheticTyped, NEW o \in Synthetic!Outputs
  PROVE  /\ shown[o] \in Seq(FrameIds) /\ slept[o] \in Seq(FrameIds) /\ LastShown(o) \in Nat
         /\ Len(slept[o]) \in Nat /\ Len(shown[o]) \in Nat
         /\ \A i \in 1..Len(shown[o]) : shown[o][i] \in Nat
         /\ \A i \in 1..Len(slept[o]) : slept[o][i] \in Nat
  <1>1. shown[o] \in Seq(FrameIds) /\ slept[o] \in Seq(FrameIds)
    BY DEF SyntheticTyped
  <1>2. shown[o] # <<>> => shown[o][Len(shown[o])] \in FrameIds
    BY <1>1
  <1>3. LastShown(o) \in Nat
    BY <1>2 DEF LastShown, FrameIds
  <1>4. Len(slept[o]) \in Nat /\ Len(shown[o]) \in Nat
    BY <1>1
  <1>5. /\ \A i \in 1..Len(shown[o]) : shown[o][i] \in FrameIds
        /\ \A i \in 1..Len(slept[o]) : slept[o][i] \in FrameIds
    BY <1>1
  <1>6. \A x \in FrameIds : x \in Nat
    BY DEF FrameIds
  <1> QED
    BY <1>1, <1>3, <1>4, <1>5, <1>6

(* A sleep is that of the output's next frame.                             *)
LEMMA SleepKeeps ==
  ASSUME SyntheticInv, NEW t \in GameThreads, Synthetic!Sleep(t)
  PROVE  SyntheticInv'
  <1> DEFINE o == evaluation[t].output
             n == evaluation[t].id
  <1>0. SyntheticTyped /\ OneEach
    BY DEF SyntheticInv
  <1>1. /\ evaluation[t].at = "sleeping" /\ slept' = [slept EXCEPT ![o] = Append(slept[o], n)]
        /\ evaluation' = [evaluation EXCEPT ![t].at = "woken"]
        /\ UNCHANGED <<queue, synLive, made, owned, ownerName, active, requested, synStreamline, synContexts, ffxRequested,
                       features, inPresent, shown>>
    BY DEF Synthetic!Sleep, Synthetic!StartFrame
  <1>2. /\ evaluation[t] # Synthetic!Idle /\ evaluation[t] \in Evaluations /\ o \in Synthetic!Outputs /\ n \in FrameIds
        /\ n = Len(slept[o]) + 1 /\ o <= made
    BY <1>0, <1>1, Evaluating DEF OneEach
  <1>3. /\ evaluation' \in [GameThreads -> {Synthetic!Idle} \cup Evaluations]
        /\ \A u \in GameThreads : u # t => evaluation'[u] = evaluation[u]
        /\ evaluation'[t] # Synthetic!Idle /\ evaluation'[t].adapter = evaluation[t].adapter /\ evaluation'[t].output = o
        /\ evaluation'[t].id = n /\ evaluation'[t].at = "woken"
    <2>1. PICK e \in Evaluations : e = [evaluation[t] EXCEPT !.at = "woken"]
      BY <1>2 DEF Evaluations
    <2>2. e.at = "woken" /\ e.adapter = evaluation[t].adapter /\ e.output = o /\ e.id = n
      BY <1>2, <2>1 DEF Evaluations
    <2>3. e # Synthetic!Idle
      BY <2>2 DEF Synthetic!Idle
    <2>4. evaluation \in [GameThreads -> {Synthetic!Idle} \cup Evaluations]
      BY <1>0 DEF SyntheticTyped
    <2>5. evaluation' = [evaluation EXCEPT ![t] = e]
      BY <1>1, <2>1
    <2> QED
      BY <2>2, <2>3, <2>4, <2>5
  <1>4. /\ slept' \in [Synthetic!Outputs -> Seq(FrameIds)] /\ Len(slept'[o]) = Len(slept[o]) + 1 /\ Len(slept[o]) \in Nat
        /\ \A i \in 1..Len(slept[o]) : slept'[o][i] = slept[o][i]
        /\ slept'[o][Len(slept[o]) + 1] = n
        /\ \A p \in Synthetic!Outputs : p # o => slept'[p] = slept[p]
    <2>1. slept[o] \in Seq(FrameIds) /\ slept \in [Synthetic!Outputs -> Seq(FrameIds)]
      BY <1>0, <1>2 DEF SyntheticTyped
    <2>2. PICK a \in Seq(FrameIds) : a = Append(slept[o], n)
      BY <1>2, <2>1, AppendProperties
    <2>3. /\ Len(a) = Len(slept[o]) + 1 /\ Len(slept[o]) \in Nat
          /\ \A i \in 1..Len(slept[o]) : a[i] = slept[o][i]
          /\ a[Len(slept[o]) + 1] = n
      BY <1>2, <2>1, <2>2, AppendProperties
    <2>4. slept' = [slept EXCEPT ![o] = a]
      BY <1>1, <2>2
    <2> QED
      BY <1>2, <2>1, <2>3, <2>4
  <1>5. \A u \in GameThreads : u # t /\ evaluation[u] # Synthetic!Idle => evaluation[u].output # o
    BY <1>0, <1>2 DEF OneEach
  <1> HIDE DEF o, n
  <1>6. SyntheticTyped'
    BY <1>0, <1>1, <1>3, <1>4 DEF SyntheticTyped
  <1>7. OneEach'
    <2>1. \A u \in GameThreads : evaluation'[u] # Synthetic!Idle =>
            /\ evaluation'[u].output <= made
            /\ evaluation'[u].adapter = "dlss_sr" => u \in Recorders
            /\ evaluation'[u].output = owned => evaluation'[u].adapter = ownerName /\ active
      BY <1>0, <1>2, <1>3 DEF OneEach, o
    <2>2. \A u \in GameThreads : evaluation'[u] # Synthetic!Idle /\ evaluation'[u].at = "sleeping" =>
            evaluation'[u].id = Len(slept'[evaluation'[u].output]) + 1
      <3> SUFFICES ASSUME NEW u \in GameThreads, evaluation'[u] # Synthetic!Idle, evaluation'[u].at = "sleeping"
                   PROVE  evaluation'[u].id = Len(slept'[evaluation'[u].output]) + 1
        OBVIOUS
      <3>1. u # t /\ evaluation'[u] = evaluation[u]
        BY <1>3
      <3>2. evaluation[u].output \in Synthetic!Outputs /\ evaluation[u].output # o
        BY <1>0, <1>5, <3>1, Evaluating
      <3> QED
        BY <1>0, <1>4, <3>1, <3>2 DEF OneEach
    <2>3. \A u, v \in GameThreads :
            /\ evaluation'[u] # Synthetic!Idle /\ evaluation'[v] # Synthetic!Idle
            /\ evaluation'[u].adapter = evaluation'[v].adapter \/ evaluation'[u].output = evaluation'[v].output
            => u = v
      BY <1>0, <1>2, <1>3 DEF OneEach, o
    <2> QED
      BY <1>1, <2>1, <2>2, <2>3 DEF OneEach
  <1>8. \A p \in Synthetic!Outputs : InOrder(p)'
    <2> SUFFICES ASSUME NEW p \in Synthetic!Outputs PROVE InOrder(p)'
      OBVIOUS
    <2>1. InOrder(p)
      BY DEF SyntheticInv
    <2>2. CASE p # o
      BY <1>1, <1>4, <2>1, <2>2 DEF InOrder
    <2>3. CASE p = o
      <3>1. \A i \in 1..Len(slept'[o]) : slept'[o][i] = i
        BY <1>2, <1>4, <2>1, <2>3 DEF InOrder
      <3>2. \A i \in 1..Len(shown[o]) : shown[o][i] \in Nat
        BY <1>0, <1>2, LastTyped
      <3>3. \A i \in 1..Len(shown[o]) : shown[o][i] <= Len(slept'[o]) /\ (i > 1 => shown[o][i - 1] < shown[o][i])
        BY <1>4, <2>1, <2>3, <3>2 DEF InOrder
      <3>4. ~(o > made)
        BY <1>0, <1>2, SyntheticAssumption DEF SyntheticTyped, Synthetic!Outputs
      <3> QED
        BY <1>1, <2>3, <3>1, <3>3, <3>4 DEF InOrder
    <2> QED
      BY <2>2, <2>3
  <1>9. owned # 0 => Queued(owned)'
    <2> SUFFICES ASSUME owned # 0 PROVE Queued(owned)'
      OBVIOUS
    <2>0. Queued(owned) /\ owned \in Synthetic!Outputs
      BY <1>0, SyntheticAssumption DEF SyntheticInv, SyntheticTyped, Synthetic!Outputs
    <2>1. \A u \in GameThreads : Under(u, owned)' <=> Under(u, owned)
      BY <1>1, <1>2, <1>3 DEF Under, o
    <2>2. \A u \in GameThreads : Under(u, owned)' /\ evaluation'[u].at \in {"sleeping", "woken"} =>
             evaluation'[u].id = queue.building /\ ~queue.submitted
      BY <1>1, <1>3, <2>0, <2>1 DEF Queued, n
    <2>3. (\A u \in GameThreads : ~(Under(u, owned)' /\ evaluation'[u].at = "sleeping")) =>
            queue.building = Len(slept'[owned])
      <3>1. CASE owned = o
        <4>1. Under(t, owned)
          BY <1>2, <3>1 DEF Under, o
        <4>2. n = queue.building
          BY <1>1, <2>0, <4>1 DEF Queued, n
        <4> QED
          BY <1>2, <1>4, <3>1, <4>2
      <3>2. CASE owned # o
        <4>1. ~Under(t, owned)
          BY <3>2 DEF Under, o
        <4>2. slept'[owned] = slept[owned]
          BY <1>4, <2>0, <3>2
        <4> QED
          BY <1>3, <2>0, <2>1, <4>1, <4>2 DEF Queued
      <3> QED
        BY <3>1, <3>2
    <2>4. LastShown(owned)' = LastShown(owned)
      BY <1>1 DEF LastShown
    <2> QED
      BY <1>1, <2>0, <2>2, <2>3, <2>4 DEF Queued
  <1> QED
    BY <1>1, <1>6, <1>7, <1>8, <1>9 DEF SyntheticInv

(* An evaluation of a thread that is not asleep goes on or ends.           *)
LEMMA AwakeKeeps ==
  ASSUME SyntheticInv, NEW t \in GameThreads, evaluation[t].at \in {"woken", "feeding"},
         NEW e \in {Synthetic!Idle} \cup Evaluations,
         e # Synthetic!Idle => /\ e.at \in {"woken", "feeding"} /\ e.adapter = evaluation[t].adapter
                               /\ e.output = evaluation[t].output,
         evaluation' = [evaluation EXCEPT ![t] = e],
         requested' \in BOOLEAN,
         UNCHANGED <<synLive, made, owned, ownerName, active, synStreamline, synContexts, ffxRequested, features,
                     inPresent, slept, shown>>
  PROVE  /\ queue' \in QueueStates /\ Len(queue'.pending) <= Depth => SyntheticTyped'
         /\ OneEach' /\ \A o \in Synthetic!Outputs : InOrder(o)'
         /\ \A u \in GameThreads : u # t => evaluation'[u] = evaluation[u]
         /\ evaluation'[t] = e
  <1>1. /\ SyntheticTyped /\ OneEach /\ evaluation[t] # Synthetic!Idle
        /\ evaluation \in [GameThreads -> {Synthetic!Idle} \cup Evaluations]
    BY Evaluating DEF SyntheticInv, SyntheticTyped
  <1>2. /\ \A u \in GameThreads : u # t => evaluation'[u] = evaluation[u]
        /\ evaluation'[t] = e /\ evaluation' \in [GameThreads -> {Synthetic!Idle} \cup Evaluations]
    BY <1>1
  <1>3. queue' \in QueueStates /\ Len(queue'.pending) <= Depth => SyntheticTyped'
    BY <1>1, <1>2 DEF SyntheticTyped
  <1>4. OneEach'
    <2>1. \A u \in GameThreads : evaluation'[u] # Synthetic!Idle =>
            /\ evaluation[u] # Synthetic!Idle /\ evaluation'[u].adapter = evaluation[u].adapter
            /\ evaluation'[u].output = evaluation[u].output
            /\ evaluation'[u].at = "sleeping" => evaluation'[u] = evaluation[u]
      BY <1>1, <1>2
    <2>2. \A u, v \in GameThreads :
            /\ evaluation'[u] # Synthetic!Idle /\ evaluation'[v] # Synthetic!Idle
            /\ evaluation'[u].adapter = evaluation'[v].adapter \/ evaluation'[u].output = evaluation'[v].output
            => u = v
      BY <1>1, <2>1 DEF OneEach
    <2>3. \A u \in GameThreads : evaluation'[u] # Synthetic!Idle =>
            /\ evaluation'[u].output <= made
            /\ evaluation'[u].adapter = "dlss_sr" => u \in Recorders
            /\ evaluation'[u].output = owned => evaluation'[u].adapter = ownerName /\ active
            /\ evaluation'[u].at = "sleeping" => evaluation'[u].id = Len(slept[evaluation'[u].output]) + 1
      BY <1>1, <2>1 DEF OneEach
    <2> QED
      BY <2>2, <2>3 DEF OneEach
  <1>5. \A o \in Synthetic!Outputs : InOrder(o)'
    BY DEF SyntheticInv, InOrder
  <1> QED
    BY <1>2, <1>3, <1>4, <1>5

(* After its sleep it commits the frame, if the frames are still the       *)
(* output's.                                                               *)
LEMMA RelockKeeps ==
  ASSUME SyntheticInv, NEW t \in GameThreads, Synthetic!Relock(t)
  PROVE  SyntheticInv'
  <1> DEFINE o == evaluation[t].output
  <1>0. SyntheticTyped /\ OneEach /\ queue \in QueueStates
    BY DEF SyntheticInv, SyntheticTyped
  <1>1. /\ evaluation[t].at = "woken" /\ requested' \in BOOLEAN
        /\ UNCHANGED <<synLive, made, owned, ownerName, active, synStreamline, synContexts, ffxRequested, features,
                       inPresent, slept, shown>>
    BY <1>0 DEF Synthetic!Relock, SyntheticTyped
  <1>2. evaluation[t] # Synthetic!Idle /\ evaluation[t] \in Evaluations /\ o \in Synthetic!Outputs /\ evaluation[t].id \in FrameIds
    BY <1>0, <1>1, Evaluating
  <1>3. CASE owned = o
    <2>1. queue' = Synthetic!Commit(queue, evaluation[t].id) /\ evaluation' = [evaluation EXCEPT ![t].at = "feeding"]
      BY <1>3 DEF Synthetic!Relock
    <2>2. PICK e \in Evaluations : e = [evaluation[t] EXCEPT !.at = "feeding"]
      BY <1>2 DEF Evaluations
    <2>3. e.at = "feeding" /\ e.adapter = evaluation[t].adapter /\ e.output = evaluation[t].output
      BY <1>2, <2>2 DEF Evaluations
    <2>4. evaluation' = [evaluation EXCEPT ![t] = e]
      BY <2>1, <2>2
    <2>5. /\ queue' \in QueueStates /\ Len(queue'.pending) <= Depth => SyntheticTyped'
          /\ OneEach' /\ \A p \in Synthetic!Outputs : InOrder(p)'
          /\ \A u \in GameThreads : u # t => evaluation'[u] = evaluation[u]
          /\ evaluation'[t] = e
      BY <1>1, <2>3, <2>4, AwakeKeeps
    <2>6. owned \in Synthetic!Outputs /\ owned # 0 /\ Under(t, owned) /\ Queued(owned)
      BY <1>2, <1>3 DEF Under, SyntheticInv, Synthetic!Outputs
    <2>7. /\ evaluation[t].id = queue.building /\ ~queue.submitted /\ queue.building # 0 /\ Ordered(queue)
          /\ active
      BY <1>0, <1>1, <1>2, <1>3, <2>6 DEF Queued, FrameIds, OneEach
    <2>8. /\ queue' \in QueueStates /\ Ordered(queue') /\ queue'.submitted /\ queue'.building = queue.building
          /\ queue'.presenting = queue.presenting /\ Len(queue'.pending) = Len(queue.pending) + 1
          /\ \A i \in 1..Len(queue.pending) : queue'.pending[i] = queue.pending[i]
          /\ queue'.pending[Len(queue'.pending)] = queue.building
      BY <1>0, <2>1, <2>7, Committed
    <2>9. \A u \in GameThreads : Under(u, owned) => u = t
      BY <1>0, <2>6 DEF Under, OneEach
    <2>10. \A u \in GameThreads : Under(u, owned)' => u = t
      BY <1>1, <2>5, <2>9 DEF Under
    <2>11. queue.building = Len(slept[owned])
      <3>1. \A u \in GameThreads : ~(Under(u, owned) /\ evaluation[u].at = "sleeping")
        BY <1>1, <2>9
      <3> QED
        BY <2>6, <3>1 DEF Queued
    <2>12. LastShown(owned)' = LastShown(owned)
      BY <1>1 DEF LastShown
    <2>13. \A i \in 1..Len(queue'.pending) :
             \/ LastShown(owned) < queue'.pending[i]
             \/ i = 1 /\ inPresent = owned /\ queue'.pending[i] = queue'.presenting
      <3>1. LastShown(owned) < queue.building
        BY <2>6, <2>7 DEF Queued
      <3>2. Len(queue.pending) \in Nat
        BY <1>0, QueueFields
      <3>3. \A i \in 1..Len(queue'.pending) : i \in 1..Len(queue.pending) \/ i = Len(queue'.pending)
        BY <2>8, <3>2
      <3>4. \A i \in 1..Len(queue.pending) :
              \/ LastShown(owned) < queue.pending[i]
              \/ i = 1 /\ inPresent = owned /\ queue.pending[i] = queue.presenting
        BY <2>6 DEF Queued
      <3> QED
        BY <2>8, <3>1, <3>3, <3>4
    <2>14. \A u \in GameThreads : ~(Under(u, owned)' /\ evaluation'[u].at \in {"sleeping", "woken"})
      BY <2>3, <2>5, <2>10
    <2>15. Queued(owned)'
      BY <1>1, <2>6, <2>7, <2>8, <2>11, <2>12, <2>13, <2>14 DEF Queued
    <2>16. Len(queue'.pending) <= Depth
      BY <2>8 DEF Ordered
    <2> QED
      BY <2>5, <2>8, <2>15, <2>16 DEF SyntheticInv
  <1>4. CASE owned # o
    <2>1. evaluation' = [evaluation EXCEPT ![t] = Synthetic!Idle] /\ queue' = queue
      BY <1>4 DEF Synthetic!Relock
    <2>2. /\ queue' \in QueueStates /\ Len(queue'.pending) <= Depth => SyntheticTyped'
          /\ OneEach' /\ \A p \in Synthetic!Outputs : InOrder(p)'
          /\ \A u \in GameThreads : u # t => evaluation'[u] = evaluation[u]
          /\ evaluation'[t] = Synthetic!Idle
      BY <1>1, <2>1, AwakeKeeps
    <2>3. ASSUME owned # 0 PROVE Queued(owned)'
      <3>1. \A u \in GameThreads : Under(u, owned)' => u # t /\ Under(u, owned) /\ evaluation'[u] = evaluation[u]
        BY <1>1, <2>2 DEF Under
      <3>2. \A u \in GameThreads : Under(u, owned) => u # t /\ Under(u, owned)' /\ evaluation'[u] = evaluation[u]
        BY <1>1, <1>4, <2>2 DEF Under
      <3>3. Queued(owned) /\ LastShown(owned)' = LastShown(owned)
        BY <1>1, <2>3 DEF SyntheticInv, LastShown
      <3> QED
        BY <1>1, <2>1, <3>1, <3>2, <3>3 DEF Queued
    <2> QED
      BY <1>0, <1>1, <2>1, <2>2, <2>3 DEF SyntheticInv, SyntheticTyped
  <1> QED
    BY <1>3, <1>4

(* An evaluation returns to the game.                                      *)
LEMMA ReturnKeeps ==
  ASSUME SyntheticInv, NEW t \in GameThreads, Synthetic!Return(t)
  PROVE  SyntheticInv'
  <1>0. SyntheticTyped /\ OneEach /\ queue \in QueueStates
    BY DEF SyntheticInv, SyntheticTyped
  <1>1. /\ evaluation[t].at = "feeding" /\ requested' \in BOOLEAN /\ evaluation' = [evaluation EXCEPT ![t] = Synthetic!Idle]
        /\ UNCHANGED <<queue, synLive, made, owned, ownerName, active, synStreamline, synContexts, ffxRequested, features,
                       inPresent, slept, shown>>
    BY DEF Synthetic!Return
  <1>2. /\ queue' \in QueueStates /\ Len(queue'.pending) <= Depth => SyntheticTyped'
        /\ OneEach' /\ \A p \in Synthetic!Outputs : InOrder(p)'
        /\ \A u \in GameThreads : u # t => evaluation'[u] = evaluation[u]
        /\ evaluation'[t] = Synthetic!Idle
    BY <1>1, AwakeKeeps
  <1>3. ASSUME owned # 0 PROVE Queued(owned)'
    <2>1. \A u \in GameThreads : Under(u, owned)' => u # t /\ Under(u, owned) /\ evaluation'[u] = evaluation[u]
      BY <1>1, <1>2 DEF Under
    <2>2. \A u \in GameThreads : Under(u, owned) /\ evaluation[u].at \in {"sleeping", "woken"} =>
                               u # t /\ Under(u, owned)' /\ evaluation'[u] = evaluation[u]
      BY <1>1, <1>2 DEF Under
    <2>3. Queued(owned) /\ LastShown(owned)' = LastShown(owned)
      BY <1>1, <1>3 DEF SyntheticInv, LastShown
    <2> QED
      BY <1>1, <2>1, <2>2, <2>3 DEF Queued
  <1> QED
    BY <1>0, <1>1, <1>2, <1>3 DEF SyntheticInv, SyntheticTyped

(* Evaluations are not touched by what the game presents, makes or ends.   *)
LEMMA SameEvaluations ==
  ASSUME SyntheticInv, UNCHANGED <<evaluation, made, owned, ownerName, active>>,
         \A o \in Synthetic!Outputs : slept'[o] = slept[o] \/ \A t \in GameThreads : ~(Under(t, o) /\ evaluation[t].at = "sleeping")
  PROVE  OneEach'
  <1>1. OneEach /\ SyntheticTyped
    BY DEF SyntheticInv
  <1>2. \A t \in GameThreads : evaluation[t] # Synthetic!Idle /\ evaluation[t].at = "sleeping" =>
          evaluation[t].id = Len(slept'[evaluation[t].output]) + 1
    BY <1>1, Evaluating DEF OneEach, Under
  <1> QED
    BY <1>1, <1>2 DEF OneEach

(* A frame that is presented was slept for, and comes after the one before. *)
LEMMA BeforeKeeps ==
  ASSUME SyntheticInv, Synthetic!BeforeSourcePresent
  PROVE  SyntheticInv'
  <1>0. SyntheticTyped /\ queue \in QueueStates
    BY DEF SyntheticInv, SyntheticTyped
  <1>1. /\ synLive # 0 /\ inPresent = 0 /\ inPresent' = synLive
        /\ UNCHANGED <<synLive, made, owned, ownerName, active, requested, synStreamline, synContexts, ffxRequested, features,
                       evaluation, slept>>
    BY DEF Synthetic!BeforeSourcePresent
  <1>2. OneEach'
    BY <1>1, SameEvaluations
  <1>3. CASE ~(active /\ owned = synLive)
    <2>1. UNCHANGED <<queue, shown>>
      BY <1>3 DEF Synthetic!BeforeSourcePresent
    <2>2. SyntheticTyped'
      BY <1>0, <1>1, <2>1 DEF SyntheticTyped
    <2>3. \A o \in Synthetic!Outputs : InOrder(o)'
      BY <1>1, <2>1 DEF SyntheticInv, InOrder
    <2>4. ASSUME owned # 0 PROVE Queued(owned)'
      <3>1. Queued(owned) /\ LastShown(owned)' = LastShown(owned)
        BY <1>1, <2>1, <2>4 DEF SyntheticInv, LastShown
      <3>2. \A i \in 1..Len(queue.pending) : LastShown(owned) < queue.pending[i]
        BY <1>1, <2>4, <3>1 DEF Queued
      <3>3. \A t \in GameThreads : Under(t, owned)' <=> Under(t, owned)
        BY <1>1 DEF Under
      <3> QED
        BY <1>1, <2>1, <3>1, <3>2, <3>3 DEF Queued
    <2> QED
      BY <1>1, <1>2, <2>2, <2>3, <2>4 DEF SyntheticInv
  <1>4. CASE active /\ owned = synLive
    <2>1. /\ queue' = Synthetic!BeforePresent(queue)
          /\ shown' = IF queue'.presenting = 0 THEN shown ELSE [shown EXCEPT ![synLive] = Append(shown[synLive], queue'.presenting)]
      BY <1>4 DEF Synthetic!BeforeSourcePresent
    <2>2. synLive \in Synthetic!Outputs /\ Queued(synLive) /\ Ordered(queue) /\ synLive <= made /\ ~(synLive > made)
      BY <1>0, <1>1, <1>4, SyntheticAssumption DEF SyntheticInv, SyntheticTyped, Queued,
         Synthetic!Outputs
    <2>3. /\ queue' \in QueueStates /\ Ordered(queue') /\ queue'.pending = queue.pending
          /\ queue'.building = queue.building /\ queue'.submitted = queue.submitted
          /\ queue.pending = <<>> => queue'.presenting = 0
          /\ queue.pending # <<>> => queue'.presenting = queue.pending[1] /\ Len(queue.pending) >= 1
      BY <1>0, <2>1, <2>2, Presented
    <2>4. /\ Len(queue.pending) \in Nat /\ queue.building \in Nat
          /\ \A i \in 1..Len(queue.pending) : queue.pending[i] \in FrameIds /\ queue.pending[i] \in Nat \ {0}
      BY <1>0, QueueFields
    <2>5. \A i \in 1..Len(queue.pending) : LastShown(synLive) < queue.pending[i]
      BY <1>1, <2>2 DEF Queued
    <2>6. \A t \in GameThreads : Under(t, synLive)' <=> Under(t, synLive)
      BY <1>1 DEF Under
    <2>7. CASE queue.pending = <<>>
      <3>1. queue'.presenting = 0 /\ shown' = shown
        BY <2>1, <2>3, <2>7
      <3>2. SyntheticTyped'
        BY <1>0, <1>1, <2>3, <3>1 DEF SyntheticTyped
      <3>3. \A o \in Synthetic!Outputs : InOrder(o)'
        BY <1>1, <3>1 DEF SyntheticInv, InOrder
      <3>4. LastShown(synLive)' = LastShown(synLive)
        BY <1>1, <3>1 DEF LastShown
      <3>5. Queued(synLive)'
        BY <1>1, <1>4, <2>2, <2>3, <2>5, <2>6, <3>1, <3>4 DEF Queued
      <3> QED
        BY <1>1, <1>2, <1>4, <3>2, <3>3, <3>5 DEF SyntheticInv
    <2>8. CASE queue.pending # <<>>
      <3> DEFINE id == queue.pending[1]
      <3>1. queue'.presenting = id /\ id \in FrameIds /\ id \in Nat \ {0} /\ 1 \in 1..Len(queue.pending)
        BY <2>3, <2>4, <2>8
      <3>2. shown' = [shown EXCEPT ![synLive] = Append(shown[synLive], id)]
        BY <2>1, <3>1
      <3>3. /\ shown' \in [Synthetic!Outputs -> Seq(FrameIds)] /\ Len(shown'[synLive]) = Len(shown[synLive]) + 1
            /\ \A i \in 1..Len(shown[synLive]) : shown'[synLive][i] = shown[synLive][i]
            /\ shown'[synLive][Len(shown[synLive]) + 1] = id
            /\ \A p \in Synthetic!Outputs : p # synLive => shown'[p] = shown[p]
        <4>1. shown[synLive] \in Seq(FrameIds) /\ shown \in [Synthetic!Outputs -> Seq(FrameIds)]
          BY <1>0, <2>2 DEF SyntheticTyped
        <4>2. PICK a \in Seq(FrameIds) : a = Append(shown[synLive], id)
          BY <3>1, <4>1, AppendProperties
        <4>3. /\ Len(a) = Len(shown[synLive]) + 1
              /\ \A i \in 1..Len(shown[synLive]) : a[i] = shown[synLive][i]
              /\ a[Len(shown[synLive]) + 1] = id
          BY <3>1, <4>1, <4>2, AppendProperties
        <4>4. shown' = [shown EXCEPT ![synLive] = a]
          BY <3>2, <4>2
        <4> QED
          BY <2>2, <4>1, <4>3, <4>4
      <3>4. SyntheticTyped'
        BY <1>0, <1>1, <2>3, <3>3 DEF SyntheticTyped
      <3>5. LastShown(synLive) < id /\ id <= queue.building
        BY <2>2, <2>5, <3>1 DEF Ordered
      <3>6. ~queue.submitted => id < queue.building
        BY <2>2, <3>1 DEF Ordered
      <3>7. id <= Len(slept[synLive])
        <4>1. CASE \E t \in GameThreads : Under(t, synLive) /\ evaluation[t].at = "sleeping"
          <5>1. PICK t \in GameThreads : Under(t, synLive) /\ evaluation[t].at = "sleeping"
            BY <4>1
          <5>2. ~queue.submitted /\ evaluation[t].id = queue.building
            BY <2>2, <5>1 DEF Queued
          <5>3. evaluation[t].id = Len(slept[synLive]) + 1
            BY <5>1 DEF SyntheticInv, OneEach, Under
          <5>4. Len(slept[synLive]) \in Nat
            BY <1>0, <2>2, LastTyped
          <5> QED
            BY <3>1, <3>6, <5>2, <5>3, <5>4
        <4>2. CASE ~\E t \in GameThreads : Under(t, synLive) /\ evaluation[t].at = "sleeping"
          BY <2>2, <3>5, <4>2 DEF Queued
        <4> QED
          BY <4>1, <4>2
      <3> HIDE DEF id
      <3>8. \A o \in Synthetic!Outputs : InOrder(o)'
        <4> SUFFICES ASSUME NEW o \in Synthetic!Outputs PROVE InOrder(o)'
          OBVIOUS
        <4>1. InOrder(o)
          BY DEF SyntheticInv
        <4>2. CASE o # synLive
          BY <1>1, <3>3, <4>1, <4>2 DEF InOrder
        <4>3. CASE o = synLive
          <5>1. Len(shown[synLive]) \in Nat /\ \A i \in 1..Len(shown[synLive]) : shown[synLive][i] \in Nat
            BY <1>0, <2>2, LastTyped
          <5>2. Len(shown[synLive]) >= 1 => LastShown(synLive) = shown[synLive][Len(shown[synLive])]
            BY <5>1 DEF LastShown
          <5>3. \A i \in 1..Len(shown'[synLive]) : i \in 1..Len(shown[synLive]) \/ i = Len(shown[synLive]) + 1
            BY <3>3, <5>1
          <5>4. \A i \in 1..Len(shown[synLive]) : shown[synLive][i] <= Len(slept[synLive]) /\ (i > 1 => shown[synLive][i - 1] < shown[synLive][i])
            BY <4>1, <4>3 DEF InOrder
          <5>5. \A i \in 1..Len(shown'[synLive]) : shown'[synLive][i] <= Len(slept[synLive])
            BY <3>3, <3>7, <5>3, <5>4
          <5>6. \A i \in 1..Len(shown'[synLive]) : i > 1 => shown'[synLive][i - 1] < shown'[synLive][i]
            <6> SUFFICES ASSUME NEW i \in 1..Len(shown'[synLive]), i > 1 PROVE shown'[synLive][i - 1] < shown'[synLive][i]
              OBVIOUS
            <6>1. i - 1 \in 1..Len(shown[synLive])
              BY <5>1, <3>3
            <6>2. CASE i \in 1..Len(shown[synLive])
              BY <3>3, <5>4, <6>1, <6>2
            <6>3. CASE i = Len(shown[synLive]) + 1
              <7>1. i - 1 = Len(shown[synLive]) /\ Len(shown[synLive]) >= 1
                BY <5>1, <6>1, <6>3
              <7> QED
                BY <3>3, <3>5, <5>2, <6>1, <6>3, <7>1
            <6> QED
              BY <5>3, <6>2, <6>3
          <5> QED
            BY <1>1, <2>2, <4>1, <4>3, <5>5, <5>6 DEF InOrder
        <4> QED
          BY <4>2, <4>3
      <3>9. LastShown(synLive)' = id
        <4>1. Len(shown[synLive]) \in Nat
          BY <1>0, <2>2, LastTyped
        <4>2. Len(shown'[synLive]) # 0
          BY <3>3, <4>1
        <4>3. shown'[synLive] # <<>>
          BY <4>2
        <4> QED
          BY <1>1, <3>3, <4>3 DEF LastShown
      <3>10. \A i \in 1..Len(queue.pending) : id < queue.pending[i] \/ (i = 1 /\ queue.pending[i] = id)
        <4> SUFFICES ASSUME NEW i \in 1..Len(queue.pending)
                     PROVE  id < queue.pending[i] \/ (i = 1 /\ queue.pending[i] = id)
          OBVIOUS
        <4>1. i = 1 \/ 1 < i
          BY <2>4
        <4> QED
          BY <2>2, <3>1, <4>1 DEF Ordered, id
      <3>11. Queued(synLive)'
        <4>1. /\ Ordered(queue') /\ active'
              /\ \A t \in GameThreads : Under(t, synLive)' /\ evaluation'[t].at \in {"sleeping", "woken"} =>
                                   evaluation'[t].id = queue'.building /\ ~queue'.submitted
              /\ (\A t \in GameThreads : ~(Under(t, synLive)' /\ evaluation'[t].at = "sleeping"))
                   => queue'.building = Len(slept'[synLive])
          BY <1>1, <1>4, <2>2, <2>3, <2>6 DEF Queued
        <4>2. \A i \in 1..Len(queue'.pending) :
                \/ id < queue'.pending[i]
                \/ i = 1 /\ inPresent' = synLive /\ queue'.pending[i] = queue'.presenting
          BY <1>1, <2>3, <3>1, <3>10
        <4> QED
          BY <1>1, <2>3, <3>1, <3>5, <3>6, <3>9, <4>1, <4>2 DEF Queued
      <3> QED
        BY <1>1, <1>2, <1>4, <3>4, <3>8, <3>11 DEF SyntheticInv
    <2> QED
      BY <2>7, <2>8
  <1> QED
    BY <1>3, <1>4

(* After a Present the next frame is slept for once the newest was shown.  *)
LEMMA AfterKeeps ==
  ASSUME SyntheticInv, Synthetic!AfterSourcePresent
  PROVE  SyntheticInv'
  <1> DEFINE p == Synthetic!AfterPresent(queue)
  <1>. PICK o : o = inPresent
    OBVIOUS
  <1>0. SyntheticTyped /\ queue \in QueueStates
    BY DEF SyntheticInv, SyntheticTyped
  <1>1. /\ o = inPresent /\ o # 0 /\ inPresent' = 0
        /\ UNCHANGED <<synLive, made, owned, ownerName, active, requested, synStreamline, synContexts, ffxRequested, features,
                       evaluation, shown>>
    BY DEF Synthetic!AfterSourcePresent
  <1>2. \A q \in Synthetic!Outputs : LastShown(q)' = LastShown(q)
    BY <1>1 DEF LastShown
  <1>3. ASSUME UNCHANGED <<queue, slept>>,
               owned # 0 => \A i \in 1..Len(queue.pending) : LastShown(owned) < queue.pending[i]
        PROVE  SyntheticInv'
    <2>1. OneEach'
      BY <1>1, <1>3, SameEvaluations
    <2>2. SyntheticTyped'
      BY <1>0, <1>1, <1>3 DEF SyntheticTyped
    <2>3. \A q \in Synthetic!Outputs : InOrder(q)'
      BY <1>1, <1>3 DEF SyntheticInv, InOrder
    <2>4. ASSUME owned # 0 PROVE Queued(owned)'
      <3>1. Queued(owned) /\ LastShown(owned)' = LastShown(owned)
        BY <1>1, <2>4 DEF SyntheticInv, LastShown
      <3>2. \A t \in GameThreads : Under(t, owned)' <=> Under(t, owned)
        BY <1>1 DEF Under
      <3> QED
        BY <1>1, <1>3, <2>4, <3>1, <3>2 DEF Queued
    <2> QED
      BY <1>1, <2>1, <2>2, <2>3, <2>4 DEF SyntheticInv
  <1>4. CASE ~(active /\ owned = o)
    <2>1. UNCHANGED <<queue, slept>>
      BY <1>1, <1>4 DEF Synthetic!AfterSourcePresent
    <2>2. ASSUME owned # 0 PROVE \A i \in 1..Len(queue.pending) : LastShown(owned) < queue.pending[i]
      <3>1. Queued(owned)
        BY <2>2 DEF SyntheticInv
      <3>2. CASE owned # o
        BY <1>1, <3>1, <3>2 DEF Queued
      <3>3. CASE ~active
        <4>1. queue.pending = <<>>
          BY <3>1, <3>3 DEF Queued, Synthetic!NewQueue
        <4> QED
          BY <4>1
      <3> QED
        BY <1>4, <3>2, <3>3
    <2> QED
      BY <1>3, <2>1, <2>2
  <1>5. CASE active /\ owned = o
    <2>1. /\ p.start <= MaxFrameId /\ queue' = p.q
          /\ IF p.start = 0 THEN UNCHANGED slept ELSE slept' = [slept EXCEPT ![o] = Append(slept[o], p.start)]
      BY <1>1, <1>5 DEF Synthetic!AfterSourcePresent, Synthetic!StartFrame
    <2>2. o \in Synthetic!Outputs /\ Queued(o) /\ Ordered(queue) /\ ~(o > made)
      BY <1>0, <1>1, <1>5, SyntheticAssumption DEF SyntheticInv, SyntheticTyped, Queued,
         Synthetic!Outputs
    <2>3. /\ p.q \in QueueStates /\ Ordered(p.q) /\ p.start \in 0..MaxFrameId
          /\ \/ /\ p.start = 0 /\ p.q = queue
                /\ queue.presenting = 0 \/ queue.pending = <<>> \/ queue.pending[1] # queue.presenting
             \/ /\ p.q.presenting = 0 /\ Len(p.q.pending) = Len(queue.pending) - 1
                /\ \A i \in 1..Len(p.q.pending) : i + 1 \in 1..Len(queue.pending) /\ p.q.pending[i] = queue.pending[i + 1]
                /\ \/ p.start = 0 /\ ~queue.submitted /\ ~p.q.submitted /\ p.q.building = queue.building
                   \/ p.start = queue.building + 1 /\ queue.submitted /\ ~p.q.submitted
                      /\ p.q.building = queue.building + 1
      BY <1>0, <2>1, <2>2, Shifted
    <2> HIDE DEF p
    <2>4. /\ Len(queue.pending) \in Nat /\ queue.building \in Nat
          /\ \A i \in 1..Len(queue.pending) : queue.pending[i] \in Nat \ {0}
      BY <1>0, QueueFields
    <2>5. \A t \in GameThreads : Under(t, o)' <=> Under(t, o)
      BY <1>1 DEF Under
    <2>6. CASE /\ p.start = 0 /\ p.q = queue
               /\ queue.presenting = 0 \/ queue.pending = <<>> \/ queue.pending[1] # queue.presenting
      <3>1. \A i \in 1..Len(queue.pending) : LastShown(o) < queue.pending[i]
        <4> SUFFICES ASSUME NEW i \in 1..Len(queue.pending), ~(LastShown(o) < queue.pending[i]) PROVE FALSE
          OBVIOUS
        <4>1. i = 1 /\ queue.pending[i] = queue.presenting
          BY <2>2 DEF Queued
        <4>2. queue.pending[i] # 0 /\ Len(queue.pending) # 0
          BY <2>4
        <4> QED
          BY <2>6, <4>1, <4>2
      <3> QED
        BY <1>3, <1>5, <2>1, <2>6, <3>1
    <2>7. CASE /\ p.q.presenting = 0 /\ Len(p.q.pending) = Len(queue.pending) - 1
               /\ \A i \in 1..Len(p.q.pending) : i + 1 \in 1..Len(queue.pending) /\ p.q.pending[i] = queue.pending[i + 1]
               /\ ~p.q.submitted
      <3>1. \A i \in 1..Len(p.q.pending) : LastShown(o) < p.q.pending[i]
        <4> SUFFICES ASSUME NEW i \in 1..Len(p.q.pending) PROVE LastShown(o) < p.q.pending[i]
          OBVIOUS
        <4>1. i \in Nat /\ i >= 1
          BY <2>4, <2>7
        <4>2. i + 1 \in 1..Len(queue.pending) /\ p.q.pending[i] = queue.pending[i + 1] /\ i + 1 # 1
          BY <2>7, <4>1
        <4> QED
          BY <2>2, <4>2 DEF Queued
      <3>2. CASE p.start = 0 /\ ~queue.submitted /\ p.q.building = queue.building
        <4>1. slept' = slept
          BY <2>1, <3>2
        <4>2. OneEach'
          BY <1>1, <4>1, SameEvaluations
        <4>3. SyntheticTyped'
          BY <1>0, <1>1, <2>1, <2>3, <4>1 DEF SyntheticTyped, Ordered
        <4>4. \A q \in Synthetic!Outputs : InOrder(q)'
          BY <1>1, <4>1 DEF SyntheticInv, InOrder
        <4>5. Queued(o)'
          <5>1. /\ \A t \in GameThreads : Under(t, o)' /\ evaluation'[t].at \in {"sleeping", "woken"} =>
                                   evaluation'[t].id = queue'.building /\ ~queue'.submitted
                /\ (\A t \in GameThreads : ~(Under(t, o)' /\ evaluation'[t].at = "sleeping"))
                     => queue'.building = Len(slept'[o])
            BY <1>1, <2>1, <2>2, <2>5, <2>7, <3>2, <4>1 DEF Queued
          <5>2. /\ LastShown(o) <= queue'.building
                /\ ~queue'.submitted /\ queue'.building # 0 => LastShown(o) < queue'.building
            BY <2>1, <2>2, <3>2 DEF Queued
          <5> QED
            BY <1>1, <1>2, <1>5, <2>1, <2>2, <2>3, <2>7, <3>1, <5>1, <5>2 DEF Queued
        <4> QED
          BY <1>1, <1>5, <4>2, <4>3, <4>4, <4>5 DEF SyntheticInv
      <3>3. CASE p.start = queue.building + 1 /\ queue.submitted /\ p.q.building = queue.building + 1
        <4>1. \A t \in GameThreads : ~(Under(t, o) /\ evaluation[t].at \in {"sleeping", "woken"})
          BY <2>2, <3>3 DEF Queued
        <4>2. queue.building = Len(slept[o])
          BY <2>2, <4>1 DEF Queued
        <4>3. p.start \in FrameIds /\ p.start # 0
          BY <2>3, <2>4, <3>3 DEF FrameIds
        <4>4. /\ slept' \in [Synthetic!Outputs -> Seq(FrameIds)] /\ Len(slept'[o]) = Len(slept[o]) + 1 /\ Len(slept[o]) \in Nat
              /\ \A i \in 1..Len(slept[o]) : slept'[o][i] = slept[o][i]
              /\ slept'[o][Len(slept[o]) + 1] = p.start
              /\ \A q \in Synthetic!Outputs : q # o => slept'[q] = slept[q]
          <5>1. slept[o] \in Seq(FrameIds) /\ slept \in [Synthetic!Outputs -> Seq(FrameIds)]
            BY <1>0, <2>2 DEF SyntheticTyped
          <5>2. PICK a \in Seq(FrameIds) : a = Append(slept[o], p.start)
            BY <4>3, <5>1, AppendProperties
          <5>3. /\ Len(a) = Len(slept[o]) + 1 /\ Len(slept[o]) \in Nat
                /\ \A i \in 1..Len(slept[o]) : a[i] = slept[o][i]
                /\ a[Len(slept[o]) + 1] = p.start
            BY <4>3, <5>1, <5>2, AppendProperties
          <5>4. slept' = [slept EXCEPT ![o] = a]
            BY <2>1, <4>3, <5>2
          <5> QED
            BY <2>2, <5>1, <5>3, <5>4
        <4>5. OneEach'
          BY <1>1, <4>1, <4>4, SameEvaluations
        <4>6. SyntheticTyped'
          BY <1>0, <1>1, <2>1, <2>3, <4>4 DEF SyntheticTyped, Ordered
        <4>7. \A q \in Synthetic!Outputs : InOrder(q)'
          <5> SUFFICES ASSUME NEW q \in Synthetic!Outputs PROVE InOrder(q)'
            OBVIOUS
          <5>1. InOrder(q)
            BY DEF SyntheticInv
          <5>2. CASE q # o
            BY <1>1, <4>4, <5>1, <5>2 DEF InOrder
          <5>3. CASE q = o
            <6>1. \A i \in 1..Len(slept'[o]) : slept'[o][i] = i
              BY <3>3, <4>2, <4>4, <5>1, <5>3 DEF InOrder
            <6>2. \A i \in 1..Len(shown[o]) : shown[o][i] \in Nat
              BY <1>0, <2>2, LastTyped
            <6>3. \A i \in 1..Len(shown[o]) : shown[o][i] <= Len(slept'[o]) /\ (i > 1 => shown[o][i - 1] < shown[o][i])
              BY <4>4, <5>1, <5>3, <6>2 DEF InOrder
            <6> QED
              BY <1>1, <2>2, <5>3, <6>1, <6>3 DEF InOrder
          <5> QED
            BY <5>2, <5>3
        <4>8. Queued(o)'
          <5>1. /\ \A t \in GameThreads : Under(t, o)' /\ evaluation'[t].at \in {"sleeping", "woken"} =>
                                   evaluation'[t].id = queue'.building /\ ~queue'.submitted
                /\ queue'.building = Len(slept'[o])
            BY <1>1, <2>1, <2>5, <3>3, <4>1, <4>2, <4>4
          <5>2. LastShown(o) <= queue'.building /\ LastShown(o) < queue'.building
            <6>1. LastShown(o) \in Nat /\ LastShown(o) <= queue.building
              BY <1>0, <2>2, LastTyped DEF Queued
            <6> QED
              BY <2>1, <2>4, <3>3, <6>1
          <5> QED
            BY <1>1, <1>2, <1>5, <2>1, <2>2, <2>3, <2>7, <3>1, <5>1, <5>2 DEF Queued
        <4> QED
          BY <1>1, <1>5, <4>5, <4>6, <4>7, <4>8 DEF SyntheticInv
      <3> QED
        BY <2>3, <2>4, <2>7, <3>2, <3>3, <2>1, <1>3
    <2> QED
      BY <2>3, <2>6, <2>7
  <1> QED
    BY <1>4, <1>5

(* A new output starts with frames of its own.                             *)
LEMMA NewOutputKeeps ==
  ASSUME SyntheticInv, synLive = 0, Synthetic!NewOutput, NEW adapter \in Synthetic!Adapters, Synthetic!Begin(made + 1, adapter),
         synContexts' \subseteq {"swapchain", "generation"}, ffxRequested' \in BOOLEAN,
         UNCHANGED <<requested, synStreamline, features, evaluation, inPresent, slept, shown>>
  PROVE  SyntheticInv'
  <1>. PICK o : o = made + 1
    OBVIOUS
  <1>0. SyntheticTyped /\ OneEach /\ made \in Nat /\ o = made + 1
    BY SyntheticAssumption DEF SyntheticInv, SyntheticTyped
  <1>1. /\ made < SyntheticOutputs /\ made' = o /\ synLive' = o /\ owned' = o /\ ownerName' = adapter /\ active' = FALSE
        /\ queue' = Synthetic!NewQueue
    BY <1>0 DEF Synthetic!NewOutput, Synthetic!Begin
  <1>2. o \in 0..SyntheticOutputs /\ o \in Synthetic!Outputs /\ o \in Nat /\ o # 0 /\ made < o /\ inPresent = 0
    BY <1>0, <1>1, SyntheticAssumption DEF Synthetic!Outputs, SyntheticTyped
  <1>3. queue' \in QueueStates
    <2>1. <<>> \in Seq(FrameIds) /\ 0 \in 0..MaxFrameId /\ 0 \in 0..Evidence
      BY SyntheticAssumption
    <2> QED
      BY <1>1, <2>1 DEF Synthetic!NewQueue, QueueStates
  <1>4. SyntheticTyped'
    <2>1. /\ evaluation \in [GameThreads -> {Synthetic!Idle} \cup Evaluations]
          /\ slept \in [Synthetic!Outputs -> Seq(FrameIds)] /\ shown \in [Synthetic!Outputs -> Seq(FrameIds)]
          /\ requested \in BOOLEAN /\ synStreamline \in BOOLEAN /\ features \in BOOLEAN
      BY <1>0 DEF SyntheticTyped
    <2>2. /\ made' \in 0..SyntheticOutputs /\ synLive' \in 0..made' /\ owned' \in 0..made' /\ inPresent' \in {0, synLive'}
          /\ owned' \in {0, synLive'}
      BY <1>1, <1>2
    <2>3. Len(queue'.pending) <= Depth
      <3>1. queue'.pending = <<>>
        BY <1>1 DEF Synthetic!NewQueue
      <3>2. Len(queue'.pending) = 0
        BY <3>1
      <3> QED
        BY <3>2, SyntheticAssumption
    <2> QED
      BY <1>1, <1>3, <2>1, <2>2, <2>3 DEF SyntheticTyped
  <1>5. \A t \in GameThreads : evaluation[t] # Synthetic!Idle =>
          evaluation[t].output # o /\ evaluation[t].output <= o /\ evaluation[t].output \in Nat
    BY <1>0, <1>2, Evaluating DEF OneEach, Synthetic!Outputs
  <1>6. OneEach'
    BY <1>0, <1>1, <1>5 DEF OneEach
  <1>7. \A p \in Synthetic!Outputs : p > o => p > made
    BY <1>0, <1>2 DEF Synthetic!Outputs
  <1>8. \A p \in Synthetic!Outputs : InOrder(p)'
    BY <1>1, <1>7 DEF SyntheticInv, InOrder
  <1>9. Queued(o)'
    <2>1. slept[o] = <<>> /\ shown[o] = <<>>
      <3>1. o > made
        BY <1>0, <1>2
      <3> QED
        BY <1>2, <3>1 DEF SyntheticInv, InOrder
    <2>2. \A t \in GameThreads : ~Under(t, o)'
      BY <1>5 DEF Under
    <2>3. /\ queue'.pending = <<>> /\ queue'.building = 0 /\ queue'.presenting = 0 /\ queue'.submitted = FALSE
          /\ queue'.evidence = 0
      BY <1>1 DEF Synthetic!NewQueue
    <2>4. Ordered(queue')
      BY <2>3, SyntheticAssumption DEF Ordered
    <2>5. LastShown(o)' = 0
      BY <2>1 DEF LastShown
    <2>6. Len(slept'[o]) = 0
      BY <2>1
    <2> QED
      BY <1>1, <2>2, <2>3, <2>4, <2>5, <2>6 DEF Queued
  <1> QED
    BY <1>1, <1>4, <1>6, <1>8, <1>9 DEF SyntheticInv

(* What the game does with its contexts touches no frame.                  *)
LEMMA OthersKeep ==
  ASSUME SyntheticInv, Synthetic!Retire \/ Synthetic!CreateHook \/ Synthetic!Feature \/ Synthetic!StreamlineActs
                       \/ (\E turned \in BOOLEAN : Synthetic!ConfigureHook(turned))
                       \/ UNCHANGED Synthetic!vars
  PROVE  SyntheticInv'
  <1>0. SyntheticTyped /\ OneEach
    BY DEF SyntheticInv
  <1>1. UNCHANGED <<queue, made, owned, ownerName, active, evaluation, inPresent, slept, shown>>
    BY DEF Synthetic!Retire, Synthetic!CreateHook, Synthetic!Feature, Synthetic!StreamlineActs,
       Synthetic!ConfigureHook, Synthetic!vars
  <1>2. OneEach'
    BY <1>1, SameEvaluations
  <1>3. \A o \in Synthetic!Outputs : InOrder(o)'
    BY <1>1 DEF SyntheticInv, InOrder
  <1>4. ASSUME owned # 0 PROVE Queued(owned)'
    <2>1. Queued(owned) /\ LastShown(owned)' = LastShown(owned)
      BY <1>1, <1>4 DEF SyntheticInv, LastShown
    <2>2. \A t \in GameThreads : Under(t, owned)' <=> Under(t, owned)
      BY <1>1 DEF Under
    <2> QED
      BY <1>1, <2>1, <2>2 DEF Queued
  <1>5. SyntheticTyped'
    <2>1. CASE Synthetic!Retire
      <3>1. synLive' = 0 /\ inPresent' = 0 /\ UNCHANGED <<requested, synStreamline, synContexts, ffxRequested, features>>
        BY <2>1 DEF Synthetic!Retire
      <3>2. 0 \in 0..made
        BY <1>0, SyntheticAssumption DEF SyntheticTyped
      <3> QED
        BY <1>0, <1>1, <3>1, <3>2 DEF SyntheticTyped
    <2>2. CASE Synthetic!CreateHook
      BY <1>0, <1>1, <2>2 DEF Synthetic!CreateHook, SyntheticTyped
    <2>3. CASE Synthetic!Feature \/ Synthetic!StreamlineActs
      <3>1. features' \in BOOLEAN /\ synStreamline' \in BOOLEAN /\ requested' \in BOOLEAN
            /\ UNCHANGED <<synLive, synContexts, ffxRequested>>
        BY <1>0, <2>3 DEF Synthetic!Feature, Synthetic!StreamlineActs, SyntheticTyped
      <3> QED
        BY <1>0, <1>1, <3>1 DEF SyntheticTyped
    <2>4. ASSUME NEW turned \in BOOLEAN, Synthetic!ConfigureHook(turned) PROVE SyntheticTyped'
      <3>1. ffxRequested' \in BOOLEAN /\ requested' \in BOOLEAN /\ UNCHANGED <<synLive, synStreamline, synContexts, features>>
        BY <1>0, <2>4 DEF Synthetic!ConfigureHook, SyntheticTyped
      <3> QED
        BY <1>0, <1>1, <3>1 DEF SyntheticTyped
    <2>5. CASE UNCHANGED Synthetic!vars
      BY <1>0, <2>5 DEF Synthetic!vars, SyntheticTyped
    <2> QED
      BY <2>1, <2>2, <2>3, <2>4, <2>5
  <1> QED
    BY <1>1, <1>2, <1>3, <1>4, <1>5 DEF SyntheticInv

(* Without its swapchain's context FidelityFX owns the frames no longer.   *)
LEMMA DestroyKeeps ==
  ASSUME SyntheticInv, NEW context \in {"swapchain", "generation"}, Synthetic!DestroyHook(context)
  PROVE  SyntheticInv'
  <1>0. SyntheticTyped /\ OneEach
    BY DEF SyntheticInv
  <1>1. /\ UNCHANGED <<queue, synLive, made, synStreamline, features, evaluation, inPresent, slept, shown>>
        /\ synContexts' \subseteq synContexts
    BY DEF Synthetic!DestroyHook
  <1>2. \A o \in Synthetic!Outputs : InOrder(o)'
    BY <1>1 DEF SyntheticInv, InOrder
  <1>3. ffxRequested' \in BOOLEAN /\ requested' \in BOOLEAN
    BY <1>0 DEF Synthetic!DestroyHook, SyntheticTyped, Synthetic!End
  <1>4. CASE UNCHANGED <<owned, ownerName, active>>
    <2>1. OneEach'
      BY <1>1, <1>4, SameEvaluations
    <2>2. SyntheticTyped'
      BY <1>0, <1>1, <1>3, <1>4 DEF SyntheticTyped
    <2>3. ASSUME owned # 0 PROVE Queued(owned)'
      <3>1. Queued(owned) /\ LastShown(owned)' = LastShown(owned)
        BY <1>1, <1>4, <2>3 DEF SyntheticInv, LastShown
      <3>2. \A t \in GameThreads : Under(t, owned)' <=> Under(t, owned)
        BY <1>1, <1>4 DEF Under
      <3> QED
        BY <1>1, <1>4, <3>1, <3>2 DEF Queued
    <2> QED
      BY <1>2, <1>4, <2>1, <2>2, <2>3 DEF SyntheticInv
  <1>5. CASE Synthetic!End
    <2>1. owned' = 0 /\ ownerName' = "none" /\ active' = FALSE
      BY <1>5 DEF Synthetic!End
    <2>2. \A t \in GameThreads : evaluation[t] # Synthetic!Idle => evaluation[t].output # 0
      BY <1>0, Evaluating
    <2>3. OneEach'
      BY <1>0, <1>1, <2>1, <2>2 DEF OneEach
    <2>4. 0 \in 0..made
      BY <1>0, SyntheticAssumption DEF SyntheticTyped
    <2>5. SyntheticTyped'
      BY <1>0, <1>1, <1>3, <2>1, <2>4 DEF SyntheticTyped
    <2> QED
      BY <1>2, <2>1, <2>3, <2>5 DEF SyntheticInv
  <1> QED
    BY <1>4, <1>5 DEF Synthetic!DestroyHook

(* Every step keeps the frames in order.                                   *)
LEMMA SyntheticStep == SyntheticInv /\ [Synthetic!Next]_(Synthetic!vars) => SyntheticInv'
  <1> SUFFICES ASSUME SyntheticInv, [Synthetic!Next]_(Synthetic!vars) PROVE SyntheticInv'
    OBVIOUS
  <1>1. ASSUME NEW t \in GameThreads, NEW adapter \in Synthetic!Adapters, Synthetic!SubmitFrame(t, adapter) PROVE SyntheticInv'
    BY <1>1, SubmitKeeps
  <1>2. ASSUME NEW t \in GameThreads, Synthetic!Sleep(t) \/ Synthetic!Relock(t) \/ Synthetic!Return(t) PROVE SyntheticInv'
    BY <1>2, SleepKeeps, RelockKeeps, ReturnKeeps
  <1>3. CASE Synthetic!BeforeSourcePresent
    BY <1>3, BeforeKeeps
  <1>4. CASE Synthetic!AfterSourcePresent
    BY <1>4, AfterKeeps
  <1>5. CASE Synthetic!CreateSwapchain
    <2>1. synContexts \subseteq {"swapchain", "generation"} /\ ffxRequested' = FALSE
          /\ synContexts' = synContexts \cup {"swapchain"}
      BY <1>5 DEF Synthetic!CreateSwapchain, SyntheticInv, SyntheticTyped
    <2>2. synContexts' \subseteq {"swapchain", "generation"} /\ ffxRequested' \in BOOLEAN
      BY <2>1
    <2> QED
      BY <1>5, <2>2, NewOutputKeeps DEF Synthetic!CreateSwapchain, Synthetic!Adapters
  <1>6. CASE Synthetic!OutputCreated
    <2>1. synContexts' \subseteq {"swapchain", "generation"} /\ ffxRequested' \in BOOLEAN
      BY <1>6 DEF Synthetic!OutputCreated, SyntheticInv, SyntheticTyped
    <2> QED
      BY <1>6, <2>1, NewOutputKeeps DEF Synthetic!OutputCreated, Synthetic!Adapters
  <1>7. CASE Synthetic!Retire \/ Synthetic!CreateHook \/ Synthetic!Feature \/ Synthetic!StreamlineActs \/ UNCHANGED Synthetic!vars
    BY <1>7, OthersKeep
  <1>8. ASSUME NEW turned \in BOOLEAN, Synthetic!ConfigureHook(turned) PROVE SyntheticInv'
    BY <1>8, OthersKeep
  <1>9. ASSUME NEW context \in {"swapchain", "generation"}, Synthetic!DestroyHook(context) PROVE SyntheticInv'
    BY <1>9, DestroyKeeps
  <1> QED
    BY <1>1, <1>2, <1>3, <1>4, <1>5, <1>6, <1>7, <1>8, <1>9 DEF Synthetic!Next

(* The type and the order of the frames follow.                            *)
LEMMA SyntheticSafe == SyntheticInv => Synthetic!FramesInOrder /\ Synthetic!TypeOK
  <1> SUFFICES ASSUME SyntheticInv PROVE Synthetic!FramesInOrder /\ Synthetic!TypeOK
    OBVIOUS
  <1>0. SyntheticTyped /\ queue \in QueueStates
    BY DEF SyntheticInv, SyntheticTyped
  <1>1. Synthetic!FramesInOrder
    <2> SUFFICES ASSUME NEW o \in Synthetic!Outputs
                 PROVE  /\ \A i \in 1..Len(slept[o]) : slept[o][i] = i
                        /\ \A i \in 1..Len(shown[o]) : /\ shown[o][i] \in Synthetic!ToSet(slept[o])
                                                       /\ i > 1 => shown[o][i - 1] < shown[o][i]
      BY DEF Synthetic!FramesInOrder
    <2>1. InOrder(o)
      BY DEF SyntheticInv
    <2>2. ASSUME NEW i \in 1..Len(shown[o]) PROVE shown[o][i] \in Synthetic!ToSet(slept[o])
      <3>1. shown[o][i] \in FrameIds
        BY <1>0, LastTyped
      <3>2. shown[o][i] \in 1..Len(slept[o])
        BY <1>0, <2>1, <3>1, LastTyped DEF InOrder, FrameIds
      <3>3. slept[o][shown[o][i]] = shown[o][i]
        BY <2>1, <3>2 DEF InOrder
      <3> QED
        BY <3>2, <3>3 DEF Synthetic!ToSet
    <2> QED
      BY <2>1, <2>2 DEF InOrder
  <1>2. Synthetic!TypeOK
    <2>1. Len(queue.pending) <= Depth /\ Synthetic!ToSet(queue.pending) \subseteq 1..MaxFrameId
      <3>1. queue.pending \in Seq(FrameIds)
        BY <1>0, QueueFields
      <3>2. \A i \in 1..Len(queue.pending) : queue.pending[i] \in 1..MaxFrameId
        <4>1. \A i \in 1..Len(queue.pending) : queue.pending[i] \in FrameIds
          BY <3>1
        <4> QED
          BY <4>1 DEF FrameIds
      <3>3. Synthetic!ToSet(queue.pending) = {queue.pending[i] : i \in 1..Len(queue.pending)}
        BY DEF Synthetic!ToSet
      <3>4. Synthetic!ToSet(queue.pending) \subseteq 1..MaxFrameId
        BY <3>2, <3>3
      <3> QED
        BY <1>0, <3>4 DEF SyntheticTyped
    <2>2. queue.building \in 0..MaxFrameId /\ queue.presenting \in 0..MaxFrameId /\ queue.evidence \in 0..Evidence
      BY <1>0, QueueFields
    <2>3. synLive \in 0..SyntheticOutputs /\ made \in 0..SyntheticOutputs /\ owned \in 0..SyntheticOutputs /\ inPresent \in 0..SyntheticOutputs
      BY <1>0, SyntheticAssumption DEF SyntheticTyped
    <2>4. \A t \in GameThreads : evaluation[t].at \in {"idle", "sleeping", "woken", "feeding"}
      <3> SUFFICES ASSUME NEW t \in GameThreads PROVE evaluation[t].at \in {"idle", "sleeping", "woken", "feeding"}
        OBVIOUS
      <3>1. evaluation[t] = Synthetic!Idle \/ evaluation[t] \in Evaluations
        BY <1>0 DEF SyntheticTyped
      <3> QED
        BY <3>1 DEF Synthetic!Idle, Evaluations
    <2>5. \A o \in Synthetic!Outputs : slept[o] \in Seq(1..MaxFrameId) /\ shown[o] \in Seq(1..MaxFrameId)
      BY <1>0, LastTyped DEF FrameIds
    <2> QED
      BY <1>0, <2>1, <2>2, <2>3, <2>4, <2>5 DEF SyntheticTyped, Synthetic!TypeOK
  <1> QED
    BY <1>1, <1>2
=============================================================================
