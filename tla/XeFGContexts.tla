------------------------------ MODULE XeFGContexts ------------------------------
(***************************************************************************)
(* The XeMFG model backend (xemfg/backend.cpp): the hooks on Intel's       *)
(* XeSS-FG, the contexts created through them, by the addon's own bridge   *)
(* (the host), by the game or by others, and the pacing every context that *)
(* uses the ported model must have.                                        *)
(*                                                                         *)
(* One lock covers every call.  Only the initialization of a context is in *)
(* two steps: what it announces before is read without the lock.           *)
(***************************************************************************)
EXTENDS Naturals, FiniteSets

CONSTANTS
  Handles,     \* of the SDK's contexts; the SDK may give one again
  MaxContexts, \* with the model, 8 in the code
  Counts       \* of generated frames, 1..5 in the code

Owners == {"host", "game"}

VARIABLES
  startup,   \* startupOnce, status.hooks and startupFailed
  model,     \* attempted, rejected and the published model
  live, on,  \* the SDK's: contexts alive, and those that generate frames
  contexts, native,  \* contexts with the model, and those without
  paced,     \* contexts registered for the extra output's pacing
  opening,   \* initializations announced and not over
  owning,    \* initializedGame
  user       \* userGenerated, 0 for the game's own count

vars == <<startup, model, live, on, contexts, native, paced, opening, owning, user>>

Modelled == DOMAIN contexts
Hooked   == startup = "hooked"

Context == [owner : Owners, initialized : BOOLEAN, generated : {0} \cup Counts,
            requested : {0} \cup Counts]

TypeOK ==
  /\ startup \in {"no", "failed", "hooked"} /\ model \in {"none", "ready", "rejected"}
  /\ live \subseteq Handles /\ on \subseteq Handles /\ native \subseteq Handles
  /\ Modelled \subseteq Handles /\ contexts \in [Modelled -> Context]
  /\ paced \subseteq Handles /\ opening \subseteq Handles /\ owning \subseteq Handles
  /\ user \in {0} \cup Counts

Init ==
  /\ startup = "no" /\ model = "none" /\ live = {} /\ on = {}
  /\ contexts = <<>> /\ native = {} /\ paced = {} /\ opening = {} /\ owning = {} /\ user = 0

----------------------------------------------------------------------------
(* The two Intel libraries are found, identified, pinned and hooked once.  *)
Start ==
  /\ startup = "no"
  /\ startup' \in {"failed", "hooked"}
  /\ UNCHANGED <<model, live, on, contexts, native, paced, opening, owning, user>>

\* A context nobody sees being created: not hooked yet, or not at all.
CreateUnseen(h) ==
  /\ ~Hooked /\ h \notin live
  /\ live' = live \cup {h}
  /\ UNCHANGED <<startup, model, on, contexts, native, paced, opening, owning, user>>

CreateForOther(h) ==
  /\ Hooked /\ h \notin live /\ model # "ready"
  /\ live' = live \cup {h} /\ native' = native \cup {h}
  /\ UNCHANGED <<startup, model, on, contexts, paced, opening, owning, user>>

\* Tried once, and put off as long as a context without the model lives.
Prepare == IF model # "none" \/ native # {} THEN {model} ELSE {"ready", "rejected"}

Create(owner, h) ==
  /\ Hooked /\ h \notin live /\ Cardinality(Modelled) < MaxContexts
  /\ model' \in Prepare
  /\ \/ UNCHANGED <<live, contexts, native>>
     \/ /\ live' = live \cup {h}
        /\ IF model' = "ready"
           THEN /\ contexts' = [c \in Modelled \cup {h} |->
                     IF c = h THEN [owner |-> owner, initialized |-> FALSE,
                                    generated |-> 0, requested |-> 0]
                     ELSE contexts[c]]
                /\ UNCHANGED native
           ELSE native' = native \cup {h} /\ UNCHANGED contexts
  /\ UNCHANGED <<startup, on, paced, opening, owning, user>>

GameOwned(h) == (h \in Modelled /\ contexts[h].owner = "game") \/ h \in native

Announce(h) ==
  /\ Hooked /\ h \in live \ opening
  /\ opening' = opening \cup {h}
  /\ UNCHANGED <<startup, model, live, on, contexts, native, paced, owning, user>>

\* Wrong: a context that lost its pacing goes on.
LeaveOn(h) == on

\* A context that cannot be paced is turned off.
TurnOff(h) == on \ {h}

\* The SDK refuses, or the pacing does, or all is well.
Initialize(h) ==
  /\ h \in opening /\ opening' = opening \ {h}
  /\ \/ UNCHANGED <<on, contexts, paced, owning>>
     \/ /\ owning' = IF GameOwned(h) THEN owning \cup {h} ELSE owning
        /\ IF h \notin Modelled THEN UNCHANGED <<on, contexts, paced>>
           ELSE \E register \in BOOLEAN :
                  /\ contexts' = [contexts EXCEPT ![h].initialized = register]
                  /\ paced' = IF register THEN paced \cup {h} ELSE paced \ {h}
                  /\ on' = IF register THEN on ELSE TurnOff(h)
  /\ UNCHANGED <<startup, model, live, native, user>>

----------------------------------------------------------------------------
(* The user's count takes the place of the game's.                         *)

MayApply(h) ==
  /\ h \in Modelled /\ contexts[h].owner = "game" /\ contexts[h].initialized
  /\ contexts[h].requested # 0 /\ user # 0

\* The SDK takes the count or refuses it.
ApplyGameCount(h) ==
  IF MayApply(h) THEN \E took \in BOOLEAN :
                        contexts' = IF took THEN [contexts EXCEPT ![h].generated = user] ELSE contexts
  ELSE UNCHANGED contexts

Enable(h, enabled) ==
  /\ Hooked /\ h \in live
  /\ ~(enabled /\ h \in Modelled /\ ~contexts[h].initialized)
  /\ on' = IF enabled THEN on \cup {h} ELSE on \ {h}
  /\ IF enabled THEN ApplyGameCount(h) ELSE UNCHANGED contexts
  /\ UNCHANGED <<startup, model, live, native, paced, opening, owning, user>>

\* What the game asked is kept even if the call is refused.
Count(h, count) ==
  /\ Hooked /\ h \in Modelled
  /\ LET c       == contexts[h]
         replace == c.owner = "game" /\ user # 0
         asked   == [c EXCEPT !.requested = IF c.owner = "game" THEN count ELSE @]
         taken   == [asked EXCEPT !.generated = IF replace THEN user ELSE count]
     IN contexts' \in {[contexts EXCEPT ![h] = r] :
                         r \in {asked} \cup (IF c.initialized THEN {taken} ELSE {})}
  /\ UNCHANGED <<startup, model, live, on, native, paced, opening, owning, user>>

LastStatus(h) ==
  /\ Hooked /\ h \in Modelled /\ ApplyGameCount(h)
  /\ UNCHANGED <<startup, model, live, on, native, paced, opening, owning, user>>

Destroy(h) ==
  /\ h \in live \ opening
  /\ live' = live \ {h} /\ on' = on \ {h}
  /\ IF Hooked
     THEN /\ owning' = owning \ {h} /\ native' = native \ {h} /\ paced' = paced \ {h}
          /\ contexts' = [c \in Modelled \ {h} |-> contexts[c]]
     ELSE UNCHANGED <<contexts, native, paced, owning>>
  /\ UNCHANGED <<startup, model, opening, user>>

SetGameMultiplier ==
  /\ user' \in ({0} \cup Counts) \ {user}
  /\ UNCHANGED <<startup, model, live, on, contexts, native, paced, opening, owning>>

Next ==
  \/ Start \/ SetGameMultiplier
  \/ \E h \in Handles :
       \/ CreateUnseen(h) \/ CreateForOther(h) \/ \E o \in Owners : Create(o, h)
       \/ Announce(h) \/ Initialize(h) \/ LastStatus(h) \/ Destroy(h)
       \/ \E enabled \in BOOLEAN : Enable(h, enabled)
       \/ \E count \in Counts : Count(h, count)

Spec == Init /\ [][Next]_vars

----------------------------------------------------------------------------
(* A context that uses the model generates frames only while its extra     *)
(* output is paced; the model is never under a context known to be without *)
(* it; and what is said to own the frame generation is alive.              *)
ModelIsPaced ==
  /\ on \cap Modelled \subseteq paced
  /\ model = "ready" => native = {}
  /\ owning \cup native \cup paced \cup Modelled \subseteq live
=============================================================================
