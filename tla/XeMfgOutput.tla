------------------------------ MODULE XeMfgOutput ------------------------------
(***************************************************************************)
(* The display output of the XeMFG backend: created in place of the game's *)
(* swapchain, retired with it (native_bridge.cpp, native_swapchain.cpp,    *)
(* native_overlay.cpp, native_continuity.cpp, native_reframework.cpp), and *)
(* kept apart from Streamline's own generator (native_streamline.cpp).     *)
(*                                                                         *)
(* An output owns an SDK context and the XeLL one beside it.  Intel leaves *)
(* creating, initializing and destroying contexts out of its thread-safe   *)
(* calls, so those take a lock; what another add-on or the proxy's Release *)
(* may call back from is outside it.  A wait for a frame holds the output, *)
(* and with it XeLL, past the end of the presentation.                     *)
(***************************************************************************)
EXTENDS Naturals, FiniteSets

CONSTANTS
  Callers,     \* threads that create and release swapchains
  Windows,
  MaxOutputs,  \* bounds the outputs attempted
  MaxInits,    \* bounds the calls of slInit
  Continuity   \* whether a native chain others still hold is kept for the next output

NoOne   == "no one"
Outputs == 1..MaxOutputs

VARIABLES
  out,        \* each output attempted: its contexts, its public proxy, its window
  tried,      \* outputs attempted
  output,     \* Bridge::output, 0 for none
  leased,     \* outputs a wait in flight holds
  unconfirmed,\* retirementFailed
  retained,   \* per window: the native chain kept, and whether it may be used
  sdkLock,    \* sdkLifecycle
  creation,   \* what each caller is doing
  plugin,     \* whether Streamline has the DLSS-G plugin
  sl          \* what the hooks of Streamline's startup know, and what is loaded

vars == <<out, tried, output, leased, unconfirmed, retained, sdkLock, creation, plugin, sl>>

Unborn == [fg |-> FALSE, ll |-> FALSE, proxy |-> "none", retired |-> FALSE, window |-> NoOne]
Idle   == [at |-> "idle", n |-> 0, window |-> NoOne]
Down   == [up |-> FALSE, inits |-> 0, isolated |-> FALSE, missing |-> FALSE, accepted |-> FALSE,
           physical |-> FALSE, stopping |-> FALSE]

TypeOK ==
  /\ out \in [Outputs -> [fg : BOOLEAN, ll : BOOLEAN, proxy : {"none", "game", "quarantined"},
                          retired : BOOLEAN, window : Windows \cup {NoOne}]]
  /\ tried \in 0..MaxOutputs /\ output \in 0..MaxOutputs /\ leased \subseteq Outputs
  /\ unconfirmed \in BOOLEAN /\ retained \in [Windows -> {"none", "held", "ready"}]
  /\ sdkLock \in Callers \cup {NoOne}
  /\ creation \in [Callers -> [at : {"idle", "admitted", "making", "made", "ready", "undo",
                                     "closing", "closed", "destroyed"},
                               n : 0..MaxOutputs, window : Windows \cup {NoOne}]]
  /\ plugin \in BOOLEAN
  /\ sl \in [up : BOOLEAN, inits : 0..MaxInits, isolated : BOOLEAN, missing : BOOLEAN,
             accepted : BOOLEAN, physical : BOOLEAN, stopping : BOOLEAN]

Init ==
  /\ out = [n \in Outputs |-> Unborn] /\ tried = 0 /\ output = 0 /\ leased = {}
  /\ unconfirmed = FALSE /\ retained = [w \in Windows |-> "none"]
  /\ sdkLock = NoOne /\ creation = [c \in Callers |-> Idle]
  /\ plugin \in BOOLEAN /\ sl = Down

Go(c, where) == creation' = [creation EXCEPT ![c].at = where]
Return(c)    == creation' = [creation EXCEPT ![c] = Idle]
Streamline   == <<plugin, sl>>

----------------------------------------------------------------------------
(* Streamline.  The generator is unloaded where the game starts it, never  *)
(* under an output, and its requests to load it are only remembered.       *)

Isolated(s) ==
  {[s EXCEPT !.missing = ~plugin, !.isolated = took, !.physical = @ /\ ~took] :
     took \in IF plugin THEN BOOLEAN ELSE {FALSE}}

IsolatePresentation(s) == IF output # 0 THEN {s} ELSE Isolated(s)

InitHook ==
  /\ ~sl.up /\ sl.inits < MaxInits
  /\ sl' \in IsolatePresentation([Down EXCEPT !.up = TRUE, !.inits = sl.inits + 1, !.physical = plugin])
  /\ UNCHANGED <<out, tried, output, leased, unconfirmed, retained, sdkLock, creation, plugin>>

DeviceHook ==
  /\ sl.up /\ ~sl.isolated /\ ~sl.stopping /\ sl' \in IsolatePresentation(sl)
  /\ UNCHANGED <<out, tried, output, leased, unconfirmed, retained, sdkLock, creation, plugin>>

(* Wrong: the game's request reaches Streamline as it is.                  *)
Forwarded(enabled) == enabled

Loaded(enabled) == FALSE

SetLoadedHook(enabled) ==
  /\ sl.up /\ ~sl.stopping /\ plugin
  /\ sl' = [sl EXCEPT !.physical = Loaded(enabled), !.isolated = ~Loaded(enabled)]
  /\ UNCHANGED <<out, tried, output, leased, unconfirmed, retained, sdkLock, creation, plugin>>

\* Chains kept for later are given up; those that may be in use are leaked.
ShutdownHook ==
  /\ sl.up /\ sl' = [sl EXCEPT !.up = FALSE, !.stopping = TRUE, !.isolated = FALSE, !.physical = FALSE]
  /\ retained' = [w \in Windows |-> "none"]
  /\ UNCHANGED <<out, tried, output, leased, unconfirmed, sdkLock, creation, plugin>>

\* A profile may accept that Streamline has no generator at all.
AdmitMissingDlssgPlugin ==
  {[sl EXCEPT !.accepted = @ \/ a] :
     a \in IF sl.missing /\ ~sl.isolated /\ ~sl.stopping /\ ~plugin THEN BOOLEAN ELSE {FALSE}}

OwnsPresentationHooks(s) == (s.isolated \/ s.accepted) /\ ~s.stopping

----------------------------------------------------------------------------
(* The creation of the game's swapchain.                                   *)

ClearRetainedNative(w) == retained' = [retained EXCEPT ![w] = "none"]

\* The game gets the chain it asked for: nothing kept may stand in its way.
FactoryHook(w) == ClearRetainedNative(w)

\* The modules that present themselves as the add-on: none, one, or ambiguous.
Resolve == {"safe", "unidentified"}

\* The first look at the state, and at the add-on that watches swapchains.
CreateOutput(c, w) ==
  /\ creation[c] = Idle /\ tried < MaxOutputs /\ ~unconfirmed
  /\ \E peer \in Resolve :
       IF peer = "safe"
       THEN /\ creation' = [creation EXCEPT ![c] = [at |-> "admitted", n |-> 0, window |-> w]]
            /\ UNCHANGED retained
       ELSE FactoryHook(w) /\ UNCHANGED creation
  /\ UNCHANGED <<out, tried, output, leased, unconfirmed, sdkLock, Streamline>>

(* Wrong: the retirement that failed meanwhile is not looked for again.    *)
AdmissibleOnce == output = 0

Admissible == ~unconfirmed /\ output = 0

Select(c) ==
  /\ creation[c].at = "admitted" /\ sdkLock = NoOne /\ tried < MaxOutputs
  /\ IF Admissible
     THEN /\ sl' \in AdmitMissingDlssgPlugin
          /\ IF OwnsPresentationHooks(sl')
             THEN /\ sdkLock' = c /\ tried' = tried + 1
                  /\ creation' = [creation EXCEPT ![c].at = "making", ![c].n = tried + 1]
                  /\ UNCHANGED retained
             ELSE /\ FactoryHook(creation[c].window) /\ Return(c) /\ UNCHANGED <<sdkLock, tried>>
     ELSE /\ Return(c) /\ UNCHANGED <<sl, sdkLock, tried>>
          /\ IF unconfirmed THEN UNCHANGED retained ELSE FactoryHook(creation[c].window)
  /\ UNCHANGED <<out, output, leased, unconfirmed, plugin>>

\* XeLL's context, then XeFG's; either may be refused.
MakeContexts(c) ==
  /\ creation[c].at = "making"
  /\ \E fg \in BOOLEAN :
       /\ out' = [out EXCEPT ![creation[c].n] = [Unborn EXCEPT !.ll = TRUE, !.fg = fg, !.window = creation[c].window]]
       /\ Go(c, IF fg THEN "made" ELSE "undo")
  /\ UNCHANGED <<tried, output, leased, unconfirmed, retained, sdkLock, Streamline>>

\* What ReuseNativeOutput leaves of the chain kept, and whether there is one to show.
ReuseNativeOutput(kept) ==
  CASE ~Continuity \/ kept = "none" -> {[kept |-> "none", shown |-> TRUE]}
    [] kept = "held"  -> {[kept |-> "held", shown |-> FALSE]}
    [] kept = "ready" -> {[kept |-> "none", shown |-> TRUE], [kept |-> "ready", shown |-> FALSE]}

\* Intel's factory call, which may itself fail.
CreateFinalNativeOutput(w) ==
  {[kept |-> r.kept, shown |-> r.shown /\ ok] : r \in ReuseNativeOutput(retained[w]), ok \in BOOLEAN}

InitFromSwapChainDesc(c) ==
  /\ creation[c].at = "made"
  /\ \E r \in CreateFinalNativeOutput(creation[c].window) :
       /\ retained' = [retained EXCEPT ![creation[c].window] = r.kept]
       /\ Go(c, IF r.shown THEN "ready" ELSE "undo")
  /\ UNCHANGED <<out, tried, output, leased, unconfirmed, sdkLock, Streamline>>

Wrap(c) ==
  /\ creation[c].at = "ready"
  /\ out' = [out EXCEPT ![creation[c].n].proxy = "game"] /\ output' = creation[c].n
  /\ sdkLock' = NoOne /\ Return(c)
  /\ UNCHANGED <<tried, leased, unconfirmed, retained, Streamline>>

(* The SDK may refuse to destroy a context; it is then leaked with all it  *)
(* uses, and no other output is created.                                   *)
ConfirmNativeRetirement(n, ok) ==
  /\ unconfirmed' = (unconfirmed \/ ~ok)
  /\ retained' = [retained EXCEPT ![out[n].window] =
                    IF @ = "none" THEN @ ELSE IF ok THEN "ready" ELSE "none"]

\* A failed creation retires what it made, the lock still held.
Undo(c) ==
  /\ creation[c].at = "undo"
  /\ LET n == creation[c].n
     IN IF out[n].fg
        THEN \E ok \in BOOLEAN :
               /\ out' = [out EXCEPT ![n].fg = ~ok, ![n].ll = ~ok, ![n].retired = TRUE]
               /\ ConfirmNativeRetirement(n, ok)
        ELSE /\ out' = [out EXCEPT ![n].ll = FALSE, ![n].retired = TRUE]
             /\ UNCHANGED <<unconfirmed, retained>>
  /\ sdkLock' = NoOne /\ Return(c)
  /\ UNCHANGED <<tried, output, leased, Streamline>>

----------------------------------------------------------------------------
(* The end of an output: the game gives up the last reference.             *)

Release(c) ==
  /\ creation[c] = Idle /\ output # 0 /\ out[output].proxy = "game" /\ ~out[output].retired
  /\ out' = [out EXCEPT ![output].retired = TRUE]
  /\ creation' = [creation EXCEPT ![c] = [at |-> "closing", n |-> output, window |-> out[output].window]]
  /\ UNCHANGED <<tried, output, leased, unconfirmed, retained, sdkLock, Streamline>>

\* What the add-on answers when it is told of the end.
Prepare == {"safe", "blocked"}

\* The end of the final output: others may hold its native chain past it.
RetainNativeOutput(w) ==
  {[retained EXCEPT ![w] = IF held THEN "held" ELSE @] :
     held \in IF Continuity THEN BOOLEAN ELSE {FALSE}}

(* The add-on that watches swapchains is asked before the proxy goes, and  *)
(* without its word the proxy and the context stay for good.  Releasing    *)
(* the proxy ends the final output.                                        *)
PreRetire(c) ==
  /\ creation[c].at = "closing"
  /\ \E answer \in Prepare :
       LET n == creation[c].n
       IN IF answer = "safe"
          THEN /\ out' = [out EXCEPT ![n].proxy = "none"] /\ Go(c, "closed") /\ UNCHANGED unconfirmed
               /\ retained' \in RetainNativeOutput(out[n].window)
          ELSE /\ out' = [out EXCEPT ![n].proxy = "quarantined"] /\ unconfirmed' = TRUE
               /\ Go(c, "destroyed") /\ UNCHANGED retained
  /\ UNCHANGED <<tried, output, leased, sdkLock, Streamline>>

DestroyContext(c) ==
  /\ creation[c].at = "closed" /\ sdkLock = NoOne
  /\ \E ok \in BOOLEAN :
       /\ out' = [out EXCEPT ![creation[c].n].fg = ~ok] /\ ConfirmNativeRetirement(creation[c].n, ok)
  /\ Go(c, "destroyed")
  /\ UNCHANGED <<tried, output, leased, sdkLock, Streamline>>

\* ~Output, once nothing holds it: a context that is still alive keeps XeLL.
Unowned(n) == [out EXCEPT ![n].ll = out[n].fg]

Forget(c) ==
  /\ creation[c].at = "destroyed" /\ output' = 0
  /\ out' = IF creation[c].n \in leased THEN out ELSE Unowned(creation[c].n)
  /\ Return(c)
  /\ UNCHANGED <<tried, leased, unconfirmed, retained, sdkLock, Streamline>>

Lease ==
  /\ output # 0 /\ ~out[output].retired /\ leased' = leased \cup {output}
  /\ UNCHANGED <<out, tried, output, unconfirmed, retained, sdkLock, creation, Streamline>>

EndLease(n) ==
  /\ n \in leased /\ leased' = leased \ {n}
  /\ out' = IF n = output THEN out ELSE Unowned(n)
  /\ UNCHANGED <<tried, output, unconfirmed, retained, sdkLock, creation, Streamline>>

Next ==
  \/ \E c \in Callers :
       \/ \E w \in Windows : CreateOutput(c, w)
       \/ Select(c) \/ MakeContexts(c) \/ InitFromSwapChainDesc(c) \/ Wrap(c) \/ Undo(c)
       \/ Release(c) \/ PreRetire(c) \/ DestroyContext(c) \/ Forget(c)
  \/ Lease \/ \E n \in Outputs : EndLease(n)
  \/ InitHook \/ DeviceHook \/ ShutdownHook \/ \E e \in BOOLEAN : SetLoadedHook(e)

Spec == Init /\ [][Next]_vars

----------------------------------------------------------------------------
(* Intel's context is created and initialized alone: no other is alive,    *)
(* on its way out, refused its end or quarantined, whichever threads       *)
(* created and released swapchains meanwhile; and XeLL outlives the waits  *)
(* in flight and the context bound to it.                                  *)
SdkAlone ==
  /\ \A c \in Callers : creation[c].at \in {"making", "made", "ready"}
       => \A n \in Outputs \ {creation[c].n} : ~out[n].fg
  /\ \A n \in Outputs : n \in leased \/ out[n].fg => out[n].ll

(* Streamline's generator, unloaded, is not loaded again beside an output  *)
(* until Streamline itself is started again.                               *)
StaysUnloaded == output # 0 /\ ~sl.physical /\ sl'.inits = sl.inits => ~sl'.physical
NotReloadedBeside == [][StaysUnloaded]_vars
=============================================================================
