----------------------------- MODULE ReflexOptions -----------------------------
(***************************************************************************)
(* The submission of Reflex options (framecount.hpp).  The game's own      *)
(* slReflexSetOptions is forwarded with the strictest of its limit, the    *)
(* user's cap and the guard's cap; a change that arises elsewhere is       *)
(* replayed with the game's last options, and only on the thread that gave *)
(* them: other threads leave g_latency_guard_refresh_pending behind, which *)
(* that thread's sleep or present picks up.                                *)
(*                                                                         *)
(* A limit is where it comes from: Native is the game's, User the user's   *)
(* cap, and a member of Caps the guard's.  The epoch is represented by who *)
(* is behind it: only equality with the current one is ever asked.         *)
(* What is acknowledged is what QueueTrial waits for, in its terms.        *)
(***************************************************************************)
EXTENDS QueueTrial, FiniteSets

CONSTANTS
  Options,  \* what the game gives: "loose", "strict" or "opaque", with a chain
  Owners    \* whether the thread that gives them presents: {TRUE}, {FALSE} or both

ASSUME OptionsAssumption == Options \subseteq {"opaque", "loose", "strict"}
ASSUME OwnersAssumption == Owners \subseteq BOOLEAN

VARIABLES
  mode,        \* g_latency_guard_mode
  userCap,     \* UserSourceCapRequested, whichever setting makes it so
  pacing,      \* the waitable pacer's state, and whether it controls pacing
  cap, ready,  \* g_latency_guard_active_source_cap_fps, _auto_cap_ready
  live,        \* g_latency_guard_live_multiplier
  pending,     \* g_latency_guard_refresh_pending
  behind,      \* who holds an old g_latency_guard_epoch
  native,      \* the game's last options, and whether its limit is stricter
  provider,    \* the limit Streamline runs with
  accepted,    \* g_last_accepted_reflex_options, Unknown when not valid
  ack,         \* g_queue_cap_ack
  source,      \* g_reflex_limit_source
  succeeded,   \* g_reflex_limit_result is eOk
  userRejected,\* g_reflex_user_cap_rejected
  ownerPresents, \* the owner of the options is the presenting thread
  sub,         \* where the submission under g_reflex_submit_lock is
  wanted, chosen, answered, overridden \* its locals

Holders == {"multiplier", "queue", "accepted", "ack"}
Native  == 0      \* the game's own limit, or none
User    == 0 - 2  \* the user's cap
Limits  == {Native, User} \cup Caps
Labels  == {"idle", "decide", "replay", "call", "retry", "publish"}

settings   == <<mode, userCap, pacing>>
guardCap   == <<cap, ready>>
told       == <<accepted, ack, source, succeeded, userRejected>>
submission == <<sub, wanted, chosen, answered, overridden>>
reflexVars == <<settings, guardCap, live, pending, behind, native, provider, told,
                ownerPresents, submission>>

ReflexTypeOK ==
  /\ mode \in {"off", "monitor", "automatic"} /\ userCap \in BOOLEAN
  /\ pacing \in {"native", "waiting", "controls", "fallback"}
  /\ cap \in {0} \cup Caps /\ ready \in BOOLEAN /\ live \in 0..6
  /\ pending \in BOOLEAN /\ behind \subseteq Holders
  /\ native \in {"none", "opaque", "loose", "strict"}
  /\ provider \in Limits /\ accepted \in {Unknown} \cup Limits
  /\ ack \in {0} \cup Caps /\ source \in {"native", "user", "guard"}
  /\ succeeded \in BOOLEAN /\ userRejected \in BOOLEAN /\ ownerPresents \in BOOLEAN
  /\ sub \in Labels /\ wanted \in Limits /\ chosen \in Limits
  /\ answered \in BOOLEAN /\ overridden \in BOOLEAN

ReflexInit ==
  /\ mode \in {"monitor", "automatic"} /\ userCap = FALSE /\ pacing = "native"
  /\ cap = 0 /\ ready = FALSE /\ live = 0 /\ pending = FALSE /\ behind = Holders
  /\ native = "none" /\ provider = Native /\ accepted = Unknown /\ ack = 0
  /\ source = "native" /\ succeeded = TRUE /\ userRejected = FALSE
  /\ ownerPresents \in Owners
  /\ sub = "idle" /\ wanted = Native /\ chosen = Native
  /\ answered = FALSE /\ overridden = FALSE

Replayable == native \in {"loose", "strict"}  \* and so g_reflex_options_seen

ShouldApplyLatencyGuardTarget ==
  /\ pacing # "controls" /\ ~userCap
  /\ mode = "automatic" /\ ready /\ cap # 0 /\ live \in 2..6

UserSourceCapReady == userCap => Replayable /\ succeeded /\ source = "user"
UserSourceCapRejected == userCap /\ Replayable /\ (userRejected \/ ~succeeded)

\* Contention and an outdated or refused submission are unknown.
ReadQueueCapAck ==
  IF sub = "idle" /\ accepted # Unknown /\ "ack" \notin behind THEN ack ELSE Unknown

----------------------------------------------------------------------------
(* Submissions.  sub is not "idle" while g_reflex_submit_lock is held, and *)
(* the locals mean something only then.                                    *)

Leave == sub' = "idle" /\ wanted' = Native /\ chosen' = Native
         /\ answered' = FALSE /\ overridden' = FALSE

\* The game gives options; options with a chain are forwarded and forgotten.
HookedReflexSetOptions(options) ==
  /\ sub = "idle"
  /\ native' = options /\ pending' = FALSE
  /\ sub' = "decide"
  /\ UNCHANGED <<settings, guardCap, live, behind, provider, told, ownerPresents,
                 wanted, chosen, answered, overridden>>

ForwardOpaque ==
  /\ sub = "decide" /\ native = "opaque"
  /\ \E ok \in BOOLEAN :
       /\ succeeded' = ok
       /\ IF ok THEN provider' = Native /\ source' = "native"
                ELSE UNCHANGED <<provider, source>>
  /\ accepted' = Unknown
  /\ Leave
  /\ UNCHANGED <<settings, guardCap, live, pending, behind, native, ack, userRejected,
                 ownerPresents>>

Choice ==
  IF userCap THEN User ELSE IF ShouldApplyLatencyGuardTarget THEN cap ELSE Native

\* A replay of what was accepted in this epoch is not sent again.
Decide ==
  /\ sub \in {"decide", "replay"} /\ native # "opaque"
  /\ LET limit == IF native = "strict" THEN Native ELSE Choice
     IN IF sub = "replay" /\ accepted = limit /\ "accepted" \notin behind
        THEN Leave
        ELSE /\ wanted' = Choice /\ chosen' = limit /\ sub' = "call"
             /\ UNCHANGED <<answered, overridden>>
  /\ UNCHANGED <<settings, guardCap, live, pending, behind, native, provider, told,
                 ownerPresents>>

\* A refusal does not say what is in force.
Refused(limit) == provider' \in {provider, limit}

Call ==
  /\ sub = "call"
  /\ \E ok \in BOOLEAN :
       /\ answered' = ok
       /\ overridden' = (~ok /\ chosen # Native)
       /\ IF ok THEN provider' = chosen ELSE Refused(chosen)
       /\ sub' = IF overridden' THEN "retry" ELSE "publish"
  /\ UNCHANGED <<settings, guardCap, live, pending, behind, native, told, ownerPresents,
                 wanted, chosen>>

\* A refused override is withdrawn, and the game's own options sent again.
RetryNative ==
  /\ sub = "retry"
  /\ \E ok \in BOOLEAN :
       /\ answered' = ok
       /\ IF ok THEN provider' = Native ELSE Refused(Native)
  /\ chosen' = Native
  /\ ready' = FALSE /\ cap' = 0 /\ behind' = Holders
  /\ sub' = "publish"
  /\ UNCHANGED <<settings, live, pending, native, told, ownerPresents, wanted, overridden>>

\* What the submission set the limit to, as the panel and the guard see it.
NewSource ==
  CASE ~answered -> "native"
    [] answered /\ wanted = User /\ ~overridden -> "user"
    [] answered /\ chosen \in Caps -> "guard"
    [] OTHER -> "native"

\* Wrong: acknowledged whatever the provider answered.
PublishUnasked ==
  /\ sub = "publish"
  /\ accepted' = chosen /\ source' = NewSource /\ succeeded' = answered
  /\ userRejected' = IF wanted = User THEN overridden ELSE userRejected
  /\ ack' = IF wanted \in Caps THEN cap ELSE 0
  /\ behind' = behind \ {"accepted", "ack"}
  /\ Leave
  /\ UNCHANGED <<settings, guardCap, live, pending, native, provider, ownerPresents>>

\* The cap acknowledged is the one read now, not the one decided on.
Publish ==
  /\ sub = "publish"
  /\ accepted' = IF answered THEN chosen ELSE Unknown
  /\ source' = NewSource /\ succeeded' = answered
  /\ userRejected' = IF wanted = User THEN overridden ELSE userRejected
  /\ ack' = IF NewSource = "guard" THEN cap ELSE 0
  /\ behind' = IF answered THEN behind \ {"accepted", "ack"} ELSE behind \cup {"ack"}
  /\ Leave
  /\ UNCHANGED <<settings, guardCap, live, pending, native, provider, ownerPresents>>

Submission ==
  ForwardOpaque \/ Decide \/ Call \/ RetryNative \/ Publish

\* A replay, on the owner's thread; with nothing to replay it does nothing.
Replay == sub' = IF Replayable THEN "replay" ELSE "idle"

HookedReflexSleep ==
  /\ sub = "idle" /\ native # "none" /\ pending
  /\ pending' = FALSE
  /\ Replay
  /\ UNCHANGED <<settings, guardCap, live, behind, native, provider, told, ownerPresents,
                 wanted, chosen, answered, overridden>>

=============================================================================
