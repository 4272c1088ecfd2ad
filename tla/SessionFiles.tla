------------------------------ MODULE SessionFiles ------------------------------
(***************************************************************************)
(* What the add-on keeps in files between processes: the session marker,   *)
(* which tells the next process whether this one ended cleanly, and the    *)
(* safe-mode request (support_files.hpp), and the frame generation method  *)
(* in MFGAdaUnlock.ini (backend_selection.hpp, config_store.hpp). ReShade  *)
(* loads and unloads copies of the add-on around its startup devices, so a *)
(* process may open and leave the session several times (addon.cpp).       *)
(* One process of the game runs at a time; its id may be used again later. *)
(***************************************************************************)
EXTENDS Integers

CONSTANTS
  Pids,          \* process ids the system hands out
  MaxProcesses,  \* bound: processes started
  MaxCopies,     \* bound: copies loaded in one process
  Offer          \* kSafeModeOffer

VARIABLES
  marker,   \* MFGAdaUnlock.session: whose session, and the streak; pid 0 is no file
  request,  \* MFGAdaUnlock.safe-mode: its owner, or Unowned, or NoRequest
  ini,      \* the saved Backend/Selected and DLSSG/XmxGenerator
  staged,   \* config::Save: the copy being written, with what the file held
  process,  \* the running process: its pid (0 when none), copies loaded so far
  copy,     \* what the loaded copy of the add-on knows
  unseen,   \* history: sessions in a row whose end the add-on did not see
  adopted   \* history: a copy of this process started in safe mode

vars == <<marker, request, ini, staged, process, copy, unseen, adopted>>

NoRequest == -1
Unowned   == 0
NoMarker  == [pid |-> 0, streak |-> 0]
NoCopy    == [loaded |-> FALSE, streak |-> 0, unclean |-> FALSE, safe |-> FALSE, active |-> "dlssg", xmx |-> FALSE]
NoStage   == [open |-> FALSE, before |-> {}, keys |-> {}]

\* The modes a player selects, as the two keys they are saved in.
Inis  == [selected : {"dlssg", "xemfg", "invalid"}, xmx : BOOLEAN]
Modes == {"dlssg", "xemfg", "xmx"}
SelectMode(mode) == [selected |-> IF mode = "xemfg" THEN "xemfg" ELSE "dlssg", xmx |-> mode = "xmx"]

\* An unreadable preference keeps the DLSS-G backend running.
Effective(kind) == IF kind = "invalid" THEN "dlssg" ELSE kind
ReadMode(file)  == IF file.selected = "xemfg" THEN "xemfg" ELSE IF file.xmx THEN "xmx" ELSE "dlssg"

Init ==
  /\ marker = NoMarker /\ request = NoRequest
  /\ ini \in {[selected |-> "dlssg", xmx |-> TRUE], [selected |-> "invalid", xmx |-> FALSE]}
  /\ staged = NoStage /\ copy = NoCopy
  /\ process = [pid |-> 0, copies |-> 0, started |-> 0]
  /\ unseen = 0 /\ adopted = FALSE

Start ==
  /\ process.pid = 0 /\ process.started < MaxProcesses
  /\ \E pid \in Pids : process' = [pid |-> pid, copies |-> 0, started |-> process.started + 1]
  /\ adopted' = FALSE
  /\ UNCHANGED <<marker, request, ini, staged, copy, unseen>>

\* Wrong: every marker is taken for another process's.
EveryMarker(file, pid) == IF file.pid = 0 THEN file.streak ELSE file.streak + 1

\* The streak a starting copy goes on with. A marker of this very process was
\* left by an earlier copy; one of a process that is gone is an unclean end.
Streak(file, pid) ==
  IF file.pid \in {0, pid} THEN file.streak ELSE file.streak + 1

Unclean(file, pid) == file.pid \notin {0, pid}

\* BeginSession and ConsumeSafeMode, at every load of a copy; then the
\* backend is latched. A later process than the adopting one removes the request.
Attach ==
  /\ process.pid # 0 /\ ~copy.loaded /\ process.copies < MaxCopies
  /\ LET pid  == process.pid
         safe == request \in {Unowned, pid}
     IN /\ copy' = [loaded |-> TRUE, streak |-> Streak(marker, pid), unclean |-> Unclean(marker, pid), safe |-> safe,
                    active |-> Effective(ini.selected), xmx |-> ReadMode(ini) = "xmx" /\ ~safe]
        /\ marker' = [pid |-> pid, streak |-> Streak(marker, pid)]
        /\ request' = IF safe THEN pid ELSE NoRequest
        /\ adopted' = (adopted \/ safe)
        /\ process' = [process EXCEPT !.copies = @ + 1]
  /\ UNCHANGED <<ini, staged, unseen>>

\* ReShade unloads a startup copy: not the end of the session. XeMFG pins itself.
Unload ==
  /\ copy.loaded /\ copy.active = "dlssg" /\ ~staged.open
  /\ copy' = NoCopy
  /\ UNCHANGED <<marker, request, ini, staged, process, unseen, adopted>>

Left == process' = [process EXCEPT !.pid = 0] /\ copy' = NoCopy /\ staged' = NoStage

\* The game's exit. Only a loaded copy sees it, and it removes only its own marker.
EndSession ==
  /\ process.pid # 0 /\ ~staged.open
  /\ marker' = IF copy.loaded /\ marker.pid = process.pid THEN NoMarker ELSE marker
  /\ unseen' = IF copy.loaded THEN 0 ELSE IF process.copies = 0 THEN unseen ELSE unseen + 1
  /\ Left
  /\ UNCHANGED <<request, ini, adopted>>

\* A crash, at any point after a copy began the session.
Crash ==
  /\ process.pid # 0 /\ process.copies > 0
  /\ unseen' = unseen + 1
  /\ Left
  /\ UNCHANGED <<marker, request, ini, adopted>>

\* The panel's notice after an unclean session: safe mode for the next start,
\* offered after Offer unclean ends in a row, or the notice dismissed.
RequestSafeMode ==
  /\ copy.loaded /\ copy.unclean /\ copy.streak >= Offer /\ copy.active = "dlssg"
  /\ request' = Unowned
  /\ UNCHANGED <<marker, ini, staged, process, copy, unseen, adopted>>

ResetStreak ==
  /\ copy.loaded /\ copy.unclean
  /\ copy' = [copy EXCEPT !.streak = 0, !.unclean = FALSE]
  /\ marker' = IF marker.pid = process.pid THEN [marker EXCEPT !.streak = 0] ELSE marker
  /\ unseen' = 0
  /\ UNCHANGED <<request, ini, staged, process, adopted>>

\* config::Save: every key goes into a copy of the file, and the copy replaces
\* the file if the file still holds what the copy was made from.
Stage ==
  /\ copy.loaded /\ ~staged.open
  /\ \E mode \in Modes : staged' = [open |-> TRUE, before |-> {ini}, keys |-> {SelectMode(mode)}]
  /\ UNCHANGED <<marker, request, ini, process, copy, unseen, adopted>>

Publish ==
  /\ staged.open
  /\ staged' = NoStage
  /\ ini' \in (IF ini \in staged.before THEN staged.keys ELSE {}) \cup {ini}
  /\ UNCHANGED <<marker, request, process, copy, unseen, adopted>>

\* A player edits the file by hand, or another program saves it.
Edit ==
  /\ staged.open /\ ini' = [selected |-> "invalid", xmx |-> FALSE] /\ ini' # ini
  /\ UNCHANGED <<marker, request, staged, process, copy, unseen, adopted>>

Next ==
  Start \/ Attach \/ Unload \/ EndSession \/ Crash \/ RequestSafeMode \/ ResetStreak \/ Stage \/ Publish \/ Edit

Spec == Init /\ [][Next]_vars

TypeOK ==
  /\ marker \in [pid : Pids \cup {0}, streak : 0..MaxProcesses]
  /\ request \in Pids \cup {NoRequest, Unowned}
  /\ ini \in Inis
  /\ copy.streak \in 0..MaxProcesses /\ copy.active \in {"dlssg", "xemfg"}

\* Safe mode is offered for what really happened: the streak a copy reports is
\* never above the sessions in a row whose end the add-on did not see, however
\* many copies ReShade loads in one process and whatever ids come again.  And
\* once one copy of a process started in it, so does every later copy: the
\* settings that may have crashed it stay off until the next process
\* (support_files.hpp BeginSession, ResetStreak, EndSession, ConsumeSafeMode).
SafeModeEarned ==
  copy.loaded => copy.streak <= unseen /\ (adopted => copy.safe /\ ~copy.xmx)

=============================================================================
