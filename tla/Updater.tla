------------------------------ MODULE Updater -------------------------------
(***************************************************************************)
(* Updates of the software: updated.py fetches a version into an overlay   *)
(* over the running one and copies it to a finalized directory, the launch *)
(* script moves that into place at the next boot, and agnos.py does the    *)
(* same for the operating system with two slots.  Power may go at any step.*)
(***************************************************************************)
EXTENDS Naturals, FiniteSets

CONSTANTS
  Branches,       \* the branches of the server
  Factory,        \* the branch the device was set up with
  MaxCommits,     \* bound on the commits of a branch after the first
  None,           \* no version, no branch, no commit
  Partial,        \* files of which some are missing, torn or of another version
  Os,             \* Os[v]: the version of the operating system v asks for
  MaxEdits,       \* bound on the local changes made to the software
  MaxMishaps,     \* bound on the losses of power, kills of updated and commands that fail
  MaxSignals      \* bound on the requests of the user

ASSUME UpdaterAssumption ==
  /\ Factory \in Branches
  /\ MaxCommits \in Nat /\ MaxEdits \in Nat /\ MaxMishaps \in Nat
  /\ MaxSignals \in Nat

Versions == Branches \X (0..MaxCommits)

ASSUME NoneAssumption ==
  None \notin Branches \cup Versions /\ Partial \notin Versions /\ None # Partial

VARIABLES
  head,           \* head[b]: the newest commit of branch b on the server
  base,           \* the version at BASEDIR, None between the two moves
  edits,          \* how many local changes BASEDIR has seen
  overlayInit,    \* .overlay_init exists at BASEDIR
  touched,        \* something in .git is newer than it
  old,            \* the version at old_openpilot, or None
  final, flag,    \* the finalized directory, and .overlay_consistent in it
  mayFinal, mayFlag,  \* what a loss of power may leave of these
  merged,         \* the overlay's view of the software
  builtOn,        \* the local changes there were when the overlay was made
  mounted,        \* the overlay is mounted
  os, slot,       \* the running system, and the one of the other slot
  maySlot,        \* what a loss of power may leave of it
  target,         \* UpdaterTargetBranch, None when unset
  avail,          \* UpdateAvailable
  pc,             \* where updated is
  firstRun,       \* its first turn
  known,          \* branches: the commits it has seen of the server
  readTarget,     \* the target set_params has read
  request, event, \* WaitTimeHelper
  asked,          \* the user asked and no check has been tried since
  brokeOff,       \* a turn failed before its check and none has been tried since
  phase,          \* "launch", "moving", "agnos", "swapping" or "up"
  mishaps, signals

server == <<head>>
basedir == <<base, edits, overlayInit, touched>>
staging == <<old, final, flag, mayFinal, mayFlag>>
overlay == <<merged, builtOn, mounted>>
system == <<os, slot, maySlot>>
params == <<target, avail>>
daemon == <<firstRun, known, readTarget>>
waiting == <<request, event, asked, brokeOff>>
counts == <<mishaps, signals>>
vars == <<server, basedir, staging, overlay, system, params, pc, daemon, waiting, phase, counts>>

NoneKnown == [b \in Branches |-> None]

Init ==
  /\ head = [b \in Branches |-> 0]
  /\ base = <<Factory, 0>> /\ edits = 0
  /\ overlayInit = FALSE /\ touched = FALSE
  /\ old = None /\ final = None /\ flag = FALSE
  /\ mayFinal = {None} /\ mayFlag = {FALSE}
  /\ merged = None /\ builtOn = 0 /\ mounted = FALSE
  /\ os = Os[base] /\ slot = Partial /\ maySlot = {Partial}
  /\ target = None /\ avail = FALSE
  /\ pc = "off" /\ firstRun = TRUE /\ known = NoneKnown /\ readTarget = None
  /\ request = "NONE" /\ event = FALSE /\ asked = FALSE /\ brokeOff = FALSE
  /\ phase = "launch"
  /\ mishaps = 0 /\ signals = 0

-----------------------------------------------------------------------------
(* os.sync and what it makes durable.  A loss of power leaves renames and  *)
(* removals in their order, as the journal has them, so a loss that undoes *)
(* the last of them is a loss that came before it; contents have no order. *)
Synced == mayFinal' = {final'} /\ mayFlag' = {flag'} /\ maySlot' = {slot'}

Sync == UNCHANGED <<old, final, flag, os, slot>> /\ Synced

(* A mutant, for the check of ReadyIsWhole: no sync before the flag.       *)
WriteFlagMutant(consistent) ==
  /\ flag' = (consistent /\ final # None)
  /\ mayFlag' = mayFlag \union {flag'}
  /\ UNCHANGED <<old, final, mayFinal, os, slot, maySlot>>

(* set_consistent_flag up to its last sync, which is a step of its own:    *)
(* touch or unlink, after what came before it was synced.                  *)
WriteFlag(consistent) ==
  /\ flag' = (consistent /\ final # None)
  /\ mayFlag' = {flag, flag'}
  /\ mayFinal' = {final} /\ maySlot' = {slot}
  /\ UNCHANGED <<old, final, os, slot>>

TargetBranch == IF target = None THEN base[1] ELSE target

(* update_ready; a branch that is not known has no commit.                 *)
UpdateReady(branch) ==
  /\ flag
  /\ base # <<branch, known[branch]>>
  /\ final[1] = branch

At(from, to) == phase = "up" /\ pc = from /\ pc' = to

(* A command of updated fails: the exception ends what it was doing.       *)
Fails(steps, to) ==
  /\ mishaps < MaxMishaps /\ mishaps' = mishaps + 1
  /\ \E from \in steps : At(from, to)
  /\ UNCHANGED <<server, phase, signals>>

(* A turn that fails before its check.                                     *)
BreaksOff(step) ==
  /\ Fails({step}, "fail")
  /\ brokeOff' = TRUE
  /\ UNCHANGED <<daemon, request, asked>>

-----------------------------------------------------------------------------
(* main, from the invalidation of an old update.                           *)
Start ==
  /\ At("off", "startSync")
  /\ WriteFlag(FALSE)
  /\ firstRun' = TRUE /\ known' = NoneKnown /\ readTarget' = None
  /\ request' = "NONE" /\ event' = FALSE /\ asked' = FALSE /\ brokeOff' = FALSE
  /\ UNCHANGED <<server, basedir, overlay, params, phase, counts>>

StartSync ==
  /\ At("startSync", "top")
  /\ Sync
  /\ UNCHANGED <<server, basedir, overlay, params, daemon, waiting, phase, counts>>

OverlayValid == overlayInit /\ mounted /\ ~touched

(* The top of the loop and the look at the overlay there is.               *)
Top ==
  /\ At("top", IF OverlayValid THEN "setParams" ELSE "dropFlag")
  /\ event' = FALSE
  /\ UNCHANGED <<server, basedir, staging, overlay, system, params, daemon, request, asked,
                 brokeOff, phase, counts>>

TopFails ==
  /\ overlayInit /\ mounted /\ BreaksOff("top")
  /\ event' = FALSE
  /\ UNCHANGED <<basedir, staging, overlay, system, params>>

(* init_overlay: the staging area is emptied and the overlay mounted anew. *)
DropFlag ==
  /\ At("dropFlag", "dropSync")
  /\ avail' = FALSE
  /\ WriteFlag(FALSE)
  /\ UNCHANGED <<server, basedir, overlay, target, daemon, waiting, phase, counts>>

DropSync ==
  /\ At("dropSync", "empty")
  /\ Sync
  /\ UNCHANGED <<server, basedir, overlay, params, daemon, waiting, phase, counts>>

Empty ==
  /\ At("empty", "mount")
  /\ old' = None /\ final' = None /\ flag' = FALSE
  /\ mayFinal' = mayFinal \union {Partial, None} /\ mayFlag' = mayFlag \union {FALSE}
  /\ merged' = None /\ mounted' = FALSE
  /\ UNCHANGED <<server, basedir, builtOn, system, params, daemon, waiting, phase, counts>>

(* The overlay cannot be dismounted; or of what is removed some is left.   *)
Remains(v) == IF v = None THEN {None} ELSE {v, Partial, None}

EmptyFails ==
  /\ BreaksOff("empty")
  /\ \/ UNCHANGED <<staging, overlay>>
     \/ /\ old' \in Remains(old) /\ final' \in Remains(final)
        /\ mayFinal' = mayFinal \union {Partial, None}
        /\ merged' = None /\ mounted' = FALSE
        /\ UNCHANGED <<flag, mayFlag, builtOn>>
  /\ UNCHANGED <<basedir, system, params, event>>

(* The canary is left at BASEDIR and synced before the overlay is mounted. *)
Canary ==
  /\ overlayInit' = TRUE /\ touched' = FALSE
  /\ Sync
  /\ UNCHANGED <<base, edits>>

Overlaid == merged' = base /\ builtOn' = edits /\ mounted' = TRUE

Mount ==
  /\ At("mount", "setParams")
  /\ Canary /\ Overlaid
  /\ UNCHANGED <<server, params, daemon, waiting, phase, counts>>

(* Before the canary, after it, or in the look at the mounted overlay.     *)
MountFails ==
  /\ BreaksOff("mount")
  /\ \/ UNCHANGED <<basedir, staging, overlay, system>>
     \/ Canary /\ (UNCHANGED overlay \/ Overlaid)
  /\ UNCHANGED <<params, event>>

(* set_params, which reads the target branch and writes it back.           *)
ReadTarget(from, to) ==
  /\ At(from, to)
  /\ readTarget' = TargetBranch
  /\ UNCHANGED <<server, basedir, staging, overlay, system, params, firstRun, known, waiting, phase, counts>>

WriteParams(from, to) ==
  /\ At(from, to)
  /\ target' = readTarget /\ readTarget' = None
  /\ avail' = UpdateReady(readTarget)
  /\ UNCHANGED <<server, basedir, staging, overlay, system, firstRun, known, phase, counts>>

SetParams ==
  \/ ReadTarget("setParams", "writeParams")
  \/ /\ WriteParams("writeParams", IF firstRun THEN "firstSleep" ELSE "check")
     /\ UNCHANGED waiting

(* set_params fails: none, some or all of what it writes is written.       *)
PartOfParams ==
  \/ UNCHANGED params
  \/ target' = readTarget /\ avail' \in {avail, UpdateReady(readTarget)}

SetParamsFails ==
  /\ BreaksOff("writeParams")
  /\ PartOfParams
  /\ UNCHANGED <<basedir, staging, overlay, system, event>>

(* Mutants, for the checks of HeardBeforeSleep and NewestOffered: the      *)
(* event is cleared at the end of a turn, the request is kept.             *)
EventLeftMutant == FALSE

RequestLeftMutant == request

EventLeft == event

RequestLeft == "NONE"

(* The end of a turn: the request is dropped, the event is not.            *)
EndTurn ==
  \/ ReadTarget("end", "writeEnd")
  \/ /\ WriteParams("writeEnd", "sleep")
     /\ request' = RequestLeft /\ event' = EventLeft
     /\ UNCHANGED <<asked, brokeOff>>

(* set_params fails at the end of a turn, which ends all the same.         *)
EndTurnFails ==
  /\ Fails({"writeEnd"}, "sleep")
  /\ PartOfParams
  /\ request' = RequestLeft /\ event' = EventLeft
  /\ UNCHANGED <<basedir, staging, overlay, system, daemon, asked, brokeOff>>

(* sleep ends with the event, or by its timeout.                           *)
Wake ==
  /\ \/ At("firstSleep", "top") /\ firstRun' = FALSE
     \/ At("sleep", "top") /\ UNCHANGED firstRun
  /\ UNCHANGED <<server, basedir, staging, overlay, system, params, known, readTarget, waiting, phase, counts>>

(* check_for_update, then whether to fetch: on a metered connection only   *)
(* when it has been long or the user asked, and not for a mere check.      *)
Check ==
  /\ phase = "up" /\ pc = "check"
  /\ known' = head
  /\ asked' = FALSE /\ brokeOff' = FALSE
  /\ \/ pc' = "dropReady" /\ request # "CHECK"
     \/ pc' = "end" /\ request # "FETCH"
  /\ UNCHANGED <<server, basedir, staging, overlay, system, params, firstRun, readTarget, request, event, phase, counts>>

CheckFails ==
  /\ Fails({"check"}, "fail")
  /\ known' \in {known, head}
  /\ asked' = FALSE /\ brokeOff' = FALSE
  /\ UNCHANGED <<basedir, staging, overlay, system, params, firstRun, readTarget, request, event>>

-----------------------------------------------------------------------------
(* fetch_update. *)
DropReady ==
  /\ At("dropReady", "dropReadySync")
  /\ WriteFlag(FALSE)
  /\ UNCHANGED <<server, basedir, overlay, params, daemon, waiting, phase, counts>>

DropReadySync ==
  /\ At("dropReadySync", "fetch")
  /\ Sync
  /\ avail' = FALSE
  /\ UNCHANGED <<server, basedir, overlay, target, daemon, waiting, phase, counts>>

(* git fetch and checkout of the target branch: the overlay is of no       *)
(* version in between.                                                     *)
Fetch ==
  /\ At("fetch", "checkout")
  /\ readTarget' = TargetBranch
  /\ merged' = Partial
  /\ UNCHANGED <<server, basedir, staging, builtOn, mounted, system, params, firstRun, known, waiting, phase, counts>>

Checkout ==
  /\ At("checkout", "agnos")
  /\ merged' = <<readTarget, head[readTarget]>> /\ readTarget' = None
  /\ UNCHANGED <<server, basedir, staging, builtOn, mounted, system, params, firstRun, known, waiting, phase, counts>>

(* A mutant, for the check of OsReady: the system is compared with the     *)
(* one this software was started for.                                      *)
OsWantedMutant == Os[base]

OsWanted == Os[merged]

(* handle_agnos_update: the other slot is unusable until all is flashed.   *)
Agnos ==
  /\ At("agnos", IF OsWanted = os THEN "finalize" ELSE "flash")
  /\ IF OsWanted = os
     THEN UNCHANGED <<staging, system>>
     ELSE WriteFlag(FALSE)
  /\ UNCHANGED <<server, basedir, overlay, params, daemon, waiting, phase, counts>>

(* Partitions that are as wanted are left alone.                           *)
Flash ==
  /\ phase = "up" /\ pc = "flash"
  /\ \/ slot = OsWanted /\ pc' = "finalize" /\ UNCHANGED system
     \/ slot # OsWanted /\ slot # Partial /\ slot' = Partial /\ maySlot' = {Partial}
        /\ UNCHANGED <<os, pc>>
     \/ slot = Partial /\ slot' = OsWanted /\ maySlot' = {Partial, OsWanted}
        /\ UNCHANGED os /\ pc' = "finalize"
  /\ UNCHANGED <<server, basedir, staging, overlay, params, daemon, waiting, phase, counts>>

(* finalize_update: a copy of the overlay, under a flag that is set last.  *)
Finalize ==
  /\ At("finalize", "finalizeSync")
  /\ WriteFlag(FALSE)
  /\ UNCHANGED <<server, basedir, overlay, params, daemon, waiting, phase, counts>>

FinalizeSync ==
  /\ At("finalizeSync", "copy")
  /\ Sync
  /\ UNCHANGED <<server, basedir, overlay, params, daemon, waiting, phase, counts>>

Copy ==
  /\ At("copy", "copied")
  /\ final' = Partial
  /\ mayFinal' = mayFinal \union {None, Partial}
  /\ UNCHANGED <<server, basedir, old, flag, mayFlag, overlay, system, params, daemon, waiting, phase, counts>>

Copied ==
  /\ At("copied", "raiseFlag")
  /\ final' = merged
  /\ mayFinal' = mayFinal \union {final'}
  /\ UNCHANGED <<server, basedir, old, flag, mayFlag, overlay, system, params, daemon, waiting, phase, counts>>

RaiseFlag ==
  /\ At("raiseFlag", "raiseSync")
  /\ WriteFlag(TRUE)
  /\ UNCHANGED <<server, basedir, overlay, params, daemon, waiting, phase, counts>>

RaiseSync ==
  /\ At("raiseSync", "end")
  /\ Sync
  /\ UNCHANGED <<server, basedir, overlay, params, daemon, waiting, phase, counts>>

(* A command of fetch_update fails.                                        *)
FetchFails ==
  /\ Fails({"fetch", "checkout", "agnos", "flash", "copy", "copied", "raiseFlag"}, "fail")
  /\ UNCHANGED <<basedir, staging, overlay, system, params, daemon, waiting>>

(* The handlers of main: the overlay is to be made anew.                   *)
Fail ==
  /\ At("fail", "end")
  /\ overlayInit' = FALSE
  /\ UNCHANGED <<server, base, edits, touched, staging, overlay, system, params, daemon, waiting, phase, counts>>

-----------------------------------------------------------------------------
(* The signals of the interface, which asks for a check or a download; the *)
(* branch that is chosen, and then checked for; and its button to install. *)
Signal(wanted) ==
  /\ signals < MaxSignals /\ signals' = signals + 1
  /\ phase = "up" /\ pc \notin {"off", "startSync"}
  /\ request' = wanted /\ event' = TRUE /\ asked' = TRUE
  /\ UNCHANGED <<server, basedir, staging, overlay, system, avail, pc, daemon, brokeOff, phase,
                 mishaps>>

Ask == (Signal("CHECK") \/ Signal("FETCH")) /\ UNCHANGED target

SelectBranch ==
  /\ Signal("CHECK")
  /\ \E b \in Branches : b # TargetBranch /\ target' = b

Boot == pc' = "off" /\ mounted' = FALSE /\ phase' = "launch"

RebootForInstall ==
  /\ phase = "up" /\ avail
  /\ signals < MaxSignals /\ signals' = signals + 1
  /\ Boot /\ Sync
  /\ UNCHANGED <<server, basedir, merged, builtOn, params, daemon, waiting, mishaps>>

(* A drive begins: the manager stops updated.                              *)
Onroad ==
  /\ phase = "up" /\ pc # "off"
  /\ mishaps < MaxMishaps /\ mishaps' = mishaps + 1
  /\ pc' = "off" /\ avail' = FALSE
  /\ UNCHANGED <<server, basedir, staging, overlay, system, target, daemon, waiting, phase, signals>>

PowerLoss ==
  /\ mishaps < MaxMishaps /\ mishaps' = mishaps + 1
  /\ Boot
  /\ final' \in mayFinal /\ slot' \in maySlot
  /\ \E kept \in mayFlag : flag' = (kept /\ final' # None)
  /\ UNCHANGED <<old, os>> /\ Synced
  /\ UNCHANGED <<server, basedir, merged, builtOn, params, daemon, waiting, signals>>

Publish ==
  /\ \E b \in Branches : head[b] < MaxCommits /\ head' = [head EXCEPT ![b] = @ + 1]
  /\ UNCHANGED <<basedir, staging, overlay, system, params, pc, daemon, waiting, phase, counts>>

(* Local work with git at BASEDIR.                                         *)
Edit ==
  /\ phase = "up" /\ edits < MaxEdits /\ edits' = edits + 1
  /\ touched' = TRUE
  /\ UNCHANGED <<server, base, overlayInit, staging, overlay, system, params, pc, daemon, waiting, phase, counts>>

-----------------------------------------------------------------------------
(* The launch script: an update is installed when the software is as it    *)
(* was when the overlay was made, and no older software is kept.           *)
(* Mutants, for the checks of BuiltOnBase and of ImplementsInstalls: local *)
(* changes are not looked for; the flag is not.                            *)
InstallableMutant == overlayInit /\ flag /\ old = None

UnflaggedMutant == overlayInit /\ ~touched /\ final # None /\ old = None

Installable == overlayInit /\ ~touched /\ flag /\ old = None

Launch ==
  /\ phase = "launch" /\ base # None
  /\ IF Installable
     THEN old' = base /\ base' = None /\ phase' = "moving"
     ELSE UNCHANGED <<old, base>> /\ phase' = "agnos"
  /\ UNCHANGED <<server, edits, overlayInit, touched, final, flag, mayFinal, mayFlag,
                 overlay, system, params, pc, daemon, waiting, counts>>

(* The flag is in the directory and moves with it.                         *)
FlagLeft == FALSE

(* The second move, and the script of the new version.                     *)
Move ==
  /\ phase = "moving" /\ phase' = "launch"
  /\ base' = final /\ final' = None /\ flag' = FlagLeft
  /\ mayFinal' = {None} /\ mayFlag' = {FlagLeft}
  /\ overlayInit' = FALSE /\ edits' = 0 /\ touched' = FALSE
  /\ UNCHANGED <<server, old, overlay, system, params, pc, daemon, waiting, counts>>

(* agnos_init and manager_init.                                            *)
StartManager ==
  /\ phase = "agnos" /\ os = Os[base] /\ phase' = "up"
  /\ target' = None /\ avail' = FALSE
  /\ UNCHANGED <<server, basedir, staging, overlay, system, pc, daemon, waiting, counts>>

(* The other slot is verified, its hashes are cleared, it is made active.  *)
SwapSystem ==
  \/ /\ phase = "agnos" /\ os # Os[base] /\ slot = Os[base] /\ phase' = "swapping"
     /\ slot' = Partial /\ maySlot' = {Partial}
     /\ UNCHANGED <<server, basedir, staging, overlay, os, params, pc, daemon, waiting, counts>>
  \/ /\ phase = "swapping" /\ phase' = "launch"
     /\ os' = Os[base]
     /\ UNCHANGED <<server, basedir, staging, overlay, slot, maySlot, params, pc, daemon, waiting, counts>>

(* The updater's screen.                                                   *)
FlashAtBoot ==
  /\ phase = "agnos" /\ os # Os[base] /\ slot # Os[base]
  /\ slot' = Os[base] /\ maySlot' = {Partial, Os[base]}
  /\ UNCHANGED <<server, basedir, staging, overlay, os, params, pc, daemon, waiting, phase, counts>>

-----------------------------------------------------------------------------
Updated ==
  \/ Start \/ StartSync \/ Top \/ DropFlag \/ DropSync \/ Empty \/ Mount \/ SetParams
  \/ EndTurn \/ Wake \/ DropReady \/ DropReadySync \/ Fetch \/ Checkout
  \/ Agnos \/ Flash \/ Finalize \/ FinalizeSync \/ Copy \/ Copied \/ RaiseFlag
  \/ RaiseSync \/ Fail

Failures ==
  \/ TopFails \/ EmptyFails \/ MountFails \/ SetParamsFails \/ CheckFails \/ FetchFails
  \/ EndTurnFails

Booting == Launch \/ Move \/ StartManager \/ SwapSystem \/ FlashAtBoot

Environment ==
  \/ Ask \/ SelectBranch \/ RebootForInstall \/ Onroad \/ PowerLoss \/ Publish \/ Edit

Next == Updated \/ Check \/ Failures \/ Booting \/ Environment

Spec == Init /\ [][Next]_vars

(* updated runs as long as the device is parked and the boot goes on.  A   *)
(* connection is not metered for ever, or three days pass without a fetch. *)
FairSpec ==
  /\ Spec
  /\ WF_vars(Updated) /\ WF_vars(Check) /\ WF_vars(Booting)
  /\ SF_vars(Check /\ pc' = "dropReady")

-----------------------------------------------------------------------------
(* Whatever a loss of power leaves, a directory that carries the flag is a *)
(* whole version, and it can only be installed with the system it asks     *)
(* for, running or flashed: "prevent an openpilot getting swapped in with  *)
(* a mismatched or partially downloaded agnos" (updated.py).               *)
ReadyIsWhole ==
  TRUE \in mayFlag => mayFinal \subseteq Versions \union {None}

SystemReady ==
  TRUE \in mayFlag =>
    \A v \in mayFinal \ {None, Partial} : Os[v] = os \/ maySlot = {Os[v]}

(* What is installed was built over the git of BASEDIR as it is at the     *)
(* moment of the move: work with git that came after its overlay stops the *)
(* launch script, until a turn of updated has made an overlay with the     *)
(* work in it, which its fetch then checks the branch out over.            *)
BuiltOnBase == [][Launch /\ base' = None => builtOn = edits]_vars

(* Unless a turn broke off before its check, which drops the request,      *)
(* updated does not begin its long sleep over a request that no check has  *)
(* followed, and the short sleep of its first turn leaves the request for  *)
(* the next, if not always the event that would cut the sleep short.       *)
HeardBeforeSleep ==
  asked /\ ~brokeOff =>
    /\ pc = "sleep" => event
    /\ pc = "firstSleep" => event \/ request # "NONE"

(* The device changes from one whole published version to another in one   *)
(* step, the second of the two moves, whatever is lost in between.         *)
Abstract == INSTANCE Installs WITH
  published <- {v \in Versions : v[2] <= head[v[1]]},
  installed <- IF base = None THEN old ELSE base,
  ready <- IF flag THEN final ELSE None

ImplementsInstalls == Abstract!Spec

(* With the disturbances over, the newest commit of the chosen branch is   *)
(* there to be installed again and again, and offered unless it runs.  A   *)
(* device that lost its power between the two moves has nothing to start.  *)
Newest == <<TargetBranch, head[TargetBranch]>>

NewestOffered ==
  []<>(base = None \/ (flag /\ final = Newest /\ (avail \/ base = Newest)))
=============================================================================
