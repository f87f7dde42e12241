--------------------------- MODULE Updater_proofs ---------------------------
(***************************************************************************)
(* What updates promise, for any branches, commits, systems and number of  *)
(* mishaps: only whole versions are ready, with their system; what is      *)
(* installed was built over the git of the software it replaces; a request *)
(* is not slept over; and Updater implements Installs.                     *)
(***************************************************************************)
EXTENDS Updater, TLAPS

(* The versions the server has had. *)
Published == {v \in Versions : v[2] <= head[v[1]]}

Steps ==
  {"off", "startSync", "top", "dropFlag", "dropSync", "empty", "mount",
   "setParams", "writeParams", "firstSleep", "check", "dropReady",
   "dropReadySync", "fetch", "checkout", "agnos", "flash", "finalize",
   "finalizeSync", "copy", "copied", "raiseFlag", "raiseSync", "fail", "end",
   "writeEnd", "sleep"}

TypeOK ==
  /\ head \in [Branches -> 0..MaxCommits]
  /\ base \in Published \cup {None} /\ old \in Published \cup {None, Partial}
  /\ mayFinal \subseteq Published \cup {None, Partial} /\ final \in mayFinal
  /\ mayFlag \subseteq BOOLEAN /\ flag \in mayFlag
  /\ merged \in Published \cup {None, Partial}
  /\ slot \in maySlot
  /\ target \in Branches \cup {None} /\ readTarget \in Branches \cup {None}
  /\ pc \in Steps
  /\ phase \in {"launch", "moving", "agnos", "swapping", "up"}

(* The steps of fetch_update, and those that stand on the overlay. *)
FetchSteps ==
  {"dropReady", "dropReadySync", "fetch", "checkout", "agnos", "flash",
   "finalize", "finalizeSync", "copy", "copied", "raiseFlag", "raiseSync"}

OverlaySteps ==
  {"setParams", "writeParams", "check", "dropReady", "dropReadySync", "fetch",
   "checkout", "agnos", "flash", "finalize", "finalizeSync", "copy", "copied",
   "raiseFlag", "raiseSync"}

(* updated runs on the whole version the device was started with, and its  *)
(* system; what it has read and merged is there when it is used.           *)
Running ==
  /\ pc # "off" => phase = "up"
  /\ phase \in {"agnos", "swapping", "up"} => base # None
  /\ phase = "up" => os = Os[base]
  /\ pc = "checkout" => readTarget \in Branches
  /\ pc \in {"agnos", "flash", "finalize", "finalizeSync", "copy", "copied",
             "raiseFlag"} => merged \in Published
  /\ pc = "raiseFlag" => final = merged

(* Where the flag is down, and where it is down for good. *)
Lowered ==
  /\ pc \in {"startSync", "dropSync", "dropReadySync"} => ~flag
  /\ pc \in {"empty", "mount", "fetch", "checkout", "agnos", "flash", "finalize",
             "finalizeSync", "copy", "copied", "raiseFlag"} => mayFlag = {FALSE}

(* A version that may be found ready has a system that is there for it,    *)
(* and is not yet what the device runs; a move is of such a version.       *)
Matched ==
  /\ pc \in {"finalize", "finalizeSync", "copy", "copied", "raiseFlag"} =>
       Os[merged] = os \/ slot = Os[merged]
  /\ flag => final # None
  /\ phase = "moving" => base = None /\ old # None /\ flag
  /\ base = None => old # None /\ old # Partial
  /\ TRUE \in mayFlag /\ base # None => os = Os[base]
  /\ phase = "swapping" => mayFlag = {FALSE}

(* The overlay is there for the steps that stand on it. *)
Mounted ==
  /\ pc = "mount" => ~mounted
  /\ pc \in OverlaySteps => mounted

(* The look at BASEDIR tells whether the overlay was made from it, if it is *)
(* mounted or something was made ready from it.                             *)
Current ==
  overlayInit /\ ~touched /\ (mounted \/ TRUE \in mayFlag) => builtOn = edits

(* A request is tried, or the event keeps updated awake, or the request is *)
(* there for the turn after the first one: no turn but one that breaks off *)
(* drops it before the first check.                                        *)
Heard ==
  /\ asked /\ ~brokeOff =>
       /\ pc \in FetchSteps \/ pc \in {"fail", "end", "writeEnd", "sleep"} => event
       /\ firstRun => request # "NONE"
  /\ pc = "check" \/ pc \in FetchSteps => ~firstRun
  /\ pc \in {"fail", "end", "writeEnd"} /\ firstRun => brokeOff
  /\ pc = "firstSleep" => firstRun

IInv ==
  /\ TypeOK /\ Running /\ Lowered /\ Matched /\ ReadyIsWhole /\ SystemReady
  /\ Mounted /\ Current /\ Heard

-----------------------------------------------------------------------------
(* Operators.                                                              *)

(* What published versions are; the newest commit of a branch is one.      *)
LEMMA PublishedFacts ==
  /\ Published \subseteq Versions /\ None \notin Published /\ Partial \notin Published
  /\ \A v \in Published : v[1] \in Branches
  /\ head' = head => Published' = Published
  /\ head \in [Branches -> 0..MaxCommits] =>
       \A b \in Branches : <<b, head[b]>> \in Published
BY NoneAssumption DEF Published, Versions

(* A push to the server only adds to what is published.                    *)
LEMMA PublishGrows ==
  ASSUME head \in [Branches -> 0..MaxCommits], Publish
  PROVE /\ head' \in [Branches -> 0..MaxCommits]
        /\ Published \subseteq Published'
BY UpdaterAssumption DEF Publish, Published, Versions

(* The target branch is one of the server's while there is software.       *)
LEMMA TargetBranchType ==
  ASSUME TypeOK, base # None
  PROVE TargetBranch \in Branches
BY PublishedFacts DEF TypeOK, TargetBranch

(* Lowering the flag makes nothing durable that was not there, and keeps   *)
(* what a loss of power may leave sound.                                   *)
LEMMA LowersFlag ==
  ASSUME IInv, WriteFlag(FALSE)
  PROVE /\ ~flag' /\ FALSE \in mayFlag' /\ mayFlag' \subseteq mayFlag \cup {FALSE}
        /\ mayFlag' \subseteq BOOLEAN /\ flag' \in mayFlag'
        /\ mayFinal' \subseteq mayFinal /\ final' \in mayFinal' /\ slot' \in maySlot'
        /\ UNCHANGED <<old, final, os, slot>>
        /\ ReadyIsWhole' /\ SystemReady'
BY PublishedFacts
   DEF IInv, TypeOK, WriteFlag, ReadyIsWhole, SystemReady

(* A sync leaves a loss of power nothing but what is there.                *)
LEMMA SyncsAll ==
  ASSUME IInv, Sync
  PROVE /\ mayFlag' = {flag} /\ mayFinal' = {final} /\ maySlot' = {slot}
        /\ mayFlag' \subseteq mayFlag /\ mayFinal' \subseteq mayFinal
        /\ UNCHANGED <<old, final, flag, os, slot>>
        /\ ReadyIsWhole' /\ SystemReady'
BY DEF IInv, TypeOK, Sync, Synced, ReadyIsWhole, SystemReady

(* The steps before a turn and of the staging area's emptying.             *)
QuietSteps == {"off", "startSync", "top", "dropFlag", "dropSync", "empty"}

(* A step that makes no overlay, hears nothing and drops nothing keeps     *)
(* what is known of both.                                                  *)
LEMMA TurnStays ==
  ASSUME Mounted, Current, Heard,
         UNCHANGED <<overlayInit, touched, edits, builtOn, mounted>>,
         UNCHANGED <<request, event, asked, brokeOff, firstRun>>,
         TRUE \in mayFlag' => TRUE \in mayFlag \/ pc = "raiseFlag",
         \/ pc' = pc
         \/ pc' \in QuietSteps
         \/ pc \in FetchSteps /\ (pc' \in FetchSteps \/ pc' = "end")
  PROVE Mounted' /\ Current' /\ Heard'
<1>1. Mounted'
  BY DEF Mounted, QuietSteps, FetchSteps, OverlaySteps
<1>2. Current'
  BY DEF Current, Mounted, OverlaySteps
<1>3. CASE pc' = pc
  BY <1>1, <1>2, <1>3 DEF Heard
<1>4. CASE pc' \in QuietSteps
  BY <1>1, <1>2, <1>4 DEF Heard, QuietSteps, FetchSteps
<1>5. CASE pc \in FetchSteps /\ (pc' \in FetchSteps \/ pc' = "end")
  BY <1>1, <1>2, <1>5 DEF Heard, FetchSteps
<1> QED
  BY <1>3, <1>4, <1>5

-----------------------------------------------------------------------------
(* Steps.                                                                  *)

(* The device as it was set up, with nothing staged.                       *)
LEMMA InitIInv ==
  ASSUME Init
  PROVE IInv
<1>1. base \in Published
  BY UpdaterAssumption DEF Init, Published, Versions
<1>2. head \in [Branches -> 0..MaxCommits]
  BY UpdaterAssumption DEF Init
<1>3. TypeOK
  BY <1>1, <1>2 DEF Init, TypeOK, Steps
<1> QED
  BY <1>1, <1>3, PublishedFacts
     DEF Init, IInv, Running, Lowered, Matched, ReadyIsWhole, SystemReady, Mounted,
         Current, Heard, FetchSteps, OverlaySteps

(* The steps the parts of IInv but Heard ask nothing of.                   *)
FreeSteps ==
  {"top", "dropFlag", "setParams", "writeParams", "firstSleep", "check",
   "dropReady", "raiseSync", "end", "writeEnd", "sleep", "fail"}

(* A step that leaves software, staging and system alone keeps them sound. *)
LEMMA QuietIInv ==
  ASSUME IInv,
         UNCHANGED <<server, basedir, staging, overlay, system, phase>>,
         target' \in Branches \cup {None}, readTarget' \in Branches \cup {None},
         \/ pc' \in FreeSteps /\ phase = "up" /\ (pc' \in OverlaySteps => mounted)
         \/ pc' = pc /\ readTarget' = readTarget
  PROVE /\ TypeOK' /\ Running' /\ Lowered' /\ Matched' /\ ReadyIsWhole'
        /\ SystemReady' /\ Mounted' /\ Current'
<1> USE DEF IInv, server, basedir, staging, overlay, system
<1>1. TypeOK'
  BY PublishedFacts DEF TypeOK, Steps, FreeSteps
<1>2. Running' /\ Lowered' /\ Current'
  BY PublishedFacts DEF Running, Lowered, Current, FreeSteps
<1>5. Mounted'
  BY DEF Mounted, FreeSteps
<1>3. Matched'
  BY DEF Matched, FreeSteps
<1>4. ReadyIsWhole' /\ SystemReady'
  BY DEF ReadyIsWhole, SystemReady
<1> QED
  BY <1>1, <1>2, <1>3, <1>4, <1>5

(* The failures that leave the overlay and the staging area as they are.   *)
QuietFailures == TopFails \/ SetParamsFails \/ CheckFails \/ FetchFails \/ EndTurnFails

(* updated's turn, but for init_overlay and fetch_update.                  *)
LEMMA TurnIInv ==
  ASSUME IInv,
         \/ Top \/ SetParams \/ EndTurn \/ Wake \/ Check \/ QuietFailures
         \/ Ask \/ SelectBranch
  PROVE IInv'
<1> USE DEF waiting, daemon, params, counts, At
<1>1. base # None /\ TargetBranch \in Branches
  <2>1. phase = "up"
    BY DEF Top, SetParams, ReadTarget, WriteParams, EndTurn, Wake, Check, QuietFailures,
           TopFails, SetParamsFails, CheckFails, FetchFails, EndTurnFails, BreaksOff, Fails,
           Ask, SelectBranch, Signal
  <2> QED
    BY <2>1, TargetBranchType DEF IInv, Running
<1>2. /\ TypeOK' /\ Running' /\ Lowered' /\ Matched' /\ ReadyIsWhole'
      /\ SystemReady' /\ Mounted' /\ Current'
  <2>1. CASE Top \/ Wake
    BY <2>1, QuietIInv
       DEF Top, Wake, OverlayValid, FreeSteps, OverlaySteps, FetchSteps, IInv, TypeOK
  <2>2. CASE SetParams
    BY <2>2, <1>1, QuietIInv
       DEF SetParams, ReadTarget, WriteParams, FreeSteps, OverlaySteps, IInv, TypeOK, Mounted
  <2>3. CASE EndTurn
    BY <2>3, <1>1, QuietIInv
       DEF EndTurn, ReadTarget, WriteParams, FreeSteps, OverlaySteps, FetchSteps, IInv, TypeOK
  <2>4. CASE Check
    BY <2>4, QuietIInv
       DEF Check, FreeSteps, OverlaySteps, FetchSteps, IInv, TypeOK, Mounted
  <2>5. CASE QuietFailures
    <3>1. /\ UNCHANGED <<server, basedir, staging, overlay, system, phase, readTarget>>
          /\ pc' \in {"fail", "sleep"} /\ phase = "up"
      BY <2>5 DEF QuietFailures, TopFails, SetParamsFails, CheckFails, FetchFails,
                  EndTurnFails, BreaksOff, Fails
    <3>2. target' \in {target, readTarget}
      BY <2>5 DEF QuietFailures, TopFails, SetParamsFails, CheckFails, FetchFails,
                  EndTurnFails, BreaksOff, Fails, PartOfParams
    <3> QED
      BY <3>1, <3>2, QuietIInv DEF FreeSteps, OverlaySteps, FetchSteps, IInv, TypeOK
  <2>6. CASE Ask \/ SelectBranch
    BY <2>6, QuietIInv DEF Ask, SelectBranch, Signal, IInv, TypeOK
  <2> QED
    BY <2>1, <2>2, <2>3, <2>4, <2>5, <2>6
<1>3. Heard'
  <2> USE DEF Heard, IInv, FetchSteps
  <2>1. CASE Top \/ Wake
    BY <2>1 DEF Top, Wake
  <2>2. CASE SetParams
    BY <2>2 DEF SetParams, ReadTarget, WriteParams
  <2>3. CASE EndTurn
    BY <2>3 DEF EndTurn, ReadTarget, WriteParams, EventLeft, RequestLeft
  <2>4. CASE Check
    BY <2>4 DEF Check
  <2>5. CASE TopFails \/ SetParamsFails
    BY <2>5 DEF TopFails, SetParamsFails, BreaksOff, Fails
  <2>6. CASE CheckFails \/ FetchFails
    BY <2>6 DEF CheckFails, FetchFails, Fails
  <2>7. CASE EndTurnFails
    BY <2>7 DEF EndTurnFails, EventLeft, RequestLeft, Fails
  <2>8. CASE Ask \/ SelectBranch
    BY <2>8 DEF Ask, SelectBranch, Signal
  <2> QED
    BY <2>1, <2>2, <2>3, <2>4, <2>5, <2>6, <2>7, <2>8 DEF QuietFailures
<1> QED
  BY <1>2, <1>3 DEF IInv

(* updated as it fails or is stopped, and init_overlay.                    *)
LEMMA OverlayIInv ==
  ASSUME IInv,
         \/ StartSync \/ DropSync \/ Empty \/ EmptyFails \/ Mount \/ MountFails
         \/ Fail \/ Onroad
  PROVE IInv'
<1> USE NoneAssumption, PublishedFacts
    DEF IInv, server, basedir, staging, overlay, system, params, daemon, waiting, counts,
        At, Sync, Synced
<1>1. /\ TypeOK' /\ Running' /\ Lowered' /\ Matched' /\ ReadyIsWhole' /\ SystemReady'
  <2> USE DEF TypeOK, Steps, Running, Lowered, Matched, ReadyIsWhole, SystemReady
  <2>1. CASE StartSync
    BY <2>1 DEF StartSync
  <2>2. CASE DropSync
    BY <2>2 DEF DropSync
  <2>3. CASE Empty
    BY <2>3 DEF Empty
  <2>4. CASE EmptyFails
    <3> USE <2>4 DEF EmptyFails, BreaksOff, Fails, Remains
    <3>1. TypeOK'
      OBVIOUS
    <3>2. Running' /\ Lowered'
      OBVIOUS
    <3>3. /\ pc \in {"empty", "mount"} /\ pc' = "fail" /\ phase = "up" /\ phase' = "up"
          /\ base' = base
      OBVIOUS
    <3> HIDE DEF EmptyFails
    <3>4. base # None /\ mayFlag = {FALSE} /\ flag = FALSE
      BY <3>3
    <3>5. mayFlag' = {FALSE} /\ flag' = FALSE
      BY <3>4 DEF EmptyFails
    <3>6. Matched'
      BY <3>3, <3>4, <3>5 DEF Matched
    <3>7. ReadyIsWhole' /\ SystemReady'
      BY <3>5
    <3> QED
      BY <3>1, <3>2, <3>6, <3>7
  <2>5. CASE Mount
    <3> USE <2>5 DEF Mount, Canary, Overlaid
    <3>1. TypeOK'
      OBVIOUS
    <3>2. Running' /\ Lowered'
      OBVIOUS
    <3>3. Matched'
      OBVIOUS
    <3>4. ReadyIsWhole' /\ SystemReady'
      OBVIOUS
    <3> QED
      BY <3>1, <3>2, <3>3, <3>4
  <2>6. CASE MountFails
    <3> USE <2>6 DEF MountFails, BreaksOff, Fails, Canary, Overlaid
    <3>1. TypeOK'
      OBVIOUS
    <3>2. Running' /\ Lowered'
      OBVIOUS
    <3>3. /\ pc \in {"empty", "mount"} /\ pc' = "fail" /\ phase = "up" /\ phase' = "up"
          /\ base' = base
      OBVIOUS
    <3> HIDE DEF MountFails
    <3>4. base # None /\ mayFlag = {FALSE} /\ flag = FALSE
      BY <3>3
    <3>5. mayFlag' = {FALSE} /\ flag' = FALSE
      BY <3>4 DEF MountFails
    <3>6. Matched'
      BY <3>3, <3>4, <3>5 DEF Matched
    <3>7. ReadyIsWhole' /\ SystemReady'
      BY <3>5
    <3> QED
      BY <3>1, <3>2, <3>6, <3>7
  <2>7. CASE Fail
    BY <2>7 DEF Fail
  <2>8. CASE Onroad
    BY <2>8 DEF Onroad
  <2> QED
    BY <2>1, <2>2, <2>3, <2>4, <2>5, <2>6, <2>7, <2>8
<1>2. Mounted' /\ Current' /\ Heard'
  <2>1. CASE StartSync \/ DropSync \/ Onroad
    BY <2>1, TurnStays DEF StartSync, DropSync, Onroad, TypeOK, QuietSteps
  <2>2. CASE Empty
    <3>1. /\ pc' = "mount" /\ ~mounted' /\ mayFlag = {FALSE} /\ ~(TRUE \in mayFlag')
          /\ UNCHANGED <<request, event, asked, brokeOff, firstRun>>
      BY <2>2 DEF Empty, Lowered
    <3> QED
      BY <3>1 DEF Mounted, Current, Heard, OverlaySteps, FetchSteps
  <2>3. CASE EmptyFails
    <3>1. /\ pc' = "fail" /\ brokeOff' /\ ~(TRUE \in mayFlag')
          /\ UNCHANGED <<overlayInit, touched, edits, builtOn, request, firstRun>>
          /\ ~mounted' \/ mounted' = mounted
      BY <2>3 DEF EmptyFails, BreaksOff, Fails, Lowered
    <3>2. Mounted'
      BY <3>1 DEF Mounted, OverlaySteps
    <3>3. Current'
      BY <3>1 DEF Current
    <3>4. Heard'
      BY <3>1 DEF Heard, FetchSteps
    <3> QED
      BY <3>2, <3>3, <3>4
  <2>4. CASE Mount
    <3>1. /\ pc' = "setParams" /\ mounted' /\ builtOn' = edits'
          /\ UNCHANGED <<request, event, asked, brokeOff, firstRun>>
      BY <2>4 DEF Mount, Canary, Overlaid
    <3> QED
      BY <3>1 DEF Mounted, Current, Heard, FetchSteps
  <2>5. CASE MountFails
    <3>1. /\ pc = "mount" /\ pc' = "fail" /\ brokeOff'
          /\ UNCHANGED <<request, firstRun>>
      BY <2>5 DEF MountFails, BreaksOff, Fails
    <3>2. ~(TRUE \in mayFlag')
      BY <2>5, <3>1 DEF MountFails, Canary, Lowered, TypeOK
    <3>3. mounted' => builtOn' = edits'
      BY <2>5, <3>1 DEF MountFails, Canary, Overlaid, Mounted
    <3>4. Mounted' /\ Current'
      BY <3>1, <3>2, <3>3 DEF Mounted, Current, OverlaySteps
    <3>5. Heard'
      BY <3>1 DEF Heard, FetchSteps
    <3> QED
      BY <3>4, <3>5
  <2>6. CASE Fail
    <3>1. /\ pc = "fail" /\ pc' = "end" /\ ~overlayInit'
          /\ UNCHANGED <<request, event, asked, brokeOff, firstRun>>
      BY <2>6 DEF Fail
    <3> QED
      BY <3>1 DEF Mounted, Current, Heard, OverlaySteps, FetchSteps
  <2> QED
    BY <2>1, <2>2, <2>3, <2>4, <2>5, <2>6
<1> QED
  BY <1>1, <1>2

(* The steps of fetch_update that copy and finalize.                       *)
LEMMA FinalizeIInv ==
  ASSUME IInv,
         \/ DropReadySync \/ Fetch \/ Finalize \/ FinalizeSync \/ Copy
         \/ Copied \/ RaiseFlag
  PROVE IInv'
<1> USE NoneAssumption, PublishedFacts
    DEF IInv, server, basedir, staging, overlay, system, params, daemon, waiting, counts,
        At, WriteFlag, Sync, Synced
<1>1. /\ TypeOK' /\ Running' /\ Lowered' /\ Matched' /\ ReadyIsWhole' /\ SystemReady'
  <2> USE DEF TypeOK, Steps, Running, Lowered, Matched, ReadyIsWhole, SystemReady
  <2>1. CASE DropReadySync
    BY <2>1 DEF DropReadySync
  <2>2. CASE Fetch
    BY <2>2 DEF Fetch, TargetBranch
  <2>3. CASE Finalize
    <3> USE <2>3 DEF Finalize
    <3>1. TypeOK' /\ Running' /\ Lowered'
      OBVIOUS
    <3>2. Matched'
      OBVIOUS
    <3>3. ReadyIsWhole' /\ SystemReady'
      OBVIOUS
    <3> QED
      BY <3>1, <3>2, <3>3
  <2>4. CASE FinalizeSync
    <3> USE <2>4 DEF FinalizeSync
    <3>1. TypeOK' /\ Running' /\ Lowered'
      OBVIOUS
    <3>2. Matched'
      OBVIOUS
    <3>3. ReadyIsWhole' /\ SystemReady'
      OBVIOUS
    <3> QED
      BY <3>1, <3>2, <3>3
  <2>5. CASE Copy
    BY <2>5 DEF Copy
  <2>6. CASE Copied
    BY <2>6 DEF Copied
  <2>7. CASE RaiseFlag
    <3> USE <2>7 DEF RaiseFlag
    <3>1. TypeOK'
      OBVIOUS
    <3>2. Running' /\ Lowered' /\ Matched'
      OBVIOUS
    <3>3. ReadyIsWhole'
      OBVIOUS
    <3>4. SystemReady'
      OBVIOUS
    <3> QED
      BY <3>1, <3>2, <3>3, <3>4
  <2> QED
    BY <2>1, <2>2, <2>3, <2>4, <2>5, <2>6, <2>7
<1>2. Mounted' /\ Current' /\ Heard'
  <2>1. /\ UNCHANGED <<overlayInit, touched, edits, builtOn, mounted>>
        /\ UNCHANGED <<request, event, asked, brokeOff, firstRun>>
        /\ pc \in FetchSteps /\ pc' \in FetchSteps
    BY DEF DropReadySync, Fetch, Finalize, FinalizeSync, Copy, Copied, RaiseFlag, FetchSteps
  <2>2. TRUE \in mayFlag' => TRUE \in mayFlag \/ pc = "raiseFlag"
    BY DEF DropReadySync, Fetch, Finalize, FinalizeSync, Copy, Copied, RaiseFlag, TypeOK
  <2> QED
    BY <2>1, <2>2, TurnStays
<1> QED
  BY <1>1, <1>2

(* What was ready is taken down: by updated as it starts, by init_overlay   *)
(* and by fetch_update.                                                     *)
LEMMA LoweringIInv ==
  ASSUME IInv, Start \/ DropFlag \/ DropReady
  PROVE IInv'
<1> USE DEF IInv
<1>1. /\ WriteFlag(FALSE) /\ phase = "up" /\ pc' \in {"startSync", "dropSync", "dropReadySync"}
      /\ UNCHANGED <<head, base, merged, target, phase, overlayInit, touched, edits, builtOn,
                     mounted>>
      /\ readTarget' \in {readTarget, None}
  BY DEF Start, DropFlag, DropReady, At, server, basedir, overlay, params, daemon, waiting, counts
<1>3. ReadyIsWhole' /\ SystemReady'
  BY <1>1, LowersFlag
<1>4. TypeOK'
  BY <1>1, LowersFlag, PublishedFacts DEF TypeOK, Steps
<1>5. ~flag' /\ UNCHANGED os /\ mayFlag' \subseteq mayFlag \cup {FALSE}
  BY <1>1, LowersFlag
<1>6. Running' /\ Lowered'
  BY <1>1, <1>5 DEF Running, Lowered
<1>7. Mounted' /\ Current' /\ Heard'
  <2>1. TRUE \in mayFlag' => TRUE \in mayFlag
    BY <1>5
  <2>2. CASE Start
    <3>1. pc' = "startSync" /\ ~asked'
      BY <2>2 DEF Start, At
    <3> QED
      BY <1>1, <2>1, <3>1 DEF Mounted, Current, Heard, OverlaySteps, FetchSteps
  <2>3. CASE DropFlag \/ DropReady
    <3>1. /\ pc' = "dropSync" \/ (pc = "dropReady" /\ pc' = "dropReadySync")
          /\ UNCHANGED <<request, event, asked, brokeOff, firstRun>>
      BY <2>3 DEF DropFlag, DropReady, At, waiting, daemon
    <3> QED
      BY <1>1, <2>1, <3>1, TurnStays DEF QuietSteps, FetchSteps
  <2> QED
    BY <2>2, <2>3
<1>8. Matched'
  BY <1>1, <1>5, LowersFlag, PublishedFacts DEF Matched
<1> QED
  BY <1>3, <1>4, <1>6, <1>7, <1>8

(* What is checked out is the newest commit of the branch that was read.   *)
LEMMA CheckoutIInv ==
  ASSUME IInv, Checkout
  PROVE IInv'
<1> USE DEF IInv, Checkout, At, server, basedir, staging, system, params, waiting, counts
<1>1. /\ pc = "checkout" /\ pc' = "agnos" /\ phase = "up" /\ readTarget' = None
      /\ UNCHANGED <<head, base, old, final, mayFinal, flag, mayFlag, os, slot, maySlot,
                     target, phase, overlayInit, touched, edits, builtOn, mounted,
                     request, event, asked, brokeOff, firstRun>>
  OBVIOUS
<1>2. merged' \in Published
  BY PublishedFacts DEF TypeOK, Running
<1>3. Published' = Published
  BY <1>1, PublishedFacts
<1>4. TypeOK'
  BY <1>1, <1>2, <1>3 DEF TypeOK, Steps
<1>5. Running' /\ Lowered'
  BY <1>1, <1>2, <1>3 DEF Running, Lowered
<1>6. Matched'
  <2>1. pc' \notin {"finalize", "finalizeSync", "copy", "copied", "raiseFlag"}
    BY <1>1
  <2> HIDE DEF Checkout
  <2> QED
    BY <1>1, <2>1 DEF Matched
<1>7. Mounted' /\ Current' /\ Heard'
  BY <1>1, TurnStays DEF FetchSteps
<1>8. ReadyIsWhole' /\ SystemReady'
  BY <1>1 DEF ReadyIsWhole, SystemReady
<1> QED
  BY <1>4, <1>5, <1>6, <1>7, <1>8

(* handle_agnos_update goes on to finalize with the system there.          *)
LEMMA AgnosIInv ==
  ASSUME IInv, Agnos \/ Flash
  PROVE IInv'
<1> USE DEF IInv, Agnos, Flash, OsWanted, At, server, basedir, overlay, params, daemon,
            waiting, counts
<1>1. /\ pc \in {"agnos", "flash"} /\ pc' \in {"finalize", "flash"} /\ phase = "up"
      /\ UNCHANGED <<head, base, merged, target, readTarget, phase, overlayInit, touched,
                     edits, builtOn, mounted, request, event, asked, brokeOff, firstRun>>
  OBVIOUS
<1>2. /\ UNCHANGED <<old, final, os>> /\ flag = FALSE /\ flag' = FALSE
      /\ mayFlag = {FALSE} /\ mayFlag' = {FALSE}
      /\ mayFinal' \subseteq mayFinal /\ final' \in mayFinal'
  <2>1. flag = FALSE /\ mayFlag = {FALSE}
    BY DEF TypeOK, Lowered
  <2> QED
    BY <2>1 DEF TypeOK, WriteFlag, staging, system
<1>3. /\ slot' \in maySlot'
      /\ pc' = "finalize" => Os[merged] = os \/ slot' = Os[merged]
  BY DEF TypeOK, WriteFlag, staging, system
<1>4. Published' = Published
  BY <1>1, PublishedFacts
<1>5. TypeOK'
  BY <1>1, <1>2, <1>3, <1>4 DEF TypeOK, Steps
<1>6. Running' /\ Lowered'
  BY <1>1, <1>2, <1>4 DEF Running, Lowered
<1>9. Mounted' /\ Current' /\ Heard'
  BY <1>1, <1>2, TurnStays DEF FetchSteps
<1>7. Matched'
  BY <1>1, <1>2, <1>3 DEF Matched
<1>8. ReadyIsWhole' /\ SystemReady'
  BY <1>2 DEF ReadyIsWhole, SystemReady
<1> QED
  BY <1>5, <1>6, <1>7, <1>8, <1>9

(* The last sync of finalize_update leaves the flag for good.              *)
LEMMA RaiseSyncIInv ==
  ASSUME IInv, RaiseSync
  PROVE IInv'
<1> USE DEF IInv, RaiseSync, At, server, basedir, overlay, params, daemon, waiting, counts
<1>1. /\ Sync /\ pc = "raiseSync" /\ pc' = "end" /\ phase = "up"
      /\ UNCHANGED <<head, base, merged, target, readTarget, phase, overlayInit, touched,
                     edits, builtOn, mounted, request, event, asked, brokeOff, firstRun>>
  OBVIOUS
<1>2. Published' = Published
  BY <1>1, PublishedFacts
<1>3. TypeOK'
  BY <1>1, <1>2, SyncsAll DEF TypeOK, Steps
<1>4. UNCHANGED <<flag, os>> /\ mayFlag' \subseteq mayFlag
  BY <1>1, SyncsAll
<1>5. Running' /\ Lowered'
  BY <1>1, <1>4 DEF Running, Lowered
<1>7. Matched'
  BY <1>1, <1>4, SyncsAll DEF Matched
<1>6. Mounted' /\ Current' /\ Heard'
  BY <1>1, <1>4, TurnStays DEF FetchSteps
<1> QED
  BY <1>1, <1>3, <1>5, <1>6, <1>7, SyncsAll

(* The launch script's moves.                                              *)
LEMMA InstallIInv ==
  ASSUME IInv, Launch \/ Move
  PROVE IInv'
<1> USE NoneAssumption, PublishedFacts
    DEF IInv, server, basedir, overlay, system, params, daemon, waiting, counts
<1>1. CASE Launch
  <2> USE <1>1 DEF Launch
  <2>1. TypeOK' /\ Running' /\ Lowered'
    BY DEF TypeOK, Running, Lowered
  <2>4. Mounted' /\ Current' /\ Heard'
    BY TurnStays
  <2>2. Matched'
    BY DEF Installable, Running, Matched, TypeOK
  <2>3. ReadyIsWhole' /\ SystemReady'
    BY DEF ReadyIsWhole, SystemReady
  <2> QED
    BY <2>1, <2>2, <2>3, <2>4
<1>2. CASE Move
  <2> USE <1>2 DEF Move, FlagLeft
  <2>1. /\ pc = "off" /\ pc' = "off" /\ phase' = "launch"
        /\ mayFlag' = {FALSE} /\ ~flag' /\ mayFinal' = {None} /\ final' = None
        /\ UNCHANGED <<head, old, merged, slot, maySlot, target, readTarget>>
        /\ UNCHANGED <<request, event, asked, brokeOff, firstRun, mounted>> /\ ~overlayInit'
    BY DEF Running
  <2>2. base' \in Published
    BY DEF TypeOK, Matched, ReadyIsWhole
  <2>3. TypeOK'
    BY <2>1, <2>2 DEF TypeOK
  <2>4. Running' /\ Lowered' /\ Matched'
    BY <2>1, <2>2 DEF Running, Lowered, Matched
  <2>6. Mounted' /\ Current' /\ Heard'
    BY <2>1 DEF Mounted, Current, Heard
  <2>5. ReadyIsWhole' /\ SystemReady'
    BY <2>1 DEF ReadyIsWhole, SystemReady
  <2> QED
    BY <2>3, <2>4, <2>5, <2>6
<1> QED
  BY <1>1, <1>2

(* The system is made the one that the software asks for.                  *)
LEMMA SystemIInv ==
  ASSUME IInv, StartManager \/ SwapSystem \/ FlashAtBoot
  PROVE IInv'
<1> USE DEF IInv
<1>1. /\ pc = "off" /\ pc' = "off" /\ phase # "up" /\ phase # "moving"
      /\ phase' \in {"launch", "agnos", "swapping", "up"} /\ base # None
      /\ target' \in {target, None}
      /\ UNCHANGED <<head, base, old, final, flag, mayFinal, mayFlag, merged, readTarget,
                     overlayInit, touched, edits, builtOn, mounted,
                     request, event, asked, brokeOff, firstRun>>
  BY DEF StartManager, SwapSystem, FlashAtBoot, Running, server, basedir, staging, overlay,
         daemon, waiting, params
<1>2. slot' \in maySlot'
  BY DEF StartManager, SwapSystem, FlashAtBoot, TypeOK, system
<1>3. /\ phase' = "up" => os' = Os[base]
      /\ phase' = "swapping" => os # Os[base]
  BY DEF StartManager, SwapSystem, FlashAtBoot, system
<1>4. \/ UNCHANGED <<os, slot, maySlot>>
      \/ mayFlag = {FALSE}
  <2>1. CASE mayFlag = {FALSE}
    BY <2>1
  <2>2. CASE TRUE \in mayFlag
    BY <2>2, <1>1 DEF StartManager, SwapSystem, FlashAtBoot, Matched, system
  <2> QED
    BY <2>1, <2>2 DEF TypeOK
<1>5. Published' = Published
  BY <1>1, PublishedFacts
<1>6. TypeOK'
  BY <1>1, <1>2, <1>5 DEF TypeOK
<1>7. Running' /\ Lowered'
  BY <1>1, <1>3 DEF Running, Lowered
<1>8. Matched'
  BY <1>1, <1>3, <1>4 DEF Matched, TypeOK
<1>9. ReadyIsWhole' /\ SystemReady'
  BY <1>1, <1>4 DEF ReadyIsWhole, SystemReady
<1>10. Mounted' /\ Current' /\ Heard'
  BY <1>1, TurnStays
<1> QED
  BY <1>6, <1>7, <1>8, <1>9, <1>10

(* A boot, with power or by its loss, finds what was ready as it was.      *)
LEMMA RebootIInv ==
  ASSUME IInv, RebootForInstall \/ PowerLoss
  PROVE IInv'
<1> USE DEF IInv
<1>1. /\ pc' = "off" /\ phase' = "launch"
      /\ UNCHANGED <<head, base, old, os, merged, target, readTarget, overlayInit, touched,
                     edits, builtOn, request, event, asked, brokeOff, firstRun>>
      /\ ~mounted'
  BY DEF RebootForInstall, PowerLoss, Boot, Sync, server, basedir, params, daemon, waiting
<1>2. /\ final' \in mayFinal /\ slot' \in maySlot
      /\ mayFinal' = {final'} /\ mayFlag' = {flag'} /\ maySlot' = {slot'}
      /\ flag' \in BOOLEAN /\ (flag' => TRUE \in mayFlag /\ final' # None)
  BY DEF RebootForInstall, PowerLoss, Sync, Synced, TypeOK, Matched
<1>3. Published' = Published
  BY <1>1, PublishedFacts
<1>4. TypeOK'
  <2>1. mayFlag' \subseteq BOOLEAN /\ flag' \in mayFlag' /\ final' \in mayFinal'
        /\ slot' \in maySlot' /\ mayFinal' \subseteq mayFinal
    BY <1>2
  <2> QED
    BY <1>1, <1>3, <2>1 DEF TypeOK, Steps
<1>5. Running' /\ Lowered'
  BY <1>1 DEF Running, Lowered
<1>9. Mounted' /\ Current' /\ Heard'
  BY <1>1, <1>2 DEF Mounted, Current, Heard, OverlaySteps, FetchSteps
<1>6. TRUE \in mayFlag' => flag' /\ TRUE \in mayFlag /\ mayFinal' \subseteq mayFinal
  BY <1>2
<1>7. Matched'
  BY <1>1, <1>2, <1>6 DEF Matched
<1>8. ReadyIsWhole' /\ SystemReady'
  BY <1>1, <1>2, <1>6 DEF ReadyIsWhole, SystemReady
<1> QED
  BY <1>4, <1>5, <1>7, <1>8, <1>9

(* Commits and local work.                                                 *)
LEMMA WorkIInv ==
  ASSUME IInv, Publish \/ Edit
  PROVE IInv'
<1> USE DEF IInv
<1>1. /\ UNCHANGED <<base, old, final, flag, mayFinal, mayFlag, merged, os, slot, maySlot,
                     target, readTarget, pc, phase, request, event, asked, brokeOff, firstRun,
                     overlayInit, builtOn, mounted>>
      /\ UNCHANGED <<edits, touched>> \/ touched'
  BY DEF Publish, Edit, server, basedir, staging, overlay, system, params, daemon, waiting
<1>2. head' \in [Branches -> 0..MaxCommits] /\ Published \subseteq Published'
  <2>1. CASE Publish
    BY <2>1, PublishGrows DEF TypeOK
  <2>2. CASE Edit
    BY <2>2, PublishedFacts DEF Edit, server, TypeOK
  <2> QED
    BY <2>1, <2>2
<1>3. TypeOK'
  BY <1>1, <1>2 DEF TypeOK
<1>4. Running' /\ Lowered'
  BY <1>1, <1>2 DEF Running, Lowered
<1>5. Matched'
  BY <1>1 DEF Matched
<1>6. ReadyIsWhole' /\ SystemReady'
  BY <1>1 DEF ReadyIsWhole, SystemReady
<1>7. Mounted' /\ Current' /\ Heard'
  BY <1>1 DEF Mounted, Current, Heard
<1> QED
  BY <1>3, <1>4, <1>5, <1>6, <1>7

(* A step that changes nothing.                                            *)
LEMMA StutterIInv ==
  ASSUME IInv, UNCHANGED vars
  PROVE IInv'
<1> USE DEF IInv, vars, server, basedir, staging, overlay, system, params, daemon, waiting
<1>1. /\ TypeOK' /\ Running' /\ Lowered' /\ Matched' /\ ReadyIsWhole'
      /\ SystemReady' /\ Mounted' /\ Current'
  BY QuietIInv DEF TypeOK
<1>2. Heard'
  BY DEF Heard
<1> QED
  BY <1>1, <1>2

(* Every step keeps the invariant.                                         *)
LEMMA NextIInv ==
  ASSUME IInv, [Next]_vars
  PROVE IInv'
BY OverlayIInv, FinalizeIInv, LoweringIInv, CheckoutIInv, AgnosIInv, RaiseSyncIInv,
   TurnIInv, InstallIInv, SystemIInv, RebootIInv, WorkIInv, StutterIInv
   DEF Next, Updated, Failures, QuietFailures, Booting, Environment

-----------------------------------------------------------------------------
(* Theorems.                                                               *)

(* In every reachable state the invariant holds: whatever happens to the   *)
(* power, what carries the flag is whole and has its system.               *)
THEOREM Invariance == Spec => []IInv
<1>1. Init => IInv
  BY InitIInv
<1>2. IInv /\ [Next]_vars => IInv'
  BY NextIInv
<1> QED
  BY <1>1, <1>2, PTL DEF Spec

(* A directory that carries the flag after a loss of power is a whole      *)
(* version.                                                                *)
THEOREM AlwaysWhole == Spec => []ReadyIsWhole
<1>1. IInv => ReadyIsWhole
  BY DEF IInv
<1> QED
  BY <1>1, Invariance, PTL

(* It can only be installed with the system it asks for.                   *)
THEOREM AlwaysWithItsSystem == Spec => []SystemReady
<1>1. IInv => SystemReady
  BY DEF IInv
<1> QED
  BY <1>1, Invariance, PTL

(* Unless a turn broke off before its check, updated does not begin its    *)
(* long sleep over a request that no check has followed, and keeps the     *)
(* request through the short sleep of its first turn.                      *)
THEOREM AlwaysHeard == Spec => []HeardBeforeSleep
<1>1. IInv => HeardBeforeSleep
  BY DEF IInv, Heard, HeardBeforeSleep, FetchSteps
<1> QED
  BY <1>1, Invariance, PTL

(* What the launch script installs was built over the git of BASEDIR as it *)
(* is then: work with git since its overlay was made stops the install.    *)
THEOREM InstalledIsBuiltOnBase == Spec => BuiltOnBase
<1>1. IInv /\ [Next]_vars => [Launch /\ base' = None => builtOn = edits]_vars
  BY DEF IInv, TypeOK, Launch, Installable, Current
<1> QED
  BY <1>1, Invariance, PTL DEF Spec, BuiltOnBase

(* What the refinement maps Updater to.                                    *)
installed == IF base = None THEN old ELSE base

ready == IF flag THEN final ELSE None

AbstractStep == Abstract!Next \/ UNCHANGED <<Published, installed, ready>>

(* The device starts with a published version and nothing ready.           *)
LEMMA InitInstalls ==
  ASSUME Init
  PROVE Abstract!Init
<1>1. IInv
  BY InitIInv
<1>2. base \in Published /\ ~flag /\ base # None
  BY <1>1, UpdaterAssumption, PublishedFacts DEF Init, Published, Versions
<1> QED
  BY <1>2, PublishedFacts DEF Abstract!Init, Published

(* What carries the flag is published: to come to be ready, or to be no    *)
(* longer so, is a step of Installs.                                       *)
LEMMA ReadyStep ==
  ASSUME IInv, IInv', UNCHANGED <<head, base>>, base # None \/ old' = old
  PROVE AbstractStep
<1>1. Published' = Published /\ installed' = installed
  BY PublishedFacts DEF installed
<1>2. CASE ~flag'
  BY <1>1, <1>2
     DEF AbstractStep, Abstract!Next, Abstract!Discard, Published, installed, ready
<1>3. CASE flag'
  <2>1. final' \in Published'
    BY <1>3, NoneAssumption DEF IInv, TypeOK, Matched, ReadyIsWhole
  <2> QED
    BY <1>1, <1>3, <2>1
       DEF AbstractStep, Abstract!Next, Abstract!MakeReady, Published, installed, ready
<1> QED
  BY <1>2, <1>3

(* All steps but five leave the software where it is.                      *)
LEMMA SoftwareStays ==
  ASSUME [Next]_vars, ~Launch, ~Move, ~Publish, ~Empty, ~EmptyFails
  PROVE UNCHANGED <<head, base, old>>
<1> USE DEF vars, server, basedir, staging, At, WriteFlag, Sync
<1>1. CASE Start \/ StartSync \/ Top \/ DropFlag \/ DropSync \/ Mount
  BY <1>1 DEF Start, StartSync, Top, DropFlag, DropSync, Mount, Canary
<1>2. CASE SetParams \/ EndTurn \/ Wake \/ Fail \/ Check
  BY <1>2 DEF SetParams, EndTurn, ReadTarget, WriteParams, Wake, Fail, Check
<1>3. CASE DropReady \/ DropReadySync \/ Fetch \/ Checkout \/ Agnos \/ Flash
  BY <1>3 DEF DropReady, DropReadySync, Fetch, Checkout, Agnos, Flash
<1>4. CASE Finalize \/ FinalizeSync \/ Copy \/ Copied \/ RaiseFlag \/ RaiseSync
  BY <1>4 DEF Finalize, FinalizeSync, Copy, Copied, RaiseFlag, RaiseSync
<1>5. CASE Failures
  BY <1>5 DEF Failures, TopFails, MountFails, Canary, SetParamsFails, CheckFails, FetchFails,
              EndTurnFails, BreaksOff, Fails
<1>6. CASE StartManager \/ SwapSystem \/ FlashAtBoot
  BY <1>6 DEF StartManager, SwapSystem, FlashAtBoot
<1>7. CASE Ask \/ SelectBranch \/ RebootForInstall \/ Onroad \/ PowerLoss \/ Edit
  BY <1>7 DEF Ask, SelectBranch, Signal, RebootForInstall, Onroad, PowerLoss, Edit
<1>8. CASE UNCHANGED vars
  BY <1>8
<1> QED
  BY <1>1, <1>2, <1>3, <1>4, <1>5, <1>6, <1>7, <1>8
     DEF Next, Updated, Booting, Environment

(* A step of the updater is a step of Installs or changes nothing there.   *)
LEMMA StepInstalls ==
  ASSUME IInv, IInv', [Next]_vars
  PROVE AbstractStep
<1>1. CASE Launch
  BY <1>1, PublishedFacts
     DEF Launch, AbstractStep, installed, ready, server, IInv, Matched
<1>2. CASE Move
  <2>1. /\ installed' = ready /\ ready # None /\ ready' = None
        /\ Published' = Published
    BY <1>2, NoneAssumption, PublishedFacts
       DEF Move, FlagLeft, installed, ready, server, IInv, Matched, TypeOK, ReadyIsWhole
  <2> QED
    BY <2>1 DEF AbstractStep, Abstract!Next, Abstract!Install, Published, installed, ready
<1>3. CASE Publish
  <2>1. Published \subseteq Published' /\ Published' \subseteq Versions
    BY <1>3, PublishGrows DEF IInv, TypeOK, Published
  <2>2. UNCHANGED <<installed, ready>>
    BY <1>3 DEF Publish, basedir, staging, installed, ready
  <2> QED
    BY <2>1, <2>2
       DEF AbstractStep, Abstract!Next, Abstract!Publish, Published, installed, ready
<1>4. CASE Empty \/ EmptyFails
  <2>1. UNCHANGED <<head, base>> /\ base # None
    BY <1>4 DEF Empty, EmptyFails, BreaksOff, Fails, At, server, basedir, IInv, Running
  <2> QED
    BY <2>1, ReadyStep
<1>5. CASE ~Launch /\ ~Move /\ ~Publish /\ ~Empty /\ ~EmptyFails
  BY <1>5, SoftwareStays, ReadyStep
<1> QED
  BY <1>1, <1>2, <1>3, <1>4, <1>5

(* The device goes from one whole published version to another in a single *)
(* step, the second move, whatever is lost in between.                     *)
THEOREM UpdaterInstalls == Spec => ImplementsInstalls
<1>1. Init => Abstract!Init
  BY InitInstalls
<1>2. IInv /\ IInv' /\ [Next]_vars =>
        [Abstract!Next]_<<Published, installed, ready>>
  BY StepInstalls DEF AbstractStep
<1> QED
  BY <1>1, <1>2, Invariance, PTL
     DEF Spec, ImplementsInstalls, Abstract!Spec, Published, installed, ready
=============================================================================
