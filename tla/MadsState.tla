------------------------------ MODULE MadsState ------------------------------
(***************************************************************************)
(* The lateral state machine of MADS (sunnypilot/mads/state.py), as a      *)
(* function of its state, the soft-disable timer it borrows from the       *)
(* machine of SelfdriveState, and the events of the frame.  events is      *)
(* selfdrive.events, sp is selfdrive.events_sp with its zp list, and       *)
(* sdEnabled is selfdrive.enabled after the other machine has run.         *)
(***************************************************************************)
EXTENDS SelfdriveState

CONSTANT ButtonOwnsLateral    \* a declared MADS button (Mazda's TJA)

ASSUME ButtonOwnsLateralAssumption == ButtonOwnsLateral \in BOOLEAN

MadsStates ==
  {"disabled", "paused", "enabled", "softDisabling", "overriding"}

MadsActiveStates == {"enabled", "softDisabling", "overriding"}

MadsEnabledStates == MadsActiveStates \cup {"paused"}

(* paused_silent: reasons to sit in paused that show no banner. *)
AllowPausedSilent ==
  {"silentWrongGear", "silentReverseGear", "silentBrakeHold",
   "silentDoorOpen", "silentSeatbeltNotLatched", "silentParkBrake",
   "silentPedalPressed", "stockLkasOff"}

PausedSilent(sp) == Contains(sp, AllowPausedSilent)

(* bigModelLoading counts only when it is not modeld's first load that     *)
(* raised it.                                                              *)
AllowPaused(starting) ==
  {"wrongGear", "reverseGear", "brakeHold", "doorOpen",
   "seatbeltNotLatched", "parkBrake"}
  \cup (IF starting THEN {} ELSE {"bigModelLoading"})

(* check_contains_in_list: a refused engagement waits in paused. *)
RefusedIntoPaused(events, sp, starting) ==
  Contains(events, AllowPaused(starting)) \/ PausedSilent(sp)

Engages(events) ==
  IF Contains(events, OVERRIDE_LATERAL) THEN "overriding" ELSE "enabled"

MadsDisabledNext(events, sp, starting) ==
  LET all == events \cup sp IN
  IF ~Contains(all, ENABLE) THEN "disabled"
  ELSE IF ~Contains(all, NO_ENTRY) THEN Engages(all)
  ELSE IF RefusedIntoPaused(events, sp, starting) THEN "paused" ELSE "disabled"

MadsEngagedNext(state, t, all) ==
  CASE state \in {"enabled", "overriding"} ->
         IF Contains(all, SOFT_DISABLE) THEN "softDisabling" ELSE Engages(all)
    [] state = "softDisabling" ->
         IF ~Contains(all, SOFT_DISABLE) THEN "enabled"
         ELSE IF t > 0 THEN "softDisabling" ELSE "disabled"
    [] OTHER ->
         IF Contains(all, ENABLE) /\ ~Contains(all, NO_ENTRY)
         THEN Engages(all) ELSE "paused"

MadsNext(state, t, events, sp, starting) ==
  LET all == events \cup sp IN
  IF state = "disabled" THEN MadsDisabledNext(events, sp, starting)
  ELSE IF Contains(all, USER_DISABLE)
       THEN IF "silentLkasDisable" \in sp THEN "paused" ELSE "disabled"
  ELSE IF Contains(all, IMMEDIATE_DISABLE) THEN "disabled"
  ELSE MadsEngagedNext(state, t, all)

(* Mutant: MADS sets the shared timer even while the other machine uses it. *)
MadsTimerMutant(state, next, t, sdEnabled) ==
  IF state # "softDisabling" /\ next = "softDisabling"
  THEN SoftDisableFrames ELSE t

(* The shared timer is set on entry to softDisabling, but only while the   *)
(* other machine is not engaged and so not using it.                       *)
MadsTimer(state, next, t, sdEnabled) ==
  IF state # "softDisabling" /\ next = "softDisabling" /\ ~sdEnabled
  THEN SoftDisableFrames ELSE t

(* Mutant: the disabling types are shown only while cruise is off. *)
MadsAlertTypesMutant(state, next, events, sp, sdEnabled) ==
  IF sdEnabled THEN {}
  ELSE IF Contains(events \cup sp, USER_DISABLE) THEN {"USER_DISABLE"}
  ELSE IF Contains(events \cup sp, IMMEDIATE_DISABLE) THEN {"IMMEDIATE_DISABLE"}
  ELSE {}

(* What the machine appends to the other's current_alert_types. *)
MadsAlertTypes(state, next, events, sp, sdEnabled) ==
  LET all == events \cup sp
      unlessEngaged(types) == IF sdEnabled THEN {} ELSE types
      audibleLkasEnable == /\ ButtonOwnsLateral
                           /\ "lkasEnable" \in sp
                           /\ "silentLkasEnable" \notin sp
      enableType == IF audibleLkasEnable THEN {"ENABLE"}
                    ELSE unlessEngaged({"ENABLE"})
  IN
  CASE state \in {"disabled", "paused"}
       /\ ~(state = "paused" /\ Contains(all, USER_DISABLE \cup IMMEDIATE_DISABLE)) ->
         IF ~Contains(all, ENABLE) THEN {}
         ELSE IF Contains(all, NO_ENTRY) THEN unlessEngaged({"NO_ENTRY"})
         ELSE enableType
    [] state # "disabled" /\ Contains(all, USER_DISABLE) -> {"USER_DISABLE"}
    [] state # "disabled" /\ ~Contains(all, USER_DISABLE)
         /\ Contains(all, IMMEDIATE_DISABLE) -> unlessEngaged({"IMMEDIATE_DISABLE"})
    [] OTHER ->
         CASE next = "softDisabling" -> unlessEngaged({"SOFT_DISABLE"})
           [] next = "overriding" ->
                IF state = "overriding" THEN {"OVERRIDE_LATERAL"}
                ELSE unlessEngaged({"OVERRIDE_LATERAL"})
           [] OTHER -> {}
=============================================================================
