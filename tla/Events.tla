------------------------------- MODULE Events -------------------------------
(***************************************************************************)
(* The onroad events the two engagement machines of selfdrived tell apart, *)
(* and the event types (class ET) each of them carries.  An event list of  *)
(* the code (Events, EventsSP and its zp list) is a set of names here; the *)
(* names of the three enums are distinct.                                  *)
(*                                                                         *)
(* Events that no line of the modelled code names individually are         *)
(* represented by one of their kind: "commIssue" for every SOFT_DISABLE +  *)
(* NO_ENTRY event, "steerUnavailable" for IMMEDIATE_DISABLE + NO_ENTRY,    *)
(* "tooDistracted" for NO_ENTRY alone.  Events with only WARNING or        *)
(* PERMANENT alerts move no machine and are left out.                      *)
(***************************************************************************)
EXTENDS Naturals

(* An event type is the set of the events that carry it. *)
ENABLE == {"pcmEnable", "buttonEnable", "lkasEnable", "silentLkasEnable"}

PRE_ENABLE == {"preEnableStandstill"}

OVERRIDE_LATERAL == {"steerOverride"}

OVERRIDE_LONGITUDINAL == {"gasPressedOverride"}

USER_DISABLE ==
  {"pcmDisable", "buttonCancel", "parkBrake", "pedalPressed", "wrongCarMode",
   "wrongCruiseMode", "reverseGear", "lkasDisable", "manualSteeringRequired",
   "silentLkasDisable", "steerDisengage"}

SOFT_DISABLE ==
  {"bigModelFailed", "commIssue", "doorOpen", "seatbeltNotLatched",
   "wrongGear", "espActive"}

IMMEDIATE_DISABLE ==
  {"steerUnavailable", "canError", "controlsMismatch", "speedTooLow",
   "cruiseDisabled", "controlsMismatchLateral"}

NO_ENTRY ==
  {"buttonCancel", "parkBrake", "pedalPressed", "wrongCarMode",
   "wrongCruiseMode", "reverseGear", "commIssue", "doorOpen",
   "seatbeltNotLatched", "wrongGear", "espActive", "steerUnavailable",
   "canError", "controlsMismatch", "belowEngageSpeed", "tooDistracted",
   "bigModelLoading", "controlsMismatchLateral", "silentDoorOpen",
   "silentSeatbeltNotLatched", "silentWrongGear", "silentReverseGear",
   "silentBrakeHold", "silentParkBrake", "silentPedalPressed",
   "stockLkasOff", "steerDisengage"}

(* EventsBase.contains: some event of the list carries the type. *)
Contains(events, type) == events \cap type # {}
=============================================================================
