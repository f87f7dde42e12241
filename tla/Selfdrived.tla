----------------------------- MODULE Selfdrived -----------------------------
(***************************************************************************)
(* selfdrived, the process that decides whether openpilot steers and       *)
(* drives: step() samples the car and the pandas, computes the events, runs *)
(* the machine of openpilot proper and then MADS, 100 times a second.      *)
(* The params thread of the process rewrites toggles between the frames.   *)
(*                                                                         *)
(* A frame is one action.  The only other thread of the process writes the *)
(* toggles, and a frame reads each toggle at most once, so any             *)
(* interleaving inside a frame has the effect of one between frames.       *)
(***************************************************************************)
EXTENDS Mads, FiniteSets

CONSTANTS
  MismatchFrames,     \* frames of controlsMismatch patience, 200
  Happenings,         \* what a frame may hold
  MaxHappenings,      \* at most this many of them in one frame
  Speeds,             \* the speeds of the car
  OnToggles,          \* toggles on when the process starts
  LiveToggles         \* toggles the user may switch while driving

(* Conditions the car reports, by the event they raise. *)
CarConditions ==
  {"pcmEnable", "buttonEnable", "pcmDisable", "buttonCancel", "doorOpen",
   "seatbeltNotLatched", "wrongGear", "reverseGear", "brakeHold",
   "parkBrake", "steerOverride", "wrongCruiseMode", "espActive",
   "speedTooLow", "cruiseDisabled", "belowEngageSpeed", "steerUnavailable",
   "stockLkasOff", "steerDisengage"}

(* Conditions selfdrived finds itself; "modelStarting" is modeld's first   *)
(* load, "canError" an invalid CAN state.                                  *)
SystemConditions ==
  {"commIssue", "bigModelFailed", "tooDistracted", "bigModelLoading",
   "modelStarting", "canError"}

PandaRefusals == {"refuseControls", "refuseLateral"}

ToggleNames == {"mainEnabled", "unified", "disengageOnAccel"}

ASSUME SelfdrivedAssumption ==
  /\ MismatchFrames \in Nat \ {0}
  /\ Happenings \subseteq CarConditions \cup SystemConditions \cup PandaRefusals
                          \cup Levels \cup {"lkasButton", "initialize"}
  /\ Speeds \subseteq {"stopped", "slow", "fast"}
  /\ OnToggles \subseteq ToggleNames
  /\ MaxHappenings \in Nat
  /\ LiveToggles \subseteq ToggleNames

VARIABLES
  initialized,        \* the init gate has opened
  toggles,            \* the params the process reads while driving
  csPrev,             \* CS_prev: the levels of the last frame
  ss,                 \* state_machine.state
  softTimer,          \* state_machine.soft_disable_timer, shared with MADS
  alertTypes,         \* state_machine.current_alert_types
  enabled,            \* selfdrive.enabled
  mismatchCounter     \* mismatch_counter

sdVars == <<initialized, toggles, csPrev, ss, softTimer, alertTypes, enabled,
            mismatchCounter>>
vars == <<sdVars, madsVars>>

(* speedTooLow and cruiseDisabled do not come with an engagement that      *)
(* nothing else refuses: Honda raises them where it does not raise         *)
(* pcmEnable, the others with belowEngageSpeed.  (Buttons engage where     *)
(* cruise is not the car's own.)                                           *)
CruiseLossComesAlone(hap) ==
  Contains(hap, {"speedTooLow", "cruiseDisabled"}) =>
    "belowEngageSpeed" \in hap \/ ~Contains(hap, CruiseEnables)

Inputs ==
  [speed : Speeds,
   hap : {S \in SUBSET Happenings :
            Cardinality(S) <= MaxHappenings /\ CruiseLossComesAlone(S)}]

Init ==
  /\ initialized = FALSE
  /\ toggles = [f \in ToggleNames |-> f \in OnToggles]
  /\ disengageOnAccelAtStart = toggles.disengageOnAccel
  /\ csPrev = {"mainOff"}
  /\ ss = "disabled"
  /\ softTimer = 0
  /\ alertTypes = {}
  /\ enabled = FALSE
  /\ mismatchCounter = 0
  /\ mads = "disabled"
  /\ madsEnabled = FALSE
  /\ madsActive = FALSE
  /\ lateralMismatchCounter = 0

-----------------------------------------------------------------------------
(* Rising accelerator edge, if it disengages; an edge of either brake, or  *)
(* that brake while moving.                                                *)
PedalPressed(in) ==
  \/ GasRises(in, csPrev) /\ toggles.disengageOnAccel
  \/ \E b \in in.hap \cap {"brake", "regen"} : b \notin csPrev \/ in.speed # "stopped"

(* What CarEvents and selfdrived raise from the car state; nothing when    *)
(* the CAN state is invalid.                                               *)
CarStateEvents(in) ==
  IF "canError" \in in.hap THEN {}
  ELSE (in.hap \cap CarConditions)
       \cup (IF "reverseGear" \in in.hap THEN {"wrongGear"} ELSE {})
       \cup (IF "mainOff" \in in.hap THEN {"wrongCarMode"} ELSE {})
       \cup (IF "gas" \in in.hap THEN {"gasPressedOverride"} ELSE {})
       \cup (IF "brake" \in in.hap /\ in.speed = "stopped"
             THEN {"preEnableStandstill"} ELSE {})
       \cup (IF PedalPressed(in) THEN {"pedalPressed"} ELSE {})

SystemEvents(in) ==
  (in.hap \cap (SystemConditions \ {"modelStarting"}))
  \cup (IF "modelStarting" \in in.hap THEN {"bigModelLoading"} ELSE {})

(* Mutant: the count restarts whenever openpilot is not plainly enabled.   *)
MismatchMutant(in) ==
  CASE ss # "enabled" -> 0
    [] ss = "enabled" /\ "refuseControls" \in in.hap -> mismatchCounter + 1
    [] OTHER -> mismatchCounter

(* data_sample: the frames the panda refused an engaged openpilot.         *)
Mismatch(in) ==
  CASE ~enabled -> 0
    [] enabled /\ "refuseControls" \in in.hap -> mismatchCounter + 1
    [] OTHER -> mismatchCounter

(* Mutant: one frame too many of patience.                                 *)
SdEventsMutant(in) ==
  ((CarStateEvents(in) \cup SystemEvents(in)) \ {"stockLkasOff"})
  \cup (IF Mismatch(in) > MismatchFrames THEN {"controlsMismatch"} ELSE {})

(* events and events_sp as update_events leaves them once initialized.     *)
SdEvents(in) ==
  ((CarStateEvents(in) \cup SystemEvents(in)) \ {"stockLkasOff"})
  \cup (IF Mismatch(in) >= MismatchFrames THEN {"controlsMismatch"} ELSE {})

SpEvents(in) == CarStateEvents(in) \cap {"stockLkasOff"}

(* big_model_loading names a load of its own; without one bigModelLoading  *)
(* is modeld's first.                                                      *)
ModelStarting(in) ==
  "modelStarting" \in in.hap /\ "bigModelLoading" \notin in.hap

(* One run of step().  Before the init gate opens neither machine runs.    *)
Frame(in) ==
  LET ready == initialized \/ "initialize" \in in.hap
      ev == IF ready THEN SdEvents(in) ELSE {}
      timer1 == IF ready THEN NextTimer(ss, softTimer, ev) ELSE softTimer
      lists == MadsEvents(in, csPrev, ev, IF ready THEN SpEvents(in) ELSE {},
                          toggles, enabled', enabled)
  IN /\ initialized' = ready
     /\ csPrev' = in.hap \cap Levels
     /\ ss' = IF ready THEN NextState(ss, softTimer, ev) ELSE ss
     /\ enabled' = (ss' \in EnabledStates)
     /\ mismatchCounter' = Mismatch(in)
     /\ mads' = IF ready THEN MadsNext(mads, timer1, lists.events, lists.sp,
                                       ModelStarting(in))
                ELSE mads
     /\ madsEnabled' = (mads' \in MadsEnabledStates)
     /\ madsActive' = (mads' \in MadsActiveStates)
     /\ lateralMismatchCounter' = LateralMismatch(in, enabled')
     /\ softTimer' = MadsTimer(mads, mads', timer1, enabled')
     /\ alertTypes' = IF ready
                      THEN AlertTypes(ss, softTimer, ev)
                           \cup MadsAlertTypes(mads, mads', lists.events,
                                               lists.sp, enabled')
                      ELSE {}
     /\ UNCHANGED <<toggles, disengageOnAccelAtStart>>

(* The params thread: one toggle takes a new value.  mads.read_params does *)
(* not refresh mads.disengage_on_accelerator.                              *)
ParamsThread ==
  \E f \in LiveToggles, b \in BOOLEAN :
    /\ toggles' = [toggles EXCEPT ![f] = b]
    /\ UNCHANGED <<initialized, csPrev, ss, softTimer, alertTypes, enabled,
                   mismatchCounter, madsVars>>

Next == (\E in \in Inputs : Frame(in)) \/ ParamsThread

Spec == Init /\ [][Next]_vars
-----------------------------------------------------------------------------
TypeOK ==
  /\ initialized \in BOOLEAN
  /\ toggles \in [ToggleNames -> BOOLEAN]
  /\ csPrev \subseteq Levels
  /\ ss \in States
  /\ softTimer \in 0..SoftDisableFrames
  /\ alertTypes \subseteq {"ENABLE", "PRE_ENABLE", "NO_ENTRY", "USER_DISABLE",
                            "SOFT_DISABLE", "IMMEDIATE_DISABLE",
                            "OVERRIDE_LATERAL", "OVERRIDE_LONGITUDINAL"}
  /\ enabled \in BOOLEAN
  /\ mismatchCounter \in Nat
  /\ mads \in MadsStates
  /\ madsEnabled \in BOOLEAN
  /\ madsActive \in BOOLEAN
  /\ lateralMismatchCounter \in Nat
  /\ disengageOnAccelAtStart \in BOOLEAN

(* No frame ends with openpilot engaged once the panda has refused it      *)
(* MismatchFrames times, nor with MADS steering on its own once its        *)
(* steering has been refused LateralDisableFrames times (selfdrived.py     *)
(* 586-595, mads.py data_sample), although each machine is disabled only   *)
(* by the event of a counter that the other side resets.                   *)
MismatchDisengages ==
  /\ enabled => mismatchCounter < MismatchFrames
  /\ madsActive /\ ~enabled => lateralMismatchCounter < LateralDisableFrames

(* With pause-on-brake, lateral waiting in paused stays there for as long  *)
(* as the brake is down, moving or not (mads.py should_silent_lkas_enable, *)
(* silentPedalPressed): the panda arms only on the release.                *)
BrakeHoldsPause ==
  [][SteeringMode = "pause" /\ mads = "paused" /\ Braked(csPrev') =>
       ~madsActive']_vars
=============================================================================
