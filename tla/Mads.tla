-------------------------------- MODULE Mads --------------------------------
(***************************************************************************)
(* ModularAssistiveDrivingSystem (sunnypilot/mads/mads.py): the lateral    *)
(* side of selfdrived.  Its update runs once per frame, after the state    *)
(* machine of openpilot proper, on the event lists that machine has just   *)
(* read: it rewrites both lists for its own machine, runs it and strips    *)
(* what must not reach the alerts.                                         *)
(*                                                                         *)
(* A frame's inputs are a record in: in.speed is "stopped" (standstill),   *)
(* "slow" (vEgo < 2.5) or "fast", and in.hap names what else the frame     *)
(* holds, among it the levels "gas", "brake" (brakePressed), "regen"       *)
(* (regenBraking) and "mainOff" (ACC main not available).  csPrev holds    *)
(* the levels of the frame before (CS_prev); events and sp are the two     *)
(* event lists after selfdrived.update_events.                             *)
(***************************************************************************)
EXTENDS MadsState

CONSTANTS
  SteeringMode,          \* MadsSteeringModeOnBrake
  AllowAlways,           \* MADS may be on with ACC main off (an own button)
  NoMainCruise,          \* the car has no ACC main button
  LateralDisableFrames   \* LATERAL_MISMATCH_DISABLE_FRAMES, 200

ASSUME MadsAssumption ==
  /\ SteeringMode \in {"remainActive", "pause", "disengage"}
  /\ AllowAlways \in BOOLEAN
  /\ NoMainCruise \in BOOLEAN
  /\ ButtonOwnsLateral => AllowAlways /\ NoMainCruise
  /\ LateralDisableFrames \in Nat \ {0}

VARIABLES
  mads,                      \* mads.state_machine.state
  madsEnabled,               \* mads.enabled, of the last update
  madsActive,                \* mads.active
  lateralMismatchCounter,    \* frames the panda refused MADS's steering
  disengageOnAccelAtStart    \* mads.disengage_on_accelerator, read in __init__

madsVars == <<mads, madsEnabled, madsActive, lateralMismatchCounter,
              disengageOnAccelAtStart>>

-----------------------------------------------------------------------------
Levels == {"gas", "brake", "regen", "mainOff"}

(* Of a frame's levels: the car is braked by the pedal or by regeneration. *)
Braked(levels) == Contains(levels, {"brake", "regen"})

GasRises(in, csPrev) == "gas" \in in.hap \ csPrev

(* Mutant: a held accelerator masks the brake, not only a rising one.      *)
BrakeEventMutant(in, csPrev, events) ==
  /\ "pedalPressed" \in events
  /\ ~("gas" \in in.hap /\ disengageOnAccelAtStart)

(* pedal_pressed_non_gas_pressed: the code takes any pedalPressed of a     *)
(* frame with a rising accelerator for the accelerator's.                 *)
BrakeEvent(in, csPrev, events) ==
  /\ "pedalPressed" \in events
  /\ ~(GasRises(in, csPrev) /\ disengageOnAccelAtStart)

(* The events update_events swaps for a silent twin that pauses lateral    *)
(* instead of disabling it.                                                *)
SilentTwin ==
  [wrongGear |-> "silentWrongGear", reverseGear |-> "silentReverseGear",
   brakeHold |-> "silentBrakeHold", parkBrake |-> "silentParkBrake",
   doorOpen |-> "silentDoorOpen",
   seatbeltNotLatched |-> "silentSeatbeltNotLatched"]

Swapped(in, events) ==
  {e \in events \cap DOMAIN SilentTwin :
     /\ e \in {"doorOpen", "seatbeltNotLatched"} => in.speed = "stopped"
     /\ e = "wrongGear" => in.speed # "fast" \/ "reverseGear" \in in.hap}

(* Events that concern cruise alone, dropped while only lateral is on. *)
CruiseOnly ==
  {"preEnableStandstill", "belowEngageSpeed", "speedTooLow", "cruiseDisabled",
   "espActive"}

(* Mutant: only a plainly enabled machine is asked to pause.               *)
PauseRequestMutant == IF mads # "enabled" THEN {} ELSE {"silentLkasDisable"}

(* transition_paused_state, as the events it adds. *)
PauseRequest == IF mads = "paused" THEN {} ELSE {"silentLkasDisable"}

(* The first block of update_events, run while MADS is on and cruise off. *)
LateralOnlyEvents(in, csPrev, events, sp, sdEnabled) ==
  IF sdEnabled \/ ~madsEnabled THEN [events |-> events, sp |-> sp]
  ELSE LET swapped == Swapped(in, events)
           pauses == \/ swapped # {}
                     \/ SteeringMode = "pause" /\ BrakeEvent(in, csPrev, events)
       IN [events |-> events \ (swapped \cup CruiseOnly),
           sp |-> sp \cup {SilentTwin[e] : e \in swapped}
                     \cup (IF pauses THEN PauseRequest ELSE {})]

(* Mutant: the declared button does not block.                             *)
UnifiedBlockedMutant(unified, sdEnabled, wasEnabled) ==
  ~unified \/ madsEnabled \/ (sdEnabled /\ wasEnabled)

(* block_unified_engagement_mode: wasEnabled is selfdrive.enabled_prev. *)
UnifiedBlocked(unified, sdEnabled, wasEnabled) ==
  ~unified \/ ButtonOwnsLateral \/ madsEnabled \/ (sdEnabled /\ wasEnabled)

CruiseEnables == {"pcmEnable", "buttonEnable"}

(* Which longitudinal enables MADS's own machine is left to see. *)
EnablesLeft(in, events, toggles, sdEnabled, wasEnabled) ==
  (IF UnifiedBlocked(toggles.unified, sdEnabled, wasEnabled) THEN {}
   ELSE events \cap CruiseEnables)
  \ (IF "mainOff" \in in.hap /\ ~NoMainCruise THEN {"buttonEnable"} ELSE {})

(* Requests that turn lateral on or off: ACC main rising, the MADS button, *)
(* ACC main off.                                                           *)
MainRises(in, csPrev, events, toggles) ==
  /\ ~Contains(events, CruiseEnables)
  /\ toggles.mainEnabled /\ ~ButtonOwnsLateral
  /\ "mainOff" \in csPrev \ in.hap

ButtonPress(in) == "lkasButton" \in in.hap /\ ("mainOff" \notin in.hap \/ AllowAlways)

(* Mutant: ACC main is enforced on its falling edge only.                  *)
MainOffMutant(in, csPrev) ==
  "mainOff" \in in.hap \ csPrev /\ ~NoMainCruise

MainOff(in, csPrev) ==
  /\ "mainOff" \in in.hap /\ ~NoMainCruise
  /\ "mainOff" \notin csPrev \/ (madsEnabled /\ ~AllowAlways)

Requests(in, csPrev, events, toggles, sdEnabled) ==
  {e \in {"lkasEnable", "lkasDisable", "manualSteeringRequired"} :
     CASE e = "lkasEnable" -> \/ MainRises(in, csPrev, events, toggles)
                              \/ ButtonPress(in) /\ ~madsEnabled
       [] e = "manualSteeringRequired" ->
            ButtonPress(in) /\ madsEnabled /\ sdEnabled
       [] OTHER -> \/ ButtonPress(in) /\ madsEnabled /\ ~sdEnabled
                   \/ MainOff(in, csPrev)}

(* The steering mode's answer to the brake.  The code means to withdraw    *)
(* lkasEnable under "disengage", but asks events_sp.contains, which takes  *)
(* an event type, for an event name: the answer is always no.              *)
BrakeEvents(in, csPrev, events, sp) ==
  CASE SteeringMode = "disengage" ->
         IF BrakeEvent(in, csPrev, events) /\ madsEnabled
         THEN {"lkasDisable"} ELSE {}
    [] SteeringMode = "pause" ->
         IF Braked(in.hap) /\ "lkasEnable" \in sp THEN {"silentPedalPressed"} ELSE {}
    [] OTHER -> {}

(* update_stock_lkas *)
StockLkasEvents(sp) ==
  IF /\ "stockLkasOff" \in sp /\ madsEnabled
     /\ ~Contains(sp, USER_DISABLE)
  THEN PauseRequest ELSE {}

(* Mutants: the resume waits for the brake's edge only; it looks at the    *)
(* brake of the frame before.                                              *)
ResumeEventsMutantLevel(in, csPrev, events, sp) ==
  IF /\ mads = "paused" /\ ~PausedSilent(sp)
     /\ ~(SteeringMode = "pause" /\ BrakeEvent(in, csPrev, events))
  THEN {"silentLkasEnable"} ELSE {}

ResumeEventsMutantStale(in, csPrev, events, sp) ==
  IF /\ mads = "paused" /\ ~PausedSilent(sp)
     /\ ~(SteeringMode = "pause" /\ Braked(csPrev \cup in.hap))
  THEN {"silentLkasEnable"} ELSE {}

(* should_silent_lkas_enable, and the resume it sends from paused. *)
ResumeEvents(in, csPrev, events, sp) ==
  IF /\ mads = "paused"
     /\ ~(SteeringMode = "pause" /\ (Braked(in.hap) \/ BrakeEvent(in, csPrev, events)))
     /\ ~PausedSilent(sp)
  THEN {"silentLkasEnable"} ELSE {}

(* Mutant: the count restarts whenever MADS is not plainly enabled.        *)
LateralMismatchMutant(in, sdEnabled) ==
  CASE mads # "enabled" \/ sdEnabled -> 0
    [] mads = "enabled" /\ ~sdEnabled /\ "refuseLateral" \in in.hap ->
         lateralMismatchCounter + 1
    [] OTHER -> lateralMismatchCounter

(* data_sample: counts frames the panda refuses what MADS steers.  *)
LateralMismatch(in, sdEnabled) ==
  CASE ~madsActive \/ sdEnabled -> 0
    [] madsActive /\ ~sdEnabled /\ "refuseLateral" \in in.hap ->
         lateralMismatchCounter + 1
    [] OTHER -> lateralMismatchCounter

(* Mutant: a cancel press reaches the machine.                             *)
StrippedMutant == {"pcmDisable", "pedalPressed", "wrongCruiseMode"}

(* Events stripped before the machine runs, besides wrongCarMode. *)
Stripped == {"pcmDisable", "buttonCancel", "pedalPressed", "wrongCruiseMode"}

(* update_events: the two lists the MADS machine reads. *)
MadsEvents(in, csPrev, events0, sp0, toggles, sdEnabled, wasEnabled) ==
  LET first == LateralOnlyEvents(in, csPrev, events0, sp0, sdEnabled)
      ev == first.events
      sp1 == first.sp \cup Requests(in, csPrev, ev, toggles, sdEnabled)
      sp2 == sp1 \cup BrakeEvents(in, csPrev, ev, sp1)
      sp3 == sp2 \cup StockLkasEvents(sp2)
      sp4 == sp3 \cup ResumeEvents(in, csPrev, ev, sp3)
      mismatch == LateralMismatch(in, sdEnabled) >= LateralDisableFrames
  IN [events |-> (ev \ (CruiseEnables \cup Stripped \cup {"wrongCarMode"}))
                 \cup EnablesLeft(in, ev, toggles, sdEnabled, wasEnabled),
      sp |-> sp4 \cup (IF mismatch THEN {"controlsMismatchLateral"} ELSE {})]
=============================================================================
