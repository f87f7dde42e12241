-------------------------- MODULE SelfdrivedHistory --------------------------
(***************************************************************************)
(* Selfdrived with history variables: what the drivers, the car and the    *)
(* pandas have lately done, which the properties relate to what the two    *)
(* machines then do.  They influence no step.                              *)
(***************************************************************************)
EXTENDS Selfdrived

VARIABLES
  seen,           \* the facts of the last frame the properties speak of
  softFor,        \* frames openpilot has been soft disabling, this one too
  refusedFor,     \* frames in a row the panda refused an engaged openpilot
  latRefusedFor,  \* frames in a row it refused the steering of MADS alone
  brakeSteerFor,  \* frames in a row MADS steered under a moving car's brake
  mainOffFor,     \* frames in a row MADS steered with ACC main off
  warned          \* MADS soft disables, and a SOFT_DISABLE alert was shown since

historyVars == <<seen, softFor, refusedFor, latRefusedFor, brakeSteerFor,
                 mainOffFor, warned>>
hvars == <<vars, historyVars>>

(* What a frame may hold that concerns cruise and never lateral.  ACC main *)
(* and pedals are cruise's too where MADS does not answer to them.         *)
CruiseHappenings ==
  {"pcmEnable", "buttonEnable", "pcmDisable", "buttonCancel",
   "wrongCruiseMode", "belowEngageSpeed", "refuseControls", "tooDistracted",
   "gas"}
  \cup (IF SteeringMode = "remainActive" THEN {"brake", "regen"} ELSE {})
  \cup (IF NoMainCruise THEN {"mainOff"} ELSE {})

MismatchReached(in) == Mismatch(in) >= MismatchFrames

OnlyCruise(in) ==
  /\ in.hap \subseteq CruiseHappenings
  /\ "gas" \in in.hap => toggles.disengageOnAccel = disengageOnAccelAtStart
  /\ ~MismatchReached(in)

Facts(in) ==
  (in.hap \cap {"stockLkasOff", "lkasButton"})
  \cup (IF OnlyCruise(in) THEN {"onlyCruise"} ELSE {})
  \cup (IF BrakeEvent(in, csPrev, CarStateEvents(in)) THEN {"brakeEvent"} ELSE {})
  \cup (IF in.hap = {} /\ ~MismatchReached(in) THEN {"quiet"} ELSE {})
  \cup (IF Contains(in.hap, CruiseEnables) THEN {"cruiseEnable"} ELSE {})

(* Frames in a row a condition has held, counted to one over the bound     *)
(* that the properties give it.                                            *)
Streak(n, holds, bound) ==
  IF ~holds THEN 0 ELSE IF n > bound THEN n ELSE n + 1

HistoryInit ==
  /\ seen = {}
  /\ softFor = 0
  /\ refusedFor = 0
  /\ latRefusedFor = 0
  /\ brakeSteerFor = 0
  /\ mainOffFor = 0
  /\ warned = FALSE

Observe(in) ==
  /\ seen' = Facts(in)
  /\ softFor' = Streak(softFor, ss' = "softDisabling", SoftDisableFrames)
  /\ refusedFor' = Streak(refusedFor, enabled /\ "refuseControls" \in in.hap,
                          MismatchFrames)
  /\ latRefusedFor' =
       Streak(latRefusedFor,
              madsActive /\ ~enabled' /\ "refuseLateral" \in in.hap,
              LateralDisableFrames)
  /\ brakeSteerFor' =
       Streak(brakeSteerFor,
              madsActive' /\ Braked(in.hap) /\ in.speed # "stopped", 2)
  /\ mainOffFor' = Streak(mainOffFor, madsActive' /\ "mainOff" \in in.hap, 1)
  /\ warned' = (/\ mads' = "softDisabling"
                /\ "SOFT_DISABLE" \in alertTypes' \/ warned)

HInit == Init /\ HistoryInit

HNext == \/ \E in \in Inputs : Frame(in) /\ Observe(in)
         \/ ParamsThread /\ UNCHANGED historyVars

HSpec == HInit /\ [][HNext]_hvars

-----------------------------------------------------------------------------
(* A soft disable of openpilot always leaves the driver the whole of       *)
(* SOFT_DISABLE_TIME from the frame it began, although MADS writes the     *)
(* same timer from its own machine (state.py 53-58, mads/state.py 93-98).  *)
SoftDisableFull ==
  ss = "softDisabling" => softTimer + softFor = SoftDisableFrames + 1

(* However the refusals and the engagements interleave, openpilot is never *)
(* engaged through more than MismatchFrames refused frames in a row; nor   *)
(* does MADS alone steer through more than its own bound, although its     *)
(* counter is restarted by its pauses and by openpilot's engagement.       *)
RefusalsBounded ==
  /\ refusedFor <= MismatchFrames
  /\ latRefusedFor <= LateralDisableFrames

(* With the brake set to pause or end lateral, MADS steers under the brake *)
(* of a moving car for at most two frames, whichever way it was engaged:   *)
(* one for the frame of the engagement (its request is not blocked), one   *)
(* for a rising accelerator that masks the pedal (mads.py 82-87).          *)
BrakeEndsSteering == SteeringMode # "remainActive" => brakeSteerFor <= 2

(* Where ACC main is the only switch of MADS, lateral outlives it by at    *)
(* most one frame, although cruise may engage MADS with main off.          *)
MainOffEndsSteering ==
  ~AllowAlways /\ ~NoMainCruise => mainOffFor <= 1

(* No frame with the car's own lane keep switched off ends with MADS       *)
(* steering, whatever is pressed or released in it.                        *)
StockLkasOffHolds == "stockLkasOff" \in seen => ~madsActive

(* A frame that ends the steering of MADS carries an alert of a disabling  *)
(* type, or a SOFT_DISABLE alert has been shown in the soft disable it     *)
(* ends, by whichever machine: MADS sets no timer and adds no alert while  *)
(* openpilot is engaged (mads/state.py 94-97), and relies on it to do so.  *)
(* Openpilot does, wherever it is active.  Where it is pre-enabled it does *)
(* neither, and MADS, left without a timer, lets go in the next frame      *)
(* without a word (113-114): the one exception the property makes.         *)
LateralLossAnnounced ==
  [][madsActive /\ ~madsActive' =>
       \/ Contains(alertTypes', {"USER_DISABLE", "IMMEDIATE_DISABLE"})
       \/ mads = "softDisabling" /\ (warned \/ ss = "preEnabled")]_hvars

(* What only concerns cruise (an engagement, a cancel, the pedals where    *)
(* MADS does not answer to them) never takes lateral away.                 *)
CruiseLeavesLateral ==
  [][madsActive /\ "onlyCruise" \in seen' => madsActive']_hvars

(* A frame that holds nothing at all brings paused lateral back: whatever  *)
(* paused it, no pause outlives its cause.                                 *)
PauseEndsWithItsCause ==
  [][mads = "paused" /\ "quiet" \in seen' => madsActive']_hvars

(* Lateral is turned on by its own requests only: the MADS button, ACC     *)
(* main rising where that is allowed, an engagement of cruise where the    *)
(* two are unified.  A declared button shuts out the other two.            *)
LateralNeedsRequest ==
  [][mads = "disabled" /\ mads' # "disabled" =>
       \/ "lkasButton" \in seen'
       \/ /\ ~ButtonOwnsLateral
          /\ \/ toggles.mainEnabled /\ "mainOff" \in csPrev \ csPrev'
             \/ toggles.unified /\ "cruiseEnable" \in seen']_hvars
=============================================================================
