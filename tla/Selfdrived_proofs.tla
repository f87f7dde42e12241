-------------------------- MODULE Selfdrived_proofs --------------------------
(***************************************************************************)
(* What holds of selfdrived for any number of frames of patience, any      *)
(* steering mode, any toggles and any set of happenings: its types, its    *)
(* answer to the refusals of the panda, a promise of MADS; and what the    *)
(* two machines make of the driver's, the car's and the panda's doings     *)
(* over many frames.                                                       *)
(***************************************************************************)
EXTENDS SelfdrivedHistory, TLAPS

(* What the booleans of the two machines say of their states, that neither *)
(* machine leaves disabled before the init gate opens, and that MADS       *)
(* counts no refusals while openpilot is engaged.                          *)
Coherent ==
  /\ enabled = (ss \in EnabledStates)
  /\ madsEnabled = (mads \in MadsEnabledStates)
  /\ madsActive = (mads \in MadsActiveStates)
  /\ ~initialized => ss = "disabled" /\ mads = "disabled"
  /\ enabled => lateralMismatchCounter = 0

IInv == TypeOK /\ Coherent /\ MismatchDisengages

AllAlertTypes ==
  {"ENABLE", "PRE_ENABLE", "NO_ENTRY", "USER_DISABLE", "SOFT_DISABLE",
   "IMMEDIATE_DISABLE", "OVERRIDE_LATERAL", "OVERRIDE_LONGITUDINAL"}

-----------------------------------------------------------------------------
(* The machine of openpilot proper stays in its states.                    *)
LEMMA NextStateType ==
  ASSUME NEW state \in States, NEW timer, NEW events
  PROVE NextState(state, timer, events) \in States
BY DEF NextState, DisabledNext, EngagedNext, States

(* Its timer stays within SOFT_DISABLE_TIME.                               *)
LEMMA NextTimerType ==
  ASSUME NEW state, NEW timer \in 0..SoftDisableFrames, NEW events
  PROVE NextTimer(state, timer, events) \in 0..SoftDisableFrames
BY SoftDisableFramesAssumption DEF NextTimer, TimerTick

(* The alert types it shows are among those named.                         *)
LEMMA AlertTypesType ==
  ASSUME NEW state, NEW timer, NEW events
  PROVE AlertTypes(state, timer, events) \subseteq AllAlertTypes
BY DEF AlertTypes, AllAlertTypes

(* The machine of MADS stays in its states.                                *)
LEMMA MadsNextType ==
  ASSUME NEW state \in MadsStates, NEW t, NEW events, NEW sp, NEW starting
  PROVE MadsNext(state, t, events, sp, starting) \in MadsStates
BY DEF MadsNext, MadsDisabledNext, MadsEngagedNext, Engages, MadsStates

(* MADS too keeps the shared timer within SOFT_DISABLE_TIME.               *)
LEMMA MadsTimerType ==
  ASSUME NEW state, NEW next, NEW t \in 0..SoftDisableFrames, NEW sdEnabled
  PROVE MadsTimer(state, next, t, sdEnabled) \in 0..SoftDisableFrames
BY SoftDisableFramesAssumption DEF MadsTimer

(* The alert types MADS adds are among those named.                        *)
LEMMA MadsAlertTypesType ==
  ASSUME NEW state, NEW next, NEW events, NEW sp, NEW sdEnabled
  PROVE MadsAlertTypes(state, next, events, sp, sdEnabled) \subseteq AllAlertTypes
BY DEF MadsAlertTypes, AllAlertTypes

(* An event that disables at once and refuses entry leaves neither machine *)
(* active, whatever else the frame holds.                                  *)
LEMMA ControlsMismatchDisables ==
  ASSUME NEW state \in States, NEW timer, NEW events,
         "controlsMismatch" \in events
  PROVE NextState(state, timer, events) = "disabled"
BY DEF NextState, DisabledNext, Contains, NO_ENTRY, IMMEDIATE_DISABLE

(* The same for MADS, which its own mismatch event leaves inactive.        *)
LEMMA LateralMismatchDisables ==
  ASSUME NEW state \in MadsStates, NEW t, NEW events, NEW sp, NEW starting,
         "controlsMismatchLateral" \in sp
  PROVE MadsNext(state, t, events, sp, starting) \notin MadsActiveStates
<1>1. Contains(events \cup sp, IMMEDIATE_DISABLE) /\ Contains(events \cup sp, NO_ENTRY)
  BY DEF Contains, NO_ENTRY, IMMEDIATE_DISABLE
<1> QED
  BY <1>1 DEF MadsNext, MadsDisabledNext, MadsActiveStates

(* The counters are naturals, and a counter at its limit raises its event. *)
LEMMA Counters ==
  ASSUME TypeOK, NEW in, NEW sdEnabled
  PROVE /\ Mismatch(in) \in Nat
        /\ LateralMismatch(in, sdEnabled) \in Nat
        /\ Mismatch(in) >= MismatchFrames => "controlsMismatch" \in SdEvents(in)
<1>1. Mismatch(in) \in Nat
  BY DEF TypeOK, Mismatch
<1>2. LateralMismatch(in, sdEnabled) \in Nat
  BY DEF TypeOK, LateralMismatch
<1> QED
  BY <1>1, <1>2 DEF SdEvents

(* The lateral counter at its limit raises MADS's mismatch event.          *)
LEMMA LateralMismatchRaised ==
  ASSUME NEW in, NEW csp, NEW events, NEW sp, NEW tog, NEW sdEnabled,
         NEW wasEnabled,
         LateralMismatch(in, sdEnabled) >= LateralDisableFrames
  PROVE "controlsMismatchLateral"
          \in MadsEvents(in, csp, events, sp, tog, sdEnabled, wasEnabled).sp
BY DEF MadsEvents

-----------------------------------------------------------------------------
(* The strengthening holds when the process starts.                        *)
LEMMA InitIInv ==
  ASSUME Init
  PROVE IInv
<1>1. toggles \in [ToggleNames -> BOOLEAN]
  <2>1. toggles = [f \in ToggleNames |-> f \in OnToggles]
    BY DEF Init
  <2>2. \A f \in ToggleNames : (f \in OnToggles) \in BOOLEAN
    OBVIOUS
  <2> QED
    BY <2>1, <2>2, Zenon
<1>2. disengageOnAccelAtStart \in BOOLEAN
  <2>1. "disengageOnAccel" \in ToggleNames
    BY DEF ToggleNames
  <2> QED
    BY <1>1, <2>1 DEF Init
<1>3. TypeOK
  <2>1. softTimer \in 0..SoftDisableFrames
    BY SoftDisableFramesAssumption DEF Init
  <2>2. ss \in States /\ mads \in MadsStates
    BY DEF Init, States, MadsStates
  <2>3. csPrev \subseteq Levels
    BY DEF Init, Levels
  <2>4. /\ initialized \in BOOLEAN /\ enabled \in BOOLEAN
        /\ madsEnabled \in BOOLEAN /\ madsActive \in BOOLEAN
    BY DEF Init
  <2>5. mismatchCounter \in Nat /\ lateralMismatchCounter \in Nat
    BY DEF Init
  <2>6. alertTypes \subseteq AllAlertTypes
    BY DEF Init
  <2> QED
    BY <1>1, <1>2, <2>1, <2>2, <2>3, <2>4, <2>5, <2>6, Zenon
       DEF TypeOK, AllAlertTypes
<1>4. Coherent
  <2>1. "disabled" \notin EnabledStates /\ "disabled" \notin MadsEnabledStates
        /\ "disabled" \notin MadsActiveStates
    BY DEF EnabledStates, ActiveStates, MadsEnabledStates, MadsActiveStates
  <2>2. ss = "disabled" /\ mads = "disabled"
    BY DEF Init
  <2>3. enabled = FALSE /\ madsEnabled = FALSE /\ madsActive = FALSE
    BY DEF Init
  <2>4. /\ (ss \in EnabledStates) = FALSE
        /\ (mads \in MadsEnabledStates) = FALSE
        /\ (mads \in MadsActiveStates) = FALSE
    BY <2>1, <2>2
  <2> QED
    BY <2>2, <2>3, <2>4 DEF Coherent
<1>5. MismatchDisengages
  BY DEF Init, MismatchDisengages
<1> QED
  BY <1>3, <1>4, <1>5 DEF IInv

(* Switching a toggle preserves the strengthening.                         *)
LEMMA ParamsThreadIInv ==
  ASSUME IInv, ParamsThread
  PROVE IInv'
<1> USE DEF IInv, ParamsThread, madsVars
<1>1. toggles' \in [ToggleNames -> BOOLEAN]
  BY DEF TypeOK
<1>2. TypeOK'
  BY <1>1 DEF TypeOK
<1>3. Coherent' /\ MismatchDisengages'
  BY DEF Coherent, MismatchDisengages
<1> QED
  BY <1>2, <1>3

(* A frame preserves the strengthening.                                    *)
LEMMA FrameIInv ==
  ASSUME IInv, NEW in \in Inputs, Frame(in)
  PROVE IInv'
<1> DEFINE
      ready == initialized \/ "initialize" \in in.hap
      ev == IF ready THEN SdEvents(in) ELSE {}
      ss1 == IF ready THEN NextState(ss, softTimer, ev) ELSE ss
      timer1 == IF ready THEN NextTimer(ss, softTimer, ev) ELSE softTimer
      enabled1 == ss1 \in EnabledStates
      lists == MadsEvents(in, csPrev, ev, IF ready THEN SpEvents(in) ELSE {},
                          toggles, enabled1, enabled)
      mads1 == IF ready THEN MadsNext(mads, timer1, lists.events, lists.sp,
                                      ModelStarting(in))
               ELSE mads
<1>1. /\ initialized' = ready
      /\ csPrev' = in.hap \cap Levels
      /\ ss' = ss1
      /\ enabled' = enabled1
      /\ mismatchCounter' = Mismatch(in)
      /\ mads' = mads1
      /\ madsEnabled' = (mads1 \in MadsEnabledStates)
      /\ madsActive' = (mads1 \in MadsActiveStates)
      /\ lateralMismatchCounter' = LateralMismatch(in, enabled1)
      /\ softTimer' = MadsTimer(mads, mads1, timer1, enabled1)
      /\ alertTypes' = IF ready
                       THEN AlertTypes(ss, softTimer, ev)
                            \cup MadsAlertTypes(mads, mads1, lists.events,
                                                lists.sp, enabled1)
                       ELSE {}
      /\ UNCHANGED <<toggles, disengageOnAccelAtStart>>
  BY DEF Frame
<1> HIDE DEF ready, ev, ss1, timer1, enabled1, lists, mads1
<1>2. ready \in BOOLEAN /\ enabled1 \in BOOLEAN
  BY DEF IInv, TypeOK, ready, enabled1
<1>3. ss1 \in States
  BY NextStateType DEF IInv, TypeOK, ss1
<1>4. timer1 \in 0..SoftDisableFrames
  BY NextTimerType DEF IInv, TypeOK, timer1
<1>5. mads1 \in MadsStates
  BY MadsNextType DEF IInv, TypeOK, mads1
<1>6. TypeOK'
  <2>1. softTimer' \in 0..SoftDisableFrames
    BY <1>1, <1>4, MadsTimerType
  <2>2. alertTypes' \subseteq AllAlertTypes
    BY <1>1, AlertTypesType, MadsAlertTypesType
  <2>3. mismatchCounter' \in Nat /\ lateralMismatchCounter' \in Nat
    BY <1>1, Counters DEF IInv
  <2>4. madsEnabled' \in BOOLEAN /\ madsActive' \in BOOLEAN
    BY <1>1
  <2> QED
    BY <1>1, <1>2, <1>3, <1>5, <2>1, <2>2, <2>3, <2>4
       DEF IInv, TypeOK, AllAlertTypes
<1>7. Coherent'
  <2>1. ~ready => ss1 = "disabled" /\ mads1 = "disabled"
    BY DEF IInv, Coherent, ready, ss1, mads1
  <2>2. enabled1 => LateralMismatch(in, enabled1) = 0
    BY DEF LateralMismatch
  <2> QED
    BY <1>1, <2>1, <2>2 DEF Coherent, enabled1
<1>8. MismatchDisengages'
  <2>1. ASSUME enabled1 PROVE Mismatch(in) < MismatchFrames
    <3>1. ready /\ ss1 # "disabled"
      BY <2>1 DEF enabled1, EnabledStates, ActiveStates, IInv, Coherent, ready, ss1
    <3>2. "controlsMismatch" \notin ev
      BY <3>1, ControlsMismatchDisables DEF IInv, TypeOK, ss1
    <3> QED
      BY <3>1, <3>2, Counters, SelfdrivedAssumption DEF IInv, ev
  <2>2. ASSUME mads1 \in MadsActiveStates
        PROVE LateralMismatch(in, enabled1) < LateralDisableFrames
    <3>1. ready
      BY <2>2 DEF MadsActiveStates, IInv, Coherent, ready, mads1
    <3>2. "controlsMismatchLateral" \notin lists.sp
      BY <2>2, <3>1, LateralMismatchDisables DEF IInv, TypeOK, mads1
    <3>3. ~(LateralMismatch(in, enabled1) >= LateralDisableFrames)
      BY <3>2, LateralMismatchRaised DEF lists
    <3> QED
      BY <3>3, Counters, MadsAssumption DEF IInv
  <2> QED
    BY <1>1, <2>1, <2>2 DEF MismatchDisengages
<1> QED
  BY <1>6, <1>7, <1>8 DEF IInv

(* Every reachable state of selfdrived satisfies the strengthening.        *)
THEOREM Invariance == Spec => []IInv
<1>1. IInv /\ UNCHANGED vars => IInv'
  BY DEF IInv, TypeOK, Coherent, MismatchDisengages, vars, sdVars, madsVars
<1>2. IInv /\ [Next]_vars => IInv'
  BY <1>1, FrameIInv, ParamsThreadIInv DEF Next
<1> QED
  BY InitIInv, <1>2, PTL DEF Spec

(* selfdrived keeps its variables in their types.                          *)
THEOREM TypeCorrect == Spec => []TypeOK
<1>1. IInv => TypeOK
  BY DEF IInv
<1> QED
  BY <1>1, Invariance, PTL

(* Neither machine outlasts the panda's refusals (selfdrived.py 586-595,   *)
(* mads.py data_sample), whatever the two limits are and however the       *)
(* inputs of the frames interleave.                                        *)
THEOREM RefusalsDisengage == Spec => []MismatchDisengages
<1>1. IInv => MismatchDisengages
  BY DEF IInv
<1> QED
  BY <1>1, Invariance, PTL

-----------------------------------------------------------------------------
(* What a frame does once the init gate is open, and the lists of MADS as  *)
(* they grow (update_events).                                              *)

First(in) ==
  LateralOnlyEvents(in, csPrev, SdEvents(in), SpEvents(in), enabled')

Sp1(in) == First(in).sp \cup Requests(in, csPrev, First(in).events, toggles, enabled')

Sp2(in) == Sp1(in) \cup BrakeEvents(in, csPrev, First(in).events, Sp1(in))

Sp3(in) == Sp2(in) \cup StockLkasEvents(Sp2(in))

LateralRefused(in) == LateralMismatch(in, enabled') >= LateralDisableFrames

Sp(in) ==
  Sp3(in) \cup ResumeEvents(in, csPrev, First(in).events, Sp3(in))
    \cup (IF LateralRefused(in) THEN {"controlsMismatchLateral"} ELSE {})

Ev(in) ==
  (First(in).events \ (CruiseEnables \cup Stripped \cup {"wrongCarMode"}))
    \cup EnablesLeft(in, First(in).events, toggles, enabled', enabled)

(* The machine of MADS runs on those lists.                                *)
LEMMA OpenFrame ==
  ASSUME NEW in, Frame(in), initialized'
  PROVE /\ ss' = NextState(ss, softTimer, SdEvents(in))
        /\ enabled' = (ss' \in EnabledStates)
        /\ mads' = MadsNext(mads, NextTimer(ss, softTimer, SdEvents(in)), Ev(in), Sp(in), ModelStarting(in))
        /\ madsActive' = (mads' \in MadsActiveStates)
        /\ softTimer' = MadsTimer(mads, mads', NextTimer(ss, softTimer, SdEvents(in)), enabled')
        /\ alertTypes' = AlertTypes(ss, softTimer, SdEvents(in))
                           \cup MadsAlertTypes(mads, mads', Ev(in), Sp(in), enabled')
<1>1. initialized \/ "initialize" \in in.hap
  BY DEF Frame
<1> DEFINE lists == MadsEvents(in, csPrev, SdEvents(in), SpEvents(in), toggles, enabled', enabled)
<1>2. lists.events = Ev(in) /\ lists.sp = Sp(in)
  BY DEF MadsEvents, Ev, Sp, Sp1, Sp2, Sp3, First, LateralRefused
<1>3. /\ ss' = NextState(ss, softTimer, SdEvents(in))
      /\ enabled' = (ss' \in EnabledStates)
      /\ mads' = MadsNext(mads, NextTimer(ss, softTimer, SdEvents(in)), lists.events, lists.sp, ModelStarting(in))
      /\ madsActive' = (mads' \in MadsActiveStates)
      /\ softTimer' = MadsTimer(mads, mads', NextTimer(ss, softTimer, SdEvents(in)), enabled')
      /\ alertTypes' = AlertTypes(ss, softTimer, SdEvents(in))
                         \cup MadsAlertTypes(mads, mads', lists.events, lists.sp, enabled')
  BY <1>1 DEF Frame
<1> HIDE DEF lists
<1> QED
  BY <1>2, <1>3

(* Before, neither machine runs.                                           *)
LEMMA ClosedFrame ==
  ASSUME IInv, NEW in, Frame(in), ~initialized'
  PROVE ss' = "disabled" /\ mads' = "disabled" /\ ss = ss' /\ mads = mads'
BY DEF Frame, IInv, Coherent

All(in) == Ev(in) \cup Sp(in)

(* The state of MADS once the frame is over.                               *)
LEMMA MadsOutcome ==
  ASSUME IInv, NEW in, Frame(in), initialized'
  PROVE /\ mads # "disabled" /\ Contains(All(in), USER_DISABLE \cup IMMEDIATE_DISABLE) => ~madsActive'
        /\ /\ mads \in {"disabled", "paused"}
           /\ ~Contains(All(in), ENABLE) \/ Contains(All(in), NO_ENTRY)
           => ~madsActive'
        /\ mads = "disabled" /\ ~Contains(All(in), ENABLE) => mads' = "disabled"
        /\ mads = "disabled" /\ ~Contains(All(in), NO_ENTRY) => mads' # "paused"
        /\ /\ mads \in MadsActiveStates
           /\ ~Contains(All(in), USER_DISABLE \cup IMMEDIATE_DISABLE)
           /\ mads = "softDisabling" => ~Contains(All(in), SOFT_DISABLE)
           => madsActive'
        /\ /\ mads = "paused" /\ Contains(All(in), ENABLE)
           /\ ~Contains(All(in), USER_DISABLE \cup IMMEDIATE_DISABLE \cup NO_ENTRY)
           => madsActive'
<1> DEFINE all == All(in)
           t == NextTimer(ss, softTimer, SdEvents(in))
           next == MadsNext(mads, t, Ev(in), Sp(in), ModelStarting(in))
<1>1. mads' = next /\ madsActive' = (next \in MadsActiveStates)
  BY OpenFrame
<1>2. mads \in MadsStates /\ all = Ev(in) \cup Sp(in)
  BY DEF IInv, TypeOK, All
<1>3. /\ Contains(all, USER_DISABLE \cup IMMEDIATE_DISABLE) <=>
            Contains(all, USER_DISABLE) \/ Contains(all, IMMEDIATE_DISABLE)
      /\ Contains(all, USER_DISABLE \cup IMMEDIATE_DISABLE \cup NO_ENTRY) <=>
            Contains(all, USER_DISABLE) \/ Contains(all, IMMEDIATE_DISABLE) \/ Contains(all, NO_ENTRY)
  BY DEF Contains
<1> HIDE DEF all
<1>4. mads # "disabled" /\ Contains(all, USER_DISABLE \cup IMMEDIATE_DISABLE) => next \notin MadsActiveStates
  BY <1>2, <1>3 DEF MadsNext, MadsActiveStates
<1>5. mads \in {"disabled", "paused"} /\ (~Contains(all, ENABLE) \/ Contains(all, NO_ENTRY)) =>
        next \notin MadsActiveStates
  BY <1>2 DEF MadsNext, MadsDisabledNext, MadsEngagedNext, MadsActiveStates
<1>6. /\ mads = "disabled" /\ ~Contains(all, ENABLE) => next = "disabled"
      /\ mads = "disabled" /\ ~Contains(all, NO_ENTRY) => next # "paused"
  BY <1>2 DEF MadsNext, MadsDisabledNext, Engages
<1>7. ASSUME mads \in MadsActiveStates, ~Contains(all, USER_DISABLE \cup IMMEDIATE_DISABLE),
             mads = "softDisabling" => ~Contains(all, SOFT_DISABLE)
      PROVE next \in MadsActiveStates
  BY <1>2, <1>3, <1>7 DEF MadsNext, MadsEngagedNext, Engages, MadsActiveStates
<1>8. ASSUME mads = "paused", Contains(all, ENABLE),
             ~Contains(all, USER_DISABLE \cup IMMEDIATE_DISABLE \cup NO_ENTRY)
      PROVE next \in MadsActiveStates
  BY <1>2, <1>3, <1>8 DEF MadsNext, MadsEngagedNext, Engages, MadsActiveStates
<1> HIDE DEF next
<1> QED
  BY <1>1, <1>4, <1>5, <1>6, <1>7, <1>8 DEF all

Twins ==
  {"silentWrongGear", "silentReverseGear", "silentBrakeHold", "silentParkBrake",
   "silentDoorOpen", "silentSeatbeltNotLatched"}

(* What is on the lists when MADS begins, and what its first block makes   *)
(* of them.                                                                *)
LEMMA FirstLists ==
  ASSUME NEW in
  PROVE /\ SpEvents(in) \subseteq {"stockLkasOff"}
        /\ First(in).events \subseteq SdEvents(in)
        /\ SpEvents(in) \subseteq First(in).sp
        /\ First(in).sp \subseteq SpEvents(in) \cup Twins \cup {"silentLkasDisable"}
        /\ \A e \in SdEvents(in) : e \notin DOMAIN SilentTwin \cup CruiseOnly => e \in First(in).events
<1> DEFINE swapped == Swapped(in, SdEvents(in))
           pauses == swapped # {} \/ (SteeringMode = "pause" /\ BrakeEvent(in, csPrev, SdEvents(in)))
<1>1. SpEvents(in) \subseteq {"stockLkasOff"}
  BY DEF SpEvents
<1>2. DOMAIN SilentTwin =
        {"wrongGear", "reverseGear", "brakeHold", "parkBrake", "doorOpen", "seatbeltNotLatched"}
  BY DEF SilentTwin
<1>3. \A e \in DOMAIN SilentTwin : SilentTwin[e] \in Twins
  BY <1>2 DEF SilentTwin, Twins
<1>4. swapped \subseteq DOMAIN SilentTwin
  BY DEF Swapped
<1>5. PauseRequest \subseteq {"silentLkasDisable"}
  BY DEF PauseRequest
<1>6. CASE enabled' \/ ~madsEnabled
  BY <1>1, <1>6 DEF First, LateralOnlyEvents
<1>7. CASE ~(enabled' \/ ~madsEnabled)
  <2>1. /\ First(in).events = SdEvents(in) \ (swapped \cup CruiseOnly)
        /\ First(in).sp = SpEvents(in) \cup {SilentTwin[e] : e \in swapped}
                            \cup (IF pauses THEN PauseRequest ELSE {})
    BY <1>7 DEF First, LateralOnlyEvents
  <2> HIDE DEF swapped, pauses
  <2> QED
    BY <1>1, <1>3, <1>4, <1>5, <2>1
<1> QED
  BY <1>6, <1>7

(* The lists only grow from there, but for the events that are stripped.   *)
LEMMA ListsGrow ==
  ASSUME NEW in
  PROVE /\ SpEvents(in) \subseteq Sp(in)
        /\ First(in).sp \subseteq Sp(in)
        /\ Requests(in, csPrev, First(in).events, toggles, enabled') \subseteq Sp(in)
        /\ BrakeEvents(in, csPrev, First(in).events, Sp1(in)) \subseteq Sp(in)
        /\ StockLkasEvents(Sp2(in)) \subseteq Sp(in)
        /\ Sp1(in) \subseteq Sp(in) /\ Sp2(in) \subseteq Sp(in) /\ Sp3(in) \subseteq Sp(in)
        /\ ResumeEvents(in, csPrev, First(in).events, Sp3(in)) \subseteq Sp(in)
        /\ Ev(in) \subseteq SdEvents(in)
        /\ \A e \in SdEvents(in) :
              e \notin DOMAIN SilentTwin \cup CruiseOnly \cup CruiseEnables \cup Stripped \cup {"wrongCarMode"}
                => e \in Ev(in)
<1>1. First(in).sp \subseteq Sp1(in) /\ Sp1(in) \subseteq Sp2(in) /\ Sp2(in) \subseteq Sp3(in) /\ Sp3(in) \subseteq Sp(in)
  BY DEF Sp1, Sp2, Sp3, Sp
<1>2. /\ Requests(in, csPrev, First(in).events, toggles, enabled') \subseteq Sp1(in)
      /\ BrakeEvents(in, csPrev, First(in).events, Sp1(in)) \subseteq Sp2(in)
      /\ StockLkasEvents(Sp2(in)) \subseteq Sp3(in)
      /\ ResumeEvents(in, csPrev, First(in).events, Sp3(in)) \subseteq Sp(in)
  BY DEF Sp1, Sp2, Sp3, Sp
<1>3. EnablesLeft(in, First(in).events, toggles, enabled', enabled) \subseteq First(in).events
  BY DEF EnablesLeft
<1>4. Ev(in) \subseteq SdEvents(in)
  BY <1>3, FirstLists DEF Ev
<1>5. \A e \in SdEvents(in) :
        e \notin DOMAIN SilentTwin \cup CruiseOnly \cup CruiseEnables \cup Stripped \cup {"wrongCarMode"}
          => e \in Ev(in)
  BY FirstLists DEF Ev
<1> QED
  BY <1>1, <1>2, <1>4, <1>5, FirstLists

(* Where the requests to enable come from.                                 *)
LEMMA Enablers ==
  ASSUME NEW in
  PROVE /\ SdEvents(in) \cap ENABLE \subseteq CruiseEnables \cap in.hap
        /\ Ev(in) \cap ENABLE \subseteq
             EnablesLeft(in, First(in).events, toggles, enabled', enabled) \cap in.hap
        /\ Sp(in) \cap ENABLE \subseteq
             (Requests(in, csPrev, First(in).events, toggles, enabled') \cap {"lkasEnable"})
               \cup ResumeEvents(in, csPrev, First(in).events, Sp3(in))
        /\ "canError" \in in.hap => SdEvents(in) \cap ENABLE = {}
<1>1. /\ SdEvents(in) \cap ENABLE \subseteq CruiseEnables \cap in.hap
      /\ "canError" \in in.hap => SdEvents(in) \cap ENABLE = {}
  BY DEF SdEvents, CarStateEvents, SystemEvents, CarConditions, SystemConditions, ENABLE, CruiseEnables
<1>2. Ev(in) \cap ENABLE \subseteq EnablesLeft(in, First(in).events, toggles, enabled', enabled) \cap in.hap
  <2>1. First(in).events \cap ENABLE \subseteq CruiseEnables \cap in.hap
    BY <1>1, FirstLists
  <2>2. EnablesLeft(in, First(in).events, toggles, enabled', enabled) \subseteq First(in).events
    BY DEF EnablesLeft
  <2> QED
    BY <2>1, <2>2 DEF Ev
<1>3. First(in).sp \cap ENABLE = {}
  BY FirstLists DEF Twins, ENABLE
<1>4. /\ Requests(in, csPrev, First(in).events, toggles, enabled') \subseteq
           {"lkasEnable", "lkasDisable", "manualSteeringRequired"}
      /\ BrakeEvents(in, csPrev, First(in).events, Sp1(in)) \subseteq {"lkasDisable", "silentPedalPressed"}
      /\ StockLkasEvents(Sp2(in)) \subseteq {"silentLkasDisable"}
  BY DEF Requests, BrakeEvents, StockLkasEvents, PauseRequest
<1>5. Sp3(in) \cap ENABLE \subseteq Requests(in, csPrev, First(in).events, toggles, enabled') \cap {"lkasEnable"}
  BY <1>3, <1>4 DEF Sp1, Sp2, Sp3, ENABLE
<1> QED
  BY <1>1, <1>2, <1>5 DEF Sp, ENABLE

-----------------------------------------------------------------------------
(* Under the brake, what would end a pause is refused or not asked for.    *)
LEMMA FrameHoldsPause ==
  ASSUME IInv, NEW in \in Inputs, Frame(in),
         SteeringMode = "pause", mads = "paused", Braked(in.hap)
  PROVE ~madsActive'
<1>1. initialized' /\ madsEnabled
  BY DEF IInv, Coherent, Frame, MadsEnabledStates, MadsActiveStates
<1>2. Ev(in) \cap ENABLE = {}
  BY <1>1, Enablers DEF EnablesLeft, UnifiedBlocked
<1>3. ResumeEvents(in, csPrev, First(in).events, Sp3(in)) = {}
  BY DEF ResumeEvents
<1>4. CASE "lkasEnable" \in Requests(in, csPrev, First(in).events, toggles, enabled')
  <2>1. "silentPedalPressed" \in BrakeEvents(in, csPrev, First(in).events, Sp1(in))
    BY <1>4 DEF BrakeEvents, Sp1
  <2>2. Contains(All(in), NO_ENTRY)
    BY <2>1, ListsGrow DEF All, Contains, NO_ENTRY
  <2> QED
    BY <1>1, <2>2, MadsOutcome
<1>5. CASE "lkasEnable" \notin Requests(in, csPrev, First(in).events, toggles, enabled')
  <2>1. ~Contains(All(in), ENABLE)
    BY <1>2, <1>3, <1>5, Enablers DEF All, Contains
  <2> QED
    BY <1>1, <2>1, MadsOutcome
<1> QED
  BY <1>4, <1>5

(* With pause-on-brake, lateral waiting in paused stays there for as long  *)
(* as the brake is down (mads.py should_silent_lkas_enable), whatever else *)
(* is pressed or engaged meanwhile.                                        *)
THEOREM PauseHolds == Spec => BrakeHoldsPause
<1>1. ASSUME IInv, [Next]_vars
      PROVE [SteeringMode = "pause" /\ mads = "paused" /\ Braked(csPrev') => ~madsActive']_vars
  <2>1. SUFFICES ASSUME SteeringMode = "pause", mads = "paused", Braked(csPrev'), Next
        PROVE ~madsActive'
    BY <1>1
  <2>2. CASE \E in \in Inputs : Frame(in)
    <3>1. PICK in \in Inputs : Frame(in)
      BY <2>2
    <3>2. Braked(in.hap)
      BY <2>1, <3>1 DEF Frame, Braked, Contains
    <3> QED
      BY <1>1, <2>1, <3>1, <3>2, FrameHoldsPause
  <2>3. CASE ParamsThread
    BY <1>1, <2>1, <2>3 DEF ParamsThread, madsVars, IInv, Coherent, MadsActiveStates
  <2> QED
    BY <2>1, <2>2, <2>3 DEF Next
<1> QED
  BY <1>1, Invariance, PTL DEF Spec, BrakeHoldsPause

(* A frame that disables MADS at once shows it, by whichever machine.      *)
LEMMA DisablingIsShown ==
  ASSUME IInv, NEW in \in Inputs, Frame(in), madsActive,
         Contains(All(in), USER_DISABLE \cup IMMEDIATE_DISABLE)
  PROVE Contains(alertTypes', {"USER_DISABLE", "IMMEDIATE_DISABLE"})
<1> DEFINE all == All(in)
<1>1. initialized' /\ madsEnabled /\ mads \in MadsActiveStates /\ mads # "disabled" /\ mads # "paused"
  BY DEF IInv, Coherent, Frame, MadsEnabledStates, MadsActiveStates
<1>2. MadsAlertTypes(mads, mads', Ev(in), Sp(in), enabled') \subseteq alertTypes'
  BY <1>1, OpenFrame
<1>3. Contains(all, USER_DISABLE \cup IMMEDIATE_DISABLE)
  OBVIOUS
<1>4. CASE Contains(all, USER_DISABLE)
  <2>1. "USER_DISABLE" \in MadsAlertTypes(mads, mads', Ev(in), Sp(in), enabled')
    BY <1>1, <1>4 DEF MadsAlertTypes, All
  <2> QED
    BY <1>2, <2>1 DEF Contains
<1>5. CASE ~Contains(all, USER_DISABLE)
  <2>1. Contains(all, IMMEDIATE_DISABLE)
    BY <1>3, <1>5 DEF Contains
  <2>2. ~enabled'
    <3>1. SUFFICES ASSUME enabled' PROVE FALSE
      OBVIOUS
    <3>2. ~LateralRefused(in)
      BY <3>1, MadsAssumption DEF LateralRefused, LateralMismatch
    <3>3. Sp(in) \cap IMMEDIATE_DISABLE = {}
      <4>1. First(in).sp \cap IMMEDIATE_DISABLE = {}
        BY FirstLists DEF Twins, IMMEDIATE_DISABLE
      <4> QED
        BY <3>2, <4>1 DEF Sp, Sp1, Sp2, Sp3, Requests, BrakeEvents, StockLkasEvents, PauseRequest,
           ResumeEvents, IMMEDIATE_DISABLE
    <3>4. PICK e \in SdEvents(in) : e \in IMMEDIATE_DISABLE
      BY <2>1, <3>3, ListsGrow DEF Contains, All
    <3>5. ss = "disabled" /\ Contains(SdEvents(in), ENABLE) /\ ~Contains(SdEvents(in), NO_ENTRY)
      <4>1. ss' # "disabled"
        BY <1>1, <3>1, OpenFrame DEF EnabledStates, ActiveStates
      <4>2. Contains(SdEvents(in), IMMEDIATE_DISABLE \cup USER_DISABLE)
        BY <3>4 DEF Contains
      <4> QED
        BY <1>1, <4>1, <4>2, OpenFrame DEF NextState, DisabledNext
    <3>6. e \in {"speedTooLow", "cruiseDisabled"}
      BY <3>4, <3>5 DEF IMMEDIATE_DISABLE, NO_ENTRY, Contains
    <3>7. e \in in.hap /\ "canError" \notin in.hap
      BY <3>4, <3>5, <3>6, Enablers DEF SdEvents, CarStateEvents, SystemEvents, SystemConditions, Contains
    <3>8. Contains(in.hap, {"speedTooLow", "cruiseDisabled"}) /\ Contains(in.hap, CruiseEnables)
      BY <3>5, <3>6, <3>7, Enablers DEF Contains
    <3>9. "belowEngageSpeed" \in in.hap
      BY <3>8 DEF Inputs, CruiseLossComesAlone
    <3>10. "belowEngageSpeed" \in SdEvents(in)
      BY <3>7, <3>9 DEF SdEvents, CarStateEvents, CarConditions
    <3> QED
      BY <3>5, <3>10 DEF Contains, NO_ENTRY
  <2>3. "IMMEDIATE_DISABLE" \in MadsAlertTypes(mads, mads', Ev(in), Sp(in), enabled')
    BY <1>1, <1>5, <2>1, <2>2 DEF MadsAlertTypes, All
  <2> QED
    BY <1>2, <2>3 DEF Contains
<1> QED
  BY <1>4, <1>5

(* No list MADS adds to brings a soft disable.                             *)
LEMMA SoftDisableIsOpenpilots ==
  ASSUME NEW in, Contains(All(in), SOFT_DISABLE)
  PROVE Contains(SdEvents(in), SOFT_DISABLE)
<1>1. First(in).sp \cap SOFT_DISABLE = {}
  BY FirstLists DEF Twins, SOFT_DISABLE
<1>2. Sp(in) \cap SOFT_DISABLE = {}
  BY <1>1 DEF Sp, Sp1, Sp2, Sp3, Requests, BrakeEvents, StockLkasEvents, PauseRequest,
     ResumeEvents, SOFT_DISABLE
<1> QED
  BY <1>2, ListsGrow DEF All, Contains

(* An active openpilot takes a soft disable on itself: it warns, or says   *)
(* that it is disabled, and its timer is MADS's.                           *)
LEMMA OpenpilotWarns ==
  ASSUME IInv, NEW in \in Inputs, Frame(in), initialized',
         ss \in {"enabled", "overriding"}, mads = "softDisabling",
         Contains(All(in), SOFT_DISABLE), ~Contains(All(in), USER_DISABLE \cup IMMEDIATE_DISABLE)
  PROVE madsActive' \/ Contains(alertTypes', {"USER_DISABLE", "IMMEDIATE_DISABLE"})
<1> DEFINE ev == SdEvents(in)
<1>1. Contains(ev, SOFT_DISABLE)
  BY SoftDisableIsOpenpilots
<1>2. CASE Contains(ev, IMMEDIATE_DISABLE \cup USER_DISABLE)
  <2>1. Contains(ev, IMMEDIATE_DISABLE) \/ Contains(ev, USER_DISABLE)
    BY <1>2 DEF Contains
  <2>2. AlertTypes(ss, softTimer, ev) \in {{"IMMEDIATE_DISABLE"}, {"USER_DISABLE"}}
    BY <2>1 DEF AlertTypes
  <2>3. AlertTypes(ss, softTimer, ev) \subseteq alertTypes'
    BY OpenFrame
  <2> QED
    BY <2>2, <2>3 DEF Contains
<1>3. CASE ~Contains(ev, IMMEDIATE_DISABLE \cup USER_DISABLE)
  <2>1. NextState(ss, softTimer, ev) = "softDisabling"
    BY <1>1, <1>3 DEF NextState, EngagedNext
  <2>2. NextTimer(ss, softTimer, ev) > 0
    BY <2>1, SoftDisableFramesAssumption DEF NextTimer
  <2>3. ~Contains(All(in), USER_DISABLE) /\ ~Contains(All(in), IMMEDIATE_DISABLE)
    BY DEF Contains
  <2>4. mads' = "softDisabling" /\ madsActive' = (mads' \in MadsActiveStates)
    BY <2>2, <2>3, OpenFrame DEF MadsNext, MadsEngagedNext, All
  <2> QED
    BY <2>4 DEF MadsActiveStates
<1> QED
  BY <1>2, <1>3

-----------------------------------------------------------------------------
(* Over many frames: the history variables.                                *)

(* The frames of a soft disable are the ticks of its timer.                *)
SoftInv ==
  /\ softFor \in Nat
  /\ ss # "softDisabling" => softFor = 0
  /\ SoftDisableFull

(* Refused frames in a row are no more than the counters have counted.     *)
RefusedInv ==
  /\ refusedFor \in Nat /\ latRefusedFor \in Nat
  /\ refusedFor <= mismatchCounter
  /\ latRefusedFor <= lateralMismatchCounter
  /\ RefusalsBounded

(* Steering under the brake of a moving car goes on for a second frame     *)
(* only with the accelerator, which then is not rising in the next.        *)
BrakeInv ==
  /\ brakeSteerFor \in Nat
  /\ SteeringMode # "remainActive" =>
       /\ brakeSteerFor <= 2
       /\ brakeSteerFor > 0 => madsActive
       /\ brakeSteerFor = 2 => "gas" \in csPrev

(* Steering with ACC main off goes with the level of the frame before.     *)
MainInv ==
  /\ mainOffFor \in Nat
  /\ mainOffFor > 0 => madsActive /\ "mainOff" \in csPrev
  /\ MainOffEndsSteering

(* After a frame that held nothing no pause is left.                       *)
QuietInv == "quiet" \in seen => mads # "paused"

(* A soft disable of MADS that has shown no warning yet is one openpilot   *)
(* has still to take on itself, or, pre-enabled, will not.                 *)
WarnedInv ==
  /\ warned \in BOOLEAN
  /\ mads = "softDisabling" => warned \/ ss \in {"preEnabled", "enabled", "overriding"}

HInv ==
  /\ IInv /\ SoftInv /\ RefusedInv /\ BrakeInv /\ MainInv /\ QuietInv /\ WarnedInv
  /\ StockLkasOffHolds

-----------------------------------------------------------------------------
(* One frame.                                                              *)

(* A machine at work has passed the init gate.                             *)
LEMMA AtWork ==
  ASSUME IInv, NEW in, Frame(in), madsActive \/ madsActive' \/ ss' # "disabled" \/ enabled
  PROVE initialized'
<1>1. enabled = (ss \in EnabledStates) /\ madsActive = (mads \in MadsActiveStates)
  BY DEF IInv, Coherent
<1>2. madsActive' = (mads' \in MadsActiveStates)
  BY DEF Frame
<1> QED
  BY <1>1, <1>2, ClosedFrame DEF EnabledStates, ActiveStates, MadsActiveStates

(* Active MADS is on.                                                      *)
LEMMA ActiveIsOn ==
  ASSUME IInv, madsActive
  PROVE madsEnabled /\ mads \in MadsActiveStates /\ mads # "disabled" /\ mads # "paused"
BY DEF IInv, Coherent, MadsEnabledStates, MadsActiveStates

(* An invalid CAN state leaves nothing active, whatever is asked for.      *)
LEMMA CanErrorStops ==
  ASSUME IInv, NEW in, Frame(in), initialized', "canError" \in in.hap
  PROVE ~madsActive'
<1>1. "canError" \in SdEvents(in)
  BY DEF SdEvents, SystemEvents, SystemConditions
<1>2. "canError" \in Ev(in)
  BY <1>1, ListsGrow DEF SilentTwin, CruiseOnly, CruiseEnables, Stripped
<1>3. Contains(All(in), USER_DISABLE \cup IMMEDIATE_DISABLE) /\ Contains(All(in), NO_ENTRY)
  BY <1>2 DEF Contains, All, IMMEDIATE_DISABLE, NO_ENTRY
<1> QED
  BY <1>3, MadsOutcome

(* No frame of a soft disable is lost or gained, although MADS may write   *)
(* the timer: it does so only while openpilot is not engaged.              *)
LEMMA FrameSoft ==
  ASSUME HInv, NEW in \in Inputs, Frame(in), Observe(in)
  PROVE SoftInv'
<1> USE SoftDisableFramesAssumption DEF HInv, SoftInv, SoftDisableFull
<1>1. softFor' = Streak(softFor, ss' = "softDisabling", SoftDisableFrames)
  BY DEF Observe
<1>2. CASE ss' # "softDisabling"
  BY <1>1, <1>2 DEF Streak
<1>3. CASE ss' = "softDisabling"
  <2>1. /\ ss' = NextState(ss, softTimer, SdEvents(in)) /\ enabled'
        /\ softTimer' = MadsTimer(mads, mads', NextTimer(ss, softTimer, SdEvents(in)), enabled')
    BY <1>3, AtWork, OpenFrame DEF EnabledStates, ActiveStates
  <2>2. softTimer' = NextTimer(ss, softTimer, SdEvents(in))
    BY <2>1 DEF MadsTimer
  <2>3. softTimer \in 0..SoftDisableFrames /\ ss \in States
    BY DEF IInv, TypeOK
  <2>4. CASE ss # "softDisabling"
    <3>1. softTimer' = SoftDisableFrames
      BY <1>3, <2>1, <2>2, <2>4 DEF NextTimer
    <3> QED
      BY <1>1, <1>3, <2>4, <3>1 DEF Streak
  <2>5. CASE ss = "softDisabling"
    <3>1. TimerTick(softTimer) > 0
      BY <1>3, <2>1, <2>3, <2>5 DEF NextState, EngagedNext
    <3>2. softTimer' = softTimer - 1 /\ softTimer > 1
      BY <2>2, <2>3, <2>5, <3>1 DEF NextTimer, TimerTick
    <3>3. softTimer + softFor = SoftDisableFrames + 1
      BY <2>5
    <3> QED
      BY <1>1, <1>3, <2>3, <3>2, <3>3 DEF Streak
  <2> QED
    BY <2>4, <2>5
<1> QED
  BY <1>2, <1>3

(* The counters count every refused frame of a row, so a row ends with     *)
(* them.                                                                   *)
LEMMA FrameRefused ==
  ASSUME HInv, NEW in \in Inputs, Frame(in), Observe(in)
  PROVE RefusedInv'
<1> USE SelfdrivedAssumption, MadsAssumption DEF HInv, RefusedInv, RefusalsBounded
<1>1. /\ refusedFor' = Streak(refusedFor, enabled /\ "refuseControls" \in in.hap, MismatchFrames)
      /\ latRefusedFor' = Streak(latRefusedFor, madsActive /\ ~enabled' /\ "refuseLateral" \in in.hap,
                                 LateralDisableFrames)
  BY DEF Observe
<1>2. mismatchCounter' = Mismatch(in) /\ lateralMismatchCounter' = LateralMismatch(in, enabled')
  BY DEF Frame
<1>3. /\ mismatchCounter \in Nat /\ lateralMismatchCounter \in Nat
      /\ enabled \in BOOLEAN /\ madsActive \in BOOLEAN /\ enabled' \in BOOLEAN
      /\ mismatchCounter' \in Nat /\ lateralMismatchCounter' \in Nat
  BY FrameIInv DEF IInv, TypeOK
<1>4. enabled => mismatchCounter < MismatchFrames
  BY DEF IInv, MismatchDisengages
<1>5. madsActive => lateralMismatchCounter < LateralDisableFrames
  BY <1>3 DEF IInv, Coherent, MismatchDisengages
<1>6. /\ refusedFor' \in Nat /\ refusedFor' <= mismatchCounter'
      /\ refusedFor' <= MismatchFrames
  BY <1>1, <1>2, <1>3, <1>4 DEF Streak, Mismatch
<1>7. /\ latRefusedFor' \in Nat /\ latRefusedFor' <= lateralMismatchCounter'
      /\ latRefusedFor' <= LateralDisableFrames
  BY <1>1, <1>2, <1>3, <1>5 DEF Streak, LateralMismatch
<1> QED
  BY <1>6, <1>7

(* The brake of a moving car ends or pauses what MADS steers, unless the   *)
(* accelerator rises in the same frame.                                    *)
LEMMA BrakeStops ==
  ASSUME IInv, NEW in \in Inputs, Frame(in), SteeringMode # "remainActive",
         madsActive, Braked(in.hap), in.speed # "stopped", ~GasRises(in, csPrev)
  PROVE ~madsActive'
<1>1. initialized' /\ madsEnabled /\ mads # "disabled" /\ mads # "paused"
  BY AtWork, ActiveIsOn
<1>2. CASE "canError" \in in.hap
  BY <1>1, <1>2, CanErrorStops
<1>3. CASE "canError" \notin in.hap
  <2>1. "pedalPressed" \in SdEvents(in)
    BY <1>3 DEF SdEvents, CarStateEvents, PedalPressed, Braked, Contains
  <2>2. "pedalPressed" \in First(in).events
    BY <2>1, FirstLists DEF SilentTwin, CruiseOnly
  <2>3. BrakeEvent(in, csPrev, SdEvents(in)) /\ BrakeEvent(in, csPrev, First(in).events)
    BY <2>1, <2>2 DEF BrakeEvent
  <2>4. CASE SteeringMode = "disengage"
    <3>1. "lkasDisable" \in BrakeEvents(in, csPrev, First(in).events, Sp1(in))
      BY <1>1, <2>3, <2>4 DEF BrakeEvents
    <3>2. Contains(All(in), USER_DISABLE \cup IMMEDIATE_DISABLE)
      BY <3>1, ListsGrow DEF Contains, All, USER_DISABLE
    <3> QED
      BY <1>1, <3>2, MadsOutcome
  <2>5. CASE SteeringMode = "pause"
    <3>1. ~enabled'
      <4>1. /\ Contains(SdEvents(in), NO_ENTRY)
            /\ Contains(SdEvents(in), IMMEDIATE_DISABLE \cup USER_DISABLE)
        BY <2>1 DEF Contains, NO_ENTRY, USER_DISABLE
      <4>2. ss' = "disabled"
        BY <1>1, <4>1, OpenFrame DEF NextState, DisabledNext
      <4> QED
        BY <1>1, <4>2, OpenFrame DEF EnabledStates, ActiveStates
    <3>2. "silentLkasDisable" \in First(in).sp
      BY <1>1, <2>3, <2>5, <3>1 DEF First, LateralOnlyEvents, PauseRequest
    <3>3. Contains(All(in), USER_DISABLE \cup IMMEDIATE_DISABLE)
      BY <3>2, ListsGrow DEF Contains, All, USER_DISABLE
    <3> QED
      BY <1>1, <3>3, MadsOutcome
  <2> QED
    BY <2>4, <2>5, MadsAssumption
<1> QED
  BY <1>2, <1>3

(* So steering under the brake is counted to two at most.                  *)
LEMMA FrameBrake ==
  ASSUME HInv, NEW in \in Inputs, Frame(in), Observe(in)
  PROVE BrakeInv'
<1> USE DEF HInv, BrakeInv
<1> DEFINE steers == madsActive' /\ Braked(in.hap) /\ in.speed # "stopped"
<1>1. brakeSteerFor' = Streak(brakeSteerFor, steers, 2)
  BY DEF Observe
<1>2. "gas" \in csPrev' <=> "gas" \in in.hap
  BY DEF Frame, Levels
<1>3. SteeringMode # "remainActive" /\ steers /\ madsActive => GasRises(in, csPrev)
  BY BrakeStops
<1>4. brakeSteerFor' \in Nat
  BY <1>1 DEF Streak
<1>5. ASSUME SteeringMode # "remainActive"
      PROVE /\ brakeSteerFor' <= 2
            /\ brakeSteerFor' > 0 => madsActive'
            /\ brakeSteerFor' = 2 => "gas" \in csPrev'
  <2>1. CASE ~steers
    BY <1>1, <2>1 DEF Streak
  <2>2. CASE steers /\ brakeSteerFor = 0
    BY <1>1, <2>2 DEF Streak
  <2>3. CASE steers /\ brakeSteerFor > 0
    <3>1. "gas" \in in.hap /\ "gas" \notin csPrev
      BY <1>3, <1>5, <2>3 DEF GasRises
    <3>2. brakeSteerFor = 1
      BY <1>5, <2>3, <3>1
    <3> QED
      BY <1>1, <1>2, <2>3, <3>1, <3>2 DEF Streak
  <2> QED
    BY <2>1, <2>2, <2>3
<1> QED
  BY <1>4, <1>5

(* ACC main off a second frame in a row ends lateral, where main is its    *)
(* only switch.                                                            *)
LEMMA FrameMain ==
  ASSUME HInv, NEW in \in Inputs, Frame(in), Observe(in)
  PROVE MainInv'
<1> USE DEF HInv, MainInv, MainOffEndsSteering
<1>1. mainOffFor' = Streak(mainOffFor, madsActive' /\ "mainOff" \in in.hap, 1)
  BY DEF Observe
<1>2. "mainOff" \in csPrev' <=> "mainOff" \in in.hap
  BY DEF Frame, Levels
<1>3. ASSUME ~AllowAlways, ~NoMainCruise, madsActive, "mainOff" \in in.hap
      PROVE ~madsActive'
  <2>1. initialized' /\ madsEnabled /\ mads # "disabled"
    BY <1>3, AtWork, ActiveIsOn
  <2>2. "lkasDisable" \in Requests(in, csPrev, First(in).events, toggles, enabled')
    BY <1>3, <2>1 DEF Requests, MainOff
  <2>3. Contains(All(in), USER_DISABLE \cup IMMEDIATE_DISABLE)
    BY <2>2, ListsGrow DEF Contains, All, USER_DISABLE
  <2> QED
    BY <2>1, <2>3, MadsOutcome
<1>4. mainOffFor' \in Nat /\ (mainOffFor' > 0 => madsActive' /\ "mainOff" \in csPrev')
  BY <1>1, <1>2 DEF Streak
<1>5. ~AllowAlways /\ ~NoMainCruise => mainOffFor' <= 1
  BY <1>1, <1>3 DEF Streak
<1> QED
  BY <1>4, <1>5

(* The car's lane keep switched off pauses, refuses and holds the pause.   *)
LEMMA FrameStock ==
  ASSUME IInv, NEW in \in Inputs, Frame(in), Observe(in)
  PROVE StockLkasOffHolds'
<1>1. SUFFICES ASSUME "stockLkasOff" \in in.hap, initialized'
      PROVE ~madsActive'
  BY AtWork DEF Observe, Facts, StockLkasOffHolds
<1>2. CASE "canError" \in in.hap
  BY <1>1, <1>2, CanErrorStops
<1>3. CASE "canError" \notin in.hap
  <2>1. "stockLkasOff" \in SpEvents(in)
    BY <1>1, <1>3 DEF SpEvents, CarStateEvents, CarConditions
  <2>2. "stockLkasOff" \in Sp2(in) /\ "stockLkasOff" \in Sp(in)
    BY <2>1, FirstLists, ListsGrow DEF Sp1, Sp2
  <2>3. CASE mads \in {"disabled", "paused"}
    <3>1. Contains(All(in), NO_ENTRY)
      BY <2>2 DEF Contains, All, NO_ENTRY
    <3> QED
      BY <1>1, <2>3, <3>1, MadsOutcome
  <2>4. CASE mads \notin {"disabled", "paused"}
    <3>1. madsEnabled
      BY <2>4 DEF IInv, TypeOK, Coherent, MadsStates, MadsEnabledStates, MadsActiveStates
    <3>2. Contains(Sp2(in), USER_DISABLE) \/ "silentLkasDisable" \in StockLkasEvents(Sp2(in))
      BY <2>2, <2>4, <3>1 DEF StockLkasEvents, PauseRequest
    <3>3. Contains(All(in), USER_DISABLE \cup IMMEDIATE_DISABLE)
      BY <3>2, ListsGrow DEF Contains, All, USER_DISABLE
    <3> QED
      BY <1>1, <2>4, <3>3, MadsOutcome
  <2> QED
    BY <2>3, <2>4
<1> QED
  BY <1>2, <1>3

(* A soft disable is shown in its first frame, unless openpilot is engaged *)
(* and has not met it yet.                                                 *)
LEMMA FrameWarned ==
  ASSUME IInv, NEW in \in Inputs, Frame(in), Observe(in)
  PROVE WarnedInv'
<1>1. warned' = (/\ mads' = "softDisabling"
                 /\ "SOFT_DISABLE" \in alertTypes' \/ warned)
  BY DEF Observe
<1>2. warned' \in BOOLEAN
  BY <1>1
<1>3. SUFFICES ASSUME mads' = "softDisabling", ss' \notin {"preEnabled", "enabled", "overriding"}
      PROVE "SOFT_DISABLE" \in alertTypes'
  BY <1>1, <1>2 DEF WarnedInv
<1> DEFINE ev == SdEvents(in)
<1>4. initialized' /\ ss' \in {"disabled", "softDisabling"}
  BY <1>3, ClosedFrame, FrameIInv DEF IInv, TypeOK, States
<1>5. /\ ss' = NextState(ss, softTimer, ev)
      /\ alertTypes' = AlertTypes(ss, softTimer, ev)
                         \cup MadsAlertTypes(mads, mads', Ev(in), Sp(in), enabled')
      /\ enabled' = (ss' \in EnabledStates)
      /\ mads' = MadsNext(mads, NextTimer(ss, softTimer, ev), Ev(in), Sp(in), ModelStarting(in))
  BY <1>4, OpenFrame
<1>6. CASE ss' = "softDisabling"
  <2>1. ss # "disabled" /\ ~Contains(ev, IMMEDIATE_DISABLE \cup USER_DISABLE)
    BY <1>5, <1>6 DEF NextState, DisabledNext
  <2>2. ~Contains(ev, IMMEDIATE_DISABLE) /\ ~Contains(ev, USER_DISABLE)
    BY <2>1 DEF Contains
  <2>3. "SOFT_DISABLE" \in AlertTypes(ss, softTimer, ev)
    BY <1>5, <1>6, <2>1, <2>2 DEF AlertTypes
  <2> QED
    BY <1>5, <2>3
<1>7. CASE ss' = "disabled"
  <2>1. ~enabled'
    BY <1>5, <1>7 DEF EnabledStates, ActiveStates
  <2>2. /\ mads \notin {"disabled", "paused"}
        /\ ~Contains(Ev(in) \cup Sp(in), USER_DISABLE) /\ ~Contains(Ev(in) \cup Sp(in), IMMEDIATE_DISABLE)
    BY <1>3, <1>5 DEF MadsNext, MadsDisabledNext, MadsEngagedNext, Engages
  <2>3. "SOFT_DISABLE" \in MadsAlertTypes(mads, mads', Ev(in), Sp(in), enabled')
    BY <1>3, <2>1, <2>2 DEF MadsAlertTypes
  <2> QED
    BY <1>5, <2>3
<1> QED
  BY <1>4, <1>6, <1>7

(* A frame that ends lateral shows a disabling type, or ends a soft        *)
(* disable that was shown or that began under a pre-enabled openpilot.     *)
LEMMA FrameAnnounces ==
  ASSUME HInv, NEW in \in Inputs, Frame(in), madsActive, ~madsActive'
  PROVE \/ Contains(alertTypes', {"USER_DISABLE", "IMMEDIATE_DISABLE"})
        \/ mads = "softDisabling" /\ (warned \/ ss = "preEnabled")
<1>1. IInv /\ initialized' /\ mads \in MadsActiveStates
  BY AtWork, ActiveIsOn DEF HInv
<1>2. CASE Contains(All(in), USER_DISABLE \cup IMMEDIATE_DISABLE)
  BY <1>1, <1>2, DisablingIsShown
<1>3. CASE ~Contains(All(in), USER_DISABLE \cup IMMEDIATE_DISABLE)
  <2>1. mads = "softDisabling" /\ Contains(All(in), SOFT_DISABLE)
    BY <1>1, <1>3, MadsOutcome
  <2>2. warned \/ ss \in {"preEnabled", "enabled", "overriding"}
    BY <2>1 DEF HInv, WarnedInv
  <2> QED
    BY <1>1, <1>3, <2>1, <2>2, OpenpilotWarns
<1> QED
  BY <1>2, <1>3

(* What the ways out of lateral, and the refusals of it, are made of.      *)
LEMMA LateralRequests ==
  ASSUME NEW in, "canError" \notin in.hap, in.hap \subseteq CruiseHappenings,
         "gas" \in in.hap => toggles.disengageOnAccel = disengageOnAccelAtStart,
         ~MismatchReached(in)
  PROVE /\ SdEvents(in) \subseteq
             CruiseEnables \cup Stripped \cup
             {"wrongCarMode", "belowEngageSpeed", "tooDistracted", "gasPressedOverride", "preEnableStandstill"}
        /\ Ev(in) \subseteq
             CruiseEnables \cup {"belowEngageSpeed", "tooDistracted", "gasPressedOverride", "preEnableStandstill"}
        /\ Sp3(in) \subseteq {"lkasEnable"}
<1>1. in.hap \subseteq {"pcmEnable", "buttonEnable", "pcmDisable", "buttonCancel", "wrongCruiseMode",
                         "belowEngageSpeed", "refuseControls", "tooDistracted", "gas", "brake", "regen", "mainOff"}
  BY DEF CruiseHappenings
<1>2. /\ SteeringMode # "remainActive" => ~Braked(in.hap)
      /\ ~NoMainCruise => "mainOff" \notin in.hap
  BY DEF CruiseHappenings, Braked, Contains
<1>3. SdEvents(in) \subseteq
        CruiseEnables \cup Stripped \cup
        {"wrongCarMode", "belowEngageSpeed", "tooDistracted", "gasPressedOverride", "preEnableStandstill"}
  BY <1>1 DEF SdEvents, CarStateEvents, SystemEvents, SystemConditions, CarConditions, MismatchReached,
     CruiseEnables, Stripped
<1>4. First(in).events \subseteq SdEvents(in)
  BY FirstLists
<1>5. Ev(in) \subseteq
        CruiseEnables \cup {"belowEngageSpeed", "tooDistracted", "gasPressedOverride", "preEnableStandstill"}
  BY <1>3, <1>4 DEF Ev, EnablesLeft
<1>6. SpEvents(in) = {}
  BY <1>1 DEF SpEvents, CarStateEvents, CarConditions
<1>7. ASSUME NEW events \in SUBSET SdEvents(in), SteeringMode # "remainActive"
      PROVE ~BrakeEvent(in, csPrev, events)
  <2>1. SUFFICES ASSUME "pedalPressed" \in SdEvents(in)
        PROVE GasRises(in, csPrev) /\ disengageOnAccelAtStart
    BY DEF BrakeEvent
  <2>2. PedalPressed(in)
    BY <1>1, <2>1 DEF SdEvents, CarStateEvents, SystemEvents, SystemConditions, CarConditions
  <2> QED
    BY <1>2, <1>7, <2>2 DEF PedalPressed, GasRises, Braked, Contains
<1>8. First(in).sp = {}
  <2>1. Swapped(in, SdEvents(in)) = {}
    BY <1>3 DEF Swapped, SilentTwin, CruiseEnables, Stripped
  <2>2. SteeringMode = "pause" => ~BrakeEvent(in, csPrev, SdEvents(in))
    BY <1>7
  <2> QED
    BY <1>6, <2>1, <2>2 DEF First, LateralOnlyEvents
<1>9. Requests(in, csPrev, First(in).events, toggles, enabled') \subseteq {"lkasEnable"}
  BY <1>1, <1>2 DEF Requests, ButtonPress, MainOff
<1>10. BrakeEvents(in, csPrev, First(in).events, Sp1(in)) = {}
  BY <1>2, <1>4, <1>7 DEF BrakeEvents
<1>11. Sp2(in) \subseteq {"lkasEnable"}
  BY <1>8, <1>9, <1>10 DEF Sp1, Sp2
<1>12. Sp3(in) \subseteq {"lkasEnable"}
  BY <1>11 DEF Sp3, StockLkasEvents
<1> QED
  BY <1>3, <1>5, <1>12

(* A frame that is only about cruise gives MADS nothing to end lateral by. *)
LEMMA FrameOfCruise ==
  ASSUME IInv, NEW in \in Inputs, Frame(in), madsActive, OnlyCruise(in)
  PROVE madsActive'
<1>1. initialized' /\ mads \in MadsActiveStates /\ mads # "paused"
  BY AtWork, ActiveIsOn
<1>2. "canError" \notin in.hap /\ "refuseLateral" \notin in.hap
  BY DEF OnlyCruise, CruiseHappenings
<1>3. /\ Sp3(in) \subseteq {"lkasEnable"}
      /\ Ev(in) \subseteq
           CruiseEnables \cup {"belowEngageSpeed", "tooDistracted", "gasPressedOverride", "preEnableStandstill"}
  BY <1>2, LateralRequests DEF OnlyCruise
<1>4. ResumeEvents(in, csPrev, First(in).events, Sp3(in)) = {}
  BY <1>1 DEF ResumeEvents
<1>5. ~LateralRefused(in)
  <2>1. lateralMismatchCounter < LateralDisableFrames
    BY MadsAssumption DEF IInv, TypeOK, Coherent, MismatchDisengages
  <2> QED
    BY <1>2, <2>1, MadsAssumption DEF LateralRefused, LateralMismatch, IInv, TypeOK
<1>6. /\ ~Contains(All(in), USER_DISABLE \cup IMMEDIATE_DISABLE)
      /\ ~Contains(All(in), SOFT_DISABLE)
  BY <1>3, <1>4, <1>5 DEF All, Sp, Contains, CruiseEnables, USER_DISABLE, IMMEDIATE_DISABLE, SOFT_DISABLE
<1> QED
  BY <1>1, <1>6, MadsOutcome

(* It puts nothing on the lists but what ACC main may ask for.             *)
LEMMA QuietLists ==
  ASSUME NEW in, in.hap = {}, ~MismatchReached(in)
  PROVE Ev(in) = {} /\ First(in).events = {} /\ Sp3(in) \subseteq {"lkasEnable"}
<1>1. SdEvents(in) = {}
  BY DEF SdEvents, CarStateEvents, SystemEvents, PedalPressed, GasRises, MismatchReached
<1> QED
  BY <1>1, ListsGrow, FirstLists, LateralRequests

(* A frame that holds nothing resumes.                                     *)
LEMMA QuietFrame ==
  ASSUME IInv, NEW in \in Inputs, Frame(in), mads = "paused", in.hap = {}, ~MismatchReached(in)
  PROVE madsActive'
<1>1. initialized' /\ ~madsActive
  BY DEF IInv, Coherent, Frame, MadsActiveStates
<1>2. Ev(in) = {} /\ First(in).events = {} /\ Sp3(in) \subseteq {"lkasEnable"}
  BY QuietLists
<1>3. ResumeEvents(in, csPrev, First(in).events, Sp3(in)) = {"silentLkasEnable"}
  <2>1. ~PausedSilent(Sp3(in))
    BY <1>2 DEF PausedSilent, AllowPausedSilent, Contains
  <2> QED
    BY <1>2, <2>1 DEF ResumeEvents, BrakeEvent, Braked, Contains
<1>4. ~LateralRefused(in)
  BY <1>1, MadsAssumption DEF LateralRefused, LateralMismatch
<1>5. All(in) \subseteq {"lkasEnable", "silentLkasEnable"} /\ "silentLkasEnable" \in All(in)
  BY <1>2, <1>3, <1>4 DEF All, Sp
<1>6. /\ Contains(All(in), ENABLE)
      /\ ~Contains(All(in), USER_DISABLE \cup IMMEDIATE_DISABLE \cup NO_ENTRY)
  BY <1>5 DEF Contains, ENABLE, USER_DISABLE, IMMEDIATE_DISABLE, NO_ENTRY
<1> QED
  BY <1>1, <1>6, MadsOutcome

(* What the history says of a frame.                                       *)
LEMMA Observed ==
  ASSUME NEW in, Observe(in)
  PROVE /\ "onlyCruise" \in seen' => OnlyCruise(in)
        /\ "quiet" \in seen' => in.hap = {} /\ ~MismatchReached(in)
        /\ "lkasButton" \in in.hap => "lkasButton" \in seen'
        /\ Contains(in.hap, CruiseEnables) => "cruiseEnable" \in seen'
BY DEF Observe, Facts

(* A frame that holds nothing leaves no pause.                             *)
LEMMA FrameQuiet ==
  ASSUME IInv, NEW in \in Inputs, Frame(in), Observe(in)
  PROVE QuietInv'
<1>1. SUFFICES ASSUME in.hap = {}, ~MismatchReached(in), mads' = "paused", initialized'
      PROVE FALSE
  BY Observed, ClosedFrame DEF QuietInv
<1>2. ~madsActive'
  BY <1>1 DEF Frame, MadsActiveStates
<1>3. mads # "paused"
  BY <1>1, <1>2, QuietFrame
<1>4. ~madsActive
  BY <1>1, <1>2, FrameOfCruise DEF OnlyCruise
<1>5. mads = "disabled"
  BY <1>3, <1>4 DEF IInv, TypeOK, Coherent, MadsStates, MadsActiveStates
<1>6. Ev(in) = {} /\ Sp3(in) \subseteq {"lkasEnable"}
  BY <1>1, QuietLists
<1>7. ResumeEvents(in, csPrev, First(in).events, Sp3(in)) = {} /\ ~LateralRefused(in)
  BY <1>4, <1>5, MadsAssumption DEF ResumeEvents, LateralRefused, LateralMismatch
<1>8. ~Contains(All(in), NO_ENTRY)
  BY <1>6, <1>7 DEF All, Sp, Contains, NO_ENTRY
<1> QED
  BY <1>1, <1>5, <1>8, MadsOutcome

-----------------------------------------------------------------------------
(* The invariants.                                                         *)

LEMMA HInitHInv ==
  ASSUME HInit
  PROVE HInv
<1>1. IInv
  BY InitIInv DEF HInit
<1>2. ss = "disabled" /\ mads = "disabled" /\ mismatchCounter = 0 /\ lateralMismatchCounter = 0
  BY DEF HInit, Init
<1>3. HistoryInit
  BY DEF HInit
<1>4. SoftInv /\ WarnedInv /\ QuietInv
  BY <1>2, <1>3 DEF HistoryInit, SoftInv, SoftDisableFull, WarnedInv, QuietInv
<1>5. RefusedInv
  BY <1>2, <1>3, SelfdrivedAssumption, MadsAssumption DEF HistoryInit, RefusedInv, RefusalsBounded
<1>6. BrakeInv /\ MainInv /\ StockLkasOffHolds
  BY <1>3 DEF HistoryInit, BrakeInv, MainInv, MainOffEndsSteering, StockLkasOffHolds
<1> QED
  BY <1>1, <1>4, <1>5, <1>6 DEF HInv

(* Neither a toggle nor a frame breaks them.                               *)
LEMMA HNextHInv ==
  ASSUME HInv, [HNext]_hvars
  PROVE HInv'
<1>1. CASE \E in \in Inputs : Frame(in) /\ Observe(in)
  <2>1. PICK in \in Inputs : Frame(in) /\ Observe(in)
    BY <1>1
  <2>2. IInv'
    BY <2>1, FrameIInv DEF HInv
  <2>3. StockLkasOffHolds' /\ QuietInv' /\ WarnedInv'
    BY <2>1, FrameStock, FrameQuiet, FrameWarned DEF HInv
  <2> QED
    BY <2>1, <2>2, <2>3, FrameSoft, FrameRefused, FrameBrake, FrameMain DEF HInv
<1>2. ASSUME UNCHANGED historyVars, UNCHANGED <<ss, softTimer, enabled, mismatchCounter, csPrev, madsVars>>,
             IInv'
      PROVE HInv'
  BY <1>2 DEF historyVars, madsVars, HInv, SoftInv, SoftDisableFull, RefusedInv, RefusalsBounded,
     BrakeInv, MainInv, QuietInv, WarnedInv, MainOffEndsSteering, StockLkasOffHolds
<1>3. CASE ParamsThread /\ UNCHANGED historyVars
  BY <1>2, <1>3, ParamsThreadIInv DEF ParamsThread, HInv
<1>4. CASE UNCHANGED hvars
  <2>1. IInv'
    BY <1>4 DEF HInv, IInv, TypeOK, Coherent, MismatchDisengages, hvars, vars, sdVars, madsVars
  <2> QED
    BY <1>2, <1>4, <2>1 DEF hvars, vars, sdVars
<1> QED
  BY <1>1, <1>3, <1>4 DEF HNext

(* Every reachable state satisfies the strengthening.                      *)
THEOREM HistoryInvariance == HSpec => []HInv
BY HInitHInv, HNextHInv, PTL DEF HSpec

(* A soft disable of openpilot leaves the driver the whole of              *)
(* SOFT_DISABLE_TIME (state.py 53-58), although MADS writes the same timer *)
(* from its own machine (mads/state.py 93-98).                             *)
THEOREM SoftDisableIsFull == HSpec => []SoftDisableFull
<1>1. HInv => SoftDisableFull
  BY DEF HInv, SoftInv
<1> QED
  BY <1>1, HistoryInvariance, PTL

(* Neither openpilot nor MADS alone works through more refused frames in a *)
(* row than its bound, whatever the other side resets meanwhile            *)
(* (selfdrived.py 586-595, mads.py data_sample).                           *)
THEOREM RefusalsAreBounded == HSpec => []RefusalsBounded
<1>1. HInv => RefusalsBounded
  BY DEF HInv, RefusedInv
<1> QED
  BY <1>1, HistoryInvariance, PTL

(* With the brake set to pause or end lateral, MADS steers under the brake *)
(* of a moving car for at most two frames (mads.py 82-87), whichever way   *)
(* it was engaged and whatever the toggles do.                             *)
THEOREM BrakeEndsIt == HSpec => []BrakeEndsSteering
<1>1. HInv => BrakeEndsSteering
  BY DEF HInv, BrakeInv, BrakeEndsSteering
<1> QED
  BY <1>1, HistoryInvariance, PTL

(* Where ACC main is the only switch of MADS, lateral outlives it by at    *)
(* most one frame (mads.py update_events), although cruise may engage MADS *)
(* with main off.                                                          *)
THEOREM MainOffEndsIt == HSpec => []MainOffEndsSteering
<1>1. HInv => MainOffEndsSteering
  BY DEF HInv, MainInv
<1> QED
  BY <1>1, HistoryInvariance, PTL

(* No frame with the car's own lane keep switched off ends with MADS       *)
(* steering (update_stock_lkas, paused_silent).                            *)
THEOREM StockOffHolds == HSpec => []StockLkasOffHolds
<1>1. HInv => StockLkasOffHolds
  BY DEF HInv
<1> QED
  BY <1>1, HistoryInvariance, PTL

-----------------------------------------------------------------------------
(* The steps.                                                              *)

(* From disabled, lateral comes on by a request of its own.                *)
LEMMA FrameTurnsOn ==
  ASSUME IInv, NEW in \in Inputs, Frame(in), mads = "disabled", mads' # "disabled"
  PROVE \/ "lkasButton" \in in.hap
        \/ /\ ~ButtonOwnsLateral
           /\ \/ toggles.mainEnabled /\ "mainOff" \in csPrev \ csPrev'
              \/ toggles.unified /\ Contains(in.hap, CruiseEnables)
<1>1. initialized'
  BY ClosedFrame
<1>2. Contains(All(in), ENABLE)
  BY <1>1, MadsOutcome
<1>3. ResumeEvents(in, csPrev, First(in).events, Sp3(in)) = {}
  BY DEF ResumeEvents
<1>4. CASE Contains(Ev(in), ENABLE)
  <2>1. PICK e \in Ev(in) : e \in ENABLE
    BY <1>4 DEF Contains
  <2>2. e \in EnablesLeft(in, First(in).events, toggles, enabled', enabled) /\ e \in in.hap
    BY <2>1, Enablers
  <2>3. /\ ~UnifiedBlocked(toggles.unified, enabled', enabled)
        /\ e \in CruiseEnables
    BY <2>2 DEF EnablesLeft
  <2> QED
    BY <2>2, <2>3 DEF UnifiedBlocked, Contains
<1>5. CASE ~Contains(Ev(in), ENABLE)
  <2>1. "lkasEnable" \in Requests(in, csPrev, First(in).events, toggles, enabled')
    BY <1>2, <1>3, <1>5, Enablers DEF Contains, All
  <2>2. MainRises(in, csPrev, First(in).events, toggles) \/ ButtonPress(in)
    BY <2>1 DEF Requests
  <2>3. "mainOff" \in csPrev' <=> "mainOff" \in in.hap
    BY DEF Frame, Levels
  <2> QED
    BY <2>2, <2>3 DEF MainRises, ButtonPress
<1> QED
  BY <1>4, <1>5

(* A step of the machines is a frame or leaves MADS as it was.             *)
LEMMA HSteps ==
  ASSUME [HNext]_hvars
  PROVE \/ \E in \in Inputs : Frame(in) /\ Observe(in)
        \/ UNCHANGED <<mads, madsActive>>
BY DEF HNext, ParamsThread, madsVars, hvars, vars

(* Steering that ends is announced, in the frame that ends it or by the    *)
(* warning of the soft disable it ends (mads/state.py update), although    *)
(* MADS shows nothing of its own while openpilot is engaged; all but the   *)
(* soft disable of MADS under a pre-enabled openpilot (94-97), which warns *)
(* nobody.                                                                 *)
THEOREM LossIsAnnounced == HSpec => LateralLossAnnounced
<1>1. ASSUME HInv, [HNext]_hvars
      PROVE [madsActive /\ ~madsActive' =>
               \/ Contains(alertTypes', {"USER_DISABLE", "IMMEDIATE_DISABLE"})
               \/ mads = "softDisabling" /\ (warned \/ ss = "preEnabled")]_hvars
  BY <1>1, HSteps, FrameAnnounces
<1> QED
  BY <1>1, HistoryInvariance, PTL DEF HSpec, LateralLossAnnounced

(* What only concerns cruise never takes lateral away (update_events).     *)
THEOREM LateralIsLeft == HSpec => CruiseLeavesLateral
<1>1. ASSUME HInv, [HNext]_hvars
      PROVE [madsActive /\ "onlyCruise" \in seen' => madsActive']_hvars
  BY <1>1, HSteps, Observed, FrameOfCruise DEF HInv
<1> QED
  BY <1>1, HistoryInvariance, PTL DEF HSpec, CruiseLeavesLateral

(* A frame that holds nothing brings paused lateral back: no pause         *)
(* outlives its cause (should_silent_lkas_enable).                         *)
THEOREM PausesEnd == HSpec => PauseEndsWithItsCause
<1>1. ASSUME HInv, [HNext]_hvars
      PROVE [mads = "paused" /\ "quiet" \in seen' => madsActive']_hvars
  <2>1. SUFFICES ASSUME mads = "paused", "quiet" \in seen', HNext
        PROVE madsActive'
    BY <1>1
  <2>2. ASSUME NEW in \in Inputs, Frame(in), Observe(in)
        PROVE madsActive'
    BY <1>1, <2>1, <2>2, Observed, QuietFrame DEF HInv
  <2>3. ~(ParamsThread /\ UNCHANGED historyVars)
    BY <1>1, <2>1 DEF HInv, QuietInv, historyVars
  <2> QED
    BY <2>1, <2>2, <2>3 DEF HNext
<1> QED
  BY <1>1, HistoryInvariance, PTL DEF HSpec, PauseEndsWithItsCause

(* Lateral is turned on by its own requests only, and a declared button    *)
(* shuts out the others (block_unified_engagement_mode).                   *)
THEOREM LateralIsAskedFor == HSpec => LateralNeedsRequest
<1>1. ASSUME HInv, [HNext]_hvars
      PROVE [mads = "disabled" /\ mads' # "disabled" =>
               \/ "lkasButton" \in seen'
               \/ /\ ~ButtonOwnsLateral
                  /\ \/ toggles.mainEnabled /\ "mainOff" \in csPrev \ csPrev'
                     \/ toggles.unified /\ "cruiseEnable" \in seen']_hvars
  BY <1>1, HSteps, Observed, FrameTurnsOn DEF HInv
<1> QED
  BY <1>1, HistoryInvariance, PTL DEF HSpec, LateralNeedsRequest
=============================================================================
