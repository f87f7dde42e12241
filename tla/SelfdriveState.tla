--------------------------- MODULE SelfdriveState ---------------------------
(***************************************************************************)
(* The engagement state machine of openpilot proper                        *)
(* (selfdrive/selfdrived/state.py), as a function of its state, its soft-  *)
(* disable timer and the events of the frame.                              *)
(***************************************************************************)
EXTENDS Events

CONSTANT SoftDisableFrames    \* int(SOFT_DISABLE_TIME / DT_CTRL), 300

ASSUME SoftDisableFramesAssumption == SoftDisableFrames \in Nat \ {0}

States ==
  {"disabled", "preEnabled", "enabled", "softDisabling", "overriding"}

ActiveStates == {"enabled", "softDisabling", "overriding"}

EnabledStates == ActiveStates \cup {"preEnabled"}

Overridden(events) ==
  Contains(events, OVERRIDE_LATERAL) \/ Contains(events, OVERRIDE_LONGITUDINAL)

(* Mutant: the timer is not kept from running below zero. *)
TimerTickMutant(timer) == timer - 1

(* The timer runs down every frame, whatever the state. *)
TimerTick(timer) == IF timer = 0 THEN 0 ELSE timer - 1

(* Where an engaged machine goes when nothing disables it at once; t is    *)
(* the timer after this frame's tick.                                      *)
EngagedNext(state, t, events) ==
  CASE state \in {"enabled", "overriding"} /\ Contains(events, SOFT_DISABLE) ->
         "softDisabling"
    [] state \in {"enabled", "overriding"} /\ ~Contains(events, SOFT_DISABLE) ->
         IF Overridden(events) THEN "overriding" ELSE "enabled"
    [] state = "softDisabling" ->
         IF ~Contains(events, SOFT_DISABLE) THEN "enabled"
         ELSE IF t > 0 THEN "softDisabling" ELSE "disabled"
    [] OTHER -> IF Contains(events, PRE_ENABLE) THEN "preEnabled" ELSE "enabled"

DisabledNext(events) ==
  IF Contains(events, ENABLE) /\ ~Contains(events, NO_ENTRY)
  THEN IF Contains(events, PRE_ENABLE) THEN "preEnabled"
       ELSE IF Overridden(events) THEN "overriding" ELSE "enabled"
  ELSE "disabled"

NextState(state, timer, events) ==
  IF state = "disabled" THEN DisabledNext(events)
  ELSE IF Contains(events, IMMEDIATE_DISABLE \cup USER_DISABLE) THEN "disabled"
  ELSE EngagedNext(state, TimerTick(timer), events)

(* The timer is set on entry to softDisabling and only ticks otherwise. *)
NextTimer(state, timer, events) ==
  IF state # "softDisabling" /\ NextState(state, timer, events) = "softDisabling"
  THEN SoftDisableFrames
  ELSE TimerTick(timer)

(* current_alert_types, less PERMANENT and WARNING, which the machine adds *)
(* to every frame and to every active frame.                               *)
AlertTypes(state, timer, events) ==
  LET next == NextState(state, timer, events) IN
  CASE state = "disabled" ->
         IF ~Contains(events, ENABLE) THEN {}
         ELSE IF Contains(events, NO_ENTRY) THEN {"NO_ENTRY"} ELSE {"ENABLE"}
    [] state # "disabled" /\ Contains(events, IMMEDIATE_DISABLE) ->
         {"IMMEDIATE_DISABLE"}
    [] state # "disabled" /\ ~Contains(events, IMMEDIATE_DISABLE)
         /\ Contains(events, USER_DISABLE) -> {"USER_DISABLE"}
    [] OTHER ->
         (IF next = "softDisabling" THEN {"SOFT_DISABLE"} ELSE {})
         \cup (IF next = "overriding"
               THEN {"OVERRIDE_LATERAL", "OVERRIDE_LONGITUDINAL"} ELSE {})
         \cup (IF state = "preEnabled" /\ next = "preEnabled"
               THEN {"PRE_ENABLE"} ELSE {})
=============================================================================
