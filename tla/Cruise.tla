------------------------------- MODULE Cruise -------------------------------
(***************************************************************************)
(* The set speed of a car and its speed-limit session, as card works them  *)
(* out once per frame: CruiseArbiter (sunnypilot/selfdrive/car/            *)
(* cruise_arbiter.py), VCruiseHelperSP with the ICBM latch and the dash    *)
(* reconciler (cruise_ext.py) and VCruiseHelper (selfdrive/car/cruise.py). *)
(*                                                                         *)
(* Of the cars of Kinds, "openpilot" has no stock cruise and openpilot     *)
(* keeps the set speed; "stock" has a stock ACC whose set speed ICBM may   *)
(* move by sending button presses; "alpha" is such a car driven by         *)
(* openpilot's own longitudinal control.  A speed is a whole number of the *)
(* display's units, the finest the code tells apart; durations are frames. *)
(***************************************************************************)
EXTENDS Integers, FiniteSets, SequencesExt

CONSTANTS
  Kinds, Buttons,
  Limits, Offsets,       \* speed limits, and what the driver adds to one
  Dashes,                \* set speeds a stock ECU shows
  VMin, VMax, Unset,     \* V_CRUISE_MIN, V_CRUISE_MAX, V_CRUISE_UNSET
  VInitial, VEgo,        \* least speed to start from; the car's own speed
  LongStep,              \* what a held button steps by
  ConfirmThreshold,      \* CONFIRM_SPEED_THRESHOLD
  Agree,                 \* RECONCILE_AGREE_KPH
  GuardFrames, PromptFrames, DialFrames, SettleFrames,
  LongPressFrames,       \* the arbiter's LONG_PRESS_FRAMES, 49
  CruiseLongPress,       \* cruise.py's CRUISE_LONG_PRESS, 50
  Inputs,                \* the inputs that change, for a car of each kind
  MaxHeld                \* buttons held at a time

ASSUME CruiseAssumption ==
  /\ Kinds \subseteq {"openpilot", "stock", "alpha"}
  /\ Buttons \subseteq {"accel", "decel", "set", "resume", "cancel", "main"}
  /\ {"accel", "decel"} \subseteq Buttons
  /\ \A n \in {VMin, VInitial, VEgo, LongStep, CruiseLongPress, GuardFrames,
               PromptFrames, DialFrames, SettleFrames} : n \in Nat \ {0}
  /\ VMax \in Nat /\ Agree \in Nat /\ ConfirmThreshold \in Nat
  /\ VMin <= VInitial /\ VInitial <= VMax /\ Unset \in Nat /\ VMax < Unset
  /\ LongPressFrames \in 1 .. (CruiseLongPress - 1)
  /\ Offsets \subseteq Nat /\ Limits \subseteq Nat \ {0}
  /\ \A l \in Limits, o \in Offsets : l + o < Unset
  /\ Dashes \subseteq 0 .. VMax
  /\ MaxHeld \in Nat

VARIABLES
  kind,
  mode,          \* the param SpeedLimitMode is "assist" (arbiter.enabled)
  demanded,      \* icbm_latch.demanded, from the params
  icbm,          \* icbm_latch.active
  wheel,         \* buttons held down
  enabled,       \* carControl.enabled of the last frame (CC_prev)
  available,     \* CS.cruiseState.available
  road,          \* the resolver's speedLimit, speedLimitFinalLast, validity
  dash,          \* CS.cruiseState.speedCluster, 0 when nothing is set
  arb,           \* the arbiter
  vCruise,       \* v_cruise_kph; the cluster's copy is the same between frames
  enableTimers, buttonTimers, changed,
  enabledPrev,   \* the helper's, false until the engaging button is let go
  plusPrev,      \* accel or resume was in the last frame's events
  reconcile      \* reconcile_frames, reconcile_allowed, reconcile_floor

vars == <<kind, mode, demanded, icbm, wheel, enabled, available, road, dash,
          arb, vCruise, enableTimers, buttonTimers, changed, enabledPrev,
          plusPrev, reconcile>>

-----------------------------------------------------------------------------
Plus == {"accel", "resume"}
Minus == {"decel", "set"}
Steppers == {"accel", "decel"}

Lesser(x, y) == IF x <= y THEN x ELSE y
Greater(x, y) == IF x >= y THEN x ELSE y

Clip(v) == Greater(VMin, Lesser(v, VMax))
Apart(x, y) == Greater(x, y) - Lesser(x, y)
Tick(n) == IF n = 0 THEN 0 ELSE n - 1

PcmCruise == kind # "openpilot"

(* CruiseArbiter.applicable: not where the machine in plannerd owns it. *)
Applicable(active) == ~(kind = "alpha" /\ ~active)

-----------------------------------------------------------------------------
(* The arbiter's step.  s holds the arbiter a, the set speed v it may      *)
(* write, whether it did, the state before the frame and the cluster's     *)
(* speed; r is the resolver's message.                                     *)

LimitChanged(s, r) == r.has /\ r.limit # s.a.limitPrev

(* settle_conv: what a cap leaves the car at. *)
Settle(cap, cluster) == Lesser(cap, cluster)

SpeedMoves(s, r) == Settle(r.slf, s.cluster) # Settle(s.a.vCap, s.cluster)

Activate(s, r, fromPrompt) ==
  [s EXCEPT !.a.state = "active",
            !.a.announced = @ \/ fromPrompt \/ SpeedMoves(s, r)]

(* The cap stays what it was: the session's, or unset out of none. *)
EnterPrompt(s, r) ==
  IF r.slf = s.cluster THEN Activate(s, r, FALSE)
  ELSE [s EXCEPT !.a.state = "preActive", !.a.prompt = PromptFrames]

ConfirmNeeded(s, r) == s.cluster < ConfirmThreshold \/ r.slf < ConfirmThreshold

NoPress == [cls |-> "none", frames |-> 0, resolved |-> FALSE, released |-> FALSE]
Press(cls) == [NoPress EXCEPT !.cls = cls]

(* Mutant: the set speed is left where it was when a session ends.         *)
ReanchorMutant(s, r) == s

(* An openpilot-owned set speed starts from what the session held it to. *)
Reanchor(s, r) ==
  [s EXCEPT !.v = Lesser(s.v, r.slf), !.adopted = TRUE]

PressEdge(s, r, b) ==
  IF s.prev = "active"
  THEN LET owns == ~PcmCruise /\ s.a.vCap < Unset
           t == IF owns THEN Reanchor(s, r) ELSE s
       IN [t EXCEPT !.a.press[b] = Press(IF owns THEN "normal" ELSE "dismiss"),
                    !.a.state = "inactive", !.a.dismissed = TRUE,
                    !.a.intent = "dismiss"]
  ELSE [s EXCEPT !.a.press[b] =
                   Press(IF s.prev = "preActive" THEN "prompt" ELSE "normal")]

(* _resolve_prompt_press: toward the limit confirms, away from it declines.*)
Resolve(s, r, b) ==
  IF s.a.state # "preActive" THEN [s EXCEPT !.a.press[b].cls = "normal"]
  ELSE IF \/ b \in Plus /\ s.cluster < r.slf
          \/ b \in Minus /\ s.cluster > r.slf
  THEN LET raised == b \in Plus /\ r.slf > s.v
           t == [s EXCEPT !.a.press[b].resolved = TRUE,
                          !.a.intent = "confirm",
                          !.v = IF raised THEN r.slf ELSE @,
                          !.adopted = @ \/ raised]
       IN Activate(t, r, TRUE)
  ELSE [s EXCEPT !.a.press[b].cls = "normal",
                 !.a.intent = "decline", !.a.state = "inactive"]

Unresolved(s, b) ==
  s.a.press[b].cls = "prompt" /\ ~s.a.press[b].resolved /\ ~s.a.press[b].released

ReleaseEdge(s, r, b) ==
  IF s.a.press[b].cls = "none" THEN s
  ELSE LET t == IF Unresolved(s, b) THEN Resolve(s, r, b) ELSE s
           named == t.a.press[b].cls = "normal" /\ t.a.intent = "none"
       IN [t EXCEPT !.a.press[b].released = TRUE,
                    !.a.intent =
                      IF ~named THEN @
                      ELSE IF b \in Plus THEN "increment" ELSE "decrement"]

ButtonEvent(s, r, b) ==
  IF b \notin Plus \cup Minus THEN s
  ELSE LET t == [s EXCEPT !.a.dial = DialFrames]
       IN IF b \in wheel THEN ReleaseEdge(t, r, b) ELSE PressEdge(t, r, b)

(* One more frame of a held press, which resolves it when it gets long.    *)
(* Frames are counted while they are read.                                 *)
Held(s, r, b) ==
  IF ~Unresolved(s, b) THEN s
  ELSE LET t == [s EXCEPT !.a.press[b].frames = @ + 1]
       IN IF t.a.press[b].frames >= LongPressFrames THEN Resolve(t, r, b) ELSE t

(* _classify_presses: the events in their order, then the held presses, in *)
(* the order they began.                                                   *)
Classify(s, r, toggles, order) ==
  LET kept == [b \in Buttons |-> IF s.a.press[b].released THEN NoPress
                                 ELSE s.a.press[b]]
      edges[i \in 0 .. Len(toggles)] ==
        IF i = 0 THEN [s EXCEPT !.a.press = kept]
        ELSE ButtonEvent(edges[i - 1], r, toggles[i])
      holds[i \in 0 .. Len(order)] ==
        IF i = 0 THEN edges[Len(toggles)] ELSE Held(holds[i - 1], r, order[i])
  IN holds[Len(order)]

-----------------------------------------------------------------------------
(* The session machine, on what the presses left.                         *)

OnActive(s, r) ==
  IF LimitChanged(s, r) /\ ConfirmNeeded(s, r) THEN EnterPrompt(s, r)
  ELSE [s EXCEPT !.a.announced = @ \/ (LimitChanged(s, r) /\ SpeedMoves(s, r))]

OnPrompt(s, r) == IF s.a.prompt = 0 THEN [s EXCEPT !.a.state = "inactive"] ELSE s

(* Mutant: a cluster at the limit starts a session again after a dismissal.*)
DialledMutant(s, r) ==
  /\ r.has /\ r.slf = s.cluster /\ s.a.dial > 0
  /\ \A b \in Buttons : s.a.press[b].cls = "none"

(* The driver dialled the cluster onto the limit and has let go.           *)
Dialled(s, r) ==
  /\ ~s.a.dismissed
  /\ r.has /\ r.slf = s.cluster /\ s.a.dial > 0
  /\ \A b \in Buttons : s.a.press[b].cls = "none"

OnInactive(s, r) ==
  IF LimitChanged(s, r) THEN EnterPrompt([s EXCEPT !.a.dismissed = FALSE], r)
  ELSE IF Dialled(s, r) THEN Activate(s, r, FALSE)
  ELSE s

(* After engagement, or a change of the cluster, a guard runs first.       *)
OnDisabled(s, r) ==
  IF ~s.a.longPrev \/ s.cluster # s.a.clusterPrev
  THEN [s EXCEPT !.a.guard = GuardFrames]
  ELSE IF s.a.guard > 0 THEN s
  ELSE IF r.has THEN EnterPrompt(s, r)
  ELSE [s EXCEPT !.a.state = "inactive"]

Machine(s, r, long) ==
  CASE ~(long /\ mode) ->
         IF s.a.state = "disabled" THEN s
         ELSE [s EXCEPT !.a.state = "disabled", !.a.dismissed = FALSE]
    [] long /\ mode /\ s.a.state = "active" -> OnActive(s, r)
    [] long /\ mode /\ s.a.state = "preActive" -> OnPrompt(s, r)
    [] long /\ mode /\ s.a.state = "inactive" -> OnInactive(s, r)
    [] long /\ mode /\ s.a.state = "disabled" -> OnDisabled(s, r)

(* What the session caps the plan at; a prompt keeps the cap it found.     *)
Published(s, r, long) ==
  [s EXCEPT !.a.vCap = IF s.a.state = "active" THEN IF r.has THEN r.slf ELSE Unset
                       ELSE IF s.a.state = "preActive" THEN @ ELSE Unset,
            !.a.limitPrev = r.limit, !.a.longPrev = long,
            !.a.clusterPrev = s.cluster]

Step(a, r, long, toggles, order) ==
  LET s0 == [a |-> [a EXCEPT !.intent = "none", !.announced = FALSE],
             v |-> vCruise, adopted |-> FALSE, prev |-> a.state,
             cluster |-> IF vCruise = Unset THEN 0 ELSE vCruise]
      s1 == Classify(s0, r, toggles, order)
      s2 == [s1 EXCEPT !.a.guard = Tick(@), !.a.prompt = Tick(@), !.a.dial = Tick(@)]
  IN Published(Machine(s2, r, long), r, long)

-----------------------------------------------------------------------------
(* The helper.  A frame's inputs are a record in.                          *)

(* A running timer, counted no further than its multiples of               *)
(* CruiseLongPress tell apart.                                             *)
Run(t) == IF t = 2 * CruiseLongPress THEN CruiseLongPress + 1 ELSE t + 1

Timed(timers, toggles) ==
  [b \in DOMAIN timers |->
     IF b \in ToSet(toggles) THEN IF b \in wheel THEN 0 ELSE 1
     ELSE IF timers[b] > 0 THEN Run(timers[b]) ELSE 0]

(* Mutant: the latch moves with a button down.                             *)
LatchFreeMutant(in) == ~in.enabled /\ "stockOn" \notin in.hap

LatchFree(in) ==
  /\ ~in.enabled /\ "stockOn" \notin in.hap
  /\ in.toggles = <<>> /\ \A b \in Buttons : enableTimers[b] = 0

(* The cars that have ICBM follow the demand, while all is quiet.          *)
LatchAfter(in) ==
  IF kind # "openpilot" /\ LatchFree(in) THEN demanded ELSE icbm

(* Under ICBM "enabled" waits for the engaging button to be let go.        *)
EnabledPrevAfter(in, active, timers) ==
  IF ~(PcmCruise /\ active) THEN enabledPrev
  ELSE IF ~in.enabled THEN FALSE
  ELSE enabledPrev \/ \A b \in Buttons : timers[b] = 0

LongEnabled(in, active) ==
  in.enabled /\ (PcmCruise /\ active => enabledPrev)

(* Mutant: only a dismissing press is kept from stepping.                  *)
PressOwnedMutant(a, b) == a.press[b].cls = "dismiss"

(* Mutant: only a confirming press is kept from stepping.                  *)
PressOwnedMutantDismiss(a, b) == a.press[b].cls = "prompt" /\ a.press[b].resolved

PressOwned(a, b) ==
  a.press[b].cls = "dismiss" \/ (a.press[b].cls = "prompt" /\ a.press[b].resolved)

(* The button whose step this frame makes, as a set: the first one let go, *)
(* unless it was held long, or else one that a held tick is due for.       *)
StepsOf(in) ==
  LET let == {i \in DOMAIN in.toggles : in.toggles[i] \in wheel \cap Steppers}
      due == {b \in Steppers : /\ buttonTimers[b] > 0
                               /\ buttonTimers[b] % CruiseLongPress = 0}
  IN IF let # {}
     THEN {st \in {[b |-> in.toggles[Min(let)], long |-> FALSE]} :
             buttonTimers[st.b] <= CruiseLongPress}
     ELSE {[b |-> b, long |-> TRUE] : b \in IF "decel" \in due THEN {"decel"} ELSE due}

(* A held press goes to the grid first when it stands between two lines.   *)
Stepped(v, st) ==
  IF st.long /\ v % LongStep # 0
  THEN (v \div LongStep + IF st.b = "accel" THEN 1 ELSE 0) * LongStep
  ELSE LET d == IF st.long THEN LongStep ELSE 1
       IN IF st.b = "accel" THEN v + d ELSE v - d

(* _update_v_cruise_non_pcm *)
Incremented(in, v, a) ==
  LET steps == {st \in StepsOf(in) :
                  /\ st.b = "accel" => ~changed[st.b].standstill
                                       /\ "standstill" \notin in.hap
                  /\ changed[st.b].enabled
                  /\ ~PressOwned(a, st.b)}
      floor(st, x) == IF "gas" \in in.hap /\ ~PcmCruise /\ st.b = "decel"
                      THEN Greater(x, VEgo) ELSE x
  IN IF steps = {} THEN v
     ELSE LET st == CHOOSE x \in steps : TRUE
          IN Clip(floor(st, Stepped(v, st)))

(* update_v_cruise from the arbiter's result s, then initialize_v_cruise.  *)
SetSpeed(in, s, active, long) ==
  LET adopted == IF s.adopted THEN Clip(s.v) ELSE vCruise
      own == ~PcmCruise \/ (active /\ long)
      stepped == IF ~in.available THEN Unset
                 ELSE IF own THEN IF long THEN Incremented(in, adopted, s.a)
                                  ELSE adopted
                 ELSE IF in.dash = 0 THEN Unset ELSE in.dash
  IN IF PcmCruise \/ ~in.enabled \/ enabled THEN stepped
     ELSE IF plusPrev /\ stepped # Unset THEN vCruise
     ELSE Lesser(Greater(VEgo, VInitial), VMax)

-----------------------------------------------------------------------------
(* The reconciler: around a press the dash is the truth of an ICBM car's   *)
(* set speed v.  r is its state, a the arbiter after the frame's step,     *)
(* timers those of the frame.                                              *)

(* Mutant: a prompt that is open does not keep the dash from being taken.  *)
RegimeMutant(in, a) == "limited" \notin in.hap

(* The plan follows cruise, ICBM is not at work and no prompt is open.     *)
Regime(in, a) == "limited" \notin in.hap /\ a.state # "preActive"

(* Mutant: the floor waits for the regime as adoption does.                *)
FloorDueMutant(in, a) == "limited" \notin in.hap /\ a.state # "preActive"

(* The floor waits for nothing but an open prompt.                         *)
FloorDue(in, a) == a.state # "preActive"

(* The verdict on a press, from the dash before the press moves it.        *)
Agrees(in, v) ==
  \/ Apart(in.dash, v) <= Agree
  \/ arb.state = "active" /\ Apart(in.dash, in.road.slf) <= Agree

Reconciled(in, r, v, a, timers) ==
  LET pressed == \E b \in Steppers : timers[b] > 0
      starts == \E b \in Steppers : timers[b] = 1
      r1 == [frames |-> IF pressed THEN SettleFrames ELSE r.frames - 1,
             allowed |-> IF starts THEN Agrees(in, v) ELSE r.allowed,
             floor |-> r.floor \/ (a.intent = "dismiss" /\ timers["decel"] = 1)]
      v1 == IF r1.allowed /\ Regime(in, a) /\ in.dash > 0 THEN Clip(in.dash) ELSE v
      settles == r1.floor /\ r1.frames = 0
      v2 == IF settles /\ FloorDue(in, a) /\ in.dash > 0
            THEN Lesser(v1, Clip(in.dash)) ELSE v1
  IN IF ~in.available \/ v = Unset
     THEN [v |-> v, r |-> [r EXCEPT !.frames = 0, !.floor = FALSE]]
     ELSE IF ~pressed /\ r.frames = 0 THEN [v |-> v, r |-> r]
     ELSE [v |-> v2, r |-> [r1 EXCEPT !.floor = @ /\ ~settles]]

-----------------------------------------------------------------------------
ClearReconcile == [frames |-> 0, allowed |-> FALSE, floor |-> FALSE]

Road0 == [limit |-> 0, slf |-> 0, has |-> FALSE]

Init ==
  /\ kind \in Kinds
  /\ mode = TRUE
  /\ icbm = (kind # "openpilot") /\ demanded = icbm
  /\ wheel = {} /\ enabled = FALSE /\ available = TRUE
  /\ road \in {Road0} \cup {[limit |-> l, slf |-> l + o, has |-> TRUE] :
                            l \in Limits, o \in Offsets}
  /\ dash \in IF PcmCruise THEN Dashes ELSE {0}
  /\ arb = [state |-> "disabled", vCap |-> Unset, intent |-> "none",
            announced |-> FALSE, limitPrev |-> 0, longPrev |-> FALSE,
            guard |-> 0, prompt |-> 0, dial |-> 0, dismissed |-> FALSE,
            clusterPrev |-> 0, press |-> [b \in Buttons |-> NoPress]]
  /\ vCruise = Unset
  /\ enableTimers = [b \in Buttons |-> 0]
  /\ buttonTimers = [b \in Steppers |-> 0]
  /\ changed = [b \in Steppers |-> [standstill |-> FALSE, enabled |-> FALSE]]
  /\ enabledPrev = FALSE /\ plusPrev = FALSE
  /\ reconcile = ClearReconcile

(* set_icbm_active: the arbiter after the latch moved to active.           *)
HandedOver(a, active) ==
  IF Applicable(active) = Applicable(icbm) THEN a
  ELSE [a EXCEPT !.state = "disabled", !.vCap = Unset,
                 !.press = [b \in Buttons |-> NoPress]]

Toggled(bs) == (wheel \cup bs) \ (wheel \cap bs)

(* card.state_update: one frame of card.  In the frame of a handover the   *)
(* code's arbiter still holds the limit it had before; it is disabled      *)
(* then, and a disabled arbiter does not compare limits.                   *)
Frame(in) ==
  LET active == LatchAfter(in)
      timers == Timed(enableTimers, in.toggles)
      long == LongEnabled(in, active)
      a0 == HandedOver(arb, active)
      s == IF Applicable(active)
           THEN Step(a0, in.road, long, in.toggles, in.order)
           ELSE [a |-> a0, v |-> vCruise, adopted |-> FALSE]
      v == SetSpeed(in, s, active, long)
      r == IF s.adopted \/ active # icbm THEN ClearReconcile ELSE reconcile
      rec == IF active THEN Reconciled(in, r, v, s.a, timers)
             ELSE [v |-> v, r |-> r]
      touched == {b \in Steppers : b \in ToSet(in.toggles)}
  IN /\ wheel' = Toggled(ToSet(in.toggles))
     /\ enabled' = in.enabled /\ available' = in.available
     /\ road' = in.road /\ dash' = in.dash
     /\ icbm' = active
     /\ enableTimers' = timers
     /\ enabledPrev' = EnabledPrevAfter(in, active, timers)
     /\ arb' = s.a
     /\ vCruise' = rec.v /\ reconcile' = rec.r
     /\ IF PcmCruise /\ ~active THEN UNCHANGED <<buttonTimers, changed>>
        ELSE /\ buttonTimers' = Timed(buttonTimers, in.toggles)
             /\ changed' = [b \in Steppers |->
                  IF b \in touched
                  THEN [standstill |-> "standstill" \in in.hap,
                        enabled |-> in.enabled]
                  ELSE changed[b]]
     /\ plusPrev' = (ToSet(in.toggles) \cap Plus # {})
     /\ UNCHANGED <<kind, mode, demanded>>

(* card's params thread. *)
ReadParams ==
  /\ \/ "mode" \in Inputs[kind] /\ mode' = ~mode /\ UNCHANGED demanded
     \/ /\ "demand" \in Inputs[kind] /\ kind # "openpilot"
        /\ demanded' = ~demanded /\ UNCHANGED mode
  /\ UNCHANGED <<kind, icbm, wheel, enabled, available, road, dash, arb, vCruise,
                 enableTimers, buttonTimers, changed, enabledPrev, plusPrev,
                 reconcile>>

-----------------------------------------------------------------------------
(* What changes in a frame: nothing, a button, an input or an input with a *)
(* button, or one button after another.  The resolver forgets a limit it   *)
(* loses but for the last target; openpilot engages with the cruise        *)
(* available only.                                                         *)

Happenings == {"stockOn", "limited", "standstill", "gas"}
FrameInputs == {"enabled", "available", "road", "dash"} \cup Happenings

Roads ==
  {rd \in {[limit |-> l, slf |-> l + o, has |-> TRUE] :
             l \in Limits, o \in Offsets} : rd # road}
    \cup {[road EXCEPT !.limit = 0]}

(* A stock set speed moves by steps of ICBM's or the driver's.             *)
DashesNear == {d \in Dashes : Apart(d, dash) <= LongStep \/ ~available}

ButtonOrder == SetToSeq(Buttons \cap (Plus \cup Minus))

(* Two presses of the same age may become long in either order.            *)
Orders ==
  LET one == ButtonOrder
  IN IF \E b \in wheel \cap Plus, c \in wheel \cap Minus :
          arb.press[b].frames = arb.press[c].frames /\ arb.press[b].frames > 0
     THEN {one, Reverse(one)} ELSE {one}

Changes ==
  [k \in Kinds |->
    UNION {{[what |-> ch, toggles |-> t] : t \in SetToSeqs(ch \cap Buttons)} :
             ch \in {x \in SUBSET (Buttons \cup (Inputs[k] \cap FrameInputs)) :
                       Cardinality(x) <= 2 /\ Cardinality(x \ Buttons) <= 1}}]

(* A passing condition is enumerated in the frames that read it.           *)
Read(ch) ==
  /\ "gas" \in ch => "decel" \in wheel
  /\ "standstill" \in ch => "accel" \in wheel \cup ch
  /\ "limited" \in ch => reconcile.frames > 0 \/ (wheel \cup ch) \cap Buttons # {}
  /\ "stockOn" \in ch => icbm # demanded

CardFrame ==
  \E c \in Changes[kind] : LET ch == c.what IN
  /\ Read(ch)
  /\ Cardinality(Toggled(ch \cap Buttons)) <= MaxHeld
  /\ \E order \in Orders,
        rd \in IF "road" \in ch THEN Roads ELSE {road},
        d \in IF "dash" \in ch /\ PcmCruise THEN DashesNear ELSE {dash} :
       LET in == [toggles |-> c.toggles, order |-> order,
                  hap |-> ch \cap Happenings,
                  enabled |-> enabled # ("enabled" \in ch),
                  available |-> available # ("available" \in ch),
                  road |-> rd, dash |-> d]
       IN (in.enabled /\ ~enabled => in.available) /\ Frame(in)

Next == CardFrame \/ ReadParams

Spec == Init /\ [][Next]_vars

-----------------------------------------------------------------------------
(* Properties.                                                             *)

(* What the plan follows: the set speed under the session's cap. *)
Followed == Lesser(vCruise, arb.vCap)

(* A car whose set speed openpilot keeps goes faster for these reasons     *)
(* only: it is engaged, or its ACC main comes; the driver lets a button go *)
(* or holds one long; the session's own limit rises, or what the driver    *)
(* adds to the limit; the session or its prompt ends by itself.  Least of  *)
(* all because a press has just ended it.                                  *)
FasterForCause ==
  [][(kind = "openpilot" /\ vCruise # Unset /\ Followed' > Followed) =>
       \/ ~enabled \/ ~enabled' \/ ~available \/ ~available'
       \/ wheel \ wheel' # {} \/ arb'.intent = "confirm"
       \/ \E b \in wheel : buttonTimers[b] >= LongPressFrames
       \/ road' # road /\ arb'.state = "active"
       \/ road'.limit = road.limit /\ road'.slf > road.slf
       \/ arb.state = "preActive" /\ arb'.state = "inactive"
       \/ arb'.state = "disabled"]_vars

(* A press that has confirmed a limit has said all it says: while it is    *)
(* held and until it is let go the set speed stays, ticks and release      *)
(* included.                                                               *)
ConfirmSaysAll ==
  [][(/\ \E b \in Steppers :
           /\ arb.press[b].resolved /\ ~arb.press[b].released
           /\ b \in wheel /\ wheel' \ {b} = {} /\ wheel = {b}
      /\ enabled /\ enabled' /\ available /\ available' /\ kind = "openpilot")
       => vCruise' = vCruise]_vars

(* A session the driver ended stays ended: no prompt and no session until  *)
(* the limit changes or openpilot is engaged again.                        *)
DismissedStays ==
  [][(arb.dismissed /\ arb.state = "inactive" /\ road'.limit = arb.limitPrev)
       => arb'.state \in {"inactive", "disabled"}]_vars

(* While a prompt is open the dash is not taken for the driver's answer:   *)
(* with no button let go or held long the set speed of an ICBM car stays.  *)
PromptFreezes ==
  [][(/\ kind # "openpilot" /\ icbm /\ enabled /\ enabledPrev /\ enabled'
      /\ available /\ available' /\ arb.state = "preActive"
      /\ arb'.state = "preActive" /\ wheel \subseteq wheel'
      /\ arb'.intent # "confirm"
      /\ \A b \in wheel : buttonTimers[b] % CruiseLongPress # 0)
       => vCruise' = vCruise]_vars

(* Slower is slower: when the dash has settled after a minus press that    *)
(* ended a session, the set speed ICBM goes back to is not above it.       *)
SlowerSettles ==
  [][(/\ reconcile.floor /\ ~reconcile'.floor /\ available' /\ dash' > 0
      /\ icbm /\ icbm' /\ enabled' /\ arb'.state # "preActive"
      /\ arb'.intent # "confirm")
       => vCruise' <= Clip(dash')]_vars

(* A press that ends a session of an ICBM car is the ECU's alone to step   *)
(* on: while it lasts the set speed stays or becomes the dash's.           *)
DismissIsTheEcus ==
  [][(/\ kind # "openpilot" /\ icbm /\ enabled /\ enabledPrev /\ enabled'
      /\ available /\ available'
      /\ \E b \in Steppers : arb'.press[b].cls = "dismiss" /\ wheel \cup wheel' = {b})
       => vCruise' \in {vCruise, Clip(dash')}]_vars

(* The timers of the steps and the wheel agree whenever openpilot steps,   *)
(* however often ICBM came and went: no tick without a finger on a button. *)
TimersMatchWheel ==
  \A b \in Steppers :
    /\ buttonTimers[b] > 0 => b \in wheel
    /\ ~PcmCruise \/ icbm => buttonTimers[b] = enableTimers[b]

(* What the arbiter's test promises of a limit the map loses for a while:  *)
(* the session survives.                                                   *)
DropoutHoldsSession ==
  [][(/\ arb.state = "active" /\ road.limit > 0 /\ road' = [road EXCEPT !.limit = 0]
      /\ wheel' = wheel /\ arb'.longPrev /\ mode)
       => arb'.state = "active"]_vars
=============================================================================
