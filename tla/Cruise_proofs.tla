--------------------------- MODULE Cruise_proofs ---------------------------
(***************************************************************************)
(* What the set speed and its session promise, for any speeds, limits,     *)
(* timers and inputs of card.                                              *)
(***************************************************************************)
EXTENDS Cruise, FiniteSetTheorems, WellFoundedInduction, TLAPS

-----------------------------------------------------------------------------
(* Folds.                                                                  *)

(* A nonempty set of naturals has a least element.                         *)
LEMMA NatMin ==
  ASSUME NEW T, T \subseteq Nat, T # {}
  PROVE \E x \in T : \A y \in T : x <= y
<1> DEFINE R == OpToRel(<, Nat)
<1>1. IsWellFoundedOn(R, Nat)
  BY NatLessThanWellFounded
<1>2. \A x, y \in Nat : x < y => <<x, y>> \in R
  BY DEF OpToRel
<1> HIDE DEF R
<1>3. \E x \in T : \A y \in T : ~ (<<y, x>> \in R)
  BY <1>1, WFMin
<1>4. PICK x \in T : \A y \in T : ~ (<<y, x>> \in R)
  BY <1>3
<1>5. \A y \in T : ~(y < x)
  BY <1>2, <1>4
<1>6. \A y \in T : x \in Nat /\ y \in Nat
  BY <1>4
<1>7. \A y \in T : x <= y
  BY <1>5, <1>6
<1> QED
  BY <1>4, <1>7

(* The two folds of _classify_presses: over the events, over the presses.  *)
EdgesOf(s, r, toggles) ==
  LET edges[i \in 0 .. Len(toggles)] ==
        IF i = 0 THEN s ELSE ButtonEvent(edges[i - 1], r, toggles[i])
  IN edges[Len(toggles)]

HoldsOf(s, r, order) ==
  LET holds[i \in 0 .. Len(order)] ==
        IF i = 0 THEN s ELSE Held(holds[i - 1], r, order[i])
  IN holds[Len(order)]

(* A fold over the events goes through any sets that each event leads      *)
(* through.                                                                *)
LEMMA EdgesStay ==
  ASSUME NEW T, NEW s \in T[0], NEW r, NEW toggles \in Seq(Buttons),
         \A i \in 1 .. Len(toggles) : \A t \in T[i - 1] : ButtonEvent(t, r, toggles[i]) \in T[i]
  PROVE EdgesOf(s, r, toggles) \in T[Len(toggles)]
<1> DEFINE n == Len(toggles)
           Body(f, i) == IF i = 0 THEN s ELSE ButtonEvent(f[i - 1], r, toggles[i])
           Upto(m) == \E f : f = [i \in 0 .. m |-> Body(f, i)]
           fold == CHOOSE f : f = [i \in 0 .. n |-> Body(f, i)]
<1>1. n \in Nat
  OBVIOUS
<1>2. \A m \in 0 .. n : Upto(m)
  <2>1. SUFFICES ASSUME {m \in 0 .. n : ~Upto(m)} # {} PROVE FALSE
    OBVIOUS
  <2>2. PICK m \in {x \in 0 .. n : ~Upto(x)} :
               \A y \in {x \in 0 .. n : ~Upto(x)} : m <= y
    <3>1. {x \in 0 .. n : ~Upto(x)} \subseteq Nat
      BY <1>1
    <3> HIDE DEF Upto
    <3> QED
      BY <2>1, <3>1, NatMin
  <2>3. m # 0
    <3>1. SUFFICES ASSUME m = 0 PROVE Upto(0)
      BY <2>2
    <3> DEFINE f0 == [i \in 0 .. 0 |-> s]
    <3>2. f0 = [i \in 0 .. 0 |-> Body(f0, i)]
      OBVIOUS
    <3> QED
      BY <3>2
  <2>4. Upto(m - 1)
    <3> HIDE DEF Upto
    <3> QED
      BY <1>1, <2>2, <2>3
  <2>5. PICK f : f = [i \in 0 .. (m - 1) |-> Body(f, i)]
    BY <2>4
  <2> DEFINE g == [i \in 0 .. m |-> IF i = m THEN ButtonEvent(f[m - 1], r, toggles[m]) ELSE f[i]]
  <2>6. m \in 1 .. n
    BY <1>1, <2>2, <2>3
  <2>7. \A i \in 0 .. (m - 1) : f[i] = Body(f, i)
    BY <2>5
  <2>8. g = [i \in 0 .. m |-> Body(g, i)]
    BY <1>1, <2>6, <2>7
  <2> QED
    BY <2>2, <2>8
<1>3. fold = [i \in 0 .. n |-> Body(fold, i)]
  BY <1>1, <1>2
<1>4. \A i \in 0 .. n : fold[i] = Body(fold, i)
  BY <1>3
<1> HIDE DEF fold
<1>5. \A i \in 0 .. n : fold[i] \in T[i]
  <2>1. SUFFICES ASSUME {i \in 0 .. n : fold[i] \notin T[i]} # {} PROVE FALSE
    OBVIOUS
  <2>2. PICK m \in {i \in 0 .. n : fold[i] \notin T[i]} :
               \A y \in {i \in 0 .. n : fold[i] \notin T[i]} : m <= y
    <3>1. {i \in 0 .. n : fold[i] \notin T[i]} \subseteq Nat
      BY <1>1
    <3> QED
      BY <2>1, <3>1, NatMin
  <2>3. m # 0
    BY <1>1, <1>4, <2>2
  <2>4. m - 1 \in 0 .. n /\ m \in 1 .. n /\ ~(m <= m - 1)
    BY <1>1, <2>2, <2>3
  <2>5. fold[m - 1] \in T[m - 1]
    BY <2>2, <2>4
  <2>6. fold[m] \in T[m]
    BY <1>1, <1>4, <2>3, <2>4, <2>5
  <2> QED
    BY <2>2, <2>6
<1>6. fold[n] \in T[n]
  BY <1>1, <1>5
<1> QED
  BY <1>6 DEF fold, EdgesOf

(* So does the fold over the held presses.                                 *)
LEMMA HoldsStay ==
  ASSUME NEW T, NEW s \in T[0], NEW r, NEW order \in Seq(Buttons),
         \A i \in 1 .. Len(order) : \A t \in T[i - 1] : Held(t, r, order[i]) \in T[i]
  PROVE HoldsOf(s, r, order) \in T[Len(order)]
<1> DEFINE n == Len(order)
           Body(f, i) == IF i = 0 THEN s ELSE Held(f[i - 1], r, order[i])
           Upto(m) == \E f : f = [i \in 0 .. m |-> Body(f, i)]
           fold == CHOOSE f : f = [i \in 0 .. n |-> Body(f, i)]
<1>1. n \in Nat
  OBVIOUS
<1>2. \A m \in 0 .. n : Upto(m)
  <2>1. SUFFICES ASSUME {m \in 0 .. n : ~Upto(m)} # {} PROVE FALSE
    OBVIOUS
  <2>2. PICK m \in {x \in 0 .. n : ~Upto(x)} :
               \A y \in {x \in 0 .. n : ~Upto(x)} : m <= y
    <3>1. {x \in 0 .. n : ~Upto(x)} \subseteq Nat
      BY <1>1
    <3> HIDE DEF Upto
    <3> QED
      BY <2>1, <3>1, NatMin
  <2>3. m # 0
    <3>1. SUFFICES ASSUME m = 0 PROVE Upto(0)
      BY <2>2
    <3> DEFINE f0 == [i \in 0 .. 0 |-> s]
    <3>2. f0 = [i \in 0 .. 0 |-> Body(f0, i)]
      OBVIOUS
    <3> QED
      BY <3>2
  <2>4. Upto(m - 1)
    <3> HIDE DEF Upto
    <3> QED
      BY <1>1, <2>2, <2>3
  <2>5. PICK f : f = [i \in 0 .. (m - 1) |-> Body(f, i)]
    BY <2>4
  <2> DEFINE g == [i \in 0 .. m |-> IF i = m THEN Held(f[m - 1], r, order[m]) ELSE f[i]]
  <2>6. m \in 1 .. n
    BY <1>1, <2>2, <2>3
  <2>7. \A i \in 0 .. (m - 1) : f[i] = Body(f, i)
    BY <2>5
  <2>8. g = [i \in 0 .. m |-> Body(g, i)]
    BY <1>1, <2>6, <2>7
  <2> QED
    BY <2>2, <2>8
<1>3. fold = [i \in 0 .. n |-> Body(fold, i)]
  BY <1>1, <1>2
<1>4. \A i \in 0 .. n : fold[i] = Body(fold, i)
  BY <1>3
<1> HIDE DEF fold
<1>5. \A i \in 0 .. n : fold[i] \in T[i]
  <2>1. SUFFICES ASSUME {i \in 0 .. n : fold[i] \notin T[i]} # {} PROVE FALSE
    OBVIOUS
  <2>2. PICK m \in {i \in 0 .. n : fold[i] \notin T[i]} :
               \A y \in {i \in 0 .. n : fold[i] \notin T[i]} : m <= y
    <3>1. {i \in 0 .. n : fold[i] \notin T[i]} \subseteq Nat
      BY <1>1
    <3> QED
      BY <2>1, <3>1, NatMin
  <2>3. m # 0
    BY <1>1, <1>4, <2>2
  <2>4. m - 1 \in 0 .. n /\ m \in 1 .. n /\ ~(m <= m - 1)
    BY <1>1, <2>2, <2>3
  <2>5. fold[m - 1] \in T[m - 1]
    BY <2>2, <2>4
  <2>6. fold[m] \in T[m]
    BY <1>1, <1>4, <2>3, <2>4, <2>5
  <2> QED
    BY <2>2, <2>6
<1>6. fold[n] \in T[n]
  BY <1>1, <1>5
<1> QED
  BY <1>6 DEF fold, HoldsOf

(* A frame's presses: those let go in the frame before are forgotten, the  *)
(* events lead through T and the held presses stay where they end.         *)
Kept(s) ==
  [s EXCEPT !.a.press = [b \in Buttons |-> IF s.a.press[b].released THEN NoPress
                                          ELSE s.a.press[b]]]

LEMMA ClassifyStays ==
  ASSUME NEW T, NEW s, NEW r, NEW toggles \in Seq(Buttons), NEW order \in Seq(Buttons),
         Kept(s) \in T[0],
         \A i \in 1 .. Len(toggles) : \A t \in T[i - 1] : ButtonEvent(t, r, toggles[i]) \in T[i],
         \A t \in T[Len(toggles)], b \in Buttons : Held(t, r, b) \in T[Len(toggles)]
  PROVE Classify(s, r, toggles, order) \in T[Len(toggles)]
<1> DEFINE t1 == EdgesOf(Kept(s), r, toggles)
<1>1. Classify(s, r, toggles, order) = HoldsOf(t1, r, order)
  BY DEF Classify, HoldsOf, EdgesOf, Kept
<1>2. t1 \in T[Len(toggles)]
  BY EdgesStay
<1> HIDE DEF t1
<1> DEFINE S == [i \in Nat |-> T[Len(toggles)]]
<1>3. /\ t1 \in S[0]
      /\ \A i \in 1 .. Len(order) : \A t \in S[i - 1] : Held(t, r, order[i]) \in S[i]
  BY <1>2
<1>4. Len(order) \in Nat /\ S[Len(order)] = T[Len(toggles)]
  OBVIOUS
<1> HIDE DEF S
<1>5. HoldsOf(t1, r, order) \in S[Len(order)]
  BY <1>3, HoldsStay
<1> QED
  BY <1>1, <1>4, <1>5

-----------------------------------------------------------------------------
(* Types.                                                                  *)

SessionStates == {"disabled", "inactive", "preActive", "active"}

PressType ==
  [cls : {"none", "normal", "prompt", "dismiss"}, frames : Nat,
   resolved : BOOLEAN, released : BOOLEAN]

ArbType ==
  [state : SessionStates, vCap : Nat,
   intent : {"none", "dismiss", "confirm", "decline", "increment", "decrement"},
   announced : BOOLEAN, limitPrev : Nat, longPrev : BOOLEAN,
   guard : Nat, prompt : Nat, dial : Nat, dismissed : BOOLEAN,
   clusterPrev : Nat, press : [Buttons -> PressType]]

RoadType == [limit : Nat, slf : 0 .. (Unset - 1), has : BOOLEAN]

InType ==
  [toggles : Seq(Buttons), order : Seq(Buttons), hap : SUBSET Happenings,
   enabled : BOOLEAN, available : BOOLEAN, road : RoadType, dash : Dashes \cup {0}]

StepType ==
  [a : ArbType, v : Nat, adopted : BOOLEAN, prev : SessionStates, cluster : Nat]

SetSpeeds == 0 .. VMax \cup {Unset}

TypeOK ==
  /\ kind \in Kinds
  /\ mode \in BOOLEAN /\ demanded \in BOOLEAN /\ icbm \in BOOLEAN
  /\ wheel \subseteq Buttons
  /\ enabled \in BOOLEAN /\ available \in BOOLEAN
  /\ road \in RoadType /\ dash \in Dashes \cup {0}
  /\ arb \in ArbType
  /\ vCruise \in SetSpeeds
  /\ enableTimers \in [Buttons -> Nat] /\ buttonTimers \in [Steppers -> Nat]
  /\ changed \in [Steppers -> [standstill : BOOLEAN, enabled : BOOLEAN]]
  /\ enabledPrev \in BOOLEAN /\ plusPrev \in BOOLEAN
  /\ reconcile \in [frames : Nat, allowed : BOOLEAN, floor : BOOLEAN]

(* A stock cruise alone has ICBM.                                          *)
Demand == icbm \/ demanded => PcmCruise

(* Timers run while their button is down; those of the steps are those of  *)
(* the wheel while openpilot steps, and rest while it does not.            *)
Timers ==
  /\ \A b \in Buttons : enableTimers[b] > 0 <=> b \in wheel
  /\ \A b \in Steppers : buttonTimers[b] > 0 => b \in wheel
  /\ PcmCruise /\ ~icbm => \A b \in Steppers : buttonTimers[b] = 0
  /\ TimersMatchWheel

-----------------------------------------------------------------------------
(* Constants and inputs.                                                   *)

(* The buttons are few, and the step buttons are among them.                *)
LEMMA ConstantFacts ==
  /\ IsFiniteSet(Buttons) /\ Steppers \subseteq Buttons
  /\ Cardinality(Buttons) \in Nat
<1>1. IsFiniteSet({"accel", "decel", "set"})
  <2>1. IsFiniteSet({"accel"})
    BY FS_Singleton
  <2>2. IsFiniteSet({"accel"} \cup {"decel"})
    BY <2>1, FS_AddElement
  <2>3. IsFiniteSet({"accel"} \cup {"decel"} \cup {"set"})
    BY <2>2, FS_AddElement
  <2>4. {"accel"} \cup {"decel"} \cup {"set"} = {"accel", "decel", "set"}
    OBVIOUS
  <2> QED
    BY <2>3, <2>4
<1>2. IsFiniteSet({"resume", "cancel", "main"})
  <2>1. IsFiniteSet({"resume"})
    BY FS_Singleton
  <2>2. IsFiniteSet({"resume"} \cup {"cancel"})
    BY <2>1, FS_AddElement
  <2>3. IsFiniteSet({"resume"} \cup {"cancel"} \cup {"main"})
    BY <2>2, FS_AddElement
  <2>4. {"resume"} \cup {"cancel"} \cup {"main"} = {"resume", "cancel", "main"}
    OBVIOUS
  <2> QED
    BY <2>3, <2>4
<1>3. IsFiniteSet({"accel", "decel", "set"} \cup {"resume", "cancel", "main"})
  BY <1>1, <1>2, FS_Union
<1>4. Buttons \subseteq {"accel", "decel", "set"} \cup {"resume", "cancel", "main"}
  BY CruiseAssumption
<1>5. IsFiniteSet(Buttons)
  BY <1>3, <1>4, FS_Subset
<1> QED
  BY <1>5, CruiseAssumption, FS_CardinalityType DEF Steppers

(* A function on 1 .. n is a sequence of length n.                          *)
LEMMA SequenceOf ==
  ASSUME NEW n \in Nat, NEW S, NEW f \in [1 .. n -> S]
  PROVE f \in Seq(S) /\ Len(f) = n
OBVIOUS

(* A running timer goes on running.                                         *)
LEMMA RunFacts == \A t \in Nat : Run(t) \in Nat /\ Run(t) > 0
BY CruiseAssumption DEF Run

(* The orders the held presses may be read in are sequences of buttons.    *)
LEMMA OrdersType == \A order \in Orders : order \in Seq(Buttons)
<1> DEFINE S == Buttons \cap (Plus \cup Minus)
<1>1. IsFiniteSet(S) /\ S \subseteq Buttons
  BY ConstantFacts, FS_Subset
<1>2. Cardinality(S) \in Nat /\ ExistsBijection(1 .. Cardinality(S), S)
  BY <1>1, FS_CardinalityType
<1>3. \E f \in [1 .. Cardinality(S) -> S] : IsInjective(f)
  BY <1>2 DEF ExistsBijection, Bijection, Injection, IsInjective
<1>4. ButtonOrder \in [1 .. Cardinality(S) -> S]
  BY <1>3 DEF ButtonOrder, SetToSeq
<1>5. ButtonOrder \in Seq(Buttons)
  <2>1. ButtonOrder \in [1 .. Cardinality(S) -> Buttons]
    BY <1>1, <1>4
  <2> QED
    BY <1>2, <2>1, SequenceOf
<1>6. Reverse(ButtonOrder) \in Seq(Buttons)
  BY <1>5 DEF Reverse
<1> QED
  BY <1>5, <1>6 DEF Orders

(* The events of a frame are a sequence of buttons.                        *)
LEMMA TogglesType ==
  ASSUME NEW ch
  PROVE \A t \in SetToSeqs(ch \cap Buttons) : t \in Seq(Buttons)
<1>1. Cardinality(ch \cap Buttons) \in Nat
  BY ConstantFacts, FS_Subset, FS_CardinalityType
<1>2. \A t \in SetToSeqs(ch \cap Buttons) :
        t \in [1 .. Cardinality(ch \cap Buttons) -> Buttons]
  BY DEF SetToSeqs
<1> QED
  BY <1>1, <1>2, SequenceOf

(* What a limit may be in the next frame.                                  *)
LEMMA RoadsType ==
  ASSUME road \in RoadType
  PROVE \A rd \in Roads \cup {road} : rd \in RoadType
<1>1. \A l \in Limits, o \in Offsets : l + o \in 0 .. (Unset - 1) /\ l \in Nat
  BY CruiseAssumption
<1>2. \A l \in Limits, o \in Offsets :
        [limit |-> l, slf |-> l + o, has |-> TRUE] \in RoadType
  BY <1>1 DEF RoadType
<1>3. [road EXCEPT !.limit = 0] \in RoadType
  BY DEF RoadType
<1> QED
  BY <1>2, <1>3 DEF Roads

(* A step of card is a frame on well-typed inputs.                         *)
LEMMA CardFrames ==
  ASSUME TypeOK, CardFrame
  PROVE \E in \in InType :
          /\ in.enabled /\ ~enabled => in.available
          /\ in.road \in Roads \cup {road}
          /\ Frame(in)
<1>1. PICK c \in Changes[kind] :
        \E order \in Orders,
           rd \in IF "road" \in c.what THEN Roads ELSE {road},
           d \in IF "dash" \in c.what /\ PcmCruise THEN DashesNear ELSE {dash} :
          LET in == [toggles |-> c.toggles, order |-> order,
                     hap |-> c.what \cap Happenings,
                     enabled |-> enabled # ("enabled" \in c.what),
                     available |-> available # ("available" \in c.what),
                     road |-> rd, dash |-> d]
          IN (in.enabled /\ ~enabled => in.available) /\ Frame(in)
  BY DEF CardFrame
<1>2. PICK order \in Orders,
           rd \in IF "road" \in c.what THEN Roads ELSE {road},
           d \in IF "dash" \in c.what /\ PcmCruise THEN DashesNear ELSE {dash} :
          LET in == [toggles |-> c.toggles, order |-> order,
                     hap |-> c.what \cap Happenings,
                     enabled |-> enabled # ("enabled" \in c.what),
                     available |-> available # ("available" \in c.what),
                     road |-> rd, dash |-> d]
          IN (in.enabled /\ ~enabled => in.available) /\ Frame(in)
  BY <1>1
<1> DEFINE in == [toggles |-> c.toggles, order |-> order,
                  hap |-> c.what \cap Happenings,
                  enabled |-> enabled # ("enabled" \in c.what),
                  available |-> available # ("available" \in c.what),
                  road |-> rd, dash |-> d]
<1>3. rd \in Roads \cup {road} /\ rd \in RoadType
  BY RoadsType DEF TypeOK
<1>4. d \in Dashes \cup {0}
  BY DEF DashesNear, TypeOK
<1>5. c.toggles \in Seq(Buttons)
  <2>1. kind \in Kinds
    BY DEF TypeOK
  <2>2. PICK ch : c \in {[what |-> ch, toggles |-> t] : t \in SetToSeqs(ch \cap Buttons)}
    BY <2>1 DEF Changes
  <2>3. PICK t \in SetToSeqs(ch \cap Buttons) : c = [what |-> ch, toggles |-> t]
    BY <2>2
  <2> QED
    BY <2>3, TogglesType
<1>6. in \in InType
  BY <1>3, <1>4, <1>5, OrdersType DEF InType, TypeOK
<1> QED
  BY <1>2, <1>3, <1>6

-----------------------------------------------------------------------------
(* Timers.                                                                 *)

(* A frame's timers: of one family, running for the wheel's new buttons.    *)
LEMMA TimedFacts ==
  ASSUME NEW S, S \subseteq Buttons, NEW timers \in [S -> Nat], NEW toggles \in Seq(Buttons),
         wheel \subseteq Buttons
  PROVE /\ Timed(timers, toggles) \in [S -> Nat]
        /\ \A b \in S : (timers[b] > 0 <=> b \in wheel) =>
             (Timed(timers, toggles)[b] > 0 <=> b \in Toggled(ToSet(toggles)))
        /\ \A b \in S : (timers[b] > 0 => b \in wheel) =>
             (Timed(timers, toggles)[b] > 0 => b \in Toggled(ToSet(toggles)))
BY RunFacts DEF Timed, Toggled

(* The wheel stays a set of buttons.                                        *)
LEMMA ToggledType ==
  ASSUME NEW toggles \in Seq(Buttons), wheel \subseteq Buttons
  PROVE ToSet(toggles) \subseteq Buttons /\ Toggled(ToSet(toggles)) \subseteq Buttons
BY DEF ToSet, Toggled

(* ICBM leaves or comes with every button up, and to a stock cruise only.  *)
LEMMA LatchFacts ==
  ASSUME TypeOK, Demand, Timers, NEW in \in InType
  PROVE /\ LatchAfter(in) \in BOOLEAN
        /\ LatchAfter(in) => PcmCruise
        /\ LatchAfter(in) # icbm =>
             /\ ~in.enabled /\ in.toggles = <<>> /\ wheel = {}
             /\ \A b \in Buttons : enableTimers[b] = 0
             /\ \A b \in Steppers : buttonTimers[b] = 0
BY ConstantFacts DEF LatchAfter, LatchFree, TypeOK, Demand, Timers, InType

(* A frame keeps the timers and the wheel together.                         *)
LEMMA TimersStep ==
  ASSUME TypeOK, Demand, Timers, NEW in \in InType, Frame(in)
  PROVE Timers'
<1> DEFINE active == LatchAfter(in)
<1>1. /\ wheel' = Toggled(ToSet(in.toggles)) /\ icbm' = active /\ kind' = kind
      /\ enableTimers' = Timed(enableTimers, in.toggles)
      /\ IF PcmCruise /\ ~active THEN buttonTimers' = buttonTimers
         ELSE buttonTimers' = Timed(buttonTimers, in.toggles)
  BY DEF Frame
<1>2. in.toggles \in Seq(Buttons) /\ Steppers \subseteq Buttons /\ wheel \subseteq Buttons
  BY ConstantFacts DEF InType, TypeOK
<1>3. enableTimers \in [Buttons -> Nat] /\ buttonTimers \in [Steppers -> Nat]
  BY DEF TypeOK
<1>4. \A b \in Buttons : enableTimers'[b] > 0 <=> b \in wheel'
  BY <1>1, <1>2, <1>3, TimedFacts DEF Timers
<1>5. CASE PcmCruise /\ ~active
  <2>1. \A b \in Steppers : buttonTimers[b] = 0
    BY <1>5, LatchFacts DEF Timers, TypeOK
  <2> QED
    BY <1>1, <1>3, <1>4, <1>5, <2>1 DEF Timers, TimersMatchWheel, PcmCruise
<1>6. CASE ~PcmCruise \/ active
  <2>1. \A b \in Steppers : buttonTimers[b] = enableTimers[b]
    BY <1>2, <1>6, LatchFacts DEF Timers, TimersMatchWheel
  <2>2. \A b \in Steppers : buttonTimers'[b] = enableTimers'[b]
    BY <1>1, <1>2, <1>3, <1>6, <2>1 DEF Timed
  <2> QED
    BY <1>1, <1>2, <1>4, <1>6, <2>2 DEF Timers, TimersMatchWheel, PcmCruise
<1> QED
  BY <1>5, <1>6

-----------------------------------------------------------------------------
(* Presses.                                                                *)

(* A press that is none says nothing, and only a prompt's is resolved.     *)
Wellformed(press) ==
  \A b \in Buttons :
    /\ press[b].cls = "none" => ~press[b].resolved /\ ~press[b].released
    /\ press[b].resolved => press[b].cls = "prompt"
    /\ b \notin Plus \cup Minus => press[b].cls = "none"

(* What the presses of a frame make of s0: a session is ended by a press,  *)
(* a prompt answered by one, and the set speed is written for these alone. *)
Classified(s, s0, r) ==
  /\ s.prev = s0.prev /\ s.cluster = s0.cluster
  /\ s.a.vCap = s0.a.vCap /\ s.a.limitPrev = s0.a.limitPrev
  /\ s.prev \in {"disabled", "inactive"} => s.a.state = s.prev
  /\ s.prev = "active" => s.a.state \in {"active", "inactive"}
  /\ s.prev = "preActive" => s.a.state # "disabled"
  /\ s.prev = "active" /\ s.a.state = "inactive" =>
       s.a.dismissed /\ (~PcmCruise /\ s.a.vCap < Unset => s.adopted)
  /\ s.prev # "active" => s.a.dismissed = s0.a.dismissed
  /\ s.prev = "preActive" /\ s.a.state = "active" => s.a.intent = "confirm"
  /\ s.prev = "preActive" /\ s.a.state = "inactive" =>
       \E b \in Buttons : s.a.press[b].cls # "none"
  /\ s.adopted =>
       \/ s.prev = "preActive" /\ s.a.state = "active"
       \/ ~PcmCruise /\ s.prev = "active" /\ s.a.state = "inactive"
          /\ s.v = Lesser(s0.v, r.slf)
  /\ ~s.adopted => s.v = s0.v
  /\ Wellformed(s.a.press)

(* Of two states before and after an event of b, or while b is held.       *)
OnlyAt(b, t, s) == \A c \in Buttons \ {b} : t.a.press[c] = s.a.press[c]

(* A press that begins: of its own kind, ending a session or not.           *)
LEMMA PressClassified ==
  ASSUME NEW s \in StepType, NEW s0 \in StepType, NEW r \in RoadType, NEW b \in Plus \cup Minus,
         b \in Buttons, Classified(s, s0, r)
  PROVE LET p == PressEdge(s, r, b) IN
        /\ p \in StepType /\ Classified(p, s0, r) /\ OnlyAt(b, p, s)
        /\ p.a.press[b].cls # "none" /\ (PcmCruise => p.adopted = s.adopted)
        /\ p.a.press[b].cls = "dismiss" => s.prev = "active"
<1>1. CASE s.prev = "active"
  <2> DEFINE owns == ~PcmCruise /\ s.a.vCap < Unset
             t == IF owns THEN Reanchor(s, r) ELSE s
             cls == IF owns THEN "normal" ELSE "dismiss"
             p == PressEdge(s, r, b)
  <2>1. p = [t EXCEPT !.a.press[b] = Press(cls), !.a.state = "inactive",
                      !.a.dismissed = TRUE, !.a.intent = "dismiss"]
    BY <1>1 DEF PressEdge
  <2>2. t \in StepType /\ Press(cls) \in PressType /\ t.a = s.a
    <3>1. Lesser(s.v, r.slf) \in Nat
      BY DEF Lesser, StepType, RoadType
    <3>2. Reanchor(s, r) \in StepType /\ Reanchor(s, r).a = s.a
      BY <3>1 DEF Reanchor, StepType
    <3>3. Press(cls) \in PressType
      BY DEF PressType, Press, NoPress
    <3> QED
      BY <3>2, <3>3
  <2> HIDE DEF t, cls
  <2> DEFINE a1 == [t.a EXCEPT !.press[b] = Press(cls), !.state = "inactive",
                               !.dismissed = TRUE, !.intent = "dismiss"]
  <2>a. t.a \in ArbType
    BY <2>2 DEF StepType
  <2>b. a1 \in ArbType
    BY <2>2, <2>a DEF ArbType, SessionStates
  <2>c. p = [t EXCEPT !.a = a1]
    BY <2>1, <2>2 DEF StepType
  <2>3. p \in StepType
    BY <2>2, <2>b, <2>c DEF StepType
  <2>4. /\ a1.state = "inactive" /\ a1.dismissed /\ a1.vCap = s.a.vCap
        /\ a1.limitPrev = s.a.limitPrev
        /\ a1.press = [s.a.press EXCEPT ![b] = Press(cls)]
    BY <2>2, <2>a DEF ArbType
  <2> HIDE DEF a1
  <2>5. p.a = a1 /\ p.v = t.v /\ p.adopted = t.adopted /\ p.prev = t.prev
        /\ p.cluster = t.cluster
    BY <2>2, <2>c DEF StepType
  <2>6. /\ owns => t.adopted /\ t.v = Lesser(s.v, r.slf)
        /\ ~owns => t.adopted = s.adopted /\ t.v = s.v
        /\ t.prev = s.prev /\ t.cluster = s.cluster
    BY DEF Reanchor, StepType, t
  <2>7. Lesser(Lesser(s0.v, r.slf), r.slf) = Lesser(s0.v, r.slf)
    BY DEF Lesser, StepType, RoadType
  <2>8. cls \in {"normal", "dismiss"} /\ Press(cls).cls = cls
        /\ ~Press(cls).resolved /\ ~Press(cls).released
    BY DEF Press, NoPress, cls
  <2>9. Wellformed(a1.press)
    BY <2>4, <2>8, <2>a, <2>2 DEF Wellformed, Classified, ArbType
  <2>10. OnlyAt(b, p, s) /\ p.a.press[b].cls # "none"
    BY <2>2, <2>4, <2>5, <2>8, <2>a DEF OnlyAt, ArbType
  <2>11. Classified(p, s0, r)
    BY <1>1, <2>3, <2>4, <2>5, <2>6, <2>7, <2>9 DEF Classified
  <2> QED
    BY <1>1, <2>3, <2>5, <2>6, <2>10, <2>11
<1>2. CASE s.prev # "active"
  <2> DEFINE cls == IF s.prev = "preActive" THEN "prompt" ELSE "normal"
             p == PressEdge(s, r, b)
  <2>1. p = [s EXCEPT !.a.press[b] = Press(cls)] /\ Press(cls) \in PressType
    BY <1>2 DEF PressEdge, PressType, Press, NoPress
  <2>2. p \in StepType
    BY <2>1 DEF StepType, ArbType
  <2>3. /\ p.prev = s.prev /\ p.cluster = s.cluster /\ p.a.vCap = s.a.vCap
        /\ p.a.limitPrev = s.a.limitPrev /\ p.a.state = s.a.state
        /\ p.a.dismissed = s.a.dismissed /\ p.a.intent = s.a.intent
        /\ p.v = s.v /\ p.adopted = s.adopted /\ p.a.press[b].cls = cls
    BY <2>1 DEF StepType, ArbType, Press, NoPress
  <2>4. Wellformed(p.a.press)
    BY <2>1 DEF StepType, ArbType, PressType, Press, NoPress, Wellformed, Classified
  <2>5. OnlyAt(b, p, s)
    BY <2>1 DEF StepType, ArbType, OnlyAt
  <2>6. Classified(p, s0, r)
    BY <1>2, <2>2, <2>3, <2>4 DEF Classified
  <2> QED
    BY <1>2, <2>2, <2>3, <2>5, <2>6
<1> QED
  BY <1>1, <1>2

(* A prompt's press confirms or declines, or is a press like any other.     *)
LEMMA ResolveClassified ==
  ASSUME NEW s \in StepType, NEW s0 \in StepType, NEW r \in RoadType, NEW b \in Buttons,
         Classified(s, s0, r), s.a.press[b].cls = "prompt", ~s.a.press[b].resolved
  PROVE LET q == Resolve(s, r, b) IN
        /\ q \in StepType /\ Classified(q, s0, r) /\ OnlyAt(b, q, s)
        /\ q.a.press[b].cls \in {"prompt", "normal"}
        /\ q.a.press[b].released = s.a.press[b].released
        /\ q.adopted => s.adopted \/ s.prev = "preActive"
<1> DEFINE q == Resolve(s, r, b)
           toward == \/ b \in Plus /\ s.cluster < r.slf
                     \/ b \in Minus /\ s.cluster > r.slf
<1>0. s.a \in ArbType /\ s.a.press \in [Buttons -> PressType] /\ s.a.press[b] \in PressType
  BY DEF StepType, ArbType
<1>1. CASE s.a.state # "preActive"
  <2> DEFINE p1 == [s.a.press[b] EXCEPT !.cls = "normal"]
             a1 == [s.a EXCEPT !.press = [@ EXCEPT ![b] = p1]]
  <2>1. q = [s EXCEPT !.a = a1]
    BY <1>1, <1>0 DEF Resolve, StepType, ArbType, PressType
  <2>2. /\ p1 \in PressType /\ p1.cls = "normal" /\ ~p1.resolved
        /\ p1.released = s.a.press[b].released
    BY <1>0 DEF PressType
  <2> HIDE DEF p1
  <2>3. a1 \in ArbType
    BY <1>0, <2>2 DEF ArbType
  <2>4. /\ a1.state = s.a.state /\ a1.dismissed = s.a.dismissed /\ a1.vCap = s.a.vCap
        /\ a1.limitPrev = s.a.limitPrev /\ a1.intent = s.a.intent
        /\ a1.press = [s.a.press EXCEPT ![b] = p1]
    BY <1>0 DEF ArbType
  <2> HIDE DEF a1
  <2>5. /\ q \in StepType /\ q.a = a1 /\ q.v = s.v /\ q.adopted = s.adopted
        /\ q.prev = s.prev /\ q.cluster = s.cluster
    BY <2>1, <2>3 DEF StepType
  <2>6. Wellformed(a1.press) /\ a1.press[b].cls = "normal"
    BY <1>0, <2>2, <2>4 DEF Wellformed, Classified
  <2>7. \E c \in Buttons : a1.press[c].cls # "none"
    BY <2>6
  <2>8. Classified(q, s0, r)
    BY <2>4, <2>5, <2>6, <2>7 DEF Classified
  <2>9. OnlyAt(b, q, s) /\ q.a.press[b] = p1
    BY <1>0, <2>4, <2>5 DEF OnlyAt
  <2> QED
    BY <2>2, <2>5, <2>8, <2>9
<1>2. CASE s.a.state = "preActive" /\ toward
  <2> DEFINE raised == b \in Plus /\ r.slf > s.v
             p1 == [s.a.press[b] EXCEPT !.resolved = TRUE]
             a0 == [s.a EXCEPT !.press = [@ EXCEPT ![b] = p1], !.intent = "confirm"]
             t == [s EXCEPT !.a = a0, !.v = IF raised THEN r.slf ELSE @,
                            !.adopted = @ \/ raised]
             a1 == [a0 EXCEPT !.state = "active", !.announced = TRUE]
  <2>1. q = Activate(t, r, TRUE)
    BY <1>2, <1>0 DEF Resolve, StepType, ArbType, PressType
  <2>2. /\ p1 \in PressType /\ p1.cls = "prompt"
        /\ p1.released = s.a.press[b].released
    BY <1>0 DEF PressType
  <2> HIDE DEF p1
  <2>3. a0 \in ArbType /\ a0.announced \in BOOLEAN
    BY <1>0, <2>2 DEF ArbType
  <2>a. r.slf \in Nat /\ s.v \in Nat /\ (s.adopted \/ raised) \in BOOLEAN
    BY DEF StepType, RoadType
  <2>4. t \in StepType /\ t.a = a0
    BY <2>3, <2>a DEF StepType
  <2>5. q = [t EXCEPT !.a = a1]
    BY <2>1, <2>3, <2>4 DEF Activate, StepType, ArbType
  <2>6. a1 \in ArbType
    BY <2>3 DEF ArbType, SessionStates
  <2>7. /\ a1.state = "active" /\ a1.dismissed = s.a.dismissed /\ a1.vCap = s.a.vCap
        /\ a1.limitPrev = s.a.limitPrev /\ a1.intent = "confirm"
        /\ a1.press = [s.a.press EXCEPT ![b] = p1]
    BY <1>0 DEF ArbType
  <2>8. t.v = (IF raised THEN r.slf ELSE s.v) /\ t.adopted = (s.adopted \/ raised)
        /\ t.prev = s.prev /\ t.cluster = s.cluster
    BY DEF StepType
  <2> HIDE DEF a0, a1, t
  <2>9. /\ q \in StepType /\ q.a = a1 /\ q.v = t.v /\ q.adopted = t.adopted
        /\ q.prev = t.prev /\ q.cluster = t.cluster
    BY <2>4, <2>5, <2>6 DEF StepType
  <2>10. Wellformed(a1.press) /\ a1.press[b].cls = "prompt"
    BY <1>0, <2>2, <2>7 DEF Wellformed, Classified
  <2>11. s.prev = "preActive"
    BY <1>2 DEF Classified, StepType, SessionStates
  <2>12. Classified(q, s0, r)
    BY <1>2, <2>7, <2>8, <2>9, <2>10, <2>11 DEF Classified
  <2>13. OnlyAt(b, q, s) /\ q.a.press[b] = p1
    BY <1>0, <2>7, <2>9 DEF OnlyAt
  <2> QED
    BY <2>2, <2>9, <2>11, <2>12, <2>13
<1>3. CASE s.a.state = "preActive" /\ ~toward
  <2> DEFINE p1 == [s.a.press[b] EXCEPT !.cls = "normal"]
             a1 == [s.a EXCEPT !.press = [@ EXCEPT ![b] = p1], !.intent = "decline",
                               !.state = "inactive"]
  <2>1. q = [s EXCEPT !.a = a1]
    BY <1>3, <1>0 DEF Resolve, StepType, ArbType, PressType
  <2>2. /\ p1 \in PressType /\ p1.cls = "normal" /\ ~p1.resolved
        /\ p1.released = s.a.press[b].released
    BY <1>0 DEF PressType
  <2> HIDE DEF p1
  <2>3. a1 \in ArbType
    BY <1>0, <2>2 DEF ArbType, SessionStates
  <2>4. /\ a1.state = "inactive" /\ a1.dismissed = s.a.dismissed /\ a1.vCap = s.a.vCap
        /\ a1.limitPrev = s.a.limitPrev
        /\ a1.press = [s.a.press EXCEPT ![b] = p1]
    BY <1>0 DEF ArbType
  <2> HIDE DEF a1
  <2>5. /\ q \in StepType /\ q.a = a1 /\ q.v = s.v /\ q.adopted = s.adopted
        /\ q.prev = s.prev /\ q.cluster = s.cluster
    BY <2>1, <2>3 DEF StepType
  <2>6. Wellformed(a1.press) /\ a1.press[b].cls = "normal"
    BY <1>0, <2>2, <2>4 DEF Wellformed, Classified
  <2>7. s.prev = "preActive" /\ ~s.adopted
    BY <1>3 DEF Classified, StepType, SessionStates
  <2>8. Classified(q, s0, r)
    BY <2>4, <2>5, <2>6, <2>7 DEF Classified
  <2>9. OnlyAt(b, q, s) /\ q.a.press[b] = p1
    BY <1>0, <2>4, <2>5 DEF OnlyAt
  <2> QED
    BY <2>2, <2>5, <2>7, <2>8, <2>9
<1> QED
  BY <1>1, <1>2, <1>3

(* A press that ends, and resolves a prompt it has not answered yet.        *)
LEMMA ReleaseClassified ==
  ASSUME NEW s \in StepType, NEW s0 \in StepType, NEW r \in RoadType,
         NEW b \in Buttons, Classified(s, s0, r)
  PROVE LET q == ReleaseEdge(s, r, b) IN
        /\ q \in StepType /\ Classified(q, s0, r) /\ OnlyAt(b, q, s)
        /\ q.a.press[b].cls = "none" <=> s.a.press[b].cls = "none"
        /\ q.a.press[b].cls # "none" => q.a.press[b].released
        /\ q.a.press[b].cls = "dismiss" => s.a.press[b].cls = "dismiss"
        /\ q.adopted => s.adopted \/ s.prev = "preActive"
        /\ ~Unresolved(s, b) =>
             /\ q.adopted = s.adopted /\ q.a.press[b].cls = s.a.press[b].cls
             /\ q.a.press[b].resolved = s.a.press[b].resolved
<1>1. CASE s.a.press[b].cls = "none"
  <2>1. ReleaseEdge(s, r, b) = s
    BY <1>1 DEF ReleaseEdge
  <2> QED
    BY <1>1, <2>1 DEF OnlyAt
<1>2. CASE s.a.press[b].cls # "none"
  <2> DEFINE t == IF Unresolved(s, b) THEN Resolve(s, r, b) ELSE s
             named == t.a.press[b].cls = "normal" /\ t.a.intent = "none"
             intent == IF ~named THEN t.a.intent
                       ELSE IF b \in Plus THEN "increment" ELSE "decrement"
             p1 == [t.a.press[b] EXCEPT !.released = TRUE]
             a1 == [t.a EXCEPT !.press = [@ EXCEPT ![b] = p1], !.intent = intent]
             q == ReleaseEdge(s, r, b)
  <2>1. /\ t \in StepType /\ Classified(t, s0, r) /\ OnlyAt(b, t, s)
        /\ t.a.press[b].cls # "none"
        /\ t.a.press[b].cls = "dismiss" => s.a.press[b].cls = "dismiss"
        /\ t.adopted => s.adopted \/ s.prev = "preActive"
        /\ ~Unresolved(s, b) => t = s
    <3>1. CASE Unresolved(s, b)
      <4>1. t = Resolve(s, r, b) /\ s.a.press[b].cls = "prompt" /\ ~s.a.press[b].resolved
        BY <3>1 DEF Unresolved
      <4> HIDE DEF t
      <4> QED
        BY <3>1, <4>1, ResolveClassified
    <3>2. CASE ~Unresolved(s, b)
      BY <1>2, <3>2 DEF OnlyAt
    <3> QED
      BY <3>1, <3>2
  <2>2. ReleaseEdge(s, r, b) =
          [t EXCEPT !.a.press[b].released = TRUE, !.a.intent = intent]
    BY <1>2 DEF ReleaseEdge
  <2> HIDE DEF t
  <2>3. t.a \in ArbType /\ t.a.press \in [Buttons -> PressType] /\ t.a.press[b] \in PressType
    BY <2>1 DEF StepType, ArbType
  <2>4. /\ p1 \in PressType /\ p1.released /\ p1.cls = t.a.press[b].cls
        /\ p1.resolved = t.a.press[b].resolved
    BY <2>3 DEF PressType
  <2>5. q = [t EXCEPT !.a = a1]
    BY <2>1, <2>2, <2>3 DEF StepType, ArbType, PressType
  <2> HIDE DEF p1, q
  <2>6. intent \in {"none", "dismiss", "confirm", "decline", "increment", "decrement"}
        /\ (t.a.intent # "none" => intent = t.a.intent)
    BY <2>3 DEF ArbType
  <2> HIDE DEF intent
  <2>7. /\ a1 \in ArbType /\ a1.press = [t.a.press EXCEPT ![b] = p1]
        /\ a1.state = t.a.state /\ a1.dismissed = t.a.dismissed /\ a1.vCap = t.a.vCap
        /\ a1.limitPrev = t.a.limitPrev /\ a1.intent = intent
    BY <2>3, <2>4, <2>6 DEF ArbType
  <2> HIDE DEF a1
  <2>8. /\ q \in StepType /\ q.a = a1 /\ q.v = t.v /\ q.adopted = t.adopted
        /\ q.prev = t.prev /\ q.cluster = t.cluster
    BY <2>1, <2>5, <2>7 DEF StepType
  <2>9. /\ a1.press[b] = p1 /\ \A c \in Buttons \ {b} : a1.press[c] = t.a.press[c]
    BY <2>3, <2>7
  <2>10. Wellformed(a1.press)
    BY <2>1, <2>4, <2>9 DEF Wellformed, Classified
  <2>11. \E c \in Buttons : a1.press[c].cls # "none"
    BY <2>1, <2>4, <2>9
  <2>12. Classified(q, s0, r)
    BY <2>1, <2>6, <2>7, <2>8, <2>10, <2>11 DEF Classified
  <2>13. OnlyAt(b, q, s) /\ q.a.press[b] = p1
    BY <2>1, <2>8, <2>9 DEF OnlyAt
  <2> QED
    BY <1>2, <2>1, <2>4, <2>8, <2>12, <2>13 DEF q
<1> QED
  BY <1>1, <1>2

(* One button event, a press or a release.                                  *)
LEMMA EventClassified ==
  ASSUME NEW s \in StepType, NEW s0 \in StepType, NEW r \in RoadType,
         NEW b \in Buttons, Classified(s, s0, r)
  PROVE LET q == ButtonEvent(s, r, b) IN
        /\ q \in StepType /\ Classified(q, s0, r) /\ OnlyAt(b, q, s)
        /\ b \in wheel =>
             /\ q.a.press[b].cls # "none" => q.a.press[b].released \/ b \notin Plus \cup Minus
             /\ q.a.press[b].cls = "dismiss" => s.a.press[b].cls = "dismiss"
             /\ q.adopted => s.adopted \/ s.prev = "preActive"
             /\ ~Unresolved(s, b) =>
                  /\ q.adopted = s.adopted /\ q.a.press[b].cls = s.a.press[b].cls
                  /\ q.a.press[b].resolved = s.a.press[b].resolved
        /\ b \notin wheel =>
             /\ PcmCruise => q.adopted = s.adopted
             /\ q.a.press[b].cls = "dismiss" => s.prev = "active"
<1>1. CASE b \notin Plus \cup Minus
  <2>1. ButtonEvent(s, r, b) = s
    BY <1>1 DEF ButtonEvent
  <2>2. s.a.press[b].cls = "none"
    BY <1>1 DEF Classified, Wellformed
  <2> QED
    BY <1>1, <2>1, <2>2 DEF OnlyAt
<1>2. CASE b \in Plus \cup Minus
  <2> DEFINE a1 == [s.a EXCEPT !.dial = DialFrames]
             t == [s EXCEPT !.a = a1]
  <2>1. ButtonEvent(s, r, b) = IF b \in wheel THEN ReleaseEdge(t, r, b) ELSE PressEdge(t, r, b)
    BY <1>2 DEF ButtonEvent, StepType
  <2>2. s.a \in ArbType /\ DialFrames \in Nat
    BY CruiseAssumption DEF StepType
  <2>3. /\ a1 \in ArbType /\ a1.press = s.a.press /\ a1.state = s.a.state
        /\ a1.dismissed = s.a.dismissed /\ a1.vCap = s.a.vCap
        /\ a1.limitPrev = s.a.limitPrev /\ a1.intent = s.a.intent
    BY <2>2 DEF ArbType
  <2> HIDE DEF a1
  <2>4. /\ t \in StepType /\ t.a = a1 /\ t.v = s.v /\ t.adopted = s.adopted
        /\ t.prev = s.prev /\ t.cluster = s.cluster
    BY <2>3 DEF StepType
  <2> HIDE DEF t
  <2>5. Classified(t, s0, r)
    BY <2>3, <2>4 DEF Classified
  <2>6. Unresolved(t, b) = Unresolved(s, b) /\ \A q : OnlyAt(b, q, t) <=> OnlyAt(b, q, s)
    BY <2>3, <2>4 DEF Unresolved, OnlyAt
  <2>7. CASE b \in wheel
    BY <2>1, <2>3, <2>4, <2>5, <2>6, <2>7, ReleaseClassified
  <2>8. CASE b \notin wheel
    BY <1>2, <2>1, <2>3, <2>4, <2>5, <2>6, <2>8, PressClassified
  <2> QED
    BY <2>7, <2>8
<1> QED
  BY <1>1, <1>2

(* One more frame of a press that is held.                                  *)
LEMMA HeldClassified ==
  ASSUME NEW s \in StepType, NEW s0 \in StepType, NEW r \in RoadType,
         NEW b \in Buttons, Classified(s, s0, r)
  PROVE LET q == Held(s, r, b) IN
        /\ q \in StepType /\ Classified(q, s0, r) /\ OnlyAt(b, q, s)
        /\ q.a.press[b].cls = "none" <=> s.a.press[b].cls = "none"
        /\ q.a.press[b].released = s.a.press[b].released
        /\ q.a.press[b].cls = "dismiss" => s.a.press[b].cls = "dismiss"
        /\ q.adopted => s.adopted \/ s.prev = "preActive"
        /\ ~Unresolved(s, b) => q = s
<1>1. CASE ~Unresolved(s, b)
  <2>1. Held(s, r, b) = s
    BY <1>1 DEF Held
  <2> QED
    BY <1>1, <2>1 DEF OnlyAt
<1>2. CASE Unresolved(s, b)
  <2> DEFINE p1 == [s.a.press[b] EXCEPT !.frames = @ + 1]
             a1 == [s.a EXCEPT !.press = [@ EXCEPT ![b] = p1]]
             t == [s EXCEPT !.a = a1]
  <2>1. s.a \in ArbType /\ s.a.press \in [Buttons -> PressType] /\ s.a.press[b] \in PressType
    BY DEF StepType, ArbType
  <2>2. Held(s, r, b) = IF t.a.press[b].frames >= LongPressFrames THEN Resolve(t, r, b) ELSE t
    BY <1>2, <2>1 DEF Held, StepType, ArbType, PressType
  <2>3. /\ p1 \in PressType /\ p1.cls = s.a.press[b].cls
        /\ p1.resolved = s.a.press[b].resolved /\ p1.released = s.a.press[b].released
    BY <2>1 DEF PressType
  <2> HIDE DEF p1
  <2>4. /\ a1 \in ArbType /\ a1.press = [s.a.press EXCEPT ![b] = p1]
        /\ a1.state = s.a.state /\ a1.dismissed = s.a.dismissed /\ a1.vCap = s.a.vCap
        /\ a1.limitPrev = s.a.limitPrev /\ a1.intent = s.a.intent
    BY <2>1, <2>3 DEF ArbType
  <2> HIDE DEF a1
  <2>5. /\ t \in StepType /\ t.a = a1 /\ t.v = s.v /\ t.adopted = s.adopted
        /\ t.prev = s.prev /\ t.cluster = s.cluster
    BY <2>4 DEF StepType
  <2> HIDE DEF t
  <2>6. /\ a1.press[b] = p1 /\ \A c \in Buttons \ {b} : a1.press[c] = s.a.press[c]
    BY <2>1, <2>4
  <2>7. p1.cls = "prompt" /\ ~p1.resolved
    BY <1>2, <2>3 DEF Unresolved
  <2>8. Wellformed(a1.press) /\ \E c \in Buttons : a1.press[c].cls # "none"
    BY <2>3, <2>6, <2>7 DEF Wellformed, Classified
  <2>9. Classified(t, s0, r)
    BY <2>4, <2>5, <2>8 DEF Classified
  <2>10. OnlyAt(b, t, s) /\ \A q : OnlyAt(b, q, t) => OnlyAt(b, q, s)
    BY <2>5, <2>6 DEF OnlyAt
  <2>11. CASE t.a.press[b].frames >= LongPressFrames
    BY <1>2, <2>2, <2>3, <2>5, <2>6, <2>7, <2>9, <2>10, <2>11, ResolveClassified
  <2>12. CASE ~(t.a.press[b].frames >= LongPressFrames)
    BY <1>2, <2>2, <2>3, <2>5, <2>6, <2>7, <2>9, <2>10, <2>12
  <2> QED
    BY <2>11, <2>12
<1> QED
  BY <1>1, <1>2

(* A press that is not over has its button down.                           *)
Fingers(press, held) ==
  \A b \in Buttons : press[b].cls # "none" /\ ~press[b].released => b \in held

(* A frame begins with nothing written and the ended presses gone.          *)
LEMMA KeptClassified ==
  ASSUME NEW s \in StepType, NEW r \in RoadType, Wellformed(s.a.press), ~s.adopted,
         s.prev = s.a.state
  PROVE LET t == Kept(s) IN
        /\ t \in StepType /\ Classified(t, s, r) /\ t.adopted = FALSE
        /\ \A b \in Buttons :
             t.a.press[b] = IF s.a.press[b].released THEN NoPress ELSE s.a.press[b]
<1> DEFINE p1 == [b \in Buttons |-> IF s.a.press[b].released THEN NoPress ELSE s.a.press[b]]
           a1 == [s.a EXCEPT !.press = p1]
           t == Kept(s)
<1>1. s.a \in ArbType /\ s.a.press \in [Buttons -> PressType]
  BY DEF StepType, ArbType
<1>2. t = [s EXCEPT !.a = a1]
  BY DEF Kept, StepType
<1>3. NoPress \in PressType
  BY DEF NoPress, PressType
<1>4. p1 \in [Buttons -> PressType]
  BY <1>1, <1>3
<1>5. \A b \in Buttons : p1[b] = IF s.a.press[b].released THEN NoPress ELSE s.a.press[b]
  OBVIOUS
<1> HIDE DEF p1
<1>6. /\ a1 \in ArbType /\ a1.press = p1
      /\ a1.state = s.a.state /\ a1.dismissed = s.a.dismissed /\ a1.vCap = s.a.vCap
      /\ a1.limitPrev = s.a.limitPrev /\ a1.intent = s.a.intent
  BY <1>1, <1>4 DEF ArbType
<1> HIDE DEF a1
<1>7. /\ t \in StepType /\ t.a = a1 /\ t.v = s.v /\ t.adopted = s.adopted
      /\ t.prev = s.prev /\ t.cluster = s.cluster
  BY <1>2, <1>6 DEF StepType
<1>8. Wellformed(p1)
  BY <1>5 DEF Wellformed, NoPress
<1>9. s.prev \in SessionStates /\ s.adopted = FALSE
  BY DEF StepType
<1>10. Classified(t, s, r)
  BY <1>6, <1>7, <1>8, <1>9 DEF Classified, SessionStates
<1> QED
  BY <1>5, <1>6, <1>7, <1>9, <1>10

(* The presses of a frame.                                                 *)
LEMMA ClassifyFacts ==
  ASSUME NEW s \in StepType, NEW r \in RoadType,
         NEW toggles \in Seq(Buttons), NEW order \in Seq(Buttons),
         Wellformed(s.a.press), ~s.adopted, s.prev = s.a.state,
         Fingers(s.a.press, wheel)
  PROVE LET q == Classify(s, r, toggles, order) IN
        /\ q \in StepType /\ Classified(q, s, r)
        /\ Fingers(q.a.press, Toggled(ToSet(toggles)))
<1> DEFINE In(i) == {t \in StepType :
               /\ Classified(t, s, r)
               /\ \A c \in Buttons :
                    /\ c \notin wheel /\ t.a.press[c].cls # "none" =>
                         \E j \in 1 .. i : toggles[j] = c
                    /\ c \in wheel /\ t.a.press[c].cls # "none" /\ ~t.a.press[c].released =>
                         \A j \in 1 .. i : toggles[j] # c}
           T == [i \in 0 .. Len(toggles) |-> In(i)]
           n == Len(toggles)
<1>1. n \in Nat /\ \A i \in 1 .. n : toggles[i] \in Buttons
  OBVIOUS
<1>2. Kept(s) \in In(0)
  <2> DEFINE t == Kept(s)
  <2>1. /\ t \in StepType /\ Classified(t, s, r)
        /\ \A b \in Buttons :
             t.a.press[b] = IF s.a.press[b].released THEN NoPress ELSE s.a.press[b]
    BY KeptClassified
  <2> HIDE DEF t
  <2>2. \A c \in Buttons : t.a.press[c].cls # "none" => c \in wheel
    BY <2>1 DEF Fingers, NoPress
  <2>3. \A j \in 1 .. 0 : FALSE
    OBVIOUS
  <2>4. t \in In(0)
    BY <2>1, <2>2, <2>3
  <2> QED
    BY <2>4 DEF t
<1>3. ASSUME NEW i \in 1 .. n, NEW t \in In(i - 1)
      PROVE ButtonEvent(t, r, toggles[i]) \in In(i)
  <2> DEFINE b == toggles[i]
             q == ButtonEvent(t, r, b)
  <2>1. /\ b \in Buttons /\ t \in StepType /\ Classified(t, s, r) /\ i \in Nat
        /\ i - 1 \in Nat
    BY <1>1, <1>3
  <2>2. \A j \in 1 .. i : j = i \/ j \in 1 .. (i - 1)
    BY <2>1
  <2>3. \A j \in 1 .. (i - 1) : j \in 1 .. i
    BY <2>1
  <2>4. /\ q \in StepType /\ Classified(q, s, r) /\ OnlyAt(b, q, t)
        /\ b \in wheel /\ q.a.press[b].cls # "none" =>
             q.a.press[b].released \/ b \notin Plus \cup Minus
    BY <2>1, EventClassified
  <2>5. b \notin Plus \cup Minus => q.a.press[b].cls = "none"
    BY <2>1, <2>4 DEF Classified, Wellformed
  <2>6. i \in 1 .. i
    BY <2>1
  <2>7. ASSUME NEW c \in Buttons, c \notin wheel, q.a.press[c].cls # "none"
        PROVE \E j \in 1 .. i : toggles[j] = c
    <3>1. CASE c = b
      BY <2>6, <3>1
    <3>2. CASE c # b
      BY <1>3, <2>3, <2>4, <2>7, <3>2 DEF OnlyAt
    <3> QED
      BY <3>1, <3>2
  <2>8. ASSUME NEW c \in Buttons, c \in wheel, q.a.press[c].cls # "none",
               ~q.a.press[c].released
        PROVE \A j \in 1 .. i : toggles[j] # c
    <3>1. c # b
      BY <2>4, <2>5, <2>8
    <3> QED
      BY <1>3, <2>2, <2>4, <2>8, <3>1 DEF OnlyAt
  <2> HIDE DEF q, b
  <2>9. q \in In(i)
    BY <2>4, <2>7, <2>8
  <2> QED
    BY <2>9 DEF q, b
<1>4. ASSUME NEW t \in In(n), NEW b \in Buttons
      PROVE Held(t, r, b) \in In(n)
  <2> DEFINE q == Held(t, r, b)
  <2>1. /\ q \in StepType /\ Classified(q, s, r) /\ OnlyAt(b, q, t)
        /\ q.a.press[b].cls = "none" <=> t.a.press[b].cls = "none"
        /\ q.a.press[b].released = t.a.press[b].released
    BY <1>4, HeldClassified
  <2> HIDE DEF q
  <2>2. \A c \in Buttons : /\ q.a.press[c].cls = "none" <=> t.a.press[c].cls = "none"
                           /\ q.a.press[c].released = t.a.press[c].released
    BY <2>1 DEF OnlyAt
  <2>3. q \in In(n)
    BY <1>4, <2>1, <2>2
  <2> QED
    BY <2>3 DEF q
<1> HIDE DEF In
<1>5. /\ T[0] = In(0) /\ T[n] = In(n)
      /\ \A i \in 1 .. n : T[i] = In(i) /\ T[i - 1] = In(i - 1)
  BY <1>1
<1> HIDE DEF T
<1>6. /\ Kept(s) \in T[0]
      /\ \A i \in 1 .. n : \A t \in T[i - 1] : ButtonEvent(t, r, toggles[i]) \in T[i]
      /\ \A t \in T[n], b \in Buttons : Held(t, r, b) \in T[n]
  BY <1>2, <1>3, <1>4, <1>5
<1>7. Classify(s, r, toggles, order) \in T[n]
  BY <1>6, ClassifyStays
<1>8. Classify(s, r, toggles, order) \in In(n)
  BY <1>5, <1>7
<1> DEFINE q == Classify(s, r, toggles, order)
<1> HIDE DEF q
<1>9. q \in In(n)
  BY <1>8 DEF q
<1>10. ASSUME NEW c \in Buttons, q.a.press[c].cls # "none", ~q.a.press[c].released
       PROVE c \in Toggled(ToSet(toggles))
  <2>1. CASE c \in wheel
    <3>1. c \notin ToSet(toggles)
      BY <1>1, <1>9, <1>10, <2>1 DEF In, ToSet
    <3> QED
      BY <2>1, <3>1 DEF Toggled
  <2>2. CASE c \notin wheel
    <3>1. c \in ToSet(toggles)
      BY <1>1, <1>9, <1>10, <2>2 DEF In, ToSet
    <3> QED
      BY <2>2, <3>1 DEF Toggled
  <2> QED
    BY <2>1, <2>2
<1>11. q \in StepType /\ Classified(q, s, r)
  BY <1>9 DEF In
<1>12. Fingers(q.a.press, Toggled(ToSet(toggles)))
  BY <1>10 DEF Fingers
<1> QED
  BY <1>11, <1>12 DEF q

-----------------------------------------------------------------------------
(* The session.                                                            *)

(* The arbiter at the start of its step, and when the presses are read.    *)
Start(a) ==
  [a |-> [a EXCEPT !.intent = "none", !.announced = FALSE],
   v |-> vCruise, adopted |-> FALSE, prev |-> a.state,
   cluster |-> IF vCruise = Unset THEN 0 ELSE vCruise]

Pressed(a, r, toggles, order) == Classify(Start(a), r, toggles, order)

(* All that the machine and the publishing leave alone.                    *)
SamePresses(t, s) ==
  /\ t.v = s.v /\ t.adopted = s.adopted /\ t.prev = s.prev /\ t.cluster = s.cluster
  /\ t.a.press = s.a.press /\ t.a.intent = s.a.intent

(* Where the machine goes from s.                                          *)
Moved(state, s, r, long) ==
  /\ ~(long /\ mode) => state = "disabled"
  /\ s.a.state = "active" => state \in {"active", "preActive", "disabled"}
  /\ s.a.state = "preActive" => state \in {"preActive", "inactive", "disabled"}
  /\ s.a.state \in {"active", "inactive"} /\ state = "preActive" => LimitChanged(s, r)
  /\ s.a.state = "inactive" /\ state = "active" =>
       \/ LimitChanged(s, r)
       \/ ~s.a.dismissed /\ r.has /\ \A b \in Buttons : s.a.press[b].cls = "none"
  /\ s.a.state = "inactive" /\ LimitChanged(s, r) => state # "inactive"
  /\ s.a.state = "disabled" /\ state \in {"preActive", "active"} => r.has

(* A prompt, or the session at once, from any state.                        *)
LEMMA EnterPromptFacts ==
  ASSUME NEW s \in StepType, NEW r \in RoadType
  PROVE LET t == EnterPrompt(s, r) IN
        /\ t \in StepType /\ SamePresses(t, s)
        /\ t.a.vCap = s.a.vCap /\ t.a.limitPrev = s.a.limitPrev
        /\ t.a.state \in {"active", "preActive"}
<1> DEFINE a1 == [s.a EXCEPT !.state = "active",
                             !.announced = @ \/ FALSE \/ SpeedMoves(s, r)]
           a2 == [s.a EXCEPT !.state = "preActive", !.prompt = PromptFrames]
           t == EnterPrompt(s, r)
<1>1. s.a \in ArbType /\ PromptFrames \in Nat
  BY CruiseAssumption DEF StepType
<1>2. t = IF r.slf = s.cluster THEN [s EXCEPT !.a = a1] ELSE [s EXCEPT !.a = a2]
  BY DEF EnterPrompt, Activate, StepType
<1>3. SpeedMoves(s, r) \in BOOLEAN
  BY DEF SpeedMoves
<1>4. /\ a1 \in ArbType /\ a2 \in ArbType
      /\ a1.state = "active" /\ a2.state = "preActive"
      /\ \A a \in {a1, a2} : /\ a.press = s.a.press /\ a.intent = s.a.intent
                             /\ a.vCap = s.a.vCap /\ a.limitPrev = s.a.limitPrev
  BY <1>1, <1>3 DEF ArbType, SessionStates
<1> HIDE DEF a1, a2, t
<1> QED
  BY <1>2, <1>4 DEF StepType, SamePresses, t

(* The session machine: no press, no intent and no cap is its to change.    *)
LEMMA MachineFacts ==
  ASSUME NEW s \in StepType, NEW r \in RoadType, NEW long \in BOOLEAN, mode \in BOOLEAN
  PROVE LET t == Machine(s, r, long) IN
        /\ t \in StepType /\ SamePresses(t, s) /\ t.a.vCap = s.a.vCap
        /\ Moved(t.a.state, s, r, long)
<1> DEFINE t == Machine(s, r, long)
<1>0. s.a \in ArbType /\ s.a.state \in SessionStates
  BY DEF StepType, ArbType
<1>1. CASE ~(long /\ mode)
  <2> DEFINE a1 == [s.a EXCEPT !.state = "disabled", !.dismissed = FALSE]
  <2>1. t = IF s.a.state = "disabled" THEN s ELSE [s EXCEPT !.a = a1]
    BY <1>1 DEF Machine, StepType
  <2>2. /\ a1 \in ArbType /\ a1.press = s.a.press /\ a1.intent = s.a.intent
        /\ a1.vCap = s.a.vCap /\ a1.state = "disabled"
    BY <1>0 DEF ArbType, SessionStates
  <2> HIDE DEF a1
  <2>3. t \in StepType /\ SamePresses(t, s) /\ t.a.vCap = s.a.vCap /\ t.a.state = "disabled"
    BY <2>1, <2>2 DEF StepType, SamePresses
  <2> QED
    BY <1>1, <2>3 DEF Moved
<1>2. CASE long /\ mode /\ s.a.state = "active"
  <2> DEFINE a1 == [s.a EXCEPT !.announced = @ \/ (LimitChanged(s, r) /\ SpeedMoves(s, r))]
  <2>1. t = IF LimitChanged(s, r) /\ ConfirmNeeded(s, r) THEN EnterPrompt(s, r)
            ELSE [s EXCEPT !.a = a1]
    BY <1>2 DEF Machine, OnActive, StepType
  <2>2. /\ a1 \in ArbType /\ a1.press = s.a.press /\ a1.intent = s.a.intent
        /\ a1.vCap = s.a.vCap /\ a1.state = "active"
    BY <1>0, <1>2 DEF ArbType
  <2> HIDE DEF a1
  <2>3. CASE LimitChanged(s, r) /\ ConfirmNeeded(s, r)
    <3>1. t = EnterPrompt(s, r)
      BY <2>1, <2>3
    <3>2. /\ t \in StepType /\ SamePresses(t, s) /\ t.a.vCap = s.a.vCap
          /\ t.a.state \in {"active", "preActive"}
      BY <3>1, EnterPromptFacts
    <3> QED
      BY <1>2, <2>3, <3>2 DEF Moved
  <2>4. CASE ~(LimitChanged(s, r) /\ ConfirmNeeded(s, r))
    <3>1. t \in StepType /\ SamePresses(t, s) /\ t.a.vCap = s.a.vCap /\ t.a.state = "active"
      BY <2>1, <2>2, <2>4 DEF StepType, SamePresses
    <3> QED
      BY <1>2, <3>1 DEF Moved
  <2> QED
    BY <2>3, <2>4
<1>3. CASE long /\ mode /\ s.a.state = "preActive"
  <2> DEFINE a1 == [s.a EXCEPT !.state = "inactive"]
  <2>1. t = IF s.a.prompt = 0 THEN [s EXCEPT !.a = a1] ELSE s
    BY <1>3 DEF Machine, OnPrompt, StepType
  <2>2. /\ a1 \in ArbType /\ a1.press = s.a.press /\ a1.intent = s.a.intent
        /\ a1.vCap = s.a.vCap /\ a1.state = "inactive"
    BY <1>0 DEF ArbType, SessionStates
  <2> HIDE DEF a1
  <2>3. /\ t \in StepType /\ SamePresses(t, s) /\ t.a.vCap = s.a.vCap
        /\ t.a.state \in {"preActive", "inactive"}
    BY <1>3, <2>1, <2>2 DEF StepType, SamePresses
  <2> QED
    BY <1>3, <2>3 DEF Moved
<1>4. CASE long /\ mode /\ s.a.state = "inactive"
  <2> DEFINE a1 == [s.a EXCEPT !.dismissed = FALSE]
             u == [s EXCEPT !.a = a1]
             a2 == [s.a EXCEPT !.state = "active",
                               !.announced = @ \/ FALSE \/ SpeedMoves(s, r)]
  <2>1. t = IF LimitChanged(s, r) THEN EnterPrompt(u, r)
            ELSE IF Dialled(s, r) THEN [s EXCEPT !.a = a2] ELSE s
    BY <1>4 DEF Machine, OnInactive, StepType, Activate
  <2>2. /\ a1 \in ArbType /\ a1.press = s.a.press /\ a1.intent = s.a.intent
        /\ a1.vCap = s.a.vCap /\ a1.state = "inactive"
        /\ a2 \in ArbType /\ a2.press = s.a.press /\ a2.intent = s.a.intent
        /\ a2.vCap = s.a.vCap /\ a2.state = "active"
    BY <1>0, <1>4 DEF ArbType, SessionStates, SpeedMoves
  <2> HIDE DEF a1, a2
  <2>3. u \in StepType /\ SamePresses(u, s) /\ u.a = a1
    BY <2>2 DEF StepType, SamePresses
  <2> HIDE DEF u
  <2>4. CASE LimitChanged(s, r)
    <3>1. /\ EnterPrompt(u, r) \in StepType /\ SamePresses(EnterPrompt(u, r), u)
          /\ EnterPrompt(u, r).a.vCap = u.a.vCap
          /\ EnterPrompt(u, r).a.state \in {"active", "preActive"}
      BY <2>3, EnterPromptFacts
    <3>2. SamePresses(EnterPrompt(u, r), s)
      BY <2>3, <3>1 DEF SamePresses
    <3> QED
      BY <1>4, <2>1, <2>2, <2>3, <2>4, <3>1, <3>2 DEF Moved
  <2>5. CASE ~LimitChanged(s, r) /\ Dialled(s, r)
    <3>1. t \in StepType /\ SamePresses(t, s) /\ t.a.vCap = s.a.vCap /\ t.a.state = "active"
      BY <2>1, <2>2, <2>5 DEF StepType, SamePresses
    <3>2. ~s.a.dismissed /\ r.has /\ \A b \in Buttons : s.a.press[b].cls = "none"
      BY <2>5 DEF Dialled
    <3> QED
      BY <1>4, <3>1, <3>2 DEF Moved
  <2>6. CASE ~LimitChanged(s, r) /\ ~Dialled(s, r)
    BY <1>4, <2>1, <2>6 DEF Moved, SamePresses
  <2> QED
    BY <2>4, <2>5, <2>6
<1>5. CASE long /\ mode /\ s.a.state = "disabled"
  <2> DEFINE a1 == [s.a EXCEPT !.guard = GuardFrames]
             a2 == [s.a EXCEPT !.state = "inactive"]
  <2>1. t = IF ~s.a.longPrev \/ s.cluster # s.a.clusterPrev THEN [s EXCEPT !.a = a1]
            ELSE IF s.a.guard > 0 THEN s
            ELSE IF r.has THEN EnterPrompt(s, r) ELSE [s EXCEPT !.a = a2]
    BY <1>5 DEF Machine, OnDisabled, StepType
  <2>2. /\ a1 \in ArbType /\ a1.press = s.a.press /\ a1.intent = s.a.intent
        /\ a1.vCap = s.a.vCap /\ a1.state = "disabled"
        /\ a2 \in ArbType /\ a2.press = s.a.press /\ a2.intent = s.a.intent
        /\ a2.vCap = s.a.vCap /\ a2.state = "inactive"
    BY <1>0, <1>5, CruiseAssumption DEF ArbType, SessionStates
  <2> HIDE DEF a1, a2
  <2>3. CASE t = EnterPrompt(s, r) /\ r.has
    <3>1. /\ t \in StepType /\ SamePresses(t, s) /\ t.a.vCap = s.a.vCap
          /\ t.a.state \in {"active", "preActive"}
      BY <2>3, EnterPromptFacts
    <3> QED
      BY <1>5, <2>3, <3>1 DEF Moved
  <2>4. CASE t \in {[s EXCEPT !.a = a1], [s EXCEPT !.a = a2], s}
    <3>1. /\ t \in StepType /\ SamePresses(t, s) /\ t.a.vCap = s.a.vCap
          /\ t.a.state \in {"disabled", "inactive"}
      BY <1>5, <2>2, <2>4 DEF StepType, SamePresses
    <3> QED
      BY <1>5, <3>1 DEF Moved
  <2> QED
    BY <2>1, <2>3, <2>4
<1> QED
  BY <1>0, <1>1, <1>2, <1>3, <1>4, <1>5 DEF SessionStates

(* The arbiter a frame begins with.                                         *)
LEMMA StartFacts ==
  ASSUME NEW a \in ArbType, vCruise \in SetSpeeds
  PROVE /\ Start(a) \in StepType /\ Start(a).a.press = a.press /\ ~Start(a).adopted
        /\ Start(a).prev = a.state /\ Start(a).a.state = a.state
        /\ Start(a).v = vCruise /\ Start(a).a.vCap = a.vCap
        /\ Start(a).a.limitPrev = a.limitPrev /\ Start(a).a.dismissed = a.dismissed
<1> DEFINE a0 == [a EXCEPT !.intent = "none", !.announced = FALSE]
<1>1. /\ a0 \in ArbType /\ a0.press = a.press /\ a0.state = a.state /\ a0.vCap = a.vCap
      /\ a0.limitPrev = a.limitPrev /\ a0.dismissed = a.dismissed /\ a.state \in SessionStates
  BY DEF ArbType
<1> HIDE DEF a0
<1>2. vCruise \in Nat
  BY CruiseAssumption DEF SetSpeeds
<1>3. Start(a) = [a |-> a0, v |-> vCruise, adopted |-> FALSE, prev |-> a.state,
                  cluster |-> IF vCruise = Unset THEN 0 ELSE vCruise]
  BY DEF Start, a0
<1> QED
  BY <1>1, <1>2, <1>3 DEF StepType

(* The step of the arbiter: the presses, then the machine.                 *)
LEMMA StepFacts ==
  ASSUME NEW a \in ArbType, NEW r \in RoadType, NEW long \in BOOLEAN,
         NEW toggles \in Seq(Buttons), NEW order \in Seq(Buttons),
         mode \in BOOLEAN, vCruise \in SetSpeeds,
         Wellformed(a.press), Fingers(a.press, wheel)
  PROVE LET s1 == Pressed(a, r, toggles, order)
            t == Step(a, r, long, toggles, order)
        IN /\ s1 \in StepType /\ Classified(s1, Start(a), r)
           /\ Fingers(s1.a.press, Toggled(ToSet(toggles)))
           /\ t \in StepType /\ SamePresses(t, s1) /\ Moved(t.a.state, s1, r, long)
           /\ t.a.limitPrev = r.limit
           /\ t.a.vCap = IF t.a.state = "active" THEN IF r.has THEN r.slf ELSE Unset
                         ELSE IF t.a.state = "preActive" THEN a.vCap ELSE Unset
<1> DEFINE s1 == Pressed(a, r, toggles, order)
           a2 == [s1.a EXCEPT !.guard = Tick(@), !.prompt = Tick(@), !.dial = Tick(@)]
           s2 == [s1 EXCEPT !.a = a2]
           m == Machine(s2, r, long)
           vCap == IF m.a.state = "active" THEN IF r.has THEN r.slf ELSE Unset
                   ELSE IF m.a.state = "preActive" THEN m.a.vCap ELSE Unset
           a3 == [m.a EXCEPT !.vCap = vCap, !.limitPrev = r.limit, !.longPrev = long,
                             !.clusterPrev = m.cluster]
           t == Step(a, r, long, toggles, order)
<1>1. /\ s1 \in StepType /\ Classified(s1, Start(a), r)
      /\ Fingers(s1.a.press, Toggled(ToSet(toggles)))
  BY StartFacts, ClassifyFacts DEF Pressed
<1>2. t = Published(Machine([s1 EXCEPT !.a.guard = Tick(@), !.a.prompt = Tick(@),
                                       !.a.dial = Tick(@)], r, long), r, long)
  BY DEF Step, Pressed, Start
<1> HIDE DEF s1
<1>3. s1.a \in ArbType
  BY <1>1 DEF StepType
<1>4. [s1 EXCEPT !.a.guard = Tick(@), !.a.prompt = Tick(@), !.a.dial = Tick(@)] = s2
  BY <1>1, <1>3 DEF StepType, ArbType
<1>5. \A n \in Nat : Tick(n) \in Nat
  BY DEF Tick
<1>6. /\ a2 \in ArbType /\ a2.press = s1.a.press /\ a2.intent = s1.a.intent
      /\ a2.state = s1.a.state /\ a2.vCap = s1.a.vCap /\ a2.limitPrev = s1.a.limitPrev
      /\ a2.dismissed = s1.a.dismissed
  BY <1>3, <1>5 DEF ArbType
<1> HIDE DEF a2
<1>7. s2 \in StepType /\ SamePresses(s2, s1) /\ s2.a = a2
  BY <1>1, <1>6 DEF StepType, SamePresses
<1> HIDE DEF s2
<1>8. /\ m \in StepType /\ SamePresses(m, s2) /\ m.a.vCap = s2.a.vCap
      /\ Moved(m.a.state, s2, r, long)
  BY <1>7, MachineFacts
<1>9. t = Published(m, r, long)
  BY <1>2, <1>4
<1> HIDE DEF m
<1>10. Moved(m.a.state, s1, r, long)
  BY <1>6, <1>7, <1>8 DEF Moved, LimitChanged
<1>11. t = [m EXCEPT !.a = a3]
  BY <1>8, <1>9 DEF Published, StepType, ArbType
<1>12. m.a \in ArbType /\ m.cluster \in Nat /\ r.limit \in Nat /\ vCap \in Nat
  <2>1. m.a \in ArbType /\ m.cluster \in Nat
    BY <1>8 DEF StepType
  <2>2. m.a.vCap \in Nat
    BY <2>1 DEF ArbType
  <2>3. r.limit \in Nat /\ r.slf \in Nat /\ Unset \in Nat
    BY CruiseAssumption DEF RoadType
  <2> QED
    BY <2>1, <2>2, <2>3
<1>13. s1.a.vCap = a.vCap
  BY <1>1, StartFacts DEF Classified
<1> HIDE DEF vCap
<1>14. /\ a3 \in ArbType /\ a3.press = m.a.press /\ a3.intent = m.a.intent
       /\ a3.state = m.a.state /\ a3.limitPrev = r.limit /\ a3.vCap = vCap
  BY <1>12 DEF ArbType
<1> HIDE DEF a3, t
<1>15. t \in StepType /\ t.a = a3 /\ SamePresses(t, s1)
  BY <1>6, <1>7, <1>8, <1>11, <1>14 DEF StepType, SamePresses
<1> QED
  BY <1>1, <1>6, <1>7, <1>8, <1>10, <1>13, <1>14, <1>15 DEF t, s1, vCap

-----------------------------------------------------------------------------
(* The set speed.                                                          *)

(* The constants of the set speed are naturals in their order.              *)
LEMMA SpeedConstants ==
  /\ VMin \in Nat /\ VMax \in Nat /\ Unset \in Nat /\ VEgo \in Nat /\ VInitial \in Nat
  /\ LongStep \in Nat /\ LongStep > 0 /\ SettleFrames \in Nat
  /\ 0 < VMin /\ VMin <= VInitial /\ VInitial <= VMax /\ VMin <= VMax /\ VMax < Unset
  /\ \A d \in Dashes \cup {0} : d \in Nat /\ d <= VMax
<1>1. \A n \in {VMin, VInitial, VEgo, LongStep, CruiseLongPress, GuardFrames,
                PromptFrames, DialFrames, SettleFrames} : n \in Nat \ {0}
  BY CruiseAssumption
<1>2. /\ VMin \in Nat \ {0} /\ VInitial \in Nat /\ VEgo \in Nat
      /\ LongStep \in Nat \ {0} /\ SettleFrames \in Nat
  BY <1>1
<1>3. /\ VMax \in Nat /\ Unset \in Nat /\ VMin <= VInitial /\ VInitial <= VMax
      /\ VMax < Unset
  BY CruiseAssumption
<1>4. \A d \in Dashes : d \in Nat /\ d <= VMax
  BY <1>3, CruiseAssumption
<1>5. \A d \in Dashes \cup {0} : d \in Nat /\ d <= VMax
  BY <1>3, <1>4
<1> QED
  BY <1>2, <1>3, <1>5

(* A clipped speed is in range.                                             *)
LEMMA ClipFacts ==
  \A v \in Int : Clip(v) \in VMin .. VMax
BY SpeedConstants DEF Clip, Greater, Lesser

(* A step makes a number.                                                   *)
LEMMA SteppedType ==
  ASSUME NEW v \in Nat, NEW st
  PROVE Stepped(v, st) \in Int
<1>1. v \div LongStep \in Int
  BY SpeedConstants
<1>2. \A q, l \in Int : q * l \in Int
  OBVIOUS
<1>3. \A q \in Int : q + 1 \in Int /\ q + 0 \in Int
  OBVIOUS
<1>4. (v \div LongStep + IF st.b = "accel" THEN 1 ELSE 0) * LongStep \in Int
  <2> DEFINE q == v \div LongStep + IF st.b = "accel" THEN 1 ELSE 0
  <2>1. q \in Int
    BY <1>1, <1>3
  <2> HIDE DEF q
  <2>2. q * LongStep \in Int
    BY <1>2, <2>1, SpeedConstants
  <2> QED
    BY <2>2 DEF q
<1>5. \A d \in Nat : v + d \in Int /\ v - d \in Int
  OBVIOUS
<1> HIDE DEF Stepped
<1> DEFINE grid == (v \div LongStep + IF st.b = "accel" THEN 1 ELSE 0) * LongStep
<1>6. Stepped(v, st) \in {grid, v + LongStep, v - LongStep, v + 1, v - 1}
  BY DEF Stepped
<1>7. grid \in Int
  BY <1>4
<1> HIDE DEF grid
<1> QED
  BY <1>5, <1>6, <1>7, SpeedConstants

(* The steps a frame may make of the set speed.                            *)
MayStep(in, a) ==
  {st \in StepsOf(in) :
     /\ st.b = "accel" => ~changed[st.b].standstill /\ "standstill" \notin in.hap
     /\ changed[st.b].enabled
     /\ ~PressOwned(a, st.b)}

(* No step, no change; a step ends in range.                                *)
LEMMA IncrementedFacts ==
  ASSUME NEW in, NEW v \in Nat, NEW a
  PROVE /\ MayStep(in, a) = {} => Incremented(in, v, a) = v
        /\ Incremented(in, v, a) \in (VMin .. VMax) \cup {v}
<1>1. CASE MayStep(in, a) = {}
  <2>1. Incremented(in, v, a) = v
    BY <1>1 DEF Incremented, MayStep
  <2> QED
    BY <2>1
<1>2. CASE MayStep(in, a) # {}
  <2> DEFINE st == CHOOSE x \in MayStep(in, a) : TRUE
             x == Stepped(v, st)
             y == IF "gas" \in in.hap /\ ~PcmCruise /\ st.b = "decel" THEN Greater(x, VEgo) ELSE x
  <2>1. Incremented(in, v, a) = Clip(y)
    BY <1>2 DEF Incremented, MayStep
  <2>2. x \in Int
    BY SteppedType
  <2> HIDE DEF x
  <2>3. y \in Int
    BY <2>2, SpeedConstants DEF Greater
  <2> HIDE DEF y
  <2> QED
    BY <1>2, <2>1, <2>3, ClipFacts
<1> QED
  BY <1>1, <1>2

(* The helper's set speed is in range or unset.                             *)
LEMMA SetSpeedType ==
  ASSUME NEW in \in InType, vCruise \in SetSpeeds, NEW s, s.v \in Nat, s.adopted \in BOOLEAN,
         NEW active \in BOOLEAN, NEW long \in BOOLEAN
  PROVE /\ SetSpeed(in, s, active, long) \in SetSpeeds
        /\ ~PcmCruise /\ (vCruise # Unset => vCruise >= VMin) =>
             LET w == SetSpeed(in, s, active, long) IN w # Unset => w >= VMin
<1> DEFINE adopted == IF s.adopted THEN Clip(s.v) ELSE vCruise
           own == ~PcmCruise \/ (active /\ long)
           stepped == IF ~in.available THEN Unset
                      ELSE IF own THEN IF long THEN Incremented(in, adopted, s.a)
                                       ELSE adopted
                      ELSE IF in.dash = 0 THEN Unset ELSE in.dash
           first == Lesser(Greater(VEgo, VInitial), VMax)
           w == SetSpeed(in, s, active, long)
<1>1. adopted \in (VMin .. VMax) \cup {vCruise} /\ adopted \in Nat
  BY ClipFacts, SpeedConstants DEF SetSpeeds
<1> HIDE DEF adopted
<1>2. Incremented(in, adopted, s.a) \in (VMin .. VMax) \cup {vCruise}
  BY <1>1, IncrementedFacts
<1>3. in.dash \in 0 .. VMax
  <2>1. in.dash \in Dashes \cup {0}
    BY DEF InType
  <2> QED
    BY <2>1, SpeedConstants
<1>4. stepped \in SetSpeeds /\ (~PcmCruise => stepped \in (VMin .. VMax) \cup {vCruise, Unset})
  BY <1>1, <1>2, <1>3, SpeedConstants DEF SetSpeeds
<1>5. first \in VMin .. VMax
  BY SpeedConstants DEF Lesser, Greater
<1>6. w \in {stepped, vCruise, first}
  BY DEF SetSpeed, adopted
<1> HIDE DEF stepped, first, w
<1>7. w \in SetSpeeds
  BY <1>4, <1>5, <1>6, SpeedConstants DEF SetSpeeds
<1>8. ~PcmCruise => w \in (VMin .. VMax) \cup {vCruise, Unset}
  BY <1>4, <1>5, <1>6
<1> QED
  BY <1>7, <1>8, SpeedConstants DEF w

ReconcileType == [frames : Nat, allowed : BOOLEAN, floor : BOOLEAN]

(* What the reconciler may make of a set speed, and what its floor does.    *)
LEMMA ReconciledFacts ==
  ASSUME NEW in \in InType, NEW r \in ReconcileType, NEW v \in SetSpeeds, NEW a, NEW timers
  PROVE LET rec == Reconciled(in, r, v, a, timers) IN
        /\ rec.v \in SetSpeeds /\ rec.r \in ReconcileType
        /\ rec.v = Unset <=> v = Unset
        /\ rec.r.floor => v # Unset
        /\ rec.v \in {v, Clip(in.dash), Lesser(v, Clip(in.dash))}
        /\ a.state = "preActive" => rec.v = v
        /\ r.floor /\ ~rec.r.floor /\ in.available /\ v # Unset /\ in.dash > 0
             /\ a.state # "preActive" => rec.v <= Clip(in.dash)
<1> DEFINE pressed == \E b \in Steppers : timers[b] > 0
           starts == \E b \in Steppers : timers[b] = 1
           r1 == [frames |-> IF pressed THEN SettleFrames ELSE r.frames - 1,
                  allowed |-> IF starts THEN Agrees(in, v) ELSE r.allowed,
                  floor |-> r.floor \/ (a.intent = "dismiss" /\ timers["decel"] = 1)]
           v1 == IF r1.allowed /\ Regime(in, a) /\ in.dash > 0 THEN Clip(in.dash) ELSE v
           settles == r1.floor /\ r1.frames = 0
           v2 == IF settles /\ FloorDue(in, a) /\ in.dash > 0
                 THEN Lesser(v1, Clip(in.dash)) ELSE v1
           rec == Reconciled(in, r, v, a, timers)
           off == [r EXCEPT !.frames = 0, !.floor = FALSE]
           on == [r1 EXCEPT !.floor = @ /\ ~settles]
<1>1. rec = IF ~in.available \/ v = Unset THEN [v |-> v, r |-> off]
            ELSE IF ~pressed /\ r.frames = 0 THEN [v |-> v, r |-> r]
            ELSE [v |-> v2, r |-> on]
  BY DEF Reconciled
<1>2. Clip(in.dash) \in VMin .. VMax /\ in.dash \in Nat
  <2>1. in.dash \in Dashes \cup {0}
    BY DEF InType
  <2>2. in.dash \in Nat
    BY <2>1, SpeedConstants
  <2> QED
    BY <2>2, ClipFacts
<1>3. v \in Nat /\ (v # Unset => v \in 0 .. VMax)
  BY SpeedConstants DEF SetSpeeds
<1>4. off \in ReconcileType /\ ~off.floor
  BY DEF ReconcileType
<1>5. Agrees(in, v) \in BOOLEAN
  BY DEF Agrees
<1>6. ~(~pressed /\ r.frames = 0) => r1 \in ReconcileType
  BY <1>5, SpeedConstants DEF ReconcileType
<1>7. v1 \in {v, Clip(in.dash)} /\ (a.state = "preActive" => v1 = v)
  BY DEF Regime
<1>8. /\ v2 \in {v, Clip(in.dash), Lesser(v, Clip(in.dash))}
      /\ a.state = "preActive" => v2 = v
      /\ settles /\ in.dash > 0 /\ a.state # "preActive" => v2 <= Clip(in.dash)
  <2> HIDE DEF v1
  <2>1. Lesser(Clip(in.dash), Clip(in.dash)) = Clip(in.dash)
    BY DEF Lesser
  <2>2. Lesser(v1, Clip(in.dash)) <= Clip(in.dash)
    BY <1>2, <1>3, <1>7 DEF Lesser
  <2> QED
    BY <1>7, <2>1, <2>2 DEF FloorDue
<1>9. v # Unset => v2 \in 0 .. VMax
  <2> HIDE DEF v2
  <2> QED
    BY <1>2, <1>3, <1>8, SpeedConstants DEF Lesser
<1>10. ~(~pressed /\ r.frames = 0) => on \in ReconcileType
  <2> HIDE DEF r1
  <2> QED
    BY <1>6 DEF ReconcileType
<1>11. r.floor /\ ~on.floor => settles
  BY DEF ReconcileType
<1> HIDE DEF v2, on, off, pressed, rec, settles
<1>12. CASE ~in.available \/ v = Unset
  BY <1>1, <1>4, <1>12 DEF rec
<1>13. CASE ~(~in.available \/ v = Unset) /\ ~pressed /\ r.frames = 0
  BY <1>1, <1>13 DEF rec
<1>14. CASE ~(~in.available \/ v = Unset) /\ ~(~pressed /\ r.frames = 0)
  <2>1. rec = [v |-> v2, r |-> on]
    BY <1>1, <1>14
  <2> QED
    BY <1>3, <1>8, <1>9, <1>10, <1>11, <1>14, <2>1, SpeedConstants DEF SetSpeeds, rec
<1> QED
  BY <1>12, <1>13, <1>14

-----------------------------------------------------------------------------
(* The invariant.                                                          *)

(* The session is over where the arbiter is not applied; what it caps at   *)
(* is the limit of the road it was last given.                             *)
Session ==
  /\ Wellformed(arb.press) /\ Fingers(arb.press, wheel)
  /\ ~Applicable(icbm) =>
       arb.state = "disabled" /\ \A b \in Buttons : arb.press[b].cls = "none"
  /\ arb.state \in {"inactive", "disabled"} => arb.vCap = Unset
  /\ arb.state = "active" => road.has /\ arb.vCap = road.slf
  /\ arb.state = "preActive" => road.has
  /\ arb.state # "disabled" => arb.limitPrev = road.limit

(* The target of a road is that of a limit, present or last.               *)
RoadRead ==
  /\ road.has => \E l \in Limits, o \in Offsets : road.slf = l + o
  /\ road.limit # 0 =>
       road.has /\ \E o \in Offsets : road.limit \in Limits /\ road.slf = road.limit + o

(* A floor waits on a set speed of ICBM's; openpilot's own is in range.    *)
Ranges ==
  /\ reconcile.floor => icbm /\ vCruise # Unset
  /\ ~PcmCruise /\ vCruise # Unset => vCruise >= VMin

IInv == TypeOK /\ Demand /\ Timers /\ Session /\ RoadRead /\ Ranges

-----------------------------------------------------------------------------
(* A frame, in its parts.                                                  *)

LongOf(in) == LongEnabled(in, LatchAfter(in))
Handed(in) == HandedOver(arb, LatchAfter(in))

After(in) ==
  IF Applicable(LatchAfter(in))
  THEN Step(Handed(in), in.road, LongOf(in), in.toggles, in.order)
  ELSE [a |-> Handed(in), v |-> vCruise, adopted |-> FALSE]

Speed(in) == SetSpeed(in, After(in), LatchAfter(in), LongOf(in))

Waiting(in) ==
  IF After(in).adopted \/ LatchAfter(in) # icbm THEN ClearReconcile ELSE reconcile

Settled(in) ==
  IF LatchAfter(in)
  THEN Reconciled(in, Waiting(in), Speed(in), After(in).a, Timed(enableTimers, in.toggles))
  ELSE [v |-> Speed(in), r |-> Waiting(in)]

(* A frame, read off its parts.                                             *)
LEMMA FrameParts ==
  ASSUME NEW in, Frame(in)
  PROVE /\ wheel' = Toggled(ToSet(in.toggles))
        /\ enabled' = in.enabled /\ available' = in.available
        /\ road' = in.road /\ dash' = in.dash /\ icbm' = LatchAfter(in)
        /\ arb' = After(in).a
        /\ vCruise' = Settled(in).v /\ reconcile' = Settled(in).r
        /\ kind' = kind /\ mode' = mode /\ demanded' = demanded
        /\ (Applicable(icbm))' = Applicable(LatchAfter(in))
        /\ PcmCruise' = PcmCruise
BY DEF Frame, LongOf, Handed, After, Speed, Waiting, Settled, Applicable, PcmCruise

(* Longitudinal control is on or off.                                       *)
LEMMA LongType ==
  ASSUME TypeOK, NEW in \in InType
  PROVE LongOf(in) \in BOOLEAN
BY DEF LongOf, LongEnabled, TypeOK, InType

(* The arbiter a frame begins with: as it was, or handed over.             *)
LEMMA HandedFacts ==
  ASSUME TypeOK, Session, NEW in \in InType
  PROVE /\ Handed(in) \in ArbType
        /\ Wellformed(Handed(in).press) /\ Fingers(Handed(in).press, wheel)
        /\ Applicable(LatchAfter(in)) = Applicable(icbm) => Handed(in) = arb
        /\ Applicable(LatchAfter(in)) # Applicable(icbm) =>
             /\ Handed(in).state = "disabled" /\ Handed(in).vCap = Unset
             /\ \A b \in Buttons : Handed(in).press[b].cls = "none"
        /\ Handed(in).state \in {arb.state, "disabled"}
<1>1. CASE Applicable(LatchAfter(in)) = Applicable(icbm)
  <2>1. Handed(in) = arb
    BY <1>1 DEF Handed, HandedOver
  <2> QED
    BY <1>1, <2>1 DEF TypeOK, Session
<1>2. CASE Applicable(LatchAfter(in)) # Applicable(icbm)
  <2> DEFINE p1 == [b \in Buttons |-> NoPress]
             a1 == [arb EXCEPT !.state = "disabled", !.vCap = Unset, !.press = p1]
  <2>1. Handed(in) = a1
    BY <1>2 DEF Handed, HandedOver
  <2>2. NoPress \in PressType /\ NoPress.cls = "none" /\ ~NoPress.released /\ ~NoPress.resolved
    BY DEF NoPress, PressType
  <2>3. p1 \in [Buttons -> PressType] /\ Wellformed(p1) /\ Fingers(p1, wheel)
    BY <2>2 DEF Wellformed, Fingers
  <2>4. \A b \in Buttons : p1[b].cls = "none"
    BY <2>2
  <2> HIDE DEF p1
  <2>5. a1 \in ArbType /\ a1.state = "disabled" /\ a1.vCap = Unset /\ a1.press = p1
    BY <2>3, SpeedConstants DEF TypeOK, ArbType, SessionStates
  <2> QED
    BY <1>2, <2>1, <2>3, <2>4, <2>5
<1> QED
  BY <1>1, <1>2

(* The arbiter after a frame.                                               *)
LEMMA AfterType ==
  ASSUME TypeOK, Session, NEW in \in InType
  PROVE After(in).a \in ArbType /\ After(in).v \in Nat /\ After(in).adopted \in BOOLEAN
<1>1. CASE Applicable(LatchAfter(in))
  <2>1. After(in) \in StepType
    BY <1>1, HandedFacts, LongType, StepFacts DEF After, TypeOK, InType
  <2> QED
    BY <2>1 DEF StepType
<1>2. CASE ~Applicable(LatchAfter(in))
  <2>1. After(in) = [a |-> Handed(in), v |-> vCruise, adopted |-> FALSE]
    BY <1>2 DEF After
  <2>2. vCruise \in Nat
    BY SpeedConstants DEF TypeOK, SetSpeeds
  <2> QED
    BY <2>1, <2>2, HandedFacts
<1> QED
  BY <1>1, <1>2

(* The arbiter's own part of a frame, where it is applied.                 *)
LEMMA AppliedFacts ==
  ASSUME TypeOK, Session, NEW in \in InType, Applicable(LatchAfter(in))
  PROVE LET a == Handed(in)
            s1 == Pressed(a, in.road, in.toggles, in.order)
            t == After(in)
        IN /\ s1 \in StepType /\ Classified(s1, Start(a), in.road)
           /\ Fingers(s1.a.press, Toggled(ToSet(in.toggles)))
           /\ t \in StepType /\ SamePresses(t, s1)
           /\ Moved(t.a.state, s1, in.road, LongOf(in))
           /\ t.a.limitPrev = in.road.limit
           /\ t.a.vCap = IF t.a.state = "active"
                         THEN IF in.road.has THEN in.road.slf ELSE Unset
                         ELSE IF t.a.state = "preActive" THEN a.vCap ELSE Unset
<1>1. After(in) = Step(Handed(in), in.road, LongOf(in), in.toggles, in.order)
  BY DEF After
<1>2. /\ in.road \in RoadType /\ in.toggles \in Seq(Buttons) /\ in.order \in Seq(Buttons)
      /\ mode \in BOOLEAN /\ vCruise \in SetSpeeds
  BY DEF TypeOK, InType
<1> QED
  BY <1>1, <1>2, HandedFacts, LongType, StepFacts

(* A limit once known is not forgotten.                                    *)
LEMMA RoadsFacts ==
  ASSUME RoadRead, road \in RoadType, NEW rd \in Roads \cup {road}
  PROVE /\ road.has => rd.has
        /\ rd.has => \E l \in Limits, o \in Offsets : rd.slf = l + o
        /\ rd.limit # 0 =>
             rd.has /\ \E o \in Offsets : rd.limit \in Limits /\ rd.slf = rd.limit + o
<1>1. CASE rd = road
  BY <1>1 DEF RoadRead
<1>2. CASE rd = [road EXCEPT !.limit = 0]
  BY <1>2 DEF RoadRead, RoadType
<1>3. CASE \E l \in Limits, o \in Offsets : rd = [limit |-> l, slf |-> l + o, has |-> TRUE]
  BY <1>3
<1> QED
  BY <1>1, <1>2, <1>3 DEF Roads

(* A frame keeps the session to the road and the presses to the wheel.      *)
LEMMA SessionStep ==
  ASSUME TypeOK, Session, RoadRead, NEW in \in InType, in.road \in Roads \cup {road}, Frame(in)
  PROVE Session' /\ RoadRead'
<1>1. RoadRead'
  BY FrameParts, RoadsFacts DEF RoadRead, TypeOK
<1>2. CASE ~Applicable(LatchAfter(in))
  <2>1. arb' = Handed(in)
    BY <1>2, FrameParts DEF After
  <2>2. /\ arb'.state = "disabled" /\ arb'.vCap = Unset
        /\ \A b \in Buttons : arb'.press[b].cls = "none"
    BY <1>2, <2>1, HandedFacts DEF Session
  <2>3. Wellformed(arb'.press)
    BY <2>1, HandedFacts
  <2> QED
    BY <1>1, <2>2, <2>3 DEF Session, Wellformed, Fingers
<1>3. CASE Applicable(LatchAfter(in))
  <2> DEFINE a == Handed(in)
             s1 == Pressed(a, in.road, in.toggles, in.order)
             t == After(in)
  <2>1. /\ s1 \in StepType /\ Classified(s1, Start(a), in.road)
        /\ Fingers(s1.a.press, Toggled(ToSet(in.toggles)))
        /\ t \in StepType /\ SamePresses(t, s1)
        /\ Moved(t.a.state, s1, in.road, LongOf(in))
        /\ t.a.limitPrev = in.road.limit
        /\ t.a.vCap = IF t.a.state = "active" THEN IF in.road.has THEN in.road.slf ELSE Unset
                      ELSE IF t.a.state = "preActive" THEN a.vCap ELSE Unset
    BY <1>3, AppliedFacts
  <2>2. s1.prev = a.state /\ a.state \in {arb.state, "disabled"} /\ a.state \in SessionStates
    BY <2>1, HandedFacts, StartFacts DEF Classified, ArbType, TypeOK
  <2>3. /\ arb' = t.a /\ wheel' = Toggled(ToSet(in.toggles)) /\ road' = in.road
        /\ (Applicable(icbm))'
    BY <1>3, FrameParts
  <2>4. road.has => in.road.has
    BY RoadsFacts DEF TypeOK
  <2>5. s1.a.state \in SessionStates /\ t.a.state \in SessionStates
    BY <2>1 DEF StepType, ArbType
  <2> HIDE DEF s1, a, t
  <2>6. s1.prev \in {"active", "preActive"} => in.road.has
    BY <2>2, <2>4 DEF Session
  <2>7. s1.a.state \in {"active", "preActive"} => in.road.has
    BY <2>1, <2>2, <2>6 DEF Classified, SessionStates
  <2>8. t.a.state \in {"active", "preActive"} => in.road.has
    BY <2>1, <2>5, <2>7 DEF Moved, LimitChanged, SessionStates
  <2>9. Wellformed(t.a.press) /\ Fingers(t.a.press, wheel')
    BY <2>1, <2>3 DEF Classified, SamePresses
  <2> QED
    BY <1>1, <2>1, <2>3, <2>8, <2>9 DEF Session, Wellformed, Fingers
<1> QED
  BY <1>2, <1>3

(* A frame keeps the set speed in range, and a floor to an ICBM car.        *)
LEMMA SpeedStep ==
  ASSUME TypeOK, Demand, Timers, Session, Ranges, NEW in \in InType, Frame(in)
  PROVE /\ vCruise' \in SetSpeeds /\ reconcile' \in ReconcileType /\ Ranges'
        /\ Speed(in) \in SetSpeeds /\ Waiting(in) \in ReconcileType
<1>1. LatchAfter(in) \in BOOLEAN /\ (LatchAfter(in) => PcmCruise)
  BY LatchFacts
<1>2. /\ Speed(in) \in SetSpeeds
      /\ ~PcmCruise /\ Speed(in) # Unset => Speed(in) >= VMin
  BY <1>1, AfterType, LongType, SetSpeedType DEF Speed, TypeOK, Ranges
<1>3. Waiting(in) \in ReconcileType /\ (Waiting(in).floor => LatchAfter(in))
  BY <1>1 DEF Waiting, ClearReconcile, ReconcileType, TypeOK, Ranges
<1>4. CASE LatchAfter(in)
  <2>1. /\ Settled(in).v \in SetSpeeds /\ Settled(in).r \in ReconcileType
        /\ Settled(in).v = Unset <=> Speed(in) = Unset
        /\ Settled(in).r.floor => Speed(in) # Unset
    BY <1>2, <1>3, <1>4, ReconciledFacts DEF Settled
  <2> QED
    BY <1>1, <1>2, <1>3, <1>4, <2>1, FrameParts DEF Ranges
<1>5. CASE ~LatchAfter(in)
  <2>1. Settled(in) = [v |-> Speed(in), r |-> Waiting(in)]
    BY <1>5 DEF Settled
  <2> QED
    BY <1>2, <1>3, <1>5, <2>1, FrameParts DEF Ranges
<1> QED
  BY <1>1, <1>4, <1>5

(* A frame keeps the types.                                                 *)
LEMMA TypeStep ==
  ASSUME TypeOK, Demand, Timers, Session, Ranges, NEW in \in InType, Frame(in)
  PROVE TypeOK'
<1>1. /\ in.toggles \in Seq(Buttons) /\ in.road \in RoadType /\ in.dash \in Dashes \cup {0}
      /\ in.enabled \in BOOLEAN /\ in.available \in BOOLEAN
  BY DEF InType
<1>2. wheel' \subseteq Buttons
  BY <1>1, FrameParts, ToggledType DEF TypeOK
<1>3. LatchAfter(in) \in BOOLEAN
  BY LatchFacts
<1>4. enableTimers' \in [Buttons -> Nat]
  BY <1>1, TimedFacts DEF Frame, TypeOK
<1>5. /\ buttonTimers' \in [Steppers -> Nat]
      /\ changed' \in [Steppers -> [standstill : BOOLEAN, enabled : BOOLEAN]]
  <2>1. Timed(buttonTimers, in.toggles) \in [Steppers -> Nat]
    BY <1>1, TimedFacts, ConstantFacts DEF TypeOK
  <2>2. \A b \in Steppers : [standstill |-> "standstill" \in in.hap, enabled |-> in.enabled]
          \in [standstill : BOOLEAN, enabled : BOOLEAN]
    BY <1>1
  <2> QED
    BY <2>1, <2>2 DEF Frame, TypeOK
<1>6. enabledPrev' \in BOOLEAN /\ plusPrev' \in BOOLEAN
  BY <1>1 DEF Frame, EnabledPrevAfter, TypeOK
<1>7. arb' \in ArbType
  BY FrameParts, AfterType
<1> QED
  BY <1>1, <1>2, <1>3, <1>4, <1>5, <1>6, <1>7, FrameParts, SpeedStep
  DEF TypeOK, ReconcileType

(* The invariant holds when card starts.                                    *)
LEMMA InitIInv == Init => IInv
<1> SUFFICES ASSUME Init PROVE IInv
  OBVIOUS
<1>1. kind \in Kinds /\ mode = TRUE /\ icbm = (kind # "openpilot") /\ demanded = icbm
  BY DEF Init
<1>a. icbm \in BOOLEAN /\ demanded \in BOOLEAN /\ mode \in BOOLEAN
  BY <1>1
<1>b. Demand
  BY <1>1 DEF Demand, PcmCruise
<1>2. \A l \in Limits, o \in Offsets : l + o \in 0 .. (Unset - 1) /\ l \in Nat
  BY CruiseAssumption
<1>3. road \in RoadType /\ RoadRead
  <2>1. Road0 \in RoadType
    BY SpeedConstants DEF Road0, RoadType
  <2>2. \A l \in Limits, o \in Offsets :
          [limit |-> l, slf |-> l + o, has |-> TRUE] \in RoadType
    BY <1>2 DEF RoadType
  <2>3. CASE road = Road0
    BY <2>1, <2>3 DEF Road0, RoadRead
  <2>4. CASE \E l \in Limits, o \in Offsets : road = [limit |-> l, slf |-> l + o, has |-> TRUE]
    BY <2>2, <2>4 DEF RoadRead
  <2> QED
    BY <2>3, <2>4 DEF Init
<1>4. dash \in Dashes \cup {0}
  BY DEF Init
<1>5. NoPress \in PressType /\ NoPress.cls = "none" /\ ~NoPress.resolved /\ ~NoPress.released
  BY DEF NoPress, PressType
<1>6. /\ arb \in ArbType /\ arb.state = "disabled" /\ arb.vCap = Unset
      /\ \A b \in Buttons : arb.press[b] = NoPress
  BY <1>5, SpeedConstants DEF Init, ArbType, SessionStates
<1>7. Session
  BY <1>5, <1>6 DEF Session, Wellformed, Fingers
<1>8. /\ wheel = {} /\ enableTimers = [b \in Buttons |-> 0]
      /\ buttonTimers = [b \in Steppers |-> 0]
  BY DEF Init
<1>9. Timers
  BY <1>8, ConstantFacts DEF Timers, TimersMatchWheel
<1>10. vCruise = Unset /\ reconcile = ClearReconcile
  BY DEF Init
<1>11. Ranges
  BY <1>10 DEF Ranges, ClearReconcile
<1>12. wheel \subseteq Buttons /\ enabled \in BOOLEAN /\ available \in BOOLEAN
  BY DEF Init
<1>13. vCruise \in SetSpeeds
  BY <1>10 DEF SetSpeeds
<1>14. enableTimers \in [Buttons -> Nat] /\ buttonTimers \in [Steppers -> Nat]
  BY <1>8
<1>15. changed \in [Steppers -> [standstill : BOOLEAN, enabled : BOOLEAN]]
  BY DEF Init
<1>16. enabledPrev \in BOOLEAN /\ plusPrev \in BOOLEAN
  BY DEF Init
<1>17. reconcile \in [frames : Nat, allowed : BOOLEAN, floor : BOOLEAN]
  BY <1>10 DEF ClearReconcile
<1>18. TypeOK
  BY <1>1, <1>a, <1>3, <1>4, <1>6, <1>12, <1>13, <1>14, <1>15, <1>16, <1>17 DEF TypeOK
<1> QED
  BY <1>b, <1>3, <1>7, <1>9, <1>11, <1>18 DEF IInv

(* Every frame and every read of the params keeps it.                       *)
LEMMA NextIInv == IInv /\ [Next]_vars => IInv'
<1> SUFFICES ASSUME IInv, [Next]_vars PROVE IInv'
  OBVIOUS
<1> USE DEF IInv
<1>1. CASE CardFrame
  <2>1. PICK in \in InType : in.road \in Roads \cup {road} /\ Frame(in)
    BY <1>1, CardFrames
  <2>2. Demand'
    BY <2>1, FrameParts, LatchFacts DEF Demand
  <2> QED
    BY <2>1, <2>2, TypeStep, TimersStep, SessionStep, SpeedStep
<1>2. CASE ReadParams
  <2>1. UNCHANGED <<kind, icbm, wheel, enabled, available, road, dash, arb, vCruise,
                    enableTimers, buttonTimers, changed, enabledPrev, plusPrev, reconcile>>
    BY <1>2 DEF ReadParams
  <2>2. \/ mode' = ~mode /\ demanded' = demanded
        \/ kind # "openpilot" /\ demanded' = ~demanded /\ mode' = mode
    BY <1>2 DEF ReadParams
  <2>3. mode \in BOOLEAN /\ demanded \in BOOLEAN
    BY DEF TypeOK
  <2>4. mode' \in BOOLEAN /\ demanded' \in BOOLEAN
    BY <2>2, <2>3, Zenon
  <2>5. demanded' => PcmCruise
    BY <2>2 DEF Demand, PcmCruise
  <2> QED
    BY <2>1, <2>4, <2>5 DEF TypeOK, Demand, Timers, TimersMatchWheel, Session, RoadRead, Ranges,
                PcmCruise, Applicable, Wellformed, Fingers
<1>3. CASE UNCHANGED vars
  BY <1>3 DEF vars, TypeOK, Demand, Timers, TimersMatchWheel, Session, RoadRead, Ranges,
              PcmCruise, Applicable, Wellformed, Fingers
<1> QED
  BY <1>1, <1>2, <1>3 DEF Next

(* card keeps the session to the road it was last given and to the car it  *)
(* applies to, the presses and timers to the wheel, the set speed in range *)
(* and the floor of the reconciler to a set speed of ICBM's.               *)
THEOREM Invariance == Spec => []IInv
BY InitIInv, NextIInv, PTL DEF Spec

-----------------------------------------------------------------------------
(* What a frame may do to the set speed.                                   *)

(* With no more than b down and moving: a press that ends a session writes *)
(* no set speed of a stock cruise, and one that has confirmed stays so.    *)
LEMMA OneButton ==
  ASSUME NEW s \in StepType, NEW r \in RoadType,
         NEW toggles \in Seq(Buttons), NEW order \in Seq(Buttons),
         Wellformed(s.a.press), ~s.adopted, s.prev = s.a.state,
         Fingers(s.a.press, wheel),
         NEW b \in Buttons, wheel \subseteq {b}, \A i \in 1 .. Len(toggles) : toggles[i] = b
  PROVE LET q == Classify(s, r, toggles, order) IN
        /\ PcmCruise => ~(q.adopted /\ q.a.press[b].cls = "dismiss")
        /\ b \in wheel /\ s.a.press[b].resolved /\ ~s.a.press[b].released =>
             ~q.adopted /\ q.a.press[b].cls = "prompt" /\ q.a.press[b].resolved
<1> DEFINE Confirmed == b \in wheel /\ s.a.press[b].resolved /\ ~s.a.press[b].released
           Alone == {t \in StepType :
             /\ Classified(t, s, r)
             /\ \A c \in Buttons \ {b} : t.a.press[c].cls = "none"
             /\ PcmCruise => ~(t.adopted /\ t.a.press[b].cls = "dismiss")
             /\ Confirmed =>
                  ~t.adopted /\ t.a.press[b].cls = "prompt" /\ t.a.press[b].resolved}
           T == [i \in 0 .. Len(toggles) |-> Alone]
           n == Len(toggles)
<1>1. n \in Nat
  OBVIOUS
<1>2. Kept(s) \in Alone
  <2> DEFINE t == Kept(s)
  <2>1. /\ t \in StepType /\ Classified(t, s, r) /\ t.adopted = FALSE
        /\ \A c \in Buttons :
             t.a.press[c] = IF s.a.press[c].released THEN NoPress ELSE s.a.press[c]
    BY KeptClassified
  <2> HIDE DEF t
  <2>2. \A c \in Buttons \ {b} : t.a.press[c].cls = "none"
    BY <2>1 DEF Fingers, NoPress
  <2>3. Confirmed => t.a.press[b].cls = "prompt" /\ t.a.press[b].resolved
    BY <2>1 DEF Wellformed
  <2>4. t \in Alone
    BY <2>1, <2>2, <2>3
  <2> QED
    BY <2>4 DEF t
<1>3. ASSUME NEW t \in Alone
      PROVE ButtonEvent(t, r, b) \in Alone
  <2> DEFINE q == ButtonEvent(t, r, b)
  <2>1. /\ q \in StepType /\ Classified(q, s, r) /\ OnlyAt(b, q, t)
        /\ b \in wheel =>
             /\ q.a.press[b].cls = "dismiss" => t.a.press[b].cls = "dismiss"
             /\ ~Unresolved(t, b) =>
                  /\ q.adopted = t.adopted /\ q.a.press[b].cls = t.a.press[b].cls
                  /\ q.a.press[b].resolved = t.a.press[b].resolved
        /\ b \notin wheel =>
             /\ PcmCruise => q.adopted = t.adopted
             /\ q.a.press[b].cls = "dismiss" => t.prev = "active"
    BY <1>3, EventClassified
  <2> HIDE DEF q
  <2>2. \A c \in Buttons \ {b} : q.a.press[c].cls = "none"
    BY <1>3, <2>1 DEF OnlyAt
  <2>3. ASSUME PcmCruise, q.adopted, q.a.press[b].cls = "dismiss"
        PROVE FALSE
    <3>1. CASE b \in wheel
      BY <1>3, <2>1, <2>3, <3>1 DEF Unresolved
    <3>2. CASE b \notin wheel
      <4>1. t.prev = "active" /\ t.adopted
        BY <2>1, <2>3, <3>2
      <4> QED
        BY <1>3, <2>3, <4>1 DEF Classified
    <3> QED
      BY <3>1, <3>2
  <2>4. Confirmed => ~q.adopted /\ q.a.press[b].cls = "prompt" /\ q.a.press[b].resolved
    BY <1>3, <2>1 DEF Unresolved
  <2>5. q \in Alone
    BY <2>1, <2>2, <2>3, <2>4
  <2> QED
    BY <2>5 DEF q
<1>4. ASSUME NEW t \in Alone, NEW c \in Buttons
      PROVE Held(t, r, c) \in Alone
  <2> DEFINE q == Held(t, r, c)
  <2>1. /\ q \in StepType /\ Classified(q, s, r) /\ OnlyAt(c, q, t)
        /\ q.a.press[c].cls = "dismiss" => t.a.press[c].cls = "dismiss"
        /\ ~Unresolved(t, c) => q = t
    BY <1>4, HeldClassified
  <2> HIDE DEF q
  <2>2. CASE ~Unresolved(t, c)
    BY <1>4, <2>1, <2>2 DEF q
  <2>3. CASE Unresolved(t, c)
    <3>1. c = b
      BY <1>4, <2>3 DEF Unresolved
    <3>2. ~Confirmed /\ q.a.press[b].cls # "dismiss"
      BY <1>4, <2>1, <2>3, <3>1 DEF Unresolved
    <3>3. \A d \in Buttons \ {b} : q.a.press[d].cls = "none"
      BY <1>4, <2>1, <3>1 DEF OnlyAt
    <3>4. q \in Alone
      BY <2>1, <3>2, <3>3
    <3> QED
      BY <3>4 DEF q
  <2> QED
    BY <2>2, <2>3
<1> HIDE DEF Alone
<1>5. /\ T[0] = Alone /\ T[n] = Alone
      /\ \A i \in 1 .. n : T[i] = Alone /\ T[i - 1] = Alone
  BY <1>1
<1> HIDE DEF T
<1>6. /\ Kept(s) \in T[0]
      /\ \A i \in 1 .. n : \A t \in T[i - 1] : ButtonEvent(t, r, toggles[i]) \in T[i]
      /\ \A t \in T[n], c \in Buttons : Held(t, r, c) \in T[n]
  BY <1>2, <1>3, <1>4, <1>5
<1>7. Classify(s, r, toggles, order) \in T[n]
  BY <1>6, ClassifyStays
<1>8. Classify(s, r, toggles, order) \in Alone
  BY <1>5, <1>7
<1> QED
  BY <1>8 DEF Alone

(* What the buttons of a frame leave of a wheel with b alone.              *)
LEMMA AloneToggles ==
  ASSUME NEW toggles \in Seq(Buttons), NEW b, wheel \subseteq {b},
         Toggled(ToSet(toggles)) \subseteq {b}
  PROVE \A i \in 1 .. Len(toggles) : toggles[i] = b
<1> SUFFICES ASSUME NEW i \in 1 .. Len(toggles), toggles[i] # b PROVE FALSE
  OBVIOUS
<1>1. toggles[i] \in ToSet(toggles)
  BY DEF ToSet
<1>2. toggles[i] \in Toggled(ToSet(toggles))
  BY <1>1 DEF Toggled
<1> QED
  BY <1>2

(* No button let go and no tick due: no step.                              *)
LEMMA NoStep ==
  ASSUME TypeOK, Timers, NEW in \in InType,
         wheel \subseteq Toggled(ToSet(in.toggles)),
         \A b \in Steppers \cap wheel : buttonTimers[b] % CruiseLongPress # 0
  PROVE StepsOf(in) = {}
<1> DEFINE let == {i \in DOMAIN in.toggles : in.toggles[i] \in wheel \cap Steppers}
           due == {b \in Steppers : buttonTimers[b] > 0
                                    /\ buttonTimers[b] % CruiseLongPress = 0}
<1>1. let = {}
  BY DEF Toggled, ToSet, InType
<1>2. due = {}
  BY DEF Timers
<1> QED
  BY <1>1, <1>2 DEF StepsOf

(* With b alone on the wheel a step is of b, and none while a press of the *)
(* arbiter's owns it.                                                      *)
LEMMA OwnedSteps ==
  ASSUME TypeOK, Timers, NEW in \in InType, NEW b \in Steppers, wheel \subseteq {b},
         NEW a, PressOwned(a, b)
  PROVE MayStep(in, a) = {}
<1> DEFINE let == {i \in DOMAIN in.toggles : in.toggles[i] \in wheel \cap Steppers}
           due == {c \in Steppers : /\ buttonTimers[c] > 0
                                    /\ buttonTimers[c] % CruiseLongPress = 0}
<1>1. due \subseteq {b}
  BY DEF Timers
<1>2. ASSUME NEW st \in StepsOf(in)
      PROVE st.b = b
  <2>1. CASE let # {}
    <3>1. let \subseteq Nat
      BY DEF InType
    <3>2. \E x \in let : \A y \in let : x <= y
      BY <2>1, <3>1, NatMin
    <3> HIDE DEF let
    <3>3. Min(let) \in let
      BY <3>2 DEF Min
    <3>4. in.toggles[Min(let)] = b
      BY <3>3 DEF let
    <3>5. st.b = in.toggles[Min(let)]
      BY <1>2, <2>1 DEF StepsOf, let
    <3> QED
      BY <3>4, <3>5
  <2>2. CASE let = {}
    <3>1. st \in {[b |-> c, long |-> TRUE] : c \in IF "decel" \in due THEN {"decel"} ELSE due}
      BY <1>2, <2>2 DEF StepsOf
    <3> HIDE DEF due
    <3> QED
      BY <1>1, <3>1
  <2> QED
    BY <2>1, <2>2
<1> QED
  BY <1>2 DEF MayStep

(* While openpilot keeps or steps the set speed of an engaged car.         *)
LEMMA OwnSpeed ==
  ASSUME NEW in, in.available, LongOf(in),
         IF PcmCruise THEN LatchAfter(in) ELSE enabled
  PROVE Speed(in) = Incremented(in, IF After(in).adopted THEN Clip(After(in).v) ELSE vCruise,
                                After(in).a)
BY DEF Speed, SetSpeed

(* On a stock cruise the session writes the set speed to confirm only.     *)
LEMMA AdoptedConfirms ==
  ASSUME IInv, NEW in \in InType, PcmCruise, After(in).adopted
  PROVE After(in).a.intent = "confirm" /\ arb.state = "preActive"
<1> USE DEF IInv
<1>1. CASE ~Applicable(LatchAfter(in))
  BY <1>1 DEF After
<1>2. CASE Applicable(LatchAfter(in))
  <2> DEFINE s1 == Pressed(Handed(in), in.road, in.toggles, in.order)
  <2>1. /\ Classified(s1, Start(Handed(in)), in.road) /\ SamePresses(After(in), s1)
    BY <1>2, AppliedFacts
  <2>2. Start(Handed(in)).prev = Handed(in).state /\ Handed(in).state \in {arb.state, "disabled"}
    BY HandedFacts, StartFacts DEF TypeOK
  <2> HIDE DEF s1
  <2>3. s1.prev = "preActive" /\ s1.a.state = "active"
    BY <2>1 DEF Classified, SamePresses
  <2> QED
    BY <2>1, <2>2, <2>3 DEF Classified, SamePresses
<1> QED
  BY <1>1, <1>2

(* An ICBM car that is engaged stays one, and ICBM steps.                  *)
LEMMA Latched ==
  ASSUME NEW in, in.enabled, icbm, enabledPrev
  PROVE LatchAfter(in) = icbm /\ LongOf(in) /\ Applicable(LatchAfter(in))
BY DEF LatchAfter, LatchFree, LongOf, LongEnabled, Applicable

-----------------------------------------------------------------------------
(* What the set speed and the session promise.                             *)

(* No tick without a finger on a button: however often the ICBM latch came *)
(* and went, the step timers of cruise.py match the wheel and card's own   *)
(* timers whenever openpilot steps.                                        *)
THEOREM NoTickWithoutFinger == Spec => []TimersMatchWheel
<1>1. IInv => TimersMatchWheel
  BY DEF IInv, Timers
<1> QED
  BY <1>1, Invariance, PTL

(* A session the driver ended comes back with a new limit or with a new    *)
(* engagement only.                                                        *)
LEMMA DismissedStep ==
  ASSUME IInv, NEW in \in InType, Frame(in), arb.dismissed, arb.state = "inactive",
         road'.limit = arb.limitPrev
  PROVE arb'.state \in {"inactive", "disabled"}
<1> USE DEF IInv
<1>1. CASE ~Applicable(LatchAfter(in))
  <2>1. arb' = Handed(in)
    BY <1>1, FrameParts DEF After
  <2> QED
    BY <2>1, HandedFacts
<1>2. CASE Applicable(LatchAfter(in))
  <2> DEFINE s1 == Pressed(Handed(in), in.road, in.toggles, in.order)
  <2>1. Applicable(icbm)
    BY DEF Session
  <2>2. Applicable(LatchAfter(in)) = Applicable(icbm)
    BY <1>2, <2>1 DEF Applicable
  <2>3. Handed(in) = arb
    BY <2>2, HandedFacts
  <2>4. /\ s1 \in StepType /\ Classified(s1, Start(arb), in.road)
        /\ Moved(After(in).a.state, s1, in.road, LongOf(in)) /\ After(in) \in StepType
    BY <1>2, <2>3, AppliedFacts
  <2>5. /\ Start(arb).prev = "inactive" /\ Start(arb).a.dismissed
        /\ Start(arb).a.limitPrev = in.road.limit
    BY StartFacts, FrameParts DEF TypeOK
  <2> HIDE DEF s1
  <2>6. s1.a.state = "inactive" /\ s1.a.dismissed /\ ~LimitChanged(s1, in.road)
    BY <2>4, <2>5 DEF Classified, LimitChanged
  <2>7. After(in).a.state \in SessionStates
    BY <2>4 DEF StepType, ArbType
  <2>8. After(in).a.state \in {"inactive", "disabled"}
    BY <2>4, <2>6, <2>7 DEF Moved, SessionStates
  <2> QED
    BY <2>8, FrameParts
<1> QED
  BY <1>1, <1>2

(* The session machine of cruise_arbiter.py leaves a dismissed session     *)
(* alone until the limit changes or openpilot is engaged again.            *)
THEOREM DismissalStands == Spec => DismissedStays
<1>1. ASSUME IInv, [Next]_vars
      PROVE [(arb.dismissed /\ arb.state = "inactive" /\ road'.limit = arb.limitPrev)
               => arb'.state \in {"inactive", "disabled"}]_vars
  <2>1. CASE CardFrame
    BY <1>1, <2>1, CardFrames, DismissedStep DEF IInv
  <2>2. CASE ReadParams
    BY <2>2 DEF ReadParams
  <2>3. CASE UNCHANGED vars
    BY <2>3
  <2> QED
    BY <1>1, <2>1, <2>2, <2>3 DEF Next
<1> QED
  BY <1>1, Invariance, PTL DEF Spec, DismissedStays

(* While a prompt is open, an ICBM car's set speed is not taken from the   *)
(* dash: with no button let go or held long it stays as it is.             *)
LEMMA PromptStep ==
  ASSUME IInv, NEW in \in InType, Frame(in),
         kind # "openpilot", icbm, enabledPrev, enabled', available',
         arb'.state = "preActive", wheel \subseteq wheel', arb'.intent # "confirm",
         \A b \in wheel : buttonTimers[b] % CruiseLongPress # 0
  PROVE vCruise' = vCruise
<1> USE DEF IInv
<1>1. /\ in.enabled /\ in.available /\ arb' = After(in).a
      /\ wheel \subseteq Toggled(ToSet(in.toggles)) /\ vCruise' = Settled(in).v
  BY FrameParts
<1>2. LatchAfter(in) = icbm /\ LongOf(in)
  BY <1>1, Latched
<1>0. PcmCruise
  BY DEF PcmCruise
<1>3. StepsOf(in) = {}
  BY <1>1, NoStep
<1>4. ~After(in).adopted
  BY <1>1, <1>0, AdoptedConfirms
<1>5. Speed(in) = Incremented(in, vCruise, After(in).a)
  BY <1>1, <1>2, <1>0, <1>4, OwnSpeed
<1>6. vCruise \in Nat /\ MayStep(in, After(in).a) = {}
  BY <1>3, SpeedConstants DEF MayStep, TypeOK, SetSpeeds
<1>7. Speed(in) = vCruise
  BY <1>5, <1>6, IncrementedFacts
<1>8. Settled(in) = Reconciled(in, Waiting(in), Speed(in), After(in).a,
                               Timed(enableTimers, in.toggles))
  BY <1>2 DEF Settled
<1>9. Settled(in).v = Speed(in)
  BY <1>1, <1>8, SpeedStep, ReconciledFacts
<1> QED
  BY <1>1, <1>7, <1>9

(* cruise_ext.py's reconciler does not take the dash for the driver's      *)
(* answer while the arbiter prompts.                                       *)
THEOREM PromptKeepsSpeed == Spec => PromptFreezes
<1>1. ASSUME IInv, [Next]_vars
      PROVE [(/\ kind # "openpilot" /\ icbm /\ enabled /\ enabledPrev /\ enabled'
              /\ available /\ available' /\ arb.state = "preActive"
              /\ arb'.state = "preActive" /\ wheel \subseteq wheel'
              /\ arb'.intent # "confirm"
              /\ \A b \in wheel : buttonTimers[b] % CruiseLongPress # 0)
               => vCruise' = vCruise]_vars
  <2>1. CASE CardFrame
    BY <1>1, <2>1, CardFrames, PromptStep DEF IInv
  <2>2. CASE ReadParams
    BY <2>2 DEF ReadParams
  <2>3. CASE UNCHANGED vars
    BY <2>3
  <2> QED
    BY <1>1, <2>1, <2>2, <2>3 DEF Next
<1> QED
  BY <1>1, Invariance, PTL DEF Spec, PromptFreezes

(* Slower is slower: the set speed ICBM goes back to once the dash has     *)
(* settled is not above what the dash shows.                               *)
LEMMA FloorStep ==
  ASSUME IInv, NEW in \in InType, Frame(in), reconcile.floor, ~reconcile'.floor, available',
         dash' > 0, icbm, icbm', arb'.state # "preActive", arb'.intent # "confirm"
  PROVE vCruise' <= Clip(dash')
<1> USE DEF IInv
<1>1. /\ in.available /\ arb' = After(in).a /\ dash' = in.dash /\ LatchAfter(in)
      /\ vCruise' = Settled(in).v /\ reconcile' = Settled(in).r
  BY FrameParts
<1>2. PcmCruise
  BY DEF Demand
<1>3. ~After(in).adopted
  BY <1>1, <1>2, AdoptedConfirms
<1>4. Waiting(in) = reconcile
  BY <1>1, <1>3 DEF Waiting
<1>5. vCruise # Unset /\ vCruise \in Nat
  BY SpeedConstants DEF Ranges, TypeOK, SetSpeeds
<1>6. in.dash # Unset /\ in.dash # 0
  <2>1. in.dash \in Dashes \cup {0}
    BY DEF InType
  <2> QED
    BY <1>1, <2>1, SpeedConstants
<1>7. Speed(in) # Unset
  <2>1. CASE LongOf(in)
    <3>1. Speed(in) = Incremented(in, vCruise, After(in).a)
      BY <1>1, <1>2, <1>3, <2>1, OwnSpeed
    <3>2. Speed(in) \in (VMin .. VMax) \cup {vCruise}
      BY <1>5, <3>1, IncrementedFacts
    <3> QED
      BY <1>5, <3>2, SpeedConstants
  <2>2. CASE ~LongOf(in)
    BY <1>1, <1>2, <1>6, <2>2 DEF Speed, SetSpeed
  <2> QED
    BY <2>1, <2>2
<1>8. Settled(in) = Reconciled(in, Waiting(in), Speed(in), After(in).a,
                               Timed(enableTimers, in.toggles))
  BY <1>1 DEF Settled
<1> QED
  BY <1>1, <1>4, <1>7, <1>8, SpeedStep, ReconciledFacts

(* The reconciler's floor: after a minus press that ended a session the    *)
(* set speed comes to rest at or below the dash.                           *)
THEOREM SlowerIsSlower == Spec => SlowerSettles
<1>1. ASSUME IInv, [Next]_vars
      PROVE [(/\ reconcile.floor /\ ~reconcile'.floor /\ available' /\ dash' > 0
              /\ icbm /\ icbm' /\ enabled' /\ arb'.state # "preActive"
              /\ arb'.intent # "confirm")
               => vCruise' <= Clip(dash')]_vars
  <2>1. CASE CardFrame
    BY <1>1, <2>1, CardFrames, FloorStep DEF IInv
  <2>2. CASE ReadParams
    BY <2>2 DEF ReadParams
  <2>3. CASE UNCHANGED vars
    BY <2>3 DEF vars
  <2> QED
    BY <1>1, <2>1, <2>2, <2>3 DEF Next
<1> QED
  BY <1>1, Invariance, PTL DEF Spec, SlowerSettles

(* What a frame with b alone on the wheel makes of the presses.            *)
LEMMA AloneFacts ==
  ASSUME IInv, NEW in \in InType, Frame(in), Applicable(LatchAfter(in)), Handed(in) = arb,
         NEW b \in Steppers, wheel \subseteq {b}, wheel' \subseteq {b}
  PROVE /\ PcmCruise => ~(After(in).adopted /\ After(in).a.press[b].cls = "dismiss")
        /\ b \in wheel /\ arb.press[b].resolved /\ ~arb.press[b].released =>
             ~After(in).adopted /\ PressOwned(After(in).a, b)
<1> USE DEF IInv
<1> DEFINE s1 == Pressed(arb, in.road, in.toggles, in.order)
<1>1. SamePresses(After(in), s1)
  BY AppliedFacts
<1>2. /\ in.road \in RoadType /\ in.toggles \in Seq(Buttons) /\ in.order \in Seq(Buttons)
      /\ b \in Buttons
  BY ConstantFacts DEF InType
<1>3. \A i \in 1 .. Len(in.toggles) : in.toggles[i] = b
  BY <1>2, FrameParts, AloneToggles
<1>4. /\ Start(arb) \in StepType /\ Start(arb).a.press = arb.press /\ ~Start(arb).adopted
      /\ Start(arb).prev = Start(arb).a.state
  BY StartFacts DEF TypeOK
<1>5. Wellformed(arb.press) /\ Fingers(arb.press, wheel)
  BY DEF Session
<1>6. /\ PcmCruise => ~(s1.adopted /\ s1.a.press[b].cls = "dismiss")
      /\ b \in wheel /\ arb.press[b].resolved /\ ~arb.press[b].released =>
           ~s1.adopted /\ s1.a.press[b].cls = "prompt" /\ s1.a.press[b].resolved
  BY <1>2, <1>3, <1>4, <1>5, OneButton DEF Pressed
<1> QED
  BY <1>1, <1>6 DEF SamePresses, PressOwned

(* The press that ends a session of an ICBM car is the ECU's to step on:   *)
(* the set speed stays or becomes the dash's.                              *)
LEMMA DismissStep ==
  ASSUME IInv, NEW in \in InType, Frame(in), kind # "openpilot", icbm, enabledPrev,
         enabled', available', NEW b \in Steppers, arb'.press[b].cls = "dismiss",
         wheel \cup wheel' = {b}
  PROVE vCruise' \in {vCruise, Clip(dash')}
<1> USE DEF IInv
<1>1. /\ in.enabled /\ in.available /\ arb' = After(in).a /\ dash' = in.dash
      /\ vCruise' = Settled(in).v /\ wheel \subseteq {b} /\ wheel' \subseteq {b}
  BY FrameParts
<1>2. LatchAfter(in) = icbm /\ LongOf(in) /\ Applicable(LatchAfter(in)) /\ Handed(in) = arb
  BY <1>1, Latched, HandedFacts
<1>3. PcmCruise
  BY DEF PcmCruise
<1>4. ~After(in).adopted
  BY <1>1, <1>2, <1>3, AloneFacts
<1>5. MayStep(in, After(in).a) = {}
  BY <1>1, OwnedSteps DEF PressOwned
<1>6. Speed(in) = Incremented(in, vCruise, After(in).a)
  BY <1>1, <1>2, <1>3, <1>4, OwnSpeed
<1>7. vCruise \in Nat
  BY SpeedConstants DEF TypeOK, SetSpeeds
<1>8. Speed(in) = vCruise
  BY <1>5, <1>6, <1>7, IncrementedFacts
<1>9. Settled(in) = Reconciled(in, Waiting(in), Speed(in), After(in).a,
                               Timed(enableTimers, in.toggles))
  BY <1>2 DEF Settled
<1>10. Settled(in).v \in {vCruise, Clip(in.dash), Lesser(vCruise, Clip(in.dash))}
  BY <1>8, <1>9, SpeedStep, ReconciledFacts
<1> QED
  BY <1>1, <1>10 DEF Lesser

(* cruise.py makes no step of its own of a press that dismissed a session  *)
(* of a car whose ECU steps on it too.                                     *)
THEOREM DismissalIsTheEcus == Spec => DismissIsTheEcus
<1>1. ASSUME IInv, [Next]_vars
      PROVE [(/\ kind # "openpilot" /\ icbm /\ enabled /\ enabledPrev /\ enabled'
              /\ available /\ available'
              /\ \E b \in Steppers :
                   arb'.press[b].cls = "dismiss" /\ wheel \cup wheel' = {b})
               => vCruise' \in {vCruise, Clip(dash')}]_vars
  <2>1. CASE CardFrame
    BY <1>1, <2>1, CardFrames, DismissStep DEF IInv
  <2>2. CASE ReadParams
    BY <2>2 DEF ReadParams
  <2>3. CASE UNCHANGED vars
    BY <2>3
  <2> QED
    BY <1>1, <2>1, <2>2, <2>3 DEF Next
<1> QED
  BY <1>1, Invariance, PTL DEF Spec, DismissIsTheEcus

(* The set speed of a car of openpilot's own.                              *)
LEMMA OwnFrame ==
  ASSUME IInv, NEW in \in InType, Frame(in), kind = "openpilot",
         enabled, enabled', available'
  PROVE /\ Applicable(LatchAfter(in)) /\ Handed(in) = arb /\ ~PcmCruise
        /\ vCruise' = Incremented(in, IF After(in).adopted THEN Clip(After(in).v) ELSE vCruise,
                                  After(in).a)
<1> USE DEF IInv
<1>1. ~PcmCruise /\ Applicable(LatchAfter(in)) /\ Applicable(icbm)
  BY DEF PcmCruise, Applicable
<1>2. Handed(in) = arb
  <2>1. Applicable(LatchAfter(in)) = Applicable(icbm)
    BY <1>1 DEF Applicable
  <2> QED
    BY <2>1, HandedFacts
<1>3. ~LatchAfter(in)
  BY <1>1, LatchFacts
<1>4. in.enabled /\ in.available /\ LongOf(in)
  BY <1>1, FrameParts DEF LongOf, LongEnabled
<1>5. vCruise' = Speed(in)
  BY <1>3, FrameParts DEF Settled
<1> QED
  BY <1>1, <1>2, <1>4, <1>5, OwnSpeed

(* A press that has confirmed a limit has said all it says: the set speed  *)
(* stays while it is held and when it is let go.                           *)
LEMMA ConfirmedStep ==
  ASSUME IInv, NEW in \in InType, Frame(in), kind = "openpilot",
         enabled, enabled', available', NEW b \in Steppers,
         arb.press[b].resolved, ~arb.press[b].released, wheel = {b}, wheel' \ {b} = {}
  PROVE vCruise' = vCruise
<1> USE DEF IInv
<1>1. /\ Applicable(LatchAfter(in)) /\ Handed(in) = arb /\ ~PcmCruise
      /\ vCruise' = Incremented(in, IF After(in).adopted THEN Clip(After(in).v) ELSE vCruise,
                                After(in).a)
  BY OwnFrame
<1>2. ~After(in).adopted /\ PressOwned(After(in).a, b)
  BY <1>1, AloneFacts
<1>3. MayStep(in, After(in).a) = {}
  BY <1>2, OwnedSteps
<1>4. vCruise \in Nat
  BY SpeedConstants DEF TypeOK, SetSpeeds
<1> QED
  BY <1>1, <1>2, <1>3, <1>4, IncrementedFacts

(* cruise.py neither ticks nor steps on a press that the arbiter has taken *)
(* for a confirmation.                                                     *)
THEOREM ConfirmedSaysAll == Spec => ConfirmSaysAll
<1>1. ASSUME IInv, [Next]_vars
      PROVE [(/\ \E b \in Steppers :
                   /\ arb.press[b].resolved /\ ~arb.press[b].released
                   /\ b \in wheel /\ wheel' \ {b} = {} /\ wheel = {b}
              /\ enabled /\ enabled' /\ available /\ available' /\ kind = "openpilot")
               => vCruise' = vCruise]_vars
  <2>1. CASE CardFrame
    BY <1>1, <2>1, CardFrames, ConfirmedStep DEF IInv
  <2>2. CASE ReadParams
    BY <2>2 DEF ReadParams
  <2>3. CASE UNCHANGED vars
    BY <2>3
  <2> QED
    BY <1>1, <2>1, <2>2, <2>3 DEF Next
<1> QED
  BY <1>1, Invariance, PTL DEF Spec, ConfirmSaysAll

(* A session that drives or asks keeps its cap, or ends by a press, or goes *)
(* to what openpilot then holds the car to: none of them faster.           *)
LEMMA CapStep ==
  ASSUME IInv, NEW in \in InType, in.road \in Roads \cup {road}, Frame(in),
         \A l \in Limits, o \in Offsets : VMin <= l + o,
         kind = "openpilot", vCruise # Unset, enabled, enabled', available',
         vCruise' = IF After(in).adopted THEN Clip(After(in).v) ELSE vCruise,
         arb'.intent # "confirm", arb'.state # "disabled",
         ~(road' # road /\ arb'.state = "active"),
         ~(road'.limit = road.limit /\ road'.slf > road.slf),
         ~(arb.state = "preActive" /\ arb'.state = "inactive")
  PROVE ~(Followed' > Followed)
<1> USE DEF IInv
<1> DEFINE s1 == Pressed(arb, in.road, in.toggles, in.order)
           state == After(in).a.state
<1>1. Applicable(LatchAfter(in)) /\ Handed(in) = arb /\ ~PcmCruise
  BY OwnFrame
<1>2. /\ s1 \in StepType /\ Classified(s1, Start(arb), in.road)
      /\ After(in) \in StepType /\ SamePresses(After(in), s1)
      /\ Moved(state, s1, in.road, LongOf(in))
      /\ After(in).a.vCap = IF state = "active" THEN IF in.road.has THEN in.road.slf ELSE Unset
                            ELSE IF state = "preActive" THEN arb.vCap ELSE Unset
  BY <1>1, AppliedFacts
<1>3. /\ Start(arb).prev = arb.state /\ Start(arb).v = vCruise
      /\ Start(arb).a.vCap = arb.vCap /\ Start(arb).a.limitPrev = arb.limitPrev
  BY StartFacts DEF TypeOK
<1>4. arb' = After(in).a /\ road' = in.road
  BY FrameParts
<1>5. /\ s1.prev = arb.state /\ s1.a.vCap = arb.vCap /\ s1.a.limitPrev = arb.limitPrev
      /\ s1.a.state \in SessionStates /\ state \in SessionStates
      /\ After(in).adopted = s1.adopted /\ After(in).v = s1.v
      /\ After(in).a.intent = s1.a.intent
  BY <1>2, <1>3 DEF Classified, SamePresses, StepType, ArbType
<1>6. /\ vCruise \in Nat /\ vCruise < Unset /\ VMin <= vCruise /\ vCruise <= VMax
      /\ arb.vCap \in Nat /\ road.slf \in Nat /\ road.slf < Unset
      /\ in.road.slf \in Nat /\ in.road.slf < Unset /\ arb.state \in SessionStates
  <2>1. road \in RoadType /\ in.road \in RoadType /\ arb \in ArbType
    BY DEF TypeOK, InType
  <2>2. vCruise \in Nat /\ vCruise < Unset /\ VMin <= vCruise /\ vCruise <= VMax
    BY <1>1, SpeedConstants DEF TypeOK, SetSpeeds, Ranges
  <2> QED
    BY <2>1, <2>2, SpeedConstants DEF RoadType, ArbType
<1>7. road.has => in.road.has /\ VMin <= in.road.slf
  <2>1. /\ road.has => in.road.has
        /\ in.road.has => \E l \in Limits, o \in Offsets : in.road.slf = l + o
    BY RoadsFacts DEF TypeOK
  <2> QED
    BY <2>1
<1> HIDE DEF s1
<1>8. CASE ~s1.adopted
  <2>1. vCruise' = vCruise
    BY <1>5, <1>8
  <2>2. CASE arb.state \in {"inactive", "disabled"}
    <3>1. Followed = vCruise
      BY <1>6, <2>2 DEF Followed, Lesser, Session
    <3>2. Followed' \in {vCruise', arb'.vCap} /\ (vCruise' <= arb'.vCap => Followed' = vCruise')
          /\ (~(vCruise' <= arb'.vCap) => Followed' = arb'.vCap)
      BY DEF Followed, Lesser
    <3>3. arb'.vCap \in Nat
      BY <1>2, <1>4 DEF StepType, ArbType
    <3> QED
      BY <1>6, <2>1, <3>1, <3>2, <3>3
  <2>3. CASE arb.state \in {"active", "preActive"}
    <3>1. arb'.vCap = arb.vCap
      <4>1. CASE state = "preActive"
        BY <1>2, <1>4, <4>1
      <4>2. CASE state = "active"
        <5>1. in.road = road
          BY <1>4, <4>2
        <5>2. CASE arb.state = "active"
          BY <1>2, <1>4, <4>2, <5>1, <5>2 DEF Session
        <5>3. CASE arb.state = "preActive"
          <6>1. ~LimitChanged(s1, in.road)
            BY <1>5, <5>1, <5>3 DEF LimitChanged, Session
          <6>2. s1.a.state \in {"preActive", "inactive"}
            BY <1>2, <1>4, <1>5, <5>3 DEF Classified, SessionStates
          <6>3. s1.a.state = "inactive" => \E b \in Buttons : s1.a.press[b].cls # "none"
            BY <1>2, <1>5, <5>3 DEF Classified
          <6> QED
            BY <1>2, <4>2, <6>1, <6>2, <6>3 DEF Moved
        <5> QED
          BY <2>3, <5>2, <5>3
      <4>3. CASE state = "inactive"
        <5>1. arb.state = "active" /\ arb.vCap = road.slf
          BY <1>4, <2>3, <4>3 DEF Session
        <5>2. s1.a.state = "inactive"
          BY <1>2, <1>5, <4>3, <5>1 DEF Classified, Moved
        <5> QED
          BY <1>1, <1>2, <1>5, <1>6, <1>8, <5>1, <5>2 DEF Classified
      <4> QED
        BY <1>4, <1>5, <4>1, <4>2, <4>3 DEF SessionStates
    <3>2. Followed' = Followed
      BY <2>1, <3>1 DEF Followed, Lesser
    <3>3. Followed \in Nat
      BY <1>6 DEF Followed, Lesser
    <3> QED
      BY <3>2, <3>3
  <2> QED
    BY <1>6, <2>2, <2>3 DEF SessionStates
<1>9. CASE s1.adopted
  <2>1. /\ arb.state = "active" /\ s1.a.state = "inactive"
        /\ s1.v = Lesser(vCruise, in.road.slf)
    BY <1>2, <1>3, <1>4, <1>5, <1>9 DEF Classified
  <2>2. road.has /\ arb.vCap = road.slf /\ arb.limitPrev = road.limit
    BY <2>1 DEF Session
  <2>3. vCruise' = Lesser(vCruise, in.road.slf)
    <3>1. vCruise' = Clip(s1.v)
      BY <1>5, <1>9
    <3>2. s1.v \in Nat /\ VMin <= s1.v /\ s1.v <= VMax
      BY <1>6, <1>7, <2>1, <2>2, SpeedConstants DEF Lesser
    <3>3. Clip(s1.v) = s1.v
      BY <3>2, SpeedConstants DEF Clip, Lesser, Greater
    <3> QED
      BY <2>1, <3>1, <3>3
  <2>4. Followed' = Lesser(vCruise', arb'.vCap) /\ Followed = Lesser(vCruise, road.slf)
    BY <2>2 DEF Followed, Lesser
  <2>5. CASE state = "preActive"
    <3>1. arb'.vCap = road.slf
      BY <1>2, <1>4, <2>2, <2>5
    <3> QED
      BY <1>6, <2>3, <2>4, <3>1 DEF Lesser
  <2>6. CASE state = "active"
    <3>1. in.road = road /\ arb'.vCap = road.slf
      BY <1>2, <1>4, <2>2, <2>6
    <3> QED
      BY <1>6, <2>3, <2>4, <3>1 DEF Lesser
  <2>7. CASE state = "inactive"
    <3>1. ~LimitChanged(s1, in.road)
      BY <1>2, <2>1, <2>7 DEF Moved
    <3>2. in.road.limit = road.limit
      BY <1>5, <1>7, <2>2, <3>1 DEF LimitChanged
    <3>3. in.road.slf <= road.slf
      BY <1>4, <1>6, <3>2
    <3>4. arb'.vCap = Unset
      BY <1>2, <1>4, <2>7
    <3> QED
      BY <1>6, <2>3, <2>4, <3>3, <3>4, SpeedConstants DEF Lesser
  <2> QED
    BY <1>4, <1>5, <2>5, <2>6, <2>7 DEF SessionStates
<1> QED
  BY <1>8, <1>9

(* Without a cause of its own the car goes no faster for a press that ends *)
(* a session: the set speed is left at what the session held the car to.   *)
(* A limit under V_CRUISE_MIN is a cause: the set speed cannot follow it.  *)
LEMMA FasterStep ==
  ASSUME IInv, NEW in \in InType, in.road \in Roads \cup {road}, Frame(in),
         \A l \in Limits, o \in Offsets : VMin <= l + o,
         kind = "openpilot", vCruise # Unset, Followed' > Followed
  PROVE \/ ~enabled \/ ~enabled' \/ ~available \/ ~available'
        \/ wheel \ wheel' # {} \/ arb'.intent = "confirm"
        \/ \E b \in wheel : buttonTimers[b] >= LongPressFrames
        \/ road' # road /\ arb'.state = "active"
        \/ road'.limit = road.limit /\ road'.slf > road.slf
        \/ arb.state = "preActive" /\ arb'.state = "inactive"
        \/ arb'.state = "disabled"
<1> USE DEF IInv
<1> SUFFICES ASSUME enabled, enabled', available', wheel \ wheel' = {},
                    arb'.intent # "confirm", arb'.state # "disabled",
                    \A b \in wheel : ~(buttonTimers[b] >= LongPressFrames),
                    ~(road' # road /\ arb'.state = "active"),
                    ~(road'.limit = road.limit /\ road'.slf > road.slf),
                    ~(arb.state = "preActive" /\ arb'.state = "inactive")
             PROVE FALSE
  OBVIOUS
<1>1. wheel \subseteq Toggled(ToSet(in.toggles))
  BY FrameParts
<1>2. ASSUME NEW b \in Steppers \cap wheel
      PROVE buttonTimers[b] % CruiseLongPress # 0
  <2>1. CruiseLongPress \in Nat \ {0}
    BY CruiseAssumption
  <2>2. LongPressFrames \in 1 .. (CruiseLongPress - 1)
    BY CruiseAssumption
  <2>3. b \in Buttons /\ enableTimers[b] > 0 /\ buttonTimers[b] = enableTimers[b]
    BY <1>2, ConstantFacts DEF Timers, TimersMatchWheel, PcmCruise
  <2>4. buttonTimers[b] \in Nat /\ buttonTimers[b] > 0 /\ buttonTimers[b] < LongPressFrames
    BY <1>2, <2>2, <2>3 DEF TypeOK
  <2>5. \A n \in Nat : n > 0 /\ n < CruiseLongPress => n % CruiseLongPress = n
    BY <2>1
  <2>6. buttonTimers[b] < CruiseLongPress
    BY <2>1, <2>2, <2>4
  <2>7. buttonTimers[b] % CruiseLongPress = buttonTimers[b]
    BY <2>4, <2>5, <2>6
  <2> QED
    BY <2>4, <2>7
<1>3. MayStep(in, After(in).a) = {}
  BY <1>1, <1>2, NoStep DEF MayStep
<1>4. (IF After(in).adopted THEN Clip(After(in).v) ELSE vCruise) \in Nat
  BY AfterType, ClipFacts, SpeedConstants DEF TypeOK, SetSpeeds
<1>5. vCruise' = IF After(in).adopted THEN Clip(After(in).v) ELSE vCruise
  BY <1>3, <1>4, OwnFrame, IncrementedFacts
<1> QED
  BY <1>5, CapStep

(* What the plan follows of an openpilot-kept set speed rises for a cause  *)
(* only, where no limit is below V_CRUISE_MIN: a press that dismisses a    *)
(* session re-anchors the set speed, cruise_ext.py, and so lifts nothing.  *)
THEOREM NoFasterForAPress ==
  ASSUME \A l \in Limits, o \in Offsets : VMin <= l + o
  PROVE Spec => FasterForCause
<1>1. ASSUME IInv, [Next]_vars
      PROVE [(kind = "openpilot" /\ vCruise # Unset /\ Followed' > Followed) =>
               \/ ~enabled \/ ~enabled' \/ ~available \/ ~available'
               \/ wheel \ wheel' # {} \/ arb'.intent = "confirm"
               \/ \E b \in wheel : buttonTimers[b] >= LongPressFrames
               \/ road' # road /\ arb'.state = "active"
               \/ road'.limit = road.limit /\ road'.slf > road.slf
               \/ arb.state = "preActive" /\ arb'.state = "inactive"
               \/ arb'.state = "disabled"]_vars
  <2>0. SUFFICES ASSUME kind = "openpilot", vCruise # Unset, Followed' > Followed,
                        ~UNCHANGED vars
        PROVE \/ ~enabled \/ ~enabled' \/ ~available \/ ~available'
              \/ wheel \ wheel' # {} \/ arb'.intent = "confirm"
              \/ \E b \in wheel : buttonTimers[b] >= LongPressFrames
              \/ road' # road /\ arb'.state = "active"
              \/ road'.limit = road.limit /\ road'.slf > road.slf
              \/ arb.state = "preActive" /\ arb'.state = "inactive"
              \/ arb'.state = "disabled"
    OBVIOUS
  <2>1. CASE CardFrame
    <3>1. PICK in \in InType : in.road \in Roads \cup {road} /\ Frame(in)
      BY <1>1, <2>1, CardFrames DEF IInv
    <3> QED
      BY <1>1, <2>0, <3>1, FasterStep
  <2>2. CASE ReadParams
    <3>1. Followed' = Followed
      BY <2>2 DEF ReadParams, Followed
    <3>2. Followed \in Nat
      <4>1. arb.vCap \in Nat /\ vCruise \in Nat
        BY <1>1, SpeedConstants DEF IInv, TypeOK, ArbType, SetSpeeds
      <4> QED
        BY <4>1 DEF Followed, Lesser
    <3> QED
      BY <2>0, <3>1, <3>2
  <2> QED
    BY <1>1, <2>0, <2>1, <2>2 DEF Next
<1> QED
  BY <1>1, Invariance, PTL DEF Spec, FasterForCause
=============================================================================
