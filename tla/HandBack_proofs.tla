--------------------------- MODULE HandBack_proofs ---------------------------
(***************************************************************************)
(* What ending the onroad state in order promises, for any number of stops *)
(* and any mix of what may happen around the processes: one hand-back is   *)
(* in flight, a request has a waiter, and no drive is ended in software    *)
(* over an ECU that card still holds.                                      *)
(***************************************************************************)
EXTENDS HandBack, SequenceTheorems, TLAPS

EcuStates == {"silenced", "notNeeded", "restoring", "restored", "failed", "lost"}

TypeOK ==
  /\ request \in Nat /\ cardReq \in Nat
  /\ result \in [id : Nat, outcome : Answers \cup {"none"}]
  /\ gate \in [Gates -> Nat] /\ opening \in [Gates -> Nat]
  /\ writes \in Seq([id : Nat, outcome : Answers])
  /\ offroadMode \in BOOLEAN /\ offroadWanted \in BOOLEAN /\ cycleWanted \in BOOLEAN
  /\ stopWanted \in BOOLEAN /\ removing \in BOOLEAN
  /\ started \in BOOLEAN /\ mgrStarted \in BOOLEAN /\ running \in BOOLEAN
  /\ asserted \in BOOLEAN /\ engaged \in BOOLEAN
  /\ card \in {"alive", "off"} /\ ecu \in EcuStates

(* A drive, from its start to the end the manager makes of it.             *)
Live == started \/ mgrStarted

(* Who acts in a drive, and what is left between two.                      *)
Drives ==
  /\ ~mgrStarted => card = "off" /\ gate["manager"] = 0 /\ opening["manager"] = 0
  /\ card = "off" => cardReq = 0 /\ ~asserted
  /\ ~started => opening["hardwared"] = 0
  /\ ~Live => request = 0
  /\ started /\ ~mgrStarted => writes = <<>>
  /\ \A g \in Gates : opening[g] # 0 => gate[g] = 0
  /\ gate["manager"] # 0 \/ opening["manager"] # 0 => stopWanted
  /\ removing => opening["hardwared"] = 0 /\ gate["hardwared"] # 0

(* Every id of a drive is the last answered or the one past it, and card   *)
(* answers them in their order.                                            *)
Ids ==
  Live =>
    /\ request # 0 => result.id <= request /\ request <= result.id + 1
                      /\ cardReq <= request
    /\ cardReq # 0 => result.id <= cardReq /\ cardReq <= result.id + 1
    /\ ~mgrStarted =>
         \A id \in {request, gate["hardwared"], opening["hardwared"]} :
           id # 0 => result.id < id
    /\ \A g \in Gates :
         /\ gate[g] <= result.id + 1
         /\ opening[g] # 0 => /\ result.id <= opening[g] /\ opening[g] <= result.id + 1
                              /\ cardReq <= opening[g]

(* So are the answers on their way.                                        *)
Queue ==
  Live =>
    \A i \in 1..Len(writes) :
      /\ result.id <= writes[i].id /\ writes[i].id <= result.id + 1
      /\ \A j \in 1..Len(writes) : i < j => writes[i].id <= writes[j].id
      /\ cardReq # 0 => writes[i].id <= cardReq
      /\ request # 0 => writes[i].id <= request
      /\ \A g \in Gates : opening[g] # 0 => writes[i].id <= opening[g]

IdsInv == TypeOK /\ Drives /\ Ids /\ Queue

(* A drive whose card is alive, or yet to be started.                      *)
Fresh == started /\ (card = "alive" \/ ~mgrStarted)

(* card has answered, and keeps the ECU as it answered.                    *)
Kept(states) ==
  ecu = "notNeeded" \/ (ecu \in states /\ asserted /\ cardReq # 0)

Held == Kept({"restored"})

Reported == Kept({"restored", "failed"})

Stands(outcome) ==
  /\ outcome \in Answers => Reported
  /\ outcome \in Settled => Held

(* An answer that somebody waits for, given or on its way, still stands.   *)
AnswersStand ==
  Fresh =>
    /\ \A i \in 1..Len(writes) : Stands(writes[i].outcome)
    /\ \A g \in Gates :
         result.id # 0 /\ result.id \in {request, gate[g], opening[g]} => Stands(result.outcome)

(* A gate waits for the request, or for one before it that was settled.    *)
Waits ==
  Fresh => \A g \in Gates : gate[g] # 0 => request # 0 /\ (gate[g] # request => Held)

(* Only the exit button withdraws a stop.                                  *)
Kind ==
  "withdraw" \notin Env =>
    /\ ~removing /\ (offroadMode => offroadWanted)
    /\ gate["hardwared"] # 0 \/ opening["hardwared"] # 0 => cycleWanted \/ Enter

(* Without the exit button requests stay, and two gates that are about to  *)
(* begin a hand-back begin the same one.                                   *)
Openings ==
  "withdraw" \notin Env /\ Live =>
    /\ request = 0 => cardReq = 0 /\ writes = <<>>
    /\ \A g, h \in Gates : opening[g] # 0 /\ opening[h] # 0 => opening[g] = opening[h]
    /\ \A g \in Gates : opening[g] # 0 =>
         /\ opening[g] = request \/ opening[g] = Later(request, result.id) + 1
         /\ opening[g] = request =>
              /\ result.id < request /\ cardReq < request
              /\ \A i \in 1..Len(writes) : writes[i].id < request
         /\ Fresh /\ request # 0 /\ opening[g] # request => Held

(* Without reboots, shutdowns and uninstalls the manager is no gate.       *)
Alone ==
  "stop" \notin Env => ~stopWanted /\ gate["manager"] = 0 /\ opening["manager"] = 0

(* With the button, hardwared waits for no request but the one on file.    *)
Withdrawn == "withdraw" \in Env /\ Fresh => gate["hardwared"] \in {0, request}

AnswersInv == Openings /\ Withdrawn /\ AnswersStand /\ Waits

(* Not both: the exit button, and a stop that the manager waits for.       *)
OneKind == "stop" \notin Env \/ "withdraw" \notin Env

-----------------------------------------------------------------------------
(* Ids.                                                                    *)

(* The drive under way at the start has asked for nothing.                 *)
LEMMA InitIds ==
  ASSUME Init
  PROVE IdsInv
<1> USE DEF Init, Gates, NoRecord
<1>1. TypeOK
  <2>1. writes \in Seq([id : Nat, outcome : Answers])
    OBVIOUS
  <2> QED
    BY <2>1, HandBackAssumption DEF TypeOK, EcuStates
<1>2. Drives /\ Ids /\ Queue
  BY DEF Drives, Ids, Queue, Live
<1> QED
  BY <1>1, <1>2 DEF IdsInv

(* What a queued answer is, and what is left when it is written.           *)
LEMMA QueueHead ==
  ASSUME TypeOK, writes # <<>>
  PROVE /\ Len(writes) \in Nat \ {0} /\ Head(writes) = writes[1]
        /\ Head(writes) \in [id : Nat, outcome : Answers]
        /\ Tail(writes) \in Seq([id : Nat, outcome : Answers])
        /\ Len(Tail(writes)) = Len(writes) - 1
        /\ \A i \in 1..Len(Tail(writes)) :
             i + 1 \in 1..Len(writes) /\ Tail(writes)[i] = writes[i + 1]
<1>1. writes \in Seq([id : Nat, outcome : Answers])
  BY DEF TypeOK
<1>2. Len(writes) \in Nat \ {0} /\ Head(writes) = writes[1]
  BY <1>1
<1> DEFINE S == [id : Nat, outcome : Answers]
<1>3. /\ Head(writes) \in S /\ Tail(writes) \in Seq(S)
      /\ Len(Tail(writes)) = Len(writes) - 1
      /\ \A i \in 1..Len(Tail(writes)) : Tail(writes)[i] = writes[i + 1]
  <2> HIDE DEF S
  <2>1. writes \in Seq(S)
    BY <1>1 DEF S
  <2> QED
    BY <2>1, HeadTailProperties
<1>4. \A i \in 1..Len(Tail(writes)) : i + 1 \in 1..Len(writes)
  BY <1>2, <1>3
<1> QED
  BY <1>2, <1>3, <1>4

(* What is queued are answers.                                             *)
LEMMA QueueEach ==
  ASSUME TypeOK, NEW i \in 1..Len(writes)
  PROVE writes[i] \in [id : Nat, outcome : Answers]
BY ElementOfSeq DEF TypeOK

(* What the queue is with one more answer.                                 *)
LEMMA QueueLast ==
  ASSUME TypeOK, NEW answer \in [id : Nat, outcome : Answers]
  PROVE /\ Append(writes, answer) \in Seq([id : Nat, outcome : Answers])
        /\ Len(Append(writes, answer)) = Len(writes) + 1
        /\ \A i \in 1..Len(writes) : Append(writes, answer)[i] = writes[i]
        /\ Append(writes, answer)[Len(writes) + 1] = answer
BY DEF TypeOK

(* Steps that touch no record, no gate and no process.                     *)
LEMMA QuietIds ==
  ASSUME IdsInv,
         UNCHANGED <<request, result, gate, opening, removing, started, mgrStarted,
                     card, cardReq, asserted, writes>>,
         running' \in BOOLEAN, offroadMode' \in BOOLEAN, offroadWanted' \in BOOLEAN,
         cycleWanted' \in BOOLEAN, stopWanted' \in BOOLEAN, engaged' \in BOOLEAN,
         stopWanted => stopWanted', ecu' \in EcuStates
  PROVE IdsInv'
BY DEF IdsInv, TypeOK, Drives, Ids, Queue, Live

(* The steps of IdsInv, one by one.                                        *)
LEMMA NextIds ==
  ASSUME IdsInv, [Next]_vars
  PROVE IdsInv'
<1> USE DEF IdsInv, paramVars, lifeVars, cardVars
<1>1. CASE \/ Engage \/ Disengage \/ AskCycle \/ AskOffroad \/ AskStop \/ ExitOffroad
           \/ HwExits
  BY <1>1, QuietIds
     DEF Engage, Disengage, AskCycle, AskOffroad, AskStop, Asks, ExitOffroad, HwExits, TypeOK
<1>2. CASE EcuStep
  <2>1. ecu' \in EcuStates
    BY <1>2 DEF EcuStep, TypeOK, EcuStates
  <2> QED
    BY <1>2, <2>1, QuietIds DEF EcuStep, TypeOK
<1>3. ASSUME NEW g \in Gates, PutRequest(g)
      PROVE IdsInv'
  <2> USE <1>3 DEF PutRequest
  <2>1. TypeOK'
    BY DEF TypeOK
  <2>2. Drives'
    BY DEF TypeOK, Drives, Live, Gates
  <2>3. Ids'
    BY DEF TypeOK, Drives, Ids, Live, Gates
  <2>4. Queue'
    BY DEF TypeOK, Queue, Live
  <2> QED
    BY <2>1, <2>2, <2>3, <2>4
<1>4. CASE HwOpens \/ MgrOpens
  <2> USE DEF Gates
  <2>1. PICK g \in Gates :
          /\ Open(g) /\ Live /\ running /\ opening[g] = 0
          /\ g = "manager" => mgrStarted /\ stopWanted
          /\ g = "hardwared" => started /\ ~removing
          /\ UNCHANGED <<request, result, removing, started, mgrStarted, running, card,
                         cardReq, asserted, writes>>
          /\ offroadMode' \in BOOLEAN
          /\ UNCHANGED <<offroadWanted, cycleWanted, stopWanted, engaged, ecu>>
    BY <1>4 DEF HwOpens, MgrOpens, HwIdle, MgrIdle, Live, TypeOK, AfterExit
  <2>2. CASE Joins
    <3>1. gate' = [gate EXCEPT ![g] = request] /\ opening' = opening /\ request # 0
      BY <2>1, <2>2 DEF Open, Joins
    <3>2. TypeOK' /\ Drives'
      BY <2>1, <3>1 DEF TypeOK, Drives, Live
    <3>3. Ids' /\ Queue'
      BY <2>1, <3>1 DEF TypeOK, Ids, Queue, Live
    <3> QED
      BY <3>2, <3>3
  <2>3. CASE ~Joins
    <3>1. /\ opening' = [opening EXCEPT ![g] = result.id + 1]
          /\ gate' = gate /\ gate[g] = 0
      BY <2>1, <2>3 DEF Open, Joins, RequestSettled, Later, TypeOK
    <3>2. TypeOK' /\ Drives'
      BY <2>1, <3>1 DEF TypeOK, Drives, Live
    <3>3. Ids' /\ Queue'
      BY <2>1, <3>1 DEF TypeOK, Ids, Queue, Live
    <3> QED
      BY <3>2, <3>3
  <2> QED
    BY <2>2, <2>3
<1>5. CASE HwWithdraws
  <2> USE <1>5 DEF HwWithdraws, HwIdle, AfterExit
  <2>1. TypeOK'
    BY DEF TypeOK
  <2>2. Drives'
    BY DEF TypeOK, Drives, Live, Gates
  <2>3. Ids'
    BY DEF TypeOK, Drives, Ids, Queue, Live, Gates
  <2>4. Queue'
    BY DEF TypeOK, Drives, Ids, Queue, Live, Gates
  <2> QED
    BY <2>1, <2>2, <2>3, <2>4
<1>6. CASE HwRemoves
  <2> USE <1>6 DEF HwRemoves
  <2>1. TypeOK'
    BY DEF TypeOK
  <2>2. Drives'
    BY DEF TypeOK, Drives, Live, Gates
  <2>3. Ids'
    BY DEF TypeOK, Drives, Ids, Queue, Live, Gates
  <2>4. Queue'
    BY DEF TypeOK, Drives, Ids, Queue, Live, Gates
  <2> QED
    BY <2>1, <2>2, <2>3, <2>4
<1>7. ASSUME NEW why \in Whys, HwProceeds(why)
      PROVE IdsInv'
  <2> USE <1>7 DEF HwProceeds, Close, HwIdle
  <2>1. TypeOK'
    BY DEF TypeOK, Enter, AfterExit
  <2>2. Drives'
    <3>1. started => mgrStarted
      <4>1. ASSUME started, ~mgrStarted PROVE FALSE
        <5>1. Ready("hardwared", started, Enter, why)
          OBVIOUS
        <5>2. gate["hardwared"] # 0
          BY <4>1, <5>1 DEF Ready
        <5>3. result.id < gate["hardwared"]
          BY <4>1, <5>2 DEF Ids, Live
        <5>4. Answer("hardwared") = "none"
          BY <5>3 DEF Answer, TypeOK, Gates
        <5>5. Owed("hardwared")
          BY <4>1 DEF Owed
        <5> QED
          BY <4>1, <5>1, <5>4, <5>5 DEF Ready, Settled
      <4> QED
        BY <4>1
    <3> QED
      BY <3>1 DEF TypeOK, Drives, Live, Gates
  <2>3. Ids'
    BY DEF TypeOK, Drives, Ids, Live, Gates
  <2>4. Queue'
    BY DEF TypeOK, Drives, Queue, Live, Gates
  <2> QED
    BY <2>1, <2>2, <2>3, <2>4
<1>8. ASSUME NEW why \in Whys, MgrStops(why)
      PROVE IdsInv'
  <2> USE <1>8 DEF MgrStops, Close, MgrIdle
  <2>1. TypeOK'
    BY DEF TypeOK
  <2>2. Drives'
    BY DEF TypeOK, Drives, Live, Gates
  <2>3. Ids'
    BY DEF TypeOK, Ids, Live, Gates
  <2>4. Queue'
    BY DEF TypeOK, Queue, Live, Gates
  <2> QED
    BY <2>1, <2>2, <2>3, <2>4
<1>9. CASE Ends
  <2> USE <1>9 DEF Ends, HwIdle
  <2>1. TypeOK'
    BY DEF TypeOK
  <2>2. Drives'
    BY DEF TypeOK, Drives, Live, Gates
  <2>3. Ids'
    BY DEF TypeOK, Drives, Ids, Queue, Live, Gates
  <2>4. Queue'
    BY DEF TypeOK, Drives, Ids, Queue, Live, Gates
  <2> QED
    BY <2>1, <2>2, <2>3, <2>4
<1>10. CASE Starts
  <2> USE <1>10 DEF Starts, HwIdle, Prompt
  <2>1. TypeOK'
    BY DEF TypeOK
  <2>2. Drives'
    BY DEF TypeOK, Drives, Live, Gates
  <2>3. Ids'
    BY DEF TypeOK, Drives, Ids, Queue, Live, Gates
  <2>4. Queue'
    BY DEF TypeOK, Drives, Ids, Queue, Live, Gates
  <2> QED
    BY <2>1, <2>2, <2>3, <2>4
<1>11. CASE MgrOnroad
  <2> USE <1>11 DEF MgrOnroad, MgrIdle
  <2>1. TypeOK'
    BY DEF TypeOK, EcuStates
  <2>2. Drives'
    BY DEF TypeOK, Drives, Live, Gates
  <2>3. Ids'
    BY DEF TypeOK, Drives, Ids, Queue, Live, Gates
  <2>4. Queue'
    BY DEF TypeOK, Drives, Ids, Queue, Live, Gates
  <2> QED
    BY <2>1, <2>2, <2>3, <2>4
<1>12. CASE MgrOffroad
  <2> USE <1>12 DEF MgrOffroad, MgrIdle, NoRecord
  <2>1. TypeOK'
    BY DEF TypeOK
  <2>2. Drives'
    BY DEF TypeOK, Drives, Live, Gates
  <2>3. Ids'
    BY DEF TypeOK, Drives, Ids, Queue, Live, Gates
  <2>4. Queue'
    BY DEF TypeOK, Drives, Ids, Queue, Live, Gates
  <2> QED
    BY <2>1, <2>2, <2>3, <2>4
<1>13. CASE CardPolls
  <2> USE <1>13 DEF CardPolls, Prompt
  <2>1. TypeOK'
    BY DEF TypeOK
  <2>2. Drives'
    BY DEF TypeOK, Drives, Live, Gates
  <2>3. Ids'
    BY DEF TypeOK, Drives, Ids, Queue, Live, Gates
  <2>4. Queue'
    BY DEF TypeOK, Drives, Ids, Queue, Live, Gates
  <2> QED
    BY <2>1, <2>2, <2>3, <2>4
<1>14. CASE CardDies
  <2> USE <1>14 DEF CardDies
  <2>1. TypeOK'
    <3>1. writes' \in Seq([id : Nat, outcome : Answers])
      <4> DEFINE S == [id : Nat, outcome : Answers]
      <4>1. writes \in Seq(S) /\ writes' \in {writes, <<>>}
        BY DEF TypeOK
      <4> HIDE DEF S
      <4>2. writes' \in Seq(S)
        BY <4>1, EmptySeq
      <4> QED
        BY <4>2 DEF S
    <3> QED
      BY <3>1 DEF TypeOK
  <2>2. Drives'
    BY DEF TypeOK, Drives, Live, Gates
  <2>3. Ids'
    BY DEF TypeOK, Drives, Ids, Queue, Live, Gates
  <2>4. Queue'
    BY DEF TypeOK, Drives, Ids, Queue, Live, Gates
  <2> QED
    BY <2>1, <2>2, <2>3, <2>4
<1>15. CASE CardFrame
  <2> DEFINE answer == [id |-> cardReq, outcome |-> ecu]
  <2>1. UNCHANGED <<request, result, gate, opening, removing, started, mgrStarted, running,
                    card, cardReq, offroadMode, offroadWanted, cycleWanted, stopWanted,
                    engaged, ecu>> /\ asserted' \in BOOLEAN /\ card = "alive"
    BY <1>15 DEF CardFrame, Asserts, TypeOK
  <2>2. CASE UNCHANGED writes
    BY <2>1, <2>2 DEF TypeOK, Drives, Ids, Queue, Live
  <2>3. CASE CardAnswers /\ writes' = Append(writes, answer)
    <3>1. answer \in [id : Nat, outcome : Answers] /\ cardReq # 0
      BY <2>3 DEF CardAnswers, TypeOK, Answers, Settled
    <3>2. TypeOK' /\ Drives' /\ Ids'
      BY <2>1, <2>3, <3>1, QueueLast DEF TypeOK, Drives, Ids, Live
    <3>3. Queue'
      BY <2>1, <2>3, <3>1, QueueLast DEF TypeOK, Ids, Queue, Live
    <3> QED
      BY <3>2, <3>3
  <2> QED
    BY <1>15, <2>2, <2>3 DEF CardFrame
<1>16. CASE CardWrites
  <2>1. UNCHANGED <<request, gate, opening, removing, started, mgrStarted, running, card,
                    cardReq, asserted, offroadMode, offroadWanted, cycleWanted, stopWanted,
                    engaged, ecu>> /\ writes # <<>>
        /\ result' = writes[1] /\ writes' = Tail(writes)
        /\ 1 \in 1..Len(writes) /\ writes[1] \in [id : Nat, outcome : Answers]
    BY <1>16, QueueHead DEF CardWrites
  <2>2. TypeOK' /\ Drives'
    BY <2>1, QueueHead DEF TypeOK, Drives, Live
  <2>3. Live => result.id <= result'.id /\ result'.id <= result.id + 1
    BY <2>1, QueueHead DEF Queue, TypeOK
  <2>4. Ids'
    <3>1. CASE mgrStarted
      <4>1. result'.id \in Nat /\ result.id \in Nat /\ result'.id = writes[1].id
        BY <2>1 DEF TypeOK
      <4>2. /\ cardReq # 0 => result'.id <= cardReq
            /\ request # 0 => result'.id <= request
            /\ \A g \in Gates : opening[g] # 0 => result'.id <= opening[g]
        BY <2>1, <3>1, <4>1 DEF Queue, Live
      <4> QED
        BY <2>1, <2>3, <3>1, <4>1, <4>2 DEF TypeOK, Ids, Live
    <3>2. CASE ~mgrStarted
      BY <2>1, <3>2 DEF Drives, Ids, Live, TypeOK
    <3> QED
      BY <3>1, <3>2 DEF TypeOK
  <2>5. Queue'
    <3>1. SUFFICES ASSUME Live, NEW i \in 1..Len(Tail(writes))
          PROVE /\ result'.id <= writes'[i].id /\ writes'[i].id <= result'.id + 1
                /\ \A j \in 1..Len(Tail(writes)) : i < j => writes'[i].id <= writes'[j].id
                /\ cardReq # 0 => writes'[i].id <= cardReq
                /\ request # 0 => writes'[i].id <= request
                /\ \A g \in Gates : opening[g] # 0 => writes'[i].id <= opening[g]
      BY <2>1 DEF Queue, Live
    <3>2. i + 1 \in 1..Len(writes) /\ 1 < i + 1 /\ writes'[i] = writes[i + 1]
          /\ \A j \in 1..Len(Tail(writes)) : j + 1 \in 1..Len(writes) /\ writes'[j] = writes[j + 1]
      BY <2>1, QueueHead
    <3>3. writes[1].id <= writes[i + 1].id
      BY <2>1, <3>1, <3>2 DEF Queue
    <3>4. writes[i + 1].id <= result.id + 1 /\ result.id <= result'.id
          /\ result'.id = writes[1].id
      BY <2>1, <2>3, <3>1, <3>2 DEF Queue
    <3>5. writes[1].id \in Nat /\ writes[i + 1].id \in Nat /\ result.id \in Nat
      BY <2>1, <3>2, QueueEach DEF TypeOK
    <3> QED
      BY <2>1, <3>1, <3>2, <3>3, <3>4, <3>5 DEF Queue
  <2> QED
    BY <2>2, <2>4, <2>5
<1>17. CASE UNCHANGED vars
  BY <1>17, QuietIds DEF vars, TypeOK
<1> QED
  BY <1>1, <1>3, <1>4, <1>5, <1>7, <1>9, <1>11, <1>13, <1>15, <1>16, <1>17,
     <1>2, <1>6, <1>8, <1>10, <1>12, <1>14
     DEF Next, Hardwared, Manager, Card, Environment, Gates

-----------------------------------------------------------------------------
(* Waiters.                                                                *)

(* Only the exit button withdraws a stop, and only a stop that is asked    *)
(* for makes the manager a gate.                                           *)
LEMMA NextKind ==
  ASSUME IdsInv, Kind, [Next]_vars
  PROVE Kind'
<1> SUFFICES ASSUME "withdraw" \notin Env
    PROVE Kind'
  BY DEF Kind
<1> USE DEF IdsInv, TypeOK, Kind, Enter, AfterExit, paramVars, lifeVars, cardVars, Gates
<1>1. CASE Hardwared
  <2>1. CASE PutRequest("hardwared")
    BY <2>1 DEF PutRequest
  <2>2. CASE HwWithdraws \/ HwRemoves \/ HwExits
    BY <2>2 DEF HwWithdraws, HwRemoves, HwExits, HwIdle
  <2>3. CASE HwOpens
    BY <2>3 DEF HwOpens, Open
  <2>4. ASSUME NEW why \in Whys, HwProceeds(why) PROVE Kind'
    BY <2>4 DEF HwProceeds, HwIdle, Close
  <2> QED
    BY <1>1, <2>1, <2>2, <2>3, <2>4 DEF Hardwared
<1>2. CASE Manager
  BY <1>2 DEF Manager, PutRequest, MgrOnroad, MgrOffroad, MgrOpens, Open, MgrStops, Close
<1>3. CASE Card \/ CardDies \/ EcuStep \/ Ends \/ Starts
  BY <1>3 DEF Card, CardPolls, CardFrame, CardWrites, CardDies, EcuStep, Ends, Starts
<1>4. CASE Environment
  BY <1>4 DEF Environment, Engage, Disengage, AskCycle, AskOffroad, AskStop, Asks, ExitOffroad
<1>5. CASE UNCHANGED vars
  BY <1>5 DEF vars
<1> QED
  BY <1>1, <1>2, <1>3, <1>4, <1>5 DEF Next

(* Without the exit button, the request that is put has its waiter as long *)
(* as the drive goes on.                                                   *)
LEMMA NextWaiter ==
  ASSUME IdsInv, Kind, RequestHasWaiter, [Next]_vars, "withdraw" \notin Env
  PROVE RequestHasWaiter'
<1> USE DEF IdsInv, TypeOK, Kind, RequestHasWaiter, Enter, AfterExit, paramVars, lifeVars,
            cardVars, Gates
<1>1. CASE Hardwared
  <2>1. CASE PutRequest("hardwared")
    BY <2>1 DEF PutRequest
  <2>2. CASE HwWithdraws \/ HwRemoves \/ HwExits
    BY <2>2 DEF HwWithdraws, HwRemoves, HwExits, HwIdle
  <2>3. CASE HwOpens
    BY <2>3 DEF HwOpens, Open, Joins
  <2>4. ASSUME NEW why \in Whys, HwProceeds(why) PROVE RequestHasWaiter'
    BY <2>4 DEF HwProceeds, HwIdle, Close
  <2> QED
    BY <1>1, <2>1, <2>2, <2>3, <2>4 DEF Hardwared
<1>2. CASE Manager
  BY <1>2 DEF Manager, PutRequest, MgrOnroad, MgrOffroad, MgrIdle, MgrOpens, Open, Joins,
              MgrStops, Close
<1>3. CASE Starts
  BY <1>3 DEF Starts, Drives, Live
<1>4. CASE Card \/ CardDies \/ EcuStep \/ Ends
  BY <1>4 DEF Card, CardPolls, CardFrame, CardWrites, CardDies, EcuStep, Ends
<1>5. CASE Environment
  BY <1>5 DEF Environment, Engage, Disengage, AskCycle, AskOffroad, AskStop, Asks, ExitOffroad
<1>6. CASE UNCHANGED vars
  BY <1>6 DEF vars
<1> QED
  BY <1>1, <1>2, <1>3, <1>4, <1>5, <1>6 DEF Next

(* Without reboots, shutdowns and uninstalls the manager is no gate.       *)
LEMMA NextAlone ==
  ASSUME IdsInv, Alone, [Next]_vars
  PROVE Alone'
<1> SUFFICES ASSUME "stop" \notin Env
    PROVE Alone'
  BY DEF Alone
<1> USE DEF IdsInv, TypeOK, Alone, paramVars, lifeVars, cardVars, Gates
<1>1. CASE Hardwared
  BY <1>1 DEF Hardwared, PutRequest, HwWithdraws, HwRemoves, HwExits, HwOpens, Open,
              HwProceeds, Close
<1>2. CASE Manager
  <2>1. CASE PutRequest("manager")
    BY <2>1 DEF PutRequest
  <2>2. CASE MgrOnroad \/ MgrOffroad
    BY <2>2 DEF MgrOnroad, MgrOffroad
  <2>3. ~MgrOpens /\ \A why \in Whys : ~MgrStops(why)
    BY DEF MgrOpens, MgrStops
  <2> QED
    BY <1>2, <2>1, <2>2, <2>3 DEF Manager
<1>3. CASE Card \/ CardDies \/ EcuStep \/ Ends \/ Starts
  BY <1>3 DEF Card, CardPolls, CardFrame, CardWrites, CardDies, EcuStep, Ends, Starts
<1>4. CASE Environment
  BY <1>4 DEF Environment, Engage, Disengage, AskCycle, AskOffroad, AskStop, Asks, ExitOffroad
<1>5. CASE UNCHANGED vars
  BY <1>5 DEF vars
<1> QED
  BY <1>1, <1>2, <1>3, <1>4, <1>5 DEF Next

-----------------------------------------------------------------------------
(* Answers.                                                                *)

(* An ECU that card keeps as it answered stays so while the request stands *)
(* in a drive whose card is alive.                                         *)
LEMMA KeptStep ==
  ASSUME IdsInv, [Next]_vars, Fresh, Fresh', cardReq # 0 => cardReq' # 0
  PROVE (Held => Held') /\ (Reported => Reported')
<1> USE DEF Held, Reported, Kept
<1>1. CASE UNCHANGED <<ecu, asserted, cardReq>>
  BY <1>1
<1>2. CASE CardPolls
  BY <1>2 DEF CardPolls
<1>3. CASE CardFrame
  BY <1>3 DEF CardFrame, Asserts
<1>4. CASE EcuStep
  BY <1>4 DEF EcuStep, Driven, Fresh, IdsInv, Drives, cardVars
<1>5. CASE MgrOnroad
  BY <1>5 DEF MgrOnroad, Fresh, IdsInv, Drives
<1>6. CASE MgrOffroad \/ CardDies
  BY <1>6 DEF MgrOffroad, CardDies, Fresh, IdsInv, Drives, lifeVars
<1>7. CASE Hardwared \/ Ends \/ Starts
  BY <1>1, <1>7 DEF Hardwared, PutRequest, HwWithdraws, HwRemoves, HwOpens, HwExits, HwProceeds,
                    Ends, Starts, cardVars
<1>8. CASE PutRequest("manager") \/ MgrOpens \/ \E why \in Whys : MgrStops(why)
  BY <1>1, <1>8 DEF PutRequest, MgrOpens, MgrStops, cardVars
<1>9. CASE CardWrites \/ Environment
  BY <1>1, <1>9 DEF CardWrites, Environment, Engage, Disengage, AskCycle, AskOffroad, AskStop,
                    Asks, ExitOffroad, cardVars
<1>10. CASE UNCHANGED vars
  BY <1>1, <1>10 DEF vars, cardVars
<1> QED
  BY <1>2, <1>3, <1>4, <1>5, <1>6, <1>7, <1>8, <1>9, <1>10 DEF Next, Manager, Card

(* Steps that leave the records alone and at most close a gate.            *)
LEMMA QuietAnswers ==
  ASSUME IdsInv, AnswersInv, [Next]_vars,
         UNCHANGED <<request, result, opening, mgrStarted, card, cardReq, writes>>,
         started' => started,
         \A g \in Gates : gate'[g] \in {0, gate[g]}
  PROVE AnswersInv'
<1>1. Fresh' => /\ Fresh /\ (Held => Held') /\ (Reported => Reported')
  BY KeptStep DEF Fresh
<1>2. Live' => Live
  BY DEF Live
<1>3. Openings'
  BY <1>1, <1>2 DEF AnswersInv, Openings
<1>4. Withdrawn' /\ Waits'
  BY <1>1 DEF AnswersInv, Withdrawn, Waits, Gates
<1>5. AnswersStand'
  BY <1>1 DEF AnswersInv, AnswersStand, Stands
<1> QED
  BY <1>3, <1>4, <1>5 DEF AnswersInv

(* A request is put: under the id that every gate waits for, or past one   *)
(* that was settled.                                                       *)
LEMMA PutAnswers ==
  ASSUME IdsInv, Kind, Alone, AnswersInv, OneKind, [Next]_vars,
         NEW g \in Gates, PutRequest(g)
  PROVE AnswersInv'
<1> USE DEF IdsInv, AnswersInv
<1>1. /\ opening[g] # 0 /\ request' = opening[g]
      /\ gate' = [gate EXCEPT ![g] = opening[g]] /\ opening' = [opening EXCEPT ![g] = 0]
      /\ UNCHANGED <<result, started, mgrStarted, card, cardReq, writes, ecu, asserted>>
  BY DEF PutRequest, lifeVars, cardVars
<1>2. gate[g] = 0 /\ opening[g] \in Nat /\ opening \in [Gates -> Nat] /\ gate \in [Gates -> Nat]
  BY <1>1 DEF Drives, TypeOK
<1>3. Fresh' = Fresh /\ Live' = Live /\ Held' = Held /\ Reported' = Reported
  BY <1>1 DEF Fresh, Live, Held, Reported, Kept
<1>4. "withdraw" \in Env => g = "hardwared"
  BY <1>1 DEF Alone, OneKind, Gates
<1>5. Withdrawn'
  BY <1>1, <1>2, <1>3, <1>4 DEF Withdrawn
<1>6. AnswersStand'
  BY <1>1, <1>2, <1>3 DEF AnswersStand, Stands
<1>7. Waits'
  <2>1. SUFFICES ASSUME Fresh, NEW h \in Gates, gate'[h] # 0, gate'[h] # opening[g]
        PROVE Held
    BY <1>1, <1>2, <1>3 DEF Waits
  <2>2. h # g /\ gate[h] # 0 /\ gate'[h] = gate[h]
    BY <1>1, <1>2, <2>1
  <2>3. "withdraw" \notin Env
    BY <1>4, <2>1, <2>2 DEF Alone, OneKind, Gates
  <2>4. request # 0 /\ (gate[h] # request => Held)
    BY <2>1, <2>2 DEF Waits
  <2> QED
    BY <1>1, <2>1, <2>2, <2>3, <2>4 DEF Openings, Fresh, Live
<1>8. Openings'
  <2>1. SUFFICES ASSUME "withdraw" \notin Env, Live, NEW h \in Gates, opening'[h] # 0
        PROVE /\ opening[h] = opening[g] /\ result.id < opening[g] /\ cardReq < opening[g]
              /\ \A i \in 1..Len(writes) : writes[i].id < opening[g]
    BY <1>1, <1>2, <1>3 DEF Openings
  <2>2. h # g /\ opening[h] # 0 /\ opening'[h] = opening[h]
    BY <1>1, <1>2, <2>1
  <2>3. /\ opening[h] = opening[g]
    BY <1>1, <2>1, <2>2 DEF Openings
  <2>4. request \in Nat /\ result.id \in Nat /\ cardReq \in Nat
        /\ \A i \in 1..Len(writes) : writes[i].id \in Nat
    BY QueueEach DEF TypeOK
  <2>5. CASE opening[g] = request
    BY <1>1, <2>1, <2>3, <2>5 DEF Openings
  <2>6. CASE opening[g] = Later(request, result.id) + 1
    <3>1. /\ request # 0 => cardReq <= request /\ result.id <= request
                            /\ \A i \in 1..Len(writes) : writes[i].id <= request
          /\ request = 0 => cardReq = 0 /\ Len(writes) = 0
      BY <2>1 DEF Openings, Ids, Queue
    <3> QED
      BY <2>3, <2>4, <2>6, <3>1 DEF Later
  <2> QED
    BY <1>1, <2>1, <2>5, <2>6 DEF Openings
<1> QED
  BY <1>5, <1>6, <1>7, <1>8

(* A gate joins the hand-back in flight, or is about to begin the next.    *)
LEMMA OpenAnswers ==
  ASSUME IdsInv, Alone, AnswersInv, [Next]_vars, HwOpens \/ MgrOpens
  PROVE AnswersInv'
<1> USE DEF IdsInv, AnswersInv
<1>1. PICK g \in Gates :
        /\ Open(g) /\ opening[g] = 0
        /\ UNCHANGED <<request, result, started, mgrStarted, card, cardReq, writes, ecu,
                       asserted>>
  BY DEF HwOpens, MgrOpens, HwIdle, MgrIdle, Gates, cardVars, paramVars
<1>2. gate[g] = 0 /\ request \in Nat /\ result.id \in Nat
      /\ opening \in [Gates -> Nat] /\ gate \in [Gates -> Nat]
  BY <1>1 DEF Open, TypeOK
<1>3. Fresh' = Fresh /\ Live' = Live /\ Held' = Held /\ Reported' = Reported
  BY <1>1 DEF Fresh, Live, Held, Reported, Kept
<1>4. CASE Joins
  <2>1. gate' = [gate EXCEPT ![g] = request] /\ opening' = opening /\ request # 0
    BY <1>1, <1>4 DEF Open, Joins
  <2>2. Openings' /\ Withdrawn' /\ Waits'
    BY <1>1, <1>2, <1>3, <2>1 DEF Openings, Withdrawn, Waits, Gates
  <2>3. AnswersStand'
    BY <1>1, <1>2, <1>3, <2>1 DEF AnswersStand, Stands
  <2> QED
    BY <2>2, <2>3
<1>5. CASE ~Joins
  <2>1. /\ gate' = gate /\ opening' = [opening EXCEPT ![g] = Later(request, result.id) + 1]
        /\ request = 0 \/ RequestSettled
    BY <1>1, <1>5 DEF Open, Joins
  <2>2. Withdrawn' /\ Waits'
    BY <1>1, <1>3, <2>1 DEF Withdrawn, Waits
  <2>3. AnswersStand'
    BY <1>1, <1>2, <1>3, <2>1 DEF AnswersStand, Stands, Later
  <2>4. Fresh /\ request # 0 => Held
    BY <2>1 DEF RequestSettled, AnswersStand, Stands, Gates
  <2>5. Openings'
    <3>1. SUFFICES ASSUME "withdraw" \notin Env, Live, NEW h \in Gates, opening[h] # 0
          PROVE opening[h] = Later(request, result.id) + 1
      BY <1>1, <1>2, <1>3, <2>1, <2>4 DEF Openings, Later
    <3> QED
      BY <1>2, <2>1, <3>1 DEF Openings, RequestSettled
  <2> QED
    BY <2>2, <2>3, <2>5
<1> QED
  BY <1>4, <1>5

(* hardwared takes its request back: nobody else has waited for it.        *)
LEMMA RemoveAnswers ==
  ASSUME IdsInv, Kind, Alone, AnswersInv, OneKind, [Next]_vars, HwRemoves
  PROVE AnswersInv'
<1> USE DEF IdsInv, AnswersInv, HwRemoves
<1>1. "withdraw" \in Env
  BY DEF Kind
<1>2. gate["manager"] = 0 /\ opening["hardwared"] = 0 /\ opening["manager"] = 0
  BY <1>1 DEF OneKind, Alone, Drives
<1>3. gate' = [gate EXCEPT !["hardwared"] = 0] /\ request' = 0 /\ opening' = opening
      /\ UNCHANGED <<result, started, card, mgrStarted, writes, ecu, asserted, cardReq>>
  BY DEF cardVars
<1>4. \A g \in Gates : gate'[g] = 0 /\ opening'[g] = 0
  BY <1>2, <1>3 DEF Gates, TypeOK
<1>5. Openings' /\ Withdrawn' /\ Waits'
  BY <1>1, <1>3, <1>4 DEF Openings, Withdrawn, Waits, Gates
<1>6. Fresh' = Fresh /\ Held' = Held /\ Reported' = Reported
  BY <1>3 DEF Fresh, Held, Reported, Kept
<1>7. AnswersStand'
  BY <1>3, <1>4, <1>6 DEF AnswersStand, Stands
<1> QED
  BY <1>5, <1>7

(* Drives begin with nothing asked for and end with everything cleared.    *)
LEMMA DriveAnswers ==
  ASSUME IdsInv, AnswersInv, [Next]_vars, Starts \/ MgrOnroad \/ MgrOffroad
  PROVE AnswersInv'
<1> USE DEF IdsInv, AnswersInv
<1>1. CASE Starts
  <2>1. /\ request' = 0 /\ cardReq' = 0 /\ writes' = <<>>
        /\ \A g \in Gates : gate'[g] = 0 /\ opening'[g] = 0
    BY <1>1 DEF Starts, Prompt, Drives, Live, Gates, paramVars, cardVars
  <2> QED
    BY <2>1 DEF Openings, Withdrawn, Waits, AnswersStand, Gates
<1>2. CASE MgrOnroad
  <2>1. /\ UNCHANGED <<request, result, gate, opening, started, cardReq, asserted, writes>>
        /\ Fresh /\ Live
    BY <1>2 DEF MgrOnroad, Fresh, Live
  <2>2. (Held => Held') /\ (Reported => Reported')
    BY <1>2, KeptStep DEF MgrOnroad, Fresh, Drives
  <2>3. Openings' /\ Withdrawn' /\ Waits'
    BY <2>1, <2>2 DEF Openings, Withdrawn, Waits
  <2>4. AnswersStand'
    BY <2>1, <2>2 DEF AnswersStand, Stands
  <2> QED
    BY <2>3, <2>4
<1>3. CASE MgrOffroad
  <2>1. ~Fresh' /\ ~Live'
    BY <1>3 DEF MgrOffroad, Fresh, Live
  <2> QED
    BY <2>1 DEF Openings, Withdrawn, Waits, AnswersStand
<1> QED
  BY <1>1, <1>2, <1>3

(* card takes up a request when no gate is about to put one.               *)
LEMMA PollAnswers ==
  ASSUME IdsInv, AnswersInv, [Next]_vars, CardPolls
  PROVE AnswersInv'
<1> USE DEF IdsInv, AnswersInv, CardPolls, Prompt
<1>1. /\ UNCHANGED <<request, result, gate, opening, started, mgrStarted, card, writes>>
      /\ writes = <<>> /\ \A g \in Gates : opening[g] = 0
  BY DEF paramVars, lifeVars
<1>2. Fresh' = Fresh /\ Live' = Live
  BY <1>1 DEF Fresh, Live
<1>3. Openings' /\ Withdrawn'
  BY <1>1, <1>2 DEF Openings, Withdrawn
<1>4. Fresh /\ request # 0 => (Held => Held') /\ (Reported => Reported')
  BY <1>2, KeptStep
<1>5. Waits'
  BY <1>1, <1>2, <1>4 DEF Waits
<1>6. Fresh => \A g \in Gates :
        result.id # 0 /\ result.id \in {request, gate[g], opening[g]} => request # 0
  BY <1>1 DEF Waits
<1>7. AnswersStand'
  BY <1>1, <1>2, <1>4, <1>6 DEF AnswersStand, Stands
<1> QED
  BY <1>3, <1>5, <1>7

(* card answers what the ECU has become, and keeps it so.                  *)
LEMMA FrameAnswers ==
  ASSUME IdsInv, AnswersInv, [Next]_vars, CardFrame
  PROVE AnswersInv'
<1> USE DEF IdsInv, AnswersInv
<1> DEFINE answer == [id |-> cardReq, outcome |-> ecu]
<1>1. UNCHANGED <<request, result, gate, opening, started, mgrStarted, card, cardReq, ecu>>
  BY DEF CardFrame, paramVars, lifeVars
<1>2. CASE UNCHANGED writes
  BY <1>1, <1>2, QuietAnswers
<1>3. CASE CardAnswers /\ writes' = Append(writes, answer)
  <2>1. answer \in [id : Nat, outcome : Answers] /\ cardReq # 0
    BY <1>3 DEF CardAnswers, TypeOK, Answers, Settled
  <2>2. Fresh' = Fresh /\ Live' = Live /\ (Fresh => (Held => Held') /\ (Reported => Reported'))
    BY <1>1, KeptStep DEF Fresh, Live
  <2> DEFINE StandsNext(outcome) ==
        (outcome \in Answers => Reported') /\ (outcome \in Settled => Held')
  <2>3. StandsNext(ecu)
    BY <1>1, <1>3, <2>1 DEF CardFrame, CardAnswers, Held, Reported, Kept, Answers, Settled
  <2>4. Openings'
    <3>1. ASSUME NEW i \in 1..Len(writes')
          PROVE \/ writes'[i] = answer
                \/ i \in 1..Len(writes) /\ writes'[i] = writes[i]
      <4>1. i \in 1..Len(writes) \/ i = Len(writes) + 1
        BY <1>3, <2>1, <3>1, QueueLast DEF TypeOK
      <4> QED
        BY <1>3, <2>1, <4>1, QueueLast
    <3>2. "withdraw" \notin Env /\ Live => request # 0
      BY <2>1 DEF Openings
    <3> QED
      BY <1>1, <2>1, <2>2, <3>1, <3>2 DEF Openings
  <2>5. Withdrawn' /\ Waits'
    BY <1>1, <2>2 DEF Withdrawn, Waits
  <2>6. ASSUME Fresh, NEW outcome, Stands(outcome)
        PROVE StandsNext(outcome)
    BY <2>2, <2>6 DEF Stands
  <2>7. ASSUME Fresh, NEW i \in 1..Len(writes')
        PROVE StandsNext(writes'[i].outcome)
    <3>1. CASE i \in 1..Len(writes)
      <4>1. writes'[i] = writes[i]
        BY <1>3, <2>1, <3>1, QueueLast
      <4>2. Stands(writes[i].outcome)
        BY <2>7, <3>1 DEF AnswersStand
      <4> QED
        BY <2>6, <2>7, <4>1, <4>2
    <3>2. CASE i = Len(writes) + 1
      BY <1>1, <1>3, <2>1, <2>3, <3>2, QueueLast
    <3> QED
      BY <1>3, <2>1, <2>7, <3>1, <3>2, QueueLast DEF TypeOK
  <2>8. AnswersStand'
    BY <1>1, <2>2, <2>6, <2>7 DEF AnswersStand, Stands
  <2> QED
    BY <2>4, <2>5, <2>8
<1> QED
  BY <1>2, <1>3 DEF CardFrame

(* An answer is written.                                                   *)
LEMMA WriteAnswers ==
  ASSUME IdsInv, AnswersInv, [Next]_vars, CardWrites
  PROVE AnswersInv'
<1> USE DEF IdsInv, AnswersInv
<1>1. /\ UNCHANGED <<request, gate, opening, started, mgrStarted, card, cardReq, asserted, ecu>>
      /\ writes # <<>> /\ result' = writes[1] /\ writes' = Tail(writes)
      /\ 1 \in 1..Len(writes) /\ writes[1] \in [id : Nat, outcome : Answers]
  BY QueueHead DEF CardWrites, lifeVars
<1>2. Fresh' = Fresh /\ Live' = Live /\ Held' = Held /\ Reported' = Reported
  BY <1>1 DEF Fresh, Live, Held, Reported, Kept
<1>3. Withdrawn' /\ Waits'
  BY <1>1, <1>2 DEF Withdrawn, Waits
<1>4. AnswersStand'
  BY <1>1, <1>2, QueueHead DEF AnswersStand, Stands
<1>5. Openings'
  <2>1. SUFFICES ASSUME "withdraw" \notin Env, Live
        PROVE /\ request # 0
              /\ \A g \in Gates : opening[g] # 0 =>
                   /\ \/ opening[g] = request
                      \/ opening[g] = Later(request, result'.id) + 1
                   /\ opening[g] = request =>
                        /\ result'.id < request
                        /\ \A i \in 1..Len(writes') : writes'[i].id < request
    BY <1>1, <1>2 DEF Openings
  <2>2. request # 0
    BY <1>1, <2>1 DEF Openings
  <2>3. result.id <= request /\ result'.id <= request
    BY <1>1, <2>1, <2>2 DEF Ids, Queue
  <2>4. request \in Nat /\ result.id \in Nat /\ result'.id \in Nat
    BY <1>1 DEF TypeOK
  <2>5. Later(request, result.id) = Later(request, result'.id)
    BY <2>3, <2>4 DEF Later
  <2> QED
    BY <1>1, <2>1, <2>2, <2>5, QueueHead DEF Openings
<1> QED
  BY <1>3, <1>4, <1>5

(* A drive under way has no answers and no gates.                          *)
LEMMA InitAnswers ==
  ASSUME Init
  PROVE Kind /\ Alone /\ AnswersInv /\ RequestHasWaiter
BY DEF Init, Kind, Alone, AnswersInv, Openings, Withdrawn, AnswersStand, Waits, Gates, NoRecord,
       Enter, RequestHasWaiter

(* Every step keeps what is known of the answers.                          *)
LEMMA NextAnswers ==
  ASSUME IdsInv, Kind, Alone, AnswersInv, OneKind, [Next]_vars
  PROVE AnswersInv'
<1> USE DEF paramVars, lifeVars, cardVars
<1> DEFINE Records == <<request, result, opening, mgrStarted, card, cardReq, writes>>
<1>1. CASE HwWithdraws \/ HwExits \/ Ends \/ \E why \in Whys : HwProceeds(why) \/ MgrStops(why)
  <2>1. UNCHANGED Records /\ (started' => started)
    <3>1. CASE HwWithdraws \/ HwExits \/ Ends
      BY <3>1 DEF HwWithdraws, HwExits, Ends
    <3>2. ASSUME NEW why \in Whys, HwProceeds(why) \/ MgrStops(why)
          PROVE UNCHANGED Records /\ (started' => started)
      <4>1. CASE HwProceeds(why)
        BY <4>1 DEF HwProceeds
      <4>2. CASE MgrStops(why)
        BY <4>2 DEF MgrStops
      <4> QED
        BY <3>2, <4>1, <4>2
    <3> QED
      BY <1>1, <3>1, <3>2
  <2>2. \A g \in Gates : gate'[g] \in {0, gate[g]}
    BY <1>1 DEF HwWithdraws, HwExits, Ends, HwProceeds, MgrStops, Close, IdsInv, TypeOK
  <2> QED
    BY <2>1, <2>2, QuietAnswers
<1>2. CASE Environment \/ EcuStep \/ UNCHANGED vars
  <2>1. UNCHANGED Records /\ UNCHANGED <<started, gate>>
    BY <1>2 DEF Environment, Engage, Disengage, AskCycle, AskOffroad, AskStop, Asks, ExitOffroad,
                EcuStep, vars
  <2> QED
    BY <2>1, QuietAnswers
<1>3. CASE CardDies
  <2>1. ~Fresh' /\ cardReq' = 0 /\ writes' \in {writes, <<>>}
        /\ UNCHANGED <<request, result, gate, opening, started, mgrStarted>>
    BY <1>3 DEF CardDies, Fresh, IdsInv, Drives
  <2>2. cardReq' <= cardReq /\ Live' = Live
    BY <2>1 DEF IdsInv, TypeOK, Live
  <2>3. Openings'
    BY <2>1, <2>2 DEF AnswersInv, Openings, IdsInv, TypeOK
  <2> QED
    BY <2>1, <2>3 DEF AnswersInv, Withdrawn, AnswersStand, Waits
<1> QED
  BY <1>1, <1>2, <1>3, PutAnswers, OpenAnswers, RemoveAnswers, DriveAnswers, PollAnswers,
     FrameAnswers, WriteAnswers
     DEF Next, Hardwared, Manager, Card, Gates

(* Whoever ends a drive has been answered by a card that keeps the ECU, or *)
(* has waited for a card that could not answer.                            *)
LEMMA EndStep ==
  ASSUME IdsInv, AnswersInv, [Next]_vars, started, Enters \/ Cycles \/ Stops
  PROVE \/ ecu \in Settled \/ card = "off" \/ engaged
        \/ ecu = "failed" /\ ~Enters
<1> USE DEF IdsInv, TypeOK
<1>1. PICK why \in Whys : HwProceeds(why) \/ MgrStops(why)
  <2> USE DEF Enters, Cycles, Stops, paramVars, lifeVars, cardVars
  <2>1. ~PutRequest("hardwared") /\ ~PutRequest("manager") /\ ~HwRemoves
    BY DEF PutRequest, HwRemoves
  <2>2. ~HwWithdraws /\ ~HwOpens /\ ~HwExits
    BY DEF HwWithdraws, HwOpens, HwExits, AfterExit
  <2>3. ~MgrOnroad /\ ~MgrOffroad /\ ~MgrOpens
    BY DEF MgrOnroad, MgrOffroad, MgrOpens
  <2>4. ~Card /\ ~CardDies /\ ~EcuStep /\ ~Ends /\ ~Starts
    BY DEF Card, CardPolls, CardFrame, CardWrites, CardDies, EcuStep, Ends, Starts
  <2>5. ~Environment
    <3>1. Environment => UNCHANGED <<running, offroadMode>> /\ cycleWanted' \in {cycleWanted, TRUE}
      BY DEF Environment, Engage, Disengage, AskCycle, AskOffroad, AskStop, Asks, ExitOffroad
    <3> QED
      BY <3>1
  <2>6. ~UNCHANGED vars
    <3>1. UNCHANGED vars => UNCHANGED <<running, offroadMode, cycleWanted>>
      BY DEF vars
    <3> QED
      BY <3>1
  <2> QED
    BY <2>1, <2>2, <2>3, <2>4, <2>5, <2>6 DEF Next, Hardwared, Manager
<1>2. SUFFICES ASSUME card = "alive"
      PROVE ecu \in Settled \/ engaged \/ (ecu = "failed" /\ ~Enters)
  OBVIOUS
<1>3. mgrStarted /\ Fresh
  BY <1>2 DEF Drives, Fresh
<1>4. PICK g \in Gates :
        /\ gate[g] # 0
        /\ \/ why = "settled" /\ Answer(g) \in Settled
           \/ why = "failed" /\ Answer(g) = "failed" /\ ~Enters
           \/ why = "expired" /\ Answer(g) = "none" /\ ~Owed(g)
  <2>1. CASE HwProceeds(why)
    <3>1. Ready("hardwared", started, Enter, why) /\ (Enters => Enter)
      BY <2>1 DEF HwProceeds, Enters, AfterExit
    <3> QED
      BY <3>1 DEF Ready, Gates
  <2>2. CASE MgrStops(why)
    <3>1. Ready("manager", mgrStarted, FALSE, why) /\ ~Enters
      BY <2>2 DEF MgrStops, Enters
    <3> QED
      BY <1>3, <3>1 DEF Ready, Gates
  <2> QED
    BY <1>1, <2>1, <2>2
<1>5. CASE Answer(g) \in Answers
  <2>1. result.id = gate[g] /\ result.outcome = Answer(g)
    BY <1>5 DEF Answer, Answers, Settled
  <2>2. Stands(Answer(g))
    BY <1>3, <1>4, <2>1 DEF AnswersInv, AnswersStand
  <2> QED
    BY <1>4, <1>5, <2>2 DEF Stands, Held, Reported, Kept, Answers, Settled
<1>6. CASE ~Owed(g)
  BY <1>2, <1>3, <1>4, <1>6 DEF Owed, AnswersInv, Waits, Held, Kept, Settled
<1> QED
  BY <1>4, <1>5, <1>6 DEF Answers

-----------------------------------------------------------------------------
(* Theorems.                                                               *)

(* Ids go up one by one, are answered in their order, and drives begin and *)
(* end with none.                                                          *)
THEOREM IdsInvariance == Spec => []IdsInv
<1>1. Init => IdsInv
  BY InitIds
<1>2. IdsInv /\ [Next]_vars => IdsInv'
  BY NextIds
<1> QED
  BY <1>1, <1>2, PTL DEF Spec

(* Exactly one hand-back is in flight, whatever happens around the gates.  *)
THEOREM OneHandBack == Spec => []OneInFlight
<1>1. IdsInv => OneInFlight
  <2>1. SUFFICES ASSUME IdsInv, NEW g \in Gates, NEW h \in Gates,
                        gate[g] # 0, gate[g] < gate[h]
        PROVE gate[g] <= result.id
    BY DEF OneInFlight
  <2>2. gate \in [Gates -> Nat] /\ result.id \in Nat
    BY <2>1 DEF IdsInv, TypeOK
  <2>3. Live
    BY <2>1, <2>2 DEF IdsInv, Drives, Live, Gates
  <2> QED
    BY <2>1, <2>2, <2>3 DEF IdsInv, Ids
<1> QED
  BY <1>1, IdsInvariance, PTL

(* Without the exit button a request always has its waiter, to the end of  *)
(* the drive.                                                              *)
THEOREM RequestsHaveWaiters ==
  ASSUME "withdraw" \notin Env
  PROVE Spec => []RequestHasWaiter
<1>1. Init => Kind /\ RequestHasWaiter
  BY InitAnswers
<1>2. IdsInv /\ (Kind /\ RequestHasWaiter) /\ [Next]_vars => (Kind /\ RequestHasWaiter)'
  BY NextKind, NextWaiter
<1> QED
  BY <1>1, <1>2, IdsInvariance, PTL DEF Spec

(* No drive is ended in software over an ECU that a living card holds, by  *)
(* stops of which not one can be withdrawn, or of which each can.          *)
THEOREM DrivesEndHandedBack ==
  ASSUME OneKind
  PROVE Spec => EndsHandedBack
<1> DEFINE Inv == Kind /\ Alone /\ AnswersInv
<1>1. Init => Inv
  BY InitAnswers
<1>2. IdsInv /\ Inv /\ [Next]_vars => Inv'
  BY NextKind, NextAlone, NextAnswers
<1>3. IdsInv /\ Inv /\ [Next]_vars =>
        [started /\ (Enters \/ Cycles \/ Stops) =>
           \/ ecu \in Settled \/ card = "off" \/ engaged
           \/ ecu = "failed" /\ ~Enters]_vars
  BY EndStep
<1> QED
  BY <1>1, <1>2, <1>3, IdsInvariance, PTL DEF Spec, EndsHandedBack
=============================================================================
