------------------------------ MODULE HandBack ------------------------------
(***************************************************************************)
(* Ending the onroad state in order.  On some cars openpilot silences a    *)
(* stock ECU for the drive; whoever ends the drive in software (hardwared: *)
(* an onroad cycle or forced offroad; manager: reboot, shutdown or         *)
(* uninstall) must let card hand the ECU back first.  The processes meet   *)
(* only in the params store: a gate writes a request with an id, card      *)
(* answers with the id and an outcome, and nothing is locked between a     *)
(* read and the write that follows it.                                     *)
(***************************************************************************)
EXTENDS Integers, Sequences

CONSTANTS
  Env,            \* what may happen around the processes, see EnvNames
  Ecus,           \* {"silenced"}, {"notNeeded"} or both: what the car starts as
  MaxAsks         \* bound on the stops asked for, and so on the ids

EnvNames == {"cycle", "offroad", "withdraw", "stop", "engage", "die", "fail",
             "ignition"}

ASSUME HandBackAssumption ==
  /\ Env \subseteq EnvNames
  /\ Ecus \subseteq {"silenced", "notNeeded"}
  /\ MaxAsks \in Nat

Gates == {"hardwared", "manager"}
Settled == {"restored", "notNeeded"}
Answers == Settled \cup {"failed"}
NoRecord == [id |-> 0, outcome |-> "none"]

VARIABLES
  \* the params store
  request,        \* the id in StockEcuHandBackRequest, 0 when it is absent
  result,         \* StockEcuHandBackResult
  failedKey,      \* StockEcuHandBackFailed
  cycleWanted,    \* OnroadCycleRequested
  offroadWanted,  \* OffroadModeRequested
  offroadMode,    \* OffroadMode
  stopWanted,     \* DoReboot, DoShutdown or DoUninstall
  asks,           \* stops asked for so far
  \* hardwared and manager
  gate,           \* gate[g]: the id g waits for, 0 when it is closed
  opening,        \* opening[g]: the id g is about to put, 0 outside _open
  removing,       \* hardwared is about to remove the request
  started,        \* deviceState.started
  mgrStarted,     \* started_prev of the manager
  running,        \* the manager has not left its loop
  \* card, and the ECU it owns
  card,           \* "alive" or "off"
  cardReq,        \* the server's request, as last polled
  asserted,       \* the server's started: stockEcuHandBack is being sent
  answered,       \* the last answer given
  writes,         \* answers on their way to the params store
  engaged,        \* CC.enabled
  ecu

paramVars == <<request, result, failedKey, cycleWanted, offroadWanted,
               offroadMode, stopWanted, asks>>
lifeVars == <<gate, opening, removing, started, mgrStarted, running>>
cardVars == <<card, cardReq, asserted, answered, writes>>
vars == <<paramVars, lifeVars, cardVars, engaged, ecu>>

(* A drive under way, nothing asked for yet. *)
Init ==
  /\ request = 0 /\ result = NoRecord /\ failedKey = FALSE
  /\ cycleWanted = FALSE /\ offroadWanted = FALSE /\ offroadMode = FALSE
  /\ stopWanted = FALSE /\ asks = 0
  /\ gate = [g \in Gates |-> 0] /\ opening = [g \in Gates |-> 0]
  /\ removing = FALSE /\ started = TRUE /\ mgrStarted = TRUE /\ running = TRUE
  /\ card = "alive" /\ cardReq = 0 /\ asserted = FALSE
  /\ answered = NoRecord /\ writes = <<>>
  /\ engaged = FALSE /\ ecu \in Ecus

-----------------------------------------------------------------------------
(* The gate, StockEcuHandBackGate.                                         *)

(* Mutants, for the checks of the properties: a hand-back opened beside    *)
(* the one in flight, an id not past the last answer, a failure that holds *)
(* nothing, a wait without a bound, a request that outlives its drive.     *)
Later(a, b) == IF a > b THEN a ELSE b

(* _open: join the hand-back in flight, or begin one under the next id;    *)
(* the put of the new request is a step of its own.                        *)
RequestSettled == result.id = request /\ result.outcome \in Settled

JoinsMutant == FALSE

Joins == request # 0 /\ ~RequestSettled

OpenMutant(g) ==
  /\ gate[g] = 0
  /\ IF Joins
     THEN gate' = [gate EXCEPT ![g] = request] /\ UNCHANGED opening
     ELSE opening' = [opening EXCEPT ![g] = request + 1] /\ UNCHANGED gate

Open(g) ==
  /\ gate[g] = 0
  /\ IF Joins
     THEN gate' = [gate EXCEPT ![g] = request] /\ UNCHANGED opening
     ELSE /\ opening' = [opening EXCEPT ![g] = Later(request, result.id) + 1]
          /\ UNCHANGED gate

PutRequest(g) ==
  /\ running /\ opening[g] # 0
  /\ request' = opening[g]
  /\ gate' = [gate EXCEPT ![g] = opening[g]]
  /\ opening' = [opening EXCEPT ![g] = 0]
  /\ UNCHANGED <<result, failedKey, cycleWanted, offroadWanted, offroadMode,
                 stopWanted, asks, removing, started, mgrStarted, running,
                 cardVars, engaged, ecu>>

Answer(g) == IF result.id = gate[g] THEN result.outcome ELSE "none"

(* card will still answer g: HANDBACK_WAIT_T is longer than the time an    *)
(* unhindered card takes, so the timeout does not fire meanwhile; nor does *)
(* it before the manager's loop has seen the drive.                        *)
Owed(g) == \/ mgrStarted # started
           \/ /\ card = "alive" /\ request = gate[g]
              /\ asserted \/ ~engaged \/ ecu = "notNeeded"

ReadyMutantHold(g, onroad, hold, why) ==
  \/ why = "offroad" /\ ~onroad
  \/ /\ onroad /\ gate[g] # 0
     /\ \/ why = "settled" /\ Answer(g) \in Settled
        \/ why = "failed" /\ Answer(g) = "failed"
        \/ why = "expired" /\ Answer(g) = "none" /\ ~Owed(g)

ReadyMutantBound(g, onroad, hold, why) ==
  \/ why = "offroad" /\ ~onroad
  \/ /\ onroad /\ gate[g] # 0
     /\ \/ why = "settled" /\ Answer(g) \in Settled
        \/ why = "failed" /\ Answer(g) = "failed" /\ ~hold

(* ready returns True, and why. *)
Ready(g, onroad, hold, why) ==
  \/ why = "offroad" /\ ~onroad
  \/ /\ onroad /\ gate[g] # 0
     /\ \/ why = "settled" /\ Answer(g) \in Settled
        \/ why = "failed" /\ Answer(g) = "failed" /\ ~hold
        \/ why = "expired" /\ Answer(g) = "none" /\ ~Owed(g)

Close(g, why) ==
  /\ gate' = [gate EXCEPT ![g] = 0]
  /\ failedKey' = (failedKey \/ why = "failed")

-----------------------------------------------------------------------------
(* hardwared: one thread runs HardwaredExt.update and then the onroad      *)
(* conditions.                                                             *)

HwIdle == running /\ opening["hardwared"] = 0 /\ ~removing
Enter == offroadWanted /\ ~offroadMode

(* on_offroad_exit, at the top of every update. *)
AfterExit == offroadMode /\ offroadWanted

(* Nothing wanted: reset() withdraws the request this gate waits for. *)
HwWithdraws ==
  /\ HwIdle /\ ~cycleWanted /\ ~Enter
  /\ offroadMode' = AfterExit
  /\ removing' = (gate["hardwared"] # 0 /\ request = gate["hardwared"])
  /\ gate' = IF removing' THEN gate ELSE [gate EXCEPT !["hardwared"] = 0]
  /\ UNCHANGED <<request, result, failedKey, cycleWanted, offroadWanted,
                 stopWanted, asks, opening, started, mgrStarted, running,
                 cardVars, engaged, ecu>>

HwRemoves ==
  /\ running /\ removing
  /\ removing' = FALSE
  /\ request' = 0
  /\ gate' = [gate EXCEPT !["hardwared"] = 0]
  /\ UNCHANGED <<result, failedKey, cycleWanted, offroadWanted, offroadMode,
                 stopWanted, asks, opening, started, mgrStarted, running,
                 cardVars, engaged, ecu>>

HwOpens ==
  /\ HwIdle /\ started /\ (cycleWanted \/ Enter)
  /\ Open("hardwared")
  /\ offroadMode' = AfterExit
  /\ UNCHANGED <<request, result, failedKey, cycleWanted, offroadWanted,
                 stopWanted, asks, removing, started, mgrStarted, running,
                 cardVars, engaged, ecu>>

(* An update that only leaves forced offroad, its other stop still held. *)
HwExits ==
  /\ HwIdle /\ started /\ cycleWanted /\ ~AfterExit /\ offroadMode
  /\ gate["hardwared"] # 0
  /\ offroadMode' = FALSE
  /\ UNCHANGED <<request, result, failedKey, cycleWanted, offroadWanted,
                 stopWanted, asks, lifeVars, cardVars, engaged, ecu>>

(* The stop goes ahead: forced offroad by OffroadMode, which pandad and    *)
(* the onroad conditions read; a cycle by the loop's own conditions, which *)
(* end the onroad state in the same pass.                                  *)
HwProceeds(why) ==
  /\ HwIdle /\ (cycleWanted \/ Enter)
  /\ Ready("hardwared", started, Enter, why)
  /\ Close("hardwared", why)
  /\ offroadMode' = (Enter \/ AfterExit)
  /\ cycleWanted' = FALSE
  /\ started' = (started /\ ~cycleWanted)
  /\ UNCHANGED <<request, result, offroadWanted, stopWanted, asks, opening,
                 removing, mgrStarted, running, cardVars, engaged, ecu>>

(* The onroad conditions: OffroadMode at 2 Hz, ignition as it comes but    *)
(* not before the manager's loop has seen the drive.                       *)
Ends ==
  /\ HwIdle /\ started /\ mgrStarted
  /\ offroadMode \/ "ignition" \in Env
  /\ started' = FALSE
  /\ UNCHANGED <<paramVars, gate, opening, removing, mgrStarted, running,
                 cardVars, engaged, ecu>>

(* A put takes less than the poll of card's, and so does a write card      *)
(* queued.                                                                 *)
Prompt == (\A g \in Gates : opening[g] = 0) /\ writes = <<>>

(* The next drive.  The second a cycle stays offroad outlasts the loops of *)
(* hardwared and manager, so both have seen the end of the last one.       *)
Starts ==
  /\ HwIdle /\ ~started /\ ~mgrStarted /\ ~offroadMode /\ Prompt
  /\ gate["hardwared"] = 0
  /\ started' = TRUE
  /\ UNCHANGED <<paramVars, gate, opening, removing, mgrStarted, running,
                 cardVars, engaged, ecu>>

-----------------------------------------------------------------------------
(* manager_thread.                                                         *)

MgrIdle == running /\ opening["manager"] = 0

(* Its edges of started.  A drive begins with a new card process, once the *)
(* last one and its writes have ended.                                     *)
MgrOnroad ==
  /\ MgrIdle /\ started /\ ~mgrStarted /\ writes = <<>>
  /\ mgrStarted' = TRUE
  /\ failedKey' \in {failedKey, FALSE}   \* cleared on an ignition edge
  /\ card' = "alive"
  /\ ecu' = IF ecu = "notNeeded" THEN ecu ELSE "silenced"
  /\ UNCHANGED <<request, result, cycleWanted, offroadWanted, offroadMode,
                 stopWanted, asks, gate, opening, removing, started, running,
                 cardReq, asserted, answered, writes, engaged>>

MgrOffroadMutant ==
  /\ MgrIdle /\ ~started /\ mgrStarted
  /\ mgrStarted' = FALSE /\ result' = NoRecord
  /\ card' = "off" /\ cardReq' = 0 /\ asserted' = FALSE /\ answered' = NoRecord
  /\ engaged' = FALSE /\ running' = ~stopWanted
  /\ gate' = IF stopWanted THEN [gate EXCEPT !["manager"] = 0] ELSE gate
  /\ UNCHANGED <<request, failedKey, cycleWanted, offroadWanted, offroadMode,
                 stopWanted, asks, opening, removing, started, writes, ecu>>

(* The end of a drive stops card and clears both records; the same pass    *)
(* then finds any stop that is wanted, and takes it.                       *)
MgrOffroad ==
  /\ MgrIdle /\ ~started /\ mgrStarted
  /\ mgrStarted' = FALSE
  /\ request' = 0 /\ result' = NoRecord
  /\ card' = "off" /\ cardReq' = 0 /\ asserted' = FALSE /\ answered' = NoRecord
  /\ engaged' = FALSE
  /\ running' = ~stopWanted
  /\ gate' = IF stopWanted THEN [gate EXCEPT !["manager"] = 0] ELSE gate
  /\ UNCHANGED <<failedKey, cycleWanted, offroadWanted, offroadMode, stopWanted,
                 asks, opening, removing, started, writes, ecu>>

MgrOpens ==
  /\ MgrIdle /\ stopWanted /\ mgrStarted
  /\ Open("manager")
  /\ UNCHANGED <<paramVars, removing, started, mgrStarted, running, cardVars,
                 engaged, ecu>>

MgrStops(why) ==
  /\ MgrIdle /\ stopWanted
  /\ Ready("manager", mgrStarted, FALSE, why)
  /\ Close("manager", why)
  /\ running' = FALSE
  /\ UNCHANGED <<request, result, cycleWanted, offroadWanted, offroadMode,
                 stopWanted, asks, opening, removing, started, mgrStarted,
                 cardVars, engaged, ecu>>

-----------------------------------------------------------------------------
(* card: StockEcuHandBackServer, polled at 10 Hz and run at 100 Hz, and    *)
(* the params writes it queues.                                            *)

CardPolls ==
  /\ running /\ card = "alive" /\ Prompt
  /\ cardReq' = request
  /\ UNCHANGED <<paramVars, lifeVars, card, asserted, answered, writes,
                 engaged, ecu>>

Asserts == cardReq # 0 /\ ecu # "notNeeded" /\ (asserted \/ ~engaged)

CardAnswers == cardReq # 0 /\ (ecu = "notNeeded" \/ (Asserts /\ ecu \in Answers))

CardFrame ==
  /\ running /\ card = "alive"
  /\ asserted' = Asserts
  /\ LET answer == [id |-> cardReq, outcome |-> ecu]
     IN  IF CardAnswers /\ answered # answer
         THEN writes' = Append(writes, answer) /\ answered' = answer
         ELSE UNCHANGED <<writes, answered>>
  /\ UNCHANGED <<paramVars, lifeVars, card, cardReq, engaged, ecu>>

CardWrites ==
  /\ running /\ writes # <<>>
  /\ result' = Head(writes)
  /\ writes' = Tail(writes)
  /\ UNCHANGED <<request, failedKey, cycleWanted, offroadWanted, offroadMode,
                 stopWanted, asks, lifeVars, card, cardReq, asserted, answered,
                 engaged, ecu>>

(* A crashed card is not restarted before the next drive; what it queued   *)
(* may be lost with it.                                                    *)
CardDies ==
  /\ "die" \in Env /\ running /\ card = "alive"
  /\ card' = "off" /\ cardReq' = 0 /\ asserted' = FALSE /\ answered' = NoRecord
  /\ writes' \in {writes, <<>>}
  /\ UNCHANGED <<paramVars, lifeVars, engaged, ecu>>

-----------------------------------------------------------------------------
(* Around the processes.  The ECU's session, in opendbc: restored while    *)
(* the assert is sent, taken over again when it is dropped, lost to its    *)
(* own timeout when nobody drives it.  "silenced" stands for every state   *)
(* of a takeover, from its start on.                                       *)

Driven == running /\ card = "alive" /\ started

EcuStep ==
  /\ running
  /\ \/ /\ Driven /\ asserted
        /\ \/ ecu = "silenced" /\ ecu' = "restoring"
           \/ ecu \in {"restoring", "failed"} /\ ecu' = "restored"
           \/ ecu = "restoring" /\ "fail" \in Env /\ ecu' = "failed"
     \/ /\ Driven /\ ~asserted
        /\ ecu \in {"restoring", "restored", "failed"} /\ ecu' = "silenced"
     \/ /\ ~Driven
        /\ ecu \in {"silenced", "restoring", "failed"} /\ ecu' = "lost"
  /\ UNCHANGED <<paramVars, lifeVars, cardVars, engaged>>

(* Cruise is available until the hand-back is asserted. *)
Engage ==
  /\ "engage" \in Env /\ Driven /\ ~engaged /\ ~asserted
  /\ ecu \in {"silenced", "notNeeded"}
  /\ engaged' = TRUE
  /\ UNCHANGED <<paramVars, lifeVars, cardVars, ecu>>

Disengage ==
  /\ running /\ engaged
  /\ engaged' = FALSE
  /\ UNCHANGED <<paramVars, lifeVars, cardVars, ecu>>

Asks ==
  /\ running /\ asks < MaxAsks
  /\ asks' = asks + 1
  /\ UNCHANGED <<request, result, failedKey, offroadMode, lifeVars, cardVars,
                 engaged, ecu>>

AskCycle ==
  /\ "cycle" \in Env /\ ~cycleWanted /\ cycleWanted' = TRUE
  /\ Asks /\ UNCHANGED <<offroadWanted, stopWanted>>

AskOffroad ==
  /\ "offroad" \in Env /\ ~offroadWanted /\ offroadWanted' = TRUE
  /\ Asks /\ UNCHANGED <<cycleWanted, stopWanted>>

AskStop ==
  /\ "stop" \in Env /\ ~stopWanted /\ stopWanted' = TRUE
  /\ Asks /\ UNCHANGED <<cycleWanted, offroadWanted>>

(* The exit button, of a forced offroad pending or in force. *)
ExitOffroad ==
  /\ "withdraw" \in Env /\ running /\ offroadWanted
  /\ offroadWanted' = FALSE
  /\ UNCHANGED <<request, result, failedKey, cycleWanted, offroadMode,
                 stopWanted, asks, lifeVars, cardVars, engaged, ecu>>

-----------------------------------------------------------------------------
Whys == {"offroad", "settled", "failed", "expired"}

Hardwared ==
  \/ PutRequest("hardwared") \/ HwWithdraws \/ HwRemoves \/ HwOpens \/ HwExits
  \/ \E why \in Whys : HwProceeds(why)

Manager ==
  \/ PutRequest("manager") \/ MgrOnroad \/ MgrOffroad \/ MgrOpens
  \/ \E why \in Whys : MgrStops(why)

Card == CardPolls \/ CardFrame \/ CardWrites

Environment ==
  Engage \/ Disengage \/ AskCycle \/ AskOffroad \/ AskStop \/ ExitOffroad

Next == Hardwared \/ Ends \/ Starts \/ Manager \/ Card \/ CardDies \/ EcuStep
        \/ Environment

Spec == Init /\ [][Next]_vars

(* Every loop keeps running, and the clock behind the timeout does not     *)
(* stop while an engagement comes and goes; nothing is assumed of the      *)
(* driver, of failures or of late recoveries.                              *)
Fairness ==
  /\ WF_vars(Hardwared) /\ WF_vars(Ends /\ offroadMode) /\ WF_vars(Manager)
  /\ WF_vars(CardPolls) /\ WF_vars(CardFrame) /\ WF_vars(CardWrites)
  /\ WF_vars(EcuStep /\ ecu # "failed")
  /\ SF_vars(HwProceeds("expired")) /\ SF_vars(MgrStops("expired"))

FairSpec == Spec /\ Fairness

-----------------------------------------------------------------------------
(* Properties.                                                             *)

(* However the stops, the card's answers and its death interleave, no      *)
(* software end of a drive cuts off an ECU that card is still holding:     *)
(* forced offroad finds it handed back, the stops with no cancel find it   *)
(* handed back or failed.  Left out are a card that is gone and a driver   *)
(* who stayed engaged for the whole wait.                                  *)
Enters == ~offroadMode /\ offroadMode'
Cycles == cycleWanted /\ ~cycleWanted'
Stops == running /\ ~running'

EndsHandedBack ==
  [][started /\ (Enters \/ Cycles \/ Stops) =>
       \/ ecu \in Settled \/ card = "off" \/ engaged
       \/ ecu = "failed" /\ ~Enters]_vars

(* "exactly one hand-back is ever in flight" (lines 17-18): two gates that *)
(* wait for different ids do so only when the lower one has been answered. *)
OneInFlight ==
  \A g, h \in Gates :
    gate[g] # 0 /\ gate[g] < gate[h] => gate[g] <= result.id

(* A request left on file would keep the ECU handed back, and cruise off,  *)
(* for the rest of the drive: while the drive goes on and there is one,    *)
(* some gate is waiting.                                                   *)
RequestHasWaiter ==
  running /\ started /\ ~offroadMode /\ request # 0 =>
    \E g \in Gates : gate[g] # 0

(* Every reboot, shutdown or uninstall is carried out: a dead card, a      *)
(* failing ECU and an engaged driver delay it, no more.                    *)
StopServed == stopWanted ~> ~running

(* Every onroad cycle is carried out, unless the manager stops first or a  *)
(* forced offroad beside it holds the shared gate on a reported failure.   *)
CycleServed ==
  cycleWanted ~> (~cycleWanted \/ ~running \/ (offroadWanted /\ result.outcome = "failed"))

(* Forced offroad comes about, unless card reports a failed hand-back.     *)
OffroadServed ==
  offroadWanted ~> (offroadMode \/ ~offroadWanted \/ ~running
                    \/ result.outcome = "failed")

=============================================================================
