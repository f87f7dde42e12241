--------------------------- MODULE AthenaUploads ---------------------------
(***************************************************************************)
(* The upload queue of athenad.  RPC workers put files on a queue, upload  *)
(* handlers take them off and send them, putting back what did not go      *)
(* through; either writes the queue to a param after a change, and a       *)
(* restarted process starts from that param.  sunnylinkd runs the same     *)
(* code in a process of its own, over the same param.                      *)
(*                                                                         *)
(* Which item of equal priority the heap gives is left open, and so is the *)
(* priority.  A call uploads one file.                                     *)
(***************************************************************************)
EXTENDS Naturals, FiniteSets

CONSTANTS
  Daemons,        \* the processes: athenad, sunnylinkd
  Handlers,       \* their upload_handler threads
  Callers,        \* their jsonrpc_handler threads
  Of,             \* the process of a thread
  Urls,           \* the files asked for, by url
  NoItem,         \* a handler with nothing in hand
  MaxRetry,       \* MAX_RETRY_COUNT, 30
  MaxAsks,        \* bound on the uploads asked for
  MaxDrops,       \* bound on the connections lost
  MaxCrashes      \* bound on the processes killed

Threads == Handlers \cup Callers

ASSUME UploadsAssumption ==
  /\ Of \in [Threads -> Daemons] /\ Handlers \cap Callers = {}
  /\ MaxRetry \in Nat /\ MaxAsks \in Nat /\ MaxDrops \in Nat /\ MaxCrashes \in Nat

Ids == 1..MaxAsks
Item == [id : Ids, url : Urls, tries : 0..MaxRetry]
Call == [url : Urls, id : Ids, found : BOOLEAN]
ASSUME NoItemAssumption == NoItem \notin Item

(* What a caller that is idle asks for. *)
NoCall == [url |-> NoItem, id |-> 0, found |-> FALSE]

VARIABLES
  queue,          \* queue[d]: upload_queue
  cancelled,      \* cancelled[d]: cancelled_uploads
  disk,           \* the param AthenadUploadQueue
  cur,            \* cur[h]: cur_upload_items[tid]
  held,           \* held[h]: the item h works on, until the head of the loop
  how,            \* how[h]: how its last attempt ended
  call,           \* call[c]: the url and the id c asks for, found in the queue or not
  snap,           \* snap[t]: what t is about to write to the param
  pc,             \* pc[t]: the step t is at
  link,           \* link[d]: "up", "ending", "down", or "dead" until restarted
  asks, drops, crashes,
  owed,           \* owed[d], kept for the checks: the ids d has still to settle
  acked,          \* acked[d], for the checks: ids whose cancellation was reported
  late            \* late[d], for the checks: those whose sending has begun since

sharedVars == <<queue, cancelled, disk>>
threadVars == <<cur, held, how, call, snap, pc>>
lifeVars == <<link, drops, crashes>>
ghostVars == <<owed, acked, late>>
vars == <<sharedVars, threadVars, lifeVars, asks, ghostVars>>

Init ==
  /\ queue = [d \in Daemons |-> {}] /\ cancelled = [d \in Daemons |-> {}] /\ disk = {}
  /\ cur = [h \in Handlers |-> NoItem] /\ held = [h \in Handlers |-> NoItem]
  /\ how = [h \in Handlers |-> "none"]
  /\ call = [c \in Callers |-> NoCall]
  /\ snap = [t \in Threads |-> {}]
  /\ pc = [t \in Threads |-> IF t \in Handlers THEN "off" ELSE "idle"]
  /\ link = [d \in Daemons |-> "down"]
  /\ asks = 0 /\ drops = 0 /\ crashes = 0
  /\ owed = [d \in Daemons |-> {}]
  /\ acked = [d \in Daemons |-> {}] /\ late = [d \in Daemons |-> {}]

IdsOf(items) == {item.id : item \in items}
UrlsOf(items) == {item.url : item \in items}

(* The items of a process that were not cancelled.                         *)
Live(d, items) == {item \in items : item.id \notin cancelled[d]}

At(t, step) == pc[t] = step
Goto(t, step) == pc' = [pc EXCEPT ![t] = step]

(* An upload has been dealt with, one way or another.                      *)
Settle(h) == owed' = [owed EXCEPT ![Of[h]] = @ \ {held[h].id}]

-----------------------------------------------------------------------------
(* upload_handler.                                                         *)

(* The head of the loop: leave when the connection ends. *)
Top(h) ==
  /\ At(h, "top")
  /\ IF link[Of[h]] = "ending"
     THEN Goto(h, "off") /\ UNCHANGED cur
     ELSE Goto(h, "get") /\ cur' = [cur EXCEPT ![h] = NoItem]
  /\ held' = [held EXCEPT ![h] = NoItem] /\ how' = [how EXCEPT ![h] = "none"]
  /\ UNCHANGED <<sharedVars, call, snap, lifeVars, asks, ghostVars>>

(* upload_queue.get: from here to Assign the item is in neither list. *)
Get(h) ==
  /\ At(h, "get")
  /\ \E item \in queue[Of[h]] :
       /\ queue' = [queue EXCEPT ![Of[h]] = @ \ {item}]
       /\ held' = [held EXCEPT ![h] = item]
  /\ Goto(h, "got")
  /\ UNCHANGED <<cancelled, disk, cur, how, call, snap, lifeVars, asks, ghostVars>>

GetTimesOut(h) ==
  /\ At(h, "get") /\ queue[Of[h]] = {}
  /\ Goto(h, "top")
  /\ UNCHANGED <<sharedVars, cur, held, how, call, snap, lifeVars, asks, ghostVars>>

Assign(h) ==
  /\ At(h, "got")
  /\ cur' = [cur EXCEPT ![h] = held[h]]
  /\ Goto(h, "check")
  /\ UNCHANGED <<sharedVars, held, how, call, snap, lifeVars, asks, ghostVars>>

SkipCancelled(h) ==
  /\ At(h, "check") /\ held[h].id \in cancelled[Of[h]]
  /\ cancelled' = [cancelled EXCEPT ![Of[h]] = @ \ {held[h].id}]
  /\ Settle(h) /\ Goto(h, "top")
  /\ UNCHANGED <<queue, disk, cur, held, how, call, snap, lifeVars, asks, acked, late>>

(* The check is made once, before the age and the network are looked at.   *)
Pass(h) ==
  /\ At(h, "check") /\ held[h].id \notin cancelled[Of[h]]
  /\ Goto(h, "passed")
  /\ UNCHANGED <<sharedVars, cur, held, how, call, snap, lifeVars, asks, ghostVars>>

Expire(h) ==
  /\ At(h, "passed")
  /\ Settle(h) /\ Goto(h, "top")
  /\ UNCHANGED <<sharedVars, cur, held, how, call, snap, lifeVars, asks, acked, late>>

(* The network is metered and the item may not use it: back, not counted.  *)
Metered(h) ==
  /\ At(h, "passed")
  /\ how' = [how EXCEPT ![h] = "uncounted"] /\ Goto(h, "retry")
  /\ UNCHANGED <<sharedVars, cur, held, call, snap, lifeVars, asks, ghostVars>>

Attempt(h) ==
  /\ At(h, "passed")
  /\ late' = [late EXCEPT ![Of[h]] = @ \cup ({held[h].id} \cap acked[Of[h]])]
  /\ Goto(h, "send")
  /\ UNCHANGED <<sharedVars, cur, held, how, call, snap, lifeVars, asks, owed, acked>>

(* A response the server need not be asked again after.                    *)
Sent(h) ==
  /\ At(h, "send")
  /\ Settle(h) /\ Goto(h, "snapshot")
  /\ UNCHANGED <<sharedVars, cur, held, how, call, snap, lifeVars, asks, acked, late>>

(* Another response ("answered"), none ("broken"), or an abort, which is   *)
(* not counted: the network turned metered, or the process is ending.      *)
FailsToSend(h, end) ==
  /\ At(h, "send")
  /\ how' = [how EXCEPT ![h] = end]
  /\ Goto(h, "retry")
  /\ UNCHANGED <<sharedVars, cur, held, call, snap, lifeVars, asks, ghostVars>>

(* Any other exception, a file deleted meanwhile: the item is forgotten.   *)
Raises(h) ==
  /\ At(h, "send")
  /\ Settle(h) /\ Goto(h, "top")
  /\ UNCHANGED <<sharedVars, cur, held, how, call, snap, lifeVars, asks, acked, late>>

Ends == {"answered", "broken", "uncounted"}

AfterRetry(h) == IF how[h] = "answered" THEN "snapshot" ELSE "top"

(* retry_upload. *)
GiveUp(h) ==
  /\ At(h, "retry") /\ held[h].tries >= MaxRetry
  /\ Settle(h) /\ Goto(h, AfterRetry(h))
  /\ UNCHANGED <<sharedVars, cur, held, how, call, snap, lifeVars, asks, acked, late>>

(* A mutant, for the check of OnePlace: what an ending process aborts is   *)
(* not put back.                                                           *)
RequeueMutant(h) ==
  /\ At(h, "retry") /\ held[h].tries < MaxRetry
  /\ LET again == [held[h] EXCEPT !.tries = IF how[h] = "uncounted" THEN @ ELSE @ + 1]
     IN queue' = IF link[Of[h]] = "ending" THEN queue
                 ELSE [queue EXCEPT ![Of[h]] = @ \cup {again}]
  /\ Goto(h, "snapshotRetry")
  /\ UNCHANGED <<cancelled, disk, cur, held, how, call, snap, lifeVars, asks, ghostVars>>

(* A mutant, for the check of Settled: no failure is counted.              *)
RequeueMutantCount(h) ==
  /\ At(h, "retry") /\ held[h].tries < MaxRetry
  /\ queue' = [queue EXCEPT ![Of[h]] = @ \cup {held[h]}]
  /\ Goto(h, "snapshotRetry")
  /\ UNCHANGED <<cancelled, disk, cur, held, how, call, snap, lifeVars, asks, ghostVars>>

Requeue(h) ==
  /\ At(h, "retry") /\ held[h].tries < MaxRetry
  /\ LET again == [held[h] EXCEPT !.tries = IF how[h] = "uncounted" THEN @ ELSE @ + 1]
     IN queue' = [queue EXCEPT ![Of[h]] = @ \cup {again}]
  /\ Goto(h, "snapshotRetry")
  /\ UNCHANGED <<cancelled, disk, cur, held, how, call, snap, lifeVars, asks, ghostVars>>

(* The wait of RETRY_DELAY is over. *)
Rest(h) ==
  /\ At(h, "rest") /\ Goto(h, AfterRetry(h))
  /\ UNCHANGED <<sharedVars, cur, held, how, call, snap, lifeVars, asks, ghostVars>>

-----------------------------------------------------------------------------
(* UploadQueueCache.cache, of either kind of thread: the queue is listed,  *)
(* then written.                                                           *)

Snapshot(t) ==
  /\ pc[t] \in {"snapshot", "snapshotRetry"}
  /\ snap' = [snap EXCEPT ![t] = Live(Of[t], queue[Of[t]])]
  /\ Goto(t, IF At(t, "snapshot") THEN "save" ELSE "saveRetry")
  /\ UNCHANGED <<sharedVars, cur, held, how, call, lifeVars, asks, ghostVars>>

Save(t) ==
  /\ pc[t] \in {"save", "saveRetry"}
  /\ disk' = snap[t]
  /\ snap' = [snap EXCEPT ![t] = {}]
  /\ IF At(t, "saveRetry")
     THEN Goto(t, "rest") /\ cur' = [cur EXCEPT ![t] = NoItem]
     ELSE Goto(t, IF t \in Handlers THEN "top" ELSE "idle") /\ UNCHANGED cur
  /\ call' = [c \in Callers |-> IF c = t THEN NoCall ELSE call[c]]
  /\ UNCHANGED <<queue, cancelled, held, how, lifeVars, asks, ghostVars>>

-----------------------------------------------------------------------------
(* uploadFilesToUrls and cancelUpload.                                     *)

AskUpload(c, u) ==
  /\ At(c, "idle") /\ link[Of[c]] = "up" /\ asks < MaxAsks
  /\ asks' = asks + 1
  /\ call' = [call EXCEPT ![c] = [url |-> u, id |-> asks', found |-> FALSE]]
  /\ Goto(c, "list")
  /\ UNCHANGED <<sharedVars, cur, held, how, snap, lifeVars, ghostVars>>

(* listUploadQueue lists the queue, and after it what is being uploaded.   *)
ListQueue(c) ==
  /\ At(c, "list")
  /\ call' = [call EXCEPT ![c].found = @ \/ call[c].url \in UrlsOf(Live(Of[c], queue[Of[c]]))]
  /\ Goto(c, "current")
  /\ UNCHANGED <<sharedVars, cur, held, how, snap, lifeVars, asks, ghostVars>>

Current(d) == {cur[h] : h \in {g \in Handlers : Of[g] = d}} \ {NoItem}

ListCurrent(c) ==
  /\ At(c, "current")
  /\ Goto(c, IF call[c].found \/ call[c].url \in UrlsOf(Live(Of[c], Current(Of[c])))
             THEN "snapshot" ELSE "put")
  /\ UNCHANGED <<sharedVars, cur, held, how, call, snap, lifeVars, asks, ghostVars>>

PutItem(c) ==
  /\ At(c, "put")
  /\ LET item == [id |-> call[c].id, url |-> call[c].url, tries |-> 0]
     IN queue' = [queue EXCEPT ![Of[c]] = @ \cup {item}]
  /\ owed' = [owed EXCEPT ![Of[c]] = @ \cup {call[c].id}]
  /\ Goto(c, "snapshot")
  /\ UNCHANGED <<cancelled, disk, cur, held, how, call, snap, lifeVars, asks, acked, late>>

(* The ids are read from the queue; what is being uploaded is not found.   *)
AskCancel(c, i) ==
  /\ At(c, "idle") /\ link[Of[c]] = "up" /\ i \in IdsOf(queue[Of[c]])
  /\ call' = [call EXCEPT ![c].id = i]     \* the rest is not looked at
  /\ Goto(c, "mark")
  /\ UNCHANGED <<sharedVars, cur, held, how, snap, lifeVars, asks, ghostVars>>

Mark(c) ==
  /\ At(c, "mark")
  /\ cancelled' = [cancelled EXCEPT ![Of[c]] = @ \cup {call[c].id}]
  /\ acked' = [acked EXCEPT ![Of[c]] = @ \cup {call[c].id}]
  /\ call' = [call EXCEPT ![c] = NoCall]
  /\ Goto(c, "idle")
  /\ UNCHANGED <<queue, disk, cur, held, how, snap, lifeVars, asks, owed, late>>

-----------------------------------------------------------------------------
(* The life of a process.                                                  *)

(* The websocket fails or times out: end_event is set. *)
Drop(d) ==
  /\ link[d] = "up" /\ drops < MaxDrops
  /\ drops' = drops + 1 /\ link' = [link EXCEPT ![d] = "ending"]
  /\ UNCHANGED <<sharedVars, threadVars, crashes, asks, ghostVars>>

(* handle_long_poll has joined every thread. *)
Join(d) ==
  /\ link[d] = "ending"
  /\ \A t \in Threads : Of[t] = d => pc[t] = IF t \in Handlers THEN "off" ELSE "idle"
  /\ link' = [link EXCEPT ![d] = "down"]
  /\ UNCHANGED <<sharedVars, threadVars, drops, crashes, asks, ghostVars>>

(* A mutant, for the check of CancelSticks: a connection starts afresh.    *)
ConnectMutant(d) ==
  /\ link[d] = "down"
  /\ link' = [link EXCEPT ![d] = "up"]
  /\ cancelled' = [cancelled EXCEPT ![d] = {}]
  /\ cur' = [h \in Handlers |-> IF Of[h] = d THEN NoItem ELSE cur[h]]
  /\ pc' = [t \in Threads |-> IF t \in Handlers /\ Of[t] = d THEN "top" ELSE pc[t]]
  /\ UNCHANGED <<queue, disk, held, how, call, snap, drops, crashes, asks, ghostVars>>

Connect(d) ==
  /\ link[d] = "down"
  /\ link' = [link EXCEPT ![d] = "up"]
  /\ cur' = [h \in Handlers |-> IF Of[h] = d THEN NoItem ELSE cur[h]]
  /\ pc' = [t \in Threads |-> IF t \in Handlers /\ Of[t] = d THEN "top" ELSE pc[t]]
  /\ UNCHANGED <<sharedVars, held, how, call, snap, drops, crashes, asks, ghostVars>>

(* The process is killed, or the device loses power. *)
Crash(d) ==
  /\ link[d] # "dead" /\ crashes < MaxCrashes
  /\ crashes' = crashes + 1 /\ link' = [link EXCEPT ![d] = "dead"]
  /\ queue' = [queue EXCEPT ![d] = {}] /\ cancelled' = [cancelled EXCEPT ![d] = {}]
  /\ cur' = [h \in Handlers |-> IF Of[h] = d THEN NoItem ELSE cur[h]]
  /\ held' = [h \in Handlers |-> IF Of[h] = d THEN NoItem ELSE held[h]]
  /\ how' = [h \in Handlers |-> IF Of[h] = d THEN "none" ELSE how[h]]
  /\ call' = [c \in Callers |-> IF Of[c] = d THEN NoCall ELSE call[c]]
  /\ snap' = [t \in Threads |-> IF Of[t] = d THEN {} ELSE snap[t]]
  /\ pc' = [t \in Threads |-> IF Of[t] # d THEN pc[t]
                              ELSE IF t \in Handlers THEN "off" ELSE "idle"]
  /\ owed' = [owed EXCEPT ![d] = {}]
  /\ UNCHANGED <<disk, drops, asks, acked, late>>

(* manage_athenad starts it again, and UploadQueueCache.initialize.        *)
Restart(d) ==
  /\ link[d] = "dead"
  /\ link' = [link EXCEPT ![d] = "down"]
  /\ queue' = [queue EXCEPT ![d] = disk]
  /\ owed' = [owed EXCEPT ![d] = IdsOf(disk)]
  /\ acked' = [acked EXCEPT ![d] = {}] /\ late' = [late EXCEPT ![d] = {}]
  /\ UNCHANGED <<cancelled, disk, threadVars, drops, crashes, asks>>

-----------------------------------------------------------------------------
Handler(h) ==
  \/ Top(h) \/ Get(h) \/ GetTimesOut(h) \/ Assign(h)
  \/ SkipCancelled(h) \/ Pass(h) \/ Expire(h) \/ Metered(h) \/ Attempt(h)
  \/ Sent(h) \/ (\E end \in Ends : FailsToSend(h, end)) \/ Raises(h)
  \/ GiveUp(h) \/ Requeue(h) \/ Rest(h) \/ Snapshot(h) \/ Save(h)

Works(c) ==
  \/ ListQueue(c) \/ ListCurrent(c) \/ PutItem(c) \/ Mark(c)
  \/ Snapshot(c) \/ Save(c)

Caller(c) ==
  \/ Works(c)
  \/ \E u \in Urls : AskUpload(c, u)
  \/ \E i \in Ids : AskCancel(c, i)

Life(d) == Drop(d) \/ Join(d) \/ Connect(d) \/ Crash(d) \/ Restart(d)

Next ==
  \/ \E h \in Handlers : Handler(h)
  \/ \E c \in Callers : Caller(c)
  \/ \E d \in Daemons : Life(d)

Spec == Init /\ [][Next]_vars

(* Threads run, requests end in an answer or a timeout, lost connections   *)
(* are made again, and it is not at every check that the network turns out *)
(* metered, nor every attempt that is aborted.                             *)
Fairness ==
  /\ \A h \in Handlers :
       /\ WF_vars(Handler(h)) /\ SF_vars(Attempt(h))
       /\ SF_vars(Sent(h) \/ FailsToSend(h, "answered") \/ FailsToSend(h, "broken"))
  /\ \A c \in Callers : WF_vars(Works(c))
  /\ \A d \in Daemons : WF_vars(Join(d)) /\ WF_vars(Connect(d)) /\ WF_vars(Restart(d))

FairSpec == Spec /\ Fairness

-----------------------------------------------------------------------------
(* Properties.                                                             *)

(* The handlers of d with an upload in hand, in no list but their own.     *)
InHand(d) ==
  {h \in Handlers : Of[h] = d /\ pc[h] \in {"got", "check", "passed", "send", "retry"}}

(* No upload vanishes and none is doubled, however handlers, callers, lost *)
(* connections and restarts interleave: what a process has accepted or     *)
(* restored and not yet settled is once in its queue or in one handler's   *)
(* hands, and nothing else is.                                             *)
OnePlace ==
  \A d \in Daemons, i \in Ids :
    Cardinality({item \in queue[d] : item.id = i})
      + Cardinality({h \in InHand(d) : held[h].id = i})
    = IF i \in owed[d] THEN 1 ELSE 0

(* Once the cancellation of an upload was reported no check lets it pass,  *)
(* in the life of the process, retried, aborted and connected again as it  *)
(* may be.  That does not stop an upload whose check had passed before:    *)
(* the set is read well before the sending begins (athenad.py 295, 320).   *)
(* Such an upload is still begun, but once, and not tried again after it.  *)
CancelSticks ==
  [][\A h \in Handlers :
       /\ At(h, "check") /\ pc'[h] = "passed" => held[h].id \notin acked[Of[h]]
       /\ At(h, "passed") /\ pc'[h] = "send" => held[h].id \notin late[Of[h]]]_vars

(* Every upload is settled: sent, cancelled, expired or given up.          *)
Settled ==
  \A d \in Daemons, i \in Ids : i \in owed[d] ~> i \notin owed[d]
=============================================================================
