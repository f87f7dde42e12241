------------------------ MODULE AthenaUploads_proofs ------------------------
(***************************************************************************)
(* What the upload queue promises, for any number of processes, threads,   *)
(* uploads, lost connections and crashes: no upload vanishes or is         *)
(* doubled, and one that was reported cancelled passes no check any more.  *)
(***************************************************************************)
EXTENDS AthenaUploads, FiniteSetTheorems, TLAPS

(* The steps with an upload in hand, and those of an upload not yet put.   *)
Handling == {"got", "check", "passed", "send", "retry"}

Asking == {"list", "current", "put"}

Saving == {"snapshot", "save", "snapshotRetry", "saveRetry"}

Elsewhere == {"off", "top", "get", "rest", "idle", "mark"}

Steps == Handling \cup Asking \cup Saving \cup Elsewhere

TypeOK ==
  /\ queue \in [Daemons -> SUBSET Item] /\ cancelled \in [Daemons -> SUBSET Ids]
  /\ disk \subseteq Item /\ snap \in [Threads -> SUBSET Item]
  /\ held \in [Handlers -> Item \cup {NoItem}]
  /\ call \in [Callers -> [url : Urls \cup {NoItem}, id : Ids \cup {0}, found : BOOLEAN]]
  /\ pc \in [Threads -> Steps]
  /\ link \in [Daemons -> {"up", "ending", "down", "dead"}]
  /\ asks \in 0..MaxAsks
  /\ owed \in [Daemons -> SUBSET Ids] /\ acked \in [Daemons -> SUBSET Ids]

(* A thread has what its step is about; a process that is down is idle.    *)
Ready ==
  /\ \A h \in Handlers : pc[h] \in Handling => held[h] \in Item
  /\ \A c \in Callers :
       /\ pc[c] \in Asking => call[c].url \in Urls
       /\ pc[c] \in Asking \cup {"mark"} => call[c].id \in 1..asks
  /\ \A t \in Threads :
       link[Of[t]] \in {"down", "dead"} => pc[t] \in {"off", "idle"}

Unique(items) == \A x, y \in items : x.id = y.id => x = y

(* Every id that a process owes is in one place, and only those are.       *)
Places ==
  \A d \in Daemons :
    /\ Unique(queue[d])
    /\ \A h, g \in InHand(d) : held[h].id = held[g].id => h = g
    /\ \A item \in queue[d], h \in InHand(d) : item.id # held[h].id
    /\ owed[d] = IdsOf(queue[d]) \cup {held[h].id : h \in InHand(d)}

(* Copies of queues name an id once.                                       *)
Copies == Unique(disk) /\ \A t \in Threads : Unique(snap[t])

(* The ids there have been, and those of them that were put.               *)
Used ==
  /\ IdsOf(disk) \subseteq 1..asks
  /\ \A t \in Threads : IdsOf(snap[t]) \subseteq 1..asks
  /\ \A d \in Daemons : owed[d] \cup acked[d] \subseteq 1..asks

Put(i) ==
  \/ i \in IdsOf(disk)
  \/ \E t \in Threads : i \in IdsOf(snap[t])
  \/ \E d \in Daemons : i \in owed[d] \cup acked[d]
  \/ \E c \in Callers : pc[c] = "mark" /\ call[c].id = i

(* What is asked for is asked for once.                                    *)
New ==
  \A c \in Callers : pc[c] \in Asking =>
    /\ ~Put(call[c].id)
    /\ \A b \in Callers : pc[b] \in Asking /\ call[b].id = call[c].id => b = c

(* What was reported cancelled is gone, or will be skipped.                *)
Marked == \A d \in Daemons : acked[d] \cap owed[d] \subseteq cancelled[d]

(* What was begun after its report is in no hand that has passed the check. *)
BegunOnce ==
  /\ late \in [Daemons -> SUBSET Ids]
  /\ \A d \in Daemons : late[d] \subseteq acked[d]
  /\ \A h \in Handlers : pc[h] = "passed" => held[h].id \notin late[Of[h]]

IInv == TypeOK /\ Ready /\ Places /\ Copies /\ Used /\ New /\ Marked

-----------------------------------------------------------------------------
(* Steps.                                                                  *)

(* Threads have one process, and are of one kind.                          *)
LEMMA ThreadFacts ==
  /\ \A t \in Threads : Of[t] \in Daemons
  /\ \A h \in Handlers : h \in Threads /\ h \notin Callers
  /\ \A c \in Callers : c \in Threads /\ c \notin Handlers
BY UploadsAssumption DEF Threads

(* The processes start with empty queues.                                  *)
LEMMA InitIInv ==
  ASSUME Init
  PROVE IInv
<1> USE UploadsAssumption, ThreadFacts DEF Init, Threads
<1>1. TypeOK
  BY DEF TypeOK, NoCall, Steps, Elsewhere
<1>2. Ready
  BY DEF Ready, Handling, Asking
<1>3. Places
  BY DEF Places, Unique, InHand, IdsOf
<1>4. Copies /\ Used /\ New /\ Marked
  BY DEF Copies, Unique, Used, IdsOf, New, Asking, Marked
<1> QED
  BY <1>1, <1>2, <1>3, <1>4 DEF IInv

(* The places of uploads, when no queue changes and no hand opens or       *)
(* closes.                                                                 *)
LEMMA QuietPlaces ==
  ASSUME Places, UNCHANGED <<queue, owed>>,
         \A h \in Handlers : pc'[h] \in Handling <=> pc[h] \in Handling,
         \A h \in Handlers : pc[h] \in Handling => held'[h] = held[h]
  PROVE Places'
<1>1. \A d \in Daemons : InHand(d)' = InHand(d)
  BY DEF InHand, Handling
<1>2. \A d \in Daemons : \A h \in InHand(d) : held'[h] = held[h]
  BY DEF InHand, Handling
<1> QED
  BY <1>1, <1>2 DEF Places, Unique, IdsOf

(* What is known of ids, when none is written, put or cancelled and nobody *)
(* begins to ask.                                                          *)
LEMMA QuietIds ==
  ASSUME Copies, Used, New, Marked,
         UNCHANGED <<disk, snap, owed, acked, cancelled, asks>>,
         \A c \in Callers : pc'[c] \in Asking => pc[c] \in Asking /\ call'[c].id = call[c].id,
         \A c \in Callers : pc'[c] = "mark" => pc[c] = "mark" /\ call'[c].id = call[c].id
  PROVE Copies' /\ Used' /\ New' /\ Marked'
<1>1. Copies' /\ Used' /\ Marked'
  BY DEF Copies, Unique, Used, IdsOf, Marked
<1>2. New'
  BY DEF New, Put, IdsOf
<1> QED
  BY <1>1, <1>2

(* A handler that waits, or goes on with what it has in hand.              *)
LEMMA WorkIInv ==
  ASSUME IInv, NEW h \in Handlers,
         \/ Top(h) \/ GetTimesOut(h) \/ Assign(h) \/ Pass(h) \/ Metered(h) \/ Attempt(h)
         \/ (\E end \in Ends : FailsToSend(h, end)) \/ Rest(h)
  PROVE IInv'
<1> USE ThreadFacts DEF IInv, sharedVars, lifeVars, ghostVars
<1>1. UNCHANGED <<queue, disk, cancelled, call, snap, link, asks, owed, acked>>
  BY DEF Top, GetTimesOut, Assign, Pass, Metered, Attempt, FailsToSend, Rest
<1>2. PICK step \in Steps \ (Asking \cup {"mark", "idle"}) :
        /\ pc' = [pc EXCEPT ![h] = step]
        /\ step \in Handling <=> pc[h] \in Handling
        /\ step # "off" => pc[h] # "off" /\ pc[h] # "idle"
        /\ \/ held' = held
           \/ held' = [held EXCEPT ![h] = NoItem] /\ pc[h] \notin Handling
  BY DEF Top, GetTimesOut, Assign, Pass, Metered, Attempt, FailsToSend, Rest, At, Goto, AfterRetry,
         Steps, Handling, Asking, Saving, Elsewhere
<1>3. TypeOK'
  BY <1>1, <1>2 DEF TypeOK
<1>4. Ready'
  BY <1>1, <1>2 DEF Ready, TypeOK
<1>5. Places'
  BY <1>1, <1>2, QuietPlaces DEF TypeOK
<1>6. Copies' /\ Used' /\ New' /\ Marked'
  BY <1>1, <1>2, QuietIds DEF TypeOK
<1> QED
  BY <1>3, <1>4, <1>5, <1>6

(* An item goes from the queue into a hand.                                *)
LEMMA GetIInv ==
  ASSUME IInv, NEW h \in Handlers, Get(h)
  PROVE IInv'
<1> USE ThreadFacts DEF IInv, lifeVars, ghostVars
<1>1. PICK item \in queue[Of[h]] :
        /\ queue' = [queue EXCEPT ![Of[h]] = @ \ {item}]
        /\ held' = [held EXCEPT ![h] = item]
  BY DEF Get
<1>2. /\ pc[h] = "get" /\ pc' = [pc EXCEPT ![h] = "got"]
      /\ UNCHANGED <<disk, cancelled, call, snap, link, asks, owed, acked>>
  BY DEF Get, At, Goto
<1>3. item \in Item
  BY <1>1 DEF TypeOK
<1>4. TypeOK'
  BY <1>1, <1>2, <1>3 DEF TypeOK, Steps, Handling
<1>5. Ready'
  BY <1>1, <1>2, <1>3 DEF Ready, TypeOK, Handling, Asking
<1>6. Places'
  <2>1. SUFFICES ASSUME NEW d \in Daemons
        PROVE /\ Unique(queue'[d])
              /\ \A e, g \in InHand(d)' : held'[e].id = held'[g].id => e = g
              /\ \A x \in queue'[d], e \in InHand(d)' : x.id # held'[e].id
              /\ owed[d] = IdsOf(queue'[d]) \cup {held'[e].id : e \in InHand(d)'}
    BY <1>2 DEF Places, Unique, IdsOf
  <2>2. CASE d # Of[h]
    <3>1. /\ queue'[d] = queue[d] /\ InHand(d)' = InHand(d)
          /\ \A e \in InHand(d) : held'[e] = held[e]
      BY <1>1, <1>2, <2>2 DEF TypeOK, InHand
    <3> QED
      BY <3>1 DEF Places
  <2>3. CASE d = Of[h]
    <3>1. /\ queue'[d] = queue[d] \ {item} /\ item \in queue[d]
          /\ InHand(d)' = InHand(d) \cup {h} /\ h \notin InHand(d)
          /\ held'[h] = item /\ \A e \in InHand(d) : held'[e] = held[e]
      BY <1>1, <1>2, <2>3 DEF TypeOK, InHand
    <3>2. \A x \in queue'[d] : x \in queue[d] /\ x.id # item.id
      BY <3>1 DEF Places, Unique
    <3>3. IdsOf(queue[d]) = IdsOf(queue'[d]) \cup {item.id}
      BY <3>1 DEF IdsOf
    <3>4. owed[d] = IdsOf(queue'[d]) \cup {held'[e].id : e \in InHand(d)'}
      <4>1. {held'[e].id : e \in InHand(d)'} = {held[e].id : e \in InHand(d)} \cup {item.id}
        BY <3>1
      <4> QED
        BY <3>3, <4>1 DEF Places
    <3>5. \A e \in InHand(d) : held'[e].id # item.id
      BY <3>1 DEF Places
    <3> QED
      BY <3>1, <3>2, <3>4, <3>5 DEF Places, Unique
  <2> QED
    BY <2>2, <2>3
<1>7. Copies' /\ Used' /\ New' /\ Marked'
  BY <1>2, QuietIds DEF TypeOK, Asking
<1> QED
  BY <1>4, <1>5, <1>6, <1>7

(* An upload leaves a hand for good.                                       *)
LEMMA SettleIInv ==
  ASSUME IInv, NEW h \in Handlers,
         SkipCancelled(h) \/ Expire(h) \/ Sent(h) \/ Raises(h) \/ GiveUp(h)
  PROVE IInv'
<1> USE ThreadFacts DEF IInv, sharedVars, lifeVars, ghostVars
<1>1. /\ UNCHANGED <<queue, disk, call, snap, link, asks, acked, held>>
      /\ owed' = [owed EXCEPT ![Of[h]] = @ \ {held[h].id}]
      /\ pc[h] \in Handling
      /\ \/ cancelled' = cancelled
         \/ cancelled' = [cancelled EXCEPT ![Of[h]] = @ \ {held[h].id}]
  BY DEF SkipCancelled, Expire, Sent, Raises, GiveUp, Settle, At, Handling
<1>2. PICK step \in {"top", "snapshot"} : pc' = [pc EXCEPT ![h] = step]
  BY DEF SkipCancelled, Expire, Sent, Raises, GiveUp, Goto, AfterRetry
<1>3. TypeOK'
  BY <1>1, <1>2 DEF TypeOK, Steps, Saving, Elsewhere
<1>4. Ready'
  BY <1>1, <1>2 DEF Ready, TypeOK, Handling, Asking
<1>5. Places'
  <2>1. SUFFICES ASSUME NEW d \in Daemons
        PROVE /\ Unique(queue[d])
              /\ \A e, g \in InHand(d)' : held[e].id = held[g].id => e = g
              /\ \A x \in queue[d], e \in InHand(d)' : x.id # held[e].id
              /\ owed'[d] = IdsOf(queue[d]) \cup {held[e].id : e \in InHand(d)'}
    BY <1>1 DEF Places, Unique, IdsOf
  <2>2. CASE d # Of[h]
    <3>1. InHand(d)' = InHand(d) /\ owed'[d] = owed[d]
      BY <1>1, <1>2, <2>2 DEF TypeOK, InHand
    <3> QED
      BY <3>1 DEF Places
  <2>3. CASE d = Of[h]
    <3>1. /\ InHand(d)' = InHand(d) \ {h} /\ h \in InHand(d)
          /\ owed'[d] = owed[d] \ {held[h].id}
      BY <1>1, <1>2, <2>3 DEF TypeOK, InHand, Handling
    <3>2. \A x \in queue[d] : x.id # held[h].id
      BY <3>1 DEF Places
    <3>3. held[h].id \notin IdsOf(queue[d])
      BY <3>2 DEF IdsOf
    <3>4. held[h].id \notin {held[e].id : e \in InHand(d)'}
      BY <3>1 DEF Places
    <3> QED
      BY <3>1, <3>3, <3>4 DEF Places
  <2> QED
    BY <2>2, <2>3
<1>6. \A d \in Daemons : owed'[d] \subseteq owed[d] /\ owed'[d] \cap cancelled[d] \subseteq cancelled'[d]
  BY <1>1 DEF TypeOK
<1>7. Copies' /\ Used' /\ Marked'
  BY <1>1, <1>6 DEF Copies, Unique, Used, IdsOf, Marked
<1>8. New'
  <2>1. \A c \in Callers : pc'[c] = pc[c]
    BY <1>2 DEF TypeOK
  <2> QED
    BY <1>1, <1>6, <2>1 DEF New, Put, IdsOf
<1> QED
  BY <1>3, <1>4, <1>5, <1>7, <1>8

(* An upload goes from a hand back into the queue.                         *)
LEMMA RequeueIInv ==
  ASSUME IInv, NEW h \in Handlers, Requeue(h)
  PROVE IInv'
<1> USE ThreadFacts DEF IInv, lifeVars, ghostVars
<1>1. PICK again \in Item :
        /\ again.id = held[h].id
        /\ queue' = [queue EXCEPT ![Of[h]] = @ \cup {again}]
  <2>1. held[h] \in Item
    BY DEF Ready, Requeue, At, Handling
  <2>2. held[h].tries + 1 \in 0..MaxRetry
    BY <2>1, UploadsAssumption DEF Requeue, Item
  <2> DEFINE again == [held[h] EXCEPT !.tries = IF how[h] = "uncounted" THEN @ ELSE @ + 1]
  <2>3. again \in Item /\ again.id = held[h].id
    BY <2>1, <2>2 DEF Item
  <2> QED
    BY <2>3 DEF Requeue
<1>2. /\ pc[h] = "retry" /\ pc' = [pc EXCEPT ![h] = "snapshotRetry"]
      /\ UNCHANGED <<disk, cancelled, call, held, snap, link, asks, owed, acked>>
  BY DEF Requeue, At, Goto
<1>3. TypeOK'
  BY <1>1, <1>2 DEF TypeOK, Steps, Saving
<1>4. Ready'
  BY <1>2 DEF Ready, TypeOK, Handling, Asking
<1>5. Places'
  <2>1. SUFFICES ASSUME NEW d \in Daemons
        PROVE /\ Unique(queue'[d])
              /\ \A e, g \in InHand(d)' : held[e].id = held[g].id => e = g
              /\ \A x \in queue'[d], e \in InHand(d)' : x.id # held[e].id
              /\ owed[d] = IdsOf(queue'[d]) \cup {held[e].id : e \in InHand(d)'}
    BY <1>2 DEF Places, Unique, IdsOf
  <2>2. CASE d # Of[h]
    <3>1. queue'[d] = queue[d] /\ InHand(d)' = InHand(d)
      BY <1>1, <1>2, <2>2 DEF TypeOK, InHand
    <3> QED
      BY <3>1 DEF Places
  <2>3. CASE d = Of[h]
    <3>1. /\ queue'[d] = queue[d] \cup {again}
          /\ InHand(d) = InHand(d)' \cup {h} /\ h \notin InHand(d)'
      BY <1>1, <1>2, <2>3 DEF TypeOK, InHand
    <3>2. /\ \A x \in queue[d] : x.id # again.id
          /\ \A e \in InHand(d)' : held[e].id # again.id
      BY <1>1, <3>1 DEF Places
    <3>3. IdsOf(queue'[d]) = IdsOf(queue[d]) \cup {held[h].id}
      BY <1>1, <3>1 DEF IdsOf
    <3>4. owed[d] = IdsOf(queue'[d]) \cup {held[e].id : e \in InHand(d)'}
      <4>1. {held[e].id : e \in InHand(d)} = {held[e].id : e \in InHand(d)'} \cup {held[h].id}
        BY <3>1
      <4> QED
        BY <3>3, <4>1 DEF Places
    <3> QED
      BY <3>1, <3>2, <3>4 DEF Places, Unique
  <2> QED
    BY <2>2, <2>3
<1>6. Copies' /\ Used' /\ New' /\ Marked'
  BY <1>2, QuietIds DEF TypeOK
<1> QED
  BY <1>3, <1>4, <1>5, <1>6

(* A thread lists the queue, or writes what it has listed.                 *)
LEMMA SnapshotIInv ==
  ASSUME IInv, NEW t \in Threads, Snapshot(t)
  PROVE IInv'
<1> USE ThreadFacts DEF IInv, sharedVars, lifeVars, ghostVars
<1>1. PICK step \in {"save", "saveRetry"} :
        /\ pc[t] \in Saving /\ pc' = [pc EXCEPT ![t] = step]
        /\ snap' = [snap EXCEPT ![t] = Live(Of[t], queue[Of[t]])]
        /\ UNCHANGED <<queue, disk, cancelled, call, held, link, asks, owed, acked>>
  BY DEF Snapshot, Goto, Saving
<1>2. snap'[t] \subseteq queue[Of[t]] /\ \A s \in Threads : s # t => snap'[s] = snap[s]
  BY <1>1 DEF TypeOK, Live
<1>3. TypeOK'
  <2>1. queue[Of[t]] \subseteq Item
    BY DEF TypeOK
  <2>2. snap' \in [Threads -> SUBSET Item]
    BY <1>1, <1>2, <2>1 DEF TypeOK
  <2> QED
    BY <1>1, <2>2 DEF TypeOK, Steps, Saving
<1>4. Ready'
  BY <1>1 DEF Ready, TypeOK, Saving, Handling, Asking
<1>5. Places'
  BY <1>1, QuietPlaces DEF TypeOK, Saving, Handling
<1>6. IdsOf(snap'[t]) \subseteq owed[Of[t]]
  BY <1>2 DEF Places, IdsOf
<1>7. Copies' /\ Used' /\ Marked'
  <2>1. Unique(snap'[t])
    BY <1>2 DEF Places, Unique
  <2>2. Copies'
    BY <1>1, <1>2, <2>1 DEF Copies, Unique
  <2> QED
    BY <1>1, <1>2, <1>6, <2>2 DEF Used, Marked
<1>8. New'
  <2>1. \A i : Put(i)' => Put(i)
    BY <1>1, <1>2, <1>6 DEF Put, TypeOK, Saving
  <2>2. \A c \in Callers : pc'[c] \in Asking => pc[c] \in Asking
    BY <1>1 DEF TypeOK, Asking
  <2> QED
    BY <1>1, <2>1, <2>2 DEF New
<1> QED
  BY <1>3, <1>4, <1>5, <1>7, <1>8

(* What was listed is written, old as it may be by now.                    *)
LEMMA SaveIInv ==
  ASSUME IInv, NEW t \in Threads, Save(t)
  PROVE IInv'
<1> USE ThreadFacts DEF IInv, lifeVars, ghostVars
<1>1. PICK step \in {"rest", "top", "idle"} :
        /\ pc[t] \in Saving /\ pc' = [pc EXCEPT ![t] = step]
        /\ disk' = snap[t] /\ snap' = [snap EXCEPT ![t] = {}]
        /\ call' = [c \in Callers |-> IF c = t THEN NoCall ELSE call[c]]
        /\ UNCHANGED <<queue, cancelled, held, link, asks, owed, acked>>
  BY DEF Save, Goto, Saving
<1>2. snap'[t] = {} /\ \A s \in Threads : s # t => snap'[s] = snap[s]
  BY <1>1 DEF TypeOK
<1>3. TypeOK'
  BY <1>1 DEF TypeOK, Steps, Elsewhere, NoCall
<1>4. Ready'
  BY <1>1 DEF Ready, TypeOK, Saving, Handling, Asking
<1>5. Places'
  BY <1>1, QuietPlaces DEF TypeOK, Saving, Handling
<1>6. Copies' /\ Used' /\ Marked'
  BY <1>1, <1>2 DEF Copies, Unique, Used, IdsOf, Marked
<1>7. New'
  <2>1. \A c \in Callers : pc'[c] \in Asking \cup {"mark"} =>
          pc[c] = pc'[c] /\ call'[c] = call[c]
    BY <1>1 DEF TypeOK, Asking
  <2>2. \A i : Put(i)' => Put(i)
    BY <1>1, <1>2, <2>1 DEF Put, IdsOf
  <2> QED
    BY <2>1, <2>2 DEF New
<1> QED
  BY <1>3, <1>4, <1>5, <1>6, <1>7

(* uploadFilesToUrls: a new id is asked for, and looked for in the lists.  *)
LEMMA AskIInv ==
  ASSUME IInv, NEW c \in Callers,
         (\E u \in Urls : AskUpload(c, u)) \/ ListQueue(c) \/ ListCurrent(c)
  PROVE IInv'
<1> USE ThreadFacts, UploadsAssumption DEF IInv, sharedVars, lifeVars, ghostVars
<1>1. UNCHANGED <<queue, disk, cancelled, held, snap, link, owed, acked>>
  BY DEF AskUpload, ListQueue, ListCurrent
<1>2. PICK step \in {"list", "current", "snapshot", "put"} :
        pc[c] \in {"idle", "list", "current"} /\ pc' = [pc EXCEPT ![c] = step]
  BY DEF AskUpload, ListQueue, ListCurrent, At, Goto
<1>3. /\ asks' \in {asks, asks + 1} /\ asks' \in 0..MaxAsks
      /\ call'[c] \in [url : Urls \cup {NoItem}, id : Ids \cup {0}, found : BOOLEAN]
      /\ call' = [call EXCEPT ![c] = call'[c]]
      /\ call'[c].url \in Urls /\ call'[c].id \in 1..asks'
      /\ \/ asks' = asks /\ call'[c].id = call[c].id /\ pc[c] \in Asking
         \/ asks' = asks + 1 /\ call'[c].id = asks' /\ link[Of[c]] = "up"
  <2>1. CASE \E u \in Urls : AskUpload(c, u)
    BY <2>1 DEF AskUpload, TypeOK, Ids
  <2>2. CASE ListQueue(c)
    <3>1. /\ pc[c] \in Asking /\ call[c].url \in Urls /\ call[c].id \in 1..asks
          /\ asks' = asks /\ asks \in 0..MaxAsks
      BY <2>2 DEF ListQueue, At, Asking, Ready, TypeOK
    <3>2. PICK found \in BOOLEAN : call' = [call EXCEPT ![c].found = found]
      BY <2>2 DEF ListQueue, TypeOK
    <3> QED
      BY <3>1, <3>2 DEF TypeOK
  <2>3. CASE ListCurrent(c)
    <3>1. /\ pc[c] \in Asking /\ call[c].url \in Urls /\ call[c].id \in 1..asks
          /\ asks' = asks /\ asks \in 0..MaxAsks /\ call' = call
      BY <2>3 DEF ListCurrent, At, Asking, Ready, TypeOK
    <3> QED
      BY <3>1 DEF TypeOK
  <2> QED
    BY <2>1, <2>2, <2>3
<1>4. TypeOK'
  BY <1>1, <1>2, <1>3 DEF TypeOK, Steps, Saving, Asking
<1>5. Ready'
  BY <1>1, <1>2, <1>3 DEF Ready, TypeOK, Handling, Asking
<1>6. Places'
  BY <1>1, <1>2, QuietPlaces DEF TypeOK, Handling
<1>7. Copies' /\ Used' /\ Marked'
  <2>1. 1..asks \subseteq 1..asks'
    BY <1>3 DEF TypeOK
  <2> QED
    BY <1>1, <2>1 DEF Copies, Unique, Used, IdsOf, Marked
<1>8. New'
  <2>1. \A i : Put(i)' => Put(i)
    BY <1>1, <1>2, <1>3 DEF Put, IdsOf, TypeOK
  <2>2. \A i : Put(i) => i \in 1..asks
    BY DEF Put, Used, Ready
  <2>3. \A b \in Callers : b # c => pc'[b] = pc[b] /\ call'[b] = call[b]
    BY <1>2, <1>3 DEF TypeOK
  <2>4. ~Put(call'[c].id) /\ \A b \in Callers : b # c /\ pc[b] \in Asking => call[b].id # call'[c].id
    BY <1>3, <2>2 DEF New, Ready, TypeOK
  <2> QED
    BY <2>1, <2>3, <2>4 DEF New
<1> QED
  BY <1>4, <1>5, <1>6, <1>7, <1>8

(* What was not found is put on the queue.                                 *)
LEMMA PutIInv ==
  ASSUME IInv, NEW c \in Callers, PutItem(c)
  PROVE IInv'
<1> USE ThreadFacts, UploadsAssumption DEF IInv, lifeVars
<1> DEFINE item == [id |-> call[c].id, url |-> call[c].url, tries |-> 0]
<1>1. /\ pc[c] = "put" /\ pc' = [pc EXCEPT ![c] = "snapshot"]
      /\ queue' = [queue EXCEPT ![Of[c]] = @ \cup {item}]
      /\ owed' = [owed EXCEPT ![Of[c]] = @ \cup {call[c].id}]
      /\ UNCHANGED <<disk, cancelled, held, call, snap, link, asks, acked>>
  BY DEF PutItem, At, Goto
<1>2. call[c].url \in Urls /\ call[c].id \in 1..asks /\ ~Put(call[c].id)
  BY <1>1 DEF Ready, New, Asking
<1>3. item \in Item /\ item.id = call[c].id /\ item.id \in Ids
  BY <1>2 DEF Item, Ids, TypeOK
<1>4. TypeOK'
  <2> HIDE DEF item
  <2> QED
    BY <1>1, <1>3 DEF TypeOK, Steps, Saving
<1>5. Ready'
  BY <1>1 DEF Ready, TypeOK, Handling, Asking
<1>6. Places'
  <2>1. SUFFICES ASSUME NEW d \in Daemons
        PROVE /\ Unique(queue'[d])
              /\ \A e, g \in InHand(d)' : held[e].id = held[g].id => e = g
              /\ \A x \in queue'[d], e \in InHand(d)' : x.id # held[e].id
              /\ owed'[d] = IdsOf(queue'[d]) \cup {held[e].id : e \in InHand(d)'}
    BY <1>1 DEF Places, Unique, IdsOf
  <2>2. InHand(d)' = InHand(d)
    BY <1>1 DEF TypeOK, InHand
  <2>3. CASE d # Of[c]
    BY <1>1, <2>2, <2>3 DEF Places, TypeOK
  <2>4. CASE d = Of[c]
    <3>1. queue'[d] = queue[d] \cup {item} /\ owed'[d] = owed[d] \cup {item.id}
      BY <1>1, <2>4 DEF TypeOK
    <3>2. item.id \notin owed[d]
      BY <1>2 DEF Put
    <3>3. /\ \A x \in queue[d] : x.id # item.id
          /\ \A e \in InHand(d) : held[e].id # item.id
      BY <3>2 DEF Places, IdsOf
    <3>4. IdsOf(queue'[d]) = IdsOf(queue[d]) \cup {item.id}
      BY <3>1 DEF IdsOf
    <3>5. Unique(queue'[d])
      <4> HIDE DEF item
      <4> QED
        BY <3>1, <3>3 DEF Places, Unique
    <3>6. /\ \A e, g \in InHand(d)' : held[e].id = held[g].id => e = g
          /\ \A x \in queue'[d], e \in InHand(d)' : x.id # held[e].id
      <4> HIDE DEF item
      <4> QED
        BY <2>2, <3>1, <3>3 DEF Places
    <3>7. owed[d] = IdsOf(queue[d]) \cup {held[e].id : e \in InHand(d)}
      BY DEF Places
    <3>8. owed'[d] = IdsOf(queue'[d]) \cup {held[e].id : e \in InHand(d)'}
      <4> HIDE DEF item
      <4> QED
        BY <2>2, <3>1, <3>4, <3>7
    <3> HIDE DEF item
    <3> QED
      BY <3>5, <3>6, <3>8
  <2> QED
    BY <2>3, <2>4
<1>7. Copies' /\ Used' /\ Marked'
  <2>1. \A d \in Daemons : owed'[d] \subseteq owed[d] \cup {call[c].id} /\ call[c].id \notin acked[d]
    BY <1>1, <1>2 DEF TypeOK, Put
  <2> QED
    BY <1>1, <1>2, <2>1 DEF Copies, Unique, Used, IdsOf, Marked
<1>8. New'
  <2>1. \A i : Put(i)' => Put(i) \/ i = call[c].id
    BY <1>1 DEF Put, IdsOf, TypeOK
  <2>2. \A b \in Callers : pc'[b] \in Asking => b # c /\ pc[b] \in Asking
    BY <1>1 DEF TypeOK, Asking
  <2>3. \A b \in Callers : pc[b] \in Asking /\ call[b].id = call[c].id => b = c
    BY <1>1 DEF New, Asking
  <2> QED
    BY <1>1, <2>1, <2>2, <2>3 DEF New
<1> QED
  BY <1>4, <1>5, <1>6, <1>7, <1>8

(* cancelUpload.                                                           *)
LEMMA CancelIInv ==
  ASSUME IInv, NEW c \in Callers, (\E i \in Ids : AskCancel(c, i)) \/ Mark(c)
  PROVE IInv'
<1> USE ThreadFacts DEF IInv, sharedVars, lifeVars, ghostVars
<1>1. CASE \E i \in Ids : AskCancel(c, i)
  <2>1. PICK i \in Ids :
          /\ pc[c] = "idle" /\ link[Of[c]] = "up" /\ i \in IdsOf(queue[Of[c]])
          /\ call' = [call EXCEPT ![c].id = i] /\ pc' = [pc EXCEPT ![c] = "mark"]
          /\ UNCHANGED <<queue, cancelled, disk, held, snap, link, asks, owed, acked>>
    BY <1>1 DEF AskCancel, At, Goto
  <2>2. i \in owed[Of[c]] /\ i \in 1..asks
    BY <2>1 DEF Places, Used
  <2>3. TypeOK'
    BY <2>1 DEF TypeOK, Steps, Elsewhere
  <2>4. Ready'
    BY <2>1, <2>2 DEF Ready, TypeOK, Handling, Asking
  <2>5. Places'
    BY <2>1, QuietPlaces DEF TypeOK, Handling
  <2>6. Copies' /\ Used' /\ Marked'
    BY <2>1 DEF Copies, Unique, Used, IdsOf, Marked
  <2>7. New'
    <3>1. /\ call'[c].id = i /\ pc'[c] \notin Asking
          /\ \A b \in Callers : b # c => pc'[b] = pc[b] /\ call'[b] = call[b]
      BY <2>1 DEF TypeOK, Asking
    <3>2. \A j : Put(j)' => Put(j)
      BY <2>1, <2>2, <3>1 DEF Put, IdsOf
    <3> QED
      BY <3>1, <3>2 DEF New
  <2> QED
    BY <2>3, <2>4, <2>5, <2>6, <2>7
<1>2. CASE Mark(c)
  <2> DEFINE i == call[c].id
  <2>1. /\ pc[c] = "mark" /\ pc' = [pc EXCEPT ![c] = "idle"]
        /\ cancelled' = [cancelled EXCEPT ![Of[c]] = @ \cup {i}]
        /\ acked' = [acked EXCEPT ![Of[c]] = @ \cup {i}]
        /\ call' = [call EXCEPT ![c] = NoCall]
        /\ UNCHANGED <<queue, disk, held, snap, link, asks, owed>>
    BY <1>2 DEF Mark, At, Goto
  <2>2. i \in 1..asks /\ i \in Ids
    BY <2>1 DEF Ready, TypeOK, Ids
  <2>3. TypeOK'
    BY <2>1, <2>2 DEF TypeOK, Steps, Elsewhere, NoCall
  <2>4. Ready'
    BY <2>1 DEF Ready, TypeOK, Handling, Asking
  <2>5. Places'
    BY <2>1, QuietPlaces DEF TypeOK, Handling
  <2>6. \A d \in Daemons :
          \/ acked'[d] = acked[d] /\ cancelled'[d] = cancelled[d]
          \/ acked'[d] = acked[d] \cup {i} /\ cancelled'[d] = cancelled[d] \cup {i}
    BY <2>1 DEF TypeOK
  <2>7. Copies' /\ Used' /\ Marked'
    BY <2>1, <2>2, <2>6 DEF Copies, Unique, Used, IdsOf, Marked
  <2>8. New'
    <3>1. /\ pc'[c] = "idle"
          /\ \A b \in Callers : b # c => pc'[b] = pc[b] /\ call'[b] = call[b]
      BY <2>1 DEF TypeOK
    <3>2. \A j : Put(j)' => Put(j)
      BY <2>1, <2>6, <3>1 DEF Put, IdsOf
    <3> QED
      BY <3>1, <3>2 DEF New, Asking
  <2> QED
    BY <2>3, <2>4, <2>5, <2>7, <2>8
<1> QED
  BY <1>1, <1>2

(* The connection comes and goes: handlers start with empty hands.         *)
LEMMA LinkIInv ==
  ASSUME IInv, NEW d \in Daemons, Drop(d) \/ Join(d) \/ Connect(d)
  PROVE IInv'
<1> USE ThreadFacts DEF IInv, sharedVars, threadVars, lifeVars, ghostVars
<1>1. UNCHANGED <<queue, disk, cancelled, held, call, snap, asks, owed, acked>>
  BY DEF Drop, Join, Connect
<1>2. /\ pc' \in [Threads -> Steps] /\ link' \in [Daemons -> {"up", "ending", "down", "dead"}]
      /\ \A t \in Threads :
           \/ pc'[t] = pc[t]
           \/ t \in Handlers /\ pc[t] \in {"off", "idle"} /\ pc'[t] = "top"
      /\ \A t \in Threads :
           link'[Of[t]] \in {"down", "dead"} => pc'[t] \in {"off", "idle"}
  <2>1. CASE Drop(d)
    BY <2>1 DEF Drop, Ready, TypeOK
  <2>2. CASE Join(d)
    BY <2>2 DEF Join, Ready, TypeOK
  <2>3. CASE Connect(d)
    BY <2>3 DEF Connect, Ready, TypeOK, Steps, Elsewhere
  <2> QED
    BY <2>1, <2>2, <2>3
<1>3. TypeOK'
  BY <1>1, <1>2 DEF TypeOK
<1>4. Ready'
  BY <1>1, <1>2 DEF Ready, Handling
<1>5. Places'
  BY <1>1, <1>2, QuietPlaces DEF Handling
<1>6. Copies' /\ Used' /\ New' /\ Marked'
  BY <1>1, <1>2, QuietIds
<1> QED
  BY <1>3, <1>4, <1>5, <1>6

(* A process dies with what it has, and starts from what was written.      *)
LEMMA CrashIInv ==
  ASSUME IInv, NEW d \in Daemons, Crash(d)
  PROVE IInv'
<1> USE ThreadFacts DEF IInv, sharedVars, threadVars, lifeVars, ghostVars
<1>1. /\ queue' = [queue EXCEPT ![d] = {}] /\ cancelled' = [cancelled EXCEPT ![d] = {}]
      /\ owed' = [owed EXCEPT ![d] = {}] /\ link' = [link EXCEPT ![d] = "dead"]
      /\ held' = [h \in Handlers |-> IF Of[h] = d THEN NoItem ELSE held[h]]
      /\ call' = [c \in Callers |-> IF Of[c] = d THEN NoCall ELSE call[c]]
      /\ snap' = [t \in Threads |-> IF Of[t] = d THEN {} ELSE snap[t]]
      /\ UNCHANGED <<disk, asks, acked>>
  BY DEF Crash
<1>2. /\ pc' = [t \in Threads |-> IF Of[t] # d THEN pc[t]
                                 ELSE IF t \in Handlers THEN "off" ELSE "idle"]
  BY DEF Crash
<1>3. TypeOK'
  BY <1>1, <1>2 DEF TypeOK, Steps, Elsewhere, NoCall
<1>4. Ready'
  BY <1>1, <1>2 DEF Ready, TypeOK, Handling, Asking
<1>5. Places'
  <2>1. SUFFICES ASSUME NEW e \in Daemons
        PROVE /\ Unique(queue'[e])
              /\ \A h, g \in InHand(e)' : held'[h].id = held'[g].id => h = g
              /\ \A x \in queue'[e], h \in InHand(e)' : x.id # held'[h].id
              /\ owed'[e] = IdsOf(queue'[e]) \cup {held'[h].id : h \in InHand(e)'}
    BY DEF Places, Unique, IdsOf
  <2>2. CASE e # d
    <3>1. /\ queue'[e] = queue[e] /\ owed'[e] = owed[e] /\ InHand(e)' = InHand(e)
          /\ \A h \in InHand(e) : held'[h] = held[h]
      BY <1>1, <1>2, <2>2 DEF TypeOK, InHand
    <3> QED
      BY <3>1 DEF Places
  <2>3. CASE e = d
    <3>1. queue'[e] = {} /\ owed'[e] = {} /\ InHand(e)' = {}
      BY <1>1, <1>2, <2>3 DEF TypeOK, InHand
    <3> QED
      BY <3>1 DEF Unique, IdsOf
  <2> QED
    BY <2>2, <2>3
<1>6. /\ \A e \in Daemons : owed'[e] \subseteq owed[e] /\ owed'[e] \cap cancelled[e] \subseteq cancelled'[e]
      /\ \A t \in Threads : snap'[t] \subseteq snap[t]
  BY <1>1 DEF TypeOK
<1>7. Copies' /\ Used' /\ Marked'
  BY <1>1, <1>6 DEF Copies, Unique, Used, IdsOf, Marked
<1>8. New'
  <2>1. \A c \in Callers : pc'[c] \in Asking \cup {"mark"} => pc'[c] = pc[c] /\ call'[c] = call[c]
    BY <1>1, <1>2 DEF Asking
  <2>2. \A i : Put(i)' => Put(i)
    BY <1>1, <1>6, <2>1 DEF Put, IdsOf
  <2> QED
    BY <2>1, <2>2 DEF New
<1> QED
  BY <1>3, <1>4, <1>5, <1>7, <1>8

(* UploadQueueCache.initialize: nothing is in hand when the queue is read. *)
LEMMA RestartIInv ==
  ASSUME IInv, NEW d \in Daemons, Restart(d)
  PROVE IInv'
<1> USE ThreadFacts DEF IInv, sharedVars, threadVars, lifeVars, ghostVars
<1>1. /\ link[d] = "dead" /\ link' = [link EXCEPT ![d] = "down"]
      /\ queue' = [queue EXCEPT ![d] = disk] /\ owed' = [owed EXCEPT ![d] = IdsOf(disk)]
      /\ acked' = [acked EXCEPT ![d] = {}]
      /\ UNCHANGED <<cancelled, disk, held, call, snap, pc, asks>>
  BY DEF Restart
<1>2. IdsOf(disk) \subseteq Ids
  BY DEF TypeOK, IdsOf, Item
<1>3. TypeOK'
  BY <1>1, <1>2 DEF TypeOK
<1>4. Ready'
  BY <1>1 DEF Ready, TypeOK
<1>5. Places'
  <2>1. SUFFICES ASSUME NEW e \in Daemons
        PROVE /\ Unique(queue'[e])
              /\ \A h, g \in InHand(e)' : held'[h].id = held'[g].id => h = g
              /\ \A x \in queue'[e], h \in InHand(e)' : x.id # held'[h].id
              /\ owed'[e] = IdsOf(queue'[e]) \cup {held'[h].id : h \in InHand(e)'}
    BY DEF Places, Unique, IdsOf
  <2>2. InHand(e)' = InHand(e)
    BY <1>1 DEF InHand
  <2>3. CASE e # d
    <3>1. queue'[e] = queue[e] /\ owed'[e] = owed[e] /\ held' = held
      BY <1>1, <2>3 DEF TypeOK
    <3> QED
      BY <2>2, <3>1 DEF Places
  <2>4. CASE e = d
    <3>1. queue'[e] = disk /\ owed'[e] = IdsOf(disk)
      BY <1>1, <2>4 DEF TypeOK
    <3>2. InHand(e) = {}
      BY <1>1, <2>4 DEF InHand, Ready
    <3> QED
      BY <2>2, <3>1, <3>2 DEF Copies, Unique
  <2> QED
    BY <2>3, <2>4
<1>6. \A e \in Daemons :
        \/ acked'[e] = acked[e] /\ owed'[e] = owed[e]
        \/ acked'[e] = {} /\ owed'[e] = IdsOf(disk)
  BY <1>1 DEF TypeOK
<1>7. Copies' /\ Used' /\ Marked'
  BY <1>1, <1>6 DEF Copies, Unique, Used, IdsOf, Marked
<1>8. New'
  <2>1. \A i : Put(i)' => Put(i)
    BY <1>1, <1>6 DEF Put, IdsOf
  <2> QED
    BY <1>1, <2>1 DEF New
<1> QED
  BY <1>3, <1>4, <1>5, <1>7, <1>8

(* Nothing happens.                                                        *)
LEMMA StutterIInv ==
  ASSUME IInv, UNCHANGED vars
  PROVE IInv'
<1> USE DEF IInv, vars, sharedVars, threadVars, lifeVars, ghostVars
<1>1. TypeOK' /\ Ready'
  BY DEF TypeOK, Ready
<1>2. Places'
  BY QuietPlaces
<1>3. Copies' /\ Used' /\ New' /\ Marked'
  BY QuietIds
<1> QED
  BY <1>1, <1>2, <1>3

-----------------------------------------------------------------------------
(* Results.                                                                *)

(* Every step keeps the invariant.                                         *)
LEMMA NextIInv ==
  ASSUME IInv, [Next]_vars
  PROVE IInv'
<1>1. ASSUME NEW h \in Handlers, Handler(h)
      PROVE IInv'
  <2>1. h \in Threads
    BY ThreadFacts
  <2> QED
    BY <1>1, <2>1, WorkIInv, GetIInv, SettleIInv, RequeueIInv, SnapshotIInv, SaveIInv DEF Handler
<1>2. ASSUME NEW c \in Callers, Caller(c)
      PROVE IInv'
  <2>1. c \in Threads
    BY ThreadFacts
  <2> QED
    BY <1>2, <2>1, AskIInv, PutIInv, CancelIInv, SnapshotIInv, SaveIInv DEF Caller, Works
<1>3. ASSUME NEW d \in Daemons, Life(d)
      PROVE IInv'
  BY <1>3, LinkIInv, CrashIInv, RestartIInv DEF Life
<1>4. CASE UNCHANGED vars
  BY <1>4, StutterIInv
<1> QED
  BY <1>1, <1>2, <1>3, <1>4 DEF Next

(* The places of uploads are kept, whatever the threads, connections and   *)
(* restarts do.                                                            *)
THEOREM Invariance == Spec => []IInv
<1>1. Init => IInv
  BY InitIInv
<1>2. IInv /\ [Next]_vars => IInv'
  BY NextIInv
<1> QED
  BY <1>1, <1>2, PTL DEF Spec

(* Ids that are in one place are counted once.                             *)
LEMMA CountedOnce ==
  ASSUME IInv
  PROVE OnePlace
<1> USE DEF IInv
<1> SUFFICES ASSUME NEW d \in Daemons, NEW i \in Ids
    PROVE Cardinality({item \in queue[d] : item.id = i})
            + Cardinality({h \in InHand(d) : held[h].id = i})
          = IF i \in owed[d] THEN 1 ELSE 0
  BY DEF OnePlace
<1> DEFINE Q == {item \in queue[d] : item.id = i}
           H == {h \in InHand(d) : held[h].id = i}
           Once == Cardinality(Q) + Cardinality(H) = IF i \in owed[d] THEN 1 ELSE 0
<1>1. i \in owed[d] <=> i \in IdsOf(queue[d]) \/ \E h \in InHand(d) : held[h].id = i
  BY DEF Places
<1>2. Cardinality({}) = 0 /\ \A x : Cardinality({x}) = 1
  BY FS_EmptySet, FS_Singleton
<1>3. ASSUME \E item \in queue[d] : item.id = i
      PROVE Once
  <2>1. PICK item \in queue[d] : item.id = i
    BY <1>3
  <2>2. Q = {item}
    BY <2>1 DEF Places, Unique
  <2>3. H = {}
    BY <2>1 DEF Places
  <2>4. i \in owed[d]
    BY <1>1, <2>1 DEF IdsOf
  <2>5. Cardinality(Q) = 1 /\ Cardinality(H) = 0
    BY <1>2, <2>2, <2>3
  <2> HIDE DEF Q, H
  <2> QED
    BY <2>4, <2>5
<1>4. ASSUME (\A item \in queue[d] : item.id # i) /\ \E h \in InHand(d) : held[h].id = i
      PROVE Once
  <2>1. PICK h \in InHand(d) : held[h].id = i
    BY <1>4
  <2>2. Q = {}
    BY <1>4
  <2>3. H = {h}
    BY <2>1 DEF Places
  <2>4. i \in owed[d]
    BY <1>1, <2>1
  <2>5. Cardinality(Q) = 0 /\ Cardinality(H) = 1
    BY <1>2, <2>2, <2>3
  <2> HIDE DEF Q, H
  <2> QED
    BY <2>4, <2>5
<1>5. ASSUME (\A item \in queue[d] : item.id # i) /\ \A h \in InHand(d) : held[h].id # i
      PROVE Once
  <2>1. Q = {} /\ H = {}
    BY <1>5
  <2>2. i \notin owed[d]
    BY <1>1, <1>5 DEF IdsOf
  <2>3. Cardinality(Q) = 0 /\ Cardinality(H) = 0
    BY <1>2, <2>1
  <2> HIDE DEF Q, H
  <2> QED
    BY <2>2, <2>3
<1> QED
  BY <1>3, <1>4, <1>5

(* No upload vanishes and none is doubled: for any number of processes and *)
(* threads, what a process accepted or restored and has not settled is     *)
(* once in its queue or in one handler's hands (upload_handler).           *)
THEOREM NoneLostNoneDoubled == Spec => []OnePlace
BY Invariance, CountedOnce, PTL

(* A step that begins no upload after its report, lets nobody pass the     *)
(* check and takes back no report.                                         *)
LEMMA QuietBegun ==
  ASSUME TypeOK, BegunOnce, late' = late,
         \A d \in Daemons : acked[d] \subseteq acked'[d],
         \A h \in Handlers : pc'[h] = "passed" => pc[h] = "passed" /\ held'[h] = held[h]
  PROVE BegunOnce'
BY DEF BegunOnce

(* A handler passes the check, or begins to send, what is not marked; no   *)
(* other handler has it in hand.                                           *)
LEMMA HandlerBegun ==
  ASSUME IInv, BegunOnce, NEW h \in Handlers, Handler(h)
  PROVE BegunOnce'
<1> USE ThreadFacts DEF IInv, TypeOK
<1>1. CASE Pass(h)
  <2>1. /\ pc[h] = "check" /\ pc' = [pc EXCEPT ![h] = "passed"]
        /\ held[h].id \notin cancelled[Of[h]]
        /\ UNCHANGED <<held, late, acked>>
    BY <1>1 DEF Pass, At, Goto, ghostVars
  <2>2. held[h].id \in owed[Of[h]]
    BY <2>1 DEF Places, InHand
  <2>3. held[h].id \notin late[Of[h]]
    BY <2>1, <2>2 DEF Marked, BegunOnce
  <2> QED
    BY <2>1, <2>3 DEF BegunOnce
<1>2. CASE Attempt(h)
  <2>1. /\ pc[h] = "passed" /\ pc' = [pc EXCEPT ![h] = "send"]
        /\ late' = [late EXCEPT ![Of[h]] = @ \cup ({held[h].id} \cap acked[Of[h]])]
        /\ UNCHANGED <<held, acked>>
    BY <1>2 DEF Attempt, At, Goto
  <2>2. \A g \in Handlers : g # h /\ Of[g] = Of[h] /\ pc[g] = "passed" => held[g].id # held[h].id
    BY <2>1 DEF Places, InHand
  <2>3. /\ late' \in [Daemons -> SUBSET Ids]
        /\ \A d \in Daemons : late'[d] \subseteq acked'[d]
    BY <2>1 DEF BegunOnce
  <2>4. ASSUME NEW g \in Handlers, pc'[g] = "passed"
        PROVE held'[g].id \notin late'[Of[g]]
    <3>1. g # h /\ pc[g] = "passed" /\ held[g].id \notin late[Of[g]]
      BY <2>1, <2>4 DEF BegunOnce
    <3> QED
      BY <2>1, <2>2, <3>1 DEF BegunOnce
  <2> QED
    BY <2>3, <2>4 DEF BegunOnce
<1>3. CASE ~Pass(h) /\ ~Attempt(h)
  <2>1. late' = late /\ acked' = acked
    BY <1>3 DEF Handler, Top, Get, GetTimesOut, Assign, SkipCancelled, Expire, Metered, Sent,
       FailsToSend, Raises, GiveUp, Requeue, Rest, Snapshot, Save, ghostVars
  <2>2. PICK step \in Steps \ {"passed"} : pc' = [pc EXCEPT ![h] = step]
    BY <1>3 DEF Handler, Top, Get, GetTimesOut, Assign, SkipCancelled, Expire, Metered, Sent,
       FailsToSend, Raises, GiveUp, Requeue, Rest, Snapshot, Save, Goto, AfterRetry,
       Steps, Handling, Saving, Elsewhere
  <2>3. \A g \in Handlers : g # h => held'[g] = held[g]
    BY <1>3 DEF Handler, Top, Get, GetTimesOut, Assign, SkipCancelled, Expire, Metered, Sent,
       FailsToSend, Raises, GiveUp, Requeue, Rest, Snapshot, Save
  <2> QED
    BY <2>1, <2>2, <2>3, QuietBegun
<1> QED
  BY <1>1, <1>2, <1>3

(* A report is remembered until the process starts again, with nothing in  *)
(* hand.                                                                   *)
LEMMA NextBegun ==
  ASSUME IInv, BegunOnce, [Next]_vars
  PROVE BegunOnce'
<1> USE ThreadFacts DEF IInv
<1>1. ASSUME NEW c \in Callers, Caller(c)
      PROVE BegunOnce'
  <2>1. late' = late /\ held' = held
    BY <1>1 DEF Caller, Works, ListQueue, ListCurrent, PutItem, Mark, Snapshot, Save,
       AskUpload, AskCancel, ghostVars
  <2>2. \A d \in Daemons : acked[d] \subseteq acked'[d]
    BY <1>1 DEF Caller, Works, ListQueue, ListCurrent, PutItem, Mark, Snapshot, Save,
       AskUpload, AskCancel, ghostVars, TypeOK
  <2>3. \A h \in Handlers : pc'[h] = pc[h]
    BY <1>1 DEF Caller, Works, ListQueue, ListCurrent, PutItem, Mark, Snapshot, Save,
       AskUpload, AskCancel, Goto, TypeOK
  <2> QED
    BY <2>1, <2>2, <2>3, QuietBegun
<1>2. ASSUME NEW d \in Daemons, Drop(d) \/ Join(d) \/ Connect(d) \/ Crash(d)
      PROVE BegunOnce'
  <2>1. late' = late /\ acked' = acked
    BY <1>2 DEF Drop, Join, Connect, Crash, ghostVars
  <2>2. \A h \in Handlers : pc'[h] = "passed" => pc[h] = "passed" /\ held'[h] = held[h]
    BY <1>2 DEF Drop, Join, Connect, Crash, threadVars
  <2> QED
    BY <2>1, <2>2, QuietBegun
<1>3. ASSUME NEW d \in Daemons, Restart(d)
      PROVE BegunOnce'
  BY <1>3 DEF Restart, threadVars, BegunOnce, TypeOK
<1>4. CASE UNCHANGED vars
  BY <1>4, QuietBegun DEF vars, threadVars, ghostVars
<1> QED
  BY <1>1, <1>2, <1>3, <1>4, HandlerBegun DEF Next, Life

(* What was begun after its report is in no hand that may begin it again.  *)
THEOREM BegunInvariance == Spec => []BegunOnce
<1>1. Init => BegunOnce
  BY ThreadFacts, UploadsAssumption DEF Init, BegunOnce
<1>2. IInv /\ BegunOnce /\ [Next]_vars => BegunOnce'
  BY NextBegun
<1> QED
  BY <1>1, <1>2, Invariance, PTL DEF Spec

(* A handler passes the check and begins to send by steps of its own.      *)
LEMMA OnlyItsOwn ==
  ASSUME IInv, [Next]_vars, NEW h \in Handlers,
         \/ pc[h] = "check" /\ pc'[h] = "passed"
         \/ pc[h] = "passed" /\ pc'[h] = "send"
  PROVE Pass(h) \/ Attempt(h)
<1> USE ThreadFacts DEF IInv
<1>1. pc \in [Threads -> Steps]
  BY DEF TypeOK
<1>2. ASSUME NEW g \in Handlers, Handler(g)
      PROVE Pass(h) \/ Attempt(h)
  <2>1. CASE g # h
    <3>1. pc'[h] = pc[h]
      BY <1>1, <1>2, <2>1 DEF Handler, Top, Get, GetTimesOut, Assign, SkipCancelled, Pass, Expire, Metered,
           Attempt, Sent, FailsToSend, Raises, GiveUp, Requeue, Rest, Snapshot, Save, Goto
    <3> QED
      BY <3>1
  <2>2. CASE g = h
    BY <1>1, <1>2, <2>2 DEF Handler, Top, Get, GetTimesOut, Assign, SkipCancelled, Expire, Metered,
         Sent, FailsToSend, Raises, GiveUp, Requeue, Rest, Snapshot, Save, Goto, At
  <2> QED
    BY <2>1, <2>2
<1>3. ASSUME NEW c \in Callers, Caller(c)
      PROVE pc'[h] = pc[h]
  BY <1>1, <1>3 DEF Caller, Works, ListQueue, ListCurrent, PutItem, Mark, Snapshot, Save,
       AskUpload, AskCancel, Goto
<1>4. ASSUME NEW d \in Daemons, Life(d)
      PROVE pc'[h] \notin {"passed", "send"} \/ pc'[h] = pc[h]
  BY <1>4 DEF Life, Drop, Join, Connect, Crash, Restart, threadVars
<1>5. CASE UNCHANGED vars
  BY <1>5 DEF vars, threadVars
<1> QED
  BY <1>2, <1>3, <1>4, <1>5 DEF Next

(* Once its cancellation was reported an upload passes no check any more,  *)
(* in the life of the process, however often its connection was lost and   *)
(* made again and the upload tried before (cancelUpload); and one that had *)
(* passed before is begun once and not tried again.                        *)
THEOREM CancellationSticks == Spec => CancelSticks
<1>1. ASSUME IInv, BegunOnce, [Next]_vars
      PROVE [\A h \in Handlers :
              /\ At(h, "check") /\ pc'[h] = "passed" => held[h].id \notin acked[Of[h]]
              /\ At(h, "passed") /\ pc'[h] = "send" => held[h].id \notin late[Of[h]]]_vars
  <2>1. SUFFICES ASSUME NEW h \in Handlers
        PROVE /\ At(h, "check") /\ pc'[h] = "passed" => held[h].id \notin acked[Of[h]]
              /\ At(h, "passed") /\ pc'[h] = "send" => held[h].id \notin late[Of[h]]
    OBVIOUS
  <2>2. ASSUME pc[h] = "check", pc'[h] = "passed"
        PROVE held[h].id \notin acked[Of[h]]
    <3>1. Of[h] \in Daemons /\ h \in InHand(Of[h])
      BY <2>2, ThreadFacts DEF InHand
    <3>2. held[h].id \in owed[Of[h]]
      BY <1>1, <3>1 DEF IInv, Places
    <3>3. held[h].id \notin cancelled[Of[h]]
      BY <1>1, <2>2, OnlyItsOwn DEF Pass, Attempt, At
    <3> QED
      BY <1>1, <3>1, <3>2, <3>3 DEF IInv, Marked
  <2>3. ASSUME pc[h] = "passed"
        PROVE held[h].id \notin late[Of[h]]
    BY <1>1, <2>3 DEF BegunOnce
  <2> QED
    BY <2>2, <2>3 DEF At
<1> QED
  BY <1>1, Invariance, BegunInvariance, PTL DEF Spec, CancelSticks
=============================================================================
