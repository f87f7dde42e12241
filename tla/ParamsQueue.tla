---------------------------- MODULE ParamsQueue -----------------------------
(***************************************************************************)
(* Params::putNonBlocking, the default put of the python processes: the    *)
(* owner of a Params object queues the write and starts a worker if none   *)
(* runs; the worker writes until it finds the queue empty.  Each put of    *)
(* ParamsStore is one step here, and the writes are numbered.              *)
(***************************************************************************)
EXTENDS Naturals, Sequences

CONSTANTS
  Workers,        \* the threads std::async may have running
  MaxPuts         \* bound on the writes asked for

ASSUME QueueAssumption == MaxPuts \in Nat

VARIABLES
  queue,          \* the writes asked for and not yet taken
  puts,           \* how many were asked for
  owner,          \* "idle", "check" between push and start, "gone" at last
  future,         \* "none", "running" or "ready"
  worker,         \* worker[w]: "off", "pop", "put" or "leaving"
  item,           \* item[w]: the write w holds, 0 when none
  stored          \* the write the file of the key holds

vars == <<queue, puts, owner, future, worker, item, stored>>

Init ==
  /\ queue = <<>> /\ puts = 0 /\ owner = "idle" /\ future = "none"
  /\ worker = [w \in Workers |-> "off"] /\ item = [w \in Workers |-> 0]
  /\ stored = 0

Push ==
  /\ owner = "idle" /\ puts < MaxPuts
  /\ puts' = puts + 1
  /\ queue' = Append(queue, puts')
  /\ owner' = "check"
  /\ UNCHANGED <<future, worker, item, stored>>

(* A mutant, for the check of InOrder: a worker started for every write.   *)
NeedsWorkerMutant == TRUE

NeedsWorker == future \in {"none", "ready"}

Start ==
  /\ owner = "check"
  /\ owner' = "idle"
  /\ IF NeedsWorker
     THEN /\ future' = "running"
          /\ \E w \in Workers : /\ worker[w] = "off"
                                /\ worker' = [worker EXCEPT ![w] = "pop"]
     ELSE UNCHANGED <<future, worker>>
  /\ UNCHANGED <<queue, puts, item, stored>>

(* try_pop. *)
Pop(w) ==
  /\ worker[w] = "pop"
  /\ IF queue = <<>>
     THEN worker' = [worker EXCEPT ![w] = "leaving"] /\ UNCHANGED <<queue, item>>
     ELSE /\ item' = [item EXCEPT ![w] = Head(queue)]
          /\ queue' = Tail(queue)
          /\ worker' = [worker EXCEPT ![w] = "put"]
  /\ UNCHANGED <<puts, owner, future, stored>>

(* put, whose failure the loop does not look at.                           *)
Put(w) ==
  /\ worker[w] = "put"
  /\ stored' \in {stored, item[w]}
  /\ item' = [item EXCEPT ![w] = 0]
  /\ worker' = [worker EXCEPT ![w] = "pop"]
  /\ UNCHANGED <<queue, puts, owner, future>>

(* The thread has returned, which is what makes its future ready.          *)
Returns(w) ==
  /\ worker[w] = "leaving"
  /\ worker' = [worker EXCEPT ![w] = "off"]
  /\ future' = "ready"
  /\ UNCHANGED <<queue, puts, owner, item, stored>>

(* ~Params: wait for the worker. *)
Destroy ==
  /\ owner = "idle" /\ future # "running"
  /\ owner' = "gone"
  /\ UNCHANGED <<queue, puts, future, worker, item, stored>>

Next == Push \/ Start \/ Destroy \/ \E w \in Workers : Pop(w) \/ Put(w) \/ Returns(w)

Spec == Init /\ [][Next]_vars

-----------------------------------------------------------------------------
(* The writes of one object land in the order they were asked for, so an   *)
(* older value never overwrites a newer one: for that no two workers may   *)
(* ever run, however starting one races the end of the last.               *)
InOrder == [][stored <= stored']_stored
=============================================================================
