---------------------------- MODULE ParamsStore -----------------------------
(***************************************************************************)
(* The params store every process of the system shares: a directory with a *)
(* file per key.  A put writes a temporary file, syncs it, and under the   *)
(* lock renames it into place and syncs the directory; remove and clearAll *)
(* unlink under the same lock; readers take no lock.  Any step may fail,   *)
(* any process may be killed, and the power may go at any moment.          *)
(***************************************************************************)
EXTENDS Naturals

CONSTANTS
  Threads,        \* everything that calls put, remove or clearAll
  Keys,
  Values,
  None,           \* what reading an absent file gives
  Torn,           \* what is left of a file whose content was not synced
  NoThread        \* holds the lock when no thread does

ASSUME ParamsAssumption == None \notin Values /\ Torn \notin Values \cup {None}
                           /\ NoThread \notin Threads

VARIABLES
  dir,            \* dir[k]: the file of k, as readers see it
  may,            \* may[k]: the files a power loss may leave for k
  lock,           \* the thread that holds .lock
  pc,             \* pc[t]: the step of put or clearAll t is at
  keys,           \* keys[t]: the key it puts, or the keys it has still to clear
  tmp,            \* tmp[t]: its temporary file
  allowed         \* allowed[k], kept for the checks: the value a caller was
                  \* last told k has, and those put in its place since

vars == <<dir, may, lock, pc, keys, tmp, allowed>>

File == [val : Values \cup {None, Torn}, synced : BOOLEAN]
NoFile == [val |-> None, synced |-> TRUE]

Putting == {"write", "sync", "putLock"}
Inside == {"rename", "syncDir", "unlink", "syncClear"}
Steps == {"idle", "clearLock"} \cup Putting \cup Inside

TypeOK ==
  /\ dir \in [Keys -> File] /\ may \in [Keys -> SUBSET File]
  /\ lock \in Threads \cup {NoThread}
  /\ pc \in [Threads -> Steps]
  /\ keys \in [Threads -> SUBSET Keys]
  /\ tmp \in [Threads -> File]
  /\ allowed \in [Keys -> SUBSET (Values \cup {None, Torn})]

Init ==
  /\ dir = [k \in Keys |-> NoFile]
  /\ may = [k \in Keys |-> {NoFile}]
  /\ lock = NoThread
  /\ pc = [t \in Threads |-> "idle"]
  /\ keys = [t \in Threads |-> {}]
  /\ tmp = [t \in Threads |-> NoFile]
  /\ allowed = [k \in Keys |-> {None}]

-----------------------------------------------------------------------------
Goto(t, step) == pc' = [pc EXCEPT ![t] = step]

(* A power loss leaves the content of a synced file, anything of another.  *)
Survives(file) == IF file.synced THEN file.val ELSE Torn

(* Some files of K change: until the directory is synced a power loss may  *)
(* bring back what they were or what they become.                          *)
Change(K, file) ==
  /\ dir' = [k \in Keys |-> IF k \in K THEN file ELSE dir[k]]
  /\ may' = [k \in Keys |-> IF k \in K THEN may[k] \cup {file} ELSE may[k]]
  /\ allowed' = [k \in Keys |-> IF k \in K THEN allowed[k] \cup {file.val}
                                           ELSE allowed[k]]

(* The directory is synced, and the caller told that K now is this file.   *)
Report(K, file) ==
  /\ may' = [k \in Keys |-> {dir[k]}]
  /\ allowed' = [k \in Keys |-> IF k \in K THEN {file.val} ELSE allowed[k]]

(* The thread is through, and gives up the lock if it had it. *)
Leave(t) ==
  /\ lock' = IF lock = t THEN NoThread ELSE lock
  /\ Goto(t, "idle")
  /\ keys' = [keys EXCEPT ![t] = {}]
  /\ tmp' = [tmp EXCEPT ![t] = NoFile]

StartPut(t, k, v) ==
  /\ pc[t] = "idle"
  /\ Goto(t, "write")
  /\ keys' = [keys EXCEPT ![t] = {k}]
  /\ tmp' = [tmp EXCEPT ![t] = [val |-> v, synced |-> FALSE]]
  /\ UNCHANGED <<dir, may, lock, allowed>>

(* Mutant: the value is written into the file of the key itself.           *)
WriteMutant(t) ==
  /\ pc[t] = "write"
  /\ Change(keys[t], [val |-> Torn, synced |-> FALSE])
  /\ Goto(t, "sync")
  /\ UNCHANGED <<lock, keys, tmp>>

Write(t) ==
  /\ pc[t] = "write"
  /\ Goto(t, "sync")
  /\ UNCHANGED <<dir, may, lock, keys, tmp, allowed>>

Sync(t) ==
  /\ pc[t] = "sync"
  /\ Goto(t, "putLock")
  /\ tmp' = [tmp EXCEPT ![t].synced = TRUE]
  /\ UNCHANGED <<dir, may, lock, keys, allowed>>

(* A mutant, for the check of Durable: a lock that is not waited for.      *)
AcquireMutant(t) ==
  /\ pc[t] \in {"putLock", "clearLock"}
  /\ lock' = t
  /\ Goto(t, IF pc[t] = "putLock" THEN "rename" ELSE "unlink")
  /\ UNCHANGED <<dir, may, keys, tmp, allowed>>

(* flock(.lock), for a put and for a clear.                                *)
Acquire(t) ==
  /\ pc[t] \in {"putLock", "clearLock"} /\ lock = NoThread
  /\ lock' = t
  /\ Goto(t, IF pc[t] = "putLock" THEN "rename" ELSE "unlink")
  /\ UNCHANGED <<dir, may, keys, tmp, allowed>>

Rename(t) ==
  /\ pc[t] = "rename"
  /\ Change(keys[t], tmp[t])
  /\ Goto(t, "syncDir")
  /\ UNCHANGED <<lock, keys, tmp>>

SyncDir(t) ==
  /\ pc[t] = "syncDir"
  /\ Report(keys[t], tmp[t])
  /\ Leave(t)
  /\ UNCHANGED dir

(* A call of the system fails.  put returns an error with its file         *)
(* unlinked and the lock released; the value may be in place all the same, *)
(* when it is the directory that did not sync.  A clear keeps it quiet.    *)
Fail(t) ==
  /\ pc[t] \in Putting \cup {"rename", "syncDir", "syncClear"}
  /\ Leave(t)
  /\ UNCHANGED <<dir, may, allowed>>

(* remove(k) is StartClear(t, {k}); a flag of clearAll stands for its keys. *)
StartClear(t, K) ==
  /\ pc[t] = "idle"
  /\ Goto(t, "clearLock")
  /\ keys' = [keys EXCEPT ![t] = K]
  /\ UNCHANGED <<dir, may, lock, tmp, allowed>>

(* The loop over the directory, in no particular order.                    *)
Unlink(t, k) ==
  /\ pc[t] = "unlink" /\ k \in keys[t] /\ dir[k] # NoFile
  /\ Change({k}, NoFile)
  /\ UNCHANGED <<lock, pc, keys, tmp>>

Unlinked(t) ==
  /\ pc[t] = "unlink" /\ \A k \in keys[t] : dir[k] = NoFile
  /\ Goto(t, "syncClear")
  /\ UNCHANGED <<dir, may, lock, keys, tmp, allowed>>

SyncClear(t) ==
  /\ pc[t] = "syncClear"
  /\ Report(keys[t], NoFile)
  /\ Leave(t)
  /\ UNCHANGED dir

(* A clear does not look at what unlink returns: the key keeps its file,   *)
(* and nobody is told otherwise.                                           *)
UnlinkFails(t, k) ==
  /\ pc[t] = "unlink" /\ k \in keys[t] /\ dir[k] # NoFile
  /\ keys' = [keys EXCEPT ![t] = @ \ {k}]
  /\ UNCHANGED <<dir, may, lock, pc, tmp, allowed>>

(* remove returns before the sync when unlink fails, an absent file's too. *)
RemoveFails(t) ==
  /\ pc[t] = "unlink" /\ \E k \in Keys : keys[t] = {k}
  /\ Leave(t)
  /\ UNCHANGED <<dir, may, allowed>>

(* A killed process gives the lock up and leaves its temporary file. *)
Kill(t) ==
  /\ pc[t] # "idle"
  /\ Leave(t)
  /\ UNCHANGED <<dir, may, allowed>>

PowerLoss ==
  \E left \in [Keys -> UNION {may[k] : k \in Keys}] :
    /\ \A k \in Keys : left[k] \in may[k]
    /\ dir' = [k \in Keys |-> [val |-> Survives(left[k]), synced |-> TRUE]]
    /\ may' = [k \in Keys |-> {dir'[k]}]
    /\ allowed' = [k \in Keys |-> {dir'[k].val}]
    /\ lock' = NoThread
    /\ pc' = [t \in Threads |-> "idle"]
    /\ keys' = [t \in Threads |-> {}]
    /\ tmp' = [t \in Threads |-> NoFile]

Next ==
  \/ \E t \in Threads :
       \/ \E k \in Keys, v \in Values : StartPut(t, k, v)
       \/ \E K \in SUBSET Keys : StartClear(t, K)
       \/ Write(t) \/ Sync(t) \/ Acquire(t) \/ Rename(t) \/ SyncDir(t)
       \/ Fail(t) \/ (\E k \in Keys : Unlink(t, k) \/ UnlinkFails(t, k))
       \/ Unlinked(t) \/ SyncClear(t) \/ RemoveFails(t) \/ Kill(t)
  \/ PowerLoss

Spec == Init /\ [][Next]_vars

-----------------------------------------------------------------------------
(* Durability: whatever puts and clears are under way, failed or were      *)
(* killed, a power loss leaves for every key a whole value, the one last   *)
(* reported written or one written since (put's comment, params.cc 133-138, *)
(* and params.py 173: "block=True waits until it is persisted to disk").   *)
Durable ==
  \A k \in Keys : \A file \in may[k] : Survives(file) \in allowed[k]

(* Atomicity: readers, who take no lock, find a whole value at any moment; *)
(* each key changes in one step (params.cc 133); what was reported is not  *)
(* taken back, whatever fails, is killed or loses its power in between.    *)
Abstract == INSTANCE AtomicStore WITH
  store <- [k \in Keys |-> dir[k].val],
  kept <- allowed

ImplementsAtomicStore == Abstract!Spec
=============================================================================
