------------------------- MODULE ParamsStore_proofs -------------------------
(***************************************************************************)
(* The params store is durable, for any number of threads, keys and values. *)
(* Durable is not inductive: a report is right only because the reporting  *)
(* thread has held the lock since it changed the directory, and a rename   *)
(* is safe only because the file was synced before.                        *)
(***************************************************************************)
EXTENDS ParamsStore, TLAPS

(* Whoever is between the lock and its release holds it.                   *)
Holder == \A t \in Threads : pc[t] \in Inside => lock = t

(* A file that may be renamed into place is synced.                        *)
Whole ==
  \A t \in Threads :
    pc[t] \in {"putLock", "rename", "syncDir"} => tmp[t].synced = TRUE

(* What a thread is about to report is what the directory holds.           *)
Mine ==
  \A t \in Threads :
    /\ pc[t] = "syncDir" => \A k \in keys[t] : dir[k] = tmp[t]
    /\ pc[t] = "syncClear" => \A k \in keys[t] : dir[k] = NoFile

(* Every file a power loss may leave is whole and allowed, and the one in  *)
(* place is among them.                                                    *)
Left ==
  \A k \in Keys :
    /\ dir[k] \in may[k]
    /\ \A file \in may[k] : file.synced = TRUE /\ file.val \in allowed[k]

IInv == TypeOK /\ Holder /\ Whole /\ Mine /\ Left

USE DEF Steps, Putting, Inside

(* The store starts empty, synced and unlocked.                            *)
LEMMA InitIInv == Init => IInv
  BY ParamsAssumption
  DEF Init, IInv, TypeOK, Holder, Whole, Mine, Left, NoFile, File

(* Leaving the protocol disturbs nobody else's part of the invariant.      *)
LEMMA LeaveKeeps ==
  ASSUME IInv, NEW t \in Threads, Leave(t), UNCHANGED <<dir, may, allowed>>
  PROVE  IInv'
<1> USE ParamsAssumption DEF IInv, Leave, Goto
<1>1. TypeOK'
  BY DEF TypeOK, NoFile, File
<1>2. Holder'
  BY DEF Holder, TypeOK
<1>3. Whole'
  BY DEF Whole, TypeOK
<1>4. Mine'
  BY DEF Mine, TypeOK
<1>5. Left'
  BY DEF Left
<1>6. QED
  BY <1>1, <1>2, <1>3, <1>4, <1>5

(* A report by a thread that holds the lock, of what the directory holds.  *)
LEMMA ReportKeeps ==
  ASSUME IInv, NEW t \in Threads, NEW file \in File, Leave(t), dir' = dir,
         \A k \in keys[t] : dir[k] = file, Report(keys[t], file)
  PROVE  IInv'
<1> USE ParamsAssumption DEF IInv, Leave, Goto, Report
<1>1. Left'
  BY DEF Left, TypeOK
<1>2. \A k \in keys[t] : k \in Keys /\ file.val \in allowed[k]
  BY DEF Left, TypeOK
<1>3. TypeOK'
  BY <1>2 DEF TypeOK, NoFile, File
<1>4. Holder'
  BY DEF Holder, TypeOK
<1>5. Whole'
  BY DEF Whole, TypeOK
<1>6. Mine'
  BY DEF Mine, TypeOK
<1>7. QED
  BY <1>1, <1>3, <1>4, <1>5, <1>6

(* A change of the directory, by the thread that holds the lock, to a      *)
(* synced file: nobody else is about to report anything.                   *)
LEMMA ChangeKeepsLeft ==
  ASSUME IInv, NEW K \in SUBSET Keys, NEW file \in File,
         file.synced = TRUE, file.val \in Values \cup {None, Torn},
         Change(K, file)
  PROVE  /\ Left'
         /\ dir' \in [Keys -> File] /\ may' \in [Keys -> SUBSET File]
         /\ allowed' \in [Keys -> SUBSET (Values \cup {None, Torn})]
<1> USE DEF IInv, Change, TypeOK
<1>1. Left'
  BY DEF Left
<1>2. dir' \in [Keys -> File] /\ may' \in [Keys -> SUBSET File]
  OBVIOUS
<1>3. allowed' \in [Keys -> SUBSET (Values \cup {None, Torn})]
  OBVIOUS
<1>4. QED
  BY <1>1, <1>2, <1>3

(* The rename of a put.                                                    *)
LEMMA RenameKeeps ==
  ASSUME IInv, NEW t \in Threads, Rename(t)
  PROVE  IInv'
<1> USE ParamsAssumption DEF IInv, Rename, Goto
<1>1. /\ keys[t] \in SUBSET Keys /\ tmp[t] \in File
      /\ tmp[t].synced = TRUE /\ tmp[t].val \in Values \cup {None, Torn}
  BY DEF TypeOK, Whole, File
<1>2. Left' /\ dir' \in [Keys -> File] /\ may' \in [Keys -> SUBSET File]
      /\ allowed' \in [Keys -> SUBSET (Values \cup {None, Torn})]
  BY <1>1, ChangeKeepsLeft
<1>3. TypeOK'
  BY <1>2 DEF TypeOK
<1>4. Holder'
  BY DEF Holder, TypeOK
<1>5. Whole'
  BY DEF Whole, TypeOK
<1>6. \A u \in Threads : u # t => pc[u] \notin Inside
  BY DEF Holder, TypeOK
<1>7. \A k \in keys[t] : dir'[k] = tmp[t]
  BY <1>1 DEF Change
<1>8. Mine'
  BY <1>6, <1>7 DEF Mine, TypeOK
<1>9. QED
  BY <1>2, <1>3, <1>4, <1>5, <1>8

(* One unlink of a clear.                                                  *)
LEMMA UnlinkKeeps ==
  ASSUME IInv, NEW t \in Threads, NEW k \in Keys, Unlink(t, k)
  PROVE  IInv'
<1> USE ParamsAssumption DEF IInv, Unlink
<1>1. NoFile \in File /\ NoFile.synced = TRUE
      /\ NoFile.val \in Values \cup {None, Torn}
  BY DEF NoFile, File
<1>2. Left' /\ dir' \in [Keys -> File] /\ may' \in [Keys -> SUBSET File]
      /\ allowed' \in [Keys -> SUBSET (Values \cup {None, Torn})]
  BY <1>1, ChangeKeepsLeft, {k} \in SUBSET Keys
<1>3. TypeOK'
  BY <1>2 DEF TypeOK
<1>4. Holder' /\ Whole'
  BY DEF Holder, Whole
<1>5. \A u \in Threads : pc[u] \notin {"syncDir", "syncClear"}
  BY DEF Holder, TypeOK
<1>6. Mine'
  BY <1>5 DEF Mine
<1>7. QED
  BY <1>2, <1>3, <1>4, <1>6

(* A power loss starts the store again from what it left.                  *)
LEMMA PowerLossKeeps ==
  ASSUME IInv, PowerLoss
  PROVE  IInv'
<1> USE ParamsAssumption DEF IInv
<1>1. PICK left \in [Keys -> UNION {may[k] : k \in Keys}] :
        /\ \A k \in Keys : left[k] \in may[k]
        /\ dir' = [k \in Keys |-> [val |-> Survives(left[k]), synced |-> TRUE]]
        /\ may' = [k \in Keys |-> {dir'[k]}]
        /\ allowed' = [k \in Keys |-> {dir'[k].val}]
        /\ lock' = NoThread
        /\ pc' = [t \in Threads |-> "idle"]
        /\ keys' = [t \in Threads |-> {}]
        /\ tmp' = [t \in Threads |-> NoFile]
  BY DEF PowerLoss
<1>2. \A k \in Keys : Survives(left[k]) \in Values \cup {None, Torn}
  BY <1>1 DEF TypeOK, Survives, File
<1>3. \A k \in Keys : dir'[k] \in File /\ dir'[k].synced = TRUE
                      /\ dir'[k].val \in Values \cup {None, Torn}
  BY <1>1, <1>2 DEF File
<1>4. TypeOK'
  BY <1>1, <1>3 DEF TypeOK, NoFile, File
<1>5. Left'
  BY <1>1, <1>3 DEF Left
<1>6. Holder' /\ Whole' /\ Mine'
  BY <1>1 DEF Holder, Whole, Mine
<1>7. QED
  BY <1>4, <1>5, <1>6

(* The steps that touch neither the directory nor a report.                *)
LEMMA QuietKeeps ==
  ASSUME IInv, NEW t \in Threads,
         \/ \E k \in Keys, v \in Values : StartPut(t, k, v)
         \/ \E K \in SUBSET Keys : StartClear(t, K)
         \/ \E k \in Keys : UnlinkFails(t, k)
         \/ Write(t) \/ Sync(t) \/ Acquire(t) \/ Unlinked(t)
  PROVE  IInv'
<1> USE ParamsAssumption DEF IInv, Goto
<1>1. ASSUME NEW k \in Keys, NEW v \in Values, StartPut(t, k, v)
      PROVE  IInv'
  <2> USE <1>1 DEF StartPut
  <2>1. TypeOK'
    BY DEF TypeOK, File
  <2>2. Holder' /\ Left'
    BY DEF Holder, TypeOK, Left
  <2>3. Whole'
    BY DEF Whole, TypeOK
  <2>4. Mine'
    BY DEF Mine, TypeOK
  <2>5. QED
    BY <2>1, <2>2, <2>3, <2>4
<1>2. ASSUME NEW K \in SUBSET Keys, StartClear(t, K)
      PROVE  IInv'
  <2> USE <1>2 DEF StartClear
  <2>1. TypeOK'
    BY DEF TypeOK
  <2>2. Holder' /\ Whole' /\ Left'
    BY DEF Holder, Whole, TypeOK, Left
  <2>3. Mine'
    BY DEF Mine, TypeOK
  <2>4. QED
    BY <2>1, <2>2, <2>3
<1>3. CASE Write(t)
  BY <1>3 DEF Write, TypeOK, Holder, Whole, Mine, Left
<1>4. CASE Sync(t)
  <2> USE <1>4 DEF Sync
  <2>1. TypeOK'
    BY DEF TypeOK, File
  <2>2. Holder' /\ Left'
    BY DEF Holder, TypeOK, Left
  <2>3. Whole'
    BY DEF Whole, TypeOK, File
  <2>4. Mine'
    BY DEF Mine, TypeOK
  <2>5. QED
    BY <2>1, <2>2, <2>3, <2>4
<1>5. CASE Acquire(t)
  <2> USE <1>5 DEF Acquire
  <2>1. TypeOK'
    BY DEF TypeOK
  <2>2. Holder'
    BY DEF Holder, TypeOK
  <2>3. Whole' /\ Mine' /\ Left'
    BY DEF Whole, Mine, TypeOK, Left
  <2>4. QED
    BY <2>1, <2>2, <2>3
<1>6. CASE Unlinked(t)
  BY <1>6 DEF Unlinked, TypeOK, Holder, Whole, Mine, Left
<1>7. ASSUME NEW k \in Keys, UnlinkFails(t, k)
      PROVE  IInv'
  <2> USE <1>7 DEF UnlinkFails
  <2>1. TypeOK'
    BY DEF TypeOK
  <2>2. Holder' /\ Whole' /\ Left'
    BY DEF Holder, Whole, Left
  <2>3. Mine'
    BY DEF Mine, TypeOK
  <2>4. QED
    BY <2>1, <2>2, <2>3
<1>8. QED
  BY <1>1, <1>2, <1>3, <1>4, <1>5, <1>6, <1>7

(* Every step of the store keeps the invariant.                            *)
LEMMA NextIInv == IInv /\ [Next]_vars => IInv'
<1> SUFFICES ASSUME IInv, [Next]_vars PROVE IInv'
  OBVIOUS
<1>1. ASSUME NEW t \in Threads, SyncDir(t) PROVE IInv'
  <2>1. tmp[t] \in File /\ \A k \in keys[t] : dir[k] = tmp[t]
    BY <1>1 DEF IInv, TypeOK, Mine, SyncDir
  <2>2. QED
    BY <1>1, <2>1, ReportKeeps DEF SyncDir
<1>2. ASSUME NEW t \in Threads, SyncClear(t) PROVE IInv'
  <2>1. NoFile \in File /\ \A k \in keys[t] : dir[k] = NoFile
    BY <1>2 DEF IInv, Mine, SyncClear, NoFile, File
  <2>2. QED
    BY <1>2, <2>1, ReportKeeps DEF SyncClear
<1>3. ASSUME NEW t \in Threads, Fail(t) \/ RemoveFails(t) \/ Kill(t)
      PROVE  IInv'
  BY <1>3, LeaveKeeps DEF Fail, RemoveFails, Kill
<1>4. CASE UNCHANGED vars
  BY <1>4 DEF vars, IInv, TypeOK, Holder, Whole, Mine, Left
<1>5. QED
  BY <1>1, <1>2, <1>3, <1>4, RenameKeeps, UnlinkKeeps, QuietKeeps,
     PowerLossKeeps DEF Next

(* The inductive invariant holds in every reachable state.                 *)
THEOREM Invariance == Spec => []IInv
  BY InitIInv, NextIInv, PTL DEF Spec

(* The store is well typed.                                                *)
THEOREM TypeCorrect == Spec => []TypeOK
<1>1. IInv => TypeOK
  BY DEF IInv
<1>2. QED
  BY <1>1, Invariance, PTL

(* A power loss leaves every key whole, and no older than its last report. *)
THEOREM Durability == Spec => []Durable
<1>1. IInv => Durable
  BY DEF IInv, Left, Durable, Survives
<1>2. QED
  BY <1>1, Invariance, PTL

-----------------------------------------------------------------------------
(* What a put is about to write is one value of one key.                   *)
Puts ==
  \A t \in Threads :
    pc[t] \in Putting \cup {"rename", "syncDir"} =>
      tmp[t].val \in Values /\ \E k \in Keys : keys[t] = {k}

(* No caller was ever told, nor could a power loss make it so, that a key  *)
(* holds half a value.                                                     *)
Told == allowed \in [Keys -> SUBSET (Values \cup {None})]

AInv == IInv /\ Puts /\ Told

Store == [k \in Keys |-> dir[k].val]

AbstractStep == Abstract!Next \/ UNCHANGED <<Store, allowed>>

(* A put keeps its key and its value from its start to its end.            *)
LEMMA PutsKept == IInv /\ Puts /\ [Next]_vars => Puts'
<1> SUFFICES ASSUME IInv, Puts, [Next]_vars PROVE Puts'
  OBVIOUS
<1> USE DEF IInv, TypeOK, Puts, Goto
<1>1. ASSUME NEW t \in Threads, Leave(t) PROVE Puts'
  BY <1>1 DEF Leave
<1>2. ASSUME NEW t \in Threads, NEW k \in Keys, NEW v \in Values, StartPut(t, k, v)
      PROVE  Puts'
  BY <1>2 DEF StartPut
<1>3. ASSUME NEW t \in Threads, NEW K \in SUBSET Keys, StartClear(t, K)
      PROVE  Puts'
  BY <1>3 DEF StartClear
<1>4. ASSUME NEW t \in Threads, Write(t) \/ Acquire(t) \/ Rename(t) \/ Unlinked(t)
      PROVE  Puts'
  BY <1>4 DEF Write, Acquire, Rename, Unlinked
<1>5. ASSUME NEW t \in Threads, Sync(t) PROVE Puts'
  BY <1>5 DEF Sync, File
<1>6. ASSUME NEW t \in Threads, NEW k \in Keys, Unlink(t, k) \/ UnlinkFails(t, k)
      PROVE  Puts'
  BY <1>6 DEF Unlink, UnlinkFails
<1>7. CASE PowerLoss
  BY <1>7 DEF PowerLoss
<1>8. CASE UNCHANGED vars
  BY <1>8 DEF vars
<1> QED
  BY <1>1, <1>2, <1>3, <1>4, <1>5, <1>6, <1>7, <1>8
     DEF Next, SyncDir, SyncClear, Fail, RemoveFails, Kill

(* A change of one key, to a value or to none, is a write.                 *)
LEMMA ChangeWrites ==
  ASSUME AInv, NEW k \in Keys, NEW file \in File, file.val \in Values \cup {None},
         Change({k}, file)
  PROVE  Abstract!Write(k, file.val) /\ Told'
<1> USE DEF AInv, IInv, TypeOK, Told, Change
<1>1. Store' = [Store EXCEPT ![k] = file.val]
  BY DEF Store
<1>2. allowed' = [allowed EXCEPT ![k] = @ \cup {file.val}]
  OBVIOUS
<1>3. Told'
  BY <1>2
<1> QED
  BY <1>1, <1>2, <1>3 DEF Abstract!Write, Store

(* A report of what the directory holds is a confirmation.                 *)
LEMMA ReportConfirms ==
  ASSUME AInv, NEW K \in SUBSET Keys, NEW file \in File,
         \A k \in K : dir[k] = file, dir' = dir, Report(K, file)
  PROVE  Abstract!Confirm(K) /\ Told'
<1> USE DEF AInv, IInv, TypeOK, Told, Report
<1>1. \A k \in K : file.val = Store[k] /\ file.val \in Values \cup {None}
  BY DEF Left, Store
<1>2. allowed' = [k \in Keys |-> IF k \in K THEN {Store[k]} ELSE allowed[k]]
  BY <1>1
<1>3. Told'
  BY <1>1, <1>2
<1> QED
  BY <1>2, <1>3 DEF Abstract!Confirm, Store

(* A loss of power chooses, key by key, among what is kept.                *)
LEMMA PowerLossChooses ==
  ASSUME AInv, PowerLoss
  PROVE  Abstract!PowerLoss /\ Told'
<1> USE DEF AInv
<1>1. PICK left \in [Keys -> UNION {may[k] : k \in Keys}] :
        /\ \A k \in Keys : left[k] \in may[k]
        /\ dir' = [k \in Keys |-> [val |-> Survives(left[k]), synced |-> TRUE]]
        /\ allowed' = [k \in Keys |-> {dir'[k].val}]
  BY DEF PowerLoss
<1>2. \A k \in Keys : dir'[k].val \in allowed[k]
  BY <1>1 DEF IInv, Left, Survives
<1>3. \A k \in Keys : allowed[k] \subseteq Values \cup {None}
  BY DEF Told
<1>4. Store' \in [Keys -> Values \cup {None}] /\ \A k \in Keys : Store'[k] = dir'[k].val
  BY <1>2, <1>3 DEF Store
<1>5. allowed' = [k \in Keys |-> {Store'[k]}]
  BY <1>1, <1>4
<1>6. Told'
  BY <1>4, <1>5 DEF Told
<1> QED
  BY <1>2, <1>4, <1>5, <1>6 DEF Abstract!PowerLoss, Store

(* Every step of the store is one of the atomic store, or nothing to it.   *)
LEMMA StepIsAtomic ==
  ASSUME AInv, [Next]_vars
  PROVE  AbstractStep /\ Told'
<1>1. ASSUME UNCHANGED <<dir, allowed>> PROVE AbstractStep /\ Told'
  BY <1>1 DEF AbstractStep, Store, AInv, Told
<1>2. ASSUME NEW t \in Threads, Rename(t) PROVE AbstractStep /\ Told'
  <2>1. PICK k \in Keys : keys[t] = {k}
    BY <1>2 DEF AInv, Puts, Rename
  <2>2. tmp[t] \in File /\ tmp[t].val \in Values /\ Change({k}, tmp[t])
    BY <1>2, <2>1 DEF AInv, IInv, TypeOK, Puts, Rename
  <2> QED
    BY <2>2, ChangeWrites DEF AbstractStep, Abstract!Next
<1>3. ASSUME NEW t \in Threads, NEW k \in Keys, Unlink(t, k)
      PROVE  AbstractStep /\ Told'
  <2>1. NoFile \in File /\ NoFile.val \in Values \cup {None} /\ Change({k}, NoFile)
    BY <1>3 DEF Unlink, NoFile, File
  <2> QED
    BY <2>1, ChangeWrites DEF AbstractStep, Abstract!Next
<1>4. ASSUME NEW t \in Threads, SyncDir(t) PROVE AbstractStep /\ Told'
  <2>1. /\ keys[t] \in SUBSET Keys /\ tmp[t] \in File
        /\ \A k \in keys[t] : dir[k] = tmp[t]
        /\ dir' = dir /\ Report(keys[t], tmp[t])
    BY <1>4 DEF AInv, IInv, TypeOK, Mine, SyncDir
  <2> QED
    BY <2>1, ReportConfirms DEF AbstractStep, Abstract!Next
<1>5. ASSUME NEW t \in Threads, SyncClear(t) PROVE AbstractStep /\ Told'
  <2>1. /\ keys[t] \in SUBSET Keys /\ NoFile \in File
        /\ \A k \in keys[t] : dir[k] = NoFile
        /\ dir' = dir /\ Report(keys[t], NoFile)
    BY <1>5 DEF AInv, IInv, TypeOK, Mine, SyncClear, NoFile, File
  <2> QED
    BY <2>1, ReportConfirms DEF AbstractStep, Abstract!Next
<1>6. CASE PowerLoss
  BY <1>6, PowerLossChooses DEF AbstractStep, Abstract!Next
<1>7. ASSUME NEW t \in Threads,
             \/ \E k \in Keys, v \in Values : StartPut(t, k, v)
             \/ \E K \in SUBSET Keys : StartClear(t, K)
             \/ Write(t) \/ Sync(t) \/ Acquire(t) \/ Fail(t) \/ Unlinked(t)
             \/ (\E k \in Keys : UnlinkFails(t, k)) \/ RemoveFails(t) \/ Kill(t)
      PROVE  AbstractStep /\ Told'
  <2>1. UNCHANGED <<dir, allowed>>
    BY <1>7 DEF StartPut, StartClear, Write, Sync, Acquire, Fail, Unlinked, UnlinkFails,
                RemoveFails, Kill
  <2> QED
    BY <1>1, <2>1
<1>8. CASE UNCHANGED vars
  BY <1>1, <1>8 DEF vars
<1> QED
  BY <1>2, <1>3, <1>4, <1>5, <1>6, <1>7, <1>8 DEF Next

(* To whoever reads it the directory of files is an atomic store: a key    *)
(* holds a whole value at any moment, changes in one step, and a loss of   *)
(* power takes back only what no caller was told.                          *)
THEOREM StoreIsAtomic == Spec => ImplementsAtomicStore
<1>1. Init => Abstract!Init /\ Puts /\ Told
  BY DEF Init, Abstract!Init, Puts, Told, NoFile
<1>2. IInv /\ Puts /\ Told /\ [Next]_vars =>
        Puts' /\ Told' /\ [Abstract!Next]_<<Store, allowed>>
  BY PutsKept, StepIsAtomic DEF AInv, AbstractStep
<1> QED
  BY <1>1, <1>2, Invariance, PTL
     DEF Spec, ImplementsAtomicStore, Abstract!Spec, Store
=============================================================================
