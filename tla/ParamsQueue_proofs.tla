------------------------- MODULE ParamsQueue_proofs -------------------------
(***************************************************************************)
(* The writes of one Params object land in order, for any number of writes *)
(* and of threads.  The heart of it is that no two workers ever run, which *)
(* holds because a future is ready only once its thread has returned.      *)
(***************************************************************************)
EXTENDS ParamsQueue, SequenceTheorems, TLAPS

TypeOK ==
  /\ queue \in Seq(Nat) /\ puts \in Nat /\ stored \in Nat
  /\ owner \in {"idle", "check", "gone"}
  /\ future \in {"none", "running", "ready"}
  /\ worker \in [Workers -> {"off", "pop", "put", "leaving"}]
  /\ item \in [Workers -> Nat]

(* A worker runs only under a running future, and there is but one.        *)
OneWorker ==
  /\ future # "running" => \A w \in Workers : worker[w] = "off"
  /\ \A v, w \in Workers : worker[v] # "off" /\ worker[w] # "off" => v = w

(* The write on file, the one in a worker's hands and those in the queue   *)
(* are in the order they were asked for.                                   *)
Ordered ==
  /\ stored <= puts
  /\ \A w \in Workers : worker[w] = "put" => stored <= item[w] /\ item[w] <= puts
  /\ \A i \in 1..Len(queue) :
       /\ stored <= queue[i] /\ queue[i] <= puts
       /\ \A w \in Workers : worker[w] = "put" => item[w] <= queue[i]
  /\ \A i, j \in 1..Len(queue) : i <= j => queue[i] <= queue[j]

IInv == TypeOK /\ OneWorker /\ Ordered

-----------------------------------------------------------------------------
(* The object starts with nothing queued and no worker.                    *)
LEMMA InitIInv == Init => IInv
<1> SUFFICES ASSUME Init PROVE IInv
  OBVIOUS
<1>1. queue = <<>> /\ queue \in Seq(Nat) /\ Len(queue) = 0
  BY DEF Init
<1>2. TypeOK
  BY <1>1 DEF Init, TypeOK
<1>3. OneWorker /\ Ordered
  BY <1>1 DEF Init, OneWorker, Ordered
<1>4. QED
  BY <1>2, <1>3 DEF IInv

(* A write joins the end of the queue, under the highest number yet.       *)
LEMMA PushKeeps ==
  ASSUME IInv, Push
  PROVE  IInv' /\ stored' = stored
<1> USE DEF IInv, Push
<1>1. /\ puts' = puts + 1 /\ puts \in Nat
      /\ queue' \in Seq(Nat) /\ Len(queue') = Len(queue) + 1
      /\ \A i \in 1..Len(queue) : queue'[i] = queue[i]
      /\ queue'[Len(queue) + 1] = puts + 1
  BY DEF TypeOK
<1>2. TypeOK'
  BY <1>1 DEF TypeOK
<1>3. OneWorker'
  BY DEF OneWorker
<1>4. \A i \in 1..Len(queue') : queue'[i] \in Nat
                               /\ (i \in 1..Len(queue) \/ i = Len(queue) + 1)
  BY <1>1 DEF TypeOK
<1>5. Ordered'
  BY <1>1, <1>4 DEF Ordered, TypeOK
<1>6. QED
  BY <1>2, <1>3, <1>5

(* A worker is started only when the last one has returned.                *)
LEMMA StartKeeps ==
  ASSUME IInv, Start
  PROVE  IInv' /\ stored' = stored
<1> USE DEF IInv, Start
<1>1. CASE NeedsWorker
  <2>1. \A w \in Workers : worker[w] = "off"
    BY <1>1 DEF NeedsWorker, OneWorker
  <2>2. PICK w \in Workers : worker' = [worker EXCEPT ![w] = "pop"]
    BY <1>1
  <2>3. TypeOK'
    BY <1>1, <2>2 DEF TypeOK
  <2>4. OneWorker'
    BY <1>1, <2>1, <2>2 DEF OneWorker, TypeOK
  <2>5. Ordered'
    BY <2>1, <2>2 DEF Ordered, TypeOK
  <2>6. QED
    BY <2>3, <2>4, <2>5
<1>2. CASE ~NeedsWorker
  BY <1>2 DEF TypeOK, OneWorker, Ordered
<1>3. QED
  BY <1>1, <1>2

(* The oldest write goes from the queue to the only worker.                *)
LEMMA PopKeeps ==
  ASSUME IInv, NEW w \in Workers, Pop(w)
  PROVE  IInv' /\ stored' = stored
<1> USE DEF IInv, Pop
<1>1. future = "running" /\ \A v \in Workers : v # w => worker[v] = "off"
  BY DEF OneWorker, TypeOK
<1>2. CASE queue = <<>>
  BY <1>1, <1>2 DEF TypeOK, OneWorker, Ordered
<1>3. CASE queue # <<>>
  <2>1. /\ Head(queue) = queue[1] /\ Head(queue) \in Nat /\ 1 \in 1..Len(queue)
        /\ queue' \in Seq(Nat) /\ Len(queue') = Len(queue) - 1
        /\ \A i \in 1..Len(queue') : queue'[i] = queue[i + 1] /\ i + 1 \in 1..Len(queue)
    <3>1. queue \in Seq(Nat) /\ queue' = Tail(queue)
      BY <1>3 DEF TypeOK
    <3>2. Len(queue) \in Nat \ {0}
      BY <1>3, <3>1, EmptySeq
    <3>3. /\ Head(queue) \in Nat /\ Tail(queue) \in Seq(Nat)
          /\ Len(Tail(queue)) = Len(queue) - 1
          /\ \A i \in 1..Len(Tail(queue)) : Tail(queue)[i] = queue[i + 1]
      BY <1>3, <3>1, HeadTailProperties
    <3>4. Head(queue) = queue[1]
      BY <1>3, <3>1
    <3>5. /\ 1 \in 1..Len(queue)
          /\ \A i \in 1..(Len(queue) - 1) : i + 1 \in 1..Len(queue)
      BY <3>2
    <3>6. QED
      BY <3>1, <3>3, <3>4, <3>5
  <2>2. TypeOK'
    BY <1>3, <2>1 DEF TypeOK
  <2>3. OneWorker'
    BY <1>1, <1>3 DEF OneWorker, TypeOK
  <2>4. \A v \in Workers : worker'[v] = "put" => v = w /\ item'[v] = queue[1]
    BY <1>1, <1>3, <2>1 DEF TypeOK
  <2>5. /\ stored' = stored /\ puts' = puts
        /\ stored <= puts /\ stored <= queue[1] /\ queue[1] <= puts
    BY <1>3, <2>1 DEF Ordered
  <2>6. ASSUME NEW i \in 1..Len(queue')
        PROVE  /\ queue'[i] = queue[i + 1] /\ i + 1 \in 1..Len(queue)
               /\ stored <= queue[i + 1] /\ queue[i + 1] <= puts
               /\ queue[1] <= queue[i + 1]
    <3>1. i + 1 \in 1..Len(queue) /\ 1 <= i + 1 /\ queue'[i] = queue[i + 1]
      BY <2>1
    <3>2. QED
      BY <2>1, <3>1 DEF Ordered
  <2>7. \A i, j \in 1..Len(queue') : i <= j => queue'[i] <= queue'[j]
    <3>1. SUFFICES ASSUME NEW i \in 1..Len(queue'), NEW j \in 1..Len(queue'), i <= j
                   PROVE  queue[i + 1] <= queue[j + 1]
      BY <2>6
    <3>2. i + 1 \in 1..Len(queue) /\ j + 1 \in 1..Len(queue) /\ i + 1 <= j + 1
      BY <2>6, <3>1
    <3>3. QED
      BY <3>2 DEF Ordered
  <2>8. Ordered'
    BY <2>4, <2>5, <2>6, <2>7 DEF Ordered
  <2>9. QED
    BY <1>3, <2>2, <2>3, <2>8
<1>4. QED
  BY <1>2, <1>3

(* What the only worker writes is no older than what is on file.           *)
LEMMA PutKeeps ==
  ASSUME IInv, NEW w \in Workers, Put(w)
  PROVE  IInv' /\ stored <= stored'
<1> USE DEF IInv, Put
<1>1. \A v \in Workers : v # w => worker[v] = "off"
  BY DEF OneWorker, TypeOK
<1>2. stored' \in Nat /\ stored <= stored' /\ stored' <= item[w] /\ item[w] \in Nat
  BY DEF Ordered, TypeOK
<1>3. TypeOK'
  BY <1>2 DEF TypeOK
<1>4. OneWorker'
  BY <1>1 DEF OneWorker, TypeOK
<1>5. \A v \in Workers : worker'[v] # "put"
  BY <1>1 DEF TypeOK
<1>6. Ordered'
  BY <1>2, <1>5 DEF Ordered, TypeOK
<1>7. QED
  BY <1>2, <1>3, <1>4, <1>6

(* The worker's return is what makes room for another.                     *)
LEMMA ReturnsKeeps ==
  ASSUME IInv, NEW w \in Workers, Returns(w)
  PROVE  IInv' /\ stored' = stored
<1> USE DEF IInv, Returns
<1>1. \A v \in Workers : worker'[v] = "off"
  BY DEF OneWorker, TypeOK
<1>2. TypeOK'
  BY DEF TypeOK
<1>3. OneWorker' /\ Ordered'
  BY <1>1 DEF OneWorker, Ordered
<1>4. QED
  BY <1>2, <1>3

(* Every step keeps the strengthening and the order.                       *)
LEMMA NextKeeps ==
  ASSUME IInv, [Next]_vars
  PROVE  IInv' /\ stored <= stored'
<1>1. stored \in Nat
  BY DEF IInv, TypeOK
<1>2. CASE UNCHANGED vars
  BY <1>1, <1>2 DEF vars, IInv, TypeOK, OneWorker, Ordered
<1>3. CASE Push
  BY <1>1, <1>3, PushKeeps
<1>4. CASE Start
  BY <1>1, <1>4, StartKeeps
<1>5. CASE Destroy
  BY <1>1, <1>5 DEF Destroy, IInv, TypeOK, OneWorker, Ordered
<1>6. ASSUME NEW w \in Workers, Pop(w) \/ Put(w) \/ Returns(w)
      PROVE  IInv' /\ stored <= stored'
  BY <1>1, <1>6, PopKeeps, PutKeeps, ReturnsKeeps
<1>7. QED
  BY <1>2, <1>3, <1>4, <1>5, <1>6 DEF Next

(* In every behaviour the strengthening holds.                             *)
THEOREM Invariance == Spec => []IInv
  BY InitIInv, NextKeeps, PTL DEF Spec

(* The writes of one object land in the order they were asked for          *)
(* (params.cc putNonBlocking, asyncWriteThread), whatever the number of    *)
(* writes and however starting a worker races the end of the last.         *)
THEOREM OrderKept == Spec => InOrder
<1>1. IInv /\ [Next]_vars => [stored <= stored']_stored
  BY NextKeeps
<1>2. QED
  BY <1>1, Invariance, PTL DEF Spec, InOrder
=============================================================================
