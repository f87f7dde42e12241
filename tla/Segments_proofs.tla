-------------------------- MODULE Segments_proofs --------------------------
(***************************************************************************)
(* The segments of a drive, for any number of cameras, any lengths and any *)
(* order of the threads: the encoders agree on the segment of every frame; *)
(* and until a rotation is forced the log is in step with them, keeps      *)
(* every frame and rotates with the last.  While every camera lives and    *)
(* all come up in time, no rotation is forced.                             *)
(***************************************************************************)
EXTENDS Segments, SequenceTheorems, FiniteSetTheorems, TLAPS

Packets == [frame : Nat, seg : Nat, key : BOOLEAN]
Entries == [frame : Nat, part : Nat]

TypeOK ==
  /\ clock \in Nat /\ alive \in SUBSET Cameras /\ skips \in Nat
  /\ pc \in [Cameras -> {"frame", "putOff", "count"}]
  /\ next \in [Cameras -> Nat] /\ start \in Nat
  /\ ready \in SUBSET Cameras /\ synced \in SUBSET Cameras
  /\ seg \in [Cameras -> Nat] /\ count \in [Cameras -> Nat]
  /\ sock \in [Cameras -> Seq(Packets)]
  /\ part \in Nat /\ rotated \in Nat /\ lastSeen \in Nat /\ waiting \in Nat
  /\ met \in SUBSET Cameras /\ offset \in [Cameras -> Int]
  /\ current \in [Cameras -> Int]
  /\ marked \in SUBSET Cameras /\ recording \in SUBSET Cameras
  /\ queue \in [Cameras -> Seq(Packets)]
  /\ encoded \in [Cameras -> SUBSET Entries]
  /\ recorded \in [Cameras -> SUBSET Entries]

-----------------------------------------------------------------------------
(* Types.                                                                  *)

LEMMA InitTypes == Init => TypeOK
<1> SUFFICES ASSUME Init PROVE TypeOK
  OBVIOUS
<1>1. next \in [Cameras -> Nat]
  BY SegmentsAssumption DEF Init
<1>2. <<>> \in Seq(Packets)
  OBVIOUS
<1> QED
  BY <1>1, <1>2 DEF Init, TypeOK

(* Max of two is one of them, and no less than either.                     *)
LEMMA MaxOfTwo ==
  ASSUME NEW a \in Int, NEW b \in Int
  PROVE  Max({a, b}) \in {a, b} /\ Max({a, b}) >= a /\ Max({a, b}) >= b
<1>1. \E x \in {a, b} : \A y \in {a, b} : x >= y
  <2>1. CASE a >= b
    BY <2>1
  <2>2. CASE b >= a
    BY <2>2
  <2> QED
    BY <2>1, <2>2
<1> QED
  BY <1>1 DEF Max

(* The start is put off, or stays.                                         *)
LEMMA PutOffFacts ==
  ASSUME TypeOK, NEW c \in Cameras, PutsOffStart(c)
  PROVE  /\ pc[c] = "putOff" /\ start \in Nat /\ next[c] \in Nat
         /\ start' \in {start, next[c] + 2} /\ start' \in Nat
         /\ start' >= start /\ start' >= next[c] + 2
<1>1. start \in Nat /\ next[c] \in Nat
  BY DEF TypeOK
<1>2. start' = Max({start, next[c] + 2}) /\ pc[c] = "putOff"
  BY DEF PutsOffStart
<1>3. start \in Int /\ next[c] + 2 \in Int
  BY <1>1
<1>4. start' \in {start, next[c] + 2} /\ start' >= start /\ start' >= next[c] + 2
  BY <1>2, <1>3, MaxOfTwo
<1> QED
  BY <1>1, <1>2, <1>4

(* What encoder_thread does, with sync_encoders, keeps the types.          *)
LEMMA EncoderTypes ==
  ASSUME TypeOK, NEW c \in Cameras, Encoder(c) \/ Skips(c) \/ Dies(c) \/ Tick
  PROVE  TypeOK'
<1> USE DEF TypeOK
<1>1. CASE FindsOthersMissing(c)
  BY <1>1 DEF FindsOthersMissing, worldVars, loggerVars
<1>2. CASE PutsOffStart(c)
  <2>1. start' \in Nat
    BY <1>2, PutOffFacts
  <2> QED
    BY <1>2, <2>1 DEF PutsOffStart, worldVars, loggerVars
<1>3. CASE Counts(c)
  BY <1>3 DEF Counts, NextFrame, worldVars, loggerVars
<1>4. CASE AwaitsStart(c)
  BY <1>4 DEF AwaitsStart, NextFrame, worldVars, loggerVars
<1>5. CASE Encodes(c)
  <2>1. next' \in [Cameras -> Nat] /\ seg' \in [Cameras -> Nat] /\ seg'[c] \in Nat
    BY <1>5 DEF Encodes, NextFrame
  <2> DEFINE i == IF Rolls(c) THEN 0 ELSE count[c]
             p == [frame |-> next[c], seg |-> seg'[c], key |-> i % Gop = 0]
  <2>2. i \in Nat /\ p \in Packets
    BY <2>1 DEF Packets
  <2> HIDE DEF p
  <2>3. count' = [count EXCEPT ![c] = i + 1] /\ sock' = [sock EXCEPT ![c] = Append(@, p)]
    BY <1>5 DEF Encodes, p
  <2>4. count' \in [Cameras -> Nat]
    BY <2>2, <2>3
  <2>5. Append(sock[c], p) \in Seq(Packets)
    BY <2>2, AppendProperties
  <2>6. sock' \in [Cameras -> Seq(Packets)]
    BY <2>3, <2>5
  <2>7. encoded' \in [Cameras -> SUBSET Entries]
    BY SMTT(30), <1>5, <2>1 DEF Encodes, Entries
  <2> QED
    BY <1>5, <2>1, <2>4, <2>6, <2>7 DEF Encodes, worldVars, loggerVars
<1>6. CASE Skips(c)
  BY <1>6 DEF Skips, NextFrame, loggerVars
<1>7. CASE Dies(c)
  BY <1>7 DEF Dies, encoderVars, loggerVars
<1>8. CASE Tick
  BY <1>8 DEF Tick, encoderVars, loggerVars
<1> QED
  BY <1>1, <1>2, <1>3, <1>4, <1>5, <1>6, <1>7, <1>8 DEF Encoder

(* rotate_if_needed moves the log on, or only counts.                      *)
LEMMA RotateTypes ==
  ASSUME TypeOK, NEW n \in Nat, NEW heard, RotateIfNeeded(n, heard)
  PROVE  part' \in Nat /\ rotated' \in Nat /\ waiting' \in Nat
BY DEF TypeOK, RotateIfNeeded

LEMMA ReceiveTypes ==
  ASSUME TypeOK, NEW c \in Cameras, Receives(c)
  PROVE  /\ sock' \in [Cameras -> Seq(Packets)] /\ lastSeen' \in Nat
         /\ met' \in SUBSET Cameras
         /\ Packet(c) \in Packets /\ OffsetOf(c) \in Int
         /\ Append(queue[c], Packet(c)) \in Seq(Packets)
<1>1. sock[c] \in Seq(Packets) /\ sock[c] # <<>> /\ queue[c] \in Seq(Packets)
  BY DEF Receives, TypeOK
<1>2. Packet(c) \in Packets /\ Tail(sock[c]) \in Seq(Packets)
  BY <1>1, HeadTailProperties DEF Packet
<1>3. Append(queue[c], Packet(c)) \in Seq(Packets)
  BY <1>1, <1>2, AppendProperties
<1>4. OffsetOf(c) \in Int
  BY <1>2 DEF OffsetOf, TypeOK, Packets
<1> QED
  BY <1>2, <1>3, <1>4 DEF Receives, TypeOK

(* handle_encoder_msg keeps the types.                                     *)
LEMMA LoggerTypes ==
  ASSUME TypeOK, Logger
  PROVE  TypeOK'
<1>1. CASE HearsOthers
  <2>1. part' \in Nat /\ rotated' \in Nat /\ waiting' \in Nat
    BY <1>1, RotateTypes DEF HearsOthers, TypeOK
  <2> QED
    BY <1>1, <2>1 DEF HearsOthers, TypeOK, worldVars, encoderVars
<1>2. ASSUME NEW c \in Cameras, Writes(c)
      PROVE  TypeOK'
  <2>1. /\ sock' \in [Cameras -> Seq(Packets)] /\ lastSeen' \in Nat
        /\ met' \in SUBSET Cameras
        /\ Packet(c) \in Packets /\ OffsetOf(c) \in Int
        /\ Append(queue[c], Packet(c)) \in Seq(Packets)
    BY <1>2, ReceiveTypes DEF Writes
  <2>2. part' \in Nat /\ rotated' \in Nat /\ waiting' \in Nat
    BY <1>2, RotateTypes DEF Writes, TypeOK
  <2> DEFINE packets == Append(queue[c], Packet(c))
             written == Written(current[c] = part /\ c \in recording, packets)
  <2>3. written \subseteq Packets
    <3>1. \A i \in DOMAIN packets : packets[i] \in Packets
      BY <2>1, ElementOfSeq
    <3> QED
      BY <3>1 DEF Written
  <2> DEFINE entries == {[frame |-> p.frame, part |-> part] : p \in written}
  <2>4. entries \subseteq Entries
    BY <2>3 DEF Packets, Entries, TypeOK
  <2>5. recorded' = [recorded EXCEPT ![c] = @ \cup entries]
    BY <1>2 DEF Writes
  <2>6. recorded' \in [Cameras -> SUBSET Entries]
    BY <2>4, <2>5 DEF TypeOK
  <2>7. recording' \in SUBSET Cameras /\ marked' \in SUBSET Cameras
    BY <1>2 DEF Writes, TypeOK, Unmarked
  <2>8. /\ current' \in [Cameras -> Int] /\ offset' \in [Cameras -> Int]
        /\ queue' \in [Cameras -> Seq(Packets)]
    BY <1>2, <2>1 DEF Writes, TypeOK
  <2> QED
    BY <1>2, <2>1, <2>2, <2>6, <2>7, <2>8
    DEF Writes, Receives, TypeOK, worldVars, encoderVars
<1>3. ASSUME NEW c \in Cameras, Queues(c)
      PROVE  TypeOK'
  <2>1. /\ sock' \in [Cameras -> Seq(Packets)] /\ lastSeen' \in Nat
        /\ met' \in SUBSET Cameras
        /\ Append(queue[c], Packet(c)) \in Seq(Packets)
    BY <1>3, ReceiveTypes DEF Queues
  <2>2. (IF c \in marked THEN waiting ELSE waiting + 1) \in Nat
    BY DEF TypeOK
  <2>3. part' \in Nat /\ rotated' \in Nat /\ waiting' \in Nat
    BY <1>3, <2>2, RotateTypes DEF Queues
  <2>4. marked' \in SUBSET Cameras /\ queue' \in [Cameras -> Seq(Packets)]
    BY <1>3, <2>1 DEF Queues, TypeOK
  <2> QED
    BY <1>3, <2>1, <2>3, <2>4 DEF Queues, Receives, TypeOK, worldVars, encoderVars
<1>4. ASSUME NEW c \in Cameras, Recounts(c)
      PROVE  TypeOK'
  <2>1. sock' \in [Cameras -> Seq(Packets)] /\ lastSeen' \in Nat /\ met' \in SUBSET Cameras
    BY <1>4, ReceiveTypes DEF Recounts
  <2>2. part' \in Nat /\ rotated' \in Nat /\ waiting' \in Nat
    BY <1>4, RotateTypes DEF Recounts, TypeOK
  <2>3. offset' \in [Cameras -> Int]
    BY <1>4 DEF Recounts, TypeOK
  <2> QED
    BY <1>4, <2>1, <2>2, <2>3 DEF Recounts, Receives, TypeOK, worldVars, encoderVars
<1> QED
  BY <1>1, <1>2, <1>3, <1>4 DEF Logger

LEMMA NextTypes == TypeOK /\ [Next]_vars => TypeOK'
<1> SUFFICES ASSUME TypeOK, [Next]_vars PROVE TypeOK'
  OBVIOUS
<1>1. CASE Next
  <2>1. CASE \E c \in Cameras : Encoder(c) \/ Skips(c) \/ Dies(c)
    BY <2>1, EncoderTypes
  <2>2. CASE Logger
    BY <2>2, LoggerTypes
  <2>3. CASE Tick
    <3>1. PICK c \in Cameras : TRUE
      BY SegmentsAssumption, FS_EmptySet
    <3> QED
      BY <2>3, <3>1, EncoderTypes
  <2> QED
    BY <1>1, <2>1, <2>2, <2>3 DEF Next
<1>2. CASE UNCHANGED vars
  BY <1>2 DEF vars, worldVars, encoderVars, loggerVars, TypeOK
<1> QED
  BY <1>1, <1>2

(* Whatever the threads, the sockets and the rotations do, every variable  *)
(* of encoderd and loggerd keeps its type.                                 *)
THEOREM TypeCorrect == Spec => []TypeOK
<1> QED
  BY InitTypes, NextTypes, PTL DEF Spec

-----------------------------------------------------------------------------
(* Segments of frames.                                                     *)

(* The frame segment s begins at, when segment 0 begins at t.              *)
Begin(s, t) == s * SegFrames + t

(* Frame f is one of segment s; segment 0 has the frames before, if any.   *)
InSegment(f, s, t) == f < Begin(s + 1, t) /\ (s > 0 => f >= Begin(s, t))

(* Fewer frames than a segment are lagged behind and dropped in all, and   *)
(* loggerd's queue holds as many: of a segment's 1200 it holds 200.        *)
Paced ==
  /\ Skew + MaxMishaps + 1 < SegFrames
  /\ Skew + MaxMishaps <= QueueFrames

LEMMA BeginInt == \A s, t \in Int : Begin(s, t) \in Int
BY SegmentsAssumption DEF Begin

LEMMA BeginNext ==
  ASSUME NEW s \in Int, NEW t \in Int
  PROVE  /\ Begin(s, t) \in Int
         /\ Begin(s + 1, t) = Begin(s, t) + SegFrames
         /\ Begin(0, t) = t
BY SegmentsAssumption DEF Begin

LEMMA BeginGrows ==
  ASSUME NEW r \in Int, NEW s \in Int, NEW t \in Int, r < s
  PROVE  Begin(r + 1, t) <= Begin(s, t)
<1> DEFINE d == s - (r + 1)
<1>1. d \in Nat /\ SegFrames \in Nat /\ s = (r + 1) + d
  BY SegmentsAssumption
<1>2. d * SegFrames >= 0
  BY <1>1
<1>3. s * SegFrames = (r + 1) * SegFrames + d * SegFrames
  BY <1>1
<1> HIDE DEF d
<1> QED
  BY <1>1, <1>2, <1>3 DEF Begin

LEMMA BeginLater ==
  ASSUME NEW s \in Int, NEW t \in Int, NEW u \in Int, t <= u
  PROVE  Begin(s, t) <= Begin(s, u)
BY SegmentsAssumption DEF Begin

(* Later frames are of later segments, or of the same.                     *)
LEMMA SegmentsInOrder ==
  ASSUME NEW f \in Int, NEW g \in Int, NEW r \in Nat, NEW s \in Nat, NEW t \in Int,
         InSegment(f, r, t), InSegment(g, s, t), f <= g
  PROVE  r <= s
<1> SUFFICES ASSUME s < r PROVE FALSE
  OBVIOUS
<1>1. Begin(s + 1, t) <= Begin(r, t)
  BY BeginGrows
<1>2. f >= Begin(r, t) /\ g < Begin(s + 1, t)
  BY DEF InSegment
<1>3. Begin(s + 1, t) \in Int /\ Begin(r, t) \in Int
  BY BeginNext
<1> QED
  BY <1>1, <1>2, <1>3

-----------------------------------------------------------------------------
(* What one camera has sent.                                               *)

Entry(p) == [frame |-> p.frame, part |-> p.seg]

(* The packets on their way, q, are among the frames encoded, E, in their  *)
(* order.  A segment's first follows the last of the one before within k   *)
(* frames, and is a keyframe.                                              *)
Chain(q, E, t, k) ==
  /\ \A i \in 1 .. Len(q) : Entry(q[i]) \in E
  /\ \A i, j \in 1 .. Len(q) : i < j => q[i].frame < q[j].frame
  /\ \A i \in 1 .. Len(q) - 1 :
       /\ q[i + 1].frame <= Begin(q[i].seg + 1, t) + k
       /\ q[i + 1].seg # q[i].seg => q[i + 1].key

(* The next frame, or the oldest packet, loggerd has not read of c's.      *)
Upcoming(c) == IF sock[c] = <<>> THEN next[c] ELSE Head(sock[c]).frame

(* sync_encoders: where c is before it is synced, and the start it may yet *)
(* put off.                                                                *)
StartsInv(c) ==
  /\ pc[c] # "frame" => c \in alive /\ c \notin synced /\ next[c] <= clock
  /\ pc[c] = "count" => next[c] + 2 <= start
  /\ c \in ready => next[c] <= clock + 1
  /\ c \in ready /\ c \notin synced =>
       /\ next[c] <= start + skips
       /\ ready # Cameras \/ pc[c] # "frame" => next[c] + 1 <= start + skips
  /\ c \notin synced =>
       seg[c] = 0 /\ count[c] = 0 /\ sock[c] = <<>> /\ encoded[c] = {}
  /\ c \in alive => clock <= next[c] + Skew

(* The encoder is in the segment of the frame before the next.             *)
EncoderInv(c) ==
  /\ c \in synced => next[c] <= Begin(seg[c] + 1, start) + skips
  /\ seg[c] > 0 => next[c] > Begin(seg[c], start)
  /\ \A e \in encoded[c] : InSegment(e.frame, e.part, start) /\ e.frame < next[c]

SockInv(c) ==
  /\ Chain(sock[c], encoded[c], start, skips)
  /\ sock[c] # <<>> =>
       /\ sock[c][Len(sock[c])].seg = seg[c]
       /\ clock <= Head(sock[c]).frame + Skew

EInv ==
  /\ TypeOK
  /\ skips <= MaxMishaps
  /\ synced # {} => ready = Cameras
  /\ \A c \in Cameras : StartsInv(c) /\ EncoderInv(c) /\ SockInv(c)

LEMMA ChainTail ==
  ASSUME NEW q \in Seq(Packets), NEW E, NEW t, NEW k, Chain(q, E, t, k), q # <<>>
  PROVE  /\ Chain(Tail(q), E, t, k)
         /\ Tail(q) # <<>> =>
              /\ Tail(q)[Len(Tail(q))] = q[Len(q)]
              /\ Head(Tail(q)) = q[2] /\ Len(q) > 1
              /\ Head(q).frame < Head(Tail(q)).frame
              /\ Head(Tail(q)).frame <= Begin(Head(q).seg + 1, t) + k
              /\ Head(Tail(q)).seg # Head(q).seg => Head(Tail(q)).key
         /\ Tail(q) = <<>> => Head(q) = q[Len(q)]
<1>1. /\ Len(q) \in Nat \ {0} /\ Head(q) = q[1] /\ Tail(q) \in Seq(Packets)
      /\ Len(Tail(q)) = Len(q) - 1
      /\ \A i \in 1 .. Len(q) - 1 : Tail(q)[i] = q[i + 1]
  BY EmptySeq, HeadTailProperties
<1>2. Chain(Tail(q), E, t, k)
  BY <1>1 DEF Chain
<1>3. ASSUME Tail(q) # <<>>
      PROVE  /\ Tail(q)[Len(Tail(q))] = q[Len(q)]
             /\ Head(Tail(q)) = q[2] /\ Len(q) > 1
             /\ Head(q).frame < Head(Tail(q)).frame
             /\ Head(Tail(q)).frame <= Begin(Head(q).seg + 1, t) + k
             /\ Head(Tail(q)).seg # Head(q).seg => Head(Tail(q)).key
  <2>1. Len(q) > 1 /\ Head(Tail(q)) = Tail(q)[1]
    BY <1>1, <1>3, EmptySeq
  <2>2. Head(Tail(q)) = q[2] /\ Tail(q)[Len(Tail(q))] = q[Len(q)]
    BY <1>1, <2>1
  <2> QED
    BY <1>1, <2>1, <2>2 DEF Chain
<1>4. ASSUME Tail(q) = <<>> PROVE Head(q) = q[Len(q)]
  <2>1. Len(Tail(q)) = 0
    BY <1>4, EmptySeq
  <2>2. Len(q) - 1 = 0 /\ Len(q) \in Nat
    BY <1>1, <2>1
  <2>3. Len(q) = 1
    BY <2>2
  <2> QED
    BY <1>1, <2>3
<1> QED
  BY <1>2, <1>3, <1>4

LEMMA ChainAppend ==
  ASSUME NEW q \in Seq(Packets), NEW p \in Packets, NEW E, NEW F, NEW t, NEW k,
         Chain(q, E, t, k), E \subseteq F, Entry(p) \in F,
         \A i \in 1 .. Len(q) : q[i].frame < p.frame,
         q # <<>> => /\ p.frame <= Begin(q[Len(q)].seg + 1, t) + k
                     /\ p.seg # q[Len(q)].seg => p.key
  PROVE  /\ Chain(Append(q, p), F, t, k)
         /\ Append(q, p) # <<>>
         /\ Append(q, p)[Len(Append(q, p))] = p
         /\ Head(Append(q, p)) = IF q = <<>> THEN p ELSE Head(q)
<1> DEFINE a == Append(q, p)
<1>1. /\ Len(q) \in Nat /\ a \in Seq(Packets) /\ Len(a) = Len(q) + 1
      /\ \A i \in 1 .. Len(q) : a[i] = q[i]
      /\ a[Len(q) + 1] = p /\ a # <<>> /\ Head(a) = a[1]
  BY AppendProperties, LenProperties
<1>2. q # <<>> => Len(q) > 0 /\ Head(q) = q[1]
  BY EmptySeq
<1>3. q = <<>> => Len(q) = 0
  BY EmptySeq
<1> HIDE DEF a
<1>4. \A i \in 1 .. Len(a) : Entry(a[i]) \in F
  BY <1>1 DEF Chain
<1>5. \A i, j \in 1 .. Len(a) : i < j => a[i].frame < a[j].frame
  BY <1>1 DEF Chain
<1>6. ASSUME NEW i \in 1 .. Len(a) - 1
      PROVE  /\ a[i + 1].frame <= Begin(a[i].seg + 1, t) + k
             /\ a[i + 1].seg # a[i].seg => a[i + 1].key
  <2>1. CASE i = Len(q)
    BY <1>1, <1>3, <2>1
  <2>2. CASE i < Len(q)
    BY SMTT(30), <1>1, <2>2 DEF Chain
  <2> QED
    BY <1>1, <2>1, <2>2
<1>7. Chain(a, F, t, k)
  BY <1>4, <1>5, <1>6 DEF Chain
<1>8. Head(a) = IF q = <<>> THEN p ELSE Head(q)
  BY <1>1, <1>2, <1>3
<1> QED
  BY <1>1, <1>7, <1>8 DEF a

(* A start put off, and a frame dropped, only loosen the chain.            *)
LEMMA ChainLoosens ==
  ASSUME NEW q \in Seq(Packets), NEW E, NEW t \in Int, NEW u \in Int, NEW k \in Int,
         NEW l \in Int, t <= u, k <= l, Chain(q, E, t, k)
  PROVE  Chain(q, E, u, l)
<1>1. ASSUME NEW i \in 1 .. Len(q) - 1
      PROVE  q[i + 1].frame <= Begin(q[i].seg + 1, u) + l
  <2>1. q[i] \in Packets /\ q[i + 1] \in Packets
    BY LenProperties, ElementOfSeq
  <2>2. q[i].seg + 1 \in Int /\ q[i + 1].frame \in Int
    BY SMTT(30), <2>1 DEF Packets
  <2>3. Begin(q[i].seg + 1, t) <= Begin(q[i].seg + 1, u)
    BY <2>2, BeginLater
  <2>4. Begin(q[i].seg + 1, t) \in Int /\ Begin(q[i].seg + 1, u) \in Int
    BY <2>2, BeginNext
  <2>5. q[i + 1].frame <= Begin(q[i].seg + 1, t) + k
    BY DEF Chain
  <2> QED
    BY <2>2, <2>3, <2>4, <2>5
<1> QED
  BY <1>1 DEF Chain

-----------------------------------------------------------------------------
(* The encoders.                                                           *)

LEMMA ZeroIsKey == 0 % Gop = 0
BY SegmentsAssumption

LEMMA InitEInv == Init => EInv
<1> SUFFICES ASSUME Init PROVE EInv
  OBVIOUS
<1>1. TypeOK
  BY InitTypes
<1>2. skips <= MaxMishaps /\ synced = {}
  BY SegmentsAssumption DEF Init
<1>3. ASSUME NEW c \in Cameras
      PROVE  StartsInv(c) /\ EncoderInv(c) /\ SockInv(c)
  <2>1. /\ pc[c] = "frame" /\ c \notin ready /\ seg[c] = 0 /\ count[c] = 0
        /\ sock[c] = <<>> /\ encoded[c] = {} /\ c \notin synced
        /\ clock = 0 /\ next[c] \in Nat
    BY <1>1 DEF Init, TypeOK
  <2>2. StartsInv(c)
    BY <2>1, SegmentsAssumption DEF StartsInv
  <2>3. EncoderInv(c)
    BY <2>1 DEF EncoderInv
  <2>4. Len(sock[c]) = 0
    BY <2>1, EmptySeq
  <2>5. SockInv(c)
    BY <2>1, <2>4 DEF SockInv, Chain
  <2> QED
    BY <2>2, <2>3, <2>5
<1> QED
  BY <1>1, <1>2, <1>3 DEF EInv

(* While a thread may yet put the start off, no encoder has rolled over.   *)
LEMMA StartNotYetPassed ==
  ASSUME EInv, Paced, NEW c \in Cameras, pc[c] = "putOff", NEW d \in Cameras
  PROVE  seg[d] = 0 /\ \A e \in encoded[d] : e.part = 0
<1> USE DEF EInv
<1>1. CASE c \notin ready
  BY <1>1 DEF StartsInv
<1>2. CASE c \in ready /\ d \notin synced
  BY <1>2 DEF StartsInv
<1>3. CASE c \in ready /\ d \in synced
  <2>1. /\ c \in alive /\ c \notin synced /\ next[c] + 1 <= start + skips
        /\ clock <= next[c] + Skew /\ skips <= MaxMishaps
    BY <1>3 DEF StartsInv
  <2>2. d \in ready /\ next[d] <= clock + 1
    BY <1>3 DEF StartsInv
  <2>3. /\ clock \in Nat /\ next[c] \in Nat /\ next[d] \in Nat /\ skips \in Nat
        /\ start \in Nat /\ seg[d] \in Nat /\ SegFrames \in Nat
        /\ Skew \in Nat /\ MaxMishaps \in Nat
    BY SegmentsAssumption DEF TypeOK
  <2>4. Begin(1, start) = start + SegFrames
    BY <2>3, BeginNext
  <2>5. next[d] < Begin(1, start)
    BY <2>1, <2>2, <2>3, <2>4 DEF Paced
  <2>6. \A s \in Nat : s > 0 => Begin(1, start) <= Begin(s, start) /\ Begin(s, start) \in Int
    <3> SUFFICES ASSUME NEW s \in Nat, s > 0
                 PROVE  Begin(1, start) <= Begin(s, start) /\ Begin(s, start) \in Int
      OBVIOUS
    <3>1. Begin(0 + 1, start) <= Begin(s, start)
      BY <2>3, BeginGrows
    <3> QED
      BY <2>3, <3>1, BeginNext
  <2>7. seg[d] = 0
    BY <2>3, <2>4, <2>5, <2>6 DEF EncoderInv
  <2>8. ASSUME NEW e \in encoded[d] PROVE e.part = 0
    <3>1. e.frame \in Nat /\ e.part \in Nat
      BY SMTT(30) DEF TypeOK, Entries
    <3>2. InSegment(e.frame, e.part, start) /\ e.frame < next[d]
      BY DEF EncoderInv
    <3> QED
      BY <2>3, <2>4, <2>5, <2>6, <3>1, <3>2 DEF InSegment
  <2> QED
    BY <2>7, <2>8
<1> QED
  BY <1>1, <1>2, <1>3

(* The frame a thread encodes.                                             *)
LEMMA EncodesFacts ==
  ASSUME EInv, Paced, NEW c \in Cameras, Encodes(c)
  PROVE  /\ c \in alive /\ next[c] <= clock /\ c \in ready /\ ready = Cameras
         /\ pc[c] = "frame" /\ next' = [next EXCEPT ![c] = next[c] + 1]
         /\ next[c] <= Begin(seg[c] + 1, start) + skips
         /\ c \notin synced => seg'[c] = 0 /\ next[c] <= start + skips
         /\ InSegment(next[c], seg'[c], start)
         /\ seg'[c] \in Nat /\ (seg'[c] = seg[c] \/ seg'[c] = seg[c] + 1)
         /\ seg' = [seg EXCEPT ![c] = seg'[c]]
         /\ \E p \in Packets :
              /\ p.frame = next[c] /\ p.seg = seg'[c]
              /\ p.seg # seg[c] \/ c \notin synced => p.key
              /\ sock' = [sock EXCEPT ![c] = Append(sock[c], p)]
              /\ encoded' = [encoded EXCEPT ![c] = encoded[c] \cup {Entry(p)}]
<1>1. /\ c \in alive /\ next[c] <= clock /\ pc[c] = "frame"
      /\ c \in synced \/ (ready = Cameras /\ next[c] >= start)
      /\ next' = [next EXCEPT ![c] = next[c] + 1]
      /\ seg' = [seg EXCEPT ![c] = IF Rolls(c) THEN seg[c] + 1 ELSE seg[c]]
  BY DEF Encodes, HasFrame, Synced, NextFrame
<1>2. c \in ready /\ ready = Cameras
  BY <1>1 DEF EInv
<1>3. /\ clock \in Nat /\ next[c] \in Nat /\ skips \in Nat /\ start \in Nat
      /\ seg[c] \in Nat /\ SegFrames \in Nat /\ Skew \in Nat /\ MaxMishaps \in Nat
      /\ skips <= MaxMishaps /\ MaxMishaps < SegFrames
      /\ seg \in [Cameras -> Nat] /\ count[c] \in Nat
  BY SegmentsAssumption DEF TypeOK, EInv, Paced
<1>4. seg'[c] = IF Rolls(c) THEN seg[c] + 1 ELSE seg[c]
  BY <1>1, <1>3
<1>5. /\ Begin(seg[c], start) \in Int /\ Begin(seg[c] + 1, start) \in Int
      /\ Begin(seg[c] + 1, start) = Begin(seg[c], start) + SegFrames
      /\ Begin(seg[c] + 1 + 1, start) = Begin(seg[c] + 1, start) + SegFrames
      /\ Begin(0, start) = start
  <2>1. seg[c] + 1 \in Int
    BY <1>3
  <2>2. /\ Begin(seg[c] + 1, start) \in Int
        /\ Begin(seg[c] + 1 + 1, start) = Begin(seg[c] + 1, start) + SegFrames
    BY <1>3, <2>1 DEF Begin
  <2>3. /\ Begin(seg[c], start) \in Int /\ Begin(0, start) = start
        /\ Begin(seg[c] + 1, start) = Begin(seg[c], start) + SegFrames
    BY <1>3 DEF Begin
  <2> QED
    BY <2>2, <2>3
<1>6. c \notin synced => seg[c] = 0 /\ next[c] <= start + skips /\ count[c] = 0
  BY <1>2 DEF EInv, StartsInv
<1>7. next[c] <= Begin(seg[c] + 1, start) + skips
  BY <1>3, <1>5, <1>6 DEF EInv, EncoderInv
<1>8. Rolls(c) <=> next[c] >= Begin(seg[c] + 1, start)
  BY DEF Rolls, Begin
<1>9. c \notin synced => seg'[c] = 0 /\ ~Rolls(c)
  BY <1>3, <1>4, <1>5, <1>6, <1>8
<1>10. InSegment(next[c], seg'[c], start)
  <2>1. CASE Rolls(c)
    BY <1>3, <1>4, <1>5, <1>7, <1>8, <2>1 DEF InSegment
  <2>2. CASE ~Rolls(c)
    <3>1. seg[c] > 0 => next[c] > Begin(seg[c], start)
      BY DEF EInv, EncoderInv
    <3> QED
      BY <1>3, <1>4, <1>5, <1>8, <2>2, <3>1 DEF InSegment
  <2> QED
    BY <2>1, <2>2
<1> DEFINE i == IF Rolls(c) THEN 0 ELSE count[c]
           p == [frame |-> next[c], seg |-> seg'[c], key |-> i % Gop = 0]
<1>11. seg'[c] \in Nat /\ (seg'[c] = seg[c] \/ seg'[c] = seg[c] + 1)
  BY <1>3, <1>4
<1>12. p \in Packets /\ p.frame = next[c] /\ p.seg = seg'[c]
       /\ Entry(p) = [frame |-> next[c], part |-> seg'[c]]
  BY <1>3, <1>11 DEF Packets, Entry
<1>13. p.seg # seg[c] \/ c \notin synced => p.key
  <2>1. p.seg # seg[c] \/ c \notin synced => i = 0
    BY <1>4, <1>6, <1>12
  <2>2. p.key = (i % Gop = 0)
    OBVIOUS
  <2> QED
    BY <2>1, <2>2, ZeroIsKey
<1>14. /\ sock' = [sock EXCEPT ![c] = Append(sock[c], p)]
       /\ encoded' = [encoded EXCEPT ![c] = encoded[c] \cup {Entry(p)}]
  BY <1>12 DEF Encodes
<1>15. seg' = [seg EXCEPT ![c] = seg'[c]]
  BY <1>1, <1>3
<1> HIDE DEF p
<1> QED
  BY <1>1, <1>2, <1>6, <1>7, <1>9, <1>10, <1>11, <1>12, <1>13, <1>14, <1>15

(* The steps of encoder_thread keep the encoders in step.                  *)
LEMMA EncodesKeeps ==
  ASSUME EInv, Paced, NEW c \in Cameras, Encodes(c)
  PROVE  EInv'
<1>1. /\ c \in alive /\ next[c] <= clock /\ c \in ready /\ ready = Cameras
      /\ pc[c] = "frame" /\ next' = [next EXCEPT ![c] = next[c] + 1]
      /\ next[c] <= Begin(seg[c] + 1, start) + skips
      /\ InSegment(next[c], seg'[c], start)
      /\ seg'[c] \in Nat /\ (seg'[c] = seg[c] \/ seg'[c] = seg[c] + 1)
      /\ seg' = [seg EXCEPT ![c] = seg'[c]]
  BY EncodesFacts
<1>2. PICK p \in Packets :
        /\ p.frame = next[c] /\ p.seg = seg'[c]
        /\ p.seg # seg[c] \/ c \notin synced => p.key
        /\ sock' = [sock EXCEPT ![c] = Append(sock[c], p)]
        /\ encoded' = [encoded EXCEPT ![c] = encoded[c] \cup {Entry(p)}]
  BY EncodesFacts
<1>3. TypeOK' /\ TypeOK
  BY EncoderTypes DEF Encoder, EInv
<1>4. /\ UNCHANGED <<clock, alive, skips, pc, start, ready>>
      /\ synced' = synced \cup {c}
      /\ \A d \in Cameras : d # c => count'[d] = count[d]
  BY <1>3 DEF Encodes, worldVars, TypeOK
<1>5. /\ \A d \in Cameras : d # c =>
           next'[d] = next[d] /\ seg'[d] = seg[d] /\ sock'[d] = sock[d]
           /\ encoded'[d] = encoded[d]
      /\ next'[c] = next[c] + 1 /\ sock'[c] = Append(sock[c], p)
      /\ encoded'[c] = encoded[c] \cup {Entry(p)}
  BY <1>1, <1>2, <1>3 DEF TypeOK
<1>6. /\ clock \in Nat /\ next[c] \in Nat /\ skips \in Nat /\ start \in Nat
      /\ seg[c] \in Nat /\ sock[c] \in Seq(Packets) /\ SegFrames \in Nat \ {0}
      /\ Skew \in Nat
  BY <1>3, SegmentsAssumption DEF TypeOK
<1>7. StartsInv(c)'
  BY SMTT(30), <1>1, <1>4, <1>5, <1>6 DEF StartsInv, EInv
<1>8. EncoderInv(c)'
  <2>1. /\ Begin(seg[c] + 1, start) \in Int /\ Begin(seg'[c], start) \in Int
        /\ Begin(seg'[c] + 1, start) = Begin(seg'[c], start) + SegFrames
    <3>1. seg'[c] \in Int /\ seg[c] + 1 \in Int /\ start \in Int /\ SegFrames \in Int
      BY <1>1, <1>6
    <3> QED
      BY <3>1 DEF Begin
  <2>2. next[c] + 1 <= Begin(seg'[c] + 1, start) + skips
    BY SMTT(30), <1>1, <1>6, <2>1 DEF InSegment
  <2>3. seg'[c] > 0 => next[c] + 1 > Begin(seg'[c], start)
    BY <1>1, <1>6, <2>1 DEF InSegment
  <2>4. \A e \in encoded[c] : InSegment(e.frame, e.part, start) /\ e.frame < next[c] + 1
    <3>1. \A e \in encoded[c] : e.frame \in Nat
      BY <1>3 DEF TypeOK, Entries
    <3> QED
      BY <1>6, <3>1 DEF EInv, EncoderInv
  <2>5. InSegment(Entry(p).frame, Entry(p).part, start) /\ Entry(p).frame < next[c] + 1
    BY <1>1, <1>2, <1>6 DEF Entry
  <2> QED
    BY <1>4, <1>5, <2>2, <2>3, <2>4, <2>5 DEF EncoderInv
<1>9. SockInv(c)'
  <2>1. Chain(sock[c], encoded[c], start, skips)
    BY DEF EInv, SockInv
  <2>2. \A i \in 1 .. Len(sock[c]) : sock[c][i].frame < p.frame
    BY <1>2, <2>1 DEF Chain, Entry, EInv, EncoderInv
  <2>3. ASSUME sock[c] # <<>>
        PROVE  /\ sock[c][Len(sock[c])].seg = seg[c] /\ c \in synced
               /\ clock <= Head(sock[c]).frame + Skew
    BY <2>3 DEF EInv, SockInv, StartsInv
  <2>4. /\ Chain(sock'[c], encoded'[c], start, skips)
        /\ sock'[c][Len(sock'[c])] = p
        /\ Head(sock'[c]) = IF sock[c] = <<>> THEN p ELSE Head(sock[c])
    <3>1. sock[c] # <<>> => /\ p.frame <= Begin(sock[c][Len(sock[c])].seg + 1, start) + skips
                            /\ p.seg # sock[c][Len(sock[c])].seg => p.key
      BY <1>1, <1>2, <2>3
    <3>2. Chain(Append(sock[c], p), encoded'[c], start, skips)
          /\ Append(sock[c], p)[Len(Append(sock[c], p))] = p
          /\ Head(Append(sock[c], p)) = IF sock[c] = <<>> THEN p ELSE Head(sock[c])
      BY SMTT(30), <1>5, <1>6, <2>1, <2>2, <3>1, ChainAppend
    <3> QED
      BY <1>5, <3>2
  <2>5. clock <= next[c] + Skew
    BY <1>1 DEF EInv, StartsInv
  <2> QED
    BY <1>2, <1>4, <2>3, <2>4, <2>5 DEF SockInv
<1>10. ASSUME NEW d \in Cameras, d # c
       PROVE  StartsInv(d)' /\ EncoderInv(d)' /\ SockInv(d)'
  BY <1>4, <1>5, <1>10 DEF EInv, StartsInv, EncoderInv, SockInv
<1> QED
  BY <1>1, <1>3, <1>4, <1>7, <1>8, <1>9, <1>10 DEF EInv

(* A dropped frame is one more for the others to follow.                   *)
LEMMA SkipsKeeps ==
  ASSUME EInv, NEW c \in Cameras, Skips(c)
  PROVE  EInv'
<1>1. TypeOK' /\ TypeOK
  BY EncoderTypes DEF EInv
<1>2. /\ c \in alive /\ next[c] <= clock /\ pc[c] = "frame"
      /\ skips' = skips + 1 /\ next'[c] = next[c] + 1
      /\ \A d \in Cameras : d # c => next'[d] = next[d]
      /\ UNCHANGED <<clock, alive, pc, start, ready, synced, seg, count, encoded, sock>>
  BY <1>1 DEF Skips, HasFrame, NextFrame, TypeOK
<1>3. skips' <= MaxMishaps
  <2>1. IsFiniteSet(Cameras \ alive)
    BY SegmentsAssumption, FS_Difference
  <2>2. Cardinality(Cameras \ alive) \in Nat
    BY <2>1, FS_CardinalityType
  <2>3. skips + Cardinality(Cameras \ alive) < MaxMishaps
    BY DEF Skips, Mishap
  <2>4. skips \in Nat /\ MaxMishaps \in Nat
    BY <1>1, SegmentsAssumption DEF TypeOK
  <2> QED
    BY <1>2, <2>2, <2>3, <2>4
<1>4. ASSUME NEW d \in Cameras
      PROVE  StartsInv(d)' /\ EncoderInv(d)' /\ SockInv(d)'
  <2>1. /\ clock \in Nat /\ next[d] \in Nat /\ next'[d] \in Nat /\ skips \in Nat
        /\ start \in Nat /\ seg[d] \in Nat /\ Skew \in Nat
        /\ next'[d] \in {next[d], next[d] + 1}
    <3>1. next'[d] \in {next[d], next[d] + 1}
      BY <1>2
    <3> QED
      BY <1>1, <3>1, SegmentsAssumption DEF TypeOK
  <2>2. StartsInv(d) /\ EncoderInv(d) /\ SockInv(d)
    BY DEF EInv
  <2>3. StartsInv(d)'
    <3>1. CASE d = c
      <4>1. /\ pc[c] = "frame" /\ pc' = pc /\ next'[c] = next[c] + 1 /\ skips' = skips + 1
            /\ next[c] <= clock /\ clock' = clock
        BY <1>2
      <4>2. c \in ready' => next'[c] <= clock' + 1
        BY <2>1, <3>1, <4>1
      <4>3. c \in ready' /\ c \notin synced' =>
              /\ next'[c] <= start' + skips'
              /\ ready' # Cameras \/ pc'[c] # "frame" => next'[c] + 1 <= start' + skips'
        BY <1>2, <2>1, <2>2, <3>1, <4>1 DEF StartsInv
      <4>4. c \in alive' => clock' <= next'[c] + Skew
        BY <1>2, <2>1, <2>2, <3>1, <4>1 DEF StartsInv
      <4> QED
        BY <1>2, <2>2, <3>1, <4>1, <4>2, <4>3, <4>4 DEF StartsInv
    <3>2. CASE d # c
      BY <1>2, <2>1, <2>2, <3>2 DEF StartsInv
    <3> QED
      BY <3>1, <3>2
  <2>4. EncoderInv(d)'
    <3>1. \A e \in encoded[d] : e.frame \in Nat
      BY <1>1 DEF TypeOK, Entries
    <3>2. Begin(seg[d], start) \in Int /\ Begin(seg[d] + 1, start) \in Int
      BY <2>1, SegmentsAssumption DEF Begin
    <3> QED
      BY <1>2, <2>1, <2>2, <3>1, <3>2 DEF EncoderInv
  <2>5. SockInv(d)'
    <3>1. sock[d] \in Seq(Packets) /\ skips + 1 \in Int
      BY <1>1 DEF TypeOK
    <3>2. Chain(sock[d], encoded[d], start, skips + 1)
      BY <2>1, <2>2, <3>1, ChainLoosens DEF SockInv
    <3> QED
      BY <1>2, <2>2, <3>2 DEF SockInv
  <2> QED
    BY <2>3, <2>4, <2>5
<1> QED
  BY <1>1, <1>2, <1>3, <1>4 DEF EInv

(* The start is put off while every encoder is in its first segment.       *)
LEMMA PutsOffKeeps ==
  ASSUME EInv, Paced, NEW c \in Cameras, PutsOffStart(c)
  PROVE  EInv'
<1>1. TypeOK' /\ TypeOK
  BY EncoderTypes DEF Encoder, EInv
<1>2. /\ pc[c] = "putOff" /\ pc'[c] = "count"
      /\ \A d \in Cameras : d # c => pc'[d] = pc[d]
      /\ UNCHANGED <<clock, alive, skips, next, ready, synced, seg, count, encoded, sock>>
  BY <1>1 DEF PutsOffStart, TypeOK, worldVars
<1>3. start <= start' /\ next[c] + 2 <= start'
  BY <1>1, PutOffFacts
<1>4. ASSUME NEW d \in Cameras
      PROVE  StartsInv(d)' /\ EncoderInv(d)' /\ SockInv(d)'
  <2>1. /\ clock \in Nat /\ next[d] \in Nat /\ next[c] \in Nat /\ skips \in Nat
        /\ start \in Nat /\ start' \in Nat /\ seg[d] \in Nat /\ Skew \in Nat
    BY <1>1, SegmentsAssumption DEF TypeOK
  <2>2. StartsInv(d) /\ EncoderInv(d) /\ SockInv(d) /\ StartsInv(c)
    BY DEF EInv
  <2>3. seg[d] = 0 /\ \A e \in encoded[d] : e.part = 0
    BY <1>2, StartNotYetPassed
  <2>4. /\ Begin(1, start) \in Int /\ Begin(1, start') \in Int
        /\ Begin(1, start) <= Begin(1, start')
    <3>1. 1 \in Int /\ start \in Int /\ start' \in Int /\ start <= start'
      BY <1>3, <2>1
    <3>2. Begin(1, start) <= Begin(1, start')
      BY <3>1, BeginLater
    <3> QED
      BY <3>1, <3>2, BeginInt
  <2>5. StartsInv(d)'
    <3>1. CASE d = c
      BY <1>2, <1>3, <2>1, <2>2, <3>1 DEF StartsInv
    <3>2. CASE d # c
      BY SMTT(30), <1>2, <1>3, <2>1, <2>2, <3>2 DEF StartsInv
    <3> QED
      BY <3>1, <3>2
  <2>6. EncoderInv(d)'
    <3>1. ASSUME NEW e \in encoded[d]
          PROVE  e.frame \in Nat /\ e.frame < Begin(1, start)
      <4>1. e.frame \in Nat /\ e.part = 0 /\ InSegment(e.frame, e.part, start)
        BY <1>1, <2>2, <2>3 DEF TypeOK, Entries, EncoderInv
      <4>2. InSegment(e.frame, 0, start) /\ 0 + 1 = 1
        BY <4>1
      <4> QED
        BY <4>1, <4>2 DEF InSegment
    <3>2. \A e \in encoded[d] : InSegment(e.frame, e.part, start')
      BY <2>3, <2>4, <3>1 DEF InSegment
    <3>3. d \in synced => next[d] <= Begin(1, start') + skips
      BY <2>1, <2>2, <2>3, <2>4 DEF EncoderInv
    <3> QED
      BY <1>2, <2>2, <2>3, <3>2, <3>3 DEF EncoderInv
  <2>7. SockInv(d)'
    <3>1. sock[d] \in Seq(Packets)
      BY <1>1 DEF TypeOK
    <3>2. Chain(sock[d], encoded[d], start', skips)
      BY <1>3, <2>1, <2>2, <3>1, ChainLoosens DEF SockInv
    <3> QED
      BY <1>2, <2>2, <3>2 DEF SockInv
  <2> QED
    BY <2>5, <2>6, <2>7
<1> QED
  BY <1>1, <1>2, <1>4 DEF EInv

LEMMA SyncKeeps ==
  ASSUME EInv, NEW c \in Cameras, FindsOthersMissing(c) \/ Counts(c) \/ AwaitsStart(c)
  PROVE  EInv'
<1>1. TypeOK' /\ TypeOK
  BY EncoderTypes DEF Encoder, EInv
<1>2. UNCHANGED <<clock, alive, skips, start, synced, seg, count, encoded, sock>>
  BY DEF FindsOthersMissing, Counts, AwaitsStart, worldVars
<1>3. /\ \A d \in Cameras : d # c => pc'[d] = pc[d] /\ next'[d] = next[d]
      /\ next'[c] \in {next[c], next[c] + 1} /\ ready \subseteq ready'
      /\ ready' \subseteq ready \cup {c} /\ c \notin synced
  <2>1. StartsInv(c)
    BY DEF EInv
  <2>2. CASE FindsOthersMissing(c)
    BY <1>1, <2>2 DEF FindsOthersMissing, TypeOK
  <2>3. CASE Counts(c)
    BY <1>1, <2>1, <2>3 DEF Counts, NextFrame, TypeOK, StartsInv
  <2>4. CASE AwaitsStart(c)
    BY <1>1, <2>4 DEF AwaitsStart, NextFrame, TypeOK, Synced
  <2> QED
    BY <2>2, <2>3, <2>4
<1>4. /\ clock \in Nat /\ skips \in Nat /\ start \in Nat /\ Skew \in Nat
      /\ next[c] \in Nat /\ next'[c] \in Nat
  BY <1>1, SegmentsAssumption DEF TypeOK
<1>5. StartsInv(c)'
  <2>1. StartsInv(c)
    BY DEF EInv
  <2>2. CASE FindsOthersMissing(c)
    <3>1. /\ c \in alive /\ next[c] <= clock /\ ready # Cameras /\ next' = next
          /\ pc'[c] = "putOff" /\ ready' = ready /\ pc[c] = "frame"
      BY <1>1, <2>2 DEF FindsOthersMissing, HasFrame, TypeOK
    <3> QED
      BY <1>2, <1>3, <1>4, <2>1, <3>1 DEF StartsInv
  <2>3. CASE Counts(c)
    <3>1. /\ pc[c] = "count" /\ pc'[c] = "frame" /\ next'[c] = next[c] + 1
          /\ ready' = ready \cup {c}
      BY <1>1, <2>3 DEF Counts, NextFrame, TypeOK
    <3> QED
      BY SMTT(30), <1>2, <1>3, <1>4, <2>1, <3>1 DEF StartsInv
  <2>4. CASE AwaitsStart(c)
    <3>1. /\ c \in alive /\ next[c] <= clock /\ ready = Cameras /\ next[c] < start
          /\ pc'[c] = "frame" /\ ready' = ready /\ next'[c] = next[c] + 1
      BY <1>1, <1>4, <2>4 DEF AwaitsStart, NextFrame, HasFrame, Synced, TypeOK
    <3> QED
      BY <1>2, <1>3, <1>4, <2>1, <3>1 DEF StartsInv
  <2> QED
    BY <2>2, <2>3, <2>4
<1>6. EncoderInv(c)' /\ SockInv(c)'
  <2>1. /\ seg[c] = 0 /\ encoded[c] = {}
        /\ EncoderInv(c) /\ SockInv(c)
    BY <1>3 DEF EInv, StartsInv
  <2>2. SockInv(c)'
    BY <1>2, <2>1 DEF SockInv
  <2>3. EncoderInv(c)'
    BY <1>2, <1>3, <2>1 DEF EncoderInv
  <2> QED
    BY <2>2, <2>3
<1>7. ASSUME NEW d \in Cameras, d # c
      PROVE  StartsInv(d)' /\ EncoderInv(d)' /\ SockInv(d)'
  BY <1>2, <1>3, <1>7 DEF EInv, StartsInv, EncoderInv, SockInv
<1>8. synced' # {} => ready' = Cameras
  BY <1>1, <1>2, <1>3 DEF EInv, TypeOK
<1> QED
  BY <1>1, <1>2, <1>5, <1>6, <1>7, <1>8 DEF EInv

LEMMA WorldKeeps ==
  ASSUME EInv, NEW c \in Cameras, Dies(c) \/ Tick
  PROVE  EInv'
<1>1. TypeOK' /\ TypeOK
  BY EncoderTypes DEF Encoder, EInv
<1>2. /\ UNCHANGED <<skips, pc, next, start, ready, synced, seg, count, encoded, sock>>
      /\ alive' \subseteq alive
  BY DEF Dies, Tick, encoderVars
<1>3. ASSUME NEW d \in Cameras
      PROVE  StartsInv(d)' /\ EncoderInv(d)' /\ SockInv(d)'
  <2>1. clock \in Nat /\ next[d] \in Nat /\ Skew \in Nat
    BY <1>1, SegmentsAssumption DEF TypeOK
  <2>2. StartsInv(d) /\ EncoderInv(d) /\ SockInv(d)
    BY DEF EInv
  <2>3. CASE Dies(c)
    <3>1. clock' = clock /\ pc[c] = "frame" /\ alive' = alive \ {c}
      BY <2>3 DEF Dies
    <3> QED
      BY <1>2, <2>2, <3>1 DEF StartsInv, EncoderInv, SockInv
  <2>4. CASE Tick
    <3>1. /\ clock' = clock + 1 /\ alive' = alive
          /\ d \in alive => next[d] + Skew > clock
          /\ sock[d] # <<>> => Head(sock[d]).frame + Skew > clock
      BY <2>4 DEF Tick
    <3>2. sock[d] # <<>> => Head(sock[d]).frame \in Nat
      <4>1. sock[d] \in Seq(Packets)
        BY <1>1 DEF TypeOK
      <4>2. sock[d] # <<>> => Head(sock[d]) \in Packets
        BY <4>1, HeadTailProperties
      <4> QED
        BY <4>2 DEF Packets
    <3>3. StartsInv(d)'
      BY <1>2, <2>1, <2>2, <3>1 DEF StartsInv
    <3> QED
      BY <1>2, <2>1, <2>2, <3>1, <3>2, <3>3 DEF EncoderInv, SockInv
  <2> QED
    BY <2>3, <2>4
<1> QED
  BY <1>1, <1>2, <1>3 DEF EInv

(* loggerd takes packets off the sockets and leaves the encoders alone.    *)
LEMMA LoggerKeeps ==
  ASSUME EInv, Logger
  PROVE  EInv'
<1>1. TypeOK' /\ TypeOK
  BY LoggerTypes DEF EInv
<1>2. UNCHANGED <<clock, alive, skips, pc, next, start, ready, synced, seg, count, encoded>>
  BY DEF Logger, HearsOthers, Writes, Queues, Recounts, Receives, worldVars, encoderVars
<1>3. ASSUME NEW d \in Cameras
      PROVE  sock'[d] = sock[d] \/ (sock[d] # <<>> /\ sock'[d] = Tail(sock[d]))
  BY <1>1 DEF Logger, HearsOthers, Writes, Queues, Recounts, Receives, TypeOK
<1>4. ASSUME NEW d \in Cameras
      PROVE  SockInv(d)'
  <2>1. SockInv(d)
    BY DEF EInv
  <2>2. CASE sock'[d] = sock[d]
    BY <1>2, <2>1, <2>2 DEF SockInv
  <2>3. CASE sock[d] # <<>> /\ sock'[d] = Tail(sock[d])
    <3>1. sock[d] \in Seq(Packets) /\ Tail(sock[d]) \in Seq(Packets)
      BY <1>1, <2>3, HeadTailProperties DEF TypeOK
    <3>2. /\ Chain(Tail(sock[d]), encoded[d], start, skips)
          /\ Tail(sock[d]) # <<>> =>
               /\ Tail(sock[d])[Len(Tail(sock[d]))] = sock[d][Len(sock[d])]
               /\ Head(sock[d]).frame < Head(Tail(sock[d])).frame
      BY <2>1, <2>3, <3>1, ChainTail DEF SockInv
    <3>3. Tail(sock[d]) # <<>> =>
            Head(sock[d]).frame \in Nat /\ Head(Tail(sock[d])).frame \in Nat
      <4>1. Head(sock[d]) \in Packets
        BY <2>3, <3>1, HeadTailProperties
      <4>2. Tail(sock[d]) # <<>> => Head(Tail(sock[d])) \in Packets
        BY <3>1, HeadTailProperties
      <4> QED
        BY <4>1, <4>2 DEF Packets
    <3>4. clock \in Nat /\ Skew \in Nat
      BY <1>1, SegmentsAssumption DEF TypeOK
    <3>5. clock <= Head(sock[d]).frame + Skew /\ sock[d][Len(sock[d])].seg = seg[d]
      BY <2>1, <2>3 DEF SockInv
    <3>6. Tail(sock[d]) # <<>> => clock <= Head(Tail(sock[d])).frame + Skew
      BY SMTT(30), <3>2, <3>3, <3>4, <3>5
    <3> DEFINE q == Tail(sock[d])
    <3>7. sock'[d] = q
      BY <2>3
    <3>8. /\ Chain(q, encoded[d], start, skips)
          /\ q # <<>> => q[Len(q)].seg = seg[d] /\ clock <= Head(q).frame + Skew
      BY <3>2, <3>5, <3>6
    <3> HIDE DEF q
    <3> QED
      BY <1>2, <3>7, <3>8 DEF SockInv
  <2> QED
    BY <1>3, <2>2, <2>3
<1>5. ASSUME NEW d \in Cameras
      PROVE  StartsInv(d)' /\ EncoderInv(d)'
  <2>1. StartsInv(d) /\ EncoderInv(d)
    BY DEF EInv
  <2>2. sock[d] = <<>> => sock'[d] = <<>>
    BY <1>3
  <2> QED
    BY <1>2, <2>1, <2>2 DEF StartsInv, EncoderInv
<1> QED
  BY <1>1, <1>2, <1>4, <1>5 DEF EInv

LEMMA NextEInv == EInv /\ Paced /\ [Next]_vars => EInv'
<1> SUFFICES ASSUME EInv, Paced, [Next]_vars PROVE EInv'
  OBVIOUS
<1>1. CASE \E c \in Cameras : Encoder(c) \/ Skips(c) \/ Dies(c)
  BY <1>1, EncodesKeeps, SkipsKeeps, PutsOffKeeps, SyncKeeps, WorldKeeps DEF Encoder
<1>2. CASE Logger
  BY <1>2, LoggerKeeps
<1>3. CASE Tick
  <2>1. PICK c \in Cameras : TRUE
    BY SegmentsAssumption, FS_EmptySet
  <2> QED
    BY <1>3, <2>1, WorldKeeps
<1>4. CASE UNCHANGED vars
  <2>1. TypeOK'
    BY <1>4, NextTypes DEF EInv
  <2> QED
    BY <1>4, <2>1
    DEF vars, worldVars, encoderVars, loggerVars, EInv, StartsInv, EncoderInv, SockInv
<1> QED
  BY <1>1, <1>2, <1>3, <1>4 DEF Next

(* The encoders agree on the segment of a frame.                           *)
EncodersAgree ==
  \A c, d \in Cameras : \A e \in encoded[c], f \in encoded[d] :
    e.frame = f.frame => e.part = f.part

LEMMA EInvAgree == EInv => EncodersAgree
<1> SUFFICES ASSUME EInv, NEW c \in Cameras, NEW d \in Cameras,
                    NEW e \in encoded[c], NEW f \in encoded[d], e.frame = f.frame
             PROVE  e.part = f.part
  BY DEF EncodersAgree
<1>1. e \in Entries /\ f \in Entries /\ start \in Nat
  BY DEF EInv, TypeOK
<1>2. InSegment(e.frame, e.part, start) /\ InSegment(f.frame, f.part, start)
  BY DEF EInv, EncoderInv
<1>3. e.part <= f.part /\ f.part <= e.part
  BY <1>1, <1>2, SegmentsInOrder DEF Entries
<1> QED
  BY <1>1, <1>3 DEF Entries

(* However the threads start, race for the common start (encoderd.cc:37),  *)
(* drop frames and die, and whatever loggerd does: two cameras' encoders   *)
(* give a frame the same segment.                                          *)
THEOREM CamerasAgree ==
  ASSUME Paced
  PROVE  Spec => []EncodersAgree
<1>1. Init => EInv
  BY InitEInv
<1>2. EInv /\ [Next]_vars => EInv'
  BY NextEInv
<1>3. EInv => EncodersAgree
  BY EInvAgree
<1> QED
  BY <1>1, <1>2, <1>3, PTL DEF Spec

-----------------------------------------------------------------------------
(* The log, until a rotation is forced.                                    *)

(* Cameras whose encoder has rolled over, as the log must: those the count *)
(* ready_to_rotate is of.                                                  *)
Ahead(c) == c \in met /\ c \in marked /\ current[c] = part

(* c has not been heard of.  Its first packet is of segment 0, and the log *)
(* does not rotate before it unless it can send none.                      *)
UnmetInv(c) ==
  /\ queue[c] = <<>> /\ recorded[c] = {} /\ c \notin marked /\ current[c] = -1
  /\ sock[c] = <<>> => c \notin synced
  /\ sock[c] # <<>> => Head(sock[c]).frame <= start + skips /\ Head(sock[c]).key
  /\ part > 0 => c \notin alive /\ c \notin synced

(* c's packets go into the log's segment.                                  *)
WritingInv(c) ==
  /\ current[c] = part /\ c \in recording /\ queue[c] = <<>>
  /\ sock[c] = <<>> => seg[c] = part
  /\ sock[c] # <<>> =>
       /\ Head(sock[c]).frame <= Begin(part + 1, start) + skips
       /\ Head(sock[c]).seg >= part
       /\ Head(sock[c]).seg # part => Head(sock[c]).key

(* c's packets wait for the log to rotate, from the segment's first on.    *)
AheadInv(c) ==
  /\ queue[c] # <<>> /\ Head(queue[c]).key
  /\ \A i \in 1 .. Len(queue[c]) : queue[c][i].seg > part
  /\ sock[c] = <<>> => seg[c] > part
  /\ sock[c] # <<>> => Head(sock[c]).seg > part

(* The log has rotated; c's mark is still there, and its next packet is of *)
(* the segment the log is in now.                                          *)
StaleInv(c) ==
  /\ part > 0
  /\ queue[c] # <<>> /\ Head(queue[c]).key
  /\ \A i \in 1 .. Len(queue[c]) : queue[c][i].seg = part
  /\ sock[c] = <<>> => seg[c] = part
  /\ sock[c] # <<>> => Head(sock[c]).seg = part
  /\ Upcoming(c) <= Begin(part, start) + Skew + 1 + skips

(* The packets that wait are older than those to come, and no closer to    *)
(* each other than frames are.                                             *)
QueueInv(c) ==
  \A i \in 1 .. Len(queue[c]) :
    /\ Entry(queue[c][i]) \in encoded[c]
    /\ queue[c][i].frame < Upcoming(c)
    /\ queue[c][i].frame >= queue[c][1].frame + i - 1

LogInv(c) ==
  /\ offset[c] = 0 /\ current[c] <= part /\ recorded[c] \subseteq encoded[c]
  /\ QueueInv(c)
  /\ c \notin met => UnmetInv(c)
  /\ c \in met => c \in synced
  /\ c \in met /\ c \notin marked => WritingInv(c)
  /\ Ahead(c) => AheadInv(c)
  /\ c \in met /\ c \in marked /\ current[c] # part => StaleInv(c)

(* The count is right, and the log has rotated if all are ready.           *)
CountInv ==
  /\ waiting = Cardinality({c \in met : Ahead(c)})
  /\ met # {} => \E c \in met : ~Ahead(c)

LInv == CountInv /\ \A c \in Cameras : LogInv(c)

(* What is encoded is recorded, or waits.                                  *)
Kept(c) ==
  \A e \in encoded[c] :
    \/ e \in recorded[c]
    \/ \E i \in 1 .. Len(sock[c]) : sock[c][i].frame = e.frame
    \/ \E i \in 1 .. Len(queue[c]) : queue[c][i].frame = e.frame

KInv == alive = Cameras => \A c \in Cameras : Kept(c)

LEMMA InitLInv == Init => LInv /\ KInv
<1> SUFFICES ASSUME Init PROVE LInv /\ KInv
  OBVIOUS
<1>1. TypeOK /\ part = 0 /\ met = {} /\ waiting = 0
  BY InitTypes DEF Init
<1>2. ASSUME NEW c \in Cameras
      PROVE  LogInv(c) /\ Kept(c)
  <2>1. /\ sock[c] = <<>> /\ queue[c] = <<>> /\ recorded[c] = {} /\ encoded[c] = {}
        /\ current[c] = -1 /\ offset[c] = 0 /\ c \notin synced /\ c \notin marked
        /\ c \notin met
    BY DEF Init
  <2>2. Len(queue[c]) = 0
    BY <2>1, EmptySeq
  <2> QED
    BY <1>1, <2>1, <2>2 DEF LogInv, QueueInv, UnmetInv, Ahead, Kept
<1>3. CountInv
  <2>1. {c \in met : Ahead(c)} = {}
    BY <1>1
  <2> QED
    BY <1>1, <2>1, FS_EmptySet DEF CountInv
<1> QED
  BY <1>2, <1>3 DEF LInv, KInv

-----------------------------------------------------------------------------
(* The packet loggerd reads.                                               *)

(* A frame encoded has been taken.                                         *)
LEMMA EncodedFacts ==
  ASSUME EInv, NEW c \in Cameras, NEW e \in encoded[c]
  PROVE  /\ e \in Entries /\ c \in synced /\ c \in ready /\ ready = Cameras
         /\ InSegment(e.frame, e.part, start)
         /\ e.frame < next[c] /\ next[c] <= clock + 1 /\ e.frame <= clock
<1>1. e \in Entries /\ c \in synced /\ clock \in Nat /\ next[c] \in Nat
  BY DEF EInv, TypeOK, StartsInv
<1>2. c \in ready /\ ready = Cameras /\ next[c] <= clock + 1
  BY <1>1 DEF EInv, StartsInv
<1>3. InSegment(e.frame, e.part, start) /\ e.frame < next[c]
  BY DEF EInv, EncoderInv
<1> QED
  BY <1>1, <1>2, <1>3 DEF Entries

LEMMA HeadFacts ==
  ASSUME EInv, NEW c \in Cameras, sock[c] # <<>>
  PROVE  LET k == Head(sock[c]) IN
         /\ k \in Packets /\ Entry(k) \in encoded[c] /\ c \in synced
         /\ InSegment(k.frame, k.seg, start)
         /\ k.frame < next[c] /\ k.frame <= clock /\ clock <= k.frame + Skew
<1>1. sock[c] \in Seq(Packets)
  BY DEF EInv, TypeOK
<1>2. Head(sock[c]) \in Packets /\ Len(sock[c]) \in Nat \ {0} /\ Head(sock[c]) = sock[c][1]
  BY <1>1, EmptySeq, HeadTailProperties
<1>3. Entry(Head(sock[c])) \in encoded[c] /\ clock <= Head(sock[c]).frame + Skew
  BY <1>2 DEF EInv, SockInv, Chain
<1>4. /\ Entry(Head(sock[c])).frame = Head(sock[c]).frame
      /\ Entry(Head(sock[c])).part = Head(sock[c]).seg
  BY DEF Entry
<1> QED
  BY <1>2, <1>3, <1>4, EncodedFacts

(* Taking the oldest packet brings a later frame up, of the same segment   *)
(* or, with a keyframe, of a later one.                                    *)
LEMMA ReceivesFacts ==
  ASSUME EInv, NEW c \in Cameras, Receives(c)
  PROVE  LET k == Head(sock[c]) IN
         /\ sock[c] # <<>> /\ Packet(c) = k /\ met' = met \cup {c} /\ lastSeen' = clock
         /\ sock' = [sock EXCEPT ![c] = Tail(sock[c])] /\ sock'[c] = Tail(sock[c])
         /\ \A d \in Cameras : d # c => sock'[d] = sock[d] /\ Upcoming(d)' = Upcoming(d)
         /\ UNCHANGED <<clock, alive, skips, pc, next, start, ready, synced, seg, count, encoded>>
         /\ Upcoming(c) = k.frame /\ k.frame < Upcoming(c)' /\ Upcoming(c)' <= clock + 1
         /\ Upcoming(c)' \in Nat
         /\ sock'[c] = <<>> => seg[c] = k.seg
         /\ sock'[c] # <<>> =>
              /\ Head(sock'[c]).frame <= Begin(k.seg + 1, start) + skips
              /\ Head(sock'[c]).seg >= k.seg
              /\ Head(sock'[c]).seg # k.seg => Head(sock'[c]).key
<1> DEFINE k == Head(sock[c])
<1>1. /\ sock[c] # <<>> /\ Packet(c) = k /\ met' = met \cup {c} /\ lastSeen' = clock
      /\ sock' = [sock EXCEPT ![c] = Tail(sock[c])]
      /\ UNCHANGED <<clock, alive, skips, pc, next, start, ready, synced, seg, count, encoded>>
  BY DEF Receives, Packet, worldVars, encoderVars
<1>2. sock \in [Cameras -> Seq(Packets)] /\ sock[c] \in Seq(Packets) /\ TypeOK
  BY DEF EInv, TypeOK
<1>3. /\ sock'[c] = Tail(sock[c])
      /\ \A d \in Cameras : d # c => sock'[d] = sock[d]
  BY <1>1, <1>2
<1>4. \A d \in Cameras : d # c => Upcoming(d)' = Upcoming(d)
  BY <1>1, <1>3 DEF Upcoming
<1>5. /\ k \in Packets /\ Entry(k) \in encoded[c] /\ InSegment(k.frame, k.seg, start)
      /\ k.frame < next[c] /\ Upcoming(c) = k.frame
  BY <1>1, HeadFacts DEF Upcoming
<1>6. next[c] \in Nat /\ next[c] <= clock + 1 /\ clock \in Nat /\ start \in Nat
  BY <1>2, <1>5, EncodedFacts DEF TypeOK
<1> DEFINE q == Tail(sock[c])
<1>7. /\ q # <<>> =>
           /\ Head(q) = sock[c][2] /\ Len(sock[c]) > 1
           /\ k.frame < Head(q).frame
           /\ Head(q).frame <= Begin(k.seg + 1, start) + skips
           /\ Head(q).seg # k.seg => Head(q).key
      /\ q = <<>> => k = sock[c][Len(sock[c])]
  BY <1>1, <1>2, ChainTail DEF EInv, SockInv
<1>8. CASE q = <<>>
  <2>1. seg[c] = k.seg
    BY <1>1, <1>7, <1>8 DEF EInv, SockInv
  <2>2. Upcoming(c)' = next[c]
    BY <1>1, <1>3, <1>8 DEF Upcoming
  <2> QED
    BY <1>1, <1>3, <1>4, <1>5, <1>6, <1>8, <2>1, <2>2
<1>9. CASE q # <<>>
  <2>1. Upcoming(c)' = Head(q).frame
    BY <1>3, <1>9 DEF Upcoming
  <2>2. Len(sock[c]) \in Nat /\ Head(q) \in Packets
    BY <1>1, <1>2, <1>9, HeadTailProperties, LenProperties
  <2>3. Entry(Head(q)) \in encoded[c]
    BY <1>7, <1>9, <2>2 DEF EInv, SockInv, Chain
  <2>4. InSegment(Head(q).frame, Head(q).seg, start) /\ Head(q).frame <= clock
    BY <2>3, EncodedFacts DEF Entry
  <2>5. k.seg <= Head(q).seg
    <3>1. /\ k.frame \in Int /\ Head(q).frame \in Int /\ k.seg \in Nat /\ Head(q).seg \in Nat
          /\ start \in Int /\ k.frame <= Head(q).frame
      BY SMTT(30), <1>5, <1>6, <1>7, <1>9, <2>2 DEF Packets
    <3> HIDE DEF q, k
    <3> QED
      BY <1>5, <2>4, <3>1, SegmentsInOrder
  <2>6. Head(q).frame \in Nat /\ Head(q).seg \in Nat /\ k.seg \in Nat /\ k.frame \in Nat
    BY <1>5, <2>2 DEF Packets
  <2> HIDE DEF q, k
  <2>7. sock'[c] # <<>> /\ sock'[c] = q
    BY <1>3, <1>9 DEF q
  <2> QED
    <3>1. /\ Head(q).frame <= Begin(k.seg + 1, start) + skips
          /\ Head(q).seg # k.seg => Head(q).key
          /\ k.frame < Head(q).frame /\ Head(q).frame <= clock + 1
      BY <1>6, <1>7, <1>9, <2>4, <2>6
    <3>2. Upcoming(c) = k.frame /\ k.frame < Upcoming(c)' /\ Upcoming(c)' <= clock + 1
          /\ Upcoming(c)' \in Nat
      BY <1>5, <2>1, <2>6, <3>1
    <3>3. sock'[c] = Tail(sock[c])
      BY <1>3
    <3> QED
      BY <1>1, <1>3, <1>4, <2>5, <2>7, <3>1, <3>2, <3>3 DEF k
<1> QED
  BY <1>8, <1>9

(* Which segment the packet is of, as loggerd counts, is the encoder's:    *)
(* never one before the log's, and the log's own unless c writes or is     *)
(* ahead.                                                                  *)
LEMMA PacketSegment ==
  ASSUME EInv, LInv, Paced, NEW c \in Cameras, sock[c] # <<>>
  PROVE  LET k == Head(sock[c]) IN
         /\ OffsetOf(c) = 0 /\ Segment(c) = k.seg /\ k.seg >= part
         /\ c \notin met => k.seg = part /\ part = 0 /\ UnmetInv(c)
         /\ c \in met => \/ WritingInv(c) /\ c \notin marked
                         \/ Ahead(c) /\ AheadInv(c) /\ k.seg > part
                         \/ /\ StaleInv(c) /\ k.seg = part
                            /\ c \in marked /\ current[c] # part
<1> DEFINE k == Head(sock[c])
<1>1. /\ k \in Packets /\ c \in synced /\ InSegment(k.frame, k.seg, start)
  BY HeadFacts
<1>2. k.frame \in Nat /\ k.seg \in Nat /\ part \in Nat /\ start \in Nat /\ skips \in Nat
      /\ skips <= MaxMishaps /\ MaxMishaps \in Nat /\ Skew \in Nat /\ SegFrames \in Nat
  BY <1>1, SegmentsAssumption DEF Packets, EInv, TypeOK
<1>3. LogInv(c)
  BY DEF LInv
<1>4. CASE c \notin met
  <2>1. UnmetInv(c) /\ part = 0 /\ k.frame <= start + skips
    BY <1>1, <1>2, <1>3, <1>4 DEF LogInv, UnmetInv
  <2>2. k.seg = 0
    <3>1. SUFFICES ASSUME k.seg > 0 PROVE FALSE
      BY <1>2
    <3>2. k.frame >= Begin(k.seg, start)
      BY <1>1, <3>1 DEF InSegment
    <3>3. 0 \in Int /\ k.seg \in Int /\ start \in Int /\ 0 < k.seg
      BY <1>2, <3>1
    <3>4. Begin(0 + 1, start) <= Begin(k.seg, start)
      BY <3>3, BeginGrows
    <3>5. Begin(0 + 1, start) = start + SegFrames
      BY <1>2 DEF Begin
    <3>6. Begin(k.seg, start) \in Int
      BY <3>3, BeginInt
    <3> QED
      BY <1>2, <2>1, <3>2, <3>4, <3>5, <3>6 DEF Paced
  <2>3. OffsetOf(c) = 0 /\ Segment(c) = k.seg
    BY <1>4, <2>2 DEF OffsetOf, Segment, Packet
  <2> QED
    BY <1>2, <1>4, <2>1, <2>2, <2>3
<1>5. CASE c \in met
  <2>1. OffsetOf(c) = 0 /\ Segment(c) = k.seg
    BY <1>2, <1>3, <1>5 DEF OffsetOf, Segment, Packet, LogInv
  <2>2. CASE c \notin marked
    <3>1. WritingInv(c)
      BY <1>3, <1>5, <2>2 DEF LogInv
    <3>2. k.seg >= part
      BY <3>1 DEF WritingInv
    <3> QED
      BY <1>5, <2>1, <2>2, <3>1, <3>2
  <2>3. CASE Ahead(c)
    <3>1. AheadInv(c)
      BY <1>3, <2>3 DEF LogInv
    <3>2. k.seg > part
      BY <3>1 DEF AheadInv
    <3> QED
      BY <1>2, <1>5, <2>1, <2>3, <3>1, <3>2
  <2>4. CASE c \in marked /\ current[c] # part
    BY <1>2, <1>3, <1>5, <2>1, <2>4 DEF LogInv, StaleInv
  <2> QED
    BY <1>5, <2>2, <2>3, <2>4 DEF Ahead
<1> QED
  BY <1>4, <1>5

-----------------------------------------------------------------------------
(* What happens outside loggerd.                                           *)

(* d sends nothing, though it may drop a frame.                            *)
Quiet(d) ==
  /\ sock'[d] = sock[d] /\ seg'[d] = seg[d] /\ encoded'[d] = encoded[d]
  /\ d \in synced' <=> d \in synced
  /\ d \in synced => next[d] <= next'[d] /\ next'[d] - skips' <= next[d] - skips

LEMMA OutsideFacts ==
  ASSUME EInv, Paced, NEW c \in Cameras, Encoder(c) \/ Skips(c) \/ Dies(c) \/ Tick
  PROVE  /\ UNCHANGED <<part, rotated, lastSeen, waiting, met, offset, current, marked,
                        recording, queue, recorded>>
         /\ alive' \subseteq alive /\ start <= start' /\ skips <= skips'
         /\ \A d \in Cameras : Quiet(d) \/ Encodes(d)
<1>1. TypeOK /\ TypeOK'
  BY EncoderTypes DEF EInv
<1>2. /\ UNCHANGED <<part, rotated, lastSeen, waiting, met, offset, current, marked,
                     recording, queue, recorded>>
      /\ alive' \subseteq alive
  BY DEF Encoder, FindsOthersMissing, PutsOffStart, Counts, AwaitsStart, Encodes, Skips,
         Dies, Tick, worldVars, loggerVars
<1>3. start <= start'
  <2>1. CASE PutsOffStart(c)
    BY <1>1, <2>1, PutOffFacts
  <2>2. CASE ~PutsOffStart(c)
    <3>1. start' = start
      BY <2>2 DEF Encoder, FindsOthersMissing, Counts, AwaitsStart, Encodes, Skips, Dies,
                  Tick, encoderVars
    <3> QED
      BY <1>1, <3>1 DEF TypeOK
  <2> QED
    BY <2>1, <2>2
<1>4. skips' = skips \/ (Skips(c) /\ skips' = skips + 1)
  BY DEF Encoder, FindsOthersMissing, PutsOffStart, Counts, AwaitsStart, Encodes, Skips,
         Dies, Tick, worldVars
<1>5. ASSUME NEW d \in Cameras, ~Encodes(d)
      PROVE  Quiet(d)
  <2>1. /\ next[d] \in Nat /\ next'[d] \in Nat /\ skips \in Nat /\ skips' \in Nat
    BY <1>1 DEF TypeOK
  <2>2. CASE Encodes(c)
    <3>1. /\ d # c /\ skips' = skips
          /\ sock'[d] = sock[d] /\ seg'[d] = seg[d] /\ encoded'[d] = encoded[d]
          /\ next'[d] = next[d] /\ synced' = synced \cup {c}
      <4>1. d # c
        BY <1>5, <2>2
      <4> QED
        BY <1>1, <2>2, <4>1 DEF Encodes, NextFrame, TypeOK, worldVars
    <3> QED
      BY <2>1, <3>1 DEF Quiet
  <2>3. CASE ~Encodes(c)
    <3>1. UNCHANGED <<sock, seg, encoded, synced>>
      BY <2>3 DEF Encoder, FindsOthersMissing, PutsOffStart, Counts, AwaitsStart, Skips,
                  Dies, Tick, encoderVars
    <3>2. CASE Skips(c)
      <4>1. next'[d] \in {next[d], next[d] + 1} /\ skips' = skips + 1
        BY <1>1, <3>2 DEF Skips, NextFrame, TypeOK
      <4> QED
        BY <2>1, <3>1, <4>1 DEF Quiet
    <3>3. CASE FindsOthersMissing(c) \/ Counts(c) \/ AwaitsStart(c)
      <4>1. StartsInv(c)
        BY DEF EInv
      <4>2. c \notin synced
        BY <3>3, <4>1 DEF FindsOthersMissing, Counts, AwaitsStart, Synced, StartsInv
      <4>3. d # c => next'[d] = next[d]
        BY <1>1, <3>3 DEF FindsOthersMissing, Counts, AwaitsStart, NextFrame, TypeOK
      <4>4. skips' = skips
        BY <3>3 DEF FindsOthersMissing, Counts, AwaitsStart, worldVars
      <4> QED
        BY <2>1, <3>1, <4>2, <4>3, <4>4 DEF Quiet
    <3>4. CASE PutsOffStart(c) \/ Dies(c) \/ Tick
      <4>1. next' = next /\ skips' = skips
        BY <3>4 DEF PutsOffStart, Dies, Tick, worldVars, encoderVars
      <4> QED
        BY <2>1, <3>1, <4>1 DEF Quiet
    <3> QED
      BY <2>3, <3>2, <3>3, <3>4 DEF Encoder
  <2> QED
    BY <2>2, <2>3
<1>6. skips <= skips'
  BY <1>1, <1>4 DEF TypeOK
<1> QED
  BY <1>2, <1>3, <1>5, <1>6

LEMMA QuietKeepsLog ==
  ASSUME EInv, LInv, TypeOK', NEW d \in Cameras, Quiet(d),
         UNCHANGED <<part, met, offset, current, marked, recording, queue, recorded>>,
         alive' \subseteq alive, start <= start', skips <= skips'
  PROVE  LogInv(d)' /\ Ahead(d)' = Ahead(d)
<1>1. LogInv(d) /\ StartsInv(d)
  BY DEF LInv, EInv
<1>2. /\ sock'[d] = sock[d] /\ seg'[d] = seg[d] /\ encoded'[d] = encoded[d]
      /\ d \in synced' <=> d \in synced
      /\ d \in synced => next[d] <= next'[d] /\ next'[d] - skips' <= next[d] - skips
  BY DEF Quiet
<1>3. /\ next[d] \in Nat /\ next'[d] \in Nat /\ skips \in Nat /\ skips' \in Nat
      /\ start \in Nat /\ start' \in Nat /\ part \in Nat /\ Skew \in Nat
      /\ sock[d] \in Seq(Packets) /\ queue[d] \in Seq(Packets)
  BY SegmentsAssumption DEF EInv, TypeOK
<1>4. sock[d] # <<>> => Head(sock[d]).frame \in Nat /\ d \in synced
  BY HeadFacts DEF Packets
<1>5. Ahead(d)' = Ahead(d)
  BY DEF Ahead
<1>6. d \in synced =>
        /\ Upcoming(d) \in Nat /\ Upcoming(d)' \in Nat
        /\ Upcoming(d) <= Upcoming(d)' /\ Upcoming(d)' - skips' <= Upcoming(d) - skips
  <2>1. CASE sock[d] = <<>>
    BY <1>2, <1>3, <2>1 DEF Upcoming
  <2>2. CASE sock[d] # <<>>
    BY SMTT(30), <1>2, <1>3, <1>4, <2>2 DEF Upcoming
  <2> QED
    BY <2>1, <2>2
<1>7. QueueInv(d)'
  <2>1. CASE d \in met
    <3>1. \A i \in 1 .. Len(queue[d]) : queue[d][i].frame \in Nat
      <4>1. \A i \in 1 .. Len(queue[d]) : queue[d][i] \in Packets
        BY <1>3, ElementOfSeq
      <4> QED
        BY <4>1 DEF Packets
    <3>2. d \in synced
      BY <1>1, <2>1 DEF LogInv
    <3>3. \A i \in 1 .. Len(queue[d]) : queue[d][i].frame < Upcoming(d)'
      BY <1>1, <1>6, <3>1, <3>2 DEF LogInv, QueueInv
    <3> QED
      BY <1>1, <1>2, <3>3 DEF LogInv, QueueInv
  <2>2. CASE d \notin met
    <3>1. queue[d] = <<>> /\ Len(queue[d]) = 0
      BY <1>1, <2>2, EmptySeq DEF LogInv, UnmetInv
    <3> QED
      BY <3>1 DEF QueueInv
  <2> QED
    BY <2>1, <2>2
<1>8. ASSUME d \notin met
      PROVE  UnmetInv(d)'
  <2>1. UnmetInv(d)
    BY <1>1, <1>8 DEF LogInv
  <2>2. sock[d] # <<>> => Head(sock[d]).frame <= start' + skips'
    BY SMTT(30), <1>3, <1>4, <2>1 DEF UnmetInv
  <2>3. /\ part > 0 => d \notin alive' /\ d \notin synced'
        /\ sock[d] = <<>> => d \notin synced'
    BY <1>2, <2>1 DEF UnmetInv
  <2> QED
    BY <1>2, <2>1, <2>2, <2>3 DEF UnmetInv
<1>9. ASSUME d \in met, d \notin marked
      PROVE  WritingInv(d)'
  <2>1. WritingInv(d)
    BY <1>1, <1>9 DEF LogInv
  <2>2. sock[d] # <<>> => Head(sock[d]).frame <= Begin(part + 1, start') + skips'
    <3>1. ASSUME sock[d] # <<>>
          PROVE  Head(sock[d]).frame <= Begin(part + 1, start') + skips'
      <4>1. Head(sock[d]).frame <= Begin(part + 1, start) + skips
        BY <2>1, <3>1 DEF WritingInv
      <4>2. part + 1 \in Int /\ start \in Int /\ start' \in Int
        BY <1>3
      <4>3. /\ Begin(part + 1, start) <= Begin(part + 1, start')
            /\ Begin(part + 1, start) \in Int /\ Begin(part + 1, start') \in Int
        <5>1. Begin(part + 1, start) <= Begin(part + 1, start')
          BY <4>2, BeginLater
        <5> QED
          BY <4>2, <5>1, BeginInt
      <4> QED
        BY SMTT(30), <1>3, <1>4, <3>1, <4>1, <4>3
    <3> QED
      BY <3>1
  <2> QED
    BY <1>2, <2>1, <2>2 DEF WritingInv
<1>10. ASSUME Ahead(d)
       PROVE  AheadInv(d)'
  BY <1>1, <1>2, <1>10 DEF LogInv, AheadInv
<1>11. ASSUME d \in met, d \in marked, current[d] # part
       PROVE  StaleInv(d)'
  <2>1. StaleInv(d) /\ d \in synced
    BY <1>1, <1>11 DEF LogInv
  <2>2. Upcoming(d)' <= Begin(part, start') + Skew + 1 + skips'
    <3>1. Upcoming(d) <= Begin(part, start) + Skew + 1 + skips
      BY <2>1 DEF StaleInv
    <3>2. /\ Begin(part, start) <= Begin(part, start')
          /\ Begin(part, start) \in Int /\ Begin(part, start') \in Int
      <4>1. part \in Int /\ start \in Int /\ start' \in Int
        BY <1>3
      <4>2. Begin(part, start) <= Begin(part, start')
        BY <4>1, BeginLater
      <4> QED
        BY <4>1, <4>2, BeginInt
    <3> QED
      BY SMTT(30), <1>3, <1>6, <2>1, <3>1, <3>2
  <2> QED
    BY <1>2, <2>1, <2>2 DEF StaleInv
<1>12. d \in met => d \in synced'
  BY <1>1, <1>2 DEF LogInv
<1> QED
  BY <1>1, <1>2, <1>5, <1>7, <1>8, <1>9, <1>10, <1>11, <1>12 DEF LogInv

LEMMA SendsKeepsLog ==
  ASSUME EInv, LInv, Paced, NEW d \in Cameras, Encodes(d),
         UNCHANGED <<part, met, offset, current, marked, recording, queue, recorded>>
  PROVE  LogInv(d)' /\ Ahead(d)' = Ahead(d) /\ Upcoming(d)' = Upcoming(d)
<1>1. LogInv(d) /\ TypeOK
  BY DEF LInv, EInv
<1>2. /\ d \in alive /\ next[d] <= clock
      /\ next' = [next EXCEPT ![d] = next[d] + 1]
      /\ next[d] <= Begin(seg[d] + 1, start) + skips
      /\ d \notin synced => seg'[d] = 0 /\ next[d] <= start + skips
      /\ InSegment(next[d], seg'[d], start)
      /\ seg'[d] \in Nat /\ (seg'[d] = seg[d] \/ seg'[d] = seg[d] + 1)
  BY EncodesFacts
<1>3. PICK p \in Packets :
        /\ p.frame = next[d] /\ p.seg = seg'[d]
        /\ p.seg # seg[d] \/ d \notin synced => p.key
        /\ sock' = [sock EXCEPT ![d] = Append(sock[d], p)]
        /\ encoded' = [encoded EXCEPT ![d] = encoded[d] \cup {Entry(p)}]
  BY EncodesFacts
<1>4. /\ clock \in Nat /\ next[d] \in Nat /\ skips \in Nat /\ start \in Nat
      /\ part \in Nat /\ seg[d] \in Nat /\ sock[d] \in Seq(Packets) /\ SegFrames \in Nat \ {0}
      /\ Skew \in Nat /\ MaxMishaps \in Nat /\ skips <= MaxMishaps
  BY SegmentsAssumption DEF EInv, TypeOK
<1>5. /\ sock'[d] = Append(sock[d], p) /\ encoded'[d] = encoded[d] \cup {Entry(p)}
      /\ next'[d] = next[d] + 1
      /\ UNCHANGED <<start, skips, alive>> /\ synced' = synced \cup {d}
  BY <1>1, <1>2, <1>3 DEF Encodes, TypeOK, worldVars
<1>6. /\ sock'[d] # <<>>
      /\ Head(sock'[d]) = IF sock[d] = <<>> THEN p ELSE Head(sock[d])
  <2>1. /\ Append(sock[d], p) # <<>> /\ Append(sock[d], p)[1] = Head(Append(sock[d], p))
        /\ Len(Append(sock[d], p)) = Len(sock[d]) + 1
        /\ \A i \in 1 .. Len(sock[d]) : Append(sock[d], p)[i] = sock[d][i]
        /\ Append(sock[d], p)[Len(sock[d]) + 1] = p
    BY <1>4, AppendProperties
  <2>2. CASE sock[d] = <<>>
    <3>1. Len(sock[d]) = 0
      BY <2>2, EmptySeq
    <3> QED
      BY <1>5, <2>1, <2>2, <3>1
  <2>3. CASE sock[d] # <<>>
    <3>1. Len(sock[d]) \in Nat \ {0} /\ Head(sock[d]) = sock[d][1]
      BY <1>4, <2>3, EmptySeq
    <3>2. 1 \in 1 .. Len(sock[d])
      BY <3>1
    <3> QED
      BY <1>5, <2>1, <2>3, <3>1, <3>2
  <2> QED
    BY <2>2, <2>3
<1>7. Upcoming(d)' = Upcoming(d)
  BY <1>3, <1>6 DEF Upcoming
<1>8. Ahead(d)' = Ahead(d)
  BY DEF Ahead
<1>9. QueueInv(d)'
  BY <1>1, <1>5, <1>7 DEF LogInv, QueueInv
<1>10. ASSUME d \notin met
       PROVE  UnmetInv(d)'
  <2>1. UnmetInv(d)
    BY <1>1, <1>10 DEF LogInv
  <2>2. ~(part > 0)
    BY <1>2, <2>1 DEF UnmetInv
  <2>3. CASE sock[d] = <<>>
    <3>1. d \notin synced
      BY <2>1, <2>3 DEF UnmetInv
    <3>2. Head(sock'[d]) = p /\ p.frame <= start + skips /\ p.key
      BY <1>2, <1>3, <1>6, <2>3, <3>1
    <3> QED
      BY <1>5, <1>6, <2>1, <2>2, <3>2 DEF UnmetInv
  <2>4. CASE sock[d] # <<>>
    BY <1>5, <1>6, <2>1, <2>2, <2>4 DEF UnmetInv
  <2> QED
    BY <2>3, <2>4
<1>11. ASSUME d \in met, d \notin marked
       PROVE  WritingInv(d)'
  <2>1. WritingInv(d)
    BY <1>1, <1>11 DEF LogInv
  <2>2. CASE sock[d] = <<>>
    <3>1. seg[d] = part /\ Head(sock'[d]) = p
      BY <1>6, <2>1, <2>2 DEF WritingInv
    <3>2. /\ p.frame <= Begin(part + 1, start) + skips
          /\ p.seg >= part
          /\ p.seg # part => p.key
      BY <1>2, <1>3, <1>4, <3>1
    <3> QED
      BY <1>5, <1>6, <2>1, <3>1, <3>2 DEF WritingInv
  <2>3. CASE sock[d] # <<>>
    BY <1>5, <1>6, <2>1, <2>3 DEF WritingInv
  <2> QED
    BY <2>2, <2>3
<1>12. ASSUME Ahead(d)
       PROVE  AheadInv(d)'
  <2>1. AheadInv(d)
    BY <1>1, <1>12 DEF LogInv
  <2>2. Head(sock'[d]).seg > part
    BY <1>2, <1>3, <1>4, <1>6, <2>1 DEF AheadInv
  <2> QED
    BY <1>6, <2>1, <2>2 DEF AheadInv
<1>13. ASSUME d \in met, d \in marked, current[d] # part
       PROVE  StaleInv(d)'
  <2>1. StaleInv(d)
    BY <1>1, <1>13 DEF LogInv
  <2>2. Head(sock'[d]).seg = part
    <3>1. CASE sock[d] # <<>>
      BY <1>6, <2>1, <3>1 DEF StaleInv
    <3>2. CASE sock[d] = <<>>
      <4>1. /\ seg[d] = part /\ Head(sock'[d]) = p
            /\ next[d] <= Begin(part, start) + Skew + 1 + skips
        BY <1>6, <2>1, <3>2 DEF StaleInv, Upcoming
      <4>2. /\ Begin(part + 1, start) = Begin(part, start) + SegFrames
            /\ Begin(part, start) \in Int
        BY <1>4 DEF Begin
      <4>3. next[d] < Begin(part + 1, start)
        BY <1>4, <4>1, <4>2 DEF Paced
      <4>4. ~(seg'[d] = part + 1)
        BY SMTT(30), <1>2, <1>4, <4>2, <4>3 DEF InSegment
      <4> QED
        BY <1>2, <1>3, <4>1, <4>4
    <3> QED
      BY <3>1, <3>2
  <2> QED
    BY <1>5, <1>6, <1>7, <2>1, <2>2 DEF StaleInv
<1>14. recorded[d] \subseteq encoded'[d] /\ d \in synced'
  BY <1>1, <1>5 DEF LogInv
<1> QED
  BY <1>1, <1>7, <1>8, <1>9, <1>10, <1>11, <1>12, <1>13, <1>14 DEF LogInv

(* Nothing sent is lost outside loggerd.                                   *)
LEMMA OutsideKeepsFrames ==
  ASSUME EInv, Paced, NEW d \in Cameras, Kept(d), Quiet(d) \/ Encodes(d),
         UNCHANGED <<queue, recorded>>
  PROVE  Kept(d)'
<1>1. CASE Quiet(d)
  BY <1>1 DEF Quiet, Kept
<1>2. CASE Encodes(d)
  <2>1. PICK p \in Packets :
          /\ p.frame = next[d]
          /\ sock' = [sock EXCEPT ![d] = Append(sock[d], p)]
          /\ encoded' = [encoded EXCEPT ![d] = encoded[d] \cup {Entry(p)}]
    BY <1>2, EncodesFacts
  <2>2. sock[d] \in Seq(Packets) /\ TypeOK
    BY DEF EInv, TypeOK
  <2>3. /\ sock'[d] = Append(sock[d], p) /\ encoded'[d] = encoded[d] \cup {Entry(p)}
    BY <2>1, <2>2 DEF TypeOK
  <2>4. /\ Len(sock'[d]) = Len(sock[d]) + 1 /\ Len(sock[d]) \in Nat
        /\ \A i \in 1 .. Len(sock[d]) : sock'[d][i] = sock[d][i]
        /\ sock'[d][Len(sock[d]) + 1] = p
    BY <2>2, <2>3, AppendProperties, LenProperties
  <2>5. /\ 1 .. Len(sock[d]) \subseteq 1 .. Len(sock'[d])
        /\ Len(sock[d]) + 1 \in 1 .. Len(sock'[d])
    BY <2>4
  <2>6. ASSUME NEW e \in encoded'[d]
        PROVE  \/ e \in recorded[d]
               \/ \E i \in 1 .. Len(sock'[d]) : sock'[d][i].frame = e.frame
               \/ \E i \in 1 .. Len(queue[d]) : queue[d][i].frame = e.frame
    <3>1. CASE e \in encoded[d]
      BY <2>4, <2>5, <3>1 DEF Kept
    <3>2. CASE e = Entry(p)
      BY <2>4, <2>5, <3>2 DEF Entry
    <3> QED
      BY <2>3, <3>1, <3>2
  <2> QED
    BY <2>6 DEF Kept
<1> QED
  BY <1>1, <1>2

LEMMA OutsideKeeps ==
  ASSUME EInv, LInv, Paced, NEW c \in Cameras, Encoder(c) \/ Skips(c) \/ Dies(c) \/ Tick
  PROVE  LInv' /\ (KInv => KInv')
<1>1. /\ UNCHANGED <<part, rotated, lastSeen, waiting, met, offset, current, marked,
                     recording, queue, recorded>>
      /\ alive' \subseteq alive /\ start <= start' /\ skips <= skips'
      /\ \A d \in Cameras : Quiet(d) \/ Encodes(d)
  BY OutsideFacts
<1>2. TypeOK'
  BY EncoderTypes DEF EInv
<1>3. ASSUME NEW d \in Cameras
      PROVE  LogInv(d)' /\ Ahead(d)' = Ahead(d)
  BY <1>1, <1>2, QuietKeepsLog, SendsKeepsLog
<1>4. CountInv'
  <2>1. met \subseteq Cameras /\ met' = met /\ waiting' = waiting
    BY <1>1 DEF EInv, TypeOK
  <2>2. \A d \in met : Ahead(d)' = Ahead(d)
    BY <1>3, <2>1
  <2>3. {d \in met : Ahead(d)}' = {d \in met : Ahead(d)}
    BY <2>1, <2>2
  <2> QED
    BY <2>1, <2>2, <2>3 DEF LInv, CountInv
<1>5. ASSUME KInv PROVE KInv'
  <2>1. alive' = Cameras => alive = Cameras
    BY <1>1 DEF EInv, TypeOK
  <2> QED
    BY <1>1, <1>5, <2>1, OutsideKeepsFrames DEF KInv
<1> QED
  BY <1>3, <1>4, <1>5 DEF LInv

-----------------------------------------------------------------------------
(* What loggerd does with a packet.                                        *)

(* d is not the camera whose packet it is.                                 *)
Same(d) ==
  /\ sock'[d] = sock[d] /\ queue'[d] = queue[d] /\ recorded'[d] = recorded[d]
  /\ offset'[d] = offset[d] /\ current'[d] = current[d]
  /\ d \in met' <=> d \in met
  /\ d \in marked' <=> d \in marked
  /\ d \in recording' <=> d \in recording
  /\ next' = next /\ seg' = seg /\ encoded' = encoded /\ synced' = synced
  /\ alive' = alive /\ start' = start /\ skips' = skips

LEMMA SameKeepsLog ==
  ASSUME NEW d \in Cameras, LogInv(d), Same(d), part' = part
  PROVE  LogInv(d)' /\ Ahead(d)' = Ahead(d)
<1>1. Ahead(d)' = Ahead(d)
  BY DEF Ahead, Same
<1>2. Upcoming(d)' = Upcoming(d)
  BY DEF Upcoming, Same
<1>3. /\ QueueInv(d)' = QueueInv(d) /\ UnmetInv(d)' = UnmetInv(d)
      /\ WritingInv(d)' = WritingInv(d)
      /\ AheadInv(d)' = AheadInv(d) /\ StaleInv(d)' = StaleInv(d)
  BY <1>2 DEF Same, QueueInv, UnmetInv, WritingInv, AheadInv, StaleInv
<1> QED
  BY <1>1, <1>3 DEF Same, LogInv

(* A packet that is just read leaves no rotation timed out for want of it. *)
LEMMA HeardIsInTime ==
  ASSUME TypeOK, ~TimedOut(lastSeen)
  PROVE  ~TimedOut(clock)
BY SegmentsAssumption DEF TimedOut, TypeOK

(* Everything that waited, and the packet, is written: what comes first is *)
(* a keyframe, or c was recorded before.                                   *)
LEMMA AllWritten ==
  ASSUME NEW rec \in BOOLEAN, NEW packets \in Seq(Packets), packets # <<>>,
         rec \/ packets[1].key
  PROVE  /\ Written(rec, packets) = {packets[i] : i \in 1 .. Len(packets)}
         /\ Written(rec, packets) # {}
<1>1. DOMAIN packets = 1 .. Len(packets) /\ Len(packets) \in Nat \ {0}
  BY LenProperties, EmptySeq
<1>2. \A j \in DOMAIN packets : rec \/ \E k \in 1 .. j : packets[k].key
  <2>1. \A j \in DOMAIN packets : 1 \in 1 .. j
    BY <1>1
  <2> QED
    BY <2>1
<1>3. Written(rec, packets) = {packets[i] : i \in 1 .. Len(packets)}
  BY <1>1, <1>2 DEF Written
<1>4. 1 \in 1 .. Len(packets)
  BY <1>1
<1> QED
  BY <1>3, <1>4

LEMMA WritesFacts ==
  ASSUME EInv, LInv, Paced, ~TimedOut(lastSeen), NEW c \in Cameras, Writes(c)
  PROVE  LET k == Head(sock[c])
             packets == Append(queue[c], k)
         IN
         /\ k.seg = part /\ ~Ahead(c)
         /\ c \in recording' /\ current'[c] = part /\ offset'[c] = 0
         /\ c \notin marked' /\ queue'[c] = <<>> /\ c \in met'
         /\ recorded'[c] = recorded[c] \cup
              {[frame |-> packets[i].frame, part |-> part] : i \in 1 .. Len(packets)}
         /\ \A i \in 1 .. Len(packets) : packets[i].seg = part
         /\ part' = part /\ rotated' = rotated /\ waiting' = waiting
         /\ \A d \in Cameras : d # c => Same(d)
<1> DEFINE k == Head(sock[c])
           packets == Append(queue[c], k)
<1>1. /\ sock[c] # <<>> /\ Packet(c) = k /\ met' = met \cup {c} /\ lastSeen' = clock
      /\ \A d \in Cameras : d # c => sock'[d] = sock[d]
      /\ UNCHANGED <<clock, alive, skips, pc, next, start, ready, synced, seg, count, encoded>>
  BY ReceivesFacts DEF Writes
<1>2. TypeOK /\ TypeOK'
  BY LoggerTypes DEF EInv, Logger
<1>3. /\ OffsetOf(c) = 0 /\ Segment(c) = k.seg
      /\ c \notin met => UnmetInv(c)
      /\ c \in met => \/ WritingInv(c) /\ c \notin marked
                      \/ Ahead(c) /\ k.seg > part
                      \/ StaleInv(c) /\ c \in marked /\ current[c] # part
  BY <1>1, PacketSegment
<1>4. k.seg = part /\ part \in Nat
  BY <1>2, <1>3 DEF Writes, TypeOK
<1>5. /\ c \notin met => UnmetInv(c)
      /\ c \in met => \/ WritingInv(c) /\ c \notin marked
                      \/ StaleInv(c) /\ c \in marked /\ current[c] # part
      /\ ~Ahead(c)
  BY <1>3, <1>4 DEF Ahead
<1>6. k \in Packets /\ queue[c] \in Seq(Packets)
  BY <1>1, <1>2, HeadFacts DEF TypeOK
<1>7. /\ packets \in Seq(Packets) /\ packets # <<>> /\ Len(packets) = Len(queue[c]) + 1
      /\ Len(queue[c]) \in Nat
      /\ \A i \in 1 .. Len(queue[c]) : packets[i] = queue[c][i]
      /\ packets[Len(queue[c]) + 1] = k
  BY <1>6, AppendProperties, LenProperties
<1> DEFINE rec == current[c] = part /\ c \in recording
<1>8. \/ queue[c] = <<>> /\ Len(queue[c]) = 0 /\ (rec \/ k.key)
      \/ /\ queue[c] # <<>> /\ Len(queue[c]) > 0 /\ queue[c][1].key
         /\ \A i \in 1 .. Len(queue[c]) : queue[c][i].seg = part
  <2>1. CASE c \notin met
    BY <1>1, <1>5, <2>1, EmptySeq DEF UnmetInv
  <2>2. CASE c \in met /\ WritingInv(c)
    BY <2>2, EmptySeq DEF WritingInv
  <2>3. CASE StaleInv(c)
    <3>1. Len(queue[c]) \in Nat \ {0} /\ Head(queue[c]) = queue[c][1]
      BY <1>6, <2>3, EmptySeq DEF StaleInv
    <3> QED
      BY <2>3, <3>1 DEF StaleInv
  <2> QED
    BY <1>5, <2>1, <2>2, <2>3
<1>9. rec \/ packets[1].key
  <2>1. CASE Len(queue[c]) = 0
    BY <1>7, <1>8, <2>1
  <2>2. CASE Len(queue[c]) > 0
    <3>1. 1 \in 1 .. Len(queue[c])
      BY <1>7, <2>2
    <3> QED
      BY <1>7, <1>8, <2>2, <3>1
  <2> QED
    BY <1>8, <2>1, <2>2
<1>10. \A i \in 1 .. Len(packets) : packets[i].seg = part
  <2> SUFFICES ASSUME NEW i \in 1 .. Len(packets) PROVE packets[i].seg = part
    OBVIOUS
  <2>1. CASE i = Len(queue[c]) + 1
    BY <1>4, <1>7, <2>1
  <2>2. CASE i <= Len(queue[c])
    <3>1. i \in 1 .. Len(queue[c]) /\ queue[c] # <<>>
      BY <1>7, <2>2, EmptySeq
    <3> QED
      BY <1>7, <1>8, <3>1
  <2> QED
    BY <1>7, <2>1, <2>2
<1> DEFINE written == Written(rec, packets)
<1>11. written = {packets[i] : i \in 1 .. Len(packets)} /\ written # {}
  <2>1. rec \in BOOLEAN
    OBVIOUS
  <2> HIDE DEF rec, packets
  <2> QED
    BY <1>7, <1>9, <2>1, AllWritten
<1>12. /\ current' = [current EXCEPT ![c] = part] /\ offset' = [offset EXCEPT ![c] = 0]
       /\ queue' = [queue EXCEPT ![c] = <<>>]
       /\ marked' = Unmarked(c)
       /\ recording' = IF written = {} THEN recording \ {c} ELSE recording \cup {c}
       /\ recorded' = [recorded EXCEPT
            ![c] = @ \cup {[frame |-> p.frame, part |-> part] : p \in written}]
       /\ RotateIfNeeded(waiting, clock)
  BY <1>1, <1>3 DEF Writes
<1>13. marked' = marked \ {c}
  <2>1. CASE current[c] = part
    <3>1. c \notin marked
      BY <1>4, <1>5, <2>1 DEF UnmetInv
    <3> QED
      BY <1>12, <2>1, <3>1 DEF Unmarked
  <2>2. CASE current[c] # part
    BY <1>12, <2>2 DEF Unmarked
  <2> QED
    BY <2>1, <2>2
<1>14. recording' = recording \cup {c}
  BY <1>11, <1>12
<1>15. recorded'[c] = recorded[c] \cup
         {[frame |-> packets[i].frame, part |-> part] : i \in 1 .. Len(packets)}
  <2>1. recorded'[c] = recorded[c] \cup {[frame |-> p.frame, part |-> part] : p \in written}
    BY <1>2, <1>12 DEF TypeOK
  <2>2. {[frame |-> p.frame, part |-> part] : p \in written}
          = {[frame |-> packets[i].frame, part |-> part] : i \in 1 .. Len(packets)}
    <3> HIDE DEF written, packets
    <3> QED
      BY <1>11
  <2> HIDE DEF written, packets
  <2> QED
    BY <2>1, <2>2
<1>16. part' = part /\ rotated' = rotated /\ waiting' = waiting
  <2> DEFINE A == {d \in met : Ahead(d)}
  <2>1. IsFiniteSet(met \cup {c})
    BY <1>2, SegmentsAssumption, FS_Subset DEF TypeOK
  <2>2. A \in SUBSET (met \cup {c}) /\ c \notin A /\ c \in met \cup {c}
    BY <1>5
  <2>3. Cardinality(A) # Cardinality(met \cup {c})
    BY <2>1, <2>2, FS_Subset
  <2>4. waiting = Cardinality(A)
    BY DEF LInv, CountInv
  <2>5. ~TimedOut(clock)
    BY <1>2, HeardIsInTime
  <2> QED
    BY <1>1, <1>12, <2>3, <2>4, <2>5 DEF RotateIfNeeded
<1>17. ASSUME NEW d \in Cameras, d # c
       PROVE  Same(d)
  <2>1. /\ current'[d] = current[d] /\ offset'[d] = offset[d] /\ queue'[d] = queue[d]
        /\ recorded'[d] = recorded[d]
    BY <1>2, <1>12, <1>17 DEF TypeOK
  <2> QED
    BY <1>1, <1>13, <1>14, <1>17, <2>1 DEF Same
<1>18. current'[c] = part /\ offset'[c] = 0 /\ queue'[c] = <<>>
  BY <1>2, <1>12 DEF TypeOK
<1> HIDE DEF packets, written, rec
<1> QED
  BY <1>1, <1>4, <1>5, <1>10, <1>13, <1>14, <1>15, <1>16, <1>17, <1>18 DEF packets

LEMMA WritesKeepsLog ==
  ASSUME EInv, LInv, Paced, ~TimedOut(lastSeen), NEW c \in Cameras, Writes(c)
  PROVE  LInv'
<1> DEFINE k == Head(sock[c])
           packets == Append(queue[c], k)
<1>1. /\ k.seg = part /\ ~Ahead(c)
      /\ c \in recording' /\ current'[c] = part /\ offset'[c] = 0
      /\ c \notin marked' /\ queue'[c] = <<>> /\ c \in met'
      /\ recorded'[c] = recorded[c] \cup
           {[frame |-> packets[i].frame, part |-> part] : i \in 1 .. Len(packets)}
      /\ \A i \in 1 .. Len(packets) : packets[i].seg = part
      /\ part' = part /\ rotated' = rotated /\ waiting' = waiting
      /\ \A d \in Cameras : d # c => Same(d)
  BY WritesFacts
<1>2. /\ sock[c] # <<>>
      /\ UNCHANGED <<clock, alive, skips, pc, next, start, ready, synced, seg, count, encoded>>
      /\ sock'[c] = <<>> => seg[c] = k.seg
      /\ sock'[c] # <<>> =>
           /\ Head(sock'[c]).frame <= Begin(k.seg + 1, start) + skips
           /\ Head(sock'[c]).seg >= k.seg
           /\ Head(sock'[c]).seg # k.seg => Head(sock'[c]).key
  BY ReceivesFacts DEF Writes
<1>3. k \in Packets /\ Entry(k) \in encoded[c] /\ c \in synced
  BY <1>2, HeadFacts
<1>4. part \in Nat /\ queue[c] \in Seq(Packets)
  BY DEF EInv, TypeOK
<1>5. recorded'[c] \subseteq encoded[c]
  <2>1. /\ Len(packets) = Len(queue[c]) + 1 /\ Len(queue[c]) \in Nat
        /\ \A i \in 1 .. Len(queue[c]) : packets[i] = queue[c][i]
        /\ packets[Len(queue[c]) + 1] = k
    BY <1>3, <1>4, AppendProperties, LenProperties
  <2>2. ASSUME NEW i \in 1 .. Len(packets)
        PROVE  [frame |-> packets[i].frame, part |-> part] \in encoded[c]
    <3>1. Entry(packets[i]) \in encoded[c]
      <4>1. CASE i = Len(queue[c]) + 1
        BY <1>3, <2>1, <4>1
      <4>2. CASE i <= Len(queue[c])
        BY <2>1, <4>2 DEF LInv, LogInv, QueueInv
      <4> QED
        BY <2>1, <4>1, <4>2
    <3>2. packets[i].seg = part
      BY <1>1
    <3> HIDE DEF packets
    <3> QED
      BY <3>1, <3>2 DEF Entry
  <2>3. recorded[c] \subseteq encoded[c]
    BY DEF LInv, LogInv
  <2> HIDE DEF packets
  <2> QED
    BY <1>1, <2>2, <2>3
<1>6. WritingInv(c)'
  BY <1>1, <1>2 DEF WritingInv
<1>7. LogInv(c)'
  <2>1. QueueInv(c)'
    BY <1>1, EmptySeq DEF QueueInv
  <2>2. ~Ahead(c)'
    BY <1>1 DEF Ahead
  <2> QED
    BY <1>1, <1>2, <1>3, <1>4, <1>5, <1>6, <2>1, <2>2 DEF LogInv
<1>8. ASSUME NEW d \in Cameras, d # c
      PROVE  LogInv(d)' /\ Ahead(d)' = Ahead(d)
  BY <1>1, <1>8, SameKeepsLog DEF LInv
<1>9. CountInv'
  <2>1. met \subseteq Cameras /\ met' = met \cup {c} /\ ~Ahead(c)'
    BY <1>1, ReceivesFacts DEF Writes, EInv, TypeOK, Ahead
  <2>2. \A d \in met' : Ahead(d)' <=> d \in met /\ Ahead(d)
    BY <1>1, <1>8, <2>1
  <2>3. {d \in met' : Ahead(d)'} = {d \in met : Ahead(d)}
    BY <2>1, <2>2
  <2>4. waiting' = Cardinality({d \in met : Ahead(d)}')
    BY <1>1, <2>3 DEF LInv, CountInv
  <2> QED
    BY <2>1, <2>4 DEF CountInv
<1> QED
  BY <1>7, <1>8, <1>9 DEF LInv

(* What waited is recorded, under the segment it was encoded in.           *)
LEMMA WritesKeepsFrames ==
  ASSUME EInv, LInv, Paced, ~TimedOut(lastSeen), NEW c \in Cameras, Writes(c), KInv
  PROVE  KInv'
<1> DEFINE k == Head(sock[c])
           packets == Append(queue[c], k)
<1>1. /\ recorded'[c] = recorded[c] \cup
           {[frame |-> packets[i].frame, part |-> part] : i \in 1 .. Len(packets)}
      /\ \A i \in 1 .. Len(packets) : packets[i].seg = part
      /\ \A d \in Cameras : d # c => Same(d)
  BY WritesFacts
<1>2. /\ sock[c] # <<>> /\ sock'[c] = Tail(sock[c])
      /\ UNCHANGED <<alive, encoded>>
  BY ReceivesFacts DEF Writes
<1>3. k \in Packets /\ Entry(k) \in encoded[c]
  BY <1>2, HeadFacts
<1>4. sock[c] \in Seq(Packets) /\ queue[c] \in Seq(Packets)
  BY DEF EInv, TypeOK
<1>5. /\ Len(packets) = Len(queue[c]) + 1 /\ Len(queue[c]) \in Nat
      /\ \A i \in 1 .. Len(queue[c]) : packets[i] = queue[c][i]
      /\ packets[Len(queue[c]) + 1] = k
  BY <1>3, <1>4, AppendProperties, LenProperties
<1>6. \A i \in 1 .. Len(packets) : Entry(packets[i]) \in encoded[c]
  BY <1>3, <1>5 DEF LInv, LogInv, QueueInv
<1> HIDE DEF packets
<1>7. ASSUME NEW e \in encoded[c], NEW i \in 1 .. Len(packets), packets[i].frame = e.frame
      PROVE  e \in recorded'[c]
  <2>1. Entry(packets[i]).frame = e.frame /\ Entry(packets[i]).part = part
    BY <1>1, <1>7 DEF Entry
  <2>2. e.part = part
    BY <1>6, <2>1, EInvAgree DEF EncodersAgree
  <2>3. e \in Entries
    BY EncodedFacts
  <2>4. e = [frame |-> packets[i].frame, part |-> part]
    BY <1>7, <2>2, <2>3 DEF Entries
  <2> QED
    BY <1>1, <2>4
<1>8. ASSUME Kept(c)
      PROVE  Kept(c)'
  <2>1. ASSUME NEW e \in encoded[c]
        PROVE  e \in recorded'[c] \/ \E i \in 1 .. Len(sock'[c]) : sock'[c][i].frame = e.frame
    <3>1. CASE e \in recorded[c]
      BY <1>1, <3>1
    <3>2. CASE \E i \in 1 .. Len(queue[c]) : queue[c][i].frame = e.frame
      <4>1. PICK i \in 1 .. Len(queue[c]) : queue[c][i].frame = e.frame
        BY <3>2
      <4>2. i \in 1 .. Len(packets) /\ packets[i].frame = e.frame
        BY <1>5, <4>1
      <4> QED
        BY <1>7, <4>2
    <3>3. CASE \E i \in 1 .. Len(sock[c]) : sock[c][i].frame = e.frame
      <4>1. PICK i \in 1 .. Len(sock[c]) : sock[c][i].frame = e.frame
        BY <3>3
      <4>2. /\ Len(sock[c]) \in Nat \ {0} /\ k = sock[c][1]
            /\ Len(sock'[c]) = Len(sock[c]) - 1
            /\ \A j \in 1 .. Len(sock'[c]) : sock'[c][j] = sock[c][j + 1]
        BY <1>2, <1>4, HeadTailProperties, EmptySeq
      <4>3. CASE i = 1
        <5>1. Len(queue[c]) + 1 \in 1 .. Len(packets)
              /\ packets[Len(queue[c]) + 1].frame = e.frame
          BY <1>5, <4>1, <4>2, <4>3
        <5> QED
          BY <1>7, <5>1
      <4>4. CASE i > 1
        <5>1. i - 1 \in 1 .. Len(sock'[c]) /\ (i - 1) + 1 = i
          BY <4>2, <4>4
        <5> QED
          BY <4>1, <4>2, <5>1
      <4> QED
        BY <4>2, <4>3, <4>4
    <3> QED
      BY <1>8, <3>1, <3>2, <3>3 DEF Kept
  <2> QED
    BY <1>2, <2>1 DEF Kept
<1>9. ASSUME NEW d \in Cameras, d # c, Kept(d)
      PROVE  Kept(d)'
  BY <1>1, <1>9 DEF Same, Kept
<1> QED
  BY <1>2, <1>8, <1>9 DEF KInv

-----------------------------------------------------------------------------
(* A packet of a later segment.                                            *)

(* The clock is no further than the segment the log is to rotate to, as    *)
(* long as one camera that still sends has not rolled over.                *)
LEMMA NotAheadInTime ==
  ASSUME EInv, LInv, Paced, NEW d \in met, ~Ahead(d), sock[d] # <<>> \/ d \in alive
  PROVE  clock <= Begin(part + 1, start) + skips + Skew
<1>1. d \in Cameras /\ LogInv(d) /\ d \in synced
  BY DEF EInv, TypeOK, LInv, LogInv
<1>2. /\ clock \in Nat /\ next[d] \in Nat /\ skips \in Nat /\ start \in Nat
      /\ part \in Nat /\ seg[d] \in Nat /\ SegFrames \in Nat \ {0}
      /\ Skew \in Nat /\ MaxMishaps \in Nat /\ skips <= MaxMishaps
  BY <1>1, SegmentsAssumption DEF EInv, TypeOK
<1>3. /\ Begin(part + 1, start) = Begin(part, start) + SegFrames
      /\ Begin(part, start) \in Int
  BY <1>2 DEF Begin
<1>4. /\ sock[d] # <<>> => /\ Head(sock[d]).frame \in Nat
                           /\ clock <= Head(sock[d]).frame + Skew
      /\ d \in alive => clock <= next[d] + Skew
      /\ next[d] <= Begin(seg[d] + 1, start) + skips
  <2>1. sock[d] # <<>> => /\ Head(sock[d]).frame \in Nat
                          /\ clock <= Head(sock[d]).frame + Skew
    BY <1>1, HeadFacts DEF Packets
  <2> QED
    BY <1>1, <2>1 DEF EInv, StartsInv, EncoderInv
<1>5. CASE d \notin marked
  <2>1. WritingInv(d)
    BY <1>1, <1>5 DEF LogInv
  <2>2. CASE sock[d] # <<>>
    BY SMTT(30), <1>2, <1>3, <1>4, <2>1, <2>2 DEF WritingInv
  <2>3. CASE sock[d] = <<>>
    BY SMTT(30), <1>2, <1>3, <1>4, <2>1, <2>3 DEF WritingInv
  <2> QED
    BY <2>2, <2>3
<1>6. CASE d \in marked
  <2>1. StaleInv(d)
    BY <1>1, <1>6 DEF LogInv, Ahead
  <2>2. Upcoming(d) <= Begin(part, start) + Skew + 1 + skips
    BY <2>1 DEF StaleInv
  <2>3. clock <= Upcoming(d) + Skew /\ Upcoming(d) \in Nat
    BY <1>2, <1>4 DEF Upcoming
  <2> QED
    BY SMTT(30), <1>2, <1>3, <2>2, <2>3 DEF Paced
<1> QED
  BY <1>5, <1>6

(* Then nothing is of a segment after the one the log is to rotate to.     *)
LEMMA NoneTwoAhead ==
  ASSUME EInv, Paced, clock <= Begin(part + 1, start) + skips + Skew, NEW d \in Cameras
  PROVE  /\ \A e \in encoded[d] : e.part <= part + 1
         /\ d \in synced => seg[d] <= part + 1
<1>1. /\ clock \in Nat /\ next[d] \in Nat /\ skips \in Nat /\ start \in Nat
      /\ part \in Nat /\ seg[d] \in Nat /\ SegFrames \in Nat \ {0}
      /\ Skew \in Nat /\ MaxMishaps \in Nat /\ skips <= MaxMishaps
  BY SegmentsAssumption DEF EInv, TypeOK
<1>2. /\ Begin(part + 1 + 1, start) = Begin(part + 1, start) + SegFrames
      /\ Begin(part + 1, start) \in Int
  <2>1. part + 1 \in Int /\ start \in Int /\ SegFrames \in Int
    BY <1>1
  <2> HIDE DEF Begin
  <2>2. \A s \in Int : Begin(s + 1, start) = Begin(s, start) + SegFrames
    BY <2>1 DEF Begin
  <2> QED
    BY <2>1, <2>2, BeginInt
<1>3. clock + 1 < Begin(part + 1 + 1, start)
  BY <1>1, <1>2 DEF Paced
<1>4. ASSUME NEW s \in Nat, s > part + 1
      PROVE  clock + 1 < Begin(s, start)
  <2>1. part + 1 \in Int /\ s \in Int /\ start \in Int /\ part + 1 < s
    BY <1>1, <1>4
  <2>2. Begin(part + 1 + 1, start) <= Begin(s, start)
    BY <2>1, BeginGrows
  <2>3. Begin(s, start) \in Int
    BY <2>1, BeginInt
  <2> QED
    BY <1>1, <1>2, <1>3, <2>2, <2>3
<1>5. ASSUME NEW e \in encoded[d]
      PROVE  e.part <= part + 1
  <2>1. e.frame \in Nat /\ e.part \in Nat /\ e.frame <= clock
        /\ InSegment(e.frame, e.part, start)
    BY EncodedFacts DEF Entries
  <2>2. e.part > 0 => e.frame >= Begin(e.part, start)
    BY <2>1 DEF InSegment
  <2>3. Begin(e.part, start) \in Int
    <3>1. e.part \in Int /\ start \in Int
      BY <1>1, <2>1
    <3> QED
      BY <3>1, BeginInt
  <2> QED
    BY <1>1, <1>4, <2>1, <2>2, <2>3
<1>6. ASSUME d \in synced
      PROVE  seg[d] <= part + 1
  <2>1. next[d] <= clock + 1 /\ (seg[d] > 0 => next[d] > Begin(seg[d], start))
    BY <1>6 DEF EInv, StartsInv, EncoderInv
  <2>2. Begin(seg[d], start) \in Int
    <3>1. seg[d] \in Int /\ start \in Int
      BY <1>1
    <3> QED
      BY <3>1, BeginInt
  <2> QED
    BY <1>1, <1>4, <2>1, <2>2
<1> QED
  BY <1>5, <1>6

LEMMA QueuesFacts ==
  ASSUME EInv, LInv, Paced, NEW c \in Cameras, Queues(c)
  PROVE  LET k == Head(sock[c]) IN
         /\ k.seg > part /\ c \in met /\ met' = met /\ marked' = marked \cup {c}
         /\ UNCHANGED <<current, offset, recording, recorded>>
         /\ current[c] = part
         /\ c \notin marked => WritingInv(c)
         /\ c \in marked => Ahead(c)
         /\ queue'[c] \in Seq(Packets)
         /\ queue'[c] # <<>> /\ Head(queue'[c]).key
         /\ \A i \in 1 .. Len(queue'[c]) : queue'[c][i].seg > part
         /\ QueueInv(c)'
         /\ sock'[c] = <<>> => seg[c] > part
         /\ sock'[c] # <<>> => Head(sock'[c]).seg > part
         /\ RotateIfNeeded(Cardinality({d \in met : d \in marked' /\ current[d] = part}), clock)
         /\ \A d \in Cameras : d # c => Same(d)
<1> DEFINE k == Head(sock[c])
           q == queue[c]
           a == Append(q, k)
<1>1. /\ sock[c] # <<>> /\ Packet(c) = k /\ met' = met \cup {c}
      /\ \A d \in Cameras : d # c => sock'[d] = sock[d]
      /\ UNCHANGED <<clock, alive, skips, pc, next, start, ready, synced, seg, count, encoded>>
      /\ Upcoming(c) = k.frame /\ k.frame < Upcoming(c)' /\ Upcoming(c)' \in Nat
      /\ sock'[c] = <<>> => seg[c] = k.seg
      /\ sock'[c] # <<>> => Head(sock'[c]).seg >= k.seg
  BY ReceivesFacts DEF Queues
<1>2. TypeOK /\ TypeOK'
  BY LoggerTypes DEF EInv, Logger
<1>3. /\ Segment(c) = k.seg
      /\ c \notin met => k.seg = part
      /\ c \in met => \/ WritingInv(c) /\ c \notin marked
                      \/ Ahead(c) /\ AheadInv(c)
                      \/ StaleInv(c) /\ k.seg = part
  BY <1>1, PacketSegment
<1>4. k \in Packets /\ Entry(k) \in encoded[c]
  BY <1>1, HeadFacts
<1>5. k.seg > part /\ c \in met /\ part \in Nat /\ k.seg \in Nat /\ k.frame \in Nat
  <2>1. part \in Nat /\ k.seg \in Nat /\ k.frame \in Nat
    BY <1>2, <1>4 DEF TypeOK, Packets
  <2>2. Segment(c) > part
    BY DEF Queues
  <2> HIDE DEF k
  <2> QED
    BY <1>3, <2>1, <2>2
<1>6. \/ WritingInv(c) /\ c \notin marked
      \/ Ahead(c) /\ AheadInv(c)
  BY <1>3, <1>5
<1>7. current[c] = part /\ met' = met
  BY <1>1, <1>5, <1>6 DEF WritingInv, Ahead
<1>8. /\ marked' = marked \cup {c}
      /\ UNCHANGED <<current, offset, recording, recorded>>
      /\ queue' = [queue EXCEPT ![c] = IF Len(@) > QueueFrames THEN @ ELSE Append(@, Packet(c))]
      /\ RotateIfNeeded(IF c \in marked THEN waiting ELSE waiting + 1, clock)
  BY DEF Queues
<1>9. /\ q \in Seq(Packets) /\ Len(q) \in Nat /\ queue'[c] \in {q, a}
      /\ Len(q) <= QueueFrames => queue'[c] = a
      /\ q = <<>> => Len(q) = 0
      /\ queue'[c] \in Seq(Packets)
  <2>1. q \in Seq(Packets) /\ Len(q) \in Nat
    BY <1>2, LenProperties DEF TypeOK
  <2>2. queue'[c] = IF Len(q) > QueueFrames THEN q ELSE a
    BY <1>1, <1>2, <1>8 DEF TypeOK
  <2>3. queue'[c] \in Seq(Packets)
    BY <1>2 DEF TypeOK
  <2> QED
    BY <2>1, <2>2, <2>3, EmptySeq, SegmentsAssumption
<1>10. /\ a # <<>> /\ Len(a) = Len(q) + 1 /\ a[Len(q) + 1] = k
       /\ \A i \in 1 .. Len(q) : a[i] = q[i]
       /\ Head(a) = a[1]
  BY <1>4, <1>9, AppendProperties
<1>11. \A i \in 1 .. Len(q) : q[i].seg > part
  <2>1. CASE WritingInv(c)
    BY <1>9, <2>1 DEF WritingInv
  <2>2. CASE AheadInv(c)
    BY <2>2 DEF AheadInv
  <2> QED
    BY <1>6, <2>1, <2>2
<1>12. q # <<>> => Head(q) = q[1] /\ Len(q) > 0 /\ q[1].key
  BY <1>6, <1>9, EmptySeq DEF WritingInv, AheadInv
<1>13. QueueInv(c)
  BY DEF LInv, LogInv
<1>14. \A i \in 1 .. Len(q) : q[i].frame \in Nat
  <2>1. \A i \in 1 .. Len(q) : q[i] \in Packets
    BY <1>9, ElementOfSeq
  <2> QED
    BY <2>1 DEF Packets
<1>15. ASSUME queue'[c] = a
       PROVE  /\ queue'[c] # <<>> /\ Head(queue'[c]).key
              /\ \A i \in 1 .. Len(queue'[c]) : queue'[c][i].seg > part
              /\ QueueInv(c)'
  <2> HIDE DEF a, q, k
  <2>1. a[1].key
    <3>1. CASE q = <<>>
      <4>1. WritingInv(c) /\ k.seg # part
        BY <1>5, <1>6, <3>1 DEF AheadInv, q
      <4>2. k.key
        BY <1>1, <4>1 DEF WritingInv, k
      <4>3. Len(q) = 0
        BY <1>9, <3>1
      <4> QED
        BY <1>10, <4>2, <4>3
    <3>2. CASE q # <<>>
      <4>1. 1 \in 1 .. Len(q)
        BY <1>9, <1>12, <3>2
      <4> QED
        BY <1>10, <1>12, <3>2, <4>1
    <3> QED
      BY <3>1, <3>2
  <2>2. ASSUME NEW i \in 1 .. Len(a)
        PROVE  /\ a[i].seg > part /\ Entry(a[i]) \in encoded[c]
               /\ a[i].frame < Upcoming(c)'
               /\ a[i].frame >= a[1].frame + i - 1
    <3>1. CASE i = Len(q) + 1
      <4>1. a[i] = k
        BY <1>10, <3>1
      <4>2. k.frame >= a[1].frame + i - 1
        <5>1. CASE Len(q) = 0
          BY <1>5, <1>10, <3>1, <4>1, <5>1
        <5>2. CASE Len(q) > 0
          <6>1. 1 \in 1 .. Len(q) /\ Len(q) \in 1 .. Len(q)
            BY <1>9, <5>2
          <6>2. /\ q[Len(q)].frame >= q[1].frame + Len(q) - 1 /\ q[Len(q)].frame < k.frame
                /\ q[1].frame \in Nat /\ q[Len(q)].frame \in Nat /\ a[1] = q[1]
            BY <1>1, <1>10, <1>13, <1>14, <6>1 DEF QueueInv, q
          <6> QED
            BY SMTT(30), <1>5, <1>9, <3>1, <6>2
        <5> QED
          BY <1>9, <5>1, <5>2
      <4> QED
        BY <1>1, <1>4, <1>5, <4>1, <4>2
    <3>2. CASE i <= Len(q)
      <4>1. i \in 1 .. Len(q) /\ 1 \in 1 .. Len(q)
        BY <1>9, <1>10, <3>2
      <4>2. a[i] = q[i] /\ a[1] = q[1] /\ q[i].frame \in Nat
        BY <1>10, <1>14, <4>1
      <4>3. q[i].frame < k.frame /\ Entry(q[i]) \in encoded[c]
            /\ q[i].frame >= q[1].frame + i - 1
        BY <1>1, <1>13, <4>1 DEF QueueInv, q
      <4> QED
        BY <1>1, <1>5, <1>11, <4>1, <4>2, <4>3
    <3> QED
      BY <1>9, <1>10, <3>1, <3>2
  <2>3. QueueInv(c)'
    BY <1>1, <1>15, <2>2 DEF QueueInv
  <2> QED
    BY <1>10, <1>15, <2>1, <2>2, <2>3
<1>16. ASSUME queue'[c] = q
       PROVE  /\ queue'[c] # <<>> /\ Head(queue'[c]).key
              /\ \A i \in 1 .. Len(queue'[c]) : queue'[c][i].seg > part
              /\ QueueInv(c)'
  <2>1. WritingInv(c) => q = <<>> /\ Len(q) <= QueueFrames
    BY <1>9, SegmentsAssumption DEF WritingInv
  <2>2. CASE Len(q) <= QueueFrames
    BY <1>9, <1>15, <2>2
  <2>3. CASE ~(Len(q) <= QueueFrames)
    <3>1. AheadInv(c)
      BY <1>6, <2>1, <2>3
    <3>2. QueueInv(c)'
      BY <1>1, <1>5, <1>13, <1>14, <1>16 DEF QueueInv
    <3> QED
      BY <1>11, <1>16, <3>1, <3>2 DEF AheadInv
  <2> QED
    BY <2>2, <2>3
<1>17. /\ sock'[c] = <<>> => seg[c] > part
       /\ sock'[c] # <<>> => Head(sock'[c]).seg > part
  <2>1. sock'[c] # <<>> => Head(sock'[c]).seg \in Nat
    <3>1. sock'[c] \in Seq(Packets)
      BY <1>2 DEF TypeOK
    <3>2. sock'[c] # <<>> => Head(sock'[c]) \in Packets
      BY <3>1, HeadTailProperties
    <3> QED
      BY <3>2 DEF Packets
  <2> QED
    BY <1>1, <1>5, <2>1
<1>18. (IF c \in marked THEN waiting ELSE waiting + 1)
         = Cardinality({d \in met : d \in marked' /\ current[d] = part})
  <2> DEFINE A == {d \in met : Ahead(d)}
             B == {d \in met : d \in marked' /\ current[d] = part}
  <2>1. waiting = Cardinality(A)
    BY DEF LInv, CountInv
  <2>2. B = A \cup {c}
    BY <1>5, <1>7, <1>8 DEF Ahead
  <2>3. IsFiniteSet(A)
    BY <1>2, SegmentsAssumption, FS_Subset DEF TypeOK
  <2>4. c \in A <=> c \in marked
    BY <1>5, <1>7 DEF Ahead
  <2>5. Cardinality(A \cup {c}) = IF c \in A THEN Cardinality(A) ELSE Cardinality(A) + 1
    BY <2>3, FS_AddElement
  <2> HIDE DEF A, B
  <2>6. Cardinality(B) = IF c \in marked THEN waiting ELSE waiting + 1
    BY <2>1, <2>2, <2>4, <2>5
  <2> QED
    BY <2>6 DEF B
<1>19. ASSUME NEW d \in Cameras, d # c
       PROVE  Same(d)
  <2>1. queue'[d] = queue[d]
    BY <1>2, <1>8, <1>19 DEF TypeOK
  <2> QED
    BY <1>1, <1>8, <1>19, <2>1 DEF Same
<1>20. RotateIfNeeded(Cardinality({d \in met : d \in marked' /\ current[d] = part}), clock)
  BY <1>8, <1>18
<1>21. /\ c \notin marked => WritingInv(c)
       /\ c \in marked => Ahead(c)
  BY <1>6 DEF Ahead
<1> HIDE DEF a, q
<1> QED
  BY <1>5, <1>7, <1>8, <1>9, <1>15, <1>16, <1>17, <1>19, <1>20, <1>21


(* While others write, c is ahead; else the log rotates, for c is the last *)
(* to roll over.                                                           *)
LEMMA QueuesKeepsLog ==
  ASSUME EInv, LInv, Paced, ~TimedOut(lastSeen), NEW c \in Cameras, Queues(c)
  PROVE  LInv'
<1> DEFINE k == Head(sock[c])
           B == {d \in met : d \in marked' /\ current[d] = part}
<1>1. /\ k.seg > part /\ c \in met /\ met' = met /\ marked' = marked \cup {c}
      /\ UNCHANGED <<current, offset, recording, recorded>>
      /\ current[c] = part
      /\ c \notin marked => WritingInv(c)
      /\ c \in marked => Ahead(c)
      /\ queue'[c] \in Seq(Packets)
      /\ queue'[c] # <<>> /\ Head(queue'[c]).key
      /\ \A i \in 1 .. Len(queue'[c]) : queue'[c][i].seg > part
      /\ QueueInv(c)'
      /\ sock'[c] = <<>> => seg[c] > part
      /\ sock'[c] # <<>> => Head(sock'[c]).seg > part
      /\ RotateIfNeeded(Cardinality(B), clock)
      /\ \A d \in Cameras : d # c => Same(d)
  BY QueuesFacts
<1>2. /\ sock[c] # <<>>
      /\ UNCHANGED <<clock, alive, skips, pc, next, start, ready, synced, seg, count, encoded>>
  BY ReceivesFacts DEF Queues
<1>3. TypeOK /\ TypeOK'
  BY LoggerTypes DEF EInv, Logger
<1>4. EInv'
  BY NextEInv DEF Next, Logger
<1>5. /\ met \subseteq Cameras /\ IsFiniteSet(met) /\ B \in SUBSET met
      /\ ~TimedOut(clock)
  BY <1>3, SegmentsAssumption, FS_Subset, HeardIsInTime DEF TypeOK
<1>6. part \in Nat /\ \A d \in Cameras : current[d] \in Int
  BY <1>3 DEF TypeOK
<1>7. LogInv(c) /\ c \in synced
  BY <1>1 DEF LInv, LogInv
<1>8. CASE B # met
  <2>1. Cardinality(B) # Cardinality(met)
    BY <1>5, <1>8, FS_Subset
  <2>2. part' = part /\ waiting' = Cardinality(B)
    BY <1>1, <1>5, <2>1 DEF RotateIfNeeded
  <2>3. \A d \in Cameras : Ahead(d)' <=> d \in B
    BY <1>1, <2>2 DEF Ahead
  <2>4. CountInv'
    <3>1. {d \in met : Ahead(d)}' = B
      BY <1>1, <1>5, <2>3
    <3>2. \E d \in met' : ~Ahead(d)'
      BY <1>1, <1>5, <1>8, <2>3
    <3> QED
      BY <2>2, <3>1, <3>2 DEF CountInv
  <2>5. LogInv(c)'
    <3>1. AheadInv(c)'
      BY <1>1, <1>2, <2>2 DEF AheadInv
    <3> QED
      BY <1>1, <1>2, <1>7, <2>2, <3>1 DEF LogInv
  <2>6. ASSUME NEW d \in Cameras, d # c
        PROVE  LogInv(d)'
    BY <1>1, <2>2, <2>6, SameKeepsLog DEF LInv
  <2> QED
    BY <2>4, <2>5, <2>6 DEF LInv
<1>9. CASE B = met
  <2>1. part' = part + 1 /\ waiting' = 0
    BY <1>1, <1>5, <1>9 DEF RotateIfNeeded
  <2>2. c \notin marked /\ ~Ahead(c) /\ \A d \in met : d # c => Ahead(d)
    <3>1. \A d \in met : d \in marked' /\ current[d] = part
      BY <1>9
    <3>2. \A d \in met : d # c => Ahead(d)
      BY <1>1, <3>1 DEF Ahead
    <3>3. ~Ahead(c)
      BY <1>1, <3>2 DEF LInv, CountInv
    <3> QED
      BY <1>1, <3>2, <3>3
  <2>3. clock <= Begin(part + 1, start) + skips + Skew
    BY <1>1, <1>2, <2>2, NotAheadInTime
  <2>4. /\ clock \in Nat /\ skips \in Nat /\ start \in Nat /\ SegFrames \in Nat
        /\ Skew \in Nat /\ MaxMishaps \in Nat /\ skips <= MaxMishaps
        /\ Begin(part + 1, start) \in Int
    <3>1. /\ clock \in Nat /\ skips \in Nat /\ start \in Nat /\ SegFrames \in Nat
          /\ Skew \in Nat /\ MaxMishaps \in Nat /\ skips <= MaxMishaps
      BY SegmentsAssumption DEF EInv, TypeOK
    <3>2. part + 1 \in Int /\ start \in Int
      BY <1>6, <3>1
    <3> QED
      BY <3>1, <3>2, BeginInt
  <2>5. ASSUME NEW d \in met
        PROVE  LogInv(d)'
    <3>1. d \in Cameras /\ LogInv(d) /\ d \in synced /\ QueueInv(d)
      BY <1>5 DEF LInv, LogInv
    <3>2. /\ queue'[d] # <<>> /\ Head(queue'[d]).key /\ QueueInv(d)'
          /\ \A i \in 1 .. Len(queue'[d]) : queue'[d][i].seg > part
          /\ sock'[d] = <<>> => seg[d] > part
          /\ sock'[d] # <<>> => Head(sock'[d]).seg > part
      <4>1. CASE d = c
        BY <1>1, <4>1
      <4>2. CASE d # c
        <5>1. AheadInv(d) /\ Same(d)
          BY <1>1, <2>2, <3>1, <4>2 DEF LogInv
        <5>2. QueueInv(d)' = QueueInv(d)
          BY <5>1 DEF Same, QueueInv, Upcoming
        <5> QED
          BY <3>1, <5>1, <5>2 DEF Same, AheadInv
      <4> QED
        BY <4>1, <4>2
    <3>3. /\ \A e \in encoded[d] : e.part <= part + 1
          /\ seg[d] <= part + 1
      BY <2>3, <3>1, NoneTwoAhead
    <3>4. \A i \in 1 .. Len(queue'[d]) : queue'[d][i].seg = part + 1
      <4> SUFFICES ASSUME NEW i \in 1 .. Len(queue'[d]) PROVE queue'[d][i].seg = part + 1
        OBVIOUS
      <4>1. queue'[d] \in Seq(Packets)
        BY <1>3, <3>1 DEF TypeOK
      <4>2. queue'[d][i] \in Packets
        BY <4>1, ElementOfSeq
      <4>3. Entry(queue'[d][i]) \in encoded[d]
        BY <1>2, <3>2 DEF QueueInv
      <4>4. queue'[d][i].seg <= part + 1 /\ queue'[d][i].seg \in Nat
        BY <3>3, <4>2, <4>3 DEF Entry, Packets
      <4> QED
        BY <1>6, <3>2, <4>4
    <3>5. d \in ready /\ next[d] <= clock + 1 /\ next[d] \in Nat /\ seg[d] \in Nat
      BY <3>1, <1>3 DEF EInv, StartsInv, TypeOK
    <3>6. ASSUME sock'[d] # <<>>
          PROVE  Head(sock'[d]).seg = part + 1 /\ Head(sock'[d]).frame < next[d]
                 /\ Head(sock'[d]).frame \in Nat
      <4>1. sock'[d] \in Seq(Packets)
        BY <1>3, <3>1 DEF TypeOK
      <4>2. Head(sock'[d]) \in Packets /\ Head(sock'[d]) = sock'[d][1] /\ 1 \in 1 .. Len(sock'[d])
        BY <3>6, <4>1, EmptySeq, HeadTailProperties, LenProperties
      <4>3. Entry(Head(sock'[d])) \in encoded[d]
        BY <1>2, <1>4, <3>1, <4>2 DEF EInv, SockInv, Chain
      <4>4. Head(sock'[d]).seg <= part + 1
        BY <3>3, <4>3 DEF Entry
      <4>5. Head(sock'[d]).frame < next[d]
        BY <3>1, <4>3 DEF EInv, EncoderInv, Entry
      <4>6. Head(sock'[d]).seg \in Nat /\ Head(sock'[d]).frame \in Nat
        BY <4>2 DEF Packets
      <4> QED
        BY <1>6, <3>2, <3>6, <4>4, <4>5, <4>6
    <3>7. Upcoming(d)' <= Begin(part', start') + Skew + 1 + skips'
      <4>1. Upcoming(d)' <= clock + 1 /\ Upcoming(d)' \in Nat
        BY <1>2, <2>4, <3>5, <3>6 DEF Upcoming
      <4>2. Begin(part', start') = Begin(part + 1, start) /\ skips' = skips
        BY <1>2, <2>1
      <4> QED
        BY <2>3, <2>4, <4>1, <4>2
    <3>8. StaleInv(d)'
      <4>1. sock'[d] = <<>> => seg'[d] = part + 1
        BY <1>2, <1>6, <3>2, <3>3, <3>5
      <4> QED
        BY <1>6, <2>1, <3>2, <3>4, <3>6, <3>7, <4>1 DEF StaleInv
    <3>9. d \in marked' /\ current'[d] = part
      BY <1>1, <1>9
    <3>10. ~Ahead(d)'
      BY <1>6, <2>1, <3>9 DEF Ahead
    <3>11. current'[d] <= part'
      BY <1>6, <2>1, <3>9
    <3> QED
      BY <1>1, <1>2, <3>1, <3>2, <3>8, <3>9, <3>10, <3>11 DEF LogInv
  <2>6. ASSUME NEW d \in Cameras, d \notin met
        PROVE  LogInv(d)'
    <3>1. UnmetInv(d) /\ d # c /\ Same(d) /\ LogInv(d)
      BY <1>1, <2>6 DEF LInv, LogInv
    <3>2. clock >= start + SegFrames
      <4>1. k \in Packets /\ InSegment(k.frame, k.seg, start) /\ k.frame <= clock
        BY <1>2, HeadFacts
      <4>2. k.frame \in Nat /\ k.seg \in Nat /\ k.seg > 0
        BY <1>1, <1>6, <4>1 DEF Packets
      <4> HIDE DEF k
      <4>3. k.frame >= Begin(k.seg, start)
        BY <4>1, <4>2 DEF InSegment
      <4>4. 0 \in Int /\ k.seg \in Int /\ start \in Int /\ 0 < k.seg
        BY <2>4, <4>2
      <4>5. Begin(0 + 1, start) <= Begin(k.seg, start)
        BY <4>4, BeginGrows
      <4>6. Begin(0 + 1, start) = start + SegFrames
        BY <2>4 DEF Begin
      <4>7. Begin(k.seg, start) \in Int
        BY <4>4, BeginInt
      <4> QED
        BY <2>4, <4>1, <4>2, <4>3, <4>5, <4>6, <4>7
    <3>3. d \notin synced
      <4> SUFFICES ASSUME d \in synced PROVE FALSE
        OBVIOUS
      <4>1. sock[d] # <<>> /\ Head(sock[d]).frame <= start + skips
        BY <3>1 DEF UnmetInv
      <4>2. clock <= Head(sock[d]).frame + Skew /\ Head(sock[d]).frame \in Nat
        BY <4>1, HeadFacts DEF Packets
      <4> QED
        BY SMTT(30), <2>4, <3>2, <4>1, <4>2 DEF Paced
    <3>4. d \notin alive
      <4> SUFFICES ASSUME d \in alive PROVE FALSE
        OBVIOUS
      <4>1. clock <= next[d] + Skew /\ next[d] \in Nat
        BY <1>3 DEF EInv, StartsInv, TypeOK
      <4>2. ready = Cameras
        BY <1>7 DEF EInv
      <4>3. next[d] <= start + skips
        BY <3>3, <4>2 DEF EInv, StartsInv
      <4> QED
        BY <2>4, <3>2, <4>1, <4>3 DEF Paced
    <3>5. UnmetInv(d)'
      BY <3>1, <3>3, <3>4 DEF UnmetInv, Same
    <3>6. QueueInv(d)'
      BY <3>1, EmptySeq DEF QueueInv, Same, UnmetInv
    <3>7. current'[d] <= part'
      BY <1>6, <2>1, <3>1 DEF UnmetInv, Same
    <3> QED
      BY <1>1, <1>2, <2>6, <3>1, <3>5, <3>6, <3>7 DEF LogInv, Same, Ahead
  <2>7. CountInv'
    <3>1. \A d \in met : ~Ahead(d)'
      BY <1>1, <1>5, <1>6, <1>9, <2>1 DEF Ahead
    <3>2. {d \in met : Ahead(d)}' = {}
      BY <1>1, <3>1
    <3> QED
      BY <1>1, <2>1, <3>1, <3>2, FS_EmptySet DEF CountInv
  <2> QED
    BY <2>5, <2>6, <2>7 DEF LInv
<1> QED
  BY <1>8, <1>9

(* The queue never overflows while all live: what waits is of no more      *)
(* frames than the cameras lag behind and drop.                            *)
LEMMA QueuesKeepsFrames ==
  ASSUME EInv, LInv, Paced, ~TimedOut(lastSeen), NEW c \in Cameras, Queues(c), KInv
  PROVE  KInv'
<1> DEFINE k == Head(sock[c])
           q == queue[c]
<1>1. /\ k.seg > part /\ c \in met /\ UNCHANGED recorded
      /\ c \notin marked => WritingInv(c)
      /\ c \in marked => Ahead(c)
      /\ \A d \in Cameras : d # c => Same(d)
  BY QueuesFacts
<1>2. /\ sock[c] # <<>> /\ Packet(c) = k /\ sock'[c] = Tail(sock[c])
      /\ Upcoming(c) = k.frame
      /\ UNCHANGED <<alive, encoded>>
  BY ReceivesFacts DEF Queues
<1>3. k \in Packets /\ k.frame <= clock
  BY <1>2, HeadFacts
<1>4. /\ sock[c] \in Seq(Packets) /\ q \in Seq(Packets) /\ Len(q) \in Nat
      /\ queue \in [Cameras -> Seq(Packets)]
      /\ part \in Nat /\ clock \in Nat /\ skips \in Nat /\ start \in Nat
      /\ Skew \in Nat /\ MaxMishaps \in Nat /\ skips <= MaxMishaps /\ QueueFrames \in Nat
  BY SegmentsAssumption, LenProperties DEF EInv, TypeOK
<1>5. ASSUME alive = Cameras
      PROVE  Len(q) <= QueueFrames
  <2>1. CASE Len(q) = 0
    BY <1>4, <2>1
  <2>2. CASE Len(q) > 0
    <3>1. PICK d \in met : ~Ahead(d)
      BY <1>1 DEF LInv, CountInv
    <3>2. d \in Cameras
      BY <3>1 DEF EInv, TypeOK
    <3>3. clock <= Begin(part + 1, start) + skips + Skew
      BY <1>5, <3>1, <3>2, NotAheadInTime
    <3>4. 1 \in 1 .. Len(q) /\ Len(q) \in 1 .. Len(q)
      BY <1>4, <2>2
    <3>5. q[1] \in Packets /\ q[Len(q)] \in Packets
      BY <1>4, <3>4, ElementOfSeq
    <3>6. q[1].frame \in Nat /\ q[1].seg \in Nat /\ q[Len(q)].frame \in Nat /\ k.frame \in Nat
      BY <1>3, <3>5 DEF Packets
    <3>7. QueueInv(c)
      BY DEF LInv, LogInv
    <3>8. /\ Entry(q[1]) \in encoded[c] /\ q[Len(q)].frame < k.frame
          /\ q[Len(q)].frame >= q[1].frame + Len(q) - 1
      BY <1>2, <3>4, <3>7 DEF QueueInv
    <3>9. q[1].seg > part
      <4>1. q # <<>>
        BY <2>2, EmptySeq
      <4>2. c \in marked
        BY <1>1, <4>1 DEF WritingInv
      <4>3. AheadInv(c)
        BY <1>1, <4>2 DEF LInv, LogInv
      <4> QED
        BY <3>4, <4>3 DEF AheadInv
    <3>10. InSegment(q[1].frame, q[1].seg, start)
      BY <3>8, EncodedFacts DEF Entry
    <3> HIDE DEF q, k
    <3>11. q[1].frame >= Begin(q[1].seg, start)
      BY <1>4, <3>6, <3>9, <3>10 DEF InSegment
    <3>12. Begin(part + 1, start) <= Begin(q[1].seg, start)
      <4>1. part \in Int /\ q[1].seg \in Int /\ start \in Int
        BY <1>4, <3>6
      <4> QED
        BY <3>9, <4>1, BeginGrows
    <3>13. Begin(part + 1, start) \in Int /\ Begin(q[1].seg, start) \in Int
      <4>1. part + 1 \in Int /\ q[1].seg \in Int /\ start \in Int
        BY <1>4, <3>6
      <4> QED
        BY <4>1, BeginInt
    <3>14. q[1].frame >= Begin(part + 1, start)
      BY <3>6, <3>11, <3>12, <3>13
    <3>15. k.frame <= Begin(part + 1, start) + skips + Skew
      BY <1>3, <1>4, <3>3, <3>6, <3>13
    <3>16. Len(q) <= skips + Skew
      <4>1. /\ Len(q) \in Int /\ Begin(part + 1, start) \in Int /\ q[1].frame \in Int
            /\ q[Len(q)].frame \in Int /\ k.frame \in Int /\ skips \in Int /\ Skew \in Int
        BY <1>4, <3>6, <3>13
      <4>2. q[Len(q)].frame < Begin(part + 1, start) + skips + Skew
        BY <3>8, <3>15, <4>1
      <4>3. q[1].frame + Len(q) - 1 < Begin(part + 1, start) + skips + Skew
        BY <3>8, <4>1, <4>2
      <4> QED
        BY <3>14, <4>1, <4>3
    <3>17. Skew + MaxMishaps <= QueueFrames
      BY DEF Paced
    <3> QED
      BY <1>4, <3>16, <3>17
  <2> QED
    BY <1>4, <2>1, <2>2
<1>6. ASSUME alive = Cameras, Kept(c)
      PROVE  Kept(c)'
  <2>1. queue'[c] = Append(q, k)
    BY <1>2, <1>4, <1>5, <1>6 DEF Queues
  <2>2. /\ Len(queue'[c]) = Len(q) + 1 /\ queue'[c][Len(q) + 1] = k
        /\ \A i \in 1 .. Len(q) : queue'[c][i] = q[i]
    BY <1>3, <1>4, <2>1, AppendProperties
  <2>3. /\ Len(sock[c]) \in Nat \ {0} /\ k = sock[c][1]
        /\ Len(sock'[c]) = Len(sock[c]) - 1
        /\ \A j \in 1 .. Len(sock'[c]) : sock'[c][j] = sock[c][j + 1]
    BY <1>2, <1>4, HeadTailProperties, EmptySeq
  <2> HIDE DEF q, k
  <2>4. ASSUME NEW e \in encoded[c]
        PROVE  \/ e \in recorded'[c]
               \/ \E i \in 1 .. Len(sock'[c]) : sock'[c][i].frame = e.frame
               \/ \E i \in 1 .. Len(queue'[c]) : queue'[c][i].frame = e.frame
    <3>1. CASE e \in recorded[c]
      BY <1>1, <3>1
    <3>2. CASE \E i \in 1 .. Len(q) : q[i].frame = e.frame
      <4>1. PICK i \in 1 .. Len(q) : q[i].frame = e.frame
        BY <3>2
      <4>2. i \in 1 .. Len(queue'[c]) /\ queue'[c][i].frame = e.frame
        BY <1>4, <2>2, <4>1
      <4> QED
        BY <4>2
    <3>3. CASE \E i \in 1 .. Len(sock[c]) : sock[c][i].frame = e.frame
      <4>1. PICK i \in 1 .. Len(sock[c]) : sock[c][i].frame = e.frame
        BY <3>3
      <4>2. CASE i = 1
        <5>1. Len(q) + 1 \in 1 .. Len(queue'[c]) /\ queue'[c][Len(q) + 1].frame = e.frame
          BY <1>4, <2>2, <2>3, <4>1, <4>2
        <5> QED
          BY <5>1
      <4>3. CASE i > 1
        <5>1. i - 1 \in 1 .. Len(sock'[c]) /\ (i - 1) + 1 = i
          BY <2>3, <4>3
        <5> QED
          BY <2>3, <4>1, <5>1
      <4> QED
        BY <2>3, <4>2, <4>3
    <3> QED
      BY <1>6, <3>1, <3>2, <3>3 DEF Kept, q
  <2> QED
    BY <1>2, <2>4 DEF Kept
<1>7. ASSUME NEW d \in Cameras, d # c, Kept(d)
      PROVE  Kept(d)'
  BY <1>1, <1>7 DEF Same, Kept
<1> QED
  BY <1>2, <1>6, <1>7 DEF KInv

-----------------------------------------------------------------------------
(* The log, as long as no rotation is forced.                              *)

(* No encoder counts from 0 again.                                         *)
LEMMA NeverRecounts ==
  ASSUME EInv, LInv, Paced, NEW c \in Cameras, Recounts(c)
  PROVE  FALSE
<1>1. sock[c] # <<>> /\ Segment(c) < part
  BY DEF Recounts, Receives
<1>2. Segment(c) = Head(sock[c]).seg /\ Head(sock[c]).seg >= part
  BY <1>1, PacketSegment
<1>3. Head(sock[c]).seg \in Nat /\ part \in Nat
  BY <1>1, HeadFacts DEF Packets, EInv, TypeOK
<1> QED
  BY <1>1, <1>2, <1>3

LEMMA NextLInv ==
  ASSUME EInv, LInv, Paced, ~TimedOut(lastSeen), [Next]_vars
  PROVE  LInv' /\ (KInv => KInv')
<1>1. CASE \E c \in Cameras : Encoder(c) \/ Skips(c) \/ Dies(c)
  BY <1>1, OutsideKeeps
<1>2. CASE Tick
  <2>1. PICK c \in Cameras : TRUE
    BY SegmentsAssumption, FS_EmptySet
  <2> QED
    BY <1>2, <2>1, OutsideKeeps
<1>3. CASE HearsOthers
  BY <1>3 DEF HearsOthers
<1>4. ASSUME NEW c \in Cameras, Writes(c)
      PROVE  LInv' /\ (KInv => KInv')
  BY <1>4, WritesKeepsLog, WritesKeepsFrames
<1>5. ASSUME NEW c \in Cameras, Queues(c)
      PROVE  LInv' /\ (KInv => KInv')
  BY <1>5, QueuesKeepsLog, QueuesKeepsFrames
<1>6. ASSUME NEW c \in Cameras, Recounts(c)
      PROVE  FALSE
  BY <1>6, NeverRecounts
<1>7. CASE UNCHANGED vars
  <2>1. /\ \A c \in Cameras : LogInv(c)' = LogInv(c) /\ Ahead(c)' = Ahead(c)
        /\ \A c \in Cameras : Kept(c)' = Kept(c)
    BY <1>7 DEF vars, worldVars, encoderVars, loggerVars, LogInv, QueueInv, UnmetInv,
                WritingInv, AheadInv, StaleInv, Ahead, Upcoming, Kept
  <2>2. met' = met /\ waiting' = waiting /\ alive' = alive /\ met \subseteq Cameras
    BY <1>7 DEF vars, worldVars, loggerVars, EInv, TypeOK
  <2>3. {c \in met : Ahead(c)}' = {c \in met : Ahead(c)}
    BY <2>1, <2>2
  <2>4. CountInv'
    <3>1. \A c \in met : Ahead(c)' = Ahead(c)
      BY <2>1, <2>2
    <3> QED
      BY <2>2, <2>3, <3>1 DEF LInv, CountInv
  <2> QED
    BY <2>1, <2>2, <2>4 DEF LInv, KInv
<1> QED
  BY <1>1, <1>2, <1>3, <1>4, <1>5, <1>6, <1>7 DEF Next, Logger

LEMMA FramesOfBoth ==
  ASSUME NEW p \in Seq(Packets), NEW q \in Seq(Packets)
  PROVE  /\ \A i \in 1 .. Len(p) : p[i].frame \in Frames(p \o q)
         /\ \A i \in 1 .. Len(q) : q[i].frame \in Frames(p \o q)
<1> DEFINE both == p \o q
<1>1. both \in Seq(Packets) /\ Len(p) \in Nat /\ Len(q) \in Nat
      /\ Len(both) = Len(p) + Len(q)
      /\ \A i \in 1 .. Len(p) + Len(q) :
           both[i] = IF i <= Len(p) THEN p[i] ELSE q[i - Len(p)]
  BY ConcatProperties, LenProperties
<1> HIDE DEF both
<1>2. \A i \in 1 .. Len(p) + Len(q) : both[i].frame \in Frames(both)
  <2>1. DOMAIN both = 1 .. Len(p) + Len(q)
    BY <1>1, LenProperties
  <2> QED
    BY <2>1 DEF Frames
<1>3. \A i \in 1 .. Len(p) : p[i].frame \in Frames(both)
  <2> SUFFICES ASSUME NEW i \in 1 .. Len(p) PROVE p[i].frame \in Frames(both)
    OBVIOUS
  <2>1. i \in 1 .. Len(p) + Len(q) /\ i <= Len(p)
    BY <1>1
  <2>2. both[i] = p[i]
    BY <1>1, <2>1
  <2> QED
    BY <1>2, <2>1, <2>2
<1>4. \A i \in 1 .. Len(q) : q[i].frame \in Frames(both)
  <2> SUFFICES ASSUME NEW i \in 1 .. Len(q) PROVE q[i].frame \in Frames(both)
    OBVIOUS
  <2>1. /\ Len(p) + i \in 1 .. Len(p) + Len(q) /\ ~(Len(p) + i <= Len(p))
        /\ (Len(p) + i) - Len(p) = i
    BY <1>1
  <2>2. both[Len(p) + i] = q[i]
    BY <1>1, <2>1
  <2> QED
    BY <1>2, <2>1, <2>2
<1> QED
  BY <1>3, <1>4 DEF both

LEMMA LogIsWhole ==
  ASSUME EInv, LInv, KInv
  PROVE  Whole
<1>1. ASSUME NEW c \in Cameras, NEW d \in Cameras, NEW r \in recorded[c],
             NEW s \in recorded[d], r.frame = s.frame
      PROVE  r.part = s.part
  <2>1. r \in encoded[c] /\ s \in encoded[d]
    BY DEF LInv, LogInv
  <2> QED
    BY <1>1, <2>1, EInvAgree DEF EncodersAgree
<1>2. ASSUME alive = Cameras, NEW c \in Cameras
      PROVE  /\ recorded[c] \subseteq encoded[c]
             /\ \A e \in encoded[c] :
                  e \in recorded[c] \/ e.frame \in Frames(sock[c] \o queue[c])
  <2>1. recorded[c] \subseteq encoded[c] /\ Kept(c)
    BY <1>2 DEF LInv, LogInv, KInv
  <2> DEFINE all == sock[c] \o queue[c]
  <2>2. sock[c] \in Seq(Packets) /\ queue[c] \in Seq(Packets)
    BY DEF EInv, TypeOK
  <2>3. /\ \A i \in 1 .. Len(sock[c]) : sock[c][i].frame \in Frames(all)
        /\ \A i \in 1 .. Len(queue[c]) : queue[c][i].frame \in Frames(all)
    BY <2>2, FramesOfBoth
  <2> HIDE DEF all
  <2>4. \A e \in encoded[c] : e \in recorded[c] \/ e.frame \in Frames(all)
    BY <2>1, <2>3 DEF Kept
  <2> QED
    BY <2>1, <2>4 DEF all
<1> QED
  BY <1>1, <1>2 DEF Whole

LEMMA LogKeepsUp ==
  ASSUME EInv, LInv
  PROVE  RotatesWithTheLast
<1> SUFFICES ASSUME met # {}, \A c \in met : sock[c] = <<>>
             PROVE  \E c \in met : seg[c] - offset[c] <= part
  BY DEF RotatesWithTheLast
<1>1. PICK c \in met : ~Ahead(c)
  BY DEF LInv, CountInv
<1>2. LogInv(c) /\ seg[c] \in Nat /\ part \in Nat
  BY <1>1 DEF LInv, EInv, TypeOK
<1>3. seg[c] = part /\ offset[c] = 0
  BY <1>1, <1>2 DEF LogInv, WritingInv, StaleInv, Ahead
<1> QED
  BY <1>1, <1>2, <1>3

LEMMA LogInvariant ==
  ASSUME Paced
  PROVE  Spec /\ []~TimedOut(lastSeen) => [](EInv /\ LInv /\ KInv)
<1>1. Init => EInv /\ LInv /\ KInv
  BY InitEInv, InitLInv
<1>2. EInv /\ LInv /\ KInv /\ ~TimedOut(lastSeen) /\ [Next]_vars => (EInv /\ LInv /\ KInv)'
  BY NextEInv, NextLInv
<1> QED
  BY <1>1, <1>2, PTL DEF Spec

(* Unless a rotation is forced, the cameras agree on the segment of a      *)
(* frame that is recorded, whatever stops meanwhile; and while all live    *)
(* every frame encoded is in its segment or on its way there               *)
(* (loggerd.cc:98-168).                                                    *)
THEOREM WholeUnlessForced ==
  ASSUME Paced
  PROVE  Spec /\ []~TimedOut(lastSeen) => []Whole
<1>1. EInv /\ LInv /\ KInv => Whole
  BY LogIsWhole
<1> QED
  BY <1>1, LogInvariant, PTL

(* Unless a rotation is forced, the log is behind only for an encoder that *)
(* has not rolled over: counts, marks and offsets never leave it waiting   *)
(* for one that has (loggerd.cc:33-50, 118-152).                           *)
THEOREM RotatesWithTheLastUnlessForced ==
  ASSUME Paced
  PROVE  Spec /\ []~TimedOut(lastSeen) => []RotatesWithTheLast
<1>1. EInv /\ LInv /\ KInv => RotatesWithTheLast
  BY LogKeepsUp
<1> QED
  BY <1>1, LogInvariant, PTL

-----------------------------------------------------------------------------
(* No rotation is forced while every camera lives.                         *)

(* Every camera has a first frame by frame latest; that, and the frames    *)
(* lagged behind and dropped, are fewer than a segment has too many        *)
(* (SEGMENT_LENGTH*1.2) before it is cut, and those are fewer than the     *)
(* log's patience with a silent camera.                                    *)
UpBy(latest) ==
  /\ \A f \in Firsts : f <= latest
  /\ latest + 2 * (MaxMishaps + Skew) + 2 <= Slack
  /\ latest + 2 * (MaxMishaps + Skew) + 2 <= SegFrames
  /\ MaxMishaps + Skew + 1 <= Patience

(* The log's segment is no older than its first frame, no camera is        *)
(* silent for longer than it lags and drops, and the common start is soon  *)
(* after the cameras'.                                                     *)
EarlyInv(latest) ==
  /\ lastSeen <= clock
  /\ part > 0 => rotated >= Begin(part, start)
  /\ \A c \in met : Upcoming(c) <= lastSeen + 1 + skips
  /\ start <= latest + skips + Skew + 2
  /\ \A c \in Cameras :
       /\ c \notin ready => next[c] <= latest + skips
       /\ pc[c] = "putOff" => next[c] <= latest + skips + Skew

LEMMA NoneIsForced ==
  ASSUME EInv, LInv, Paced, NEW latest \in Nat, UpBy(latest), EarlyInv(latest), alive = Cameras
  PROVE  ~TimedOut(lastSeen)
<1>1. /\ clock \in Nat /\ lastSeen \in Nat /\ rotated \in Nat /\ skips \in Nat /\ start \in Nat
      /\ part \in Nat /\ SegFrames \in Nat /\ Slack \in Nat /\ Patience \in Nat
      /\ Skew \in Nat /\ MaxMishaps \in Nat /\ skips <= MaxMishaps
  BY SegmentsAssumption DEF EInv, TypeOK
<1>2. /\ latest + 2 * (MaxMishaps + Skew) + 2 <= Slack
      /\ latest + 2 * (MaxMishaps + Skew) + 2 <= SegFrames
      /\ MaxMishaps + Skew + 1 <= Patience
      /\ start <= latest + skips + Skew + 2
  BY DEF UpBy, EarlyInv
<1>3. CASE met = {}
  <2>1. PICK c \in Cameras : TRUE
    BY SegmentsAssumption, FS_EmptySet
  <2>2. UnmetInv(c)
    BY <1>3 DEF LInv, LogInv
  <2>3. next[c] \in Nat /\ clock <= next[c] + Skew
    BY DEF EInv, TypeOK, StartsInv
  <2>4. clock <= latest + 2 * (MaxMishaps + Skew) + 2
    <3>1. CASE sock[c] # <<>>
      <4>1. /\ Head(sock[c]).frame <= start + skips /\ clock <= Head(sock[c]).frame + Skew
            /\ Head(sock[c]).frame \in Nat
        BY <2>2, <3>1, HeadFacts DEF UnmetInv, Packets
      <4> QED
        BY <1>1, <1>2, <4>1
    <3>2. CASE sock[c] = <<>>
      <4>1. c \notin synced
        BY <2>2, <3>2 DEF UnmetInv
      <4>2. next[c] <= start + skips \/ next[c] <= latest + skips
        BY <4>1 DEF EInv, StartsInv, EarlyInv
      <4> QED
        BY <1>1, <1>2, <2>3, <4>2
    <3> QED
      BY <3>1, <3>2
  <2>5. clock - rotated <= SegFrames
    BY <1>1, <1>2, <2>4
  <2> QED
    BY <1>1, <2>5 DEF TimedOut
<1>4. CASE met # {}
  <2>1. PICK d \in met : ~Ahead(d)
    BY <1>4 DEF LInv, CountInv
  <2>2. d \in Cameras /\ LogInv(d)
    BY <2>1 DEF EInv, TypeOK, LInv
  <2>3. clock <= Begin(part + 1, start) + skips + Skew
    BY <2>1, <2>2, NotAheadInTime
  <2>4. clock <= Upcoming(d) + Skew /\ Upcoming(d) \in Nat
    <3>1. CASE sock[d] = <<>>
      BY <2>2, <3>1 DEF Upcoming, EInv, StartsInv, TypeOK
    <3>2. CASE sock[d] # <<>>
      BY <2>2, <3>2, HeadFacts DEF Upcoming, Packets
    <3> QED
      BY <3>1, <3>2
  <2>5. clock - lastSeen <= Patience
    <3>1. Upcoming(d) <= lastSeen + 1 + skips
      BY <2>1 DEF EarlyInv
    <3> QED
      BY <1>1, <1>2, <2>4, <3>1
  <2>6. clock - rotated <= SegFrames + Slack
    <3>1. /\ Begin(part + 1, start) = Begin(part, start) + SegFrames
          /\ Begin(part, start) \in Int
          /\ part = 0 => Begin(part, start) = start
      BY <1>1 DEF Begin
    <3>2. CASE part = 0
      BY <1>1, <1>2, <2>3, <3>1, <3>2
    <3>3. CASE part > 0
      <4>1. rotated >= Begin(part, start)
        BY <3>3 DEF EarlyInv
      <4> QED
        BY <1>1, <1>2, <2>3, <3>1, <4>1
    <3> QED
      BY <1>1, <3>2, <3>3
  <2> QED
    BY <1>1, <2>5, <2>6 DEF TimedOut
<1> QED
  BY <1>3, <1>4

LEMMA InitEarly ==
  ASSUME Init, NEW latest \in Nat, UpBy(latest)
  PROVE  EarlyInv(latest)
BY SegmentsAssumption DEF Init, UpBy, EarlyInv

LEMMA DropLoosens ==
  ASSUME NEW s \in Nat, NEW l \in Nat, NEW k \in Nat, NEW j \in Nat,
         s <= l + k + Skew + 2, k <= j
  PROVE  s <= l + j + Skew + 2
BY SegmentsAssumption

LEMMA OutsideKeepsEarly ==
  ASSUME EInv, LInv, Paced, NEW latest \in Nat, EarlyInv(latest), alive = Cameras,
         NEW c \in Cameras, Encoder(c) \/ Skips(c) \/ Dies(c) \/ Tick
  PROVE  EarlyInv(latest)'
<1>1. /\ UNCHANGED <<part, rotated, lastSeen, met, offset, current, marked, recording,
                     queue, recorded>>
      /\ start <= start' /\ skips <= skips'
      /\ \A d \in Cameras : Quiet(d) \/ Encodes(d)
  BY OutsideFacts
<1>2. TypeOK /\ TypeOK'
  BY EncoderTypes DEF EInv
<1>3. /\ clock \in Nat /\ lastSeen \in Nat /\ skips \in Nat /\ skips' \in Nat
      /\ start \in Nat /\ start' \in Nat /\ Skew \in Nat /\ part \in Nat /\ rotated \in Nat
  BY <1>2, SegmentsAssumption DEF TypeOK
<1>4. /\ lastSeen <= clock
      /\ part > 0 => rotated >= Begin(part, start)
      /\ \A d \in met : Upcoming(d) <= lastSeen + 1 + skips
      /\ start <= latest + skips + Skew + 2
      /\ \A d \in Cameras :
           /\ d \notin ready => next[d] <= latest + skips
           /\ pc[d] = "putOff" => next[d] <= latest + skips + Skew
  BY DEF EarlyInv
<1>5. lastSeen' <= clock'
  <2>1. clock' = clock \/ clock' = clock + 1
    BY DEF Encoder, FindsOthersMissing, PutsOffStart, Counts, AwaitsStart, Encodes, Skips,
           Dies, Tick, worldVars
  <2> QED
    BY <1>1, <1>3, <1>4, <2>1
<1>6. part' > 0 => rotated' >= Begin(part', start')
  <2>1. CASE PutsOffStart(c)
    <3>1. c \in alive /\ c \notin synced
      BY <2>1 DEF PutsOffStart, EInv, StartsInv
    <3>2. c \notin met
      BY <3>1 DEF LInv, LogInv
    <3>3. ~(part > 0)
      BY <3>1, <3>2 DEF LInv, LogInv, UnmetInv
    <3> QED
      BY <1>1, <3>3
  <2>2. CASE ~PutsOffStart(c)
    <3>1. start' = start
      BY <2>2 DEF Encoder, FindsOthersMissing, Counts, AwaitsStart, Encodes, Skips, Dies,
                  Tick, encoderVars
    <3> QED
      BY <1>1, <1>4, <3>1
  <2> QED
    BY <2>1, <2>2
<1>7. ASSUME NEW d \in met'
      PROVE  Upcoming(d)' <= lastSeen' + 1 + skips'
  <2>1. d \in Cameras /\ d \in met /\ d \in synced
    BY <1>1, <1>2, <1>7 DEF TypeOK, LInv, LogInv
  <2>2. next[d] \in Nat /\ next'[d] \in Nat
    BY <1>2, <2>1 DEF TypeOK
  <2>3. CASE Encodes(d)
    <3>1. Upcoming(d)' = Upcoming(d)
      BY <1>1, <2>1, <2>3, SendsKeepsLog
    <3>2. Upcoming(d) \in Nat
      BY <2>1, <2>2, HeadFacts DEF Upcoming, Packets
    <3> QED
      BY <1>1, <1>3, <1>4, <2>1, <3>1, <3>2
  <2>4. CASE Quiet(d)
    <3>1. CASE sock[d] = <<>>
      <4>1. Upcoming(d) = next[d] /\ Upcoming(d)' = next'[d]
        BY <2>4, <3>1 DEF Quiet, Upcoming
      <4>2. next'[d] - skips' <= next[d] - skips
        BY <2>1, <2>4 DEF Quiet
      <4> QED
        BY <1>1, <1>3, <1>4, <2>1, <2>2, <4>1, <4>2
    <3>2. CASE sock[d] # <<>>
      <4>1. Upcoming(d)' = Upcoming(d)
        BY <2>4, <3>2 DEF Quiet, Upcoming
      <4>2. Upcoming(d) \in Nat
        BY <2>1, <3>2, HeadFacts DEF Upcoming, Packets
      <4> QED
        BY <1>1, <1>3, <1>4, <2>1, <4>1, <4>2
    <3> QED
      BY <3>1, <3>2
  <2> QED
    BY <1>1, <2>1, <2>3, <2>4
<1>8. start' <= latest + skips' + Skew + 2
  <2>1. skips <= skips' /\ start <= latest + skips + Skew + 2
    BY <1>1, <1>4
  <2>2. CASE PutsOffStart(c)
    <3>1. pc[c] = "putOff" /\ start' \in {start, next[c] + 2} /\ next[c] \in Nat
      BY <1>2, <2>2, PutOffFacts
    <3>2. next[c] <= latest + skips + Skew
      BY <1>4, <3>1
    <3>3. next[c] + 2 <= latest + skips + Skew + 2
      BY <1>3, <3>1, <3>2
    <3>4. start' <= latest + skips + Skew + 2
      BY <2>1, <3>1, <3>3
    <3> QED
      BY <1>3, <2>1, <3>4, DropLoosens
  <2>3. CASE ~PutsOffStart(c)
    <3>1. start' = start
      BY <2>3 DEF Encoder, FindsOthersMissing, Counts, AwaitsStart, Encodes, Skips, Dies,
                  Tick, encoderVars
    <3> QED
      BY <1>3, <2>1, <3>1, DropLoosens
  <2> QED
    BY <2>2, <2>3
<1>9. ASSUME NEW d \in Cameras
      PROVE  /\ d \notin ready' => next'[d] <= latest + skips'
             /\ pc'[d] = "putOff" => next'[d] <= latest + skips' + Skew
  <2>1. next[d] \in Nat /\ next'[d] \in Nat
    BY <1>2 DEF TypeOK
  <2>2. CASE Skips(c)
    <3>1. /\ skips' = skips + 1 /\ ready' = ready /\ pc' = pc
          /\ next'[d] \in {next[d], next[d] + 1} /\ pc[c] = "frame"
          /\ d # c => next'[d] = next[d]
      BY <1>2, <2>2 DEF Skips, HasFrame, NextFrame, TypeOK
    <3> QED
      BY <1>3, <1>4, <2>1, <3>1
  <2>3. CASE FindsOthersMissing(c)
    <3>1. /\ skips' = skips /\ next' = next /\ ready' = ready /\ ready # Cameras
          /\ next[c] <= clock /\ \A e \in Cameras : e # c => pc'[e] = pc[e]
      BY <1>2, <2>3 DEF FindsOthersMissing, HasFrame, TypeOK, worldVars
    <3>2. PICK e \in Cameras : e \notin ready
      BY <1>2, <3>1 DEF TypeOK
    <3>3. clock <= next[e] + Skew /\ next[e] <= latest + skips /\ next[e] \in Nat
      BY <1>2, <1>4, <3>2 DEF EInv, StartsInv, TypeOK
    <3>4. d = c => next[d] <= latest + skips + Skew
      BY <1>3, <2>1, <3>1, <3>3
    <3> QED
      BY <1>4, <3>1, <3>4
  <2>4. CASE Counts(c)
    <3>1. /\ skips' = skips /\ ready' = ready \cup {c} /\ pc'[c] = "frame"
          /\ d # c => next'[d] = next[d] /\ pc'[d] = pc[d]
      BY <1>2, <2>4 DEF Counts, NextFrame, TypeOK, worldVars
    <3> QED
      BY <1>4, <3>1
  <2>5. CASE AwaitsStart(c) \/ Encodes(c)
    <3>1. /\ skips' = skips /\ ready' = ready /\ ready = Cameras /\ pc' = pc /\ pc[c] = "frame"
          /\ d # c => next'[d] = next[d]
      <4>1. CASE AwaitsStart(c)
        BY <1>2, <4>1 DEF AwaitsStart, HasFrame, NextFrame, TypeOK, worldVars
      <4>2. CASE Encodes(c)
        <5>1. ready = Cameras /\ pc[c] = "frame" /\ next' = [next EXCEPT ![c] = next[c] + 1]
          BY <4>2, EncodesFacts
        <5>2. skips' = skips /\ ready' = ready /\ pc' = pc
          BY <4>2 DEF Encodes, worldVars
        <5>3. d # c => next'[d] = next[d]
          BY <1>2, <5>1 DEF TypeOK
        <5> QED
          BY <5>1, <5>2, <5>3
      <4> QED
        BY <2>5, <4>1, <4>2
    <3> QED
      BY <1>4, <3>1
  <2>6. CASE PutsOffStart(c) \/ Dies(c) \/ Tick
    <3>1. /\ skips' = skips /\ ready' = ready /\ next' = next
          /\ pc'[d] = "putOff" => pc[d] = "putOff"
      BY <1>2, <2>6 DEF PutsOffStart, Dies, Tick, TypeOK, worldVars, encoderVars
    <3> QED
      BY <1>4, <3>1
  <2> QED
    BY <2>2, <2>3, <2>4, <2>5, <2>6 DEF Encoder
<1> QED
  BY <1>5, <1>6, <1>7, <1>8, <1>9 DEF EarlyInv

LEMMA LoggerKeepsEarly ==
  ASSUME EInv, LInv, Paced, ~TimedOut(lastSeen), NEW latest \in Nat, EarlyInv(latest),
         NEW c \in Cameras, Writes(c) \/ Queues(c)
  PROVE  EarlyInv(latest)'
<1>1. /\ sock[c] # <<>> /\ met' = met \cup {c} /\ lastSeen' = clock
      /\ \A d \in Cameras : d # c => Upcoming(d)' = Upcoming(d)
      /\ UNCHANGED <<clock, alive, skips, pc, next, start, ready, synced, seg, count, encoded>>
      /\ Upcoming(c)' <= clock + 1 /\ Upcoming(c)' \in Nat
  BY ReceivesFacts DEF Writes, Queues
<1>2. TypeOK /\ TypeOK'
  BY LoggerTypes DEF EInv, Logger
<1>3. /\ clock \in Nat /\ lastSeen \in Nat /\ skips \in Nat /\ start \in Nat
      /\ part \in Nat /\ part' \in Nat /\ rotated \in Nat /\ met \subseteq Cameras
  BY <1>2 DEF TypeOK
<1>4. /\ lastSeen <= clock
      /\ part > 0 => rotated >= Begin(part, start)
      /\ \A d \in met : Upcoming(d) <= lastSeen + 1 + skips
  BY DEF EarlyInv
<1>5. part' > 0 => rotated' >= Begin(part', start)
  <2>1. CASE Writes(c)
    BY <1>4, <2>1, WritesFacts
  <2>2. CASE Queues(c)
    <3> DEFINE k == Head(sock[c])
    <3>1. k.seg > part
      BY <2>2, QueuesFacts
    <3>2. \/ part' = part /\ rotated' = rotated
          \/ part' = part + 1 /\ rotated' = clock
      BY <2>2 DEF Queues, RotateIfNeeded
    <3>3. k \in Packets /\ InSegment(k.frame, k.seg, start) /\ k.frame <= clock
      BY <1>1, HeadFacts
    <3>4. k.frame \in Nat /\ k.seg \in Nat
      BY <3>3 DEF Packets
    <3> HIDE DEF k
    <3>5. part \in Int /\ k.seg \in Int /\ start \in Int /\ part + 1 \in Int /\ k.seg > 0
      BY <1>3, <3>1, <3>4
    <3>6. k.frame >= Begin(k.seg, start)
      BY <3>3, <3>5 DEF InSegment
    <3>7. Begin(part + 1, start) <= Begin(k.seg, start)
      BY <3>1, <3>5, BeginGrows
    <3>8. Begin(part + 1, start) \in Int /\ Begin(k.seg, start) \in Int
      BY <3>5, BeginInt
    <3>9. clock >= Begin(part + 1, start)
      BY <1>3, <3>3, <3>4, <3>6, <3>7, <3>8
    <3> QED
      BY <1>4, <3>2, <3>9
  <2> QED
    BY <2>1, <2>2
<1>6. ASSUME NEW d \in met'
      PROVE  Upcoming(d)' <= lastSeen' + 1 + skips'
  <2>1. CASE d = c
    BY <1>1, <1>3, <2>1
  <2>2. CASE d # c
    <3>1. d \in met /\ d \in Cameras /\ Upcoming(d)' = Upcoming(d)
      BY <1>1, <1>3, <1>6, <2>2
    <3>2. Upcoming(d) \in Nat
      <4>1. next[d] \in Nat
        BY <1>2, <3>1 DEF TypeOK
      <4> QED
        BY <3>1, <4>1, HeadFacts DEF Upcoming, Packets
    <3> QED
      BY <1>1, <1>3, <1>4, <3>1, <3>2
  <2> QED
    BY <2>1, <2>2
<1>7. lastSeen' <= clock'
  BY <1>1, <1>3
<1>8. part' > 0 => rotated' >= Begin(part', start')
  BY <1>1, <1>5
<1> QED
  BY <1>1, <1>6, <1>7, <1>8 DEF EarlyInv

LEMMA NextEarly ==
  ASSUME EInv, LInv, Paced, ~TimedOut(lastSeen), NEW latest \in Nat, EarlyInv(latest),
         alive = Cameras, [Next]_vars
  PROVE  EarlyInv(latest)'
<1>1. CASE \E c \in Cameras : Encoder(c) \/ Skips(c) \/ Dies(c)
  BY <1>1, OutsideKeepsEarly
<1>2. CASE Tick
  <2>1. PICK c \in Cameras : TRUE
    BY SegmentsAssumption, FS_EmptySet
  <2> QED
    BY <1>2, <2>1, OutsideKeepsEarly
<1>3. CASE HearsOthers
  BY <1>3 DEF HearsOthers
<1>4. CASE \E c \in Cameras : Writes(c) \/ Queues(c)
  BY <1>4, LoggerKeepsEarly
<1>5. ASSUME NEW c \in Cameras, Recounts(c)
      PROVE  FALSE
  BY <1>5, NeverRecounts
<1>6. CASE UNCHANGED vars
  BY <1>6 DEF vars, worldVars, encoderVars, loggerVars, EarlyInv, Upcoming
<1> QED
  BY <1>1, <1>2, <1>3, <1>4, <1>5, <1>6 DEF Next, Logger

(* Cameras that come up in time, and drop and lag by less than the slack   *)
(* of a segment, never have the fallback cut the log for a segment too     *)
(* long or a silent camera (loggerd.cc:36-49): until one of them dies the  *)
(* log is whole and rotates with the last encoder.                         *)
THEOREM InStepWhileAlive ==
  ASSUME Paced, NEW latest \in Nat, UpBy(latest)
  PROVE  Spec => [](alive = Cameras => Whole /\ RotatesWithTheLast /\ ~TimedOut(lastSeen))
<1> DEFINE Inv == /\ EInv
                  /\ alive = Cameras => LInv /\ KInv /\ EarlyInv(latest)
<1>1. Init => Inv
  BY InitEInv, InitLInv, InitEarly
<1>2. ASSUME Inv, [Next]_vars
      PROVE  Inv'
  <2>1. EInv'
    BY <1>2, NextEInv
  <2>2. alive' = Cameras => alive = Cameras
    BY <1>2 DEF EInv, TypeOK, Next, Logger, Encoder, FindsOthersMissing, PutsOffStart, Counts,
                AwaitsStart, Encodes, Skips, Dies, Tick, HearsOthers, Writes, Queues, Recounts,
                Receives, worldVars, vars
  <2>3. ASSUME alive = Cameras
        PROVE  (LInv /\ KInv /\ EarlyInv(latest))'
    BY <1>2, <2>3, NoneIsForced, NextLInv, NextEarly
  <2> QED
    BY <2>1, <2>2, <2>3
<1>3. Inv => (alive = Cameras => Whole /\ RotatesWithTheLast /\ ~TimedOut(lastSeen))
  BY NoneIsForced, LogIsWhole, LogKeepsUp
<1> QED
  BY <1>1, <1>2, <1>3, PTL DEF Spec

=============================================================================
