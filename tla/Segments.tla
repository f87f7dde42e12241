------------------------------ MODULE Segments ------------------------------
(***************************************************************************)
(* Video segments.  encoderd runs a thread for each camera, which starts   *)
(* with the others and rolls its encoder over every SEGMENT_LENGTH frames; *)
(* loggerd takes the packets off a socket for each encoder, and rotates    *)
(* the log when every encoder has rolled over.                             *)
(*                                                                         *)
(* Time is counted in frames, and frame i is taken when clock is i: the    *)
(* cameras are synchronised.  A camera has one encoder, which is recorded  *)
(* without audio; there is more than one camera.                           *)
(***************************************************************************)
EXTENDS Integers, Sequences, FiniteSets, FiniteSetsExt

CONSTANTS
  Cameras,
  Firsts,         \* the frames the cameras may begin at, from loggerd's start
  SegFrames,      \* SEGMENT_LENGTH, 1200
  Gop,            \* frames from keyframe to keyframe
  Slack,          \* the part of SEGMENT_LENGTH a segment may be too long, 240
  Patience,       \* NO_CAMERA_PATIENCE, 10
  QueueFrames,    \* MAIN_FPS*10
  Skew,           \* frames a thread or a socket may be behind
  MaxMishaps,     \* bound on the frames dropped and the cameras that stop
  MaxClock        \* bound on the frames

ASSUME SegmentsAssumption ==
  /\ IsFiniteSet(Cameras) /\ Cardinality(Cameras) > 1 /\ Firsts \subseteq Nat
  /\ SegFrames \in Nat \ {0} /\ Gop \in Nat \ {0} /\ Slack \in Nat
  /\ Patience \in Nat /\ QueueFrames \in Nat /\ Skew \in Nat
  /\ MaxMishaps \in Nat /\ MaxClock \in Nat

VARIABLES
  clock, alive, skips,
  \* encoderd
  pc,             \* pc[c]: where c's thread is, in sync_encoders or not
  next,           \* next[c]: the frame c's thread is at
  start,          \* start_frame_id
  ready,          \* the cameras counted by encoders_ready
  synced,         \* camera_synced
  seg,            \* seg[c]: cur_seg, and segment_num of the encoder
  count,          \* count[c]: frames encoded since the encoder was opened
  sock,           \* sock[c]: packets on their way to loggerd
  \* loggerd
  part,           \* segment() of the logger
  rotated,        \* last_rotate_tms
  lastSeen,       \* last_camera_seen_tms
  waiting,        \* ready_to_rotate
  met,            \* the encoders counted by max_waiting: seen_first_packet
  offset,         \* encoderd_segment_offset
  current,        \* current_segment
  marked,         \* marked_ready_to_rotate
  recording,      \* recording
  queue,          \* q
  \* kept for the checks
  encoded,        \* encoded[c]: the frames published, with their segments
  recorded        \* recorded[c]: the frames written, with the log's segments

worldVars == <<clock, alive, skips>>
encoderVars == <<pc, next, start, ready, synced, seg, count, encoded>>
loggerVars == <<part, rotated, lastSeen, waiting, met, offset, current, marked,
                recording, queue, recorded>>
vars == <<worldVars, encoderVars, sock, loggerVars>>

Init ==
  /\ clock = 0 /\ alive = Cameras /\ skips = 0
  /\ pc = [c \in Cameras |-> "frame"]
  /\ \E first \in Firsts : next = [c \in Cameras |-> first]
  /\ start = 0 /\ ready = {} /\ synced = {}
  /\ seg = [c \in Cameras |-> 0] /\ count = [c \in Cameras |-> 0]
  /\ sock = [c \in Cameras |-> <<>>]
  /\ part = 0 /\ rotated = 0 /\ lastSeen = 0 /\ waiting = 0
  /\ met = {} /\ offset = [c \in Cameras |-> 0]
  /\ current = [c \in Cameras |-> -1]
  /\ marked = {} /\ recording = {} /\ queue = [c \in Cameras |-> <<>>]
  /\ encoded = [c \in Cameras |-> {}] /\ recorded = [c \in Cameras |-> {}]

-----------------------------------------------------------------------------
(* encoder_thread.                                                         *)

(* c's thread is between two frames, and the next one is there. *)
HasFrame(c) == c \in alive /\ pc[c] = "frame" /\ next[c] <= clock

NextFrame(c) == next' = [next EXCEPT ![c] = @ + 1]

(* sync_encoders, before every camera has been seen: the look at the count, *)
(* the start put off, and the camera counted.                              *)
FindsOthersMissing(c) ==
  /\ HasFrame(c) /\ c \notin synced /\ ready # Cameras
  /\ pc' = [pc EXCEPT ![c] = "putOff"]
  /\ UNCHANGED <<worldVars, next, start, ready, synced, seg, count, encoded,
                 sock, loggerVars>>

PutsOffStart(c) ==
  /\ pc[c] = "putOff"
  /\ start' = Max({start, next[c] + 2})
  /\ pc' = [pc EXCEPT ![c] = "count"]
  /\ UNCHANGED <<worldVars, next, ready, synced, seg, count, encoded, sock,
                 loggerVars>>

Counts(c) ==
  /\ pc[c] = "count"
  /\ ready' = ready \cup {c}
  /\ pc' = [pc EXCEPT ![c] = "frame"] /\ NextFrame(c)
  /\ UNCHANGED <<worldVars, start, synced, seg, count, encoded, sock,
                 loggerVars>>

Synced(c) == c \in synced \/ (ready = Cameras /\ next[c] >= start)

AwaitsStart(c) ==
  /\ HasFrame(c) /\ ready = Cameras /\ ~Synced(c)
  /\ NextFrame(c)
  /\ UNCHANGED <<worldVars, pc, start, ready, synced, seg, count, encoded, sock,
                 loggerVars>>

(* A mutant, for the check of Whole: roll over by the frames encoded. *)
RollsMutant(c) == count[c] >= SegFrames

Rolls(c) == next[c] >= (seg[c] + 1) * SegFrames + start

(* Roll over if it is time, and encode the frame. *)
Encodes(c) ==
  /\ HasFrame(c) /\ Synced(c)
  /\ synced' = synced \cup {c}
  /\ seg' = [seg EXCEPT ![c] = IF Rolls(c) THEN @ + 1 ELSE @]
  /\ LET i == IF Rolls(c) THEN 0 ELSE count[c]
     IN  /\ count' = [count EXCEPT ![c] = i + 1]
         /\ sock' = [sock EXCEPT ![c] =
                       Append(@, [frame |-> next[c], seg |-> seg'[c],
                                  key |-> i % Gop = 0])]
  /\ encoded' = [encoded EXCEPT
                   ![c] = @ \cup {[frame |-> next[c], part |-> seg'[c]]}]
  /\ NextFrame(c)
  /\ UNCHANGED <<worldVars, pc, start, ready, loggerVars>>

Mishap == skips + Cardinality(Cameras \ alive) < MaxMishaps

(* The buffer was overwritten meanwhile: the frame is dropped. *)
Skips(c) ==
  /\ HasFrame(c) /\ Mishap
  /\ skips' = skips + 1 /\ NextFrame(c)
  /\ UNCHANGED <<clock, alive, pc, start, ready, synced, seg, count, encoded,
                 sock, loggerVars>>

-----------------------------------------------------------------------------
(* loggerd_thread.                                                         *)

(* No camera is heard, or the segment is far too long. *)
TimedOut(heard) ==
  /\ clock - rotated > SegFrames
  /\ clock - heard > Patience \/ clock - rotated > SegFrames + Slack

(* A mutant, for the check of Whole: ready_to_rotate is not reset. *)
RotateIfNeededMutant(n, heard) ==
  IF (met' # {} /\ n = Cardinality(met')) \/ TimedOut(heard)
  THEN part' = part + 1 /\ rotated' = clock /\ waiting' = n
  ELSE waiting' = n /\ UNCHANGED <<part, rotated>>

(* rotate_if_needed, after every message: n encoders are ready. *)
RotateIfNeeded(n, heard) ==
  IF (met' # {} /\ n = Cardinality(met')) \/ TimedOut(heard)
  THEN part' = part + 1 /\ rotated' = clock /\ waiting' = 0
  ELSE waiting' = n /\ UNCHANGED <<part, rotated>>

(* The packet c's socket gives, and its segment as loggerd counts. *)
Packet(c) == Head(sock[c])
OffsetOf(c) == IF c \in met THEN offset[c] ELSE Packet(c).seg
Segment(c) == Packet(c).seg - OffsetOf(c)

Receives(c) ==
  /\ sock[c] # <<>>
  /\ sock' = [sock EXCEPT ![c] = Tail(@)]
  /\ lastSeen' = clock
  /\ met' = met \cup {c}
  /\ UNCHANGED <<worldVars, encoderVars>>

(* write_encode_data: nothing is recorded before a keyframe. *)
Written(rec, packets) ==
  {packets[i] : i \in {j \in DOMAIN packets :
                         rec \/ \E k \in 1 .. j : packets[k].key}}

(* A mutant, for the check of RotatesWithTheLast: a mark is kept. *)
UnmarkedMutant(c) == marked

Unmarked(c) == IF current[c] = part THEN marked ELSE marked \ {c}

(* A packet of the segment loggerd is in, after those that waited for it.  *)
Writes(c) ==
  /\ Receives(c) /\ Segment(c) = part
  /\ LET old == current[c] = part
         packets == Append(queue[c], Packet(c))
         written == Written(old /\ c \in recording, packets)
     IN  /\ current' = [current EXCEPT ![c] = part]
         /\ marked' = Unmarked(c)
         /\ recording' = IF written = {} THEN recording \ {c}
                         ELSE recording \cup {c}
         /\ recorded' = [recorded EXCEPT
              ![c] = @ \cup {[frame |-> p.frame, part |-> part] : p \in written}]
  /\ offset' = [offset EXCEPT ![c] = OffsetOf(c)]
  /\ queue' = [queue EXCEPT ![c] = <<>>]
  /\ RotateIfNeeded(waiting, clock)

(* A packet of a later one: c's encoder has rolled over. *)
Queues(c) ==
  /\ Receives(c) /\ Segment(c) > part
  /\ marked' = marked \cup {c}
  /\ queue' = [queue EXCEPT
                 ![c] = IF Len(@) > QueueFrames THEN @ ELSE Append(@, Packet(c))]
  /\ RotateIfNeeded(IF c \in marked THEN waiting ELSE waiting + 1, clock)
  /\ UNCHANGED <<offset, current, recording, recorded>>

(* A packet of an earlier one: an encoder that counts from 0 again. *)
Recounts(c) ==
  /\ Receives(c) /\ Segment(c) < part
  /\ offset' = [offset EXCEPT ![c] = -part]
  /\ RotateIfNeeded(waiting, clock)
  /\ UNCHANGED <<current, marked, recording, queue, recorded>>

(* The messages of the other services come many times a frame. *)
HearsOthers ==
  /\ TimedOut(lastSeen)
  /\ met' = met /\ RotateIfNeeded(waiting, lastSeen)
  /\ UNCHANGED <<worldVars, encoderVars, sock, lastSeen, offset, current,
                 marked, recording, queue, recorded>>

-----------------------------------------------------------------------------
(* The cameras.  Threads and sockets keep up, but for Skew frames. *)
Tick ==
  /\ clock < MaxClock /\ ~TimedOut(lastSeen)
  /\ \A c \in alive : next[c] + Skew > clock
  /\ \A c \in Cameras : sock[c] # <<>> => Head(sock[c]).frame + Skew > clock
  /\ clock' = clock + 1
  /\ UNCHANGED <<alive, skips, encoderVars, sock, loggerVars>>

Dies(c) ==
  /\ c \in alive /\ pc[c] = "frame" /\ next[c] > clock
  /\ Mishap
  /\ alive' = alive \ {c}
  /\ UNCHANGED <<clock, skips, encoderVars, sock, loggerVars>>

Encoder(c) ==
  \/ FindsOthersMissing(c) \/ PutsOffStart(c) \/ Counts(c) \/ AwaitsStart(c)
  \/ Encodes(c)

Logger == HearsOthers \/ \E c \in Cameras : Writes(c) \/ Queues(c) \/ Recounts(c)

Next ==
  \/ \E c \in Cameras : Encoder(c) \/ Skips(c) \/ Dies(c)
  \/ Logger
  \/ Tick

Spec == Init /\ [][Next]_vars

-----------------------------------------------------------------------------
(* Properties.                                                             *)

Frames(packets) == {packets[i].frame : i \in DOMAIN packets}

(* However threads, sockets, dropped frames and a camera that dies          *)
(* interleave, the cameras agree on the segment of a frame; and while they *)
(* live, and came up with the log, every frame encoded is in the log's     *)
(* segment of its encoder's, or still on its way there.                    *)
Whole ==
  /\ \A c, d \in Cameras : \A r \in recorded[c], s \in recorded[d] :
       r.frame = s.frame => r.part = s.part
  /\ alive = Cameras /\ start < SegFrames =>
       \A c \in Cameras :
         /\ recorded[c] \subseteq encoded[c]
         /\ \A e \in encoded[c] :
              e \in recorded[c] \/ e.frame \in Frames(sock[c] \o queue[c])

(* Counts and marks agree with the encoders: with every packet read, the   *)
(* log is behind only for an encoder that has not rolled over (line 33).   *)
RotatesWithTheLast ==
  met # {} /\ (\A c \in met : sock[c] = <<>>) =>
    \E c \in met : seg[c] - offset[c] <= part

=============================================================================
