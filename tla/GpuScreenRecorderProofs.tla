------------------------ MODULE GpuScreenRecorderProofs ------------------------
(***************************************************************************)
(* Proofs about GpuScreenRecorder, for all audio tracks, options, sizes of *)
(* the replay buffer and bounds of the clock: a saved replay is an         *)
(* unbroken piece of the recording that can be played from its first       *)
(* packet, and neither video nor sound counts a pause as recorded time.    *)
(*                                                                         *)
(* And about Startup, for all command lines and systems: the codecs, the   *)
(* context, the card and the capture that main chooses fit each other, and *)
(* what --info lists works.                                                *)
(***************************************************************************)
EXTENDS GpuScreenRecorder, Startup, WellFoundedInduction, SequenceTheorems, TLAPS

Packet == [n : Nat \ {0}, stream : Tracks \cup {"video"}, key : BOOLEAN]

TimeTypeOK ==
  /\ options \in Options /\ clock \in Nat /\ recorded \in Nat /\ video_pts_counter \in Nat
  /\ paused \in BOOLEAN /\ paused_time_offset \in Int /\ paused_time_start \in Int

QueueTypeOK ==
  frame_data_queue \in Seq(Packet) /\ frames_erased \in BOOLEAN /\ pushed \in Nat

SaveTypeOK ==
  /\ saver \in {"none", "running", "ready"}
  /\ save_replay_packets \in Seq(Packet) /\ start_index \in Nat /\ file \in Seq(Packet)
  /\ erased_arg \in BOOLEAN /\ erased_now \in BOOLEAN

AudioTypeOK ==
  /\ pcA \in [Tracks -> {"read", "test", "lock", "silence", "chunk", "sleep", "done"}]
  /\ audio_frame_time \in [Tracks -> Int] /\ got_audio_data \in [Tracks -> BOOLEAN]
  /\ num_missing_frames \in [Tracks -> Int] /\ num_received_frames \in [Tracks -> Nat]
  /\ torn \in [Tracks -> BOOLEAN]

TypeOK == TimeTypeOK /\ QueueTypeOK /\ SaveTypeOK /\ AudioTypeOK

\* frame_data_queue holds the last packets, and all of them unless frames_erased says
\* otherwise.  A key frame is a frame of the video.
QueueInv ==
  /\ Len(frame_data_queue) <= pushed
  /\ \A i \in 1 .. Len(frame_data_queue) :
       /\ frame_data_queue[i].n = pushed - Len(frame_data_queue) + i
       /\ frame_data_queue[i].key => frame_data_queue[i].stream = "video"
  /\ ~ frames_erased => Len(frame_data_queue) = pushed

\* The copy of a save is such a piece too; the file is what follows start_index in
\* it, as far as the thread has come.
CopyInv ==
  /\ pcM = "save" => saver = "none"
  /\ saver = "none" => file = <<>>
  /\ saver # "none" =>
       /\ start_index \in 1 .. Len(save_replay_packets)
       /\ \A i, j \in 1 .. Len(save_replay_packets) :
            save_replay_packets[i].n - save_replay_packets[j].n = i - j
       /\ Len(file) <= Len(save_replay_packets) - start_index + 1
       /\ saver = "ready" => Len(file) = Len(save_replay_packets) - start_index + 1
       /\ \A i \in 1 .. Len(file) : file[i] = save_replay_packets[start_index + i - 1]

\* Where the file begins, and that a key frame is there or follows.
StartInv ==
  saver # "none" =>
    /\ \/ /\ save_replay_packets[start_index].key
          /\ save_replay_packets[start_index].stream = "video"
       \/ save_replay_packets[start_index].n = 1
       \/ ErasedInBetween
    /\ \E i \in start_index .. Len(save_replay_packets) : save_replay_packets[i].key

\* The time recorded is what RecordingTime gives, except during a pause, where it is
\* what it was when the pause began.
PauseInv ==
  recorded = (IF Pausing THEN paused_time_start ELSE clock) - paused_time_offset

\* A time taken by an audio thread is no later than what was recorded, unless the
\* thread is going to find the pause or the pause tore it.
TakenInv ==
  \A t \in Tracks : pcA[t] = "test" /\ ~ torn[t]
    => audio_frame_time[t] <= recorded \/ (paused /\ pcM # "toggle")

GInv == /\ TypeOK /\ QueueInv /\ CopyInv /\ StartInv /\ PauseInv /\ PausesLeftOut
        /\ TakenInv


-------------------------------------------------------------------------------
(* Packets.                                                                *)

\* receive_frames appends one packet, and drops the first when the buffer is full.
LEMMA ReceiveInv ==
  ASSUME QueueTypeOK, QueueInv, NEW stream \in Tracks \cup {"video"}, NEW key \in BOOLEAN,
         key => stream = "video", ReceiveFrames(stream, key)
  PROVE  QueueTypeOK' /\ QueueInv'
<1> USE DEF QueueTypeOK, QueueInv
<1>1. CASE options.mode = "record"
  BY <1>1 DEF ReceiveFrames, output
<1>2. CASE options.mode # "record"
  <2> DEFINE packet == [n |-> pushed + 1, stream |-> stream, key |-> key]
             queue == Append(frame_data_queue, packet)
  <2>1. pushed' = pushed + 1
    BY <1>2 DEF ReceiveFrames
  <2>2. IF BufferFull THEN frame_data_queue' = Tail(queue) /\ frames_erased' = TRUE
                      ELSE frame_data_queue' = queue /\ UNCHANGED frames_erased
    BY <1>2, <2>1 DEF ReceiveFrames
  <2>3. packet \in Packet /\ packet.n = pushed + 1 /\ packet.stream = stream /\ packet.key = key
    BY DEF Packet
  <2> HIDE DEF packet
  <2>4. /\ queue \in Seq(Packet) /\ Len(queue) = Len(frame_data_queue) + 1 /\ queue # <<>>
        /\ \A i \in 1 .. Len(frame_data_queue) : queue[i] = frame_data_queue[i]
        /\ queue[Len(frame_data_queue) + 1] = packet
        /\ Len(frame_data_queue) \in Nat
    BY <2>3, AppendProperties, LenProperties
  <2> HIDE DEF queue
  <2>5. \A i \in 1 .. Len(queue) :
          /\ queue[i].n = pushed + 1 - Len(queue) + i
          /\ queue[i].key => queue[i].stream = "video"
    <3> SUFFICES ASSUME NEW i \in 1 .. Len(queue)
                 PROVE  /\ queue[i].n = pushed + 1 - Len(queue) + i
                        /\ queue[i].key => queue[i].stream = "video"
      OBVIOUS
    <3>1. CASE i = Len(frame_data_queue) + 1
      BY <2>3, <2>4, <3>1
    <3>2. CASE i # Len(frame_data_queue) + 1
      <4>1. i \in 1 .. Len(frame_data_queue)
        BY <2>4, <3>2
      <4>2. queue[i] = frame_data_queue[i]
        BY <2>4, <4>1
      <4>3. queue[i].n = pushed - Len(frame_data_queue) + i
        BY <4>1, <4>2
      <4>4. queue[i].key => queue[i].stream = "video"
        BY <4>1, <4>2
      <4> QED
        BY <2>4, <4>3, <4>4
    <3> QED
      BY <3>1, <3>2
  <2>6. CASE ~ BufferFull
    <3>1. frame_data_queue' = queue /\ UNCHANGED frames_erased
      BY <2>2, <2>6
    <3>2. Len(queue) <= pushed + 1 /\ (~ frames_erased => Len(queue) = pushed + 1)
      BY <2>4
    <3>3. QueueTypeOK'
      BY <2>1, <2>4, <3>1
    <3>4. \A i \in 1 .. Len(queue) :
            /\ queue[i].n = pushed' - Len(queue) + i
            /\ queue[i].key => queue[i].stream = "video"
      BY <2>1, <2>5
    <3>5. Len(queue) <= pushed' /\ (~ frames_erased' => Len(queue) = pushed')
      BY <2>1, <3>1, <3>2
    <3> HIDE DEF QueueTypeOK
    <3> QED
      BY <3>1, <3>3, <3>4, <3>5
  <2>7. CASE BufferFull
    <3> DEFINE tail == Tail(queue)
    <3>1. frame_data_queue' = tail /\ frames_erased'
      BY <2>2, <2>7
    <3>2. /\ tail \in Seq(Packet) /\ Len(tail) = Len(queue) - 1
          /\ \A i \in 1 .. Len(tail) : tail[i] = queue[i + 1]
      BY <2>4, HeadTailProperties
    <3> HIDE DEF tail
    <3>3. \A i \in 1 .. Len(tail) :
            /\ tail[i].n = pushed + 1 - Len(tail) + i
            /\ tail[i].key => tail[i].stream = "video"
      <4> SUFFICES ASSUME NEW i \in 1 .. Len(tail)
                   PROVE  /\ tail[i].n = pushed + 1 - Len(tail) + i
                          /\ tail[i].key => tail[i].stream = "video"
        OBVIOUS
      <4>1. i + 1 \in 1 .. Len(queue) /\ tail[i] = queue[i + 1]
        BY <2>4, <3>2
      <4>2. queue[i + 1].n = pushed + 1 - Len(queue) + (i + 1)
        BY <2>5, <4>1
      <4>3. queue[i + 1].key => queue[i + 1].stream = "video"
        BY <2>5, <4>1
      <4>4. i \in Int /\ Len(queue) \in Nat /\ Len(tail) = Len(queue) - 1
        BY <2>4, <3>2
      <4>5. pushed + 1 - Len(queue) + (i + 1) = pushed + 1 - Len(tail) + i
        BY <4>4
      <4> QED
        BY <4>1, <4>2, <4>3, <4>5
    <3>4. Len(tail) <= pushed + 1
      BY <2>4, <3>2
    <3> QED
      BY <2>1, <3>1, <3>2, <3>3, <3>4
  <2> QED
    BY <2>6, <2>7
<1> QED
  BY <1>1, <1>2

\* A set of positions has a first one.
LEMMA Least ==
  ASSUME NEW n \in Nat, NEW S, S \subseteq 1 .. n, S # {}
  PROVE  \E x \in S : \A y \in S : x <= y
<1> DEFINE R == OpToRel(<, Nat)
<1>1. IsWellFoundedOn(R, Nat)
  BY NatLessThanWellFounded, Zenon
<1>2. S \subseteq Nat
  OBVIOUS
<1>3. \A x, y \in Nat : x < y => <<x, y>> \in R
  BY DEF OpToRel
<1> HIDE DEF R
<1>4. PICK x \in S : \A y \in S : ~ (<<y, x>> \in R)
  BY <1>1, <1>2, WFMin
<1>5. \A y \in S : ~ (y < x)
  BY <1>2, <1>3, <1>4
<1> QED
  BY <1>2, <1>5

\* The first key frame of the buffer is one of its packets.
LEMMA FirstKey ==
  ASSUME QueueTypeOK, KeyFrames # {}
  PROVE  Min(KeyFrames) \in KeyFrames
<1>1. Len(frame_data_queue) \in Nat
  BY LenProperties DEF QueueTypeOK
<1>2. KeyFrames \subseteq 1 .. Len(frame_data_queue)
  BY DEF KeyFrames
<1>3. \E x \in KeyFrames : \A y \in KeyFrames : x <= y
  BY <1>1, <1>2, Least
<1> QED
  BY <1>3 DEF Min

\* A packet comes from the video encoder or from the encoder of a track.
LEMMA QueueStep == TypeOK /\ QueueInv /\ [Next]_vars => QueueTypeOK' /\ QueueInv'
<1> SUFFICES ASSUME QueueTypeOK, QueueInv, [Next]_vars PROVE QueueTypeOK' /\ QueueInv'
  BY DEF TypeOK
<1>1. CASE UNCHANGED output
  BY <1>1 DEF output, QueueTypeOK, QueueInv
<1>2. CASE EncodeVideo
  <2>1. ReceiveFrames("video", encoded % KeyInterval = 0)
    BY <1>2 DEF EncodeVideo
  <2> QED
    BY <2>1, ReceiveInv
<1>3. CASE \E t \in Tracks : Encode(t)
  <2>1. PICK t \in Tracks : ReceiveFrames(t, FALSE)
    BY <1>3 DEF Encode
  <2> QED
    BY <2>1, ReceiveInv
<1>4. CASE Environment \/ SaverWrites \/ UNCHANGED vars
  BY <1>1, <1>4 DEF Environment, Tick, StopHandler, SaveReplayHandler, TogglePauseHandler,
     TabletConnects, SaverWrites, vars
<1>5. CASE Main
  BY <1>1, <1>2, <1>5 DEF Main, LeaveLoop, Frame, TogglePause, Toggled, CollectAndRequest,
     SaveReplayAsync, FinishSave, Exit
<1>6. CASE \E t \in Tracks : Audio(t)
  BY <1>1, <1>3, <1>6 DEF Audio, ReadChunk, EndAudio, TestPaused, EncodeSilence, EncodeChunk,
     Sleep, output
<1> QED
  BY <1>4, <1>5, <1>6 DEF Next

-------------------------------------------------------------------------------
(* The save.                                                               *)

\* A save copies the buffer as it is under the mutex, and begins where it can be
\* played; its thread then appends the packets of the copy one by one.
LEMMA SaveStep ==
  TypeOK /\ QueueInv /\ CopyInv /\ StartInv /\ [Next]_vars
    => SaveTypeOK' /\ CopyInv' /\ StartInv'
<1> SUFFICES ASSUME QueueTypeOK, SaveTypeOK, QueueInv, CopyInv, StartInv, [Next]_vars
             PROVE  SaveTypeOK' /\ CopyInv' /\ StartInv'
  BY DEF TypeOK
<1>1. ASSUME UNCHANGED <<thread, erased_arg>>, pcM' # "save" \/ UNCHANGED pcM
      PROVE  SaveTypeOK' /\ CopyInv' /\ StartInv'
  BY <1>1 DEF thread, SaveTypeOK, CopyInv, StartInv, ErasedInBetween
<1>2. ASSUME saver' = "none", file' = <<>>, erased_arg' \in BOOLEAN,
             Collected \/ UNCHANGED thread
      PROVE  SaveTypeOK' /\ CopyInv' /\ StartInv'
  <2>1. SaveTypeOK'
    <3>1. CASE Collected
      <4>1. << >> \in Seq(Packet)
        BY EmptySeq
      <4>2. /\ saver' = "none" /\ save_replay_packets' = <<>> /\ file' = <<>>
            /\ start_index' = 0 /\ erased_now' = FALSE
        BY <3>1 DEF Collected
      <4> QED
        BY <1>2, <4>1, <4>2 DEF SaveTypeOK
    <3>2. CASE UNCHANGED thread
      BY <1>2, <3>2 DEF thread, SaveTypeOK
    <3> QED
      BY <1>2, <3>1, <3>2
  <2> QED
    BY <1>2, <2>1 DEF CopyInv, StartInv
<1>3. CASE CollectAndRequest
  <2>1. erased_arg' \in BOOLEAN
    BY <1>3 DEF CollectAndRequest, QueueTypeOK, SaveTypeOK
  <2>2. CASE saver' = "none"
    <3>1. Collected \/ UNCHANGED thread
      BY <1>3 DEF CollectAndRequest
    <3>2. file' = <<>>
      BY <2>2, <3>1 DEF Collected, thread, CopyInv
    <3> QED
      BY <1>2, <2>1, <2>2, <3>1, <3>2
  <2>3. CASE saver' # "none"
    <3>1. UNCHANGED <<thread, erased_arg>> /\ pcM' = "frame"
      BY <1>3, <2>3 DEF CollectAndRequest, Collected, MayStartSave
    <3> QED
      BY <1>1, <3>1
  <2> QED
    BY <2>2, <2>3
<1>4. CASE FinishSave
  <2>1. Collected \/ UNCHANGED thread
    BY <1>4 DEF FinishSave
  <2>2. saver' = "none" /\ file' = <<>>
    BY <1>4 DEF FinishSave, Collected, thread, SaveTypeOK, CopyInv
  <2>3. erased_arg' \in BOOLEAN
    BY <1>4 DEF FinishSave, SaveTypeOK
  <2> QED
    BY <1>2, <2>1, <2>2, <2>3
<1>5. CASE SaveReplayAsync /\ UNCHANGED thread
  BY <1>1, <1>5 DEF SaveReplayAsync
<1>6. CASE SaveReplayAsync /\ ~ UNCHANGED thread
  <2>1. /\ KeyFrames # {} /\ saver = "none" /\ file = <<>> /\ file' = <<>> /\ saver' = "running"
        /\ save_replay_packets' = frame_data_queue /\ start_index' = SaveStart
        /\ erased_now' = frames_erased /\ erased_arg' = erased_arg /\ pcM' = "frame"
    BY <1>6 DEF SaveReplayAsync, CopyInv
  <2>2. Min(KeyFrames) \in KeyFrames /\ Len(frame_data_queue) \in Nat
    BY <2>1, FirstKey, LenProperties DEF QueueTypeOK
  <2>3. SaveStart \in 1 .. Len(frame_data_queue)
    BY <2>2 DEF SaveStart, KeyFrames
  <2>4. SaveTypeOK'
    BY <2>1, <2>3 DEF SaveTypeOK, QueueTypeOK
  <2>5. \A i, j \in 1 .. Len(frame_data_queue) : frame_data_queue[i].n - frame_data_queue[j].n = i - j
    BY <2>2 DEF QueueInv, QueueTypeOK
  <2>6. Len(file') = 0
    BY <2>1
  <2>7. CopyInv'
    BY <2>1, <2>2, <2>3, <2>5, <2>6 DEF CopyInv
  <2>8. erased_arg => frame_data_queue[SaveStart].key /\ frame_data_queue[SaveStart].stream = "video"
    <3>1. erased_arg => SaveStart \in KeyFrames
      BY <2>2 DEF SaveStart
    <3> QED
      BY <3>1 DEF KeyFrames, QueueInv
  <2>9. ~ erased_arg /\ ~ frames_erased => frame_data_queue[SaveStart].n = 1
    <3>1. ~ erased_arg => SaveStart = 1
      BY DEF SaveStart
    <3>2. ~ frames_erased => frame_data_queue[1].n = 1
      <4>1. 1 \in 1 .. Len(frame_data_queue) /\ pushed \in Nat
        BY <2>2, <2>3 DEF QueueTypeOK
      <4>2. frame_data_queue[1].n = pushed - Len(frame_data_queue) + 1
        BY <4>1 DEF QueueInv
      <4>3. ~ frames_erased => Len(frame_data_queue) = pushed
        BY DEF QueueInv
      <4> QED
        BY <2>2, <4>1, <4>2, <4>3
    <3> QED
      BY <3>1, <3>2
  <2>10. StartInv'
    <3>1. ErasedInBetween' <=> ~ erased_arg /\ frames_erased
      BY <2>1 DEF ErasedInBetween
    <3>2. SaveStart <= Min(KeyFrames)
      BY <2>2 DEF SaveStart, KeyFrames
    <3>3. /\ Min(KeyFrames) \in SaveStart .. Len(frame_data_queue)
          /\ frame_data_queue[Min(KeyFrames)].key
      BY <2>2, <2>3, <3>2 DEF KeyFrames
    <3> QED
      BY <2>1, <2>8, <2>9, <3>1, <3>3 DEF StartInv
  <2> QED
    BY <2>4, <2>7, <2>10
<1>7. CASE SaverWrites
  <2> DEFINE next == start_index + Len(file)
  <2>1. /\ saver = "running" /\ Len(file) \in Nat /\ Len(save_replay_packets) \in Nat
        /\ start_index \in 1 .. Len(save_replay_packets)
        /\ Len(file) <= Len(save_replay_packets) - start_index + 1
    BY <1>7, LenProperties DEF SaverWrites, SaveTypeOK, CopyInv
  <2>2. UNCHANGED <<save_replay_packets, start_index, erased_arg, erased_now, pcM>>
    BY <1>7 DEF SaverWrites
  <2>3. CASE next <= Len(save_replay_packets)
    <3>1. file' = Append(file, save_replay_packets[next]) /\ saver' = "running"
      BY <1>7, <2>1, <2>3 DEF SaverWrites
    <3>2. save_replay_packets[next] \in Packet
      BY <2>1, <2>3, ElementOfSeq DEF SaveTypeOK
    <3>3. /\ file' \in Seq(Packet) /\ Len(file') = Len(file) + 1
          /\ \A i \in 1 .. Len(file) : file'[i] = file[i]
          /\ file'[Len(file) + 1] = save_replay_packets[next]
      BY <3>1, <3>2, AppendProperties DEF SaveTypeOK
    <3>4. SaveTypeOK'
      BY <2>2, <3>1, <3>3 DEF SaveTypeOK
    <3>5. \A i \in 1 .. Len(file') : file'[i] = save_replay_packets[start_index + i - 1]
      <4> SUFFICES ASSUME NEW i \in 1 .. Len(file')
                   PROVE  file'[i] = save_replay_packets[start_index + i - 1]
        OBVIOUS
      <4>1. CASE i = Len(file) + 1
        <5>1. start_index + i - 1 = next
          BY <2>1, <4>1
        <5> QED
          BY <3>3, <4>1, <5>1
      <4>2. CASE i # Len(file) + 1
        <5>1. i \in 1 .. Len(file)
          BY <2>1, <3>3, <4>2
        <5> QED
          BY <2>1, <3>3, <5>1 DEF CopyInv
      <4> QED
        BY <4>1, <4>2
    <3>6. Len(file') <= Len(save_replay_packets) - start_index + 1
      BY <2>1, <2>3, <3>3
    <3>7. \A i, j \in 1 .. Len(save_replay_packets) :
            save_replay_packets[i].n - save_replay_packets[j].n = i - j
      BY <2>1 DEF CopyInv
    <3>8. CopyInv'
      BY <1>7, <2>1, <2>2, <3>1, <3>5, <3>6, <3>7 DEF CopyInv
    <3> QED
      BY <2>1, <2>2, <3>1, <3>4, <3>8 DEF StartInv, ErasedInBetween
  <2>4. CASE ~ (next <= Len(save_replay_packets))
    <3>1. saver' = "ready" /\ UNCHANGED file
      BY <1>7, <2>4 DEF SaverWrites
    <3>2. Len(file) = Len(save_replay_packets) - start_index + 1
      BY <2>1, <2>4
    <3>3. SaveTypeOK' /\ StartInv'
      BY <2>1, <2>2, <3>1 DEF SaveTypeOK, StartInv, ErasedInBetween
    <3>4. CopyInv'
      BY <2>1, <2>2, <3>1, <3>2 DEF CopyInv
    <3> QED
      BY <3>3, <3>4
  <2> QED
    BY <2>3, <2>4
<1>8. CASE LeaveLoop \/ Frame \/ EncodeVideo \/ TogglePause \/ Toggled \/ Exit
  BY <1>1, <1>8 DEF LeaveLoop, Frame, EncodeVideo, TogglePause, Toggled, Exit, save
<1>9. CASE Environment \/ UNCHANGED vars \/ \E t \in Tracks : Audio(t)
  BY <1>1, <1>9 DEF Environment, Tick, StopHandler, SaveReplayHandler, TogglePauseHandler,
     TabletConnects, Audio, save, vars
<1> QED
  BY <1>3, <1>4, <1>5, <1>6, <1>7, <1>8, <1>9 DEF Next, Main

-------------------------------------------------------------------------------
(* Time.                                                                   *)

\* The larger of two numbers.
LEMMA Larger ==
  ASSUME NEW a \in Int, NEW b \in Int
  PROVE  Max({a, b}) = IF a >= b THEN a ELSE b
  BY DEF Max

\* The clock and the two steps of the toggle keep the time recorded; the video counts
\* up to it and never beyond.
LEMMA TimeStep ==
  TypeOK /\ PauseInv /\ PausesLeftOut /\ [Next]_vars
    => TimeTypeOK' /\ PauseInv' /\ PausesLeftOut'
<1> SUFFICES ASSUME TimeTypeOK, PauseInv, PausesLeftOut, [Next]_vars
             PROVE  TimeTypeOK' /\ PauseInv' /\ PausesLeftOut'
  BY DEF TypeOK
<1> USE DEF TimeTypeOK
<1>1. ASSUME UNCHANGED <<options, time, pause, video_pts_counter>>,
             (pcM' = "toggle") = (pcM = "toggle")
      PROVE  TimeTypeOK' /\ PauseInv' /\ PausesLeftOut'
  BY <1>1 DEF time, pause, PauseInv, Pausing, PausesLeftOut
<1>2. CASE Tick
  <2>1. Pausing' = Pausing
    BY <1>2 DEF Tick, Pausing, pause
  <2>2. TimeTypeOK' /\ PausesLeftOut'
    BY <1>2 DEF Tick, PausesLeftOut, pause, video
  <2>3. PauseInv'
    BY <1>2, <2>1 DEF Tick, PauseInv, pause
  <2> QED
    BY <2>2, <2>3
<1>3. CASE TogglePause
  <2>1. pcM = "signals" /\ pcM' = "toggle"
    BY <1>3 DEF TogglePause
  <2>2. UNCHANGED <<options, clock, recorded, paused, video_pts_counter>>
    BY <1>3 DEF TogglePause, time, video
  <2>3. TimeTypeOK' /\ PausesLeftOut'
    BY <1>3, <2>2 DEF TogglePause, UnpausedOffset, PausesLeftOut
  <2>4. PauseInv'
    BY <1>3, <2>1, <2>2 DEF TogglePause, UnpausedOffset, PauseInv, Pausing
  <2> QED
    BY <2>3, <2>4
<1>4. CASE Toggled
  <2>1. Pausing' = Pausing
    BY <1>4 DEF Toggled, Pausing
  <2>2. UNCHANGED <<options, clock, recorded, paused_time_offset, paused_time_start,
                    video_pts_counter>> /\ paused' \in BOOLEAN
    BY <1>4 DEF Toggled, time, video
  <2> QED
    BY <2>1, <2>2 DEF PauseInv, PausesLeftOut
<1>5. CASE Frame
  <2>1. UNCHANGED <<options, time, pause>> /\ pcM = "frame" /\ pcM' # "toggle"
    BY <1>5 DEF Frame
  <2>2. RecordingTime \in Int /\ (~ paused => RecordingTime = recorded)
    BY <2>1 DEF RecordingTime, PauseInv, Pausing
  <2>3. Max({0, RecordingTime - video_pts_counter})
          = IF 0 >= RecordingTime - video_pts_counter THEN 0 ELSE RecordingTime - video_pts_counter
    BY <2>2, Larger
  <2>4. /\ video_pts_counter' \in Nat
        /\ options.framerate_mode = "constant" => video_pts_counter' <= recorded
    BY <1>5, <2>2, <2>3 DEF Frame, PausesLeftOut
  <2>5. TimeTypeOK' /\ PausesLeftOut'
    BY <2>1, <2>4 DEF time, pause, PausesLeftOut
  <2>6. PauseInv'
    BY <2>1 DEF time, pause, PauseInv, Pausing
  <2> QED
    BY <2>5, <2>6
<1>6. CASE StopHandler \/ SaveReplayHandler \/ TogglePauseHandler \/ TabletConnects
  BY <1>1, <1>6 DEF StopHandler, SaveReplayHandler, TogglePauseHandler, TabletConnects, video
<1>7. CASE LeaveLoop \/ EncodeVideo \/ CollectAndRequest \/ SaveReplayAsync \/ FinishSave \/ Exit
  BY <1>1, <1>7 DEF LeaveLoop, EncodeVideo, CollectAndRequest, SaveReplayAsync, FinishSave,
     Exit, video
<1>8. CASE SaverWrites \/ UNCHANGED vars \/ \E t \in Tracks : Audio(t)
  BY <1>1, <1>8 DEF SaverWrites, Audio, video, vars
<1> QED
  BY <1>2, <1>3, <1>4, <1>5, <1>6, <1>7, <1>8 DEF Next, Environment, Main

-------------------------------------------------------------------------------
(* The audio threads.                                                      *)

\* The number of missing frames is a number; the frame in hand is not missing.
LEMMA MissingIs ==
  ASSUME AudioTypeOK, NEW t \in Tracks
  PROVE  LET behind == audio_frame_time[t] - num_received_frames[t]
         IN  /\ Missing(t) \in Int
             /\ t \notin Silent /\ Missing(t) >= 1
                  => Missing(t) = IF got_audio_data[t] THEN behind - 1 ELSE behind
<1> DEFINE behind == audio_frame_time[t] - num_received_frames[t]
           positive == IF 0 >= behind THEN 0 ELSE behind
<1>1. behind \in Int /\ positive \in Int /\ got_audio_data[t] \in BOOLEAN
  BY DEF AudioTypeOK
<1> HIDE DEF behind
<1>2. Max({0, behind}) = positive
  BY <1>1, Larger
<1>3. Missing(t) = IF t \in Silent THEN Max({1, positive})
                   ELSE IF got_audio_data[t] THEN Max({0, positive - 1}) ELSE positive
  BY <1>2 DEF Missing, behind
<1>4. /\ Max({1, positive}) = IF 1 >= positive THEN 1 ELSE positive
      /\ Max({0, positive - 1}) = IF 0 >= positive - 1 THEN 0 ELSE positive - 1
  BY <1>1, Larger
<1>5. Missing(t) \in Int
  BY <1>1, <1>3, <1>4
<1>6. t \notin Silent /\ Missing(t) >= 1
        => Missing(t) = IF got_audio_data[t] THEN behind - 1 ELSE behind
  BY <1>1, <1>3, <1>4
<1> QED
  BY <1>5, <1>6 DEF behind

\* A step of an audio thread: only ReadChunk takes a time, and it is the time recorded
\* unless a pause is on.
LEMMA TrackStep ==
  ASSUME TypeOK, PauseInv, TakenInv, NEW t \in Tracks, Audio(t)
  PROVE  AudioTypeOK' /\ TakenInv'
<1> USE DEF AudioTypeOK
<1>1. AudioTypeOK /\ TimeTypeOK /\ UNCHANGED <<clock, recorded, paused, pcM>>
  BY DEF TypeOK, Audio, time, pause
<1>2. ASSUME \A u \in Tracks : pcA'[u] = "test" => u # t /\ pcA[u] = "test",
             \A u \in Tracks \ {t} : torn'[u] = torn[u] /\ audio_frame_time'[u] = audio_frame_time[u]
      PROVE  TakenInv'
  BY <1>1, <1>2 DEF TakenInv
<1>3. CASE ReadChunk(t)
  <2>1. RecordingTime \in Int /\ (pcM = "toggle" /\ ~ paused) \in BOOLEAN
    BY <1>1 DEF TimeTypeOK, RecordingTime
  <2>2. PICK got \in BOOLEAN : got_audio_data' = [got_audio_data EXCEPT ![t] = got]
    BY <1>3 DEF ReadChunk
  <2>3. AudioTypeOK'
    BY <1>1, <1>3, <2>1, <2>2 DEF ReadChunk
  <2>4. ~ (pcM = "toggle" /\ ~ paused) => RecordingTime <= recorded \/ (paused /\ pcM # "toggle")
    BY <1>1 DEF TimeTypeOK, RecordingTime, PauseInv, Pausing
  <2>5. /\ audio_frame_time'[t] = RecordingTime /\ torn'[t] = (pcM = "toggle" /\ ~ paused)
        /\ \A u \in Tracks \ {t} : /\ torn'[u] = torn[u] /\ audio_frame_time'[u] = audio_frame_time[u]
                                   /\ pcA'[u] = pcA[u]
    BY <1>1, <1>3 DEF ReadChunk
  <2>6. TakenInv'
    BY <1>1, <2>4, <2>5 DEF TakenInv
  <2> QED
    BY <2>3, <2>6
<1>4. CASE EndAudio(t)
  <2>1. AudioTypeOK'
    BY <1>1, <1>4 DEF EndAudio
  <2> QED
    BY <1>1, <1>2, <1>4, <2>1 DEF EndAudio
<1>5. CASE TestPaused(t)
  <2>1. (IF paused THEN 0 ELSE Missing(t)) \in Int
    BY <1>1, MissingIs
  <2>2. PICK next \in {"sleep", "read", "lock", "chunk"} : pcA' = [pcA EXCEPT ![t] = next]
    BY <1>5 DEF TestPaused, ChunkOrNext
  <2>3. AudioTypeOK'
    BY <1>1, <1>5, <2>1, <2>2 DEF TestPaused
  <2>4. /\ \A u \in Tracks : pcA'[u] = "test" => u # t /\ pcA[u] = "test"
        /\ \A u \in Tracks \ {t} : torn'[u] = torn[u] /\ audio_frame_time'[u] = audio_frame_time[u]
    BY <1>1, <1>5, <2>2 DEF TestPaused
  <2> QED
    BY <1>2, <2>3, <2>4
<1>6. CASE EncodeSilence(t)
  <2>1. PICK next \in {"silence", "sleep", "read", "chunk"} : pcA' = [pcA EXCEPT ![t] = next]
    BY <1>6 DEF EncodeSilence, ChunkOrNext
  <2>2. AudioTypeOK'
    BY <1>1, <1>6, <2>1 DEF EncodeSilence, Encode
  <2>3. /\ \A u \in Tracks : pcA'[u] = "test" => u # t /\ pcA[u] = "test"
        /\ \A u \in Tracks \ {t} : torn'[u] = torn[u] /\ audio_frame_time'[u] = audio_frame_time[u]
    BY <1>1, <1>6, <2>1 DEF EncodeSilence
  <2> QED
    BY <1>2, <2>2, <2>3
<1>7. CASE EncodeChunk(t)
  <2>1. AudioTypeOK'
    BY <1>1, <1>7 DEF EncodeChunk, Encode
  <2> QED
    BY <1>1, <1>2, <1>7, <2>1 DEF EncodeChunk
<1>8. CASE Sleep(t)
  <2>1. AudioTypeOK'
    BY <1>1, <1>8 DEF Sleep
  <2> QED
    BY <1>1, <1>2, <1>8, <2>1 DEF Sleep
<1> QED
  BY <1>3, <1>4, <1>5, <1>6, <1>7, <1>8 DEF Audio

\* The end of a pause tears the times that were taken during it; the clock only adds
\* to what was recorded.
LEMMA AudioStep == TypeOK /\ PauseInv /\ TakenInv /\ [Next]_vars => AudioTypeOK' /\ TakenInv'
<1> SUFFICES ASSUME TypeOK, PauseInv, TakenInv, [Next]_vars PROVE AudioTypeOK' /\ TakenInv'
  OBVIOUS
<1>1. AudioTypeOK /\ TimeTypeOK
  BY DEF TypeOK
<1>2. ASSUME UNCHANGED <<audio, recorded, paused>>, (pcM' = "toggle") = (pcM = "toggle")
      PROVE  AudioTypeOK' /\ TakenInv'
  BY <1>1, <1>2 DEF audio, tracks, AudioTypeOK, TakenInv
<1>3. CASE Tick
  BY <1>1, <1>3 DEF Tick, TimeTypeOK, AudioTypeOK, TakenInv, audio, tracks, pause
<1>4. CASE TogglePause
  <2>1. /\ pcM = "signals" /\ UNCHANGED <<tracks, recorded, paused>>
        /\ torn' = [t \in Tracks |-> torn[t] \/ (paused /\ pcA[t] = "test")]
    BY <1>4 DEF TogglePause, time
  <2>2. AudioTypeOK'
    BY <1>1, <2>1 DEF AudioTypeOK, tracks
  <2>3. TakenInv'
    BY <1>1, <2>1 DEF TakenInv, tracks
  <2> QED
    BY <2>2, <2>3
<1>5. CASE Toggled
  <2>1. pcM = "toggle" /\ pcM' = "collect" /\ UNCHANGED <<audio, recorded>>
    BY <1>5 DEF Toggled, time
  <2>2. AudioTypeOK'
    BY <1>1, <2>1 DEF audio, tracks, AudioTypeOK
  <2>3. TakenInv'
    BY <2>1 DEF TakenInv, audio, tracks
  <2> QED
    BY <2>2, <2>3
<1>6. CASE StopHandler \/ SaveReplayHandler \/ TogglePauseHandler \/ TabletConnects
  BY <1>2, <1>6 DEF StopHandler, SaveReplayHandler, TogglePauseHandler, TabletConnects, time, pause
<1>7. CASE \/ LeaveLoop \/ Frame \/ EncodeVideo \/ CollectAndRequest \/ SaveReplayAsync
           \/ FinishSave \/ Exit
  BY <1>2, <1>7 DEF LeaveLoop, Frame, EncodeVideo, CollectAndRequest, SaveReplayAsync, FinishSave,
     Exit, time, pause
<1>8. CASE SaverWrites \/ UNCHANGED vars
  BY <1>2, <1>8 DEF SaverWrites, vars, time, pause
<1>9. CASE \E t \in Tracks : Audio(t)
  BY <1>9, TrackStep
<1> QED
  BY <1>3, <1>4, <1>5, <1>6, <1>7, <1>8, <1>9 DEF Next, Environment, Main

-------------------------------------------------------------------------------
(* The theorems.                                                           *)

\* A recorder that has just started satisfies the inductive invariant.
LEMMA InitInv == Init => GInv
<1> SUFFICES ASSUME Init PROVE GInv
  OBVIOUS
<1>1. << >> \in Seq(Packet) /\ Len(<< >>) = 0
  BY EmptySeq
<1>2. TypeOK
  <2>1. TimeTypeOK /\ QueueTypeOK
    <3>1. /\ options \in Options /\ clock = 1 /\ recorded = 1 /\ video_pts_counter = 0
          /\ paused = FALSE /\ paused_time_offset = 0 /\ paused_time_start = 0
          /\ frame_data_queue = <<>> /\ frames_erased = FALSE /\ pushed = 0
      BY DEF Init
    <3>2. paused \in BOOLEAN /\ frames_erased \in BOOLEAN
      BY <3>1
    <3>3. TimeTypeOK
      BY <3>1, <3>2 DEF TimeTypeOK
    <3>4. QueueTypeOK
      BY <1>1, <3>1, <3>2 DEF QueueTypeOK
    <3> QED
      BY <3>3, <3>4
  <2>2. SaveTypeOK
    BY <1>1 DEF Init, SaveTypeOK
  <2>3. AudioTypeOK
    BY DEF Init, AudioTypeOK
  <2> QED
    BY <2>1, <2>2, <2>3 DEF TypeOK
<1>3. QueueInv /\ CopyInv /\ StartInv
  BY <1>1 DEF Init, QueueInv, CopyInv, StartInv
<1>4. PauseInv /\ PausesLeftOut /\ TakenInv
  <2>1. PauseInv
    <3>1. ~ Pausing
      BY DEF Init, Pausing
    <3>2. clock = 1 /\ recorded = 1 /\ paused_time_offset = 0
      BY DEF Init
    <3> QED
      BY <3>1, <3>2 DEF PauseInv
  <2>2. PausesLeftOut
    BY DEF Init, PausesLeftOut
  <2>3. TakenInv
    BY DEF Init, TakenInv
  <2> QED
    BY <2>1, <2>2, <2>3
<1> QED
  BY <1>2, <1>3, <1>4 DEF GInv

\* What the main thread, the save and the audio threads rely on holds for ever.
THEOREM Invariance == Spec => []GInv
<1>1. GInv /\ [Next]_vars => GInv'
  <2> SUFFICES ASSUME GInv, [Next]_vars PROVE GInv'
    OBVIOUS
  <2>1. TypeOK /\ QueueInv /\ CopyInv /\ StartInv /\ PauseInv /\ PausesLeftOut /\ TakenInv
    BY DEF GInv
  <2>2. QueueTypeOK' /\ QueueInv'
    BY <2>1, QueueStep
  <2>3. SaveTypeOK' /\ CopyInv' /\ StartInv'
    BY <2>1, SaveStep
  <2>4. TimeTypeOK' /\ PauseInv' /\ PausesLeftOut'
    BY <2>1, TimeStep
  <2>5. AudioTypeOK' /\ TakenInv'
    BY <2>1, AudioStep
  <2> QED
    BY <2>2, <2>3, <2>4, <2>5 DEF GInv, TypeOK
<1> QED
  BY <1>1, InitInv, PTL DEF Spec

\* A saved file is an unbroken piece of the recording and, once it is ready, goes to
\* the end of the buffer it was copied from.
THEOREM Whole == Spec => []SaveWhole
<1>1. GInv => SaveWhole
  <2> SUFFICES ASSUME GInv, saver # "none"
               PROVE  /\ \A i \in 1 .. Len(file) - 1 : file[i + 1].n = file[i].n + 1
                      /\ saver = "ready" =>
                           /\ file # <<>>
                           /\ file[Len(file)] = save_replay_packets[Len(save_replay_packets)]
    BY DEF SaveWhole
  <2>1. /\ Len(file) \in Nat /\ Len(save_replay_packets) \in Nat
        /\ start_index \in 1 .. Len(save_replay_packets)
        /\ Len(file) <= Len(save_replay_packets) - start_index + 1
        /\ saver = "ready" => Len(file) = Len(save_replay_packets) - start_index + 1
    BY LenProperties DEF GInv, TypeOK, SaveTypeOK, CopyInv
  <2>2. \A i \in 1 .. Len(file) : file[i] = save_replay_packets[start_index + i - 1]
    BY DEF GInv, CopyInv
  <2>3. ASSUME NEW i \in 1 .. Len(file) - 1
        PROVE  file[i + 1].n = file[i].n + 1
    <3> DEFINE k == start_index + i - 1
    <3>1. /\ i \in 1 .. Len(file) /\ i + 1 \in 1 .. Len(file)
          /\ k \in 1 .. Len(save_replay_packets) /\ k + 1 \in 1 .. Len(save_replay_packets)
          /\ start_index + (i + 1) - 1 = k + 1
      BY <2>1
    <3>2. file[i] = save_replay_packets[k] /\ file[i + 1] = save_replay_packets[k + 1]
      BY <2>2, <3>1
    <3>3. k \in Int
      BY <2>1, <3>1
    <3> HIDE DEF k
    <3>4. save_replay_packets[k + 1].n - save_replay_packets[k].n = (k + 1) - k
      <4>1. \A h, j \in 1 .. Len(save_replay_packets) :
              save_replay_packets[h].n - save_replay_packets[j].n = h - j
        BY DEF GInv, CopyInv
      <4> QED
        BY <3>1, <4>1, ZenonT(30)
    <3>5. save_replay_packets[k + 1].n \in Int /\ save_replay_packets[k].n \in Int
      <4>1. save_replay_packets \in Seq(Packet)
        BY DEF GInv, TypeOK, SaveTypeOK
      <4>2. save_replay_packets[k + 1] \in Packet /\ save_replay_packets[k] \in Packet
        BY <3>1, <4>1, ElementOfSeq
      <4> QED
        BY <4>2 DEF Packet
    <3> QED
      BY <3>2, <3>3, <3>4, <3>5
  <2>4. ASSUME saver = "ready"
        PROVE  file # <<>> /\ file[Len(file)] = save_replay_packets[Len(save_replay_packets)]
    <3>1. /\ Len(file) \in 1 .. Len(file)
          /\ start_index + Len(file) - 1 = Len(save_replay_packets)
      BY <2>1, <2>4
    <3>2. file # <<>>
      BY <3>1, EmptySeq
    <3> QED
      BY <2>2, <3>1, <3>2
  <2> QED
    BY <2>3, <2>4
<1> QED
  BY <1>1, Invariance, PTL

\* A saved file begins with a key frame of the video or with the recording, or packets
\* were erased between the call of save_replay_async and its taking the mutex; in any
\* case a finished file holds a key frame.
THEOREM Playable == Spec => []SaveStartsPlayable
<1>1. GInv => SaveStartsPlayable
  <2> SUFFICES ASSUME GInv, saver # "none"
               PROVE  /\ file # <<>> => \/ file[1].stream = "video" /\ file[1].key
                                        \/ file[1].n = 1
                                        \/ ErasedInBetween
                      /\ saver = "ready" => \E i \in 1 .. Len(file) : file[i].key
    BY DEF SaveStartsPlayable
  <2>1. /\ Len(file) \in Nat /\ Len(save_replay_packets) \in Nat
        /\ start_index \in 1 .. Len(save_replay_packets)
        /\ saver = "ready" => Len(file) = Len(save_replay_packets) - start_index + 1
    BY LenProperties DEF GInv, TypeOK, SaveTypeOK, CopyInv
  <2>2. \A i \in 1 .. Len(file) : file[i] = save_replay_packets[start_index + i - 1]
    BY DEF GInv, CopyInv
  <2>3. ASSUME file # <<>>
        PROVE  file[1] = save_replay_packets[start_index]
    <3>1. file \in Seq(Packet)
      BY DEF GInv, TypeOK, SaveTypeOK
    <3>2. 1 \in 1 .. Len(file) /\ start_index + 1 - 1 = start_index
      BY <2>1, <2>3, <3>1, EmptySeq
    <3> QED
      BY <2>2, <3>2
  <2>4. ASSUME saver = "ready"
        PROVE  \E i \in 1 .. Len(file) : file[i].key
    <3>1. PICK k \in start_index .. Len(save_replay_packets) : save_replay_packets[k].key
      BY DEF GInv, StartInv
    <3>2. /\ k - start_index + 1 \in 1 .. Len(file)
          /\ start_index + (k - start_index + 1) - 1 = k
      BY <2>1, <2>4, <3>1
    <3> QED
      BY <2>2, <3>1, <3>2
  <2> QED
    BY <2>3, <2>4 DEF GInv, StartInv
<1> QED
  BY <1>1, Invariance, PTL

\* At a constant frame rate the video never counts more frames than were recorded.
THEOREM VideoWithoutPauses == Spec => []PausesLeftOut
  BY Invariance, PTL DEF GInv

\* Silence never fills a track past the time that was recorded.
THEOREM SoundWithoutPauses == Spec => AudioInStep
<1> DEFINE A == \A t \in Tracks \ Silent :
                  pcA[t] = "test" /\ pcA'[t] = "lock" /\ ~ torn[t]
                    => num_received_frames[t] + num_missing_frames'[t]
                         + (IF got_audio_data[t] THEN 1 ELSE 0) <= recorded
<1>1. GInv /\ [Next]_vars => A
  <2> SUFFICES ASSUME GInv, [Next]_vars, NEW t \in Tracks \ Silent,
                      pcA[t] = "test", pcA'[t] = "lock", ~ torn[t]
               PROVE  num_received_frames[t] + num_missing_frames'[t]
                        + (IF got_audio_data[t] THEN 1 ELSE 0) <= recorded
    OBVIOUS
  <2>1. AudioTypeOK /\ TimeTypeOK
    BY DEF GInv, TypeOK
  <2>2. TestPaused(t)
    <3>1. pcA' # pcA
      OBVIOUS
    <3>2. PICK u \in Tracks : Audio(u)
      BY <3>1 DEF Next, Environment, Tick, StopHandler, SaveReplayHandler, TogglePauseHandler,
         TabletConnects, Main, LeaveLoop, Frame, EncodeVideo, TogglePause, Toggled,
         CollectAndRequest, SaveReplayAsync, FinishSave, Exit, SaverWrites, audio, tracks, vars
    <3>3. u = t
      BY <2>1, <3>2 DEF Audio, ReadChunk, EndAudio, TestPaused, EncodeSilence, EncodeChunk, Sleep,
         AudioTypeOK
    <3> QED
      BY <2>1, <3>2, <3>3 DEF Audio, ReadChunk, EndAudio, EncodeSilence, EncodeChunk, Sleep,
         AudioTypeOK
  <2>3. ~ paused /\ PutSilence(t) /\ num_missing_frames'[t] = Missing(t)
    BY <2>1, <2>2 DEF TestPaused, AudioTypeOK, ChunkOrNext
  <2>4. audio_frame_time[t] <= recorded
    BY <2>3 DEF GInv, TakenInv
  <2>5. Missing(t) \in Int /\ Missing(t) >= 1
    BY <2>1, <2>3, MissingIs, RecorderAssumption DEF PutSilence
  <2>6. Missing(t) = IF got_audio_data[t] THEN audio_frame_time[t] - num_received_frames[t] - 1
                     ELSE audio_frame_time[t] - num_received_frames[t]
    BY <2>1, <2>5, MissingIs
  <2> QED
    BY <2>1, <2>3, <2>4, <2>6 DEF AudioTypeOK, TimeTypeOK
<1> QED
  BY <1>1, Invariance, PTL DEF Spec, AudioInStep

-------------------------------------------------------------------------------
(* The start: what each step leaves in main's variables, and why a step    *)
(* exits.  "Reached" is how far the program has come.                      *)

Steps == {"options", "display", "load", "card", "modes", "output", "container", "codecs",
          "capture", "start", "encoder", "open", "audio", "header", "record"}

\* The step the program is at, or exited at.
Reached == IF pc = "exited" THEN failed ELSE pc

\* The steps from one on.
FromOpen      == {"open", "audio", "header", "record"}
FromEncoder   == {"encoder"} \cup FromOpen
FromStart     == {"start"} \cup FromEncoder
FromCapture   == {"capture"} \cup FromStart
FromCodecs    == {"codecs"} \cup FromCapture
FromOutput    == {"output", "container"} \cup FromCodecs
FromModes     == {"modes"} \cup FromOutput
FromCard      == {"card"} \cup FromModes
FromLoad      == {"load"} \cup FromCard
FromDisplay   == {"display"} \cup FromLoad

MainVariables ==
  [video_codec : VideoCodecs, audio_codec : {"aac", "opus"}, track : {"", "device", "silent"},
   wayland : BOOLEAN, context_type : {Unset, "glx", "egl"}, dri_card_path : Cards \cup {""},
   card_path : Cards \cup {""}, file_extension : Extensions \cup {""},
   encoder_f : {Unset, "h264", "hevc", "av1", "vp8", "vp9"},
   capture : {Unset, "portal", "nvfbc", "kms", "xcomposite"}, capture_hdr : BOOLEAN,
   color_depth : {8, 10}, video_encoder : {Unset, "software", "cuda", "vaapi"}, hdr : BOOLEAN]

StartType ==
  /\ cmd \in CommandLines /\ sys \in Systems /\ m \in MainVariables
  /\ pc \in Steps \cup {"exited"} /\ failed \in Steps \cup {Unset}
  /\ pc = "exited" <=> failed # Unset

\* What the options, or the portal, ask for, and what is made of it.
Asked  == IF cmd.k = "auto" THEN "h264" ELSE cmd.k
Wanted == WantedCodec(IF IsPortalCapture THEN ToSdr(Asked) ELSE Asked, m.file_extension)
Picked == PickVideoCodec(Wanted, m.file_extension = "flv")

\* ParseOptions refused what it does not know; the codec is the one that was asked for
\* until SelectCodecs.
OptionsInv ==
  /\ Reached \in FromDisplay => cmd.k # "?" /\ cmd.a # "?"
  /\ Reached \in FromDisplay \ FromCapture => m.video_codec = Asked

\* HDR was asked for on Wayland only.
DisplayInv ==
  Reached \in FromLoad => (m.wayland <=> IsWayland) /\ (IsHdr(Asked) => IsWayland)

\* The context is made once, for the capture that was asked for.
EglInv ==
  /\ m.context_type # Unset <=> Reached \in FromCard
  /\ Reached \in FromCard =>
       /\ sys.vendor # "?"
       /\ m.context_type = "glx" <=> NeedsGlx(Named)
       /\ m.dri_card_path = IF NeedsGlx(Named) THEN "" ELSE sys.renders

\* Where a card is needed there is one, and it is valid.
CardInv ==
  Reached \in FromModes /\ UseDrm(m.wayland) =>
    m.card_path = ValidCard(m.dri_card_path, Named) /\ m.card_path # ""

\* -fm content is not asked of a Wayland screen, nor -s of anything but "focused".
ModesInv ==
  Reached \in FromOutput =>
    /\ ~ (cmd.fm = "content" /\ m.wayland /\ ~ IsPortalCapture)
    /\ ~ (cmd.s # "" /\ cmd.w # "focused")

\* The container is known from SelectCodecs on.
ContainerInv == Reached \in FromCodecs <=> m.file_extension # ""

\* The codecs are the ones picked for the container.
CodecsInv ==
  /\ Reached \in FromCapture <=> m.encoder_f # Unset
  /\ Reached \notin FromCapture => m.color_depth = 8
  /\ Reached \in FromCapture =>
       /\ cmd.cpu => Wanted = "h264"
       /\ m.video_codec = Picked[1] /\ m.encoder_f = Picked[2]
       /\ m.audio_codec \in AudioIn(m.file_extension)
       /\ m.color_depth = BitDepth(m.video_codec)

\* The capture is none that is refused, and takes HDR from the picked codec.
CaptureInv ==
  /\ Reached \in FromStart <=> m.capture # Unset
  /\ Reached \notin FromStart => ~ m.capture_hdr
  /\ Reached \in FromStart =>
       /\ ~ CaptureRefused /\ m.capture = CaptureOf
       /\ m.capture_hdr <=> CaptureOf = "kms" /\ IsHdr(m.video_codec)

\* HDR is the codec's, and VAAPI is not NVIDIA's.
EncoderInv ==
  /\ m.hdr => Reached \in FromEncoder /\ IsHdr(m.video_codec)
  /\ m.video_encoder = "vaapi" => Reached \in FromOpen /\ sys.vendor # "nvidia"

\* Why a step exited.
ExitInv ==
  /\ failed = "display" => IsHdr(m.video_codec) /\ ~ IsWayland
  /\ failed = "card" => UseDrm(m.wayland) /\ ValidCard(m.dri_card_path, Named) = ""
  /\ failed = "codecs" => (cmd.cpu /\ Wanted # "h264") \/ Picked[2] = Unset
  /\ failed = "capture" => CaptureRefused

StartupInv ==
  /\ StartType /\ OptionsInv /\ DisplayInv /\ EglInv /\ CardInv /\ ModesInv /\ ContainerInv
  /\ CodecsInv /\ CaptureInv /\ EncoderInv /\ ExitInv

\* The start begins at the options.
LEMMA StartsWell == InitStartup => StartupInv
<1> SUFFICES ASSUME InitStartup PROVE StartupInv
  OBVIOUS
<1> USE DEF InitStartup, Unset
<1>1. StartType
  BY DEF StartType, MainVariables, Steps, VideoCodecs, Hevc, Av1, Cards, Extensions
<1>2. Reached = "options"
  BY DEF Reached
<1> USE DEF FromDisplay, FromLoad, FromCard, FromModes, FromOutput, FromCodecs, FromCapture,
            FromStart, FromEncoder, FromOpen
<1>3. OptionsInv /\ DisplayInv /\ EglInv /\ CardInv /\ ModesInv /\ ContainerInv
  BY <1>2 DEF OptionsInv, DisplayInv, EglInv, CardInv, ModesInv, ContainerInv
<1>4. CodecsInv /\ CaptureInv /\ EncoderInv /\ ExitInv
  BY <1>2 DEF CodecsInv, CaptureInv, EncoderInv, ExitInv
<1> QED
  BY <1>1, <1>3, <1>4 DEF StartupInv

\* What is known of a command line and of a system.
LEMMA GivenTypes ==
  ASSUME StartupInv
  PROVE  /\ cmd.k \in VideoCodecs \cup {"auto", "?"} /\ cmd.ac \in {"aac", "opus", "flac"}
         /\ cmd.w \in {"focused", "portal", "screen", "screen-direct", "screen-direct-force",
                     "monitor", "?", "id", "0"}
         /\ cmd.cpu \in BOOLEAN /\ cmd.a \in {"", "device", "?"}
         /\ cmd.suffix \in Extensions \cup {"?"} /\ cmd.c \in Extensions \cup {"", "?"}
         /\ sys.renders \in Cards \cup {""} /\ sys.screens \subseteq Cards
         /\ cmd \in CommandLines /\ sys \in Systems
BY StartupAssumption DEF StartupInv, StartType

-------------------------------------------------------------------------------
(* A part of the invariant holds on while what it rests on stays as it is. *)

\* A step keeps the program before, or behind, the first of the steps.
Same(steps) == Reached' \in steps <=> Reached \in steps

\* OptionsInv holds on while video_codec is what was asked for, until one is picked.
LEMMA OptionsKept ==
  ASSUME OptionsInv, UNCHANGED cmd, Same(FromDisplay), Same(FromCapture),
         Reached \in FromDisplay => m'.video_codec = m.video_codec
  PROVE  OptionsInv'
BY DEF OptionsInv, Asked, Same

\* DisplayInv holds on while nobody assigns "wayland" again.
LEMMA DisplayKept ==
  ASSUME DisplayInv, UNCHANGED <<cmd, sys>>, Same(FromLoad),
         Reached \in FromLoad => (m'.wayland <=> m.wayland)
  PROVE  DisplayInv'
BY DEF DisplayInv, Asked, IsWayland, Same

\* EglInv holds on while nobody assigns the context and the card it draws with again.
LEMMA EglKept ==
  ASSUME EglInv, UNCHANGED <<cmd, sys>>, Same(FromCard), m'.context_type = m.context_type,
         Reached \in FromCard => m'.dri_card_path = m.dri_card_path
  PROVE  EglInv'
BY DEF EglInv, NeedsGlx, Named, IsWayland, Same

\* CardInv holds on while nobody assigns the cards again.
LEMMA CardKept ==
  ASSUME CardInv, UNCHANGED <<cmd, sys>>, Same(FromModes),
         Reached \in FromModes => UNCHANGED <<m.wayland, m.dri_card_path, m.card_path>>
  PROVE  CardInv'
BY DEF CardInv, UseDrm, ValidCard, Named, Same

\* ModesInv, about -fm and -s, holds on while nobody assigns "wayland" again.
LEMMA ModesKept ==
  ASSUME ModesInv, UNCHANGED cmd, Same(FromOutput), Reached \in FromOutput => UNCHANGED m.wayland
  PROVE  ModesInv'
BY DEF ModesInv, IsPortalCapture, Same

\* ContainerInv holds on while the container stays.
LEMMA ContainerKept ==
  ASSUME ContainerInv, Same(FromCodecs), UNCHANGED m.file_extension
  PROVE  ContainerInv'
BY DEF ContainerInv, Same

\* The codec that is wanted, and the one that is picked, only depend on the command line,
\* the system and the container.
LEMMA PickedKept ==
  ASSUME UNCHANGED <<cmd, sys, m.file_extension>>
  PROVE  UNCHANGED <<Wanted, Picked>>
BY DEF Wanted, Picked, Asked, WantedCodec, PickVideoCodec, IsPortalCapture, SupportedCodecs,
       FfmpegCodec

\* CodecsInv holds on while nobody assigns the codecs again.
LEMMA CodecsKept ==
  ASSUME CodecsInv, UNCHANGED <<cmd, sys, m.encoder_f, m.color_depth>>, Same(FromCapture),
         Reached \in FromCapture =>
           UNCHANGED <<m.file_extension, m.video_codec, m.audio_codec>>
  PROVE  CodecsInv'
<1>1. Reached \in FromCapture => UNCHANGED <<Wanted, Picked>>
  BY PickedKept
<1> QED
  BY <1>1 DEF CodecsInv, Same

\* Whether a capture is refused, and which one is made, only depends on the command line,
\* the system, the display server and the card.
LEMMA ChoiceKept ==
  ASSUME UNCHANGED <<cmd, sys, m.wayland, m.card_path>>
  PROVE  (CaptureRefused' <=> CaptureRefused) /\ (CaptureOf' = CaptureOf)
<1>1. UNCHANGED <<IsPortalCapture, Named, Monitors, UseDrm(m.wayland)>>
  BY DEF IsPortalCapture, Named, Monitors, IsWayland, UseDrm
<1>2. NameKnown' <=> NameKnown
  BY <1>1 DEF NameKnown
<1>3. CaptureRefused' <=> CaptureRefused
  BY <1>1, <1>2 DEF CaptureRefused
<1>4. CaptureOf' = CaptureOf
  BY <1>1, Zenon DEF CaptureOf
<1> QED
  BY <1>3, <1>4

\* CaptureInv holds on while nobody assigns the capture and what it was chosen from again.
LEMMA CaptureKept ==
  ASSUME CaptureInv, UNCHANGED <<cmd, sys, m.capture, m.capture_hdr>>, Same(FromStart),
         Reached \in FromStart => UNCHANGED <<m.wayland, m.card_path, m.video_codec>>
  PROVE  CaptureInv'
<1>1. Reached \in FromStart => (CaptureRefused' <=> CaptureRefused) /\ (CaptureOf' = CaptureOf)
  BY ChoiceKept
<1> QED
  BY <1>1 DEF CaptureInv, Same

\* EncoderInv holds on while nobody assigns the encoder and HDR again.
LEMMA EncoderKept ==
  ASSUME EncoderInv, UNCHANGED <<sys, m.hdr, m.video_encoder>>, Same(FromEncoder), Same(FromOpen),
         Reached \in FromEncoder => UNCHANGED m.video_codec
  PROVE  EncoderInv'
BY DEF EncoderInv, Same

-------------------------------------------------------------------------------
(* The steps. *)

\* A step that exits leaves the program where it was.
LEMMA ExitKeeps ==
  ASSUME StartupInv, ExitProgram, pc \in Steps, ExitInv'
  PROVE  StartupInv'
<1>1. /\ Reached' = Reached /\ UNCHANGED <<cmd, sys, m>> /\ failed' = pc /\ pc' = "exited"
  BY DEF StartupInv, StartType, ExitProgram, Steps, Unset, Reached
<1>2. StartType'
  BY <1>1 DEF StartupInv, StartType, Steps, Unset
<1>3. \A steps : Same(steps)
  BY <1>1 DEF Same
<1> QED
  BY <1>1, <1>2, <1>3, OptionsKept, DisplayKept, EglKept, CardKept, ModesKept, ContainerKept,
     CodecsKept, CaptureKept, EncoderKept DEF StartupInv

\* A step that goes on changes neither the command line nor the system.
LEMMA GoesOn ==
  ASSUME StartupInv, NEW next \in Steps, NEW mm, Go(next, mm), pc \in Steps
  PROVE  /\ Reached = pc /\ Reached' = next /\ failed = Unset /\ UNCHANGED <<cmd, sys, failed>>
         /\ m' = mm /\ pc' = next /\ ExitInv' /\ (mm \in MainVariables => StartType')
BY DEF StartupInv, StartType, Go, Steps, Unset, Reached, ExitInv

\* A step that goes on without a change of main's variables.
LEMMA MovesOn ==
  ASSUME StartupInv, NEW next, Go(next, m), CardInv', ModesInv',
         <<pc, next>> \in {<<"card", "modes">>, <<"modes", "output">>, <<"output", "container">>,
                           <<"open", "audio">>, <<"audio", "header">>, <<"header", "record">>}
  PROVE  StartupInv'
<1>1. pc \in Steps /\ next \in Steps
  BY DEF Steps
<1>2. /\ Reached = pc /\ Reached' = next /\ UNCHANGED <<cmd, sys, m>> /\ ExitInv' /\ StartType'
  BY <1>1, GoesOn DEF StartupInv, StartType
<1>3. /\ Same(FromDisplay) /\ Same(FromLoad) /\ Same(FromCard) /\ Same(FromCodecs)
      /\ Same(FromCapture) /\ Same(FromStart) /\ Same(FromEncoder) /\ Same(FromOpen)
  BY <1>2 DEF Same, FromDisplay, FromLoad, FromCard, FromModes, FromOutput, FromCodecs,
              FromCapture, FromStart, FromEncoder, FromOpen
<1> QED
  BY <1>2, <1>3, OptionsKept, DisplayKept, EglKept, ContainerKept, CodecsKept, CaptureKept,
     EncoderKept DEF StartupInv

\* Main's variables are these.
LEMMA DomainOf ==
  ASSUME m \in MainVariables
  PROVE  DOMAIN m = {"video_codec", "audio_codec", "track", "wayland", "context_type",
                     "dri_card_path", "card_path", "file_extension", "encoder_f", "capture",
                     "capture_hdr", "color_depth", "video_encoder", "hdr"}
BY DEF MainVariables

\* SelectAudioCodec returns a codec that the container takes.
LEMMA AudioFits ==
  ASSUME NEW c \in {"aac", "opus"}, NEW extension \in Extensions
  PROVE  SelectAudioCodec(c, extension) \in AudioIn(extension) \cap {"aac", "opus"}
<1>1. CASE c = "aac"
  BY <1>1 DEF SelectAudioCodec, AudioIn, Extensions
<1>2. CASE c = "opus"
  BY <1>2 DEF SelectAudioCodec, AudioIn, Extensions
<1> QED
  BY <1>1, <1>2

\* What the options ask for is a codec, and what is made of it is one.
LEMMA WantedKnown ==
  ASSUME StartupInv, Reached \in FromDisplay
  PROVE  Asked \in VideoCodecs /\ Wanted \in VideoCodecs
<1>1. Asked \in VideoCodecs
  BY GivenTypes DEF StartupInv, OptionsInv, Asked, VideoCodecs
<1>2. (IF IsPortalCapture THEN ToSdr(Asked) ELSE Asked) \in VideoCodecs
  BY <1>1 DEF ToSdr, VideoCodecs, Hevc, Av1
<1>3. \A extension : \A c \in VideoCodecs : WantedCodec(c, extension) \in VideoCodecs
  BY DEF WantedCodec, VideoCodecs, Hevc, Av1
<1> QED
  BY <1>1, <1>2, <1>3 DEF Wanted

\* What is picked is a codec and, or else nothing, an encoder.
LEMMA PickedKnown ==
  ASSUME NEW c \in VideoCodecs, NEW flv
  PROVE  /\ PickVideoCodec(c, flv)[1] \in VideoCodecs
         /\ PickVideoCodec(c, flv)[2] \in {Unset, "h264", "hevc", "av1", "vp8", "vp9"}
<1>1. \A f \in VideoCodecs : FfmpegCodec(f) \in {Unset, "h264", "hevc", "av1", "vp8", "vp9"}
  BY DEF FfmpegCodec, Family, VideoCodecs, Hevc, Av1
<1>2. "h264" \in VideoCodecs
  BY DEF VideoCodecs
<1> QED
  BY <1>1, <1>2 DEF PickVideoCodec

\* ParseOptions leaves the codec that was asked for, and no value nobody knows.
LEMMA ParseOptionsKeeps ==
  ASSUME StartupInv, pc = "options", ParseOptions, ~ ExitProgram
  PROVE  StartupInv'
<1> DEFINE codec == Asked
           sound == IF cmd.ac = "flac" THEN "opus" ELSE cmd.ac
           track == cmd.a
<1>1. Go("display", [m EXCEPT !.video_codec = codec, !.audio_codec = sound, !.track = track])
  BY DEF ParseOptions, Asked
<1> HIDE DEF codec, sound, track
<1>2. /\ Reached = "options" /\ Reached' = "display" /\ UNCHANGED <<cmd, sys>> /\ ExitInv'
      /\ m' = [m EXCEPT !.video_codec = codec, !.audio_codec = sound, !.track = track]
      /\ (m' \in MainVariables => StartType')
  BY <1>1, GoesOn DEF Steps
<1>3. cmd.k # "?" /\ cmd.a # "?"
  BY DEF ParseOptions, ExitProgram, Go
<1>4. codec \in VideoCodecs /\ sound \in {"aac", "opus"} /\ track \in {"", "device", "silent"}
  BY <1>3, GivenTypes DEF codec, sound, track, Asked, VideoCodecs
<1>5. m' \in MainVariables
  BY <1>2, <1>3, <1>4 DEF StartupInv, StartType, MainVariables
<1>6. /\ UNCHANGED <<m.wayland, m.context_type, m.dri_card_path, m.card_path, m.file_extension,
                     m.encoder_f, m.capture, m.capture_hdr, m.color_depth, m.video_encoder,
                     m.hdr>>
      /\ m'.video_codec = codec /\ m'.audio_codec = sound /\ m'.track = track
  BY <1>2, DomainOf DEF StartupInv, StartType
<1> USE DEF FromDisplay, FromLoad, FromCard, FromModes, FromOutput, FromCodecs, FromCapture,
         FromStart, FromEncoder, FromOpen
<1>7. /\ DisplayInv' /\ EglInv' /\ CardInv' /\ ModesInv' /\ ContainerInv'
      /\ CodecsInv' /\ CaptureInv' /\ EncoderInv'
  BY <1>2, <1>6, DisplayKept, EglKept, CardKept, ModesKept, ContainerKept, CodecsKept,
     CaptureKept, EncoderKept DEF StartupInv, Same
<1>8. OptionsInv'
  BY <1>2, <1>3, <1>4, <1>6 DEF StartupInv, OptionsInv, codec, Asked
<1> QED
  BY <1>2, <1>5, <1>7, <1>8 DEF StartupInv

\* OpenDisplay goes on with HDR only on Wayland.
LEMMA OpenDisplayKeeps ==
  ASSUME StartupInv, pc = "display", OpenDisplay, ~ ExitProgram
  PROVE  StartupInv'
<1> DEFINE wayland == IsWayland
<1>1. Go("load", [m EXCEPT !.wayland = wayland])
  BY DEF OpenDisplay
<1> HIDE DEF wayland
<1>2. /\ Reached = "display" /\ Reached' = "load" /\ UNCHANGED <<cmd, sys>> /\ ExitInv'
      /\ m' = [m EXCEPT !.wayland = wayland] /\ (m' \in MainVariables => StartType')
  BY <1>1, GoesOn DEF Steps
<1>3. IsHdr(m.video_codec) => IsWayland
  BY DEF OpenDisplay, ExitProgram, Go
<1>4. wayland \in BOOLEAN
  BY DEF wayland, IsWayland
<1>5. m' \in MainVariables
  BY <1>2, <1>3, <1>4 DEF StartupInv, StartType, MainVariables
<1>6. /\ UNCHANGED <<m.video_codec, m.audio_codec, m.track, m.context_type, m.dri_card_path,
                     m.card_path, m.file_extension, m.encoder_f, m.capture, m.capture_hdr,
                     m.color_depth, m.video_encoder, m.hdr>>
      /\ (m'.wayland <=> wayland)
  BY <1>2, DomainOf DEF StartupInv, StartType
<1> USE DEF FromDisplay, FromLoad, FromCard, FromModes, FromOutput, FromCodecs, FromCapture,
         FromStart, FromEncoder, FromOpen
<1>7. /\ OptionsInv' /\ EglInv' /\ CardInv' /\ ModesInv' /\ ContainerInv'
      /\ CodecsInv' /\ CaptureInv' /\ EncoderInv'
  BY <1>2, <1>6, OptionsKept, EglKept, CardKept, ModesKept, ContainerKept, CodecsKept,
     CaptureKept, EncoderKept DEF StartupInv, Same
<1>8. DisplayInv'
  BY <1>2, <1>3, <1>4, <1>6
  DEF StartupInv, DisplayInv, wayland, OptionsInv, Asked, IsWayland
<1> QED
  BY <1>2, <1>5, <1>7, <1>8 DEF StartupInv

\* LoadEgl leaves a GLX context, without a card, just where NvFBC will need one.
LEMMA LoadEglKeeps ==
  ASSUME StartupInv, pc = "load", LoadEgl, ~ ExitProgram
  PROVE  StartupInv'
<1> DEFINE context == IF NeedsGlx(Named) THEN "glx" ELSE "egl"
           card == IF NeedsGlx(Named) THEN "" ELSE sys.renders
<1>1. Go("card", [m EXCEPT !.context_type = context, !.dri_card_path = card])
  BY DEF LoadEgl, IsMonitorCapture
<1> HIDE DEF context, card
<1>2. /\ Reached = "load" /\ Reached' = "card" /\ UNCHANGED <<cmd, sys>> /\ ExitInv'
      /\ m' = [m EXCEPT !.context_type = context, !.dri_card_path = card]
      /\ (m' \in MainVariables => StartType')
  BY <1>1, GoesOn DEF Steps
<1>3. sys.vendor # "?"
  BY DEF LoadEgl, ExitProgram, Go
<1>4. context \in {"glx", "egl"} /\ card \in Cards \cup {""}
  BY GivenTypes DEF context, card
<1>5. m' \in MainVariables
  BY <1>2, <1>3, <1>4 DEF StartupInv, StartType, MainVariables
<1>6. /\ UNCHANGED <<m.video_codec, m.audio_codec, m.track, m.wayland, m.card_path,
                     m.file_extension, m.encoder_f, m.capture, m.capture_hdr, m.color_depth,
                     m.video_encoder, m.hdr>>
      /\ m'.context_type = context /\ m'.dri_card_path = card
  BY <1>2, DomainOf DEF StartupInv, StartType
<1> USE DEF FromDisplay, FromLoad, FromCard, FromModes, FromOutput, FromCodecs, FromCapture,
         FromStart, FromEncoder, FromOpen
<1>7. /\ OptionsInv' /\ DisplayInv' /\ CardInv' /\ ModesInv' /\ ContainerInv'
      /\ CodecsInv' /\ CaptureInv' /\ EncoderInv'
  BY <1>2, <1>6, OptionsKept, DisplayKept, CardKept, ModesKept, ContainerKept, CodecsKept,
     CaptureKept, EncoderKept DEF StartupInv, Same
<1>8. EglInv'
  BY <1>2, <1>3, <1>4, <1>6 DEF StartupInv, EglInv, context, card, NeedsGlx, Named, IsWayland,
                                Unset
<1> QED
  BY <1>2, <1>5, <1>7, <1>8 DEF StartupInv

\* FindCard goes on with a card where one is needed.
LEMMA FindCardKeeps ==
  ASSUME StartupInv, pc = "card", FindCard, ~ ExitProgram, UseDrm(m.wayland)
  PROVE  StartupInv'
<1> DEFINE card == ValidCard(m.dri_card_path, Named)
<1>1. Go("modes", [m EXCEPT !.card_path = card])
  BY DEF FindCard, IsMonitorCapture
<1> HIDE DEF card
<1>2. /\ Reached = "card" /\ Reached' = "modes" /\ UNCHANGED <<cmd, sys>> /\ ExitInv'
      /\ m' = [m EXCEPT !.card_path = card] /\ (m' \in MainVariables => StartType')
  BY <1>1, GoesOn DEF Steps
<1>3. card # ""
  BY DEF card, FindCard, ExitProgram, Go, IsMonitorCapture
<1>4. card \in Cards \cup {""}
  BY DEF card, ValidCard, Cards, StartupInv, StartType, MainVariables
<1>5. m' \in MainVariables
  BY <1>2, <1>3, <1>4 DEF StartupInv, StartType, MainVariables
<1>6. /\ UNCHANGED <<m.video_codec, m.audio_codec, m.track, m.wayland, m.context_type,
                     m.dri_card_path, m.file_extension, m.encoder_f, m.capture, m.capture_hdr,
                     m.color_depth, m.video_encoder, m.hdr>>
      /\ m'.card_path = card
  BY <1>2, DomainOf DEF StartupInv, StartType
<1> USE DEF FromDisplay, FromLoad, FromCard, FromModes, FromOutput, FromCodecs, FromCapture,
         FromStart, FromEncoder, FromOpen
<1>7. /\ OptionsInv' /\ DisplayInv' /\ EglInv' /\ ModesInv' /\ ContainerInv'
      /\ CodecsInv' /\ CaptureInv' /\ EncoderInv'
  BY <1>2, <1>6, OptionsKept, DisplayKept, EglKept, ModesKept, ContainerKept, CodecsKept,
     CaptureKept, EncoderKept DEF StartupInv, Same
<1>8. CardInv'
  BY <1>2, <1>3, <1>4, <1>6 DEF StartupInv, CardInv, card, ValidCard, Named, UseDrm
<1> QED
  BY <1>2, <1>5, <1>7, <1>8 DEF StartupInv

\* GuessContainer goes on with a container.
LEMMA GuessContainerKeeps ==
  ASSUME StartupInv, pc = "container", GuessContainer, ~ ExitProgram
  PROVE  StartupInv'
<1> DEFINE extension == IF cmd.c # "" THEN cmd.c ELSE cmd.suffix
<1>1. Go("codecs", [m EXCEPT !.file_extension = extension])
  BY DEF GuessContainer
<1> HIDE DEF extension
<1>2. /\ Reached = "container" /\ Reached' = "codecs" /\ UNCHANGED <<cmd, sys>> /\ ExitInv'
      /\ m' = [m EXCEPT !.file_extension = extension] /\ (m' \in MainVariables => StartType')
  BY <1>1, GoesOn DEF Steps
<1>3. extension # "?"
  BY DEF extension, GuessContainer, ExitProgram, Go
<1>4. extension \in Extensions
  BY <1>3, GivenTypes DEF extension, Extensions
<1>5. m' \in MainVariables
  BY <1>2, <1>3, <1>4 DEF StartupInv, StartType, MainVariables
<1>6. /\ UNCHANGED <<m.video_codec, m.audio_codec, m.track, m.wayland, m.context_type,
                     m.dri_card_path, m.card_path, m.encoder_f, m.capture, m.capture_hdr,
                     m.color_depth, m.video_encoder, m.hdr>>
      /\ m'.file_extension = extension
  BY <1>2, DomainOf DEF StartupInv, StartType
<1> USE DEF FromDisplay, FromLoad, FromCard, FromModes, FromOutput, FromCodecs, FromCapture,
         FromStart, FromEncoder, FromOpen
<1>7. /\ OptionsInv' /\ DisplayInv' /\ EglInv' /\ CardInv' /\ ModesInv'
      /\ CodecsInv' /\ CaptureInv' /\ EncoderInv'
  BY <1>2, <1>6, OptionsKept, DisplayKept, EglKept, CardKept, ModesKept, CodecsKept,
     CaptureKept, EncoderKept DEF StartupInv, Same
<1>8. ContainerInv'
  BY <1>2, <1>3, <1>4, <1>6 DEF StartupInv, ContainerInv, Extensions
<1> QED
  BY <1>2, <1>5, <1>7, <1>8 DEF StartupInv

\* SelectCodecs, in terms of what was asked for.
LEMMA SelectsAsked ==
  ASSUME StartupInv, SelectCodecs
  PROVE  /\ Reached = "codecs" /\ m.file_extension \in Extensions
         /\ IF (cmd.cpu /\ Wanted # "h264") \/ Picked[2] = Unset THEN ExitProgram
            ELSE Go("capture",
                    [m EXCEPT !.video_codec = Picked[1], !.encoder_f = Picked[2],
                              !.audio_codec = SelectAudioCodec(m.audio_codec, m.file_extension),
                              !.color_depth = BitDepth(Picked[1])])
<1>1. Reached = "codecs"
  BY DEF SelectCodecs, Reached
<1>2. m.video_codec = Asked /\ m.file_extension # ""
  BY <1>1 DEF StartupInv, OptionsInv, ContainerInv, FromDisplay, FromLoad, FromCard, FromModes,
              FromOutput, FromCodecs, FromCapture, FromStart, FromEncoder, FromOpen
<1>3. m.file_extension \in Extensions
  BY <1>2 DEF StartupInv, StartType, MainVariables
<1> QED
  BY <1>1, <1>2, <1>3, Zenon DEF SelectCodecs, Wanted, Picked

\* SelectCodecs leaves the codecs that were picked, and a sound codec the container takes.
LEMMA SelectCodecsKeeps ==
  ASSUME StartupInv, pc = "codecs", SelectCodecs, ~ ExitProgram
  PROVE  StartupInv'
<1> DEFINE codec == Picked[1]
           encoder == Picked[2]
           sound == SelectAudioCodec(m.audio_codec, m.file_extension)
           depth == BitDepth(Picked[1])
<1>1. Go("capture", [m EXCEPT !.video_codec = codec, !.encoder_f = encoder,
                              !.audio_codec = sound, !.color_depth = depth])
  BY SelectsAsked
<1> HIDE DEF codec, encoder, sound, depth
<1>2. /\ Reached = "codecs" /\ Reached' = "capture" /\ UNCHANGED <<cmd, sys>> /\ ExitInv'
      /\ m' = [m EXCEPT !.video_codec = codec, !.encoder_f = encoder, !.audio_codec = sound,
                        !.color_depth = depth]
      /\ (m' \in MainVariables => StartType')
  BY <1>1, GoesOn DEF Steps
<1>3. Picked[2] # Unset /\ (cmd.cpu => Wanted = "h264")
  BY SelectsAsked
<1>4. /\ codec \in VideoCodecs /\ encoder \in {"h264", "hevc", "av1", "vp8", "vp9"}
      /\ depth \in {8, 10}
  <2>1. Wanted \in VideoCodecs
    BY <1>2, WantedKnown DEF FromDisplay, FromLoad, FromCard, FromModes, FromOutput, FromCodecs
  <2>2. /\ Picked[1] \in VideoCodecs
        /\ Picked[2] \in {Unset, "h264", "hevc", "av1", "vp8", "vp9"}
    BY <2>1, PickedKnown DEF Picked
  <2> QED
    BY <1>3, <2>2 DEF codec, encoder, depth, BitDepth
<1>5. sound \in {"aac", "opus"} /\ sound \in AudioIn(m.file_extension)
  <2>1. m.audio_codec \in {"aac", "opus"}
    BY DEF StartupInv, StartType, MainVariables
  <2> QED
    BY <2>1, SelectsAsked, AudioFits DEF sound
<1>6. m' \in MainVariables
  BY <1>2, <1>3, <1>4, <1>5 DEF StartupInv, StartType, MainVariables
<1>7. /\ UNCHANGED <<m.track, m.wayland, m.context_type, m.dri_card_path, m.card_path,
                     m.file_extension, m.capture, m.capture_hdr, m.video_encoder, m.hdr>>
      /\ m'.video_codec = codec /\ m'.encoder_f = encoder
      /\ m'.audio_codec = sound /\ m'.color_depth = depth
  BY <1>2, DomainOf DEF StartupInv, StartType
<1> USE DEF FromDisplay, FromLoad, FromCard, FromModes, FromOutput, FromCodecs, FromCapture,
         FromStart, FromEncoder, FromOpen
<1>8. /\ DisplayInv' /\ EglInv' /\ CardInv' /\ ModesInv' /\ ContainerInv'
      /\ CaptureInv' /\ EncoderInv'
  BY <1>2, <1>7, DisplayKept, EglKept, CardKept, ModesKept, ContainerKept, CaptureKept,
     EncoderKept DEF StartupInv, Same
<1>9. OptionsInv'
  BY <1>2, <1>3, <1>4, <1>5, <1>7 DEF StartupInv, OptionsInv
<1>10. CodecsInv'
  BY <1>2, <1>3, <1>4, <1>5, <1>7, PickedKept DEF StartupInv, CodecsInv, codec, encoder, sound,
                                                  depth
<1> QED
  BY <1>2, <1>6, <1>8, <1>9, <1>10 DEF StartupInv

\* CreateCapture goes on with a capture that is not refused, in HDR by the picked codec.
LEMMA CreateCaptureKeeps ==
  ASSUME StartupInv, pc = "capture", CreateCapture, ~ ExitProgram
  PROVE  StartupInv'
<1> DEFINE capture == CaptureOf
           hdr == CaptureOf = "kms" /\ IsHdr(m.video_codec)
           track == IF IsLivestream /\ m.track = "" THEN "silent" ELSE m.track
<1>1. Go("start", [m EXCEPT !.capture = capture, !.capture_hdr = hdr, !.track = track])
  BY DEF CreateCapture
<1> HIDE DEF capture, hdr, track
<1>2. /\ Reached = "capture" /\ Reached' = "start" /\ UNCHANGED <<cmd, sys>> /\ ExitInv'
      /\ m' = [m EXCEPT !.capture = capture, !.capture_hdr = hdr, !.track = track]
      /\ (m' \in MainVariables => StartType')
  BY <1>1, GoesOn DEF Steps
<1>3. ~ CaptureRefused
  BY DEF CreateCapture, ExitProgram, Go
<1>4. /\ capture \in {"portal", "nvfbc", "kms", "xcomposite"} /\ hdr \in BOOLEAN
      /\ track \in {"", "device", "silent"}
  BY DEF capture, hdr, track, CaptureOf, StartupInv, StartType, MainVariables
<1>5. m' \in MainVariables
  <2> DEFINE m1 == [m EXCEPT !.capture = capture, !.track = track]
  <2>1. m1 \in MainVariables
    BY <1>4 DEF StartupInv, StartType, MainVariables
  <2>2. m' = [m1 EXCEPT !.capture_hdr = hdr]
    BY <1>2, DomainOf DEF StartupInv, StartType
  <2> HIDE DEF m1
  <2> QED
    BY <1>4, <2>1, <2>2 DEF MainVariables
<1>6. /\ UNCHANGED <<m.video_codec, m.audio_codec, m.wayland, m.context_type, m.dri_card_path,
                     m.card_path, m.file_extension, m.encoder_f, m.color_depth,
                     m.video_encoder, m.hdr>>
      /\ m'.capture = capture /\ (m'.capture_hdr <=> hdr) /\ m'.track = track
  BY <1>2, DomainOf DEF StartupInv, StartType
<1> USE DEF FromDisplay, FromLoad, FromCard, FromModes, FromOutput, FromCodecs, FromCapture,
         FromStart, FromEncoder, FromOpen
<1>7. /\ OptionsInv' /\ DisplayInv' /\ EglInv' /\ CardInv' /\ ModesInv'
      /\ ContainerInv' /\ CodecsInv' /\ EncoderInv'
  BY <1>2, <1>6, OptionsKept, DisplayKept, EglKept, CardKept, ModesKept, ContainerKept,
     CodecsKept, EncoderKept DEF StartupInv, Same
<1>8. CaptureInv'
  BY <1>2, <1>3, <1>4, <1>6, ChoiceKept DEF StartupInv, CaptureInv, capture, hdr, Unset
<1> QED
  BY <1>2, <1>5, <1>7, <1>8 DEF StartupInv

\* StartCapture takes HDR from the codec that was picked.
LEMMA StartCaptureKeeps ==
  ASSUME StartupInv, pc = "start", StartCapture, ~ ExitProgram
  PROVE  StartupInv'
<1> DEFINE hdr == IsHdr(m.video_codec)
<1>1. Go("encoder", [m EXCEPT !.hdr = hdr])
  BY DEF StartCapture
<1> HIDE DEF hdr
<1>2. /\ Reached = "start" /\ Reached' = "encoder" /\ UNCHANGED <<cmd, sys>> /\ ExitInv'
      /\ m' = [m EXCEPT !.hdr = hdr] /\ (m' \in MainVariables => StartType')
  BY <1>1, GoesOn DEF Steps
<1>3. hdr \in BOOLEAN
  BY DEF hdr, IsHdr
<1>4. m' \in MainVariables
  BY <1>2, <1>3 DEF StartupInv, StartType, MainVariables
<1>5. /\ UNCHANGED <<m.video_codec, m.audio_codec, m.track, m.wayland, m.context_type,
                     m.dri_card_path, m.card_path, m.file_extension, m.encoder_f, m.capture,
                     m.capture_hdr, m.color_depth, m.video_encoder>>
      /\ (m'.hdr <=> hdr)
  BY <1>2, DomainOf DEF StartupInv, StartType
<1> USE DEF FromDisplay, FromLoad, FromCard, FromModes, FromOutput, FromCodecs, FromCapture,
         FromStart, FromEncoder, FromOpen
<1>6. /\ OptionsInv' /\ DisplayInv' /\ EglInv' /\ CardInv' /\ ModesInv'
      /\ ContainerInv' /\ CodecsInv' /\ CaptureInv'
  BY <1>2, <1>5, OptionsKept, DisplayKept, EglKept, CardKept, ModesKept, ContainerKept,
     CodecsKept, CaptureKept DEF StartupInv, Same
<1>7. EncoderInv'
  BY <1>2, <1>3, <1>5 DEF StartupInv, EncoderInv, hdr
<1> QED
  BY <1>2, <1>4, <1>6, <1>7 DEF StartupInv

\* StartEncoder takes VAAPI only where the vendor is not NVIDIA.
LEMMA StartEncoderKeeps ==
  ASSUME StartupInv, pc = "encoder", StartEncoder, ~ ExitProgram
  PROVE  StartupInv'
<1> DEFINE encoder == IF cmd.cpu THEN "software"
                      ELSE IF sys.vendor = "nvidia" THEN "cuda" ELSE "vaapi"
<1>1. Go("open", [m EXCEPT !.video_encoder = encoder])
  BY DEF StartEncoder
<1> HIDE DEF encoder
<1>2. /\ Reached = "encoder" /\ Reached' = "open" /\ UNCHANGED <<cmd, sys>> /\ ExitInv'
      /\ m' = [m EXCEPT !.video_encoder = encoder] /\ (m' \in MainVariables => StartType')
  BY <1>1, GoesOn DEF Steps
<1>3. encoder \in {"software", "cuda", "vaapi"}
  BY DEF encoder
<1>4. m' \in MainVariables
  BY <1>2, <1>3 DEF StartupInv, StartType, MainVariables
<1>5. /\ UNCHANGED <<m.video_codec, m.audio_codec, m.track, m.wayland, m.context_type,
                     m.dri_card_path, m.card_path, m.file_extension, m.encoder_f, m.capture,
                     m.capture_hdr, m.color_depth, m.hdr>>
      /\ m'.video_encoder = encoder
  BY <1>2, DomainOf DEF StartupInv, StartType
<1> USE DEF FromDisplay, FromLoad, FromCard, FromModes, FromOutput, FromCodecs, FromCapture,
         FromStart, FromEncoder, FromOpen
<1>6. /\ OptionsInv' /\ DisplayInv' /\ EglInv' /\ CardInv' /\ ModesInv'
      /\ ContainerInv' /\ CodecsInv' /\ CaptureInv'
  BY <1>2, <1>5, OptionsKept, DisplayKept, EglKept, CardKept, ModesKept, ContainerKept,
     CodecsKept, CaptureKept DEF StartupInv, Same
<1>7. EncoderInv'
  BY <1>2, <1>3, <1>5 DEF StartupInv, EncoderInv, encoder
<1> QED
  BY <1>2, <1>4, <1>6, <1>7 DEF StartupInv

\* Every step of the start.
LEMMA StartupStep == StartupInv /\ [NextStartup]_startupVars => StartupInv'
<1> SUFFICES ASSUME StartupInv, [NextStartup]_startupVars PROVE StartupInv'
  OBVIOUS
<1>1. CASE ExitProgram /\ NextStartup
  <2>1. pc \in Steps
    BY <1>1 DEF NextStartup, ParseOptions, OpenDisplay, LoadEgl, FindCard, CheckModes,
                CheckOutput, GuessContainer, SelectCodecs, CreateCapture, StartCapture,
                StartEncoder, OpenCodec, OpenAudio, WriteHeader, Steps
  <2>2. ExitInv'
    <3>1. failed' = pc /\ pc' = "exited" /\ UNCHANGED <<cmd, sys, m>>
      BY <1>1 DEF ExitProgram
    <3>2. ASSUME NEW next, NEW mm PROVE next # "exited" => ~ Go(next, mm)
      BY <3>1 DEF Go
    <3>3. CASE pc = "display"
      <4>1. OpenDisplay
        BY <1>1, <3>3 DEF NextStartup, ParseOptions, OpenDisplay, LoadEgl, FindCard,
                          CheckModes, CheckOutput, GuessContainer, SelectCodecs, CreateCapture,
                          StartCapture, StartEncoder, OpenCodec, OpenAudio, WriteHeader
      <4>2. IsHdr(m.video_codec) /\ ~ IsWayland
        BY <3>2, <4>1 DEF OpenDisplay
      <4> QED
        BY <3>1, <3>3, <4>2 DEF ExitInv, IsWayland
    <3>4. CASE pc = "card"
      <4>1. FindCard
        BY <1>1, <3>4 DEF NextStartup, ParseOptions, OpenDisplay, LoadEgl, FindCard,
                          CheckModes, CheckOutput, GuessContainer, SelectCodecs, CreateCapture,
                          StartCapture, StartEncoder, OpenCodec, OpenAudio, WriteHeader
      <4>2. UseDrm(m.wayland) /\ ValidCard(m.dri_card_path, Named) = ""
        BY <3>2, <4>1 DEF FindCard, IsMonitorCapture
      <4> QED
        BY <3>1, <3>4, <4>2 DEF ExitInv, UseDrm, ValidCard, Named
    <3>5. CASE pc = "codecs"
      <4>1. SelectCodecs
        BY <1>1, <3>5 DEF NextStartup, ParseOptions, OpenDisplay, LoadEgl, FindCard,
                          CheckModes, CheckOutput, GuessContainer, SelectCodecs, CreateCapture,
                          StartCapture, StartEncoder, OpenCodec, OpenAudio, WriteHeader
      <4>2. (cmd.cpu /\ Wanted # "h264") \/ Picked[2] = Unset
        BY <3>2, <4>1, SelectsAsked
      <4> QED
        BY <3>1, <3>5, <4>2, PickedKept DEF ExitInv
    <3>6. CASE pc = "capture"
      <4>1. CreateCapture
        BY <1>1, <3>6 DEF NextStartup, ParseOptions, OpenDisplay, LoadEgl, FindCard,
                          CheckModes, CheckOutput, GuessContainer, SelectCodecs, CreateCapture,
                          StartCapture, StartEncoder, OpenCodec, OpenAudio, WriteHeader
      <4>2. CaptureRefused
        BY <3>2, <4>1 DEF CreateCapture
      <4> QED
        BY <3>1, <3>6, <4>2, ChoiceKept DEF ExitInv
    <3>7. CASE pc \notin {"display", "card", "codecs", "capture"}
      BY <3>1, <3>7 DEF ExitInv
    <3> QED
      BY <3>3, <3>4, <3>5, <3>6, <3>7
  <2> QED
    BY <1>1, <2>1, <2>2, ExitKeeps
<1>2. CASE NextStartup /\ ~ ExitProgram
  <2>1. CASE ParseOptions \/ OpenDisplay \/ LoadEgl \/ GuessContainer \/ SelectCodecs
             \/ CreateCapture \/ StartCapture \/ StartEncoder
    BY <1>2, <2>1, ParseOptionsKeeps, OpenDisplayKeeps, LoadEglKeeps, GuessContainerKeeps,
       SelectCodecsKeeps, CreateCaptureKeeps, StartCaptureKeeps, StartEncoderKeeps
       DEF ParseOptions, OpenDisplay, LoadEgl, GuessContainer, SelectCodecs, CreateCapture,
           StartCapture, StartEncoder
  <2>2. CASE FindCard
    <3>1. CASE UseDrm(m.wayland)
      BY <1>2, <2>2, <3>1, FindCardKeeps DEF FindCard
    <3>2. CASE ~ UseDrm(m.wayland)
      <4>1. pc = "card" /\ Go("modes", m)
        BY <2>2, <3>2 DEF FindCard
      <4>2. CardInv' /\ ModesInv'
        BY <3>2, <4>1 DEF Go, CardInv, ModesInv, UseDrm, Reached, FromOutput, FromCodecs,
                          FromCapture, FromStart, FromEncoder, FromOpen
      <4> QED
        BY <4>1, <4>2, MovesOn
    <3> QED
      BY <3>1, <3>2
  <2>3. CASE CheckModes
    <3>1. /\ pc = "modes" /\ Go("output", m)
          /\ ~ (cmd.fm = "content" /\ m.wayland /\ ~ IsPortalCapture)
          /\ ~ (cmd.s # "" /\ cmd.w # "focused")
      BY <1>2, <2>3 DEF CheckModes
    <3>2. Reached = "modes" /\ Reached' = "output" /\ UNCHANGED <<cmd, sys, m>>
      BY <3>1, GoesOn DEF Steps
    <3>3. ModesInv'
      BY <3>1, <3>2 DEF ModesInv, IsPortalCapture
    <3>4. CardInv'
      BY <3>2, CardKept DEF StartupInv, Same, FromModes, FromOutput
    <3> QED
      BY <3>1, <3>3, <3>4, MovesOn
  <2>4. CASE CheckOutput \/ OpenCodec \/ OpenAudio \/ WriteHeader
    <3>1. PICK next : /\ Go(next, m)
                      /\ <<pc, next>> \in {<<"output", "container">>, <<"open", "audio">>,
                                           <<"audio", "header">>, <<"header", "record">>}
      BY <1>2, <2>4 DEF CheckOutput, OpenCodec, OpenAudio, WriteHeader
    <3>2. pc \in Steps /\ next \in Steps
      BY <3>1 DEF Steps
    <3>3. Reached = pc /\ Reached' = next /\ UNCHANGED <<cmd, sys, m>>
      BY <3>1, <3>2, GoesOn
    <3>4. Same(FromModes) /\ Same(FromOutput)
      BY <3>1, <3>3 DEF Same, FromModes, FromOutput, FromCodecs, FromCapture, FromStart,
                        FromEncoder, FromOpen
    <3>5. CardInv' /\ ModesInv'
      BY <3>3, <3>4, CardKept, ModesKept DEF StartupInv
    <3> QED
      BY <3>1, <3>5, MovesOn
  <2> QED
    BY <1>2, <2>1, <2>2, <2>3, <2>4 DEF NextStartup
<1>3. CASE UNCHANGED startupVars
  <2>1. UNCHANGED <<cmd, sys, pc, failed, m>>
    BY <1>3 DEF startupVars
  <2>2. StartType' /\ \A steps : Same(steps)
    BY <2>1 DEF StartupInv, StartType, Same, Reached
  <2>3. ExitInv'
    BY <2>1, PickedKept, ChoiceKept DEF StartupInv, ExitInv, IsWayland, UseDrm, ValidCard, Named
  <2> QED
    BY <2>1, <2>2, <2>3, OptionsKept, DisplayKept, EglKept, CardKept, ModesKept, ContainerKept,
       CodecsKept, CaptureKept, EncoderKept DEF StartupInv
<1> QED
  BY <1>1, <1>2, <1>3

\* Wherever the start is, or ended, it has chosen what fits.
THEOREM StartupInvariance == SpecStartup => []StartupInv
BY StartsWell, StartupStep, PTL DEF SpecStartup

\* An encoder that was found is one for the codec that was picked; the codec is the one that
\* was wanted, or h264 in its place.
LEMMA PickedFits ==
  ASSUME NEW c \in VideoCodecs, NEW flv \in BOOLEAN, NEW p, p = PickVideoCodec(c, flv),
         p[2] # Unset, cmd.cpu => c = "h264"
  PROVE  /\ p[2] = Family(p[1]) /\ p[1] \in {c, "h264"}
         /\ cmd.k = "auto" => p[1] = c
         /\ BitDepth(p[1]) = 10 => p[1] \in SupportedCodecs(FALSE)
<1>1. \A f \in VideoCodecs : FfmpegCodec(f) \in {Family(f), Unset}
  BY DEF FfmpegCodec
<1>2. Family("h264") = "h264" /\ BitDepth("h264") = 8 /\ "h264" \in VideoCodecs
  BY DEF Family, BitDepth, Hevc, Av1, VideoCodecs
<1>3. CASE cmd.cpu
  <2>1. c = "h264" /\ SupportedCodecs(cmd.cpu) = {"h264"}
    BY <1>3 DEF SupportedCodecs
  <2>2. p[1] = "h264" /\ p[2] = "h264"
    BY <1>3, <2>1, Zenon DEF PickVideoCodec
  <2>3. BitDepth(p[1]) # 10
    BY <1>2, <2>2
  <2> QED
    BY <1>2, <2>1, <2>2, <2>3, Zenon
<1>4. CASE ~ cmd.cpu
  <2> DEFINE supported == SupportedCodecs(cmd.cpu)
  <2>1. BitDepth(c) = 10 /\ c \in supported => c \in SupportedCodecs(FALSE)
    BY <1>4 DEF SupportedCodecs
  <2> HIDE DEF supported
  <2>2. /\ \/ p[1] = c /\ p[2] = FfmpegCodec(c)
           \/ p[1] = "h264" /\ p[2] = FfmpegCodec("h264")
        /\ p[1] = c /\ c # "h264" => c \in supported
        /\ cmd.k = "auto" => p[1] = c
    BY <1>4 DEF PickVideoCodec, supported
  <2>3. CASE p[1] = "h264"
    <3>1. BitDepth(p[1]) # 10
      BY <1>2, <2>3
    <3> QED
      BY <1>1, <1>2, <2>2, <2>3, <3>1, Zenon
  <2>4. CASE p[1] # "h264"
      BY <1>1, <1>2, <2>1, <2>2, <2>4, Zenon
  <2> QED
    BY <2>3, <2>4
<1> QED
  BY <1>3, <1>4

\* The codec that is wanted fits the container, but where the muxer is left to refuse it.
LEMMA WantedFits ==
  ASSUME StartupInv, Reached \in FromCodecs
  PROVE  /\ \/ Wanted \in VideoIn(m.file_extension)
            \/ cmd.k # "auto" /\ (m.file_extension \in {"webm", "ts"} \/ Wanted \in {"vp8", "vp9"})
         /\ m.file_extension \in Extensions
         /\ m.file_extension # "webm" => "h264" \in VideoIn(m.file_extension)
         /\ m.file_extension = "webm" /\ cmd.k = "auto" => Wanted = "vp8"
<1>1. m.file_extension \in Extensions
  BY DEF StartupInv, ContainerInv, StartType, MainVariables
<1>2. Asked \in VideoCodecs /\ (cmd.k = "auto" => Asked = "h264")
  BY WantedKnown DEF Asked, FromDisplay, FromLoad, FromCard, FromModes, FromOutput
<1> DEFINE sdr == IF IsPortalCapture THEN ToSdr(Asked) ELSE Asked
<1>3. sdr \in VideoCodecs
  BY <1>2 DEF ToSdr, VideoCodecs, Hevc, Av1
<1> HIDE DEF sdr
<1>4. Wanted = WantedCodec(sdr, m.file_extension)
  BY DEF Wanted, sdr
<1> DEFINE asked == IF cmd.k # "auto" THEN sdr
                    ELSE IF m.file_extension = "webm" THEN "vp8" ELSE "h264"
<1>5. Wanted = IF m.file_extension = "flv" THEN "h264"
               ELSE IF m.file_extension = "m3u8" /\ IsAv1(asked) THEN "hevc" ELSE asked
  BY <1>4, Zenon DEF WantedCodec
<1>6. asked \in VideoCodecs
  BY <1>3 DEF VideoCodecs
<1>7. CASE m.file_extension = "webm"
  <2>1. VideoIn(m.file_extension) = {"vp8", "vp9"} \cup Av1
    BY <1>7, Zenon DEF VideoIn
  <2>2. "vp8" \in VideoIn(m.file_extension)
    BY <2>1
  <2>3. cmd.k = "auto" => Wanted = "vp8"
    BY <1>5, <1>7
  <2> QED
    BY <1>1, <1>7, <2>2, <2>3, Zenon
<1>8. CASE m.file_extension = "flv"
  <2>1. VideoIn(m.file_extension) = {"h264"}
    BY <1>8, Zenon DEF VideoIn
  <2>2. Wanted = "h264" /\ "h264" \in {"h264"}
    BY <1>5, <1>8
  <2> QED
    BY <1>1, <1>8, <2>1, <2>2, Zenon
<1>9. CASE m.file_extension = "m3u8"
  <2>1. VideoIn(m.file_extension) = {"h264"} \cup Hevc
    BY <1>9, Zenon DEF VideoIn
  <2>2. "h264" \in VideoIn(m.file_extension) /\ m.file_extension # "webm"
    BY <1>9, <2>1
  <2>3. Wanted \in {"h264", "vp8", "vp9"} \cup Hevc
    <3>1. \A c \in VideoCodecs : c \in {"h264", "vp8", "vp9"} \cup Hevc \/ IsAv1(c)
      BY DEF IsAv1, VideoCodecs
    <3>2. CASE IsAv1(asked)
      BY <1>5, <1>9, <3>2 DEF Hevc
    <3>3. CASE ~ IsAv1(asked)
      BY <1>5, <1>6, <1>9, <3>1, <3>3
    <3> QED
      BY <3>2, <3>3
  <2>4. Wanted \in VideoIn(m.file_extension) \/ Wanted \in {"vp8", "vp9"}
    BY <2>1, <2>3
  <2>5. cmd.k = "auto" => Wanted = "h264"
    BY <1>5, <1>9 DEF IsAv1, Av1
  <2> QED
    BY <1>1, <2>2, <2>4, <2>5, Zenon
<1>10. CASE m.file_extension \in {"mp4", "mkv", "ts"}
  <2>1. /\ m.file_extension = "mp4" => VideoIn(m.file_extension) = VideoCodecs \ {"vp8"}
        /\ m.file_extension = "mkv" => VideoIn(m.file_extension) = VideoCodecs
        /\ m.file_extension = "ts" => VideoIn(m.file_extension) = {"h264"} \cup Hevc
    BY Zenon DEF VideoIn
  <2>2. m.file_extension # "flv" /\ m.file_extension # "m3u8" /\ m.file_extension # "webm"
    BY <1>10
  <2> HIDE DEF asked
  <2>3. Wanted = asked /\ (cmd.k = "auto" => asked = "h264")
    BY <1>5, <2>2 DEF asked
  <2>4. "h264" \in VideoCodecs
    BY DEF VideoCodecs
  <2>5. "h264" \in VideoIn(m.file_extension)
    BY <1>10, <2>1, <2>4
  <2>6. \/ Wanted \in VideoIn(m.file_extension)
        \/ m.file_extension = "ts" \/ Wanted \in {"vp8", "vp9"}
    BY <1>6, <1>10, <2>1, <2>3
  <2>7. cmd.k = "auto" => Wanted = "h264"
    BY <2>3
  <2> QED
    BY <1>1, <2>2, <2>5, <2>6, <2>7, Zenon
<1> QED
  BY <1>1, <1>7, <1>8, <1>9, <1>10 DEF Extensions

\* Where h264 is looked for in place of a codec that is not there, it is not found either.
LEMMA NoneLeft ==
  ASSUME StartupInv, failed = "codecs", ~ cmd.cpu, cmd.k \in Hevc \cup Av1
  PROVE  "h264" \notin SupportedCodecs(FALSE) \/ "h264" \notin sys.ffmpeg
<1>1. Picked[2] = Unset /\ cmd.k # "auto"
  BY DEF StartupInv, ExitInv, Hevc, Av1
<1>2. Asked \in Hevc \cup Av1
  BY <1>1 DEF Asked
<1> DEFINE sdr == IF IsPortalCapture THEN ToSdr(Asked) ELSE Asked
<1>3. sdr \in Hevc \cup Av1
  BY <1>2 DEF ToSdr, Hevc, Av1
<1> HIDE DEF sdr
<1>4. Wanted = IF m.file_extension = "flv" THEN "h264"
               ELSE IF m.file_extension = "m3u8" /\ IsAv1(sdr) THEN "hevc" ELSE sdr
  BY <1>1, Zenon DEF Wanted, WantedCodec, sdr
<1> DEFINE supported == SupportedCodecs(cmd.cpu)
           found == IF "h264" \in supported THEN FfmpegCodec("h264") ELSE Unset
<1> HIDE DEF supported
<1>5. found = Unset
  <2>1. CASE m.file_extension = "flv"
    <3>1. Wanted = "h264"
      BY <1>4, <2>1
    <3> QED
      BY <1>1, <2>1, <3>1 DEF Picked, PickVideoCodec, supported
  <2>2. CASE m.file_extension # "flv"
    <3>1. Wanted \in Hevc \cup Av1
      BY <1>3, <1>4, <2>2 DEF Hevc
    <3>2. Wanted # "vp8" /\ Wanted # "vp9" /\ Wanted # "h264"
      BY <3>1 DEF Hevc, Av1
    <3> QED
      BY <1>1, <2>2, <3>2 DEF Picked, PickVideoCodec, supported
  <2> QED
    BY <2>1, <2>2
<1>6. Family("h264") = "h264" /\ Unset # "h264"
  BY DEF Family, Hevc, Av1, Unset
<1>7. supported = SupportedCodecs(FALSE)
  BY DEF supported, SupportedCodecs
<1> QED
  BY <1>5, <1>6, <1>7 DEF FfmpegCodec

\* The replacements, of the container, of the portal and of what the card lacks, leave codecs
\* that fit the container and each other.
THEOREM CodecsAlwaysFit == SpecStartup => []CodecsFit
<1>1. StartupInv => CodecsFit
  <2> SUFFICES ASSUME StartupInv PROVE CodecsFit
    OBVIOUS
  <2>1. ASSUME m.encoder_f # Unset
        PROVE  /\ m.audio_codec \in AudioIn(m.file_extension)
               /\ m.video_codec \in VideoIn(m.file_extension) \/ LeftToMuxer
               /\ m.encoder_f = Family(m.video_codec)
               /\ m.hdr \/ m.color_depth = 10 => m.video_codec \in SupportedCodecs(FALSE)
    <3>1. Reached \in FromCapture
      BY <2>1 DEF StartupInv, CodecsInv
    <3>2. /\ cmd.cpu => Wanted = "h264"
          /\ m.video_codec = Picked[1] /\ m.encoder_f = Picked[2]
          /\ m.audio_codec \in AudioIn(m.file_extension)
          /\ m.color_depth = BitDepth(m.video_codec)
      BY <3>1 DEF StartupInv, CodecsInv
    <3>3. Reached \in FromCodecs /\ Reached \in FromDisplay
      BY <3>1 DEF FromDisplay, FromLoad, FromCard, FromModes, FromOutput, FromCodecs
    <3>4. Wanted \in VideoCodecs
      BY <3>3, WantedKnown
    <3>5. /\ m.encoder_f = Family(m.video_codec) /\ m.video_codec \in {Wanted, "h264"}
          /\ cmd.k = "auto" => m.video_codec = Wanted
          /\ BitDepth(m.video_codec) = 10 => m.video_codec \in SupportedCodecs(FALSE)
      <4>1. Picked = PickVideoCodec(Wanted, m.file_extension = "flv")
            /\ (m.file_extension = "flv") \in BOOLEAN
        BY DEF Picked
      <4>2. Picked[2] # Unset
        BY <2>1, <3>2
      <4>3. /\ Picked[2] = Family(Picked[1]) /\ Picked[1] \in {Wanted, "h264"}
            /\ cmd.k = "auto" => Picked[1] = Wanted
            /\ BitDepth(Picked[1]) = 10 => Picked[1] \in SupportedCodecs(FALSE)
        BY <3>2, <3>4, <4>1, <4>2, PickedFits, Zenon
      <4> QED
        BY <3>2, <4>3
    <3>6. m.video_codec \in VideoIn(m.file_extension) \/ LeftToMuxer
      <4>1. CASE m.video_codec = Wanted
        BY <3>3, <4>1, WantedFits, Zenon DEF LeftToMuxer
      <4>2. CASE m.video_codec # Wanted
        <5>1. m.video_codec = "h264" /\ cmd.k # "auto"
          BY <3>5, <4>2
        <5> QED
          BY <3>3, <5>1, WantedFits, Zenon DEF LeftToMuxer
      <4> QED
        BY <4>1, <4>2
    <3>7. m.hdr => BitDepth(m.video_codec) = 10
      BY DEF StartupInv, EncoderInv, IsHdr, BitDepth
    <3> QED
      BY <3>2, <3>5, <3>6, <3>7
  <2> QED
    BY <2>1, NoneLeft DEF CodecsFit
<1> QED
  BY <1>1, StartupInvariance, PTL

\* A codec with HDR was asked for, and not of the portal.
LEMMA HdrWasAsked ==
  ASSUME StartupInv, Reached \in FromCapture, IsHdr(m.video_codec)
  PROVE  IsHdr(Asked) /\ ~ IsPortalCapture
<1> DEFINE sdr == IF IsPortalCapture THEN ToSdr(Asked) ELSE Asked
<1>1. m.video_codec \in {Wanted, "h264"}
  <2>1. m.video_codec = Picked[1]
    BY DEF StartupInv, CodecsInv
  <2>2. \A c, flv : PickVideoCodec(c, flv)[1] \in {c, "h264"}
    BY DEF PickVideoCodec
  <2> QED
    BY <2>1, <2>2 DEF Picked
<1>2. IsHdr(Wanted)
  BY <1>1 DEF IsHdr
<1> HIDE DEF sdr
<1>3. Wanted \in {"h264", "hevc", "vp8", sdr}
  <2>1. \A c, extension : WantedCodec(c, extension) \in {"h264", "hevc", "vp8", c}
    BY DEF WantedCodec
  <2> QED
    BY <2>1 DEF Wanted, sdr
<1>4. IsHdr(sdr)
  BY <1>2, <1>3 DEF IsHdr
<1> QED
  BY <1>4 DEF sdr, IsHdr, ToSdr

\* The context, the card, the frame rate mode and HDR, which are decided on one after the
\* other and from different questions, fit the capture and the encoder that are made at last.
THEOREM CaptureAlwaysFits == SpecStartup => []CaptureFits
<1>1. StartupInv => CaptureFits
  <2> SUFFICES ASSUME StartupInv, m.capture # Unset PROVE CaptureFits
    BY DEF CaptureFits
  <2>1. Reached \in FromStart
    BY DEF StartupInv, CaptureInv
  <2>2. /\ ~ CaptureRefused /\ m.capture = CaptureOf
        /\ m.capture_hdr <=> CaptureOf = "kms" /\ IsHdr(m.video_codec)
    BY <2>1 DEF StartupInv, CaptureInv
  <2>3. /\ Reached \in FromCapture /\ Reached \in FromOutput /\ Reached \in FromModes
        /\ Reached \in FromCard /\ Reached \in FromLoad
    BY <2>1 DEF FromLoad, FromCard, FromModes, FromOutput, FromCodecs, FromCapture
  <2>4. /\ m.wayland <=> IsWayland
        /\ m.context_type = "glx" <=> NeedsGlx(Named)
        /\ UseDrm(m.wayland) => m.card_path = ValidCard(m.dri_card_path, Named) /\ m.card_path # ""
        /\ ~ (cmd.fm = "content" /\ m.wayland /\ ~ IsPortalCapture)
    BY <2>3 DEF StartupInv, DisplayInv, EglInv, CardInv, ModesInv
  <2>5. Named => ~ IsPortalCapture
    BY DEF Named, IsPortalCapture
  <2>6. CaptureOf = IF IsPortalCapture THEN "portal"
                    ELSE IF Named THEN IF sys.vendor = "nvidia" /\ ~ m.wayland THEN "nvfbc" ELSE "kms"
                    ELSE "xcomposite"
    BY <2>5, Zenon DEF CaptureOf
  <2>7. m.context_type = "glx" <=> m.capture = "nvfbc"
    BY <2>2, <2>4, <2>5, <2>6 DEF NeedsGlx
  <2>8. m.capture = "kms" => m.card_path \in sys.screens
    <3>1. m.capture = "kms" => Named /\ UseDrm(m.wayland)
      BY <2>2, <2>6 DEF UseDrm
    <3> QED
      BY <2>4, <3>1 DEF ValidCard
  <2>9. m.video_encoder = "vaapi" => m.card_path # ""
    BY <2>4 DEF StartupInv, EncoderInv, UseDrm
  <2>10. cmd.fm = "content" => m.capture = "portal" \/ ~ m.wayland
    BY <2>2, <2>4, <2>6
  <2>11. IsHdr(m.video_codec) => m.wayland /\ ~ IsPortalCapture /\ m.color_depth = 10
    <3>1. IsHdr(m.video_codec) => IsHdr(Asked) /\ ~ IsPortalCapture
      BY <2>3, HdrWasAsked
    <3>2. IsHdr(Asked) => m.wayland
      BY <2>3, <2>4 DEF StartupInv, DisplayInv
    <3>3. m.color_depth = BitDepth(m.video_codec)
      BY <2>3 DEF StartupInv, CodecsInv
    <3> QED
      BY <3>1, <3>2, <3>3 DEF IsHdr, BitDepth
  <2>12. m.hdr => m.capture_hdr
    <3>1. m.hdr => IsHdr(m.video_codec)
      BY DEF StartupInv, EncoderInv
    <3>2. m.wayland /\ ~ IsPortalCapture => Named
      BY <2>2, GivenTypes DEF CaptureRefused, Named, IsPortalCapture
    <3> QED
      BY <2>2, <2>6, <2>11, <3>1, <3>2
  <2> QED
    BY <2>2, <2>7, <2>8, <2>9, <2>10, <2>11, <2>12 DEF CaptureFits
<1> QED
  BY <1>1, StartupInvariance, PTL

\* What --info checks before it lists a capture.
LEMMA Listed ==
  ASSUME cmd.w \in ListedCaptures
  PROVE  /\ cmd.w \in {"portal", "id", "focused", "screen", "monitor"}
         /\ UseDrm(IsWayland) => InfoCard # ""
         /\ cmd.w = "portal" => IsWayland
         /\ cmd.w \in {"id", "focused"} => ~ IsWayland
         /\ cmd.w = "screen" => ~ UseDrm(IsWayland)
         /\ cmd.w = "monitor" => IF IsWayland THEN InfoCard \in sys.screens ELSE sys.screens # {}
BY DEF ListedCaptures, InfoLists

\* A codec that --info lists is one the card encodes.
LEMMA ListedCodec ==
  ASSUME cmd.k \in ListedCodecs, ~ cmd.cpu
  PROVE  /\ cmd.k \in SupportedCodecs(cmd.cpu) /\ FfmpegCodec(cmd.k) # Unset
         /\ IsHdr(cmd.k) => IsWayland
BY DEF ListedCodecs, SupportedCodecs

\* No card encodes "auto".
LEMMA NoProfileOfAuto ==
  ASSUME sys \in Systems
  PROVE  "auto" \notin SupportedCodecs(cmd.cpu)
<1>1. sys.profiles \subseteq {"h264", "hevc", "hevc10", "av1", "vp8", "vp9"}
  BY StartupAssumption
<1>2. \A p \in {"h264", "hevc", "hevc10", "av1", "vp8", "vp9"} : "auto" \notin ProfileCodecs(p)
  <2> TAKE p \in {"h264", "hevc", "hevc10", "av1", "vp8", "vp9"}
  <2>1. CASE p = "hevc10"
    BY <2>1 DEF ProfileCodecs
  <2>2. CASE p = "av1"
    BY <2>2 DEF ProfileCodecs, Av1
  <2>3. CASE p # "hevc10" /\ p # "av1"
    <3>1. ProfileCodecs(p) = {p}
      BY <2>3, Zenon DEF ProfileCodecs
    <3> QED
      BY <3>1
  <2> QED
    BY <2>1, <2>2, <2>3
<1> QED
  BY <1>1, <1>2 DEF SupportedCodecs

\* What is asked for by name, and not replaced, is picked when the card encodes it.
LEMMA PickedAsAsked ==
  ASSUME cmd.k \in SupportedCodecs(cmd.cpu), FfmpegCodec(cmd.k) # Unset, ~ cmd.cpu,
         cmd.k # "auto", ~ Replaced
  PROVE  Picked = <<cmd.k, FfmpegCodec(cmd.k)>>
<1> DEFINE sdr == IF IsPortalCapture THEN ToSdr(Asked) ELSE Asked
<1>1. sdr = cmd.k
  BY DEF Asked, Replaced, ToSdr, IsHdr
<1> HIDE DEF sdr
<1>2. Wanted = IF m.file_extension = "flv" THEN "h264"
               ELSE IF m.file_extension = "m3u8" /\ IsAv1(sdr) THEN "hevc" ELSE sdr
  BY Zenon DEF Wanted, WantedCodec, sdr
<1>3. Wanted = cmd.k
  BY <1>1, <1>2 DEF Replaced
<1> DEFINE supported == SupportedCodecs(cmd.cpu)
           encoder == FfmpegCodec(cmd.k)
<1>4. cmd.k \in supported /\ encoder # Unset
  OBVIOUS
<1> HIDE DEF supported, encoder
<1>5. PickVideoCodec(cmd.k, m.file_extension = "flv") = <<cmd.k, encoder>>
  BY <1>4 DEF PickVideoCodec, supported, encoder
<1> QED
  BY <1>3, <1>5 DEF Picked, encoder

\* What --info lists works when it is asked for, although it asks along a path of its own.
THEOREM ListedAlwaysWorks == SpecStartup => []ListedWorks
<1>1. StartupInv => ListedWorks
  <2> SUFFICES ASSUME StartupInv PROVE ListedWorks
    OBVIOUS
  <2>1. ASSUME failed = "card", cmd.w \in ListedCaptures PROVE OtherCard
    <3>1. UseDrm(m.wayland) /\ ValidCard(m.dri_card_path, Named) = "" /\ Reached = "card"
      BY <2>1 DEF StartupInv, ExitInv, StartType, Reached, Unset
    <3>2. /\ m.wayland <=> IsWayland
          /\ m.dri_card_path = IF NeedsGlx(Named) THEN "" ELSE sys.renders
      BY <3>1 DEF StartupInv, DisplayInv, EglInv, FromLoad, FromCard
    <3>3. m.dri_card_path = sys.renders /\ UseDrm(IsWayland)
      BY <3>1, <3>2 DEF NeedsGlx, UseDrm
    <3>4. InfoCard # "" /\ (Named => cmd.w = "monitor")
      BY <2>1, <3>3, Listed DEF Named
    <3>5. Named
      <4>1. ASSUME ~ Named PROVE FALSE
        <5>1. ValidCard(sys.renders, Named) = ValidCard(sys.renders, FALSE)
          BY <4>1 DEF ValidCard
        <5> QED
          BY <3>1, <3>3, <3>4, <5>1 DEF InfoCard
      <4> QED
        BY <4>1
    <3>6. IF IsWayland THEN InfoCard \in sys.screens ELSE sys.screens # {}
      BY <2>1, <3>3, <3>4, <3>5, Listed
    <3>7. sys.renders # "" /\ sys.renders \notin sys.screens
      <4>1. "" \notin sys.screens /\ sys.screens \subseteq {"card0", "card1"}
        BY GivenTypes DEF Cards
      <4>2. CASE sys.renders = ""
        BY <3>1, <3>3, <3>4, <4>1, <4>2 DEF InfoCard, ValidCard
      <4>3. CASE sys.renders # ""
        BY <3>1, <3>3, <3>5, <4>3 DEF ValidCard
      <4> QED
        BY <4>2, <4>3
    <3>8. ~ IsWayland
      BY <3>6, <3>7 DEF InfoCard, ValidCard
    <3> QED
      BY <3>3, <3>7, <3>8 DEF OtherCard, UseDrm
  <2>2. ASSUME failed = "capture", cmd.w \in ListedCaptures
        PROVE  (cmd.w = "focused" /\ cmd.s # "WxH") \/ OtherCard
    <3>1. CaptureRefused /\ Reached = "capture"
      BY <2>2 DEF StartupInv, ExitInv, StartType, Reached, Unset
    <3>2. /\ m.wayland <=> IsWayland
          /\ m.context_type = "glx" <=> NeedsGlx(Named)
          /\ m.dri_card_path = IF NeedsGlx(Named) THEN "" ELSE sys.renders
          /\ UseDrm(m.wayland) => m.card_path = ValidCard(m.dri_card_path, Named) /\ m.card_path # ""
      BY <3>1 DEF StartupInv, DisplayInv, EglInv, CardInv, FromLoad, FromCard, FromModes,
                  FromOutput, FromCodecs, FromCapture
    <3>3. CASE cmd.w \in {"id", "focused"}
      BY <2>2, <3>1, <3>2, <3>3, Listed DEF CaptureRefused, IsPortalCapture, Named
    <3>4. CASE cmd.w = "portal"
      BY <2>2, <3>1, <3>2, <3>4, Listed DEF CaptureRefused, IsPortalCapture, Named
    <3>5. CASE cmd.w = "screen"
      <4>1. ~ UseDrm(m.wayland)
        BY <2>2, <3>2, <3>5, Listed DEF UseDrm
      <4> QED
        BY <3>1, <3>5, <4>1 DEF CaptureRefused, IsPortalCapture, Named, NameKnown
    <3>6. CASE cmd.w = "monitor"
      <4>1. Monitors = {}
        BY <3>1, <3>6 DEF CaptureRefused, IsPortalCapture, Named, NameKnown
      <4>2. IsWayland /\ UseDrm(m.wayland)
        BY <2>2, <3>2, <3>6, <4>1, Listed DEF Monitors, UseDrm
      <4>3. m.card_path \in sys.screens
        BY <3>2, <3>6, <4>2 DEF ValidCard, Named
      <4> QED
        BY <4>1, <4>2, <4>3 DEF Monitors
    <3> QED
      BY <2>2, <3>3, <3>4, <3>5, <3>6, Listed
  <2>3. ASSUME ~ cmd.cpu, cmd.k \in ListedCodecs, ~ Replaced
        PROVE  /\ failed \notin {"display", "codecs"}
               /\ m.encoder_f # Unset => m.video_codec = cmd.k
    <3>1. /\ cmd.k \in SupportedCodecs(cmd.cpu) /\ FfmpegCodec(cmd.k) # Unset
          /\ IsHdr(cmd.k) => IsWayland
      BY <2>3, ListedCodec
    <3>2. failed # "display"
      <4>1. ASSUME failed = "display" PROVE IsHdr(Asked) /\ ~ IsWayland
        BY <4>1 DEF StartupInv, ExitInv, StartType, OptionsInv, Reached, Unset, FromDisplay,
                    FromLoad, FromCard, FromModes, FromOutput, FromCodecs, FromCapture,
                    FromStart, FromEncoder, FromOpen
      <4> QED
        BY <3>1, <4>1 DEF Asked, IsHdr
    <3>3. Picked = <<cmd.k, FfmpegCodec(cmd.k)>>
      <4>1. cmd.k # "auto"
        BY <3>1, GivenTypes, NoProfileOfAuto
      <4> QED
        BY <2>3, <3>1, <4>1, PickedAsAsked
    <3>4. failed # "codecs"
      <4>1. ASSUME failed = "codecs" PROVE Reached \in FromCodecs /\ Picked[2] = Unset
        BY <2>3, <4>1 DEF StartupInv, ExitInv, StartType, Reached, Unset, FromCodecs
      <4> QED
        BY <3>1, <3>3, <4>1
    <3>5. ASSUME m.encoder_f # Unset PROVE m.video_codec = cmd.k
      BY <3>3, <3>5 DEF StartupInv, CodecsInv, FromCodecs
    <3> QED
      BY <3>2, <3>4, <3>5
  <2> QED
    BY <2>1, <2>2, <2>3 DEF ListedWorks
<1> QED
  BY <1>1, StartupInvariance, PTL
================================================================================
