--------------------------- MODULE GpuScreenRecorder ---------------------------
(***************************************************************************)
(* gpu-screen-recorder's recording loop (main.cpp): the main thread        *)
(* captures and encodes video, one thread per audio device encodes audio,  *)
(* and both put packets out under write_output_mutex: to the tablet and    *)
(* the file, or in replay mode into frame_data_queue, from which a save    *)
(* writes a file in a thread of its own.  Signals stop the recording,      *)
(* pause it and ask for a save.                                            *)
(*                                                                         *)
(* One tick is the period of a video frame and of an audio frame.  A       *)
(* critical section of write_output_mutex is one step.  Every track has    *)
(* one device (no amix filter), an encoder returns one packet per frame,   *)
(* and pts and the contents of the audio are left out.                     *)
(***************************************************************************)
EXTENDS Integers, Sequences, FiniteSets, FiniteSetsExt

CONSTANTS Tracks,       \* audio tracks
          Options,      \* ways to start the recorder, with bounds on the signals it gets
          replay_buffer_size_secs,  \* in ticks
          KeyInterval,  \* gop_size: every KeyInterval-th video frame is a key frame
          Tolerated,    \* audio frames that may be missing before silence is put in
          MaxClock      \* bound: ticks of the recording

ASSUME RecorderAssumption ==
  /\ IsFiniteSet(Tracks) /\ "video" \notin Tracks
  /\ Options \subseteq [mode : {"record", "replay"},
                       framerate_mode : {"constant", "variable", "content"},
                       silent : SUBSET Tracks, saves : Nat, toggles : Nat]
  /\ replay_buffer_size_secs \in Nat \ {0} /\ KeyInterval \in Nat \ {0}
  /\ Tolerated \in Nat \ {0} /\ MaxClock \in Nat \ {0}

VARIABLES options,
          clock, running, save_replay, toggle_pause, saves, toggles,
          paused, paused_time_offset, paused_time_start,
          recorded,                                \* history: ticks outside of the pauses
          tablet,                                  \* the stream's socket
          frame_data_queue, frames_erased,
          pushed,                                  \* history: packets put into the queue
          pcM, frame_timer_start, video_pts_counter, num_frames, encoded,
          erased_arg,                              \* save_replay_async's frames_erased
          erased_now,                              \* history: its value under the mutex
          saver, save_replay_packets, start_index, file,
          pcA, audio_frame_time, got_audio_data, chunks, num_missing_frames,
          num_received_frames,
          torn      \* history: a pause began or ended while the track took its time

time     == <<clock, recorded>>
handlers == <<running, save_replay, toggle_pause, saves, toggles>>
pause    == <<paused, paused_time_offset, paused_time_start>>
output   == <<frame_data_queue, frames_erased, pushed>>
video    == <<frame_timer_start, video_pts_counter, num_frames, encoded>>
thread   == <<saver, save_replay_packets, start_index, file, erased_now>>
save     == <<thread, erased_arg>>
tracks   == <<pcA, audio_frame_time, got_audio_data, chunks, num_missing_frames,
              num_received_frames>>
audio    == <<tracks, torn>>
vars == <<options, time, handlers, pause, tablet, output, pcM, video, save, audio>>

Alive == pcM # "exited"
\* Tracks whose device could not be opened: silence is recorded for them.
Silent == options.silent

Init ==
  /\ options \in Options
  /\ clock = 1 /\ recorded = 1 /\ running = TRUE /\ save_replay = FALSE /\ toggle_pause = FALSE
  /\ saves = 0 /\ toggles = 0
  /\ paused = FALSE /\ paused_time_offset = 0 /\ paused_time_start = 0
  /\ tablet = "away"
  /\ frame_data_queue = <<>> /\ frames_erased = FALSE /\ pushed = 0
  /\ pcM = "frame" /\ frame_timer_start = 0 /\ video_pts_counter = 0
  /\ num_frames = 0 /\ encoded = 0
  /\ saver = "none" /\ save_replay_packets = <<>> /\ start_index = 0 /\ file = <<>>
  /\ erased_arg = FALSE /\ erased_now = FALSE
  /\ pcA = [t \in Tracks |-> "read"] /\ audio_frame_time = [t \in Tracks |-> 0]
  /\ got_audio_data = [t \in Tracks |-> FALSE] /\ chunks = [t \in Tracks |-> 0]
  /\ num_missing_frames = [t \in Tracks |-> 0] /\ num_received_frames = [t \in Tracks |-> 0]
  /\ torn = [t \in Tracks |-> FALSE]

-------------------------------------------------------------------------------
(* Plausible mistakes in the definitions below; the specification does not *)
(* use them.                                                               *)

ForgetPause == paused_time_offset
StartAnywhere == 1
SaveAgain == TRUE
DropRequest(starts) == FALSE
StopAtOnce ==
  /\ pcM = "stop" /\ pcM' = "join"
  /\ UNCHANGED <<options, time, handlers, pause, tablet, output, video, save, audio>>

-------------------------------------------------------------------------------
(* Packets.                                                                *)

\* The time since the start without the pauses, record_start_time being 0.
RecordingTime == clock - paused_time_offset

\* Once the recording is as long as the buffer should be, every packet that comes
\* drops one.
BufferFull == RecordingTime >= replay_buffer_size_secs

\* receive_frames: the packet of one frame.  Outside of replay mode it is sent
\* first, and send_data waits for the tablet while it holds the mutex.
ReceiveFrames(stream, key) ==
  /\ options.mode = "record" => tablet = "connected"
  /\ IF options.mode = "record" THEN UNCHANGED output
     ELSE /\ pushed' = pushed + 1
          /\ LET queue == Append(frame_data_queue, [n |-> pushed', stream |-> stream, key |-> key])
             IN  IF BufferFull
                 THEN frame_data_queue' = Tail(queue) /\ frames_erased' = TRUE
                 ELSE frame_data_queue' = queue /\ UNCHANGED frames_erased

-------------------------------------------------------------------------------
(* Signals and time.                                                       *)

\* A pause begins and ends when its time is taken, not when the flag is set.
Pausing == paused # (pcM = "toggle")

Tick == /\ Alive /\ clock < MaxClock /\ clock' = clock + 1
        /\ recorded' = IF Pausing THEN recorded ELSE recorded + 1
        /\ UNCHANGED <<options, handlers, pause, tablet, output, pcM, video, save, audio>>

StopHandler ==
  /\ Alive /\ running /\ running' = FALSE
  /\ UNCHANGED <<options, time, save_replay, toggle_pause, saves, toggles, pause, tablet, output, pcM,
                 video, save, audio>>

SaveReplayHandler ==
  /\ Alive /\ saves < options.saves /\ saves' = saves + 1 /\ save_replay' = TRUE
  /\ UNCHANGED <<options, time, running, toggle_pause, toggles, pause, tablet, output, pcM, video, save,
                 audio>>

TogglePauseHandler ==
  /\ Alive /\ toggles < options.toggles /\ toggles' = toggles + 1 /\ toggle_pause' = TRUE
  /\ UNCHANGED <<options, time, running, save_replay, saves, pause, tablet, output, pcM, video, save,
                 audio>>

TabletConnects ==
  /\ options.mode = "record" /\ tablet = "away" /\ tablet' = "connected"
  /\ UNCHANGED <<options, time, handlers, pause, output, pcM, video, save, audio>>

Environment == \/ Tick \/ StopHandler \/ SaveReplayHandler \/ TogglePauseHandler
               \/ TabletConnects

-------------------------------------------------------------------------------
(* The main thread.                                                        *)

\* The loop ends when it was told to, or when the capture asks for it.
LeaveLoop ==
  /\ pcM = "frame" /\ running' = FALSE /\ pcM' = "stop"
  /\ UNCHANGED <<options, time, save_replay, toggle_pause, saves, toggles, pause, tablet, output, video,
                 save, audio>>

FrameDue == clock - frame_timer_start >= 1 \/ video_pts_counter = 0
Overflow == Min({Max({0, clock - frame_timer_start - 1}), 1})

\* The top of the loop: is a frame due, and how many?
Frame ==
  /\ pcM = "frame" /\ running
  /\ \E damaged \in IF options.framerate_mode = "content" THEN BOOLEAN ELSE {TRUE} :
       IF FrameDue /\ damaged
       THEN LET due == IF options.framerate_mode = "constant"
                       THEN Max({0, RecordingTime - video_pts_counter}) ELSE 1
            IN  /\ frame_timer_start' = clock - Overflow
                /\ num_frames' = IF paused THEN 0 ELSE due
                /\ video_pts_counter' = video_pts_counter + num_frames'
       ELSE UNCHANGED <<frame_timer_start, num_frames, video_pts_counter>>
  /\ pcM' = IF num_frames' > 0 THEN "encode" ELSE "signals"
  /\ UNCHANGED <<options, time, handlers, pause, tablet, output, encoded, save, audio>>

EncodeVideo ==
  /\ pcM = "encode"
  /\ ReceiveFrames("video", encoded % KeyInterval = 0)
  /\ num_frames' = num_frames - 1 /\ encoded' = encoded + 1
  /\ pcM' = IF num_frames' > 0 THEN "encode" ELSE "signals"
  /\ UNCHANGED <<options, time, handlers, pause, tablet, frame_timer_start, video_pts_counter,
                 save, audio>>

\* The toggle: the other threads may read between the two steps.
UnpausedOffset == paused_time_offset + clock - paused_time_start

TogglePause ==
  /\ pcM = "signals" /\ toggle_pause /\ pcM' = "toggle"
  /\ IF paused THEN paused_time_offset' = UnpausedOffset /\ UNCHANGED paused_time_start
               ELSE paused_time_start' = clock /\ UNCHANGED paused_time_offset
  /\ torn' = [t \in Tracks |-> torn[t] \/ (paused /\ pcA[t] = "test")]
  /\ UNCHANGED <<options, time, handlers, paused, tablet, output, video, save, tracks>>

Toggled ==
  /\ pcM = "toggle" /\ toggle_pause' = FALSE /\ paused' = ~ paused /\ pcM' = "collect"
  /\ UNCHANGED <<options, time, running, save_replay, saves, toggles, paused_time_offset,
                 paused_time_start, tablet, output, video, save, audio>>

\* save_replay_thread.get() and what follows it.
Collected == /\ saver' = "none" /\ save_replay_packets' = <<>> /\ file' = <<>>
             /\ start_index' = 0 /\ erased_now' = FALSE

\* A save that is ready is collected.  If there is a request and no save, the next
\* one starts: frames_erased is passed by value, before the mutex is taken.  The
\* request is kept until then.
MayStartSave == saver' = "none"
RequestKept(starts) == save_replay /\ ~ starts

CollectAndRequest ==
  /\ pcM = "collect" \/ (pcM = "signals" /\ ~ toggle_pause)
  /\ IF saver = "ready" THEN Collected ELSE UNCHANGED thread
  /\ LET starts == save_replay /\ MayStartSave /\ options.mode = "replay"
     IN  /\ save_replay' = RequestKept(starts)
         /\ pcM' = IF starts THEN "save" ELSE "frame"
         /\ erased_arg' = IF starts THEN frames_erased ELSE erased_arg
  /\ UNCHANGED <<options, time, running, toggle_pause, saves, toggles, pause, tablet, output, video,
                 audio>>

KeyFrames == {i \in 1 .. Len(frame_data_queue) : frame_data_queue[i].key}
SaveStart == IF erased_arg THEN Min(KeyFrames) ELSE 1

\* save_replay_async: the packets are copied under the mutex; without a key frame
\* there is nothing to save.  Then the file is opened and the save gets a thread; if
\* that fails the copy stays behind until the next save overwrites it, which the
\* model leaves out.
SaveReplayAsync ==
  /\ pcM = "save" /\ pcM' = "frame"
  /\ \/ UNCHANGED thread
     \/ /\ KeyFrames # {}
        /\ save_replay_packets' = frame_data_queue /\ start_index' = SaveStart
        /\ erased_now' = frames_erased /\ saver' = "running" /\ UNCHANGED file
  /\ UNCHANGED <<options, time, handlers, pause, tablet, output, video, erased_arg, audio>>

\* After the loop: the running save is waited for, then the audio threads, and the
\* process exits.
FinishSave ==
  /\ pcM = "stop" /\ saver # "running" /\ pcM' = "join"
  /\ IF saver = "ready" THEN Collected ELSE UNCHANGED thread
  /\ UNCHANGED <<options, time, handlers, pause, tablet, output, video, erased_arg, audio>>

Exit ==
  /\ pcM = "join" /\ \A t \in Tracks : pcA[t] = "done"
  /\ pcM' = "exited"
  /\ UNCHANGED <<options, time, handlers, pause, tablet, output, video, save, audio>>

Main == \/ LeaveLoop \/ Frame \/ EncodeVideo
        \/ TogglePause \/ Toggled \/ CollectAndRequest \/ SaveReplayAsync
        \/ FinishSave \/ Exit

-------------------------------------------------------------------------------
(* The thread of a save: it walks over the shared save_replay_packets.     *)

SaverWrites ==
  /\ saver = "running" /\ Alive
  /\ LET next == start_index + Len(file)
     IN  IF next <= Len(save_replay_packets)
         THEN file' = Append(file, save_replay_packets[next]) /\ UNCHANGED saver
         ELSE saver' = "ready" /\ UNCHANGED file
  /\ UNCHANGED <<options, time, handlers, pause, tablet, output, pcM, video, save_replay_packets,
                 start_index, erased_arg, erased_now, audio>>

-------------------------------------------------------------------------------
(* The thread of an audio device.                                          *)

\* A chunk is there, or the read times out.  The time of the frame is computed from
\* the pause's length before the flag is tested.
ReadChunk(t) ==
  /\ pcA[t] = "read" /\ running
  /\ \E got \in IF t \notin Silent /\ chunks[t] < clock THEN BOOLEAN ELSE {FALSE} :
       /\ got_audio_data' = [got_audio_data EXCEPT ![t] = got]
       /\ chunks' = [chunks EXCEPT ![t] = IF got THEN @ + 1 ELSE @]
  /\ audio_frame_time' = [audio_frame_time EXCEPT ![t] = RecordingTime]
  /\ pcA' = [pcA EXCEPT ![t] = "test"]
  /\ torn' = [torn EXCEPT ![t] = pcM = "toggle" /\ ~ paused]
  /\ UNCHANGED <<num_missing_frames, num_received_frames, output>>

\* The thread ends with the recording, or alone when its frame has no memory.
EndAudio(t) ==
  /\ \/ pcA[t] = "read" /\ ~ running
     \/ pcA[t] = "test" /\ ~ paused
  /\ pcA' = [pcA EXCEPT ![t] = "done"]
  /\ audio_frame_time' = [audio_frame_time EXCEPT ![t] = 0]
  /\ got_audio_data' = [got_audio_data EXCEPT ![t] = FALSE]
  /\ torn' = [torn EXCEPT ![t] = FALSE]
  /\ UNCHANGED <<chunks, num_missing_frames, num_received_frames, output>>

Missing(t) ==
  LET behind == Max({0, audio_frame_time[t] - num_received_frames[t]})
  IN  IF t \in Silent THEN Max({1, behind})
      ELSE IF got_audio_data[t] THEN Max({0, behind - 1}) ELSE behind

PutSilence(t) == \/ Missing(t) >= 1 /\ got_audio_data[t]
                 \/ Missing(t) >= Tolerated
                 \/ t \in Silent

\* Where the loop goes on after the silence.
ChunkOrNext(t) == IF t \in Silent THEN "sleep" ELSE IF got_audio_data[t] THEN "chunk" ELSE "read"

TestPaused(t) ==
  /\ pcA[t] = "test"
  /\ num_missing_frames' = [num_missing_frames EXCEPT ![t] = IF paused THEN 0 ELSE Missing(t)]
  /\ pcA' = [pcA EXCEPT ![t] = IF paused THEN IF t \in Silent THEN "sleep" ELSE "read"
                               ELSE IF PutSilence(t) THEN "lock" ELSE ChunkOrNext(t)]
  /\ audio_frame_time' = [audio_frame_time EXCEPT ![t] = 0]
  /\ torn' = [torn EXCEPT ![t] = FALSE]
  /\ UNCHANGED <<got_audio_data, chunks, num_received_frames, output>>

Encode(t) ==
  /\ ReceiveFrames(t, FALSE)
  /\ num_received_frames' = [num_received_frames EXCEPT ![t] = @ + 1]

\* audio_filter_mutex is held until all the silence is encoded.
EncodeSilence(t) ==
  /\ pcA[t] = "silence" \/ (pcA[t] = "lock" /\ \A u \in Tracks : pcA[u] # "silence")
  /\ Encode(t)
  /\ num_missing_frames' = [num_missing_frames EXCEPT ![t] = @ - 1]
  /\ pcA' = [pcA EXCEPT ![t] = IF num_missing_frames[t] > 1 THEN "silence" ELSE ChunkOrNext(t)]
  /\ UNCHANGED <<audio_frame_time, got_audio_data, chunks, torn>>

EncodeChunk(t) ==
  /\ pcA[t] = "chunk" /\ pcA' = [pcA EXCEPT ![t] = "read"]
  /\ Encode(t)
  /\ UNCHANGED <<audio_frame_time, got_audio_data, chunks, num_missing_frames, torn>>

\* A track without a device sleeps for a period; chunks counts the periods.  At the
\* bound of the clock a sleep ends with the recording.
Sleep(t) ==
  /\ pcA[t] = "sleep" /\ (chunks[t] < clock \/ ~ running)
  /\ pcA' = [pcA EXCEPT ![t] = "read"] /\ chunks' = [chunks EXCEPT ![t] = clock]
  /\ UNCHANGED <<audio_frame_time, got_audio_data, num_missing_frames, num_received_frames, torn,
                 output>>

Audio(t) ==
  /\ Alive
  /\ \/ ReadChunk(t) \/ EndAudio(t) \/ TestPaused(t) \/ EncodeSilence(t)
     \/ EncodeChunk(t) \/ Sleep(t)
  /\ UNCHANGED <<options, time, handlers, pause, tablet, pcM, video, save>>

-------------------------------------------------------------------------------

Next == \/ Environment \/ Main \/ SaverWrites
        \/ \E t \in Tracks : Audio(t)

Spec == Init /\ [][Next]_vars

\* Every thread runs on.  Nothing is assumed of the signals, the clock or the tablet.
FairSpec == /\ Spec
            /\ WF_vars(Main) /\ WF_vars(SaverWrites)
            /\ \A t \in Tracks : WF_vars(Audio(t))

-------------------------------------------------------------------------------
(* Properties.                                                             *)

\* save_replay_packets is shared between the main thread and the thread of a save,
\* without a lock: while a save runs the main thread leaves it alone, so the file
\* is an unbroken piece of the recording, and a finished file goes to the end of it.
SaveWhole ==
  saver # "none" =>
    /\ \A i \in 1 .. Len(file) - 1 : file[i + 1].n = file[i].n + 1
    /\ saver = "ready" =>
         file # <<>> /\ file[Len(file)] = save_replay_packets[Len(save_replay_packets)]

\* The buffer lost its first packet between the call of save_replay_async, which
\* copies frames_erased, and its taking the mutex (an audio thread erased it).
ErasedInBetween == ~ erased_arg /\ erased_now

\* A saved file can be played from its first packet: it starts with a key frame or
\* with the recording.  Only when packets were erased in between does it start with
\* whatever was the oldest packet left; a finished file has a key frame even then,
\* from which it can be played.
SaveStartsPlayable ==
  saver # "none" =>
    /\ file # <<>> => \/ file[1].stream = "video" /\ file[1].key
                      \/ file[1].n = 1
                      \/ ErasedInBetween
    /\ saver = "ready" => \E i \in 1 .. Len(file) : file[i].key

\* The video's time stamps leave out the pauses: at a constant frame rate there are
\* never more frames than the time that was recorded, however often it was paused.
PausesLeftOut == options.framerate_mode = "constant" => video_pts_counter <= recorded

\* "we have to make sure we produce frames at the same relative rate as the video":
\* silence fills a track up to the time that was recorded, the chunk in hand
\* included, and never stands for a pause.  (Unless the pause ended between the
\* thread's reading of paused_time_offset and its test of paused, or began around
\* its reading: then the pause counts as missing sound.)
AudioInStep ==
  [][\A t \in Tracks \ Silent :
       pcA[t] = "test" /\ pcA'[t] = "lock" /\ ~ torn[t]
         => num_received_frames[t] + num_missing_frames'[t]
              + (IF got_audio_data[t] THEN 1 ELSE 0) <= recorded]_vars

\* A request is not lost: a save of its own starts after it, also when it came while
\* another save was running and has to wait until that one is collected.  (Unless the
\* recording ends, or there is no replay to save.)
RequestServed ==
  save_replay ~> \/ pcM = "save" /\ saver = "none"
                 \/ options.mode = "record" \/ ~ running

\* The process exits once it was told to, after the file that is being saved is
\* finished and the audio threads have ended.  A recording whose tablet never comes is
\* stuck in accept.
Stops == ~ running ~> \/ pcM = "exited" /\ saver = "none" /\ \A t \in Tracks : pcA[t] = "done"
                      \/ options.mode = "record" /\ tablet = "away"
===============================================================================
