------------------------------ MODULE WfRecorder ------------------------------
(***************************************************************************)
(* The recorder process of src/server/wf-recorder: the main thread (the    *)
(* capture loop and the screencopy callbacks that wl_display_dispatch      *)
(* runs), the writer thread (write_loop) and the audio thread of the       *)
(* AudioReader, with the signal handler, the compositor and the tablet     *)
(* that connects to the stream as their environment.                       *)
(*                                                                         *)
(* The pool of buffers appears as the queue that BufferPool implements: a  *)
(* frame is in it from next_capture to next_encode, and the capture buffer *)
(* is ready while fewer than PoolSize frames are in it.  A frame is its    *)
(* base_usec; the compositor's clock ticks once per frame it presents      *)
(* until it reaches MaxClock, so that no bound ever stops the capture loop.*)
(***************************************************************************)
EXTENDS Integers, Sequences

CONSTANTS Options,             \* command lines: dmabuf, hwupload, audio backend
          PoolSize,            \* buffers the pool may grow to (16)
          MAX_FRAME_FAILURES,  \* consecutive failures tolerated (16)
          MaxClock             \* bound: the clock stops ticking there

CommandLines == [dmabuf : BOOLEAN, hwupload : BOOLEAN, audio : {"none", "pulse", "pipewire"}]

ASSUME RecorderAssumption == /\ Options \subseteq CommandLines
                             /\ PoolSize \in Nat /\ PoolSize >= 2
                             /\ MAX_FRAME_FAILURES \in Nat /\ MaxClock \in Nat

VARIABLES opts,              \* the command line
          exit_main_loop, display,
          pcM, frame, stale, buffer_copy_done, frame_failed_cnt, clock,
          queue,
          pcW, frame_writer, writer_mutex, first_frame_ts, sync,
          pcA, time_base,    \* the AudioReader: its thread and its time base
          conn               \* the stream's socket: who waits in accept, if any

mainVars   == <<display, pcM, frame, stale, buffer_copy_done, frame_failed_cnt, clock>>
poolVars   == <<queue>>
writerVars == <<pcW, frame_writer, writer_mutex, first_frame_ts, sync>>
audioVars  == <<pcA, time_base>>
vars == <<opts, exit_main_loop, mainVars, poolVars, writerVars, audioVars, conn>>

None == -1
Alive == pcM \notin {"done", "exited"}

Init ==
  /\ opts \in Options
  /\ exit_main_loop = FALSE /\ display = "up"
  /\ pcM = "wait" /\ frame = "none" /\ stale = FALSE
  /\ buffer_copy_done = FALSE /\ frame_failed_cnt = 0 /\ clock = 0
  /\ queue = <<>>
  /\ pcW = "idle" /\ frame_writer = "none" /\ writer_mutex = FALSE
  /\ first_frame_ts = None /\ sync = None
  /\ pcA = "off" /\ time_base = 0
  /\ conn = "closed"

ReadyCapture == Len(queue) < PoolSize

\* request_next_frame destroys the old frame object; dmabuf parameters that were
\* created for it keep a pointer to it.
RequestNextFrame == /\ frame' = "requested"
                    /\ stale' = (stale \/ frame = "params")

-------------------------------------------------------------------------------
(* Plausible mistakes in the definitions below; the specification does not *)
(* use them.                                                               *)

DestroyWriterFirst ==
  /\ pcW = "stop_audio" /\ Alive
  /\ frame_writer' = "destroyed" /\ pcW' = "done"
  /\ UNCHANGED <<opts, exit_main_loop, mainVars, poolVars, writer_mutex,
                 first_frame_ts, sync, audioVars, conn>>
NeverAhead(base) == time_base = 0
IgnoreExit ==
  /\ pcW = "wait" /\ Alive /\ queue # <<>>
  /\ pcW' = "locked" /\ writer_mutex' = TRUE
  /\ UNCHANGED <<opts, exit_main_loop, mainVars, poolVars, frame_writer,
                 first_frame_ts, sync, audioVars, conn>>

-------------------------------------------------------------------------------
(* The main thread.                                                        *)

\* The wait for a free buffer is over; exit_main_loop is not consulted here.
WaitBuffer ==
  /\ pcM = "wait"
  /\ ReadyCapture
  /\ buffer_copy_done' = FALSE
  /\ RequestNextFrame
  /\ pcM' = "check"
  /\ UNCHANGED <<opts, exit_main_loop, display, frame_failed_cnt, clock, poolVars,
                 writerVars, audioVars, conn>>

\* The condition of the dispatch loop.  wl_display_dispatch blocks until an event
\* arrives (a signal does not end it) and fails at once on a lost display.
CheckLoop ==
  /\ pcM = "check"
  /\ pcM' = IF buffer_copy_done \/ exit_main_loop \/ display = "lost"
            THEN "captured" ELSE "blocked"
  /\ UNCHANGED <<opts, exit_main_loop, display, frame, stale, buffer_copy_done,
                 frame_failed_cnt, clock, poolVars, writerVars, audioVars, conn>>

\* Hands the capture buffer over, whichever way the dispatch loop ended.  The
\* buffer of a failed dispatch has the time stamp of an earlier frame, or none.
Publish ==
  /\ pcM = "captured" /\ ~ exit_main_loop
  /\ IF buffer_copy_done
     THEN queue' = Append(queue, clock)
     ELSE \E old \in 0 .. clock : queue' = Append(queue, old)
  /\ pcW' = IF pcW = "idle" THEN "wait" ELSE pcW
  /\ pcM' = "top"
  /\ UNCHANGED <<opts, exit_main_loop, display, frame, stale, buffer_copy_done,
                 frame_failed_cnt, clock, frame_writer, writer_mutex, first_frame_ts,
                 sync, audioVars, conn>>

LeaveLoop ==
  /\ \/ pcM = "captured" /\ exit_main_loop /\ pcM' = "join"
     \/ pcM = "top" /\ pcM' = IF exit_main_loop THEN "join" ELSE "wait"
  /\ UNCHANGED <<opts, exit_main_loop, display, frame, stale, buffer_copy_done,
                 frame_failed_cnt, clock, poolVars, writerVars, audioVars, conn>>

\* writer_thread.join(), then the buffers are destroyed and main returns.
Join ==
  /\ pcM = "join" /\ pcW \in {"idle", "done"}
  /\ pcM' = "done"
  /\ UNCHANGED <<opts, exit_main_loop, display, frame, stale, buffer_copy_done,
                 frame_failed_cnt, clock, poolVars, writerVars, audioVars, conn>>

-------------------------------------------------------------------------------
(* The callbacks, run by wl_display_dispatch on the main thread.           *)

Handler == pcM = "blocked" /\ display = "up"
AfterEvent == /\ pcM' = "check"
              /\ UNCHANGED <<opts, display, poolVars, writerVars, audioVars, conn>>

Tick == IF clock < MaxClock THEN clock + 1 ELSE clock

\* std::exit on the main or the writer thread ends the whole process.
Exit == pcM' = "exited"

\* The shared-memory path: the buffer fits or is created, else the process ends.
FrameHandleBuffer ==
  /\ Handler /\ ~ opts.dmabuf /\ frame = "requested"
  /\ UNCHANGED <<exit_main_loop, stale, buffer_copy_done, frame_failed_cnt, clock>>
  /\ \/ frame' = "copy" /\ AfterEvent
     \/ /\ Exit
        /\ UNCHANGED <<opts, display, frame, poolVars, writerVars, audioVars, conn>>

\* The dmabuf path: the buffer fits, or its parameters are sent, or allocating
\* it fails and the loop is told to stop.
FrameHandleLinuxDmabuf ==
  /\ Handler /\ opts.dmabuf /\ frame = "requested"
  /\ \/ frame' \in {"copy", "params"} /\ UNCHANGED exit_main_loop
     \/ exit_main_loop' = TRUE /\ UNCHANGED frame
  /\ AfterEvent
  /\ UNCHANGED <<stale, buffer_copy_done, frame_failed_cnt, clock>>

\* The answer to zwp_linux_buffer_params_v1_create.
DmabufCreated ==
  /\ Handler /\ frame = "params"
  /\ frame' = "copy"
  /\ AfterEvent
  /\ UNCHANGED <<exit_main_loop, stale, buffer_copy_done, frame_failed_cnt, clock>>

\* An answer for a frame object that request_next_frame has destroyed: using it
\* is undefined, the process may end or the request may go nowhere.
DmabufCreatedStale ==
  /\ Handler /\ stale
  /\ stale' = FALSE
  /\ UNCHANGED <<exit_main_loop, frame, buffer_copy_done, frame_failed_cnt, clock>>
  /\ \/ AfterEvent
     \/ Exit /\ UNCHANGED <<opts, display, poolVars, writerVars, audioVars, conn>>

DmabufFailed ==
  /\ Handler
  /\ \/ frame = "params" /\ UNCHANGED stale
     \/ stale /\ stale' = FALSE
  /\ exit_main_loop' = TRUE
  /\ AfterEvent
  /\ UNCHANGED <<frame, buffer_copy_done, frame_failed_cnt, clock>>

FrameHandleReady ==
  /\ Handler /\ frame = "copy"
  /\ buffer_copy_done' = TRUE
  /\ clock' = Tick
  /\ frame_failed_cnt' = 0
  /\ frame' = "none"
  /\ AfterEvent
  /\ UNCHANGED <<exit_main_loop, stale>>

TooManyFailures(cnt) == cnt > MAX_FRAME_FAILURES

FrameHandleFailed ==
  /\ Handler /\ frame \in {"requested", "params", "copy"}
  /\ frame_failed_cnt' = frame_failed_cnt + 1
  /\ RequestNextFrame
  /\ exit_main_loop' = (exit_main_loop \/ TooManyFailures(frame_failed_cnt'))
  /\ AfterEvent
  /\ UNCHANGED <<buffer_copy_done, clock>>

\* The compositor goes away: wl_display_dispatch returns -1, now and ever after.
DisplayLost ==
  /\ Handler
  /\ display' = "lost" /\ pcM' = "captured"
  /\ UNCHANGED <<opts, exit_main_loop, frame, stale, buffer_copy_done, frame_failed_cnt,
                 clock, poolVars, writerVars, audioVars, conn>>

\* SIGTERM, SIGINT or SIGHUP, handled on the main thread.
HandleGracefulTermination ==
  /\ Alive /\ ~ exit_main_loop
  /\ exit_main_loop' = TRUE
  /\ UNCHANGED <<opts, mainVars, poolVars, writerVars, audioVars, conn>>

-------------------------------------------------------------------------------
(* Sending a packet: server.send_data, from the writer or the audio thread.*)

\* The first caller of send_data binds the port and waits in accept; a failing
\* bind ends the process.
Listen(me) == /\ conn = "closed"
              /\ \/ conn' = me /\ UNCHANGED pcM
                 \/ Exit /\ UNCHANGED conn
              /\ UNCHANGED <<opts, exit_main_loop, display, frame, stale, buffer_copy_done,
                             frame_failed_cnt, clock, poolVars, writerVars, audioVars>>

\* send_data returns: the packet is on its way, or it is dropped because the
\* other thread still waits in accept or accept has failed.
Returns(me) == conn \notin {"closed", me}

\* Nothing ignores SIGPIPE: once the tablet is gone, a send may end the process.
SendDies == /\ conn = "gone" /\ Alive
            /\ \/ pcW \in {"send", "drain_send"}
               \/ pcA = "send"
            /\ Exit
            /\ UNCHANGED <<opts, exit_main_loop, display, frame, stale, buffer_copy_done,
                           frame_failed_cnt, clock, poolVars, writerVars, audioVars, conn>>

\* finish_frame raises exit_main_loop when the packet cannot be written.
FinishFrame == exit_main_loop' \in {exit_main_loop, TRUE}

\* The environment: a tablet connects, accept fails, the tablet goes away.
ClientConnects    == conn \in {"writer", "audio"} /\ conn' = "open"
AcceptFails       == conn \in {"writer", "audio"} /\ conn' = "broken"
ClientDisconnects == conn = "open" /\ conn' = "gone"
Client == /\ Alive
          /\ ClientConnects \/ AcceptFails \/ ClientDisconnects
          /\ UNCHANGED <<opts, exit_main_loop, mainVars, poolVars, writerVars, audioVars>>

-------------------------------------------------------------------------------
(* The writer thread.                                                      *)

ReadyEncode == queue # <<>>

\* The loop that polls ready_encode, and the lock of frame_writer_mutex.
WaitFrame ==
  /\ pcW = "wait" /\ Alive
  /\ \/ exit_main_loop /\ pcW' = "finish" /\ UNCHANGED writer_mutex
     \/ ~ exit_main_loop /\ ReadyEncode /\ pcW' = "locked" /\ writer_mutex' = TRUE
  /\ UNCHANGED <<opts, exit_main_loop, mainVars, poolVars, frame_writer,
                 first_frame_ts, sync, audioVars, conn>>

\* AudioReader::create and start.  Without a reader the recording has no audio.
\* Pulse knows its time base at once, PipeWire after the first buffer.
StartAudio ==
  IF opts.audio = "none" THEN UNCHANGED audioVars
  ELSE \/ UNCHANGED audioVars
       \/ /\ pcA' = "read"
          /\ time_base' \in IF opts.audio = "pulse" THEN 1 .. clock + 1 ELSE {0}

\* The first frame creates the FrameWriter, which ends the process on an
\* unsupported format or encoder.
SetUp ==
  /\ pcW = "locked" /\ Alive
  /\ pcW' = "stamp"
  /\ IF frame_writer = "none"
     THEN \/ frame_writer' = "live" /\ StartAudio /\ UNCHANGED pcM
          \/ Exit /\ UNCHANGED <<frame_writer, audioVars>>
     ELSE UNCHANGED <<frame_writer, audioVars, pcM>>
  /\ UNCHANGED <<opts, exit_main_loop, display, frame, stale, buffer_copy_done,
                 frame_failed_cnt, clock, poolVars, writer_mutex, first_frame_ts, sync, conn>>

\* A frame from before the audio's time base is dropped.
Ahead(base) == time_base = 0 \/ time_base > base

\* sync_timestamp and first_frame_ts; an existing time line is never revised.
Stamp ==
  /\ pcW = "stamp" /\ Alive
  /\ LET base == Head(queue) IN
     \/ /\ first_frame_ts = None /\ pcA # "off" /\ Ahead(base)
        /\ pcW' = "next" /\ writer_mutex' = FALSE
        /\ UNCHANGED <<first_frame_ts, sync>>
     \/ /\ first_frame_ts = None /\ ~ (pcA # "off" /\ Ahead(base))
        /\ first_frame_ts' = IF pcA = "off" THEN base ELSE time_base
        /\ sync' = base - first_frame_ts'
        /\ pcW' = "encode" /\ UNCHANGED writer_mutex
     \/ /\ first_frame_ts # None
        /\ sync' = base - first_frame_ts
        /\ pcW' = "encode" /\ UNCHANGED <<first_frame_ts, writer_mutex>>
  /\ UNCHANGED <<opts, exit_main_loop, mainVars, poolVars, frame_writer, audioVars, conn>>

\* gbm_bo_map fails: the loop is left with frame_writer_mutex locked.
MapFails ==
  /\ pcW = "encode" /\ Alive /\ opts.dmabuf /\ opts.hwupload
  /\ pcW' = "finish"
  /\ UNCHANGED <<opts, exit_main_loop, mainVars, poolVars, frame_writer, writer_mutex,
                 first_frame_ts, sync, audioVars, conn>>

\* add_frame: it fails, or the encoder keeps the frame, or it emits a packet.
AddFrame ==
  /\ pcW = "encode" /\ Alive
  /\ \/ pcW' \in {"finish", "next"} /\ writer_mutex' = FALSE
     \/ pcW' = "send" /\ UNCHANGED writer_mutex
  /\ UNCHANGED <<opts, exit_main_loop, mainVars, poolVars, frame_writer,
                 first_frame_ts, sync, audioVars, conn>>

WriterListens == pcW \in {"send", "drain_send"} /\ Alive /\ Listen("writer")

WriterSent ==
  /\ pcW = "send" /\ Alive /\ Returns("writer")
  /\ FinishFrame
  /\ pcW' = "next" /\ writer_mutex' = FALSE
  /\ UNCHANGED <<opts, mainVars, poolVars, frame_writer, first_frame_ts, sync, audioVars, conn>>

\* next_encode, and the condition of the outer loop.
NextEncode ==
  /\ pcW = "next" /\ Alive
  /\ queue' = Tail(queue)
  /\ pcW' = IF exit_main_loop THEN "finish" ELSE "wait"
  /\ UNCHANGED <<opts, exit_main_loop, mainVars, frame_writer, writer_mutex,
                 first_frame_ts, sync, audioVars, conn>>

\* The lock_guard after the loop; the thread may hold the mutex already.
LockAgain ==
  /\ pcW = "finish" /\ Alive /\ ~ writer_mutex
  /\ writer_mutex' = TRUE /\ pcW' = "stop_audio"
  /\ UNCHANGED <<opts, exit_main_loop, mainVars, poolVars, frame_writer,
                 first_frame_ts, sync, audioVars, conn>>

\* pr = nullptr: Pulse joins its thread, PipeWire stops between two callbacks.
StopAudio ==
  /\ pcW = "stop_audio" /\ Alive
  /\ pcA \in {"off", "ended"} \/ (opts.audio = "pipewire" /\ pcA = "read")
  /\ pcA' = IF pcA = "off" THEN "off" ELSE "ended"
  /\ pcW' = "drain"
  /\ UNCHANGED <<opts, exit_main_loop, mainVars, poolVars, frame_writer, writer_mutex,
                 first_frame_ts, sync, time_base, conn>>

\* frame_writer = nullptr: the destructor drains the encoder and writes the
\* trailer (one delayed packet stands for all of them).
Drain ==
  /\ pcW = "drain" /\ Alive
  /\ \/ frame_writer = "live" /\ pcW' = "drain_send" /\ UNCHANGED <<frame_writer, writer_mutex>>
     \/ /\ frame_writer' = IF frame_writer = "live" THEN "destroyed" ELSE frame_writer
        /\ pcW' = "done" /\ writer_mutex' = FALSE
  /\ UNCHANGED <<opts, exit_main_loop, mainVars, poolVars, first_frame_ts, sync, audioVars, conn>>

DrainSent ==
  /\ pcW = "drain_send" /\ Alive /\ Returns("writer")
  /\ FinishFrame
  /\ frame_writer' = "destroyed" /\ pcW' = "done" /\ writer_mutex' = FALSE
  /\ UNCHANGED <<opts, mainVars, poolVars, first_frame_ts, sync, audioVars, conn>>

-------------------------------------------------------------------------------
(* The audio thread: PulseReader::loop, or PipeWire's process callback.    *)

\* A read fails (Pulse: the thread ends), fills a frame, or (PipeWire) does not.
AudioRead ==
  /\ pcA = "read" /\ Alive
  /\ pcA' \in IF opts.audio = "pulse" THEN {"add", "ended"} ELSE {"add", "check"}
  /\ UNCHANGED <<opts, exit_main_loop, mainVars, poolVars, writerVars, time_base, conn>>

\* frame_writer->add_audio, which may emit a packet.
AddAudio ==
  /\ pcA = "add" /\ Alive
  /\ pcA' \in {"send", "check"}
  /\ UNCHANGED <<opts, exit_main_loop, mainVars, poolVars, writerVars, time_base, conn>>

AudioListens == pcA = "send" /\ Alive /\ Listen("audio")

AudioSent ==
  /\ pcA = "send" /\ Alive /\ Returns("audio")
  /\ FinishFrame
  /\ pcA' = "check"
  /\ UNCHANGED <<opts, mainVars, poolVars, writerVars, time_base, conn>>

AudioCheck ==
  /\ pcA = "check" /\ Alive
  /\ IF opts.audio = "pulse"
     THEN pcA' = (IF exit_main_loop THEN "ended" ELSE "read") /\ UNCHANGED time_base
     ELSE /\ pcA' = "read"
          /\ time_base' \in IF time_base = 0 THEN 1 .. clock + 1 ELSE {time_base}
  /\ UNCHANGED <<opts, exit_main_loop, mainVars, poolVars, writerVars, conn>>

-------------------------------------------------------------------------------
Loop == WaitBuffer \/ CheckLoop \/ Publish \/ LeaveLoop \/ Join
Compositor == \/ FrameHandleBuffer \/ FrameHandleLinuxDmabuf \/ DmabufCreated
              \/ DmabufCreatedStale \/ DmabufFailed \/ FrameHandleReady \/ FrameHandleFailed
Writer == \/ WaitFrame \/ SetUp \/ Stamp \/ MapFails \/ AddFrame \/ WriterListens \/ WriterSent
          \/ NextEncode \/ LockAgain \/ StopAudio \/ Drain \/ DrainSent
Audio == AudioRead \/ AddAudio \/ AudioListens \/ AudioSent \/ AudioCheck

Next == \/ Loop \/ Compositor \/ Writer \/ Audio \/ SendDies
        \/ DisplayLost \/ HandleGracefulTermination \/ Client

Spec == Init /\ [][Next]_vars

\* Threads keep running and the compositor keeps sending events.  No fairness for
\* the tablet (accept has no time limit), for signals, for failures or for the
\* loss of the display.
FairSpec == /\ Spec
            /\ WF_vars(Loop) /\ WF_vars(Compositor)
            /\ WF_vars(Writer) /\ WF_vars(Audio)
            /\ SF_vars(StopAudio)

\* The same with a tablet that connects (or an accept that fails) whenever one is
\* waited for: what is still stuck is not waiting for the tablet.
TabletSpec == FairSpec /\ WF_vars(Client /\ conn \in {"writer", "audio"})

-------------------------------------------------------------------------------
(* Properties.                                                             *)

MainTypeOK ==
  /\ opts \in Options
  /\ exit_main_loop \in BOOLEAN /\ display \in {"up", "lost"}
  /\ pcM \in {"wait", "check", "blocked", "captured", "top", "join", "done", "exited"}
  /\ frame \in {"none", "requested", "params", "copy"}
  /\ stale \in BOOLEAN /\ buffer_copy_done \in BOOLEAN
  /\ frame_failed_cnt \in 0 .. MAX_FRAME_FAILURES + 1
  /\ clock \in 0 .. MaxClock

PoolTypeOK == queue \in Seq(0 .. MaxClock) /\ Len(queue) <= PoolSize

WriterTypeOK ==
  /\ pcW \in {"idle", "wait", "locked", "stamp", "encode", "send", "next", "finish",
              "stop_audio", "drain", "drain_send", "done"}
  /\ frame_writer \in {"none", "live", "destroyed"} /\ writer_mutex \in BOOLEAN
  /\ first_frame_ts \in 0 .. MaxClock + 1 \cup {None} /\ sync \in Int

AudioTypeOK ==
  /\ pcA \in {"off", "read", "add", "send", "check", "ended"}
  /\ time_base \in 0 .. MaxClock + 1
  /\ conn \in {"closed", "writer", "audio", "open", "broken", "gone"}

TypeOK == MainTypeOK /\ PoolTypeOK /\ WriterTypeOK /\ AudioTypeOK

\* The audio thread uses the global frame_writer without a lock; it is there for
\* as long as the thread may do so, because write_loop frees the reader first.
AudioNeedsWriter == pcA \in {"add", "send"} => frame_writer = "live"

\* Main destroys the wl_buffers and returns only when no other thread is left
\* that uses them, the encoder or the socket, however the recording ended.
NothingRunsAfterMain == pcM = "done" => pcW \in {"idle", "done"} /\ pcA \in {"off", "ended"}

\* While the display is up, the encoder's time stamps never fall below zero
\* (they are unsigned in the code) and never step back.
Timeline ==
  [][display = "up" /\ first_frame_ts' # None
       => sync' >= 0 /\ (first_frame_ts # None => sync' >= sync)]_vars

\* A thread waits in accept, without a time limit, for a tablet that may never
\* come: the writer itself, with its mutex, or the audio thread that it joins.
WaitsForTablet == conn = "writer" \/ (conn = "audio" /\ pcW = "stop_audio")

\* The writer stops once the loop was told to exit, unless it waits for a tablet
\* that does not come, or holds its own mutex after a failed map (it would wait
\* for itself), or the process is gone.
WriterStops ==
  exit_main_loop ~> \/ pcW \in {"idle", "done"} \/ ~ Alive
                    \/ WaitsForTablet
                    \/ pcW = "finish" /\ writer_mutex

\* "Use Ctrl+C to stop.": the program ends once it was told to (checked with a
\* tablet that comes when it is waited for).
CtrlCStops == exit_main_loop ~> ~ Alive

\* next_capture is called only for a buffer whose copy the compositor has reported
\* (no frame object is outstanding); a lost display is the one exception.
ObtainedFromCompositor ==
  [][Len(queue') > Len(queue) => frame = "none" \/ display = "lost"]_vars

-------------------------------------------------------------------------------
(* The inductive invariant behind TypeOK and the safety properties.        *)

\* The dispatch loop is left with a copy, with the order to exit or with a lost
\* display, and a slot of the pool is kept free until then.
LoopInv ==
  /\ pcM = "blocked" => ~ buffer_copy_done
  /\ pcM = "captured" => buffer_copy_done \/ exit_main_loop \/ display = "lost"
  /\ pcM \in {"check", "captured"} /\ buffer_copy_done => frame = "none"
  /\ pcM \in {"check", "blocked", "captured"} => ReadyCapture
  /\ frame_failed_cnt > MAX_FRAME_FAILURES => exit_main_loop /\ pcM # "blocked"

\* The writer keeps its frame in the queue until next_encode, and outlives the
\* reader that it started.
LifeInv ==
  /\ pcW \in {"locked", "stamp", "encode", "send", "next"} => queue # <<>>
  /\ pcA \notin {"off", "ended"} => frame_writer = "live"
  /\ pcW = "idle" => pcA = "off"
  /\ pcW \in {"drain", "drain_send", "done"} => pcA \in {"off", "ended"}
  /\ pcM = "done" => pcW \in {"idle", "done"}

\* While the display is up the frames wait in the order of their time, and none is
\* older than the last one that was given to the encoder.
TimeInv ==
  display = "up" =>
    /\ \A i, j \in 1 .. Len(queue) : i <= j => queue[i] <= queue[j]
    /\ \A i \in 1 .. Len(queue) : queue[i] <= clock
    /\ first_frame_ts # None =>
         /\ sync >= 0 /\ first_frame_ts + sync <= clock
         /\ \A i \in 1 .. Len(queue) : first_frame_ts + sync <= queue[i]

WInv == TypeOK /\ LoopInv /\ LifeInv /\ TimeInv
===============================================================================
