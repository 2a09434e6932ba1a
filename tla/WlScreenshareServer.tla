-------------------------- MODULE WlScreenshareServer --------------------------
(***************************************************************************)
(* The server of src/server/wl-screenshare-server: the main thread (the    *)
(* capture loop and the Wayland callbacks that wl_display_dispatch runs)   *)
(* and the writer thread (write_loop), which share the buffer_queue and    *)
(* the pointer frame_writer, with the signal handler, the compositor and   *)
(* the tablet as their environment.                                        *)
(*                                                                         *)
(* Every frame has a buffer of its own, numbered in the order in which the *)
(* compositor presented them.  A copy with damage completes only when the  *)
(* screen changes, so the compositor may stop after MaxFrames frames.      *)
(***************************************************************************)
EXTENDS Integers, Sequences

CONSTANT MaxFrames   \* bound: frames the compositor presents

ASSUME ServerAssumption == MaxFrames \in Nat

VARIABLES exit_main_loop, display,
          pcM, frame, can_read_buffer, presented,
          buffer_queue, frame_writer, writers,
          pcW, buffer,
          taken,        \* history: frames write_loop has popped
          conn          \* the stream's socket

mainVars   == <<display, pcM, frame, can_read_buffer, presented>>
shared     == <<buffer_queue, frame_writer, writers>>
writerVars == <<pcW, buffer, taken>>
vars == <<exit_main_loop, mainVars, shared, writerVars, conn>>

None  == -1
Alive == pcM \notin {"done", "exited"}

Init ==
  /\ exit_main_loop = FALSE /\ display = "up"
  /\ pcM = "top" /\ frame = "none" /\ can_read_buffer = TRUE /\ presented = 0
  /\ buffer_queue = <<>> /\ frame_writer = "none" /\ writers = 0
  /\ pcW = "poll" /\ buffer = None /\ taken = 0
  /\ conn = "closed"

-------------------------------------------------------------------------------
(* Plausible mistakes in the definitions below; the specification does not *)
(* use them.                                                               *)

IgnoreLostDisplay == exit_main_loop \/ can_read_buffer
ForgetPush ==
  /\ pcM = "push"
  /\ can_read_buffer' = TRUE /\ frame' = "none" /\ pcM' = "check"
  /\ UNCHANGED <<exit_main_loop, display, presented, shared, writerVars, conn>>
ResetAndStay ==
  /\ pcW = "add" /\ Alive
  /\ frame_writer' = "none" /\ buffer' = None /\ pcW' = "poll"
  /\ UNCHANGED <<exit_main_loop, mainVars, buffer_queue, writers, taken, conn>>

-------------------------------------------------------------------------------
(* The main thread.                                                        *)

\* A frame object and a new buffer for it.
RequestNextFrame == frame' = "requested"

Top ==
  /\ pcM = "top"
  /\ IF exit_main_loop
     THEN pcM' = "join" /\ UNCHANGED <<frame, can_read_buffer>>
     ELSE pcM' = "check" /\ can_read_buffer' = FALSE /\ RequestNextFrame
  /\ UNCHANGED <<exit_main_loop, display, presented, shared, writerVars, conn>>

\* The condition of the dispatch loop, and what follows the loop: on a lost
\* display wl_display_dispatch fails at once and the next frame is requested.
DispatchOver == exit_main_loop \/ can_read_buffer \/ display = "lost"

CheckLoop ==
  /\ pcM = "check"
  /\ pcM' = IF DispatchOver THEN "top" ELSE "blocked"
  /\ UNCHANGED <<exit_main_loop, display, frame, can_read_buffer, presented, shared,
                 writerVars, conn>>

Join ==
  /\ pcM = "join" /\ pcW = "done"
  /\ pcM' = "done"
  /\ UNCHANGED <<exit_main_loop, display, frame, can_read_buffer, presented, shared,
                 writerVars, conn>>

-------------------------------------------------------------------------------
(* The callbacks.                                                          *)

Handler == pcM = "blocked" /\ display = "up"
FrameOnly == UNCHANGED <<exit_main_loop, display, can_read_buffer, presented, shared,
                         writerVars, conn>>

\* The buffer's parameters are sent; when no buffer object can be allocated the
\* callback returns and nobody asks for another frame.
FrameHandleLinuxDmabuf ==
  /\ Handler /\ frame = "requested"
  /\ frame' \in {"params", "stalled"}
  /\ pcM' = "check"
  /\ FrameOnly

DmabufCreated == Handler /\ frame = "params" /\ frame' = "copy" /\ pcM' = "check" /\ FrameOnly

\* dmabuf_failed and frame_handle_failed are empty.
DmabufFailed == Handler /\ frame = "params" /\ frame' = "stalled" /\ pcM' = "check" /\ FrameOnly
FrameHandleFailed ==
  /\ Handler /\ frame \in {"requested", "params", "copy"}
  /\ frame' = "stalled" /\ pcM' = "check"
  /\ FrameOnly

Exit == pcM' = "exited"

NeedsWriter == frame_writer = "none"
CreateWriter == frame_writer' = "live" /\ writers' = writers + 1

\* The first half of frame_handle_ready.  The writer thread may reset the pointer
\* at any time, then a second FrameWriter is created.  The constructor ends the
\* process when an encoder or a device is missing.
FrameHandleReady ==
  /\ Handler /\ frame = "copy" /\ presented < MaxFrames
  /\ presented' = presented + 1
  /\ \/ NeedsWriter /\ CreateWriter /\ pcM' = "push"
     \/ NeedsWriter /\ Exit /\ UNCHANGED <<frame_writer, writers>>
     \/ ~ NeedsWriter /\ pcM' = "push" /\ UNCHANGED <<frame_writer, writers>>
  /\ UNCHANGED <<exit_main_loop, display, frame, can_read_buffer, buffer_queue, writerVars, conn>>

\* The second half: buffer_queue.push and can_read_buffer.
Push ==
  /\ pcM = "push"
  /\ buffer_queue' = Append(buffer_queue, presented)
  /\ can_read_buffer' = TRUE /\ frame' = "none" /\ pcM' = "check"
  /\ UNCHANGED <<exit_main_loop, display, presented, frame_writer, writers, writerVars, conn>>

DisplayLost ==
  /\ Handler
  /\ display' = "lost" /\ pcM' = "top"
  /\ UNCHANGED <<exit_main_loop, frame, can_read_buffer, presented, shared, writerVars, conn>>

HandleGracefulTermination ==
  /\ Alive /\ ~ exit_main_loop
  /\ exit_main_loop' = TRUE
  /\ UNCHANGED <<mainVars, shared, writerVars, conn>>

-------------------------------------------------------------------------------
(* The writer thread.                                                      *)

Leave == exit_main_loop
Pop == <<Head(buffer_queue), Tail(buffer_queue)>>

\* The loop polls the flag and the queue.
PollQueue ==
  /\ pcW = "poll" /\ Alive
  /\ \/ /\ Leave /\ pcW' = "reset"
        /\ UNCHANGED <<buffer_queue, buffer, taken>>
     \/ /\ ~ Leave /\ buffer_queue # <<>>
        /\ buffer' = Pop[1] /\ buffer_queue' = Pop[2] /\ taken' = taken + 1
        /\ pcW' = "add"
  /\ UNCHANGED <<exit_main_loop, mainVars, frame_writer, writers, conn>>

\* add_frame: the encoder keeps the frame, emits a packet, or fails; then
\* wf_buffer_destroy.
AddFrame ==
  /\ pcW = "add" /\ Alive
  /\ \/ pcW' \in {"poll", "reset"} /\ buffer' = None
     \/ pcW' = "send" /\ UNCHANGED buffer
  /\ UNCHANGED <<exit_main_loop, mainVars, shared, taken, conn>>

\* send_data: the first call binds the port, which may end the process, and
\* blocks in accept; without a connection the packet is dropped.
Listen ==
  /\ pcW \in {"send", "drain_send"} /\ Alive /\ conn = "closed"
  /\ \/ conn' = "accept" /\ UNCHANGED pcM
     \/ Exit /\ UNCHANGED conn
  /\ UNCHANGED <<exit_main_loop, display, frame, can_read_buffer, presented, shared, writerVars>>

\* SIGPIPE is not ignored.
SendDies ==
  /\ pcW \in {"send", "drain_send"} /\ Alive /\ conn = "gone"
  /\ Exit
  /\ UNCHANGED <<exit_main_loop, display, frame, can_read_buffer, presented, shared, writerVars, conn>>

Sent ==
  /\ pcW = "send" /\ Alive /\ conn \notin {"closed", "accept"}
  /\ pcW' \in {"poll", "reset"} /\ buffer' = None
  /\ UNCHANGED <<exit_main_loop, mainVars, shared, taken, conn>>

\* frame_writer = nullptr: the pointer is cleared, then the destructor drains.
Reset ==
  /\ pcW = "reset" /\ Alive
  /\ frame_writer' = "none"
  /\ pcW' \in IF frame_writer = "none" THEN {"done"} ELSE {"done", "drain_send"}
  /\ UNCHANGED <<exit_main_loop, mainVars, buffer_queue, writers, buffer, taken, conn>>

DrainSent ==
  /\ pcW = "drain_send" /\ Alive /\ conn \notin {"closed", "accept"}
  /\ pcW' = "done"
  /\ UNCHANGED <<exit_main_loop, mainVars, shared, buffer, taken, conn>>

\* The tablet connects (or accept fails) and goes away.
Client ==
  /\ Alive
  /\ \/ conn = "accept" /\ conn' \in {"open", "broken"}
     \/ conn = "open" /\ conn' = "gone"
  /\ UNCHANGED <<exit_main_loop, mainVars, shared, writerVars>>

-------------------------------------------------------------------------------
Loop       == Top \/ CheckLoop \/ Push \/ Join
Compositor == FrameHandleLinuxDmabuf \/ DmabufCreated \/ FrameHandleReady
Failures   == DmabufFailed \/ FrameHandleFailed \/ DisplayLost
Writer     == PollQueue \/ AddFrame \/ Listen \/ Sent \/ Reset \/ DrainSent

Next == Loop \/ Compositor \/ Failures \/ Writer \/ SendDies \/ HandleGracefulTermination \/ Client

Spec == Init /\ [][Next]_vars

\* Both threads run and the compositor answers requests.  Nothing is assumed of the
\* tablet (accept has no time limit), of signals or of failures.
FairSpec == /\ Spec
            /\ WF_vars(Loop) /\ WF_vars(Compositor) /\ WF_vars(Writer)

-------------------------------------------------------------------------------
(* Properties.                                                             *)

TypeOK ==
  /\ exit_main_loop \in BOOLEAN /\ display \in {"up", "lost"}
  /\ pcM \in {"top", "check", "blocked", "push", "join", "done", "exited"}
  /\ frame \in {"none", "requested", "params", "copy", "stalled"}
  /\ can_read_buffer \in BOOLEAN /\ presented \in 0 .. MaxFrames
  /\ buffer_queue \in Seq(1 .. MaxFrames)
  /\ frame_writer \in {"none", "live"} /\ writers \in 0 .. 2
  /\ pcW \in {"poll", "add", "send", "reset", "drain_send", "done"}
  /\ buffer \in 1 .. MaxFrames \cup {None} /\ taken \in 0 .. MaxFrames
  /\ conn \in {"closed", "accept", "open", "broken", "gone"}

\* write_loop uses frame_writer without a test or a lock: whenever it holds a
\* buffer the FrameWriter exists, because the callback that pushed the buffer
\* created it and only write_loop itself, on its way out, resets it.
WriterThere == buffer # None => frame_writer = "live" /\ writers = 1

\* Frames reach the encoder in the order the compositor presented them, none
\* skipped and none twice, and the rest waits in the queue in that order.
InOrder == /\ buffer # None => buffer = taken
           /\ \A i \in 1 .. Len(buffer_queue) : buffer_queue[i] = taken + i
           /\ pcM # "push" => taken + Len(buffer_queue) = presented \/ pcM = "exited"

\* When main returns (and destroys the GBM device and the globals), write_loop
\* has ended and its FrameWriter was destroyed.  A FrameWriter that is left was
\* created by a late callback and never saw a frame.
WriterGone == pcM = "done" => /\ pcW = "done" /\ buffer = None
                              /\ frame_writer = "live" => writers = 2 \/ taken = 0

\* write_loop waits in accept, without a time limit, for a tablet that may never
\* come; whatever was pushed meanwhile waits in the queue.
WaitsForTablet == conn = "accept"

\* Every frame that was pushed reaches the encoder, unless write_loop waits for the
\* tablet, the program is told to stop, ends, or the encoder has refused a frame.
EveryFrameTaken ==
  \A n \in 1 .. MaxFrames :
    (presented = n) ~> \/ taken >= n \/ WaitsForTablet \/ exit_main_loop \/ ~ Alive
                       \/ pcW \in {"reset", "drain_send", "done"}

\* The program ends once it was told to, unless main joins a write_loop that waits
\* for the tablet, or the compositor owes it no event: a frame has failed and
\* nobody asked for another one, or the screen stays as it is.
StopsUnlessStalled ==
  exit_main_loop ~> \/ ~ Alive \/ WaitsForTablet
                    \/ frame = "stalled" \/ (frame = "copy" /\ presented = MaxFrames)
===============================================================================
