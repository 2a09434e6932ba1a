----------------------------- MODULE PortalCapture -----------------------------
(***************************************************************************)
(* Capturing a screencast of the desktop portal (capture/portal.c,         *)
(* pipewire.c).  A thread of PipeWire's takes the compositor's frames and  *)
(* duplicates the descriptors of their planes; the recording loop imports  *)
(* the last frame as a texture, draws it and closes the descriptors.  Both *)
(* sides share dmabuf_data, the format and damaged under a mutex.          *)
(*                                                                         *)
(* A frame is "current" when it has what is on the screen now, and "old"   *)
(* when the screen has changed since.  The crop region and what is offered *)
(* in the negotiation are left out, as is the clock: a frame may be due at *)
(* any time.  So is the cursor, which is part of the frames or hidden: a   *)
(* buffer that only moves the cursor does not come.                        *)
(***************************************************************************)
EXTENDS PortalSession, Functions

CONSTANTS Fds,       \* descriptors for planes, as the kernel hands them out
          MaxPlanes  \* GSR_PIPEWIRE_DMABUF_MAX_PLANES

ASSUME CaptureAssumption ==
  /\ Fds \subseteq Nat \ {0} /\ IsFiniteSet(Fds)
  /\ MaxPlanes \in Nat \ {0} /\ Cardinality(Fds) >= 2 * MaxPlanes

VARIABLES held,                       \* what gsr_pipewire has acquired, in order
          open,                       \* the kernel: descriptors of planes that are open
          queued, promised,           \* the newest buffer of the stream, one to come
          pcT, taken,                 \* PipeWire's thread, the frame it has dequeued
          negotiated, dmabuf_fds, frame, same_format, damaged,   \* gsr_pipewire
          capture_fds, paused, video, \* the recording loop, the last picture
          excused, misused            \* history

kernel   == <<open, misused>>
stream   == <<queued, promised>>
thread   == <<pcT, taken>>
shared   == <<negotiated, dmabuf_fds, frame, same_format, damaged>>
loop     == <<paused, video, excused>>
session  == <<setup, portal, dbus, history>>
vars == <<session, pc, held, kernel, stream, thread, shared, capture_fds, loop>>

NoFrame == "none"
Bad == 0          \* not a descriptor: dup() failed, or it was closed or handed on

InitPipewire ==
  /\ held = <<>> /\ open = {} /\ misused = FALSE /\ queued = NoFrame /\ promised = FALSE
  /\ pcT = "none" /\ taken = NoFrame
  /\ negotiated = FALSE /\ dmabuf_fds = <<>> /\ frame = NoFrame /\ same_format = TRUE
  /\ damaged = FALSE
  /\ capture_fds = <<>> /\ paused = FALSE /\ video = NoFrame /\ excused = FALSE

Init == InitSession /\ InitPipewire

-------------------------------------------------------------------------------
(* Plausible mistakes in the definitions below; the specification does not *)
(* use them.                                                               *)

KeptToo == dmabuf_fds
DamageLater == damaged

-------------------------------------------------------------------------------
(* Descriptors.                                                            *)

Of(fds) == Range(fds) \ {Bad}

\* close(): a descriptor that is closed already may be another's by now.
Close(fds) == /\ misused' = (misused \/ ~ Of(fds) \subseteq open)
              /\ open' = open \ Of(fds)

\* The descriptors of the new planes, from those that are free; each may fail.
Lowest(free, i) == CHOOSE fd \in free : Cardinality({other \in free : other < fd}) = i - 1
Dups(free) ==
  UNION {{[i \in 1 .. n |-> IF i \in bad THEN Bad ELSE Lowest(free, i)] : bad \in SUBSET (1 .. n)}
           : n \in 1 .. MaxPlanes}

-------------------------------------------------------------------------------
(* The compositor and PipeWire's thread.                                   *)

Aged(f) == IF f = "current" THEN "old" ELSE f

\* The screen changes, and the buffer with it is the stream's newest.
Compose ==
  /\ pcT # "none" /\ negotiated
  /\ queued' = "current" /\ promised' = FALSE
  /\ taken' = Aged(taken) /\ frame' = Aged(frame) /\ video' = Aged(video)
  /\ excused' = FALSE
  /\ UNCHANGED <<session, pc, held, kernel, pcT, negotiated, dmabuf_fds, same_format, damaged,
                 capture_fds, paused>>

\* on_param_changed_cb: a format.  Its buffers are new and so is the first of them, but
\* a frame of the old format may be waiting for the recorder.
ParamChanged ==
  /\ pcT = "idle" /\ negotiated' = TRUE
  /\ same_format' = (same_format /\ frame = NoFrame)
  /\ queued' = NoFrame /\ promised' = TRUE
  /\ UNCHANGED <<session, pc, held, kernel, thread, dmabuf_fds, frame, damaged, capture_fds, loop>>

\* on_process_cb takes the newest buffer and gives the older ones back.
Dequeue ==
  /\ pcT = "idle" /\ queued # NoFrame
  /\ pcT' = "process" /\ taken' = queued /\ queued' = NoFrame
  /\ UNCHANGED <<session, pc, held, kernel, promised, shared, capture_fds, loop>>

\* Under the mutex its planes take the place of those that nobody has asked for.
NowDamaged == TRUE

Process ==
  /\ pcT = "process" /\ pcT' = "idle" /\ taken' = NoFrame
  /\ LET kept == open \ Of(dmabuf_fds)
     IN  /\ dmabuf_fds' \in Dups(Fds \ kept)
         /\ open' = kept \cup Of(dmabuf_fds')
         /\ misused' = (misused \/ ~ Of(dmabuf_fds) \subseteq open)
  /\ frame' = taken /\ same_format' = TRUE /\ damaged' = NowDamaged
  /\ UNCHANGED <<session, pc, held, stream, negotiated, capture_fds, loop>>

Thread == Dequeue \/ Process

-------------------------------------------------------------------------------
(* gsr_capture_portal_start and gsr_capture_portal_stop.                   *)

Acquired == <<"fd", "mutex", "thread_loop", "context", "core", "stream">>

\* gsr_pipewire_init and gsr_pipewire_setup_stream, each step of which may fail.  With
\* the core there, the server's version is waited for, or an error.
SetupStream ==
  /\ pc = "pipewire" /\ Len(held) < Len(Acquired)
  /\ \/ held' = Append(held, Acquired[Len(held) + 1]) /\ UNCHANGED pc
     \/ held # <<>> /\ pc' = Fails /\ UNCHANGED held
  /\ UNCHANGED <<session, kernel, stream, thread, shared, capture_fds, loop>>

\* The stream is connected and the loop unlocked: callbacks come from now on.
Connected ==
  /\ pc = "pipewire" /\ held = Acquired /\ pc' = "dimensions" /\ pcT' = "idle"
  /\ UNCHANGED <<session, held, kernel, stream, taken, shared, capture_fds, loop>>

\* gsr_pipewire_map_texture: the last frame is imported and its descriptors are handed
\* to the recorder.  One of another format gives a wrong picture, or none.
CanMap == negotiated /\ dmabuf_fds # <<>> /\ dmabuf_fds[1] # Bad
Handed == <<>>
Imported == IF same_format THEN {frame} ELSE {"garbled", video}

MapTexture ==
  /\ capture_fds' = dmabuf_fds /\ dmabuf_fds' = Handed /\ frame' = NoFrame
  /\ same_format' = TRUE

\* get_frame_dimensions: the first frame tells the size; it is not drawn.
MeasureFrame ==
  /\ pc = "dimensions" /\ CanMap /\ MapTexture
  /\ pc' = "measured" /\ excused' = (frame = "current")
  /\ UNCHANGED <<session, held, kernel, stream, thread, negotiated, damaged, paused, video>>

\* Five seconds without one.
NoDimensions ==
  /\ pc = "dimensions" /\ pc' = Fails
  /\ UNCHANGED <<session, held, kernel, stream, thread, shared, capture_fds, loop>>

\* gsr_capture_portal_cleanup_plane_fds, after the size is taken and after each frame.
CleanupPlaneFds ==
  /\ pc \in {"measured", "drawn"} /\ pc' = "loop"
  /\ Close(capture_fds) /\ capture_fds' = <<>>
  /\ UNCHANGED <<session, held, stream, thread, shared, loop>>

\* A set-up that failed and a recording that ends go the same way: the recorder's
\* descriptors, then PipeWire's thread, which finishes its callback, then the rest.
StopCapture ==
  /\ pc \in {Fails, "stop"} /\ pc' = "join"
  /\ Close(capture_fds) /\ capture_fds' = <<>>
  /\ UNCHANGED <<session, held, stream, thread, shared, loop>>

StopThread ==
  /\ pc = "join" /\ pcT \in {"none", "idle"} /\ pc' = "deinit" /\ pcT' = "none"
  /\ UNCHANGED <<session, held, kernel, stream, taken, shared, capture_fds, loop>>

ClosePending == Close(dmabuf_fds)

Deinit ==
  /\ pc = "deinit" /\ pc' = "exited"
  /\ ClosePending /\ dmabuf_fds' = <<>> /\ held' = <<>>
  /\ frame' = NoFrame /\ same_format' = TRUE /\ damaged' = FALSE /\ negotiated' = FALSE
  /\ queued' = NoFrame /\ promised' = FALSE
  /\ video' = NoFrame /\ excused' = FALSE /\ paused' = FALSE
  /\ UNCHANGED <<session, thread, capture_fds>>

-------------------------------------------------------------------------------
(* The recording loop, in the content frame rate mode.                     *)

\* is_damaged and clear_damage take the mutex one after the other.
IsDamaged ==
  /\ pc = "loop" /\ damaged /\ pc' = "clear"
  /\ UNCHANGED <<session, held, kernel, stream, thread, shared, capture_fds, loop>>

ClearDamage ==
  /\ pc = "clear" /\ damaged' = FALSE
  /\ pc' = IF paused THEN "loop" ELSE "capture"
  /\ excused' = (excused \/ (paused /\ frame = "current"))
  /\ UNCHANGED <<session, held, kernel, stream, thread, negotiated, dmabuf_fds, frame, same_format,
                 capture_fds, paused, video>>

\* gsr_capture_portal_capture; without a new frame the picture stays.
CaptureFrame ==
  /\ pc = "capture" /\ CanMap /\ MapTexture /\ pc' = "drawn"
  /\ video' \in Imported
  /\ UNCHANGED <<session, held, kernel, stream, thread, negotiated, damaged, paused, excused>>

NothingNew ==
  /\ pc = "capture" /\ ~ CanMap /\ pc' = "loop"
  /\ excused' = (excused \/ frame = "current")
  /\ UNCHANGED <<session, held, kernel, stream, thread, shared, capture_fds, paused, video>>

TogglePause ==
  /\ pc = "loop" /\ paused' = ~ paused
  /\ UNCHANGED <<session, pc, held, kernel, stream, thread, shared, capture_fds, video, excused>>

LeaveLoop ==
  /\ pc = "loop" /\ pc' = "stop"
  /\ UNCHANGED <<session, held, kernel, stream, thread, shared, capture_fds, loop>>

Recorder == \/ SetupStream \/ Connected \/ MeasureFrame \/ CleanupPlaneFds \/ StopCapture
            \/ StopThread \/ Deinit \/ IsDamaged \/ ClearDamage \/ CaptureFrame \/ NothingNew

Session == /\ Answer \/ SetupDbus \/ StartAgain
           /\ UNCHANGED <<held, kernel, stream, thread, shared, capture_fds, loop>>

Next == \/ Session \/ Recorder \/ NoDimensions \/ TogglePause \/ LeaveLoop
        \/ Compose \/ ParamChanged \/ Thread

Spec == Init /\ [][Next]_vars

\* The recorder and PipeWire's thread run on, and the thread sees between two callbacks
\* that it is to stop; the portal answers what it took; five seconds pass; a new format is
\* followed by a frame.
FairSpec ==
  /\ Spec /\ WF_vars(Recorder) /\ WF_vars(Thread) /\ WF_vars(NoDimensions) /\ SF_vars(StopThread)
  /\ WF_vars(Session /\ (Answer \/ SetupDbus)) /\ WF_vars(promised /\ Compose)

-------------------------------------------------------------------------------
(* Properties.                                                             *)

Frames == {NoFrame, "current", "old"}

TypeOK ==
  /\ TypeOKSession
  /\ Len(held) <= Len(Acquired) /\ open \subseteq Fds
  /\ {queued, taken, frame} \subseteq Frames /\ video \in Frames \cup {"garbled"}
  /\ pcT \in {"none", "idle", "process"}
  /\ {promised, negotiated, same_format, damaged, paused, excused, misused} \subseteq BOOLEAN
  /\ {dmabuf_fds, capture_fds} \subseteq UNION {[1 .. n -> Fds \cup {Bad}] : n \in 0 .. MaxPlanes}

\* A plane's descriptor is open in one place, PipeWire's thread or the recorder, is
\* closed once, by whoever has it, and none is left when the recorder has stopped, at
\* whatever step of the set-up or of a frame that was.
FdsOwned ==
  /\ ~ misused
  /\ open = Of(dmabuf_fds) \cup Of(capture_fds)
  /\ Of(dmabuf_fds) \cap Of(capture_fds) = {}
  /\ pc = "exited" => open = {} /\ held = <<>>

\* "'content' option matches the recording frame rate to the captured content"
\* (main.cpp:1281): what the compositor sends is in the picture or on its way to it.
\* It is let go, until the next frame, while the recording is paused, when it is the
\* first and only tells the size, and when its descriptor could not be duplicated.
NothingMissed ==
  pc \in {"loop", "clear", "capture", "drawn"} /\ ~ excused /\ video # "current" =>
    \/ promised \/ "current" \in {queued, taken}
    \/ frame = "current" /\ (damaged \/ pc \in {"clear", "capture"})

\* When nothing changes any more the picture is the screen's, or one of the above.
CatchesUp ==
  <>[][Recorder \/ Thread \/ (promised /\ Compose)]_vars =>
    <>[](pc = "exited" \/ paused \/ excused \/ video = "current")

\* The set-up ends, with a capture or a recorder that has stopped, although it waits for
\* each answer for as long as that takes.
SetupEnds == pc = "CreateSession" ~> pc \in {"loop", "exited"}

\* "If you select to save the session (token) in the desktop portal capture popup then
\* the session will be saved for the next time you use "portal", but the session will be
\* ignored unless you run GPU Screen Recorder with the '-restore-portal-session yes'
\* option" (main.cpp:1094): the file gets the token the portal granted; a recording that
\* is to restore a token and is granted no new one leaves it in the file; and nothing else
\* touches the file.  (A recording without the option that is granted none erases the
\* token, which the text only ignores: the property leaves that write open.)
TokenRemembered ==
  [][IF pc = "save" /\ pc' # "save"
     THEN /\ granted # NoToken => token_file' = granted
          /\ granted = NoToken /\ restore_portal_session => UNCHANGED token_file
     ELSE UNCHANGED token_file]_vars
===============================================================================
