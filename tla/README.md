# Verification of wl-screenshare

wl-screenshare turns an old tablet into a second monitor of a Wayland desktop. A
server program captures an output, encodes it and sends the packets of the encoder over
TCP; an Android application cuts the byte stream back into packets and decodes them.
The repository holds three servers (a small one of its own and modified copies of
wf-recorder and gpu-screen-recorder) and one application.

This directory holds TLA+ models of those programs, the TLC configurations that check
them on small instances, and proofs, for every value of the constants, about the buffer pool
and the process of wf-recorder, the sound readers of both recorders, the process of
wl-screenshare-server, the stream from the server to the tablet, and gpu-screen-recorder's
start-up, recording loop, KMS protocol, X11 and portal captures.
`PROJECT.json` lists the components, the runs, the source lines behind every
definition, the hazards and the theorems. Paths below are relative to `src/`.

- [Inventory](#inventory): the parts, their state and what makes them hard
- [Modules](#modules): which module models what, and how
- [Runs](#runs): what is checked, with which bounds, and what it shows
- [Fairness](#fairness)
- [Proofs](#proofs)
- [Disagreements](#disagreements-between-code-and-documents)
- [Not modelled](#not-modelled), [Plan](#plan)


## Inventory

### Stream: `server.cpp` (three identical copies)

State: a listening socket `s_socket` and one connection `c_socket`, both -1 at first.
`send_data` first calls `init_server`, which binds, listens and *waits in accept* the
first time, and then sends a header of four bytes (the size) and the payload. Packets of
at most three bytes are dropped. Nothing ignores SIGPIPE. The class has no lock: what
makes a packet whole on the wire is the mutex of its callers. `close_server`,
`restart_server` and `recv_data` are not called by any of the three programs.

Correct when: packets are whole on the wire, none is lost while the tablet stays, and no
caller waits for ever.

### Tablet: `ShareScreenActivity.java`

A thread started by the first `surfaceChanged` connects, starts the decoder and loops
over `read`. TCP gives it any piece of the stream, so the parser keeps a partial frame
(`toSend`, `remainingSize`) and a rest of the array (`buff`, `d`). A whole frame waits
for an input buffer of the decoder (`freeInputs.take()`), which the decoder's callbacks
put back. `surfaceDestroyed` interrupts the thread, which only `take` notices.

Correct when: the decoder gets the packets that were sent, and neither the parser nor
the decoder's queue leaves a frame behind.

### wf-recorder

`buffer-pool.hpp` is a ring of up to 16 frame buffers that grows when it is full. Its two
indices are moved under a mutex; the flags `released` and `available` of a buffer are
atomics that the other thread polls without it, and references to buffers are held
outside of it.

`main.cpp` runs three threads. The *main thread* polls for a free buffer, asks the
compositor for a frame, and dispatches Wayland events until it was copied; the callbacks
(shared memory or dmabuf) run there. The *writer thread* (`write_loop`) polls for a
frame, creates the `FrameWriter` and the `AudioReader` on the first one, aligns video and
audio time, and encodes. The *audio thread* (PulseAudio's own loop or PipeWire's
callback) adds audio to the same `FrameWriter`. A signal sets `exit_main_loop`; a failure
to write a packet sets it too.

`pulse.cpp` and `pipewire.cpp` are the two audio readers. PipeWire's looks for the device
it was told to record from: it asks for the list of nodes and waits, with the lock of
PipeWire's loop released, for its end. Both put fragments of any size together to the
frames of the encoder.

Correct when: no buffer is written and read at once, frames keep their order, nobody uses
an encoder that is gone, nothing runs when main returns, the sound is cut into whole
frames, and the program stops.

### wl-screenshare-server

The same structure without a pool and without audio: every frame has a buffer of its own,
a queue without a bound (`atomic_queue.hpp`) leads from the callbacks to `write_loop`,
and the pointer `frame_writer` is created by a callback and reset by the writer thread.

Correct when: the encoder exists whenever the writer uses it, frames keep their order,
and both threads end.

### gpu-screen-recorder

- *Recording loop* (`src/main.cpp`): the main thread paces and encodes frames and
  handles pause and save requests between frames; one thread per audio device reads,
  fills gaps with silence and encodes; `write_output_mutex` guards the output, which is
  the tablet and a file or, in replay mode, a deque of packets of a given length in time.
  A save copies the deque under the mutex and writes a file in a thread of its own.
- *KMS* (`kms/`, `src/capture/kms.c`): capturing a monitor needs privileges, so a server
  process answers requests for the DRM planes over a socket. The recorder starts it
  (directly or with pkexec), accepts its connection on a socket file, replaces it by one
  end of a socket pair, and makes one call per frame, which passes descriptors.
- *X11 captures* (`src/capture/xcomposite.c`, `src/capture/nvfbc.c`): a window, the window
  that has the focus, or the screen. The recorder follows a window through resizes and
  re-creations of its pixmap, and makes NvFBC's session again when a grab fails.
- *Damage* (`src/damage.c`, `src/cursor.c`): in the content frame rate mode a frame is only
  made when something changed. One XDamage object and one flag serve whatever is tracked.
- *Portal* (`src/capture/portal.c`, `src/dbus.c`): the recorder asks the desktop for a
  screencast in three calls, each answered later by a signal, and keeps a restore token in
  a file from one recording to the next.
- *PipeWire* (`src/pipewire.c`): the portal's stream arrives on a thread of its own, which
  duplicates the descriptors of each frame; the recording loop imports and closes them.
- *Sound device* (`src/sound.cpp`): puts periods together from the server's fragments,
  within a time limit.
- *Start-up* (`src/main.cpp`, `src/egl.c`, `src/utils.c`): from options, display server,
  cards and FFmpeg to context, capture, encoder and codecs, with many replacements.
- *Encoders* (`src/encoder/`), and wrappers of EGL, CUDA and driver libraries.

Correct when: saved files are whole and begin with a key frame, pauses are left out,
requests are served, sound and video stay in step, the program stops with its files
finished; for KMS, an answer belongs to its call, the plane to the monitor, and neither
process outlives or waits for the other for ever; for the other captures, every change is
drawn, the focus is followed, each descriptor is closed once, and the set-up ends in a
capture of what the user granted; and what was chosen at the start fits together.

### What is hard to test here

Threads that poll each other's flags; pointers shared without a lock; waits without a
time limit (accept, a Wayland event, a response) with mutexes held; two processes that
may die between any two steps; a byte stream that is cut anywhere; state read before a
mutex is taken and used after it. The hazards are listed with their lines in
`PROJECT.json`, each with the properties that watch over it.


## Modules

| module | models | composes |
|---|---|---|
| `FrameQueue` | abstract: a bounded FIFO queue of frames | |
| `BufferPool` | `buffer-pool.hpp` and its two threads | refines `FrameQueue` |
| `WfRecorder` | the process of wf-recorder | uses the queue the pool implements |
| `WlScreenshareServer` | the process of wl-screenshare-server | |
| `PacketChannel` | abstract: packets arrive whole and in order | |
| `StreamServer` | `server.cpp` and the threads that call `send_data` | |
| `PlayerThread` | the tablet's surface callbacks, parser and decoder queue | |
| `ScreenStream` | server, connection and tablet | `StreamServer`, `PlayerThread`; refines `PacketChannel` |
| `KmsProtocol` | the recorder's KMS client and `gsr-kms-server` | |
| `GpuScreenRecorder` | recording loop, audio threads, saves | |
| `X11Capture` | damage, the X11 and NvFBC captures, the content mode | |
| `PortalSession` | the portal's calls, answers and restore token | |
| `PortalCapture` | PipeWire's stream and the recording loop that draws it | extends `PortalSession` |
| `PeriodStream` | abstract: the sound, cut into periods | |
| `SoundServer` | the sound server, as both programs see it | |
| `PulseDevice` | gpu-screen-recorder's sound device | extends `SoundServer` |
| `WfAudioReader` | wf-recorder's audio readers | extends `SoundServer` |
| `AudioReaders` | either program against the server | `PulseDevice`, `WfAudioReader`; refines `PeriodStream` |
| `Startup` | from the command line to the first frame | |
| `WfRecorderProofs`, `WlScreenshareServerProofs`, `ScreenStreamProofs`, `KmsProtocolProofs`, `X11CaptureProofs`, `PortalCaptureProofs` | the theorems about the module they extend | |
| `GpuScreenRecorderProofs` | the theorems about gpu-screen-recorder's start and its recording loop | extends `GpuScreenRecorder`, `Startup` |
| `EncoderInputProofs` | the theorems about what the encoders are fed with | extends `BufferPool`, `AudioReaders` |

`MC_*` modules extend a module with the values a run gives its constants. Each module has
a section of small operators named after a plausible mistake (a dropped guard, a missing
reset); no specification uses them, they document what every property is able to catch.

**BufferPool.** `bufs`, `bufs_size`, `capture_idx`, `encode_idx`, `released`, `available`
and the mutex are the variables of the class, `content` tells which frame a buffer holds.
`next_capture` and `next_encode` are three steps each, because the other thread can see
the state between the two flag writes. The shift of the slots and of `encode_idx` happens
under the mutex and is one step. The writer's reference `buffer` survives steps of the
main thread, as in `write_loop`.

**WfRecorder.** The pool is the queue it implements: `Publish` is `next_capture`,
`NextEncode` is `next_encode`, and a free buffer means fewer than `PoolSize` frames. A
frame is its `base_usec`. `frame` is the state of the screencopy object, `stale` says that
an answer for a destroyed one may come. `DisplayLost`, failing allocation, a failing
encoder, a failing `accept` and a tablet that leaves are steps of the environment.
`std::exit` and SIGPIPE end the process (`pcM = "exited"`).

**WlScreenshareServer.** As above; `buffer` is the writer's buffer, `taken` counts its
frames, `writers` counts the `FrameWriter` objects ever made. Time stamps are left out: they
are computed from `base_usec` (`main.cpp:87`), a field nothing writes.

**StreamServer, PlayerThread, ScreenStream.** `wire` is the bytes in the connection, at
most `Window` before a send blocks. A byte is a digit in base `Radix`. `init_server`,
`accept`, the tests and the two sends of `send_data` are steps; `Locked` says whether
callers share a mutex (gpu-screen-recorder and, with one thread, wl-screenshare-server).
The tablet's `Read` takes any number of bytes; `buff` keeps the length of the Java array,
zeros included, which matters in the loop that extends a short header.

**KmsProtocol.** One side is the client's control (`gsr_kms_client_init`, one call of
`gsr_kms_client_get_kms` per frame, `deinit`), the other the server's main loop;
`toServer` and `toClient` are the socket pair, `initial` the socket file and the first
connection. A test for a message and the `waitpid` after it are two steps. Planes have a
kind, a connector and a size; `KmsGetFb` is the server's filter, `FindMonitorDrm` and
`FindCursorDrmIfOnMonitor` are the recorder's choice. Both sides may be killed anywhere.

**GpuScreenRecorder.** One tick is the period of a frame. A critical section of
`write_output_mutex` is a step; what the code reads before taking it is a step before
(`erased_arg`, `audio_frame_time`). Packets carry their number, stream and key flag;
`file` is what the thread of a save has written. `pushed`, `recorded`, `erased_now` and
`torn` are history.

**X11Capture.** One iteration of the recording loop in its order: the events, the tick of
the capture, the damage of a new target, the pointer, the frame, and the test of `paused`
after the damage was cleared. The picture (`video`) is the window it shows, `Stale` once that window
has changed. The X server keeps a region of damage until it is subtracted and holds events
back; X errors come later, so a destroyed window may still be asked about. `excused` is
history: a way in which the code is known to let a change go has happened.

**PortalSession, PortalCapture.** `owed` are calls the portal has not answered, `responses`
the signals on the bus; the recorder takes the next one. A failed SelectSources is tried
again without the token. `held` is what `gsr_pipewire` has acquired, given back in reverse
order when a step fails; `open` is the kernel's set of descriptors. PipeWire's thread and
the recorder meet at the mutex, so its critical sections are the steps. Up to `MaxRuns`
recordings follow each other, which is what the token file is for.

**SoundServer, PulseDevice, WfAudioReader, AudioReaders.** A sample is the moment it was
recorded at, a fragment is any number of them, or a hole, whose samples count as not
recorded. `pa_sound_device_read` is a step per fragment, with its time limit; the buffer is
`output_data`, whose stale contents stay in it as in the code. The PipeWire reader has two
threads, the loop's lock and the wait for the list of nodes.

**Startup.** One step per decision of `main`, on a record `m` of its variables; what the
libraries answer is the constant `Systems`, what they may refuse besides is a choice.
`--info` is an operator, since it asks the same questions along a path of its own.


## Runs

Every run finishes in at most a few minutes with two workers. "States" are distinct
states.

| run | shows | bounds | states |
|---|---|---|---|
| `buffer_pool` | exclusion and order while the ring grows; every frame reaches the encoder; the pool implements `FrameQueue` | N = 4, 9 frames | 10 207 |
| `wf_recorder` | the encoder exists for whoever uses it; time never steps back; the writer ends, unless it waits for the tablet | both audio backends and none, both capture paths; pool 2, 1 failure, clock 2 | 802 067 |
| `wf_recorder_ctrl_c` | expected violation of `CtrlCStops`, with a tablet that comes | shared memory, no audio; pool 2, 1 failure, clock 1 | 14 603 |
| `wl_server` | the encoder exists for the writer; every frame is taken; both threads end; each unless `write_loop` waits for the tablet or the compositor owes no event | 4 frames | 16 886 |
| `screen_stream` | the tablet decodes exactly what was sent, from the first packet on, without loss | 2 callers, 4 packets, headers not cut | 101 098 |
| `screen_stream_split` | expected violation of `ImplementsChannel` | 3 packets | 26 182 |
| `kms_protocol` | calls and answers in step, the right plane and cursor, calls return, the server ends | 2 launches, 2 versions, 7 screens, 5 calls | 2 320 |
| `gsr_recorder` | saves are whole and playable, pauses left out of video and sound, requests served, the recorder stops | 1 audio track, 3 ticks; a recording paused, a replay saved twice | 506 557 |
| `x11_capture` | no change is missed but in named ways, the picture catches up, the focus is followed, NvFBC grabs from a session | 2 windows, 2 monitors, 2 events held back, 5 targets | 244 210 |
| `portal_capture` | the granted stream is captured, descriptors are closed once, the set-up ends, the token is kept | 1 token, 2 recordings, 5 descriptors, 2 planes | 178 018 |
| `audio` | periods are whole, in order and none is left; the named device is recorded | periods of 2, fragments up to 5, 7 samples, 2 fragments queued | 423 774 |
| `startup` | codecs, capture and encoder fit; what `--info` lists works | about 1 000 command lines on 324 systems | 2 497 941 |

The two runs that expect a violation are described under
[Disagreements](#disagreements-between-code-and-documents).

Why the bounds are enough:

- *buffer_pool*: the ring starts with 2 buffers; N = 4 lets it grow twice, with the encode
  slot before, at and after the inserted one, and then stay full. Nine frames take both
  indices more than twice around the largest ring. The theorems hold for every N.
- *wf_recorder*: a pool of 2, one tolerated failure and a clock of two ticks reach a full
  queue, too many failures, frames before, at and after the audio's time base, and each of
  these in every phase of the other threads. Two ticks are needed for `Timeline`: the first
  frame that is stamped may be at tick 1, so that a later one can be ahead of it and another
  step back. The loop itself is not bounded. The theorems hold for every bound.
- *wl_server*: four frames give a queue with a frame being encoded, two waiting and one
  being pushed while the writer resets its pointer. The theorems hold for every number.
- *screen_stream*: two callers with packets of different sizes, one too small to be sent,
  and a window smaller than two packets, so sends block; every cut of the stream. Radix 4
  keeps headers of four digits with small sizes. In `screen_stream_split` one packet is as
  large as the tablet's buffer.
- *kms_protocol*: five calls and a socket for two requests, so that a recorder whose
  server has died fills the socket; more planes than `MaxItems`. The theorems hold for
  every number of calls and all planes.
- *gsr_recorder*: a buffer of two ticks is full and erases packets; three ticks hold a
  pause and its end, or two saves of which one overlaps the other's request.
- *x11_capture*: two monitors give damage on, beside and across the recorded one and a
  pointer that leaves it; two windows a change of focus, a third event of an old window is
  one more of the same. One option per target, with the pointer or without it, and one
  server without XDamage. None of the excuses of `NothingMissed` is idle: without any one of
  them TLC finds a change that is let go, and with damage that is not subtracted it finds
  one for each kind of target.
- *portal_capture*: two recordings give a token that is saved and restored, or refused;
  two planes on either side of the hand-over and one more descriptor, so that a wrongly
  kept one meets its reuse.
- *audio*: a fragment of five is two periods and a rest, seven samples three periods and a
  rest, so a period is put together from one, two and three fragments.
- *startup*: every codec with every container, audio codec and encoder; every target with
  every mode; every output. Vendor "intel" behaves as "amd" and is not in the instance.

The type invariants of the proved modules are theorems; those of the others, and the
invariants of the proofs (`IInv`, `WInv`), were checked with TLC when they were written and
are kept as documentation of the state.

`CHECK_DEADLOCK FALSE` is set where a program may end or where the bound stops it;
`buffer_pool` ends with both threads polling.


## Fairness

Threads of one process are scheduled by the kernel: weak fairness of each thread's steps.
In `BufferPool` a thread that keeps asking for the mutex gets it, although the other
releases and takes it again and again: strong fairness of the four requests. `StopAudio`
in `WfRecorder` is strongly fair because it needs the audio thread between two of its
steps, which happens again and again without being permanent.

The compositor is assumed to answer requests in `WfRecorder` and `WlScreenshareServer`; in
the latter it may stop presenting after the last frame, because a copy with damage waits
for a change. Nobody is assumed to come to somebody who waits in accept: `server.cpp:35` has
no time limit, and the thread waits there with its mutex held and is joined by another one.
`WriterStops`, `StopsUnlessStalled`, `EveryFrameTaken` and gpu-screen-recorder's `Stops`
name this state as one in which a program stays, also when it is told to stop. Only
`wf_recorder_ctrl_c` adds a tablet that comes (`TabletSpec`), so that what it finds is
another hang than this one. In `X11Capture` and `PortalCapture` the recording loop goes on; that a frame is due and that a second is over
(a resize is taken up one second after the last event) comes again and again while the
other steps of the loop go on: strong fairness of these two, as of the stopping of
PipeWire's thread, which needs its lock. The portal answers what it was asked, with
whatever answer, and a buffer that was announced comes. `CatchesUp` and `FollowsFocus` are
about behaviours in which the outside comes to rest, and say so: their premise is
`<>[][Recorder]_vars`. The audio threads go on; the sound server need not. Nothing is
assumed of signals, failures, crashes, the clock, or of the tablet; the properties name the
states in which the code really waits for one of these (`frame = "stalled"`,
`WaitsForTablet`, a tablet that is away, a mutex its own thread holds).


## Proofs

`EncoderInputProofs` is about what the encoders are fed with. About the frames it proves, for
every N >= 2 and every number of frames (`PoolAssumption`):

| theorem | statement |
|---|---|
| `Invariance` | `IInv` is an invariant |
| `TypeCorrect` | indices stay inside the ring |
| `Exclusion` | `NoTearing`: the compositor never writes the buffer that is being encoded |
| `FirstInFirstOut` | `InOrder`: every frame once and in the order of capture |
| `ReferenceStable` | `SameReference`: the buffer tested is the one encoded and released |
| `Ownership` | `OneSide`: no buffer is free and ready at once |
| `Permutation` | `EveryBufferOnce`: growing loses and doubles no buffer |
| `Growth` | `GrowsOnlyWhenFull` |
| `Refinement` | `ImplementsQueue`: the pool is a bounded first-in first-out queue (`FrameQueue`) |

None of the safety properties is inductive. That the encoder gets the next frame depends
on which slots hold which frames, and that on the flags, which change at three different
moments of a call. The invariant counts completed calls instead: `Moved` calls of
`next_capture` and `Retired` calls of `next_encode`; their difference `Used` is the number of
occupied slots, and `Dist(i)` is the distance of slot `i` from the encode slot around the
ring. Then

- `LockInv` ties the mutex to the two control states inside of it;
- `SlotInv` says that the slots are a permutation of the buffers allocated so far;
- `RingInv` says that the capture slot is `Used` behind the encode slot (or equal to it
  when the ring is full) and which control states need a free or an occupied slot;
- `FlagInv` gives both flags of a slot as a function of `Dist`, `Used` and the two control
  states;
- `ContentInv` gives the frame of an occupied slot: `Retired + 1 + Dist(i)`;
- `SameReference` holds the writer's reference to the encode slot.

There is one lemma per action. Growing is the interesting one: when the ring is full the
capture slot equals the encode slot minus one around the ring, the new buffer goes between
them, and the shift of `encode_idx` keeps every `Dist`.

For the refinement the abstract queue has a closed form (`QueueInv`): the numbers
`Cleared + 1 .. Published`, where a frame counts as published from `NextCapturePublish` on
and as cleared from `NextEncodeClaim` on. That it has as many elements as buffers are
available is a bijection between positions of the queue and available buffers
(`WaitingSlots`, `QueueOf`). `Put` is the step that sets `available`, `Get` the one that
clears it; the move of the index, growing included, changes nothing in the queue.

About the sound it proves, for every period, every size of a fragment up to three periods, every
queue of the server and every length of a recording (`PeriodAssumption`, `ServerAssumption`; the
three periods are what is left of wf-recorder's buffer behind the start of one):

| theorem | statement |
|---|---|
| `AudioInvariance` | `AudioInv` is an invariant of both programs |
| `OwnSource` | `SourceFollowed`: the device that was named is the one that is recorded from |
| `PeriodRefinement` | `ImplementsPeriods`: the sound is handed over in whole periods, once and in order (`PeriodStream`) |

That a period is the next one depends on where in the sound its samples are, and they lie in up
to three places: periods handed over, the program's buffer, and fragments that wait. `CutFrom`
says that the periods are the sound's first; `Waits(q, s, from)` that the fragments in `q` are the
rest of the sound from a position on, with holes as empty pieces. In between

- gpu-screen-recorder has the start of a period in `output_data` (`StartInv`) and may have taken
  a part of the fragment at the head, which stays in the queue until all of it is taken
  (`HeadInv`). Both hold while it is `Live`: once the connection is lost a fragment can have been
  copied and not dropped, or `output_data` be full and not handed over, and nothing is read
  any more;
- wf-recorder has less than a fragment and a period in `buf` (`ReaderInv`), and before the stream
  is connected there is no sound.

`RegistryInv` says which answers of PipeWire's list of nodes are outstanding at each point of the
writer thread, and that `source_found` and `source_is_sink` are what the ones that came have told
(`Heard`). Without an error the wait ends only with the last answer, which comes after the node.

`WfRecorderProofs` proves, for every pool of two buffers or more, every number of tolerated
failures, every set of command lines and every bound of the clock (`RecorderAssumption`):

| theorem | statement |
|---|---|
| `Invariance` | `WInv` is an invariant |
| `TypeCorrect` | `TypeOK`: the queue never outgrows the pool, the count of failures stops one past its limit |
| `EncoderThere` | `AudioNeedsWriter`: the audio thread never uses a FrameWriter that is not there |
| `CleanEnd` | `NothingRunsAfterMain`: main returns after every other thread has ended |
| `TimeMovesOn` | `Timeline`: time stamps are never negative and never step back while the display is up |
| `OnlyObtained` | `ObtainedFromCompositor`: a buffer is handed over only when no frame object is outstanding |

`WInv` adds to the types what one thread relies on while another one moves:

- `LoopInv`: the dispatch loop is left only with a copy, with the order to exit or with a lost
  display; the slot found free by the wait stays free until the buffer is handed over; the
  count of failures passes its limit only together with the order to exit (without it even
  the types are not inductive);
- `LifeInv`: the writer's frame stays in the queue until `next_encode`; the audio thread is
  there only between the creation of the writer and the release of the reader;
- `TimeInv`: while the display is up the queue is sorted by time and nothing in it is older
  than the last time stamp given out (`first_frame_ts + sync`). `Timeline` speaks of two
  stamps only; it is inductive with what is still waiting in the queue.

Most actions leave most of it alone and share a lemma; the hand-over of a buffer, the copy
and its failure, the set-up, the time stamp, `next_encode` and the audio time base have one
of their own.

The pool appears in this module as a queue; that `BufferPool` implements such a queue is
`Refinement` above.

`WlScreenshareServerProofs` proves, for every number of frames (`ServerAssumption`):

| theorem | statement |
|---|---|
| `Invariance` | `SInv` is an invariant |
| `TypeCorrect` | control states, counters and the queue keep their types |
| `EncoderThere` | `WriterThere`: `write_loop` never uses a FrameWriter that is not there |
| `Ordered` | `InOrder`: the queue holds the frames that were not taken, in order |
| `CleanEnd` | `WriterGone`: what is left when `main` returns |

`WriterThere` speaks of a thread that reads a pointer without a lock, and rests on what the
other thread did earlier: a callback makes the FrameWriter (`PointerInv`) before it pushes
the buffer (`PushedInv`), nobody but `write_loop` resets it, and `write_loop` has a buffer
only while it encodes (`HeldInv`). `CountInv` adds up the frames that were presented, which
makes `InOrder` inductive; `EndInv` is what a late callback may leave.

`ScreenStreamProofs` proves, for any number of callers, packets of any size a header can
tell, any base of a byte, any window of the connection and any reads of the tablet
(`ScreenAssumption`):

| theorem | statement | needs |
|---|---|---|
| `ServerInvariant` | `ServerInv` is an invariant of the threads that call `send_data` | |
| `NoPacketLost` | `NothingLost`: while the tablet is connected only packets of at most three bytes are dropped | |
| `FromTheStart` | `ConnectedFromTheStart`: the stream a tablet gets begins with the first packet | `Locked` |
| `Invariance` | `Inv` is an invariant of the whole system | `Locked`, `HeadersWhole` |
| `Refinement` | `ImplementsChannel`: server, connection and parser are a channel that delivers packets whole and in order (`PacketChannel`) | `Locked`, `HeadersWhole` |

`Locked` is what gpu-screen-recorder (`write_output_mutex`) and wl-screenshare-server (one
thread) give; wf-recorder does not. `HeadersWhole` is an assumption about the network, which
the code makes silently: `screen_stream_split` shows that the theorem is false without it.

The abstract channel knows packets, the system only bytes, so the invariant has to say which
packets the bytes on their way stand for. They lie on one `Line`, the tablet's buffer
followed by the connection. `Stream` says that there are positions on it, one for each
packet the tablet has not begun, such that the header of the packet is there, its payload
follows as far as it has been written, and the next position is where it ends
(`Positions`, `FrameAt`); that what comes before the first position is the rest of the
packet the tablet has begun; and that no read can end inside a header (`Solid`). `FrameInv`
says that what was copied is the beginning of that packet. Every step moves the line
(`StreamMoved`), takes a header off it (`HeaderTaken`) or adds one (`HeaderSent`), and the
four digits of a header give the size back (`Value`). `ParserInv` is what each point of the
parser's loop knows of its buffer; the zeros that a buffer has after a short read do not
matter as long as headers are whole, and this is the place where the proof uses it.

`KmsProtocolProofs` proves, for every number of calls, every size of the socket's buffer,
all planes and every monitor (`KmsAssumption`):

| theorem | statement |
|---|---|
| `Invariance` | `KInv` is an invariant |
| `TypeCorrect` | the socket and the control of both sides keep their types |
| `InStep` | `LockStep`: exactly the running call has one request or answer on its way |
| `Fresh` | `FreshAnswer`: a frame is drawn from its own answer, or the last of a dead server |
| `RightChoice` | for every answer `RightPlane` holds of the plane and the cursor that are chosen |
| `OwnPlane` | `RightMonitor`: so it does for the answer a frame is drawn from, if `FramebuffersHaveArea` |

`LockStep` counts messages; inductive is where the one message is. `AliveInv` says, for
every control state of the recorder, whether it is a request in the socket, an answer being
prepared, or an answer in the socket, and on which of the two connections; `DeadInv` what a
server that has died can have left; `CallInv` that no call begins before the connection was
replaced. There is one lemma per action of either side.

`RightChoice` is about sequences of any length. The searches of the code (the first plane of
a connector, the largest plane) are definitions with CHOOSE, so the proof needs a best
element to exist: `Best` shows that a function into the integers has a largest value on
every nonempty set of positions. The strict subsets of a finite set are a well-founded
order, and a smallest counterexample contradicts itself.

`OwnPlane` follows an answer from the screen through the filter of the server
(`AnswerOfItems`): the k-th item is the plane with k planes of use up to it, which exists
because the ranks of the planes are all different, and so are all the numbers up to how many
there are (`NthThere`). It assumes that the kernel has no framebuffer without an area. The
recorder relies on this: with sizes of zero `find_largest_drm` returns the first item,
cursor or not.

`GpuScreenRecorderProofs` proves, for all tracks, options, sizes of the replay buffer, key
frame intervals and bounds of the clock (`RecorderAssumption`):

| theorem | statement |
|---|---|
| `Invariance` | `GInv` is an invariant |
| `Whole` | `SaveWhole`: a saved file is an unbroken piece up to the end of its copy |
| `Playable` | `SaveStartsPlayable`: it begins with a key frame or with the recording, unless packets were erased between call and mutex (`ErasedInBetween`); a finished file holds a key frame even then |
| `VideoWithoutPauses` | `PausesLeftOut`: the video counts no frames for a pause |
| `SoundWithoutPauses` | `AudioInStep`: silence fills a track to the time recorded, not beyond |

A save is safe because of what it copied, and that is safe because of how the buffer was
filled: `QueueInv` says that the buffer holds the last packets without a gap, and all of
them as long as `frames_erased` is unset; `CopyInv` that the copy is such a piece, that the
file is what follows `start_index` in it, and that no copy is made while a save runs;
`StartInv` where it begins, and that a key frame is there or follows. The two properties about pauses rest on one equation,
`PauseInv`: the time recorded is the clock, or during a pause the moment it began, minus
`paused_time_offset`, also between the two steps of the toggle. `TakenInv` follows a time an
audio thread has taken until it is used.

`GpuScreenRecorderProofs` also proves, for all command lines and systems that have the values
the options and libraries know (`StartupAssumption`):

| theorem | statement |
|---|---|
| `StartupInvariance` | `StartupInv` is an invariant |
| `CodecsAlwaysFit` | `CodecsFit`: the codecs fit the container and each other, and hevc or av1 falls back to h264 (vp8 and vp9 to nothing) |
| `CaptureAlwaysFits` | `CaptureFits`: context, card, frame rate mode and HDR fit the capture and the encoder |
| `ListedAlwaysWorks` | `ListedWorks`: what `--info` lists works |

The start is a straight line, but what a step decides is used several steps later, after
the codec may have been replaced. `StartupInv` says, for each step that was passed
(`Reached`), what it left in `main`'s variables, as a function of the command line and the
system, and for the steps that refuse something, why the program ended there (`ExitInv`).
From then on the theorems are about functions: `PickedFits` and `WantedFits` follow a codec
through the container's replacement and `pick_video_codec`, `NoneLeft` that h264 was looked
for before the program gave up, `HdrWasAsked` that no replacement adds HDR, and
`PickedAsAsked` that what `--info` lists passes all of them unchanged.

`X11CaptureProofs` proves, for all sets of windows, pieces of the screen and options, and
every bound on the events held back (`CaptureAssumption`):

| theorem | statement |
|---|---|
| `Invariance` | `XInv` is an invariant |
| `TypeCorrect` | `TypeOK` |
| `NoChangeMissed` | `NothingMissed`: in the content mode, for each kind of target, the picture is up to date, or a change is pending, or excused |
| `FromASession` | `GrabsFromASession`: NvFBC is only asked for frames of a session that exists |

`NothingMissed` compares the picture with what should be shown, which the recorder does not
know: it knows the window it captures, the window whose damage it asked for, and the events
that have come. `XInv` says how each of the three lags behind and what will bring it up:
`FocusInv`, that a focus other than the captured window has a flag or an event on its way;
`TargetInv`, that the damage is asked for the captured window when a frame is due;
`RegionInv`, that damage that was not taken has an event that is not read; `MonitorInv`,
that the last event about the monitor tells where it is; and `PictureInv`, that the picture
of the tracked window is up to date, or known or reported to be old. With no event and no
flag left the three are equal. The assumption that windows, and only they, are captured with
xcomposite is `create_capture_impl`.

`PortalCaptureProofs` proves, for any tokens, descriptors, planes and number of recordings
(`SessionAssumption`, `CaptureAssumption`):

| theorem | statement |
|---|---|
| `Invariance` | `Inv` is an invariant |
| `TypeCorrect` | `TypeOK` |
| `OwnStream` | `NodeFromStart`: the stream that is captured is one that Start was answered with |
| `TokenKept` | `TokenRemembered`: the file gets the token granted last, keeps one that is restored, and changes at no other time; the erasure by a recording without the option is left open |
| `Descriptors` | `FdsOwned`: each descriptor has one owner and is closed once |
| `NoFrameMissed` | `NothingMissed`: a picture that is not the screen's has a newer frame on its way or waiting, or excused |

Session and capture share only the recorder's place in its code, and have an invariant each.
The recorder takes the next answer, whatever it was an answer to, so that after a retried
SelectSources it may be an answer behind. `AnswersInv` says which answers can be on the bus at
each point: none with a stream before Start was called, at most one after. `TokenInv` ties
the token of that answer to the one that was granted, and the file to the last recording.
`PlanesInv` says that the open descriptors are those of the two places that hold planes, that
the places share none, and when each must be empty; that dup() finds as many descriptors
as it needs is counted (`Ranked`, `EnoughFree`). `FrameInv` follows the frame that is on the
screen through queue, thread, hand-over and picture, of which only one can have it.
`NothingMissed` is no property of the run, which checks its consequence `CatchesUp`: that the
newer frame is drawn, under fairness. The run has one token, because two multiply its states;
the theorems are about all.

Only model-checked: liveness everywhere (the proof system has no rule for fairness here).


## Disagreements between code and documents

- **Ctrl+C** (`wf_recorder_ctrl_c`): `main` polls for a free buffer without looking at
  `exit_main_loop` (`server/wf-recorder/src/main.cpp:1292`). If the signal arrives while the
  ring is full, the writer leaves and nobody frees a buffer. The usage text says
  "Use Ctrl+C to stop." The run has a tablet that comes; before one has come Ctrl+C does not
  end any of the three programs either, once a packet was to be sent (`server.cpp:35`).
- **Short headers** (`screen_stream_split`): when a read ends inside a header, the tablet
  loses the packet boundaries (`ShareScreenActivity.java:463`). `screen_stream` shows that
  this is the only way to lose them.

Properties that hold only with a condition carry it in their text, and the condition is
something to know about the code:

- *All three servers*: the first packet waits in accept without a time limit, and the exit
  waits for that thread (excepted in `WriterStops`, `StopsUnlessStalled` and `Stops`).
- *wf-recorder*: a failed `gbm_bo_map` leaves a loop with `frame_writer_mutex` locked, and
  the thread locks it again (`main.cpp:637`; excepted in `WriterStops`). `send_data` is called
  from two threads without a mutex; with `Locked = FALSE` `ConnectedFromTheStart` and
  `ImplementsChannel` do not hold. Any error of the connection ends the wait for the list of
  nodes, and the default device is recorded. `PulseReader` asks for the latency of a connection
  that may have failed (`pulse.cpp:29`).
- *wl-screenshare-server*: a frame that failed is not asked for again, so main may wait for
  ever (`StopsUnlessStalled`). Its time stamps come from a field nothing writes.
- *KMS*: the last answer of a server that died is drawn by the next call (`FreshAnswer`). A
  `gsr-kms-server` not started by pkexec inherits the other end of its own connection
  (`kms_client.c:242`) and survives a recorder that is killed, although
  `kms_server.c:516` expects to notice (excepted in `ServerEnds`).
- *Recording loop*: a packet may be erased between the call of `save_replay_async` and its
  mutex; the file then starts in the middle of a group of pictures, with a key frame later
  (`ErasedInBetween`, in `SaveStartsPlayable`). A pause that ends between an audio thread's reading of
  `paused_time_offset` and its test of `paused` counts as missing sound (`torn`, in
  `AudioInStep`); chunks that come late after silence may add up to more than the time
  recorded, which the property does not deny.
- *Content mode on X11*: `damaged` is overwritten by the last rectangle (`damage.c:241`); a
  change during a pause is not drawn after it (`main.cpp:4165`); without a focused window
  the damage stays on the last one; a pixmap that was created again, a monitor that moved
  and NvFBC without a frame are no damage; a pointer that is back where `damage.c` saw it
  last is missed (`excused`, in `NothingMissed`).
- *Portal*: the first frame only tells the size and is never drawn. After SelectSources was
  retried, the late answer puts recorder and portal out of step; it then fails rather than
  capture (`NodeFromStart`). A run without `-restore-portal-session` that was granted no
  token erases the saved one (`portal.c:135`), although `main.cpp:3285` says "The previous
  screencast session will be ignored" and `main.cpp:1097` the same; a later run with the
  option then has nothing to restore. `TokenRemembered` calls neither right: it leaves that
  write open. When the user ends the sharing the recording goes on. A buffer that cannot be
  imported in a format that was already agreed (`pipewire.c:733`) is left out.
- *Sound device*: with a dead server reads fail at once, and the track fills with silence.
- *Start-up*: vp8 and vp9 have no codec to fall back to and end the program when the card
  does not encode them (`main.cpp:2778`). With `-k h264` on a card that only encodes hevc the message says "trying hevc
  instead" (`main.cpp:2745`), but h264's encoder is looked up and opening fails; the
  container is not compared with a codec given by name (`LeftToMuxer`). On X11 `--info` lists
  the monitors of X without asking which card drives them (`OtherCard`).
  `gsr_egl_load` tests the wrong library after loading GL (`egl.c:547`).


## Not modelled

- Set-up of codecs, filters and hardware frames in the three servers; drawing, colour
  conversion and shaders; DRM properties, HDR metadata; queries of EGL, CUDA and drivers;
  overclocking: calls on one thread into libraries, whose result is an input of the models.
- The command lines of wf-recorder and wl-screenshare-server, interactive selection, the
  registry of outputs, and the user interface of the tablet: they run once, on one thread.
  Of gpu-screen-recorder's options those that are only numbers.
- The USB path of the tablet (`usbVersion`): the same parser over a file. `close_server`,
  `restart_server` and `recv_data` have no caller.
- pts, the amix filter thread (which merges several devices into one track) and the contents
  of audio in `GpuScreenRecorder`; the time stamps of wl-screenshare-server.
- PipeWire's formats and modifiers, crop and cursor bitmap; a buffer that only moves the
  cursor is taken not to come.


## Plan

Done, in this order: the buffer pool and its proofs, because everything wf-recorder does
rests on it; the two recorder processes, with proofs about both; the stream from end to
end, with proofs; KMS, with proofs; the recording loop of gpu-screen-recorder, with sound
against video across a pause, and proofs; damage and the X11 captures, with proofs; the
portal and PipeWire, with proofs; the audio readers, with proofs; the start-up,
with proofs.

What is left: a save in the content mode whose buffer holds only sound (`main.cpp:224`);
the amix thread.
