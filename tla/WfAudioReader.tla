----------------------------- MODULE WfAudioReader ----------------------------
(***************************************************************************)
(* wf-recorder's audio reader (audio.cpp, pipewire.cpp, pulse.cpp).  The   *)
(* writer thread makes it and frees it; PipeWire's thread, or a thread     *)
(* that reads from PulseAudio, hands the encoder whole frames.  While the  *)
(* writer thread sets PipeWire up it holds the lock of PipeWire's loop,    *)
(* but for the time it waits for the server's answers: the nodes that      *)
(* there are, and then that these were all.                                *)
(*                                                                         *)
(* A fragment fits behind what waits in buf, which holds four frames.      *)
(***************************************************************************)
EXTENDS SoundServer

CONSTANT Period               \* params.audio_frame_size, in samples

VARIABLES backend, audio_source,      \* options
          node,                       \* the server: the node of that name
          answers,                    \* what the server has sent and was not heard
          pcR, signalled, errored, source_found, source_is_sink, target,
          pcT, buf, periods

options == <<backend, audio_source, node>>
wait    == <<answers, signalled, errored, source_found, source_is_sink>>
reader  == <<pcT, buf, periods>>
readerVars == <<options, wait, pcR, target, reader>>

Nodes == {"absent", "classless", "Audio/Sink", "Audio/Source"}

InitReader ==
  /\ backend \in {"pipewire", "pulse"} /\ audio_source \in BOOLEAN /\ node \in Nodes
  /\ answers = <<>> /\ pcR = "create" /\ signalled = FALSE /\ errored = FALSE
  /\ source_found = FALSE /\ source_is_sink = FALSE /\ target = "none"
  /\ pcT = "none" /\ buf = <<>> /\ periods = <<>>

-------------------------------------------------------------------------------
(* Plausible mistakes in the definitions below; the specification does not *)
(* use them.                                                               *)

OneMore(n) == (n - 1) \div Period
NotAwaited == "connect"

-------------------------------------------------------------------------------
(* The writer thread.                                                      *)

\* AudioReader::create: without a reader there is no audio.
CreateReader ==
  /\ pcR = "create" /\ pcR' \in IF server = "good" THEN {"start", "none"} ELSE {"none"}
  /\ UNCHANGED <<serverVars, options, wait, target, reader>>

\* PulseReader::start.
StartPulse ==
  /\ pcR = "start" /\ backend = "pulse" /\ pcR' = "running" /\ pcT' = "loop"
  /\ target' = IF audio_source THEN node ELSE "default"
  /\ UNCHANGED <<serverVars, options, wait, buf, periods>>

\* PipeWireReader::start asks for the registry, whose nodes come first, and waits.
Awaited == "wait"

StartPipeWire ==
  /\ pcR = "start" /\ backend = "pipewire"
  /\ IF audio_source
     THEN pcR' = Awaited /\ answers' = (IF node = "absent" THEN <<>> ELSE <<node>>) \o <<"done">>
     ELSE pcR' = "connect" /\ UNCHANGED answers
  /\ UNCHANGED <<serverVars, options, signalled, errored, source_found, source_is_sink, target, reader>>

Woken ==
  /\ pcR = "wait" /\ signalled /\ pcR' = "connect"
  /\ UNCHANGED <<serverVars, options, wait, target, reader>>

\* The stream is of the source, or of what the server thinks best; the lock is free.
Connect ==
  /\ pcR = "connect" /\ pcR' = "running" /\ pcT' = "idle"
  /\ target' = IF ~ source_found THEN "default"
               ELSE IF source_is_sink THEN "Audio/Sink" ELSE "Audio/Source"
  /\ UNCHANGED <<serverVars, options, wait, buf, periods>>

\* The destructors, at the end of the recording: PipeWire's thread is stopped, the one
\* that reads from PulseAudio is waited for.
Destroy ==
  /\ pcR = "running" /\ backend = "pipewire"
  /\ pcR' = "none" /\ pcT' = "none" /\ buf' = <<>>
  /\ UNCHANGED <<serverVars, options, wait, target, periods>>

JoinReader ==
  /\ pcR = "running" /\ backend = "pulse" /\ pcT = "ended" /\ pcR' = "none"
  /\ UNCHANGED <<serverVars, options, wait, target, reader>>

Writer == CreateReader \/ StartPulse \/ StartPipeWire \/ Woken \/ Connect \/ Destroy \/ JoinReader

-------------------------------------------------------------------------------
(* PipeWire's thread.                                                      *)

\* on_registry_global.  A node without a class is not taken.
Named(name) == name \in {"Audio/Sink", "Audio/Source"}

RegistryGlobal ==
  /\ pcR = "wait" /\ answers # <<>> /\ Head(answers) # "done"
  /\ answers' = Tail(answers)
  /\ source_found' = Named(Head(answers)) /\ source_is_sink' = (Head(answers) = "Audio/Sink")
  /\ UNCHANGED <<serverVars, options, signalled, errored, pcR, target, reader>>

\* on_core_done, and on_core_error for an error of any kind.
CoreDone ==
  /\ pcR = "wait" /\ answers # <<>> /\ Head(answers) = "done"
  /\ answers' = Tail(answers) /\ signalled' = TRUE
  /\ UNCHANGED <<serverVars, options, errored, source_found, source_is_sink, pcR, target, reader>>

CoreError ==
  /\ pcR = "wait" /\ ~ errored /\ errored' = TRUE /\ signalled' = TRUE
  /\ UNCHANGED <<serverVars, options, answers, source_found, source_is_sink, pcR, target, reader>>

\* on_stream_process: every whole frame, and the rest is moved to the front.
Whole(n) == n \div Period
Moved(all) == SubSeq(all, Period * Whole(Len(all)) + 1, Len(all))
Frames(all) == [i \in 1 .. Whole(Len(all)) |-> SubSeq(all, Period * (i - 1) + 1, Period * i)]

Take(all) == /\ periods' = periods \o Frames(all) /\ buf' = Moved(all)

OnStreamProcess ==
  /\ pcT = "idle" /\ queue # <<>> /\ queue' = Tail(queue)
  /\ Take(buf \o Head(queue).data)
  /\ UNCHANGED <<clock, sound, server, options, wait, pcR, target, pcT>>

\* PulseReader::loop.  pa_simple_read waits for a whole frame; what it has already is
\* in buf here.  The loop ends when the recording does.
Filled == Len(buf) >= Period

PulseGets ==
  /\ pcT = "loop" /\ ~ Filled /\ queue # <<>>
  /\ queue' = Tail(queue) /\ buf' = buf \o Head(queue).data
  /\ UNCHANGED <<clock, sound, server, options, wait, pcR, target, pcT, periods>>

PulseRead ==
  /\ pcT = "loop" /\ Filled
  /\ periods' = Append(periods, SubSeq(buf, 1, Period)) /\ buf' = SubSeq(buf, Period + 1, Len(buf))
  /\ pcT' \in {"loop", "ended"}
  /\ UNCHANGED <<serverVars, options, wait, pcR, target>>

ReadFails ==
  /\ pcT = "loop" /\ server = "dead" /\ pcT' = "ended"
  /\ UNCHANGED <<serverVars, options, wait, pcR, target, buf, periods>>

Thread == \/ RegistryGlobal \/ CoreDone \/ OnStreamProcess \/ PulseGets \/ PulseRead \/ ReadFails

ReaderSends == /\ pcT \in {"idle", "loop"} /\ \E n \in 0 .. MaxFragment : Record(n, FALSE)
               /\ UNCHANGED readerVars

ReaderFails == pcR # "none" /\ server = "good" /\ ServerDies /\ UNCHANGED readerVars

NextReader == Writer \/ Thread \/ CoreError \/ ReaderSends \/ ReaderFails

\* The threads run on; the recording may go on for ever.
FairReader ==
  /\ WF_<<serverVars, readerVars>>(CreateReader \/ StartPulse \/ StartPipeWire \/ Woken \/ Connect)
  /\ WF_<<serverVars, readerVars>>(Thread)
===============================================================================
