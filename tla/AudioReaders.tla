------------------------------ MODULE AudioReaders ----------------------------
(***************************************************************************)
(* The two programs that read sound, one at a time, from a sound server:   *)
(* gpu-screen-recorder (PulseDevice) and wf-recorder (WfAudioReader).      *)
(* Both do what PeriodStream says.                                         *)
(***************************************************************************)
EXTENDS SoundServer

CONSTANT Period              \* samples of a period that is encoded

\* wf-recorder's buffer holds four periods: a fragment fits behind the start of one.
ASSUME PeriodAssumption == Period \in Nat \ {0} /\ MaxFragment <= 3 * Period

VARIABLES program,
          \* gpu-screen-recorder
          pcD, read_data, read_index, read_length, output_data, output_index, given,
          \* wf-recorder
          backend, audio_source, node, answers, pcR, signalled, errored,
          source_found, source_is_sink, target, pcT, buf, added

Device == INSTANCE PulseDevice WITH periods <- given
Reader == INSTANCE WfAudioReader WITH periods <- added

gsr == <<pcD, read_data, read_index, read_length, output_data, output_index, given>>
wf  == <<backend, audio_source, node, answers, pcR, signalled, errored,
         source_found, source_is_sink, target, pcT, buf, added>>
audioVars == <<serverVars, program, gsr, wf>>

InitAudio == InitServer /\ Device!InitDevice /\ Reader!InitReader
             /\ \/ program = "wf-recorder"
                \/ program = "gpu-screen-recorder"
                   /\ backend = "pulse" /\ ~ audio_source /\ node = "absent"   \* not looked at

NextAudio == /\ UNCHANGED program
             /\ \/ program = "gpu-screen-recorder" /\ Device!NextDevice /\ UNCHANGED wf
                \/ program = "wf-recorder" /\ Reader!NextReader /\ UNCHANGED gsr

SpecAudio == /\ InitAudio /\ [][NextAudio]_audioVars
             /\ program = "gpu-screen-recorder" => Device!FairDevice
             /\ program = "wf-recorder" => Reader!FairReader

-------------------------------------------------------------------------------
(* Properties.                                                             *)

periods == given \o added

Periods == INSTANCE PeriodStream

\* "we have to make sure we produce frames at the same relative rate as the video"
\* (gpu-screen-recorder/src/main.cpp:3945): from fragments of any size, over holes, time
\* limits and a lost connection, the periods that are handed over are the samples that
\* came, whole, once and in order.
ImplementsPeriods == Periods!PSpec

Stopped == IF program = "wf-recorder" THEN pcT \in {"none", "ended"} ELSE pcD = "closed"

\* No sound is left behind: when no more comes, all but the start of a next period has
\* been handed over, unless the recording stopped or the connection was lost.
AllHandedOver ==
  <>[](Stopped \/ server = "dead" \/ Len(sound) < Period * (Len(periods) + 1))

\* "To specify an audio device, use the -a<device> or --audio=<device> options"
\* (wf-recorder/README.md:108): the device is the one that is recorded from when PipeWire
\* has it, and no other error of the connection came first.
SourceFollowed ==
  pcR = "running" /\ backend = "pipewire" /\ ~ errored =>
    target = IF audio_source /\ Reader!Named(node) THEN node ELSE "default"
===============================================================================
