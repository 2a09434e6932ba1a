----------------------------- MODULE SoundServer ------------------------------
(***************************************************************************)
(* PulseAudio's or PipeWire's side of a recording: fragments of any size   *)
(* wait for the client, some of them holes or without samples.  When too   *)
(* much waits, because the client does not read, sound is lost.  A sample  *)
(* is the moment it was recorded at.                                       *)
(***************************************************************************)
EXTENDS Naturals, Sequences

CONSTANTS MaxFragment,   \* samples of the largest fragment
          MaxQueued,     \* fragments that wait for the client
          MaxSamples     \* bound: the length of the recording

ASSUME ServerAssumption ==
  MaxFragment \in Nat \ {0} /\ MaxQueued \in Nat \ {0} /\ MaxSamples \in Nat

VARIABLES clock, queue, sound,
          server              \* "good", or "dead" once the connection is lost

serverVars == <<clock, queue, sound, server>>

InitServer == clock = 0 /\ queue = <<>> /\ sound = <<>> /\ server = "good"

Fragment(n) == [i \in 1 .. n |-> clock + i]

\* A fragment of n samples, or a hole of them, which has a length and no data.
Record(n, hole) ==
  /\ server = "good" /\ clock + n <= MaxSamples /\ clock' = clock + n
  /\ IF Len(queue) = MaxQueued THEN UNCHANGED <<queue, sound>>
     ELSE /\ queue' = Append(queue, IF hole THEN [data |-> <<>>, length |-> n]
                                    ELSE [data |-> Fragment(n), length |-> n])
          /\ sound' = IF hole THEN sound ELSE sound \o Fragment(n)
  /\ UNCHANGED server

ServerDies == server' = "dead" /\ UNCHANGED <<clock, queue, sound>>
===============================================================================
