------------------------------ MODULE PulseDevice -----------------------------
(***************************************************************************)
(* gpu-screen-recorder's audio device (sound.cpp).  A call asks for one    *)
(* period within a time limit.  The period is put together in output_data  *)
(* from the server's fragments: what was put there before the time ran out *)
(* stays for the next call, and so does the rest of a fragment that was    *)
(* more than the period needed.  The latency is left out.                  *)
(***************************************************************************)
EXTENDS SoundServer

CONSTANT Period               \* output_length, in samples

VARIABLES pcD, read_data, read_index, read_length, output_data, output_index, periods

deviceVars == <<pcD, read_data, read_index, read_length, output_data, output_index, periods>>

Null == <<>>

InitDevice ==
  /\ pcD = "new" /\ read_data = Null /\ read_index = 0 /\ read_length = 0
  /\ output_data = [i \in 1 .. Period |-> 0] /\ output_index = 0 /\ periods = <<>>

-------------------------------------------------------------------------------
(* Plausible mistakes in the definitions below; the specification does not *)
(* use them.                                                               *)

StartOver(space) == read_index

-------------------------------------------------------------------------------

\* pa_sound_device_new: it waits for the connection and for the stream, and frees what
\* it made when one of them fails.
Open ==
  /\ pcD = "new" /\ pcD' \in IF server = "good" THEN {"idle", "closed"} ELSE {"closed"}
  /\ UNCHANGED <<serverVars, read_data, read_index, read_length, output_data, output_index, periods>>

\* CHECK_DEAD_GOTO: on a connection that is lost a call fails at once.
Dead == server = "dead"
Full == output_index = Period

Call ==
  /\ pcD = "idle" /\ ~ Dead
  /\ IF Full THEN periods' = Append(periods, output_data) /\ UNCHANGED pcD
     ELSE pcD' = "read" /\ UNCHANGED periods
  /\ UNCHANGED <<serverVars, read_data, read_index, read_length, output_data, output_index>>

\* The time limit is looked at before each fragment; what is there stays.
TimesOut ==
  /\ pcD = "read" /\ pcD' = "idle"
  /\ UNCHANGED <<serverVars, read_data, read_index, read_length, output_data, output_index, periods>>

\* pa_stream_peek, and pa_stream_drop for a fragment without data.  Neither works on a
\* connection that is lost.
Peek ==
  /\ pcD = "read" /\ read_data = Null /\ (queue # <<>> \/ server = "dead")
  /\ IF server = "dead"
     THEN pcD' = "idle" /\ UNCHANGED <<queue, read_data, read_length>>
     ELSE /\ UNCHANGED pcD
          /\ LET next == Head(queue)
             IN  IF next.data = Null
                 THEN queue' = Tail(queue) /\ UNCHANGED <<read_data, read_length>>
                 ELSE /\ read_data' = next.data /\ read_length' = next.length
                      /\ UNCHANGED queue
  /\ UNCHANGED <<clock, sound, server, read_index, output_data, output_index, periods>>

Space == Period - output_index

\* output_data with n samples more.
Copied(n) ==
  [i \in 1 .. Period |-> IF i \in output_index + 1 .. output_index + n
                         THEN read_data[read_index + i - output_index] ELSE output_data[i]]

\* A fragment that is more than the period needs: the rest of it stays.
IndexAfter(space) == read_index + space

CopyPart ==
  /\ pcD = "read" /\ read_data # Null /\ Space < read_length
  /\ output_data' = Copied(Space) /\ output_index' = 0
  /\ read_index' = IndexAfter(Space) /\ read_length' = read_length - Space
  /\ periods' = Append(periods, output_data') /\ pcD' = "idle"
  /\ UNCHANGED <<serverVars, read_data>>

\* All of a fragment.  When it cannot be dropped the call fails, with what it copied.
CopyAll ==
  /\ pcD = "read" /\ read_data # Null /\ Space >= read_length
  /\ output_data' = Copied(read_length)
  /\ read_data' = Null /\ read_length' = 0 /\ read_index' = 0
  /\ LET index == output_index + read_length
     IN  IF server = "dead"
         THEN pcD' = "idle" /\ output_index' = index /\ UNCHANGED <<queue, periods>>
         ELSE /\ queue' = Tail(queue)
              /\ IF index = Period
                 THEN output_index' = 0 /\ periods' = Append(periods, output_data') /\ pcD' = "idle"
                 ELSE output_index' = index /\ UNCHANGED <<periods, pcD>>
  /\ UNCHANGED <<clock, sound, server>>

\* sound_device_close, when the audio thread has ended.
CloseDevice ==
  /\ pcD = "idle" /\ pcD' = "closed"
  /\ UNCHANGED <<serverVars, read_data, read_index, read_length, output_data, output_index, periods>>

\* The server sends when the stream is there; it sends holes, and fragments of nothing.
Sends == /\ pcD \notin {"new", "closed"}
         /\ \/ \E n \in 0 .. MaxFragment : Record(n, FALSE)
            \/ \E n \in 1 .. MaxFragment : Record(n, TRUE)
         /\ UNCHANGED deviceVars

Fails == pcD # "closed" /\ server = "good" /\ ServerDies /\ UNCHANGED deviceVars

Read == Peek \/ CopyPart \/ CopyAll

NextDevice == Open \/ Call \/ TimesOut \/ Read \/ CloseDevice \/ Sends \/ Fails

\* The audio thread calls again and again, and a call has the time for a fragment: its
\* limit is two periods.
FairDevice == /\ WF_<<serverVars, deviceVars>>(Open \/ Call)
              /\ SF_<<serverVars, deviceVars>>(Read)
===============================================================================
