----------------------------- MODULE PlayerThread -----------------------------
(***************************************************************************)
(* The tablet: the surface callbacks of ShareScreenActivity and its        *)
(* PlayerThread, which connects to the server (socketVersion), cuts the    *)
(* byte stream back into packets and queues each into the video decoder.   *)
(*                                                                         *)
(* read() returns any number of the bytes that have arrived.  Arrays keep  *)
(* their length, which the code relies on: buff is as long as the Java     *)
(* array, zeros included, and d is the code's count of valid bytes.        *)
(***************************************************************************)
EXTENDS Integers, Sequences

CONSTANTS Radix,        \* 256
          maxBuffSize,  \* length of buff, and the largest frame
          Inputs,       \* input buffers of the decoder
          HeadersWhole  \* environment: no read ends inside a packet's header

VARIABLES s_socket, process, link, wire,   \* the server and the connection
          pcP,            \* control of the thread, "off" while mPlayer is null
          interrupted,    \* the thread's interrupt flag
          decoder,        \* "none", "started", "error" or "released"
          freeInputs,     \* input buffers the decoder has offered and nobody took
          queued,         \* input buffers the decoder still has to offer
          buff, d, toSend, remainingSize,
          delivered       \* history: the packets queued into the decoder

serverSide == <<s_socket, process>>
network    == <<link, wire>>
codec      == <<decoder, freeInputs, queued>>
parser     == <<buff, d, toSend, remainingSize>>
playerVars == <<pcP, interrupted, codec, parser, delivered>>

Init ==
  /\ pcP = "off" /\ interrupted = FALSE
  /\ decoder = "none" /\ freeInputs = 0 /\ queued = 0
  /\ buff = <<>> /\ d = 0 /\ toSend = <<>> /\ remainingSize = 0
  /\ delivered = <<>>

-------------------------------------------------------------------------------
(* Plausible mistakes in the definitions below; the specification does not *)
(* use them.                                                               *)

KeepRest(from) == SubSeq(buff, from, d)
IgnoreInput == UNCHANGED freeInputs

-------------------------------------------------------------------------------
(* The activity.                                                           *)

\* The first surfaceChanged starts the thread; mPlayer is never reset.
SurfaceChanged ==
  /\ pcP = "off"
  /\ pcP' = "connect"
  /\ UNCHANGED <<serverSide, network, interrupted, codec, parser, delivered>>

\* The thread sees the flag only where it waits for an input buffer.
SurfaceDestroyed ==
  /\ pcP # "off" /\ ~ interrupted
  /\ interrupted' = TRUE
  /\ UNCHANGED <<serverSide, network, pcP, codec, parser, delivered>>

-------------------------------------------------------------------------------
(* Connecting.                                                             *)

Connect ==
  /\ pcP = "connect"
  /\ IF s_socket = "open" /\ process = "runs" /\ link = "none"
     THEN link' = "backlog" /\ pcP' = "start"
     ELSE pcP' = "end" /\ UNCHANGED link
  /\ UNCHANGED <<serverSide, wire, interrupted, codec, parser, delivered>>

\* createDecoderByType, configure and start: any of them may throw.
StartDecoder ==
  /\ pcP = "start"
  /\ \/ decoder' = "started" /\ queued' = Inputs /\ pcP' = "read"
     \/ pcP' = "end" /\ UNCHANGED <<decoder, queued>>
  /\ UNCHANGED <<serverSide, network, interrupted, freeInputs, parser, delivered>>

-------------------------------------------------------------------------------
(* The loop that reads the stream.                                         *)

Zeros(n) == [i \in 1 .. n |-> 0]
Padded(bytes) == bytes \o Zeros(maxBuffSize - Len(bytes))

\* inputStream.read of at most maxBuffSize bytes.
Arrive(k) == /\ k \in 1 .. maxBuffSize /\ k <= Len(wire)
             /\ HeadersWhole => ~ wire[k].mid
             /\ wire' = SubSeq(wire, k + 1, Len(wire))
Bytes(k)  == [i \in 1 .. k |-> wire[i].b]

\* The server process is gone and everything it sent was read.
EndOfStream == process = "exited" /\ wire = <<>>

Read ==
  /\ pcP = "read"
  /\ \/ \E k \in 1 .. maxBuffSize :
          /\ Arrive(k)
          /\ buff' = Padded(Bytes(k)) /\ d' = k
          /\ pcP' = IF remainingSize = 0 THEN "head" ELSE "copy"
     \/ EndOfStream /\ pcP' = "end" /\ UNCHANGED <<wire, buff, d>>
  /\ UNCHANGED <<serverSide, link, interrupted, codec, toSend, remainingSize, delivered>>

\* A leftover shorter than a header is extended by the next read; d then counts
\* the whole array that was appended.
ReadMore ==
  /\ pcP = "head" /\ Len(buff) < 4
  /\ \/ \E k \in 1 .. maxBuffSize :
          /\ Arrive(k)
          /\ buff' = buff \o Padded(Bytes(k)) /\ d' = d + maxBuffSize
          /\ UNCHANGED pcP
     \/ EndOfStream /\ pcP' = "end" /\ UNCHANGED <<wire, buff, d>>
  /\ UNCHANGED <<serverSide, link, interrupted, codec, toSend, remainingSize, delivered>>

\* buff[0] & 0x7f, and the other three bytes.
Size == (((buff[1] % (Radix \div 2)) * Radix + buff[2]) * Radix + buff[3]) * Radix + buff[4]

Smaller(a, b) == IF a < b THEN a ELSE b

\* What an array still holds from position from + 1 on, as an array of its own.
Rest(from) == SubSeq(buff, from + 1, d)

\* Copies what buff holds of the current frame, from position start on.
Copy(start, remaining, frame) ==
  LET toCopy == Smaller(remaining, d - start) IN
  /\ toSend' = frame \o SubSeq(buff, start + 1, start + toCopy)
  /\ remainingSize' = remaining - toCopy
  /\ d' = d - (toCopy + start)
  /\ buff' = Rest(toCopy + start)
  /\ pcP' = IF remaining = toCopy THEN "take" ELSE "read"

\* A new header.  A size of zero leaves the loop and whatever buff still holds,
\* a size beyond the buffer ends the thread, and so does the exception of
\* arraycopy when fewer than four bytes had arrived.
ParseHeader ==
  /\ pcP = "head" /\ Len(buff) >= 4
  /\ \/ Size > maxBuffSize /\ pcP' = "end" /\ UNCHANGED parser
     \/ Size = 0 /\ pcP' = "read" /\ UNCHANGED parser
     \/ Size \in 1 .. maxBuffSize /\ d < 4 /\ pcP' = "end" /\ UNCHANGED parser
     \/ Size \in 1 .. maxBuffSize /\ d >= 4 /\ Copy(4, Size, <<>>)
  /\ UNCHANGED <<serverSide, network, interrupted, codec, delivered>>

Continue ==
  /\ pcP = "copy"
  /\ Copy(0, remainingSize, toSend)
  /\ UNCHANGED <<serverSide, network, interrupted, codec, delivered>>

-------------------------------------------------------------------------------
(* Giving a frame to the decoder.                                          *)

\* freeInputs.take() blocks, and throws when the thread was interrupted.
TakeInput == freeInputs' = freeInputs - 1

Take ==
  /\ pcP = "take"
  /\ \/ interrupted /\ pcP' = "end" /\ UNCHANGED <<freeInputs, interrupted>>
     \/ ~ interrupted /\ freeInputs > 0 /\ TakeInput /\ pcP' = "queue" /\ UNCHANGED interrupted
  /\ UNCHANGED <<serverSide, network, decoder, queued, parser, delivered>>

\* getInputBuffer throws on a decoder in error, and put when the frame does not fit;
\* an exception of queueInputBuffer is caught, and the frame and its input buffer
\* are lost.
QueueInputBuffer ==
  /\ pcP = "queue"
  /\ \/ /\ decoder = "started"
        /\ delivered' = Append(delivered, toSend) /\ queued' = queued + 1
        /\ pcP' = IF d > 0 THEN "head" ELSE "read"
     \/ /\ decoder = "error"
        /\ pcP' = IF d > 0 THEN "head" ELSE "read"
        /\ UNCHANGED <<delivered, queued>>
     \/ pcP' = "end" /\ UNCHANGED <<delivered, queued>>
  /\ UNCHANGED <<serverSide, network, interrupted, decoder, freeInputs, parser>>

PutInput == freeInputs' = freeInputs + 1

\* onInputBufferAvailable, on the decoder's thread.
OnInputBufferAvailable ==
  /\ decoder = "started" /\ queued > 0
  /\ queued' = queued - 1 /\ PutInput
  /\ UNCHANGED <<serverSide, network, pcP, interrupted, decoder, parser, delivered>>

\* onError is empty.
OnError ==
  /\ decoder = "started"
  /\ decoder' = "error"
  /\ UNCHANGED <<serverSide, network, pcP, interrupted, freeInputs, queued, parser, delivered>>

\* The end of run(): the decoder is released and the socket closed.
End ==
  /\ pcP = "end"
  /\ pcP' = "done"
  /\ decoder' = IF decoder = "none" THEN "none" ELSE "released"
  /\ IF link \in {"backlog", "up"} THEN link' = "closed" /\ wire' = <<>> ELSE UNCHANGED network
  /\ UNCHANGED <<serverSide, interrupted, freeInputs, queued, parser, delivered>>

-------------------------------------------------------------------------------
Thread == \/ Connect \/ StartDecoder \/ Read \/ ReadMore \/ ParseHeader \/ Continue
          \/ Take \/ QueueInputBuffer \/ End

Player == \/ SurfaceChanged \/ SurfaceDestroyed \/ Thread
          \/ OnInputBufferAvailable \/ OnError
===============================================================================
