----------------------------- MODULE ScreenStream -----------------------------
(***************************************************************************)
(* The stream from end to end: the threads of a server that call send_data *)
(* (StreamServer), the connection, and the tablet (PlayerThread).          *)
(***************************************************************************)
EXTENDS Integers, Sequences

CONSTANTS Senders, Packets, Locked, Radix, Window, maxBuffSize, Inputs, HeadersWhole

ASSUME ScreenAssumption ==
  /\ Radix \in Nat /\ Radix >= 2 /\ Radix % 2 = 0
  /\ maxBuffSize \in Nat /\ maxBuffSize >= 8
  /\ Inputs \in Nat /\ HeadersWhole \in BOOLEAN /\ Window \in Nat /\ Locked \in BOOLEAN
  /\ "nobody" \notin Senders       \* NoCaller
  /\ Packets \in [Senders -> Seq([size : 0 .. Radix * Radix * Radix * (Radix \div 2) - 1,
                                  id : 1 .. Radix - 1])]

VARIABLES s_socket, c_socket, link, wire, sent, pcS, next, result, holder, process,
          pcP, interrupted, decoder, freeInputs, queued,
          buff, d, toSend, remainingSize, delivered

Server == INSTANCE StreamServer
Tablet == INSTANCE PlayerThread

shared     == <<s_socket, process, link, wire>>
serverOnly == <<c_socket, sent, pcS, next, result, holder>>
tabletOnly == <<pcP, interrupted, decoder, freeInputs, queued, buff, d, toSend,
                remainingSize, delivered>>
vars == <<shared, serverOnly, tabletOnly>>

Init == Server!Init /\ Tablet!Init

Next == \/ (\E s \in Senders : Server!SendData(s)) /\ UNCHANGED tabletOnly
        \/ Server!Stop /\ UNCHANGED tabletOnly
        \/ Tablet!Player /\ UNCHANGED serverOnly

Spec == Init /\ [][Next]_vars

\* The server's threads, the tablet's thread and its decoder run, and the surface
\* gets its first size.
FairSpec == /\ Spec
            /\ \A s \in Senders : WF_vars(Server!SendData(s) /\ UNCHANGED tabletOnly)
            /\ WF_vars(Tablet!Thread /\ UNCHANGED serverOnly)
            /\ WF_vars(Tablet!OnInputBufferAvailable /\ UNCHANGED serverOnly)

-------------------------------------------------------------------------------
(* Properties.                                                             *)

IdsOf(bytes) == [i \in 1 .. Len(bytes) |-> bytes[i].b]
PayloadOf(p) == IdsOf(Server!Payload(p))
SentPayloads == [i \in 1 .. Len(sent) |-> PayloadOf(sent[i])]

\* The tablet's decoder gets exactly the packets that were sent, in their order,
\* however TCP cuts the stream into reads: the stream implements PacketChannel.
Channel == INSTANCE PacketChannel WITH
  Packet <- UNION {{PayloadOf(Packets[s][i]) : i \in 1 .. Len(Packets[s])} : s \in Senders},
  sent <- SentPayloads,
  got <- delivered
ImplementsChannel == Channel!CSpec

\* A packet that was sent reaches the decoder, unless the thread or the decoder
\* has failed: the frame is not left in the parser or in front of the decoder.
EveryFrameShown ==
  \A n \in 1 .. 4 :
    Len(SentPayloads) = n
      ~> Len(delivered) >= n \/ pcP \in {"end", "done"} \/ decoder = "error"

\* The tablet sees the stream from its first packet, the one its decoder starts with:
\* while the first caller waits in accept, no other one goes on and drops its packets.
ConnectedFromTheStart == Server!ConnectedFromTheStart

\* With the mutex no packet is lost once the tablet was accepted, as long as it stays:
\* only packets that are too small for a frame are dropped.
NothingLost == Server!NothingLost
===============================================================================
