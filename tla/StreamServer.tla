----------------------------- MODULE StreamServer -----------------------------
(***************************************************************************)
(* The Server class of the three servers (server.cpp, three identical      *)
(* copies) and the threads that call send_data: one thread in              *)
(* wl-screenshare-server, threads that hold write_output_mutex in          *)
(* gpu-screen-recorder, and the unsynchronised video and audio threads of  *)
(* wf-recorder.                                                            *)
(*                                                                         *)
(* The socket is blocking, so a send waits until the window has room.  A   *)
(* byte is a digit in base Radix: four of them make the size in a header.  *)
(***************************************************************************)
EXTENDS Integers, Sequences

CONSTANTS Senders,   \* threads that call send_data
          Packets,   \* what each of them sends: [Senders -> Seq([size, id])]
          Locked,    \* the callers hold one mutex around send_data
          Radix,     \* 256
          Window     \* bytes the connection holds before send blocks

VARIABLES s_socket,  \* "none" (-1) or "open"
          c_socket,  \* "none" (-1) or "open"
          link,      \* the tablet's connection: "none", "backlog", "up", "closed"
          wire,      \* bytes sent and not yet read by the tablet
          sent,      \* history: the packets that were sent, in that order
          pcS,       \* control of each caller
          next,      \* packet each caller sends next
          result,    \* what its last call returned: "none", "sent", "dropped"
          holder,    \* caller that holds the mutex, if they use one
          process    \* "runs" or "exited"

connVars == <<s_socket, c_socket, link>>
callers  == <<pcS, next, result, holder>>
serverVars == <<connVars, wire, sent, callers, process>>

NoCaller == "nobody"

Init ==
  /\ s_socket = "none" /\ c_socket = "none" /\ link = "none"
  /\ wire = <<>> /\ sent = <<>>
  /\ pcS = [s \in Senders |-> "idle"] /\ next = [s \in Senders |-> 1]
  /\ result = [s \in Senders |-> "none"]
  /\ holder = NoCaller
  /\ process = "runs"

Packet(s) == Packets[s][next[s]]

-------------------------------------------------------------------------------
(* Plausible mistakes in the definitions below; the specification does not *)
(* use them.                                                               *)

CallAnyway(s) == TRUE
InitUntilConnected(s) == c_socket = "none"
SendableOffByOne(p) == p.size > 4

-------------------------------------------------------------------------------
(* send_data.                                                              *)

Digit(n, weight) == (n \div weight) % Radix
Weights == <<Radix * Radix * Radix, Radix * Radix, Radix, 1>>
\* A byte on the wire remembers whether a cut after it would split a header.
Header(size) == [i \in 1 .. 4 |-> [b |-> Digit(size, Weights[i]), mid |-> i < 4]]
Payload(p)   == [i \in 1 .. p.size |-> [b |-> p.id, mid |-> FALSE]]

MayCall(s) == Locked => holder = NoCaller

\* A thread has a packet and calls send_data.
Call(s) ==
  /\ process = "runs" /\ pcS[s] = "idle" /\ next[s] <= Len(Packets[s])
  /\ MayCall(s)
  /\ holder' = IF Locked THEN s ELSE holder
  /\ pcS' = [pcS EXCEPT ![s] = "init"]
  /\ UNCHANGED <<connVars, wire, sent, next, result, process>>

\* The call is over.
Return(s, what) ==
  /\ pcS' = [pcS EXCEPT ![s] = "idle"]
  /\ next' = [next EXCEPT ![s] = @ + 1]
  /\ result' = [result EXCEPT ![s] = what]
  /\ holder' = IF Locked THEN NoCaller ELSE holder

\* init_server: the first caller creates the socket, everybody else goes on, even
\* while the first one still waits in accept.  A failing bind ends the process.
MustInit(s) == s_socket = "none"

InitServer(s) ==
  /\ process = "runs" /\ pcS[s] = "init"
  /\ \/ /\ MustInit(s)
        /\ s_socket' = "open" /\ pcS' = [pcS EXCEPT ![s] = "accept"] /\ UNCHANGED process
     \/ /\ MustInit(s) /\ process' = "exited" /\ UNCHANGED <<s_socket, pcS>>
     \/ /\ ~ MustInit(s)
        /\ pcS' = [pcS EXCEPT ![s] = "test"] /\ UNCHANGED <<s_socket, process>>
  /\ UNCHANGED <<c_socket, link, wire, sent, next, result, holder>>

\* accept returns a connection, or fails and leaves c_socket at -1 for good.
Accept(s) ==
  /\ process = "runs" /\ pcS[s] = "accept"
  /\ \/ link = "backlog" /\ link' = "up" /\ c_socket' = "open"
     \/ UNCHANGED <<link, c_socket>>
  /\ pcS' = [pcS EXCEPT ![s] = "test"]
  /\ UNCHANGED <<s_socket, wire, sent, next, result, holder, process>>

Sendable(p) == p.size > 3

\* No connection, or a packet that is too small: the packet is dropped.
Test(s) ==
  /\ process = "runs" /\ pcS[s] = "test"
  /\ IF c_socket = "open" /\ Sendable(Packet(s))
     THEN pcS' = [pcS EXCEPT ![s] = "header"] /\ UNCHANGED <<next, result, holder>>
     ELSE Return(s, "dropped")
  /\ UNCHANGED <<connVars, wire, sent, process>>

Room(n) == wire = <<>> \/ Len(wire) + n <= Window

\* send(): the bytes go out, or the tablet is gone and the call fails or raises
\* SIGPIPE, which nobody ignores.  A first send after the close may succeed.
Transmit(bytes) ==
  /\ Room(Len(bytes))
  /\ wire' = IF link = "up" THEN wire \o bytes ELSE wire
SendFails(s) ==
  /\ link = "closed"
  /\ \/ process' = "exited" /\ UNCHANGED callers
     \/ Return(s, "dropped") /\ UNCHANGED process
  /\ UNCHANGED <<wire, sent>>

SendHeader(s) ==
  /\ process = "runs" /\ pcS[s] = "header"
  /\ \/ /\ Transmit(Header(Packet(s).size)) /\ UNCHANGED sent
        /\ pcS' = [pcS EXCEPT ![s] = "payload"]
        /\ UNCHANGED <<next, result, holder, process>>
     \/ SendFails(s)
  /\ UNCHANGED connVars

SendPayload(s) ==
  /\ process = "runs" /\ pcS[s] = "payload"
  /\ \/ /\ Transmit(Payload(Packet(s)))
        /\ sent' = IF link = "up" THEN Append(sent, Packet(s)) ELSE sent
        /\ Return(s, "sent")
        /\ UNCHANGED process
     \/ SendFails(s)
  /\ UNCHANGED connVars

SendData(s) == \/ Call(s) \/ InitServer(s) \/ Accept(s) \/ Test(s)
               \/ SendHeader(s) \/ SendPayload(s)

\* The recorder is stopped; what it has sent can still be read.
Stop == /\ process = "runs"
        /\ process' = "exited"
        /\ UNCHANGED <<connVars, wire, sent, callers>>

-------------------------------------------------------------------------------
(* Properties.                                                             *)

\* The tablet sees the stream from its first packet, the one its decoder starts with:
\* no call has returned when the connection is made.  (Without the mutex a second
\* thread would go on and drop its packets while the first one waits in accept.)
ConnectedFromTheStart ==
  [][c_socket' # c_socket => \A s \in Senders : result[s] = "none"]_serverVars

\* With the mutex no packet is lost after the tablet was accepted, as long as it
\* stays: only packets that are too small for a frame are dropped.
NothingLost ==
  [][\A s \in Senders :
       link = "up" /\ next'[s] # next[s] /\ result'[s] = "dropped" => Packet(s).size <= 3]_serverVars
===============================================================================
