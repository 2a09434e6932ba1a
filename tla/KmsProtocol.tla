------------------------------ MODULE KmsProtocol ------------------------------
(***************************************************************************)
(* Monitor capture through KMS in gpu-screen-recorder: the recorder        *)
(* (gsr_capture_kms on top of kms_client.c) and the privileged process     *)
(* gsr-kms-server (kms_server.c).  The recorder starts the server, accepts *)
(* its connection on a socket file, replaces it by one end of a socket     *)
(* pair, and then asks for the DRM planes once per frame.                  *)
(*                                                                         *)
(* The recorder keeps both ends of the pair open, and a server it executes *)
(* itself inherits them; pkexec closes them.  A request is the number of   *)
(* the call, 0 for the replacement of the connection.                      *)
(***************************************************************************)
EXTENDS Integers, Sequences, FiniteSets

CONSTANTS Launches,    \* ways to start the server: subset of {"direct", "pkexec"}
          Versions,    \* the server's protocol version: subset of {"same", "other"}
          Screens,     \* what the DRM planes may look like
          Target,      \* connectors of the captured monitor, in their order
          MaxItems,    \* GSR_KMS_MAX_ITEMS
          BufferSize,  \* requests the socket holds before sendmsg blocks
          MaxCalls     \* bound: calls of gsr_kms_client_get_kms

Unusable == {"no_plane", "no_fb_id", "no_fb", "no_handle", "overlay", "no_fd"}
Plane    == [kind : Unusable \cup {"primary", "cursor"}, connector : Nat, size : Nat]

ASSUME KmsAssumption ==
  /\ Launches \subseteq {"direct", "pkexec"} /\ Versions \subseteq {"same", "other"}
  /\ Screens \subseteq Seq(Plane) /\ Target \in Seq(Nat)
  /\ MaxItems \in Nat \ {0} /\ BufferSize \in Nat \ {0} /\ MaxCalls \in Nat

VARIABLES launch, version,
          pcC, call, kms_response,   \* the recorder; descriptors it holds are in kms_response
          answers,                   \* history: the call that kms_response answers
          pcS, socket, response,     \* the server; descriptors it holds are in response
          initial,                   \* the socket file and the connection made on it
          firstRequest,              \* a request on that connection
          toServer, toClient         \* the socket pair

recorder == <<pcC, call, kms_response, answers>>
server   == <<pcS, socket, response>>
network  == <<initial, firstRequest, toServer, toClient>>
vars == <<launch, version, recorder, server, network>>

Running     == pcC \notin {"stopped", "crashed"}
ServerAlive == pcS # "dead"
\* The recorder's end of the pair is open while somebody holds it.
LocalEndOpen == Running \/ launch = "direct"

Init ==
  /\ launch \in Launches /\ version \in Versions
  /\ pcC = "init" /\ call = 0 /\ kms_response = <<>> /\ answers = 0
  /\ pcS = "forked" /\ socket = "initial" /\ response = <<>>
  /\ initial = "listening" /\ firstRequest = FALSE
  /\ toServer = <<>> /\ toClient = <<>>

-------------------------------------------------------------------------------
(* Planes.                                                                 *)

IsItem(p)   == p.kind \in {"primary", "cursor"}
IsCursor(p) == p.kind = "cursor"

First(items, Test(_)) ==
  LET hits == {i \in 1 .. Len(items) : Test(items[i])}
  IN  IF hits = {} THEN 0 ELSE CHOOSE i \in hits : \A j \in hits : i <= j

-------------------------------------------------------------------------------
(* Plausible mistakes in the definitions below; the specification does not *)
(* use them.                                                               *)

GiveUpEarly == TRUE
AnyPlane(items, connector) ==
  LET Matches(p) == p.connector = connector IN First(items, Matches)
LeaveMessage(m) == UNCHANGED toClient
ForgetKill == UNCHANGED pcS
RespondUnlessFailed ==
  /\ pcS = "respond" /\ LocalEndOpen
  /\ toClient' = IF response[1].items = <<>> THEN toClient ELSE toClient \o response
  /\ response' = <<>> /\ pcS' = "serving"
  /\ UNCHANGED <<launch, version, recorder, socket, initial, firstRequest, toServer>>

-------------------------------------------------------------------------------
(* Choosing planes: the server for the answer, the recorder for the frame. *)

Shorter(a, b) == IF a < b THEN a ELSE b
\* kms_get_fb: the first MaxItems planes that are of use; each holds a descriptor.
\* Its result, a failure when there are none, is sent but looked at by nobody.
KmsGetFb(screen) ==
  LET useful == {i \in 1 .. Len(screen) : IsItem(screen[i])}
      Nth(k) == CHOOSE i \in useful : Cardinality({j \in useful : j <= i}) = k
  IN  [k \in 1 .. Shorter(MaxItems, Cardinality(useful)) |-> screen[Nth(k)]]

FindDrmByConnectorId(items, connector) ==
  LET Matches(p) == p.connector = connector /\ ~ IsCursor(p) IN First(items, Matches)

\* The first plane of the largest size; the first item when there are only cursors.
FindLargestDrm(items) ==
  LET sizes == {items[i].size : i \in {j \in 1 .. Len(items) : ~ IsCursor(items[j])}}
      Largest(p) == ~ IsCursor(p) /\ \A s \in sizes : p.size >= s
  IN  IF sizes \subseteq {0} THEN 1 ELSE First(items, Largest)

\* 0 when no item is on a connector of the monitor.
OnMonitor(items) ==
  LET Hit(connector) == FindDrmByConnectorId(items, connector) # 0
      k == First(Target, Hit)
  IN  IF k = 0 THEN 0 ELSE FindDrmByConnectorId(items, Target[k])

FindMonitorDrm(items) ==
  IF OnMonitor(items) # 0 THEN OnMonitor(items) ELSE FindLargestDrm(items)

\* The first cursor on the connector, or else the last of all cursors.
FindCursorDrm(items, connector) ==
  LET Matches(p) == p.connector = connector /\ IsCursor(p)
      cursors == {i \in 1 .. Len(items) : IsCursor(items[i])}
  IN  IF First(items, Matches) # 0 THEN First(items, Matches)
      ELSE IF cursors = {} THEN 0 ELSE CHOOSE i \in cursors : \A j \in cursors : j <= i

\* A plane that combines several monitors gets any cursor, a monitor only its own.
FindCursorDrmIfOnMonitor(items) ==
  LET connector == items[FindMonitorDrm(items)].connector
      cursor == FindCursorDrm(items, connector)
  IN  IF cursor # 0 /\ OnMonitor(items) # 0 /\ items[cursor].connector # connector
      THEN 0 ELSE cursor

-------------------------------------------------------------------------------
(* The recorder.                                                           *)

\* cleanup_socket with kill_server.  A server that runs as root cannot be killed
\* by the recorder; nobody waits for a killed one.
KillServer == pcS' = IF launch = "direct" THEN "dead" ELSE pcS

Deinit == /\ pcC' = "stopped" /\ kms_response' = <<>>
          /\ initial' = "gone"
          /\ KillServer
          /\ UNCHANGED <<call, answers, socket, response, firstRequest, toServer, toClient>>

AcceptServer ==
  /\ pcC = "init" /\ initial = "backlog"
  /\ \/ /\ initial' = "open" /\ pcC' = "replace"
        /\ UNCHANGED <<call, kms_response, answers, server, firstRequest, toServer, toClient>>
     \/ Deinit
  /\ UNCHANGED <<launch, version>>

ServerNeverStarted == pcC = "init" /\ initial # "backlog" /\ ~ ServerAlive

\* waitpid in the accept loop: the server ended before it connected.
InitFails == /\ ServerNeverStarted
             /\ Deinit
             /\ UNCHANGED <<launch, version>>

\* Sending to a server that has left after it connected raises SIGPIPE.
ReplaceConnection ==
  /\ pcC = "replace"
  /\ IF ServerAlive THEN pcC' = "receive" /\ firstRequest' = TRUE
                    ELSE pcC' = "crashed" /\ UNCHANGED firstRequest
  /\ UNCHANGED <<launch, version, call, kms_response, answers, server, initial, toServer, toClient>>

\* gsr_capture_kms_capture: closes what is left of the last frame and makes a call.
GetKms ==
  /\ pcC = "ready" /\ call < MaxCalls
  /\ call' = call + 1 /\ kms_response' = <<>> /\ pcC' = "send"
  /\ UNCHANGED <<launch, version, answers, server, network>>

SendRequest ==
  /\ pcC = "send" /\ Len(toServer) < BufferSize
  /\ toServer' = Append(toServer, call)
  /\ pcC' = "receive"
  /\ UNCHANGED <<launch, version, call, kms_response, answers, server,
                 initial, firstRequest, toClient>>

TakeMessage(m) == toClient' = Tail(toClient)

\* recv_msg_from_server gets a response: whichever is first in the socket.
Receive ==
  /\ pcC = "receive" /\ toClient # <<>>
  /\ TakeMessage(Head(toClient))
  /\ answers' = Head(toClient).call
  /\ IF call = 0
     THEN pcC' = "ready" /\ initial' = "gone" /\ UNCHANGED kms_response
     ELSE /\ kms_response' = Head(toClient).items
          /\ pcC' = IF kms_response' = <<>> THEN "ready" ELSE "drawing"
          /\ UNCHANGED initial
  /\ UNCHANGED <<launch, version, call, server, firstRequest, toServer>>

\* Nothing there: the second half of an iteration asks whether the server has died,
\* which is not the same moment.
NothingYet ==
  /\ pcC = "receive" /\ toClient = <<>>
  /\ pcC' = "waitpid"
  /\ UNCHANGED <<launch, version, call, kms_response, answers, server, network>>

Died == ~ ServerAlive

CheckServer ==
  /\ pcC = "waitpid"
  /\ \/ /\ Died /\ call = 0 /\ Deinit
     \/ /\ Died /\ call > 0 /\ pcC' = "ready"
        /\ UNCHANGED <<call, kms_response, answers, server, network>>
     \/ /\ ServerAlive /\ pcC' = "receive"
        /\ UNCHANGED <<call, kms_response, answers, server, network>>
  /\ UNCHANGED <<launch, version>>

\* The chosen plane is drawn, and every descriptor of the frame is closed.
Draw ==
  /\ pcC = "drawing"
  /\ kms_response' = <<>> /\ pcC' = "ready"
  /\ UNCHANGED <<launch, version, call, answers, server, network>>

Stop == /\ pcC = "ready"
        /\ Deinit
        /\ UNCHANGED <<launch, version>>

\* The recorder is killed.  A listening socket that the server inherited stays.
Crash ==
  /\ Running
  /\ pcC' = "crashed" /\ kms_response' = <<>>
  /\ initial' = IF launch = "direct" /\ initial \in {"listening", "backlog"} THEN initial ELSE "gone"
  /\ UNCHANGED <<launch, version, call, answers, server, firstRequest, toServer, toClient>>

-------------------------------------------------------------------------------
(* The server.                                                             *)

ServerStarts ==
  /\ pcS = "forked"
  /\ pcS' \in {"connecting", "dead"}
  /\ UNCHANGED <<launch, version, recorder, socket, response, network>>

\* The first connect succeeds, a second one 30 ms later tells so (EISCONN).
ServerConnects ==
  /\ \/ pcS = "connecting" /\ initial = "listening" /\ initial' = "backlog" /\ pcS' = "confirm"
     \/ pcS = "confirm" /\ pcS' = "serving" /\ UNCHANGED initial
  /\ UNCHANGED <<launch, version, recorder, socket, response, firstRequest, toServer, toClient>>

\* The five seconds are over, also between the two.
ServerTimesOut ==
  /\ pcS \in {"connecting", "confirm"}
  /\ pcS' = "dead"
  /\ UNCHANGED <<launch, version, recorder, socket, response, network>>

\* The replacement is answered on the new connection; a request of another
\* version is not answered at all.
ServerReplaces ==
  /\ pcS = "serving" /\ socket = "initial" /\ firstRequest
  /\ firstRequest' = FALSE
  /\ IF version = "same"
     THEN /\ socket' = "pair"
          /\ IF LocalEndOpen
             THEN toClient' = Append(toClient, [call |-> 0, items |-> <<>>]) /\ UNCHANGED pcS
             ELSE pcS' = "dead" /\ UNCHANGED toClient
     ELSE UNCHANGED <<pcS, socket, toClient>>
  /\ UNCHANGED <<launch, version, recorder, response, initial, toServer>>

ServerReadsPlanes ==
  /\ pcS = "serving" /\ socket = "pair" /\ toServer # <<>>
  /\ \E screen \in Screens :
       response' = <<[call |-> Head(toServer), items |-> KmsGetFb(screen)]>>
  /\ toServer' = Tail(toServer)
  /\ pcS' = "respond"
  /\ UNCHANGED <<launch, version, recorder, socket, initial, firstRequest, toClient>>

\* sendmsg (SIGPIPE when nobody is left), then the server's descriptors are closed.
ServerResponds ==
  /\ pcS = "respond"
  /\ IF LocalEndOpen THEN toClient' = toClient \o response /\ pcS' = "serving"
                     ELSE pcS' = "dead" /\ UNCHANGED toClient
  /\ response' = <<>>
  /\ UNCHANGED <<launch, version, recorder, socket, initial, firstRequest, toServer>>

EndOfFile == IF socket = "initial" THEN initial = "gone" /\ ~ firstRequest
                                   ELSE toServer = <<>> /\ ~ LocalEndOpen

ServerSeesShutdown ==
  /\ pcS = "serving" /\ EndOfFile
  /\ pcS' = "dead"
  /\ UNCHANGED <<launch, version, recorder, socket, response, network>>

ServerDies ==
  /\ pcS \in {"serving", "respond"}
  /\ pcS' = "dead"
  /\ UNCHANGED <<launch, version, recorder, socket, response, network>>

-------------------------------------------------------------------------------
Client == \/ AcceptServer \/ InitFails \/ ReplaceConnection \/ SendRequest \/ Receive
          \/ NothingYet \/ CheckServer \/ Draw
Server == \/ ServerStarts \/ ServerConnects \/ ServerTimesOut \/ ServerReplaces
          \/ ServerReadsPlanes \/ ServerResponds \/ ServerSeesShutdown

Next == Client \/ GetKms \/ Stop \/ Crash \/ Server \/ ServerDies

Spec == Init /\ [][Next]_vars

\* Both processes run; nobody has to ask for a frame, to stop or to crash.
FairSpec == Spec /\ WF_vars(Client) /\ WF_vars(Server)

-------------------------------------------------------------------------------
(* Properties.                                                             *)

Answers == {KmsGetFb(s) : s \in Screens} \cup {<<>>}
Message == [call : 0 .. MaxCalls, items : Answers]

TypeOK ==
  /\ launch \in Launches /\ version \in Versions
  /\ pcC \in {"init", "replace", "ready", "send", "receive", "waitpid", "drawing",
              "stopped", "crashed"}
  /\ call \in 0 .. MaxCalls /\ answers \in 0 .. MaxCalls
  /\ kms_response \in Answers
  /\ pcS \in {"forked", "connecting", "confirm", "serving", "respond", "dead"}
  /\ socket \in {"initial", "pair"} /\ initial \in {"listening", "backlog", "open", "gone"}
  /\ firstRequest \in BOOLEAN
  /\ toServer \in Seq(1 .. MaxCalls) /\ Len(toServer) <= BufferSize
  /\ toClient \in Seq(Message) /\ response \in Seq(Message)

\* While the server lives, recorder and server go in step: the recorder waits for an
\* answer exactly when one request or response of that very call is on its way, and
\* it never starts a call before the server has switched to the pair.
Waiting == pcC \in {"receive", "waitpid"}
OnTheWay == (IF firstRequest THEN <<0>> ELSE <<>>) \o toServer
              \o [i \in 1 .. Len(response) |-> response[i].call]
              \o [i \in 1 .. Len(toClient) |-> toClient[i].call]
LockStep ==
  ServerAlive /\ Running /\ version = "same"
    => /\ OnTheWay = IF Waiting THEN <<call>> ELSE <<>>
       /\ call > 0 => socket = "pair"

\* A frame shows the planes as they were during its own call.  When the server dies
\* between the two tests of an iteration, its last answer is taken for the next call,
\* and none after that.
FreshAnswer == pcC = "drawing" => /\ answers = call \/ (~ ServerAlive /\ answers = call - 1)
                                  /\ ~ ServerAlive => toClient = <<>>

\* The captured plane belongs to the monitor whenever the server reported one that
\* does, and is never a cursor when any other plane was reported; on a plane of its
\* own a monitor gets its own cursor and no other one.
RightPlane(items) ==
  LET chosen == items[FindMonitorDrm(items)]
      cursor == FindCursorDrmIfOnMonitor(items)
      planes == {items[i] : i \in 1 .. Len(items)}
      Targeted(p) == \E k \in 1 .. Len(Target) : p.connector = Target[k]
  IN  /\ chosen.kind = "cursor" => \A p \in planes : p.kind = "cursor"
      /\ (\E p \in planes : ~ IsCursor(p) /\ Targeted(p))
           => /\ ~ IsCursor(chosen) /\ Targeted(chosen)
              /\ IF cursor = 0
                 THEN \A p \in planes : ~ (IsCursor(p) /\ p.connector = chosen.connector)
                 ELSE IsCursor(items[cursor]) /\ items[cursor].connector = chosen.connector
RightMonitor == pcC = "drawing" => RightPlane(kms_response)

\* gsr_kms_client_init returns, whatever becomes of the server, when the versions
\* agree.  gsr_kms_client_get_kms returns, also when the server dies, until the
\* requests that nobody reads any more have filled the socket.
CallsReturn ==
  /\ pcC = "init" /\ version = "same" ~> pcC \in {"ready", "stopped", "crashed"}
  /\ pcC = "send" ~> \/ pcC \notin {"send", "receive", "waitpid"}
                     \/ ~ ServerAlive /\ Len(toServer) = BufferSize

\* The server ends with the recorder that stopped it, and with one that crashed if it
\* was started by pkexec.
ServerEnds ==
  (pcC = "stopped" \/ (pcC = "crashed" /\ launch = "pkexec")) ~> ~ ServerAlive
===============================================================================
