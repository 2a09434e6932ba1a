----------------------------- MODULE PortalSession -----------------------------
(***************************************************************************)
(* gpu-screen-recorder asks the desktop portal for a screencast (dbus.c    *)
(* and gsr_capture_portal_setup_dbus): CreateSession, SelectSources and    *)
(* Start are called one after the other, and each is answered later by a   *)
(* Response signal.  The recorder takes the next Response that comes,      *)
(* whatever request it answers.  A restore token, with which the portal    *)
(* asks the user no more, is kept in a file from one recording to the      *)
(* next.                                                                   *)
(*                                                                         *)
(* The arguments of the calls and the layout of the answers are left out:  *)
(* an answer without what is looked for in it has Failed.                  *)
(***************************************************************************)
EXTENDS Naturals, Sequences, FiniteSets

CONSTANTS Tokens, NoToken,   \* restore tokens of the portal, and the empty one
          MaxRuns            \* bound: recordings, one after the other

ASSUME SessionAssumption == NoToken \notin Tokens /\ MaxRuns \in Nat \ {0}

VARIABLES restore_portal_session,           \* the option -restore-portal-session
          runs, token_file, pc,
          session_handle, pipewire_node, screencast_restore_token,
          owed, responses,                  \* the portal: calls to answer, signals on the bus
          status,                           \* response_status
            node_from, granted                \* history

portal  == <<owed, responses>>
dbus    == <<session_handle, pipewire_node, screencast_restore_token, status>>
history == <<node_from, granted>>
setup   == <<restore_portal_session, runs, token_file>>
sessionVars == <<setup, pc, portal, dbus, history>>

Success == 0
Cancelled == 1          \* or ended, by the user
Failed == 2             \* -1 in the code
Statuses == {Success, Cancelled, Failed}

\* A Response: what it answers, and what the recorder reads from it.
Response(method, result, node, token) ==
  [to |-> method, status |-> result, node |-> node, token |-> token]

Responses(method) ==
  {Response(method, result, 0, NoToken) : result \in Statuses}
    \cup {Response("Start", Success, node, token) :
             node \in IF method = "Start" THEN {0, 1} ELSE {}, token \in Tokens \cup {NoToken}}

\* A recording begins.  The token is read only when it is to be used.
Begun(restore) ==
  /\ restore_portal_session' = restore
  /\ pc' = "CreateSession" /\ session_handle' = FALSE /\ pipewire_node' = 0
  /\ screencast_restore_token' = IF restore THEN token_file ELSE NoToken
  /\ owed' = {} /\ responses' = <<>>
  /\ status' = Success /\ node_from' = "none"

InitSession ==
  /\ restore_portal_session \in BOOLEAN
  /\ runs = 1 /\ token_file = NoToken /\ granted = NoToken
  /\ pc = "CreateSession" /\ session_handle = FALSE /\ pipewire_node = 0
  /\ screencast_restore_token = NoToken
  /\ owed = {} /\ responses = <<>>
  /\ status = Success /\ node_from = "none"

-------------------------------------------------------------------------------
(* Plausible mistakes in the definitions below; the specification does not *)
(* use them.                                                               *)

SaveOld == token_file
NodeUnchecked == TRUE
AwaitAnyway(version) == "await SelectSources"

-------------------------------------------------------------------------------
(* The portal.                                                             *)

Answer ==
  \E method \in owed : \E response \in Responses(method) :
    /\ owed' = owed \ {method} /\ responses' = Append(responses, response)
    /\ granted' = IF method = "Start" /\ response.status = Success /\ response.node # 0
                  THEN response.token ELSE granted
    /\ UNCHANGED <<setup, pc, dbus, node_from>>

-------------------------------------------------------------------------------
(* The recorder.                                                           *)

\* call_screencast_method waits for the reply: the request's path, or an error.  An
\* error may be a reply that was late, and then the portal goes on with the request.
Call(method, replied, failed) ==
  \/ owed' = owed \cup {method} /\ pc' = replied
  \/ /\ owed' \in {owed, owed \cup {method}} /\ pc' = failed

Fails == "failed"

CreateSession ==
  /\ pc = "CreateSession" /\ Call("CreateSession", "await CreateSession", Fails)
  /\ status' = Failed
  /\ UNCHANGED <<setup, responses, session_handle, pipewire_node, screencast_restore_token, history>>

\* The token is sent to a portal that knows tokens; when the call fails with it, the
\* call is made again without.
WithToken(version) == version >= 4 /\ screencast_restore_token # NoToken /\ pc # "retry"
AfterError(version) == IF WithToken(version) THEN "retry" ELSE Fails

SelectSources ==
  /\ pc \in {"SelectSources", "retry"}
  /\ \E version \in {3, 4} :
       Call(IF pc = "retry" THEN "SelectSources again" ELSE "SelectSources",
            "await SelectSources", AfterError(version))
  /\ status' = Failed
  /\ UNCHANGED <<setup, responses, session_handle, pipewire_node, screencast_restore_token, history>>

StartScreencast ==
  /\ pc = "Start" /\ Call("Start", "await Start", Fails)
  /\ status' = Failed
  /\ UNCHANGED <<setup, responses, session_handle, pipewire_node, screencast_restore_token, history>>

\* The next Response on the bus, and its status.
Received(waiting) == pc = waiting /\ responses # <<>> /\ responses' = Tail(responses)
Taken == Head(responses)
HasSession == Taken.to = "CreateSession"
HasNode == Taken.node # 0

SessionCreated ==
  /\ Received("await CreateSession")
  /\ status' = IF Taken.status = Success /\ ~ HasSession THEN Failed ELSE Taken.status
  /\ session_handle' = (status' = Success)
  /\ pc' = IF status' = Success THEN "SelectSources" ELSE Fails
  /\ UNCHANGED <<setup, owed, pipewire_node, screencast_restore_token, history>>

SourcesSelected ==
  /\ Received("await SelectSources")
  /\ status' = Taken.status
  /\ pc' = IF status' = Success THEN "Start" ELSE Fails
  /\ UNCHANGED <<setup, owed, session_handle, pipewire_node, screencast_restore_token, history>>

\* The last of the streams is the one, and the token replaces the old one.
Started ==
  /\ Received("await Start")
  /\ status' = IF Taken.status = Success /\ ~ HasNode THEN Failed ELSE Taken.status
  /\ IF Taken.status = Success
     THEN /\ pipewire_node' = Taken.node /\ node_from' = Taken.to
          /\ screencast_restore_token' = IF Taken.token # NoToken THEN Taken.token
                                         ELSE screencast_restore_token
     ELSE UNCHANGED <<pipewire_node, node_from, screencast_restore_token>>
  /\ pc' = IF status' = Success THEN "save" ELSE Fails
  /\ UNCHANGED <<setup, owed, session_handle, granted>>

\* The file is written anew, also with the token that was read from it, or with
\* nothing.  (That the file may fail to be written is left out.)
Saved == screencast_restore_token

SaveRestoreToken ==
  /\ pc = "save" /\ pc' = "open"
  /\ token_file' = Saved /\ granted' = NoToken
  /\ UNCHANGED <<restore_portal_session, runs, portal, dbus, node_from>>

OpenPipeWireRemote ==
  /\ pc = "open" /\ pc' \in {"pipewire", Fails}
  /\ status' = IF pc' = Fails THEN Failed ELSE Success
  /\ UNCHANGED <<setup, portal, session_handle, pipewire_node, screencast_restore_token, history>>

SetupDbus == \/ CreateSession \/ SessionCreated \/ SelectSources \/ SourcesSelected
             \/ StartScreencast \/ Started \/ SaveRestoreToken \/ OpenPipeWireRemote

\* The recorder is started again, with the option or without it.
StartAgain ==
  /\ pc = "exited" /\ runs < MaxRuns /\ runs' = runs + 1
  /\ \E restore \in BOOLEAN : Begun(restore)
  /\ UNCHANGED <<token_file, granted>>

-------------------------------------------------------------------------------
(* Properties.                                                             *)

TypeOKSession ==
  /\ restore_portal_session \in BOOLEAN /\ runs \in 1 .. MaxRuns
  /\ {token_file, screencast_restore_token, granted} \subseteq Tokens \cup {NoToken}
  /\ session_handle \in BOOLEAN /\ pipewire_node \in {0, 1}
  /\ status \in Statuses

Capturing ==
  pc \in {"save", "open", "pipewire", "dimensions", "measured", "loop", "clear", "capture", "drawn"}

\* "TODO: Make sure responses matches the requests" (dbus.c:11): although the recorder
\* takes any Response, the stream it captures is one that Start was answered with, in a
\* session of its own; when SelectSources was retried and a late answer puts it out of
\* step, it fails rather than capture.
NodeFromStart ==
  Capturing => session_handle /\ pipewire_node # 0 /\ node_from = "Start"
===============================================================================
