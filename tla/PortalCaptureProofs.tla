-------------------------- MODULE PortalCaptureProofs --------------------------
(***************************************************************************)
(* Proofs about PortalCapture, for any tokens, descriptors, planes and     *)
(* number of recordings: the stream is one that Start was answered with,   *)
(* the token granted is the one that is kept, every descriptor of a plane  *)
(* has one owner and is closed once, and no frame is missed.               *)
(*                                                                         *)
(* The session and the capture share only pc, and each has an invariant of *)
(* its own.  That of the session says which answers may be on the bus,     *)
(* since the recorder takes them in whatever order they come.  That of     *)
(* the capture says who has the planes, and where the newest frame is.     *)
(***************************************************************************)
EXTENDS PortalCapture, FiniteSetTheorems, SequenceTheorems, TLAPS

Methods == {"CreateSession", "SelectSources", "SelectSources again", "Start"}
Answers == UNION {Responses(method) : method \in Methods}

Creating  == {"CreateSession", "await CreateSession"}
Selecting == {"SelectSources", "retry", "await SelectSources"}
Opening   == {"save", "open", "pipewire"}
Looping   == {"loop", "clear", "capture", "drawn"}
Drawing   == {"dimensions", "measured"} \cup Looping
Ending    == {Fails, "stop", "join", "deinit", "exited"}
SettingUp == Creating \cup Selecting \cup {"Start", "await Start"} \cup Opening
Pcs       == SettingUp \cup Drawing \cup Ending

SessionType ==
  /\ TypeOKSession
  /\ pc \in Pcs /\ owed \subseteq Methods /\ responses \in Seq(Answers)

\* A session is there once it was selected, and a stream once it was started.
StreamInv ==
  /\ pc \in Pcs \ (Creating \cup Ending) => session_handle
  /\ Capturing => pipewire_node # 0 /\ node_from = "Start"

\* Start is answered with a stream at most once, and not before it is called.
NoStreamYet == \A i \in 1 .. Len(responses) : responses[i].node = 0

AnswersInv ==
  /\ pc \in Creating \cup Selecting \cup {"Start"} => "Start" \notin owed
  /\ pc \in Creating \cup Selecting \cup {"Start"} \/ "Start" \in owed => NoStreamYet
  /\ pc = "save" => "Start" \notin owed

\* The token to keep, when the portal grants no other.
Kept == IF restore_portal_session THEN token_file ELSE NoToken

TokenInv ==
  /\ pc \in Creating \cup Selecting \cup {"Start", "await Start"} => screencast_restore_token = Kept
  /\ pc = "await Start" =>
       \A i \in 1 .. Len(responses) : responses[i].node # 0 => responses[i].token = granted
  /\ pc = "save" => screencast_restore_token = IF granted # NoToken THEN granted ELSE Kept

SessionInv == SessionType /\ StreamInv /\ AnswersInv /\ TokenInv

\* What the capture's variables hold.
Planes == UNION {[1 .. n -> Fds \cup {Bad}] : n \in 0 .. MaxPlanes}

CaptureType ==
  /\ pc \in Pcs
  /\ open \subseteq Fds
  /\ queued \in {NoFrame, "current"} /\ taken \in Frames /\ frame \in Frames
  /\ video \in Frames \cup {"garbled"}
  /\ pcT \in {"none", "idle", "process"}
  /\ promised \in BOOLEAN /\ negotiated \in BOOLEAN /\ same_format \in BOOLEAN
  /\ damaged \in BOOLEAN
  /\ paused \in BOOLEAN /\ excused \in BOOLEAN
  /\ dmabuf_fds \in Planes /\ capture_fds \in Planes

Resources == {"fd", "mutex", "thread_loop", "context", "core", "stream"}

\* The recorder has planes only while it draws them, PipeWire's thread only while it
\* runs or is waited for.
PlanesInv ==
  /\ misused = FALSE
  /\ open = Of(dmabuf_fds) \cup Of(capture_fds)
  /\ Of(dmabuf_fds) \cap Of(capture_fds) = {}
  /\ pc \notin {"measured", "drawn"} => capture_fds = <<>>
  /\ pc \in SettingUp \cup {"deinit", "exited"} => pcT = "none"
  /\ pc \in SettingUp \cup {"exited"} => dmabuf_fds = <<>>
  /\ pc \in (SettingUp \ {"pipewire"}) \cup {"exited"} => held = <<>>
  /\ Len(held) <= Len(Acquired) /\ held \in Seq(Resources)

\* A frame waits with its planes, and only the last frame can be what is on the screen.
FrameInv ==
  /\ pcT = "process" <=> taken # NoFrame
  /\ frame = NoFrame <=> dmabuf_fds = <<>>
  /\ taken = "old" => queued = "current"
  /\ frame = "current" => taken = NoFrame /\ queued = NoFrame
  /\ taken = "current" => queued = NoFrame
  /\ video = "current" => taken = NoFrame /\ queued = NoFrame /\ frame = NoFrame
  /\ ~ same_format => promised \/ "current" \in {queued, taken}
  /\ pc \in SettingUp \cup {"exited"} => ~ negotiated
  /\ pc \in SettingUp \cup {"dimensions", "exited"} => ~ excused
  /\ pc \in {"measured"} \cup Looping => negotiated

\* NothingMissed, from the time the stream has a format.
NewestInv ==
  pc \in Drawing /\ negotiated /\ ~ excused /\ video # "current" =>
    \/ promised \/ "current" \in {queued, taken}
    \/ frame = "current" /\ (damaged \/ pc \in {"clear", "capture"})

CaptureInv == CaptureType /\ PlanesInv /\ FrameInv /\ NewestInv

Inv == SessionInv /\ CaptureInv

-------------------------------------------------------------------------------
(* The answers.                                                            *)

\* An answer has its parts in their ranges, and a stream in it is Start's.
LEMMA AnswerHas ==
  ASSUME NEW method \in Methods, NEW response \in Responses(method)
  PROVE  /\ response \in Answers
         /\ response.status \in Statuses /\ response.node \in {0, 1}
         /\ response.token \in Tokens \cup {NoToken}
         /\ response.node # 0 => method = "Start" /\ response.to = "Start"
<1>1. response \in Answers
  BY DEF Answers
<1>2. /\ response.status \in Statuses /\ response.node \in {0, 1}
      /\ response.token \in Tokens \cup {NoToken}
      /\ response.node # 0 => method = "Start" /\ response.to = "Start"
  BY DEF Responses, Response, Statuses, Success, Cancelled, Failed
<1> QED
  BY <1>1, <1>2

\* The next answer on the bus is one of them, and what is left on the bus was there.
LEMMA Taking ==
  ASSUME responses \in Seq(Answers), responses # <<>>
  PROVE  /\ Taken \in Answers /\ Taken = responses[1] /\ 1 \in 1 .. Len(responses)
         /\ Taken.status \in Statuses /\ Taken.node \in {0, 1}
         /\ Taken.token \in Tokens \cup {NoToken}
         /\ Taken.node # 0 => Taken.to = "Start"
         /\ Tail(responses) \in Seq(Answers)
         /\ \A i \in 1 .. Len(Tail(responses)) :
              i + 1 \in 1 .. Len(responses) /\ Tail(responses)[i] = responses[i + 1]
<1>1. Taken \in Answers /\ Taken = responses[1] /\ 1 \in 1 .. Len(responses)
  BY DEF Taken
<1>2. PICK method \in Methods : Taken \in Responses(method)
  BY <1>1 DEF Answers
<1>3. /\ Tail(responses) \in Seq(Answers)
      /\ \A i \in 1 .. Len(Tail(responses)) :
           i + 1 \in 1 .. Len(responses) /\ Tail(responses)[i] = responses[i + 1]
  OBVIOUS
<1> QED
  BY <1>1, <1>2, <1>3, AnswerHas

\* Taking an answer leaves no stream on the bus where there was none.
LEMMA StillNoStream ==
  ASSUME responses \in Seq(Answers), responses # <<>>, responses' = Tail(responses), NoStreamYet
  PROVE  NoStreamYet'
BY Taking DEF NoStreamYet

-------------------------------------------------------------------------------
(* The session's invariant.                                                *)

\* A recording that was never begun has no session, no stream and no token.
LEMMA SessionStarts == Init => SessionInv
<1> SUFFICES ASSUME Init PROVE SessionInv
  OBVIOUS
<1>1. SessionType
  <2>1. 1 \in 1 .. MaxRuns /\ Success \in Statuses /\ <<>> \in Seq(Answers)
    BY SessionAssumption DEF Statuses
  <2>2. "CreateSession" \in Pcs
    BY DEF Pcs, SettingUp, Creating
  <2> QED
    BY <2>1, <2>2 DEF Init, InitSession, SessionType, TypeOKSession
<1>2. StreamInv /\ AnswersInv /\ TokenInv
  BY DEF Init, InitSession, StreamInv, AnswersInv, TokenInv, NoStreamYet, Kept, Capturing,
         Creating, Selecting
<1> QED
  BY <1>1, <1>2 DEF SessionInv

\* The places of the recorder, told apart.
LEMMA Places ==
  /\ "CreateSession" \in Creating /\ "await CreateSession" \in Creating
  /\ "SelectSources" \in Selecting /\ "retry" \in Selecting /\ "await SelectSources" \in Selecting
  /\ Fails \in Ending /\ Fails \in Pcs /\ Fails = "failed"
  /\ Creating \cup Selecting \cup {"Start", "await Start"} \cup Opening \subseteq Pcs
  /\ Creating \cap Selecting = {} /\ (Creating \cup Selecting) \cap Ending = {}
BY DEF Creating, Selecting, Opening, Drawing, Looping, Ending, SettingUp, Pcs, Fails

\* The portal answers a call: only Start's answer has a stream, and then Start is owed no more.
LEMMA AnswerKeeps == SessionInv /\ Answer => SessionInv'
<1> SUFFICES ASSUME SessionInv, Answer PROVE SessionInv'
  OBVIOUS
<1>0. SessionType /\ StreamInv /\ AnswersInv /\ TokenInv
  BY DEF SessionInv
<1>1. PICK method \in owed : \E response \in Responses(method) :
        /\ owed' = owed \ {method} /\ responses' = Append(responses, response)
        /\ granted' = IF method = "Start" /\ response.status = Success /\ response.node # 0
                      THEN response.token ELSE granted
        /\ UNCHANGED <<setup, pc, dbus, node_from>>
  BY DEF Answer
<1>2. PICK response \in Responses(method) :
        /\ owed' = owed \ {method} /\ responses' = Append(responses, response)
        /\ granted' = IF method = "Start" /\ response.status = Success /\ response.node # 0
                      THEN response.token ELSE granted
        /\ UNCHANGED <<setup, pc, dbus, node_from>>
  BY <1>1
<1>3. method \in Methods /\ owed \subseteq Methods /\ responses \in Seq(Answers)
  BY <1>0 DEF SessionType
<1>4. /\ response \in Answers
      /\ response.status \in Statuses /\ response.node \in {0, 1}
      /\ response.token \in Tokens \cup {NoToken}
      /\ response.node # 0 => method = "Start" /\ response.to = "Start"
      /\ response.node # 0 => response.status = Success
  <2>1. response.node # 0 => response.status = Success
    BY DEF Responses, Response
  <2> QED
    BY <1>3, <2>1, AnswerHas
<1>5. SessionType'
  <2>1. responses' \in Seq(Answers)
    BY <1>2, <1>3, <1>4
  <2>2. granted' \in Tokens \cup {NoToken}
    BY <1>0, <1>2, <1>4 DEF SessionType, TypeOKSession
  <2> QED
    BY <1>0, <1>2, <1>3, <2>1, <2>2 DEF SessionType, TypeOKSession, setup, dbus
<1>6. StreamInv'
  BY <1>0, <1>2 DEF StreamInv, Capturing, setup, dbus
<1>7. /\ Len(responses') = Len(responses) + 1 /\ Len(responses) \in Nat
      /\ responses'[Len(responses) + 1] = response
      /\ \A i \in 1 .. Len(responses) : responses'[i] = responses[i]
  BY <1>2, <1>3, <1>4
<1>8. \A i \in 1 .. Len(responses') : i \in 1 .. Len(responses) \/ responses'[i] = response
  BY <1>7
<1>9. NoStreamYet /\ response.node = 0 => NoStreamYet'
  BY <1>7, <1>8 DEF NoStreamYet
<1>10. AnswersInv'
  <2>1. pc' = pc /\ ("Start" \in owed' => "Start" \in owed /\ method # "Start")
    BY <1>2
  <2>2. pc \in Creating \cup Selecting \cup {"Start"} => method # "Start"
    BY <1>0 DEF AnswersInv
  <2> QED
    BY <1>0, <1>4, <1>9, <2>1, <2>2, Zenon DEF AnswersInv
<1>11. TokenInv'
  <2>1. UNCHANGED <<pc, screencast_restore_token, restore_portal_session, token_file>>
    BY <1>2 DEF setup, dbus
  <2>2. Kept' = Kept
    BY <2>1 DEF Kept
  <2>3. CASE method = "Start"
    <3>1. NoStreamYet /\ pc # "save"
      BY <1>0, <2>3 DEF AnswersInv
    <3>2. \A i \in 1 .. Len(responses') : responses'[i].node # 0 => responses'[i].token = granted'
      BY <1>2, <1>4, <1>7, <1>8, <2>3, <3>1 DEF NoStreamYet
    <3> QED
      BY <1>0, <2>1, <2>2, <3>1, <3>2 DEF TokenInv
  <2>4. CASE method # "Start"
    <3>1. granted' = granted /\ response.node = 0
      BY <1>2, <1>4, <2>4
    <3>2. pc = "await Start" =>
            \A i \in 1 .. Len(responses') : responses'[i].node # 0 => responses'[i].token = granted
      BY <1>0, <1>7, <1>8, <3>1 DEF TokenInv
    <3> QED
      BY <1>0, <2>1, <2>2, <3>1, <3>2 DEF TokenInv
  <2> QED
    BY <2>3, <2>4
<1> QED
  BY <1>5, <1>6, <1>10, <1>11 DEF SessionInv

\* A call that is made changes what is owed, and no more of the portal.
LEMMA CreateSessionKeeps == SessionInv /\ CreateSession => SessionInv'
<1> SUFFICES ASSUME SessionInv, CreateSession PROVE SessionInv'
  OBVIOUS
<1>0. SessionType /\ StreamInv /\ AnswersInv /\ TokenInv
  BY DEF SessionInv
<1>1. /\ owed' \in {owed, owed \cup {"CreateSession"}}
      /\ pc' \in {"await CreateSession", Fails} /\ pc = "CreateSession"
      /\ status' = Failed /\ UNCHANGED responses
      /\ UNCHANGED <<restore_portal_session, runs, token_file, session_handle, pipewire_node,
                     screencast_restore_token, node_from, granted>>
  BY DEF CreateSession, Call, setup, history
<1>2. SessionType'
  BY <1>0, <1>1, Places DEF SessionType, TypeOKSession, Methods, Statuses
<1>3. StreamInv'
  BY <1>0, <1>1 DEF StreamInv, Capturing, Creating, Ending, Fails
<1>4. AnswersInv'
  BY <1>0, <1>1 DEF AnswersInv, NoStreamYet, Creating, Selecting, Fails
<1>5. TokenInv'
  BY <1>0, <1>1 DEF TokenInv, Kept, Creating, Selecting, Fails
<1> QED
  BY <1>2, <1>3, <1>4, <1>5 DEF SessionInv

\* Also when the call is made again, or was late, no stream can come of it.
LEMMA SelectSourcesKeeps == SessionInv /\ SelectSources => SessionInv'
<1> SUFFICES ASSUME SessionInv, SelectSources PROVE SessionInv'
  OBVIOUS
<1>0. SessionType /\ StreamInv /\ AnswersInv /\ TokenInv
  BY DEF SessionInv
<1>1. /\ \E method \in {"SelectSources", "SelectSources again"} :
           owed' \in {owed, owed \cup {method}}
      /\ pc' \in {"await SelectSources", "retry", Fails} /\ pc \in {"SelectSources", "retry"}
      /\ status' = Failed /\ UNCHANGED responses
      /\ UNCHANGED <<restore_portal_session, runs, token_file, session_handle, pipewire_node,
                     screencast_restore_token, node_from, granted>>
  BY DEF SelectSources, Call, AfterError, setup, history
<1>2. SessionType'
  BY <1>0, <1>1, Places DEF SessionType, TypeOKSession, Methods, Statuses
<1>3. StreamInv'
  <2>1. pc \in Pcs \ (Creating \cup Ending)
    BY <1>1 DEF Pcs, SettingUp, Creating, Selecting, Ending, Fails
  <2> QED
    BY <1>0, <1>1, <2>1 DEF StreamInv, Capturing, Fails
<1>4. AnswersInv'
  BY <1>0, <1>1 DEF AnswersInv, NoStreamYet, Creating, Selecting, Fails
<1>5. TokenInv'
  BY <1>0, <1>1 DEF TokenInv, Kept, Creating, Selecting, Fails
<1> QED
  BY <1>2, <1>3, <1>4, <1>5 DEF SessionInv

\* Until now no answer had a stream.
LEMMA StartScreencastKeeps == SessionInv /\ StartScreencast => SessionInv'
<1> SUFFICES ASSUME SessionInv, StartScreencast PROVE SessionInv'
  OBVIOUS
<1>0. SessionType /\ StreamInv /\ AnswersInv /\ TokenInv
  BY DEF SessionInv
<1>1. /\ owed' \in {owed, owed \cup {"Start"}}
      /\ pc' \in {"await Start", Fails} /\ pc = "Start"
      /\ status' = Failed /\ UNCHANGED responses
      /\ UNCHANGED <<restore_portal_session, runs, token_file, session_handle, pipewire_node,
                     screencast_restore_token, node_from, granted>>
  BY DEF StartScreencast, Call, setup, history
<1>2. SessionType'
  BY <1>0, <1>1, Places DEF SessionType, TypeOKSession, Methods, Statuses
<1>3. StreamInv'
  <2>1. pc \in Pcs \ (Creating \cup Ending)
    BY <1>1 DEF Pcs, SettingUp, Creating, Ending, Fails
  <2> QED
    BY <1>0, <1>1, <2>1 DEF StreamInv, Capturing, Fails
<1>4. NoStreamYet /\ NoStreamYet'
  BY <1>0, <1>1 DEF AnswersInv, NoStreamYet
<1>5. AnswersInv'
  BY <1>1, <1>4 DEF AnswersInv, Creating, Selecting, Fails
<1>6. TokenInv'
  BY <1>0, <1>1, <1>4 DEF TokenInv, NoStreamYet, Kept, Creating, Selecting, Fails
<1> QED
  BY <1>2, <1>3, <1>5, <1>6 DEF SessionInv

\* Whatever was answered, going on means that a session was created.
LEMMA SessionCreatedKeeps == SessionInv /\ SessionCreated => SessionInv'
<1> SUFFICES ASSUME SessionInv, SessionCreated PROVE SessionInv'
  OBVIOUS
<1>0. SessionType /\ StreamInv /\ AnswersInv /\ TokenInv
  BY DEF SessionInv
<1>1. /\ pc = "await CreateSession" /\ responses # <<>> /\ responses' = Tail(responses)
      /\ status' \in {Taken.status, Failed} /\ session_handle' = (status' = Success)
      /\ pc' = IF status' = Success THEN "SelectSources" ELSE Fails
      /\ UNCHANGED <<restore_portal_session, runs, token_file, owed, pipewire_node,
                     screencast_restore_token, node_from, granted>>
  BY DEF SessionCreated, Received, setup, history
<1>2. responses \in Seq(Answers)
  BY <1>0 DEF SessionType
<1>3. Taken.status \in Statuses /\ responses' \in Seq(Answers)
  BY <1>1, <1>2, Taking
<1>4. NoStreamYet /\ NoStreamYet'
  <2>1. NoStreamYet
    BY <1>0, <1>1 DEF AnswersInv, Creating
  <2> QED
    BY <1>1, <1>2, <2>1, StillNoStream
<1>5. SessionType'
  <2>1. status' \in Statuses /\ session_handle' \in BOOLEAN /\ pc' \in Pcs
    BY <1>1, <1>3, Places DEF Statuses
  <2> QED
    BY <1>0, <1>1, <1>3, <2>1 DEF SessionType, TypeOKSession
<1>6. StreamInv'
  BY <1>1 DEF StreamInv, Capturing, Ending, Fails
<1>7. AnswersInv'
  BY <1>0, <1>1, <1>4 DEF AnswersInv, Creating, Selecting, Fails
<1>8. TokenInv'
  BY <1>0, <1>1 DEF TokenInv, Kept, Creating, Selecting, Fails
<1> QED
  BY <1>5, <1>6, <1>7, <1>8 DEF SessionInv

\* An answer to an earlier call is taken for this one, and has no stream either.
LEMMA SourcesSelectedKeeps == SessionInv /\ SourcesSelected => SessionInv'
<1> SUFFICES ASSUME SessionInv, SourcesSelected PROVE SessionInv'
  OBVIOUS
<1>0. SessionType /\ StreamInv /\ AnswersInv /\ TokenInv
  BY DEF SessionInv
<1>1. /\ pc = "await SelectSources" /\ responses # <<>> /\ responses' = Tail(responses)
      /\ status' = Taken.status /\ pc' \in {"Start", Fails}
      /\ UNCHANGED <<restore_portal_session, runs, token_file, owed, session_handle, pipewire_node,
                     screencast_restore_token, node_from, granted>>
  BY DEF SourcesSelected, Received, setup, history
<1>2. responses \in Seq(Answers)
  BY <1>0 DEF SessionType
<1>3. Taken.status \in Statuses /\ responses' \in Seq(Answers)
  BY <1>1, <1>2, Taking
<1>4. NoStreamYet /\ NoStreamYet'
  <2>1. NoStreamYet
    BY <1>0, <1>1 DEF AnswersInv, Selecting
  <2> QED
    BY <1>1, <1>2, <2>1, StillNoStream
<1>5. SessionType'
  <2>1. status' \in Statuses /\ pc' \in Pcs
    BY <1>1, <1>3, Places
  <2> QED
    BY <1>0, <1>1, <1>3, <2>1 DEF SessionType, TypeOKSession
<1>6. StreamInv'
  <2>1. pc \in Pcs \ (Creating \cup Ending)
    BY <1>1 DEF Pcs, SettingUp, Creating, Selecting, Ending, Fails
  <2> QED
    BY <1>0, <1>1, <2>1 DEF StreamInv, Capturing, Ending, Fails
<1>7. AnswersInv'
  BY <1>0, <1>1, <1>4 DEF AnswersInv, Creating, Selecting, Fails
<1>8. TokenInv'
  BY <1>0, <1>1 DEF TokenInv, Kept, Creating, Selecting, Fails
<1> QED
  BY <1>5, <1>6, <1>7, <1>8 DEF SessionInv

\* The stream is one that Start was answered with, since no other answer has one; no
\* second one can come, so the token taken with it is the last one granted.
LEMMA StartedKeeps == SessionInv /\ Started => SessionInv'
<1> SUFFICES ASSUME SessionInv, Started PROVE SessionInv'
  OBVIOUS
<1>0. SessionType /\ StreamInv /\ AnswersInv /\ TokenInv
  BY DEF SessionInv
<1>1. /\ pc = "await Start" /\ responses # <<>> /\ responses' = Tail(responses)
      /\ status' = IF Taken.status = Success /\ Taken.node = 0 THEN Failed ELSE Taken.status
      /\ pc' = IF status' = Success THEN "save" ELSE Fails
      /\ Taken.status = Success =>
           /\ pipewire_node' = Taken.node /\ node_from' = Taken.to
           /\ screencast_restore_token' = IF Taken.token # NoToken THEN Taken.token
                                          ELSE screencast_restore_token
      /\ Taken.status # Success => UNCHANGED <<pipewire_node, node_from, screencast_restore_token>>
      /\ UNCHANGED <<restore_portal_session, runs, token_file, owed, session_handle, granted>>
  BY DEF Started, Received, HasNode, setup
<1>2. responses \in Seq(Answers)
  BY <1>0 DEF SessionType
<1>3. /\ Taken.status \in Statuses /\ Taken.node \in {0, 1} /\ Taken.token \in Tokens \cup {NoToken}
      /\ Taken.node # 0 => Taken.to = "Start"
      /\ Taken = responses[1] /\ 1 \in 1 .. Len(responses) /\ responses' \in Seq(Answers)
  BY <1>1, <1>2, Taking
<1>4. pc' = "save" => Taken.status = Success /\ Taken.node # 0
  <2>1. Fails # "save" /\ Failed # Success
    BY DEF Success, Failed, Fails
  <2> QED
    BY <1>1, <2>1, Zenon
<1>5. SessionType'
  <2>1. status' \in Statuses /\ pc' \in Pcs
    BY <1>1, <1>3, Places DEF Statuses, Opening
  <2>2. pipewire_node' \in {0, 1} /\ screencast_restore_token' \in Tokens \cup {NoToken}
    BY <1>0, <1>1, <1>3 DEF SessionType, TypeOKSession
  <2> QED
    BY <1>0, <1>1, <1>3, <2>1, <2>2 DEF SessionType, TypeOKSession
<1>6. StreamInv'
  <2>1. pc \in Pcs \ (Creating \cup Ending)
    BY <1>1 DEF Pcs, SettingUp, Creating, Ending, Fails
  <2>2. session_handle'
    BY <1>0, <1>1, <2>1 DEF StreamInv
  <2>3. Capturing' => pc' = "save"
    BY <1>1 DEF Capturing, Fails
  <2>4. pc' = "save" => pipewire_node' # 0 /\ node_from' = "Start"
    BY <1>1, <1>3, <1>4
  <2> QED
    BY <2>2, <2>3, <2>4 DEF StreamInv
<1>7. pc' = "save" => "Start" \notin owed
  BY <1>0, <1>3, <1>4 DEF AnswersInv, NoStreamYet
<1>8. AnswersInv'
  <2>1. pc' \notin Creating \cup Selecting \cup {"Start"}
    BY <1>1 DEF Creating, Selecting, Fails
  <2>2. "Start" \in owed => NoStreamYet'
    BY <1>0, <1>1, <1>2, StillNoStream DEF AnswersInv
  <2> QED
    BY <1>1, <1>7, <2>1, <2>2 DEF AnswersInv
<1>9. TokenInv'
  <2>1. pc' \notin Creating \cup Selecting \cup {"Start", "await Start"}
    BY <1>1 DEF Creating, Selecting, Fails
  <2>2. ASSUME pc' = "save"
        PROVE  screencast_restore_token' = IF granted # NoToken THEN granted ELSE Kept
    <3>1. Taken.token = granted
      BY <1>0, <1>1, <1>3, <1>4, <2>2 DEF TokenInv
    <3>2. screencast_restore_token = Kept
      BY <1>0, <1>1 DEF TokenInv
    <3> QED
      BY <1>1, <1>4, <2>2, <3>1, <3>2
  <2>3. Kept' = Kept
    BY <1>1 DEF Kept
  <2> QED
    BY <1>1, <2>1, <2>2, <2>3 DEF TokenInv
<1> QED
  BY <1>5, <1>6, <1>8, <1>9 DEF SessionInv

\* Once the token is saved nothing is known of it but what is in the file.
LEMMA SaveRestoreTokenKeeps == SessionInv /\ SaveRestoreToken => SessionInv'
<1> SUFFICES ASSUME SessionInv, SaveRestoreToken PROVE SessionInv'
  OBVIOUS
<1>0. SessionType /\ StreamInv /\ AnswersInv /\ TokenInv
  BY DEF SessionInv
<1>1. /\ pc = "save" /\ pc' = "open"
      /\ token_file' = screencast_restore_token /\ granted' = NoToken
      /\ UNCHANGED <<restore_portal_session, runs, owed, responses, session_handle, pipewire_node,
                     screencast_restore_token, status, node_from>>
  BY DEF SaveRestoreToken, Saved, portal, dbus
<1>2. SessionType'
  BY <1>0, <1>1, Places DEF SessionType, TypeOKSession, Opening
<1>3. StreamInv'
  BY <1>0, <1>1 DEF StreamInv, Capturing, Pcs, SettingUp, Opening, Creating, Ending, Fails
<1>4. AnswersInv'
  BY <1>0, <1>1 DEF AnswersInv, NoStreamYet, Creating, Selecting
<1>5. TokenInv'
  BY <1>1 DEF TokenInv, Creating, Selecting
<1> QED
  BY <1>2, <1>3, <1>4, <1>5 DEF SessionInv

\* The stream stays the one that was started.
LEMMA OpenPipeWireRemoteKeeps == SessionInv /\ OpenPipeWireRemote => SessionInv'
<1> SUFFICES ASSUME SessionInv, OpenPipeWireRemote PROVE SessionInv'
  OBVIOUS
<1>0. SessionType /\ StreamInv /\ AnswersInv /\ TokenInv
  BY DEF SessionInv
<1>1. /\ pc = "open" /\ pc' \in {"pipewire", Fails} /\ status' \in {Failed, Success}
      /\ UNCHANGED <<restore_portal_session, runs, token_file, owed, responses, session_handle,
                     pipewire_node, screencast_restore_token, node_from, granted>>
  BY DEF OpenPipeWireRemote, setup, portal, history
<1>2. SessionType'
  BY <1>0, <1>1, Places DEF SessionType, TypeOKSession, Opening, Statuses
<1>3. StreamInv'
  BY <1>0, <1>1 DEF StreamInv, Capturing, Pcs, SettingUp, Opening, Creating, Ending, Fails
<1>4. AnswersInv'
  BY <1>0, <1>1 DEF AnswersInv, NoStreamYet, Creating, Selecting, Fails
<1>5. TokenInv'
  BY <1>1 DEF TokenInv, Creating, Selecting, Fails
<1> QED
  BY <1>2, <1>3, <1>4, <1>5 DEF SessionInv

\* What an earlier recording left on the bus is not seen by the next.
LEMMA StartAgainKeeps == SessionInv /\ StartAgain => SessionInv'
<1> SUFFICES ASSUME SessionInv, StartAgain PROVE SessionInv'
  OBVIOUS
<1>0. SessionType
  BY DEF SessionInv
<1>1. PICK restore \in BOOLEAN : Begun(restore)
  BY DEF StartAgain
<1>2. /\ restore_portal_session' = restore
      /\ pc' = "CreateSession" /\ session_handle' = FALSE /\ pipewire_node' = 0
      /\ screencast_restore_token' = IF restore THEN token_file ELSE NoToken
      /\ owed' = {} /\ responses' = <<>>
      /\ status' = Success /\ runs < MaxRuns /\ runs' = runs + 1
      /\ UNCHANGED <<token_file, granted>>
  BY <1>1 DEF StartAgain, Begun
<1>3. SessionType'
  <2>1. runs' \in 1 .. MaxRuns
    BY <1>0, <1>2, SessionAssumption DEF SessionType, TypeOKSession
  <2>2. /\ <<>> \in Seq(Answers) /\ Success \in Statuses /\ "CreateSession" \in Pcs
    <3>1. <<>> \in Seq(Answers)
      OBVIOUS
    <3> QED
      BY <3>1, Places DEF Statuses
  <2> QED
    BY <1>0, <1>2, <2>1, <2>2 DEF SessionType, TypeOKSession
<1>4. StreamInv' /\ AnswersInv' /\ TokenInv'
  BY <1>2 DEF StreamInv, AnswersInv, TokenInv, NoStreamYet, Kept, Capturing, Creating, Selecting
<1> QED
  BY <1>3, <1>4 DEF SessionInv

\* The capture leaves the session alone and moves on, or ends.
LEMMA SessionUndisturbed ==
  ASSUME SessionInv, UNCHANGED session, pc' \in Pcs,
         \/ pc' = pc \/ pc' \in Ending
         \/ Capturing /\ pc \notin {"save", "open"} /\ pc' \in Drawing
  PROVE  SessionInv'
<1>0. SessionType /\ StreamInv /\ AnswersInv /\ TokenInv
  BY DEF SessionInv
<1>1. UNCHANGED <<restore_portal_session, runs, token_file, owed, responses, session_handle,
                 pipewire_node, screencast_restore_token, status, node_from, granted>>
  BY DEF session, setup, portal, dbus, history
<1>2. SessionType'
  BY <1>0, <1>1 DEF SessionType, TypeOKSession
<1>3. CASE pc' = pc
  <2>1. StreamInv' /\ AnswersInv' /\ TokenInv'
    BY <1>0, <1>1, <1>3 DEF StreamInv, AnswersInv, TokenInv, NoStreamYet, Kept, Capturing
  <2> QED
    BY <1>2, <2>1 DEF SessionInv
<1>4. CASE pc' \in Ending
  <2>1. pc' \notin Creating \cup Selecting \cup {"save", "Start", "await Start"} /\ ~ Capturing'
    BY <1>4 DEF Ending, Creating, Selecting, Capturing, Fails
  <2> QED
    BY <1>0, <1>1, <1>2, <1>4, <2>1 DEF SessionInv, StreamInv, AnswersInv, TokenInv, NoStreamYet
<1>5. CASE Capturing /\ pc \notin {"save", "open"} /\ pc' \in Drawing
  <2>1. pc' \notin Creating \cup Selecting \cup {"save", "Start", "await Start"}
    BY <1>5 DEF Drawing, Looping, Creating, Selecting
  <2>2. pc \in Pcs \ (Creating \cup Ending)
    BY <1>0, <1>5 DEF SessionType, Capturing, Creating, Ending, Fails
  <2> QED
    BY <1>0, <1>1, <1>2, <1>5, <2>1, <2>2
    DEF SessionInv, StreamInv, AnswersInv, TokenInv, NoStreamYet
<1> QED
  BY <1>3, <1>4, <1>5

\* The invariant of the session is kept by each of its actions.
LEMMA SessionGoesOn == SessionInv /\ Session => SessionInv'
BY AnswerKeeps, CreateSessionKeeps, SessionCreatedKeeps, SelectSourcesKeeps, SourcesSelectedKeeps,
   StartScreencastKeeps, StartedKeeps, SaveRestoreTokenKeeps, OpenPipeWireRemoteKeeps,
   StartAgainKeeps
DEF Session, SetupDbus

\* Where the recorder goes in the actions that are not the session's.
LEMMA Moves ==
  ASSUME pc \in Pcs, Next, ~ Session
  PROVE  /\ UNCHANGED session /\ pc' \in Pcs
         /\ \/ pc' = pc \/ pc' \in Ending
            \/ Capturing /\ pc \notin {"save", "open"} /\ pc' \in Drawing
<1> USE DEF Ending, Drawing, Looping, Pcs, Capturing, Fails
<1>1. CASE SetupStream
  BY <1>1 DEF SetupStream
<1>2. CASE Connected
  BY <1>2 DEF Connected
<1>3. CASE MeasureFrame
  BY <1>3 DEF MeasureFrame
<1>4. CASE CleanupPlaneFds
  BY <1>4 DEF CleanupPlaneFds
<1>5. CASE StopCapture
  BY <1>5 DEF StopCapture
<1>6. CASE StopThread
  BY <1>6 DEF StopThread
<1>7. CASE Deinit
  BY <1>7 DEF Deinit
<1>8. CASE IsDamaged
  BY <1>8 DEF IsDamaged
<1>9. CASE ClearDamage
  BY <1>9 DEF ClearDamage
<1>10. CASE CaptureFrame
  BY <1>10 DEF CaptureFrame
<1>11. CASE NothingNew
  BY <1>11 DEF NothingNew
<1>12. CASE NoDimensions
  BY <1>12 DEF NoDimensions
<1>13. CASE TogglePause
  BY <1>13 DEF TogglePause
<1>14. CASE LeaveLoop
  BY <1>14 DEF LeaveLoop
<1>15. CASE Compose
  BY <1>15 DEF Compose
<1>16. CASE ParamChanged
  BY <1>16 DEF ParamChanged
<1>17. CASE Thread
  BY <1>17 DEF Thread, Dequeue, Process
<1> QED
  BY <1>1, <1>2, <1>3, <1>4, <1>5, <1>6, <1>7, <1>8, <1>9, <1>10, <1>11, <1>12, <1>13, <1>14, <1>15,
     <1>16, <1>17 DEF Next, Recorder

\* The session's invariant is kept by every step.
LEMMA SessionKept == SessionInv /\ [Next]_vars => SessionInv'
<1>1. CASE Session
  BY <1>1, SessionGoesOn
<1>2. CASE Next /\ ~ Session
  <2> SUFFICES ASSUME SessionInv PROVE SessionInv'
    OBVIOUS
  <2>1. pc \in Pcs
    BY DEF SessionInv, SessionType
  <2> QED
    BY <1>2, <2>1, Moves, SessionUndisturbed
<1>3. CASE UNCHANGED vars
  <2> SUFFICES ASSUME SessionInv PROVE SessionInv'
    OBVIOUS
  <2>1. UNCHANGED session /\ pc' = pc /\ pc \in Pcs
    BY <1>3 DEF vars, SessionInv, SessionType
  <2> QED
    BY <2>1, SessionUndisturbed
<1> QED
  BY <1>1, <1>2, <1>3

-------------------------------------------------------------------------------
(* Descriptors.                                                            *)

\* Those a descriptor is higher than.
Below(S, n) == {m \in S : m < n}

\* In a finite set every place in the order is some number's: different numbers have
\* different places, and there are no more places than numbers.
LEMMA Ranked ==
  ASSUME NEW S, S \subseteq Nat, IsFiniteSet(S), NEW k \in Nat, k < Cardinality(S)
  PROVE  \E n \in S : Cardinality(Below(S, n)) = k
<1> DEFINE size == Cardinality(S)
           rank == [n \in S |-> Cardinality(Below(S, n))]
<1>1. size \in Nat /\ size > 0
  BY FS_CardinalityType
<1>2. \A n \in S : /\ Below(S, n) \in SUBSET S /\ n \notin Below(S, n)
                   /\ IsFiniteSet(Below(S, n)) /\ Cardinality(Below(S, n)) \in Nat
  BY FS_Subset, FS_CardinalityType DEF Below
<1>3. ASSUME NEW n \in S
      PROVE  rank[n] \in 0 .. size - 1
  <2>1. /\ Cardinality(Below(S, n)) <= size
        /\ Cardinality(S) = Cardinality(Below(S, n)) => S = Below(S, n)
    BY <1>2, FS_Subset
  <2>2. S # Below(S, n) /\ Cardinality(Below(S, n)) \in Nat
    BY <1>2
  <2> QED
    BY <1>1, <2>1, <2>2
<1>4. ASSUME NEW m \in S, NEW n \in S, m < n
      PROVE  rank[m] # rank[n]
  <2>1. Below(S, m) \in SUBSET Below(S, n) /\ m \in Below(S, n) /\ m \notin Below(S, m)
    <3>1. \A l \in S : l < m => l < n
      <4>1. m \in Nat /\ n \in Nat /\ \A l \in S : l \in Nat
        OBVIOUS
      <4> QED
        BY <1>4, <4>1
    <3> QED
      BY <1>2, <1>4, <3>1, Zenon DEF Below
  <2>2. Cardinality(Below(S, n)) = Cardinality(Below(S, m)) => Below(S, n) = Below(S, m)
    BY <1>2, <2>1, FS_Subset
  <2> QED
    BY <2>1, <2>2
<1>5. rank \in Injection(S, 0 .. size - 1)
  <2>1. \A m, n \in S : m # n => rank[m] # rank[n]
    <3>1. \A m, n \in S : m # n => m < n \/ n < m
      OBVIOUS
    <3> HIDE DEF rank
    <3> QED
      BY <1>4, <3>1
  <2>2. rank \in [S -> 0 .. size - 1]
    BY <1>3
  <2> HIDE DEF rank
  <2> QED
    BY <2>1, <2>2 DEF Injection, IsInjective
<1>6. rank \in Surjection(S, 0 .. size - 1)
  <2>1. IsFiniteSet(0 .. size - 1) /\ Cardinality(0 .. size - 1) = size
    <3> HIDE DEF size
    <3> QED
      BY <1>1, FS_Interval
  <2> HIDE DEF rank
  <2> QED
    BY <1>5, <2>1, FS_Injection
<1>7. PICK n \in S : rank[n] = k
  <2>1. k \in 0 .. size - 1
    BY <1>1
  <2> HIDE DEF rank
  <2> QED
    BY <1>6, <2>1 DEF Surjection
<1> QED
  BY <1>7

\* As long as there are enough free descriptors, dup() finds one of them.
LEMMA LowestFree ==
  ASSUME NEW free, free \subseteq Fds, Cardinality(free) >= MaxPlanes, NEW i \in 1 .. MaxPlanes
  PROVE  Lowest(free, i) \in free
<1>1. free \subseteq Nat /\ IsFiniteSet(free) /\ Cardinality(free) \in Nat /\ MaxPlanes \in Nat
  BY CaptureAssumption, FS_Subset, FS_CardinalityType
<1>2. i - 1 \in Nat /\ i - 1 < Cardinality(free)
  BY <1>1
<1>3. \E fd \in free : Cardinality(Below(free, fd)) = i - 1
  BY <1>1, <1>2, Ranked
<1>4. \E fd \in free : Cardinality({other \in free : other < fd}) = i - 1
  BY <1>3, Zenon DEF Below
<1> QED
  BY <1>4, Zenon DEF Lowest

\* The planes of a buffer, at most MaxPlanes of them, are descriptors or Bad.
LEMMA PlanesHave ==
  ASSUME NEW fds \in Planes
  PROVE  /\ Of(fds) \subseteq Fds /\ IsFiniteSet(Of(fds))
         /\ Cardinality(Of(fds)) \in Nat /\ Cardinality(Of(fds)) <= MaxPlanes
<1>1. PICK n \in 0 .. MaxPlanes : fds \in [1 .. n -> Fds \cup {Bad}]
  BY DEF Planes
<1>2. n \in Nat /\ n <= MaxPlanes /\ MaxPlanes \in Nat
  BY CaptureAssumption
<1>3. IsFiniteSet(1 .. n) /\ Cardinality(1 .. n) = n
  BY <1>2, FS_Interval
<1>4. fds \in Surjection(1 .. n, Range(fds))
  BY <1>1 DEF Surjection, Range
<1>5. IsFiniteSet(Range(fds)) /\ Cardinality(Range(fds)) <= n
  BY <1>3, <1>4, FS_Surjection
<1>6. Of(fds) \in SUBSET Range(fds) /\ Of(fds) \subseteq Fds
  BY <1>1 DEF Of, Range
<1>7. /\ IsFiniteSet(Of(fds)) /\ Cardinality(Of(fds)) <= Cardinality(Range(fds))
      /\ Cardinality(Of(fds)) \in Nat /\ Cardinality(Range(fds)) \in Nat
  BY <1>5, <1>6, FS_Subset, FS_CardinalityType
<1> QED
  BY <1>2, <1>5, <1>6, <1>7

\* No planes are planes, and of no descriptor.
LEMMA NoPlanes == <<>> \in Planes /\ Of(<<>>) = {}
<1>1. <<>> \in [1 .. 0 -> Fds \cup {Bad}] /\ 0 \in 0 .. MaxPlanes
  BY CaptureAssumption
<1>2. Of(<<>>) = {}
  BY DEF Of, Range
<1> QED
  BY <1>1, <1>2 DEF Planes

\* The new planes are of the free descriptors, and of nobody's.
LEMMA DupsHave ==
  ASSUME NEW free, free \subseteq Fds, Cardinality(free) >= MaxPlanes, NEW fds \in Dups(free)
  PROVE  fds \in Planes /\ fds # <<>> /\ Of(fds) \subseteq free
<1>1. PICK n \in 1 .. MaxPlanes : \E bad \in SUBSET (1 .. n) :
        fds = [i \in 1 .. n |-> IF i \in bad THEN Bad ELSE Lowest(free, i)]
  BY DEF Dups
<1>2. PICK bad \in SUBSET (1 .. n) :
        fds = [i \in 1 .. n |-> IF i \in bad THEN Bad ELSE Lowest(free, i)]
  BY <1>1
<1>3. n \in 0 .. MaxPlanes /\ n # 0 /\ \A i \in 1 .. n : i \in 1 .. MaxPlanes
  BY CaptureAssumption
<1>4. \A i \in 1 .. n : Lowest(free, i) \in free
  BY <1>3, LowestFree
<1>5. fds \in [1 .. n -> free \cup {Bad}]
  BY <1>2, <1>4
<1>6. fds \in Planes
  <2>1. fds \in [1 .. n -> Fds \cup {Bad}]
    BY <1>5
  <2> QED
    BY <1>3, <2>1 DEF Planes
<1>7. fds # <<>>
  BY <1>3, <1>5
<1>8. Of(fds) \subseteq free
  BY <1>5 DEF Of, Range
<1> QED
  BY <1>6, <1>7, <1>8

\* However many the recorder has, there are enough descriptors for a buffer.
LEMMA EnoughFree ==
  ASSUME NEW fds \in Planes
  PROVE  Fds \ Of(fds) \subseteq Fds /\ Cardinality(Fds \ Of(fds)) >= MaxPlanes
<1>1. /\ Of(fds) \subseteq Fds /\ IsFiniteSet(Of(fds))
      /\ Cardinality(Of(fds)) \in Nat /\ Cardinality(Of(fds)) <= MaxPlanes
  BY PlanesHave
<1>2. Fds \cap Of(fds) = Of(fds)
  BY <1>1
<1>3. Cardinality(Fds \ Of(fds)) = Cardinality(Fds) - Cardinality(Of(fds))
  <2>1. Cardinality(Fds \ Of(fds)) = Cardinality(Fds) - Cardinality(Fds \cap Of(fds))
    BY CaptureAssumption, FS_Difference
  <2> QED
    BY <1>2, <2>1, Zenon
<1>4. Cardinality(Fds) \in Nat /\ Cardinality(Fds) >= 2 * MaxPlanes /\ MaxPlanes \in Nat
  BY CaptureAssumption, FS_CardinalityType
<1>5. Cardinality(Fds \ Of(fds)) >= MaxPlanes
  <2> DEFINE all == Cardinality(Fds)
             used == Cardinality(Of(fds))
  <2>1. /\ all \in Nat /\ used \in Nat /\ MaxPlanes \in Nat
        /\ all >= 2 * MaxPlanes /\ used <= MaxPlanes
    BY <1>1, <1>4
  <2>2. Cardinality(Fds \ Of(fds)) = all - used
    BY <1>3
  <2> HIDE DEF all, used
  <2> QED
    BY <2>1, <2>2
<1> QED
  BY <1>5

-------------------------------------------------------------------------------
(* The capture's invariant.                                                *)

\* Before the first recording nothing is acquired.
LEMMA CaptureStarts == Init => CaptureInv
<1> SUFFICES ASSUME Init PROVE CaptureInv
  OBVIOUS
<1>1. pc \in SettingUp /\ pc \notin {"pipewire", "measured", "drawn", "deinit", "exited"}
  BY DEF Init, InitSession, SettingUp, Creating
<1>2. CaptureType
  BY <1>1, NoPlanes DEF Init, InitPipewire, CaptureType, Pcs, Frames, NoFrame
<1>3. PlanesInv
  BY <1>1, NoPlanes DEF Init, InitPipewire, PlanesInv, Acquired
<1>4. FrameInv
  BY DEF Init, InitSession, InitPipewire, FrameInv, NoFrame, Drawing, Looping
<1>5. NewestInv
  BY DEF Init, InitPipewire, NewestInv
<1> QED
  BY <1>2, <1>3, <1>4, <1>5 DEF CaptureInv

\* What the set-up acquires is a sequence of resources.
LEMMA Steps == Acquired \in Seq(Resources) /\ Len(Acquired) = 6
BY DEF Acquired, Resources

\* A step of the set-up acquires one of them.
LEMMA OneMore ==
  ASSUME NEW s \in Seq(Resources), Len(s) < Len(Acquired)
  PROVE  /\ Append(s, Acquired[Len(s) + 1]) \in Seq(Resources)
         /\ Len(Append(s, Acquired[Len(s) + 1])) <= Len(Acquired)
<1>1. Len(s) + 1 \in 1 .. Len(Acquired)
  BY Steps
<1>2. Acquired[Len(s) + 1] \in Resources
  BY <1>1, Steps, ElementOfSeq
<1> QED
  BY <1>1, <1>2, Steps

\* What the session's actions are for the capture: the set-up goes on, or fails.
LEMMA SessionMoves ==
  ASSUME pc \in Pcs, Session
  PROVE  /\ UNCHANGED <<held, kernel, stream, thread, shared, capture_fds, loop>>
         /\ \/ pc' = pc
            \/ pc \in (SettingUp \ {"pipewire"}) \cup {"exited"} /\ pc' \in SettingUp \cup {Fails}
<1> USE DEF SettingUp, Creating, Selecting, Opening
<1>1. CASE Answer
  BY <1>1 DEF Answer, Session
<1>2. CASE CreateSession
  BY <1>2 DEF CreateSession, Call, Session
<1>3. CASE SessionCreated
  BY <1>3 DEF SessionCreated, Received, Session
<1>4. CASE SelectSources
  BY <1>4 DEF SelectSources, Call, AfterError, Session
<1>5. CASE SourcesSelected
  BY <1>5 DEF SourcesSelected, Received, Session
<1>6. CASE StartScreencast
  BY <1>6 DEF StartScreencast, Call, Session
<1>7. CASE Started
  BY <1>7 DEF Started, Received, Session
<1>8. CASE SaveRestoreToken
  BY <1>8 DEF SaveRestoreToken, Session
<1>9. CASE OpenPipeWireRemote
  BY <1>9 DEF OpenPipeWireRemote, Session
<1>10. CASE StartAgain
  BY <1>10 DEF StartAgain, Begun, Session
<1> QED
  BY <1>1, <1>2, <1>3, <1>4, <1>5, <1>6, <1>7, <1>8, <1>9, <1>10 DEF Session, SetupDbus

\* A buffer of planes takes the place of one that nobody has asked for: what PipeWire's
\* thread had is closed, and the new ones are of the descriptors the recorder has not.
LEMMA Processed ==
  ASSUME CaptureInv, Process
  PROVE  /\ dmabuf_fds' \in Planes /\ dmabuf_fds' # <<>>
         /\ Of(dmabuf_fds') \subseteq Fds \ Of(capture_fds)
         /\ open' = Of(capture_fds) \cup Of(dmabuf_fds') /\ misused' = FALSE
<1>1. /\ capture_fds \in Planes /\ misused = FALSE /\ open = Of(dmabuf_fds) \cup Of(capture_fds)
      /\ Of(dmabuf_fds) \cap Of(capture_fds) = {}
  BY DEF CaptureInv, CaptureType, PlanesInv
<1>2. open \ Of(dmabuf_fds) = Of(capture_fds) /\ Of(dmabuf_fds) \subseteq open
  BY <1>1
<1>3. /\ dmabuf_fds' \in Dups(Fds \ Of(capture_fds)) /\ misused' = FALSE
      /\ open' = Of(capture_fds) \cup Of(dmabuf_fds')
  BY <1>1, <1>2 DEF Process
<1> QED
  BY <1>1, <1>3, EnoughFree, DupsHave

\* The capture's variables keep to their values.
LEMMA TypeKept == CaptureInv /\ [Next]_vars => CaptureType'
<1> SUFFICES ASSUME CaptureInv, [Next]_vars PROVE CaptureType'
  OBVIOUS
<1>0. CaptureType
  BY DEF CaptureInv
<1>pcs. pc' \in Pcs
  <2>1. pc \in Pcs
    BY <1>0 DEF CaptureType
  <2>2. CASE Session
    BY <2>1, <2>2, SessionMoves, Places DEF Pcs
  <2>3. CASE UNCHANGED vars
    BY <2>1, <2>3 DEF vars
  <2> QED
    BY <2>1, <2>2, <2>3, Moves
<1> USE DEF NoFrame, Frames, CaptureType
<1>1. CASE SetupStream
  BY <1>0, <1>pcs, <1>1 DEF SetupStream, kernel, stream, thread, shared, loop
<1>2. CASE Connected
  BY <1>0, <1>pcs, <1>2 DEF Connected, kernel, stream, thread, shared, loop
<1>3. CASE MeasureFrame
  BY <1>0, <1>pcs, <1>3, NoPlanes
  DEF MeasureFrame, MapTexture, Handed, kernel, stream, thread, shared, loop
<1>4. CASE CleanupPlaneFds
  BY <1>0, <1>pcs, <1>4, NoPlanes
  DEF CleanupPlaneFds, Close, kernel, stream, thread, shared, loop
<1>5. CASE StopCapture
  BY <1>0, <1>pcs, <1>5, NoPlanes
  DEF StopCapture, Close, kernel, stream, thread, shared, loop
<1>6. CASE StopThread
  BY <1>0, <1>pcs, <1>6 DEF StopThread, kernel, stream, thread, shared, loop
<1>7. CASE Deinit
  BY <1>0, <1>pcs, <1>7, NoPlanes
  DEF Deinit, Close, ClosePending, kernel, stream, thread, shared, loop
<1>8. CASE IsDamaged
  BY <1>0, <1>pcs, <1>8 DEF IsDamaged, kernel, stream, thread, shared, loop
<1>9. CASE ClearDamage
  <2>1. excused' \in BOOLEAN /\ damaged' \in BOOLEAN
    BY <1>9 DEF ClearDamage
  <2> QED
    BY <1>0, <1>pcs, <1>9, <2>1 DEF ClearDamage, kernel, stream, thread, shared, loop
<1>10. CASE CaptureFrame
  BY <1>0, <1>pcs, <1>10, NoPlanes
  DEF CaptureFrame, MapTexture, Handed, Imported, kernel, stream, thread, shared, loop
<1>11. CASE NothingNew
  <2>1. excused' \in BOOLEAN
    BY <1>11 DEF NothingNew
  <2> QED
    BY <1>0, <1>pcs, <1>11, <2>1 DEF NothingNew, kernel, stream, thread, shared, loop
<1>12. CASE NoDimensions
  BY <1>0, <1>pcs, <1>12 DEF NoDimensions, kernel, stream, thread, shared, loop
<1>13. CASE TogglePause
  BY <1>0, <1>pcs, <1>13 DEF TogglePause, kernel, stream, thread, shared, loop
<1>14. CASE LeaveLoop
  BY <1>0, <1>pcs, <1>14 DEF LeaveLoop, kernel, stream, thread, shared, loop
<1>15. CASE Compose
  BY <1>0, <1>pcs, <1>15 DEF Compose, Aged, kernel, stream, thread, shared, loop
<1>16. CASE ParamChanged
  BY <1>0, <1>pcs, <1>16 DEF ParamChanged, kernel, stream, thread, shared, loop
<1>17. CASE Dequeue
  BY <1>0, <1>pcs, <1>17 DEF Dequeue, kernel, stream, thread, shared, loop
<1>18. CASE Process
  BY <1>0, <1>pcs, <1>18, Processed DEF Process, stream, loop, NowDamaged
<1>19. CASE Session
  BY <1>0, <1>pcs, <1>19 DEF Session, kernel, stream, thread, shared, loop
<1>20. CASE UNCHANGED vars
  BY <1>0, <1>20 DEF vars, kernel, stream, thread, shared, loop
<1> QED
  BY <1>1, <1>2, <1>3, <1>4, <1>5, <1>6, <1>7, <1>8, <1>9, <1>10, <1>11, <1>12, <1>13, <1>14, <1>15,
     <1>16, <1>17, <1>18, <1>19, <1>20
  DEF Next, Recorder, Thread

\* A descriptor keeps its one owner: it is handed over, or closed by the owner.
LEMMA PlanesKept == CaptureInv /\ [Next]_vars => PlanesInv'
<1> SUFFICES ASSUME CaptureInv, [Next]_vars PROVE PlanesInv'
  OBVIOUS
<1>0. pc \in Pcs /\ PlanesInv /\ Of(<<>>) = {}
  BY NoPlanes DEF CaptureInv, CaptureType
<1> USE <1>0 DEF PlanesInv, SettingUp, Creating, Selecting, Opening, Fails
<1>1. CASE SetupStream
  <2>1. /\ UNCHANGED <<kernel, thread, shared, capture_fds>>
        /\ pc = "pipewire" /\ pc' \in {"pipewire", Fails}
    BY <1>1 DEF SetupStream
  <2>2. Len(held') <= Len(Acquired) /\ held' \in Seq(Resources)
    BY <1>0, <1>1, OneMore DEF SetupStream
  <2> QED
    BY <2>1, <2>2 DEF kernel, thread, shared
<1>2. CASE Connected
  BY <1>2 DEF Connected, kernel, thread, shared
<1>3. CASE MeasureFrame
  BY <1>3 DEF MeasureFrame, MapTexture, Handed, kernel, thread, shared
<1>4. CASE CleanupPlaneFds
  BY <1>4 DEF CleanupPlaneFds, Close, kernel, thread, shared
<1>5. CASE StopCapture
  BY <1>5 DEF StopCapture, Close, kernel, thread, shared
<1>6. CASE StopThread
  BY <1>6 DEF StopThread, kernel, thread, shared
<1>7. CASE Deinit
  <2>1. /\ open' = open \ Of(dmabuf_fds) /\ dmabuf_fds' = <<>> /\ held' = <<>>
        /\ misused' = (misused \/ ~ Of(dmabuf_fds) \subseteq open)
        /\ pc = "deinit" /\ pc' = "exited" /\ UNCHANGED <<pcT, capture_fds>>
    BY <1>7 DEF Deinit, ClosePending, Close, thread
  <2>2. capture_fds = <<>> /\ open = Of(dmabuf_fds)
    BY <1>0, <2>1
  <2>3. open' = {} /\ misused' = FALSE
    BY <1>0, <2>1, <2>2
  <2>4. Len(held') <= Len(Acquired) /\ held' \in Seq(Resources)
    BY <2>1 DEF Acquired
  <2> QED
    BY <1>0, <2>1, <2>2, <2>3, <2>4
<1>8. CASE IsDamaged
  BY <1>8 DEF IsDamaged, kernel, thread, shared
<1>9. CASE ClearDamage
  BY <1>9 DEF ClearDamage, kernel, thread, shared
<1>10. CASE CaptureFrame
  BY <1>10 DEF CaptureFrame, MapTexture, Handed, Imported, kernel, thread, shared
<1>11. CASE NothingNew
  BY <1>11 DEF NothingNew, kernel, thread, shared
<1>12. CASE NoDimensions
  BY <1>12 DEF NoDimensions, kernel, thread, shared
<1>13. CASE TogglePause
  BY <1>13 DEF TogglePause, kernel, thread, shared
<1>14. CASE LeaveLoop
  BY <1>14 DEF LeaveLoop, kernel, thread, shared
<1>15. CASE Compose
  BY <1>15 DEF Compose, Aged, kernel, thread, shared
<1>16. CASE ParamChanged
  BY <1>16 DEF ParamChanged, kernel, thread, shared
<1>17. CASE Dequeue
  BY <1>17 DEF Dequeue, kernel, thread, shared
<1>18. CASE Process
  BY <1>18, Processed DEF Process
<1>19. CASE Session
  <2>1. /\ UNCHANGED <<held, kernel, stream, thread, shared, capture_fds, loop>>
        /\ \/ pc' = pc
           \/ pc \in (SettingUp \ {"pipewire"}) \cup {"exited"} /\ pc' \in SettingUp \cup {Fails}
    BY <1>0, <1>19, SessionMoves
  <2>2. CASE pc' = pc
    BY <2>1, <2>2 DEF kernel, thread, shared
  <2>3. CASE pc \in (SettingUp \ {"pipewire"}) \cup {"exited"} /\ pc' \in SettingUp \cup {Fails}
    BY <2>1, <2>3 DEF kernel, thread, shared
  <2> QED
    BY <2>1, <2>2, <2>3
<1>20. CASE UNCHANGED vars
  BY <1>20 DEF vars, kernel, thread, shared
<1> QED
  BY <1>1, <1>2, <1>3, <1>4, <1>5, <1>6, <1>7, <1>8, <1>9, <1>10, <1>11, <1>12, <1>13, <1>14, <1>15,
     <1>16, <1>17, <1>18, <1>19, <1>20
  DEF Next, Recorder, Thread

\* Only the last frame can be what is on the screen, and it is in one place.
LEMMA FramesKept == CaptureInv /\ [Next]_vars => FrameInv'
<1> SUFFICES ASSUME CaptureInv, [Next]_vars PROVE FrameInv'
  OBVIOUS
<1>0. CaptureType /\ FrameInv /\ (pc \in SettingUp \cup {"deinit", "exited"} => pcT = "none")
  BY DEF CaptureInv, PlanesInv
<1> USE <1>0 DEF CaptureType, FrameInv, Frames, NoFrame, SettingUp, Creating, Selecting, Opening,
                 Looping, Fails
<1>1. CASE SetupStream
  BY <1>1 DEF SetupStream, stream, thread, shared, loop
<1>2. CASE Connected
  BY <1>2 DEF Connected, stream, thread, shared, loop
<1>3. CASE MeasureFrame
  BY <1>3 DEF MeasureFrame, MapTexture, Handed, CanMap, stream, thread, shared, loop
<1>4. CASE CleanupPlaneFds
  BY <1>4 DEF CleanupPlaneFds, Close, stream, thread, shared, loop
<1>5. CASE StopCapture
  BY <1>5 DEF StopCapture, Close, stream, thread, shared, loop
<1>6. CASE StopThread
  BY <1>6 DEF StopThread, stream, thread, shared, loop
<1>7. CASE Deinit
  BY <1>7 DEF Deinit, Close, ClosePending, stream, thread, shared, loop
<1>8. CASE IsDamaged
  BY <1>8 DEF IsDamaged, stream, thread, shared, loop
<1>9. CASE ClearDamage
  BY <1>9 DEF ClearDamage, stream, thread, shared, loop
<1>10. CASE CaptureFrame
  BY <1>10 DEF CaptureFrame, MapTexture, Handed, Imported, CanMap, stream, thread, shared, loop
<1>11. CASE NothingNew
  BY <1>11 DEF NothingNew, stream, thread, shared, loop
<1>12. CASE NoDimensions
  BY <1>12 DEF NoDimensions, stream, thread, shared, loop
<1>13. CASE TogglePause
  BY <1>13 DEF TogglePause, stream, thread, shared, loop
<1>14. CASE LeaveLoop
  BY <1>14 DEF LeaveLoop, stream, thread, shared, loop
<1>15. CASE Compose
  BY <1>15 DEF Compose, Aged, stream, thread, shared, loop
<1>16. CASE ParamChanged
  BY <1>16 DEF ParamChanged, stream, thread, shared, loop
<1>17. CASE Dequeue
  BY <1>17 DEF Dequeue, stream, thread, shared, loop
<1>18. CASE Process
  BY <1>18, Processed DEF Process, stream, loop
<1>19. CASE Session
  <2>1. /\ UNCHANGED <<held, kernel, stream, thread, shared, capture_fds, loop>>
        /\ \/ pc' = pc
           \/ pc \in (SettingUp \ {"pipewire"}) \cup {"exited"} /\ pc' \in SettingUp \cup {Fails}
    BY <1>0, <1>19, SessionMoves
  <2>2. CASE pc' = pc
    BY <2>1, <2>2 DEF stream, thread, shared, loop
  <2>3. CASE pc \in (SettingUp \ {"pipewire"}) \cup {"exited"} /\ pc' \in SettingUp \cup {Fails}
    BY <2>1, <2>3 DEF stream, thread, shared, loop
  <2> QED
    BY <2>1, <2>2, <2>3
<1>20. CASE UNCHANGED vars
  BY <1>20 DEF vars, stream, thread, shared, loop
<1> QED
  BY <1>1, <1>2, <1>3, <1>4, <1>5, <1>6, <1>7, <1>8, <1>9, <1>10, <1>11, <1>12, <1>13, <1>14, <1>15,
     <1>16, <1>17, <1>18, <1>19, <1>20
  DEF Next, Recorder, Thread

\* The newest frame is promised, on its way, waiting, or drawn.
LEMMA NewestKept == CaptureInv /\ [Next]_vars => NewestInv'
<1> SUFFICES ASSUME CaptureInv, [Next]_vars PROVE NewestInv'
  OBVIOUS
<1>0. CaptureType /\ FrameInv /\ NewestInv
  BY DEF CaptureInv
<1> USE <1>0 DEF CaptureType, FrameInv, NewestInv, Frames, NoFrame, Drawing, Looping, SettingUp,
                 Creating, Selecting, Opening, Fails
<1>1. CASE SetupStream
  BY <1>1 DEF SetupStream, stream, thread, shared, loop
<1>2. CASE Connected
  BY <1>2 DEF Connected, stream, thread, shared, loop
<1>3. CASE MeasureFrame
  BY <1>3 DEF MeasureFrame, MapTexture, Handed, CanMap, stream, thread, shared, loop
<1>4. CASE CleanupPlaneFds
  BY <1>4 DEF CleanupPlaneFds, Close, stream, thread, shared, loop
<1>5. CASE StopCapture
  BY <1>5 DEF StopCapture, Close, stream, thread, shared, loop
<1>6. CASE StopThread
  BY <1>6 DEF StopThread, stream, thread, shared, loop
<1>7. CASE Deinit
  BY <1>7 DEF Deinit, Close, ClosePending, stream, thread, shared, loop
<1>8. CASE IsDamaged
  BY <1>8 DEF IsDamaged, stream, thread, shared, loop
<1>9. CASE ClearDamage
  BY <1>9 DEF ClearDamage, stream, thread, shared, loop
<1>10. CASE CaptureFrame
  BY <1>10 DEF CaptureFrame, MapTexture, Handed, Imported, CanMap, stream, thread, shared, loop
<1>11. CASE NothingNew
  BY <1>11 DEF NothingNew, stream, thread, shared, loop
<1>12. CASE NoDimensions
  BY <1>12 DEF NoDimensions, stream, thread, shared, loop
<1>13. CASE TogglePause
  BY <1>13 DEF TogglePause, stream, thread, shared, loop
<1>14. CASE LeaveLoop
  BY <1>14 DEF LeaveLoop, stream, thread, shared, loop
<1>15. CASE Compose
  BY <1>15 DEF Compose, Aged, stream, thread, shared, loop
<1>16. CASE ParamChanged
  BY <1>16 DEF ParamChanged, stream, thread, shared, loop
<1>17. CASE Dequeue
  BY <1>17 DEF Dequeue, stream, thread, shared, loop
<1>18. CASE Process
  BY <1>18 DEF Process, stream, loop, NowDamaged
<1>19. CASE Session
  BY <1>19, SessionMoves DEF stream, thread, shared, loop
<1>20. CASE UNCHANGED vars
  BY <1>20 DEF vars, stream, thread, shared, loop
<1> QED
  BY <1>1, <1>2, <1>3, <1>4, <1>5, <1>6, <1>7, <1>8, <1>9, <1>10, <1>11, <1>12, <1>13, <1>14, <1>15,
     <1>16, <1>17, <1>18, <1>19, <1>20
  DEF Next, Recorder, Thread

\* The invariant of the capture is kept by every step.
LEMMA CaptureKept == CaptureInv /\ [Next]_vars => CaptureInv'
BY TypeKept, PlanesKept, FramesKept, NewestKept DEF CaptureInv

-------------------------------------------------------------------------------
(* Theorems.                                                               *)

\* The invariants of the session and of the capture hold all the time.
THEOREM Invariance == Spec => []Inv
<1>1. Init => Inv
  BY SessionStarts, CaptureStarts DEF Inv
<1>2. Inv /\ [Next]_vars => Inv'
  BY SessionKept, CaptureKept DEF Inv
<1> QED
  BY <1>1, <1>2, PTL DEF Spec

\* Every variable keeps to its values, and the recorder acquires what it needs in order.
THEOREM TypeCorrect == Spec => []TypeOK
<1>1. Inv => TypeOK
  <2> SUFFICES ASSUME Inv PROVE TypeOK
    OBVIOUS
  <2>1. SessionType /\ CaptureType /\ PlanesInv
    BY DEF Inv, SessionInv, CaptureInv
  <2>2. TypeOKSession /\ Len(held) <= Len(Acquired)
    BY <2>1 DEF SessionType, PlanesInv
  <2>3. {dmabuf_fds, capture_fds}
          \subseteq UNION {[1 .. n -> Fds \cup {Bad}] : n \in 0 .. MaxPlanes}
    BY <2>1, Zenon DEF CaptureType, Planes
  <2>4. /\ open \subseteq Fds
        /\ {queued, taken, frame} \subseteq Frames /\ video \in Frames \cup {"garbled"}
    BY <2>1 DEF CaptureType, Frames
  <2>5. /\ pcT \in {"none", "idle", "process"}
        /\ {promised, negotiated, same_format, damaged, paused, excused, misused} \subseteq BOOLEAN
    BY <2>1, Zenon DEF CaptureType, PlanesInv
  <2> QED
    BY <2>2, <2>3, <2>4, <2>5, Zenon DEF TypeOK
<1> QED
  BY <1>1, Invariance, PTL

\* The recorder takes whatever answer is next on the bus, and yet the stream it captures
\* is one that Start was answered with, in a session of its own: an answer out of step
\* has no stream in it, and the set-up fails.
THEOREM OwnStream == Spec => []NodeFromStart
<1>1. Inv => NodeFromStart
  <2>1. Capturing => pc \in SettingUp \cup Drawing /\ pc \notin Creating \cup Ending
    BY DEF Capturing, SettingUp, Opening, Drawing, Looping, Creating, Ending, Fails
  <2> QED
    BY <2>1 DEF Inv, SessionInv, StreamInv, NodeFromStart, Pcs
<1> QED
  BY <1>1, Invariance, PTL

\* Each plane's descriptor has one owner, is closed once, and none is left open when the
\* recorder has stopped, for any number of planes and failures of dup().
THEOREM Descriptors == Spec => []FdsOwned
<1>1. Inv => FdsOwned
  BY NoPlanes DEF Inv, CaptureInv, PlanesInv, FdsOwned
<1> QED
  BY <1>1, Invariance, PTL

\* In the content mode no frame of the compositor's is missed: while the last picture is
\* not what is on the screen, a newer frame is on its way, or waits and is noticed.
THEOREM NoFrameMissed == Spec => []NothingMissed
<1>1. Inv => NothingMissed
  BY DEF Inv, CaptureInv, FrameInv, NewestInv, NothingMissed, Drawing, Looping
<1> QED
  BY <1>1, Invariance, PTL

\* The file gets the token the portal granted last, however many recordings there were
\* and wherever they failed, and a recording that restores a token keeps it there.  What
\* a recording without the option writes that was granted none is left open (it erases
\* the token).
THEOREM TokenKept == Spec => TokenRemembered
<1>1. ASSUME Inv, [Next]_vars
      PROVE  [IF pc = "save" /\ pc' # "save"
              THEN /\ granted # NoToken => token_file' = granted
                   /\ granted = NoToken /\ restore_portal_session => UNCHANGED token_file
              ELSE UNCHANGED token_file]_vars
  <2>1. pc \in Pcs /\ TokenInv
    BY <1>1 DEF Inv, SessionInv, SessionType
  <2>2. CASE SaveRestoreToken
    BY <2>1, <2>2 DEF SaveRestoreToken, Saved, TokenInv, Kept
  <2>3. CASE Session /\ ~ SaveRestoreToken
    <3>1. pc' = pc \/ pc # "save"
      BY <2>3 DEF Session, SetupDbus, Answer, CreateSession, SessionCreated, SelectSources,
                  SourcesSelected, StartScreencast, Started, Received, OpenPipeWireRemote,
                  StartAgain, dbus
    <3>2. UNCHANGED token_file
      BY <2>3 DEF Session, SetupDbus, Answer, CreateSession, SessionCreated, SelectSources,
                  SourcesSelected, StartScreencast, Started, OpenPipeWireRemote, StartAgain, setup
    <3> QED
      BY <3>1, <3>2
  <2>4. CASE Next /\ ~ Session
    <3>1. UNCHANGED session
      BY <2>1, <2>4, Moves
    <3>2. pc = "save" => pc' = pc
      BY <2>4 DEF Next, Recorder, SetupStream, Connected, MeasureFrame, CleanupPlaneFds,
                  StopCapture, StopThread, Deinit, IsDamaged, ClearDamage, CaptureFrame,
                  NothingNew, NoDimensions, TogglePause, LeaveLoop, Compose, ParamChanged,
                  Thread, Dequeue, Process, Fails
    <3> QED
      BY <3>1, <3>2 DEF session, setup
  <2>5. CASE UNCHANGED vars
    BY <2>5
  <2> QED
    BY <1>1, <2>2, <2>3, <2>4, <2>5
<1> QED
  BY <1>1, Invariance, PTL DEF Spec, TokenRemembered
===============================================================================
