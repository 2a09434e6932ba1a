--------------------------- MODULE WfRecorderProofs ---------------------------
(***************************************************************************)
(* Proofs about the process of wf-recorder, for every pool size, every     *)
(* number of tolerated failures, every set of command lines and every      *)
(* bound of the clock.                                                     *)
(***************************************************************************)
EXTENDS WfRecorder, TLAPS

USE DEF None

\* The initial state satisfies the inductive invariant.
THEOREM InitInv == Init => WInv
<1> SUFFICES ASSUME Init PROVE WInv
  OBVIOUS
<1> USE RecorderAssumption DEF Init
<1>1. MainTypeOK
  <2>1. /\ opts \in Options /\ exit_main_loop \in BOOLEAN /\ display \in {"up", "lost"}
        /\ stale \in BOOLEAN /\ buffer_copy_done \in BOOLEAN
    OBVIOUS
  <2>2. frame_failed_cnt \in 0 .. MAX_FRAME_FAILURES + 1 /\ clock \in 0 .. MaxClock
    OBVIOUS
  <2> QED
    BY <2>1, <2>2 DEF MainTypeOK
<1>2. WriterTypeOK
  <2>1. first_frame_ts \in 0 .. MaxClock + 1 \cup {None} /\ sync \in Int
    OBVIOUS
  <2> QED
    BY <2>1 DEF WriterTypeOK
<1>3. PoolTypeOK /\ AudioTypeOK
  BY DEF PoolTypeOK, AudioTypeOK
<1>4. LoopInv /\ LifeInv
  BY DEF LoopInv, ReadyCapture, LifeInv
<1>5. TimeInv
  BY DEF TimeInv
<1> QED
  BY <1>1, <1>2, <1>3, <1>4, <1>5 DEF WInv, TypeOK

\* The capture loop, but for the hand-over of a buffer.
LEMMA LoopQuiet ==
  ASSUME WInv,
         WaitBuffer \/ CheckLoop \/ LeaveLoop \/ Join
  PROVE  WInv'
<1> USE RecorderAssumption DEF WInv, TypeOK, WaitBuffer, CheckLoop, LeaveLoop, Join,
         RequestNextFrame, mainVars, poolVars, writerVars, audioVars
<1>1. MainTypeOK'
  BY DEF MainTypeOK
<1>2. PoolTypeOK' /\ WriterTypeOK' /\ AudioTypeOK'
  BY DEF PoolTypeOK, WriterTypeOK, AudioTypeOK
<1>3. LoopInv'
  BY DEF LoopInv, ReadyCapture, MainTypeOK
<1>4. LifeInv'
  BY DEF LifeInv
<1>5. TimeInv'
  BY DEF TimeInv
<1> QED
  BY <1>1, <1>2, <1>3, <1>4, <1>5

\* The callbacks that leave the clock and the failure count alone.
LEMMA CallbackQuiet ==
  ASSUME WInv,
         FrameHandleBuffer \/ FrameHandleLinuxDmabuf \/ DmabufCreated
         \/ DmabufCreatedStale \/ DmabufFailed
  PROVE  WInv'
<1> USE RecorderAssumption DEF WInv, TypeOK, FrameHandleBuffer, FrameHandleLinuxDmabuf,
         DmabufCreated, DmabufCreatedStale, DmabufFailed, Handler, AfterEvent, Exit,
         mainVars, poolVars, writerVars, audioVars
<1>1. MainTypeOK'
  BY DEF MainTypeOK
<1>2. PoolTypeOK' /\ WriterTypeOK' /\ AudioTypeOK'
  BY DEF PoolTypeOK, WriterTypeOK, AudioTypeOK
<1>3. LoopInv'
  BY DEF LoopInv, ReadyCapture, MainTypeOK
<1>4. LifeInv'
  BY DEF LifeInv
<1>5. TimeInv'
  BY DEF TimeInv
<1> QED
  BY <1>1, <1>2, <1>3, <1>4, <1>5

\* What happens to the process from outside.
LEMMA EnvironmentQuiet ==
  ASSUME WInv,
         DisplayLost \/ HandleGracefulTermination \/ Client \/ SendDies
  PROVE  WInv'
<1> USE RecorderAssumption DEF WInv, TypeOK, DisplayLost, HandleGracefulTermination,
         Client, SendDies, Handler, Exit, ClientConnects, AcceptFails,
         ClientDisconnects, mainVars, poolVars, writerVars, audioVars
<1>1. MainTypeOK'
  BY DEF MainTypeOK
<1>2. PoolTypeOK' /\ WriterTypeOK' /\ AudioTypeOK'
  BY DEF PoolTypeOK, WriterTypeOK, AudioTypeOK
<1>3. LoopInv'
  BY DEF LoopInv, ReadyCapture, MainTypeOK
<1>4. LifeInv'
  BY DEF LifeInv
<1>5. TimeInv'
  BY DEF TimeInv
<1> QED
  BY <1>1, <1>2, <1>3, <1>4, <1>5

\* The writer's steps that touch neither the queue nor the time line.
LEMMA WriterQuiet ==
  ASSUME WInv,
         WaitFrame \/ MapFails \/ AddFrame \/ WriterListens \/ LockAgain
         \/ StopAudio \/ Drain
  PROVE  WInv'
<1> USE RecorderAssumption DEF WInv, TypeOK, WaitFrame, MapFails, AddFrame,
         WriterListens, LockAgain, StopAudio, Drain, ReadyEncode, Listen, Exit,
         mainVars, poolVars, writerVars, audioVars
<1>1. MainTypeOK'
  BY DEF MainTypeOK
<1>2. PoolTypeOK' /\ WriterTypeOK' /\ AudioTypeOK'
  <2>1. PoolTypeOK' /\ WriterTypeOK'
    BY DEF PoolTypeOK, WriterTypeOK
  <2>2. AudioTypeOK'
    BY DEF AudioTypeOK
  <2> QED
    BY <2>1, <2>2
<1>3. LoopInv'
  BY DEF LoopInv, ReadyCapture, MainTypeOK
<1>4. LifeInv'
  BY DEF LifeInv
<1>5. TimeInv'
  BY DEF TimeInv
<1> QED
  BY <1>1, <1>2, <1>3, <1>4, <1>5

\* The audio thread between a read and a send.
LEMMA AudioQuiet ==
  ASSUME WInv,
         AudioRead \/ AddAudio \/ AudioListens
  PROVE  WInv'
<1> USE RecorderAssumption DEF WInv, TypeOK, AudioRead, AddAudio, AudioListens, Listen,
         Exit, mainVars, poolVars, writerVars, audioVars
<1>1. MainTypeOK'
  BY DEF MainTypeOK
<1>2. PoolTypeOK' /\ WriterTypeOK' /\ AudioTypeOK'
  BY DEF PoolTypeOK, WriterTypeOK, AudioTypeOK
<1>3. LoopInv'
  BY DEF LoopInv, ReadyCapture, MainTypeOK
<1>4. LifeInv'
  BY DEF LifeInv
<1>5. TimeInv'
  BY DEF TimeInv
<1> QED
  BY <1>1, <1>2, <1>3, <1>4, <1>5

\* A send that fails may raise exit_main_loop, and no send lowers it.
LEMMA SendReturns ==
  ASSUME WInv, WriterSent \/ DrainSent \/ AudioSent
  PROVE  WInv'
<1> USE RecorderAssumption DEF WInv, TypeOK, WriterSent, DrainSent, AudioSent, Returns,
         FinishFrame, mainVars, poolVars, writerVars, audioVars
<1>1. MainTypeOK' /\ (exit_main_loop => exit_main_loop')
  BY ZenonT(30) DEF MainTypeOK
<1>2. PoolTypeOK' /\ WriterTypeOK' /\ AudioTypeOK'
  BY ZenonT(30) DEF PoolTypeOK, WriterTypeOK, AudioTypeOK
<1>3. LoopInv'
  <2>1. UNCHANGED <<pcM, buffer_copy_done, display, frame, queue, frame_failed_cnt>>
    OBVIOUS
  <2> QED
    BY <1>1, <2>1 DEF LoopInv, ReadyCapture
<1>4. LifeInv'
  BY DEF LifeInv
<1>5. TimeInv'
  BY DEF TimeInv
<1> QED
  BY <1>1, <1>2, <1>3, <1>4, <1>5

\* A frame that enters the queue carries the clock, unless the display is lost or
\* the program is about to end; the slot was free since the wait.
LEMMA PublishInv == ASSUME WInv, Publish PROVE WInv'
<1> USE RecorderAssumption DEF WInv, TypeOK, Publish
<1>1. PICK t \in 0 .. clock : /\ queue' = Append(queue, t)
                              /\ buffer_copy_done => t = clock
  BY DEF MainTypeOK
<1>2. clock \in 0 .. MaxClock /\ clock' = clock /\ t \in 0 .. MaxClock
  BY DEF MainTypeOK
<1>3. queue \in Seq(0 .. MaxClock) /\ Len(queue) < PoolSize
  BY DEF PoolTypeOK, LoopInv, ReadyCapture
<1>4. /\ Len(queue') = Len(queue) + 1 /\ Len(queue) \in Nat
      /\ queue'[Len(queue) + 1] = t
      /\ \A i \in 1 .. Len(queue) : queue'[i] = queue[i] /\ queue[i] \in 0 .. MaxClock
  BY <1>1, <1>2, <1>3
<1>5. MainTypeOK' /\ AudioTypeOK'
  BY DEF MainTypeOK, AudioTypeOK, audioVars
<1>6. PoolTypeOK'
  BY <1>1, <1>2, <1>3 DEF PoolTypeOK
<1>7. WriterTypeOK'
  BY DEF WriterTypeOK
<1>8. LoopInv'
  BY DEF LoopInv
<1>9. LifeInv'
  BY <1>1, <1>3 DEF LifeInv, audioVars
<1>10. TimeInv'
  <2> SUFFICES ASSUME display = "up" PROVE TimeInv'
    BY DEF TimeInv
  <2>1. t = clock
    BY <1>1 DEF LoopInv
  <2>2. \A i \in 1 .. Len(queue') : queue'[i] = IF i = Len(queue) + 1 THEN clock ELSE queue[i]
    BY <1>4, <2>1
  <2>3. first_frame_ts \in Int /\ sync \in Int
    BY DEF WriterTypeOK
  <2> QED
    BY <1>2, <1>4, <2>2, <2>3, SMTT(30) DEF TimeInv
<1> QED
  BY <1>5, <1>6, <1>7, <1>8, <1>9, <1>10

\* The copy is complete: the clock may tick, and never goes back.
LEMMA ReadyInv == ASSUME WInv, FrameHandleReady PROVE WInv'
<1> USE RecorderAssumption DEF WInv, TypeOK, FrameHandleReady, Handler, AfterEvent,
         poolVars, writerVars, audioVars
<1>1. MainTypeOK' /\ clock \in Int /\ clock' \in Int /\ clock <= clock'
  BY DEF MainTypeOK, Tick
<1>2. PoolTypeOK' /\ WriterTypeOK' /\ AudioTypeOK'
  BY DEF PoolTypeOK, WriterTypeOK, AudioTypeOK
<1>3. LoopInv'
  BY DEF LoopInv, ReadyCapture, MainTypeOK
<1>4. LifeInv'
  BY DEF LifeInv
<1>5. TimeInv'
  <2>1. first_frame_ts \in Int /\ sync \in Int /\ \A i \in 1 .. Len(queue) : queue[i] \in Int
    BY DEF PoolTypeOK, WriterTypeOK
  <2> QED
    BY <1>1, <2>1 DEF TimeInv
<1> QED
  BY <1>1, <1>2, <1>3, <1>4, <1>5

\* The count of failures passes its limit only together with the order to exit.
LEMMA FailedInv == ASSUME WInv, FrameHandleFailed PROVE WInv'
<1> USE RecorderAssumption DEF WInv, TypeOK, FrameHandleFailed, Handler, AfterEvent,
         RequestNextFrame, TooManyFailures, poolVars, writerVars, audioVars
<1>1. MainTypeOK'
  <2>1. frame_failed_cnt \in 0 .. MAX_FRAME_FAILURES
    BY DEF MainTypeOK, LoopInv
  <2>2. frame_failed_cnt' \in 0 .. MAX_FRAME_FAILURES + 1
    BY <2>1
  <2>3. stale' \in BOOLEAN /\ exit_main_loop' \in BOOLEAN
    BY DEF MainTypeOK
  <2> QED
    BY <2>2, <2>3 DEF MainTypeOK
<1>2. PoolTypeOK' /\ WriterTypeOK' /\ AudioTypeOK'
  BY DEF PoolTypeOK, WriterTypeOK, AudioTypeOK
<1>3. LoopInv'
  BY DEF LoopInv, ReadyCapture, MainTypeOK
<1>4. LifeInv'
  BY DEF LifeInv
<1>5. TimeInv'
  BY DEF TimeInv
<1> QED
  BY <1>1, <1>2, <1>3, <1>4, <1>5

\* The reader starts behind the writer, with a time base that its clock may give.
LEMMA SetUpInv == ASSUME WInv, SetUp PROVE WInv'
<1> USE RecorderAssumption DEF WInv, TypeOK, SetUp, StartAudio, Exit, audioVars
<1>1. MainTypeOK' /\ PoolTypeOK'
  BY DEF MainTypeOK, PoolTypeOK, poolVars
<1>2. WriterTypeOK'
  BY DEF WriterTypeOK
<1>3. AudioTypeOK'
  <2>1. clock \in 0 .. MaxClock
    BY DEF MainTypeOK
  <2>2. time_base' \in 0 .. MaxClock + 1
    BY <2>1 DEF AudioTypeOK
  <2>3. /\ pcA' \in {"off", "read", "add", "send", "check", "ended"}
        /\ conn' \in {"closed", "writer", "audio", "open", "broken", "gone"}
    BY DEF AudioTypeOK
  <2> QED
    BY <2>2, <2>3 DEF AudioTypeOK
<1>4. LoopInv'
  BY DEF LoopInv, ReadyCapture, poolVars
<1>5. LifeInv'
  BY DEF LifeInv, poolVars
<1>6. TimeInv'
  BY DEF TimeInv, poolVars
<1> QED
  BY <1>1, <1>2, <1>3, <1>4, <1>5, <1>6

\* The time stamp: the head of the queue is no older than the last one, and the
\* time line starts no later than its first frame.
LEMMA StampInv == ASSUME WInv, Stamp PROVE WInv'
<1> USE RecorderAssumption DEF WInv, TypeOK, Stamp, mainVars, poolVars, audioVars
<1> DEFINE base == Head(queue)
<1>1. /\ Len(queue) \in Nat /\ 1 \in 1 .. Len(queue) /\ base = queue[1]
      /\ \A i \in 1 .. Len(queue) : queue[i] \in 0 .. MaxClock
  BY DEF LifeInv, PoolTypeOK
<1>2. /\ first_frame_ts \in Int /\ first_frame_ts' \in 0 .. MaxClock + 1 \cup {None}
      /\ sync \in Int /\ sync' \in Int /\ time_base \in 0 .. MaxClock + 1
  BY <1>1 DEF WriterTypeOK, AudioTypeOK
<1>3. MainTypeOK' /\ PoolTypeOK' /\ AudioTypeOK'
  BY DEF MainTypeOK, PoolTypeOK, AudioTypeOK
<1>4. WriterTypeOK'
  BY <1>2 DEF WriterTypeOK
<1>5. LoopInv'
  BY DEF LoopInv, ReadyCapture
<1>6. LifeInv'
  BY DEF LifeInv
<1>7. TimeInv'
  <2> SUFFICES ASSUME display = "up", first_frame_ts' # None
               PROVE  /\ sync' >= 0 /\ first_frame_ts' + sync' <= clock
                      /\ \A i \in 1 .. Len(queue) : first_frame_ts' + sync' <= queue[i]
    BY DEF TimeInv
  <2>1. first_frame_ts' + sync' = base /\ sync' >= 0
    BY <1>1, <1>2 DEF Ahead, TimeInv
  <2> QED
    BY <1>1, <2>1 DEF TimeInv
<1> QED
  BY <1>3, <1>4, <1>5, <1>6, <1>7

\* Dropping the head keeps the order of the rest.
LEMMA NextEncodeInv == ASSUME WInv, NextEncode PROVE WInv'
<1> USE RecorderAssumption DEF WInv, TypeOK, NextEncode, mainVars, audioVars
<1>1. /\ queue \in Seq(0 .. MaxClock) /\ queue # <<>>
      /\ queue' = Tail(queue) /\ Len(queue) <= PoolSize
  BY DEF LifeInv, PoolTypeOK
<1>2. /\ queue' \in Seq(0 .. MaxClock) /\ Len(queue) \in Nat /\ Len(queue') = Len(queue) - 1
      /\ \A i \in 1 .. Len(queue') : queue'[i] = queue[i + 1]
  BY <1>1
<1>3. MainTypeOK' /\ WriterTypeOK' /\ AudioTypeOK'
  BY DEF MainTypeOK, WriterTypeOK, AudioTypeOK
<1>4. PoolTypeOK'
  BY <1>1, <1>2 DEF PoolTypeOK
<1>5. LoopInv'
  BY <1>1, <1>2 DEF LoopInv, ReadyCapture
<1>6. LifeInv'
  BY DEF LifeInv
<1>7. TimeInv'
  <2> SUFFICES ASSUME display = "up" PROVE TimeInv'
    BY DEF TimeInv
  <2>1. \A i \in 1 .. Len(queue') : i + 1 \in 1 .. Len(queue) /\ queue'[i] = queue[i + 1]
    BY <1>2
  <2>2. \A i, j \in 1 .. Len(queue') : i <= j => queue'[i] <= queue'[j]
    BY <1>2, <2>1 DEF TimeInv
  <2> QED
    BY <2>1, <2>2 DEF TimeInv
<1> QED
  BY <1>3, <1>4, <1>5, <1>6, <1>7

\* PipeWire's time base, known after the first buffer, is no later than the clock
\* allows and never revised.
LEMMA AudioCheckInv == ASSUME WInv, AudioCheck PROVE WInv'
<1> USE RecorderAssumption DEF WInv, TypeOK, AudioCheck, mainVars, poolVars, writerVars
<1>1. MainTypeOK' /\ PoolTypeOK' /\ WriterTypeOK'
  BY DEF MainTypeOK, PoolTypeOK, WriterTypeOK
<1>2. AudioTypeOK'
  <2>1. clock \in 0 .. MaxClock /\ time_base \in 0 .. MaxClock + 1
    BY DEF MainTypeOK, AudioTypeOK
  <2>2. time_base' \in 0 .. MaxClock + 1
    BY <2>1
  <2> QED
    BY <2>2 DEF AudioTypeOK
<1>3. LoopInv'
  BY DEF LoopInv, ReadyCapture
<1>4. LifeInv'
  BY DEF LifeInv
<1>5. TimeInv'
  BY DEF TimeInv
<1> QED
  BY <1>1, <1>2, <1>3, <1>4, <1>5

\* Every step of the process preserves the inductive invariant.
LEMMA StepInv == WInv /\ [Next]_vars => WInv'
<1> SUFFICES ASSUME WInv, [Next]_vars PROVE WInv'
  OBVIOUS
<1>1. CASE Loop
  BY <1>1, LoopQuiet, PublishInv DEF Loop
<1>2. CASE Compositor
  BY <1>2, CallbackQuiet, ReadyInv, FailedInv DEF Compositor
<1>3. CASE Writer
  BY <1>3, WriterQuiet, SetUpInv, StampInv, SendReturns, NextEncodeInv DEF Writer
<1>4. CASE Audio
  BY <1>4, AudioQuiet, SendReturns, AudioCheckInv DEF Audio
<1>5. CASE SendDies \/ DisplayLost \/ HandleGracefulTermination \/ Client
  BY <1>5, EnvironmentQuiet
<1>6. CASE UNCHANGED vars
  <2> USE <1>6 DEF WInv, TypeOK, vars, mainVars, poolVars, writerVars, audioVars
  <2>1. TypeOK'
    BY DEF MainTypeOK, PoolTypeOK, WriterTypeOK, AudioTypeOK
  <2>2. LoopInv' /\ LifeInv' /\ TimeInv'
    BY DEF LoopInv, ReadyCapture, LifeInv, TimeInv
  <2> QED
    BY <2>1, <2>2
<1> QED
  BY <1>1, <1>2, <1>3, <1>4, <1>5, <1>6 DEF Next

\* WInv holds in every reachable state, for every pool size, every number of
\* tolerated failures, every set of command lines and every bound of the clock.
THEOREM Invariance == Spec => []WInv
<1> QED
  BY InitInv, StepInv, PTL DEF Spec

\* Type correctness: the queue never outgrows the pool, and the count of failures
\* stops one past its limit.
THEOREM TypeCorrect == Spec => []TypeOK
<1>1. WInv => TypeOK
  BY DEF WInv
<1> QED
  BY <1>1, Invariance, PTL

\* The audio thread never uses a FrameWriter that is not there.
THEOREM EncoderThere == Spec => []AudioNeedsWriter
<1>1. WInv => AudioNeedsWriter
  BY DEF WInv, LifeInv, AudioNeedsWriter
<1> QED
  BY <1>1, Invariance, PTL

\* Main returns after every other thread has ended.
THEOREM CleanEnd == Spec => []NothingRunsAfterMain
<1>1. WInv => NothingRunsAfterMain
  BY DEF WInv, LifeInv, NothingRunsAfterMain
<1> QED
  BY <1>1, Invariance, PTL

\* The time stamps given to the encoder are never negative and never step back
\* while the display is up.
THEOREM TimeMovesOn == Spec => Timeline
<1> DEFINE A == display = "up" /\ first_frame_ts' # None
                  => sync' >= 0 /\ (first_frame_ts # None => sync' >= sync)
<1>1. WInv /\ [Next]_vars => A
  <2> SUFFICES ASSUME WInv, [Next]_vars, display = "up", first_frame_ts' # None
               PROVE  sync' >= 0 /\ (first_frame_ts # None => sync' >= sync)
    OBVIOUS
  <2> USE DEF WInv, TypeOK
  <2>1. first_frame_ts \in Int /\ sync \in Int
    BY RecorderAssumption DEF WriterTypeOK
  <2>2. CASE Stamp
    <3>1. /\ 1 \in 1 .. Len(queue) /\ Head(queue) = queue[1]
          /\ queue[1] \in Int /\ time_base \in Int
      BY <2>2, RecorderAssumption DEF Stamp, LifeInv, PoolTypeOK, AudioTypeOK
    <3> QED
      BY <2>1, <2>2, <3>1 DEF Stamp, Ahead, TimeInv
  <2>3. CASE ~ Stamp
    <3>1. UNCHANGED <<first_frame_ts, sync>>
      BY <2>3 DEF Next, vars, mainVars, poolVars, writerVars, audioVars, Loop, Compositor,
           Writer, Audio, WaitBuffer, CheckLoop, Publish, LeaveLoop, Join,
           FrameHandleBuffer, FrameHandleLinuxDmabuf, DmabufCreated, DmabufCreatedStale,
           DmabufFailed, FrameHandleReady, FrameHandleFailed, AfterEvent, DisplayLost,
           HandleGracefulTermination, Client, SendDies, WaitFrame, SetUp, MapFails,
           AddFrame, WriterListens, WriterSent, NextEncode, LockAgain, StopAudio, Drain,
           DrainSent, Listen, AudioRead, AddAudio, AudioListens, AudioSent, AudioCheck
    <3> QED
      BY <2>1, <3>1 DEF TimeInv
  <2> QED
    BY <2>2, <2>3
<1> QED
  BY <1>1, Invariance, PTL DEF Spec, Timeline

\* A buffer enters the queue only when no frame object is outstanding, as long as
\* the display is up.
THEOREM OnlyObtained == Spec => ObtainedFromCompositor
<1> DEFINE A == Len(queue') > Len(queue) => frame = "none" \/ display = "lost"
<1>1. WInv /\ [Next]_vars => A
  <2> SUFFICES ASSUME WInv, [Next]_vars, Len(queue') > Len(queue)
               PROVE  frame = "none" \/ display = "lost"
    OBVIOUS
  <2> USE DEF WInv
  <2>1. queue' # queue
    BY DEF TypeOK, PoolTypeOK
  <2>2. Publish \/ NextEncode
    BY <2>1 DEF Next, vars, mainVars, poolVars, writerVars, audioVars, Loop, Compositor,
         Writer, Audio, WaitBuffer, CheckLoop, LeaveLoop, Join,
         FrameHandleBuffer, FrameHandleLinuxDmabuf, DmabufCreated, DmabufCreatedStale,
         DmabufFailed, FrameHandleReady, FrameHandleFailed, AfterEvent, DisplayLost,
         HandleGracefulTermination, Client, SendDies, WaitFrame, SetUp, Stamp, MapFails,
         AddFrame, WriterListens, WriterSent, LockAgain, StopAudio, Drain,
         DrainSent, Listen, AudioRead, AddAudio, AudioListens, AudioSent, AudioCheck
  <2>3. ~ NextEncode
    <3> SUFFICES ASSUME NextEncode PROVE FALSE
      OBVIOUS
    <3>1. queue \in Seq(0 .. MaxClock) /\ queue # <<>> /\ queue' = Tail(queue)
      BY DEF NextEncode, LifeInv, TypeOK, PoolTypeOK
    <3> QED
      BY <3>1
  <2> QED
    BY <2>2, <2>3 DEF Publish, LoopInv
<1> QED
  BY <1>1, Invariance, PTL DEF Spec, ObtainedFromCompositor
===============================================================================
