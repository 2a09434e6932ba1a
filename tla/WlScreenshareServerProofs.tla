----------------------- MODULE WlScreenshareServerProofs -----------------------
(***************************************************************************)
(* Proofs about WlScreenshareServer, for every number of frames: the       *)
(* types, and the three facts that tie the unlocked pointer frame_writer   *)
(* and the queue to the two threads.                                       *)
(*                                                                         *)
(* WriterThere alone is not inductive: that write_loop finds a FrameWriter *)
(* when it takes a buffer from the queue rests on what the callback did    *)
(* before it pushed the buffer, and on the pointer being reset by nobody   *)
(* else.                                                                   *)
(***************************************************************************)
EXTENDS WlScreenshareServer, SequenceTheorems, TLAPS

\* write_loop holds a buffer only while it encodes and sends it.
HeldInv == buffer # None <=> pcW \in {"add", "send"}

\* Until write_loop resets the pointer, it is set when the first FrameWriter was
\* created; after that a callback creates at most one more.
PointerInv ==
  /\ pcW \in {"poll", "add", "send", "reset"} =>
       writers <= 1 /\ (frame_writer = "live" <=> writers = 1)
  /\ IF frame_writer = "none" THEN writers <= 1 ELSE writers >= 1

\* Only a callback that has made sure of a FrameWriter pushes a buffer.
PushedInv == buffer_queue # <<>> \/ taken > 0 \/ pcM = "push" => writers >= 1

\* The frames that were presented: taken, waiting, and the one being pushed.
CountInv ==
  /\ pcM = "push" => taken + Len(buffer_queue) + 1 = presented
  /\ pcM \notin {"push", "exited"} => taken + Len(buffer_queue) = presented

\* What is left of the writer thread when main has joined it.
EndInv ==
  /\ pcM = "done" => pcW = "done"
  /\ pcW \in {"drain_send", "done"} /\ frame_writer = "live" => writers = 2 \/ taken = 0

SInv == /\ TypeOK /\ HeldInv /\ PointerInv /\ PushedInv /\ CountInv /\ EndInv /\ InOrder

USE ServerAssumption DEF ServerAssumption, None

\* The initial state satisfies the inductive invariant.
THEOREM InitInv == Init => SInv
<1> SUFFICES ASSUME Init PROVE SInv
  OBVIOUS
<1> USE DEF Init
<1>1. TypeOK
  <2>1. buffer_queue \in Seq(1 .. MaxFrames)
    <3>1. << >> \in Seq(1 .. MaxFrames)
      BY EmptySeq, Zenon
    <3> QED
      BY <3>1
  <2>2. exit_main_loop \in BOOLEAN /\ can_read_buffer \in BOOLEAN
    OBVIOUS
  <2>3. presented \in 0 .. MaxFrames /\ writers \in 0 .. 2 /\ taken \in 0 .. MaxFrames
    OBVIOUS
  <2> QED
    BY <2>1, <2>2, <2>3 DEF TypeOK
<1>2. InOrder
  BY DEF InOrder
<1>3. HeldInv /\ PointerInv /\ PushedInv /\ CountInv /\ EndInv
  BY DEF HeldInv, PointerInv, PushedInv, CountInv, EndInv
<1> QED
  BY <1>1, <1>2, <1>3 DEF SInv

\* Main and the compositor's callbacks up to the frame, the signal and the display.
LEMMA LoopKeeps ==
  ASSUME SInv,
         \/ Top \/ CheckLoop \/ FrameHandleLinuxDmabuf \/ DmabufCreated
         \/ DmabufFailed \/ FrameHandleFailed \/ DisplayLost \/ HandleGracefulTermination
  PROVE  SInv'
<1> USE DEF SInv, Top, CheckLoop, FrameHandleLinuxDmabuf, DmabufCreated, DmabufFailed,
        FrameHandleFailed, DisplayLost, HandleGracefulTermination, RequestNextFrame, Handler,
        FrameOnly, Alive, mainVars, shared, writerVars
<1>1. TypeOK'
  <2>1. exit_main_loop' \in BOOLEAN /\ can_read_buffer' \in BOOLEAN
    BY DEF TypeOK
  <2>2. pcM' \in {"top", "check", "blocked", "push", "join", "done", "exited"}
    BY DEF TypeOK
  <2>3. /\ frame' \in {"none", "requested", "params", "copy", "stalled"}
        /\ display' \in {"up", "lost"}
    BY DEF TypeOK
  <2>4. UNCHANGED <<presented, buffer_queue, frame_writer, writers, pcW, buffer, taken, conn>>
    OBVIOUS
  <2> QED
    BY <2>1, <2>2, <2>3, <2>4 DEF TypeOK
<1>2. HeldInv' /\ PointerInv' /\ PushedInv'
  BY DEF HeldInv, PointerInv, PushedInv
<1>3. CountInv' /\ EndInv'
  BY DEF CountInv, EndInv
<1>4. InOrder'
  BY DEF InOrder, CountInv
<1> QED
  BY <1>1, <1>2, <1>3, <1>4

\* Main joins write_loop.
LEMMA JoinKeeps == ASSUME SInv, Join PROVE SInv'
<1> USE DEF SInv, Join, shared, writerVars
<1>1. TypeOK'
  BY DEF TypeOK
<1>2. HeldInv' /\ PointerInv' /\ PushedInv'
  BY DEF HeldInv, PointerInv, PushedInv
<1>3. CountInv' /\ EndInv' /\ InOrder'
  BY DEF CountInv, EndInv, InOrder
<1> QED
  BY <1>1, <1>2, <1>3

\* The first half of frame_handle_ready, with or without a new FrameWriter.
LEMMA FrameKeeps == ASSUME SInv, FrameHandleReady PROVE SInv'
<1> USE DEF SInv, FrameHandleReady, Handler, NeedsWriter, CreateWriter, Exit, writerVars
<1>1. TypeOK'
  <2>1. presented' \in 0 .. MaxFrames
    BY DEF TypeOK
  <2>2. frame_writer' \in {"none", "live"} /\ writers' \in 0 .. 2
    BY DEF TypeOK, PointerInv
  <2>3. pcM' \in {"push", "exited"}
    OBVIOUS
  <2> QED
    BY <2>1, <2>2, <2>3 DEF TypeOK
<1>2. HeldInv'
  BY DEF HeldInv
<1>3. PointerInv'
  BY DEF PointerInv, TypeOK
<1>4. PushedInv'
  BY DEF PushedInv, PointerInv, TypeOK, EndInv
<1>5. CountInv'
  BY DEF CountInv, TypeOK
<1>6. EndInv'
  BY DEF EndInv, TypeOK, PushedInv, PointerInv
<1>7. InOrder'
  BY DEF InOrder, CountInv
<1> QED
  BY <1>1, <1>2, <1>3, <1>4, <1>5, <1>6, <1>7

\* The second half: the buffer joins the queue behind the others.
LEMMA PushKeeps == ASSUME SInv, Push PROVE SInv'
<1> USE DEF SInv, Push, writerVars
<1>1. presented \in 1 .. MaxFrames
  BY DEF TypeOK, CountInv
<1>2. /\ buffer_queue' \in Seq(1 .. MaxFrames)
      /\ Len(buffer_queue') = Len(buffer_queue) + 1
      /\ \A i \in 1 .. Len(buffer_queue) : buffer_queue'[i] = buffer_queue[i]
      /\ buffer_queue'[Len(buffer_queue) + 1] = presented
  BY <1>1, AppendProperties DEF TypeOK
<1>3. TypeOK'
  BY <1>2 DEF TypeOK
<1>4. HeldInv' /\ PointerInv'
  BY DEF HeldInv, PointerInv
<1>5. PushedInv'
  BY DEF PushedInv
<1>6. CountInv'
  BY <1>2 DEF CountInv, TypeOK
<1>7. EndInv'
  BY DEF EndInv
<1>8. InOrder'
  <2>1. Len(buffer_queue) \in Nat /\ presented = taken + (Len(buffer_queue) + 1)
    BY LenProperties DEF TypeOK, CountInv
  <2>2. \A i \in 1 .. Len(buffer_queue) : buffer_queue[i] = taken + i
    BY DEF InOrder
  <2>3. \A i \in 1 .. Len(buffer_queue') : buffer_queue'[i] = taken + i
    <3> HIDE DEF SInv, Push
    <3> QED
      BY <1>2, <2>1, <2>2
  <2> QED
    BY <2>3, <1>6 DEF InOrder, CountInv
<1> QED
  BY <1>3, <1>4, <1>5, <1>6, <1>7, <1>8

\* write_loop takes the oldest buffer, or sees the flag.
LEMMA PollKeeps == ASSUME SInv, PollQueue PROVE SInv'
<1> USE DEF SInv, PollQueue, Alive, mainVars
<1>1. CASE pcW' = "reset"
  <2> USE <1>1 DEF Leave
  <2>1. UNCHANGED <<buffer_queue, buffer, taken>>
    OBVIOUS
  <2>2. TypeOK' /\ InOrder'
    BY <2>1 DEF TypeOK, InOrder
  <2>3. HeldInv' /\ PointerInv' /\ PushedInv' /\ CountInv' /\ EndInv'
    BY <2>1 DEF HeldInv, PointerInv, PushedInv, CountInv, EndInv
  <2> QED
    BY <2>2, <2>3
<1>2. CASE pcW' = "add"
  <2> USE <1>2 DEF Pop
  <2>1. /\ buffer_queue # <<>> /\ taken' = taken + 1
        /\ buffer' = Head(buffer_queue) /\ buffer_queue' = Tail(buffer_queue)
    OBVIOUS
  <2>2. /\ buffer' \in 1 .. MaxFrames /\ buffer' = buffer_queue[1]
        /\ buffer_queue' \in Seq(1 .. MaxFrames)
        /\ Len(buffer_queue) \in Nat \ {0}
        /\ Len(buffer_queue') = Len(buffer_queue) - 1
        /\ \A i \in 1 .. Len(buffer_queue') : buffer_queue'[i] = buffer_queue[i + 1]
    BY <2>1, HeadTailProperties DEF TypeOK
  <2>3. taken' \in 0 .. MaxFrames
    BY <2>1, <2>2 DEF TypeOK, CountInv
  <2>4. TypeOK'
    BY <2>2, <2>3 DEF TypeOK
  <2>5. HeldInv' /\ PointerInv'
    BY <2>2 DEF HeldInv, PointerInv
  <2>6. PushedInv'
    BY <2>1 DEF PushedInv
  <2>7. CountInv'
    BY <2>1, <2>2, SMTT(30) DEF CountInv, TypeOK
  <2>8. EndInv'
    BY DEF EndInv
  <2>9. InOrder'
    <3>1. buffer' = taken'
      BY <2>1, <2>2 DEF InOrder, TypeOK
    <3>2. ASSUME NEW i \in 1 .. Len(buffer_queue') PROVE buffer_queue'[i] = taken' + i
      BY <2>1, <2>2, <3>2 DEF InOrder, TypeOK
    <3> QED
      BY <3>1, <3>2, <2>7 DEF InOrder, CountInv
  <2> QED
    BY <2>4, <2>5, <2>6, <2>7, <2>8, <2>9
<1> QED
  BY <1>1, <1>2

\* write_loop encodes and sends.
LEMMA EncodeKeeps ==
  ASSUME SInv, AddFrame \/ Listen \/ Sent \/ SendDies \/ DrainSent \/ Client
  PROVE  SInv'
<1> USE DEF SInv, AddFrame, Listen, Sent, SendDies, DrainSent, Client, Exit, Alive,
        mainVars, shared, writerVars
<1>1. TypeOK'
  BY DEF TypeOK
<1>2. HeldInv' /\ PointerInv' /\ PushedInv'
  BY DEF HeldInv, PointerInv, PushedInv
<1>3. CountInv'
  BY DEF CountInv
<1>4. EndInv'
  BY DEF EndInv
<1>5. InOrder'
  BY DEF InOrder
<1> QED
  BY <1>1, <1>2, <1>3, <1>4, <1>5

\* write_loop resets the pointer on its way out.
LEMMA ResetKeeps == ASSUME SInv, Reset PROVE SInv'
<1> USE DEF SInv, Reset, Alive, mainVars
<1>1. TypeOK'
  BY DEF TypeOK
<1>2. HeldInv' /\ PointerInv' /\ PushedInv' /\ EndInv'
  BY DEF HeldInv, PointerInv, PushedInv, EndInv
<1>3. CountInv' /\ InOrder'
  BY DEF CountInv, InOrder
<1> QED
  BY <1>1, <1>2, <1>3

\* Every step, stuttering included, keeps the inductive invariant.
THEOREM StepInv == SInv /\ [Next]_vars => SInv'
<1> SUFFICES ASSUME SInv, [Next]_vars PROVE SInv'
  OBVIOUS
<1>1. CASE UNCHANGED vars
  BY <1>1 DEF vars, mainVars, shared, writerVars, SInv, TypeOK, HeldInv, PointerInv, PushedInv,
              CountInv, EndInv, InOrder
<1>2. CASE Loop
  BY <1>2, LoopKeeps, PushKeeps, JoinKeeps DEF Loop
<1>3. CASE Compositor
  BY <1>3, LoopKeeps, FrameKeeps DEF Compositor
<1>4. CASE Failures
  BY <1>4, LoopKeeps DEF Failures
<1>5. CASE Writer
  BY <1>5, PollKeeps, EncodeKeeps, ResetKeeps DEF Writer
<1>6. CASE SendDies \/ Client
  BY <1>6, EncodeKeeps
<1>7. CASE HandleGracefulTermination
  BY <1>7, LoopKeeps
<1> QED
  BY <1>1, <1>2, <1>3, <1>4, <1>5, <1>6, <1>7 DEF Next

\* The inductive invariant holds throughout, for every number of frames.
THEOREM Invariance == Spec => []SInv
  BY InitInv, StepInv, PTL DEF Spec

\* Control states, counters and the queue of buffers keep their types.
THEOREM TypeCorrect == Spec => []TypeOK
<1>1. SInv => TypeOK
  BY DEF SInv
<1> QED
  BY <1>1, Invariance, PTL

\* write_loop never adds a frame to a FrameWriter that is not there: the callback makes
\* it before it pushes the first buffer, and nobody but write_loop resets it.
THEOREM EncoderThere == Spec => []WriterThere
<1>1. SInv => WriterThere
  BY DEF SInv, WriterThere, HeldInv, PointerInv, PushedInv, InOrder, TypeOK
<1> QED
  BY <1>1, Invariance, PTL

\* The buffers that write_loop took and those that wait for it are, in this order, the
\* buffers that frame_handle_ready filled: none lost, none twice.
THEOREM Ordered == Spec => []InOrder
<1>1. SInv => InOrder
  BY DEF SInv
<1> QED
  BY <1>1, Invariance, PTL

\* When main returns, write_loop has ended and its FrameWriter is gone; one that is left
\* was made by a late callback, or never saw a frame.
THEOREM CleanEnd == Spec => []WriterGone
<1>1. SInv => WriterGone
  BY DEF SInv, WriterGone, HeldInv, EndInv
<1> QED
  BY <1>1, Invariance, PTL
===============================================================================
