------------------------------ MODULE FrameQueue ------------------------------
(***************************************************************************)
(* What the capture thread and the writer thread of wf-recorder expect of  *)
(* the pool of buffers between them: a bounded first-in first-out queue.   *)
(* Frames are numbered in the order the compositor delivered them.         *)
(***************************************************************************)
EXTENDS Naturals, Sequences

CONSTANTS Capacity,   \* frames the queue can hold
          MaxFrames   \* bound on the frames of one recording

VARIABLES queue,      \* frames captured and not yet taken by the encoder
          put         \* number of frames put so far

qvars == <<queue, put>>

QInit == queue = <<>> /\ put = 0

\* The capture side hands over the next frame.
Put == /\ put < MaxFrames
       /\ Len(queue) < Capacity
       /\ put' = put + 1
       /\ queue' = Append(queue, put + 1)

\* The encoder is done with the oldest frame.
Get == /\ queue # <<>>
       /\ queue' = Tail(queue)
       /\ UNCHANGED put

QSpec == QInit /\ [][Put \/ Get]_qvars
===============================================================================
