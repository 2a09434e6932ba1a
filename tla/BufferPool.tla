------------------------------ MODULE BufferPool ------------------------------
(***************************************************************************)
(* The pool of frame buffers of wf-recorder (src/buffer-pool.hpp) and the  *)
(* two threads that share it: the main thread, which has the compositor    *)
(* copy a frame into the capture buffer, and the writer thread, which      *)
(* feeds the encode buffer to FFmpeg.                                      *)
(*                                                                         *)
(* next_capture and next_encode run under the pool's mutex, but the flags  *)
(* released and available are atomics that the other thread reads without  *)
(* it, so each of the two calls is modelled as three steps: the two flag   *)
(* writes and the move of the index.  A buffer is an integer, the number   *)
(* of buffers that were allocated before it.                               *)
(***************************************************************************)
EXTENDS Integers, FiniteSets

CONSTANTS N,          \* most buffers the pool may grow to (16 in the program)
          MaxFrames   \* bound: frames captured in one behaviour

ASSUME PoolAssumption == /\ N \in Nat /\ N >= 2
                         /\ MaxFrames \in Nat

VARIABLES bufs,         \* slot -> buffer, Null where there is none yet
          bufs_size,    \* slots in use
          capture_idx,  \* slot the main thread captures into
          encode_idx,   \* slot the writer thread encodes from
          released,     \* buffer -> may hold a new frame
          available,    \* buffer -> may be fed to the encoder
          content,      \* buffer -> number of the frame it holds
          mutex,        \* "none", "main" or "writer"
          pcM,          \* control of the main thread
          pcW,          \* control of the writer thread
          buffer,       \* the writer's reference to a buffer
          captured,     \* frames copied by the compositor so far
          encoded       \* frames given to the encoder so far

slots   == <<bufs, bufs_size, capture_idx, encode_idx>>
flags   == <<released, available>>
vars    == <<slots, flags, content, mutex, pcM, pcW, buffer, captured, encoded>>

Null    == -1
Slots   == 0 .. N - 1
Buffers == 0 .. N - 1

Init ==
  /\ bufs = [i \in Slots |-> IF i < 2 THEN i ELSE Null]
  /\ bufs_size = 2
  /\ capture_idx = 0 /\ encode_idx = 0
  /\ released  = [b \in Buffers |-> TRUE]
  /\ available = [b \in Buffers |-> FALSE]
  /\ content   = [b \in Buffers |-> 0]
  /\ mutex = "none"
  /\ pcM = "wait" /\ pcW = "look"
  /\ buffer = 0
  /\ captured = 0 /\ encoded = 0

-------------------------------------------------------------------------------
(* Plausible mistakes in the definitions below; the specification does not *)
(* use them.                                                               *)

ForgetEncodeIdx(next) == encode_idx
AlwaysReadyCapture(b) == TRUE
AlwaysReadyEncode(b)  == TRUE
ReleaseNothing ==
  /\ pcW = "release"
  /\ pcW' = "advance"
  /\ UNCHANGED <<slots, flags, content, mutex, pcM, buffer, captured, encoded>>

-------------------------------------------------------------------------------
(* The pool's own operations.                                              *)

ReadyCapture(b) == released[b]
ReadyEncode(b)  == available[b]

\* (i + 1) % size, for a slot i of a ring of that size.
After(i, size) == IF i + 1 = size THEN 0 ELSE i + 1

\* next_capture allocates when the slot it would move to is still in use.
MustGrow == /\ ~ ReadyCapture(bufs[After(capture_idx, bufs_size)])
            /\ bufs_size < N

\* The slots from next on move up by one and a new buffer takes slot next.
Shifted(next) == [i \in Slots |-> IF i > next THEN bufs[i - 1]
                                  ELSE IF i = next THEN bufs_size ELSE bufs[i]]

\* An encode index that pointed at a moved slot moves with it.
ShiftedEncodeIdx(next) == IF encode_idx >= next /\ encode_idx < N - 1
                          THEN encode_idx + 1 ELSE encode_idx

-------------------------------------------------------------------------------
(* The main thread.                                                        *)

\* The loop that polls buffers.capture().ready_capture() lets it through.
WaitCapture ==
  /\ pcM = "wait"
  /\ captured < MaxFrames
  /\ ReadyCapture(bufs[capture_idx])
  /\ pcM' = "copy"
  /\ UNCHANGED <<slots, flags, content, mutex, pcW, buffer, captured, encoded>>

\* The compositor has copied a frame into the capture buffer.
FrameHandleReady ==
  /\ pcM = "copy"
  /\ captured' = captured + 1
  /\ content' = [content EXCEPT ![bufs[capture_idx]] = captured + 1]
  /\ pcM' = "next_capture"
  /\ UNCHANGED <<slots, flags, mutex, pcW, buffer, encoded>>

NextCaptureClaim ==
  /\ pcM = "next_capture" /\ mutex = "none"
  /\ mutex' = "main"
  /\ released' = [released EXCEPT ![bufs[capture_idx]] = FALSE]
  /\ pcM' = "publish"
  /\ UNCHANGED <<slots, available, content, pcW, buffer, captured, encoded>>

NextCapturePublish ==
  /\ pcM = "publish"
  /\ available' = [available EXCEPT ![bufs[capture_idx]] = TRUE]
  /\ pcM' = "advance"
  /\ UNCHANGED <<slots, released, content, mutex, pcW, buffer, captured, encoded>>

NextCaptureAdvance ==
  /\ pcM = "advance"
  /\ IF MustGrow
     THEN LET next == After(capture_idx, bufs_size + 1) IN
          /\ bufs_size' = bufs_size + 1
          /\ bufs' = Shifted(next)
          /\ encode_idx' = ShiftedEncodeIdx(next)
          /\ capture_idx' = next
     ELSE /\ capture_idx' = After(capture_idx, bufs_size)
          /\ UNCHANGED <<bufs, bufs_size, encode_idx>>
  /\ mutex' = "none"
  /\ pcM' = "wait"
  /\ UNCHANGED <<flags, content, pcW, buffer, captured, encoded>>

-------------------------------------------------------------------------------
(* The writer thread.                                                      *)

\* buffers.encode(), the reference whose flag is then tested.
LookEncode ==
  /\ pcW = "look" /\ mutex = "none"
  /\ buffer' = bufs[encode_idx]
  /\ pcW' = "test"
  /\ UNCHANGED <<slots, flags, content, mutex, pcM, captured, encoded>>

TestEncode ==
  /\ pcW = "test"
  /\ pcW' = IF ReadyEncode(buffer) THEN "take" ELSE "look"
  /\ UNCHANGED <<slots, flags, content, mutex, pcM, buffer, captured, encoded>>

\* auto& buffer = buffers.encode(), a second look after the test.
TakeEncode ==
  /\ pcW = "take" /\ mutex = "none"
  /\ buffer' = bufs[encode_idx]
  /\ pcW' = "encode"
  /\ UNCHANGED <<slots, flags, content, mutex, pcM, captured, encoded>>

\* add_frame returns: the encoder has consumed the buffer.
AddFrame ==
  /\ pcW = "encode"
  /\ encoded' = encoded + 1
  /\ pcW' = "next_encode"
  /\ UNCHANGED <<slots, flags, content, mutex, pcM, buffer, captured>>

NextEncodeClaim ==
  /\ pcW = "next_encode" /\ mutex = "none"
  /\ mutex' = "writer"
  /\ available' = [available EXCEPT ![bufs[encode_idx]] = FALSE]
  /\ pcW' = "release"
  /\ UNCHANGED <<slots, released, content, pcM, buffer, captured, encoded>>

NextEncodeRelease ==
  /\ pcW = "release"
  /\ released' = [released EXCEPT ![bufs[encode_idx]] = TRUE]
  /\ pcW' = "advance"
  /\ UNCHANGED <<slots, available, content, mutex, pcM, buffer, captured, encoded>>

NextEncodeAdvance ==
  /\ pcW = "advance"
  /\ encode_idx' = After(encode_idx, bufs_size)
  /\ mutex' = "none"
  /\ pcW' = "look"
  /\ UNCHANGED <<bufs, bufs_size, capture_idx, flags, content, pcM, buffer, captured, encoded>>

Main   == \/ WaitCapture \/ FrameHandleReady
          \/ NextCaptureClaim \/ NextCapturePublish \/ NextCaptureAdvance
Writer == \/ LookEncode \/ TestEncode \/ TakeEncode \/ AddFrame
          \/ NextEncodeClaim \/ NextEncodeRelease \/ NextEncodeAdvance

Next == Main \/ Writer

Spec == Init /\ [][Next]_vars

\* Both threads keep running.  The mutex is only taken in short sections, so a
\* thread that keeps asking for it gets it (strong fairness of the requests).
FairSpec == /\ Spec
            /\ WF_vars(Main) /\ WF_vars(Writer)
            /\ SF_vars(NextCaptureClaim)
            /\ SF_vars(LookEncode) /\ SF_vars(TakeEncode) /\ SF_vars(NextEncodeClaim)

-------------------------------------------------------------------------------
(* Properties.                                                             *)

TypeOK ==
  /\ bufs_size \in 2 .. N
  /\ bufs \in [Slots -> Buffers \cup {Null}]
  /\ capture_idx \in 0 .. bufs_size - 1
  /\ encode_idx  \in 0 .. bufs_size - 1
  /\ released  \in [Buffers -> BOOLEAN]
  /\ available \in [Buffers -> BOOLEAN]
  /\ content   \in [Buffers -> Nat]
  /\ mutex \in {"none", "main", "writer"}
  /\ pcM \in {"wait", "copy", "next_capture", "publish", "advance"}
  /\ pcW \in {"look", "test", "take", "encode", "next_encode", "release", "advance"}
  /\ buffer \in Buffers
  /\ captured \in Nat /\ encoded \in Nat

\* The compositor never copies into the buffer the encoder is reading, although
\* both sides hold plain references to buffers outside the mutex
\* (buffers.capture() in the screencopy callbacks, buffer in write_loop).
NoTearing == ~ (/\ pcM = "copy" /\ pcW = "encode"
                /\ bufs[capture_idx] = buffer)

\* The encoder gets the frames in the order they were captured, each exactly
\* once: the buffer write_loop hands to add_frame holds the next frame, however
\* often next_capture has grown the ring underneath it.
InOrder == pcW = "encode" => content[buffer] = encoded + 1

\* write_loop calls buffers.encode() three times per frame: to test the flag, to
\* use the buffer, and (in next_encode) to release it.  Growing the ring in
\* between moves the slots, yet the three calls mean the same buffer.
SameReference ==
  pcW \in {"test", "take", "encode", "next_encode"} => buffer = bufs[encode_idx]

\* No buffer is free for capture and ready for encoding at once: the order of
\* the two flag writes in next_capture and next_encode is what ensures it.
OneSide == \A b \in Buffers : ~ (released[b] /\ available[b])

\* Growing neither drops a buffer nor puts one into two slots.
EveryBufferOnce ==
  \A b \in 0 .. bufs_size - 1 : \E i \in 0 .. bufs_size - 1 :
     bufs[i] = b /\ \A j \in 0 .. bufs_size - 1 : bufs[j] = b => j = i

\* next_capture allocates a buffer only when every buffer of the ring waits for
\* the encoder or is being encoded; otherwise the ring keeps its size.
GrowsOnlyWhenFull ==
  [][bufs_size' # bufs_size =>
       /\ bufs_size' = bufs_size + 1
       /\ \A b \in 0 .. bufs_size - 1 : ~ released[b]]_vars

\* As long as the compositor delivers frames, the pool never makes either side
\* wait for ever: all frames of the recording reach the encoder.
EveryFrameEncoded == <>(encoded = MaxFrames)

\* The pool implements a bounded first-in first-out queue: a frame enters it
\* when next_capture sets its buffer available and leaves it when next_encode
\* clears the flag.
First == IF pcW \in {"release", "advance"} THEN After(encode_idx, bufs_size) ELSE encode_idx
Waiting == Cardinality({b \in Buffers : available[b]})
Nth(k) == IF First + k - 1 < bufs_size THEN First + k - 1 ELSE First + k - 1 - bufs_size
Queue == INSTANCE FrameQueue WITH
  Capacity <- N,
  queue <- [k \in 1 .. Waiting |-> content[bufs[Nth(k)]]],
  put <- IF pcM \in {"next_capture", "publish"} THEN captured - 1 ELSE captured
ImplementsQueue == Queue!QSpec

-------------------------------------------------------------------------------
(* The inductive invariant.  It counts the completed calls of next_capture *)
(* and next_encode; their difference is the number of occupied slots,      *)
(* which are the ones that follow encode_idx around the ring.              *)

Moved   == captured - (IF pcM \in {"next_capture", "publish", "advance"} THEN 1 ELSE 0)
Retired == encoded  - (IF pcW \in {"next_encode", "release", "advance"} THEN 1 ELSE 0)
Used    == Moved - Retired

\* Distance of slot i from the encode slot, going round.
Dist(i) == IF i >= encode_idx THEN i - encode_idx ELSE i - encode_idx + bufs_size
Occupied(i) == Dist(i) < Used

LockInv ==
  /\ (mutex = "main")   <=> (pcM \in {"publish", "advance"})
  /\ (mutex = "writer") <=> (pcW \in {"release", "advance"})

SlotInv ==
  /\ \A i \in Slots : IF i < bufs_size THEN bufs[i] \in 0 .. bufs_size - 1
                                        ELSE bufs[i] = Null
  /\ \A i, j \in 0 .. bufs_size - 1 : bufs[i] = bufs[j] => i = j
  /\ \A b \in 0 .. bufs_size - 1 : \E i \in 0 .. bufs_size - 1 : bufs[i] = b
  /\ \A b \in bufs_size .. N - 1 : released[b] /\ ~ available[b]

RingInv ==
  /\ Moved \in Nat /\ Retired \in Nat
  /\ Used \in 0 .. bufs_size
  /\ Used < bufs_size => Dist(capture_idx) = Used
  /\ Used = bufs_size => capture_idx = encode_idx
  /\ pcM \in {"copy", "next_capture"} => Used < bufs_size \/ pcW = "advance"
  /\ pcM \in {"publish", "advance"} => Used < bufs_size
  /\ pcW = "take" => Used > 0 \/ pcM = "advance"
  /\ pcW \in {"encode", "next_encode", "release", "advance"} => Used > 0

FlagInv ==
  \A i \in 0 .. bufs_size - 1 :
    /\ released[bufs[i]] <=>
         \/ i = encode_idx /\ pcW = "advance"
         \/ ~ Occupied(i) /\ ~ (i = capture_idx /\ pcM \in {"publish", "advance"})
    /\ available[bufs[i]] <=>
         \/ Occupied(i) /\ ~ (i = encode_idx /\ pcW \in {"release", "advance"})
         \/ i = capture_idx /\ pcM = "advance"

ContentInv ==
  /\ \A i \in 0 .. bufs_size - 1 :
       Occupied(i) /\ ~ (i = encode_idx /\ pcW = "advance")
         => content[bufs[i]] = Retired + 1 + Dist(i)
  /\ pcM \in {"next_capture", "publish", "advance"}
       => content[bufs[capture_idx]] = captured

IInv == /\ TypeOK /\ LockInv /\ SlotInv /\ RingInv /\ FlagInv /\ ContentInv
        /\ SameReference
===============================================================================
