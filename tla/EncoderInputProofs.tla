-------------------------- MODULE EncoderInputProofs --------------------------
(***************************************************************************)
(* Proofs about what the encoders are fed with.  First the frames: the     *)
(* buffer pool of wf-recorder, for every N >= 2 and every MaxFrames.  Then *)
(* the sound: the two programs that read it, for every period, every size  *)
(* of a fragment, every queue and every length of a recording.             *)
(***************************************************************************)
EXTENDS BufferPool, AudioReaders, SequenceTheorems, FiniteSetTheorems, TLAPS

-------------------------------------------------------------------------------
(* The frames. *)

USE DEF Slots, Buffers, Null

\* The initial ring satisfies the inductive invariant.
THEOREM InitInv == Init => IInv
<1> SUFFICES ASSUME Init PROVE IInv
  OBVIOUS
<1> USE PoolAssumption DEF Init
<1>1. TypeOK
  BY DEF TypeOK
<1>2. LockInv /\ SlotInv /\ SameReference
  BY DEF LockInv, SlotInv, SameReference
<1>3. RingInv
  BY DEF RingInv, Moved, Retired, Used, Dist
<1>4. FlagInv /\ ContentInv
  BY DEF FlagInv, ContentInv, Occupied, Dist, Used, Moved, Retired
<1> QED
  BY <1>1, <1>2, <1>3, <1>4 DEF IInv

\* The poll for a free buffer changes no variable but pcM.
LEMMA WaitCaptureInv == IInv /\ WaitCapture => IInv'
<1> SUFFICES ASSUME IInv, WaitCapture PROVE IInv'
  OBVIOUS
<1> USE PoolAssumption DEF IInv, WaitCapture, slots, flags
<1>1. TypeOK'
  BY DEF TypeOK
<1>2. LockInv' /\ SlotInv' /\ SameReference'
  BY DEF TypeOK, LockInv, SlotInv, SameReference
<1>3. RingInv'
  BY DEF TypeOK, RingInv, FlagInv, ReadyCapture, Occupied, Used, Moved, Retired, Dist
<1>4. FlagInv' /\ ContentInv'
  BY DEF TypeOK, FlagInv, ContentInv, Occupied, Dist, Used, Moved, Retired
<1> QED
  BY <1>1, <1>2, <1>3, <1>4

\* The copy goes to the capture slot, which is not occupied.
LEMMA FrameHandleReadyInv == IInv /\ FrameHandleReady => IInv'
<1> SUFFICES ASSUME IInv, FrameHandleReady PROVE IInv'
  OBVIOUS
<1> USE PoolAssumption DEF IInv, FrameHandleReady, slots, flags
<1>1. TypeOK'
  BY SMTT(30) DEF TypeOK, LockInv, RingInv, SlotInv
<1>2. LockInv' /\ SlotInv' /\ SameReference'
  BY DEF TypeOK, LockInv, SlotInv, SameReference
<1>3. RingInv'
  BY DEF TypeOK, LockInv, RingInv, FlagInv, Occupied, Used, Moved, Retired, Dist
<1>4. FlagInv'
  BY DEF TypeOK, LockInv, SlotInv, RingInv, FlagInv, Occupied, Dist, Used, Moved, Retired
<1>5. ContentInv'
  <2>1. UNCHANGED <<Moved, Retired, Used>>
    BY DEF TypeOK, Moved, Retired, Used
  <2>2. ASSUME NEW i \in 0 .. bufs_size - 1, Occupied(i),
               ~ (i = encode_idx /\ pcW = "advance")
        PROVE  content'[bufs[i]] = content[bufs[i]]
    <3>1. i # capture_idx
      BY <2>2 DEF TypeOK, RingInv, Occupied
    <3>2. bufs[i] # bufs[capture_idx]
      BY <3>1 DEF TypeOK, SlotInv
    <3> QED
      BY <3>2 DEF TypeOK
  <2>3. content'[bufs[capture_idx]] = captured + 1
    BY DEF TypeOK, SlotInv
  <2> QED
    BY <2>1, <2>2, <2>3 DEF TypeOK, ContentInv, Occupied, Dist
<1> QED
  BY <1>1, <1>2, <1>3, <1>4, <1>5

\* next_capture takes the mutex and takes the captured buffer from the free ones.
LEMMA NextCaptureClaimInv == IInv /\ NextCaptureClaim => IInv'
<1> SUFFICES ASSUME IInv, NextCaptureClaim PROVE IInv'
  OBVIOUS
<1> USE PoolAssumption DEF IInv, NextCaptureClaim, slots, flags
<1>1. TypeOK'
  BY DEF TypeOK, LockInv, RingInv, SlotInv
<1>2. LockInv' /\ SlotInv' /\ SameReference'
  BY DEF TypeOK, LockInv, SlotInv, SameReference
<1>3. RingInv'
  BY DEF TypeOK, LockInv, RingInv, FlagInv, Occupied, Used, Moved, Retired, Dist
<1>4. FlagInv'
  BY DEF TypeOK, LockInv, SlotInv, RingInv, FlagInv, Occupied, Dist, Used, Moved, Retired
<1>5. ContentInv'
  BY DEF TypeOK, LockInv, SlotInv, RingInv, FlagInv, ContentInv, Occupied, Dist, Used, Moved, Retired
<1> QED
  BY <1>1, <1>2, <1>3, <1>4, <1>5

\* next_capture makes the buffer of the capture slot available.
LEMMA NextCapturePublishInv == IInv /\ NextCapturePublish => IInv'
<1> SUFFICES ASSUME IInv, NextCapturePublish PROVE IInv'
  OBVIOUS
<1> USE PoolAssumption DEF IInv, NextCapturePublish, slots, flags
<1>1. TypeOK'
  BY DEF TypeOK, LockInv, RingInv, SlotInv
<1>2. LockInv' /\ SlotInv' /\ SameReference'
  BY DEF TypeOK, LockInv, SlotInv, SameReference
<1>3. RingInv'
  BY DEF TypeOK, LockInv, RingInv, FlagInv, Occupied, Used, Moved, Retired, Dist
<1>4. FlagInv'
  BY DEF TypeOK, LockInv, SlotInv, RingInv, FlagInv, Occupied, Dist, Used, Moved, Retired
<1>5. ContentInv'
  BY DEF TypeOK, LockInv, SlotInv, RingInv, FlagInv, ContentInv, Occupied, Dist, Used, Moved, Retired
<1> QED
  BY <1>1, <1>2, <1>3, <1>4, <1>5

\* write_loop looks up its buffer for the test of the flag.
LEMMA LookEncodeInv == IInv /\ LookEncode => IInv'
<1> SUFFICES ASSUME IInv, LookEncode PROVE IInv'
  OBVIOUS
<1> USE PoolAssumption DEF IInv, LookEncode, slots, flags
<1>1. TypeOK'
  BY SMTT(30) DEF TypeOK, LockInv, RingInv, SlotInv
<1>2. LockInv' /\ SlotInv' /\ SameReference'
  BY DEF TypeOK, LockInv, SlotInv, SameReference
<1>3. RingInv'
  BY DEF TypeOK, LockInv, RingInv, FlagInv, Occupied, Used, Moved, Retired, Dist
<1>4. FlagInv'
  BY DEF TypeOK, LockInv, SlotInv, RingInv, FlagInv, Occupied, Dist, Used, Moved, Retired
<1>5. ContentInv'
  BY DEF TypeOK, LockInv, SlotInv, RingInv, FlagInv, ContentInv, Occupied, Dist, Used, Moved, Retired
<1> QED
  BY <1>1, <1>2, <1>3, <1>4, <1>5

\* write_loop sees the flag: the slot it goes on with is occupied.
LEMMA TestEncodeInv == IInv /\ TestEncode => IInv'
<1> SUFFICES ASSUME IInv, TestEncode PROVE IInv'
  OBVIOUS
<1> USE PoolAssumption DEF IInv, TestEncode, slots, flags, ReadyEncode, SameReference
<1>1. TypeOK'
  BY DEF TypeOK, LockInv, RingInv, SlotInv
<1>2. LockInv' /\ SlotInv' /\ SameReference'
  BY DEF TypeOK, LockInv, SlotInv, SameReference
<1>3. RingInv'
  <2>1. UNCHANGED <<Moved, Retired, Used, Dist(capture_idx)>>
    BY DEF TypeOK, Moved, Retired, Used, Dist
  <2>2. available[buffer] => Used > 0 \/ pcM = "advance"
    <3>1. Dist(encode_idx) = 0
      BY DEF TypeOK, Dist
    <3> QED
      BY <3>1 DEF TypeOK, FlagInv, Occupied
  <2> QED
    BY <2>1, <2>2 DEF TypeOK, RingInv
<1>4. FlagInv'
  BY DEF TypeOK, LockInv, SlotInv, RingInv, FlagInv, Occupied, Dist, Used, Moved, Retired
<1>5. ContentInv'
  BY DEF TypeOK, LockInv, SlotInv, RingInv, FlagInv, ContentInv, Occupied, Dist, Used, Moved, Retired
<1> QED
  BY <1>1, <1>2, <1>3, <1>4, <1>5

\* write_loop looks its buffer up a second time.
LEMMA TakeEncodeInv == IInv /\ TakeEncode => IInv'
<1> SUFFICES ASSUME IInv, TakeEncode PROVE IInv'
  OBVIOUS
<1> USE PoolAssumption DEF IInv, TakeEncode, slots, flags
<1>1. TypeOK'
  BY SMTT(30) DEF TypeOK, LockInv, RingInv, SlotInv
<1>2. LockInv' /\ SlotInv' /\ SameReference'
  BY DEF TypeOK, LockInv, SlotInv, SameReference
<1>3. RingInv'
  BY DEF TypeOK, LockInv, RingInv, FlagInv, Occupied, Used, Moved, Retired, Dist
<1>4. FlagInv'
  BY DEF TypeOK, LockInv, SlotInv, RingInv, FlagInv, Occupied, Dist, Used, Moved, Retired
<1>5. ContentInv'
  BY DEF TypeOK, LockInv, SlotInv, RingInv, FlagInv, ContentInv, Occupied, Dist, Used, Moved, Retired
<1> QED
  BY <1>1, <1>2, <1>3, <1>4, <1>5

\* The encoder consumes the oldest frame.
LEMMA AddFrameInv == IInv /\ AddFrame => IInv'
<1> SUFFICES ASSUME IInv, AddFrame PROVE IInv'
  OBVIOUS
<1> USE PoolAssumption DEF IInv, AddFrame, slots, flags
<1>1. TypeOK'
  BY DEF TypeOK, LockInv, RingInv, SlotInv
<1>2. LockInv' /\ SlotInv' /\ SameReference'
  BY DEF TypeOK, LockInv, SlotInv, SameReference
<1>3. RingInv'
  BY DEF TypeOK, LockInv, RingInv, FlagInv, Occupied, Used, Moved, Retired, Dist
<1>4. FlagInv'
  BY DEF TypeOK, LockInv, SlotInv, RingInv, FlagInv, Occupied, Dist, Used, Moved, Retired
<1>5. ContentInv'
  BY DEF TypeOK, LockInv, SlotInv, RingInv, FlagInv, ContentInv, Occupied, Dist, Used, Moved, Retired
<1> QED
  BY <1>1, <1>2, <1>3, <1>4, <1>5

\* next_encode takes the mutex and clears the flag.
LEMMA NextEncodeClaimInv == IInv /\ NextEncodeClaim => IInv'
<1> SUFFICES ASSUME IInv, NextEncodeClaim PROVE IInv'
  OBVIOUS
<1> USE PoolAssumption DEF IInv, NextEncodeClaim, slots, flags
<1>1. TypeOK'
  BY DEF TypeOK, LockInv, RingInv, SlotInv
<1>2. LockInv' /\ SlotInv' /\ SameReference'
  BY DEF TypeOK, LockInv, SlotInv, SameReference
<1>3. RingInv'
  BY DEF TypeOK, LockInv, RingInv, FlagInv, Occupied, Used, Moved, Retired, Dist
<1>4. FlagInv'
  BY DEF TypeOK, LockInv, SlotInv, RingInv, FlagInv, Occupied, Dist, Used, Moved, Retired
<1>5. ContentInv'
  BY DEF TypeOK, LockInv, SlotInv, RingInv, FlagInv, ContentInv, Occupied, Dist, Used, Moved, Retired
<1> QED
  BY <1>1, <1>2, <1>3, <1>4, <1>5

\* next_encode frees the buffer for capture.
LEMMA NextEncodeReleaseInv == IInv /\ NextEncodeRelease => IInv'
<1> SUFFICES ASSUME IInv, NextEncodeRelease PROVE IInv'
  OBVIOUS
<1> USE PoolAssumption DEF IInv, NextEncodeRelease, slots, flags
<1>1. TypeOK'
  BY DEF TypeOK, LockInv, RingInv, SlotInv
<1>2. LockInv' /\ SlotInv' /\ SameReference'
  BY DEF TypeOK, LockInv, SlotInv, SameReference
<1>3. RingInv'
  BY DEF TypeOK, LockInv, RingInv, FlagInv, Occupied, Used, Moved, Retired, Dist
<1>4. FlagInv'
  BY DEF TypeOK, LockInv, SlotInv, RingInv, FlagInv, Occupied, Dist, Used, Moved, Retired
<1>5. ContentInv'
  BY DEF TypeOK, LockInv, SlotInv, RingInv, FlagInv, ContentInv, Occupied, Dist, Used, Moved, Retired
<1> QED
  BY <1>1, <1>2, <1>3, <1>4, <1>5

\* Moving encode_idx on brings every other slot one closer to it.
LEMMA NextEncodeAdvanceInv == IInv /\ NextEncodeAdvance => IInv'
<1> SUFFICES ASSUME IInv, NextEncodeAdvance PROVE IInv'
  OBVIOUS
<1> USE PoolAssumption DEF IInv, NextEncodeAdvance, slots, flags
<1>1. TypeOK'
  BY DEF TypeOK, After
<1>2. LockInv' /\ SlotInv' /\ SameReference'
  BY DEF TypeOK, LockInv, SlotInv, SameReference
<1>3. /\ Moved' = Moved /\ Retired' = Retired + 1 /\ Used' = Used - 1
      /\ Moved \in Nat /\ Retired \in Nat /\ Used \in 1 .. bufs_size
  BY DEF TypeOK, RingInv, Moved, Retired, Used
<1>4. ASSUME NEW i \in 0 .. bufs_size - 1
      PROVE  /\ Dist(i) \in 0 .. bufs_size - 1
             /\ Dist(i)' = IF i = encode_idx THEN bufs_size - 1 ELSE Dist(i) - 1
             /\ Dist(i) = 0 <=> i = encode_idx
             /\ Occupied(i)' <=> Occupied(i) /\ i # encode_idx
  BY <1>3 DEF TypeOK, Dist, After, Occupied
<1>5. RingInv'
  BY <1>3 DEF TypeOK, LockInv, RingInv, Dist, After
<1>6. FlagInv'
  BY <1>3, <1>4 DEF TypeOK, LockInv, RingInv, FlagInv
<1>7. ContentInv'
  <2>1. ASSUME NEW i \in 0 .. bufs_size - 1, Occupied(i)'
        PROVE  content[bufs[i]]' = Retired' + 1 + Dist(i)'
    BY <2>1, <1>3, <1>4 DEF TypeOK, ContentInv
  <2> QED
    BY <2>1 DEF TypeOK, ContentInv
<1> QED
  BY <1>1, <1>2, <1>5, <1>6, <1>7

\* The ring moves on without growing: the frame just captured becomes the
\* newest of the occupied slots.
LEMMA NextCaptureMoveInv == IInv /\ NextCaptureAdvance /\ ~ MustGrow => IInv'
<1> SUFFICES ASSUME IInv, NextCaptureAdvance, ~ MustGrow PROVE IInv'
  OBVIOUS
<1> USE PoolAssumption DEF IInv, NextCaptureAdvance, slots, flags
<1>1. TypeOK'
  BY DEF TypeOK, After
<1>2. LockInv' /\ SlotInv' /\ SameReference'
  BY DEF TypeOK, LockInv, SlotInv, SameReference
<1>3. /\ Moved' = Moved + 1 /\ Retired' = Retired /\ Used' = Used + 1
      /\ Moved \in Nat /\ Retired \in Nat /\ Used \in 0 .. bufs_size - 1
      /\ pcW \notin {"release", "advance"} /\ Dist(capture_idx) = Used
      /\ captured = Retired + Used + 1
  BY DEF TypeOK, LockInv, RingInv, Moved, Retired, Used
<1>4. ASSUME NEW i \in 0 .. bufs_size - 1
      PROVE  /\ Dist(i) \in 0 .. bufs_size - 1
             /\ Dist(i)' = Dist(i)
             /\ Dist(i) = Used <=> i = capture_idx
             /\ Occupied(i)' <=> Occupied(i) \/ i = capture_idx
  BY <1>3 DEF TypeOK, Dist, Occupied
<1>5. RingInv'
  BY <1>3, <1>4 DEF TypeOK, LockInv, RingInv, Dist, After
<1>6. FlagInv'
  BY <1>3, <1>4 DEF TypeOK, LockInv, RingInv, FlagInv
<1>7. ContentInv'
  <2>1. ASSUME NEW i \in 0 .. bufs_size - 1, Occupied(i)'
        PROVE  content[bufs[i]]' = Retired' + 1 + Dist(i)'
    <3>1. CASE i = capture_idx
      BY <3>1, <1>3, <1>4 DEF TypeOK, ContentInv
    <3>2. CASE i # capture_idx
      BY <3>2, <2>1, <1>3, <1>4 DEF TypeOK, ContentInv
    <3> QED
      BY <3>1, <3>2
  <2> QED
    BY <2>1 DEF TypeOK, ContentInv
<1> QED
  BY <1>1, <1>2, <1>5, <1>6, <1>7

\* The ring grows: every slot but the capture slot is occupied, and the new
\* buffer goes behind the newest frame, that is before the oldest.
LEMMA NextCaptureGrowInv == IInv /\ NextCaptureAdvance /\ MustGrow => IInv'
<1> SUFFICES ASSUME IInv, NextCaptureAdvance, MustGrow PROVE IInv'
  OBVIOUS
<1> USE PoolAssumption DEF IInv
<1>0. PICK next \in 1 .. bufs_size : next = capture_idx + 1
  BY DEF TypeOK
<1> DEFINE old(i) == IF i > next THEN i - 1 ELSE i
<1>1. /\ next = capture_idx + 1 /\ bufs_size < N
      /\ bufs_size' = bufs_size + 1 /\ capture_idx' = next
      /\ bufs' = Shifted(next) /\ encode_idx' = ShiftedEncodeIdx(next)
      /\ pcM = "advance" /\ pcM' = "wait" /\ mutex' = "none"
      /\ UNCHANGED <<released, available, content, pcW, buffer, captured, encoded>>
  BY <1>0 DEF TypeOK, NextCaptureAdvance, MustGrow, After, flags
<1>2. /\ Moved' = Moved + 1 /\ Retired' = Retired /\ Used' = Used + 1
      /\ Moved \in Nat /\ Retired \in Nat /\ Used \in 0 .. bufs_size - 1
      /\ pcW \notin {"release", "advance"} /\ Dist(capture_idx) = Used
      /\ captured = Retired + Used + 1
  BY <1>1 DEF TypeOK, LockInv, RingInv, Moved, Retired, Used
<1>3. Used = bufs_size - 1
  <2> DEFINE succ == After(capture_idx, bufs_size)
  <2>1. /\ succ \in 0 .. bufs_size - 1 /\ succ # capture_idx
        /\ Dist(succ) = IF Used = bufs_size - 1 THEN 0 ELSE Used + 1
    BY <1>2 DEF TypeOK, After, Dist
  <2>2. ~ released[bufs[succ]]
    BY DEF MustGrow, ReadyCapture
  <2>3. Occupied(succ)
    BY <2>1, <2>2, <1>2 DEF FlagInv
  <2> QED
    BY <2>1, <2>3, <1>2 DEF Occupied
<1>4. encode_idx' = IF encode_idx >= next THEN encode_idx + 1 ELSE encode_idx
  BY <1>1 DEF TypeOK, ShiftedEncodeIdx
<1>5. ASSUME NEW i \in 0 .. bufs_size, i # next
      PROVE  /\ old(i) \in 0 .. bufs_size - 1
             /\ bufs'[i] = bufs[old(i)]
             /\ Dist(i)' = Dist(old(i)) /\ Dist(i)' \in 0 .. bufs_size - 1
             /\ (i = encode_idx') <=> (old(i) = encode_idx)
  <2>1. old(i) \in 0 .. bufs_size - 1 /\ bufs'[i] = bufs[old(i)]
    BY <1>1, <1>5 DEF TypeOK, Shifted
  <2>2. Dist(capture_idx) = bufs_size - 1
    BY <1>2, <1>3
  <2>3. /\ encode_idx <= capture_idx => encode_idx = 0 /\ capture_idx = bufs_size - 1
        /\ encode_idx > capture_idx => encode_idx = next
    BY <1>1, <2>2 DEF TypeOK, Dist
  <2>4. (i = encode_idx') <=> (old(i) = encode_idx)
    BY <1>1, <1>4, <1>5, <2>3 DEF TypeOK
  <2>5. Dist(i)' = Dist(old(i)) /\ Dist(i)' \in 0 .. bufs_size - 1
    <3>1. CASE encode_idx <= capture_idx
      BY <3>1, <1>1, <1>4, <1>5, <2>3 DEF TypeOK, Dist
    <3>2. CASE encode_idx > capture_idx
      <4>1. encode_idx = next /\ encode_idx' = next + 1 /\ next <= bufs_size - 1
        BY <3>2, <1>1, <1>4, <2>3 DEF TypeOK
      <4>2. CASE i > next
        BY <4>1, <4>2, <1>1 DEF TypeOK, Dist
      <4>3. CASE i < next
        BY <4>1, <4>3, <1>1 DEF TypeOK, Dist
      <4> QED
        BY <4>2, <4>3, <1>5
    <3> QED
      BY <3>1, <3>2 DEF TypeOK
  <2> QED
    BY <2>1, <2>4, <2>5
<1>6. /\ bufs'[next] = bufs_size /\ next # encode_idx' /\ Dist(next)' = bufs_size
  <2>1. bufs'[next] = bufs_size
    BY <1>1 DEF TypeOK, Shifted
  <2>2. Dist(capture_idx) = bufs_size - 1
    BY <1>2, <1>3
  <2>3. next # encode_idx' /\ Dist(next)' = bufs_size
    BY <1>1, <1>4, <2>2 DEF TypeOK, Dist
  <2> QED
    BY <2>1, <2>3
<1>7. TypeOK'
  BY <1>1, <1>4, SMTT(30) DEF TypeOK, Shifted
<1>8. LockInv' /\ SameReference'
  BY <1>1, <1>2, <1>4, <1>5, SMTT(30) DEF TypeOK, LockInv, SameReference
<1>9. SlotInv'
  <2>1. ASSUME NEW i \in Slots
        PROVE  IF i < bufs_size' THEN bufs'[i] \in 0 .. bufs_size' - 1 ELSE bufs'[i] = Null
    <3>1. CASE i <= bufs_size /\ i # next
      BY <3>1, <1>1, <1>5, SMTT(30) DEF TypeOK, SlotInv
    <3>2. CASE i = next
      BY <3>2, <1>1, <1>6 DEF TypeOK
    <3>3. CASE i > bufs_size
      BY <3>3, <1>1 DEF TypeOK, SlotInv, Shifted
    <3> QED
      BY <3>1, <3>2, <3>3 DEF TypeOK
  <2>2. ASSUME NEW i \in 0 .. bufs_size, NEW j \in 0 .. bufs_size, bufs'[i] = bufs'[j]
        PROVE  i = j
    <3>1. \A k \in 0 .. bufs_size - 1 : bufs[k] # bufs_size
      BY DEF TypeOK, SlotInv
    <3>2. CASE i # next /\ j # next
      <4>1. old(i) = old(j)
        BY <3>2, <2>2, <1>5 DEF SlotInv
      <4> QED
        BY <4>1, <3>2, <1>1 DEF TypeOK
    <3>3. CASE i = next \/ j = next
      BY <3>3, <3>1, <2>2, <1>5, <1>6
    <3> QED
      BY <3>2, <3>3
  <2>3. \A b \in bufs_size' .. N - 1 : released'[b] /\ ~ available'[b]
    BY <1>1 DEF TypeOK, SlotInv
  <2>4. ASSUME NEW b \in 0 .. bufs_size
        PROVE  \E i \in 0 .. bufs_size : bufs'[i] = b
    <3>1. CASE b = bufs_size
      BY <3>1, <1>1, <1>6
    <3>2. CASE b # bufs_size
      <4>1. PICK k \in 0 .. bufs_size - 1 : bufs[k] = b
        <5>1. b \in 0 .. bufs_size - 1
          BY <3>2 DEF TypeOK
        <5> QED
          BY <5>1 DEF SlotInv
      <4>2. CASE k < next
        <5>1. k \in 0 .. bufs_size /\ k # next /\ old(k) = k
          BY <4>2 DEF TypeOK
        <5> QED
          BY <5>1, <4>1, <1>5
      <4>3. CASE k >= next
        <5>1. k + 1 \in 0 .. bufs_size /\ k + 1 # next /\ old(k + 1) = k
          BY <4>3, <1>1 DEF TypeOK
        <5> QED
          BY <5>1, <4>1, <1>5
      <4> QED
        BY <4>2, <4>3, <1>1 DEF TypeOK
    <3> QED
      BY <3>1, <3>2 DEF TypeOK
  <2> QED
    BY <2>1, <2>2, <2>3, <2>4, <1>1 DEF TypeOK, SlotInv
<1>10. RingInv'
  <2>1. capture_idx' # encode_idx' /\ Dist(capture_idx)' = bufs_size
    BY <1>1, <1>6 DEF Dist
  <2> QED
    BY <2>1, <1>1, <1>2, <1>3 DEF TypeOK, RingInv
<1>11. FlagInv'
  <2> SUFFICES ASSUME NEW i \in 0 .. bufs_size
               PROVE  /\ released[bufs'[i]] <=> ~ Occupied(i)'
                      /\ available[bufs'[i]] <=> Occupied(i)'
    BY <1>1, <1>2 DEF TypeOK, FlagInv
  <2>1. CASE i = next
    <3>1. released[bufs_size] /\ ~ available[bufs_size]
      BY <1>1 DEF TypeOK, SlotInv
    <3>2. ~ Occupied(next)'
      BY <1>2, <1>3, <1>6 DEF TypeOK, Occupied
    <3> QED
      BY <3>1, <3>2, <2>1, <1>6
  <2>2. CASE i # next
    <3>1. Occupied(i)' <=> Occupied(old(i)) \/ old(i) = capture_idx
      <4>1. Dist(old(i)) = bufs_size - 1 => old(i) = capture_idx
        BY <2>2, <1>2, <1>3, <1>5 DEF TypeOK, Dist
      <4>2. Occupied(i)' /\ (Dist(old(i)) < bufs_size - 1 => Occupied(old(i)))
        BY <2>2, <1>2, <1>3, <1>5 DEF TypeOK, Occupied
      <4> QED
        BY <4>1, <4>2, <2>2, <1>5 DEF TypeOK
    <3> QED
      BY <3>1, <2>2, <1>1, <1>2, <1>5 DEF FlagInv, LockInv
  <2> QED
    BY <2>1, <2>2
<1>12. ContentInv'
  <2>1. ASSUME NEW i \in 0 .. bufs_size, Occupied(i)'
        PROVE  content[bufs'[i]] = Retired' + 1 + Dist(i)'
    <3>1. i # next
      BY <2>1, <1>2, <1>3, <1>6 DEF TypeOK, Occupied
    <3>2. CASE old(i) = capture_idx
      BY <3>1, <3>2, <1>1, <1>2, <1>5, SMTT(30) DEF TypeOK, ContentInv
    <3>3. CASE old(i) # capture_idx
      <4>1. Occupied(old(i))
        BY <3>3, <3>1, <1>2, <1>3, <1>5 DEF TypeOK, Occupied, Dist
      <4> QED
        BY <4>1, <3>1, <1>2, <1>5 DEF ContentInv
    <3> QED
      BY <3>2, <3>3
  <2> QED
    BY <2>1, <1>1 DEF TypeOK, ContentInv
<1> QED
  BY <1>7, <1>8, <1>9, <1>10, <1>11, <1>12

\* A step that changes nothing keeps the invariant.
LEMMA StutterInv == IInv /\ UNCHANGED vars => IInv'
BY DEF IInv, vars, slots, flags, TypeOK, LockInv, SlotInv, RingInv, FlagInv,
       ContentInv, SameReference, Occupied, Dist, Used, Moved, Retired

\* Every step of either thread keeps the invariant.
LEMMA StepInv == IInv /\ [Next]_vars => IInv'
BY WaitCaptureInv, FrameHandleReadyInv, NextCaptureClaimInv, NextCapturePublishInv,
   NextCaptureMoveInv, NextCaptureGrowInv, LookEncodeInv, TestEncodeInv, TakeEncodeInv,
   AddFrameInv, NextEncodeClaimInv, NextEncodeReleaseInv, NextEncodeAdvanceInv, StutterInv
   DEF Next, Main, Writer

\* The inductive invariant holds throughout.
THEOREM Invariance == Spec => []IInv
<1> QED
  BY InitInv, StepInv, PTL DEF Spec

\* Every variable keeps its type; in particular no index leaves the ring and no
\* slot in use is empty, whatever the number of frames.
THEOREM TypeCorrect == Spec => []TypeOK
<1>1. IInv => TypeOK
  BY DEF IInv
<1> QED
  BY <1>1, Invariance, PTL

\* The compositor never copies into the buffer the encoder is reading.
THEOREM Exclusion == Spec => []NoTearing
<1>1. IInv => NoTearing
  <2> SUFFICES ASSUME IInv, pcM = "copy", pcW = "encode", bufs[capture_idx] = buffer
               PROVE  FALSE
    BY DEF NoTearing
  <2>1. capture_idx = encode_idx
    BY DEF IInv, TypeOK, SlotInv, SameReference
  <2>2. Used > 0 /\ Used < bufs_size /\ Dist(capture_idx) = Used
    BY DEF IInv, RingInv
  <2> QED
    BY <2>1, <2>2 DEF IInv, TypeOK, Dist
<1> QED
  BY <1>1, Invariance, PTL

\* The encoder gets every frame once and in the order of capture.
THEOREM FirstInFirstOut == Spec => []InOrder
<1>1. IInv => InOrder
  <2> SUFFICES ASSUME IInv, pcW = "encode" PROVE content[buffer] = encoded + 1
    BY DEF InOrder
  <2>1. Dist(encode_idx) = 0 /\ Used > 0 /\ Retired = encoded /\ encoded \in Nat
    BY DEF IInv, TypeOK, RingInv, Dist, Retired
  <2>2. content[bufs[encode_idx]] = Retired + 1 + 0
    BY <2>1 DEF IInv, TypeOK, ContentInv, Occupied
  <2> QED
    BY <2>1, <2>2 DEF IInv, SameReference
<1> QED
  BY <1>1, Invariance, PTL

\* The buffer that was tested is the one that is encoded and released.
THEOREM ReferenceStable == Spec => []SameReference
<1>1. IInv => SameReference
  BY DEF IInv
<1> QED
  BY <1>1, Invariance, PTL

\* No buffer is on both sides at once.
THEOREM Ownership == Spec => []OneSide
<1>1. IInv => OneSide
  <2> SUFFICES ASSUME IInv, NEW b \in Buffers, released[b], available[b] PROVE FALSE
    BY DEF OneSide
  <2>1. b \in 0 .. bufs_size - 1
    BY PoolAssumption DEF IInv, TypeOK, SlotInv
  <2>2. PICK i \in 0 .. bufs_size - 1 : bufs[i] = b
    BY <2>1 DEF IInv, SlotInv
  <2>3. i = encode_idx /\ Dist(encode_idx) = 0
    BY <2>2 DEF IInv, TypeOK, FlagInv, RingInv, LockInv, Dist
  <2> QED
    BY <2>2, <2>3 DEF IInv, TypeOK, FlagInv, RingInv, LockInv
<1> QED
  BY <1>1, Invariance, PTL

\* Growing the ring neither loses a buffer nor doubles one.
THEOREM Permutation == Spec => []EveryBufferOnce
<1>1. IInv => EveryBufferOnce
  <2> SUFFICES ASSUME IInv, NEW b \in 0 .. bufs_size - 1
               PROVE  \E i \in 0 .. bufs_size - 1 :
                        bufs[i] = b /\ \A j \in 0 .. bufs_size - 1 : bufs[j] = b => j = i
    BY DEF EveryBufferOnce
  <2>1. PICK i \in 0 .. bufs_size - 1 : bufs[i] = b
    BY DEF IInv, SlotInv
  <2> QED
    BY <2>1 DEF IInv, SlotInv
<1> QED
  BY <1>1, Invariance, PTL

\* The ring grows by one buffer, and only when the capture side has no other.
THEOREM Growth == Spec => GrowsOnlyWhenFull
<1> DEFINE A == bufs_size' # bufs_size =>
                  /\ bufs_size' = bufs_size + 1
                  /\ \A b \in 0 .. bufs_size - 1 : ~ released[b]
<1>1. IInv /\ [Next]_vars => A
  <2> SUFFICES ASSUME IInv, [Next]_vars, bufs_size' # bufs_size
               PROVE  /\ bufs_size' = bufs_size + 1
                      /\ \A b \in 0 .. bufs_size - 1 : ~ released[b]
    OBVIOUS
  <2> USE PoolAssumption DEF IInv
  <2>1. NextCaptureAdvance /\ MustGrow
    BY DEF Next, Main, Writer, vars, slots, flags, WaitCapture, FrameHandleReady,
           NextCaptureClaim, NextCapturePublish, NextCaptureAdvance, LookEncode, TestEncode,
           TakeEncode, AddFrame, NextEncodeClaim, NextEncodeRelease, NextEncodeAdvance
  <2>2. bufs_size' = bufs_size + 1 /\ pcM = "advance"
    BY <2>1 DEF NextCaptureAdvance
  <2>3. /\ pcW \notin {"release", "advance"} /\ Dist(capture_idx) = Used
        /\ Used \in 0 .. bufs_size - 1
    BY <2>2 DEF TypeOK, LockInv, RingInv
  <2>4. Used = bufs_size - 1
    <3> DEFINE succ == After(capture_idx, bufs_size)
    <3>1. /\ succ \in 0 .. bufs_size - 1 /\ succ # capture_idx
          /\ Dist(succ) = IF Used = bufs_size - 1 THEN 0 ELSE Used + 1
      BY <2>3 DEF TypeOK, After, Dist
    <3>2. ~ released[bufs[succ]]
      BY <2>1 DEF MustGrow, ReadyCapture
    <3>3. Occupied(succ)
      BY <3>1, <3>2, <2>3 DEF FlagInv
    <3> QED
      BY <3>1, <3>3, <2>3 DEF Occupied
  <2>5. ASSUME NEW b \in 0 .. bufs_size - 1 PROVE ~ released[b]
    <3>1. PICK i \in 0 .. bufs_size - 1 : bufs[i] = b
      BY DEF SlotInv
    <3>2. Dist(i) \in 0 .. bufs_size - 1 /\ (Dist(i) = bufs_size - 1 => i = capture_idx)
      BY <2>3, <2>4 DEF TypeOK, Dist
    <3>3. Occupied(i) \/ i = capture_idx
      BY <3>2, <2>3, <2>4 DEF TypeOK, Occupied
    <3> QED
      BY <2>2, <2>3, <3>1, <3>3 DEF FlagInv
  <2> QED
    BY <2>2, <2>5
<1> QED
  BY <1>1, Invariance, PTL DEF Spec, GrowsOnlyWhenFull

-------------------------------------------------------------------------------
(* The pool implements the queue.  In terms of the counters the queue that *)
(* a state stands for is simple: the frames published and not yet cleared, *)
(* which are consecutive numbers.                                          *)

Published == IF pcM \in {"next_capture", "publish"} THEN captured - 1 ELSE captured
Cleared   == IF pcW = "next_encode" THEN encoded - 1 ELSE encoded

\* A frame beyond the bound is never captured.
BoundInv == captured <= MaxFrames /\ (pcM = "copy" => captured < MaxFrames)

\* The slots that wait for the encoder are the ones from First on, in the order of
\* capture, and no other buffer is available.
LEMMA WaitingSlots ==
  ASSUME IInv
  PROVE  /\ Published \in Nat /\ Cleared \in Nat /\ Published - Cleared \in 0 .. bufs_size
         /\ \A k \in 1 .. Published - Cleared :
              /\ Nth(k) \in 0 .. bufs_size - 1
              /\ available[bufs[Nth(k)]]
              /\ content[bufs[Nth(k)]] = Cleared + k
         /\ \A i \in 0 .. bufs_size - 1 :
              available[bufs[i]] => \E k \in 1 .. Published - Cleared : Nth(k) = i
         /\ \A j, k \in 1 .. Published - Cleared : Nth(j) = Nth(k) => j = k
<1> USE PoolAssumption DEF IInv
<1> DEFINE e == IF pcW \in {"release", "advance"} THEN 1 ELSE 0
           a == IF pcM = "advance" THEN 1 ELSE 0
<1>1. /\ bufs_size \in Nat /\ bufs_size >= 2
      /\ Used \in 0 .. bufs_size /\ Moved \in Nat /\ Retired \in Nat
      /\ Moved = Retired + Used
  BY DEF TypeOK, RingInv, Used
<1>2. Published = Moved + a /\ Cleared = Retired + e
  BY DEF TypeOK, Published, Cleared, Moved, Retired
<1>3. (a = 0 \/ e = 0) /\ a \in {0, 1} /\ e \in {0, 1}
  BY DEF LockInv
<1>4. (a = 1 => Used < bufs_size) /\ (e = 1 => Used > 0)
  BY DEF RingInv
<1> HIDE DEF IInv
<1>5. Published \in Nat /\ Cleared \in Nat /\ Published - Cleared = Used + a - e
      /\ Published - Cleared \in 0 .. bufs_size
  BY <1>1, <1>2, <1>3, <1>4
<1>6. ASSUME NEW k \in 1 .. bufs_size - e
      PROVE  Nth(k) \in 0 .. bufs_size - 1 /\ Dist(Nth(k)) = k - 1 + e
  <2>1. encode_idx \in 0 .. bufs_size - 1 /\ k \in Nat
    BY DEF IInv, TypeOK
  <2> QED
    BY <2>1, <1>1, <1>3, SMTT(30) DEF Nth, First, Dist, After
<1>7. ASSUME NEW i \in 0 .. bufs_size - 1
      PROVE  Dist(i) \in 0 .. bufs_size - 1 /\ \A j \in 0 .. bufs_size - 1 : Dist(i) = Dist(j) => i = j
  BY <1>1, SMTT(30) DEF IInv, TypeOK, Dist
<1>8. ASSUME NEW i \in 0 .. bufs_size - 1
      PROVE  available[bufs[i]] <=> e <= Dist(i) /\ Dist(i) < Used + a
  BY <1>1, <1>3, <1>4, <1>7 DEF IInv, TypeOK, FlagInv, RingInv, LockInv, Occupied, Dist
<1>9. ASSUME NEW k \in 1 .. Published - Cleared
      PROVE  /\ Nth(k) \in 0 .. bufs_size - 1 /\ available[bufs[Nth(k)]]
             /\ content[bufs[Nth(k)]] = Cleared + k
  <2>1. k \in 1 .. bufs_size - e
    BY <1>1, <1>3, <1>4, <1>5
  <2>2. Nth(k) \in 0 .. bufs_size - 1 /\ Dist(Nth(k)) = k - 1 + e
    BY <2>1, <1>6
  <2>3. available[bufs[Nth(k)]]
    BY <2>2, <1>8, <1>1, <1>3, <1>5
  <2>4. CASE Dist(Nth(k)) < Used
    <3>1. Nth(k) = encode_idx => pcW # "advance"
      <4>1. Nth(k) = encode_idx => Dist(Nth(k)) = 0
        BY <1>1 DEF IInv, TypeOK, Dist
      <4>2. pcW = "advance" => e = 1
        OBVIOUS
      <4> QED
        BY <4>1, <4>2, <2>2
    <3>2. content[bufs[Nth(k)]] = Retired + 1 + Dist(Nth(k))
      BY <2>2, <2>4, <3>1 DEF IInv, ContentInv, Occupied
    <3> QED
      BY <3>2, <2>2, <2>3, <1>1, <1>2, <1>3
  <2>5. CASE Dist(Nth(k)) >= Used
    <3>1. a = 1 /\ e = 0 /\ Dist(Nth(k)) = Used
      BY <2>2, <2>5, <1>1, <1>3, <1>5
    <3>2. Dist(capture_idx) = Used /\ capture_idx \in 0 .. bufs_size - 1
      BY <3>1, <1>4 DEF IInv, RingInv, TypeOK
    <3>3. Nth(k) = capture_idx
      BY <3>1, <3>2, <2>2, <1>7
    <3>4. content[bufs[capture_idx]] = captured /\ captured = Published
      <4>1. pcM = "advance"
        BY <3>1
      <4> QED
        BY <4>1 DEF IInv, ContentInv, Published
    <3> QED
      BY <3>1, <3>3, <3>4, <2>2, <2>3, <1>1, <1>2, <1>5
  <2> QED
    BY <2>2, <2>3, <2>4, <2>5, <1>1, <1>3
<1>10. ASSUME NEW i \in 0 .. bufs_size - 1, available[bufs[i]]
       PROVE  \E k \in 1 .. Published - Cleared : Nth(k) = i
  <2>1. e <= Dist(i) /\ Dist(i) < Used + a /\ Dist(i) \in 0 .. bufs_size - 1
    BY <1>7, <1>8, <1>10
  <2>2. Dist(i) + 1 - e \in 1 .. Published - Cleared /\ Dist(i) + 1 - e \in 1 .. bufs_size - e
    BY <2>1, <1>1, <1>3, <1>5
  <2>3. Nth(Dist(i) + 1 - e) \in 0 .. bufs_size - 1 /\ Dist(Nth(Dist(i) + 1 - e)) = Dist(i)
    BY <2>1, <2>2, <1>3, <1>6
  <2> QED
    BY <2>2, <2>3, <1>7
<1>11. ASSUME NEW j \in 1 .. Published - Cleared, NEW k \in 1 .. Published - Cleared, Nth(j) = Nth(k)
       PROVE  j = k
  <2>1. j \in 1 .. bufs_size - e /\ k \in 1 .. bufs_size - e
    BY <1>1, <1>3, <1>4, <1>5
  <2> QED
    BY <2>1, <1>6, <1>11, <1>3
<1> QED
  BY <1>5, <1>9, <1>10, <1>11

\* The frames Cleared + 1 .. Published, in this order, are the abstract queue.
QueueInv ==
  /\ Published \in Nat /\ Cleared \in Nat /\ Published - Cleared \in 0 .. bufs_size
  /\ [k \in 1 .. Waiting |-> content[bufs[Nth(k)]]]
       = [k \in 1 .. Published - Cleared |-> Cleared + k]

\* The abstract queue of a state is the sequence of the frames that are published
\* and not yet cleared.
LEMMA QueueOf == IInv => QueueInv
<1> SUFFICES ASSUME IInv PROVE QueueInv
  OBVIOUS
<1> DEFINE m == Published - Cleared
           S == {b \in Buffers : available[b]}
           f == [k \in 1 .. m |-> bufs[Nth(k)]]
<1>1. m \in Nat /\ bufs_size \in Nat /\ bufs_size <= N
  BY WaitingSlots, PoolAssumption DEF IInv, TypeOK
<1>2. \A i \in 0 .. bufs_size - 1 : bufs[i] \in 0 .. bufs_size - 1
  BY PoolAssumption DEF IInv, TypeOK, SlotInv
<1>3. f \in [1 .. m -> S]
  BY <1>1, <1>2, WaitingSlots, PoolAssumption
<1>4. \A j, k \in 1 .. m : f[j] = f[k] => j = k
  BY <1>1, WaitingSlots DEF IInv, SlotInv
<1>5. \A b \in S : \E k \in 1 .. m : f[k] = b
  <2> SUFFICES ASSUME NEW b \in Buffers, available[b] PROVE \E k \in 1 .. m : f[k] = b
    OBVIOUS
  <2>1. b \in 0 .. bufs_size - 1
    BY <1>1, PoolAssumption DEF IInv, SlotInv
  <2>2. PICK i \in 0 .. bufs_size - 1 : bufs[i] = b
    BY <2>1 DEF IInv, SlotInv
  <2>3. PICK k \in 1 .. m : Nth(k) = i
    BY <2>2, WaitingSlots
  <2> QED
    BY <2>2, <2>3
<1>6. ExistsBijection(1 .. m, S)
  <2> HIDE DEF f, S, m
  <2> QED
    BY <1>3, <1>4, <1>5 DEF ExistsBijection, Bijection, Injection, Surjection, IsInjective
<1>7. Cardinality(S) = m
  <2> HIDE DEF S, m
  <2> QED
    BY <1>1, <1>6, FS_CountingElements
<1>8. Waiting = m
  BY <1>7 DEF Waiting
<1> QED
  BY <1>8, WaitingSlots DEF QueueInv

\* Only a copy that was begun below the bound adds a frame.
LEMMA BoundStep == IInv /\ BoundInv /\ [Next]_vars => BoundInv'
<1> SUFFICES ASSUME IInv, BoundInv, [Next]_vars PROVE BoundInv'
  OBVIOUS
<1> USE PoolAssumption DEF BoundInv, slots, flags
<1>1. captured \in Nat
  BY DEF IInv, TypeOK
<1>2. CASE WaitCapture \/ FrameHandleReady
  BY <1>1, <1>2 DEF WaitCapture, FrameHandleReady
<1>3. CASE NextCaptureClaim \/ NextCapturePublish \/ NextCaptureAdvance
  BY <1>3 DEF NextCaptureClaim, NextCapturePublish, NextCaptureAdvance
<1>4. CASE Writer \/ UNCHANGED vars
  BY <1>4 DEF Writer, LookEncode, TestEncode, TakeEncode, AddFrame, NextEncodeClaim,
              NextEncodeRelease, NextEncodeAdvance, vars
<1> QED
  BY <1>2, <1>3, <1>4 DEF Next, Main

\* A queue of consecutive numbers grows at its end and shrinks at its front.
LEMMA Consecutive ==
  ASSUME NEW c \in Nat, NEW n \in Nat
  PROVE  LET seg(g, m) == [k \in 1 .. m |-> g + k] IN
         /\ Len(seg(c, n)) = n /\ (n = 0 => seg(c, n) = <<>>) /\ (n > 0 => seg(c, n) # <<>>)
         /\ Append(seg(c, n), c + n + 1) = seg(c, n + 1)
         /\ n > 0 => Tail(seg(c, n)) = seg(c + 1, n - 1)
<1> DEFINE seg(g, m) == [k \in 1 .. m |-> g + k]
<1>1. seg(c, n) \in Seq(Nat) /\ Len(seg(c, n)) = n /\ seg(c, n + 1) \in Seq(Nat)
  OBVIOUS
<1>2. Append(seg(c, n), c + n + 1) = seg(c, n + 1)
  BY <1>1, AppendProperties
<1>3. (n = 0 => seg(c, n) = <<>>) /\ (n > 0 => seg(c, n) # <<>>)
  BY <1>1, EmptySeq
<1>4. ASSUME n > 0 PROVE Tail(seg(c, n)) = seg(c + 1, n - 1)
  <2>1. Len(Tail(seg(c, n))) = n - 1 /\ Tail(seg(c, n)) \in Seq(Nat)
        /\ \A k \in 1 .. n - 1 : Tail(seg(c, n))[k] = c + 1 + k
    BY <1>1, <1>3, <1>4, HeadTailProperties
  <2>2. seg(c + 1, n - 1) \in Seq(Nat) /\ Len(seg(c + 1, n - 1)) = n - 1
    BY <1>4
  <2> QED
    BY <2>1, <2>2, SeqEqual
<1> QED
  BY <1>1, <1>2, <1>3, <1>4

\* Publishing a frame is Put, clearing the flag of one is Get, every other step of
\* either thread leaves the queue as it is.
LEMMA StepRefines ==
  IInv /\ BoundInv /\ QueueInv /\ QueueInv' /\ [Next]_vars
    => [Queue!Put \/ Queue!Get]_(Queue!qvars)
<1> SUFFICES ASSUME IInv, BoundInv, QueueInv, QueueInv', [Next]_vars
             PROVE  [Queue!Put \/ Queue!Get]_(Queue!qvars)
  OBVIOUS
<1> DEFINE frames == [k \in 1 .. Waiting |-> content[bufs[Nth(k)]]]
           seg(g, n) == [k \in 1 .. n |-> g + k]
<1>1. /\ frames = seg(Cleared, Published - Cleared)
      /\ frames' = seg(Cleared', Published' - Cleared')
  BY DEF QueueInv
<1>2. /\ Published \in Nat /\ Cleared \in Nat /\ Published - Cleared \in 0 .. bufs_size
      /\ Published' \in Nat /\ Cleared' \in Nat
      /\ bufs_size \in 2 .. N /\ captured \in Nat /\ encoded \in Nat
  BY DEF QueueInv, IInv, TypeOK
<1> HIDE DEF frames
<1>3. CASE UNCHANGED <<Published, Cleared>>
  <2>1. UNCHANGED <<frames, Published>>
    BY <1>1, <1>3
  <2> QED
    BY <2>1 DEF Queue!qvars, frames, Published
<1>4. CASE NextCapturePublish
  <2> USE <1>4 DEF NextCapturePublish
  <2>1. Published' = Published + 1 /\ Cleared' = Cleared
    BY <1>2 DEF Published, Cleared, slots
  <2>2. Published = captured - 1 /\ captured <= MaxFrames
    BY DEF Published, BoundInv
  <2>3. Published - Cleared < bufs_size
    BY <1>2 DEF IInv, LockInv, RingInv, Published, Cleared, Used, Moved, Retired
  <2>4. Len(frames) = Published - Cleared /\ frames' = Append(frames, Published + 1)
    BY <1>1, <1>2, <2>1, Consecutive
  <2>5. /\ Published < MaxFrames /\ Len(frames) < N
        /\ Published' = Published + 1 /\ frames' = Append(frames, Published + 1)
    BY <1>2, <2>1, <2>2, <2>3, <2>4, PoolAssumption
  <2> QED
    BY <2>5 DEF Queue!Put, frames, Published
<1>5. CASE NextEncodeClaim
  <2> USE <1>5 DEF NextEncodeClaim
  <2>1. Published' = Published /\ Cleared' = Cleared + 1
    BY <1>2 DEF Published, Cleared, slots
  <2>2. Published - Cleared > 0
    BY <1>2 DEF IInv, LockInv, RingInv, Published, Cleared, Used, Moved, Retired
  <2>3. frames # <<>> /\ frames' = Tail(frames)
    <3>1. Published - Cleared \in Nat /\ Published' - Cleared' = Published - Cleared - 1
      BY <1>2, <2>1
    <3>2. /\ seg(Cleared, Published - Cleared) # <<>>
          /\ Tail(seg(Cleared, Published - Cleared)) = seg(Cleared + 1, Published - Cleared - 1)
      BY <1>2, <2>2, <3>1, Consecutive
    <3>3. frames' = seg(Cleared + 1, Published - Cleared - 1)
      BY <1>1, <2>1, <3>1
    <3> HIDE DEF seg
    <3> QED
      BY <1>1, <3>2, <3>3
  <2> QED
    BY <2>1, <2>3 DEF Queue!Get, frames, Published
<1>6. CASE \/ WaitCapture \/ FrameHandleReady \/ NextCaptureClaim \/ NextCaptureAdvance
           \/ LookEncode \/ TestEncode \/ TakeEncode \/ AddFrame
           \/ NextEncodeRelease \/ NextEncodeAdvance \/ UNCHANGED vars
  BY <1>2, <1>3, <1>6 DEF Published, Cleared, vars, WaitCapture, FrameHandleReady, NextCaptureClaim,
     NextCaptureAdvance, LookEncode, TestEncode, TakeEncode, AddFrame, NextEncodeRelease,
     NextEncodeAdvance
<1> QED
  BY <1>4, <1>5, <1>6 DEF Next, Main, Writer

\* The pool of two to N buffers, its flags, its growth and the two threads that use
\* it implement a bounded first-in first-out queue of frames.
THEOREM Refinement == Spec => ImplementsQueue
<1>1. Init => BoundInv /\ Queue!QInit
  <2> SUFFICES ASSUME Init PROVE BoundInv /\ Queue!QInit
    OBVIOUS
  <2>1. BoundInv
    BY PoolAssumption DEF Init, BoundInv
  <2>2. IInv /\ QueueInv
    BY InitInv, QueueOf
  <2>3. Published = 0 /\ Cleared = 0
    BY DEF Init, Published, Cleared
  <2>4. [k \in 1 .. Waiting |-> content[bufs[Nth(k)]]] = [k \in 1 .. 0 |-> 0 + k]
    BY <2>2, <2>3 DEF QueueInv
  <2>5. [k \in 1 .. Waiting |-> content[bufs[Nth(k)]]] = <<>>
    BY <2>4, Consecutive
  <2> QED
    BY <2>1, <2>3, <2>5 DEF Queue!QInit, Published
<1>2. IInv /\ BoundInv /\ [Next]_vars => BoundInv'
  BY BoundStep
<1>3. IInv => QueueInv
  BY QueueOf
<1>4. IInv /\ BoundInv /\ QueueInv /\ QueueInv' /\ [Next]_vars
        => [Queue!Put \/ Queue!Get]_(Queue!qvars)
  BY StepRefines
<1> QED
  BY <1>1, <1>2, <1>3, <1>4, Invariance, PTL DEF Spec, ImplementsQueue, Queue!QSpec

-------------------------------------------------------------------------------
(* The sound. *)

HIDE DEF Slots, Buffers, Null

\* Fragments, and holes, which have no data.
Pieces == {p \in [data : Seq(Nat), length : Nat] : p.data # <<>> => p.length = Len(p.data)}

\* The data are the samples of s after the first from, up to the to-th.
Piece(data, s, from, to) ==
  to = from + Len(data) /\ \A j \in 1 .. Len(data) : data[j] = s[from + j]

\* What waits in q are the samples of s after the first from, up to the last.
Waits(q, s, from) ==
  \E at \in [1 .. Len(q) + 1 -> 0 .. Len(s)] :
    /\ at[1] = from /\ at[Len(q) + 1] = Len(s)
    /\ \A i \in 1 .. Len(q) : Piece(q[i].data, s, at[i], at[i + 1])

\* The periods are the first samples of s, each as many as Period tells.
CutFrom(ps, s) ==
  \A k \in 1 .. Len(ps) :
    /\ Period * k <= Len(s) /\ ps[k] \in Seq(Nat) /\ Len(ps[k]) = Period
    /\ \A j \in 1 .. Period : ps[k][j] = s[Period * (k - 1) + j]

\* The part is what s has after the first from.
Continues(part, s, from) ==
  from + Len(part) <= Len(s) /\ \A j \in 1 .. Len(part) : part[j] = s[from + j]

\* The first samples of s that are no period yet.
Rest(ps) == Period * Len(ps)

\* The periods fill a number of samples.
LEMMA RestIsNat ==
  ASSUME NEW ps \in Seq(Seq(Nat))
  PROVE  Rest(ps) \in Nat /\ Len(ps) \in Nat /\ Period \in Nat \ {0}
<1>1. Len(ps) \in Nat /\ Period \in Nat \ {0}
  BY LenProperties, PeriodAssumption DEF PeriodAssumption
<1> QED
  BY <1>1 DEF Rest

\* Factors keep the order.
LEMMA Times ==
  ASSUME NEW a \in Nat, NEW b \in Nat, a <= b, NEW c \in Nat
  PROVE  c * a \in Nat /\ c * b \in Nat /\ c * a <= c * b
<1> DEFINE e == b - a
<1>1. e \in Nat /\ b = a + e
  OBVIOUS
<1> HIDE DEF e
<1>2. c * b = c * a + c * e /\ c * e \in Nat /\ c * a \in Nat
  BY <1>1
<1> QED
  BY <1>1, <1>2

\* What division leaves is less than the divisor.
LEMMA Division ==
  ASSUME NEW l \in Nat, NEW p \in Nat \ {0}
  PROVE  l \div p \in Nat /\ p * (l \div p) \in Nat /\ p * (l \div p) <= l
<1> DEFINE q == l \div p
           r == l % p
<1>1. q \in Nat /\ r \in 0 .. p - 1 /\ l = p * q + r
  OBVIOUS
<1> HIDE DEF q, r
<1>2. p * q \in Nat
  BY <1>1
<1>3. p * q <= l
  BY <1>1, <1>2
<1> QED
  BY <1>1, <1>2, <1>3 DEF q

\* A whole number of periods fits no more often than division says.
LEMMA Fits ==
  ASSUME NEW n \in Nat, NEW l \in Nat, NEW p \in Nat \ {0}, p * n <= l
  PROVE  n <= l \div p
<1> DEFINE q == l \div p
           r == l % p
<1>1. q \in Nat /\ r \in 0 .. p - 1 /\ l = p * q + r
  OBVIOUS
<1> HIDE DEF q, r
<1>2. n <= q
  <2> SUFFICES ASSUME n > q PROVE FALSE
    BY <1>1
  <2>1. p * (q + 1) <= p * n
    BY <1>1, Times
  <2>2. p * (q + 1) = p * q + p
    BY <1>1
  <2> QED
    BY <1>1, <2>1, <2>2
<1> QED
  BY <1>2 DEF q

\* The period before the k-th ends where it begins.
LEMMA Before ==
  ASSUME NEW k \in Nat \ {0}
  PROVE  /\ Period \in Nat \ {0} /\ Period * (k - 1) \in Nat /\ Period * k \in Nat
         /\ Period * k = Period * (k - 1) + Period
<1> DEFINE i == k - 1
<1>1. i \in Nat /\ k = i + 1 /\ Period \in Nat \ {0}
  BY PeriodAssumption DEF PeriodAssumption
<1> HIDE DEF i
<1>2. Period * k = Period * i + Period /\ Period * i \in Nat /\ Period * k \in Nat
  BY <1>1
<1> QED
  BY <1>1, <1>2 DEF i

\* The samples of s after the first a, n of them.
LEMMA PartOf ==
  ASSUME NEW s \in Seq(Nat), NEW a \in Nat, NEW n \in Nat, a + n <= Len(s)
  PROVE  /\ SubSeq(s, a + 1, a + n) \in Seq(Nat) /\ Len(SubSeq(s, a + 1, a + n)) = n
         /\ \A j \in 1 .. n : SubSeq(s, a + 1, a + n)[j] = s[a + j]
<1> DEFINE first == a + 1
           last  == a + n
           part  == SubSeq(s, first, last)
<1>1. \A i \in first .. last : s[i] \in Nat
  BY ElementOfSeq
<1>2. /\ first \in Int /\ last \in Int /\ last - first + 1 = n
      /\ n = IF first <= last THEN last - first + 1 ELSE 0
      /\ \A j \in 1 .. n : first + j - 1 = a + j
  OBVIOUS
<1> HIDE DEF first, last
<1>3. /\ part \in Seq(Nat)
      /\ Len(part) = IF first <= last THEN last - first + 1 ELSE 0
      /\ \A i \in 1 .. last - first + 1 : part[i] = s[first + i - 1]
  BY <1>1, <1>2, SubSeqProperties
<1> HIDE DEF part
<1>4. part \in Seq(Nat) /\ Len(part) = n /\ \A j \in 1 .. n : part[j] = s[a + j]
  BY <1>2, <1>3, Zenon
<1> QED
  BY <1>4, Zenon DEF part, first, last

\* The length of a fragment with data is that of the data.
LEMMA PieceHas ==
  ASSUME NEW p \in Pieces
  PROVE  /\ p.data \in Seq(Nat) /\ Len(p.data) \in Nat /\ (p.data = <<>> => Len(p.data) = 0)
         /\ p.data # <<>> => p.length = Len(p.data) /\ Len(p.data) > 0
<1>1. p.data \in Seq(Nat) /\ (p.data # <<>> => p.length = Len(p.data))
  BY DEF Pieces
<1>2. Len(p.data) \in Nat /\ (p.data # <<>> => Len(p.data) > 0)
  BY <1>1, LenProperties, EmptySeq
<1> QED
  BY <1>1, <1>2

\* What waits begins inside the sound.
LEMMA WaitsIn ==
  ASSUME NEW q \in Seq(Pieces), NEW s \in Seq(Nat), NEW from \in Nat, Waits(q, s, from)
  PROVE  from <= Len(s)
<1>1. PICK at \in [1 .. Len(q) + 1 -> 0 .. Len(s)] : at[1] = from
  BY Zenon DEF Waits
<1>2. Len(q) \in Nat /\ Len(s) \in Nat
  BY LenProperties
<1>3. 1 \in 1 .. Len(q) + 1
  BY <1>2
<1>4. from \in 0 .. Len(s)
  BY <1>1, <1>3
<1> QED
  BY <1>2, <1>4

\* A fragment that comes waits behind the others, and the older samples stay.
LEMMA Queued ==
  ASSUME NEW q \in Seq(Pieces), NEW s \in Seq(Nat), NEW from \in Nat, Waits(q, s, from),
         NEW new \in Pieces
  PROVE  Append(q, new) \in Seq(Pieces) /\ Waits(Append(q, new), s \o new.data, from)
<1> DEFINE data == new.data
           q2   == Append(q, new)
           s2   == s \o data
<1>1. data \in Seq(Nat)
  BY DEF Pieces
<1> HIDE DEF data
<1>2. PICK at \in [1 .. Len(q) + 1 -> 0 .. Len(s)] :
        /\ at[1] = from /\ at[Len(q) + 1] = Len(s)
        /\ \A i \in 1 .. Len(q) : Piece(q[i].data, s, at[i], at[i + 1])
  BY DEF Waits
<1>3. Len(s) \in Nat
  BY LenProperties
<1>4. \A i \in 1 .. Len(q) + 1 : at[i] \in Nat /\ at[i] <= Len(s)
  <2>2. ASSUME NEW i \in 1 .. Len(q) + 1 PROVE at[i] \in 0 .. Len(s)
    OBVIOUS
  <2> QED
    BY <1>3, <2>2
<1>5. /\ q2 \in Seq(Pieces) /\ Len(q) \in Nat /\ Len(q2) = Len(q) + 1
      /\ q2[Len(q) + 1] = new
  BY AppendProperties, LenProperties DEF Pieces
<1>6. \A i \in 1 .. Len(q) : q2[i] = q[i]
  BY AppendProperties, LenProperties
<1>7. /\ s2 \in Seq(Nat) /\ Len(s) \in Nat /\ Len(data) \in Nat /\ Len(s2) = Len(s) + Len(data)
  BY <1>1, ConcatProperties, LenProperties
<1>8. \A i \in 1 .. Len(s) : s2[i] = s[i]
  BY <1>1, ConcatProperties, LenProperties
<1>9. \A j \in 1 .. Len(data) : s2[Len(s) + j] = data[j]
  BY <1>1, <1>7, ConcatProperties, LenProperties
<1> DEFINE at2 == [i \in 1 .. Len(q2) + 1 |-> IF i <= Len(q) + 1 THEN at[i] ELSE Len(s2)]
<1>10. new.data = data
  BY DEF data
<1> HIDE DEF q2, s2
<1>11. at2 \in [1 .. Len(q2) + 1 -> 0 .. Len(s2)]
  BY <1>2, <1>5, <1>7
<1>12. at2[1] = from /\ at2[Len(q2) + 1] = Len(s2) /\ at2[Len(q) + 1] = Len(s)
  BY <1>2, <1>5, <1>7
<1>13. ASSUME NEW i \in 1 .. Len(q2) PROVE Piece(q2[i].data, s2, at2[i], at2[i + 1])
  <2>1. CASE i = Len(q) + 1
    <3>1. q2[i].data = data /\ at2[i] = Len(s) /\ at2[i + 1] = Len(s2)
      BY <1>5, <1>10, <1>12, <2>1
    <3> HIDE DEF at2
    <3> QED
      BY <1>7, <1>9, <3>1 DEF Piece
  <2>2. CASE i \in 1 .. Len(q)
    <3>1. at2[i] = at[i] /\ at2[i + 1] = at[i + 1]
      BY <1>5, <2>2
    <3>2. q2[i] = q[i]
      BY <1>6, <2>2
    <3>3. Piece(q[i].data, s, at[i], at[i + 1])
      BY <1>2, <2>2
    <3>4. i \in 1 .. Len(q) + 1 /\ i + 1 \in 1 .. Len(q) + 1
      BY <1>5, <2>2
    <3>5. at[i] \in Nat /\ at[i + 1] \in Nat /\ at[i + 1] <= Len(s)
      BY <1>4, <3>4
    <3>6. Len(q[i].data) \in Nat
      BY <2>2, ElementOfSeq, PieceHas
    <3> HIDE DEF at2
    <3>7. at[i + 1] = at[i] + Len(q[i].data)
      BY <3>3 DEF Piece
    <3>8. ASSUME NEW j \in 1 .. Len(q[i].data) PROVE q[i].data[j] = s2[at[i] + j]
      <4> DEFINE f == at[i]
                 g == at[i + 1]
                 n == Len(q[i].data)
                 l == Len(s)
      <4>1. f \in Nat /\ g <= l /\ g = f + n /\ n \in Nat /\ l \in Nat /\ j \in 1 .. n
        BY <1>3, <3>5, <3>6, <3>7
      <4> HIDE DEF f, g, n, l
      <4>2. f + j \in 1 .. l
        BY <4>1
      <4>3. at[i] + j \in 1 .. Len(s)
        BY <4>2 DEF f, l
      <4>4. q[i].data[j] = s[at[i] + j]
        BY <3>3 DEF Piece
      <4> QED
        BY <1>8, <4>3, <4>4
    <3> QED
      BY <3>1, <3>2, <3>7, <3>8 DEF Piece
  <2> QED
    BY <1>5, <2>1, <2>2
<1>14. Waits(q2, s2, from)
  BY <1>11, <1>12, <1>13, Zenon DEF Waits
<1> QED
  BY <1>5, <1>14 DEF q2, s2, data

\* The fragment at the head has the next samples, and what is behind it the ones after.
LEMMA Dropped ==
  ASSUME NEW q \in Seq(Pieces), q # <<>>, NEW s \in Seq(Nat), NEW from \in Nat, Waits(q, s, from)
  PROVE  /\ Head(q) \in Pieces /\ Len(Head(q).data) \in Nat /\ Tail(q) \in Seq(Pieces)
         /\ from + Len(Head(q).data) <= Len(s)
         /\ \A j \in 1 .. Len(Head(q).data) : Head(q).data[j] = s[from + j]
         /\ Waits(Tail(q), s, from + Len(Head(q).data))
<1> DEFINE t == Tail(q)
<1>1. PICK at \in [1 .. Len(q) + 1 -> 0 .. Len(s)] :
        /\ at[1] = from /\ at[Len(q) + 1] = Len(s)
        /\ \A i \in 1 .. Len(q) : Piece(q[i].data, s, at[i], at[i + 1])
  BY DEF Waits
<1>2. /\ Head(q) = q[1] /\ Head(q) \in Pieces /\ t \in Seq(Pieces) /\ Len(t) = Len(q) - 1
      /\ Len(q) \in Nat /\ Len(q) >= 1 /\ \A i \in 1 .. Len(t) : t[i] = q[i + 1]
  BY HeadTailProperties, LenProperties, EmptySeq
<1>3. Len(s) \in Nat /\ Len(Head(q).data) \in Nat
  BY <1>2, LenProperties DEF Pieces
<1>4. Piece(q[1].data, s, from, at[2]) /\ at[2] \in 0 .. Len(s)
  BY <1>1, <1>2
<1> DEFINE at2 == [i \in 1 .. Len(t) + 1 |-> at[i + 1]]
<1> HIDE DEF t
<1>5. at2 \in [1 .. Len(t) + 1 -> 0 .. Len(s)]
  BY <1>1, <1>2
<1>6. at2[1] = from + Len(Head(q).data) /\ at2[Len(t) + 1] = Len(s)
  BY <1>1, <1>2, <1>4 DEF Piece
<1>7. ASSUME NEW i \in 1 .. Len(t) PROVE Piece(t[i].data, s, at2[i], at2[i + 1])
  <2>1. i + 1 \in 1 .. Len(q) /\ t[i] = q[i + 1]
    BY <1>2
  <2>2. at2[i] = at[i + 1] /\ at2[i + 1] = at[i + 1 + 1]
    BY <1>2
  <2>3. Piece(q[i + 1].data, s, at[i + 1], at[i + 1 + 1])
    BY <1>1, <2>1
  <2> QED
    BY <2>1, <2>2, <2>3
<1>8. Waits(t, s, from + Len(Head(q).data))
  BY <1>5, <1>6, <1>7, Zenon DEF Waits
<1>9. from + Len(Head(q).data) <= Len(s)
  BY <1>2, <1>3, <1>4 DEF Piece
<1>10. \A j \in 1 .. Len(Head(q).data) : Head(q).data[j] = s[from + j]
  BY <1>2, <1>4 DEF Piece
<1> QED
  BY <1>2, <1>3, <1>8, <1>9, <1>10 DEF t
-------------------------------------------------------------------------------
(* Periods.                                                                *)

\* More sound changes nothing of the periods.
LEMMA SoundGrows ==
  ASSUME NEW ps, Len(ps) \in Nat, NEW s \in Seq(Nat), CutFrom(ps, s), NEW data \in Seq(Nat)
  PROVE  CutFrom(ps, s \o data) /\ s \o data \in Seq(Nat)
<1> DEFINE s2 == s \o data
<1>1. Len(s) \in Nat /\ Len(s2) \in Nat /\ Len(s) <= Len(s2) /\ s2 \in Seq(Nat)
  BY ConcatProperties, LenProperties
<1>2. \A i \in 1 .. Len(s) : s2[i] = s[i]
  BY ConcatProperties, LenProperties
<1> HIDE DEF s2
<1>3. ASSUME NEW k \in 1 .. Len(ps)
      PROVE  /\ Period * k <= Len(s2) /\ ps[k] \in Seq(Nat) /\ Len(ps[k]) = Period
             /\ \A j \in 1 .. Period : ps[k][j] = s2[Period * (k - 1) + j]
  <2>1. /\ Period * k <= Len(s) /\ ps[k] \in Seq(Nat) /\ Len(ps[k]) = Period
        /\ \A j \in 1 .. Period : ps[k][j] = s[Period * (k - 1) + j]
    BY DEF CutFrom
  <2>2. Period \in Nat /\ k - 1 \in Nat /\ Period * (k - 1) \in Nat /\ Period * k = Period * (k - 1) + Period
    BY PeriodAssumption DEF PeriodAssumption
  <2>3. ASSUME NEW j \in 1 .. Period PROVE ps[k][j] = s2[Period * (k - 1) + j]
    <3> DEFINE from == Period * (k - 1)
               to == Period * k
               l == Len(s)
    <3>1. from \in Nat /\ to = from + Period /\ to <= l /\ l \in Nat /\ Period \in Nat
      BY <1>1, <2>1, <2>2
    <3> HIDE DEF from, to, l
    <3>2. from + j \in 1 .. l
      BY <3>1
    <3> USE DEF from, l
    <3> QED
      BY <1>2, <2>1, <3>2
  <2>4. Period * k \in Nat /\ Period * k <= Len(s2)
    BY <1>1, <2>1, <2>2
  <2> QED
    BY <2>1, <2>3, <2>4
<1>4. CutFrom(ps, s2)
  BY <1>3 DEF CutFrom
<1> QED
  BY <1>1, <1>4 DEF s2

\* One more period, of the samples that were next.
LEMMA OneMore ==
  ASSUME NEW ps \in Seq(Seq(Nat)), NEW s \in Seq(Nat), CutFrom(ps, s),
         NEW p \in Seq(Nat), Len(p) = Period, Rest(ps) + Period <= Len(s),
         \A j \in 1 .. Period : p[j] = s[Rest(ps) + j]
  PROVE  /\ CutFrom(Append(ps, p), s) /\ Append(ps, p) \in Seq(Seq(Nat))
         /\ Rest(Append(ps, p)) = Rest(ps) + Period /\ Len(Append(ps, p)) = Len(ps) + 1
<1> DEFINE n   == Len(ps)
           ps2 == Append(ps, p)
<1>1. /\ ps2 \in Seq(Seq(Nat)) /\ Len(ps2) = n + 1 /\ ps2[n + 1] = p
      /\ n \in Nat /\ Period \in Nat
  BY AppendProperties, LenProperties, PeriodAssumption DEF PeriodAssumption
<1>2. \A k \in 1 .. n : ps2[k] = ps[k]
  BY AppendProperties, LenProperties
<1> HIDE DEF ps2
<1>3. Period * n \in Nat /\ Period * (n + 1) = Period * n + Period /\ (n + 1) - 1 = n
  BY <1>1
<1>4. ASSUME NEW k \in 1 .. n + 1
      PROVE  /\ Period * k <= Len(s) /\ ps2[k] \in Seq(Nat) /\ Len(ps2[k]) = Period
             /\ \A j \in 1 .. Period : ps2[k][j] = s[Period * (k - 1) + j]
  <2>1. CASE k = n + 1
    BY <1>1, <1>3, <2>1 DEF Rest
  <2>2. CASE k \in 1 .. n
    <3>1. ps2[k] = ps[k]
      BY <1>2, <2>2
    <3>2. /\ Period * k <= Len(s) /\ ps[k] \in Seq(Nat) /\ Len(ps[k]) = Period
          /\ \A j \in 1 .. Period : ps[k][j] = s[Period * (k - 1) + j]
      BY <2>2, Zenon DEF CutFrom
    <3> QED
      BY <3>1, <3>2, Zenon
  <2> QED
    BY <1>1, <2>1, <2>2
<1>5. CutFrom(ps2, s)
  BY <1>1, <1>4 DEF CutFrom
<1>6. Rest(ps2) = Rest(ps) + Period
  BY <1>1, <1>3 DEF Rest
<1> QED
  BY <1>1, <1>5, <1>6 DEF ps2

\* Periods that were cut from the sound are what the abstract specification cuts from it.
LEMMA AsCut ==
  ASSUME NEW ps \in Seq(Seq(Nat)), NEW s \in Seq(Nat), CutFrom(ps, s)
  PROVE  /\ ps = [k \in 1 .. Len(ps) |-> SubSeq(s, Period * (k - 1) + 1, Period * k)]
         /\ Len(ps) <= Len(s) \div Period
<1>1. Len(ps) \in Nat /\ Period \in Nat \ {0} /\ Len(s) \in Nat
  BY LenProperties, PeriodAssumption DEF PeriodAssumption
<1>2. ASSUME NEW k \in 1 .. Len(ps)
      PROVE  ps[k] = SubSeq(s, Period * (k - 1) + 1, Period * k)
  <2> DEFINE from == Period * (k - 1)
             part == SubSeq(s, from + 1, from + Period)
  <2>1. from \in Nat /\ Period * k = from + Period
    BY <1>1, Before
  <2>2. from + Period <= Len(s) /\ ps[k] \in Seq(Nat) /\ Len(ps[k]) = Period
    BY <2>1 DEF CutFrom
  <2>3. \A j \in 1 .. Period : ps[k][j] = s[from + j]
    BY DEF CutFrom
  <2> HIDE DEF from
  <2>4. part \in Seq(Nat) /\ Len(part) = Period /\ \A j \in 1 .. Period : part[j] = s[from + j]
    <3>1. from \in Nat /\ Period \in Nat /\ from + Period <= Len(s)
      BY <1>1, <2>1, <2>2
    <3> QED
      BY <3>1, PartOf, Zenon
  <2> HIDE DEF part
  <2>5. \A j \in 1 .. Len(ps[k]) : ps[k][j] = part[j]
    BY <2>2, <2>3, <2>4, Zenon
  <2>6. ps[k] = part
    BY <2>2, <2>4, <2>5, SeqEqual, Zenon
  <2>7. ps[k] = SubSeq(s, from + 1, Period * k)
    BY <2>1, <2>6 DEF part
  <2> QED
    BY <2>7 DEF from
<1>3. ps = [k \in 1 .. Len(ps) |-> ps[k]]
  BY LenProperties
<1>4. Len(ps) <= Len(s) \div Period
  <2>1. Period * Len(ps) <= Len(s)
    <3>1. CASE Len(ps) = 0
      BY <1>1, <3>1
    <3>2. CASE Len(ps) \in 1 .. Len(ps)
      BY <3>2 DEF CutFrom
    <3> QED
      BY <1>1, <3>1, <3>2
  <2> QED
    BY <1>1, <2>1, Fits
<1> QED
  BY <1>2, <1>3, <1>4

\* The i-th of all the frames in a buffer.
LEMMA FrameOf ==
  ASSUME NEW all \in Seq(Nat), NEW i \in Nat \ {0}, i <= Len(all) \div Period
  PROVE  LET frame == SubSeq(all, Period * (i - 1) + 1, Period * i)
         IN  /\ frame \in Seq(Nat) /\ Len(frame) = Period /\ Period * i <= Len(all)
             /\ \A j \in 1 .. Period : frame[j] = all[Period * (i - 1) + j]
<1> DEFINE from == Period * (i - 1)
           w    == Len(all) \div Period
<1>1. Len(all) \in Nat
  BY LenProperties
<1>2. from \in Nat /\ Period * i = from + Period /\ Period * i \in Nat /\ Period \in Nat \ {0}
  BY Before
<1>3. w \in Nat /\ Period * w \in Nat /\ Period * w <= Len(all)
  BY <1>1, <1>2, Division
<1>4. i <= w
  OBVIOUS
<1> HIDE DEF from, w
<1>5. Period * i <= Period * w
  BY <1>2, <1>3, <1>4, Times
<1>6. from + Period <= Len(all)
  <2> DEFINE x == Period * i
             y == Period * w
             l == Len(all)
  <2>1. x = from + Period /\ x <= y /\ y <= l /\ l \in Nat /\ y \in Nat /\ x \in Nat
    BY <1>1, <1>2, <1>3, <1>5
  <2> HIDE DEF x, y, l
  <2>2. from + Period <= l
    BY <2>1
  <2> QED
    BY <2>2 DEF l
<1>7. /\ SubSeq(all, from + 1, from + Period) \in Seq(Nat)
      /\ Len(SubSeq(all, from + 1, from + Period)) = Period
      /\ \A j \in 1 .. Period : SubSeq(all, from + 1, from + Period)[j] = all[from + j]
  BY <1>2, <1>6, PartOf
<1> QED
  BY <1>2, <1>6, <1>7 DEF from

\* All the periods there are in the samples that were next, and the rest of these.
LEMMA AllFrames ==
  ASSUME NEW ps \in Seq(Seq(Nat)), NEW s \in Seq(Nat), CutFrom(ps, s),
         NEW all \in Seq(Nat), Continues(all, s, Rest(ps))
  PROVE  LET ps2 == ps \o Reader!Frames(all)
             more == Reader!Moved(all)
         IN  /\ CutFrom(ps2, s) /\ ps2 \in Seq(Seq(Nat)) /\ Len(ps) <= Len(ps2)
             /\ more \in Seq(Nat) /\ Rest(ps2) + Len(more) = Rest(ps) + Len(all)
             /\ Continues(more, s, Rest(ps2))
<1> DEFINE n == Len(ps)
           a == Len(all)
           w == a \div Period
           frames == Reader!Frames(all)
           ps2 == ps \o frames
           more == Reader!Moved(all)
<1>1. /\ n \in Nat /\ a \in Nat /\ Len(s) \in Nat /\ Period \in Nat \ {0}
      /\ Rest(ps) = Period * n /\ Rest(ps) \in Nat
  BY LenProperties, PeriodAssumption DEF PeriodAssumption, Rest
<1>2. w \in Nat /\ Period * w \in Nat /\ Period * w <= a
  BY <1>1, Division
<1>3. frames = [i \in 1 .. w |-> SubSeq(all, Period * (i - 1) + 1, Period * i)]
      /\ more = SubSeq(all, Period * w + 1, a)
  BY DEF Reader!Frames, Reader!Moved, Reader!Whole
<1>4. ASSUME NEW i \in 1 .. w
      PROVE  /\ frames[i] \in Seq(Nat) /\ Len(frames[i]) = Period /\ Period * i <= a
             /\ \A j \in 1 .. Period : frames[i][j] = all[Period * (i - 1) + j]
  <2>1. i \in Nat \ {0} /\ i <= w
    BY <1>2
  <2> HIDE DEF frames
  <2>2. frames[i] = SubSeq(all, Period * (i - 1) + 1, Period * i)
    BY <1>3
  <2> QED
    BY <2>1, <2>2, FrameOf
<1> HIDE DEF w, frames, more
<1>5. frames \in Seq(Seq(Nat)) /\ Len(frames) = w
  <2>1. frames \in [1 .. w -> Seq(Nat)]
    BY <1>3, <1>4
  <2> HIDE DEF n, a, ps2
  <2>2. frames \in Seq(Seq(Nat))
    BY <1>2, <2>1, SeqDef
  <2>3. DOMAIN frames = 1 .. w
    BY <2>1
  <2>4. DOMAIN frames = 1 .. Len(frames) /\ Len(frames) \in Nat
    BY <2>2, LenProperties
  <2> QED
    BY <1>2, <2>2, <2>3, <2>4
<1>6. ps2 \in Seq(Seq(Nat)) /\ Len(ps2) = n + w
  BY <1>5, ConcatProperties
<1>7. \A k \in 1 .. n : ps2[k] = ps[k]
  BY <1>1, <1>2, <1>5, ConcatProperties
<1>8. \A i \in 1 .. w : ps2[n + i] = frames[i]
  <2> TAKE i \in 1 .. w
  <2>1. n + i \in 1 .. n + w /\ ~ (n + i <= n) /\ (n + i) - n = i
    BY <1>1, <1>2
  <2> QED
    BY <1>5, <2>1, ConcatProperties
<1> HIDE DEF ps2, n, a
<1>9. a <= Len(s) - Rest(ps) /\ \A j \in 1 .. a : all[j] = s[Rest(ps) + j]
  BY <1>1 DEF Continues, a
<1>10. ASSUME NEW k \in 1 .. n + w
      PROVE  /\ Period * k <= Len(s) /\ ps2[k] \in Seq(Nat) /\ Len(ps2[k]) = Period
             /\ \A j \in 1 .. Period : ps2[k][j] = s[Period * (k - 1) + j]
  <2>1. CASE k \in 1 .. n
    <3>1. ps2[k] = ps[k]
      BY <1>7, <2>1
    <3>2. /\ Period * k <= Len(s) /\ ps[k] \in Seq(Nat) /\ Len(ps[k]) = Period
          /\ \A j \in 1 .. Period : ps[k][j] = s[Period * (k - 1) + j]
      BY <2>1, Zenon DEF CutFrom, n
    <3> QED
      BY <3>1, <3>2, Zenon
  <2>2. CASE k \in n + 1 .. n + w
    <3> DEFINE i == k - n
               from == Period * (i - 1)
               at == Period * (k - 1)
    <3>1. i \in 1 .. w /\ i \in Nat \ {0} /\ k = n + i
      BY <1>1, <1>2, <2>2
    <3>2. at = Rest(ps) + from /\ Period * k = Rest(ps) + Period * i
      BY <1>1, <3>1
    <3> HIDE DEF i
    <3>3. ps2[k] = frames[i]
      BY <1>8, <3>1
    <3>4. /\ frames[i] \in Seq(Nat) /\ Len(frames[i]) = Period /\ Period * i <= a
          /\ \A j \in 1 .. Period : frames[i][j] = all[from + j]
      BY <1>4, <3>1
    <3>5. from \in Nat /\ Period * i = from + Period
      BY <3>1, Before
    <3>6. Period * i <= a
      BY <3>4
    <3> HIDE DEF from, at
    <3>7. Period * k <= Len(s)
      BY <1>1, <1>9, <3>2, <3>5, <3>6
    <3>8. ASSUME NEW j \in 1 .. Period PROVE ps2[k][j] = s[at + j]
      <4>1. from + Period <= a
        BY <3>5, <3>6
      <4>2. from + j \in 1 .. a /\ Rest(ps) + (from + j) = at + j
        BY <1>1, <3>2, <3>5, <4>1
      <4>3. all[from + j] = s[Rest(ps) + (from + j)]
        BY <1>9, <4>2
      <4> QED
        BY <3>3, <3>4, <4>2, <4>3
    <3> QED
      BY <3>3, <3>4, <3>7, <3>8 DEF at
  <2> QED
    BY <1>1, <1>2, <2>1, <2>2
<1>11. CutFrom(ps2, s)
  BY <1>6, <1>10 DEF CutFrom
<1>12. Rest(ps2) = Rest(ps) + Period * w
  <2>1. Rest(ps2) = Period * (n + w)
    BY <1>6 DEF Rest
  <2>2. Period * (n + w) = Period * n + Period * w
    BY <1>1, <1>2
  <2> QED
    BY <1>1, <2>1, <2>2
<1> DEFINE x == Period * w
           m == a - x
<1>13. x \in Nat /\ m \in Nat /\ x + m = a /\ more = SubSeq(all, x + 1, a) /\ Rest(ps2) = Rest(ps) + x
  BY <1>1, <1>2, <1>3, <1>12
<1> HIDE DEF x, m
<1>14. more \in Seq(Nat) /\ Len(more) = m /\ \A j \in 1 .. m : more[j] = all[x + j]
  <2>1. x + m <= Len(all) /\ more = SubSeq(all, x + 1, x + m)
    BY <1>1, <1>13 DEF a
  <2>2. /\ SubSeq(all, x + 1, x + m) \in Seq(Nat) /\ Len(SubSeq(all, x + 1, x + m)) = m
        /\ \A j \in 1 .. m : SubSeq(all, x + 1, x + m)[j] = all[x + j]
    <3>1. x \in Nat /\ m \in Nat
      BY <1>13
    <3> QED
      BY <2>1, <3>1, PartOf
  <2> QED
    BY <2>1, <2>2, Zenon
<1>15. Rest(ps2) + Len(more) = Rest(ps) + a /\ n <= Len(ps2)
  BY <1>1, <1>2, <1>6, <1>13, <1>14
<1>16. ASSUME NEW j \in 1 .. Len(more) PROVE more[j] = s[Rest(ps2) + j]
  <2>1. j \in 1 .. m /\ x + j \in 1 .. a /\ Rest(ps) + (x + j) = Rest(ps2) + j
    BY <1>1, <1>13, <1>14
  <2>2. all[x + j] = s[Rest(ps) + (x + j)]
    BY <1>9, <2>1
  <2> QED
    BY <1>14, <2>1, <2>2
<1>17. Continues(more, s, Rest(ps2))
  BY <1>1, <1>9, <1>15, <1>16 DEF Continues
<1> QED
  BY <1>6, <1>11, <1>14, <1>15, <1>17 DEF ps2, frames, more, n, a

-------------------------------------------------------------------------------
(* The sound server.                                                       *)

SoundInv ==
  /\ program \in {"wf-recorder", "gpu-screen-recorder"}
  /\ clock \in Nat /\ queue \in Seq(Pieces) /\ sound \in Seq(Nat) /\ server \in {"good", "dead"}

\* What comes is a fragment or a hole, or it is lost.
LEMMA Recorded ==
  ASSUME SoundInv, NEW n \in Nat, NEW hole \in BOOLEAN, Device!Record(n, hole) \/ Reader!Record(n, hole)
  PROVE  /\ clock' \in Nat /\ server' = server
         /\ \/ UNCHANGED <<queue, sound>>
            \/ \E new \in Pieces : queue' = Append(queue, new) /\ sound' = sound \o new.data
<1> DEFINE data == [i \in 1 .. n |-> clock + i]
           new == IF hole THEN [data |-> <<>>, length |-> n] ELSE [data |-> data, length |-> n]
<1>1. /\ server' = server /\ clock' = clock + n
      /\ \/ UNCHANGED <<queue, sound>>
         \/ queue' = Append(queue, new) /\ sound' = IF hole THEN sound ELSE sound \o data
  BY DEF Device!Record, Device!Fragment, Reader!Record, Reader!Fragment
<1>2. data \in Seq(Nat) /\ Len(data) = n
  <2>1. \A i \in 1 .. n : clock + i \in Nat
    BY DEF SoundInv
  <2>2. data \in [1 .. n -> Nat]
    BY <2>1
  <2> HIDE DEF data
  <2>3. data \in Seq(Nat) /\ DOMAIN data = 1 .. n
    BY <2>2, SeqDef
  <2>4. DOMAIN data = 1 .. Len(data) /\ Len(data) \in Nat
    BY <2>3, LenProperties
  <2> QED
    BY <2>3, <2>4
<1> HIDE DEF data
<1>3. new \in Pieces
  <2>1. <<>> \in Seq(Nat)
    BY EmptySeq
  <2> QED
    BY <1>2, <2>1 DEF Pieces
<1>4. sound \o <<>> = sound
  BY ConcatEmptySeq DEF SoundInv
<1>5. (IF hole THEN sound ELSE sound \o data) = sound \o new.data
  BY <1>4
<1>6. clock' \in Nat
  BY <1>1 DEF SoundInv
<1> HIDE DEF new
<1> QED
  BY <1>1, <1>3, <1>5, <1>6

-------------------------------------------------------------------------------
(* gpu-screen-recorder's device.                                           *)

DeviceType ==
  /\ read_data \in Seq(Nat) /\ read_index \in Nat /\ read_length \in Nat
  /\ output_data \in [1 .. Period -> Nat] /\ output_index \in 0 .. Period
  /\ given \in Seq(Seq(Nat))

\* The connection is good, or the call that finds it dead has not returned.
Live == server = "good" \/ pcD = "read"

\* output_data has the start of the next period.
StartInv ==
  /\ output_index < Period
  /\ \A i \in 1 .. output_index : output_data[i] = sound[Rest(given) + i]

\* What is behind it waits, less what was taken from the fragment at the head.
HeadInv ==
  IF read_data = <<>>
  THEN read_index = 0 /\ Waits(queue, sound, Rest(given) + output_index)
  ELSE /\ queue # <<>> /\ read_data = Head(queue).data
       /\ read_length > 0 /\ read_index + read_length = Len(read_data)
       /\ read_index <= Rest(given) + output_index
       /\ Waits(queue, sound, (Rest(given) + output_index) - read_index)

DeviceInv == DeviceType /\ CutFrom(given, sound) /\ (Live => StartInv /\ HeadInv)

\* Numbers of the device.
LEMMA DeviceNumbers ==
  ASSUME DeviceType
  PROVE  /\ Period \in Nat \ {0} /\ Rest(given) \in Nat /\ output_index \in Nat
         /\ output_index <= Period /\ read_index \in Nat /\ read_length \in Nat
         /\ Len(read_data) \in Nat /\ Rest(given) + output_index \in Nat /\ Len(given) \in Nat
<1>1. Period \in Nat \ {0} /\ Len(given) \in Nat /\ Len(read_data) \in Nat
  BY PeriodAssumption, LenProperties DEF PeriodAssumption, DeviceType
<1>2. Rest(given) \in Nat
  BY <1>1 DEF Rest
<1> QED
  BY <1>1, <1>2 DEF DeviceType

\* The fragment that is being read: its samples are where the rest of the sound is.
LEMMA Reading ==
  ASSUME SoundInv, DeviceType, HeadInv, read_data # <<>>
  PROVE  /\ Rest(given) + output_index + read_length <= Len(sound) /\ Len(sound) \in Nat
         /\ \A j \in 1 .. read_length :
              read_data[read_index + j] = sound[Rest(given) + output_index + j]
         /\ Tail(queue) \in Seq(Pieces)
         /\ Waits(Tail(queue), sound, Rest(given) + output_index + read_length)
<1> DEFINE at   == Rest(given) + output_index
           from == at - read_index
           l    == Len(read_data)
<1>1. /\ at \in Nat /\ read_index \in Nat /\ read_length \in Nat /\ l \in Nat
      /\ read_index <= at /\ read_index + read_length = l
  BY DeviceNumbers DEF HeadInv
<1>2. Len(sound) \in Nat
  BY LenProperties DEF SoundInv
<1> HIDE DEF at, l
<1>3. from \in Nat /\ from + l = at + read_length
  BY <1>1
<1>4. Waits(queue, sound, from) /\ queue # <<>> /\ read_data = Head(queue).data
  BY DEF HeadInv, at
<1> HIDE DEF from
<1>5. /\ from + l <= Len(sound) /\ Tail(queue) \in Seq(Pieces)
      /\ \A j \in 1 .. l : read_data[j] = sound[from + j]
      /\ Waits(Tail(queue), sound, from + l)
  BY <1>3, <1>4, Dropped DEF SoundInv, l
<1>6. ASSUME NEW j \in 1 .. read_length PROVE read_data[read_index + j] = sound[at + j]
  <2>1. read_index + j \in 1 .. l /\ from + (read_index + j) = at + j
    BY <1>1 DEF from
  <2> QED
    BY <1>5, <2>1
<1> QED
  BY <1>2, <1>3, <1>5, <1>6 DEF at

\* What is copied goes behind the start of the period.
LEMMA CopiedIs ==
  ASSUME SoundInv, DeviceType, StartInv, HeadInv, read_data # <<>>,
         NEW n \in Nat, n <= read_length, output_index + n <= Period
  PROVE  /\ Device!Copied(n) \in [1 .. Period -> Nat]
         /\ \A i \in 1 .. output_index + n : Device!Copied(n)[i] = sound[Rest(given) + i]
<1> DEFINE out == Device!Copied(n)
<1>1. out = [i \in 1 .. Period |-> IF i \in output_index + 1 .. output_index + n
                                   THEN read_data[read_index + i - output_index] ELSE output_data[i]]
  BY DEF Device!Copied
<1>2. /\ Period \in Nat /\ output_index \in Nat /\ read_index \in Nat /\ Rest(given) \in Nat
      /\ read_length \in Nat /\ Len(read_data) \in Nat /\ read_index + read_length = Len(read_data)
  BY DeviceNumbers DEF HeadInv
<1> HIDE DEF out
<1>3. ASSUME NEW i \in output_index + 1 .. output_index + n
      PROVE  /\ i \in 1 .. Period /\ out[i] = sound[Rest(given) + i] /\ out[i] \in Nat
             /\ read_data[read_index + i - output_index] \in Nat
  <2> DEFINE j == i - output_index
  <2>1. j \in 1 .. read_length /\ read_index + i - output_index = read_index + j /\ i \in 1 .. Period
        /\ Rest(given) + output_index + j = Rest(given) + i /\ read_index + j \in 1 .. Len(read_data)
    BY <1>2
  <2> HIDE DEF j
  <2>2. out[i] = read_data[read_index + i - output_index]
    BY <1>1, <2>1
  <2>3. read_data[read_index + j] = sound[Rest(given) + output_index + j]
    BY <2>1, Reading
  <2>4. read_data[read_index + j] \in Nat
    BY <2>1, ElementOfSeq DEF DeviceType
  <2> QED
    BY <2>1, <2>2, <2>3, <2>4
<1>4. ASSUME NEW i \in 1 .. output_index PROVE out[i] = sound[Rest(given) + i]
  <2>1. i \in 1 .. Period /\ i \notin output_index + 1 .. output_index + n
    BY <1>2
  <2>2. out[i] = output_data[i]
    BY <1>1, <2>1
  <2> QED
    BY <2>2 DEF StartInv
<1>5. out \in [1 .. Period -> Nat]
  <2>1. \A i \in 1 .. Period : output_data[i] \in Nat
    BY DEF DeviceType
  <2> QED
    BY <1>1, <1>3, <2>1
<1>6. \A i \in 1 .. output_index + n : out[i] = sound[Rest(given) + i]
  <2> TAKE i \in 1 .. output_index + n
  <2>1. i \in 1 .. output_index \/ i \in output_index + 1 .. output_index + n
    BY <1>2
  <2> QED
    BY <1>3, <1>4, <2>1
<1> QED
  BY <1>5, <1>6 DEF out

\* A step of the device keeps what waits, or takes the fragment at the head.
LEMMA SoundKept ==
  ASSUME SoundInv, Device!Read \/ Device!Open \/ Device!Call \/ Device!TimesOut \/ Device!CloseDevice
                   \/ Device!Fails, DeviceType, Live => HeadInv, UNCHANGED program
  PROVE  SoundInv' /\ UNCHANGED sound
<1>1. UNCHANGED sound /\ clock' = clock /\ server' \in {"good", "dead"}
  BY DEF Device!Read, Device!Peek, Device!CopyPart, Device!CopyAll, Device!Open, Device!Call,
         Device!TimesOut, Device!CloseDevice, Device!Fails, Device!ServerDies, Device!serverVars, SoundInv
<1>2. queue' \in Seq(Pieces)
  <2>1. CASE UNCHANGED queue
    BY <2>1 DEF SoundInv
  <2>2. CASE queue' = Tail(queue) /\ queue # <<>>
    BY <2>2, HeadTailProperties DEF SoundInv
  <2>3. ASSUME Device!CopyAll, queue' = Tail(queue) PROVE queue # <<>>
    <3>1. Live /\ read_data # <<>>
      BY <2>3 DEF Device!CopyAll, Live, Device!Null
    <3> QED
      BY <3>1 DEF HeadInv
  <2>4. ASSUME Device!Peek, queue' = Tail(queue), queue' # queue PROVE queue # <<>>
    BY <2>4 DEF Device!Peek, SoundInv
  <2>5. UNCHANGED queue \/ (queue' = Tail(queue) /\ (Device!CopyAll \/ Device!Peek))
    BY DEF Device!Read, Device!Peek, Device!CopyPart, Device!CopyAll, Device!Open, Device!Call,
         Device!TimesOut, Device!CloseDevice, Device!Fails, Device!ServerDies, Device!serverVars
  <2> QED
    BY <2>1, <2>2, <2>3, <2>4, <2>5
<1> QED
  BY <1>1, <1>2 DEF SoundInv

\* Opening, calling, running out of time, closing, and the loss of the connection.
LEMMA DeviceRests ==
  ASSUME SoundInv, DeviceInv, Device!Open \/ Device!Call \/ Device!TimesOut \/ Device!CloseDevice
                              \/ Device!Fails
  PROVE  DeviceInv' /\ UNCHANGED given
<1>1. /\ UNCHANGED <<queue, sound, read_data, read_index, read_length, output_data, output_index>>
      /\ Live' => Live
  BY DEF Device!Open, Device!Call, Device!TimesOut, Device!CloseDevice, Device!Fails, Device!Dead,
         Device!ServerDies, Device!serverVars, Device!deviceVars, Live, SoundInv
<1>2. UNCHANGED given
  <2>1. ASSUME Device!Call PROVE ~ Device!Full
    <3>1. Live
      BY <2>1 DEF Device!Call, Device!Dead, Live, SoundInv
    <3>2. output_index < Period /\ output_index \in Nat /\ Period \in Nat
      BY <3>1, DeviceNumbers DEF DeviceInv, StartInv
    <3> QED
      BY <3>2 DEF Device!Full
  <2> QED
    BY <2>1 DEF Device!Open, Device!Call, Device!TimesOut, Device!CloseDevice, Device!Fails,
                Device!ServerDies, Device!serverVars, Device!deviceVars
<1>3. DeviceType' /\ CutFrom(given, sound)'
  BY <1>1, <1>2 DEF DeviceInv, DeviceType, CutFrom
<1>4. Live' => StartInv' /\ HeadInv'
  BY <1>1, <1>2 DEF DeviceInv, StartInv, HeadInv, Rest, Waits, Piece
<1> QED
  BY <1>2, <1>3, <1>4 DEF DeviceInv

\* Sound that comes is behind all that waits.
LEMMA DeviceHears ==
  ASSUME SoundInv, DeviceInv, Device!Sends, UNCHANGED program
  PROVE  SoundInv' /\ DeviceInv' /\ UNCHANGED given
<1>1. UNCHANGED <<pcD, read_data, read_index, read_length, output_data, output_index, given>>
  BY DEF Device!Sends, Device!deviceVars
<1>2. PICK n \in Nat, hole \in BOOLEAN : Device!Record(n, hole)
  <2>1. 0 .. MaxFragment \subseteq Nat /\ 1 .. MaxFragment \subseteq Nat
    BY ServerAssumption DEF ServerAssumption
  <2> QED
    BY <2>1, Zenon DEF Device!Sends
<1>3. /\ clock' \in Nat /\ server' = server
      /\ \/ UNCHANGED <<queue, sound>>
         \/ \E new \in Pieces : queue' = Append(queue, new) /\ sound' = sound \o new.data
  BY <1>2, Recorded
<1>4. DeviceType /\ DeviceType' /\ (Live' <=> Live) /\ UNCHANGED Rest(given)
  BY <1>1, <1>3 DEF DeviceInv, DeviceType, Live, Rest
<1>5. CASE UNCHANGED <<queue, sound>>
  <2>1. SoundInv'
    BY <1>3, <1>5 DEF SoundInv
  <2>2. CutFrom(given, sound)' /\ (StartInv => StartInv') /\ (HeadInv => HeadInv')
    BY <1>1, <1>5 DEF DeviceInv, CutFrom, StartInv, HeadInv, Rest, Waits, Piece
  <2> QED
    BY <1>1, <1>4, <2>1, <2>2 DEF DeviceInv
<1>6. CASE \E new \in Pieces : queue' = Append(queue, new) /\ sound' = sound \o new.data
  <2>1. PICK new \in Pieces : queue' = Append(queue, new) /\ sound' = sound \o new.data
    BY <1>6
  <2>2. new.data \in Seq(Nat) /\ sound \in Seq(Nat) /\ queue \in Seq(Pieces) /\ Len(given) \in Nat
    BY <1>4, PieceHas, DeviceNumbers DEF SoundInv
  <2>3. CutFrom(given, sound') /\ sound' \in Seq(Nat)
    BY <2>1, <2>2, SoundGrows DEF DeviceInv
  <2>4. queue' \in Seq(Pieces)
    BY <2>1, <2>2, AppendProperties
  <2>5. \A i \in 1 .. Len(sound) : sound'[i] = sound[i]
    BY <2>1, <2>2, ConcatProperties, LenProperties
  <2>6. ASSUME Live PROVE HeadInv' /\ Rest(given) + output_index <= Len(sound)
    <3>1. HeadInv
      BY <2>6 DEF DeviceInv
    <3>2. /\ Rest(given) + output_index \in Nat /\ read_index \in Nat /\ read_length \in Nat
          /\ Len(sound) \in Nat
      BY <1>4, <2>2, DeviceNumbers, LenProperties
    <3>3. CASE read_data = <<>>
      <4> DEFINE from == Rest(given) + output_index
      <4>1. from \in Nat /\ Waits(queue, sound, from) /\ read_index = 0
        BY <3>1, <3>2, <3>3 DEF HeadInv
      <4> HIDE DEF from
      <4>2. Waits(queue', sound', from)
        BY <2>1, <2>2, <4>1, Queued
      <4>3. from <= Len(sound)
        BY <4>1, <2>2, <3>2, WaitsIn
      <4> QED
        BY <1>1, <1>4, <3>3, <4>1, <4>2, <4>3 DEF HeadInv, from
    <3>4. CASE read_data # <<>>
      <4> DEFINE from == (Rest(given) + output_index) - read_index
      <4>1. from \in Nat /\ Waits(queue, sound, from)
        BY <3>1, <3>2, <3>4 DEF HeadInv
      <4> HIDE DEF from
      <4>2. Waits(queue', sound', from)
        BY <2>1, <2>2, <4>1, Queued
      <4>3. queue' # <<>> /\ Head(queue') = Head(queue)
        <5>1. queue # <<>>
          BY <3>1, <3>4 DEF HeadInv
        <5>2. Head(queue) = queue[1] /\ Len(queue) \in Nat \ {0}
          BY <2>2, <5>1, HeadTailProperties, LenProperties, EmptySeq
        <5>3. queue' # <<>> /\ queue'[1] = queue[1]
          <6>1. 1 \in 1 .. Len(queue)
            BY <5>2
          <6>2. Append(queue, new) # <<>> /\ Append(queue, new)[1] = queue[1]
            BY <2>2, <6>1, AppendProperties
          <6> QED
            BY <2>1, <6>2, Zenon
        <5>4. Head(queue') = queue'[1]
          BY <2>4, <5>3, HeadTailProperties
        <5> QED
          BY <5>2, <5>3, <5>4
      <4>4. Rest(given) + output_index <= Len(sound)
        <5>1. Rest(given) + output_index + read_length <= Len(sound)
          BY <1>4, <3>1, <3>4, Reading
        <5> QED
          BY <3>2, <5>1
      <4> QED
        BY <1>1, <1>4, <3>1, <3>4, <4>2, <4>3, <4>4 DEF HeadInv, from
    <3> QED
      BY <3>3, <3>4
  <2>7. ASSUME Live PROVE StartInv'
    <3>1. StartInv /\ Rest(given) + output_index <= Len(sound)
      BY <2>6, <2>7 DEF DeviceInv
    <3>2. Rest(given) \in Nat /\ output_index \in Nat /\ Len(sound) \in Nat
      BY <1>4, <2>2, DeviceNumbers, LenProperties
    <3>3. ASSUME NEW i \in 1 .. output_index PROVE output_data[i] = sound'[Rest(given) + i]
      <4>1. Rest(given) + i \in 1 .. Len(sound)
        BY <3>1, <3>2
      <4> QED
        BY <2>5, <3>1, <4>1 DEF StartInv
    <3> QED
      BY <1>1, <1>4, <3>1, <3>3 DEF StartInv
  <2>8. SoundInv'
    BY <1>3, <2>3, <2>4 DEF SoundInv
  <2>9. CutFrom(given, sound)'
    BY <1>1, <2>3
  <2> QED
    BY <1>1, <1>4, <2>6, <2>7, <2>8, <2>9 DEF DeviceInv
<1> QED
  BY <1>3, <1>5, <1>6

\* A fragment is taken up, or dropped because it has no data.
LEMMA PeekKeeps ==
  ASSUME SoundInv, DeviceInv, Device!Peek
  PROVE  DeviceInv' /\ UNCHANGED given
<1>1. /\ pcD = "read" /\ read_data = <<>> /\ (queue # <<>> \/ server = "dead")
      /\ UNCHANGED <<sound, server, read_index, output_data, output_index, given>>
  BY DEF Device!Peek, Device!Null
<1>2. DeviceType /\ CutFrom(given, sound) /\ StartInv /\ read_index = 0
      /\ Waits(queue, sound, Rest(given) + output_index)
  BY <1>1 DEF DeviceInv, Live, HeadInv
<1>3. CutFrom(given, sound)' /\ StartInv' /\ UNCHANGED Rest(given)
  BY <1>1, <1>2 DEF StartInv, Rest
<1>4. CASE server = "dead"
  <2>1. ~ Live' /\ UNCHANGED <<read_data, read_length>>
    BY <1>1, <1>4 DEF Device!Peek, Live
  <2>2. DeviceType'
    BY <1>1, <1>2, <2>1 DEF DeviceType
  <2> QED
    BY <1>1, <1>3, <2>1, <2>2 DEF DeviceInv
<1>5. CASE server # "dead"
  <2> DEFINE from == Rest(given) + output_index
  <2>1. from \in Nat /\ queue # <<>> /\ queue \in Seq(Pieces) /\ sound \in Seq(Nat)
    BY <1>1, <1>2, <1>5, DeviceNumbers DEF SoundInv
  <2>2. /\ Head(queue) \in Pieces /\ Tail(queue) \in Seq(Pieces)
        /\ Waits(Tail(queue), sound, from + Len(Head(queue).data))
    BY <1>2, <2>1, Dropped
  <2>3. CASE Head(queue).data = <<>>
    <3>1. queue' = Tail(queue) /\ UNCHANGED <<read_data, read_length>>
      BY <1>5, <2>3 DEF Device!Peek, Device!Null
    <3>2. Len(Head(queue).data) = 0
      BY <2>2, <2>3, PieceHas
    <3>3. Waits(queue', sound', from)
      BY <1>1, <2>1, <2>2, <3>1, <3>2
    <3>4. HeadInv'
      BY <1>1, <1>2, <1>3, <3>1, <3>3 DEF HeadInv
    <3>5. DeviceType'
      BY <1>1, <1>2, <3>1 DEF DeviceType
    <3> QED
      BY <1>1, <1>3, <3>4, <3>5 DEF DeviceInv
  <2>4. CASE Head(queue).data # <<>>
    <3>1. /\ read_data' = Head(queue).data /\ read_length' = Head(queue).length
          /\ UNCHANGED queue
      BY <1>5, <2>4 DEF Device!Peek, Device!Null
    <3>2. /\ Head(queue).data \in Seq(Nat) /\ Head(queue).length = Len(Head(queue).data)
          /\ Len(Head(queue).data) \in Nat /\ Len(Head(queue).data) > 0
      BY <2>2, <2>4, PieceHas
    <3>3. read_data' # <<>> /\ read_length' > 0 /\ read_index' + read_length' = Len(read_data')
          /\ read_index' = 0 /\ read_length' \in Nat
      BY <1>1, <1>2, <2>4, <3>1, <3>2
    <3>4. Waits(queue, sound, from) /\ from - 0 = from /\ 0 <= from
      BY <1>2, <2>1
    <3>5. HeadInv'
      BY <1>1, <1>3, <2>1, <3>1, <3>3, <3>4 DEF HeadInv
    <3>6. DeviceType'
      BY <1>1, <1>2, <3>1, <3>2, <3>3 DEF DeviceType
    <3> QED
      BY <1>1, <1>3, <3>5, <3>6 DEF DeviceInv
  <2> QED
    BY <2>3, <2>4
<1> QED
  BY <1>4, <1>5

\* The period that is full is the next one of the sound.
LEMMA DeviceGives ==
  ASSUME SoundInv, DeviceInv, NEW out \in [1 .. Period -> Nat],
         \A i \in 1 .. Period : out[i] = sound[Rest(given) + i], Rest(given) + Period <= Len(sound)
  PROVE  /\ CutFrom(Append(given, out), sound) /\ Append(given, out) \in Seq(Seq(Nat))
         /\ Rest(Append(given, out)) = Rest(given) + Period
         /\ Len(Append(given, out)) = Len(given) + 1
<1>1. Period \in Nat /\ given \in Seq(Seq(Nat)) /\ sound \in Seq(Nat)
  BY DeviceNumbers DEF DeviceInv, DeviceType, SoundInv
<1>2. out \in Seq(Nat)
  BY <1>1, SeqDef
<1>3. Len(out) = Period
  <2>1. DOMAIN out = 1 .. Len(out) /\ Len(out) \in Nat /\ DOMAIN out = 1 .. Period
    BY <1>2, LenProperties
  <2> QED
    BY <1>1, <2>1
<1> QED
  BY <1>1, <1>2, <1>3, OneMore DEF DeviceInv

\* A fragment that is more than the period needs.
LEMMA CopyPartKeeps ==
  ASSUME SoundInv, DeviceInv, Device!CopyPart
  PROVE  DeviceInv' /\ Len(given') = Len(given) + 1
<1> DEFINE space == Period - output_index
           out == Device!Copied(space)
<1>1. /\ pcD = "read" /\ read_data # <<>> /\ space < read_length
      /\ output_data' = out /\ output_index' = 0 /\ given' = Append(given, out)
      /\ read_index' = read_index + space /\ read_length' = read_length - space
      /\ UNCHANGED <<queue, sound, read_data>>
  BY DEF Device!CopyPart, Device!Null, Device!Space, Device!IndexAfter, Device!serverVars
<1>2. DeviceType /\ CutFrom(given, sound) /\ StartInv /\ HeadInv
  BY <1>1 DEF DeviceInv, Live
<1>3. /\ Period \in Nat \ {0} /\ output_index \in Nat /\ output_index < Period
      /\ read_index \in Nat /\ read_length \in Nat /\ Rest(given) \in Nat
  BY <1>2, DeviceNumbers DEF StartInv
<1>4. /\ queue # <<>> /\ read_data = Head(queue).data /\ read_index + read_length = Len(read_data)
      /\ read_index <= Rest(given) + output_index
      /\ Waits(queue, sound, (Rest(given) + output_index) - read_index)
  BY <1>1, <1>2 DEF HeadInv
<1>5. space \in Nat /\ output_index + space = Period
  BY <1>3
<1>6. out \in [1 .. Period -> Nat] /\ \A i \in 1 .. Period : out[i] = sound[Rest(given) + i]
  <2>1. space <= read_length /\ output_index + space <= Period
    BY <1>1, <1>3, <1>5
  <2> HIDE DEF space
  <2> QED
    BY <1>1, <1>2, <1>5, <2>1, CopiedIs
<1>7. Rest(given) + Period <= Len(sound)
  <2>1. Rest(given) + output_index + read_length <= Len(sound) /\ Len(sound) \in Nat
    BY <1>1, <1>2, Reading
  <2> QED
    BY <1>1, <1>3, <2>1
<1> HIDE DEF out
<1>8. /\ CutFrom(given', sound') /\ given' \in Seq(Seq(Nat)) /\ Rest(given') = Rest(given) + Period
      /\ Len(given') = Len(given) + 1
  BY <1>1, <1>6, <1>7, DeviceGives
<1>9. DeviceType'
  <2>1. read_index' \in Nat /\ read_length' \in Nat /\ output_index' \in 0 .. Period
    BY <1>1, <1>3, <1>5
  <2> QED
    BY <1>1, <1>2, <1>6, <1>8, <2>1 DEF DeviceType
<1>10. StartInv'
  BY <1>1, <1>3 DEF StartInv
<1>11. HeadInv'
  <2>1. read_index' + read_length' = Len(read_data') /\ read_length' > 0
    <3> DEFINE l == Len(read_data)
    <3>1. read_index + read_length = l /\ Len(read_data') = l
      BY <1>1, <1>4
    <3> HIDE DEF l, space
    <3>2. read_index' + read_length' = l /\ read_length' > 0
      BY <1>1, <1>3, <1>5, <3>1
    <3> QED
      BY <3>1, <3>2
  <2>2. /\ read_index' <= Rest(given') + output_index'
        /\ (Rest(given') + output_index') - read_index' = (Rest(given) + output_index) - read_index
    BY <1>1, <1>3, <1>4, <1>5, <1>8
  <2>3. Waits(queue', sound', (Rest(given') + output_index') - read_index')
    BY <1>1, <1>4, <2>2
  <2>4. queue' # <<>> /\ read_data' = Head(queue').data /\ read_data' # <<>>
    BY <1>1, <1>4
  <2> QED
    BY <2>1, <2>2, <2>3, <2>4 DEF HeadInv
<1> QED
  BY <1>8, <1>9, <1>10, <1>11 DEF DeviceInv

\* All that is left of a fragment.
LEMMA CopyAllKeeps ==
  ASSUME SoundInv, DeviceInv, Device!CopyAll
  PROVE  DeviceInv' /\ (given' = given \/ Len(given') = Len(given) + 1)
<1> DEFINE out == Device!Copied(read_length)
           index == output_index + read_length
<1>1. /\ pcD = "read" /\ read_data # <<>> /\ Period - output_index >= read_length
      /\ output_data' = out /\ read_data' = <<>> /\ read_length' = 0 /\ read_index' = 0
      /\ UNCHANGED <<sound, server>>
  BY DEF Device!CopyAll, Device!Null, Device!Space
<1>2. DeviceType /\ CutFrom(given, sound) /\ StartInv /\ HeadInv
  BY <1>1 DEF DeviceInv, Live
<1>3. /\ Period \in Nat \ {0} /\ output_index \in Nat /\ read_length \in Nat /\ Rest(given) \in Nat
      /\ given \in Seq(Seq(Nat))
  BY <1>2, DeviceNumbers DEF DeviceType
<1>4. index \in Nat /\ index <= Period
  BY <1>1, <1>3
<1>5. out \in [1 .. Period -> Nat] /\ \A i \in 1 .. index : out[i] = sound[Rest(given) + i]
  <2>1. read_length <= read_length
    BY <1>3
  <2> QED
    BY <1>1, <1>2, <1>3, <1>4, <2>1, CopiedIs
<1>6. /\ Rest(given) + index <= Len(sound) /\ Waits(Tail(queue), sound, Rest(given) + index)
  <2>1. Rest(given) + output_index + read_length = Rest(given) + index
    BY <1>3
  <2> QED
    BY <1>1, <1>2, <2>1, Reading
<1>7. read_data' \in Seq(Nat) /\ read_index' \in Nat /\ read_length' \in Nat /\ read_data' = <<>>
      /\ read_index' = 0
  BY <1>1, EmptySeq
<1>8. output_data' \in [1 .. Period -> Nat]
  BY <1>1, <1>5
<1>9. \A i \in 1 .. index : output_data'[i] = sound'[Rest(given) + i]
  BY <1>1, <1>5
<1>10. CASE server = "dead"
  <2>1. output_index' = index /\ UNCHANGED given /\ ~ Live'
    BY <1>1, <1>10 DEF Device!CopyAll, Live
  <2>2. DeviceType'
    BY <1>3, <1>4, <1>7, <1>8, <2>1 DEF DeviceType
  <2> QED
    BY <1>1, <1>2, <2>1, <2>2 DEF DeviceInv
<1>11. CASE server # "dead" /\ index # Period
  <2>1. queue' = Tail(queue) /\ output_index' = index /\ UNCHANGED given
    BY <1>11 DEF Device!CopyAll
  <2>2. DeviceType'
    BY <1>3, <1>4, <1>7, <1>8, <2>1 DEF DeviceType
  <2>3. UNCHANGED Rest(given)
    BY <2>1 DEF Rest
  <2>4. StartInv'
    <3>1. index < Period
      BY <1>3, <1>4, <1>11
    <3> QED
      BY <1>9, <2>1, <2>3, <3>1 DEF StartInv
  <2>5. HeadInv'
    BY <1>1, <1>6, <2>1, <2>3 DEF HeadInv
  <2> QED
    BY <1>1, <1>2, <2>1, <2>2, <2>4, <2>5 DEF DeviceInv
<1>12. CASE server # "dead" /\ index = Period
  <2>1. queue' = Tail(queue) /\ output_index' = 0 /\ given' = Append(given, out)
    BY <1>1, <1>12 DEF Device!CopyAll
  <2> HIDE DEF out, index
  <2>2. /\ CutFrom(given', sound') /\ given' \in Seq(Seq(Nat)) /\ Rest(given') = Rest(given) + Period
        /\ Len(given') = Len(given) + 1
    BY <1>1, <1>5, <1>6, <1>12, <2>1, DeviceGives
  <2>3. DeviceType'
    <3>1. 0 \in 0 .. Period
      BY <1>3
    <3> QED
      BY <1>7, <1>8, <2>1, <2>2, <3>1 DEF DeviceType
  <2>4. StartInv'
    BY <1>3, <2>1 DEF StartInv
  <2>5. HeadInv'
    <3>1. Rest(given') + output_index' = Rest(given) + index
      BY <1>3, <1>12, <2>1, <2>2
    <3> QED
      BY <1>1, <1>6, <2>1, <3>1 DEF HeadInv
  <2> QED
    BY <2>2, <2>3, <2>4, <2>5 DEF DeviceInv
<1> QED
  BY <1>10, <1>11, <1>12

-------------------------------------------------------------------------------
(* wf-recorder's reader.                                                   *)

NotRunning == {"create", "start", "wait", "connect"}

\* The thread has the start of the next period; nothing was recorded before it runs.
ReaderInv ==
  /\ buf \in Seq(Nat) /\ added \in Seq(Seq(Nat)) /\ CutFrom(added, sound)
  /\ pcR \in NotRunning =>
       pcT = "none" /\ queue = <<>> /\ sound = <<>> /\ added = <<>> /\ buf = <<>>
  /\ pcT \in {"idle", "loop"} =>
       Continues(buf, sound, Rest(added)) /\ Waits(queue, sound, Rest(added) + Len(buf))

\* Nothing waits when nothing was recorded.
LEMMA NothingWaits == Waits(<<>>, <<>>, 0) /\ Continues(<<>>, <<>>, 0) /\ Rest(<<>>) = 0
<1>1. Len(<<>>) = 0
  OBVIOUS
<1>2. [i \in 1 .. 1 |-> 0] \in [1 .. 0 + 1 -> 0 .. 0]
  OBVIOUS
<1>3. Waits(<<>>, <<>>, 0)
  <2> DEFINE at == [i \in 1 .. 1 |-> 0]
  <2>1. at \in [1 .. Len(<<>>) + 1 -> 0 .. Len(<<>>)] /\ at[1] = 0 /\ at[Len(<<>>) + 1] = Len(<<>>)
    BY <1>1, <1>2
  <2>2. \A i \in 1 .. Len(<<>>) : FALSE
    BY <1>1
  <2> HIDE DEF at
  <2> QED
    BY <2>1, <2>2, Zenon DEF Waits
<1>4. Continues(<<>>, <<>>, 0)
  BY <1>1 DEF Continues
<1>5. Rest(<<>>) = 0
  BY <1>1, PeriodAssumption DEF Rest, PeriodAssumption
<1> QED
  BY <1>3, <1>4, <1>5

\* A fragment that is taken goes behind what the thread has.
LEMMA Taken ==
  ASSUME SoundInv, ReaderInv, queue # <<>>, pcT \in {"idle", "loop"}
  PROVE  LET all == buf \o Head(queue).data
         IN  /\ all \in Seq(Nat) /\ Continues(all, sound, Rest(added))
             /\ Waits(Tail(queue), sound, Rest(added) + Len(all)) /\ Tail(queue) \in Seq(Pieces)
<1> DEFINE from == Rest(added)
           b    == Len(buf)
           data == Head(queue).data
           n    == Len(data)
           all  == buf \o data
<1>1. /\ Continues(buf, sound, from) /\ Waits(queue, sound, from + b)
      /\ buf \in Seq(Nat) /\ sound \in Seq(Nat) /\ queue \in Seq(Pieces)
  BY DEF SoundInv, ReaderInv
<1>2. from \in Nat /\ b \in Nat /\ Len(sound) \in Nat
  BY PeriodAssumption, LenProperties DEF PeriodAssumption, ReaderInv, SoundInv, Rest
<1> HIDE DEF from
<1>3. from + b \in Nat
  BY <1>2
<1>4. /\ Head(queue) \in Pieces /\ n \in Nat /\ Tail(queue) \in Seq(Pieces)
      /\ (from + b) + n <= Len(sound) /\ \A j \in 1 .. n : data[j] = sound[(from + b) + j]
      /\ Waits(Tail(queue), sound, (from + b) + n)
  BY <1>1, <1>3, Dropped
<1>5. data \in Seq(Nat)
  BY <1>4, PieceHas
<1>6. all \in Seq(Nat) /\ Len(all) = b + n
  BY <1>1, <1>5, ConcatProperties
<1>7. \A i \in 1 .. b + n : all[i] = IF i <= b THEN buf[i] ELSE data[i - b]
  BY <1>1, <1>5, ConcatProperties
<1> HIDE DEF n, data, all, b
<1>8. ASSUME NEW j \in 1 .. b + n PROVE all[j] = sound[from + j]
  <2>1. CASE j <= b
    <3>1. j \in 1 .. b
      BY <1>2, <1>4, <2>1
    <3> QED
      BY <1>1, <1>7, <2>1, <3>1 DEF Continues, b
  <2>2. CASE ~ (j <= b)
    <3>1. j - b \in 1 .. n /\ (from + b) + (j - b) = from + j
      BY <1>2, <1>4, <2>2
    <3>2. all[j] = data[j - b]
      BY <1>7, <2>2
    <3>3. data[j - b] = sound[(from + b) + (j - b)]
      BY <1>4, <3>1
    <3> QED
      BY <3>1, <3>2, <3>3
  <2> QED
    BY <2>1, <2>2
<1>9. (from + b) + n = from + (b + n)
  BY <1>2, <1>4
<1>10. Continues(all, sound, from)
  BY <1>4, <1>6, <1>8, <1>9 DEF Continues
<1>11. Waits(Tail(queue), sound, from + Len(all))
  BY <1>4, <1>6, <1>9
<1> QED
  BY <1>4, <1>6, <1>10, <1>11 DEF all, data, from

\* Sound that comes is behind all that waits.
LEMMA ReaderHears ==
  ASSUME SoundInv, ReaderInv, Reader!ReaderSends, UNCHANGED program
  PROVE  SoundInv' /\ ReaderInv' /\ UNCHANGED added
<1>1. UNCHANGED <<pcR, pcT, buf, added>> /\ pcT \in {"idle", "loop"}
  BY DEF Reader!ReaderSends, Reader!readerVars, Reader!reader
<1>2. PICK m \in Nat : Reader!Record(m, FALSE)
  <2>1. 0 .. MaxFragment \subseteq Nat
    BY ServerAssumption DEF ServerAssumption
  <2> QED
    BY <2>1, Zenon DEF Reader!ReaderSends
<1>3. /\ clock' \in Nat /\ server' = server
      /\ \/ UNCHANGED <<queue, sound>>
         \/ \E new \in Pieces : queue' = Append(queue, new) /\ sound' = sound \o new.data
  BY <1>2, Recorded
<1>4. /\ buf \in Seq(Nat) /\ added \in Seq(Seq(Nat)) /\ CutFrom(added, sound) /\ pcR \notin NotRunning
      /\ Continues(buf, sound, Rest(added)) /\ Waits(queue, sound, Rest(added) + Len(buf))
  BY <1>1 DEF ReaderInv
<1>5. CASE UNCHANGED <<queue, sound>>
  BY <1>1, <1>3, <1>4, <1>5 DEF SoundInv, ReaderInv, Rest
<1>6. CASE \E new \in Pieces : queue' = Append(queue, new) /\ sound' = sound \o new.data
  <2>1. PICK new \in Pieces : queue' = Append(queue, new) /\ sound' = sound \o new.data
    BY <1>6
  <2>2. /\ new.data \in Seq(Nat) /\ sound \in Seq(Nat) /\ queue \in Seq(Pieces)
        /\ Len(added) \in Nat /\ Len(buf) \in Nat /\ Period \in Nat
    BY <1>4, PieceHas, LenProperties, PeriodAssumption DEF SoundInv, PeriodAssumption
  <2>3. CutFrom(added, sound') /\ sound' \in Seq(Nat)
    BY <1>4, <2>1, <2>2, SoundGrows
  <2> DEFINE from == Rest(added)
             n == Len(buf)
  <2>4. from \in Nat /\ from + n \in Nat /\ n \in Nat
    BY <1>4, <2>2, RestIsNat
  <2> HIDE DEF from
  <2>5. queue' \in Seq(Pieces) /\ Waits(queue', sound', from + n)
    BY <1>4, <2>1, <2>2, <2>4, Queued DEF from
  <2>6. /\ Len(sound) \in Nat /\ Len(sound') \in Nat /\ Len(sound) <= Len(sound')
        /\ \A i \in 1 .. Len(sound) : sound'[i] = sound[i]
    BY <2>1, <2>2, ConcatProperties, LenProperties
  <2>7. from + n <= Len(sound) /\ \A j \in 1 .. n : buf[j] = sound[from + j]
    BY <1>4 DEF Continues, from
  <2>8. ASSUME NEW j \in 1 .. n PROVE buf[j] = sound'[from + j]
    <3>1. from + j \in 1 .. Len(sound)
      BY <2>4, <2>6, <2>7
    <3> QED
      BY <2>6, <2>7, <3>1
  <2>9. from + n <= Len(sound')
    BY <2>4, <2>6, <2>7
  <2>10. Continues(buf, sound', from)
    BY <2>8, <2>9 DEF Continues
  <2>11. UNCHANGED <<Rest(added), Len(buf)>>
    BY <1>1
  <2> QED
    BY <1>1, <1>3, <1>4, <2>3, <2>5, <2>10, <2>11 DEF SoundInv, ReaderInv, from
<1> QED
  BY <1>1, <1>3, <1>5, <1>6

\* A thread that runs was started.
LEMMA Started ==
  ASSUME ReaderInv, pcT \in {"idle", "loop"}
  PROVE  pcR \notin NotRunning
BY DEF ReaderInv

\* The writer thread's steps, the registry's answers and the loss of the connection.
ReaderQuiet ==
  \/ Reader!CreateReader \/ Reader!StartPulse \/ Reader!StartPipeWire \/ Reader!Woken
  \/ Reader!Connect \/ Reader!Destroy \/ Reader!JoinReader \/ Reader!RegistryGlobal
  \/ Reader!CoreDone \/ Reader!CoreError \/ Reader!ReadFails \/ Reader!ReaderFails

\* They leave the sound and the periods alone.
LEMMA ReaderRests ==
  ASSUME SoundInv, ReaderInv, ReaderQuiet, UNCHANGED program
  PROVE  SoundInv' /\ ReaderInv' /\ UNCHANGED <<sound, added>>
<1>1. UNCHANGED <<clock, queue, sound, added>> /\ server' \in {"good", "dead"}
  BY DEF ReaderQuiet, Reader!CreateReader, Reader!StartPulse, Reader!StartPipeWire, Reader!Woken,
         Reader!Connect, Reader!Destroy, Reader!JoinReader, Reader!RegistryGlobal, Reader!CoreDone,
         Reader!CoreError, Reader!ReadFails, Reader!ReaderFails, Reader!ServerDies,
         Reader!serverVars, Reader!reader, Reader!readerVars, SoundInv
<1>2. SoundInv'
  BY <1>1 DEF SoundInv
<1>3. /\ buf' = buf \/ (buf' = <<>> /\ pcT' = "none" /\ pcR' = "none")
      /\ pcR' \in NotRunning => pcR \in NotRunning /\ pcT' = pcT /\ buf' = buf
      /\ pcT' \in {"idle", "loop"} => buf' = buf /\ (pcT' = pcT \/ pcR \in NotRunning)
  <2>1. pcT = "loop" => pcR \notin NotRunning
    BY Started
  <2> QED
    BY <2>1 DEF ReaderQuiet, Reader!CreateReader, Reader!StartPulse, Reader!StartPipeWire,
         Reader!Woken, Reader!Connect, Reader!Destroy, Reader!JoinReader, Reader!RegistryGlobal,
         Reader!CoreDone, Reader!CoreError, Reader!ReadFails, Reader!ReaderFails, Reader!reader,
         Reader!readerVars, NotRunning, Reader!Awaited
<1>4. /\ buf' \in Seq(Nat) /\ added' \in Seq(Seq(Nat)) /\ CutFrom(added', sound')
      /\ pcR' \in NotRunning =>
           pcT' = "none" /\ queue' = <<>> /\ sound' = <<>> /\ added' = <<>> /\ buf' = <<>>
  BY <1>1, <1>3, EmptySeq DEF ReaderInv
<1>5. ASSUME pcT' \in {"idle", "loop"}
      PROVE  Continues(buf', sound', Rest(added')) /\ Waits(queue', sound', Rest(added') + Len(buf'))
  <2>1. CASE pcR \in NotRunning
    <3>1. queue' = <<>> /\ sound' = <<>> /\ added' = <<>> /\ buf' = <<>>
      BY <1>1, <1>3, <1>5, <2>1 DEF ReaderInv
    <3>2. Rest(<<>>) + Len(<<>>) = 0
      BY NothingWaits
    <3> QED
      BY <3>1, <3>2, NothingWaits
  <2>2. CASE pcT' = pcT
    BY <1>1, <1>3, <1>5, <2>2 DEF ReaderInv
  <2> QED
    BY <1>3, <1>5, <2>1, <2>2
<1> QED
  BY <1>1, <1>2, <1>4, <1>5, Zenon DEF ReaderInv

\* A fragment is taken and every whole frame in the buffer is handed over.
LEMMA ProcessKeeps ==
  ASSUME SoundInv, ReaderInv, Reader!OnStreamProcess, UNCHANGED program
  PROVE  SoundInv' /\ ReaderInv' /\ UNCHANGED sound /\ Len(added) <= Len(added')
<1> DEFINE all == buf \o Head(queue).data
<1>1. /\ pcT = "idle" /\ queue # <<>> /\ queue' = Tail(queue)
      /\ added' = added \o Reader!Frames(all) /\ buf' = Reader!Moved(all)
      /\ UNCHANGED <<clock, sound, server, pcR, pcT>>
  BY DEF Reader!OnStreamProcess, Reader!Take
<1>2. /\ all \in Seq(Nat) /\ Continues(all, sound, Rest(added))
      /\ Waits(Tail(queue), sound, Rest(added) + Len(all)) /\ Tail(queue) \in Seq(Pieces)
  BY <1>1, Taken
<1> HIDE DEF all
<1>3. /\ CutFrom(added', sound) /\ added' \in Seq(Seq(Nat)) /\ Len(added) <= Len(added')
      /\ buf' \in Seq(Nat) /\ Rest(added') + Len(buf') = Rest(added) + Len(all)
      /\ Continues(buf', sound, Rest(added'))
  BY <1>1, <1>2, AllFrames DEF ReaderInv, SoundInv
<1>4. Waits(queue', sound', Rest(added') + Len(buf'))
  BY <1>1, <1>2, <1>3
<1>5. pcR' \notin NotRunning
  BY <1>1, Started
<1>6. SoundInv'
  BY <1>1, <1>2 DEF SoundInv
<1>7. ReaderInv'
  BY <1>1, <1>3, <1>4, <1>5 DEF ReaderInv
<1> QED
  BY <1>1, <1>3, <1>6, <1>7

\* pa_simple_read gets a fragment.
LEMMA GetsKeeps ==
  ASSUME SoundInv, ReaderInv, Reader!PulseGets, UNCHANGED program
  PROVE  SoundInv' /\ ReaderInv' /\ UNCHANGED <<sound, added>>
<1> DEFINE all == buf \o Head(queue).data
<1>1. /\ pcT = "loop" /\ queue # <<>> /\ queue' = Tail(queue) /\ buf' = all
      /\ UNCHANGED <<clock, sound, server, pcR, pcT, added>>
  BY DEF Reader!PulseGets
<1>2. /\ all \in Seq(Nat) /\ Continues(all, sound, Rest(added))
      /\ Waits(Tail(queue), sound, Rest(added) + Len(all)) /\ Tail(queue) \in Seq(Pieces)
  BY <1>1, Taken
<1> HIDE DEF all
<1>3. pcR' \notin NotRunning
  BY <1>1, Started
<1>4. SoundInv'
  BY <1>1, <1>2 DEF SoundInv
<1>5. ReaderInv'
  BY <1>1, <1>2, <1>3 DEF ReaderInv
<1> QED
  BY <1>1, <1>4, <1>5

\* It has a whole frame, which is handed over.
LEMMA PulseReadKeeps ==
  ASSUME SoundInv, ReaderInv, Reader!PulseRead, UNCHANGED program
  PROVE  SoundInv' /\ ReaderInv' /\ UNCHANGED sound /\ Len(added') = Len(added) + 1
<1> DEFINE n == Len(buf)
           p == SubSeq(buf, 1, Period)
           rest == SubSeq(buf, Period + 1, n)
           from == Rest(added)
<1>1. /\ pcT = "loop" /\ n >= Period /\ added' = Append(added, p) /\ buf' = rest
      /\ UNCHANGED <<clock, queue, sound, server, pcR>>
  BY DEF Reader!PulseRead, Reader!Filled, Reader!serverVars
<1>2. /\ buf \in Seq(Nat) /\ added \in Seq(Seq(Nat)) /\ CutFrom(added, sound) /\ sound \in Seq(Nat)
      /\ Continues(buf, sound, from) /\ Waits(queue, sound, from + n)
  BY <1>1 DEF ReaderInv, SoundInv
<1>3. from \in Nat /\ Period \in Nat /\ n \in Nat /\ Len(sound) \in Nat
  BY <1>2, RestIsNat, LenProperties
<1>4. from + n <= Len(sound) /\ \A j \in 1 .. n : buf[j] = sound[from + j]
  BY <1>2 DEF Continues
<1>5. p \in Seq(Nat) /\ Len(p) = Period /\ \A j \in 1 .. Period : p[j] = buf[j]
  <2>1. 0 + Period <= n /\ 0 + 1 = 1 /\ 0 + Period = Period /\ 0 \in Nat
    BY <1>1, <1>3
  <2>2. /\ SubSeq(buf, 0 + 1, 0 + Period) \in Seq(Nat)
        /\ Len(SubSeq(buf, 0 + 1, 0 + Period)) = Period
        /\ \A j \in 1 .. Period : SubSeq(buf, 0 + 1, 0 + Period)[j] = buf[0 + j]
    BY <1>2, <1>3, <2>1, PartOf
  <2>3. \A j \in 1 .. Period : 0 + j = j
    BY <1>3
  <2> QED
    BY <2>1, <2>2, <2>3
<1> DEFINE m == n - Period
<1>6. m \in Nat /\ Period + m = n
  BY <1>1, <1>3
<1>7. rest \in Seq(Nat) /\ Len(rest) = m /\ \A j \in 1 .. m : rest[j] = buf[Period + j]
  <2>1. Period + m <= Len(buf) /\ rest = SubSeq(buf, Period + 1, Period + m)
    BY <1>3, <1>6
  <2> HIDE DEF m
  <2>2. /\ SubSeq(buf, Period + 1, Period + m) \in Seq(Nat)
        /\ Len(SubSeq(buf, Period + 1, Period + m)) = m
        /\ \A j \in 1 .. m : SubSeq(buf, Period + 1, Period + m)[j] = buf[Period + j]
    BY <1>2, <1>3, <1>6, <2>1, PartOf
  <2> QED
    BY <2>1, <2>2
<1> HIDE DEF p, rest, from, m, n
<1>8. ASSUME NEW j \in 1 .. Period PROVE p[j] = sound[from + j]
  <2>1. j \in 1 .. n
    BY <1>3, <1>6
  <2> QED
    BY <1>4, <1>5, <2>1
<1>9. from + Period <= Len(sound)
  BY <1>3, <1>4, <1>6
<1>10. /\ CutFrom(added', sound) /\ added' \in Seq(Seq(Nat)) /\ Rest(added') = from + Period
       /\ Len(added') = Len(added) + 1
  BY <1>1, <1>2, <1>5, <1>8, <1>9, OneMore DEF from
<1>11. ASSUME NEW j \in 1 .. m PROVE rest[j] = sound[(from + Period) + j]
  <2>1. Period + j \in 1 .. n /\ from + (Period + j) = (from + Period) + j
    BY <1>3, <1>6
  <2> QED
    BY <1>4, <1>7, <2>1
<1>12. (from + Period) + m = from + n
  BY <1>3, <1>6
<1>13. Continues(buf', sound', Rest(added'))
  BY <1>1, <1>4, <1>7, <1>10, <1>11, <1>12 DEF Continues
<1>14. Waits(queue', sound', Rest(added') + Len(buf'))
  BY <1>1, <1>2, <1>7, <1>10, <1>12
<1>15. pcR' \notin NotRunning
  BY <1>1, Started
<1>16. SoundInv'
  BY <1>1 DEF SoundInv
<1>17. ReaderInv'
  BY <1>1, <1>7, <1>10, <1>13, <1>14, <1>15 DEF ReaderInv
<1> QED
  BY <1>1, <1>10, <1>16, <1>17

-------------------------------------------------------------------------------
(* The registry.                                                           *)

\* The node was heard of, if there is one.
Heard ==
  /\ source_found <=> Reader!Named(node)
  /\ source_is_sink <=> node = "Audio/Sink"

Unheard == ~ source_found /\ ~ source_is_sink

\* Without an error the wait for the list of nodes ends with its last answer.
RegistryInv ==
  /\ node \in {"absent", "classless", "Audio/Sink", "Audio/Source"}
  /\ pcR \in {"create", "start"} => Unheard /\ ~ signalled
  /\ pcR = "wait" =>
       /\ audio_source
       /\ \/ answers = <<node, "done">> /\ node # "absent" /\ Unheard /\ (signalled => errored)
          \/ answers = <<"done">> /\ Heard /\ (signalled => errored)
          \/ answers = <<>> /\ Heard
  /\ pcR = "connect" => IF audio_source THEN errored \/ Heard ELSE Unheard
  /\ SourceFollowed

\* The answers, when there is a node of the name.
LEMMA TwoAnswers == ASSUME NEW x, NEW y PROVE <<x>> \o <<y>> = <<x, y>>
<1> DEFINE S == {x, y}
<1>1. /\ <<x>> \in Seq(S) /\ <<y>> \in Seq(S) /\ <<x, y>> \in Seq(S)
      /\ Len(<<x>>) = 1 /\ Len(<<y>>) = 1 /\ Len(<<x, y>>) = 2
  OBVIOUS
<1>2. <<x>> \o <<y>> \in Seq(S) /\ Len(<<x>> \o <<y>>) = 2
  BY <1>1, ConcatProperties
<1>3. (<<x>> \o <<y>>)[1] = x /\ (<<x>> \o <<y>>)[2] = y
  BY <1>1, ConcatProperties
<1>4. \A i \in 1 .. 2 : (<<x>> \o <<y>>)[i] = <<x, y>>[i]
  BY <1>3
<1> QED
  BY <1>1, <1>2, <1>4, SeqEqual

\* The node that was asked for is the one that is recorded from.
LEMMA RegistryKept ==
  ASSUME RegistryInv, ReaderQuiet \/ Reader!OnStreamProcess \/ Reader!PulseGets
                      \/ Reader!PulseRead \/ Reader!ReaderSends
  PROVE  RegistryInv'
<1> USE DEF RegistryInv
<1>0. UNCHANGED <<backend, audio_source, node>>
  BY DEF ReaderQuiet, Reader!CreateReader, Reader!StartPulse, Reader!StartPipeWire, Reader!Woken,
         Reader!Connect, Reader!Destroy, Reader!JoinReader, Reader!RegistryGlobal, Reader!CoreDone,
         Reader!CoreError, Reader!ReadFails, Reader!ReaderFails, Reader!OnStreamProcess,
         Reader!PulseGets, Reader!PulseRead, Reader!ReaderSends, Reader!readerVars, Reader!options
<1>1. CASE Reader!StartPipeWire
  <2>1. CASE audio_source
    <3>1. /\ pcR' = "wait" /\ UNCHANGED <<signalled, errored, source_found, source_is_sink>>
          /\ answers' = (IF node = "absent" THEN <<>> ELSE <<node>>) \o <<"done">>
          /\ pcR = "start"
      BY <1>1, <2>1 DEF Reader!StartPipeWire, Reader!Awaited
    <3>2. Unheard' /\ ~ signalled'
      BY <3>1 DEF Unheard
    <3>3. CASE node = "absent"
      <4>1. answers' = <<"done">>
        <5>1. <<"done">> \in Seq({"done"})
          OBVIOUS
        <5>2. <<>> \o <<"done">> = <<"done">>
          BY <5>1, ConcatEmptySeq
        <5> QED
          BY <3>1, <3>3, <5>2
      <4>2. Heard'
        BY <1>0, <3>2, <3>3 DEF Heard, Unheard, Reader!Named
      <4> QED
        BY <1>0, <2>1, <3>1, <3>2, <4>1, <4>2 DEF SourceFollowed
    <3>4. CASE node # "absent"
      <4>1. answers' = <<node, "done">>
        BY <3>1, <3>4, TwoAnswers
      <4> QED
        BY <1>0, <2>1, <3>1, <3>2, <3>4, <4>1 DEF SourceFollowed
    <3> QED
      BY <3>3, <3>4
  <2>2. CASE ~ audio_source
    BY <1>0, <1>1, <2>2 DEF Reader!StartPipeWire, Unheard, SourceFollowed
  <2> QED
    BY <2>1, <2>2
<1>2. CASE Reader!RegistryGlobal
  <2>1. /\ pcR = "wait" /\ answers # <<>> /\ Head(answers) # "done" /\ answers' = Tail(answers)
        /\ source_found' = Reader!Named(Head(answers))
        /\ source_is_sink' = (Head(answers) = "Audio/Sink")
        /\ UNCHANGED <<signalled, errored, pcR, target>>
    BY <1>2 DEF Reader!RegistryGlobal
  <2>2. answers = <<node, "done">> /\ (signalled => errored)
    BY <2>1
  <2>3. Head(answers) = node /\ Tail(answers) = <<"done">>
    BY <2>2
  <2>4. Heard'
    BY <1>0, <2>1, <2>3 DEF Heard, Reader!Named
  <2> QED
    BY <1>0, <2>1, <2>2, <2>3, <2>4 DEF SourceFollowed
<1>3. CASE Reader!CoreDone
  <2>1. /\ pcR = "wait" /\ answers # <<>> /\ Head(answers) = "done" /\ answers' = Tail(answers)
        /\ UNCHANGED <<errored, source_found, source_is_sink, pcR, target>>
    BY <1>3 DEF Reader!CoreDone
  <2>2. answers = <<"done">> /\ Heard
    <3>1. answers # <<node, "done">>
      BY <2>1
    <3> QED
      BY <2>1, <3>1
  <2>3. answers' = <<>> /\ Heard'
    BY <1>0, <2>1, <2>2 DEF Heard, Reader!Named
  <2> QED
    BY <1>0, <2>1, <2>3 DEF SourceFollowed
<1>4. CASE Reader!CoreError
  <2>1. /\ pcR = "wait" /\ errored' /\ UNCHANGED <<answers, source_found, source_is_sink, pcR, target>>
    BY <1>4 DEF Reader!CoreError
  <2>2. (Heard => Heard') /\ (Unheard => Unheard')
    BY <1>0, <2>1 DEF Heard, Unheard, Reader!Named
  <2> QED
    BY <1>0, <2>1, <2>2 DEF SourceFollowed
<1>5. CASE Reader!Woken
  <2>1. /\ pcR = "wait" /\ signalled /\ pcR' = "connect"
        /\ UNCHANGED <<errored, source_found, source_is_sink>>
    BY <1>5 DEF Reader!Woken, Reader!wait
  <2>2. (Heard => Heard')
    BY <1>0, <2>1 DEF Heard, Reader!Named
  <2> QED
    BY <1>0, <2>1, <2>2 DEF SourceFollowed
<1>6. CASE Reader!Connect
  <2>1. /\ pcR = "connect" /\ pcR' = "running" /\ UNCHANGED errored
        /\ target' = IF ~ source_found THEN "default"
                     ELSE IF source_is_sink THEN "Audio/Sink" ELSE "Audio/Source"
    BY <1>6 DEF Reader!Connect, Reader!wait
  <2>2. ASSUME ~ errored
        PROVE  target' = IF audio_source /\ Reader!Named(node) THEN node ELSE "default"
    <3>1. CASE ~ audio_source
      BY <2>1, <3>1 DEF Unheard
    <3>2. CASE audio_source
      BY <2>1, <2>2, <3>2 DEF Heard, Reader!Named
    <3> QED
      BY <3>1, <3>2
  <2>3. SourceFollowed'
    BY <1>0, <2>1, <2>2 DEF SourceFollowed, Reader!Named
  <2> QED
    BY <1>0, <2>1, <2>3
<1>7. CASE Reader!CreateReader \/ Reader!StartPulse \/ Reader!Destroy \/ Reader!JoinReader
  <2>1. /\ pcR' \in {"start", "none", "running"} /\ UNCHANGED <<signalled, source_found, source_is_sink>>
        /\ pcR' = "start" => pcR = "create"
        /\ pcR' = "running" => backend = "pulse"
    BY <1>7 DEF Reader!CreateReader, Reader!StartPulse, Reader!Destroy, Reader!JoinReader, Reader!wait
  <2>2. Unheard => Unheard'
    BY <2>1 DEF Unheard
  <2> QED
    BY <1>0, <2>1, <2>2 DEF SourceFollowed
<1>8. CASE \/ Reader!ReadFails \/ Reader!ReaderFails \/ Reader!OnStreamProcess \/ Reader!PulseGets
           \/ Reader!PulseRead \/ Reader!ReaderSends
  <2>1. UNCHANGED <<answers, signalled, errored, source_found, source_is_sink, pcR, target>>
    BY <1>8 DEF Reader!ReadFails, Reader!ReaderFails, Reader!OnStreamProcess, Reader!PulseGets,
         Reader!PulseRead, Reader!ReaderSends, Reader!readerVars, Reader!wait
  <2> QED
    BY <1>0, <2>1 DEF SourceFollowed, Heard, Unheard, Reader!Named
<1> QED
  BY <1>1, <1>2, <1>3, <1>4, <1>5, <1>6, <1>7, <1>8 DEF ReaderQuiet

-------------------------------------------------------------------------------
(* Theorems.                                                               *)

\* One program runs, and the other one has handed over nothing.
AudioInv ==
  /\ SoundInv /\ RegistryInv
  /\ program = "gpu-screen-recorder" => DeviceInv /\ added = <<>>
  /\ program = "wf-recorder" => ReaderInv /\ given = <<>>

\* Nothing is recorded and nothing was handed over.
LEMMA AudioStarts == InitAudio => AudioInv
<1> SUFFICES ASSUME InitAudio PROVE AudioInv
  OBVIOUS
<1> USE DEF InitAudio, InitServer, Device!InitDevice, Reader!InitReader
<1>1. queue = <<>> /\ sound = <<>> /\ given = <<>> /\ added = <<>>
  OBVIOUS
<1>2. <<>> \in Seq(Pieces) /\ <<>> \in Seq(Nat) /\ <<>> \in Seq(Seq(Nat))
  BY EmptySeq
<1>3. CutFrom(<<>>, <<>>)
  BY DEF CutFrom
<1>4. SoundInv
  BY <1>1, <1>2 DEF SoundInv
<1>5. RegistryInv
  BY DEF RegistryInv, Unheard, SourceFollowed, Reader!Nodes
<1>6. DeviceInv
  <2>1. Period \in Nat \ {0}
    BY PeriodAssumption DEF PeriodAssumption
  <2>2. DeviceType
    <3>1. output_data = [i \in 1 .. Period |-> 0] /\ 0 \in 0 .. Period
      BY <2>1
    <3> QED
      BY <1>1, <1>2, <3>1 DEF DeviceType, Device!Null
  <2>3. StartInv
    BY <2>1 DEF StartInv
  <2>4. HeadInv
    <3>1. Rest(<<>>) + 0 = 0
      BY NothingWaits
    <3> QED
      BY <1>1, <3>1, NothingWaits DEF HeadInv, Device!Null
  <2> QED
    BY <1>1, <1>3, <2>2, <2>3, <2>4 DEF DeviceInv
<1>7. ReaderInv
  BY <1>1, <1>2, <1>3 DEF ReaderInv, NotRunning
<1> QED
  BY <1>1, <1>4, <1>5, <1>6, <1>7 DEF AudioInv

\* What a step does to the sound and to the periods of the program that runs.
Goes(ps, ps2) ==
  \/ UNCHANGED sound /\ (ps2 = ps \/ Len(ps) <= Len(ps2))
  \/ ps2 = ps /\ \E new \in Pieces : sound' = sound \o new.data

\* A step of gpu-screen-recorder's device, or of the server.
LEMMA DeviceStep ==
  ASSUME SoundInv, DeviceInv, Device!NextDevice, UNCHANGED program
  PROVE  SoundInv' /\ DeviceInv' /\ Goes(given, given')
<1>0. DeviceType /\ (Live => HeadInv) /\ Len(given) \in Nat
  BY DeviceNumbers DEF DeviceInv
<1>1. CASE Device!Open \/ Device!Call \/ Device!TimesOut \/ Device!CloseDevice \/ Device!Fails
  BY <1>0, <1>1, DeviceRests, SoundKept, Zenon DEF Goes
<1>2. CASE Device!Sends
  <2>1. SoundInv' /\ DeviceInv' /\ UNCHANGED given
    BY <1>2, DeviceHears
  <2>2. PICK n \in Nat, hole \in BOOLEAN : Device!Record(n, hole)
    <3>1. 0 .. MaxFragment \subseteq Nat /\ 1 .. MaxFragment \subseteq Nat
      BY ServerAssumption DEF ServerAssumption
    <3> QED
      BY <1>2, <3>1, Zenon DEF Device!Sends
  <2>3. UNCHANGED sound \/ \E new \in Pieces : sound' = sound \o new.data
    BY <2>2, Recorded
  <2> QED
    BY <2>1, <2>3 DEF Goes
<1>3. CASE Device!Read
  <2>1. SoundInv' /\ UNCHANGED sound
    BY <1>0, <1>3, SoundKept
  <2>2. DeviceInv' /\ (given' = given \/ Len(given') = Len(given) + 1)
    BY <1>3, PeekKeeps, CopyPartKeeps, CopyAllKeeps DEF Device!Read
  <2> QED
    BY <1>0, <2>1, <2>2 DEF Goes
<1> QED
  BY <1>1, <1>2, <1>3 DEF Device!NextDevice

\* A step of wf-recorder's threads, or of the server.
LEMMA ReaderStep ==
  ASSUME SoundInv, ReaderInv, Reader!NextReader, UNCHANGED program
  PROVE  SoundInv' /\ ReaderInv' /\ Goes(added, added')
<1>0. Len(added) \in Nat
  BY RestIsNat DEF ReaderInv
<1>1. CASE ReaderQuiet
  BY <1>1, ReaderRests DEF Goes
<1>2. CASE Reader!ReaderSends
  <2>1. SoundInv' /\ ReaderInv' /\ UNCHANGED added
    BY <1>2, ReaderHears
  <2>2. PICK m \in Nat : Reader!Record(m, FALSE)
    <3>1. 0 .. MaxFragment \subseteq Nat
      BY ServerAssumption DEF ServerAssumption
    <3> QED
      BY <1>2, <3>1, Zenon DEF Reader!ReaderSends
  <2>3. UNCHANGED sound \/ \E new \in Pieces : sound' = sound \o new.data
    BY <2>2, Recorded
  <2> QED
    BY <2>1, <2>3 DEF Goes
<1>3. CASE Reader!OnStreamProcess
  BY <1>3, ProcessKeeps DEF Goes
<1>4. CASE Reader!PulseGets
  BY <1>4, GetsKeeps DEF Goes
<1>5. CASE Reader!PulseRead
  BY <1>0, <1>5, PulseReadKeeps DEF Goes
<1> QED
  BY <1>1, <1>2, <1>3, <1>4, <1>5 DEF Reader!NextReader, Reader!Writer, Reader!Thread, ReaderQuiet

\* The registry's variables are wf-recorder's.
LEMMA RegistryAlone ==
  ASSUME RegistryInv, UNCHANGED wf
  PROVE  RegistryInv'
BY DEF RegistryInv, SourceFollowed, Heard, Unheard, Reader!Named, wf

\* Every step of either program keeps the invariant, and hears or hands over.
LEMMA AudioStep ==
  ASSUME AudioInv, [NextAudio]_audioVars
  PROVE  AudioInv' /\ Goes(periods, periods')
<1>0. /\ program \in {"wf-recorder", "gpu-screen-recorder"}
      /\ program = "gpu-screen-recorder" => periods = given /\ Len(given) \in Nat
      /\ program = "wf-recorder" => periods = added
  BY ConcatEmptySeq, RestIsNat DEF AudioInv, SoundInv, periods, DeviceInv, DeviceType, ReaderInv
<1>1. CASE program = "gpu-screen-recorder" /\ Device!NextDevice /\ UNCHANGED <<program, wf>>
  <2>1. SoundInv' /\ DeviceInv' /\ Goes(given, given')
    BY <1>1, DeviceStep DEF AudioInv
  <2>2. RegistryInv' /\ added' = <<>>
    BY <1>1, RegistryAlone DEF AudioInv, wf
  <2>3. periods' = given'
    BY <2>1, <2>2, ConcatEmptySeq DEF periods, DeviceInv, DeviceType
  <2> QED
    BY <1>0, <1>1, <2>1, <2>2, <2>3 DEF AudioInv
<1>2. CASE program = "wf-recorder" /\ Reader!NextReader /\ UNCHANGED <<program, gsr>>
  <2>1. SoundInv' /\ ReaderInv' /\ Goes(added, added')
    BY <1>2, ReaderStep DEF AudioInv
  <2>2. RegistryInv' /\ given' = <<>>
    BY <1>2, RegistryKept DEF AudioInv, gsr, Reader!NextReader, Reader!Writer, Reader!Thread,
                             ReaderQuiet
  <2>3. periods' = added'
    BY <2>1, <2>2, ConcatEmptySeq DEF periods, ReaderInv
  <2> QED
    BY <1>0, <1>2, <2>1, <2>2, <2>3 DEF AudioInv
<1>3. CASE UNCHANGED audioVars
  <2>1. UNCHANGED <<program, serverVars, gsr, wf>>
    BY <1>3 DEF audioVars
  <2>2. SoundInv' /\ RegistryInv'
    BY <2>1, RegistryAlone DEF AudioInv, SoundInv, serverVars
  <2>3. (DeviceInv => DeviceInv') /\ (ReaderInv => ReaderInv')
    BY <2>1 DEF gsr, wf, serverVars, DeviceInv, DeviceType, StartInv, HeadInv, Live, ReaderInv
  <2>4. UNCHANGED <<sound, given, added, periods>>
    BY <2>1 DEF gsr, wf, serverVars, periods
  <2> QED
    BY <2>1, <2>2, <2>3, <2>4 DEF AudioInv, Goes
<1> QED
  BY <1>1, <1>2, <1>3 DEF NextAudio

\* The invariant of both programs.
THEOREM AudioInvariance == SpecAudio => []AudioInv
<1>1. AudioInv /\ [NextAudio]_audioVars => AudioInv'
  BY AudioStep
<1> QED
  BY <1>1, AudioStarts, PTL DEF SpecAudio

\* The source that was asked for, when PipeWire has it, is the one that is recorded from,
\* in whatever order its answers and the writer thread's steps come.
THEOREM OwnSource == SpecAudio => []SourceFollowed
<1>1. AudioInv => SourceFollowed
  BY DEF AudioInv, RegistryInv
<1> QED
  BY <1>1, AudioInvariance, PTL

\* The periods of the invariant are cut as the abstract specification cuts them.
LEMMA PeriodsCut ==
  ASSUME AudioInv
  PROVE  periods = Periods!Cut(Len(periods)) /\ Len(periods) <= Len(sound) \div Period
         /\ Len(periods) \in Nat /\ sound \in Seq(Nat)
<1>1. periods \in Seq(Seq(Nat)) /\ CutFrom(periods, sound) /\ sound \in Seq(Nat)
  BY ConcatEmptySeq DEF AudioInv, SoundInv, periods, DeviceInv, DeviceType, ReaderInv
<1>2. Len(periods) \in Nat
  BY <1>1, LenProperties
<1> QED
  BY <1>1, <1>2, AsCut DEF Periods!Cut

\* Fragments of any size, holes, time limits and a lost connection: the periods that are
\* handed over are the sound that came, whole, once and in order (PeriodStream).
THEOREM PeriodRefinement == SpecAudio => ImplementsPeriods
<1>1. InitAudio => Periods!PInit
  <2> SUFFICES ASSUME InitAudio PROVE Periods!PInit
    OBVIOUS
  <2>1. <<>> \o <<>> = <<>>
    BY ConcatEmptySeq, EmptySeq
  <2> QED
    BY <2>1 DEF InitAudio, InitServer, Device!InitDevice, Reader!InitReader, Periods!PInit, periods
<1>2. ASSUME AudioInv, [NextAudio]_audioVars
      PROVE  [Periods!Hear \/ Periods!HandOver]_<<sound, periods>>
  <2>0. AudioInv' /\ Goes(periods, periods')
    BY <1>2, AudioStep
  <2>1. /\ periods = Periods!Cut(Len(periods)) /\ Len(periods) \in Nat /\ sound \in Seq(Nat)
    BY <1>2, PeriodsCut
  <2>2. /\ periods' = Periods!Cut(Len(periods))' /\ Len(periods') <= Len(sound') \div Period
        /\ Len(periods') \in Nat
    <3>1. periods' \in Seq(Seq(Nat)) /\ CutFrom(periods', sound') /\ sound' \in Seq(Nat)
      BY <2>0, ConcatEmptySeq DEF AudioInv, SoundInv, periods, DeviceInv, DeviceType, ReaderInv
    <3>2. Len(periods') \in Nat
      BY <3>1, LenProperties
    <3> QED
      BY <3>1, <3>2, AsCut DEF Periods!Cut
  <2>3. CASE UNCHANGED sound /\ (periods' = periods \/ Len(periods) <= Len(periods'))
    <3>1. periods' = Periods!Cut(Len(periods'))
      BY <2>2, <2>3 DEF Periods!Cut
    <3>2. CASE Len(periods') = Len(periods)
      BY <2>1, <2>3, <3>1, <3>2
    <3>3. CASE Len(periods') # Len(periods) /\ periods' # periods
      <4>1. Len(periods') \in Len(periods) + 1 .. Len(sound) \div Period
        <5> DEFINE q == Len(sound) \div Period
        <5>1. Len(periods') <= q /\ Len(periods) <= Len(periods')
          BY <2>2, <2>3, <3>3
        <5>2. q \in Nat
          BY <2>1, Division, LenProperties, PeriodAssumption DEF PeriodAssumption
        <5> HIDE DEF q
        <5>3. Len(periods') \in Len(periods) + 1 .. q
          BY <2>1, <2>2, <3>3, <5>1, <5>2
        <5> QED
          BY <5>3 DEF q
      <4> QED
        BY <2>3, <3>1, <4>1 DEF Periods!HandOver
    <3> QED
      BY <2>3, <3>2, <3>3
  <2>4. CASE periods' = periods /\ \E new \in Pieces : sound' = sound \o new.data
    <3>1. PICK new \in Pieces : sound' = sound \o new.data
      BY <2>4
    <3> DEFINE data == new.data
               n == Len(data)
               l == Len(sound)
    <3>2. data \in Seq(Nat) /\ n \in Nat /\ (data = <<>> => n = 0) /\ (data # <<>> => n > 0)
      BY PieceHas
    <3>3. l \in Nat /\ sound' \in Seq(Nat) /\ Len(sound') = l + n
          /\ \A i \in 1 .. l : sound'[i] = sound[i]
      BY <2>1, <3>1, <3>2, ConcatProperties, LenProperties
    <3>4. CASE data = <<>>
      BY <2>1, <2>4, <3>1, <3>4, ConcatEmptySeq
    <3>5. CASE data # <<>>
      <4>1. n \in 1 .. Len(sound') /\ Len(sound') - n = l /\ 0 + l <= Len(sound')
            /\ 0 + 1 = 1 /\ 0 + l = l
        BY <3>2, <3>3, <3>5
      <4> DEFINE part == SubSeq(sound', 1, l)
      <4>2. part \in Seq(Nat) /\ Len(part) = l /\ \A j \in 1 .. l : part[j] = sound'[j]
        <5> HIDE DEF l, n
        <5>1. /\ SubSeq(sound', 0 + 1, 0 + l) \in Seq(Nat) /\ Len(SubSeq(sound', 0 + 1, 0 + l)) = l
              /\ \A j \in 1 .. l : SubSeq(sound', 0 + 1, 0 + l)[j] = sound'[0 + j]
          BY <3>3, <4>1, PartOf
        <5>2. \A j \in 1 .. l : 0 + j = j
          BY <3>3
        <5> QED
          BY <4>1, <5>1, <5>2
      <4> HIDE DEF part
      <4>3. part = sound
        BY <2>1, <3>3, <4>2, SeqEqual
      <4>4. SubSeq(sound', 1, Len(sound') - n) = sound
        BY <4>1, <4>3 DEF part
      <4> QED
        BY <2>4, <4>1, <4>4 DEF Periods!Hear
    <3> QED
      BY <3>4, <3>5
  <2> QED
    BY <2>0, <2>3, <2>4 DEF Goes
<1> QED
  BY <1>1, <1>2, AudioInvariance, PTL DEF SpecAudio, ImplementsPeriods, Periods!PSpec

===============================================================================
