---------------------------- MODULE MC_ScreenStream ----------------------------
(* Instances of ScreenStream. *)
EXTENDS ScreenStream

OneSender  == {"video"}
TwoSenders == {"video", "audio"}

\* Three packets of one thread, the last one as large as the tablet's buffer.
VideoPackets ==
  [s \in OneSender |->
     << [size |-> 5, id |-> 1], [size |-> 4, id |-> 2], [size |-> 8, id |-> 3] >>]

\* Two threads with different packets, one of them too small to be sent.
MixedPackets ==
  [s \in TwoSenders |->
     IF s = "video" THEN << [size |-> 5, id |-> 1], [size |-> 4, id |-> 3] >>
                    ELSE << [size |-> 4, id |-> 2], [size |-> 3, id |-> 2] >>]
===============================================================================
