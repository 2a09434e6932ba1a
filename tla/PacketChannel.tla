----------------------------- MODULE PacketChannel -----------------------------
(***************************************************************************)
(* What the README promises of the stream: "The application receives the   *)
(* encoded frames from the TCP server and display them."  The tablet gets  *)
(* the packets that the encoder emitted, whole and in their order.         *)
(***************************************************************************)
EXTENDS Naturals, Sequences

CONSTANT Packet      \* what may be sent

VARIABLES sent,      \* packets the server has sent
          got        \* packets the tablet has given to its decoder

CInit == sent = <<>> /\ got = <<>>

Send    == /\ \E p \in Packet : sent' = Append(sent, p)
           /\ UNCHANGED got

Receive == /\ Len(got) < Len(sent)
           /\ got' = Append(got, sent[Len(got) + 1])
           /\ UNCHANGED sent

CSpec == CInit /\ [][Send \/ Receive]_<<sent, got>>
===============================================================================
