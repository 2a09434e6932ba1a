-------------------------- MODULE ScreenStreamProofs --------------------------
(***************************************************************************)
(* Proofs about ScreenStream: when the callers hold a mutex and no read    *)
(* ends inside a header, the tablet's decoder gets the packets that were   *)
(* sent, whole and in their order, whatever their number and sizes, the    *)
(* base of a byte, the window of the connection and the tablet's buffer.   *)
(*                                                                         *)
(* The invariant is about the bytes that are pending: those in buff, and   *)
(* then those on the wire.  It says where in them the header of each       *)
(* packet begins that the tablet has not come to, and what follows it.     *)
(***************************************************************************)
EXTENDS ScreenStream, SequenceTheorems, TLAPS

MaxSize   == Radix * Radix * Radix * (Radix \div 2) - 1
AnyPacket == [size : 0 .. MaxSize, id : 1 .. Radix - 1]
BigPacket == {p \in AnyPacket : p.size > 3}
Byte      == [b : 0 .. Radix - 1, mid : BOOLEAN]
Idle      == Server!NoCaller

-------------------------------------------------------------------------------
(* What holds of the server.                                               *)

ServerTypeOK ==
  /\ pcS \in [Senders -> {"idle", "init", "accept", "test", "header", "payload"}]
  /\ next \in [Senders -> Nat \ {0}] /\ result \in [Senders -> {"none", "sent", "dropped"}]
  /\ s_socket \in {"none", "open"} /\ c_socket \in {"none", "open"}
  /\ link \in {"none", "backlog", "up", "closed"}
  /\ wire \in Seq(Byte) /\ sent \in Seq(BigPacket) /\ holder \in Senders \cup {Idle}

\* A thread that is in send_data has a packet, and what it has passed was so.
CallerInv ==
  \A s \in Senders :
    /\ pcS[s] # "idle" => next[s] <= Len(Packets[s])
    /\ pcS[s] \notin {"idle", "init"} => s_socket = "open"
    /\ pcS[s] \in {"header", "payload"} => Server!Sendable(Server!Packet(s)) /\ c_socket = "open"

\* The mutex: the thread that is in send_data holds it.
MutexInv == Locked => \A s \in Senders : pcS[s] # "idle" => holder = s

\* The connection is there once it was accepted, and carries nothing before.
ConnectionInv ==
  /\ c_socket = "open" => link \in {"up", "closed"}
  /\ link = "up" => c_socket = "open"
  /\ link \in {"none", "backlog"} => wire = <<>>

\* Until somebody was accepted no call has returned.
FirstCallInv ==
  Locked /\ (s_socket = "none" \/ (\E s \in Senders : pcS[s] = "accept"))
    => \A s \in Senders : result[s] = "none" /\ pcS[s] \in {"idle", "init", "accept"}

ServerInv == ServerTypeOK /\ CallerInv /\ MutexInv /\ ConnectionInv /\ FirstCallInv

\* What is assumed of the constants, as the proofs below need it.
LEMMA Constants ==
  /\ Radix \in Nat \ {0} /\ maxBuffSize \in Nat /\ maxBuffSize >= 8
  /\ HeadersWhole \in BOOLEAN /\ Locked \in BOOLEAN
  /\ Idle \notin Senders /\ Packets \in [Senders -> Seq(AnyPacket)]
<1>1. Radix \in Nat /\ Radix >= 2
  BY ScreenAssumption DEF ScreenAssumption
<1>2. maxBuffSize \in Nat /\ maxBuffSize >= 8 /\ HeadersWhole \in BOOLEAN /\ Locked \in BOOLEAN
  BY ScreenAssumption, Zenon DEF ScreenAssumption
<1>3. Idle \notin Senders
  BY ScreenAssumption, Zenon DEF ScreenAssumption, Idle, Server!NoCaller
<1>4. Packets \in [Senders -> Seq(AnyPacket)]
  BY ScreenAssumption, Zenon DEF ScreenAssumption, AnyPacket, MaxSize
<1>5. Radix \in Nat \ {0}
  BY <1>1
<1> QED
  BY <1>2, <1>3, <1>4, <1>5

\* The greatest size is a number.
LEMMA MaxSizeIsNat == MaxSize \in Nat
<1>1. Radix \in Nat /\ Radix >= 2
  BY ScreenAssumption DEF ScreenAssumption
<1>2. Radix \div 2 \in Nat \ {0}
  BY <1>1
<1>3. Radix * Radix * Radix \in Nat \ {0}
  BY <1>1
<1>4. Radix * Radix * Radix * (Radix \div 2) \in Nat \ {0}
  BY <1>2, <1>3
<1> QED
  BY <1>4 DEF MaxSize

\* A function on the first n numbers is a sequence of n elements.
LEMMA FunctionIsSeq ==
  ASSUME NEW S, NEW n \in Nat, NEW f \in [1 .. n -> S]
  PROVE  f \in Seq(S) /\ Len(f) = n
<1>1. f \in Seq(S)
  BY SeqDef
<1>2. DOMAIN f = 1 .. Len(f) /\ Len(f) \in Nat
  BY <1>1, LenProperties
<1> QED
  BY <1>1, <1>2

-------------------------------------------------------------------------------
(* Digits.                                                                 *)

\* Division is unique.
LEMMA Unique ==
  ASSUME NEW n \in Nat, NEW w \in Nat \ {0}, NEW k \in Nat, NEW r \in 0 .. w - 1, n = w * k + r
  PROVE  n \div w = k /\ n % w = r
<1>1. n \div w \in Nat /\ n % w \in 0 .. w - 1 /\ n = w * (n \div w) + (n % w)
  OBVIOUS
<1>2. w * (n \div w) - w * k = w * ((n \div w) - k)
  BY <1>1
<1>3. ~ (n \div w > k)
  <2> SUFFICES ASSUME n \div w > k PROVE FALSE
    OBVIOUS
  <2>1. w * ((n \div w) - k) >= w
    BY <1>1
  <2> QED
    BY <2>1, <1>1, <1>2
<1>4. ~ (n \div w < k)
  <2> SUFFICES ASSUME n \div w < k PROVE FALSE
    OBVIOUS
  <2>1. w * ((n \div w) - k) <= - w
    BY <1>1
  <2> QED
    BY <2>1, <1>1, <1>2
<1> QED
  BY <1>1, <1>3, <1>4

\* Dividing by two weights, one after the other.
LEMMA Nested ==
  ASSUME NEW n \in Nat, NEW R \in Nat \ {0}, NEW w \in Nat \ {0}
  PROVE  n \div (w * R) = (n \div w) \div R
<1> DEFINE q == n \div w
           k == q \div R
           s == n % w
           t == q % R
<1>1. q \in Nat /\ s \in 0 .. w - 1 /\ n = w * q + s
  OBVIOUS
<1> HIDE DEF q, s
<1>2. k \in Nat /\ t \in 0 .. R - 1 /\ q = R * k + t
  BY <1>1
<1> HIDE DEF k, t
<1>3. n = (w * R) * k + (w * t + s)
  <2>1. w * q = w * (R * k) + w * t
    BY <1>2, <1>1
  <2>2. w * (R * k) = (w * R) * k
    BY <1>2
  <2> QED
    BY <1>1, <1>2, <2>1, <2>2
<1>4. w * t + s \in 0 .. w * R - 1
  <2>1. w * t <= w * (R - 1)
    BY <1>2
  <2>2. w * (R - 1) = w * R - w /\ w * t \in Nat /\ w * R \in Nat
    BY <1>2
  <2> QED
    BY <1>1, <2>1, <2>2
<1>5. w * R \in Nat \ {0}
  OBVIOUS
<1>6. n \div (w * R) = k
  BY <1>2, <1>3, <1>4, <1>5, Unique
<1> QED
  BY <1>6 DEF k, q

\* A digit is its own remainder.
LEMMA Small ==
  ASSUME NEW w \in Nat \ {0}, NEW r \in 0 .. w - 1
  PROVE  r % w = r
<1>1. r \in Nat /\ r % w \in 0 .. w - 1 /\ r \div w \in Nat /\ r = w * (r \div w) + (r % w)
  OBVIOUS
<1>2. ~ (r \div w >= 1)
  <2> SUFFICES ASSUME r \div w >= 1 PROVE FALSE
    OBVIOUS
  <2>1. w * (r \div w) >= w
    BY <1>1
  <2> QED
    BY <1>1, <2>1
<1>3. r \div w = 0
  BY <1>1, <1>2
<1> QED
  BY <1>1, <1>3

\* The four digits of a number make that number.
LEMMA Value ==
  ASSUME NEW R \in Nat, R >= 2, R % 2 = 0, NEW n \in 0 .. R * R * R * (R \div 2) - 1
  PROVE  LET b1 == (n \div (R * R * R)) % R
             b2 == (n \div (R * R)) % R
             b3 == (n \div R) % R
             b4 == (n \div 1) % R
         IN  /\ {b1, b2, b3, b4} \subseteq 0 .. R - 1
             /\ (((b1 % (R \div 2)) * R + b2) * R + b3) * R + b4 = n
<1> DEFINE h == R \div 2
           q1 == n \div R
           q2 == q1 \div R
           q3 == q2 \div R
<1>1. h \in Nat \ {0} /\ R = 2 * h /\ n \in Nat
  OBVIOUS
<1>2. n \div 1 = n
  OBVIOUS
<1>3. n \div (R * R) = q2 /\ n \div (R * R * R) = q3
  <2>0. R \in Nat \ {0}
    OBVIOUS
  <2>1. n \div (R * R) = q2
    BY <1>1, <2>0, Nested, Zenon
  <2>2. R * R \in Nat \ {0}
    OBVIOUS
  <2>3. n \div (R * R * R) = (n \div (R * R)) \div R
    BY <1>1, <2>0, <2>2, Nested, Zenon
  <2> QED
    BY <2>1, <2>3
<1>4. q1 \in Nat /\ n % R \in 0 .. R - 1 /\ n = R * q1 + (n % R)
  BY <1>1
<1> HIDE DEF q1
<1>5. q2 \in Nat /\ q1 % R \in 0 .. R - 1 /\ q1 = R * q2 + (q1 % R)
  BY <1>4
<1> HIDE DEF q2
<1>6. q3 \in Nat /\ q2 % R \in 0 .. R - 1 /\ q2 = R * q3 + (q2 % R)
  BY <1>5
<1> HIDE DEF q3, h
<1>7. q3 < h
  <2> SUFFICES ASSUME q3 >= h PROVE FALSE
    BY <1>1, <1>6
  <2>1. q2 >= R * h
    <3>1. R * q3 >= R * h
      BY <1>1, <1>6
    <3> QED
      BY <1>1, <1>6, <3>1
  <2>2. q1 >= R * (R * h)
    <3>1. R * q2 >= R * (R * h)
      BY <1>1, <1>5, <2>1
    <3> QED
      BY <1>1, <1>5, <3>1
  <2>3. n >= R * (R * (R * h))
    <3>1. R * q1 >= R * (R * (R * h))
      BY <1>1, <1>4, <2>2
    <3> QED
      BY <1>1, <1>4, <3>1
  <2>4. R * (R * (R * h)) = R * R * R * h
    BY <1>1
  <2>5. n <= R * R * R * h - 1
    BY DEF h
  <2>6. R * R * R * h \in Nat
    BY <1>1
  <2> QED
    BY <1>1, <2>3, <2>4, <2>5, <2>6
<1>8. q3 % R = q3 /\ q3 % h = q3
  <2>1. q3 = R * 0 + q3 /\ q3 = h * 0 + q3 /\ q3 \in 0 .. R - 1 /\ q3 \in 0 .. h - 1
    BY <1>1, <1>6, <1>7
  <2>2. R \in Nat \ {0} /\ 0 \in Nat
    BY <1>1
  <2>3. q3 % R = q3
    BY <2>1, <2>2, Small, Zenon
  <2>4. q3 % h = q3
    BY <1>1, <2>1, Small, Zenon
  <2> QED
    BY <2>3, <2>4
<1>9. ((q3 * R + (q2 % R)) * R + (q1 % R)) * R + (n % R) = n
  BY <1>1, <1>4, <1>5, <1>6
<1> QED
  BY <1>2, <1>3, <1>4, <1>5, <1>6, <1>7, <1>8, <1>9 DEF h, q1, q2, q3


-------------------------------------------------------------------------------
(* Packets and their bytes.                                                *)

\* The packet a thread is about to send is one of those there are.
LEMMA PacketOf ==
  ASSUME ServerTypeOK, CallerInv, NEW s \in Senders, pcS[s] # "idle"
  PROVE  /\ next[s] \in 1 .. Len(Packets[s]) /\ Server!Packet(s) = Packets[s][next[s]]
         /\ Server!Packet(s) \in AnyPacket
<1>1. Packets[s] \in Seq(AnyPacket)
  BY Constants
<1>2. Len(Packets[s]) \in Nat
  BY <1>1, LenProperties
<1>3. next[s] \in 1 .. Len(Packets[s])
  BY <1>2 DEF ServerTypeOK, CallerInv
<1>4. Packets[s][next[s]] \in AnyPacket
  BY <1>1, <1>3, ElementOfSeq
<1> QED
  BY <1>3, <1>4 DEF Server!Packet

\* The bytes of a header: four digits, and no read ends after the first three.
LEMMA HeaderBytes ==
  ASSUME NEW p \in AnyPacket
  PROVE  /\ Server!Header(p.size) \in Seq(Byte) /\ Len(Server!Header(p.size)) = 4
         /\ \A j \in 1 .. 4 : Server!Header(p.size)[j].b = Server!Digit(p.size, Server!Weights[j])
         /\ \A j \in 1 .. 3 : Server!Header(p.size)[j].mid
<1>0. Radix \in Nat \ {0}
  BY Constants
<1>1. p.size \in Nat
  BY MaxSizeIsNat DEF AnyPacket
<1>2. \A w \in Nat \ {0} : Server!Digit(p.size, w) \in 0 .. Radix - 1
  <2> SUFFICES ASSUME NEW w \in Nat \ {0} PROVE Server!Digit(p.size, w) \in 0 .. Radix - 1
    OBVIOUS
  <2>1. p.size \div w \in Nat
    BY <1>1
  <2> QED
    BY <2>1, <1>0 DEF Server!Digit
<1>3. \A j \in 1 .. 4 : Server!Weights[j] \in Nat \ {0}
  <2>1. /\ Radix \in Nat \ {0} /\ Radix * Radix \in Nat \ {0}
        /\ Radix * Radix * Radix \in Nat \ {0} /\ 1 \in Nat \ {0}
    BY <1>0
  <2> QED
    BY <2>1 DEF Server!Weights
<1>4. \A j \in 1 .. 4 :
        [b |-> Server!Digit(p.size, Server!Weights[j]), mid |-> j < 4] \in Byte
  BY <1>2, <1>3 DEF Byte
<1>5. Server!Header(p.size) \in [1 .. 4 -> Byte]
  BY <1>4 DEF Server!Header
<1>6. Server!Header(p.size) \in Seq(Byte) /\ Len(Server!Header(p.size)) = 4
  BY <1>5, FunctionIsSeq, ZenonT(60)
<1>7. \A j \in 1 .. 4 :
        Server!Header(p.size)[j] = [b |-> Server!Digit(p.size, Server!Weights[j]), mid |-> j < 4]
  BY DEF Server!Header
<1>8. \A j \in 1 .. 4 : Server!Header(p.size)[j].b = Server!Digit(p.size, Server!Weights[j])
  BY <1>7
<1>9. \A j \in 1 .. 3 : Server!Header(p.size)[j].mid
  <2>1. \A j \in 1 .. 3 : j \in 1 .. 4 /\ j < 4
    OBVIOUS
  <2> SUFFICES ASSUME NEW j \in 1 .. 3 PROVE Server!Header(p.size)[j].mid
    OBVIOUS
  <2>2. (j < 4) = TRUE
    BY <2>1
  <2>3. Server!Header(p.size)[j]
          = [b |-> Server!Digit(p.size, Server!Weights[j]), mid |-> j < 4]
    BY <1>7, <2>1, Zenon
  <2>4. Server!Header(p.size)[j]
          = [b |-> Server!Digit(p.size, Server!Weights[j]), mid |-> TRUE]
    BY <2>2, <2>3, Zenon
  <2> QED
    BY <2>4
<1> QED
  BY <1>6, <1>8, <1>9

\* The bytes of a payload.
LEMMA PayloadBytes ==
  ASSUME NEW p \in AnyPacket
  PROVE  /\ Server!Payload(p) \in Seq(Byte) /\ Len(Server!Payload(p)) = p.size
         /\ \A j \in 1 .. p.size : Server!Payload(p)[j].b = p.id
         /\ PayloadOf(p) \in Seq(Nat) /\ Len(PayloadOf(p)) = p.size
         /\ \A j \in 1 .. p.size : PayloadOf(p)[j] = p.id
<1>1. p.size \in Nat /\ p.id \in 0 .. Radix - 1 /\ p.id \in Nat
  BY MaxSizeIsNat, Constants DEF AnyPacket
<1>2. Server!Payload(p) \in [1 .. p.size -> Byte]
  BY <1>1 DEF Server!Payload, Byte
<1>3. Server!Payload(p) \in Seq(Byte) /\ Len(Server!Payload(p)) = p.size
  BY <1>1, <1>2, FunctionIsSeq
<1>4. \A j \in 1 .. p.size : Server!Payload(p)[j].b = p.id
  BY DEF Server!Payload
<1>5. PayloadOf(p) = [j \in 1 .. p.size |-> Server!Payload(p)[j].b]
  BY <1>3 DEF PayloadOf, IdsOf
<1>6. PayloadOf(p) \in [1 .. p.size -> Nat]
  BY <1>1, <1>4, <1>5
<1>7. PayloadOf(p) \in Seq(Nat) /\ Len(PayloadOf(p)) = p.size
  BY <1>1, <1>6, FunctionIsSeq
<1> QED
  BY <1>3, <1>4, <1>5, <1>7

-------------------------------------------------------------------------------
(* The server's invariant.                                                 *)

\* The first state: nobody calls, nobody is connected, nothing was sent.
LEMMA ServerInit == Init => ServerInv
<1> SUFFICES ASSUME Init PROVE ServerInv
  OBVIOUS
<1> USE DEF Init, Server!Init
<1>1. <<>> \in Seq(Byte) /\ <<>> \in Seq(BigPacket)
  BY EmptySeq
<1>2. ServerTypeOK
  BY <1>1 DEF ServerTypeOK, Idle
<1>3. CallerInv /\ MutexInv /\ ConnectionInv /\ FirstCallInv
  BY DEF CallerInv, MutexInv, ConnectionInv, FirstCallInv
<1> QED
  BY <1>2, <1>3 DEF ServerInv

\* The bytes that are on the connection after a send, and what they are.
LEMMA Transmitted ==
  ASSUME ServerTypeOK, NEW bytes \in Seq(Byte), Server!Transmit(bytes)
  PROVE  /\ wire' \in Seq(Byte)
         /\ link # "up" => wire' = wire
         /\ link = "up" => /\ Len(wire') = Len(wire) + Len(bytes)
                           /\ \A i \in 1 .. Len(wire) + Len(bytes) :
                                wire'[i] = IF i <= Len(wire) THEN wire[i] ELSE bytes[i - Len(wire)]
<1>1. wire \in Seq(Byte)
  BY DEF ServerTypeOK
<1>2. CASE link = "up"
  BY <1>1, <1>2, ConcatProperties DEF Server!Transmit
<1>3. CASE link # "up"
  BY <1>1, <1>3 DEF Server!Transmit
<1> QED
  BY <1>2, <1>3

\* A call that returns leaves the mutex to the others, which were not in send_data.
LEMMA Returned ==
  ASSUME ServerInv, NEW s \in Senders, pcS[s] # "idle", NEW what \in {"sent", "dropped"},
         Server!Return(s, what), UNCHANGED <<s_socket, c_socket, link>>,
         wire' \in Seq(Byte), link \in {"none", "backlog"} => wire' = wire,
         sent' \in Seq(BigPacket), pcS[s] \notin {"init", "accept"}
  PROVE  ServerInv'
<1> USE DEF ServerInv, Server!Return
<1>1. ServerTypeOK'
  BY DEF ServerTypeOK, Idle
<1>2. CallerInv'
  BY DEF ServerTypeOK, CallerInv, Server!Packet, Server!Sendable
<1>3. MutexInv'
  BY DEF ServerTypeOK, MutexInv
<1>4. ConnectionInv'
  BY DEF ConnectionInv
<1>5. FirstCallInv'
  <2>1. s_socket = "open"
    BY DEF ServerTypeOK, CallerInv
  <2>2. ASSUME Locked, NEW t \in Senders, pcS'[t] = "accept" PROVE FALSE
    <3>1. t # s /\ pcS[t] = "accept"
      BY <2>2 DEF ServerTypeOK
    <3>2. holder = t /\ holder = s
      BY <2>2, <3>1 DEF MutexInv
    <3> QED
      BY <3>1, <3>2
  <2> QED
    BY <2>1, <2>2 DEF FirstCallInv
<1> QED
  BY <1>1, <1>2, <1>3, <1>4, <1>5

\* send_data preserves the invariant.
LEMMA SendDataKeepsServer ==
  ASSUME ServerInv, NEW s \in Senders, Server!SendData(s)
  PROVE  ServerInv'
<1> USE DEF ServerInv, Server!connVars
<1>1. CASE Server!Call(s)
  <2>1. \A t \in Senders : Locked => pcS[t] = "idle"
    BY <1>1, Constants DEF Server!Call, Server!MayCall, MutexInv, Idle
  <2>2. ServerTypeOK'
    BY <1>1 DEF Server!Call, ServerTypeOK
  <2>3. CallerInv'
    BY <1>1 DEF Server!Call, ServerTypeOK, CallerInv, Server!Packet, Server!Sendable
  <2>4. MutexInv'
    BY <1>1, <2>1 DEF Server!Call, ServerTypeOK, MutexInv
  <2>5. ConnectionInv' /\ FirstCallInv'
    BY <1>1 DEF Server!Call, ServerTypeOK, ConnectionInv, FirstCallInv
  <2> QED
    BY <2>2, <2>3, <2>4, <2>5
<1>2. CASE Server!InitServer(s)
  <2>1. ServerTypeOK'
    BY <1>2 DEF Server!InitServer, ServerTypeOK
  <2>2. CallerInv'
    BY <1>2 DEF Server!InitServer, Server!MustInit, ServerTypeOK, CallerInv, Server!Packet,
                Server!Sendable
  <2>3. MutexInv' /\ ConnectionInv'
    BY <1>2 DEF Server!InitServer, ServerTypeOK, MutexInv, ConnectionInv
  <2>4. FirstCallInv'
    <3>1. CASE Server!MustInit(s)
      BY <1>2, <3>1 DEF Server!InitServer, Server!MustInit, ServerTypeOK, FirstCallInv
    <3>2. CASE ~ Server!MustInit(s)
      <4>1. s_socket' # "none" /\ pcS' = [pcS EXCEPT ![s] = "test"] /\ pcS[s] = "init"
        BY <1>2, <3>2 DEF Server!InitServer, Server!MustInit
      <4>2. ASSUME Locked, NEW t \in Senders, pcS'[t] = "accept" PROVE FALSE
        <5>1. t # s /\ pcS[t] = "accept"
          BY <4>1, <4>2 DEF ServerTypeOK
        <5> QED
          BY <4>1, <4>2, <5>1 DEF MutexInv
      <4> QED
        BY <4>1, <4>2 DEF FirstCallInv
    <3> QED
      BY <3>1, <3>2
  <2> QED
    BY <2>1, <2>2, <2>3, <2>4
<1>3. CASE Server!Accept(s)
  <2>1. ServerTypeOK'
    BY <1>3 DEF Server!Accept, ServerTypeOK
  <2>2. CallerInv'
    BY <1>3 DEF Server!Accept, ServerTypeOK, CallerInv, Server!Packet, Server!Sendable
  <2>3. MutexInv' /\ ConnectionInv'
    BY <1>3 DEF Server!Accept, ServerTypeOK, MutexInv, ConnectionInv
  <2>4. FirstCallInv'
    <3>1. pcS' = [pcS EXCEPT ![s] = "test"] /\ pcS[s] = "accept" /\ s_socket' = "open"
      BY <1>3 DEF Server!Accept, ServerTypeOK, CallerInv
    <3>2. ASSUME Locked, NEW t \in Senders, pcS'[t] = "accept" PROVE FALSE
      <4>1. t # s /\ pcS[t] = "accept"
        BY <3>1, <3>2 DEF ServerTypeOK
      <4> QED
        BY <3>1, <3>2, <4>1 DEF MutexInv
    <3> QED
      BY <3>1, <3>2 DEF FirstCallInv
  <2> QED
    BY <2>1, <2>2, <2>3, <2>4
<1>4. CASE Server!Test(s)
  <2>1. CASE c_socket = "open" /\ Server!Sendable(Server!Packet(s))
    <3>1. pcS' = [pcS EXCEPT ![s] = "header"] /\ pcS[s] = "test"
          /\ UNCHANGED <<s_socket, c_socket, link, wire, sent, next, result, holder>>
      BY <1>4, <2>1 DEF Server!Test
    <3>2. ServerTypeOK'
      BY <3>1 DEF ServerTypeOK
    <3>3. CallerInv'
      BY <2>1, <3>1 DEF ServerTypeOK, CallerInv, Server!Packet, Server!Sendable
    <3>4. MutexInv' /\ ConnectionInv'
      BY <3>1 DEF ServerTypeOK, MutexInv, ConnectionInv
    <3>5. FirstCallInv'
      BY <3>1 DEF ServerTypeOK, FirstCallInv, CallerInv
    <3> QED
      BY <3>2, <3>3, <3>4, <3>5
  <2>2. CASE ~ (c_socket = "open" /\ Server!Sendable(Server!Packet(s)))
    <3>1. Server!Return(s, "dropped") /\ pcS[s] = "test" /\ UNCHANGED <<s_socket, c_socket, link>>
          /\ UNCHANGED wire /\ UNCHANGED sent
      BY <1>4, <2>2 DEF Server!Test
    <3> QED
      BY <3>1, Returned DEF ServerTypeOK
  <2> QED
    BY <2>1, <2>2
<1>5. ASSUME Server!SendFails(s), pcS[s] \in {"header", "payload"},
             UNCHANGED <<s_socket, c_socket, link>>
      PROVE  ServerInv'
  <2>1. CASE UNCHANGED <<pcS, next, result, holder>>
    <3>1. UNCHANGED <<s_socket, c_socket, link, wire, sent, pcS, next, result, holder>>
      BY <1>5, <2>1 DEF Server!SendFails
    <3> QED
      BY <3>1 DEF ServerTypeOK, CallerInv, MutexInv, ConnectionInv, FirstCallInv, Server!Packet,
                  Server!Sendable
  <2>2. CASE Server!Return(s, "dropped")
    BY <1>5, <2>2, Returned DEF ServerTypeOK, Server!SendFails
  <2> QED
    BY <1>5, <2>1, <2>2 DEF Server!SendFails, Server!callers
<1>6. CASE Server!SendHeader(s)
  <2>0. pcS[s] = "header" /\ UNCHANGED <<s_socket, c_socket, link>>
    BY <1>6 DEF Server!SendHeader
  <2>1. CASE Server!SendFails(s)
    BY <1>5, <2>0, <2>1
  <2>2. CASE /\ Server!Transmit(Server!Header(Server!Packet(s).size)) /\ UNCHANGED sent
             /\ pcS' = [pcS EXCEPT ![s] = "payload"] /\ UNCHANGED <<next, result, holder>>
    <3>1. Server!Packet(s) \in AnyPacket
      BY <2>0, PacketOf
    <3>2. Server!Header(Server!Packet(s).size) \in Seq(Byte)
      BY <3>1, HeaderBytes
    <3>3. wire' \in Seq(Byte) /\ (link # "up" => wire' = wire)
      BY <2>2, <3>2, Transmitted
    <3>4. ServerTypeOK'
      BY <2>0, <2>2, <3>3 DEF ServerTypeOK
    <3>5. CallerInv'
      BY <2>0, <2>2 DEF ServerTypeOK, CallerInv, Server!Packet, Server!Sendable
    <3>6. MutexInv' /\ ConnectionInv'
      BY <2>0, <2>2, <3>3 DEF ServerTypeOK, MutexInv, ConnectionInv
    <3>7. FirstCallInv'
      BY <2>0, <2>2 DEF ServerTypeOK, FirstCallInv, CallerInv
    <3> QED
      BY <3>4, <3>5, <3>6, <3>7
  <2> QED
    BY <1>6, <2>1, <2>2 DEF Server!SendHeader
<1>7. CASE Server!SendPayload(s)
  <2>0. pcS[s] = "payload" /\ UNCHANGED <<s_socket, c_socket, link>>
    BY <1>7 DEF Server!SendPayload
  <2>1. CASE Server!SendFails(s)
    BY <1>5, <2>0, <2>1
  <2>2. CASE /\ Server!Transmit(Server!Payload(Server!Packet(s)))
             /\ sent' = (IF link = "up" THEN Append(sent, Server!Packet(s)) ELSE sent)
             /\ Server!Return(s, "sent")
    <3>1. Server!Packet(s) \in AnyPacket
      BY <2>0, PacketOf
    <3>2. Server!Payload(Server!Packet(s)) \in Seq(Byte)
      BY <3>1, PayloadBytes
    <3>3. wire' \in Seq(Byte) /\ (link # "up" => wire' = wire)
      BY <2>2, <3>2, Transmitted
    <3>4. Server!Packet(s) \in BigPacket
      BY <2>0, <3>1 DEF CallerInv, Server!Sendable, BigPacket
    <3>5. sent' \in Seq(BigPacket)
      BY <2>2, <3>4, AppendProperties DEF ServerTypeOK
    <3> QED
      BY <2>0, <2>2, <3>3, <3>5, Returned
  <2> QED
    BY <1>7, <2>1, <2>2 DEF Server!SendPayload
<1> QED
  BY <1>1, <1>2, <1>3, <1>4, <1>6, <1>7 DEF Server!SendData

\* The tablet's thread preserves the server's invariant: it moves the connection
\* forward, takes bytes off the wire, and closes.
LEMMA PlayerKeepsServer ==
  ASSUME ServerInv, Tablet!Player, UNCHANGED serverOnly
  PROVE  ServerInv'
<1> USE DEF ServerInv, serverOnly
<1>1. s_socket' = s_socket
  BY DEF Tablet!Player, Tablet!SurfaceChanged, Tablet!SurfaceDestroyed, Tablet!Thread,
         Tablet!Connect, Tablet!StartDecoder, Tablet!Read, Tablet!ReadMore, Tablet!ParseHeader,
         Tablet!Continue, Tablet!Take, Tablet!QueueInputBuffer, Tablet!End,
         Tablet!OnInputBufferAvailable, Tablet!OnError, Tablet!serverSide
<1>2. /\ wire' \in Seq(Byte) /\ link' \in {"none", "backlog", "up", "closed"}
      /\ link' # link => (link = "none" /\ link' = "backlog") \/ link' = "closed"
      /\ wire = <<>> => wire' = <<>>
  <2>1. CASE UNCHANGED wire /\ (link' = link \/ (link = "none" /\ link' = "backlog"))
    BY <2>1 DEF ServerTypeOK
  <2>2. CASE \E k \in 1 .. maxBuffSize : Tablet!Arrive(k) /\ UNCHANGED link
    <3>1. PICK k \in 1 .. maxBuffSize : Tablet!Arrive(k) /\ UNCHANGED link
      BY <2>2
    <3>2. k \in 1 .. Len(wire) /\ wire' = SubSeq(wire, k + 1, Len(wire)) /\ wire \in Seq(Byte)
          /\ Len(wire) \in Nat
      BY <3>1, LenProperties DEF Tablet!Arrive, ServerTypeOK
    <3>3. \A i \in k + 1 .. Len(wire) : wire[i] \in Byte
      BY <3>2, ElementOfSeq
    <3>4. wire' \in Seq(Byte)
      BY <3>2, <3>3, SubSeqProperties
    <3>5. wire # <<>>
      BY <3>2, EmptySeq
    <3> QED
      BY <3>1, <3>4, <3>5 DEF ServerTypeOK
  <2>3. CASE Tablet!End
    <3>1. <<>> \in Seq(Byte)
      BY EmptySeq
    <3> QED
      BY <2>3, <3>1 DEF Tablet!End, Tablet!network, ServerTypeOK
  <2>4. ASSUME Tablet!Read \/ Tablet!ReadMore
        PROVE  \/ UNCHANGED <<wire, link>>
               \/ \E k \in 1 .. maxBuffSize : Tablet!Arrive(k) /\ UNCHANGED link
    <3>1. CASE Tablet!EndOfStream /\ UNCHANGED <<wire, buff, d>>
      BY <2>4, <3>1 DEF Tablet!Read, Tablet!ReadMore
    <3>2. CASE \E k \in 1 .. maxBuffSize : Tablet!Arrive(k)
      BY <2>4, <3>2 DEF Tablet!Read, Tablet!ReadMore
    <3> QED
      BY <2>4, <3>1, <3>2, Zenon DEF Tablet!Read, Tablet!ReadMore
  <2>5. ASSUME Tablet!Player, ~ Tablet!Read, ~ Tablet!ReadMore, ~ Tablet!End
        PROVE  UNCHANGED wire /\ (link' = link \/ (link = "none" /\ link' = "backlog"))
    <3>1. \/ Tablet!SurfaceChanged \/ Tablet!SurfaceDestroyed \/ Tablet!StartDecoder
          \/ Tablet!ParseHeader \/ Tablet!Continue \/ Tablet!Take \/ Tablet!QueueInputBuffer
          \/ Tablet!OnInputBufferAvailable \/ Tablet!OnError \/ Tablet!Connect
      BY <2>5, Zenon DEF Tablet!Player, Tablet!Thread
    <3> QED
      BY <3>1 DEF Tablet!SurfaceChanged, Tablet!SurfaceDestroyed, Tablet!Connect,
           Tablet!StartDecoder, Tablet!ParseHeader, Tablet!Continue, Tablet!Take,
           Tablet!QueueInputBuffer, Tablet!OnInputBufferAvailable, Tablet!OnError, Tablet!network
  <2> QED
    BY <2>1, <2>2, <2>3, <2>4, <2>5
<1>3. ServerTypeOK'
  BY <1>1, <1>2 DEF ServerTypeOK
<1>4. CallerInv' /\ MutexInv' /\ FirstCallInv'
  BY <1>1 DEF CallerInv, MutexInv, FirstCallInv, Server!Packet, Server!Sendable
<1>5. ConnectionInv'
  BY <1>2 DEF ConnectionInv, ServerTypeOK
<1> QED
  BY <1>3, <1>4, <1>5

\* Every step preserves the server's invariant.
LEMMA ServerStep == ServerInv /\ [Next]_vars => ServerInv'
<1> SUFFICES ASSUME ServerInv, [Next]_vars PROVE ServerInv'
  OBVIOUS
<1>1. CASE UNCHANGED <<s_socket, c_socket, link, wire, sent, pcS, next, result, holder>>
  BY <1>1 DEF ServerInv, ServerTypeOK, CallerInv, MutexInv, ConnectionInv, FirstCallInv,
              Server!Packet, Server!Sendable
<1>2. CASE \E s \in Senders : Server!SendData(s)
  BY <1>2, SendDataKeepsServer
<1>3. CASE Server!Stop
  BY <1>1, <1>3 DEF Server!Stop, Server!connVars, Server!callers
<1>4. CASE Tablet!Player /\ UNCHANGED serverOnly
  BY <1>4, PlayerKeepsServer
<1> QED
  BY <1>1, <1>2, <1>3, <1>4 DEF Next, vars, shared, serverOnly

\* The server's invariant holds in every reachable state.
THEOREM ServerInvariant == Spec => []ServerInv
BY ServerInit, ServerStep, PTL DEF Spec

\* With the mutex, no call has returned when the first connection is accepted, so the
\* tablet's decoder gets the stream from its first packet on (init_server, server.cpp).
THEOREM FromTheStart == ASSUME Locked PROVE Spec => ConnectedFromTheStart
<1>1. ASSUME ServerInv, [Next]_vars
      PROVE  [c_socket' # c_socket => \A s \in Senders : result[s] = "none"]_(Server!serverVars)
  <2> SUFFICES ASSUME c_socket' # c_socket, NEW s \in Senders PROVE result[s] = "none"
    OBVIOUS
  <2>1. PICK t \in Senders : Server!Accept(t)
    BY <1>1 DEF Next, vars, serverOnly, shared, Server!SendData, Server!Call, Server!InitServer,
                Server!Test, Server!SendHeader, Server!SendPayload, Server!Stop, Server!connVars
  <2> QED
    BY <1>1, <2>1 DEF Server!Accept, ServerInv, FirstCallInv
<1> QED
  BY <1>1, ServerInvariant, PTL DEF Spec, ConnectedFromTheStart, Server!ConnectedFromTheStart

\* While the tablet is connected a call that returns without sending had a packet that
\* is too small for a frame, whether or not the callers hold the mutex (send_data).
THEOREM NoPacketLost == Spec => NothingLost
<1> DEFINE A == \A s \in Senders : link = "up" /\ next'[s] # next[s] /\ result'[s] = "dropped"
                                     => Server!Packet(s).size <= 3
<1>1. ASSUME ServerInv, [Next]_vars
      PROVE  [A]_(Server!serverVars)
  <2> SUFFICES ASSUME NEW s \in Senders, link = "up", next'[s] # next[s], result'[s] = "dropped"
               PROVE  Server!Packet(s).size <= 3
    OBVIOUS
  <2>0. ServerTypeOK /\ CallerInv /\ ConnectionInv
    BY <1>1 DEF ServerInv
  <2>1. PICK t \in Senders : Server!SendData(t)
    BY <1>1 DEF Next, vars, serverOnly, shared, Server!Stop, Server!callers
  <2>2. ASSUME NEW what, Server!Return(t, what)
        PROVE  t = s /\ what = "dropped"
    BY <2>0, <2>2 DEF Server!Return, ServerTypeOK
  <2>3. ~ Server!SendFails(t)
    BY DEF Server!SendFails
  <2>4. Server!Test(t)
    BY <2>1, <2>2, <2>3 DEF Server!SendData, Server!Call, Server!InitServer, Server!Accept,
          Server!SendHeader, Server!SendPayload
  <2>5. t = s /\ ~ Server!Sendable(Server!Packet(s)) /\ pcS[s] = "test"
    BY <2>0, <2>2, <2>4 DEF Server!Test, ConnectionInv
  <2>6. Server!Packet(s).size \in Nat
    BY <2>0, <2>5, PacketOf, MaxSizeIsNat DEF AnyPacket
  <2> QED
    BY <2>5, <2>6 DEF Server!Sendable
<1> QED
  BY <1>1, ServerInvariant, PTL DEF Spec, NothingLost, Server!NothingLost

-------------------------------------------------------------------------------
(* Packets on a line of bytes.  The line has end bytes, and a read never   *)
(* ends after a position in solid.                                         *)

Sized == [size : Nat, id : Nat]

\* A packet's header begins after position start, and its payload follows as far as
\* the line goes.
FrameAt(line, end, solid, start, p) ==
  /\ start \in Nat /\ start + 4 <= end
  /\ \A j \in 1 .. 4 : line[start + j] = Server!Digit(p.size, Server!Weights[j])
  /\ \A j \in 1 .. 3 : start + j \in solid
  /\ \A q \in start + 5 .. start + 4 + p.size : q <= end => line[q] = p.id

\* The packets after the k-th begin at these positions, the first of them after the
\* rem bytes that the k-th still has; the last one owes bytes to the line.
Positions(at, end, k, going, owed, rem) ==
  /\ at[k + 1] = rem /\ at[Len(going) + 1] = end + owed
  /\ \A i \in k + 1 .. Len(going) + 1 : at[i] \in Int
  /\ \A i \in k + 1 .. Len(going) : at[i + 1] = at[i] + 4 + going[i].size
  /\ \A i, j \in k + 1 .. Len(going) + 1 : i < j => at[i + 1] <= at[j]

\* The positions when the line has lost its first c bytes.
Less(at, c) == [i \in Nat |-> at[i] - c]

\* The line carries what is left of the k-th packet and all the later ones.
Stream(line, end, solid, k, going, owed, rem) ==
  /\ k \in 0 .. Len(going) /\ (rem > 0 => k > 0)
  /\ \A q \in 1 .. rem : q <= end => line[q] = going[k].id
  /\ \E at :
       /\ Positions(at, end, k, going, owed, rem)
       /\ \A i \in k + 1 .. Len(going) : FrameAt(line, end, solid, at[i], going[i])

\* The line without its first c bytes.
Moved(line, end, solid, c, line2, solid2) ==
  \A q \in 1 .. end - c : line2[q] = line[q + c] /\ (q + c \in solid => q \in solid2)

\* The bytes after the first n, up to the end of the line, are of this packet's payload.
Filled(line, n, end, p) == \A q \in n + 1 .. end : line[q] = p.id

\* A packet stays on the line when bytes in front of it are taken off, and when the
\* line grows by bytes of its payload.
LEMMA FrameMoved ==
  ASSUME NEW line, NEW end \in Nat, NEW solid, NEW start \in Nat, NEW p \in Sized,
         FrameAt(line, end, solid, start, p),
         NEW c \in Nat, c <= start, NEW line2, NEW end2 \in Nat, NEW solid2, end2 >= end - c,
         Moved(line, end, solid, c, line2, solid2),
         end2 = end - c \/ start + 4 + p.size <= end \/ Filled(line2, end - c, end2, p)
  PROVE  FrameAt(line2, end2, solid2, start - c, p)
<1>0. start + 4 <= end /\ p.size \in Nat
  BY DEF FrameAt, Sized
<1>1. \A j \in 1 .. 4 : line2[start - c + j] = Server!Digit(p.size, Server!Weights[j])
  <2> TAKE j \in 1 .. 4
  <2>1. start - c + j \in 1 .. end - c /\ (start - c + j) + c = start + j
    BY <1>0
  <2>2. line2[start - c + j] = line[start + j]
    BY <2>1 DEF Moved
  <2> QED
    BY <2>2 DEF FrameAt
<1>2. \A j \in 1 .. 3 : start - c + j \in solid2
  <2> TAKE j \in 1 .. 3
  <2>1. start - c + j \in 1 .. end - c /\ (start - c + j) + c = start + j
    BY <1>0
  <2>2. start + j \in solid
    BY DEF FrameAt
  <2> QED
    BY <2>1, <2>2 DEF Moved
<1>3. \A q \in start - c + 5 .. start - c + 4 + p.size : q <= end2 => line2[q] = p.id
  <2> SUFFICES ASSUME NEW q \in start - c + 5 .. start - c + 4 + p.size, q <= end2
               PROVE  line2[q] = p.id
    OBVIOUS
  <2>1. CASE q <= end - c
    <3>1. q \in 1 .. end - c /\ q + c \in start + 5 .. start + 4 + p.size /\ q + c <= end
      BY <1>0, <2>1
    <3>2. line[q + c] = p.id
      BY <3>1 DEF FrameAt
    <3> QED
      BY <3>1, <3>2 DEF Moved
  <2>2. CASE q > end - c
    BY <1>0, <2>2 DEF Filled
  <2> QED
    BY <1>0, <2>1, <2>2
<1> QED
  BY <1>0, <1>1, <1>2, <1>3 DEF FrameAt

\* None begins before the rest of the k-th ends, and all but the last one end where the
\* last one begins, or before.
Apart(at, end, k, going, owed, rem) ==
  /\ Len(going) \in Nat
  /\ \A i \in k + 1 .. Len(going) + 1 : at[i] \in Nat /\ at[i] >= rem
  /\ \A i \in k + 1 .. Len(going) :
       /\ i \in Nat /\ going[i] \in Sized /\ going[i].size \in Nat
       /\ at[i] \in Nat /\ at[i] >= rem /\ at[i + 1] = at[i] + 4 + going[i].size
       /\ i # Len(going) => at[i] + 4 + going[i].size <= at[Len(going)]
  /\ k < Len(going) => Len(going) \in k + 1 .. Len(going)
  /\ rem <= end + owed

\* The packets are apart on the line, and the k-th has no more bytes than there are.
LEMMA PositionsApart ==
  ASSUME NEW end \in Nat, NEW k \in Nat, NEW going \in Seq(Sized), k <= Len(going),
         NEW owed \in Nat, NEW rem \in Nat, NEW at, Positions(at, end, k, going, owed, rem)
  PROVE  Apart(at, end, k, going, owed, rem)
<1>1. Len(going) \in Nat
  BY LenProperties
<1>2. \A i \in k + 1 .. Len(going) : i \in Nat /\ going[i] \in Sized /\ going[i].size \in Nat
  <2> TAKE i \in k + 1 .. Len(going)
  <2>1. i \in 1 .. Len(going) /\ i \in Nat
    BY <1>1
  <2>2. going[i] \in Sized
    BY <2>1, ElementOfSeq
  <2> QED
    BY <2>1, <2>2 DEF Sized
<1>3. \A i \in k + 1 .. Len(going) + 1 : at[i] \in Nat /\ at[i] >= rem
  <2> TAKE i \in k + 1 .. Len(going) + 1
  <2>1. CASE i = k + 1
    BY <2>1 DEF Positions
  <2>2. CASE i # k + 1
    <3>1. k + 1 \in k + 1 .. Len(going) /\ k + 1 < i /\ k + 1 \in k + 1 .. Len(going) + 1
      BY <1>1, <2>2
    <3>2. at[k + 1 + 1] <= at[i] /\ at[k + 1 + 1] = at[k + 1] + 4 + going[k + 1].size
      BY <3>1 DEF Positions
    <3>3. at[i] \in Int /\ at[k + 1] = rem
      BY <1>1 DEF Positions
    <3>4. going[k + 1].size \in Nat
      BY <1>2, <3>1, Zenon
    <3> QED
      BY <3>2, <3>3, <3>4, SMTT(30)
  <2> QED
    BY <2>1, <2>2
<1>4. \A i \in k + 1 .. Len(going) :
        /\ at[i] \in Nat /\ at[i] >= rem /\ at[i + 1] = at[i] + 4 + going[i].size
        /\ i # Len(going) => at[i + 1] <= at[Len(going)]
  <2> TAKE i \in k + 1 .. Len(going)
  <2>1. /\ i \in k + 1 .. Len(going) + 1
        /\ Len(going) \in k + 1 .. Len(going) + 1 /\ (i # Len(going) => i < Len(going))
    BY <1>1
  <2>2. at[i] \in Nat /\ at[i] >= rem
    BY <1>3, <2>1
  <2> QED
    BY <2>1, <2>2 DEF Positions
<1>5. rem <= end + owed
  <2>1. Len(going) + 1 \in k + 1 .. Len(going) + 1
    BY <1>1
  <2> QED
    BY <1>3, <2>1 DEF Positions
<1>6. k < Len(going) => Len(going) \in k + 1 .. Len(going)
  BY <1>1
<1>7. \A i \in k + 1 .. Len(going) : i # Len(going) => at[i] + 4 + going[i].size <= at[Len(going)]
  BY <1>4
<1> QED
  BY <1>1, <1>2, <1>3, <1>4, <1>5, <1>6, <1>7 DEF Apart

\* The positions, each c less.
LEMMA PositionsMoved ==
  ASSUME NEW end \in Nat, NEW k \in Nat, NEW going \in Seq(Sized), k <= Len(going),
         NEW owed \in Nat, NEW rem \in Nat, NEW at, Positions(at, end, k, going, owed, rem),
         NEW c \in Nat, NEW end2 \in Nat, NEW owed2 \in Nat, end2 + owed2 = end - c + owed
  PROVE  Positions(Less(at, c), end2, k, going, owed2, rem - c)
<1> DEFINE at2 == Less(at, c)
<1>1. Len(going) \in Nat
  BY LenProperties
<1>2. \A i \in k + 1 .. Len(going) + 1 : at2[i] = at[i] - c /\ at[i] \in Int
  <2> TAKE i \in k + 1 .. Len(going) + 1
  <2>1. i \in Nat
    BY <1>1
  <2>2. at[i] \in Int
    BY DEF Positions
  <2> QED
    BY <2>1, <2>2 DEF Less
<1> HIDE DEF at2
<1>3. at2[k + 1] = rem - c /\ at2[Len(going) + 1] = end2 + owed2
  <2>1. k + 1 \in k + 1 .. Len(going) + 1 /\ Len(going) + 1 \in k + 1 .. Len(going) + 1
    BY <1>1
  <2>2. at[k + 1] = rem /\ at[Len(going) + 1] = end + owed
    BY DEF Positions
  <2>3. at2[k + 1] = rem - c /\ at2[Len(going) + 1] = (end + owed) - c
    BY <1>2, <2>1, <2>2, Zenon
  <2> QED
    BY <2>3
<1>4. \A i \in k + 1 .. Len(going) + 1 : at2[i] \in Int
  BY <1>2
<1>5. \A i \in k + 1 .. Len(going) : at2[i + 1] = at2[i] + 4 + going[i].size
  <2> TAKE i \in k + 1 .. Len(going)
  <2>1. i \in k + 1 .. Len(going) + 1 /\ i + 1 \in k + 1 .. Len(going) + 1
    BY <1>1
  <2>2. at[i + 1] = at[i] + 4 + going[i].size /\ going[i].size \in Nat
    <3>1. Apart(at, end, k, going, owed, rem)
      BY PositionsApart
    <3> QED
      BY <3>1 DEF Apart
  <2>3. at2[i] = at[i] - c /\ at2[i + 1] = at[i + 1] - c /\ at[i] \in Int /\ at[i + 1] \in Int
    BY <1>2, <2>1, Zenon
  <2>4. \A a \in Int, n \in Nat : (a + 4 + n) - c = (a - c) + 4 + n
    OBVIOUS
  <2> QED
    BY <2>2, <2>3, <2>4, ZenonT(60)
<1>6. \A i, j \in k + 1 .. Len(going) + 1 : i < j => at2[i + 1] <= at2[j]
  <2> SUFFICES ASSUME NEW i \in k + 1 .. Len(going) + 1, NEW j \in k + 1 .. Len(going) + 1, i < j
               PROVE  at2[i + 1] <= at2[j]
    OBVIOUS
  <2>1. i + 1 \in k + 1 .. Len(going) + 1
    BY <1>1
  <2>2. at[i + 1] <= at[j]
    BY DEF Positions
  <2>3. at2[i + 1] = at[i + 1] - c /\ at2[j] = at[j] - c /\ at[i + 1] \in Int /\ at[j] \in Int
    BY <1>2, <2>1, Zenon
  <2> QED
    BY <2>2, <2>3
<1>7. Positions(at2, end2, k, going, owed2, rem - c)
  BY <1>3, <1>4, <1>5, <1>6 DEF Positions
<1> QED
  BY <1>7 DEF at2

\* The stream when c bytes in front of it are taken off, or when it grows by bytes of
\* the packet that is being sent.
LEMMA StreamMoved ==
  ASSUME NEW line, NEW end \in Nat, NEW solid, NEW k \in Nat, NEW going \in Seq(Sized),
         NEW owed \in Nat, NEW rem \in Nat, Stream(line, end, solid, k, going, owed, rem),
         NEW c \in Nat, c <= rem, NEW line2, NEW end2 \in Nat, NEW solid2, NEW owed2 \in Nat,
         end2 >= end - c, end2 + owed2 = end - c + owed,
         Moved(line, end, solid, c, line2, solid2),
         end2 = end - c \/ Filled(line2, end - c, end2, going[Len(going)])
  PROVE  Stream(line2, end2, solid2, k, going, owed2, rem - c)
<1>1. k <= Len(going) /\ Len(going) \in Nat /\ (rem > 0 => k > 0)
  BY LenProperties DEF Stream
<1>2. PICK at :
        /\ Positions(at, end, k, going, owed, rem)
        /\ \A i \in k + 1 .. Len(going) : FrameAt(line, end, solid, at[i], going[i])
  BY DEF Stream
<1>a. k <= Len(going) /\ Positions(at, end, k, going, owed, rem)
  BY <1>1, <1>2
<1>b. Apart(at, end, k, going, owed, rem)
  BY <1>a, PositionsApart, Zenon
<1>3. /\ \A i \in k + 1 .. Len(going) :
           /\ i \in Nat /\ going[i] \in Sized /\ going[i].size \in Nat
           /\ at[i] \in Nat /\ at[i] >= rem
           /\ i # Len(going) => at[i] + 4 + going[i].size <= at[Len(going)]
      /\ k < Len(going) => Len(going) \in k + 1 .. Len(going)
  BY <1>b DEF Apart
<1>4. \A i \in k + 1 .. Len(going) : at[i] + 4 <= end
  BY <1>2 DEF FrameAt
<1>5. Positions(Less(at, c), end2, k, going, owed2, rem - c)
  BY <1>a, PositionsMoved, Zenon
<1>6. \A i \in k + 1 .. Len(going) : FrameAt(line2, end2, solid2, Less(at, c)[i], going[i])
  <2> TAKE i \in k + 1 .. Len(going)
  <2>1. /\ i \in Nat /\ going[i] \in Sized /\ going[i].size \in Nat
        /\ at[i] \in Nat /\ at[i] >= rem /\ FrameAt(line, end, solid, at[i], going[i])
    BY <1>2, <1>3
  <2>2. i = Len(going) \/ at[i] + 4 + going[i].size <= end
    <3> SUFFICES ASSUME i # Len(going) PROVE at[i] + 4 + going[i].size <= end
      OBVIOUS
    <3>1. k < Len(going)
      BY <1>1
    <3>2. at[Len(going)] \in Nat /\ at[Len(going)] + 4 <= end
      BY <1>3, <1>4, <3>1
    <3>3. at[i] + 4 + going[i].size <= at[Len(going)]
      BY <1>3, Zenon
    <3>4. \A a, n, m \in Nat : a + 4 + n <= m /\ m + 4 <= end => a + 4 + n <= end
      OBVIOUS
    <3> QED
      BY <2>1, <3>2, <3>3, <3>4, Zenon
  <2>3. c <= at[i]
    BY <2>1
  <2>4. end2 = end - c \/ at[i] + 4 + going[i].size <= end \/ Filled(line2, end - c, end2, going[i])
    BY <2>2, Zenon
  <2>5. FrameAt(line2, end2, solid2, at[i] - c, going[i])
    BY <2>1, <2>3, <2>4, FrameMoved, Zenon
  <2> QED
    BY <2>1, <2>5 DEF Less
<1>7. \A q \in 1 .. rem - c : q <= end2 => line2[q] = going[k].id
  <2> SUFFICES ASSUME NEW q \in 1 .. rem - c, q <= end2 PROVE line2[q] = going[k].id
    OBVIOUS
  <2>0. q \in Nat /\ 1 <= q /\ q <= rem - c
    OBVIOUS
  <2>1. CASE q <= end - c
    <3>1. q \in 1 .. end - c /\ q + c \in 1 .. rem /\ q + c <= end
      BY <2>0, <2>1
    <3>2. line[q + c] = going[k].id
      BY <3>1 DEF Stream
    <3> QED
      BY <3>1, <3>2 DEF Moved
  <2>2. CASE q > end - c
    <3>1. q \in end - c + 1 .. end2 /\ end2 # end - c
      BY <2>0, <2>2
    <3>2. k = Len(going)
      <4> SUFFICES ASSUME k < Len(going) PROVE FALSE
        BY <1>1
      <4>1. at[Len(going)] + 4 <= end /\ at[Len(going)] >= rem /\ at[Len(going)] \in Nat
        BY <1>3, <1>4
      <4> QED
        BY <2>0, <2>2, <4>1
    <3> QED
      BY <3>1, <3>2 DEF Filled
  <2> QED
    BY <2>0, <2>1, <2>2
<1>8. k \in 0 .. Len(going) /\ (rem - c > 0 => k > 0)
  BY <1>1
<1> QED
  BY <1>1, <1>5, <1>6, <1>7, <1>8 DEF Stream

\* What comes after the rest of the k-th packet: the next header, or nothing at all.
LEMMA AfterPacket ==
  ASSUME NEW line, NEW end \in Nat, NEW solid, NEW k \in Nat, NEW going \in Seq(Sized),
         NEW owed \in Nat, NEW rem \in Nat, Stream(line, end, solid, k, going, owed, rem)
  PROVE  /\ k < Len(going) => /\ FrameAt(line, end, solid, rem, going[k + 1])
                              /\ rem + 4 <= end /\ going[k + 1] \in Sized
         /\ k = Len(going) => rem = end + owed
<1>1. k <= Len(going) /\ Len(going) \in Nat
  BY LenProperties DEF Stream
<1>2. PICK at :
        /\ Positions(at, end, k, going, owed, rem)
        /\ \A i \in k + 1 .. Len(going) : FrameAt(line, end, solid, at[i], going[i])
  BY DEF Stream
<1>3. at[k + 1] = rem /\ at[Len(going) + 1] = end + owed
  BY <1>2 DEF Positions
<1>4. ASSUME k < Len(going)
      PROVE  /\ FrameAt(line, end, solid, rem, going[k + 1])
             /\ rem + 4 <= end /\ going[k + 1] \in Sized
  <2>1. k + 1 \in k + 1 .. Len(going) /\ k + 1 \in 1 .. Len(going)
    BY <1>1, <1>4
  <2>2. FrameAt(line, end, solid, rem, going[k + 1])
    BY <1>2, <1>3, <2>1, Zenon
  <2>3. going[k + 1] \in Sized
    BY <2>1, ElementOfSeq
  <2> QED
    BY <2>2, <2>3 DEF FrameAt
<1> QED
  BY <1>3, <1>4

\* The positions when the next packet becomes the k-th.
LEMMA PositionsNext ==
  ASSUME NEW end \in Nat, NEW k \in Nat, NEW going \in Seq(Sized), k < Len(going),
         NEW owed \in Nat, NEW rem \in Nat, NEW at, Positions(at, end, k, going, owed, rem)
  PROVE  Positions(at, end, k + 1, going, owed, rem + 4 + going[k + 1].size)
<1>1. Len(going) \in Nat
  BY LenProperties
<1>2. k + 1 \in k + 1 .. Len(going) /\ k + 1 + 1 \in Nat
  BY <1>1
<1>3. at[k + 1 + 1] = rem + 4 + going[k + 1].size
  BY <1>2 DEF Positions
<1>4. at[Len(going) + 1] = end + owed
  BY DEF Positions
<1>5. \A i \in k + 1 + 1 .. Len(going) : i \in k + 1 .. Len(going)
  BY <1>1
<1>6. \A i \in k + 1 + 1 .. Len(going) + 1 : i \in k + 1 .. Len(going) + 1
  BY <1>1
<1>7. \A i \in k + 1 + 1 .. Len(going) + 1 : at[i] \in Int
  BY <1>6 DEF Positions
<1>8. \A i \in k + 1 + 1 .. Len(going) : at[i + 1] = at[i] + 4 + going[i].size
  BY <1>5 DEF Positions
<1>9. \A i, j \in k + 1 + 1 .. Len(going) + 1 : i < j => at[i + 1] <= at[j]
  BY <1>6 DEF Positions
<1> QED
  BY <1>3, <1>4, <1>7, <1>8, <1>9 DEF Positions

\* The stream when the next header was taken off: its packet is the k-th now.
LEMMA HeaderTaken ==
  ASSUME NEW line, NEW end \in Nat, NEW solid, NEW k \in Nat, NEW going \in Seq(Sized),
         NEW owed \in Nat, Stream(line, end, solid, k, going, owed, 0), k < Len(going),
         NEW line2, NEW solid2, Moved(line, end, solid, 4, line2, solid2)
  PROVE  Stream(line2, end - 4, solid2, k + 1, going, owed, going[k + 1].size)
<1> DEFINE size == going[k + 1].size
<1>1. k + 1 <= Len(going) /\ Len(going) \in Nat /\ k + 1 \in Nat
  BY LenProperties
<1>2. PICK at :
        /\ Positions(at, end, k, going, owed, 0)
        /\ \A i \in k + 1 .. Len(going) : FrameAt(line, end, solid, at[i], going[i])
  BY DEF Stream
<1>3. FrameAt(line, end, solid, 0, going[k + 1]) /\ 4 <= end /\ size \in Nat
  <2>1. /\ FrameAt(line, end, solid, 0, going[k + 1])
        /\ 0 + 4 <= end /\ going[k + 1] \in Sized
    BY AfterPacket
  <2> QED
    BY <2>1 DEF Sized
<1> HIDE DEF size
<1>4. Positions(at, end, k + 1, going, owed, 4 + size)
  <2>1. Positions(at, end, k + 1, going, owed, 0 + 4 + size)
    BY <1>2, PositionsNext, Zenon DEF size
  <2>2. 0 + 4 + size = 4 + size
    BY <1>3
  <2> QED
    BY <2>1, <2>2
<1>5. 4 + size \in Nat /\ end - 4 \in Nat /\ (end - 4) + owed = end - 4 + owed
      /\ (4 + size) - 4 = size
  BY <1>3
<1>6. Positions(Less(at, 4), end - 4, k + 1, going, owed, size)
  <2>1. 4 \in Nat
    OBVIOUS
  <2>2. Positions(Less(at, 4), end - 4, k + 1, going, owed, (4 + size) - 4)
    BY <1>1, <1>4, <1>5, <2>1, PositionsMoved, Zenon
  <2> QED
    BY <1>5, <2>2, Zenon
<1>7. \A i \in k + 1 + 1 .. Len(going) :
        /\ i \in Nat /\ going[i] \in Sized /\ at[i] \in Nat /\ at[i] >= 4 + size
  <2>1. Apart(at, end, k + 1, going, owed, 4 + size)
    BY <1>1, <1>4, <1>5, PositionsApart, Zenon
  <2> QED
    BY <2>1 DEF Apart
<1>8. \A i \in k + 1 + 1 .. Len(going) : FrameAt(line2, end - 4, solid2, Less(at, 4)[i], going[i])
  <2> TAKE i \in k + 1 + 1 .. Len(going)
  <2>1. i \in Nat /\ going[i] \in Sized /\ at[i] \in Nat /\ at[i] >= 4 + size
    BY <1>7
  <2>2. i \in k + 1 .. Len(going) /\ 4 <= at[i]
    BY <1>1, <1>3, <2>1
  <2>3. FrameAt(line, end, solid, at[i], going[i])
    BY <1>2, <2>2
  <2>4. 4 \in Nat /\ end - 4 >= end - 4
    BY <1>3
  <2>5. FrameAt(line2, end - 4, solid2, at[i] - 4, going[i])
    BY <1>5, <2>1, <2>2, <2>3, <2>4, FrameMoved, Zenon
  <2> QED
    BY <2>1, <2>5 DEF Less
<1>9. \A q \in 1 .. size : q <= end - 4 => line2[q] = going[k + 1].id
  <2> SUFFICES ASSUME NEW q \in 1 .. size, q <= end - 4 PROVE line2[q] = going[k + 1].id
    OBVIOUS
  <2>1. q \in 1 .. end - 4 /\ q + 4 \in 0 + 5 .. 0 + 4 + size /\ q + 4 <= end
    BY <1>3
  <2>2. line[q + 4] = going[k + 1].id
    BY <1>3, <2>1 DEF FrameAt, size
  <2> QED
    BY <2>1, <2>2 DEF Moved
<1>10. k + 1 \in 0 .. Len(going) /\ (size > 0 => k + 1 > 0)
  BY <1>1
<1> QED
  BY <1>6, <1>8, <1>9, <1>10 DEF Stream, size

\* The stream when a header was sent: there is one more packet, and its payload is owed.
LEMMA HeaderSent ==
  ASSUME NEW line, NEW end \in Nat, NEW solid, NEW k \in Nat, NEW going \in Seq(Sized),
         NEW rem \in Nat, Stream(line, end, solid, k, going, 0, rem),
         NEW p \in Sized, NEW line2, NEW solid2, Moved(line, end, solid, 0, line2, solid2),
         \A j \in 1 .. 4 : line2[end + j] = Server!Digit(p.size, Server!Weights[j]),
         \A j \in 1 .. 3 : end + j \in solid2
  PROVE  Stream(line2, end + 4, solid2, k, Append(going, p), p.size, rem)
<1> DEFINE n == Len(going)
           going2 == Append(going, p)
<1>1. k <= n /\ n \in Nat /\ (rem > 0 => k > 0) /\ p.size \in Nat
  BY LenProperties DEF Stream, Sized
<1>2. PICK at :
        /\ Positions(at, end, k, going, 0, rem)
        /\ \A i \in k + 1 .. n : FrameAt(line, end, solid, at[i], going[i])
  BY DEF Stream
<1>3. Len(going2) = n + 1 /\ going2[n + 1] = p /\ \A i \in 1 .. n : going2[i] = going[i]
  BY AppendProperties
<1>4. /\ \A i \in k + 1 .. n + 1 : at[i] \in Nat
      /\ \A i \in k + 1 .. n : going[i] \in Sized /\ at[i + 1] = at[i] + 4 + going[i].size
      /\ rem <= end + 0
  <2>1. 0 \in Nat
    OBVIOUS
  <2>2. k <= Len(going) /\ Positions(at, end, k, going, 0, rem)
    BY <1>1, <1>2
  <2>3. Apart(at, end, k, going, 0, rem)
    BY <2>1, <2>2, PositionsApart, Zenon
  <2> QED
    BY <2>3 DEF Apart
<1>5. at[k + 1] = rem /\ at[n + 1] = end + 0
      /\ \A i, j \in k + 1 .. n + 1 : i < j => at[i + 1] <= at[j]
  BY <1>2 DEF Positions
<1> DEFINE at2 == [i \in Nat |-> IF i = n + 2 THEN end + 4 + p.size ELSE at[i]]
<1> HIDE DEF going2, n
<1>6. at2[n + 2] = end + 4 + p.size /\ at2[n + 1] = at[n + 1]
  BY <1>1
<1>7. \A i \in k + 1 .. n + 1 : at2[i] = at[i] /\ at[i] \in Nat /\ at[i] <= end
  <2> TAKE i \in k + 1 .. n + 1
  <2>1. i \in Nat /\ i # n + 2
    BY <1>1
  <2>2. at2[i] = at[i] /\ at[i] \in Nat
    BY <1>4, <2>1
  <2>3. CASE i = n + 1
    BY <1>5, <2>2, <2>3
  <2>4. CASE i # n + 1
    <3>1. i \in k + 1 .. n /\ n + 1 \in k + 1 .. n + 1 /\ i < n + 1
      BY <1>1, <2>4
    <3>2. at[i + 1] <= end /\ at[i + 1] = at[i] + 4 + going[i].size /\ going[i].size \in Nat
      <4>1. at[i + 1] <= at[n + 1]
        BY <1>5, <3>1, Zenon
      <4>2. at[n + 1] = end
        BY <1>5
      <4>3. going[i] \in Sized /\ at[i + 1] = at[i] + 4 + going[i].size
        BY <1>4, <3>1, Zenon
      <4> QED
        BY <4>1, <4>2, <4>3 DEF Sized
    <3>3. \A a, m \in Nat : a + 4 + m <= end => a <= end
      OBVIOUS
    <3> QED
      BY <2>2, <3>2, <3>3
  <2> QED
    BY <2>3, <2>4
<1> HIDE DEF at2
<1>8. \A i \in k + 1 .. n + 1 : at2[i + 1] = at2[i] + 4 + going2[i].size
  <2> TAKE i \in k + 1 .. n + 1
  <2>1. CASE i = n + 1
    <3>1. i + 1 = n + 2 /\ at2[i] = end + 0 /\ going2[i].size = p.size
      BY <1>1, <1>3, <1>5, <1>6, <2>1
    <3> QED
      BY <1>1, <1>6, <3>1, SMTT(30)
  <2>2. CASE i # n + 1
    <3>1. i \in k + 1 .. n /\ i \in 1 .. n /\ i + 1 \in k + 1 .. n + 1
      BY <1>1, <2>2
    <3>2. at2[i + 1] = at[i + 1] /\ at2[i] = at[i] /\ going2[i] = going[i]
      BY <1>3, <1>7, <3>1, Zenon
    <3> QED
      BY <1>4, <3>1, <3>2, Zenon
  <2> QED
    BY <2>1, <2>2
<1>9. \A i, j \in k + 1 .. n + 2 : i < j => at2[i + 1] <= at2[j]
  <2> SUFFICES ASSUME NEW i \in k + 1 .. n + 2, NEW j \in k + 1 .. n + 2, i < j
               PROVE  at2[i + 1] <= at2[j]
    OBVIOUS
  <2>1. i \in k + 1 .. n + 1 /\ i + 1 \in Nat
    BY <1>1
  <2>2. CASE j # n + 2
    <3>1. j \in k + 1 .. n + 1 /\ i + 1 \in k + 1 .. n + 1
      BY <1>1, <2>2
    <3>2. at2[i + 1] = at[i + 1] /\ at2[j] = at[j] /\ at[i + 1] <= at[j]
      BY <1>5, <1>7, <2>1, <3>1, Zenon
    <3> QED
      BY <3>2
  <2>3. CASE j = n + 2 /\ i + 1 = n + 2
    BY <1>1, <1>6, <2>3, SMTT(30)
  <2>4. CASE j = n + 2 /\ i + 1 # n + 2
    <3>1. i + 1 \in k + 1 .. n + 1
      BY <1>1, <2>1, <2>4
    <3>2. at2[i + 1] \in Nat /\ at2[i + 1] <= end
      BY <1>7, <3>1
    <3> QED
      BY <1>1, <1>6, <2>4, <3>2, SMTT(30)
  <2> QED
    BY <2>2, <2>3, <2>4
<1>10. Positions(at2, end + 4, k, going2, p.size, rem)
  <2>1. k + 1 \in k + 1 .. n + 1
    BY <1>1
  <2>2. at2[k + 1] = rem
    BY <1>5, <1>7, <2>1, Zenon
  <2>3. \A i \in k + 1 .. n + 2 : at2[i] \in Int
    <3> TAKE i \in k + 1 .. n + 2
    <3>1. CASE i = n + 2
      BY <1>1, <1>6, <3>1
    <3>2. CASE i # n + 2
      <4>1. i \in k + 1 .. n + 1
        BY <1>1, <3>2
      <4> QED
        BY <1>7, <4>1
    <3> QED
      BY <3>1, <3>2
  <2>4. Len(going2) = n + 1 /\ Len(going2) + 1 = n + 2
    BY <1>1, <1>3
  <2>5. at2[Len(going2) + 1] = (end + 4) + p.size
    BY <1>6, <2>4
  <2> QED
    BY <1>8, <1>9, <2>2, <2>3, <2>4, <2>5 DEF Positions
<1>11. \A i \in k + 1 .. n + 1 : FrameAt(line2, end + 4, solid2, at2[i], going2[i])
  <2> TAKE i \in k + 1 .. n + 1
  <2>1. CASE i = n + 1
    <3>1. at2[i] = end /\ going2[i] = p
      BY <1>3, <1>5, <1>6, <2>1
    <3>2. \A q \in end + 5 .. end + 4 + p.size : ~ (q <= end + 4)
      BY <1>1
    <3>3. FrameAt(line2, end + 4, solid2, end, p)
      BY <3>2 DEF FrameAt
    <3> QED
      BY <3>1, <3>3
  <2>2. CASE i # n + 1
    <3>1. i \in k + 1 .. n /\ i \in 1 .. n /\ i \in k + 1 .. n + 1 /\ i + 1 \in k + 1 .. n + 1
      BY <1>1, <2>2
    <3>2. /\ at2[i] = at[i] /\ at[i] \in Nat /\ going2[i] = going[i] /\ going[i] \in Sized
          /\ at[i] + 4 + going[i].size <= end /\ FrameAt(line, end, solid, at[i], going[i])
      BY <1>2, <1>3, <1>4, <1>7, <3>1, Zenon DEF n
    <3>3. 0 \in Nat /\ 0 <= at[i] /\ end + 4 \in Nat /\ end + 4 >= end - 0 /\ at[i] - 0 = at[i]
      BY <3>2
    <3>4. FrameAt(line2, end + 4, solid2, at[i] - 0, going[i])
      BY <3>2, <3>3, FrameMoved, Zenon
    <3> QED
      BY <3>2, <3>3, <3>4, Zenon
  <2> QED
    BY <2>1, <2>2
<1>12. \A q \in 1 .. rem : q <= end + 4 => line2[q] = going2[k].id
  <2> TAKE q \in 1 .. rem
  <2>1. q \in 1 .. end - 0 /\ q <= end /\ q + 0 = q /\ k \in 1 .. n
    BY <1>1, <1>4
  <2>2. line[q] = going[k].id
    BY <2>1 DEF Stream
  <2>3. line2[q] = line[q + 0]
    BY <2>1 DEF Moved
  <2>4. going2[k] = going[k]
    BY <1>3, <2>1
  <2> QED
    BY <2>1, <2>2, <2>3, <2>4
<1>13. k \in 0 .. Len(going2)
  BY <1>1, <1>3
<1> QED
  BY <1>1, <1>3, <1>10, <1>11, <1>12, <1>13 DEF Stream, going2

-------------------------------------------------------------------------------
(* The bytes that are pending, and what the tablet knows of them.          *)

Pending == d + Len(wire)
Line    == [q \in 1 .. Pending |-> IF q <= d THEN buff[q] ELSE wire[q - d].b]
Solid   == {q \in Nat : q # d /\ (q > d => wire[q - d].mid)}

\* The packets that are sent, with the one whose header is sent and whose payload is not.
Sending == holder # Idle /\ pcS[holder] = "payload" /\ link = "up"
Going   == IF Sending THEN Append(sent, Server!Packet(holder)) ELSE sent
Owed    == IF Sending THEN Server!Packet(holder).size ELSE 0

\* The tablet has read the header of the K-th packet and has not delivered it.
Begun == pcP \in {"copy", "take", "queue"} \/ (pcP = "read" /\ remainingSize > 0)
K     == Len(delivered) + (IF Begun THEN 1 ELSE 0)

\* Neither the tablet's thread nor its decoder has failed.
Parsing == pcP \notin {"end", "done"} /\ decoder # "error"

TabletTypeOK ==
  /\ pcP \in {"off", "connect", "start", "read", "head", "copy", "take", "queue", "end", "done"}
  /\ buff \in Seq(Nat) /\ d \in Nat /\ d <= Len(buff)
  /\ toSend \in Seq(Nat) /\ remainingSize \in Nat /\ delivered \in Seq(Seq(Nat))
  /\ pcP \in {"off", "connect", "start"}
       => decoder = "none" /\ d = 0 /\ delivered = <<>> /\ remainingSize = 0
  /\ link = "closed" => pcP = "done"

\* What each point of the thread's loop knows of buff and of the frame.
ParserInv ==
  /\ pcP = "read" => d = 0
  /\ pcP = "head" => d > 0 /\ remainingSize = 0
  /\ pcP = "copy" => d > 0 /\ remainingSize > 0
  /\ pcP \in {"take", "queue"} => remainingSize = 0

\* What was copied of the K-th packet is the beginning of its payload.
FrameInv ==
  Begun => /\ Len(toSend) + remainingSize = Going[K].size
           /\ \A j \in 1 .. Len(toSend) : toSend[j] = Going[K].id

StreamInv == Stream(Line, Pending, Solid, K, Going, Owed, remainingSize)

Inv == ServerInv /\ TabletTypeOK /\ (Parsing => ParserInv /\ FrameInv /\ StreamInv)

\* The bytes on the line are numbers, one for each position.
LEMMA LineBytes ==
  ASSUME ServerTypeOK, TabletTypeOK
  PROVE  /\ Len(wire) \in Nat /\ Pending \in Nat /\ d \in Nat
         /\ \A q \in 1 .. Len(wire) : wire[q] \in Byte /\ wire[q].b \in Nat
         /\ \A q \in 1 .. Pending : Line[q] = IF q <= d THEN buff[q] ELSE wire[q - d].b
<1>1. wire \in Seq(Byte) /\ d \in Nat
  BY DEF ServerTypeOK, TabletTypeOK
<1>2. Len(wire) \in Nat
  BY <1>1, LenProperties
<1>3. \A q \in 1 .. Len(wire) : wire[q] \in Byte
  BY <1>1, ElementOfSeq
<1>4. \A q \in 1 .. Len(wire) : wire[q].b \in Nat
  BY <1>3, Constants DEF Byte
<1>5. Pending \in Nat
  BY <1>1, <1>2 DEF Pending
<1> QED
  BY <1>1, <1>2, <1>3, <1>4, <1>5 DEF Line

\* Every packet that is sent is a number of bytes, of one number.
LEMMA GoingPackets ==
  ASSUME ServerInv
  PROVE  /\ Going \in Seq(BigPacket) /\ Going \in Seq(Sized) /\ Len(Going) \in Nat
         /\ sent \in Seq(BigPacket) /\ Len(sent) \in Nat
         /\ Len(Going) = Len(sent) + (IF Sending THEN 1 ELSE 0)
         /\ \A i \in 1 .. Len(sent) : Going[i] = sent[i]
         /\ Owed \in Nat /\ (Sending => Owed > 3) /\ (~ Sending => Owed = 0)
<1>1. sent \in Seq(BigPacket) /\ Len(sent) \in Nat
  BY LenProperties DEF ServerInv, ServerTypeOK
<1>2. ASSUME Sending
      PROVE  /\ Server!Packet(holder) \in BigPacket
             /\ Server!Packet(holder).size \in Nat /\ Server!Packet(holder).size > 3
  <2>1. holder \in Senders /\ pcS[holder] = "payload"
    BY <1>2 DEF Sending, ServerInv, ServerTypeOK
  <2>2. Server!Packet(holder) \in AnyPacket
    BY <2>1, PacketOf DEF ServerInv
  <2>3. Server!Packet(holder).size > 3
    BY <2>1 DEF ServerInv, CallerInv, Server!Sendable
  <2>4. Server!Packet(holder).size \in Nat
    BY <2>2, MaxSizeIsNat DEF AnyPacket
  <2> QED
    BY <2>2, <2>3, <2>4 DEF BigPacket
<1>3. BigPacket \subseteq Sized
  BY MaxSizeIsNat, Constants DEF BigPacket, AnyPacket, Sized
<1>4. /\ Going \in Seq(BigPacket) /\ Len(Going) = Len(sent) + (IF Sending THEN 1 ELSE 0)
      /\ \A i \in 1 .. Len(sent) : Going[i] = sent[i]
  <2>1. CASE Sending
    BY <1>1, <1>2, <2>1, AppendProperties DEF Going
  <2>2. CASE ~ Sending
    BY <1>1, <2>2 DEF Going
  <2> QED
    BY <2>1, <2>2
<1>5. Going \in Seq(Sized)
  BY <1>3, <1>4, SeqMonotonic
<1>6. Len(Going) \in Nat
  BY <1>4, LenProperties
<1>7. Owed \in Nat /\ (Sending => Owed > 3) /\ (~ Sending => Owed = 0)
  BY <1>2 DEF Owed
<1> QED
  BY <1>1, <1>4, <1>5, <1>6, <1>7

\* The state of the invariant where nothing of it changes.
LEMMA Unmoved ==
  ASSUME Parsing => ParserInv /\ FrameInv /\ StreamInv,
         UNCHANGED <<d, buff, wire, remainingSize, toSend, delivered>>,
         Going' = Going, Owed' = Owed, Parsing' => Parsing /\ ParserInv' /\ (Begun' <=> Begun)
  PROVE  Parsing' => ParserInv' /\ FrameInv' /\ StreamInv'
<1> SUFFICES ASSUME Parsing' PROVE FrameInv' /\ StreamInv'
  OBVIOUS
<1>1. K' = K
  BY DEF K
<1>2. Line' = Line /\ Pending' = Pending /\ Solid' = Solid
  BY DEF Line, Pending, Solid
<1>3. FrameInv'
  BY <1>1 DEF FrameInv
<1>4. StreamInv'
  BY <1>1, <1>2 DEF StreamInv
<1> QED
  BY <1>3, <1>4

\* The tablet has the stream's first state: nothing is sent and nothing is pending.
LEMMA InvInit == Init => Inv
<1> SUFFICES ASSUME Init PROVE Inv
  OBVIOUS
<1>1. ServerInv
  BY ServerInit
<1>2. /\ buff = <<>> /\ d = 0 /\ toSend = <<>> /\ remainingSize = 0 /\ delivered = <<>>
      /\ pcP = "off" /\ decoder = "none" /\ link = "none" /\ wire = <<>> /\ sent = <<>>
  BY DEF Init, Tablet!Init, Server!Init
<1>3. Len(<<>>) = 0 /\ <<>> \in Seq(Nat) /\ <<>> \in Seq(Seq(Nat)) /\ <<>> \in Seq(Sized)
  BY EmptySeq
<1>4. TabletTypeOK
  BY <1>2, <1>3 DEF TabletTypeOK
<1>5. ParserInv /\ ~ Begun /\ ~ Sending
  BY <1>2 DEF ParserInv, Begun, Sending
<1>6. K = 0 /\ Going = <<>> /\ Owed = 0 /\ Pending = 0 /\ FrameInv
  BY <1>2, <1>3, <1>5 DEF K, Going, Owed, Pending, FrameInv
<1>7. Stream(Line, 0, Solid, 0, <<>>, 0, 0)
  <2>1. Positions([i \in Nat |-> 0], 0, 0, <<>>, 0, 0)
    BY <1>3 DEF Positions
  <2> QED
    BY <1>3, <2>1 DEF Stream
<1> QED
  BY <1>1, <1>2, <1>4, <1>5, <1>6, <1>7 DEF Inv, StreamInv

-------------------------------------------------------------------------------
(* The server's steps.                                                     *)

\* What a send adds to the line.
LEMMA LineSent ==
  ASSUME ServerTypeOK, TabletTypeOK, NEW bytes \in Seq(Byte), Server!Transmit(bytes), link = "up",
         UNCHANGED <<d, buff>>, ServerTypeOK', TabletTypeOK'
  PROVE  /\ Pending' = Pending + Len(bytes) /\ Moved(Line, Pending, Solid, 0, Line', Solid')
         /\ \A j \in 1 .. Len(bytes) : /\ Line'[Pending + j] = bytes[j].b
                                       /\ bytes[j].mid => Pending + j \in Solid'
<1>1. Len(bytes) \in Nat
  BY LenProperties
<1>2. /\ Len(wire) \in Nat /\ Pending \in Nat /\ d \in Nat
      /\ \A q \in 1 .. Pending : Line[q] = IF q <= d THEN buff[q] ELSE wire[q - d].b
  BY LineBytes
<1>4. /\ Len(wire') = Len(wire) + Len(bytes)
      /\ \A i \in 1 .. Len(wire) + Len(bytes) :
           wire'[i] = IF i <= Len(wire) THEN wire[i] ELSE bytes[i - Len(wire)]
  BY Transmitted
<1>3. /\ Len(wire') \in Nat /\ Pending' \in Nat
      /\ \A q \in 1 .. Pending' : Line'[q] = IF q <= d THEN buff[q] ELSE wire'[q - d].b
  <2>1. Len(wire') \in Nat /\ Pending' = d + Len(wire')
    BY <1>1, <1>2, <1>4 DEF Pending
  <2>2. Line' = [q \in 1 .. Pending' |-> IF q <= d THEN buff[q] ELSE wire'[q - d].b]
    BY DEF Line
  <2> QED
    BY <1>2, <2>1, <2>2
<1>5. Pending = d + Len(wire) /\ Pending' = Pending + Len(bytes)
  BY <1>1, <1>2, <1>4 DEF Pending
<1>6. Moved(Line, Pending, Solid, 0, Line', Solid')
  <2> SUFFICES ASSUME NEW q \in 1 .. Pending - 0
               PROVE  Line'[q] = Line[q + 0] /\ (q + 0 \in Solid => q \in Solid')
    BY DEF Moved
  <2>1. q \in Nat /\ q + 0 = q /\ q \in 1 .. Pending /\ q \in 1 .. Pending'
    BY <1>1, <1>2, <1>5
  <2>2. CASE q <= d
    <3>1. Line'[q] = Line[q]
      BY <1>2, <1>3, <2>1, <2>2
    <3>2. q \in Solid => q \in Solid'
      BY <1>2, <2>1, <2>2 DEF Solid
    <3> QED
      BY <2>1, <3>1, <3>2
  <2>3. CASE q > d
    <3>1. q - d \in 1 .. Len(wire) /\ q - d \in 1 .. Len(wire) + Len(bytes) /\ q - d <= Len(wire)
      BY <1>1, <1>2, <1>5, <2>1, <2>3
    <3>2. wire'[q - d] = wire[q - d]
      BY <1>4, <3>1
    <3>3. Line'[q] = Line[q]
      BY <1>2, <1>3, <2>1, <2>3, <3>2
    <3>4. q \in Solid => q \in Solid'
      BY <3>2 DEF Solid
    <3> QED
      BY <2>1, <3>3, <3>4
  <2> QED
    BY <1>2, <2>1, <2>2, <2>3
<1>7. ASSUME NEW j \in 1 .. Len(bytes)
      PROVE  /\ Line'[Pending + j] = bytes[j].b
             /\ bytes[j].mid => Pending + j \in Solid'
  <2>1. /\ Pending + j \in 1 .. Pending' /\ Pending + j > d /\ Pending + j # d /\ Pending + j \in Nat
        /\ (Pending + j) - d = Len(wire) + j /\ Len(wire) + j \in 1 .. Len(wire) + Len(bytes)
        /\ Len(wire) + j > Len(wire) /\ (Len(wire) + j) - Len(wire) = j
    BY <1>1, <1>2, <1>5
  <2>2. wire'[Len(wire) + j] = bytes[j]
    BY <1>2, <1>4, <2>1
  <2>3. Line'[Pending + j] = bytes[j].b
    BY <1>2, <1>3, <2>1, <2>2
  <2>4. ASSUME bytes[j].mid PROVE Pending + j \in Solid'
    <3>1. wire'[(Pending + j) - d].mid
      BY <2>1, <2>2, <2>4, Zenon
    <3> QED
      BY <2>1, <3>1 DEF Solid
  <2> QED
    BY <2>3, <2>4
<1> QED
  BY <1>5, <1>6, <1>7

\* send_data preserves the invariant.
LEMMA SendDataStep ==
  ASSUME Locked, Inv, NEW s \in Senders, Server!SendData(s), UNCHANGED tabletOnly
  PROVE  /\ Inv' /\ UNCHANGED delivered
         /\ \/ UNCHANGED sent
            \/ Server!Packet(s) \in AnyPacket /\ sent' = Append(sent, Server!Packet(s))
               /\ \E i \in 1 .. Len(Packets[s]) : Server!Packet(s) = Packets[s][i]
<1>0. ServerTypeOK /\ CallerInv /\ MutexInv /\ ConnectionInv /\ TabletTypeOK /\ ServerInv
  BY DEF Inv, ServerInv
<1>1. ServerInv' /\ ServerTypeOK'
  BY SendDataKeepsServer DEF Inv, ServerInv
<1>2. UNCHANGED <<pcP, interrupted, decoder, freeInputs, queued, buff, d, toSend, remainingSize,
                  delivered>>
  BY DEF tabletOnly
<1>3. link' = link \/ link' = "up"
  BY DEF Server!SendData, Server!Call, Server!InitServer, Server!Accept, Server!Test,
         Server!SendHeader, Server!SendPayload, Server!connVars
<1>4. TabletTypeOK'
  BY <1>0, <1>2, <1>3 DEF TabletTypeOK
<1>5. (Parsing' <=> Parsing) /\ (ParserInv' <=> ParserInv) /\ (Begun' <=> Begun) /\ K' = K
  BY <1>2 DEF Parsing, ParserInv, Begun, K
<1>6. ASSUME UNCHANGED <<wire, sent>>, ~ Sending, ~ Sending'
      PROVE  Inv'
  <2>1. Going' = Going /\ Owed' = Owed
    BY <1>6 DEF Going, Owed
  <2>2. Parsing' => ParserInv' /\ FrameInv' /\ StreamInv'
    BY <1>2, <1>5, <1>6, <2>1, Unmoved DEF Inv
  <2> QED
    BY <1>1, <1>4, <2>2 DEF Inv
<1>7. ASSUME ~ Parsing PROVE Inv'
  BY <1>1, <1>4, <1>5, <1>7 DEF Inv
<1>8. ASSUME pcS[s] # "idle" PROVE holder = s /\ s # Idle
  BY <1>0, <1>8, Constants DEF MutexInv
<1>9. CASE Server!Call(s)
  <2>1. holder = Idle /\ holder' = s /\ pcS' = [pcS EXCEPT ![s] = "init"] /\ UNCHANGED <<wire, sent>>
    BY <1>9 DEF Server!Call, Server!MayCall, Idle
  <2>2. ~ Sending /\ ~ Sending'
    BY <1>0, <2>1 DEF Sending, ServerTypeOK
  <2> QED
    BY <1>2, <1>6, <2>1, <2>2
<1>10. CASE Server!InitServer(s)
  <2>1. /\ pcS[s] = "init" /\ holder' = holder /\ UNCHANGED <<wire, sent>>
        /\ pcS' = [pcS EXCEPT ![s] = "accept"] \/ pcS' = [pcS EXCEPT ![s] = "test"] \/ pcS' = pcS
    BY <1>10 DEF Server!InitServer
  <2>2. ~ Sending /\ ~ Sending'
    BY <1>0, <1>8, <2>1 DEF Sending, ServerTypeOK
  <2> QED
    BY <1>2, <1>6, <2>1, <2>2
<1>11. CASE Server!Accept(s)
  <2>1. /\ pcS[s] = "accept" /\ holder' = holder /\ UNCHANGED <<wire, sent>>
        /\ pcS' = [pcS EXCEPT ![s] = "test"]
    BY <1>11 DEF Server!Accept
  <2>2. ~ Sending /\ ~ Sending'
    BY <1>0, <1>8, <2>1 DEF Sending, ServerTypeOK
  <2> QED
    BY <1>2, <1>6, <2>1, <2>2
<1>12. CASE Server!Test(s)
  <2>1. /\ pcS[s] = "test" /\ UNCHANGED <<wire, sent>>
        /\ \/ pcS' = [pcS EXCEPT ![s] = "header"] /\ holder' = holder
           \/ pcS' = [pcS EXCEPT ![s] = "idle"] /\ holder' = Idle
    BY <1>12 DEF Server!Test, Server!Return, Idle
  <2>2. ~ Sending /\ ~ Sending'
    BY <1>0, <1>8, <2>1 DEF Sending, ServerTypeOK
  <2> QED
    BY <1>2, <1>6, <2>1, <2>2
<1>13. ASSUME Server!SendFails(s) PROVE ~ Parsing /\ UNCHANGED sent
  BY <1>0, <1>13 DEF Server!SendFails, TabletTypeOK, Parsing
<1>14. ASSUME pcS[s] \in {"header", "payload"}, Parsing
       PROVE  /\ link = "up" /\ Server!Packet(s) \in AnyPacket /\ Server!Packet(s) \in Sized
              /\ Server!Packet(s).size \in Nat
              /\ \E i \in 1 .. Len(Packets[s]) : Server!Packet(s) = Packets[s][i]
  <2>1. link = "up"
    BY <1>0, <1>14 DEF CallerInv, ConnectionInv, TabletTypeOK, Parsing
  <2>2. /\ Server!Packet(s) \in AnyPacket
        /\ \E i \in 1 .. Len(Packets[s]) : Server!Packet(s) = Packets[s][i]
    BY <1>0, <1>14, PacketOf
  <2>3. Server!Packet(s) \in Sized /\ Server!Packet(s).size \in Nat
    BY <2>2, MaxSizeIsNat, Constants DEF AnyPacket, Sized
  <2> QED
    BY <2>1, <2>2, <2>3
<1>15. CASE Server!SendHeader(s) /\ Parsing
  <2> DEFINE p == Server!Packet(s)
  <2>0. pcS[s] = "header" /\ link' = link /\ link = "up"
    BY <1>14, <1>15 DEF Server!SendHeader, Server!connVars
  <2>1. /\ Server!Transmit(Server!Header(p.size)) /\ sent' = sent
        /\ pcS' = [pcS EXCEPT ![s] = "payload"] /\ next' = next /\ holder' = holder
    BY <1>13, <1>15 DEF Server!SendHeader
  <2>2. p \in AnyPacket /\ p \in Sized
    BY <1>14, <1>15, <2>0
  <2>3. holder = s /\ s # Idle
    BY <1>8, <2>0
  <2>4. Server!Packet(s)' = p
    BY <2>1 DEF Server!Packet
  <2> HIDE DEF p
  <2>5. ~ Sending /\ Sending'
    BY <1>0, <2>0, <2>1, <2>3 DEF Sending, ServerTypeOK
  <2>6. Going = sent /\ Owed = 0 /\ Going' = Append(sent, p) /\ Owed' = p.size
    BY <2>1, <2>3, <2>4, <2>5 DEF Going, Owed
  <2>7. /\ Server!Header(p.size) \in Seq(Byte) /\ Len(Server!Header(p.size)) = 4
        /\ \A j \in 1 .. 4 : Server!Header(p.size)[j].b = Server!Digit(p.size, Server!Weights[j])
        /\ \A j \in 1 .. 3 : Server!Header(p.size)[j].mid
    BY <2>2, HeaderBytes
  <2>8. /\ Pending' = Pending + 4 /\ Moved(Line, Pending, Solid, 0, Line', Solid')
        /\ \A j \in 1 .. 4 : Line'[Pending + j] = Server!Digit(p.size, Server!Weights[j])
        /\ \A j \in 1 .. 3 : Pending + j \in Solid'
    <3>1. /\ Pending' = Pending + 4 /\ Moved(Line, Pending, Solid, 0, Line', Solid')
          /\ \A j \in 1 .. 4 : /\ Line'[Pending + j] = Server!Header(p.size)[j].b
                               /\ Server!Header(p.size)[j].mid => Pending + j \in Solid'
      BY <1>0, <1>1, <1>2, <1>4, <2>0, <2>1, <2>7, LineSent
    <3>2. \A j \in 1 .. 3 : j \in 1 .. 4
      OBVIOUS
    <3> QED
      BY <2>7, <3>1, <3>2, Zenon
  <2>9. StreamInv /\ FrameInv /\ ParserInv
    BY <1>15 DEF Inv
  <2>10. K \in Nat /\ K <= Len(sent) /\ Len(sent) \in Nat
    <3>1. Len(delivered) \in Nat
      BY <1>0, LenProperties DEF TabletTypeOK
    <3>2. Len(sent) \in Nat
      BY <1>0, GoingPackets
    <3>3. K \in 0 .. Len(sent)
      BY <2>6, <2>9 DEF StreamInv, Stream
    <3> QED
      BY <3>2, <3>3
  <2>11. StreamInv'
    <3>1. Stream(Line, Pending, Solid, K, sent, 0, remainingSize)
      BY <2>6, <2>9 DEF StreamInv
    <3>2. sent \in Seq(Sized) /\ remainingSize \in Nat /\ Pending \in Nat
      BY <1>0, <2>6, GoingPackets, LineBytes DEF TabletTypeOK
    <3>3. Stream(Line', Pending + 4, Solid', K, Append(sent, p), p.size, remainingSize)
      BY <2>2, <2>8, <2>10, <3>1, <3>2, HeaderSent, Zenon
    <3> QED
      BY <1>2, <1>5, <2>6, <2>8, <3>3 DEF StreamInv
  <2>12. FrameInv'
    <3> SUFFICES ASSUME Begun
                 PROVE  /\ Len(toSend) + remainingSize = Going'[K].size
                        /\ \A j \in 1 .. Len(toSend) : toSend[j] = Going'[K].id
      BY <1>2, <1>5 DEF FrameInv
    <3>1. K \in 1 .. Len(sent)
      <4>1. Len(delivered) \in Nat
        BY <1>0, LenProperties DEF TabletTypeOK
      <4> QED
        BY <2>10, <4>1 DEF K
    <3>2. Going'[K] = Going[K]
      BY <1>0, <2>2, <2>6, <3>1, GoingPackets, AppendProperties
    <3> QED
      BY <2>9, <3>2 DEF FrameInv
  <2> QED
    BY <1>1, <1>2, <1>4, <1>5, <2>1, <2>9, <2>11, <2>12 DEF Inv
<1>16. CASE Server!SendPayload(s) /\ Parsing
  <2> DEFINE p == Server!Packet(s)
  <2>0. pcS[s] = "payload" /\ link' = link /\ link = "up"
    BY <1>14, <1>16 DEF Server!SendPayload, Server!connVars
  <2>1. /\ Server!Transmit(Server!Payload(p)) /\ sent' = Append(sent, p)
        /\ pcS' = [pcS EXCEPT ![s] = "idle"] /\ holder' = Idle
    BY <1>13, <1>16, <2>0 DEF Server!SendPayload, Server!Return, Idle
  <2>2. /\ p \in AnyPacket /\ p \in Sized /\ p.size \in Nat
        /\ \E i \in 1 .. Len(Packets[s]) : p = Packets[s][i]
    BY <1>14, <1>16, <2>0
  <2>3. holder = s /\ s # Idle
    BY <1>8, <2>0
  <2>5. Sending /\ ~ Sending'
    BY <2>0, <2>1, <2>3 DEF Sending
  <2>6. Going = Append(sent, p) /\ Owed = p.size /\ Going' = Going /\ Owed' = 0
    BY <2>1, <2>3, <2>5 DEF Going, Owed
  <2> HIDE DEF p
  <2>7. /\ Server!Payload(p) \in Seq(Byte) /\ Len(Server!Payload(p)) = p.size
        /\ \A j \in 1 .. p.size : Server!Payload(p)[j].b = p.id
    BY <2>2, PayloadBytes
  <2>8. /\ Pending' = Pending + p.size /\ Moved(Line, Pending, Solid, 0, Line', Solid')
        /\ \A j \in 1 .. p.size : Line'[Pending + j] = p.id
    <3>1. /\ Pending' = Pending + p.size /\ Moved(Line, Pending, Solid, 0, Line', Solid')
          /\ \A j \in 1 .. p.size : Line'[Pending + j] = Server!Payload(p)[j].b
      BY <1>0, <1>1, <1>2, <1>4, <2>0, <2>1, <2>7, LineSent
    <3> QED
      BY <2>7, <3>1, Zenon
  <2>9. StreamInv /\ FrameInv /\ ParserInv
    BY <1>16 DEF Inv
  <2>10. /\ Going \in Seq(Sized) /\ Len(Going) \in Nat /\ Going[Len(Going)] = p
         /\ remainingSize \in Nat /\ Pending \in Nat /\ K \in Nat
    <3>1. Going \in Seq(Sized) /\ Len(Going) \in Nat /\ sent \in Seq(BigPacket)
      BY <1>0, GoingPackets
    <3>2. Going[Len(Going)] = p
      BY <2>6, <3>1, AppendProperties
    <3>3. remainingSize \in Nat /\ Pending \in Nat
      BY <1>0, LineBytes DEF TabletTypeOK
    <3>4. K \in 0 .. Len(Going)
      BY <2>9 DEF StreamInv, Stream
    <3> QED
      BY <3>1, <3>2, <3>3, <3>4
  <2>11. Filled(Line', Pending - 0, Pending', Going[Len(Going)])
    <3> SUFFICES ASSUME NEW q \in Pending - 0 + 1 .. Pending' PROVE Line'[q] = p.id
      BY <2>10 DEF Filled
    <3>1. q - Pending \in 1 .. p.size /\ Pending + (q - Pending) = q
      BY <2>2, <2>8, <2>10
    <3> QED
      BY <2>8, <3>1
  <2>12. StreamInv'
    <3>1. Stream(Line, Pending, Solid, K, Going, p.size, remainingSize)
      BY <2>6, <2>9 DEF StreamInv
    <3>2. /\ 0 \in Nat /\ 0 <= remainingSize /\ Pending' \in Nat /\ Pending' >= Pending - 0
          /\ Pending' + 0 = Pending - 0 + p.size /\ remainingSize - 0 = remainingSize
      BY <2>2, <2>8, <2>10, SMTT(30)
    <3>3. Stream(Line', Pending', Solid', K, Going, 0, remainingSize - 0)
      BY <2>2, <2>8, <2>10, <2>11, <3>1, <3>2, StreamMoved, Zenon
    <3> QED
      BY <1>2, <1>5, <2>6, <3>2, <3>3 DEF StreamInv
  <2>13. FrameInv'
    BY <1>2, <1>5, <2>6, <2>9 DEF FrameInv
  <2> QED
    BY <1>1, <1>2, <1>4, <1>5, <2>1, <2>2, <2>9, <2>12, <2>13 DEF Inv, p
<1>17. CASE ~ Parsing /\ ~ Server!SendPayload(s)
  <2>1. sent' = sent
    BY <1>17 DEF Server!SendData, Server!Call, Server!InitServer, Server!Accept, Server!Test,
          Server!SendHeader, Server!SendFails
  <2> QED
    BY <1>2, <1>7, <1>17, <2>1
<1>18. CASE ~ Parsing /\ Server!SendPayload(s)
  <2>1. pcS[s] = "payload" /\ (sent' = sent \/ sent' = Append(sent, Server!Packet(s)))
    BY <1>18 DEF Server!SendPayload, Server!SendFails
  <2>2. /\ Server!Packet(s) \in AnyPacket
        /\ \E i \in 1 .. Len(Packets[s]) : Server!Packet(s) = Packets[s][i]
    BY <1>0, <2>1, PacketOf
  <2> QED
    BY <1>2, <1>7, <1>18, <2>1, <2>2
<1> QED
  BY <1>9, <1>10, <1>11, <1>12, <1>15, <1>16, <1>17, <1>18 DEF Server!SendData

-------------------------------------------------------------------------------
(* The tablet's steps.                                                     *)

\* A part of a sequence, after its first m elements and up to the n-th.
LEMMA PartOf ==
  ASSUME NEW S, NEW s \in Seq(S), NEW m \in Nat, NEW n \in Nat, m <= n, n <= Len(s)
  PROVE  /\ SubSeq(s, m + 1, n) \in Seq(S) /\ Len(SubSeq(s, m + 1, n)) = n - m
         /\ \A i \in 1 .. n - m : SubSeq(s, m + 1, n)[i] = s[m + i]
<1>1. Len(s) \in Nat
  BY LenProperties
<1>2. \A i \in m + 1 .. n : s[i] \in S
  <2> TAKE i \in m + 1 .. n
  <2>1. i \in 1 .. Len(s)
    BY <1>1
  <2> QED
    BY <2>1, ElementOfSeq
<1>3. /\ SubSeq(s, m + 1, n) \in Seq(S)
      /\ Len(SubSeq(s, m + 1, n)) = IF m + 1 <= n THEN n - (m + 1) + 1 ELSE 0
      /\ \A i \in 1 .. n - (m + 1) + 1 : SubSeq(s, m + 1, n)[i] = s[(m + 1) + i - 1]
  <2>1. m + 1 \in Int /\ n \in Int
    OBVIOUS
  <2> QED
    BY <1>2, <2>1, SubSeqProperties
<1>4. n - (m + 1) + 1 = n - m /\ (IF m + 1 <= n THEN n - (m + 1) + 1 ELSE 0) = n - m
      /\ \A i \in 1 .. n - m : (m + 1) + i - 1 = m + i
  OBVIOUS
<1> QED
  BY <1>3, <1>4

\* The two parts of a sequence that was put together.
LEMMA Joined ==
  ASSUME NEW S, NEW s \in Seq(S), NEW t \in Seq(S)
  PROVE  /\ s \o t \in Seq(S) /\ Len(s \o t) = Len(s) + Len(t)
         /\ \A i \in 1 .. Len(s) : (s \o t)[i] = s[i]
         /\ \A i \in 1 .. Len(t) : (s \o t)[Len(s) + i] = t[i]
<1>1. Len(s) \in Nat /\ Len(t) \in Nat
  BY LenProperties
<1>2. /\ s \o t \in Seq(S) /\ Len(s \o t) = Len(s) + Len(t)
      /\ \A i \in 1 .. Len(s) + Len(t) : (s \o t)[i] = IF i <= Len(s) THEN s[i] ELSE t[i - Len(s)]
  BY ConcatProperties
<1>3. \A i \in 1 .. Len(s) : i \in 1 .. Len(s) + Len(t) /\ i <= Len(s)
  BY <1>1
<1>4. \A i \in 1 .. Len(t) : /\ Len(s) + i \in 1 .. Len(s) + Len(t) /\ ~ (Len(s) + i <= Len(s))
                              /\ (Len(s) + i) - Len(s) = i
  BY <1>1
<1> QED
  BY <1>2, <1>3, <1>4

\* What a read brings: the first k bytes of the wire, and zeros after them.
LEMMA Arrived ==
  ASSUME ServerTypeOK, TabletTypeOK, NEW k \in 1 .. maxBuffSize, Tablet!Arrive(k)
  PROVE  /\ k \in 1 .. Len(wire) /\ (HeadersWhole => ~ wire[k].mid)
         /\ Tablet!Padded(Tablet!Bytes(k)) \in Seq(Nat)
         /\ Len(Tablet!Padded(Tablet!Bytes(k))) = maxBuffSize
         /\ \A q \in 1 .. k : Tablet!Padded(Tablet!Bytes(k))[q] = wire[q].b
         /\ Len(wire') = Len(wire) - k /\ \A i \in 1 .. Len(wire) - k : wire'[i] = wire[k + i]
<1> DEFINE bytes == Tablet!Bytes(k)
           zeros == Tablet!Zeros(maxBuffSize - k)
<1>0. maxBuffSize \in Nat /\ k \in Nat /\ maxBuffSize - k \in Nat
  BY Constants
<1>1. k \in 1 .. Len(wire) /\ (HeadersWhole => ~ wire[k].mid)
      /\ Len(wire) \in Nat /\ \A q \in 1 .. Len(wire) : wire[q] \in Byte /\ wire[q].b \in Nat
  BY <1>0, LineBytes DEF Tablet!Arrive
<1>2. bytes \in [1 .. k -> Nat] /\ \A q \in 1 .. k : bytes[q] = wire[q].b
  <2>1. \A q \in 1 .. k : q \in 1 .. Len(wire)
    BY <1>0, <1>1
  <2> QED
    BY <1>1, <2>1 DEF Tablet!Bytes
<1>3. zeros \in [1 .. maxBuffSize - k -> Nat]
  BY DEF Tablet!Zeros
<1> HIDE DEF bytes, zeros
<1>4. bytes \in Seq(Nat) /\ Len(bytes) = k /\ zeros \in Seq(Nat) /\ Len(zeros) = maxBuffSize - k
  BY <1>0, <1>2, <1>3, FunctionIsSeq
<1>5. Tablet!Padded(Tablet!Bytes(k)) = bytes \o zeros
  BY <1>4 DEF Tablet!Padded, bytes, zeros
<1>6. /\ bytes \o zeros \in Seq(Nat) /\ Len(bytes \o zeros) = maxBuffSize
      /\ \A q \in 1 .. k : (bytes \o zeros)[q] = bytes[q]
  <2>1. /\ bytes \o zeros \in Seq(Nat) /\ Len(bytes \o zeros) = k + (maxBuffSize - k)
        /\ \A q \in 1 .. k : (bytes \o zeros)[q] = bytes[q]
    BY <1>4, Joined, ZenonT(60)
  <2> QED
    BY <1>0, <2>1
<1>7. /\ Len(wire') = Len(wire) - k /\ \A i \in 1 .. Len(wire) - k : wire'[i] = wire[k + i]
  <2>1. wire' = SubSeq(wire, k + 1, Len(wire))
    BY DEF Tablet!Arrive
  <2>2. k \in Nat /\ Len(wire) \in Nat /\ k <= Len(wire) /\ Len(wire) <= Len(wire)
    BY <1>0, <1>1
  <2>3. wire \in Seq(Byte)
    BY DEF ServerTypeOK
  <2> QED
    BY <2>1, <2>2, <2>3, PartOf
<1> QED
  BY <1>1, <1>2, <1>5, <1>6, <1>7

\* What Copy leaves, when it copies c bytes of the frame.
Copied(start, remaining, frame, c) ==
  /\ c \in Nat /\ c <= remaining /\ start + c <= d /\ (c = remaining \/ start + c = d)
  /\ toSend' \in Seq(Nat) /\ Len(toSend') = Len(frame) + c
  /\ \A j \in 1 .. Len(frame) : toSend'[j] = frame[j]
  /\ \A j \in 1 .. c : toSend'[Len(frame) + j] = buff[start + j]
  /\ remainingSize' = remaining - c /\ d' = d - (start + c)
  /\ buff' \in Seq(Nat) /\ Len(buff') = d' /\ \A q \in 1 .. d' : buff'[q] = buff[q + (start + c)]
  /\ pcP' = IF remaining = c THEN "take" ELSE "read"

LEMMA CopyStep ==
  ASSUME TabletTypeOK, NEW start \in Nat, start <= d, NEW remaining \in Nat,
         NEW frame \in Seq(Nat), Tablet!Copy(start, remaining, frame)
  PROVE  \E c : Copied(start, remaining, frame, c)
<1> DEFINE c == Tablet!Smaller(remaining, d - start)
<1>0. d \in Nat /\ buff \in Seq(Nat) /\ Len(buff) \in Nat /\ d <= Len(buff) /\ Len(frame) \in Nat
  BY LenProperties DEF TabletTypeOK
<1>1. c \in Nat /\ c <= remaining /\ start + c <= d /\ (c = remaining \/ start + c = d)
  BY <1>0 DEF Tablet!Smaller
<1>2. /\ toSend' = frame \o SubSeq(buff, start + 1, start + c)
      /\ remainingSize' = remaining - c /\ d' = d - (c + start)
      /\ buff' = SubSeq(buff, (c + start) + 1, d)
      /\ pcP' = IF remaining = c THEN "take" ELSE "read"
  BY DEF Tablet!Copy, Tablet!Rest
<1> HIDE DEF c
<1> DEFINE part == SubSeq(buff, start + 1, start + c)
<1>4. part \in Seq(Nat) /\ Len(part) = c /\ \A j \in 1 .. c : part[j] = buff[start + j]
  <2>1. start + c \in Nat /\ start <= start + c /\ start + c <= Len(buff) /\ (start + c) - start = c
    BY <1>0, <1>1
  <2>2. /\ part \in Seq(Nat) /\ Len(part) = (start + c) - start
        /\ \A j \in 1 .. (start + c) - start : part[j] = buff[start + j]
    BY <1>0, <2>1, PartOf, ZenonT(60)
  <2> QED
    BY <2>1, <2>2, Zenon
<1>5. /\ buff' \in Seq(Nat) /\ Len(buff') = d - (start + c)
      /\ \A q \in 1 .. d - (start + c) : buff'[q] = buff[q + (start + c)]
  <2>1. c + start \in Nat /\ c + start <= d /\ c + start = start + c
        /\ \A q \in 1 .. d - (start + c) : (c + start) + q = q + (start + c)
    BY <1>0, <1>1
  <2>2. /\ buff' \in Seq(Nat) /\ Len(buff') = d - (c + start)
        /\ \A q \in 1 .. d - (c + start) : buff'[q] = buff[(c + start) + q]
    <3>1. c + start \in Nat /\ c + start <= d /\ d \in Nat /\ d <= Len(buff) /\ buff \in Seq(Nat)
      BY <1>0, <2>1
    <3>2. /\ SubSeq(buff, (c + start) + 1, d) \in Seq(Nat)
          /\ Len(SubSeq(buff, (c + start) + 1, d)) = d - (c + start)
          /\ \A q \in 1 .. d - (c + start) :
               SubSeq(buff, (c + start) + 1, d)[q] = buff[(c + start) + q]
      BY <3>1, PartOf, ZenonT(60)
    <3> QED
      BY <1>2, <3>2, Zenon
  <2> QED
    BY <2>1, <2>2
<1> HIDE DEF part
<1>6. /\ toSend' \in Seq(Nat) /\ Len(toSend') = Len(frame) + c
      /\ \A j \in 1 .. Len(frame) : toSend'[j] = frame[j]
      /\ \A j \in 1 .. c : toSend'[Len(frame) + j] = part[j]
  <2>1. toSend' = frame \o part
    BY <1>2 DEF part
  <2>2. /\ frame \o part \in Seq(Nat) /\ Len(frame \o part) = Len(frame) + Len(part)
        /\ \A i \in 1 .. Len(frame) : (frame \o part)[i] = frame[i]
        /\ \A i \in 1 .. Len(part) : (frame \o part)[Len(frame) + i] = part[i]
    <3>1. part \in Seq(Nat)
      BY <1>4
    <3> QED
      BY <3>1, Joined, SMTT(30)
  <2> QED
    BY <1>4, <2>1, <2>2, Zenon
<1>7. d' = d - (start + c)
  BY <1>0, <1>1, <1>2
<1> QED
  BY <1>1, <1>2, <1>4, <1>5, <1>6, <1>7 DEF Copied

\* The line loses what was taken off the front of buff.
LEMMA LineTaken ==
  ASSUME ServerTypeOK, TabletTypeOK, UNCHANGED wire, NEW c \in Nat, c <= d, d' = d - c,
         \A q \in 1 .. d' : buff'[q] = buff[q + c]
  PROVE  Pending' = Pending - c /\ Moved(Line, Pending, Solid, c, Line', Solid')
<1>1. /\ Len(wire) \in Nat /\ Pending \in Nat /\ d \in Nat /\ Pending = d + Len(wire)
      /\ \A q \in 1 .. Pending : Line[q] = IF q <= d THEN buff[q] ELSE wire[q - d].b
  BY LineBytes DEF Pending
<1>2. Pending' = Pending - c
  BY <1>1 DEF Pending
<1>3. \A q \in 1 .. Pending - c : Line'[q] = IF q <= d' THEN buff'[q] ELSE wire[q - d'].b
  BY <1>2 DEF Line
<1>4. ASSUME NEW q \in 1 .. Pending - c
      PROVE  Line'[q] = Line[q + c] /\ (q + c \in Solid => q \in Solid')
  <2>1. /\ q \in Nat /\ q + c \in 1 .. Pending /\ (q <= d' <=> q + c <= d) /\ (q + c = d <=> q = d')
        /\ q - d' = (q + c) - d
    BY <1>1
  <2>2. CASE q + c <= d
    <3>1. q \in 1 .. d'
      BY <1>1, <2>1, <2>2
    <3> QED
      BY <1>1, <1>3, <2>1, <2>2, <3>1 DEF Solid
  <2>3. CASE ~ (q + c <= d)
    <3>1. Line'[q] = Line[q + c]
      BY <1>1, <1>3, <2>1, <2>3
    <3>2. q + c > d /\ q > d'
      BY <1>1, <2>1, <2>3
    <3>3. q + c \in Solid => q \in Solid'
      BY <2>1, <3>2, Zenon DEF Solid
    <3> QED
      BY <3>1, <3>3
  <2> QED
    BY <2>2, <2>3
<1> QED
  BY <1>2, <1>4 DEF Moved

\* The tablet's variables keep their types, and the connection is closed at the end only.
LEMMA TabletTypeStep ==
  ASSUME ServerTypeOK, TabletTypeOK, Tablet!Player
  PROVE  TabletTypeOK'
<1> USE DEF Tablet!serverSide, Tablet!network, Tablet!codec, Tablet!parser
<1>0. maxBuffSize \in Nat
  BY Constants
<1>1. CASE Tablet!SurfaceChanged
  BY <1>1 DEF Tablet!SurfaceChanged, TabletTypeOK
<1>2. CASE Tablet!SurfaceDestroyed
  BY <1>2 DEF Tablet!SurfaceDestroyed, TabletTypeOK
<1>3. CASE Tablet!Connect
  BY <1>3 DEF Tablet!Connect, TabletTypeOK
<1>4. CASE Tablet!StartDecoder
  BY <1>4 DEF Tablet!StartDecoder, TabletTypeOK
<1>5. CASE Tablet!Read
  <2>1. CASE Tablet!EndOfStream /\ pcP' = "end" /\ UNCHANGED <<wire, buff, d>>
    BY <1>5, <2>1 DEF Tablet!Read, TabletTypeOK
  <2>2. ASSUME NEW k \in 1 .. maxBuffSize, Tablet!Arrive(k),
               buff' = Tablet!Padded(Tablet!Bytes(k)), d' = k,
               pcP' = IF remainingSize = 0 THEN "head" ELSE "copy"
        PROVE  TabletTypeOK'
    <3>1. buff' \in Seq(Nat) /\ Len(buff') = maxBuffSize
      BY <2>2, Arrived
    <3>2. d' \in Nat /\ d' <= Len(buff')
      BY <1>0, <2>2, <3>1
    <3>3. pcP = "read" /\ UNCHANGED <<link, toSend, remainingSize, delivered>>
      BY <1>5 DEF Tablet!Read
    <3> QED
      BY <2>2, <3>1, <3>2, <3>3 DEF TabletTypeOK
  <2> QED
    BY <1>5, <2>1, <2>2 DEF Tablet!Read
<1>6. CASE Tablet!ReadMore
  <2>1. CASE Tablet!EndOfStream /\ pcP' = "end" /\ UNCHANGED <<wire, buff, d>>
    BY <1>6, <2>1 DEF Tablet!ReadMore, TabletTypeOK
  <2>2. ASSUME NEW k \in 1 .. maxBuffSize, Tablet!Arrive(k),
               buff' = buff \o Tablet!Padded(Tablet!Bytes(k)), d' = d + maxBuffSize, pcP' = pcP
        PROVE  TabletTypeOK'
    <3> DEFINE more == Tablet!Padded(Tablet!Bytes(k))
    <3>1. more \in Seq(Nat) /\ Len(more) = maxBuffSize
      BY <2>2, Arrived
    <3>2. buff \in Seq(Nat) /\ Len(buff) \in Nat /\ d \in Nat /\ d <= Len(buff)
      BY LenProperties DEF TabletTypeOK
    <3> HIDE DEF more
    <3>3. buff \o more \in Seq(Nat) /\ Len(buff \o more) = Len(buff) + Len(more)
      BY <3>1, <3>2, ConcatProperties
    <3>4. buff' \in Seq(Nat) /\ d' \in Nat /\ d' <= Len(buff')
      BY <1>0, <2>2, <3>1, <3>2, <3>3 DEF more
    <3>5. pcP = "head" /\ UNCHANGED <<link, toSend, remainingSize, delivered>>
      BY <1>6 DEF Tablet!ReadMore
    <3> QED
      BY <2>2, <3>4, <3>5 DEF TabletTypeOK
  <2> QED
    BY <1>6, <2>1, <2>2 DEF Tablet!ReadMore
<1>7. ASSUME NEW start, NEW remaining, NEW frame, NEW c, Copied(start, remaining, frame, c),
             remaining \in Nat, start \in Nat, pcP \in {"head", "copy"},
             UNCHANGED <<link, delivered>>
      PROVE  TabletTypeOK'
  <2>1. remainingSize' \in Nat /\ d' \in Nat /\ d' <= Len(buff') /\ pcP' \in {"take", "read"}
    BY <1>7 DEF Copied, TabletTypeOK
  <2> QED
    BY <1>7, <2>1 DEF Copied, TabletTypeOK
<1>8. CASE Tablet!ParseHeader
  <2>0. pcP = "head" /\ UNCHANGED <<link, delivered>>
    BY <1>8 DEF Tablet!ParseHeader
  <2>1. CASE UNCHANGED Tablet!parser /\ pcP' \in {"end", "read"}
    BY <2>0, <2>1 DEF TabletTypeOK
  <2>2. CASE Tablet!Size \in 1 .. maxBuffSize /\ d >= 4 /\ Tablet!Copy(4, Tablet!Size, <<>>)
    <3>1. Tablet!Size \in Nat /\ 4 \in Nat /\ 4 <= d
      BY <1>0, <2>2 DEF TabletTypeOK
    <3>2. <<>> \in Seq(Nat)
      BY EmptySeq
    <3>3. PICK c : Copied(4, Tablet!Size, <<>>, c)
      BY <2>2, <3>1, <3>2, CopyStep
    <3> QED
      BY <1>7, <2>0, <3>1, <3>3
  <2> QED
    BY <1>8, <2>1, <2>2 DEF Tablet!ParseHeader
<1>9. CASE Tablet!Continue
  <2>0. pcP = "copy" /\ UNCHANGED <<link, delivered>> /\ Tablet!Copy(0, remainingSize, toSend)
    BY <1>9 DEF Tablet!Continue
  <2>1. remainingSize \in Nat /\ 0 \in Nat /\ 0 <= d /\ toSend \in Seq(Nat)
    BY DEF TabletTypeOK
  <2>2. PICK c : Copied(0, remainingSize, toSend, c)
    BY <2>0, <2>1, CopyStep
  <2> QED
    BY <1>7, <2>0, <2>1, <2>2
<1>10. CASE Tablet!Take
  BY <1>10 DEF Tablet!Take, TabletTypeOK
<1>11. CASE Tablet!QueueInputBuffer
  <2>1. delivered' \in Seq(Seq(Nat))
    <3>1. Append(delivered, toSend) \in Seq(Seq(Nat))
      BY AppendProperties DEF TabletTypeOK
    <3> QED
      BY <1>11, <3>1 DEF Tablet!QueueInputBuffer, TabletTypeOK
  <2> QED
    BY <1>11, <2>1 DEF Tablet!QueueInputBuffer, TabletTypeOK
<1>12. CASE Tablet!OnInputBufferAvailable
  BY <1>12 DEF Tablet!OnInputBufferAvailable, TabletTypeOK
<1>13. CASE Tablet!OnError
  BY <1>13 DEF Tablet!OnError, TabletTypeOK
<1>14. CASE Tablet!End
  BY <1>14 DEF Tablet!End, TabletTypeOK
<1> QED
  BY <1>1, <1>2, <1>3, <1>4, <1>5, <1>6, <1>8, <1>9, <1>10, <1>11, <1>12, <1>13, <1>14
     DEF Tablet!Player, Tablet!Thread

\* Where a header is expected there is one, whole, and it has the size of its packet.
LEMMA HeaderThere ==
  ASSUME Inv, Parsing, pcP = "head"
  PROVE  /\ K = Len(delivered) /\ K \in Nat /\ K < Len(Going) /\ remainingSize = 0
         /\ d >= 4 /\ Len(buff) >= 4 /\ Pending \in Nat
         /\ Going \in Seq(Sized) /\ Going[K + 1] \in BigPacket
         /\ Going[K + 1].size \in Nat /\ Going[K + 1].size > 3
         /\ Stream(Line, Pending, Solid, K, Going, Owed, 0)
         /\ FrameAt(Line, Pending, Solid, 0, Going[K + 1])
         /\ Tablet!Size = Going[K + 1].size
         /\ \A q \in 1 .. d : Line[q] = buff[q] /\ q \in 1 .. Pending
<1> DEFINE p == Going[K + 1]
<1>0. ServerInv /\ ServerTypeOK /\ TabletTypeOK /\ ParserInv /\ StreamInv
  BY DEF Inv, ServerInv
<1>1. d > 0 /\ remainingSize = 0 /\ ~ Begun
  BY <1>0 DEF ParserInv, Begun
<1>2. K = Len(delivered) /\ K \in Nat
  <2>1. Len(delivered) \in Nat
    BY <1>0, LenProperties DEF TabletTypeOK
  <2> QED
    BY <1>1, <2>1 DEF K
<1>3. /\ Len(wire) \in Nat /\ Pending \in Nat /\ d \in Nat /\ Pending = d + Len(wire)
      /\ \A q \in 1 .. Pending : Line[q] = IF q <= d THEN buff[q] ELSE wire[q - d].b
  BY <1>0, LineBytes DEF Pending
<1>4. Going \in Seq(Sized) /\ Going \in Seq(BigPacket) /\ Len(Going) \in Nat /\ Owed \in Nat
  BY <1>0, GoingPackets
<1>5. Stream(Line, Pending, Solid, K, Going, Owed, 0)
  BY <1>0, <1>1 DEF StreamInv
<1>6. K \in 0 .. Len(Going)
  BY <1>5 DEF Stream
<1>7. /\ K < Len(Going) => FrameAt(Line, Pending, Solid, 0, Going[K + 1])
      /\ K = Len(Going) => 0 = Pending + Owed
  <2>1. 0 \in Nat /\ K \in Nat /\ Pending \in Nat /\ Owed \in Nat /\ Going \in Seq(Sized)
    BY <1>2, <1>3, <1>4
  <2>2. /\ K < Len(Going) => /\ FrameAt(Line, Pending, Solid, 0, Going[K + 1])
                             /\ 0 + 4 <= Pending /\ Going[K + 1] \in Sized
        /\ K = Len(Going) => 0 = Pending + Owed
    BY <1>5, <2>1, AfterPacket
  <2> QED
    BY <2>2, Zenon
<1>8. K < Len(Going)
  BY <1>1, <1>2, <1>3, <1>4, <1>6, <1>7
<1>9. p \in BigPacket
  <2>1. K + 1 \in 1 .. Len(Going)
    BY <1>2, <1>4, <1>8
  <2> QED
    BY <1>4, <2>1, ElementOfSeq
<1> HIDE DEF p
<1>7a. FrameAt(Line, Pending, Solid, 0, p)
  BY <1>7, <1>8, Zenon DEF p
<1>10. p \in AnyPacket /\ p.size \in Nat /\ p.size > 3 /\ p.size \in 0 .. MaxSize
  BY <1>9, MaxSizeIsNat DEF BigPacket, AnyPacket
<1>11. d >= 4
  <2>1. \A j \in 1 .. 3 : 0 + j \in Solid
    BY <1>7a DEF FrameAt
  <2>2. \A j \in 1 .. 3 : j # d
    BY <2>1 DEF Solid
  <2> QED
    BY <1>1, <1>3, <2>2
<1>12. Len(buff) >= 4
  <2>1. Len(buff) \in Nat /\ d <= Len(buff)
    BY <1>0, LenProperties DEF TabletTypeOK
  <2> QED
    BY <1>3, <1>11, <2>1
<1>13. \A q \in 1 .. d : Line[q] = buff[q] /\ q \in 1 .. Pending
  BY <1>3
<1>14. \A j \in 1 .. 4 : buff[j] = Server!Digit(p.size, Server!Weights[j])
  <2> TAKE j \in 1 .. 4
  <2>1. Line[0 + j] = Server!Digit(p.size, Server!Weights[j])
    BY <1>7a DEF FrameAt
  <2>2. j \in 1 .. d /\ 0 + j = j
    BY <1>3, <1>11
  <2> QED
    BY <1>13, <2>1, <2>2
<1>15. Tablet!Size = p.size
  <2>0. Radix \in Nat /\ Radix >= 2 /\ Radix % 2 = 0
    BY ScreenAssumption, Zenon DEF ScreenAssumption
  <2>1. /\ buff[1] = (p.size \div (Radix * Radix * Radix)) % Radix
        /\ buff[2] = (p.size \div (Radix * Radix)) % Radix
        /\ buff[3] = (p.size \div Radix) % Radix
        /\ buff[4] = (p.size \div 1) % Radix
    <3>1. 1 \in 1 .. 4 /\ 2 \in 1 .. 4 /\ 3 \in 1 .. 4 /\ 4 \in 1 .. 4
      OBVIOUS
    <3>2. /\ Server!Weights[1] = Radix * Radix * Radix /\ Server!Weights[2] = Radix * Radix
          /\ Server!Weights[3] = Radix /\ Server!Weights[4] = 1
      BY DEF Server!Weights
    <3> QED
      BY <1>14, <3>1, <3>2, Zenon DEF Server!Digit
  <2>2. p.size \in 0 .. Radix * Radix * Radix * (Radix \div 2) - 1
    BY <1>10, Zenon DEF MaxSize
  <2> DEFINE b1 == (p.size \div (Radix * Radix * Radix)) % Radix
             b2 == (p.size \div (Radix * Radix)) % Radix
             b3 == (p.size \div Radix) % Radix
             b4 == (p.size \div 1) % Radix
  <2>3. (((b1 % (Radix \div 2)) * Radix + b2) * Radix + b3) * Radix + b4 = p.size
    BY <2>0, <2>2, Value, Zenon
  <2>4. buff[1] = b1 /\ buff[2] = b2 /\ buff[3] = b3 /\ buff[4] = b4
    BY <2>1, Zenon
  <2> HIDE DEF b1, b2, b3, b4
  <2> QED
    BY <2>3, <2>4, Zenon DEF Tablet!Size
<1> QED
  BY <1>1, <1>2, <1>3, <1>4, <1>5, <1>7a, <1>8, <1>9, <1>10, <1>11, <1>12, <1>13, <1>15, Zenon DEF p

\* The tablet's thread leaves what is sent alone, and what has failed does not recover.
LEMMA PlayerKeeps ==
  ASSUME Inv, Tablet!Player, UNCHANGED serverOnly
  PROVE  /\ ServerInv' /\ TabletTypeOK' /\ UNCHANGED sent
         /\ Parsing' => Parsing /\ ~ Tablet!End
         /\ ~ Tablet!End => Going' = Going /\ Owed' = Owed
<1>0. ServerInv /\ ServerTypeOK /\ TabletTypeOK
  BY DEF Inv, ServerInv
<1>1. ServerInv' /\ TabletTypeOK'
  BY <1>0, PlayerKeepsServer, TabletTypeStep
<1>2. UNCHANGED <<sent, pcS, next, holder>>
  BY DEF serverOnly
<1>3. Parsing' => Parsing /\ ~ Tablet!End
  <2> SUFFICES ASSUME Parsing' PROVE Parsing /\ ~ Tablet!End
    OBVIOUS
  <2>1. ~ Tablet!End
    BY DEF Tablet!End, Parsing
  <2>2. pcP \notin {"end", "done"} /\ decoder # "error"
    BY <1>0, <2>1 DEF Parsing, TabletTypeOK, Tablet!Player, Tablet!Thread, Tablet!SurfaceChanged,
       Tablet!SurfaceDestroyed, Tablet!Connect, Tablet!StartDecoder, Tablet!Read, Tablet!ReadMore,
       Tablet!ParseHeader, Tablet!Continue, Tablet!Take, Tablet!QueueInputBuffer,
       Tablet!OnInputBufferAvailable, Tablet!OnError, Tablet!codec
  <2> QED
    BY <2>1, <2>2 DEF Parsing
<1>4. ASSUME ~ Tablet!End PROVE Going' = Going /\ Owed' = Owed
  <2>1. link' = "up" <=> link = "up"
    BY <1>4 DEF Tablet!Player, Tablet!Thread, Tablet!SurfaceChanged, Tablet!network,
       Tablet!SurfaceDestroyed, Tablet!Connect, Tablet!StartDecoder, Tablet!Read, Tablet!ReadMore,
       Tablet!ParseHeader, Tablet!Continue, Tablet!Take, Tablet!QueueInputBuffer,
       Tablet!OnInputBufferAvailable, Tablet!OnError
  <2>2. Sending' <=> Sending
    BY <1>2, <2>1 DEF Sending
  <2>3. Server!Packet(holder)' = Server!Packet(holder)
    BY <1>2 DEF Server!Packet
  <2> QED
    BY <1>2, <2>2, <2>3 DEF Going, Owed
<1> QED
  BY <1>1, <1>2, <1>3, <1>4

\* A read moves bytes from the wire to buff.
LEMMA ReadStep ==
  ASSUME HeadersWhole, Inv, Parsing, pcP = "read", Going' = Going, Owed' = Owed,
         UNCHANGED <<toSend, remainingSize, delivered>>, TabletTypeOK', ServerTypeOK',
         NEW k \in 1 .. maxBuffSize, Tablet!Arrive(k), buff' = Tablet!Padded(Tablet!Bytes(k)),
         d' = k, pcP' = IF remainingSize = 0 THEN "head" ELSE "copy"
  PROVE  ParserInv' /\ FrameInv' /\ StreamInv'
<1>0. /\ ServerInv /\ ServerTypeOK /\ TabletTypeOK /\ ParserInv /\ FrameInv /\ StreamInv
      /\ d = 0 /\ remainingSize \in Nat /\ k \in Nat
  BY Constants DEF Inv, ServerInv, ParserInv, TabletTypeOK
<1>1. /\ k \in 1 .. Len(wire) /\ ~ wire[k].mid
      /\ \A q \in 1 .. k : buff'[q] = wire[q].b
      /\ Len(wire') = Len(wire) - k /\ \A i \in 1 .. Len(wire) - k : wire'[i] = wire[k + i]
  BY <1>0, Arrived
<1>2. /\ Len(wire) \in Nat /\ Pending \in Nat /\ Pending = Len(wire)
      /\ \A q \in 1 .. Pending : Line[q] = wire[q - 0].b
  BY <1>0, LineBytes DEF Pending
<1>3. Pending' = Pending
  BY <1>0, <1>1, <1>2 DEF Pending
<1>4. \A q \in 1 .. Pending : Line'[q] = IF q <= k THEN buff'[q] ELSE wire'[q - k].b
  BY <1>3 DEF Line
<1>5. Moved(Line, Pending, Solid, 0, Line', Solid')
  <2> SUFFICES ASSUME NEW q \in 1 .. Pending - 0
               PROVE  Line'[q] = Line[q + 0] /\ (q + 0 \in Solid => q \in Solid')
    BY DEF Moved
  <2>1. q \in Nat /\ q + 0 = q /\ q \in 1 .. Pending /\ q - 0 = q /\ q > 0
    BY <1>2
  <2>2. CASE q <= k
    <3>1. q \in 1 .. k
      BY <2>1, <2>2
    <3>2. Line'[q] = Line[q]
      BY <1>1, <1>2, <1>4, <2>1, <2>2, <3>1
    <3>3. ASSUME q \in Solid PROVE q \in Solid'
      <4>1. wire[q].mid
        BY <1>0, <2>1, <3>3, Zenon DEF Solid
      <4>2. q # k /\ ~ (q > k)
        BY <1>0, <1>1, <2>1, <2>2, <4>1
      <4> QED
        BY <2>1, <4>2 DEF Solid
    <3> QED
      BY <2>1, <3>2, <3>3
  <2>3. CASE q > k
    <3>1. q - k \in 1 .. Len(wire) - k /\ k + (q - k) = q /\ ~ (q <= k) /\ q # k
      BY <1>0, <1>1, <1>2, <2>1, <2>3
    <3>2. wire'[q - k] = wire[q]
      BY <1>1, <3>1
    <3>3. Line'[q] = Line[q]
      BY <1>2, <1>4, <2>1, <3>1, <3>2
    <3>4. ASSUME q \in Solid PROVE q \in Solid'
      <4>1. wire[q].mid
        BY <1>0, <2>1, <3>4, Zenon DEF Solid
      <4>2. wire'[q - d'].mid
        BY <3>2, <4>1, Zenon
      <4> QED
        BY <2>1, <3>1, <4>2 DEF Solid
    <3> QED
      BY <2>1, <3>3, <3>4
  <2> QED
    BY <1>0, <2>1, <2>2, <2>3
<1>6. Begun' <=> Begun
  BY <1>0 DEF Begun
<1>7. K' = K
  BY <1>6 DEF K
<1>8. StreamInv'
  <2>1. Going \in Seq(Sized) /\ Owed \in Nat
    BY <1>0, GoingPackets
  <2>2. Stream(Line, Pending, Solid, K, Going, Owed, remainingSize)
    BY <1>0 DEF StreamInv
  <2>3. K \in Nat
    BY <2>2 DEF Stream
  <2>4. /\ 0 \in Nat /\ 0 <= remainingSize /\ Pending >= Pending - 0 /\ Pending = Pending - 0
        /\ Pending + Owed = Pending - 0 + Owed /\ remainingSize - 0 = remainingSize
    BY <1>0, <1>2, <2>1
  <2>5. Stream(Line', Pending, Solid', K, Going, Owed, remainingSize - 0)
    BY <1>0, <1>2, <1>5, <2>1, <2>2, <2>3, <2>4, StreamMoved, Zenon
  <2> QED
    BY <1>3, <1>7, <2>4, <2>5 DEF StreamInv
<1>9. ParserInv'
  BY <1>0 DEF ParserInv
<1>10. FrameInv'
  BY <1>0, <1>6, <1>7 DEF FrameInv
<1> QED
  BY <1>8, <1>9, <1>10

\* A header was read: the next packet becomes the K-th, and what buff holds of it is copied.
LEMMA HeaderStep ==
  ASSUME Inv, Parsing, Tablet!ParseHeader, Parsing', Going' = Going, Owed' = Owed
  PROVE  ParserInv' /\ FrameInv' /\ StreamInv'
<1> DEFINE p == Going[K + 1]
<1>0. ServerTypeOK /\ TabletTypeOK /\ pcP = "head" /\ UNCHANGED <<wire, delivered>>
  BY DEF Inv, ServerInv, Tablet!ParseHeader, Tablet!network
<1>1. /\ K = Len(delivered) /\ K \in Nat /\ K < Len(Going) /\ remainingSize = 0
      /\ d >= 4 /\ Len(buff) >= 4 /\ Pending \in Nat
      /\ Going \in Seq(Sized) /\ p.size \in Nat /\ p.size > 3
      /\ Stream(Line, Pending, Solid, K, Going, Owed, 0)
      /\ FrameAt(Line, Pending, Solid, 0, p) /\ Tablet!Size = p.size
      /\ \A q \in 1 .. d : Line[q] = buff[q] /\ q \in 1 .. Pending
  BY <1>0, HeaderThere, Zenon
<1> HIDE DEF p
<1>2. Owed \in Nat /\ d \in Nat /\ Len(delivered) \in Nat
  BY <1>0, GoingPackets, LenProperties DEF Inv, TabletTypeOK
<1>3. Tablet!Copy(4, p.size, <<>>)
  <2>1. pcP' # "end" /\ Tablet!Size # 0 /\ ~ (d < 4)
    BY <1>1, <1>2 DEF Parsing
  <2> QED
    BY <1>1, <2>1, Zenon DEF Tablet!ParseHeader
<1>4. PICK c : Copied(4, p.size, <<>>, c)
  <2>1. 4 \in Nat /\ 4 <= d /\ <<>> \in Seq(Nat)
    BY <1>1, <1>2, EmptySeq
  <2> QED
    BY <1>0, <1>1, <1>3, <2>1, CopyStep
<1>5. /\ c \in Nat /\ c <= p.size /\ 4 + c <= d /\ (c = p.size \/ 4 + c = d)
      /\ toSend' \in Seq(Nat) /\ Len(toSend') = Len(<<>>) + c
      /\ \A j \in 1 .. c : toSend'[Len(<<>>) + j] = buff[4 + j]
      /\ remainingSize' = p.size - c /\ d' = d - (4 + c)
      /\ \A q \in 1 .. d' : buff'[q] = buff[q + (4 + c)]
      /\ pcP' = IF p.size = c THEN "take" ELSE "read"
  BY <1>4 DEF Copied
<1>6. Len(<<>>) = 0
  OBVIOUS
<1>7. ParserInv' /\ Begun'
  BY <1>1, <1>2, <1>5 DEF ParserInv, Begun
<1>8. K' = K + 1 /\ Going'[K'] = p
  BY <1>0, <1>1, <1>2, <1>7 DEF K, p
<1>9. FrameInv'
  <2>1. Len(toSend') + remainingSize' = p.size
    BY <1>1, <1>5, <1>6
  <2>2. ASSUME NEW j \in 1 .. Len(toSend') PROVE toSend'[j] = p.id
    <3>1. /\ j \in 1 .. c /\ 4 + j \in 1 .. d
          /\ 4 + j \in 0 + 5 .. 0 + 4 + p.size /\ 4 + j <= Pending
      <4>1. Len(toSend') = c /\ c \in Nat /\ c <= p.size /\ p.size \in Nat /\ 4 + c <= d
        BY <1>1, <1>5, <1>6
      <4>2. j \in 1 .. c
        BY <4>1
      <4>3. 4 + j \in 1 .. d /\ 4 + j \in 0 + 5 .. 0 + 4 + p.size
        BY <1>2, <4>1, <4>2
      <4>4. 4 + j \in 1 .. Pending
        BY <1>1, <4>3
      <4> QED
        BY <4>2, <4>3, <4>4
    <3>2. toSend'[j] = buff[4 + j]
      BY <1>5, <1>6, <3>1
    <3>3. Line[4 + j] = p.id
      BY <1>1, <3>1 DEF FrameAt
    <3> QED
      BY <1>1, <3>1, <3>2, <3>3
  <2> QED
    BY <1>8, <2>1, <2>2, Zenon DEF FrameInv
<1>10. StreamInv'
  <2> DEFINE line  == [q \in Nat |-> Line[q + 4]]
             solid == {q \in Nat : q + 4 \in Solid}
  <2>1. Moved(Line, Pending, Solid, 4, line, solid)
    <3> SUFFICES ASSUME NEW q \in 1 .. Pending - 4
                 PROVE  line[q] = Line[q + 4] /\ (q + 4 \in Solid => q \in solid)
      BY DEF Moved
    <3>1. q \in Nat
      BY <1>1
    <3> QED
      BY <3>1
  <2>2. Pending' = Pending - (4 + c) /\ Moved(Line, Pending, Solid, 4 + c, Line', Solid')
    <3>1. 4 + c \in Nat
      BY <1>5
    <3> QED
      BY <1>0, <1>5, <3>1, LineTaken
  <2>3. Moved(line, Pending - 4, solid, c, Line', Solid')
    <3> SUFFICES ASSUME NEW q \in 1 .. (Pending - 4) - c
                 PROVE  Line'[q] = line[q + c] /\ (q + c \in solid => q \in Solid')
      BY DEF Moved
    <3>1. /\ q \in 1 .. Pending - (4 + c) /\ q + c \in Nat /\ (q + c) + 4 = q + (4 + c)
      BY <1>1, <1>5
    <3>2. Line'[q] = Line[q + (4 + c)] /\ (q + (4 + c) \in Solid => q \in Solid')
      BY <2>2, <3>1 DEF Moved
    <3> QED
      BY <3>1, <3>2
  <2> HIDE DEF line, solid
  <2>4. Stream(line, Pending - 4, solid, K + 1, Going, Owed, p.size)
    BY <1>1, <1>2, <2>1, HeaderTaken, Zenon DEF p
  <2>5. /\ Pending - 4 \in Nat /\ K + 1 \in Nat /\ c \in Nat
        /\ Pending - (4 + c) \in Nat /\ Pending - (4 + c) = (Pending - 4) - c
        /\ Pending - (4 + c) >= (Pending - 4) - c
        /\ Pending - (4 + c) + Owed = (Pending - 4) - c + Owed
    <3>1. d <= Pending
      <4>1. d \in 1 .. d
        BY <1>1, <1>2
      <4>2. d \in 1 .. Pending
        BY <1>1, <4>1
      <4> QED
        BY <4>2
    <3> QED
      BY <1>1, <1>2, <1>5, <3>1
  <2>6. Stream(Line', Pending - (4 + c), Solid', K + 1, Going, Owed, p.size - c)
    BY <1>1, <1>2, <1>5, <2>3, <2>4, <2>5, StreamMoved, Zenon
  <2> QED
    BY <1>5, <1>8, <2>2, <2>6 DEF StreamInv
<1> QED
  BY <1>7, <1>9, <1>10

\* The rest of the packet's payload is copied, as far as buff holds it.
LEMMA ContinueStep ==
  ASSUME Inv, Parsing, Tablet!Continue, Going' = Going, Owed' = Owed
  PROVE  ParserInv' /\ FrameInv' /\ StreamInv'
<1>0. /\ ServerTypeOK /\ TabletTypeOK /\ pcP = "copy" /\ UNCHANGED <<wire, delivered>>
      /\ ServerInv /\ ParserInv /\ FrameInv /\ StreamInv /\ Tablet!Copy(0, remainingSize, toSend)
  BY DEF Inv, ServerInv, Tablet!Continue, Tablet!network
<1>1. /\ Going \in Seq(Sized) /\ Owed \in Nat /\ d \in Nat /\ Len(delivered) \in Nat
      /\ remainingSize \in Nat /\ remainingSize > 0 /\ toSend \in Seq(Nat) /\ Len(toSend) \in Nat
      /\ Begun /\ K \in Nat
  <2>1. Len(delivered) \in Nat /\ Len(toSend) \in Nat /\ d \in Nat /\ remainingSize \in Nat
    BY <1>0, LenProperties DEF TabletTypeOK
  <2>2. Begun
    BY <1>0 DEF Begun
  <2> QED
    BY <1>0, <2>1, <2>2, GoingPackets DEF TabletTypeOK, ParserInv, K
<1>2. PICK c : Copied(0, remainingSize, toSend, c)
  <2>1. 0 \in Nat /\ 0 <= d
    BY <1>1
  <2> QED
    BY <1>0, <1>1, <2>1, CopyStep
<1>3. /\ c \in Nat /\ c <= remainingSize /\ 0 + c = c /\ c <= d /\ (c = remainingSize \/ c = d)
      /\ toSend' \in Seq(Nat) /\ Len(toSend') = Len(toSend) + c
      /\ \A j \in 1 .. Len(toSend) : toSend'[j] = toSend[j]
      /\ \A j \in 1 .. c : toSend'[Len(toSend) + j] = buff[0 + j]
      /\ remainingSize' = remainingSize - c /\ d' = d - c
      /\ \A q \in 1 .. d' : buff'[q] = buff[q + c]
      /\ pcP' = IF remainingSize = c THEN "take" ELSE "read"
  <2>1. c \in Nat /\ 0 + c = c
    BY <1>2 DEF Copied
  <2> QED
    BY <1>2, <2>1 DEF Copied
<1>4. ParserInv' /\ Begun'
  BY <1>1, <1>3 DEF ParserInv, Begun
<1>5. K' = K
  BY <1>0, <1>1, <1>4 DEF K
<1>6. /\ Pending \in Nat /\ d <= Pending
      /\ \A q \in 1 .. d : Line[q] = buff[q]
  BY <1>0, LineBytes DEF Pending
<1>7. FrameInv'
  <2>0. /\ Len(toSend) + remainingSize = Going[K].size
        /\ \A j \in 1 .. Len(toSend) : toSend[j] = Going[K].id
    BY <1>0, <1>1 DEF FrameInv
  <2>1. Len(toSend') + remainingSize' = Going[K].size
    BY <1>1, <1>3, <2>0
  <2>2. ASSUME NEW j \in 1 .. Len(toSend') PROVE toSend'[j] = Going[K].id
    <3>1. CASE j <= Len(toSend)
      <4>1. j \in 1 .. Len(toSend)
        BY <1>1, <3>1
      <4> QED
        BY <1>3, <2>0, <4>1
    <3>2. CASE j > Len(toSend)
      <4> DEFINE i == j - Len(toSend)
      <4>1. /\ i \in 1 .. c /\ i \in 1 .. d /\ i \in 1 .. remainingSize /\ i <= Pending
            /\ Len(toSend) + i = j /\ 0 + i = i
        BY <1>1, <1>3, <1>6, <3>2
      <4> HIDE DEF i
      <4>2. toSend'[j] = buff[i]
        BY <1>3, <4>1
      <4>3. Line[i] = Going[K].id
        BY <1>0, <4>1 DEF StreamInv, Stream
      <4> QED
        BY <1>6, <4>1, <4>2, <4>3
    <3> QED
      BY <1>1, <1>3, <3>1, <3>2
  <2> QED
    BY <1>5, <2>1, <2>2, Zenon DEF FrameInv
<1>8. StreamInv'
  <2>1. Pending' = Pending - c /\ Moved(Line, Pending, Solid, c, Line', Solid')
    BY <1>0, <1>3, LineTaken
  <2>2. Stream(Line, Pending, Solid, K, Going, Owed, remainingSize)
    BY <1>0 DEF StreamInv
  <2>3. /\ Pending - c \in Nat /\ Pending - c >= Pending - c
        /\ Pending - c + Owed = Pending - c + Owed
    BY <1>1, <1>3, <1>6
  <2>4. Stream(Line', Pending - c, Solid', K, Going, Owed, remainingSize - c)
    BY <1>1, <1>3, <1>6, <2>1, <2>2, <2>3, StreamMoved, Zenon
  <2> QED
    BY <1>3, <1>5, <2>1, <2>4 DEF StreamInv
<1> QED
  BY <1>4, <1>7, <1>8

\* The frame that is queued is the next packet that was sent.
LEMMA QueueStep ==
  ASSUME Inv, Parsing, pcP = "queue", Going' = Going, Owed' = Owed,
         delivered' = Append(delivered, toSend), pcP' = IF d > 0 THEN "head" ELSE "read",
         UNCHANGED <<wire, Tablet!parser>>
  PROVE  /\ ParserInv' /\ FrameInv' /\ StreamInv'
         /\ Len(delivered) < Len(sent) /\ sent[Len(delivered) + 1] \in AnyPacket
         /\ toSend = PayloadOf(sent[Len(delivered) + 1])
<1>0. /\ ServerTypeOK /\ TabletTypeOK /\ UNCHANGED <<buff, d, toSend, remainingSize>>
      /\ ServerInv /\ ParserInv /\ FrameInv /\ StreamInv
  BY DEF Inv, ServerInv, Tablet!parser
<1>1. /\ Going \in Seq(Sized) /\ Len(Going) \in Nat
      /\ sent \in Seq(BigPacket) /\ Len(sent) \in Nat
      /\ Len(Going) = Len(sent) + (IF Sending THEN 1 ELSE 0)
      /\ \A i \in 1 .. Len(sent) : Going[i] = sent[i]
      /\ Owed \in Nat /\ (Sending => Owed > 3) /\ (~ Sending => Owed = 0)
  BY <1>0, GoingPackets
<1>2. Begun /\ ~ Begun' /\ remainingSize = 0
  BY <1>0 DEF Begun, ParserInv
<1>3. /\ K = Len(delivered) + 1 /\ K' = K /\ K \in Nat /\ Len(delivered) \in Nat
      /\ toSend \in Seq(Nat) /\ d \in Nat
  <2>1. Len(delivered) \in Nat /\ delivered \in Seq(Seq(Nat)) /\ toSend \in Seq(Nat) /\ d \in Nat
    BY <1>0, LenProperties DEF TabletTypeOK
  <2>2. Len(delivered') = Len(delivered) + 1
    BY <2>1, AppendProperties
  <2> QED
    BY <1>2, <2>1, <2>2 DEF K
<1>4. ParserInv' /\ FrameInv'
  BY <1>0, <1>2, <1>3 DEF ParserInv, FrameInv
<1>5. StreamInv'
  <2>1. Line' = Line /\ Pending' = Pending /\ Solid' = Solid
    BY <1>0 DEF Line, Pending, Solid
  <2> QED
    BY <1>0, <1>3, <2>1 DEF StreamInv
<1>6. K <= Len(sent)
  <2> SUFFICES ASSUME ~ (K <= Len(sent)) PROVE FALSE
    OBVIOUS
  <2>1. Stream(Line, Pending, Solid, K, Going, Owed, 0)
    BY <1>0, <1>2 DEF StreamInv
  <2>2. K \in 0 .. Len(Going)
    BY <2>1 DEF Stream
  <2>3. K = Len(Going) /\ Sending
    BY <1>1, <1>3, <2>2
  <2>4. Pending \in Nat /\ 0 \in Nat
    BY <1>0, LineBytes
  <2>5. K = Len(Going) => 0 = Pending + Owed
    BY <1>1, <1>3, <2>1, <2>4, AfterPacket
  <2> QED
    BY <1>1, <2>3, <2>4, <2>5
<1> DEFINE p == sent[K]
<1>7. p \in AnyPacket /\ Going[K] = p
  <2>1. K \in 1 .. Len(sent)
    BY <1>1, <1>3, <1>6
  <2>2. p \in BigPacket
    BY <1>1, <2>1, ElementOfSeq
  <2> QED
    BY <1>1, <2>1, <2>2 DEF BigPacket
<1> HIDE DEF p
<1>8. toSend = PayloadOf(p)
  <2>1. /\ PayloadOf(p) \in Seq(Nat) /\ Len(PayloadOf(p)) = p.size
        /\ \A j \in 1 .. p.size : PayloadOf(p)[j] = p.id
    BY <1>7, PayloadBytes
  <2>2. Len(toSend) = p.size /\ \A j \in 1 .. Len(toSend) : toSend[j] = p.id
    <3>1. /\ Len(toSend) + remainingSize = p.size
          /\ \A j \in 1 .. Len(toSend) : toSend[j] = p.id
      BY <1>0, <1>2, <1>7 DEF FrameInv
    <3>2. Len(toSend) \in Nat
      BY <1>3, LenProperties
    <3> QED
      BY <1>2, <3>1, <3>2
  <2>3. \A j \in 1 .. Len(toSend) : toSend[j] = PayloadOf(p)[j]
    BY <2>1, <2>2
  <2> QED
    BY <1>3, <2>1, <2>2, <2>3, SeqEqual
<1>9. Len(delivered) < Len(sent)
  BY <1>1, <1>3, <1>6
<1> QED
  BY <1>3, <1>4, <1>5, <1>7, <1>8, <1>9 DEF p

\* The tablet's thread preserves the invariant, and gives its decoder the next packet.
LEMMA PlayerStep ==
  ASSUME HeadersWhole, Inv, Tablet!Player, UNCHANGED serverOnly
  PROVE  /\ Inv' /\ UNCHANGED sent
         /\ \/ UNCHANGED delivered
            \/ /\ Len(delivered) < Len(sent) /\ sent[Len(delivered) + 1] \in AnyPacket
               /\ delivered' = Append(delivered, PayloadOf(sent[Len(delivered) + 1]))
<1> USE DEF Tablet!serverSide, Tablet!network, Tablet!codec, Tablet!parser
<1>0. /\ ServerInv' /\ TabletTypeOK' /\ UNCHANGED sent
      /\ Parsing' => Parsing /\ ~ Tablet!End
      /\ ~ Tablet!End => Going' = Going /\ Owed' = Owed
  BY PlayerKeeps
<1>1. ServerInv /\ ServerTypeOK /\ TabletTypeOK /\ ServerTypeOK'
  BY <1>0 DEF Inv, ServerInv
<1>2. ASSUME Parsing' => ParserInv' /\ FrameInv' /\ StreamInv'
      PROVE  Inv'
  BY <1>0, <1>2 DEF Inv
<1>3. ASSUME ~ Parsing' PROVE Inv'
  BY <1>0, <1>3 DEF Inv
<1>4. ASSUME UNCHANGED <<d, buff, wire, remainingSize, toSend, delivered>>, ~ Tablet!End,
             Parsing' => ParserInv' /\ (Begun' <=> Begun)
      PROVE  Inv'
  <2>1. Parsing' => Parsing /\ ParserInv' /\ (Begun' <=> Begun)
    BY <1>0, <1>4
  <2>2. Parsing => ParserInv /\ FrameInv /\ StreamInv
    BY DEF Inv
  <2>3. Parsing' => ParserInv' /\ FrameInv' /\ StreamInv'
    BY <1>0, <1>4, <2>1, <2>2, Unmoved
  <2> QED
    BY <1>2, <2>3
<1>5. CASE Tablet!SurfaceChanged \/ Tablet!SurfaceDestroyed \/ Tablet!Connect \/ Tablet!StartDecoder
           \/ Tablet!Take \/ Tablet!OnInputBufferAvailable \/ Tablet!OnError
  <2>1. UNCHANGED <<d, buff, wire, remainingSize, toSend, delivered>> /\ ~ Tablet!End
    BY <1>5 DEF Tablet!SurfaceChanged, Tablet!SurfaceDestroyed, Tablet!Connect, Tablet!End,
       Tablet!StartDecoder, Tablet!Take, Tablet!OnInputBufferAvailable, Tablet!OnError
  <2>2. ASSUME Parsing' PROVE ParserInv' /\ (Begun' <=> Begun)
    <3>1. ParserInv /\ TabletTypeOK
      BY <1>0, <1>1, <2>2 DEF Inv
    <3> QED
      BY <1>5, <2>1, <2>2, <3>1 DEF ParserInv, Begun, Parsing, TabletTypeOK,
         Tablet!SurfaceChanged, Tablet!SurfaceDestroyed, Tablet!Connect, Tablet!StartDecoder,
         Tablet!Take, Tablet!OnInputBufferAvailable, Tablet!OnError
  <2> QED
    BY <1>0, <1>4, <2>1, <2>2
<1>6. CASE Tablet!Read
  <2>0. pcP = "read" /\ UNCHANGED <<toSend, remainingSize, delivered>> /\ ~ Tablet!End
    BY <1>6 DEF Tablet!Read, Tablet!End
  <2>1. CASE pcP' = "end"
    BY <1>0, <1>3, <2>0, <2>1 DEF Parsing
  <2>2. CASE pcP' # "end"
    <3>1. PICK k \in 1 .. maxBuffSize :
            /\ Tablet!Arrive(k) /\ buff' = Tablet!Padded(Tablet!Bytes(k)) /\ d' = k
            /\ pcP' = IF remainingSize = 0 THEN "head" ELSE "copy"
      BY <1>6, <2>2 DEF Tablet!Read
    <3>2. ASSUME Parsing' PROVE ParserInv' /\ FrameInv' /\ StreamInv'
      <4>1. Parsing /\ Going' = Going /\ Owed' = Owed
        BY <1>0, <2>0, <3>2
      <4> QED
        BY <1>0, <1>1, <2>0, <3>1, <4>1, ReadStep
    <3> QED
      BY <1>0, <1>2, <2>0, <3>2
  <2> QED
    BY <2>1, <2>2
<1>7. CASE Tablet!ReadMore
  <2>1. pcP = "head" /\ Len(buff) < 4 /\ UNCHANGED delivered
    BY <1>7 DEF Tablet!ReadMore
  <2>2. ~ Parsing
    <3> SUFFICES ASSUME Parsing PROVE FALSE
      OBVIOUS
    <3>1. Len(buff) >= 4
      BY <2>1, HeaderThere
    <3>2. Len(buff) \in Nat
      BY <1>1, LenProperties DEF TabletTypeOK
    <3> QED
      BY <2>1, <3>1, <3>2
  <2> QED
    BY <1>0, <1>3, <2>1, <2>2
<1>8. CASE Tablet!ParseHeader
  <2>1. UNCHANGED delivered /\ ~ Tablet!End
    BY <1>8 DEF Tablet!ParseHeader, Tablet!End
  <2>2. ASSUME Parsing' PROVE ParserInv' /\ FrameInv' /\ StreamInv'
    BY <1>0, <1>8, <2>1, <2>2, HeaderStep
  <2> QED
    BY <1>0, <1>2, <2>1, <2>2
<1>9. CASE Tablet!Continue
  <2>1. UNCHANGED delivered /\ ~ Tablet!End
    BY <1>9 DEF Tablet!Continue, Tablet!End
  <2>2. ASSUME Parsing' PROVE ParserInv' /\ FrameInv' /\ StreamInv'
    BY <1>0, <1>9, <2>1, <2>2, ContinueStep
  <2> QED
    BY <1>0, <1>2, <2>1, <2>2
<1>10. CASE Tablet!QueueInputBuffer
  <2>0. pcP = "queue" /\ UNCHANGED <<wire, Tablet!parser, decoder>> /\ ~ Tablet!End
    BY <1>10 DEF Tablet!QueueInputBuffer, Tablet!End
  <2>1. CASE /\ decoder = "started" /\ delivered' = Append(delivered, toSend)
             /\ pcP' = IF d > 0 THEN "head" ELSE "read"
    <3>1. Parsing /\ Going' = Going /\ Owed' = Owed
      BY <1>0, <2>0, <2>1 DEF Parsing
    <3>2. /\ ParserInv' /\ FrameInv' /\ StreamInv'
          /\ Len(delivered) < Len(sent) /\ sent[Len(delivered) + 1] \in AnyPacket
          /\ toSend = PayloadOf(sent[Len(delivered) + 1])
      BY <2>0, <2>1, <3>1, QueueStep
    <3> QED
      BY <1>0, <1>2, <2>1, <3>2
  <2>2. CASE (decoder = "error" \/ pcP' = "end") /\ UNCHANGED delivered
    <3>1. ~ Parsing'
      BY <2>0, <2>2 DEF Parsing
    <3> QED
      BY <1>0, <1>3, <2>2, <3>1
  <2> QED
    BY <1>10, <2>1, <2>2 DEF Tablet!QueueInputBuffer
<1>11. CASE Tablet!End
  <2>1. UNCHANGED delivered
    BY <1>11 DEF Tablet!End
  <2> QED
    BY <1>0, <1>3, <1>11, <2>1
<1> QED
  BY <1>5, <1>6, <1>7, <1>8, <1>9, <1>10, <1>11 DEF Tablet!Player, Tablet!Thread

\* Stopping the server and stuttering preserve the invariant.
LEMMA QuietStep ==
  ASSUME Inv, UNCHANGED <<s_socket, c_socket, link, wire, sent, pcS, next, result, holder>>,
         UNCHANGED tabletOnly
  PROVE  Inv'
<1>1. ServerInv'
  BY DEF Inv, ServerInv, ServerTypeOK, CallerInv, MutexInv, ConnectionInv, FirstCallInv,
         Server!Packet, Server!Sendable
<1>2. UNCHANGED <<pcP, decoder, buff, d, toSend, remainingSize, delivered>>
  BY DEF tabletOnly
<1>3. TabletTypeOK'
  BY <1>2 DEF Inv, TabletTypeOK
<1>4. (Parsing' <=> Parsing) /\ (ParserInv' <=> ParserInv) /\ (Begun' <=> Begun)
  BY <1>2 DEF Parsing, ParserInv, Begun
<1>5. Going' = Going /\ Owed' = Owed
  BY DEF Going, Owed, Sending, Server!Packet
<1>6. Parsing => ParserInv /\ FrameInv /\ StreamInv
  BY DEF Inv
<1>7. Parsing' => ParserInv' /\ FrameInv' /\ StreamInv'
  BY <1>2, <1>4, <1>5, <1>6, Unmoved
<1> QED
  BY <1>1, <1>3, <1>7 DEF Inv

\* Every step preserves the invariant, and does what a step of PacketChannel does.
LEMMA Step ==
  ASSUME Locked, HeadersWhole, Inv, [Next]_vars
  PROVE  /\ Inv'
         /\ \/ UNCHANGED <<sent, delivered>>
            \/ /\ UNCHANGED delivered
               /\ \E s \in Senders : \E i \in 1 .. Len(Packets[s]) :
                    Packets[s][i] \in AnyPacket /\ sent' = Append(sent, Packets[s][i])
            \/ /\ UNCHANGED sent
               /\ Len(delivered) < Len(sent) /\ sent[Len(delivered) + 1] \in AnyPacket
               /\ delivered' = Append(delivered, PayloadOf(sent[Len(delivered) + 1]))
<1>1. CASE UNCHANGED vars
  BY <1>1, QuietStep DEF vars, shared, serverOnly, tabletOnly
<1>2. CASE Server!Stop /\ UNCHANGED tabletOnly
  BY <1>2, QuietStep DEF Server!Stop, Server!connVars, Server!callers, tabletOnly
<1>3. CASE \E s \in Senders : Server!SendData(s) /\ UNCHANGED tabletOnly
  <2>1. PICK s \in Senders : Server!SendData(s) /\ UNCHANGED tabletOnly
    BY <1>3
  <2>2. /\ Inv' /\ UNCHANGED delivered
        /\ \/ UNCHANGED sent
           \/ Server!Packet(s) \in AnyPacket /\ sent' = Append(sent, Server!Packet(s))
              /\ \E i \in 1 .. Len(Packets[s]) : Server!Packet(s) = Packets[s][i]
    BY <2>1, SendDataStep
  <2> QED
    BY <2>2
<1>4. CASE Tablet!Player /\ UNCHANGED serverOnly
  BY <1>4, PlayerStep
<1> QED
  BY <1>1, <1>2, <1>3, <1>4 DEF Next

\* The bytes that are pending are the headers and payloads of the packets that the tablet
\* has not yet given to its decoder, in every reachable state.
THEOREM Invariance == ASSUME Locked, HeadersWhole PROVE Spec => []Inv
<1>1. ASSUME Inv, [Next]_vars PROVE Inv'
  BY <1>1, Step
<1> QED
  BY <1>1, InvInit, PTL DEF Spec

\* The payloads that were sent, as packets are appended.
LEMMA Payloads ==
  ASSUME ServerInv
  PROVE  /\ Len(SentPayloads) = Len(sent) /\ SentPayloads \in Seq(Seq(Nat))
         /\ \A i \in 1 .. Len(sent) : SentPayloads[i] = PayloadOf(sent[i])
         /\ \A p \in AnyPacket : sent' = Append(sent, p)
              => SentPayloads' = Append(SentPayloads, PayloadOf(p))
<1>1. sent \in Seq(BigPacket) /\ Len(sent) \in Nat
  BY LenProperties DEF ServerInv, ServerTypeOK
<1>2. \A p \in AnyPacket : PayloadOf(p) \in Seq(Nat)
  BY PayloadBytes
<1>3. \A i \in 1 .. Len(sent) : sent[i] \in AnyPacket
  BY <1>1, ElementOfSeq DEF BigPacket
<1>4. SentPayloads \in [1 .. Len(sent) -> Seq(Nat)]
  BY <1>2, <1>3 DEF SentPayloads
<1>5. SentPayloads \in Seq(Seq(Nat)) /\ Len(SentPayloads) = Len(sent)
  BY <1>1, <1>4, FunctionIsSeq
<1>6. \A i \in 1 .. Len(sent) : SentPayloads[i] = PayloadOf(sent[i])
  BY DEF SentPayloads
<1>7. ASSUME NEW p \in AnyPacket, sent' = Append(sent, p)
      PROVE  SentPayloads' = Append(SentPayloads, PayloadOf(p))
  <2> DEFINE n == Len(sent)
             new == Append(SentPayloads, PayloadOf(p))
  <2>1. /\ Len(sent') = n + 1 /\ sent'[n + 1] = p
        /\ \A i \in 1 .. n : sent'[i] = sent[i]
    <3>1. p \in AnyPacket /\ sent \in Seq(AnyPacket)
      BY <1>1, SeqMonotonic DEF BigPacket
    <3> QED
      BY <1>7, <3>1, AppendProperties
  <2>2. SentPayloads' = [i \in 1 .. n + 1 |-> PayloadOf(sent'[i])]
    BY <2>1 DEF SentPayloads, PayloadOf, IdsOf, Server!Payload
  <2>3. PayloadOf(p) \in Seq(Nat)
    BY <1>2
  <2>4. /\ new \in Seq(Seq(Nat)) /\ Len(new) = n + 1 /\ new[n + 1] = PayloadOf(p)
        /\ \A i \in 1 .. n : new[i] = SentPayloads[i]
    BY <1>5, <2>3, AppendProperties
  <2>5. \A i \in 1 .. n + 1 : PayloadOf(sent'[i]) = new[i]
    <3> TAKE i \in 1 .. n + 1
    <3>1. CASE i = n + 1
      BY <2>1, <2>4, <3>1
    <3>2. CASE i # n + 1
      <4>1. i \in 1 .. n
        BY <1>1, <3>2
      <4> QED
        BY <1>6, <2>1, <2>4, <4>1
    <3> QED
      BY <3>1, <3>2
  <2> DEFINE f == [i \in 1 .. n + 1 |-> PayloadOf(sent'[i])]
  <2>6. f \in Seq(Seq(Nat)) /\ Len(f) = n + 1
    <3>1. \A i \in 1 .. n + 1 : new[i] \in Seq(Nat)
      BY <2>4, ElementOfSeq
    <3>2. f \in [1 .. n + 1 -> Seq(Nat)]
      BY <2>5, <3>1
    <3>3. n + 1 \in Nat
      BY <1>1
    <3> QED
      BY <3>2, <3>3, FunctionIsSeq
  <2>7. \A i \in 1 .. n + 1 : f[i] = new[i]
    BY <2>5
  <2> HIDE DEF new, f
  <2>8. f = new
    BY <2>4, <2>6, <2>7, SeqEqual
  <2> QED
    BY <2>2, <2>8 DEF f, new
<1> QED
  BY <1>5, <1>6, <1>7

\* The stream implements PacketChannel: however the connection cuts the bytes, the
\* decoder gets the packets that were sent, whole and in their order (PlayerThread.java),
\* when the callers hold the mutex and no read ends inside a header.
THEOREM Refinement == ASSUME Locked, HeadersWhole PROVE Spec => ImplementsChannel
<1> DEFINE Sends    == \E p \in UNION {{PayloadOf(Packets[s][i]) : i \in 1 .. Len(Packets[s])} :
                                        s \in Senders} :
                         SentPayloads' = Append(SentPayloads, p)
           Receives == /\ Len(delivered) < Len(SentPayloads)
                       /\ delivered' = Append(delivered, SentPayloads[Len(delivered) + 1])
<1>1. Init => Channel!CInit
  <2> SUFFICES ASSUME Init PROVE SentPayloads = <<>> /\ delivered = <<>>
    BY DEF Channel!CInit
  <2>1. ServerInv /\ sent = <<>> /\ delivered = <<>>
    BY ServerInit DEF Init, Server!Init, Tablet!Init
  <2>2. Len(SentPayloads) = Len(sent) /\ SentPayloads \in Seq(Seq(Nat))
    BY <2>1, Payloads
  <2> QED
    BY <2>1, <2>2, EmptySeq
<1>2. ASSUME Inv, [Next]_vars
      PROVE  [Channel!Send \/ Channel!Receive]_<<SentPayloads, delivered>>
  <2>0. /\ Len(SentPayloads) = Len(sent) /\ Len(sent) \in Nat
        /\ \A i \in 1 .. Len(sent) : SentPayloads[i] = PayloadOf(sent[i])
        /\ \A p \in AnyPacket : sent' = Append(sent, p)
             => SentPayloads' = Append(SentPayloads, PayloadOf(p))
    <3>1. ServerInv /\ Len(sent) \in Nat
      BY <1>2, LenProperties DEF Inv, ServerInv, ServerTypeOK
    <3> QED
      BY <3>1, Payloads
  <2>a. ASSUME UNCHANGED sent PROVE UNCHANGED SentPayloads
    BY <2>a DEF SentPayloads, PayloadOf, IdsOf, Server!Payload
  <2>1. CASE UNCHANGED <<sent, delivered>>
    BY <2>1, <2>a
  <2>2. CASE /\ UNCHANGED delivered
             /\ \E s \in Senders : \E i \in 1 .. Len(Packets[s]) :
                  Packets[s][i] \in AnyPacket /\ sent' = Append(sent, Packets[s][i])
    <3>1. Sends
      BY <2>0, <2>2
    <3> QED
      BY <2>2, <3>1, Zenon DEF Channel!Send
  <2>3. CASE /\ UNCHANGED sent
             /\ Len(delivered) < Len(sent) /\ sent[Len(delivered) + 1] \in AnyPacket
             /\ delivered' = Append(delivered, PayloadOf(sent[Len(delivered) + 1]))
    <3>1. Len(delivered) \in Nat
      BY <1>2, LenProperties DEF Inv, TabletTypeOK
    <3>2. Len(delivered) + 1 \in 1 .. Len(sent)
      BY <2>0, <2>3, <3>1
    <3>3. Receives
      BY <2>0, <2>3, <3>2
    <3> QED
      BY <2>3, <2>a, <3>3, Zenon DEF Channel!Receive
  <2> QED
    BY <1>2, <2>1, <2>2, <2>3, Step, Zenon
<1> QED
  BY <1>1, <1>2, Invariance, PTL DEF Spec, ImplementsChannel, Channel!CSpec
===============================================================================
