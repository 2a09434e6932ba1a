--------------------------- MODULE KmsProtocolProofs ---------------------------
(***************************************************************************)
(* Proofs about KmsProtocol, for every number of calls, every size of the  *)
(* socket's buffer and all planes: requests and answers stay in step, a    *)
(* frame shows the answer to its own call or, once, the one before, and    *)
(* the choice of the plane and of its cursor is right for every answer.    *)
(*                                                                         *)
(* LockStep counts what is on its way; to be inductive it needs to know    *)
(* where the one request or answer is (AliveInv), and FreshAnswer what a   *)
(* server that has died may have left behind (DeadInv).                    *)
(***************************************************************************)
EXTENDS KmsProtocol, FiniteSetTheorems, WellFoundedInduction, SequenceTheorems, TLAPS

-------------------------------------------------------------------------------
(* Positions.  A search through an array is a CHOOSE in the model; it      *)
(* finds something because a set of positions has a best, a first, a last  *)
(* and a k-th one.                                                         *)

\* A function into the integers has a largest value on a set of positions.  (By the
\* well-founded order of the subsets of a finite set.)
LEMMA Best ==
  ASSUME NEW n \in Nat, NEW S, S \subseteq 1 .. n, S # {}, NEW f \in [S -> Int]
  PROVE  \E x \in S : \A y \in S : f[x] >= f[y]
<1> DEFINE better(x) == {y \in S : f[y] > f[x]}
           all == {better(x) : x \in S}
<1>1. IsFiniteSet(S)
  <2>1. IsFiniteSet(1 .. n)
    BY FS_Interval
  <2> QED
    BY <2>1, FS_Subset
<1>2. IsWellFoundedOn(StrictSubsetOrdering(S), SUBSET S)
  <2>1. FiniteSubsetsOf(S) = SUBSET S
    BY <1>1, FS_FiniteSubsetsOfFinite
  <2> QED
    BY <2>1, FS_StrictSubsetOrderingWellFounded, Zenon
<1>3. all \subseteq SUBSET S /\ all # {}
  <2>1. \A x \in S : better(x) \in SUBSET S
    OBVIOUS
  <2>2. PICK x \in S : TRUE
    OBVIOUS
  <2>3. better(x) \in all
    OBVIOUS
  <2> HIDE DEF better
  <2>4. all \subseteq SUBSET S
    BY <2>1
  <2> HIDE DEF all
  <2> QED
    BY <2>3, <2>4
<1>4. \E b \in all : \A c \in all : ~ (<<c, b>> \in StrictSubsetOrdering(S))
  BY <1>2, <1>3, WFMin
<1>5. PICK x \in S : \A y \in S : ~ (<<better(y), better(x)>> \in StrictSubsetOrdering(S))
  BY <1>4, ZenonT(30)
<1>6. ASSUME NEW y \in S, f[y] > f[x] PROVE FALSE
  <2>1. better(y) \subseteq better(x) /\ y \in better(x) /\ y \notin better(y)
    <3>1. \A z \in S : f[z] \in Int
      OBVIOUS
    <3>2. \A z \in S : f[z] > f[y] => f[z] > f[x]
      BY <1>6, <3>1
    <3>3. better(y) \subseteq better(x)
      BY <3>2
    <3>4. ~ (f[y] > f[y])
      BY <3>1
    <3> QED
      BY <1>6, <3>3, <3>4
  <2>2. <<better(y), better(x)>> \in StrictSubsetOrdering(S)
    <3> HIDE DEF all
    <3>1. better(y) \in SUBSET S /\ better(x) \in SUBSET S
      OBVIOUS
    <3> HIDE DEF better
    <3> QED
      BY <2>1, <3>1 DEF StrictSubsetOrdering
  <2> QED
    BY <1>5, <2>2
<1> QED
  BY <1>6

\* So a set of positions has a first and a last one.
LEMMA Least ==
  ASSUME NEW n \in Nat, NEW S, S \subseteq 1 .. n, S # {}
  PROVE  \E x \in S : \A y \in S : x <= y
<1> DEFINE f == [x \in S |-> - x]
<1>1. f \in [S -> Int]
  OBVIOUS
<1> HIDE DEF f
<1>2. PICK x \in S : \A y \in S : f[x] >= f[y]
  BY <1>1, Best, ZenonT(30)
<1>3. \A y \in S : f[y] = - y
  BY DEF f
<1> QED
  BY <1>2, <1>3

\* The same for the last one.
LEMMA Greatest ==
  ASSUME NEW n \in Nat, NEW S, S \subseteq 1 .. n, S # {}
  PROVE  \E x \in S : \A y \in S : y <= x
<1> DEFINE f == [x \in S |-> x]
<1>1. f \in [S -> Int]
  OBVIOUS
<1> HIDE DEF f
<1>2. PICK x \in S : \A y \in S : f[x] >= f[y]
  BY <1>1, Best, ZenonT(30)
<1>3. \A y \in S : f[y] = y
  BY DEF f
<1> QED
  BY <1>2, <1>3

\* The positions of S as far as i.
UpTo(S, i) == {j \in S : j <= i}

\* Going through positions one after the other meets the k-th of a set of them: each
\* has a rank of its own, and there are as many ranks as positions.
LEMMA NthThere ==
  ASSUME NEW n \in Nat, NEW S, S \subseteq 1 .. n, NEW k \in 1 .. Cardinality(S)
  PROVE  \E i \in S : Cardinality(UpTo(S, i)) = k
<1> DEFINE size == Cardinality(S)
           rank == [i \in S |-> Cardinality(UpTo(S, i))]
<1>1. IsFiniteSet(S) /\ size \in Nat /\ \A i \in S : i \in Nat
  <2>1. IsFiniteSet(1 .. n)
    BY FS_Interval
  <2>2. IsFiniteSet(S)
    BY <2>1, FS_Subset
  <2>3. size \in Nat
    BY <2>2, FS_CardinalityType
  <2> QED
    BY <2>2, <2>3
<1>2. \A i \in S : /\ UpTo(S, i) \in SUBSET S /\ i \in UpTo(S, i)
                   /\ IsFiniteSet(UpTo(S, i)) /\ Cardinality(UpTo(S, i)) \in Nat
  BY <1>1, FS_Subset, FS_CardinalityType DEF UpTo
<1>3. ASSUME NEW i \in S
      PROVE  rank[i] \in 1 .. size
  <2>1. Cardinality(UpTo(S, i)) <= size /\ Cardinality(UpTo(S, i)) \in Nat
    BY <1>1, <1>2, FS_Subset
  <2>2. Cardinality(UpTo(S, i)) # 0
    BY <1>2, FS_EmptySet
  <2> QED
    BY <1>1, <2>1, <2>2
<1>4. ASSUME NEW i \in S, NEW j \in S, i < j
      PROVE  rank[i] # rank[j]
  <2>1. UpTo(S, i) \in SUBSET UpTo(S, j) /\ j \in UpTo(S, j) /\ j \notin UpTo(S, i)
    <3>1. ~ (j <= i) /\ \A l \in S : l <= i => l <= j
      BY <1>1, <1>4
    <3> QED
      BY <1>2, <3>1, Zenon DEF UpTo
  <2>2. Cardinality(UpTo(S, j)) = Cardinality(UpTo(S, i)) => UpTo(S, j) = UpTo(S, i)
    BY <1>2, <2>1, FS_Subset
  <2> QED
    BY <2>1, <2>2
<1>5. rank \in Injection(S, 1 .. size)
  <2>1. \A i, j \in S : i # j => rank[i] # rank[j]
    <3>1. \A i, j \in S : i # j => i < j \/ j < i
      BY <1>1
    <3> HIDE DEF rank
    <3> QED
      BY <1>4, <3>1
  <2>2. rank \in [S -> 1 .. size]
    BY <1>3
  <2> HIDE DEF rank
  <2> QED
    BY <2>1, <2>2 DEF Injection, IsInjective
<1>6. rank \in Surjection(S, 1 .. size)
  <2>1. IsFiniteSet(1 .. size) /\ Cardinality(1 .. size) = size
    <3> HIDE DEF size
    <3> QED
      BY <1>1, FS_Interval
  <2> HIDE DEF rank
  <2> QED
    BY <1>5, <2>1, FS_Injection
<1>7. PICK i \in S : rank[i] = k
  <2> HIDE DEF rank
  <2> QED
    BY <1>6 DEF Surjection
<1> QED
  BY <1>7

-------------------------------------------------------------------------------
(* The inductive invariant.                                                *)


Quiet == toServer = <<>> /\ response = <<>> /\ toClient = <<>>

\* The one message of a call: asked for, being answered, or answered.
Asked    == Len(toServer) = 1 /\ toServer[1] = call /\ response = <<>> /\ toClient = <<>>
Prepared == toServer = <<>> /\ Len(response) = 1 /\ response[1].call = call /\ toClient = <<>>
Answered == toServer = <<>> /\ response = <<>> /\ Len(toClient) = 1 /\ toClient[1].call = call

\* How far the recorder is, whatever has become of the server.
CallInv ==
  /\ pcC \in {"init", "replace"} => call = 0
  /\ pcC \in {"send", "drawing"} => call > 0
  /\ version = "other" /\ Running => call = 0 /\ pcC # "ready" /\ Quiet /\ socket = "initial"

\* Both sides live.
AliveInv ==
  ServerAlive /\ Running /\ version = "same" =>
    /\ pcS = "respond" <=> response # <<>>
    /\ pcC \in {"init", "replace"} => Quiet /\ ~ firstRequest /\ socket = "initial"
    /\ pcC \in {"ready", "send", "drawing"} => Quiet /\ ~ firstRequest /\ socket = "pair"
    /\ pcC = "drawing" => answers = call
    /\ Waiting /\ call = 0 => \/ firstRequest /\ Quiet /\ socket = "initial"
                              \/ ~ firstRequest /\ Answered /\ socket = "pair"
    /\ Waiting /\ call > 0 => /\ ~ firstRequest /\ socket = "pair"
                              /\ Asked \/ Prepared \/ Answered

\* What a server that has died left in the socket: at most the answer to the call
\* that was running, which the next call takes.
DeadInv ==
  ~ ServerAlive /\ Running /\ version = "same" =>
    /\ Len(toClient) <= 1
    /\ pcC \in {"init", "replace", "drawing"} => toClient = <<>>
    /\ pcC = "drawing" => answers \in {call - 1, call}
    /\ toClient # <<>> =>
         /\ pcC \in {"waitpid", "ready"} => toClient[1].call = call
         /\ pcC = "send" => toClient[1].call = call - 1
         /\ pcC = "receive" => toClient[1].call \in {call - 1, call}

KInv == TypeOK /\ CallInv /\ AliveInv /\ DeadInv

USE KmsAssumption DEF KmsAssumption

\* A sequence is empty exactly when its length is zero.
LEMMA Empty ==
  ASSUME NEW S
  PROVE  /\ << >> \in Seq(S) /\ Len(<< >>) = 0
         /\ \A s \in Seq(S) : Len(s) \in Nat /\ (s # << >> => Len(s) # 0)
  BY EmptySeq, LenProperties, Zenon

\* The initial state satisfies the inductive invariant.
THEOREM InitInv == Init => KInv
<1> SUFFICES ASSUME Init PROVE KInv
  OBVIOUS
<1> USE DEF Init
<1>1. toServer \in Seq(1 .. MaxCalls) /\ Len(toServer) = 0
  BY Empty
<1>2. toClient \in Seq(Message) /\ response \in Seq(Message) /\ Len(toClient) = 0
  BY Empty
<1>3. TypeOK
  <2>1. call \in 0 .. MaxCalls /\ answers \in 0 .. MaxCalls /\ Len(toServer) <= BufferSize
    BY <1>1
  <2>2. launch \in Launches /\ version \in Versions /\ kms_response \in Answers
    BY DEF Answers
  <2>3. firstRequest \in BOOLEAN
    OBVIOUS
  <2> QED
    BY <1>1, <1>2, <2>1, <2>2, <2>3 DEF TypeOK
<1>4. CallInv
  BY DEF CallInv, Quiet
<1>5. AliveInv
  BY DEF AliveInv, Quiet, Waiting
<1>6. DeadInv
  BY DEF DeadInv, ServerAlive
<1> QED
  BY <1>3, <1>4, <1>5, <1>6 DEF KInv

\* A recorder that stops, or is killed, leaves nothing to show.
LEMMA EndKeeps ==
  ASSUME KInv, Deinit, UNCHANGED <<launch, version>>
  PROVE  KInv'
<1> USE DEF KInv, Deinit, KillServer, Running
<1>1. TypeOK'
  BY DEF TypeOK, Answers
<1>2. CallInv' /\ AliveInv' /\ DeadInv'
  BY DEF CallInv, AliveInv, DeadInv
<1> QED
  BY <1>1, <1>2

\* The same when the recorder is killed, which leaves the server as it is.
LEMMA CrashKeeps == ASSUME KInv, Crash PROVE KInv'
<1> USE DEF KInv, Crash, Running, server
<1>1. TypeOK'
  BY DEF TypeOK, Answers
<1>2. CallInv' /\ AliveInv' /\ DeadInv'
  BY DEF CallInv, AliveInv, DeadInv
<1> QED
  BY <1>1, <1>2

\* The recorder's set-up, up to the replacement's request.
LEMMA SetUpKeeps ==
  ASSUME KInv, AcceptServer \/ InitFails \/ ReplaceConnection
  PROVE  KInv'
<1> USE DEF server, network
<1>1. CASE InitFails
  BY <1>1, EndKeeps DEF InitFails
<1>2. CASE AcceptServer
  <2>1. CASE Deinit
    BY <2>1, <1>2, EndKeeps DEF AcceptServer
  <2>2. CASE pcC' = "replace"
    <3> USE <1>2, <2>2 DEF KInv, AcceptServer, Deinit
    <3>1. TypeOK'
      BY DEF TypeOK
    <3>2. CallInv' /\ AliveInv' /\ DeadInv'
      BY DEF CallInv, AliveInv, DeadInv, Running, ServerAlive, Waiting, Quiet, Answered,
             Asked, Prepared
    <3> QED
      BY <3>1, <3>2
  <2> QED
    BY <1>2, <2>1, <2>2 DEF AcceptServer
<1>3. CASE ReplaceConnection
  <2> USE <1>3 DEF KInv, ReplaceConnection
  <2>1. TypeOK'
    BY DEF TypeOK
  <2>2. CallInv'
    BY DEF CallInv, Running, Quiet
  <2>3. AliveInv'
    BY DEF AliveInv, CallInv, Running, ServerAlive, Waiting, Quiet, Answered, Asked, Prepared
  <2>4. DeadInv'
    BY DEF DeadInv, Running, ServerAlive
  <2> QED
    BY <2>1, <2>2, <2>3, <2>4
<1> QED
  BY <1>1, <1>2, <1>3

\* A call begins, and its request is sent.
LEMMA GetKmsKeeps == ASSUME KInv, GetKms PROVE KInv'
<1> USE DEF KInv, GetKms, server, network
<1>1. TypeOK'
  BY DEF TypeOK, Answers
<1>2. CallInv'
  BY DEF CallInv, Running, TypeOK
<1>3. AliveInv'
  BY DEF AliveInv, Running, ServerAlive, Waiting, Quiet
<1>4. DeadInv'
  BY DEF DeadInv, Running, ServerAlive, TypeOK
<1> QED
  BY <1>1, <1>2, <1>3, <1>4

\* The request joins an empty socket, or one whose other end nobody reads any more.
LEMMA SendKeeps == ASSUME KInv, SendRequest PROVE KInv'
<1> USE DEF KInv, SendRequest, server
<1>1. call \in 1 .. MaxCalls
  BY DEF TypeOK, CallInv
<1>2. /\ toServer' \in Seq(1 .. MaxCalls)
      /\ Len(toServer') = Len(toServer) + 1
      /\ toServer'[Len(toServer) + 1] = call
  BY <1>1, AppendProperties DEF TypeOK
<1>3. TypeOK'
  <2>1. Len(toServer) \in Nat
    BY LenProperties DEF TypeOK
  <2>2. Len(toServer') <= BufferSize
    BY <1>2, <2>1
  <2> QED
    BY <1>2, <2>2 DEF TypeOK
<1>4. CallInv'
  BY DEF CallInv, Running
<1>5. AliveInv'
  <2>1. toServer = << >> => Len(toServer) = 0
    BY Empty
  <2>2. ServerAlive /\ version = "same" => Asked' /\ ~ firstRequest /\ socket = "pair"
    BY <1>2, <2>1 DEF AliveInv, Asked, Quiet, Running
  <2> QED
    BY <1>1, <2>2 DEF AliveInv, Running, ServerAlive, Waiting, Asked, Quiet
<1>6. DeadInv'
  BY DEF DeadInv, Running, ServerAlive
<1> QED
  BY <1>3, <1>4, <1>5, <1>6

\* The recorder takes the message that is first in the socket.
LEMMA ReceiveKeeps == ASSUME KInv, Receive PROVE KInv'
<1> USE DEF KInv, Receive, TakeMessage, server
<1>1. /\ Head(toClient) \in Message /\ Head(toClient) = toClient[1]
      /\ toClient' \in Seq(Message)
      /\ Len(toClient) \in Nat \ {0} /\ Len(toClient') = Len(toClient) - 1
  BY HeadTailProperties, EmptySeq DEF TypeOK
<1>2. Len(toClient) <= 1 => toClient' = << >>
  BY <1>1, Empty
<1>3. Running /\ version = "same"
  BY DEF Running, CallInv, TypeOK, Quiet
<1>4. TypeOK'
  <2>1. answers' \in 0 .. MaxCalls /\ kms_response' \in Answers
    BY <1>1 DEF TypeOK, Message
  <2>2. pcC' \in {"ready", "drawing"} /\ initial' \in {"listening", "backlog", "open", "gone"}
    BY DEF TypeOK
  <2> QED
    BY <1>1, <2>1, <2>2 DEF TypeOK
<1>5. CallInv'
  BY <1>3 DEF CallInv, TypeOK
<1>6. AliveInv'
  <2>1. ServerAlive => Answered /\ ~ firstRequest /\ socket = "pair"
    BY <1>3 DEF AliveInv, Waiting, Quiet, Asked, Prepared, Answered, TypeOK
  <2>2. ServerAlive => Quiet' /\ answers' = call
    BY <1>1, <1>2, <2>1 DEF Answered, Quiet
  <2> QED
    BY <1>3, <2>1, <2>2 DEF AliveInv, Running, ServerAlive, Waiting
<1>7. DeadInv'
  <2>1. ~ ServerAlive => Len(toClient) <= 1 /\ toClient[1].call \in {call - 1, call}
    BY <1>3 DEF DeadInv
  <2>2. ~ ServerAlive => toClient' = << >> /\ answers' \in {call - 1, call}
    BY <1>1, <1>2, <2>1
  <2>3. Len(<< >>) = 0
    BY Empty
  <2> QED
    BY <2>2, <2>3 DEF DeadInv, Running, ServerAlive
<1> QED
  BY <1>4, <1>5, <1>6, <1>7

\* The two tests of an iteration, and the drawing.
LEMMA WaitKeeps == ASSUME KInv, NothingYet \/ CheckServer \/ Draw PROVE KInv'
<1> USE DEF server, network
<1>1. CASE NothingYet
  <2> USE <1>1 DEF KInv, NothingYet
  <2>1. TypeOK' /\ CallInv' /\ DeadInv'
    BY DEF TypeOK, CallInv, DeadInv, Running, ServerAlive, Quiet
  <2>2. AliveInv'
    BY DEF AliveInv, Running, ServerAlive, Waiting, Quiet, Asked, Prepared, Answered
  <2> QED
    BY <2>1, <2>2
<1>2. CASE CheckServer
  <2>1. CASE Deinit
    BY <1>2, <2>1, EndKeeps DEF CheckServer
  <2>2. CASE pcC' \in {"ready", "receive"}
    <3> USE <1>2, <2>2 DEF KInv, CheckServer, Died, Deinit
    <3>1. TypeOK' /\ CallInv'
      BY DEF TypeOK, CallInv, Running, Quiet
    <3>2. AliveInv'
      BY DEF AliveInv, Running, ServerAlive, Waiting, Quiet, Asked, Prepared, Answered
    <3>3. DeadInv'
      BY DEF DeadInv, Running, ServerAlive
    <3> QED
      BY <3>1, <3>2, <3>3
  <2> QED
    BY <1>2, <2>1, <2>2 DEF CheckServer
<1>3. CASE Draw
  <2> USE <1>3 DEF KInv, Draw
  <2>1. TypeOK' /\ CallInv'
    BY DEF TypeOK, Answers, CallInv, Running, Quiet
  <2>2. AliveInv' /\ DeadInv'
    BY DEF AliveInv, DeadInv, Running, ServerAlive, Waiting, Quiet
  <2> QED
    BY <2>1, <2>2
<1> QED
  BY <1>1, <1>2, <1>3

\* The server starts, connects, and ends in whatever way.
LEMMA ServerLifeKeeps ==
  ASSUME KInv,
         \/ ServerStarts \/ ServerConnects \/ ServerTimesOut \/ ServerSeesShutdown \/ ServerDies
  PROVE  KInv'
<1> USE DEF KInv, ServerStarts, ServerConnects, ServerTimesOut, ServerSeesShutdown, ServerDies,
        recorder, network
<1>1. TypeOK'
  BY DEF TypeOK
<1>2. CallInv'
  BY DEF CallInv, Running, Quiet
<1>3. AliveInv'
  BY DEF AliveInv, Running, ServerAlive, Waiting, Quiet, Asked, Prepared, Answered
<1>4. DeadInv'
  <2>1. Len(<< >>) = 0
    BY Empty
  <2>2. ServerAlive
    BY DEF ServerAlive
  <2>3. Running /\ version = "same" =>
          \/ toClient = << >>
          \/ Waiting /\ Len(toClient) = 1 /\ toClient[1].call = call
    BY <2>2 DEF AliveInv, Running, TypeOK, CallInv, Waiting, Quiet, Asked, Prepared, Answered
  <2>4. Running /\ version = "same" /\ pcC = "drawing" => answers = call
    BY <2>2 DEF AliveInv
  <2>5. version' = version /\ pcC' = pcC /\ call' = call /\ answers' = answers /\ toClient' = toClient
    OBVIOUS
  <2>6. Running /\ version = "same" =>
          /\ Len(toClient) <= 1
          /\ toClient # << >> => toClient[1].call = call /\ Waiting
    <3>1. toClient = << >> => Len(toClient) = 0
      BY <2>1
    <3>2. Len(toClient) = 0 \/ Len(toClient) = 1 => Len(toClient) <= 1
      OBVIOUS
    <3> QED
      BY <2>3, <3>1, <3>2, Zenon
  <2>7. DeadInv'
    <3> SUFFICES ASSUME Running, version = "same" PROVE DeadInv'
      BY <2>5 DEF DeadInv, Running
    <3>1. Len(toClient') <= 1 /\ (toClient' # << >> => Waiting /\ toClient'[1].call = call')
      BY <2>5, <2>6
    <3>2. pcC' = "drawing" => answers' = call'
      BY <2>4, <2>5
    <3> QED
      BY <2>5, <3>1, <3>2 DEF DeadInv, Waiting
  <2> QED
    BY <2>7
<1> QED
  BY <1>1, <1>2, <1>3, <1>4

\* The server switches to the pair and says so on it.
LEMMA ReplaceKeeps == ASSUME KInv, ServerReplaces PROVE KInv'
<1> USE DEF KInv, ServerReplaces, recorder
<1> DEFINE answer == [call |-> 0, items |-> << >>]
<1>1. answer \in Message
  BY DEF Message, Answers
<1>2. version = "same" /\ LocalEndOpen =>
        /\ toClient' \in Seq(Message) /\ Len(toClient') = Len(toClient) + 1
        /\ toClient'[Len(toClient) + 1] = answer
  <2>1. /\ Append(toClient, answer) \in Seq(Message)
        /\ Len(Append(toClient, answer)) = Len(toClient) + 1
        /\ Append(toClient, answer)[Len(toClient) + 1] = answer
    BY <1>1, AppendProperties DEF TypeOK
  <2> QED
    BY <2>1
<1>3. TypeOK'
  BY <1>2 DEF TypeOK
<1>4. CallInv'
  BY DEF CallInv, Running, Quiet, TypeOK
<1>5. AliveInv'
  <2>1. toClient = << >> => Len(toClient) = 0
    BY Empty
  <2>2. ServerAlive /\ Running /\ version = "same" =>
          Waiting /\ call = 0 /\ Quiet /\ pcS # "respond"
    BY DEF AliveInv, ServerAlive, Running, TypeOK, Waiting, CallInv
  <2>3. Running /\ version = "same" => Answered'
    BY <1>2, <2>1, <2>2 DEF Answered, Quiet, LocalEndOpen, ServerAlive
  <2> QED
    BY <2>2, <2>3 DEF AliveInv, Running, ServerAlive, Waiting, Answered, Quiet
<1>6. DeadInv'
  BY DEF DeadInv, Running, ServerAlive, LocalEndOpen
<1> QED
  BY <1>3, <1>4, <1>5, <1>6

\* The server reads the planes for the request at hand.
LEMMA ReadKeeps == ASSUME KInv, ServerReadsPlanes PROVE KInv'
<1> USE DEF KInv, ServerReadsPlanes, recorder
<1>1. PICK screen \in Screens :
        response' = <<[call |-> Head(toServer), items |-> KmsGetFb(screen)]>>
  OBVIOUS
<1>2. /\ Head(toServer) \in 1 .. MaxCalls /\ Head(toServer) = toServer[1]
      /\ toServer' \in Seq(1 .. MaxCalls)
      /\ Len(toServer) \in Nat \ {0} /\ Len(toServer') = Len(toServer) - 1
  BY HeadTailProperties, EmptySeq DEF TypeOK
<1>3. [call |-> Head(toServer), items |-> KmsGetFb(screen)] \in Message
  BY <1>2 DEF Message, Answers
<1>4. /\ response' \in Seq(Message) /\ Len(response') = 1 /\ response' # << >>
      /\ response'[1].call = toServer[1]
  BY <1>1, <1>2, <1>3
<1>5. TypeOK'
  BY <1>2, <1>4 DEF TypeOK
<1>6. CallInv'
  BY DEF CallInv, Running, Quiet, TypeOK
<1>7. AliveInv'
  <2>1. Len(toServer) = 1 => toServer' = << >>
    <3>1. toServer' # << >> => Len(toServer') # 0
      BY <1>2, EmptySeq
    <3> QED
      BY <1>2, <3>1
  <2>2. Running /\ version = "same" => Waiting /\ call > 0 /\ Asked /\ ~ firstRequest
    BY DEF AliveInv, ServerAlive, Running, TypeOK, Waiting, CallInv, Asked, Prepared, Answered,
           Quiet
  <2>3. Running /\ version = "same" => Prepared'
    BY <1>4, <2>1, <2>2 DEF Asked, Prepared
  <2> QED
    BY <1>4, <2>2, <2>3 DEF AliveInv, Running, ServerAlive, Waiting, Prepared
<1>8. DeadInv'
  BY DEF DeadInv, ServerAlive
<1> QED
  BY <1>5, <1>6, <1>7, <1>8

\* The server sends what it has prepared.
LEMMA RespondKeeps == ASSUME KInv, ServerResponds PROVE KInv'
<1> USE DEF KInv, ServerResponds, recorder
<1>1. toClient' \in Seq(Message) /\ response' \in Seq(Message)
  <2>1. toClient \o response \in Seq(Message)
    BY ConcatProperties DEF TypeOK
  <2>2. << >> \in Seq(Message)
    BY Empty
  <2> QED
    BY <2>1, <2>2 DEF TypeOK
<1>2. TypeOK'
  BY <1>1 DEF TypeOK
<1>3. CallInv'
  <2>1. toClient = << >> /\ response = << >> => toClient \o response = << >>
    BY ConcatEmptySeq DEF TypeOK
  <2> QED
    BY <2>1 DEF CallInv, Running, Quiet
<1>4. AliveInv'
  <2>1. Running /\ version = "same" => Waiting /\ call > 0 /\ Prepared
    BY Empty DEF AliveInv, ServerAlive, Running, TypeOK, Waiting, CallInv, Asked, Prepared, Answered,
                 Quiet
  <2>2. toClient = << >> => toClient \o response = response
    BY ConcatEmptySeq DEF TypeOK
  <2>3. Running /\ version = "same" => Answered' /\ ~ firstRequest /\ socket = "pair"
    BY <2>1, <2>2 DEF AliveInv, ServerAlive, Prepared, Answered, LocalEndOpen
  <2> QED
    BY <2>1, <2>3 DEF AliveInv, Running, ServerAlive, Waiting, Answered
<1>5. DeadInv'
  BY DEF DeadInv, ServerAlive, Running, LocalEndOpen
<1> QED
  BY <1>2, <1>3, <1>4, <1>5

\* Every step, stuttering included, keeps the inductive invariant.
THEOREM StepInv == KInv /\ [Next]_vars => KInv'
<1> SUFFICES ASSUME KInv, [Next]_vars PROVE KInv'
  OBVIOUS
<1>1. CASE UNCHANGED vars
  BY <1>1 DEF vars, recorder, server, network, KInv, TypeOK, CallInv, AliveInv, DeadInv, Running,
              ServerAlive, Waiting, Quiet, Asked, Prepared, Answered
<1>2. CASE Client
  BY <1>2, SetUpKeeps, SendKeeps, ReceiveKeeps, WaitKeeps DEF Client
<1>3. CASE GetKms \/ Stop \/ Crash
  BY <1>3, GetKmsKeeps, EndKeeps, CrashKeeps DEF Stop
<1>4. CASE Server \/ ServerDies
  BY <1>4, ServerLifeKeeps, ReplaceKeeps, ReadKeeps, RespondKeeps DEF Server
<1> QED
  BY <1>1, <1>2, <1>3, <1>4 DEF Next

\* The inductive invariant holds throughout.
THEOREM Invariance == Spec => []KInv
  BY InitInv, StepInv, PTL DEF Spec

\* The socket holds at most its buffer, and every message in it is a call's answer.
THEOREM TypeCorrect == Spec => []TypeOK
<1>1. KInv => TypeOK
  BY DEF KInv
<1> QED
  BY <1>1, Invariance, PTL

\* A message or none, as the calls it stands for.
LEMMA CallsOf ==
  ASSUME NEW s \in Seq(Message)
  PROVE  LET calls == [i \in 1 .. Len(s) |-> s[i].call]
         IN  /\ s = << >> => calls = << >>
             /\ Len(s) = 1 => calls = << s[1].call >>
<1> DEFINE calls == [i \in 1 .. Len(s) |-> s[i].call]
<1>1. s = << >> => calls = << >>
  OBVIOUS
<1>2. Len(s) = 1 => calls = << s[1].call >>
  OBVIOUS
<1> QED
  BY <1>1, <1>2

\* Whichever of four parts holds the one call, together they are that call.
LEMMA OnePart ==
  ASSUME NEW x
  PROVE  LET e == << >>
         IN  /\ <<x>> \o e \o e \o e = <<x>>
             /\ e \o <<x>> \o e \o e = <<x>>
             /\ e \o e \o <<x>> \o e = <<x>>
             /\ e \o e \o e \o <<x>> = <<x>>
<1>1. <<x>> \in Seq({x}) /\ << >> \in Seq({x})
  OBVIOUS
<1>2. << >> \o << >> = << >> /\ <<x>> \o << >> = <<x>> /\ << >> \o <<x>> = <<x>>
  BY <1>1, ConcatEmptySeq
<1> QED
  BY <1>2

\* While both sides live there is one request or answer on its way for the call that
\* waits and none otherwise: gsr_kms_client_get_kms never takes the answer of another.
THEOREM InStep == Spec => []LockStep
<1>1. KInv => LockStep
  <2> SUFFICES ASSUME KInv, ServerAlive, Running, version = "same"
               PROVE  /\ OnTheWay = IF Waiting THEN <<call>> ELSE << >>
                      /\ call > 0 => socket = "pair"
    BY DEF LockStep
  <2> DEFINE answering == [i \in 1 .. Len(response) |-> response[i].call]
             answered == [i \in 1 .. Len(toClient) |-> toClient[i].call]
             switch == IF firstRequest THEN <<0>> ELSE << >>
  <2>1. OnTheWay = switch \o toServer \o answering \o answered
    BY DEF OnTheWay
  <2>2. /\ response = << >> => answering = << >>
        /\ Len(response) = 1 => answering = << response[1].call >>
        /\ toClient = << >> => answered = << >>
        /\ Len(toClient) = 1 => answered = << toClient[1].call >>
    BY CallsOf DEF KInv, TypeOK
  <2> HIDE DEF answering, answered, switch
  <2>3. switch = IF firstRequest THEN <<0>> ELSE << >>
    BY DEF switch
  <2>4. CASE ~ Waiting
    <3>1. Quiet /\ ~ firstRequest /\ (call > 0 => socket = "pair")
      BY <2>4 DEF KInv, AliveInv, CallInv, TypeOK, Running, Waiting
    <3> QED
      BY <2>1, <2>2, <2>3, <2>4, <3>1 DEF Quiet
  <2>5. CASE Waiting /\ call = 0
    <3>1. \/ firstRequest /\ Quiet
          \/ ~ firstRequest /\ Answered
      BY <2>5 DEF KInv, AliveInv
    <3>2. CASE firstRequest /\ Quiet
      <4>1. switch = <<call>> /\ toServer = << >> /\ answering = << >> /\ answered = << >>
        BY <2>2, <2>3, <2>5, <3>2 DEF Quiet
      <4> QED
        BY <2>1, <2>5, <4>1, OnePart
    <3>3. CASE ~ firstRequest /\ Answered
      <4>1. switch = << >> /\ toServer = << >> /\ answering = << >> /\ answered = <<call>>
        BY <2>2, <2>3, <3>3 DEF Answered
      <4> QED
        BY <2>1, <2>5, <4>1, OnePart
    <3> QED
      BY <3>1, <3>2, <3>3
  <2>6. CASE Waiting /\ call > 0
    <3>1. /\ ~ firstRequest /\ socket = "pair"
          /\ Asked \/ Prepared \/ Answered
      BY <2>6 DEF KInv, AliveInv
    <3>2. Asked => toServer = <<call>>
      BY DEF Asked, KInv, TypeOK
    <3>3. switch = << >>
      BY <2>3, <3>1
    <3>4. CASE Asked
      <4>1. toServer = <<call>> /\ answering = << >> /\ answered = << >>
        BY <2>2, <3>2, <3>4 DEF Asked
      <4> QED
        BY <2>1, <2>6, <3>1, <3>3, <4>1, OnePart
    <3>5. CASE Prepared
      <4>1. toServer = << >> /\ answering = <<call>> /\ answered = << >>
        BY <2>2, <3>5 DEF Prepared
      <4> QED
        BY <2>1, <2>6, <3>1, <3>3, <4>1, OnePart
    <3>6. CASE Answered
      <4>1. toServer = << >> /\ answering = << >> /\ answered = <<call>>
        BY <2>2, <3>6 DEF Answered
      <4> QED
        BY <2>1, <2>6, <3>1, <3>3, <4>1, OnePart
    <3> QED
      BY <3>1, <3>4, <3>5, <3>6
  <2> QED
    BY <2>4, <2>5, <2>6 DEF KInv, TypeOK
<1> QED
  BY <1>1, Invariance, PTL

\* A frame is drawn from the answer to its own request or, after the server has died,
\* from the last answer it left behind.
THEOREM Fresh == Spec => []FreshAnswer
<1>1. KInv => FreshAnswer
  BY DEF KInv, FreshAnswer, AliveInv, DeadInv, CallInv, TypeOK, Running
<1> QED
  BY <1>1, Invariance, PTL

-------------------------------------------------------------------------------
(* The choice of the plane.                                                *)

\* An item of an answer: kms_get_fb sends no others, and a frame buffer that is shown
\* has a width and a height.
Item == [kind : {"primary", "cursor"}, connector : Nat, size : Nat \ {0}]

\* find_drm_by_connector_id finds a plane of the connector that is no cursor, if any.
LEMMA ByConnector ==
  ASSUME NEW items \in Seq(Item), NEW c \in Nat
  PROVE  LET i == FindDrmByConnectorId(items, c)
             fits == {j \in 1 .. Len(items) : items[j].connector = c /\ ~ IsCursor(items[j])}
         IN  IF fits = {} THEN i = 0 ELSE i \in fits
<1> DEFINE fits == {j \in 1 .. Len(items) : items[j].connector = c /\ ~ IsCursor(items[j])}
<1>1. FindDrmByConnectorId(items, c)
        = IF fits = {} THEN 0 ELSE CHOOSE i \in fits : \A j \in fits : i <= j
  BY DEF FindDrmByConnectorId, First
<1>2. Len(items) \in Nat /\ fits \subseteq 1 .. Len(items)
  BY LenProperties
<1> HIDE DEF fits
<1>3. ASSUME fits # {} PROVE (CHOOSE i \in fits : \A j \in fits : i <= j) \in fits
  BY <1>2, <1>3, Least
<1> QED
  BY <1>1, <1>3 DEF fits

\* find_largest_drm never takes a cursor while there is another plane.
LEMMA LargestPlane ==
  ASSUME NEW items \in Seq(Item), \E i \in 1 .. Len(items) : ~ IsCursor(items[i])
  PROVE  LET i == FindLargestDrm(items) IN i \in 1 .. Len(items) /\ ~ IsCursor(items[i])
<1> DEFINE planes == {i \in 1 .. Len(items) : ~ IsCursor(items[i])}
           sizes == {items[i].size : i \in planes}
           largest == {i \in 1 .. Len(items) :
                         ~ IsCursor(items[i]) /\ \A s \in sizes : items[i].size >= s}
           size == [i \in planes |-> items[i].size]
<1>1. Len(items) \in Nat /\ planes \subseteq 1 .. Len(items) /\ planes # {}
  BY LenProperties
<1>2. \A i \in 1 .. Len(items) : items[i] \in Item
  BY ElementOfSeq
<1>3. \A i \in planes : items[i].size \in Nat \ {0}
  BY <1>2 DEF Item
<1>4. ~ (sizes \subseteq {0})
  BY <1>1, <1>3
<1>5. largest # {}
  <2>1. size \in [planes -> Int] /\ \A i \in planes : size[i] = items[i].size
    BY <1>3
  <2> HIDE DEF size, planes
  <2>2. PICK x \in planes : \A y \in planes : size[x] >= size[y]
    BY <1>1, <2>1, Best
  <2>3. x \in largest
    BY <1>1, <2>1, <2>2 DEF planes
  <2> QED
    BY <2>3
<1>6. FindLargestDrm(items) = CHOOSE i \in largest : \A j \in largest : i <= j
  BY <1>4, <1>5 DEF FindLargestDrm, First
<1>7. largest \subseteq 1 .. Len(items)
  OBVIOUS
<1>8. FindLargestDrm(items) \in largest
  <2> HIDE DEF largest
  <2> QED
    BY <1>1, <1>5, <1>6, <1>7, Least
<1> QED
  BY <1>8

\* Going through the monitor's connectors finds a plane of one of them, if any.
LEMMA OfTheMonitor ==
  ASSUME NEW items \in Seq(Item)
  PROVE  LET i == OnMonitor(items)
             fits == {j \in 1 .. Len(items) :
                        ~ IsCursor(items[j])
                        /\ \E k \in 1 .. Len(Target) : items[j].connector = Target[k]}
         IN  IF fits = {} THEN i = 0 ELSE i \in fits
<1> DEFINE fits == {j \in 1 .. Len(items) :
                      ~ IsCursor(items[j])
                      /\ \E k \in 1 .. Len(Target) : items[j].connector = Target[k]}
           on(c) == {j \in 1 .. Len(items) : items[j].connector = c /\ ~ IsCursor(items[j])}
           hits == {k \in 1 .. Len(Target) : FindDrmByConnectorId(items, Target[k]) # 0}
           k == IF hits = {} THEN 0 ELSE CHOOSE m \in hits : \A j \in hits : m <= j
<1>1. Len(Target) \in Nat /\ \A m \in 1 .. Len(Target) : Target[m] \in Nat
  BY KmsAssumption, LenProperties, ElementOfSeq DEF KmsAssumption
<1>2. \A m \in 1 .. Len(Target) :
        LET i == FindDrmByConnectorId(items, Target[m])
        IN  IF on(Target[m]) = {} THEN i = 0 ELSE i \in on(Target[m])
  BY <1>1, ByConnector
<1>3. OnMonitor(items) = IF k = 0 THEN 0 ELSE FindDrmByConnectorId(items, Target[k])
  BY DEF OnMonitor, First
<1>4. hits # {} => k \in hits
  <2>1. hits \subseteq 1 .. Len(Target)
    OBVIOUS
  <2> HIDE DEF hits
  <2> QED
    BY <1>1, <2>1, Least
<1>5. CASE hits = {}
  <2>1. \A m \in 1 .. Len(Target) : on(Target[m]) = {}
    <3>1. \A m \in 1 .. Len(Target) : FindDrmByConnectorId(items, Target[m]) = 0
      BY <1>5
    <3>2. \A c : 0 \notin on(c)
      OBVIOUS
    <3> HIDE DEF on
    <3> QED
      BY <1>2, <3>1, <3>2
  <2>2. fits = {}
    BY <2>1
  <2> QED
    BY <1>3, <1>5, <2>2
<1>6. CASE hits # {}
  <2>1. k \in 1 .. Len(Target) /\ k # 0 /\ FindDrmByConnectorId(items, Target[k]) # 0
    <3>1. k \in hits
      BY <1>4, <1>6
    <3>2. \A m \in hits : /\ m \in 1 .. Len(Target) /\ m # 0
                           /\ FindDrmByConnectorId(items, Target[m]) # 0
      BY <1>1
    <3> HIDE DEF k, hits
    <3> QED
      BY <3>1, <3>2
  <2>2. OnMonitor(items) \in on(Target[k])
    <3> HIDE DEF k, hits
    <3> QED
      BY <1>2, <1>3, <2>1
  <2> HIDE DEF k, hits
  <2> QED
    BY <2>1, <2>2
<1> QED
  BY <1>5, <1>6

\* find_cursor_drm finds the connector's own cursor, or else any.
LEMMA CursorFound ==
  ASSUME NEW items \in Seq(Item), NEW c \in Nat
  PROVE  LET i == FindCursorDrm(items, c)
             own == {j \in 1 .. Len(items) : items[j].connector = c /\ IsCursor(items[j])}
             cursors == {j \in 1 .. Len(items) : IsCursor(items[j])}
         IN  IF own # {} THEN i \in own ELSE IF cursors # {} THEN i \in cursors ELSE i = 0
<1> DEFINE own == {j \in 1 .. Len(items) : items[j].connector = c /\ IsCursor(items[j])}
           cursors == {j \in 1 .. Len(items) : IsCursor(items[j])}
           first == IF own = {} THEN 0 ELSE CHOOSE i \in own : \A j \in own : i <= j
           last == CHOOSE i \in cursors : \A j \in cursors : j <= i
<1>1. FindCursorDrm(items, c)
        = IF first # 0 THEN first ELSE IF cursors = {} THEN 0 ELSE last
  BY DEF FindCursorDrm, First
<1>2. /\ Len(items) \in Nat /\ 0 \notin own
      /\ own \subseteq 1 .. Len(items) /\ cursors \subseteq 1 .. Len(items)
  BY LenProperties
<1>3. own # {} => first \in own
  <2> HIDE DEF own
  <2> QED
    BY <1>2, Least
<1>4. cursors # {} => last \in cursors
  <2> HIDE DEF cursors
  <2> QED
    BY <1>2, Greatest
<1>5. own = {} => first = 0
  OBVIOUS
<1> HIDE DEF own, cursors, first, last
<1>6. IF own # {} THEN FindCursorDrm(items, c) \in own
      ELSE IF cursors # {} THEN FindCursorDrm(items, c) \in cursors
      ELSE FindCursorDrm(items, c) = 0
  BY <1>1, <1>2, <1>3, <1>4, <1>5
<1> QED
  BY <1>6 DEF own, cursors

\* Whatever planes the server reports, in whatever order: the plane is the monitor's
\* if there is one, no cursor if there is another, and the cursor is the plane's own.
THEOREM RightChoice ==
  ASSUME NEW items \in Seq(Item), items # << >>
  PROVE  RightPlane(items)
<1> DEFINE at == FindMonitorDrm(items)
           chosen == items[at]
           own == {j \in 1 .. Len(items) :
                     items[j].connector = chosen.connector /\ IsCursor(items[j])}
           found == FindCursorDrm(items, chosen.connector)
           cursor == FindCursorDrmIfOnMonitor(items)
           planes == {items[i] : i \in 1 .. Len(items)}
           Targeted(p) == \E k \in 1 .. Len(Target) : p.connector = Target[k]
<1>1. \A i \in 1 .. Len(items) : items[i] \in Item /\ i # 0
  BY ElementOfSeq, LenProperties
<1>2. CASE OnMonitor(items) # 0
  <2>1. /\ at \in 1 .. Len(items) /\ at = OnMonitor(items)
        /\ ~ IsCursor(chosen) /\ Targeted(chosen)
    BY <1>2, OfTheMonitor DEF FindMonitorDrm
  <2>2. chosen.connector \in Nat
    BY <1>1, <2>1 DEF Item
  <2>3. /\ own # {} => found \in own
        /\ own = {} => found = 0 \/ (found \in 1 .. Len(items) /\ IsCursor(items[found]))
    BY <2>2, CursorFound
  <2>4. cursor = IF found # 0 /\ items[found].connector # chosen.connector THEN 0 ELSE found
    BY <1>2 DEF FindCursorDrmIfOnMonitor
  <2>5. IF cursor = 0
        THEN \A p \in planes : ~ (IsCursor(p) /\ p.connector = chosen.connector)
        ELSE IsCursor(items[cursor]) /\ items[cursor].connector = chosen.connector
    <3>1. cursor = 0 => own = {}
      BY <1>1, <2>3, <2>4
    <3>2. own = {} => \A p \in planes : ~ (IsCursor(p) /\ p.connector = chosen.connector)
      OBVIOUS
    <3>3. cursor # 0 => IsCursor(items[cursor]) /\ items[cursor].connector = chosen.connector
      BY <2>3, <2>4
    <3> QED
      BY <3>1, <3>2, <3>3
  <2> QED
    BY <2>1, <2>5 DEF RightPlane, IsCursor
<1>3. CASE OnMonitor(items) = 0
  <2>1. \A i \in 1 .. Len(items) : ~ (~ IsCursor(items[i]) /\ Targeted(items[i]))
    BY <1>1, <1>3, OfTheMonitor
  <2>2. (\E i \in 1 .. Len(items) : ~ IsCursor(items[i])) => ~ IsCursor(chosen)
    BY <1>3, LargestPlane DEF FindMonitorDrm
  <2>3. ~ \E p \in planes : ~ IsCursor(p) /\ Targeted(p)
    BY <2>1
  <2>4. chosen.kind = "cursor" => \A p \in planes : p.kind = "cursor"
    BY <2>2 DEF IsCursor
  <2> QED
    BY <2>3, <2>4 DEF RightPlane
<1> QED
  BY <1>2, <1>3

-------------------------------------------------------------------------------
(* The answers of the server.                                              *)

\* Every plane of use has a framebuffer with an area: what find_largest_drm relies on
\* when it tells the planes from the cursors (the kernel has no empty framebuffers).
FramebuffersHaveArea ==
  \A screen \in Screens : \A i \in 1 .. Len(screen) : IsItem(screen[i]) => screen[i].size > 0

\* An answer of the server is a sequence of planes of use, when these have an area.
LEMMA AnswerOfItems ==
  ASSUME FramebuffersHaveArea, NEW items \in Answers
  PROVE  items \in Seq(Item)
<1>1. CASE items = << >>
  BY <1>1, EmptySeq
<1>2. CASE \E screen \in Screens : items = KmsGetFb(screen)
  <2>1. PICK screen \in Screens : items = KmsGetFb(screen)
    BY <1>2
  <2> DEFINE useful == {i \in 1 .. Len(screen) : IsItem(screen[i])}
             Nth(k) == CHOOSE i \in useful : Cardinality({j \in useful : j <= i}) = k
             n == Shorter(MaxItems, Cardinality(useful))
  <2>2. screen \in Seq(Plane) /\ Len(screen) \in Nat /\ MaxItems \in Nat
    BY LenProperties DEF KmsAssumption
  <2>3. useful \subseteq 1 .. Len(screen) /\ Cardinality(useful) \in Nat
    <3>1. useful \subseteq 1 .. Len(screen)
      OBVIOUS
    <3>2. IsFiniteSet(1 .. Len(screen))
      BY <2>2, FS_Interval
    <3> HIDE DEF useful
    <3> QED
      BY <3>1, <3>2, FS_Subset, FS_CardinalityType
  <2>4. \A i \in useful : screen[i] \in Item
    <3> SUFFICES ASSUME NEW i \in useful PROVE screen[i] \in Item
      OBVIOUS
    <3>1. screen[i] \in Plane /\ IsItem(screen[i]) /\ screen[i].size > 0
      BY <2>2, ElementOfSeq DEF FramebuffersHaveArea
    <3> QED
      BY <3>1 DEF Plane, IsItem, Item
  <2>5. items = [k \in 1 .. n |-> screen[Nth(k)]]
    BY <2>1 DEF KmsGetFb
  <2>6. n \in Nat /\ n <= Cardinality(useful)
    BY <2>2, <2>3 DEF Shorter
  <2>7. \A k \in 1 .. n : Nth(k) \in useful
    <3> SUFFICES ASSUME NEW k \in 1 .. n PROVE Nth(k) \in useful
      OBVIOUS
    <3>1. k \in 1 .. Cardinality(useful)
      BY <2>3, <2>6
    <3>2. useful \subseteq 1 .. Len(screen) /\ Len(screen) \in Nat
      BY <2>2, <2>3
    <3> HIDE DEF useful, Nth, n
    <3>3. \E i \in useful : Cardinality(UpTo(useful, i)) = k
      BY <3>1, <3>2, NthThere
    <3> QED
      BY <3>3, Zenon DEF Nth, UpTo
  <2> HIDE DEF Nth, n, useful
  <2>8. items \in [1 .. n -> Item]
    BY <2>4, <2>5, <2>7
  <2> QED
    BY <2>6, <2>8, SeqDef
<1> QED
  BY <1>1, <1>2 DEF Answers

\* A frame is drawn from an answer with a plane in it: the captured plane is the
\* monitor's, and its cursor the plane's own (gsr_capture_kms_capture).
THEOREM OwnPlane == ASSUME FramebuffersHaveArea PROVE Spec => []RightMonitor
<1> DEFINE D == pcC = "drawing" => kms_response # << >>
<1>1. Init => D
  BY DEF Init
<1>2. ASSUME D, [Next]_vars PROVE D'
  BY <1>2 DEF Next, vars, recorder, server, network, Client, Server, Deinit, AcceptServer,
     InitFails, ReplaceConnection, GetKms, SendRequest, Receive, NothingYet, CheckServer, Draw,
     Stop, Crash, ServerStarts, ServerConnects, ServerTimesOut, ServerReplaces,
     ServerReadsPlanes, ServerResponds, ServerSeesShutdown, ServerDies
<1>3. ASSUME KInv, D PROVE RightMonitor
  <2>1. kms_response \in Seq(Item)
    BY <1>3, AnswerOfItems DEF KInv, TypeOK
  <2> QED
    BY <1>3, <2>1, RightChoice DEF RightMonitor
<1> QED
  BY <1>1, <1>2, <1>3, Invariance, PTL DEF Spec
===============================================================================
