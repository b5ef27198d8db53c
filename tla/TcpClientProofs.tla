-------------------------- MODULE TcpClientProofs --------------------------
(***************************************************************************)
(* Theorems about TcpClient: whose descriptor client_fd is, and what a     *)
(* connection carries, for any number of descriptors and of users of them. *)
(***************************************************************************)
EXTENDS TcpClient, SequenceTheorems, TLAPS

Open == {"connect", "connecting", "failed", "recv", "lost"}

(* Between two connections client_fd is -1.                                *)
Cleared == thread \in {"create", "sleep"} => client_fd = NoFd

(* What the socket can be at each place of the thread.                     *)
SocketOfThread ==
  /\ thread \in {"create", "sleep", "ended"} => sock = "none"
  /\ thread = "connect" => sock = "fresh"
  /\ thread = "connecting" => sock \in {"connecting", "refused", "broken"}
  /\ thread = "failed" => sock = "broken"
  /\ thread = "recv" => sock \in {"up", "fin", "reset", "broken"}
  /\ thread = "lost" => sock \in {"fin", "broken"}
  /\ thread \notin {"recv", "lost"} => got = <<>>

(* What has been handed over and is not sent yet.                          *)
Pending == IF send_pc = "idle" THEN <<>> ELSE send_data

(* The pending bytes are the last of all.                                  *)
PendingLast == \E w \in Seq(Nat) : wire = w \o Pending

(* As long as sends succeed, the connection has carried all that was       *)
(* handed over since it came up, but for what is pending.                  *)
NothingMissed ==
  sock \in {"up", "fin"} =>
    \E a \in Seq(Nat) : wire = (a \o got) \o Pending

(* NoGap with the bytes before and after the piece.                        *)
Piece == \E a, b \in Seq(Nat) : wire = (a \o got) \o b

IInv ==
  /\ TypeOK /\ DescriptorOwned /\ StrayOnlyAfterGivingUp
  /\ Cleared /\ SocketOfThread
  /\ PendingLast /\ NothingMissed /\ Piece

-----------------------------------------------------------------------------
(* Facts about sequences.                                                  *)
LEMMA Associative ==
  ASSUME NEW s \in Seq(Nat), NEW t \in Seq(Nat), NEW u \in Seq(Nat)
  PROVE  (s \o t) \o u = s \o (t \o u)
  BY ConcatAssociative, SMTT(30)

LEMMA EmptyRight ==
  ASSUME NEW s \in Seq(Nat)
  PROVE  <<>> \in Seq(Nat) /\ s \o <<>> = s
  OBVIOUS

LEMMA ConcatInSeq ==
  ASSUME NEW s \in Seq(Nat), NEW t \in Seq(Nat)
  PROVE  s \o t \in Seq(Nat)
  OBVIOUS

(* The middle of a concatenation is found by its place.                    *)
LEMMA MiddleIsSubSeq ==
  ASSUME NEW a \in Seq(Nat), NEW g \in Seq(Nat), NEW b \in Seq(Nat),
         NEW w, w = (a \o g) \o b
  PROVE  /\ Len(a) \in 0..Len(w)
         /\ Len(a) + Len(g) <= Len(w)
         /\ g = SubSeq(w, Len(a) + 1, Len(a) + Len(g))
<1>1. /\ Len(a) \in Nat /\ Len(g) \in Nat /\ Len(b) \in Nat
      /\ w \in Seq(Nat)
      /\ Len(w) = Len(a) + Len(g) + Len(b)
  OBVIOUS
<1> DEFINE m == Len(a) + 1
           n == Len(a) + Len(g)
           s == SubSeq(w, m, n)
<1>2. m \in 1..Len(w) + 1 /\ n \in m - 1..Len(w)
  BY <1>1
<1>3. /\ s \in Seq(Nat)
      /\ Len(s) = Len(g)
      /\ \A i \in 1..Len(g) : s[i] = w[Len(a) + i]
  BY <1>1, SMT
<1>4. \A i \in 1..Len(g) : w[Len(a) + i] = g[i]
  BY <1>1, SMT
<1>5. g = s
  BY <1>3, <1>4, SeqEqual
<1> QED
  BY <1>1, <1>5

(* What Piece is for.                                                      *)
LEMMA PieceIsNoGap == ASSUME TypeOK, Piece PROVE NoGap
<1> SUFFICES ASSUME NEW a \in Seq(Nat), NEW b \in Seq(Nat),
                    wire = (a \o got) \o b
             PROVE  NoGap
  BY DEF Piece
<1>1. got \in Seq(Nat)
  BY DEF TypeOK
<1>2. /\ Len(a) \in 0..Len(wire)
      /\ Len(a) + Len(got) <= Len(wire)
      /\ got = SubSeq(wire, Len(a) + 1, Len(a) + Len(got))
  BY <1>1, MiddleIsSubSeq
<1> QED
  BY <1>2, Zenon DEF NoGap

(* How the three facts about the stream survive.  The connection does not  *)
(* come up, or comes up empty, and nothing is handed over or sent.         *)
LEMMA KeepStream ==
  ASSUME IInv, UNCHANGED <<got, sendVars>>,
         sock' \in {"up", "fin"} => sock \in {"up", "fin"} \/ got = <<>>
  PROVE  PendingLast' /\ NothingMissed' /\ Piece'
<1> USE DEF sendVars
<1>1. PendingLast' /\ Piece'
  BY DEF IInv, PendingLast, Piece, Pending
<1>2. CASE sock' \in {"up", "fin"} /\ sock \in {"up", "fin"}
  BY <1>1, <1>2 DEF IInv, NothingMissed, Pending
<1>3. CASE sock' \in {"up", "fin"} /\ got = <<>>
  <2>1. PICK w \in Seq(Nat) : wire = w \o Pending
    BY DEF IInv, PendingLast
  <2>2. wire = (w \o got) \o Pending
    BY <1>3, <2>1, EmptyRight
  <2> QED
    BY <1>1, <2>2 DEF NothingMissed, Pending
<1>4. CASE sock' \notin {"up", "fin"}
  BY <1>1, <1>4 DEF NothingMissed
<1> QED
  BY <1>2, <1>3, <1>4

(* The connection is closed.                                               *)
LEMMA CloseStream ==
  ASSUME IInv, UNCHANGED sendVars, got' = <<>>, sock' = "none"
  PROVE  PendingLast' /\ NothingMissed' /\ Piece'
<1> USE DEF sendVars
<1>1. PendingLast' /\ NothingMissed'
  BY DEF IInv, PendingLast, NothingMissed, Pending
<1>2. wire' \in Seq(Nat) /\ wire' = (wire' \o got') \o <<>>
  BY EmptyRight DEF IInv, TypeOK
<1>3. Piece'
  BY <1>2, EmptyRight DEF Piece
<1> QED
  BY <1>1, <1>3

(* A call returns and has sent nothing on a connection that is up.         *)
LEMMA ReturnStream ==
  ASSUME IInv, send_pc' = "idle", UNCHANGED <<got, wire>>,
         sock' \notin {"up", "fin"}
  PROVE  PendingLast' /\ NothingMissed' /\ Piece'
<1>1. NothingMissed' /\ Piece'
  BY DEF IInv, NothingMissed, Piece
<1>2. wire' \in Seq(Nat) /\ wire' = wire' \o <<>>
  BY EmptyRight DEF IInv, TypeOK
<1>3. PendingLast'
  BY <1>2 DEF PendingLast, Pending
<1> QED
  BY <1>1, <1>3

-----------------------------------------------------------------------------
(* The descriptor.  A step that leaves the descriptors alone keeps what is *)
(* said of them if the thread stays on its side of socket() and close().   *)
LEMMA KeepFd ==
  ASSUME IInv, UNCHANGED <<fdVars, stray>>,
         thread \in Open <=> thread' \in Open,
         thread = "ended" => thread' = "ended",
         thread' \in {"create", "sleep"} => thread \in {"create", "sleep"}
  PROVE  DescriptorOwned' /\ StrayOnlyAfterGivingUp' /\ Cleared'
  BY DEF IInv, DescriptorOwned, StrayOnlyAfterGivingUp, Cleared, Open, fdVars

(* While the thread is between socket() and close(), client_fd is open and *)
(* the client's.                                                           *)
LEMMA OpenFd ==
  ASSUME IInv, thread \in Open
  PROVE  client_fd \in Fds /\ client_fd # NoFd /\ owner[client_fd] = "tcp"
  BY TcpClientAssumption DEF IInv, DescriptorOwned, Open

(* Otherwise the client has none.                                          *)
LEMMA NoOpenFd ==
  ASSUME IInv, thread \notin Open
  PROVE  \A f \in Fds : owner[f] # "tcp"
  BY DEF IInv, DescriptorOwned, Open

(* close(client_fd).                                                       *)
LEMMA CloseFdOwned ==
  ASSUME IInv, thread \in Open, CloseSocket, thread' \notin Open
  PROVE  /\ owner' \in [Fds -> {"free", "tcp", "other"}]
         /\ DescriptorOwned'
<1>1. owner \in [Fds -> {"free", "tcp", "other"}]
  BY DEF IInv, TypeOK
<1>2. {f \in Fds : owner[f] = "tcp"} = {client_fd}
  BY DEF IInv, DescriptorOwned, Open
<1>3. owner' = [owner EXCEPT ![client_fd] = "free"]
  BY DEF CloseSocket
<1>4. \A f \in Fds : owner'[f] # "tcp"
  BY <1>1, <1>2, <1>3
<1> QED
  BY <1>1, <1>3, <1>4 DEF DescriptorOwned, Open

-----------------------------------------------------------------------------
(* tcp_client_thread *)
LEMMA CreateSocketIInv ==
  ASSUME IInv, NEW f \in Fds, CreateSocket(f) PROVE IInv'
<1> USE DEF CreateSocket
<1>1. TypeOK' /\ Cleared' /\ SocketOfThread'
  BY DEF IInv, TypeOK, Cleared, SocketOfThread, sendVars
<1>2. PendingLast' /\ NothingMissed' /\ Piece'
  BY KeepStream
<1>3. owner \in [Fds -> {"free", "tcp", "other"}]
  BY DEF IInv, TypeOK
<1>4. \A g \in Fds : owner[g] # "tcp"
  BY NoOpenFd DEF Open
<1>5. \A g \in Fds : owner'[g] = "tcp" <=> g = f
  BY <1>3, <1>4
<1>6. DescriptorOwned'
  BY <1>5 DEF DescriptorOwned
<1>7. StrayOnlyAfterGivingUp'
  BY DEF IInv, StrayOnlyAfterGivingUp
<1> QED
  BY <1>1, <1>2, <1>6, <1>7 DEF IInv

LEMMA CreateFailsIInv == ASSUME IInv, CreateFails PROVE IInv'
<1> USE DEF CreateFails, linkVars
<1>1. TypeOK' /\ Cleared' /\ SocketOfThread'
  BY DEF IInv, TypeOK, Cleared, SocketOfThread, sendVars
<1>2. PendingLast' /\ NothingMissed' /\ Piece'
  BY KeepStream
<1>3. DescriptorOwned' /\ StrayOnlyAfterGivingUp'
  BY DEF IInv, DescriptorOwned, StrayOnlyAfterGivingUp
<1> QED
  BY <1>1, <1>2, <1>3 DEF IInv

(* The three places at which the thread closes its descriptor.             *)
LEMMA ClosesIInv ==
  ASSUME IInv, InvalidAddress \/ GiveUp \/ CloseLost PROVE IInv'
<1> USE DEF InvalidAddress, GiveUp, CloseLost
<1>1. thread \in Open /\ CloseSocket /\ thread' \in {"ended", "sleep"}
  BY DEF Open
<1>2. thread' = "sleep" => client_fd' = NoFd
  OBVIOUS
<1>3. /\ owner' \in [Fds -> {"free", "tcp", "other"}]
      /\ DescriptorOwned'
  BY <1>1, CloseFdOwned DEF Open
<1>4. PendingLast' /\ NothingMissed' /\ Piece'
  BY CloseStream DEF CloseSocket
<1>5. TypeOK'
  BY <1>1, <1>3, TcpClientAssumption DEF IInv, TypeOK, CloseSocket, sendVars
<1>6. Cleared' /\ SocketOfThread'
  BY <1>1, <1>2 DEF Cleared, SocketOfThread, CloseSocket
<1>7. StrayOnlyAfterGivingUp'
  BY <1>1 DEF IInv, StrayOnlyAfterGivingUp, Open
<1> QED
  BY <1>3, <1>4, <1>5, <1>6, <1>7 DEF IInv

(* The steps of the thread that leave the descriptor alone.                *)
LEMMA ThreadIInv ==
  ASSUME IInv, Connect \/ Connected \/ ConnectFails \/ RecvEnds \/ Retry
  PROVE  IInv'
<1> USE DEF Connect, Connected, ConnectFails, RecvEnds, Retry
<1>1. TypeOK' /\ SocketOfThread'
  BY DEF IInv, TypeOK, SocketOfThread, fdVars, linkVars, sendVars
<1>2. DescriptorOwned' /\ StrayOnlyAfterGivingUp' /\ Cleared'
  BY KeepFd DEF Open
<1>3. PendingLast' /\ NothingMissed' /\ Piece'
  BY KeepStream DEF IInv, SocketOfThread, linkVars
<1> QED
  BY <1>1, <1>2, <1>3 DEF IInv

-----------------------------------------------------------------------------
(* tcp_client_send *)

(* The bytes handed over go to the end, and are what is pending.           *)
LEMMA SendCallIInv ==
  ASSUME IInv, NEW data \in Seq(Nat), SendCall(data) PROVE IInv'
<1> USE DEF SendCall, fdVars, linkVars
<1>1. /\ wire \in Seq(Nat) /\ got \in Seq(Nat)
      /\ Pending = <<>> /\ Pending' = data
      /\ wire' = wire \o data
  BY DEF IInv, TypeOK, Pending
<1>2. TypeOK' /\ SocketOfThread'
  BY <1>1, ConcatInSeq DEF IInv, TypeOK, SocketOfThread
<1>3. DescriptorOwned' /\ StrayOnlyAfterGivingUp' /\ Cleared'
  BY KeepFd
<1>4. PendingLast'
  BY <1>1 DEF PendingLast
<1>5. NothingMissed'
  <2>1. SUFFICES ASSUME sock \in {"up", "fin"}
                 PROVE  \E a \in Seq(Nat) : wire' = (a \o got) \o data
    BY <1>1 DEF NothingMissed
  <2>2. PICK a \in Seq(Nat) : wire = (a \o got) \o <<>>
    BY <1>1, <2>1 DEF IInv, NothingMissed
  <2>3. wire = a \o got
    BY <1>1, <2>2, ConcatInSeq, EmptyRight
  <2> QED
    BY <1>1, <2>3
<1>6. Piece'
  <2>1. PICK a \in Seq(Nat), b \in Seq(Nat) : wire = (a \o got) \o b
    BY DEF IInv, Piece
  <2>2. wire' = (a \o got) \o (b \o data)
    <3> DEFINE c == a \o got
    <3>1. c \in Seq(Nat) /\ wire = c \o b
      BY <1>1, <2>1, ConcatInSeq
    <3> HIDE DEF c
    <3>2. (c \o b) \o data = c \o (b \o data)
      BY ONLY <3>1, Associative, data \in Seq(Nat), b \in Seq(Nat)
    <3>3. wire' = c \o (b \o data)
      BY <1>1, <3>1, <3>2
    <3> QED
      BY <3>3 DEF c
  <2>3. b \o data \in Seq(Nat)
    BY ConcatInSeq
  <2> QED
    BY <2>2, <2>3 DEF Piece
<1> QED
  BY <1>2, <1>3, <1>4, <1>5, <1>6 DEF IInv

LEMMA SendLockIInv == ASSUME IInv, SendLock PROVE IInv'
<1> USE DEF SendLock, fdVars, linkVars
<1>1. TypeOK' /\ SocketOfThread'
  BY DEF IInv, TypeOK, SocketOfThread
<1>2. DescriptorOwned' /\ StrayOnlyAfterGivingUp' /\ Cleared'
  BY KeepFd
<1>3. Pending' = Pending
  BY DEF Pending
<1>4. PendingLast' /\ NothingMissed' /\ Piece'
  BY <1>3 DEF IInv, PendingLast, NothingMissed, Piece
<1> QED
  BY <1>1, <1>2, <1>4 DEF IInv

(* Nothing is sent: the thread is between two connections or has given up, *)
(* since otherwise client_fd would be the client's.  A number that has     *)
(* become another part's is used after giving up only.                     *)
LEMMA SendNothingIInv ==
  ASSUME IInv, SendSkips \/ SendBadFd \/ SendStray PROVE IInv'
<1> USE DEF SendSkips, SendBadFd, SendStray, SendingTo, SendReturn, linkVars
<1>1. thread \notin Open
  BY OpenFd
<1>2. /\ UNCHANGED <<fdVars, thread, got, sock, wire>>
      /\ send_pc' = "idle"
  BY DEF fdVars
<1>3. TypeOK'
  <2>1. stray' \in Seq(Nat)
    BY ConcatInSeq DEF IInv, TypeOK
  <2>2. client_lock' = "free" /\ UNCHANGED <<host_ok, server_up, unread,
                                            send_data>>
    OBVIOUS
  <2> QED
    BY <1>2, <2>1, <2>2 DEF IInv, TypeOK, fdVars
<1>4. SocketOfThread'
  BY <1>2 DEF IInv, SocketOfThread
<1>5. sock' \notin {"up", "fin"}
  BY <1>1, <1>2 DEF IInv, TypeOK, SocketOfThread, Open
<1>6. PendingLast' /\ NothingMissed' /\ Piece'
  BY <1>2, <1>5, ReturnStream
<1>7. DescriptorOwned' /\ Cleared'
  BY <1>2 DEF IInv, DescriptorOwned, Cleared, fdVars
<1>8. StrayOnlyAfterGivingUp'
  <2>1. CASE SendStray
    <3>1. thread \notin {"create", "sleep"}
      BY <2>1 DEF IInv, Cleared
    <3>2. thread = "ended"
      BY <1>1, <3>1 DEF IInv, TypeOK, Open
    <3> QED
      BY <1>2, <3>2 DEF StrayOnlyAfterGivingUp
  <2>2. CASE SendSkips \/ SendBadFd
    BY <2>2 DEF IInv, StrayOnlyAfterGivingUp
  <2> QED
    BY <2>1, <2>2
<1> QED
  BY <1>3, <1>4, <1>6, <1>7, <1>8 DEF IInv

(* The bytes that were pending are sent next after those sent before.      *)
LEMMA SendOkIInv == ASSUME IInv, SendOk PROVE IInv'
<1> USE DEF SendOk, SendingTo, SendReturn
<1>1. /\ send_pc = "send" /\ sock \in {"up", "fin"} /\ sock' = sock
      /\ Pending = send_data /\ Pending' = <<>>
      /\ got' = got \o send_data /\ wire' = wire
      /\ UNCHANGED <<fdVars, thread, stray>>
  BY DEF Pending
<1>2. got \in Seq(Nat) /\ send_data \in Seq(Nat) /\ wire \in Seq(Nat)
  BY DEF IInv, TypeOK
<1>3. got' \in Seq(Nat)
  BY <1>1, <1>2, ConcatInSeq
<1>4. unread' \in 0..SendCapacity
  BY TcpClientAssumption DEF IInv, TypeOK, PeerFull
<1>5. TypeOK'
  BY <1>3, <1>4 DEF IInv, TypeOK, fdVars
<1>6. SocketOfThread'
  BY <1>1 DEF IInv, SocketOfThread, TypeOK
<1>7. DescriptorOwned' /\ StrayOnlyAfterGivingUp' /\ Cleared'
  BY <1>1, KeepFd
<1>8. PICK a \in Seq(Nat) : wire = (a \o got) \o send_data
  BY <1>1 DEF IInv, NothingMissed
<1>9. wire' = a \o got'
  <2>1. (a \o got) \o send_data = a \o (got \o send_data)
    BY ONLY <1>2, Associative, a \in Seq(Nat)
  <2> QED
    BY <1>1, <1>8, <2>1
<1>10. a \o got' \in Seq(Nat) /\ wire' = (a \o got') \o <<>>
  BY <1>3, <1>9, ConcatInSeq, EmptyRight
<1>11. PendingLast' /\ NothingMissed' /\ Piece'
  BY <1>1, <1>10, EmptyRight DEF PendingLast, NothingMissed, Piece
<1> QED
  BY <1>5, <1>6, <1>7, <1>11 DEF IInv

LEMMA SendFailsIInv == ASSUME IInv, SendFails PROVE IInv'
<1> USE DEF SendFails, SendingTo, SendReturn
<1>1. TypeOK' /\ SocketOfThread'
  BY DEF IInv, TypeOK, SocketOfThread, fdVars
<1>2. DescriptorOwned' /\ StrayOnlyAfterGivingUp' /\ Cleared'
  BY KeepFd
<1>3. PendingLast' /\ NothingMissed' /\ Piece'
  BY ReturnStream
<1> QED
  BY <1>1, <1>2, <1>3 DEF IInv

-----------------------------------------------------------------------------
(* The server, the network, the rest of the process, and the restart.      *)
LEMMA PeerIInv ==
  ASSUME IInv,
         \/ ServerRefuses \/ ServerComesOrGoes
         \/ PeerCloses \/ PeerResets \/ PeerReads
  PROVE  IInv'
<1> USE DEF ServerRefuses, ServerComesOrGoes, PeerCloses, PeerResets,
            PeerReads
<1>1. TypeOK'
  <2>1. CASE PeerReads
    <3>1. unread \in 0..SendCapacity /\ unread > 0 /\ SendCapacity \in Nat
      BY <2>1, TcpClientAssumption DEF IInv, TypeOK
    <3>2. unread - 1 \in 0..SendCapacity
      BY ONLY <3>1
    <3> QED
      BY <2>1, <3>2 DEF IInv, TypeOK, fdVars, sendVars
  <2>2. CASE ServerRefuses
    BY <2>2 DEF IInv, TypeOK, fdVars, sendVars
  <2>3. CASE ServerComesOrGoes
    BY <2>3 DEF IInv, TypeOK, fdVars, linkVars, sendVars
  <2>4. CASE PeerCloses
    BY <2>4 DEF IInv, TypeOK, fdVars, sendVars
  <2>5. CASE PeerResets
    BY <2>5 DEF IInv, TypeOK, fdVars, sendVars
  <2> QED
    BY <2>1, <2>2, <2>3, <2>4, <2>5
<1>2. SocketOfThread'
  BY DEF IInv, TypeOK, SocketOfThread, linkVars
<1>3. DescriptorOwned' /\ StrayOnlyAfterGivingUp' /\ Cleared'
  BY KeepFd
<1>4. PendingLast' /\ NothingMissed' /\ Piece'
  BY KeepStream DEF linkVars
<1> QED
  BY <1>1, <1>2, <1>3, <1>4 DEF IInv

(* Descriptors change hands between free and other only.                   *)
LEMMA OtherIInv ==
  ASSUME IInv, NEW f \in Fds, OtherOpens(f) \/ OtherCloses(f) PROVE IInv'
<1> USE DEF OtherOpens, OtherCloses, linkVars
<1>1. /\ owner \in [Fds -> {"free", "tcp", "other"}]
      /\ owner[f] # "tcp"
      /\ \/ owner' = [owner EXCEPT ![f] = "other"]
         \/ owner' = [owner EXCEPT ![f] = "free"]
  BY DEF IInv, TypeOK, FreeFds
<1>2. \A g \in Fds : owner'[g] = "tcp" <=> owner[g] = "tcp"
  BY <1>1
<1>3. DescriptorOwned'
  BY <1>2 DEF IInv, DescriptorOwned
<1>4. TypeOK' /\ SocketOfThread'
  <2>1. owner' \in [Fds -> {"free", "tcp", "other"}]
    BY ONLY <1>1
  <2>2. UNCHANGED <<host_ok, client_fd, client_lock, thread, sock,
                    server_up, unread, got, stray, sendVars>>
    OBVIOUS
  <2> QED
    BY ONLY IInv, <2>1, <2>2 DEF IInv, TypeOK, SocketOfThread, sendVars
<1>5. StrayOnlyAfterGivingUp' /\ Cleared'
  BY DEF IInv, StrayOnlyAfterGivingUp, Cleared
<1>6. PendingLast' /\ NothingMissed' /\ Piece'
  BY KeepStream
<1> QED
  BY <1>3, <1>4, <1>5, <1>6 DEF IInv

(* The state of a process that has just started.                           *)
LEMMA StartedIInv ==
  ASSUME host_ok \in BOOLEAN, server_up \in BOOLEAN,
         client_fd = NoFd, client_lock = "free", thread = "create",
         owner = [f \in Fds |-> "free"], sock = "none", unread = 0,
         got = <<>>, stray = <<>>, send_pc = "idle", send_data = <<>>,
         wire = <<>>
  PROVE  IInv
<1>1. <<>> \in Seq(Nat) /\ wire = (<<>> \o got) \o <<>> /\ wire = <<>> \o <<>>
  BY EmptyRight
<1>2. PendingLast /\ NothingMissed /\ Piece
  BY <1>1 DEF PendingLast, NothingMissed, Piece, Pending
<1>3. TypeOK
  BY <1>1, TcpClientAssumption DEF TypeOK
<1>4. DescriptorOwned
  BY DEF DescriptorOwned
<1> QED
  BY <1>2, <1>3, <1>4
  DEF IInv, StrayOnlyAfterGivingUp, Cleared, SocketOfThread

LEMMA InitIInv == Init => IInv
  BY StartedIInv DEF Init

LEMMA RestartIInv == ASSUME IInv, Restart PROVE IInv'
<1>1. <<>> \in Seq(Nat) /\ wire' = (<<>> \o got') \o <<>>
      /\ wire' = <<>> \o <<>>
  BY EmptyRight DEF Restart
<1>2. PendingLast' /\ NothingMissed' /\ Piece'
  BY <1>1 DEF Restart, PendingLast, NothingMissed, Piece, Pending
<1>3. TypeOK'
  BY <1>1, TcpClientAssumption DEF IInv, Restart, TypeOK
<1>4. DescriptorOwned'
  BY DEF Restart, DescriptorOwned
<1> QED
  BY <1>2, <1>3, <1>4
  DEF Restart, IInv, StrayOnlyAfterGivingUp, Cleared, SocketOfThread

-----------------------------------------------------------------------------
LEMMA StepIInv == ASSUME IInv, [Next]_clientVars PROVE IInv'
<1>1. CASE ClientThread
  BY <1>1, CreateSocketIInv, CreateFailsIInv, ClosesIInv, ThreadIInv
  DEF ClientThread
<1>2. CASE SendStep
  BY <1>2, SendLockIInv, SendNothingIInv, SendOkIInv, SendFailsIInv
  DEF SendStep
<1>3. CASE Environment
  BY <1>3, PeerIInv, OtherIInv DEF Environment
<1>4. CASE NextCall
  <2>1. Len(wire) + 1 \in Nat
    BY DEF IInv, TypeOK
  <2>2. <<Len(wire) + 1>> \in Seq(Nat) /\ <<>> \in Seq(Nat)
    BY <2>1
  <2> QED
    BY <1>4, <2>2, SendCallIInv DEF NextCall
<1>5. CASE Restart
  BY <1>5, RestartIInv
<1>6. CASE UNCHANGED clientVars
  <2>1. /\ TypeOK' /\ DescriptorOwned' /\ StrayOnlyAfterGivingUp'
        /\ Cleared' /\ SocketOfThread'
    BY <1>6
    DEF clientVars, IInv, TypeOK, DescriptorOwned, StrayOnlyAfterGivingUp,
        Cleared, SocketOfThread
  <2>2. PendingLast' /\ NothingMissed' /\ Piece'
    BY <1>6, KeepStream DEF clientVars, sendVars
  <2> QED
    BY <2>1, <2>2 DEF IInv
<1> QED
  BY <1>1, <1>2, <1>3, <1>4, <1>5, <1>6 DEF Next, ClientStep

(* The invariant holds in each state of TcpClient.                         *)
THEOREM Invariance == Spec => []IInv
<1>1. IInv /\ [Next]_clientVars => IInv'
  BY StepIInv
<1> QED
  BY <1>1, InitIInv, PTL DEF Spec

(* Every variable of the client keeps its type, whatever the number of     *)
(* descriptors of the process.                                             *)
THEOREM TypeCorrect == Spec => []TypeOK
<1>1. IInv => TypeOK
  BY DEF IInv
<1> QED
  BY <1>1, Invariance, PTL

(* tcp_client_thread has one descriptor open from socket() to close(), and *)
(* it is client_fd; on no way through its loop does it leak one or close   *)
(* one of another part of the process.                                     *)
THEOREM NoLeak == Spec => []DescriptorOwned
<1>1. IInv => DescriptorOwned
  BY DEF IInv
<1> QED
  BY <1>1, Invariance, PTL

(* As long as the thread lives, tcp_client_send never sends on a           *)
(* descriptor that is not the client's.                                    *)
THEOREM NoStray == Spec => []StrayOnlyAfterGivingUp
<1>1. IInv => StrayOnlyAfterGivingUp
  BY DEF IInv
<1> QED
  BY <1>1, Invariance, PTL

(* Each connection carries one contiguous piece of what was handed to      *)
(* tcp_client_send.                                                        *)
THEOREM Contiguous == Spec => []NoGap
<1>1. IInv => NoGap
  BY PieceIsNoGap DEF IInv
<1> QED
  BY <1>1, Invariance, PTL

-----------------------------------------------------------------------------
(* What a step of the client does to what the connection has carried:      *)
(* nothing, or it is over, or the data of the call under way is sent, with *)
(* which the call is over.                                                 *)
Delivers ==
  /\ UNCHANGED <<wire, send_data>>
  /\ send_pc' # "idle" => send_pc # "idle"
  /\ \/ got' = got \/ got' = <<>>
     \/ send_pc # "idle" /\ send_pc' = "idle" /\ got' = got \o send_data

LEMMA ClientStepDelivers == ASSUME ClientStep PROVE Delivers
<1> USE DEF Delivers, fdVars, linkVars, sendVars
<1>1. ASSUME ClientThread PROVE Delivers
  <2>1. ASSUME NEW f \in Fds, CreateSocket(f) PROVE Delivers
    BY <2>1 DEF CreateSocket
  <2>2. CASE \/ CreateFails \/ Connect \/ Connected \/ ConnectFails
             \/ RecvEnds \/ Retry
    BY <2>2 DEF CreateFails, Connect, Connected, ConnectFails, RecvEnds, Retry
  <2>3. CASE InvalidAddress \/ GiveUp \/ CloseLost
    BY <2>3 DEF InvalidAddress, GiveUp, CloseLost, CloseSocket
  <2> QED
    BY <1>1, <2>1, <2>2, <2>3 DEF ClientThread
<1>2. ASSUME SendStep PROVE Delivers
  <2>1. CASE SendLock
    BY <2>1 DEF SendLock
  <2>2. CASE SendSkips \/ SendFails \/ SendBadFd \/ SendStray
    BY <2>2 DEF SendSkips, SendFails, SendBadFd, SendStray, SendReturn
  <2>3. CASE SendOk
    BY <2>3 DEF SendOk, SendingTo, SendReturn
  <2> QED
    BY <1>2, <2>1, <2>2, <2>3 DEF SendStep
<1>3. ASSUME Environment PROVE Delivers
  BY <1>3 DEF Environment, ServerRefuses, ServerComesOrGoes, PeerCloses,
              PeerResets, PeerReads, OtherOpens, OtherCloses
<1> QED
  BY <1>1, <1>2, <1>3 DEF ClientStep
=============================================================================
