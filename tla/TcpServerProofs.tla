-------------------------- MODULE TcpServerProofs --------------------------
(***************************************************************************)
(* Theorems about TcpServer, for any number of connections, descriptors    *)
(* and slots: its client table; that it implements Multicast; and what     *)
(* follows from that for what its clients are sent.                        *)
(***************************************************************************)
EXTENDS TcpServer, SequenceTheorems, TLAPS

(* No two open connections have one descriptor.                            *)
FdsDistinct ==
  \A c, d \in Conns : fd[c] # NoFd /\ fd[c] = fd[d] => c = d

Holding == acceptor \in {"register", "spawn", "reject"}

(* What the accept thread holds is open and has no handler yet; a handler  *)
(* has an open descriptor.                                                 *)
Held ==
  /\ Holding => /\ acc_conn \in Conns
                /\ fd[acc_conn] # NoFd
                /\ handler[acc_conn] = "none"
  /\ \A c \in Conns : handler[c] # "none" => fd[c] # NoFd

IInv == TypeOK /\ FdsDistinct /\ Held /\ TableSound /\ TableBounded

-----------------------------------------------------------------------------
(* What SwapRemove returns: a shorter table in which each entry is one of  *)
(* the others, from a place of its own, and each other one is there.       *)
LEMMA SwapRemoveProperties ==
  ASSUME NEW s \in Seq(Fds), NEW i \in 1..Len(s)
  PROVE  /\ SwapRemove(s, i) \in Seq(Fds)
         /\ Len(SwapRemove(s, i)) = Len(s) - 1
         /\ \A j \in 1..Len(s) - 1 :
              SwapRemove(s, i)[j] = IF j = i THEN s[Len(s)] ELSE s[j]
<1> DEFINE t == [j \in 1..Len(s) - 1 |-> IF j = i THEN s[Len(s)] ELSE s[j]]
<1>1. Len(s) \in Nat /\ Len(s) - 1 \in Nat
  BY LenProperties
<1>2. \A j \in 1..Len(s) : s[j] \in Fds
  BY ElementOfSeq
<1>3. t \in [1..Len(s) - 1 -> Fds]
  BY <1>1, <1>2
<1>4. t \in Seq(Fds) /\ Len(t) = Len(s) - 1
  BY <1>1, <1>3
<1> QED
  BY <1>4 DEF SwapRemove

(* In a table without repetition the search finds the only place.          *)
LEMMA TakenOutIsSwapRemove ==
  ASSUME client_fds \in Seq(Fds),
         NEW f, NEW i \in 1..client_count, client_fds[i] = f,
         \A j, k \in 1..client_count : client_fds[j] = client_fds[k] => j = k
  PROVE  TakenOut(f) = SwapRemove(client_fds, i)
<1>1. client_count \in Nat
  BY LenProperties DEF client_count
<1>2. IsIndexOf(i, f)
  BY <1>1 DEF IsIndexOf
<1>3. \A j \in 1..client_count : IsIndexOf(j, f) => j = i
  BY DEF IsIndexOf
<1>4. i = CHOOSE j \in 1..client_count : IsIndexOf(j, f)
  BY <1>2, <1>3
<1> QED
  BY <1>4 DEF TakenOut

(* A step that neither opens nor closes a descriptor, leaves the table     *)
(* alone and the same connections registered.                              *)
LEMMA KeepTable ==
  ASSUME IInv, TypeOK', Held', UNCHANGED <<client_fds, fd>>,
         \A c \in Conns : Registered(c)' <=> Registered(c)
  PROVE  IInv'
<1>1. TableSound'
  BY DEF IInv, TableSound, client_count
<1>2. FdsDistinct' /\ TableBounded'
  BY DEF IInv, FdsDistinct, TableBounded, client_count
<1> QED
  BY <1>1, <1>2 DEF IInv

-----------------------------------------------------------------------------
(* The accept thread.                                                      *)
LEMMA ListenIInv == ASSUME IInv, Listen \/ ListenFails PROVE IInv'
<1> USE DEF Listen, ListenFails, kernelVars, sendVars
<1>1. TypeOK' /\ Held'
  BY DEF IInv, TypeOK, Held, Holding
<1>2. \A c \in Conns : Registered(c)' <=> Registered(c)
  BY DEF Registered
<1> QED
  BY <1>1, <1>2, KeepTable

(* The connection that is accepted has no descriptor, so it is not in the  *)
(* table, and it gets one that no other connection has.                    *)
LEMMA AcceptIInv ==
  ASSUME IInv, NEW c \in Conns, NEW f \in Fds, Accept(c, f) PROVE IInv'
<1> USE DEF Accept, sendVars
<1>1. fd \in [Conns -> Fds \cup {NoFd}] /\ f # NoFd
  BY TcpServerAssumption DEF IInv, TypeOK
<1>2. fd'[c] = f /\ \A d \in Conns \ {c} : fd'[d] = fd[d]
  BY <1>1
<1>3. TypeOK'
  BY <1>1 DEF IInv, TypeOK
<1>4. \A d \in Conns : Registered(d) => d # c
  BY DEF IInv, Held, Registered
<1>5. \A d \in Conns : Registered(d)' <=> Registered(d)
  BY DEF Registered
<1>6. FdsDistinct'
  BY <1>1, <1>2 DEF IInv, FdsDistinct, FreeFds
<1>7. Held'
  BY <1>1, <1>2 DEF IInv, Held, Holding
<1>8. TableSound'
  BY <1>2, <1>4, <1>5 DEF IInv, TableSound, client_count
<1> QED
  BY <1>3, <1>6, <1>7, <1>8 DEF IInv, TableBounded, client_count

(* The descriptor is not in the table yet, since all that is in it belongs *)
(* to other connections.                                                   *)
LEMMA RegisterIInv == ASSUME IInv, Register PROVE IInv'
<1> USE DEF Register, kernelVars, sendVars
<1>1. /\ client_fds \in Seq(Fds) /\ client_count \in Nat
      /\ MaxClients \in Nat
  BY LenProperties, TcpServerAssumption DEF IInv, TypeOK, client_count
<1>2. /\ acc_conn \in Conns /\ fd[acc_conn] \in Fds
      /\ handler[acc_conn] = "none"
  BY DEF IInv, TypeOK, Held, Holding
<1>3. /\ client_fds' \in Seq(Fds)
      /\ client_count' = client_count + 1
      /\ client_fds'[client_count + 1] = fd[acc_conn]
      /\ \A i \in 1..client_count : client_fds'[i] = client_fds[i]
  BY <1>1, <1>2, AppendProperties DEF client_count
<1>4. TypeOK'
  BY <1>3 DEF IInv, TypeOK
<1>5. \A c \in Conns : Registered(c)' <=> Registered(c) \/ c = acc_conn
  BY <1>2 DEF Registered
<1>6. \A i \in 1..client_count : client_fds[i] # fd[acc_conn]
  <2> SUFFICES ASSUME NEW i \in 1..client_count PROVE client_fds[i] # fd[acc_conn]
    OBVIOUS
  <2>1. PICK c \in Conns : fd[c] = client_fds[i] /\ Registered(c)
    BY DEF IInv, TableSound
  <2>2. c # acc_conn /\ fd[c] # NoFd
    BY <1>2, <2>1 DEF IInv, Held, Registered
  <2> QED
    BY <1>2, <2>1, <2>2 DEF IInv, FdsDistinct
<1>7. TableSound'
  <2>1. \A i, j \in 1..client_count + 1 :
          client_fds'[i] = client_fds'[j] => i = j
    BY <1>1, <1>3, <1>6 DEF IInv, TableSound
  <2>2. ASSUME NEW i \in 1..client_count + 1
        PROVE  \E c \in Conns : fd[c] = client_fds'[i] /\ Registered(c)'
    <3>1. CASE i = client_count + 1
      BY <1>2, <1>3, <1>5, <3>1
    <3>2. CASE i \in 1..client_count
      <4>1. PICK c \in Conns : fd[c] = client_fds[i] /\ Registered(c)
        BY <3>2 DEF IInv, TableSound
      <4> QED
        BY <1>3, <1>5, <3>2, <4>1
    <3>3. i = client_count + 1 \/ i \in 1..client_count
      BY ONLY <1>1, i \in 1..client_count + 1
    <3> QED
      BY <3>1, <3>2, <3>3
  <2>3. ASSUME NEW c \in Conns, Registered(c)'
        PROVE  \E i \in 1..client_count + 1 : client_fds'[i] = fd[c]
    <3>1. CASE c = acc_conn
      BY <1>1, <1>3, <3>1
    <3>2. CASE c # acc_conn
      <4>1. PICK i \in 1..client_count : client_fds[i] = fd[c]
        BY <1>5, <2>3, <3>2 DEF IInv, TableSound
      <4>2. i \in 1..client_count + 1
        BY ONLY <1>1, i \in 1..client_count
      <4>3. client_fds'[i] = fd[c]
        BY <1>3, <4>1
      <4> QED
        BY <4>2, <4>3
    <3> QED
      BY <3>1, <3>2
  <2> QED
    BY <1>3, <2>1, <2>2, <2>3 DEF TableSound
<1>8. TableBounded'
  BY <1>1, <1>3 DEF HasRoom, TableBounded
<1>9. FdsDistinct' /\ Held'
  BY DEF IInv, FdsDistinct, Held, Holding
<1> QED
  BY <1>4, <1>7, <1>8, <1>9 DEF IInv

LEMMA TableFullIInv == ASSUME IInv, TableFull PROVE IInv'
<1> USE DEF TableFull, kernelVars, sendVars
<1>1. TypeOK' /\ Held'
  BY DEF IInv, TypeOK, Held, Holding
<1>2. \A c \in Conns : Registered(c)' <=> Registered(c)
  BY DEF Registered
<1> QED
  BY <1>1, <1>2, KeepTable

(* Closing a connection that is not registered: the table does not hold    *)
(* its descriptor, and keeps its meaning.                                  *)
LEMMA CloseKeepsTable ==
  ASSUME IInv, NEW c \in Conns, CloseFd(c), UNCHANGED client_fds,
         ~Registered(c),
         \A d \in Conns : Registered(d)' <=> Registered(d)
  PROVE  TableSound' /\ TableBounded' /\ FdsDistinct'
<1>1. fd \in [Conns -> Fds \cup {NoFd}]
  BY DEF IInv, TypeOK
<1>2. fd'[c] = NoFd /\ \A d \in Conns \ {c} : fd'[d] = fd[d]
  BY <1>1 DEF CloseFd
<1>3. TableSound'
  BY <1>2 DEF IInv, TableSound, client_count
<1>4. FdsDistinct'
  BY <1>2 DEF IInv, FdsDistinct
<1> QED
  BY <1>3, <1>4 DEF IInv, TableBounded, client_count

LEMMA CloseType ==
  ASSUME TypeOK, NEW c \in Conns, CloseFd(c)
  PROVE  /\ fd' \in [Conns -> Fds \cup {NoFd}]
         /\ conn' \in [Conns -> {"none", "up", "fin", "reset", "broken"}]
         /\ unread' \in [Conns -> 0..SendCapacity]
         /\ got' \in [Conns -> Seq(Nat)]
<1>1. 0 \in 0..SendCapacity /\ <<>> \in Seq(Nat)
  BY TcpServerAssumption, EmptySeq
<1> QED
  BY <1>1 DEF TypeOK, CloseFd

LEMMA RejectIInv == ASSUME IInv, Reject PROVE IInv'
<1> USE DEF Reject, sendVars
<1>1. acc_conn \in Conns /\ handler[acc_conn] = "none"
  BY DEF IInv, Held, Holding
<1>2. ~Registered(acc_conn)
  BY <1>1 DEF Registered
<1>3. \A d \in Conns : Registered(d)' <=> Registered(d)
  BY DEF Registered
<1>4. TypeOK'
  BY <1>1, CloseType DEF IInv, TypeOK
<1>5. Held'
  BY <1>1 DEF IInv, TypeOK, Held, Holding, CloseFd
<1> QED
  BY <1>1, <1>2, <1>3, <1>4, <1>5, CloseKeepsTable DEF IInv

LEMMA SpawnIInv == ASSUME IInv, Spawn \/ SpawnFails PROVE IInv'
<1> USE DEF Spawn, SpawnFails, kernelVars, sendVars
<1>1. /\ acc_conn \in Conns /\ fd[acc_conn] # NoFd
      /\ handler \in [Conns -> {"none", "recv", "leave", "close", "orphan"}]
  BY DEF IInv, TypeOK, Held, Holding
<1>2. TypeOK' /\ Held'
  BY <1>1 DEF IInv, TypeOK, Held, Holding
<1>3. \A c \in Conns : Registered(c)' <=> Registered(c)
  BY <1>1 DEF Registered
<1> QED
  BY <1>2, <1>3, KeepTable

-----------------------------------------------------------------------------
(* The handlers.                                                           *)
LEMMA RecvEndsIInv == ASSUME IInv, NEW c \in Conns, RecvEnds(c) PROVE IInv'
<1> USE DEF RecvEnds, acceptVars, sendVars
<1>1. handler \in [Conns -> {"none", "recv", "leave", "close", "orphan"}]
  BY DEF IInv, TypeOK
<1>2. conn' \in [Conns -> {"none", "up", "fin", "reset", "broken"}]
  BY DEF IInv, TypeOK
<1>3. TypeOK'
  BY <1>1, <1>2 DEF IInv, TypeOK
<1>4. Held'
  BY <1>1 DEF IInv, Held, Holding
<1>5. \A d \in Conns : Registered(d)' <=> Registered(d)
  BY <1>1 DEF Registered
<1> QED
  BY <1>3, <1>4, <1>5, KeepTable

(* The handler finds its descriptor, at the only place that has it; the    *)
(* last entry moves there, and all others stay.                            *)
LEMMA UnregisterIInv == ASSUME IInv, NEW c \in Conns, Unregister(c) PROVE IInv'
<1> USE DEF Unregister, acceptVars, kernelVars, sendVars
<1> DEFINE n == client_count
<1>1. client_fds \in Seq(Fds) /\ n \in Nat
  BY LenProperties DEF IInv, TypeOK, client_count
<1>2. \A j, k \in 1..n : client_fds[j] = client_fds[k] => j = k
  BY DEF IInv, TableSound
<1>3. Registered(c) /\ fd[c] # NoFd
  BY DEF IInv, Held, Registered
<1>4. PICK i \in 1..n : client_fds[i] = fd[c]
  BY <1>3 DEF IInv, TableSound
<1>5. client_fds' = SwapRemove(client_fds, i)
  BY <1>1, <1>2, <1>4, TakenOutIsSwapRemove
<1>6. /\ client_fds' \in Seq(Fds)
      /\ client_count' = n - 1
      /\ \A j \in 1..n - 1 :
           client_fds'[j] = IF j = i THEN client_fds[n] ELSE client_fds[j]
  <2>1. i \in 1..Len(client_fds)
    BY DEF client_count
  <2>2. /\ SwapRemove(client_fds, i) \in Seq(Fds)
        /\ Len(SwapRemove(client_fds, i)) = Len(client_fds) - 1
        /\ \A j \in 1..Len(client_fds) - 1 :
             SwapRemove(client_fds, i)[j] =
               IF j = i THEN client_fds[Len(client_fds)] ELSE client_fds[j]
    BY <1>1, <2>1, SwapRemoveProperties
  <2> QED
    BY ONLY <1>5, <2>2 DEF client_count
<1>7. handler' = [handler EXCEPT ![c] = "close"]
      /\ handler \in [Conns -> {"none", "recv", "leave", "close", "orphan"}]
  BY DEF IInv, TypeOK
<1>8. TypeOK'
  BY <1>6, <1>7 DEF IInv, TypeOK
<1>9. \A d \in Conns : Registered(d)' <=> Registered(d) /\ d # c
  BY <1>7 DEF IInv, Held, Holding, Registered
<1>10. TableSound'
  <2> HIDE DEF n
  <2>1. \A j, k \in 1..n - 1 : client_fds'[j] = client_fds'[k] => j = k
    BY <1>1, <1>2, <1>4, <1>6
  <2>2. ASSUME NEW j \in 1..n - 1
        PROVE  \E d \in Conns : fd[d] = client_fds'[j] /\ Registered(d)'
    <3> DEFINE k == IF j = i THEN n ELSE j
    <3>1. k \in 1..n /\ k # i /\ client_fds'[j] = client_fds[k]
      BY <1>1, <1>4, <1>6
    <3> HIDE DEF k
    <3>2. PICK d \in Conns : fd[d] = client_fds[k] /\ Registered(d)
      BY <3>1 DEF IInv, TableSound, n
    <3>3. d # c
      BY <1>2, <1>4, <3>1, <3>2
    <3> QED
      BY <1>9, <3>1, <3>2, <3>3
  <2>3. ASSUME NEW d \in Conns, Registered(d)'
        PROVE  \E j \in 1..n - 1 : client_fds'[j] = fd[d]
    <3>1. Registered(d) /\ d # c
      BY <1>9, <2>3
    <3>2. PICK k \in 1..n : client_fds[k] = fd[d]
      BY <3>1 DEF IInv, TableSound, n
    <3>3. k # i
      BY <1>3, <1>4, <3>1, <3>2 DEF IInv, FdsDistinct
    <3>4. CASE k = n
      BY <1>1, <1>4, <1>6, <3>2, <3>3, <3>4
    <3>5. CASE k # n
      BY <1>1, <1>4, <1>6, <3>2, <3>3, <3>5
    <3> QED
      BY <3>4, <3>5
  <2> QED
    BY <1>6, <2>1, <2>2, <2>3 DEF TableSound
<1>11. TableBounded'
  BY <1>1, <1>6, TcpServerAssumption DEF IInv, TableBounded
<1>12. FdsDistinct' /\ Held'
  BY <1>3, <1>7 DEF IInv, FdsDistinct, Held, Holding
<1> QED
  BY <1>8, <1>10, <1>11, <1>12 DEF IInv

LEMMA HandlerClosesIInv ==
  ASSUME IInv, NEW c \in Conns, HandlerCloses(c) PROVE IInv'
<1> USE DEF HandlerCloses, acceptVars, sendVars
<1>1. handler \in [Conns -> {"none", "recv", "leave", "close", "orphan"}]
  BY DEF IInv, TypeOK
<1>2. ~(Holding /\ acc_conn = c)
  BY DEF IInv, Held
<1>3. ~Registered(c)
  BY <1>2 DEF Registered, Holding
<1>4. \A d \in Conns : Registered(d)' <=> Registered(d)
  BY <1>1 DEF Registered
<1>5. TypeOK'
  BY <1>1, CloseType DEF IInv, TypeOK
<1>6. Held'
  BY <1>1, <1>2 DEF IInv, TypeOK, Held, Holding, CloseFd
<1> QED
  BY <1>3, <1>4, <1>5, <1>6, CloseKeepsTable DEF IInv

-----------------------------------------------------------------------------
(* tcp_server_send, the peers and the restart.                             *)

(* These leave the table, the descriptors and the threads alone.           *)
LEMMA ElsewhereIInv ==
  ASSUME IInv, TypeOK', UNCHANGED <<client_fds, fd, handler, acceptVars>>
  PROVE  IInv'
<1>1. Held'
  BY DEF IInv, Held, Holding, acceptVars
<1>2. \A c \in Conns : Registered(c)' <=> Registered(c)
  BY DEF Registered, acceptVars
<1> QED
  BY <1>1, <1>2, KeepTable

LEMMA SendCallIInv ==
  ASSUME IInv, NEW data \in Seq(Nat), SendCall(data) PROVE IInv'
<1> USE DEF SendCall, acceptVars, kernelVars
<1>1. wire' \in Seq(Nat)
  BY ConcatProperties DEF IInv, TypeOK
<1>2. TypeOK'
  BY <1>1 DEF IInv, TypeOK
<1> QED
  BY <1>2, ElsewhereIInv

LEMMA SendLockIInv == ASSUME IInv, SendLock PROVE IInv'
<1> USE DEF SendLock, acceptVars, kernelVars
<1>1. TypeOK'
  BY DEF IInv, TypeOK
<1> QED
  BY <1>1, ElsewhereIInv

(* A send that does not block finds room in the kernel's buffer.           *)
LEMMA SendOkIInv == ASSUME IInv, NEW c \in Conns, SendOk(c) PROVE IInv'
<1> USE DEF SendOk, acceptVars
<1>1. /\ got \in [Conns -> Seq(Nat)] /\ send_data \in Seq(Nat)
      /\ unread \in [Conns -> 0..SendCapacity] /\ SendCapacity \in Nat
      /\ send_i \in Nat
  BY TcpServerAssumption DEF IInv, TypeOK
<1>2. got[c] \o send_data \in Seq(Nat)
  BY <1>1, ConcatProperties
<1>3. got' \in [Conns -> Seq(Nat)]
  BY <1>1, <1>2
<1>4. send_data # <<>> => unread[c] + 1 \in 0..SendCapacity
  BY <1>1 DEF Blocks
<1>5. unread' \in [Conns -> 0..SendCapacity] /\ send_i' \in Nat
  BY <1>1, <1>4
<1>6. TypeOK'
  BY <1>3, <1>5 DEF IInv, TypeOK
<1> QED
  BY <1>6, ElsewhereIInv

LEMMA SendFailsIInv == ASSUME IInv, NEW c \in Conns, SendFails(c) PROVE IInv'
<1> USE DEF SendFails, acceptVars
<1>1. conn' \in [Conns -> {"none", "up", "fin", "reset", "broken"}]
  BY DEF IInv, TypeOK
<1>2. send_i' \in Nat
  BY DEF IInv, TypeOK
<1>3. TypeOK'
  BY <1>1, <1>2 DEF IInv, TypeOK
<1> QED
  BY <1>3, ElsewhereIInv

LEMMA SendReturnIInv == ASSUME IInv, SendReturn PROVE IInv'
<1> USE DEF SendReturn, acceptVars, kernelVars
<1>1. TypeOK'
  BY DEF IInv, TypeOK
<1> QED
  BY <1>1, ElsewhereIInv

LEMMA PeerIInv == ASSUME IInv, NEW c \in Conns, Peer(c) PROVE IInv'
<1> USE DEF Peer, PeerConnects, PeerCloses, PeerResets, PeerReads, acceptVars,
            sendVars
<1>1. /\ conn \in [Conns -> {"none", "up", "fin", "reset", "broken"}]
      /\ unread \in [Conns -> 0..SendCapacity] /\ SendCapacity \in Nat
  BY TcpServerAssumption DEF IInv, TypeOK
<1>2. conn' \in [Conns -> {"none", "up", "fin", "reset", "broken"}]
  BY <1>1
<1>3. unread' \in [Conns -> 0..SendCapacity]
  BY <1>1
<1>4. UNCHANGED <<client_fds, client_mutex, acceptor, acc_conn, handler,
                  fd, got, send_pc, send_i, send_data, wire>>
  OBVIOUS
<1>5. TypeOK'
  BY <1>2, <1>3, <1>4 DEF IInv, TypeOK
<1> QED
  BY <1>4, <1>5, ElsewhereIInv

(* The state of a process that has just started.                           *)
LEMMA InitIInv == Init => IInv
<1> SUFFICES ASSUME Init PROVE IInv
  OBVIOUS
<1>1. <<>> \in Seq(Nat) /\ <<>> \in Seq(Fds) /\ Len(<<>>) = 0
  BY EmptySeq
<1>2. TypeOK
  BY <1>1, TcpServerAssumption DEF Init, TypeOK
<1>3. FdsDistinct /\ Held
  BY DEF Init, FdsDistinct, Held, Holding
<1>4. \A c \in Conns : ~Registered(c)
  BY DEF Init, Registered
<1>5. TableSound /\ TableBounded
  BY <1>1, <1>4, TcpServerAssumption
  DEF Init, TableSound, TableBounded, client_count
<1> QED
  BY <1>2, <1>3, <1>5 DEF IInv

LEMMA RestartIInv == ASSUME IInv, Restart PROVE IInv'
<1> USE DEF Restart
<1>1. <<>> \in Seq(Nat) /\ <<>> \in Seq(Fds) /\ Len(<<>>) = 0
  BY EmptySeq
<1>2. TypeOK'
  BY <1>1, TcpServerAssumption DEF TypeOK
<1>3. FdsDistinct' /\ Held'
  BY DEF FdsDistinct, Held, Holding
<1>4. \A c \in Conns : ~Registered(c)'
  BY DEF Registered
<1>5. TableSound' /\ TableBounded'
  BY <1>1, <1>4, TcpServerAssumption DEF TableSound, TableBounded, client_count
<1> QED
  BY <1>2, <1>3, <1>5 DEF IInv

-----------------------------------------------------------------------------
LEMMA AcceptThreadIInv == ASSUME IInv, AcceptThread PROVE IInv'
BY ListenIInv, RegisterIInv, TableFullIInv, RejectIInv, SpawnIInv, AcceptIInv
DEF AcceptThread

LEMMA SendStepIInv == ASSUME IInv, SendStep PROVE IInv'
BY SendLockIInv, SendReturnIInv, SendOkIInv, SendFailsIInv
DEF SendStep

LEMMA HandlerIInv == ASSUME IInv, NEW c \in Conns, Handler(c) PROVE IInv'
BY RecvEndsIInv, UnregisterIInv, HandlerClosesIInv DEF Handler

LEMMA NextCallIInv == ASSUME IInv, NextCall PROVE IInv'
<1>1. <<>> \in Seq(Nat) /\ <<Len(wire) + 1>> \in Seq(Nat)
  BY LenProperties DEF IInv, TypeOK
<1> QED
  BY <1>1, SendCallIInv DEF NextCall

LEMMA StepIInv == ASSUME IInv, [Next]_serverVars PROVE IInv'
<1>1. CASE AcceptThread
  BY <1>1, AcceptThreadIInv
<1>2. CASE SendStep
  BY <1>2, SendStepIInv
<1>3. CASE \E c \in Conns : Handler(c) \/ Peer(c)
  BY <1>3, HandlerIInv, PeerIInv
<1>4. CASE NextCall
  BY <1>4, NextCallIInv
<1>5. CASE Restart
  BY <1>5, RestartIInv
<1>6. CASE UNCHANGED serverVars
  BY <1>6
  DEF serverVars, IInv, TypeOK, FdsDistinct, Held, Holding, TableSound,
      TableBounded, client_count, Registered
<1> QED
  BY <1>1, <1>2, <1>3, <1>4, <1>5, <1>6 DEF Next, ServerStep

(* The invariant holds in each state of TcpServer.                         *)
THEOREM Invariance == Spec => []IInv
<1>1. Init => IInv
  BY InitIInv
<1>2. IInv /\ [Next]_serverVars => IInv'
  BY StepIInv
<1> QED
  BY <1>1, <1>2, PTL DEF Spec

(* Every variable of the server keeps its type, whatever the number of     *)
(* clients and the length of the table; send_i stays a number and unread   *)
(* within what the kernel holds.                                           *)
THEOREM TypeCorrect == Spec => []TypeOK
<1>1. IInv => TypeOK
  BY DEF IInv
<1> QED
  BY <1>1, Invariance, PTL

(* client_fds is exactly the set of the registered connections'            *)
(* descriptors, each once: tcp_server_send never uses a descriptor that a  *)
(* handler has closed, and misses no client.                               *)
THEOREM TableCorrect == Spec => []TableSound
<1>1. IInv => TableSound
  BY DEF IInv
<1> QED
  BY <1>1, Invariance, PTL

(* The accept thread never writes past the end of client_fds.              *)
THEOREM TableLimit == Spec => []TableBounded
<1>1. IInv => TableBounded
  BY DEF IInv
<1> QED
  BY <1>1, Invariance, PTL

-----------------------------------------------------------------------------
(* The refinement.                                                         *)

(* The loop of tcp_server_send runs with the mutex held.                   *)
Locked ==
  send_pc = "loop" => client_mutex = "sender" /\ send_i >= 1

(* Nothing is sent to a connection before it is in the table.              *)
Fresh ==
  \A c \in Conns :
    handler[c] = "none" /\ ~(acceptor = "spawn" /\ acc_conn = c)
      => got[c] = <<>>

(* A descriptor stands for a connection.                                   *)
Connected == \A c \in Conns : fd[c] # NoFd => conn[c] # "none"

JInv == IInv /\ Locked /\ Fresh /\ Connected

-----------------------------------------------------------------------------
(* A registered connection has a descriptor and a state.                   *)
LEMMA RegisteredOpen ==
  ASSUME JInv, NEW c \in Conns, Registered(c)
  PROVE  fd[c] # NoFd /\ conn[c] # "none"
BY DEF JInv, IInv, Held, Holding, Registered, Connected

(* The connection that the loop is at is registered.                       *)
LEMMA SendingToRegistered ==
  ASSUME JInv, NEW c \in Conns, SendingTo(c)
  PROVE  /\ Registered(c)
         /\ send_i \in 1..client_count
         /\ client_fds[send_i] = fd[c]
<1>1. client_count \in Nat /\ send_i \in Nat
  BY LenProperties DEF JInv, IInv, TypeOK, client_count
<1>2. send_i \in 1..client_count /\ client_fds[send_i] = fd[c]
  BY <1>1 DEF JInv, Locked, SendingTo
<1>3. PICK d \in Conns : fd[d] = client_fds[send_i] /\ Registered(d)
  BY <1>2 DEF JInv, IInv, TableSound
<1>4. fd[d] # NoFd
  BY <1>3, RegisteredOpen
<1>5. d = c
  BY <1>2, <1>3, <1>4 DEF JInv, IInv, FdsDistinct
<1> QED
  BY <1>2, <1>3, <1>5

-----------------------------------------------------------------------------
(* JInv is inductive.                                                      *)
LEMMA InitJInv == Init => JInv
<1> SUFFICES ASSUME Init PROVE JInv
  OBVIOUS
<1>1. IInv
  BY InitIInv
<1>2. Locked /\ Fresh /\ Connected
  BY DEF Init, Locked, Fresh, Connected
<1> QED
  BY <1>1, <1>2 DEF JInv

LEMMA AcceptThreadJInv ==
  ASSUME JInv, AcceptThread PROVE (Locked /\ Fresh /\ Connected)'
<1> USE DEF JInv, Locked, Fresh, Connected, sendVars, kernelVars
<1>1. /\ fd \in [Conns -> Fds \cup {NoFd}]
      /\ handler \in [Conns -> {"none", "recv", "leave", "close", "orphan"}]
      /\ conn \in [Conns -> {"none", "up", "fin", "reset", "broken"}]
      /\ got \in [Conns -> Seq(Nat)]
      /\ NoFd \notin Fds
  BY TcpServerAssumption DEF IInv, TypeOK
<1>2. CASE Listen \/ ListenFails \/ TableFull
  BY <1>2 DEF Listen, ListenFails, TableFull
<1>3. CASE Register
  BY <1>3 DEF Register
<1>4. CASE Reject
  <2>1. acc_conn \in Conns
    BY <1>4 DEF Reject, IInv, Held, Holding
  <2> QED
    BY <1>1, <1>4, <2>1 DEF Reject, CloseFd
<1>5. CASE Spawn \/ SpawnFails
  <2>1. acc_conn \in Conns
    BY <1>5 DEF Spawn, SpawnFails, IInv, Held, Holding
  <2> QED
    BY <1>1, <1>5, <2>1 DEF Spawn, SpawnFails
<1>6. ASSUME NEW c \in Conns, NEW f \in Fds, Accept(c, f)
      PROVE  (Locked /\ Fresh /\ Connected)'
  BY <1>1, <1>6 DEF Accept
<1> QED
  BY <1>2, <1>3, <1>4, <1>5, <1>6 DEF AcceptThread

LEMMA HandlerJInv ==
  ASSUME JInv, NEW c \in Conns, Handler(c) PROVE (Locked /\ Fresh /\ Connected)'
<1> USE DEF JInv, Locked, Fresh, Connected, sendVars, kernelVars, acceptVars
<1>1. /\ fd \in [Conns -> Fds \cup {NoFd}]
      /\ handler \in [Conns -> {"none", "recv", "leave", "close", "orphan"}]
      /\ conn \in [Conns -> {"none", "up", "fin", "reset", "broken"}]
      /\ got \in [Conns -> Seq(Nat)]
  BY DEF IInv, TypeOK
<1>2. CASE RecvEnds(c)
  BY <1>1, <1>2 DEF RecvEnds
<1>3. CASE Unregister(c)
  BY <1>1, <1>3 DEF Unregister
<1>4. CASE HandlerCloses(c)
  BY <1>1, <1>4 DEF HandlerCloses, CloseFd
<1> QED
  BY <1>2, <1>3, <1>4 DEF Handler

LEMMA SendStepJInv ==
  ASSUME JInv, SendStep PROVE (Locked /\ Fresh /\ Connected)'
<1> USE DEF JInv, Locked, Fresh, Connected, kernelVars, acceptVars, sendVars
<1>1. /\ fd \in [Conns -> Fds \cup {NoFd}]
      /\ conn \in [Conns -> {"none", "up", "fin", "reset", "broken"}]
      /\ got \in [Conns -> Seq(Nat)]
      /\ send_i \in Nat
  BY DEF IInv, TypeOK
<1>2. CASE SendLock \/ SendReturn
  BY <1>2 DEF SendLock, SendReturn
<1>3. ASSUME NEW c \in Conns, SendOk(c) PROVE (Locked /\ Fresh /\ Connected)'
  <2>1. Registered(c) /\ send_pc = "loop"
    BY <1>3, SendingToRegistered DEF SendOk, SendingTo
  <2>2. Fresh'
    BY <1>1, <1>3, <2>1 DEF SendOk, Registered
  <2>3. (Locked /\ Connected)'
    BY <1>1, <1>3, <2>1 DEF SendOk
  <2> QED
    BY <2>2, <2>3
<1>4. ASSUME NEW c \in Conns, SendFails(c) PROVE (Locked /\ Fresh /\ Connected)'
  BY <1>1, <1>4 DEF SendFails, SendingTo
<1> QED
  BY <1>2, <1>3, <1>4 DEF SendStep

LEMMA PeerJInv ==
  ASSUME JInv, NEW c \in Conns, Peer(c) PROVE (Locked /\ Fresh /\ Connected)'
<1> USE DEF JInv, Locked, Fresh, Connected, acceptVars, sendVars
<1>1. conn \in [Conns -> {"none", "up", "fin", "reset", "broken"}]
  BY DEF IInv, TypeOK
<1> QED
  BY <1>1 DEF Peer, PeerConnects, PeerCloses, PeerResets, PeerReads

LEMMA StepJInv == ASSUME JInv, [Next]_serverVars PROVE JInv'
<1>1. IInv'
  BY StepIInv DEF JInv
<1>2. CASE AcceptThread
  BY <1>1, <1>2, AcceptThreadJInv DEF JInv
<1>3. CASE SendStep
  BY <1>1, <1>3, SendStepJInv DEF JInv
<1>4. CASE \E c \in Conns : Handler(c) \/ Peer(c)
  BY <1>1, <1>4, HandlerJInv, PeerJInv DEF JInv
<1>5. CASE NextCall
  BY <1>1, <1>5
  DEF NextCall, SendCall, JInv, Locked, Fresh, Connected, acceptVars, kernelVars
<1>6. CASE Restart
  <2>1. (Locked /\ Fresh /\ Connected)'
    BY <1>6 DEF Restart, Locked, Fresh, Connected
  <2> QED
    BY <1>1, <2>1 DEF JInv
<1>7. CASE UNCHANGED serverVars
  BY <1>1, <1>7 DEF serverVars, JInv, Locked, Fresh, Connected
<1> QED
  BY <1>2, <1>3, <1>4, <1>5, <1>6, <1>7 DEF Next, ServerStep

LEMMA ServerStepJInv == ASSUME JInv, ServerStep PROVE JInv'
BY StepJInv DEF Next

(* A call with any data, and a restart, for a caller that decides on them. *)
LEMMA SendCallJInv ==
  ASSUME JInv, NEW data \in Seq(Nat), SendCall(data) PROVE JInv'
<1>1. IInv'
  BY SendCallIInv DEF JInv
<1> QED
  BY <1>1
  DEF SendCall, JInv, Locked, Fresh, Connected, acceptVars, kernelVars

LEMMA RestartJInv == ASSUME JInv, Restart PROVE JInv'
BY StepJInv DEF Next

(* The invariant that the refinement needs holds in each state.            *)
THEOREM RefinementInvariance == Spec => []JInv
<1>1. Init => JInv
  BY InitJInv
<1>2. JInv /\ [Next]_serverVars => JInv'
  BY StepJInv
<1> QED
  BY <1>1, <1>2, PTL DEF Spec

-----------------------------------------------------------------------------
(* A step that changes no client and none of what the call has to do.      *)
LEMMA Stutters ==
  ASSUME UNCHANGED <<wire, send_data, send_pc>>,
         \A c \in Conns : c \in Members' <=> c \in Members,
         \A c \in Members : (Ahead(c)' <=> Ahead(c)) /\ got'[c] = got[c]
  PROVE  UNCHANGED Cast!castVars
<1>1. Members' = Members
  BY DEF Members
<1>2. Lacks' = Lacks
  BY <1>1 DEF Lacks
<1>3. Given' = Given
  BY <1>1 DEF Given
<1> QED
  BY <1>1, <1>2, <1>3 DEF Cast!castVars

(* A member's connection stands, and its descriptor is in the table.       *)
LEMMA MemberInTable ==
  ASSUME JInv, NEW c \in Members
  PROVE  /\ c \in Conns /\ Registered(c)
         /\ \E i \in 1..client_count : client_fds[i] = fd[c]
BY DEF Members, JInv, IInv, TableSound

LEMMA ListenMaps ==
  ASSUME JInv, Listen \/ ListenFails \/ TableFull
  PROVE  UNCHANGED Cast!castVars
<1> USE DEF Listen, ListenFails, TableFull, kernelVars, sendVars
<1>1. \A c \in Conns : c \in Members' <=> c \in Members
  BY DEF Members, Registered
<1>2. \A c \in Members : (Ahead(c)' <=> Ahead(c)) /\ got'[c] = got[c]
  BY DEF Ahead, client_count
<1> QED
  BY <1>1, <1>2, Stutters

(* The connection is not registered, and no other one's descriptor changes. *)
LEMMA AcceptMaps ==
  ASSUME JInv, NEW c \in Conns, NEW f \in Fds, Accept(c, f)
  PROVE  UNCHANGED Cast!castVars
<1> USE DEF Accept, sendVars
<1>1. ~Registered(c)
  BY RegisteredOpen
<1>2. \A d \in Conns \ {c} : fd'[d] = fd[d]
  BY DEF JInv, IInv, TypeOK
<1>3. \A d \in Conns : d \in Members' <=> d \in Members
  BY DEF Members, Registered
<1>4. \A d \in Members : (Ahead(d)' <=> Ahead(d)) /\ got'[d] = got[d]
  BY <1>1, <1>2 DEF Members, Ahead, client_count
<1> QED
  BY <1>3, <1>4, Stutters

(* The same for one that is closed.                                        *)
LEMMA CloseMaps ==
  ASSUME JInv, NEW c \in Conns, CloseFd(c), ~Registered(c),
         \A d \in Conns : Registered(d)' <=> Registered(d),
         UNCHANGED <<client_fds, sendVars>>
  PROVE  UNCHANGED Cast!castVars
<1> USE DEF CloseFd, sendVars
<1>1. \A d \in Conns \ {c} : /\ fd'[d] = fd[d] /\ conn'[d] = conn[d]
                             /\ got'[d] = got[d]
  BY DEF JInv, IInv, TypeOK
<1>2. \A d \in Conns : d \in Members' <=> d \in Members
  BY <1>1 DEF Members
<1>3. \A d \in Members : (Ahead(d)' <=> Ahead(d)) /\ got'[d] = got[d]
  BY <1>1 DEF Members, Ahead, client_count
<1> QED
  BY <1>2, <1>3, Stutters

LEMMA RejectMaps == ASSUME JInv, Reject PROVE UNCHANGED Cast!castVars
<1> USE DEF Reject
<1>1. acc_conn \in Conns /\ handler[acc_conn] = "none"
  BY DEF JInv, IInv, Held, Holding
<1>2. ~Registered(acc_conn)
  BY <1>1 DEF Registered
<1>3. \A d \in Conns : Registered(d)' <=> Registered(d)
  BY DEF Registered
<1> QED
  BY <1>1, <1>2, <1>3, CloseMaps DEF sendVars

LEMMA SpawnMaps == ASSUME JInv, Spawn \/ SpawnFails PROVE UNCHANGED Cast!castVars
<1> USE DEF Spawn, SpawnFails, kernelVars, sendVars
<1>1. /\ acc_conn \in Conns
      /\ handler \in [Conns -> {"none", "recv", "leave", "close", "orphan"}]
  BY DEF JInv, IInv, TypeOK, Held, Holding
<1>2. \A c \in Conns : c \in Members' <=> c \in Members
  BY <1>1 DEF Members, Registered
<1>3. \A c \in Members : (Ahead(c)' <=> Ahead(c)) /\ got'[c] = got[c]
  BY DEF Ahead, client_count
<1> QED
  BY <1>2, <1>3, Stutters

(* A new entry at the end of the table: one more client if its connection  *)
(* is good.  No loop is under way, so it lacks the data of a call that     *)
(* waits for the mutex and of no other.                                    *)
LEMMA RegisterMaps ==
  ASSUME JInv, Register PROVE [Cast!Next]_(Cast!castVars)
<1> USE DEF Register, kernelVars, sendVars
<1>1. /\ acc_conn \in Conns /\ handler[acc_conn] = "none"
      /\ got[acc_conn] = <<>> /\ ~Registered(acc_conn)
  BY DEF JInv, IInv, Held, Holding, Fresh, Registered
<1>2. \A d \in Conns : Registered(d)' <=> Registered(d) \/ d = acc_conn
  BY <1>1 DEF Registered
<1>3. send_pc \in {"idle", "lock"}
  BY DEF JInv, IInv, TypeOK, Locked
<1>4. \A d \in Conns : Ahead(d) <=> send_pc # "idle"
  BY <1>3 DEF Ahead
<1>5. \A d \in Conns : Ahead(d)' <=> send_pc # "idle"
  BY <1>3 DEF Ahead
<1>6. CASE conn[acc_conn] \in {"up", "fin"}
  <2>1. Members' = Members \cup {acc_conn} /\ acc_conn \notin Members
    BY <1>1, <1>2, <1>6 DEF Members
  <2>2. Lacks' = IF send_pc # "idle" THEN Lacks \cup {acc_conn} ELSE Lacks
    <3>1. Members \subseteq Conns /\ Members' \subseteq Conns
      BY DEF Members
    <3> QED
      BY <1>4, <1>5, <2>1, <3>1 DEF Lacks
  <2>3. Given' = Given
    BY <1>1, <2>1 DEF Given
  <2>4. Cast!Join(acc_conn)
    BY <2>1, <2>2, <2>3 DEF Cast!Join
  <2> QED
    BY <1>1, <2>1, <2>4 DEF Cast!Next
<1>7. CASE conn[acc_conn] \notin {"up", "fin"}
  <2>1. \A c \in Conns : c \in Members' <=> c \in Members
    BY <1>2, <1>7 DEF Members
  <2>2. \A c \in Members : (Ahead(c)' <=> Ahead(c)) /\ got'[c] = got[c]
    BY <1>4, <1>5 DEF Members
  <2> QED
    BY <2>1, <2>2, Stutters
<1> QED
  BY <1>6, <1>7

(* One client less, all others being what they were.                       *)
LEMMA LeaveMaps ==
  ASSUME JInv, NEW c \in Members,
         UNCHANGED <<wire, send_data, send_pc, got>>,
         \A d \in Conns : d \in Members' <=> d \in Members \ {c},
         \A d \in Members \ {c} : Ahead(d)' <=> Ahead(d)
  PROVE  Cast!Next
<1>1. Members' = Members \ {c}
  BY DEF Members
<1>2. Lacks' = Lacks \ {c}
  BY <1>1 DEF Lacks
<1>3. Given' = [Given EXCEPT ![c] = <<>>]
  BY <1>1 DEF Given
<1>4. Cast!Leave(c)
  BY <1>1, <1>2, <1>3 DEF Cast!Leave
<1> QED
  BY <1>4 DEF Cast!Next

LEMMA HandlerMaps ==
  ASSUME JInv, NEW c \in Conns, Handler(c) PROVE [Cast!Next]_(Cast!castVars)
<1> USE DEF acceptVars, kernelVars, sendVars
<1>1. /\ handler \in [Conns -> {"none", "recv", "leave", "close", "orphan"}]
      /\ conn \in [Conns -> {"none", "up", "fin", "reset", "broken"}]
  BY DEF JInv, IInv, TypeOK
<1>2. CASE RecvEnds(c)
  <2>1. \A d \in Conns : Registered(d)' <=> Registered(d)
    BY <1>1, <1>2 DEF RecvEnds, Registered
  <2>2. \A d \in Conns : conn'[d] \in {"up", "fin"} <=> conn[d] \in {"up", "fin"}
    BY <1>1, <1>2 DEF RecvEnds
  <2>3. \A d \in Conns : d \in Members' <=> d \in Members
    BY <2>1, <2>2 DEF Members
  <2>4. \A d \in Members : (Ahead(d)' <=> Ahead(d)) /\ got'[d] = got[d]
    BY <1>2 DEF RecvEnds, Ahead, client_count
  <2>5. UNCHANGED <<wire, send_data, send_pc>>
    BY <1>2 DEF RecvEnds
  <2> QED
    BY <2>3, <2>4, <2>5, Stutters
<1>3. CASE Unregister(c)
  <2> USE <1>3 DEF Unregister
  <2>1. \A d \in Conns : Registered(d)' <=> Registered(d) /\ d # c
    BY <1>1 DEF JInv, IInv, Held, Holding, Registered
  <2>2. send_pc \in {"idle", "lock"}
    BY DEF JInv, IInv, TypeOK, Locked
  <2>3. \A d \in Conns : Ahead(d)' <=> Ahead(d)
    BY <2>2 DEF Ahead
  <2>4. \A d \in Conns : d \in Members' <=> d \in Members \ {c}
    BY <2>1 DEF Members
  <2>5. CASE c \in Members
    BY <2>3, <2>4, <2>5, LeaveMaps DEF Members
  <2>6. CASE c \notin Members
    <3>1. \A d \in Members : (Ahead(d)' <=> Ahead(d)) /\ got'[d] = got[d]
      BY <2>3 DEF Members
    <3> QED
      BY <2>4, <2>6, <3>1, Stutters
  <2> QED
    BY <2>5, <2>6
<1>4. CASE HandlerCloses(c)
  <2>1. ~(Holding /\ acc_conn = c)
    BY <1>4 DEF HandlerCloses, JInv, IInv, Held
  <2>2. ~Registered(c)
    BY <1>4, <2>1 DEF HandlerCloses, Registered, Holding
  <2>3. \A d \in Conns : Registered(d)' <=> Registered(d)
    BY <1>1, <1>4 DEF HandlerCloses, Registered
  <2> QED
    BY <1>4, <2>2, <2>3, CloseMaps DEF HandlerCloses
<1> QED
  BY <1>2, <1>3, <1>4 DEF Handler

LEMMA PeerMaps ==
  ASSUME JInv, NEW c \in Conns, Peer(c) PROVE [Cast!Next]_(Cast!castVars)
<1> USE DEF acceptVars, sendVars
<1>1. /\ conn \in [Conns -> {"none", "up", "fin", "reset", "broken"}]
  BY DEF JInv, IInv, TypeOK
<1>2. /\ \A d \in Conns : Registered(d)' <=> Registered(d)
      /\ \A d \in Conns : Ahead(d)' <=> Ahead(d)
      /\ UNCHANGED <<wire, send_data, send_pc, got>>
  BY DEF Peer, PeerConnects, PeerCloses, PeerResets, PeerReads, Registered,
         Ahead, client_count
<1>3. CASE PeerConnects(c)
  <2>1. ~Registered(c)
    BY <1>3, RegisteredOpen DEF PeerConnects
  <2>2. \A d \in Conns : d \in Members' <=> d \in Members
    BY <1>1, <1>2, <1>3, <2>1 DEF PeerConnects, Members
  <2> QED
    BY <1>2, <2>2, Stutters DEF Members
<1>4. CASE PeerCloses(c) \/ PeerReads(c)
  <2>1. \A d \in Conns : d \in Members' <=> d \in Members
    BY <1>1, <1>2, <1>4 DEF PeerCloses, PeerReads, Members
  <2> QED
    BY <1>2, <2>1, Stutters DEF Members
<1>5. CASE PeerResets(c)
  <2>1. \A d \in Conns : d \in Members' <=> d \in Members \ {c}
    BY <1>1, <1>2, <1>5 DEF PeerResets, Members
  <2>2. CASE c \in Members
    BY <1>2, <2>1, <2>2, LeaveMaps DEF Members
  <2>3. CASE c \notin Members
    BY <1>2, <2>1, <2>3, Stutters DEF Members
  <2> QED
    BY <2>2, <2>3
<1> QED
  BY <1>3, <1>4, <1>5 DEF Peer

-----------------------------------------------------------------------------
(* tcp_server_send.                                                        *)

(* A call begins: every client lacks its data.                             *)
LEMMA SendCallMaps ==
  ASSUME JInv, NEW data \in Seq(Nat), SendCall(data) PROVE Cast!Next
<1> USE DEF SendCall, acceptVars, kernelVars
<1>1. Members' = Members
  BY DEF Members, Registered
<1>2. Lacks' = Members
  BY <1>1 DEF Lacks, Ahead
<1>3. Given' = Given
  BY <1>1 DEF Given
<1>4. Cast!Offer
  BY <1>1, <1>2, <1>3 DEF Cast!Offer
<1> QED
  BY <1>4 DEF Cast!Next

(* The loop starts at the first entry: it has every client ahead of it.    *)
LEMMA SendLockMaps == ASSUME JInv, SendLock PROVE UNCHANGED Cast!castVars
<1> USE DEF SendLock, acceptVars, kernelVars
<1>1. Members' = Members
  BY DEF Members, Registered
<1>2. Lacks = Members
  BY DEF Lacks, Ahead
<1>3. \A c \in Members : Ahead(c)'
  BY MemberInTable DEF Ahead, client_count
<1>4. Lacks' = Members
  BY <1>1, <1>3 DEF Lacks
<1>5. Given' = Given
  BY <1>1 DEF Given
<1> QED
  BY <1>1, <1>2, <1>4, <1>5 DEF Cast!castVars, sendVars

(* The loop moves on from c: it still has those ahead that it had, but c.  *)
LEMMA MovesOn ==
  ASSUME JInv, NEW c \in Conns, SendingTo(c), send_i' = send_i + 1,
         UNCHANGED <<client_fds, fd, send_pc>>, NEW d \in Conns
  PROVE  Ahead(d)' <=> Ahead(d) /\ d # c
<1>1. /\ send_i \in 1..client_count /\ client_count \in Nat
      /\ client_fds[send_i] = fd[c] /\ Registered(c)
  BY SendingToRegistered, LenProperties DEF JInv, IInv, TypeOK, client_count
<1>2. Ahead(d) <=> \E i \in send_i..client_count : client_fds[i] = fd[d]
  BY DEF Ahead, SendingTo
<1>3. Ahead(d)' <=> \E i \in send_i + 1..client_count : client_fds[i] = fd[d]
  BY DEF Ahead, SendingTo, client_count
<1>4. \A i, j \in 1..client_count : client_fds[i] = client_fds[j] => i = j
  BY DEF JInv, IInv, TableSound
<1>5. CASE d = c
  <2>1. \A i \in send_i + 1..client_count : client_fds[i] # fd[c]
    BY <1>1, <1>4
  <2> QED
    BY <1>3, <1>5, <2>1
<1>6. CASE d # c
  <2>1. fd[c] # fd[d]
    BY <1>1, <1>6, RegisteredOpen DEF JInv, IInv, FdsDistinct
  <2>2. ASSUME NEW i \in send_i..client_count, client_fds[i] = fd[d]
        PROVE  i \in send_i + 1..client_count
    BY <1>1, <2>1, <2>2
  <2>3. ASSUME NEW i \in send_i + 1..client_count
        PROVE  i \in send_i..client_count
    BY <1>1
  <2> QED
    BY <1>2, <1>3, <1>6, <2>2, <2>3
<1> QED
  BY <1>5, <1>6

LEMMA SendOkMaps == ASSUME JInv, NEW c \in Conns, SendOk(c) PROVE Cast!Next
<1> USE DEF SendOk, acceptVars
<1>1. /\ c \in Members /\ Members' = Members
  BY SendingToRegistered DEF Members, Registered
<1>2. \A d \in Conns : Ahead(d)' <=> Ahead(d) /\ d # c
  BY MovesOn
<1>3. Ahead(c)
  <2>1. /\ send_i \in 1..client_count /\ client_count \in Nat
        /\ client_fds[send_i] = fd[c]
    BY SendingToRegistered, LenProperties DEF JInv, IInv, TypeOK, client_count
  <2>2. send_i \in send_i..client_count
    BY <2>1
  <2> QED
    BY <2>1, <2>2 DEF Ahead, SendingTo
<1>4. c \in Lacks /\ Lacks' = Lacks \ {c}
  <2>1. Members \subseteq Conns
    BY DEF Members
  <2> QED
    BY <1>1, <1>2, <1>3, <2>1 DEF Lacks
<1>5. Given' = [Given EXCEPT ![c] = @ \o send_data]
  <2>1. got \in [Conns -> Seq(Nat)]
    BY DEF JInv, IInv, TypeOK
  <2> QED
    BY <1>1, <2>1 DEF Given
<1>6. Cast!Deliver(c)
  BY <1>1, <1>4, <1>5 DEF Cast!Deliver
<1> QED
  BY <1>4, <1>6 DEF Cast!Next

(* The connection that fails is no client any more.                        *)
LEMMA SendFailsMaps ==
  ASSUME JInv, NEW c \in Conns, SendFails(c) PROVE UNCHANGED Cast!castVars
<1> USE DEF SendFails, acceptVars
<1>1. \A d \in Conns : d \in Members' <=> d \in Members
  BY DEF JInv, IInv, TypeOK, Members, Registered
<1>2. c \notin Members
  BY DEF Members
<1>3. \A d \in Members : (Ahead(d)' <=> Ahead(d)) /\ got'[d] = got[d]
  BY <1>2, MovesOn DEF Members
<1> QED
  BY <1>1, <1>3, Stutters

(* The loop is over: nobody lacks anything.                                *)
LEMMA SendReturnMaps == ASSUME JInv, SendReturn PROVE Cast!Next
<1> USE DEF SendReturn, acceptVars, kernelVars
<1>1. Members' = Members
  BY DEF Members, Registered
<1>2. client_count \in Nat /\ send_i \in Nat
  BY LenProperties DEF JInv, IInv, TypeOK, client_count
<1>3. Lacks = {}
  BY <1>2 DEF Lacks, Ahead
<1>4. Lacks' = {}
  BY DEF Lacks, Ahead
<1>5. Given' = Given
  BY <1>1 DEF Given
<1>6. Cast!Done
  BY <1>1, <1>3, <1>4, <1>5 DEF Cast!Done
<1> QED
  BY <1>6 DEF Cast!Next

-----------------------------------------------------------------------------
(* Neither is there a client when the process starts.                      *)
LEMMA InitMaps == Init => Cast!Init
<1> SUFFICES ASSUME Init PROVE Cast!Init
  OBVIOUS
<1>1. Members = {}
  BY DEF Init, Members, Registered
<1>2. Lacks = {} /\ Given = [c \in Conns |-> <<>>]
  BY <1>1 DEF Lacks, Given
<1> QED
  BY <1>1, <1>2 DEF Init, Cast!Init

LEMMA RestartMaps == ASSUME Restart PROVE Cast!Next
<1>1. Members' = {}
  BY DEF Restart, Members, Registered
<1>2. Lacks' = {} /\ Given' = [c \in Conns |-> <<>>]
  BY <1>1 DEF Lacks, Given
<1>3. Cast!Reset
  BY <1>1, <1>2 DEF Restart, Cast!Reset
<1> QED
  BY <1>3 DEF Cast!Next

LEMMA StepMaps ==
  ASSUME JInv, [Next]_serverVars PROVE [Cast!Next]_(Cast!castVars)
<1>1. CASE AcceptThread
  BY <1>1, ListenMaps, AcceptMaps, RegisterMaps, RejectMaps, SpawnMaps
  DEF AcceptThread
<1>2. CASE SendStep
  BY <1>2, SendLockMaps, SendReturnMaps, SendOkMaps, SendFailsMaps
  DEF SendStep
<1>3. CASE \E c \in Conns : Handler(c) \/ Peer(c)
  BY <1>3, HandlerMaps, PeerMaps
<1>4. CASE NextCall
  <2>1. <<>> \in Seq(Nat) /\ <<Len(wire) + 1>> \in Seq(Nat)
    BY LenProperties DEF JInv, IInv, TypeOK
  <2> QED
    BY <1>4, <2>1, SendCallMaps DEF NextCall
<1>5. CASE Restart
  BY <1>5, RestartMaps
<1>6. CASE UNCHANGED serverVars
  <2>1. \A d \in Conns : d \in Members' <=> d \in Members
    BY <1>6 DEF serverVars, Members, Registered
  <2>2. \A d \in Members : (Ahead(d)' <=> Ahead(d)) /\ got'[d] = got[d]
    BY <1>6 DEF serverVars, Ahead, client_count
  <2> QED
    BY <1>6, <2>1, <2>2, Stutters DEF serverVars
<1> QED
  BY <1>1, <1>2, <1>3, <1>4, <1>5, <1>6 DEF Next, ServerStep

LEMMA ServerStepMaps ==
  ASSUME JInv, ServerStep PROVE [Cast!Next]_(Cast!castVars)
BY StepMaps DEF Next

(* Every behaviour of the server is one of the abstract multicast: with    *)
(* any number of clients that come and go in any order, each one gets      *)
(* every piece of the stream from its registration on, once, and a call    *)
(* returns only when all of them have its data.                            *)
THEOREM Refinement == Spec => ImplementsMulticast
<1>1. Init => Cast!Init
  BY InitMaps
<1>2. JInv /\ [Next]_serverVars => [Cast!Next]_(Cast!castVars)
  BY StepMaps
<1> QED
  BY <1>1, <1>2, RefinementInvariance, PTL
  DEF Spec, ImplementsMulticast, Cast!CastSpec

-----------------------------------------------------------------------------
(* What follows from Multicast for its clients, whatever the steps of the  *)
(* server behind them are.                                                 *)
CastTypes ==
  /\ wire \in Seq(Nat)
  /\ send_data \in Seq(Nat)
  /\ Members \subseteq Conns
  /\ Lacks \subseteq Members
  /\ Given \in [Conns -> Seq(Nat)]

(* Nobody lacks anything between two pieces; one who has not joined has    *)
(* been given nothing; and the last piece is the end of the stream.        *)
CastOrder ==
  /\ send_pc = "idle" => Lacks = {}
  /\ \A c \in Conns \ Members : Given[c] = <<>>
  /\ Cast!EndsWith(wire, send_data)

CInv == CastTypes /\ CastOrder /\ CaughtUp

-----------------------------------------------------------------------------
LEMMA EndsWithConcat ==
  ASSUME NEW p \in Seq(Nat), NEW t \in Seq(Nat)
  PROVE  Cast!EndsWith(p \o t, t)
<1> DEFINE s == p \o t
<1>1. /\ Len(p) \in Nat /\ Len(t) \in Nat
      /\ s \in Seq(Nat) /\ Len(s) = Len(p) + Len(t)
      /\ \A i \in 1..Len(p) : s[i] = p[i]
  BY ConcatProperties, LenProperties
<1> HIDE DEF s
<1>2. \A i \in 1..Len(p) : s[i] \in Nat
  BY <1>1, ElementOfSeq
<1>3. /\ SubSeq(s, 1, Len(p)) \in Seq(Nat)
      /\ Len(SubSeq(s, 1, Len(p))) = Len(p)
      /\ \A i \in 1..Len(p) : SubSeq(s, 1, Len(p))[i] = s[i]
  BY <1>1, <1>2, SubSeqProperties
<1>4. SubSeq(s, 1, Len(p)) = p
  BY <1>1, <1>3, SeqEqual
<1>5. Len(p) \in 0..Len(s)
  BY <1>1
<1> QED
  BY <1>4, <1>5 DEF Cast!EndsWith, s

(* A piece put at the end of both.                                         *)
LEMMA EndsWithAppended ==
  ASSUME NEW s \in Seq(Nat), NEW t \in Seq(Nat), NEW u \in Seq(Nat),
         Cast!EndsWith(s, t)
  PROVE  Cast!EndsWith(s \o u, t \o u)
<1>1. PICK n \in 0..Len(s) : s = SubSeq(s, 1, n) \o t
  BY DEF Cast!EndsWith
<1> DEFINE p == SubSeq(s, 1, n)
<1>2. p \in Seq(Nat)
  <2>1. Len(s) \in Nat /\ n \in Nat /\ \A i \in 1..n : s[i] \in Nat
    BY LenProperties, ElementOfSeq
  <2> QED
    BY <2>1, SubSeqProperties
<1>3. s = p \o t
  BY <1>1
<1> HIDE DEF p
<1>4. s \o u = p \o (t \o u) /\ t \o u \in Seq(Nat)
  <2>1. (p \o t) \o u = p \o (t \o u)
    BY <1>2, ConcatAssociative, SMTT(30)
  <2>2. t \o u \in Seq(Nat)
    BY ConcatProperties
  <2> QED
    BY <1>3, <2>1, <2>2
<1> QED
  BY <1>2, <1>4, EndsWithConcat

LEMMA EndsWithNothing == ASSUME NEW s \in Seq(Nat) PROVE Cast!EndsWith(s, <<>>)
BY EmptySeq, ConcatEmptySeq, EndsWithConcat

-----------------------------------------------------------------------------
LEMMA EmptyCInv ==
  ASSUME wire = <<>>, send_data = <<>>, send_pc = "idle", Members = {}, Lacks = {},
         Given = [c \in Conns |-> <<>>]
  PROVE  CInv
<1>1. <<>> \in Seq(Nat)
  BY EmptySeq
<1>2. Cast!EndsWith(<<>>, <<>>)
  BY <1>1, EndsWithNothing
<1> QED
  BY <1>1, <1>2 DEF CInv, CastTypes, CastOrder, CaughtUp, Cast!Gapless

LEMMA OfferCInv == ASSUME CInv, Cast!Offer PROVE CInv'
<1> USE DEF Cast!Offer, CInv, CastTypes, CastOrder
<1>1. wire' \in Seq(Nat) /\ Cast!EndsWith(wire', send_data')
  BY ConcatProperties, EndsWithConcat
<1>2. CastTypes' /\ CastOrder'
  BY <1>1
<1>3. ASSUME NEW c \in Members' PROVE Cast!EndsWith(wire, Cast!Due(c))'
  <2>1. c \in Conns /\ Cast!Due(c) = Given[c] /\ Cast!Due(c)' = Given[c] \o send_data'
    BY <1>3 DEF Cast!Due
  <2>2. Cast!EndsWith(wire, Given[c])
    BY <1>3, <2>1 DEF CaughtUp, Cast!Gapless
  <2>3. Cast!EndsWith(wire \o send_data', Given[c] \o send_data')
    BY <2>1, <2>2, EndsWithAppended
  <2> QED
    BY <2>1, <2>3 DEF Cast!EndsWith
<1> QED
  BY <1>2, <1>3 DEF CaughtUp, Cast!Gapless

(* Who joins in a call owes it its piece, and else has the empty end.      *)
LEMMA JoinCInv == ASSUME CInv, NEW c \in Conns \ Members, Cast!Join(c) PROVE CInv'
<1> USE DEF Cast!Join, CInv, CastTypes, CastOrder
<1>1. CastTypes'
  OBVIOUS
<1>2. CastOrder'
  BY DEF Cast!EndsWith
<1>3. Cast!EndsWith(wire, Cast!Due(c))'
  <2>1. Given[c] = <<>> /\ c \notin Lacks
    OBVIOUS
  <2>2. CASE send_pc # "idle"
    <3>1. Cast!Due(c)' = <<>> \o send_data
      BY <2>1, <2>2 DEF Cast!Due
    <3>2. Cast!Due(c)' = send_data
      BY <3>1, ConcatEmptySeq
    <3> QED
      BY <3>2 DEF Cast!EndsWith
  <2>3. CASE send_pc = "idle"
    <3>1. Cast!Due(c)' = <<>>
      BY <2>1, <2>3 DEF Cast!Due
    <3> QED
      BY <3>1, EndsWithNothing DEF Cast!EndsWith
  <2> QED
    BY <2>2, <2>3
<1>4. ASSUME NEW d \in Members PROVE Cast!EndsWith(wire, Cast!Due(d))'
  <2>1. Cast!Due(d)' = Cast!Due(d)
    BY <1>4 DEF Cast!Due
  <2> QED
    BY <2>1, <1>4 DEF CaughtUp, Cast!Gapless, Cast!EndsWith
<1> QED
  BY <1>1, <1>2, <1>3, <1>4 DEF CaughtUp, Cast!Gapless

LEMMA DeliverCInv == ASSUME CInv, NEW c \in Lacks, Cast!Deliver(c) PROVE CInv'
<1> USE DEF Cast!Deliver, CInv, CastTypes, CastOrder
<1>1. Given[c] \o send_data \in Seq(Nat)
  BY ConcatProperties
<1>2. CastTypes'
  BY <1>1
<1>3. CastOrder'
  BY DEF Cast!EndsWith
<1>4. ASSUME NEW d \in Members' PROVE Cast!EndsWith(wire, Cast!Due(d))'
  <2>1. Cast!Due(d)' = Cast!Due(d)
    BY <1>4 DEF Cast!Due
  <2> QED
    BY <2>1, <1>4 DEF CaughtUp, Cast!Gapless, Cast!EndsWith
<1> QED
  BY <1>2, <1>3, <1>4 DEF CaughtUp, Cast!Gapless

LEMMA LeaveCInv == ASSUME CInv, NEW c \in Members, Cast!Leave(c) PROVE CInv'
<1> USE DEF Cast!Leave, CInv, CastTypes, CastOrder
<1>1. CastTypes'
  BY EmptySeq
<1>2. CastOrder'
  BY DEF Cast!EndsWith
<1>3. ASSUME NEW d \in Members' PROVE Cast!EndsWith(wire, Cast!Due(d))'
  <2>1. Cast!Due(d)' = Cast!Due(d)
    BY <1>3 DEF Cast!Due
  <2> QED
    BY <2>1, <1>3 DEF CaughtUp, Cast!Gapless, Cast!EndsWith
<1> QED
  BY <1>1, <1>2, <1>3 DEF CaughtUp, Cast!Gapless

LEMMA DoneCInv == ASSUME CInv, Cast!Done PROVE CInv'
BY DEF Cast!Done, CInv, CastTypes, CastOrder, CaughtUp, Cast!Gapless, Cast!Due, Cast!EndsWith

LEMMA ResetCInv == ASSUME Cast!Reset PROVE CInv'
<1>1. <<>> \in Seq(Nat)
  BY EmptySeq
<1>2. Cast!EndsWith(<<>>, <<>>)
  BY <1>1, EndsWithNothing
<1>3. CastTypes'
  BY <1>1 DEF Cast!Reset, CastTypes
<1>4. CastOrder'
  BY <1>2 DEF Cast!Reset, CastOrder, Cast!EndsWith
<1>5. CaughtUp'
  BY DEF Cast!Reset, CaughtUp, Cast!Gapless
<1> QED
  BY <1>3, <1>4, <1>5 DEF CInv

LEMMA StutterCInv == ASSUME CInv, UNCHANGED Cast!castVars PROVE CInv'
BY DEF Cast!castVars, CInv, CastTypes, CastOrder, CaughtUp, Cast!Gapless,
       Cast!Due, Cast!EndsWith

LEMMA StepCInv == ASSUME CInv, [Cast!Next]_(Cast!castVars) PROVE CInv'
BY OfferCInv, JoinCInv, DeliverCInv, LeaveCInv, DoneCInv, ResetCInv, StutterCInv
DEF Cast!Next

(* In every behaviour of the abstract multicast each member has been given *)
(* the end of the stream, without a gap, up to the piece handed out now.   *)
THEOREM CastNoGaps == Cast!CastSpec => []Cast!Gapless
<1>1. Cast!Init => CInv
  BY EmptyCInv DEF Cast!Init
<1>2. CInv /\ [Cast!Next]_(Cast!castVars) => CInv'
  BY StepCInv
<1>3. CInv => Cast!Gapless
  BY DEF CInv, CaughtUp
<1> QED
  BY <1>1, <1>2, <1>3, PTL DEF Cast!CastSpec

(* So what every client of the server has been sent is the end of what the *)
(* forwarder sent since the client was registered, up to the call under    *)
(* way: nothing is left out, repeated or out of order.                     *)
THEOREM NoGaps == Spec => []CaughtUp
BY Refinement, CastNoGaps, PTL DEF ImplementsMulticast, CaughtUp

-----------------------------------------------------------------------------
(* What a step of the server does to what a connection has been sent.      *)

(* Nothing, or it is over; and the call under way does not come to it      *)
(* again.                                                                  *)
Kept(c) ==
  \/ got'[c] = <<>>
  \/ got'[c] = got[c] /\ (Ahead(c)' => Ahead(c))

(* The data of the call under way is sent, which comes to it only once.    *)
Handed(c) ==
  Ahead(c) /\ ~Ahead(c)' /\ send_pc # "idle" /\ got'[c] = got[c] \o send_data

Delivers ==
  /\ UNCHANGED <<wire, send_data>>
  /\ send_pc' # "idle" => send_pc # "idle"
  /\ \A c \in Conns : Kept(c) \/ Handed(c)

(* The table and the loop stay as they are, and got does.                  *)
LEMMA QuietDelivers ==
  ASSUME UNCHANGED <<client_fds, fd, got, sendVars>> PROVE Delivers
BY DEF Delivers, Kept, Ahead, sendVars, client_count

LEMMA CloseDelivers ==
  ASSUME JInv, NEW c \in Conns, CloseFd(c), UNCHANGED <<client_fds, sendVars>>
  PROVE  Delivers
<1> USE DEF CloseFd, sendVars
<1>1. got'[c] = <<>> /\ \A d \in Conns : d # c => got'[d] = got[d] /\ fd'[d] = fd[d]
  BY DEF JInv, IInv, TypeOK
<1>2. \A d \in Conns : d # c => (Ahead(d)' <=> Ahead(d))
  BY <1>1 DEF Ahead, client_count
<1> QED
  BY <1>1, <1>2 DEF Delivers, Kept

(* A connection that is accepted, or put in the table, has been sent       *)
(* nothing; and the table only changes while no loop runs over it.         *)
LEMMA AcceptThreadDelivers == ASSUME JInv, AcceptThread PROVE Delivers
<1> USE DEF kernelVars
<1>1. CASE Listen \/ ListenFails \/ TableFull \/ Spawn \/ SpawnFails
  BY <1>1, QuietDelivers DEF Listen, ListenFails, TableFull, Spawn, SpawnFails
<1>2. CASE Reject
  BY <1>2, CloseDelivers DEF Reject, JInv, IInv, Held, Holding
<1>3. CASE Register
  <2>1. send_pc # "loop"
    BY <1>3 DEF Register, JInv, Locked
  <2>2. \A d \in Conns : Ahead(d)' <=> Ahead(d)
    BY <1>3, <2>1 DEF Register, Ahead, sendVars
  <2> QED
    BY <1>3, <2>2 DEF Register, Delivers, Kept, sendVars
<1>4. ASSUME NEW c \in Conns, NEW f \in Fds, Accept(c, f) PROVE Delivers
  <2> USE <1>4 DEF Accept, sendVars
  <2>1. fd \in [Conns -> Fds \cup {NoFd}]
    BY DEF JInv, IInv, TypeOK
  <2>2. \A d \in Conns : d # c => fd'[d] = fd[d]
    BY <2>1
  <2>3. \A d \in Conns : d # c => (Ahead(d)' <=> Ahead(d))
    BY <2>2 DEF Ahead, client_count
  <2>4. got'[c] = <<>>
    BY DEF JInv, IInv, Held, Fresh
  <2> QED
    BY <2>3, <2>4 DEF Delivers, Kept
<1> QED
  BY <1>1, <1>2, <1>3, <1>4 DEF AcceptThread

LEMMA HandlerDelivers ==
  ASSUME JInv, NEW c \in Conns, Handler(c) PROVE Delivers
<1>1. CASE RecvEnds(c)
  BY <1>1, QuietDelivers DEF RecvEnds
<1>2. CASE Unregister(c)
  <2>1. send_pc # "loop"
    BY <1>2 DEF Unregister, JInv, Locked
  <2>2. \A d \in Conns : Ahead(d)' <=> Ahead(d)
    BY <1>2, <2>1 DEF Unregister, Ahead, sendVars
  <2> QED
    BY <1>2, <2>2 DEF Unregister, Delivers, Kept, sendVars, kernelVars
<1>3. CASE HandlerCloses(c)
  BY <1>3, CloseDelivers DEF HandlerCloses
<1> QED
  BY <1>1, <1>2, <1>3 DEF Handler

LEMMA PeerDelivers == ASSUME JInv, NEW c \in Conns, Peer(c) PROVE Delivers
<1>1. UNCHANGED <<client_fds, fd, got, sendVars>>
  BY DEF Peer, PeerConnects, PeerCloses, PeerResets, PeerReads, sendVars
<1> QED
  BY <1>1, QuietDelivers

LEMMA SendStepDelivers == ASSUME JInv, SendStep PROVE Delivers
<1> USE DEF kernelVars, sendVars
<1>1. CASE SendLock
  <2>1. \A d \in Conns : Ahead(d)' => Ahead(d)
    BY <1>1 DEF SendLock, Ahead
  <2> QED
    BY <1>1, <2>1 DEF SendLock, Delivers, Kept
<1>2. CASE SendReturn
  <2>1. \A d \in Conns : Ahead(d)' => Ahead(d)
    BY <1>2 DEF SendReturn, Ahead
  <2> QED
    BY <1>2, <2>1 DEF SendReturn, Delivers, Kept
<1>3. ASSUME NEW c \in Conns, SendOk(c) PROVE Delivers
  <2> USE <1>3 DEF SendOk
  <2>1. \A d \in Conns : Ahead(d)' <=> Ahead(d) /\ d # c
    BY MovesOn
  <2>2. Ahead(c) /\ send_pc # "idle"
    <3>1. send_i \in 1..client_count /\ client_fds[send_i] = fd[c]
      BY SendingToRegistered
    <3>2. send_i \in send_i..client_count
      BY <3>1, LenProperties DEF client_count, JInv, IInv, TypeOK
    <3> QED
      BY <3>1, <3>2 DEF Ahead, SendingTo
  <2>3. /\ got'[c] = got[c] \o send_data
        /\ \A d \in Conns : d # c => got'[d] = got[d]
    BY DEF JInv, IInv, TypeOK
  <2> QED
    BY <2>1, <2>2, <2>3 DEF Delivers, Kept, Handed
<1>4. ASSUME NEW c \in Conns, SendFails(c) PROVE Delivers
  <2>1. \A d \in Conns : Ahead(d)' <=> Ahead(d) /\ d # c
    BY <1>4, MovesOn DEF SendFails
  <2> QED
    BY <1>4, <2>1 DEF SendFails, Delivers, Kept
<1> QED
  BY <1>1, <1>2, <1>3, <1>4 DEF SendStep

LEMMA ServerStepDelivers == ASSUME JInv, ServerStep PROVE Delivers
BY AcceptThreadDelivers, SendStepDelivers, HandlerDelivers, PeerDelivers
DEF ServerStep
=============================================================================
