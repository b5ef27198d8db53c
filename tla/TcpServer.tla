----------------------------- MODULE TcpServer -----------------------------
(***************************************************************************)
(* tcp_server.c: the accept thread, one handler thread per client, the     *)
(* table client_fds they share under client_mutex, and tcp_server_send,    *)
(* called by one thread of the forwarder at a time.                        *)
(*                                                                         *)
(* A critical section that makes no blocking call is one action guarded by *)
(* client_mutex being free.  tcp_server_send calls send(), which blocks,   *)
(* inside its section, so each send() is a step of its own and the mutex   *)
(* stays held from the first to the last.                                  *)
(*                                                                         *)
(* The kernel is external and modelled as far as the code can tell: a      *)
(* connection is "up"; or "fin", the peer has closed and recv returns 0;   *)
(* or "reset", an error is pending that the next call on the socket        *)
(* reports; or "broken", that error has been reported, or the reset came   *)
(* after a close, and each send returns -1 with EPIPE.  (The program runs  *)
(* under nodebridge.service, and the service manager has services ignore   *)
(* SIGPIPE unless the unit says otherwise.)                                *)
(*                                                                         *)
(* The process may end at any time for reasons that are not in this file,  *)
(* and the service manager starts it again.                                *)
(***************************************************************************)
EXTENDS Naturals, Sequences, FiniteSets

CONSTANTS
  Conns,        (* connections that can exist at one time                  *)
  Fds,          (* descriptor numbers                                      *)
  NoConn,       (* no connection                                           *)
  NoFd,         (* no descriptor                                           *)
  MaxClients,   (* MAX_CLIENTS                                             *)
  SendCapacity, (* sends the kernel buffers for a peer that does not read  *)
  MaxCalls      (* bound of the model: bytes sent in one life of the process *)

ASSUME TcpServerAssumption ==
  /\ NoConn \notin Conns
  /\ NoFd \notin Fds
  /\ MaxClients \in Nat \ {0}
  /\ SendCapacity \in Nat \ {0}
  /\ MaxCalls \in Nat

VARIABLES
  client_fds,    (* client_fds[0 .. client_count - 1]                      *)
  client_mutex,  (* "free", or "sender" while tcp_server_send holds it     *)
  acceptor,      (* where tcp_server_thread is                             *)
  acc_conn,      (* the connection it holds in *client_fd                  *)
  handler,       (* where the handler thread of a connection is            *)
  fd,            (* the descriptor of a connection, once accepted          *)
  conn,          (* kernel: state of the connection                        *)
  unread,        (* kernel: sends buffered that the peer has not read      *)
  got,           (* history: the bytes sent to the connection              *)
  send_pc,       (* where the caller of tcp_server_send is                 *)
  send_i,        (* its loop index, from 1                                 *)
  send_data,     (* its argument                                           *)
  wire           (* history: the arguments of all calls, end to end        *)

acceptVars == <<acceptor, acc_conn>>
kernelVars == <<fd, conn, unread, got>>
sendVars   == <<send_pc, send_i, send_data, wire>>
serverVars == <<client_fds, client_mutex, acceptor, acc_conn, handler,
                fd, conn, unread, got, send_pc, send_i, send_data, wire>>

client_count == Len(client_fds)

(* tcp_server_start has created tcp_server_thread.                         *)
Init ==
  /\ client_fds = <<>>
  /\ client_mutex = "free"
  /\ acceptor = "start"
  /\ acc_conn = NoConn
  /\ handler = [c \in Conns |-> "none"]
  /\ fd = [c \in Conns |-> NoFd]
  /\ conn = [c \in Conns |-> "none"]
  /\ unread = [c \in Conns |-> 0]
  /\ got = [c \in Conns |-> <<>>]
  /\ send_pc = "idle"
  /\ send_i = 1
  /\ send_data = <<>>
  /\ wire = <<>>

FreeFds == Fds \ {fd[c] : c \in Conns}

(* close() of the descriptor of c: the connection is over, the number may  *)
(* be used again.                                                          *)
CloseFd(c) ==
  /\ fd' = [fd EXCEPT ![c] = NoFd]
  /\ conn' = [conn EXCEPT ![c] = "none"]
  /\ unread' = [unread EXCEPT ![c] = 0]
  /\ got' = [got EXCEPT ![c] = <<>>]

-----------------------------------------------------------------------------
(* tcp_server_thread *)

(* socket, setsockopt, bind and listen succeed.                            *)
Listen ==
  /\ acceptor = "start"
  /\ acceptor' = "accept"
  /\ UNCHANGED <<client_fds, client_mutex, acc_conn, handler,
                 kernelVars, sendVars>>

(* One of them fails: the thread returns and nothing starts it again.      *)
ListenFails ==
  /\ acceptor = "start"
  /\ acceptor' = "ended"
  /\ UNCHANGED <<client_fds, client_mutex, acc_conn, handler,
                 kernelVars, sendVars>>

(* accept() returns a descriptor for a connection of the backlog.          *)
Accept(c, f) ==
  /\ acceptor = "accept"
  /\ conn[c] # "none"
  /\ fd[c] = NoFd
  /\ f \in FreeFds
  /\ fd' = [fd EXCEPT ![c] = f]
  /\ acc_conn' = c
  /\ acceptor' = "register"
  /\ UNCHANGED <<client_fds, client_mutex, handler, conn, unread, got,
                 sendVars>>

HasRoom_OffByOne == client_count <= MaxClients

HasRoom == client_count < MaxClients

(* The unlock forgotten.                                                   *)
Register_NoUnlock ==
  /\ acceptor = "register"
  /\ client_mutex = "free"
  /\ HasRoom
  /\ client_fds' = Append(client_fds, fd[acc_conn])
  /\ client_mutex' = "sender"
  /\ acceptor' = "spawn"
  /\ UNCHANGED <<acc_conn, handler, kernelVars, sendVars>>

(* lock; there is room: client_fds[client_count++] = *client_fd; unlock.   *)
Register ==
  /\ acceptor = "register"
  /\ client_mutex = "free"
  /\ HasRoom
  /\ client_fds' = Append(client_fds, fd[acc_conn])
  /\ acceptor' = "spawn"
  /\ UNCHANGED <<client_mutex, acc_conn, handler, kernelVars, sendVars>>

(* lock; the table is full; unlock.                                        *)
TableFull ==
  /\ acceptor = "register"
  /\ client_mutex = "free"
  /\ ~HasRoom
  /\ acceptor' = "reject"
  /\ UNCHANGED <<client_fds, client_mutex, acc_conn, handler,
                 kernelVars, sendVars>>

(* The connection there was no room for is closed.                         *)
Reject ==
  /\ acceptor = "reject"
  /\ CloseFd(acc_conn)
  /\ acc_conn' = NoConn
  /\ acceptor' = "accept"
  /\ UNCHANGED <<client_fds, client_mutex, handler, sendVars>>

(* pthread_create(client_handler), pthread_detach.                         *)
Spawn ==
  /\ acceptor = "spawn"
  /\ handler' = [handler EXCEPT ![acc_conn] = "recv"]
  /\ acc_conn' = NoConn
  /\ acceptor' = "accept"
  /\ UNCHANGED <<client_fds, client_mutex, kernelVars, sendVars>>

(* pthread_create fails, which the code does not notice: the descriptor    *)
(* stays in the table and nothing will ever take it out.  pthread_detach   *)
(* is then called with an id that was never set, which does nothing or     *)
(* ends the process (Restart).                                             *)
SpawnFails ==
  /\ acceptor = "spawn"
  /\ handler' = [handler EXCEPT ![acc_conn] = "orphan"]
  /\ acc_conn' = NoConn
  /\ acceptor' = "accept"
  /\ UNCHANGED <<client_fds, client_mutex, kernelVars, sendVars>>

-----------------------------------------------------------------------------
(* client_handler *)

(* Only the 0 of an orderly close ends the loop.                           *)
RecvEnds_AtZero(c) ==
  /\ handler[c] = "recv"
  /\ conn[c] = "fin"
  /\ handler' = [handler EXCEPT ![c] = "leave"]
  /\ UNCHANGED <<client_fds, client_mutex, acceptVars, kernelVars,
                 sendVars>>

(* recv returns 0 or -1 and the loop ends; what it returns before that is  *)
(* thrown away.  A pending reset is reported here and so used up.          *)
RecvEnds(c) ==
  /\ handler[c] = "recv"
  /\ conn[c] \in {"fin", "reset", "broken"}
  /\ handler' = [handler EXCEPT ![c] = "leave"]
  /\ conn' = [conn EXCEPT ![c] = IF @ = "reset" THEN "broken" ELSE @]
  /\ UNCHANGED <<client_fds, client_mutex, acceptVars, fd, unread, got,
                 sendVars>>

(* Only --client_count.                                                    *)
SwapRemove_Last(s, i) == SubSeq(s, 1, Len(s) - 1)

(* client_fds[client_count--]: the entry past the last one, unset.         *)
SwapRemove_PostDecrement(s, i) ==
  [j \in 1..Len(s) - 1 |-> IF j = i THEN NoFd ELSE s[j]]

(* client_fds[i] = client_fds[--client_count]                              *)
SwapRemove(s, i) ==
  [j \in 1..Len(s) - 1 |-> IF j = i THEN s[Len(s)] ELSE s[j]]

(* The first index at which the table holds f.                             *)
IsIndexOf(i, f) ==
  /\ i \in 1..client_count
  /\ client_fds[i] = f
  /\ \A j \in 1..i - 1 : client_fds[j] # f

(* What the loop over the table leaves: the first entry with f taken out,  *)
(* if there is one.                                                        *)
TakenOut(f) ==
  IF \E i \in 1..client_count : client_fds[i] = f
  THEN SwapRemove(client_fds, CHOOSE i \in 1..client_count : IsIndexOf(i, f))
  ELSE client_fds

(* The same without the lock.                                              *)
Unregister_NoLock(c) ==
  /\ handler[c] = "leave"
  /\ client_fds' = TakenOut(fd[c])
  /\ handler' = [handler EXCEPT ![c] = "close"]
  /\ UNCHANGED <<client_mutex, acceptVars, kernelVars, sendVars>>

(* lock; look for the descriptor and take it out; unlock.                  *)
Unregister(c) ==
  /\ handler[c] = "leave"
  /\ client_mutex = "free"
  /\ client_fds' = TakenOut(fd[c])
  /\ handler' = [handler EXCEPT ![c] = "close"]
  /\ UNCHANGED <<client_mutex, acceptVars, kernelVars, sendVars>>

(* close(client_fd), after the unlock; the thread ends.                    *)
HandlerCloses(c) ==
  /\ handler[c] = "close"
  /\ CloseFd(c)
  /\ handler' = [handler EXCEPT ![c] = "none"]
  /\ UNCHANGED <<client_fds, client_mutex, acceptVars, sendVars>>

-----------------------------------------------------------------------------
(* tcp_server_send *)

(* The forwarder calls it.                                                 *)
SendCall(data) ==
  /\ send_pc = "idle"
  /\ send_data' = data
  /\ wire' = wire \o data
  /\ send_pc' = "lock"
  /\ UNCHANGED <<client_fds, client_mutex, acceptVars, handler,
                 kernelVars, send_i>>

SendLock ==
  /\ send_pc = "lock"
  /\ client_mutex = "free"
  /\ client_mutex' = "sender"
  /\ send_i' = 1
  /\ send_pc' = "loop"
  /\ UNCHANGED <<client_fds, acceptVars, handler, kernelVars,
                 send_data, wire>>

(* The loop is at the connection c.                                        *)
SendingTo(c) ==
  /\ send_pc = "loop"
  /\ send_i <= client_count
  /\ fd[c] = client_fds[send_i]

(* send blocks while the peer has left the kernel's buffer full.           *)
Blocks(c) ==
  /\ conn[c] \in {"up", "fin"}
  /\ send_data # <<>>
  /\ unread[c] >= SendCapacity

SendOk(c) ==
  /\ SendingTo(c)
  /\ conn[c] \in {"up", "fin"}
  /\ ~Blocks(c)
  /\ got' = [got EXCEPT ![c] = @ \o send_data]
  /\ unread' = [unread EXCEPT ![c] = IF send_data = <<>> THEN @ ELSE @ + 1]
  /\ send_i' = send_i + 1
  /\ UNCHANGED <<client_fds, client_mutex, acceptVars, handler, fd,
                 conn, send_pc, send_data, wire>>

(* send returns -1 and the loop goes on; a pending error is used up.       *)
SendFails(c) ==
  /\ SendingTo(c)
  /\ conn[c] \in {"reset", "broken"}
  /\ conn' = [conn EXCEPT ![c] = "broken"]
  /\ send_i' = send_i + 1
  /\ UNCHANGED <<client_fds, client_mutex, acceptVars, handler, fd,
                 unread, got, send_pc, send_data, wire>>

(* The loop is over: unlock and return.                                    *)
SendReturn ==
  /\ send_pc = "loop"
  /\ send_i > client_count
  /\ client_mutex' = "free"
  /\ send_pc' = "idle"
  /\ UNCHANGED <<client_fds, acceptVars, handler, kernelVars, send_i,
                 send_data, wire>>

-----------------------------------------------------------------------------
(* The peers and the network *)

PeerConnects(c) ==
  /\ acceptor \notin {"start", "ended"}
  /\ conn[c] = "none"
  /\ conn' = [conn EXCEPT ![c] = "up"]
  /\ UNCHANGED <<client_fds, client_mutex, acceptVars, handler, fd,
                 unread, got, sendVars>>

PeerCloses(c) ==
  /\ conn[c] = "up"
  /\ conn' = [conn EXCEPT ![c] = "fin"]
  /\ UNCHANGED <<client_fds, client_mutex, acceptVars, handler, fd,
                 unread, got, sendVars>>

PeerResets(c) ==
  /\ conn[c] \in {"up", "fin"}
  /\ conn' = [conn EXCEPT ![c] = IF @ = "up" THEN "reset" ELSE "broken"]
  /\ UNCHANGED <<client_fds, client_mutex, acceptVars, handler, fd,
                 unread, got, sendVars>>

PeerReads(c) ==
  /\ unread[c] > 0
  /\ unread' = [unread EXCEPT ![c] = @ - 1]
  /\ UNCHANGED <<client_fds, client_mutex, acceptVars, handler, fd,
                 conn, got, sendVars>>

(* The process ends, on a POST to /reboot, in load_config or by a signal,  *)
(* and the service manager starts it again; the kernel has closed all its  *)
(* descriptors.                                                            *)
Restart ==
  /\ client_fds' = <<>>
  /\ client_mutex' = "free"
  /\ acceptor' = "start"
  /\ acc_conn' = NoConn
  /\ handler' = [c \in Conns |-> "none"]
  /\ fd' = [c \in Conns |-> NoFd]
  /\ conn' = [c \in Conns |-> "none"]
  /\ unread' = [c \in Conns |-> 0]
  /\ got' = [c \in Conns |-> <<>>]
  /\ send_pc' = "idle"
  /\ send_i' = 1
  /\ send_data' = <<>>
  /\ wire' = <<>>

-----------------------------------------------------------------------------
AcceptThread ==
  \/ Listen \/ ListenFails \/ Register \/ TableFull \/ Reject \/ Spawn
  \/ SpawnFails
  \/ \E c \in Conns, f \in Fds : Accept(c, f)

Handler(c) == RecvEnds(c) \/ Unregister(c) \/ HandlerCloses(c)

SendStep ==
  \/ SendLock \/ SendReturn
  \/ \E c \in Conns : SendOk(c) \/ SendFails(c)

Peer(c) == PeerConnects(c) \/ PeerCloses(c) \/ PeerResets(c) \/ PeerReads(c)

(* Everything but the caller of tcp_server_send and the process's life.    *)
ServerStep ==
  \/ AcceptThread
  \/ SendStep
  \/ \E c \in Conns : Handler(c) \/ Peer(c)

(* Taken alone, tcp_server_send is called with one more byte each time, or *)
(* with no bytes at all, as the forwarder does for an empty chunk.         *)
NextCall ==
  \/ Len(wire) < MaxCalls /\ SendCall(<<Len(wire) + 1>>)
  \/ SendCall(<<>>)

Next == ServerStep \/ NextCall \/ Restart

Spec == Init /\ [][Next]_serverVars

(* Every thread of the process runs, and a thread that waits for           *)
(* client_mutex gets it if it is free again and again.  Peers owe nothing: *)
(* one that never reads keeps a send blocked for ever.                     *)
Fairness ==
  /\ WF_serverVars(Listen \/ Reject \/ Spawn \/ SpawnFails)
  /\ SF_serverVars(Register \/ TableFull)
  /\ \A c \in Conns :
       /\ WF_serverVars(\E f \in Fds : Accept(c, f))
       /\ WF_serverVars(RecvEnds(c) \/ HandlerCloses(c))
       /\ SF_serverVars(Unregister(c))
  /\ SF_serverVars(SendLock)
  /\ WF_serverVars(SendReturn \/ \E c \in Conns : SendOk(c) \/ SendFails(c))

FairSpec == Spec /\ Fairness

-----------------------------------------------------------------------------
(* Every variable has its type.                                            *)
TypeOK ==
  /\ client_fds \in Seq(Fds)
  /\ client_mutex \in {"free", "sender"}
  /\ acceptor \in {"start", "ended", "accept", "register", "spawn", "reject"}
  /\ acc_conn \in Conns \cup {NoConn}
  /\ handler \in [Conns -> {"none", "recv", "leave", "close", "orphan"}]
  /\ fd \in [Conns -> Fds \cup {NoFd}]
  /\ conn \in [Conns -> {"none", "up", "fin", "reset", "broken"}]
  /\ unread \in [Conns -> 0..SendCapacity]
  /\ got \in [Conns -> Seq(Nat)]
  /\ send_pc \in {"idle", "lock", "loop"}
  /\ send_i \in Nat
  /\ send_data \in Seq(Nat)
  /\ wire \in Seq(Nat)

(* The connections that ought to be in the table: registered, and their    *)
(* handler has not taken them out.                                         *)
Registered(c) ==
  \/ handler[c] \in {"recv", "leave", "orphan"}
  \/ acceptor = "spawn" /\ acc_conn = c

(* client_fds holds each registered connection's descriptor, once, and     *)
(* nothing else: no descriptor that has been closed, or closed and used    *)
(* again for another connection, is ever sent to.  The order of the calls  *)
(* is what makes it so: a handler takes the descriptor out before it       *)
(* closes it, and the accept thread puts it in before the handler runs.    *)
TableSound ==
  /\ \A i, j \in 1..client_count : client_fds[i] = client_fds[j] => i = j
  /\ \A i \in 1..client_count :
       \E c \in Conns : fd[c] = client_fds[i] /\ Registered(c)
  /\ \A c \in Conns :
       Registered(c) => \E i \in 1..client_count : client_fds[i] = fd[c]

(* The table never holds more than MAX_CLIENTS descriptors, counting those *)
(* whose handler could not be created.                                     *)
TableBounded == client_count <= MaxClients

(* The clients of the abstract server: registered, with a good connection. *)
Members == {c \in Conns : conn[c] \in {"up", "fin"} /\ Registered(c)}

(* Those the call under way has yet to come to.                            *)
Ahead(c) ==
  \/ send_pc = "lock"
  \/ send_pc = "loop" /\ \E i \in send_i..client_count : client_fds[i] = fd[c]

Lacks == {c \in Members : Ahead(c)}

(* What they have been sent since they are clients.                        *)
Given == [c \in Conns |-> IF c \in Members THEN got[c] ELSE <<>>]

(* The server is a Multicast: a client is one from the moment it is in the *)
(* table until it is out of it or its connection fails.  So no client is   *)
(* passed over when another one leaves and the table is reordered, none is *)
(* given a piece twice, a failed send keeps nothing from the others, and a *)
(* call returns only when everyone has the data.                           *)
Cast == INSTANCE Multicast WITH
          Clients <- Conns,
          stream  <- wire,
          data    <- send_data,
          busy    <- send_pc # "idle",
          member  <- Members,
          lacks   <- Lacks,
          got     <- Given

ImplementsMulticast == Cast!CastSpec

(* So what a client has been sent, with what the call under way still has  *)
(* for it, is the end of the stream, from its registration on.             *)
CaughtUp == Cast!Gapless

(* A send that blocks on a peer that does not read.                        *)
SenderStuck == \E c \in Conns : SendingTo(c) /\ Blocks(c)

(* When a peer is gone its handler gives the slot and the descriptor back, *)
(* unless tcp_server_send is stuck on another peer for ever: it then keeps *)
(* client_mutex.  (A handler that is not there serves no client that is    *)
(* gone, and one that never came to be there is not meant.)                *)
Lingers(c) ==
  handler[c] \in {"recv", "leave", "close"} /\ conn[c] # "up"

SlotFreed == []<>~SenderStuck => \A c \in Conns : []<>~Lingers(c)

(* Under the same condition the accept thread, which needs the mutex that  *)
(* tcp_server_send holds while it blocks on a client, comes back to        *)
(* accept() from wherever it is.                                           *)
AcceptorReturns ==
  []<>~SenderStuck => []<>(acceptor \notin {"register", "spawn", "reject"})
=============================================================================
