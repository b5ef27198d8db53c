----------------------------- MODULE TcpClient -----------------------------
(***************************************************************************)
(* tcp_client.c: the thread that keeps a connection to the configured      *)
(* server, and tcp_client_send, called by one thread of the forwarder at a *)
(* time.  They share client_fd under client_lock.                          *)
(*                                                                         *)
(* tcp_client_send calls send() with the lock held, and send() blocks on a *)
(* peer that does not read and on a connection still being set up, so the  *)
(* call is split from the lock.  The other sections are single actions.    *)
(*                                                                         *)
(* Descriptor numbers are those of the whole process: one that the client  *)
(* thread has closed may be given to the web server, a file or the device. *)
(* The socket is the kernel's: "fresh" before connect; "connecting";       *)
(* "refused", with the error pending; then as in TcpServer "up", "fin",    *)
(* "reset" and "broken".  A send on a socket that is fresh or broken       *)
(* returns -1 with EPIPE (TcpServer says why it raises no signal).         *)
(*                                                                         *)
(* tcp_client_stop is not here: nothing calls it and no header offers it.  *)
(***************************************************************************)
EXTENDS Naturals, Sequences, FiniteSets

CONSTANTS
  Fds,          (* descriptor numbers of the process                       *)
  NoFd,         (* the value -1 of client_fd                               *)
  MaxOther,     (* descriptors the rest of the process holds at one time   *)
  SendCapacity, (* sends the kernel buffers for a peer that does not read  *)
  MaxCalls      (* bound of the model: bytes sent in one life of the process *)

ASSUME TcpClientAssumption ==
  /\ NoFd \notin Fds
  /\ IsFiniteSet(Fds)
  /\ MaxOther \in Nat
  /\ SendCapacity \in Nat \ {0}
  /\ MaxCalls \in Nat

VARIABLES
  host_ok,      (* inet_pton accepts the configured host                   *)
  client_fd,    (* the descriptor the sender uses, NoFd for -1             *)
  client_lock,  (* "free", or "sender" while tcp_client_send holds it      *)
  thread,       (* where tcp_client_thread is                              *)
  owner,        (* kernel: who has each descriptor open                    *)
  sock,         (* kernel: state of the client's socket                    *)
  server_up,    (* kernel: the configured server accepts connections       *)
  unread,       (* kernel: sends buffered that the server has not read     *)
  got,          (* history: bytes sent on the present connection           *)
  stray,        (* history: bytes sent on a descriptor of someone else     *)
  send_pc,      (* where the caller of tcp_client_send is                  *)
  send_data,    (* its argument                                            *)
  wire          (* history: the arguments of all calls, end to end         *)

fdVars     == <<client_fd, owner>>
linkVars   == <<sock, unread, got>>
sendVars   == <<send_pc, send_data, wire>>
clientVars == <<host_ok, client_fd, client_lock, thread, owner, sock,
                server_up, unread, got, stray, send_pc, send_data, wire>>

Init ==
  /\ host_ok \in BOOLEAN
  /\ client_fd = NoFd
  /\ client_lock = "free"
  /\ thread = "create"
  /\ owner = [f \in Fds |-> "free"]
  /\ sock = "none"
  /\ server_up \in BOOLEAN
  /\ unread = 0
  /\ got = <<>>
  /\ stray = <<>>
  /\ send_pc = "idle"
  /\ send_data = <<>>
  /\ wire = <<>>

FreeFds == {f \in Fds : owner[f] = "free"}

-----------------------------------------------------------------------------
(* tcp_client_thread *)

(* lock; client_fd = socket(); unlock.                                     *)
CreateSocket(f) ==
  /\ thread = "create"
  /\ client_lock = "free"
  /\ f \in FreeFds
  /\ owner' = [owner EXCEPT ![f] = "tcp"]
  /\ client_fd' = f
  /\ sock' = "fresh"
  /\ thread' = "connect"
  /\ UNCHANGED <<host_ok, client_lock, server_up, unread, got, stray,
                 sendVars>>

(* socket() fails for want of a descriptor: client_fd is -1, the thread    *)
(* ends.                                                                   *)
CreateFails ==
  /\ thread = "create"
  /\ client_lock = "free"
  /\ FreeFds = {}
  /\ client_fd' = NoFd
  /\ thread' = "ended"
  /\ UNCHANGED <<host_ok, client_lock, owner, linkVars, server_up,
                 stray, sendVars>>

(* The close forgotten.                                                    *)
CloseSocket_Forgotten ==
  /\ sock' = "none"
  /\ unread' = 0
  /\ got' = <<>>
  /\ UNCHANGED owner

(* close(client_fd) as the kernel sees it.                                 *)
CloseSocket ==
  /\ owner' = [owner EXCEPT ![client_fd] = "free"]
  /\ sock' = "none"
  /\ unread' = 0
  /\ got' = <<>>

(* inet_pton rejects the host: close, and the thread ends.  client_fd      *)
(* keeps its number.                                                       *)
InvalidAddress ==
  /\ thread = "connect"
  /\ ~host_ok
  /\ CloseSocket
  /\ thread' = "ended"
  /\ UNCHANGED <<host_ok, client_fd, client_lock, server_up, stray,
                 sendVars>>

(* connect() is called ...                                                 *)
Connect ==
  /\ thread = "connect"
  /\ host_ok
  /\ sock' = "connecting"
  /\ thread' = "connecting"
  /\ UNCHANGED <<host_ok, fdVars, client_lock, server_up, unread, got,
                 stray, sendVars>>

(* ... and returns 0 ...                                                   *)
Connected ==
  /\ thread = "connecting"
  /\ sock = "connecting"
  /\ server_up
  /\ sock' = "up"
  /\ thread' = "recv"
  /\ UNCHANGED <<host_ok, fdVars, client_lock, server_up, unread, got,
                 stray, sendVars>>

(* ... or the server refuses or does not answer ...                        *)
ServerRefuses ==
  /\ sock = "connecting"
  /\ ~server_up
  /\ sock' = "refused"
  /\ UNCHANGED <<host_ok, fdVars, client_lock, thread, server_up,
                 unread, got, stray, sendVars>>

(* ... and connect() returns -1 ...                                        *)
ConnectFails ==
  /\ thread = "connecting"
  /\ sock \in {"refused", "broken"}
  /\ sock' = "broken"
  /\ thread' = "failed"
  /\ UNCHANGED <<host_ok, fdVars, client_lock, server_up, unread, got,
                 stray, sendVars>>

(* ... on which the thread closes the socket, without the lock and without *)
(* setting client_fd back, and ends.                                       *)
GiveUp ==
  /\ thread = "failed"
  /\ CloseSocket
  /\ thread' = "ended"
  /\ UNCHANGED <<host_ok, client_fd, client_lock, server_up, stray,
                 sendVars>>

(* Only the 0 of an orderly close ends the loop.                           *)
RecvEnds_AtZero ==
  /\ thread = "recv"
  /\ sock = "fin"
  /\ thread' = "lost"
  /\ UNCHANGED <<host_ok, fdVars, client_lock, linkVars, server_up,
                 stray, sendVars>>

(* recv returns 0 or -1; what it returns before that is thrown away.       *)
RecvEnds ==
  /\ thread = "recv"
  /\ sock \in {"fin", "reset", "broken"}
  /\ sock' = IF sock = "reset" THEN "broken" ELSE sock
  /\ thread' = "lost"
  /\ UNCHANGED <<host_ok, fdVars, client_lock, server_up, unread, got,
                 stray, sendVars>>

(* Leaving the old number in client_fd.                                    *)
CloseLost_KeepsNumber ==
  /\ thread = "lost"
  /\ client_lock = "free"
  /\ CloseSocket
  /\ thread' = "sleep"
  /\ UNCHANGED <<host_ok, client_fd, client_lock, server_up, stray,
                 sendVars>>

(* client_fd = 0, as if that were no descriptor.                           *)
CloseLost_Zero ==
  /\ thread = "lost"
  /\ client_lock = "free"
  /\ CloseSocket
  /\ client_fd' = 0
  /\ thread' = "sleep"
  /\ UNCHANGED <<host_ok, client_lock, server_up, stray, sendVars>>

(* lock; close(client_fd); client_fd = -1; unlock.                         *)
CloseLost ==
  /\ thread = "lost"
  /\ client_lock = "free"
  /\ CloseSocket
  /\ client_fd' = NoFd
  /\ thread' = "sleep"
  /\ UNCHANGED <<host_ok, client_lock, server_up, stray, sendVars>>

(* The five seconds are over: round the loop.                              *)
Retry ==
  /\ thread = "sleep"
  /\ thread' = "create"
  /\ UNCHANGED <<host_ok, fdVars, client_lock, linkVars, server_up,
                 stray, sendVars>>

-----------------------------------------------------------------------------
(* tcp_client_send *)

SendCall(data) ==
  /\ send_pc = "idle"
  /\ send_data' = data
  /\ wire' = wire \o data
  /\ send_pc' = "lock"
  /\ UNCHANGED <<host_ok, fdVars, client_lock, thread, linkVars,
                 server_up, stray>>

SendLock ==
  /\ send_pc = "lock"
  /\ client_lock = "free"
  /\ client_lock' = "sender"
  /\ send_pc' = "send"
  /\ UNCHANGED <<host_ok, fdVars, thread, linkVars, server_up, stray,
                 send_data, wire>>

(* unlock, and return to the forwarder.                                    *)
SendReturn ==
  /\ client_lock' = "free"
  /\ send_pc' = "idle"
  /\ UNCHANGED <<host_ok, fdVars, thread, server_up, send_data, wire>>

(* A return without the unlock when there is no connection.                *)
SendSkips_NoUnlock ==
  /\ send_pc = "send"
  /\ client_fd = NoFd
  /\ send_pc' = "idle"
  /\ UNCHANGED <<host_ok, fdVars, client_lock, thread, linkVars,
                 server_up, stray, send_data, wire>>

(* client_fd is -1: nothing is sent.                                       *)
SendSkips ==
  /\ send_pc = "send"
  /\ client_fd = NoFd
  /\ SendReturn
  /\ UNCHANGED <<linkVars, stray>>

(* send() is called on a descriptor that `who` has open.                   *)
SendingTo(who) ==
  /\ send_pc = "send"
  /\ client_fd # NoFd
  /\ owner[client_fd] = who

PeerFull == send_data # <<>> /\ unread >= SendCapacity

(* MSG_DONTWAIT: what a full kernel buffer refuses is dropped.             *)
SendOk_DontWait ==
  /\ SendingTo("tcp")
  /\ sock \in {"up", "fin"}
  /\ got' = IF PeerFull THEN got ELSE got \o send_data
  /\ unread' = IF PeerFull \/ send_data = <<>> THEN unread ELSE unread + 1
  /\ SendReturn
  /\ UNCHANGED <<sock, stray>>

SendOk ==
  /\ SendingTo("tcp")
  /\ sock \in {"up", "fin"}
  /\ ~PeerFull
  /\ got' = got \o send_data
  /\ unread' = IF send_data = <<>> THEN unread ELSE unread + 1
  /\ SendReturn
  /\ UNCHANGED <<sock, stray>>

(* send returns -1; a pending error is used up.                            *)
SendFails ==
  /\ SendingTo("tcp")
  /\ sock \in {"fresh", "refused", "reset", "broken"}
  /\ sock' = IF sock = "fresh" THEN "fresh" ELSE "broken"
  /\ SendReturn
  /\ UNCHANGED <<unread, got, stray>>

(* The number is closed (EBADF), or names something that is no socket.     *)
SendBadFd ==
  /\ SendingTo("free") \/ SendingTo("other")
  /\ SendReturn
  /\ UNCHANGED <<linkVars, stray>>

(* The number has been given to a socket of another part of the process.   *)
SendStray ==
  /\ SendingTo("other")
  /\ stray' = stray \o send_data
  /\ SendReturn
  /\ UNCHANGED linkVars

-----------------------------------------------------------------------------
(* The server, the network, and the rest of the process *)

ServerComesOrGoes ==
  /\ server_up' = ~server_up
  /\ UNCHANGED <<host_ok, fdVars, client_lock, thread, linkVars, stray,
                 sendVars>>

PeerCloses ==
  /\ sock = "up"
  /\ sock' = "fin"
  /\ UNCHANGED <<host_ok, fdVars, client_lock, thread, server_up,
                 unread, got, stray, sendVars>>

PeerResets ==
  /\ sock \in {"up", "fin"}
  /\ sock' = IF sock = "up" THEN "reset" ELSE "broken"
  /\ UNCHANGED <<host_ok, fdVars, client_lock, thread, server_up,
                 unread, got, stray, sendVars>>

PeerReads ==
  /\ unread > 0
  /\ unread' = unread - 1
  /\ UNCHANGED <<host_ok, fdVars, client_lock, thread, sock, server_up,
                 got, stray, sendVars>>

(* The web server accepts a connection or opens a file; the reader opens   *)
(* its device.                                                             *)
OtherOpens(f) ==
  /\ f \in FreeFds
  /\ Cardinality({g \in Fds : owner[g] = "other"}) < MaxOther
  /\ owner' = [owner EXCEPT ![f] = "other"]
  /\ UNCHANGED <<host_ok, client_fd, client_lock, thread, linkVars,
                 server_up, stray, sendVars>>

OtherCloses(f) ==
  /\ owner[f] = "other"
  /\ owner' = [owner EXCEPT ![f] = "free"]
  /\ UNCHANGED <<host_ok, client_fd, client_lock, thread, linkVars,
                 server_up, stray, sendVars>>

(* The process ends, and the service manager starts it again.              *)
Restart ==
  /\ client_fd' = NoFd
  /\ client_lock' = "free"
  /\ thread' = "create"
  /\ owner' = [f \in Fds |-> "free"]
  /\ sock' = "none"
  /\ unread' = 0
  /\ got' = <<>>
  /\ stray' = <<>>
  /\ send_pc' = "idle"
  /\ send_data' = <<>>
  /\ wire' = <<>>
  /\ UNCHANGED <<host_ok, server_up>>

-----------------------------------------------------------------------------
ClientThread ==
  \/ CreateFails \/ InvalidAddress \/ Connect \/ Connected \/ ConnectFails
  \/ GiveUp \/ RecvEnds \/ CloseLost \/ Retry
  \/ \E f \in Fds : CreateSocket(f)

SendStep ==
  \/ SendLock \/ SendSkips \/ SendOk \/ SendFails
  \/ SendBadFd \/ SendStray

Environment ==
  \/ ServerRefuses \/ ServerComesOrGoes
  \/ PeerCloses \/ PeerResets \/ PeerReads
  \/ \E f \in Fds : OtherOpens(f) \/ OtherCloses(f)

(* Everything but the caller of tcp_client_send.                           *)
ClientStep == ClientThread \/ SendStep \/ Environment

(* Taken alone, tcp_client_send is called with one more byte each time, or *)
(* with no bytes at all.                                                   *)
NextCall ==
  \/ Len(wire) < MaxCalls /\ SendCall(<<Len(wire) + 1>>)
  \/ SendCall(<<>>)

Next == ClientStep \/ NextCall \/ Restart

Spec == Init /\ [][Next]_clientVars

(* The scheduler runs both threads, a thread that waits for client_lock    *)
(* gets it if it is free again and again, and connect() ends in one way or *)
(* the other.  The server owes nothing: it may never read.                 *)
Fairness ==
  /\ SF_clientVars(CreateFails \/ \E f \in Fds : CreateSocket(f))
  /\ WF_clientVars(InvalidAddress \/ Connect)
  /\ WF_clientVars(ServerRefuses \/ Connected)
  /\ WF_clientVars(ConnectFails) /\ WF_clientVars(GiveUp)
  /\ WF_clientVars(RecvEnds) /\ SF_clientVars(CloseLost) /\ WF_clientVars(Retry)
  /\ SF_clientVars(SendLock)
  /\ WF_clientVars(SendSkips \/ SendOk \/ SendFails \/ SendBadFd
                   \/ SendStray)

FairSpec == Spec /\ Fairness

-----------------------------------------------------------------------------
(* Every variable has its type.                                            *)
TypeOK ==
  /\ host_ok \in BOOLEAN
  /\ client_fd \in Fds \cup {NoFd}
  /\ client_lock \in {"free", "sender"}
  /\ thread \in {"create", "connect", "connecting", "failed", "recv", "lost",
                 "sleep", "ended"}
  /\ owner \in [Fds -> {"free", "tcp", "other"}]
  /\ sock \in {"none", "fresh", "connecting", "refused", "up", "fin", "reset",
               "broken"}
  /\ server_up \in BOOLEAN
  /\ unread \in 0..SendCapacity
  /\ got \in Seq(Nat)
  /\ stray \in Seq(Nat)
  /\ send_pc \in {"idle", "lock", "send"}
  /\ send_data \in Seq(Nat)
  /\ wire \in Seq(Nat)

(* The client has one descriptor open from socket() to close(), and none   *)
(* before, between two connections or after it has given up: no path out   *)
(* of the thread and no round of the retry loop leaks one, and none closes *)
(* a descriptor that is not the client's.                                  *)
DescriptorOwned ==
  {f \in Fds : owner[f] = "tcp"} =
    IF thread \in {"connect", "connecting", "failed", "recv", "lost"}
    THEN {client_fd}
    ELSE {}

(* While the thread lives, nothing read from the device goes to a          *)
(* descriptor of another part of the process: between connections          *)
(* client_fd is -1, and the sender cannot use it half way through a close. *)
StrayOnlyAfterGivingUp == stray # <<>> => thread = "ended"

(* What a connection carries is one contiguous piece of what the forwarder *)
(* sent, from the first call after connect: nothing is left out, repeated, *)
(* or sent again from an earlier connection.                               *)
NoGap ==
  \E k \in 0..Len(wire) :
    /\ k + Len(got) <= Len(wire)
    /\ got = SubSeq(wire, k + 1, k + Len(got))

(* A send that blocks on a server that does not read.                      *)
SenderStuck == SendingTo("tcp") /\ sock \in {"up", "fin"} /\ PeerFull

(* A connection that has ended is noticed and the loop starts again from   *)
(* socket(), unless a send is stuck for ever with client_lock held.        *)
LossNoticed ==
  []<>~SenderStuck => (thread = "recv" /\ sock # "up") ~> thread = "create"

(* Under the same condition tcp_client_send returns, also when it is       *)
(* called while a connection is being set up.                              *)
SendReturns == []<>~SenderStuck => send_pc # "idle" ~> send_pc = "idle"

(* A connection that was lost is made again once the server is there for   *)
(* good: "retrying in 5 seconds" (tcp_client.c:87), "Wait before retrying  *)
(* connection" (tcp_client.c:88).                                          *)
Reestablished ==
  (<>[]server_up /\ []<>~SenderStuck) => thread = "sleep" ~> thread = "recv"
=============================================================================
