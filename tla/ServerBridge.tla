---------------------------- MODULE ServerBridge ----------------------------
(***************************************************************************)
(* The program in server mode: forwarder.c on top of tcp_server.c.  A call *)
(* of tcp_server_send that the forwarder makes is a call the server sees,  *)
(* and the forwarder goes on when the server has returned.  Two mutexes    *)
(* are nested here: flush_thread holds tcp_buffer_mutex while              *)
(* tcp_server_send waits for client_mutex and while send() blocks.         *)
(*                                                                         *)
(* The process may end at any time; the service manager starts it again    *)
(* with the same configuration and an empty buffer.                        *)
(***************************************************************************)
EXTENDS Naturals, Sequences, FiniteSets

CONSTANTS
  BufferSize, MaxChunk, MaxInput,                        (* of Forwarder   *)
  Conns, Fds, NoConn, NoFd, MaxClients, SendCapacity     (* of TcpServer   *)

ASSUME ServerBridgeAssumption ==
  /\ BufferSize \in Nat \ {0} /\ MaxChunk \in Nat \ {0} /\ MaxInput \in Nat
  /\ NoConn \notin Conns /\ NoFd \notin Fds
  /\ MaxClients \in Nat \ {0} /\ SendCapacity \in Nat \ {0}

VARIABLES
  forward_mode, use_interval, tcp_buffer, tcp_buffer_mutex, usb_pc, usb_data,
  flush_pc, read, accepted,
  client_fds, client_mutex, acceptor, acc_conn, handler, fd, conn,
  unread, got, send_pc, send_i, send_data,
  wire                         (* what the one sends and the other is sent *)

F == INSTANCE Forwarder
S == INSTANCE TcpServer WITH MaxCalls <- MaxInput

(* The variables of one that the other has no part in.                     *)
fwdOnly    == <<forward_mode, use_interval, tcp_buffer, tcp_buffer_mutex,
                usb_pc, usb_data, flush_pc, read, accepted>>
serverOnly == <<client_fds, client_mutex, acceptor, acc_conn, handler,
                fd, conn, unread, got, send_pc, send_i, send_data>>
bridgeVars == <<fwdOnly, serverOnly, wire>>

(* The configuration says "server".                                        *)
Init == F!Init /\ S!Init /\ forward_mode = "server"

(* A step of the forwarder with no call in it.                             *)
Locally(step) == step /\ UNCHANGED serverOnly

ReadDevice == Locally(\E n \in 0..MaxChunk : F!ReadDevice(n))
BufferOrDrop == Locally(F!SendBuffer \/ F!DropOverflow)
FlushLock == Locally(F!FlushLock)
FlushIdle == Locally(F!FlushIdle)

(* The two calls of tcp_server_send, by the reader and by flush_thread ... *)
CallDirect == F!SendDirect /\ S!SendCall(usb_data)
CallFlush == F!FlushSend /\ S!SendCall(tcp_buffer)

(* ... and what each does when it has returned.                            *)
Returned(step) == send_pc = "idle" /\ Locally(step)
DirectReturns == Returned(F!DirectReturns)
FlushReset == Returned(F!FlushReset)

Server(step) == step /\ UNCHANGED fwdOnly

Restart ==
  /\ S!Restart
  /\ UNCHANGED <<forward_mode, use_interval>>
  /\ tcp_buffer' = <<>>
  /\ tcp_buffer_mutex' = "free"
  /\ usb_pc' = "read"
  /\ usb_data' = <<>>
  /\ flush_pc' \in {"sleep", "absent"}
  /\ read' = 0
  /\ accepted' = <<>>

Next ==
  \/ ReadDevice \/ BufferOrDrop \/ FlushLock \/ FlushIdle
  \/ CallDirect \/ CallFlush \/ DirectReturns \/ FlushReset
  \/ Server(S!ServerStep)
  \/ Restart

Spec == Init /\ [][Next]_bridgeVars

(* Every thread of the process runs; a thread waiting for a mutex gets it  *)
(* if it is free again and again.  No peer is fair: one that never reads   *)
(* keeps a send blocked for ever.                                          *)
Fairness ==
  /\ SF_bridgeVars(BufferOrDrop)
  /\ WF_bridgeVars(FlushLock) /\ WF_bridgeVars(FlushIdle)
  /\ WF_bridgeVars(CallDirect) /\ WF_bridgeVars(CallFlush)
  /\ WF_bridgeVars(DirectReturns) /\ WF_bridgeVars(FlushReset)
  /\ SF_bridgeVars(Server(S!SendLock)) /\ WF_bridgeVars(Server(S!SendReturn))
  /\ \A c \in Conns :
       WF_bridgeVars(Server(S!SendOk(c) \/ S!SendFails(c)))

FairSpec == Spec /\ Fairness

-----------------------------------------------------------------------------
(* End to end: a client sees bytes of the device in the order in which the *)
(* device gave them, each once, across flushes, dropped chunks and other   *)
(* clients that come and go.                                               *)
DeviceOrder == \A c \in Conns : F!Increasing(got[c])

(* The reader comes back from forwarder_send and reads the device again,   *)
(* unless one client that does not read keeps a send blocked for ever:     *)
(* then flush_thread keeps tcp_buffer_mutex and the reader waits for it.   *)
ReaderReturns ==
  []<>~S!SenderStuck => usb_pc # "read" ~> usb_pc = "read"

(* Under the same condition what is buffered leaves the buffer, also when  *)
(* the sends to some clients fail, or the process ends and loses it.       *)
BufferLeaves ==
  []<>~S!SenderStuck =>
    (tcp_buffer # <<>> /\ flush_pc # "absent") ~> tcp_buffer = <<>>
=============================================================================
