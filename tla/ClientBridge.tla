---------------------------- MODULE ClientBridge ----------------------------
(***************************************************************************)
(* The program in client mode: forwarder.c on top of tcp_client.c.  What   *)
(* ServerBridge has of nested mutexes, this has too: flush_thread holds    *)
(* tcp_buffer_mutex while tcp_client_send waits for client_lock, and       *)
(* send() blocks on a server that does not read and on a socket that is    *)
(* still connecting.  The forwarder does not look at what tcp_client_send  *)
(* returns, so what is flushed while there is no connection is gone.       *)
(***************************************************************************)
EXTENDS Naturals, Sequences, FiniteSets

CONSTANTS
  BufferSize, MaxChunk, MaxInput,           (* of Forwarder                *)
  Fds, NoFd, MaxOther, SendCapacity         (* of TcpClient                *)

ASSUME ClientBridgeAssumption ==
  /\ BufferSize \in Nat \ {0} /\ MaxChunk \in Nat \ {0} /\ MaxInput \in Nat
  /\ NoFd \notin Fds /\ IsFiniteSet(Fds)
  /\ MaxOther \in Nat /\ SendCapacity \in Nat \ {0}

VARIABLES
  forward_mode, use_interval, tcp_buffer, tcp_buffer_mutex, usb_pc, usb_data,
  flush_pc, read, accepted,
  host_ok, client_fd, client_lock, thread, owner, sock, server_up,
  unread, got, stray, send_pc, send_data,
  wire,                        (* what the one sends and the other is sent *)
  delivered       (* history: bytes sent on all connections of this life   *)

F == INSTANCE Forwarder
C == INSTANCE TcpClient WITH MaxCalls <- MaxInput

(* The variables of one that the other has no part in.                     *)
fwdOnly    == <<forward_mode, use_interval, tcp_buffer, tcp_buffer_mutex,
                usb_pc, usb_data, flush_pc, read, accepted>>
clientOnly == <<host_ok, client_fd, client_lock, thread, owner, sock,
                server_up, unread, got, stray, send_pc, send_data>>
bridgeVars == <<fwdOnly, clientOnly, wire, delivered>>

(* The configuration says "client".                                        *)
Init == F!Init /\ C!Init /\ forward_mode = "client" /\ delivered = <<>>

(* A step of the forwarder with no call in it.                             *)
Locally(step) == step /\ UNCHANGED <<clientOnly, delivered>>

ReadDevice == Locally(\E n \in 0..MaxChunk : F!ReadDevice(n))
BufferOrDrop == Locally(F!SendBuffer \/ F!DropOverflow)
FlushLock == Locally(F!FlushLock)
FlushIdle == Locally(F!FlushIdle)

(* The two calls of tcp_client_send, by the reader and by flush_thread ... *)
CallDirect == F!SendDirect /\ C!SendCall(usb_data) /\ UNCHANGED delivered
CallFlush == F!FlushSend /\ C!SendCall(tcp_buffer) /\ UNCHANGED delivered

(* ... and what each does when it has returned, with what is sent or not.  *)
Returned(step) == send_pc = "idle" /\ Locally(step)
DirectReturns == Returned(F!DirectReturns)
FlushReset == Returned(F!FlushReset)

(* A step of the client; got only grows until the connection is closed.    *)
Client(step) ==
  /\ step
  /\ delivered' = delivered \o SubSeq(got', Len(got) + 1, Len(got'))
  /\ UNCHANGED fwdOnly

Restart ==
  /\ C!Restart
  /\ UNCHANGED <<forward_mode, use_interval>>
  /\ tcp_buffer' = <<>>
  /\ tcp_buffer_mutex' = "free"
  /\ usb_pc' = "read"
  /\ usb_data' = <<>>
  /\ flush_pc' \in {"sleep", "absent"}
  /\ read' = 0
  /\ accepted' = <<>>
  /\ delivered' = <<>>

Next ==
  \/ ReadDevice \/ BufferOrDrop \/ FlushLock \/ FlushIdle
  \/ CallDirect \/ CallFlush \/ DirectReturns \/ FlushReset
  \/ Client(C!ClientStep)
  \/ Restart

Spec == Init /\ [][Next]_bridgeVars

(* Every thread of the process runs; a thread waiting for a mutex gets it  *)
(* if it is free again and again; connect() ends in one way or the other.  *)
(* The server owes nothing.                                                *)
Fairness ==
  /\ SF_bridgeVars(BufferOrDrop)
  /\ WF_bridgeVars(FlushLock) /\ WF_bridgeVars(FlushIdle)
  /\ WF_bridgeVars(CallDirect) /\ WF_bridgeVars(CallFlush)
  /\ WF_bridgeVars(DirectReturns) /\ WF_bridgeVars(FlushReset)
  /\ SF_bridgeVars(Client(C!SendLock))
  /\ WF_bridgeVars(Client(C!SendSkips \/ C!SendOk \/ C!SendFails
                          \/ C!SendBadFd \/ C!SendStray))
  /\ WF_bridgeVars(Client(C!InvalidAddress \/ C!Connect))
  /\ WF_bridgeVars(Client(C!ServerRefuses \/ C!Connected))

FairSpec == Spec /\ Fairness

-----------------------------------------------------------------------------
(* End to end, and from one connection to the next: the server sees bytes  *)
(* of the device in the device's order, none twice.  What was flushed to   *)
(* a connection that then broke is not sent again, and what was buffered   *)
(* while there was none does not overtake.                                 *)
DeviceOrder == F!Increasing(delivered)

(* The reader comes back from forwarder_send, also when flush_thread calls *)
(* tcp_client_send while a connection is set up or has been given up,      *)
(* unless a server that does not read keeps a send blocked for ever.       *)
ReaderReturns ==
  []<>~C!SenderStuck => usb_pc # "read" ~> usb_pc = "read"

(* Under the same condition what is buffered leaves the buffer, whether    *)
(* there is a connection or not: the buffer never stays full.              *)
BufferLeaves ==
  []<>~C!SenderStuck =>
    (tcp_buffer # <<>> /\ flush_pc # "absent") ~> tcp_buffer = <<>>
=============================================================================
