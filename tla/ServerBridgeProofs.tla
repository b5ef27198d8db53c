------------------------- MODULE ServerBridgeProofs -------------------------
(***************************************************************************)
(* Theorems about the program in server mode: what was proved of the       *)
(* forwarder and of the server, each alone, put together.                  *)
(***************************************************************************)
EXTENDS ServerBridge, SequenceTheorems, TLAPS

FP == INSTANCE ForwarderProofs
SP == INSTANCE TcpServerProofs WITH MaxCalls <- MaxInput

(* A client has only been sent what the forwarder has sent.                *)
Sent == \A c \in Conns : FP!From(got[c], wire)

(* What a call sends is in order, and a client that it has not come to yet *)
(* has only older bytes.                                                   *)
Call ==
  send_pc # "idle" =>
    /\ FP!From(send_data, wire)
    /\ F!Increasing(send_data)
    /\ \A c \in Conns : SP!Ahead(c) => FP!Older(got[c], send_data)

(* A call is made by the reader or by flush_thread, which waits for it.     *)
OneCall == send_pc # "idle" => usb_pc = "sending" \/ flush_pc = "sending"

(* The configuration names a transport.                                    *)
Connects == forward_mode # "none"

IInv == FP!IInv /\ SP!JInv /\ DeviceOrder /\ Sent /\ Call /\ OneCall
        /\ Connects

-----------------------------------------------------------------------------
(* The forwarder and the server of the bridge are those of the theorems.   *)
LEMMA SameForwarder ==
  /\ F!Init <=> FP!Init
  /\ [F!Next]_(F!fwdVars) <=> [FP!Next]_(FP!fwdVars)
BY DEF F!Init, FP!Init, F!Next, FP!Next, F!fwdVars, FP!fwdVars, F!Usb, FP!Usb,
       F!FlushThread, FP!FlushThread, F!ReadDevice, FP!ReadDevice,
       F!SendDirect, FP!SendDirect, F!DirectReturns, FP!DirectReturns,
       F!SendNowhere, FP!SendNowhere, F!SendBuffer, FP!SendBuffer,
       F!DropOverflow, FP!DropOverflow, F!FlushLock, FP!FlushLock,
       F!FlushIdle, FP!FlushIdle, F!FlushSend, FP!FlushSend,
       F!FlushReset, FP!FlushReset, F!FlushDiscard, FP!FlushDiscard,
       F!Fits, FP!Fits, F!MustFlush, FP!MustFlush,
       F!tcp_buffer_len, FP!tcp_buffer_len, F!configVars, FP!configVars,
       F!bufferVars, FP!bufferVars, F!usbVars, FP!usbVars

LEMMA SameOrder == \A s : F!Increasing(s) <=> FP!Increasing(s)
BY DEF F!Increasing, FP!Increasing

LEMMA SameServer ==
  /\ S!Init <=> SP!Init
  /\ S!Restart <=> SP!Restart
  /\ \A data : S!SendCall(data) <=> SP!SendCall(data)
BY DEF S!Init, SP!Init, S!Restart, SP!Restart, S!SendCall, SP!SendCall,
       S!acceptVars, SP!acceptVars, S!kernelVars, SP!kernelVars

LEMMA SameServerStep == S!ServerStep <=> SP!ServerStep
BY DEF S!ServerStep, SP!ServerStep, S!AcceptThread, SP!AcceptThread,
       S!SendStep, SP!SendStep, S!Handler, SP!Handler, S!Peer, SP!Peer,
       S!Listen, SP!Listen, S!ListenFails, SP!ListenFails,
       S!Register, SP!Register, S!TableFull, SP!TableFull,
       S!Reject, SP!Reject, S!Spawn, SP!Spawn, S!SpawnFails, SP!SpawnFails,
       S!Accept, SP!Accept, S!FreeFds, SP!FreeFds, S!CloseFd, SP!CloseFd,
       S!HasRoom, SP!HasRoom, S!client_count, SP!client_count,
       S!RecvEnds, SP!RecvEnds, S!Unregister, SP!Unregister,
       S!TakenOut, SP!TakenOut, S!SwapRemove, SP!SwapRemove,
       S!IsIndexOf, SP!IsIndexOf, S!HandlerCloses, SP!HandlerCloses,
       S!SendLock, SP!SendLock, S!SendReturn, SP!SendReturn,
       S!SendOk, SP!SendOk, S!SendFails, SP!SendFails,
       S!SendingTo, SP!SendingTo,
       S!Blocks, SP!Blocks, S!PeerConnects, SP!PeerConnects,
       S!PeerCloses, SP!PeerCloses, S!PeerResets, SP!PeerResets,
       S!PeerReads, SP!PeerReads, S!acceptVars, SP!acceptVars,
       S!kernelVars, SP!kernelVars, S!sendVars, SP!sendVars

LEMMA OrderNext == FP!IInv' => FP!WireInOrder'
BY FP!OrderIInv, ServerBridgeAssumption, PTL

(* The forwarder leaves its configuration alone.                           *)
LEMMA KeepConnects ==
  ASSUME Connects, [F!Next]_(F!fwdVars) PROVE Connects'
BY DEF Connects, F!Next, F!fwdVars, F!Usb, F!FlushThread, F!ReadDevice,
       F!SendDirect, F!DirectReturns, F!SendNowhere, F!SendBuffer,
       F!DropOverflow, F!FlushLock, F!FlushIdle, F!FlushSend, F!FlushReset,
       F!FlushDiscard, F!configVars

-----------------------------------------------------------------------------
(* The invariant.                                                          *)
LEMMA InitIInv == Init => IInv
<1> SUFFICES ASSUME Init PROVE IInv
  OBVIOUS
<1>1. FP!IInv
  BY FP!InitIInv, SameForwarder, ServerBridgeAssumption DEF Init
<1>2. SP!JInv
  BY SP!InitJInv, SameServer, ServerBridgeAssumption DEF Init
<1>3. Len(<<>>) = 0 /\ \A c \in Conns : got[c] = <<>>
  BY DEF Init, S!Init
<1>4. DeviceOrder /\ Sent
  BY <1>3 DEF DeviceOrder, F!Increasing, Sent, FP!From
<1>5. Call /\ OneCall /\ Connects
  BY DEF Init, S!Init, Call, OneCall, Connects
<1> QED
  BY <1>1, <1>2, <1>4, <1>5 DEF IInv

LEMMA Types ==
  ASSUME IInv
  PROVE  /\ tcp_buffer \in Seq(Nat) /\ usb_data \in Seq(Nat)
         /\ wire \in Seq(Nat) /\ send_data \in Seq(Nat)
         /\ got \in [Conns -> Seq(Nat)]
BY DEF IInv, FP!IInv, FP!TypeOK, SP!JInv, SP!IInv, SP!TypeOK

(* The server has no part in the step.                                     *)
LEMMA ForwarderIInv ==
  ASSUME IInv, [F!Next]_(F!fwdVars), UNCHANGED <<serverOnly, wire>>,
         OneCall'
  PROVE  IInv'
<1> USE DEF serverOnly
<1>1. FP!IInv'
  BY FP!StepIInv, SameForwarder, ServerBridgeAssumption DEF IInv
<1>2. UNCHANGED SP!serverVars
  BY DEF SP!serverVars
<1>3. SP!JInv'
  BY <1>2, SP!StepJInv, ServerBridgeAssumption DEF IInv
<1>4. DeviceOrder' /\ Sent'
  BY DEF IInv, DeviceOrder, Sent
<1>5. Call'
  BY DEF IInv, Call, SP!Ahead, SP!client_count
<1> QED
  BY <1>1, <1>3, <1>4, <1>5, KeepConnects DEF IInv

(* The bytes of a call come after all that was sent before, for each       *)
(* client.                                                                 *)
LEMMA CallIInv ==
  ASSUME IInv, [F!Next]_(F!fwdVars), NEW data \in Seq(Nat), S!SendCall(data),
         OneCall'
  PROVE  IInv'
<1>1. FP!IInv'
  BY FP!StepIInv, SameForwarder, ServerBridgeAssumption DEF IInv
<1>2. SP!JInv'
  BY SP!SendCallJInv, SameServer, ServerBridgeAssumption DEF IInv
<1>3. got' = got /\ send_data' = data /\ wire' = wire \o data
  BY DEF S!SendCall, S!kernelVars
<1>4. F!Increasing(wire \o data)
  BY <1>1, <1>3, OrderNext DEF FP!WireInOrder, FP!Increasing, F!Increasing
<1>5. F!Increasing(data) /\ FP!Older(wire, data)
  BY <1>4, Types, SameOrder, FP!IncreasingParts,
     ServerBridgeAssumption
<1>6. \A c \in Conns : /\ got[c] \in Seq(Nat) /\ FP!From(got[c], wire)
                       /\ FP!Older(got[c], data) /\ FP!From(got[c], wire \o data)
  BY <1>5, Types, FP!OlderFrom, FP!FromConcat,
     ServerBridgeAssumption DEF IInv, Sent
<1>7. FP!From(data, wire \o data)
  BY Types, FP!FromConcat, ServerBridgeAssumption
<1>8. DeviceOrder' /\ Sent'
  BY <1>3, <1>6 DEF IInv, DeviceOrder, Sent
<1>9. Call'
  BY <1>3, <1>5, <1>6, <1>7 DEF Call
<1> QED
  BY <1>1, <1>2, <1>8, <1>9, KeepConnects DEF IInv

(* A client is given what it has not been given, or nothing.               *)
LEMMA ServerIInv == ASSUME IInv, Server(S!ServerStep) PROVE IInv'
<1>1. SP!JInv' /\ SP!Delivers
  BY SP!ServerStepJInv, SP!ServerStepDelivers, SameServerStep,
     ServerBridgeAssumption DEF IInv, Server
<1>2. /\ wire' = wire /\ send_data' = send_data
      /\ send_pc' # "idle" => send_pc # "idle"
      /\ \A c \in Conns : SP!Kept(c) \/ SP!Handed(c)
  BY <1>1 DEF SP!Delivers
<1>3. UNCHANGED FP!fwdVars
  BY <1>2 DEF Server, fwdOnly, FP!fwdVars
<1>4. FP!IInv'
  BY <1>3, FP!StutterIInv, ServerBridgeAssumption DEF IInv
<1>5. ASSUME NEW c \in Conns
      PROVE  /\ F!Increasing(got'[c]) /\ FP!From(got'[c], wire)
             /\ send_pc' # "idle" /\ SP!Ahead(c)' => FP!Older(got'[c], send_data)
  <2>1. F!Increasing(got[c]) /\ FP!From(got[c], wire) /\ got[c] \in Seq(Nat)
    BY Types DEF IInv, DeviceOrder, Sent
  <2>2. CASE got'[c] = <<>>
    BY <2>2 DEF F!Increasing, FP!From, FP!Older
  <2>3. CASE got'[c] = got[c] /\ (SP!Ahead(c)' => SP!Ahead(c))
    BY <1>2, <2>1, <2>3 DEF IInv, Call
  <2>4. CASE SP!Handed(c)
    <3>1. /\ got'[c] = got[c] \o send_data /\ ~SP!Ahead(c)'
          /\ send_pc # "idle" /\ SP!Ahead(c)
      BY <2>4 DEF SP!Handed
    <3>2. /\ F!Increasing(send_data) /\ FP!From(send_data, wire)
          /\ FP!Older(got[c], send_data)
      BY <3>1 DEF IInv, Call
    <3>3. F!Increasing(got[c] \o send_data)
      BY <2>1, <3>2, Types, SameOrder, FP!IncreasingConcat,
         ServerBridgeAssumption
    <3>4. FP!From(got[c] \o send_data, wire)
      BY <2>1, <3>2, Types, FP!FromConcat, ServerBridgeAssumption
    <3> QED
      BY <3>1, <3>3, <3>4
  <2> QED
    BY <1>2, <2>2, <2>3, <2>4 DEF SP!Kept
<1>6. DeviceOrder' /\ Sent'
  BY <1>2, <1>5 DEF DeviceOrder, Sent
<1>7. Call' /\ OneCall'
  BY <1>2, <1>3, <1>5 DEF IInv, Call, OneCall, FP!fwdVars
<1> QED
  BY <1>1, <1>4, <1>6, <1>7 DEF IInv, Connects, Server, fwdOnly

LEMMA RestartIInv == ASSUME IInv, Restart PROVE IInv'
<1>1. SP!JInv'
  BY SP!RestartJInv, SameServer, ServerBridgeAssumption DEF IInv, Restart
<1>2. wire' = <<>> /\ send_pc' = "idle" /\ \A c \in Conns : got'[c] = <<>>
  BY DEF Restart, S!Restart
<1>3. FP!IInv'
  BY <1>2, FP!RestartedIInv, ServerBridgeAssumption
  DEF IInv, Restart, FP!configVars
<1>4. DeviceOrder' /\ Sent' /\ Call' /\ OneCall'
  BY <1>2 DEF DeviceOrder, F!Increasing, Sent, FP!From, Call, OneCall
<1> QED
  BY <1>1, <1>3, <1>4 DEF IInv, Connects, Restart

(* The steps of the forwarder with no call in them; the two that follow a  *)
(* call are only taken when it has returned.                               *)
LEMMA LocalIInv ==
  ASSUME IInv,
         ReadDevice \/ BufferOrDrop \/ FlushLock \/ FlushIdle
           \/ DirectReturns \/ FlushReset
  PROVE  IInv'
<1> USE DEF ReadDevice, BufferOrDrop, FlushLock, FlushIdle, DirectReturns,
            FlushReset, Returned, Locally, serverOnly,
            F!ReadDevice, F!SendBuffer, F!DropOverflow, F!FlushLock,
            F!FlushIdle, F!DirectReturns, F!FlushReset, F!usbVars
<1>1. F!Next /\ UNCHANGED <<serverOnly, wire>>
  BY DEF F!Next, F!Usb, F!FlushThread
<1>2. OneCall'
  BY DEF IInv, OneCall
<1> QED
  BY <1>1, <1>2, ForwarderIInv

LEMMA StepIInv == ASSUME IInv, [Next]_bridgeVars PROVE IInv'
<1>1. CASE ReadDevice \/ BufferOrDrop \/ FlushLock \/ FlushIdle
           \/ DirectReturns \/ FlushReset
  BY <1>1, LocalIInv
<1>2. CASE CallDirect
  <2>1. F!Next /\ OneCall'
    BY <1>2 DEF CallDirect, F!SendDirect, F!Next, F!Usb, OneCall
  <2> QED
    BY <1>2, <2>1, CallIInv, Types DEF CallDirect
<1>3. CASE CallFlush
  <2>1. F!Next /\ OneCall'
    BY <1>3 DEF CallFlush, F!FlushSend, F!Next, F!FlushThread, OneCall
  <2> QED
    BY <1>3, <2>1, CallIInv, Types DEF CallFlush
<1>4. CASE Server(S!ServerStep)
  BY <1>4, ServerIInv
<1>5. CASE Restart
  BY <1>5, RestartIInv
<1>6. CASE UNCHANGED bridgeVars
  <2>1. UNCHANGED <<F!fwdVars, serverOnly, wire>> /\ OneCall'
    BY <1>6 DEF bridgeVars, fwdOnly, serverOnly, F!fwdVars, IInv, OneCall
  <2> QED
    BY <2>1, ForwarderIInv
<1> QED
  BY <1>1, <1>2, <1>3, <1>4, <1>5, <1>6 DEF Next

(* The invariant holds in each state of the program.                       *)
THEOREM Invariance == Spec => []IInv
BY InitIInv, StepIInv, PTL DEF Spec

(* A client is given bytes in the order of the device, each once, whatever *)
(* the buffer, the chunks, the table, the other clients and the kernel do. *)
THEOREM EndToEnd == Spec => []DeviceOrder
<1>1. IInv => DeviceOrder
  BY DEF IInv
<1> QED
  BY Invariance, <1>1, PTL

(* When forwarder_send or flush_thread is about to call tcp_server_send,   *)
(* no other call is under way: that the two never overlap is no condition  *)
(* of the composition but what use_interval and tcp_buffer_mutex make so.  *)
FreeToCall ==
  /\ usb_pc = "forward" /\ use_interval = 0 => send_pc = "idle"
  /\ flush_pc = "locked" /\ F!MustFlush => send_pc = "idle"

(* No two calls of tcp_server_send overlap.                             *)
THEOREM CallsAlone == Spec => []FreeToCall
<1>1. IInv => FreeToCall
  BY DEF IInv, OneCall, FP!IInv, FP!Modes, FreeToCall, F!MustFlush
<1> QED
  BY Invariance, <1>1, PTL

(* The buffer never overruns and loses no byte it has taken, with a real   *)
(* server behind it that blocks and with the process started again.        *)
THEOREM BufferKept == Spec => [](F!BufferBounded /\ F!Conservation)
<1>1. IInv => F!BufferBounded /\ F!Conservation
  BY DEF IInv, FP!IInv, FP!BufferBounded, F!BufferBounded, FP!tcp_buffer_len,
         F!tcp_buffer_len, FP!Conservation, F!Conservation, FP!Unsent, F!Unsent
<1> QED
  BY Invariance, <1>1, PTL

-----------------------------------------------------------------------------
(* The server of the program implements Multicast, whatever chunks the     *)
(* forwarder makes of the bytes.                                           *)
LEMMA SameCast ==
  /\ S!Cast!Init <=> SP!Cast!Init
  /\ [S!Cast!Next]_(S!Cast!castVars) <=> [SP!Cast!Next]_(SP!Cast!castVars)
  /\ S!Cast!Gapless <=> SP!Cast!Gapless
BY DEF S!Cast!Init, SP!Cast!Init, S!Cast!Next, SP!Cast!Next,
       S!Cast!castVars, SP!Cast!castVars, S!Cast!Gapless, SP!Cast!Gapless,
       S!Cast!EndsWith, SP!Cast!EndsWith, S!Cast!Due, SP!Cast!Due,
       S!Cast!Offer, SP!Cast!Offer, S!Cast!Join, SP!Cast!Join,
       S!Cast!Deliver, SP!Cast!Deliver, S!Cast!Leave, SP!Cast!Leave,
       S!Cast!Done, SP!Cast!Done, S!Cast!Reset, SP!Cast!Reset,
       S!Members, SP!Members, S!Lacks, SP!Lacks, S!Given, SP!Given,
       S!Registered, SP!Registered, S!Ahead, SP!Ahead,
       S!client_count, SP!client_count

LEMMA StepMaps ==
  ASSUME IInv, [Next]_bridgeVars
  PROVE  [SP!Cast!Next]_(SP!Cast!castVars)
<1>1. SP!JInv
  BY DEF IInv
<1>2. CASE UNCHANGED <<serverOnly, wire>>
  <2>1. UNCHANGED SP!serverVars
    BY <1>2 DEF serverOnly, SP!serverVars
  <2> QED
    BY <1>1, <2>1, SP!StepMaps, ServerBridgeAssumption
<1>3. CASE ReadDevice \/ BufferOrDrop \/ FlushLock \/ FlushIdle
           \/ DirectReturns \/ FlushReset
  BY <1>2, <1>3
  DEF ReadDevice, BufferOrDrop, FlushLock, FlushIdle, DirectReturns,
      FlushReset, Returned, Locally, F!ReadDevice, F!SendBuffer,
      F!DropOverflow, F!FlushLock, F!FlushIdle, F!DirectReturns, F!FlushReset
<1>4. CASE CallDirect \/ CallFlush
  <2>1. PICK data \in Seq(Nat) : SP!SendCall(data)
    BY <1>4, Types, SameServer DEF CallDirect, CallFlush
  <2> QED
    BY <1>1, <2>1, SP!SendCallMaps, ServerBridgeAssumption
<1>5. CASE Server(S!ServerStep)
  BY <1>1, <1>5, SP!ServerStepMaps, SameServerStep, ServerBridgeAssumption
  DEF Server
<1>6. CASE Restart
  BY <1>6, SP!RestartMaps, SameServer, ServerBridgeAssumption DEF Restart
<1>7. CASE UNCHANGED bridgeVars
  BY <1>2, <1>7 DEF bridgeVars
<1> QED
  BY <1>3, <1>4, <1>5, <1>6, <1>7 DEF Next

(* Each behaviour of the program is, for the clients, one of the abstract  *)
(* multicast: what TcpServer promises for calls of one byte it keeps for   *)
(* the calls that the forwarder makes, with its chunks and whole buffers.  *)
THEOREM ServerRefines == Spec => S!ImplementsMulticast
<1>1. Init => S!Cast!Init
  BY SP!InitMaps, SameServer, SameCast, ServerBridgeAssumption DEF Init
<1>2. IInv /\ [Next]_bridgeVars => [S!Cast!Next]_(S!Cast!castVars)
  BY StepMaps, SameCast
<1> QED
  BY <1>1, <1>2, Invariance, PTL
  DEF Spec, S!ImplementsMulticast, S!Cast!CastSpec

(* So each client has, without a gap, the end of what the forwarder has    *)
(* sent since the client was registered, up to the call under way.         *)
THEOREM ClientsCaughtUp == Spec => []S!CaughtUp
<1>1. Init => SP!Cast!Init
  BY SP!InitMaps, SameServer, ServerBridgeAssumption DEF Init
<1>2. SP!Cast!CastSpec => []SP!Cast!Gapless
  BY SP!CastNoGaps, ServerBridgeAssumption
<1>3. SP!Cast!Gapless => S!CaughtUp
  BY SameCast DEF S!CaughtUp
<1> QED
  BY <1>1, <1>2, <1>3, StepMaps, Invariance, PTL
  DEF Spec, SP!Cast!CastSpec

(* From the device to the client: of the bytes that forwarder_send has     *)
(* taken, a client has been given those since it was registered, but for   *)
(* the ones that the call under way still has for it and the ones in the   *)
(* buffer.  None is lost in between.                                       *)
Complete ==
  \A c \in S!Members : \E w \in Seq(Nat) :
    accepted = w \o (S!Cast!Due(c) \o F!Unsent)

LEMMA Grouped ==
  \A s, t, u \in Seq(Nat) : (s \o t) \o u = s \o (t \o u)
BY FP!Regroup, ServerBridgeAssumption

LEMMA PrefixInSeq ==
  ASSUME NEW s \in Seq(Nat), NEW n \in 0..Len(s)
  PROVE  SubSeq(s, 1, n) \in Seq(Nat)
<1>1. Len(s) \in Nat /\ n \in Nat /\ n <= Len(s)
  BY LenProperties
<1>2. \A i \in 1..n : s[i] \in Nat
  BY <1>1, ElementOfSeq
<1> QED
  BY <1>1, <1>2, SubSeqProperties

LEMMA CompleteIInv == ASSUME IInv, S!Cast!Gapless PROVE Complete
<1> SUFFICES ASSUME NEW c \in S!Members
             PROVE  \E w \in Seq(Nat) :
                      accepted = w \o (S!Cast!Due(c) \o F!Unsent)
  BY DEF Complete
<1>1. c \in Conns /\ S!Given[c] \in Seq(Nat)
  BY Types DEF S!Members, S!Given
<1>2. S!Cast!Due(c) \in Seq(Nat)
  BY <1>1, Types, ConcatProperties DEF S!Cast!Due
<1>3. F!Unsent \in Seq(Nat) /\ accepted = wire \o F!Unsent
  BY Types, EmptySeq
  DEF F!Unsent, IInv, Connects, FP!IInv, FP!Conservation, FP!Unsent
<1>4. PICK n \in 0..Len(wire) : wire = SubSeq(wire, 1, n) \o S!Cast!Due(c)
  BY DEF S!Cast!Gapless, S!Cast!EndsWith
<1> DEFINE w == SubSeq(wire, 1, n)
<1>5. w \in Seq(Nat)
  BY Types, <1>4, PrefixInSeq
<1> HIDE DEF w
<1>6. (w \o S!Cast!Due(c)) \o F!Unsent = w \o (S!Cast!Due(c) \o F!Unsent)
  BY <1>2, <1>3, <1>5, Grouped, Zenon
<1>7. accepted = w \o (S!Cast!Due(c) \o F!Unsent)
  BY <1>3, <1>4, <1>6, Zenon DEF w
<1> QED
  BY <1>5, <1>7

(* No byte that was taken is left out on the way.                          *)
THEOREM NothingLeftOut == Spec => []Complete
<1>1. S!CaughtUp => S!Cast!Gapless
  BY DEF S!CaughtUp
<1> QED
  BY <1>1, Invariance, ClientsCaughtUp, CompleteIInv, PTL
=============================================================================
