------------------------- MODULE ClientBridgeProofs -------------------------
(***************************************************************************)
(* Theorems about the program in client mode: what was proved of the       *)
(* forwarder and of the client, each alone, put together.                  *)
(***************************************************************************)
EXTENDS ClientBridge, SequenceTheorems, TLAPS

FP == INSTANCE ForwarderProofs
CP == INSTANCE TcpClientProofs WITH MaxCalls <- MaxInput

(* The server has only been sent what the forwarder has sent.              *)
Sent == delivered \in Seq(Nat) /\ FP!From(delivered, wire)

(* What a call sends is in order, and comes after all that the server has. *)
Call ==
  send_pc # "idle" =>
    /\ FP!From(send_data, wire)
    /\ F!Increasing(send_data)
    /\ FP!Older(delivered, send_data)

(* A call is made by the reader or by flush_thread, which waits for it.     *)
OneCall == send_pc # "idle" => usb_pc = "sending" \/ flush_pc = "sending"

(* The configuration names a transport.                                    *)
Connects == forward_mode # "none"

IInv == FP!IInv /\ CP!IInv /\ DeviceOrder /\ Sent /\ Call /\ OneCall
        /\ Connects

-----------------------------------------------------------------------------
(* The forwarder and the client of the bridge are those of the theorems.   *)
LEMMA SameForwarder ==
  /\ F!Init <=> FP!Init
  /\ [F!Next]_(F!fwdVars) <=> [FP!Next]_(FP!fwdVars)
BY DEF F!Init, FP!Init, F!Next, FP!Next, F!fwdVars, FP!fwdVars, F!Usb, FP!Usb,
       F!FlushThread, FP!FlushThread, F!ReadDevice, FP!ReadDevice,
       F!SendDirect, FP!SendDirect, F!DirectReturns, FP!DirectReturns,
       F!SendNowhere, FP!SendNowhere, F!SendBuffer, FP!SendBuffer,
       F!DropOverflow, FP!DropOverflow, F!FlushLock, FP!FlushLock,
       F!FlushIdle, FP!FlushIdle, F!FlushSend, FP!FlushSend,
       F!FlushReset, FP!FlushReset, F!FlushDiscard, FP!FlushDiscard,
       F!Fits, FP!Fits, F!MustFlush, FP!MustFlush,
       F!tcp_buffer_len, FP!tcp_buffer_len, F!configVars, FP!configVars,
       F!bufferVars, FP!bufferVars, F!usbVars, FP!usbVars

LEMMA SameOrder == \A s : F!Increasing(s) <=> FP!Increasing(s)
BY DEF F!Increasing, FP!Increasing

(* An instance has copies of the library's operators, too.                 *)
LEMMA SameSets ==
  /\ \A s : CP!IsFiniteSet(s) <=> IsFiniteSet(s)
  /\ \A s : CP!Cardinality(s) = C!Cardinality(s)
<1>1. \A s : CP!IsFiniteSet(s) <=> IsFiniteSet(s)
  BY DEF CP!IsFiniteSet, IsFiniteSet
<1>2. \A s : CP!Cardinality(s) = C!Cardinality(s)
  BY DEF CP!Cardinality, C!Cardinality
<1> QED
  BY <1>1, <1>2

(* What TcpClient assumes of its constants.                                *)
LEMMA ClientAssumption ==
  /\ NoFd \notin Fds /\ CP!IsFiniteSet(Fds)
  /\ MaxOther \in Nat /\ SendCapacity \in Nat \ {0} /\ MaxInput \in Nat
BY SameSets, ClientBridgeAssumption

LEMMA SameClient ==
  /\ C!Init <=> CP!Init
  /\ C!Restart <=> CP!Restart
  /\ \A data : C!SendCall(data) <=> CP!SendCall(data)
BY DEF C!Init, CP!Init, C!Restart, CP!Restart, C!SendCall, CP!SendCall,
       C!fdVars, CP!fdVars, C!linkVars, CP!linkVars

LEMMA SameClientStep == C!ClientStep <=> CP!ClientStep
BY SameSets DEF C!ClientStep, CP!ClientStep, C!ClientThread, CP!ClientThread,
       C!SendStep, CP!SendStep, C!Environment, CP!Environment,
       C!CreateSocket, CP!CreateSocket, C!CreateFails, CP!CreateFails,
       C!FreeFds, CP!FreeFds, C!CloseSocket, CP!CloseSocket,
       C!InvalidAddress, CP!InvalidAddress, C!Connect, CP!Connect,
       C!Connected, CP!Connected, C!ConnectFails, CP!ConnectFails,
       C!GiveUp, CP!GiveUp, C!RecvEnds, CP!RecvEnds,
       C!CloseLost, CP!CloseLost, C!Retry, CP!Retry,
       C!SendLock, CP!SendLock, C!SendReturn, CP!SendReturn,
       C!SendSkips, CP!SendSkips, C!SendingTo, CP!SendingTo,
       C!PeerFull, CP!PeerFull, C!SendOk, CP!SendOk,
       C!SendFails, CP!SendFails,
       C!SendBadFd, CP!SendBadFd, C!SendStray, CP!SendStray,
       C!ServerRefuses, CP!ServerRefuses,
       C!ServerComesOrGoes, CP!ServerComesOrGoes,
       C!PeerCloses, CP!PeerCloses, C!PeerResets, CP!PeerResets,
       C!PeerReads, CP!PeerReads, C!OtherOpens, CP!OtherOpens,
       C!OtherCloses, CP!OtherCloses, C!fdVars, CP!fdVars,
       C!linkVars, CP!linkVars, C!sendVars, CP!sendVars

LEMMA OrderNext == FP!IInv' => FP!WireInOrder'
BY FP!OrderIInv, ClientBridgeAssumption, PTL

(* The forwarder leaves its configuration alone.                           *)
LEMMA KeepConnects ==
  ASSUME Connects, [F!Next]_(F!fwdVars) PROVE Connects'
BY DEF Connects, F!Next, F!fwdVars, F!Usb, F!FlushThread, F!ReadDevice,
       F!SendDirect, F!DirectReturns, F!SendNowhere, F!SendBuffer,
       F!DropOverflow, F!FlushLock, F!FlushIdle, F!FlushSend, F!FlushReset,
       F!FlushDiscard, F!configVars

-----------------------------------------------------------------------------
(* The invariant.                                                          *)
LEMMA InitIInv == Init => IInv
<1> SUFFICES ASSUME Init PROVE IInv
  OBVIOUS
<1>1. FP!IInv
  BY FP!InitIInv, SameForwarder, ClientBridgeAssumption DEF Init
<1>2. CP!IInv
  BY CP!InitIInv, SameClient, ClientAssumption DEF Init
<1>3. delivered = <<>> /\ send_pc = "idle"
  BY DEF Init, C!Init
<1>4. DeviceOrder /\ Sent
  BY <1>3 DEF DeviceOrder, F!Increasing, Sent, FP!From
<1>5. Call /\ OneCall /\ Connects
  BY <1>3 DEF Init, Call, OneCall, Connects
<1> QED
  BY <1>1, <1>2, <1>4, <1>5 DEF IInv

LEMMA Types ==
  ASSUME IInv
  PROVE  /\ tcp_buffer \in Seq(Nat) /\ usb_data \in Seq(Nat)
         /\ wire \in Seq(Nat) /\ send_data \in Seq(Nat)
         /\ got \in Seq(Nat) /\ delivered \in Seq(Nat)
BY DEF IInv, Sent, FP!IInv, FP!TypeOK, CP!IInv, CP!TypeOK

(* The client has no part in the step.                                     *)
LEMMA ForwarderIInv ==
  ASSUME IInv, [F!Next]_(F!fwdVars), UNCHANGED <<clientOnly, wire, delivered>>,
         OneCall'
  PROVE  IInv'
<1> USE DEF clientOnly
<1>1. FP!IInv'
  BY FP!StepIInv, SameForwarder, ClientBridgeAssumption DEF IInv
<1>2. UNCHANGED CP!clientVars
  BY DEF CP!clientVars
<1>3. CP!IInv'
  BY <1>2, CP!StepIInv, ClientAssumption DEF IInv
<1>4. DeviceOrder' /\ Sent' /\ Call'
  BY DEF IInv, DeviceOrder, Sent, Call
<1> QED
  BY <1>1, <1>3, <1>4, KeepConnects DEF IInv

(* The steps of the forwarder with no call in them; the two that follow a  *)
(* call are only taken when it has returned.                               *)
LEMMA LocalIInv ==
  ASSUME IInv,
         ReadDevice \/ BufferOrDrop \/ FlushLock \/ FlushIdle
           \/ DirectReturns \/ FlushReset
  PROVE  IInv'
<1> USE DEF ReadDevice, BufferOrDrop, FlushLock, FlushIdle, DirectReturns,
            FlushReset, Returned, Locally, clientOnly,
            F!ReadDevice, F!SendBuffer, F!DropOverflow, F!FlushLock,
            F!FlushIdle, F!DirectReturns, F!FlushReset, F!usbVars
<1>1. F!Next /\ UNCHANGED <<clientOnly, wire, delivered>>
  BY DEF F!Next, F!Usb, F!FlushThread
<1>2. OneCall'
  BY DEF IInv, OneCall
<1> QED
  BY <1>1, <1>2, ForwarderIInv

(* The bytes of a call come after all that was sent before.                *)
LEMMA CallIInv ==
  ASSUME IInv, [F!Next]_(F!fwdVars), NEW data \in Seq(Nat), C!SendCall(data),
         UNCHANGED delivered, OneCall'
  PROVE  IInv'
<1>1. FP!IInv'
  BY FP!StepIInv, SameForwarder, ClientBridgeAssumption DEF IInv
<1>2. CP!IInv'
  BY CP!SendCallIInv, SameClient, ClientAssumption DEF IInv
<1>3. send_data' = data /\ wire' = wire \o data
  BY DEF C!SendCall
<1>4. F!Increasing(wire \o data)
  BY <1>1, <1>3, OrderNext DEF FP!WireInOrder, FP!Increasing, F!Increasing
<1>5. F!Increasing(data) /\ FP!Older(wire, data)
  BY <1>4, Types, SameOrder, FP!IncreasingParts, ClientBridgeAssumption
<1>6. FP!Older(delivered, data) /\ FP!From(delivered, wire \o data)
  BY <1>5, Types, FP!OlderFrom, FP!FromConcat, ClientBridgeAssumption
  DEF IInv, Sent
<1>7. FP!From(data, wire \o data)
  BY Types, FP!FromConcat, ClientBridgeAssumption
<1>8. DeviceOrder' /\ Sent' /\ Call'
  BY <1>3, <1>5, <1>6, <1>7 DEF IInv, DeviceOrder, Sent, Call
<1> QED
  BY <1>1, <1>2, <1>8, KeepConnects DEF IInv

(* What a step of the client adds to what the server has.                  *)
LEMMA Added ==
  ASSUME NEW s \in Seq(Nat), NEW t \in Seq(Nat), NEW u \in Seq(Nat)
  PROVE  /\ s \o SubSeq(t, Len(t) + 1, Len(t)) = s
         /\ s \o SubSeq(<<>>, Len(t) + 1, 0) = s
         /\ SubSeq(t \o u, Len(t) + 1, Len(t \o u)) = u
<1>1. /\ Len(t) \in Nat /\ Len(u) \in Nat /\ t \o u \in Seq(Nat)
      /\ Len(t \o u) = Len(t) + Len(u)
      /\ \A i \in 1..Len(u) : (t \o u)[Len(t) + i] = u[i]
  BY ConcatProperties, LenProperties
<1>2. s \o SubSeq(t, Len(t) + 1, Len(t)) = s
  <2>1. SubSeq(t, Len(t) + 1, Len(t)) = <<>>
    BY <1>1, SubSeqEmpty
  <2> QED
    BY <2>1, ConcatEmptySeq
<1>3. s \o SubSeq(<<>>, Len(t) + 1, 0) = s
  <2>1. SubSeq(<<>>, Len(t) + 1, 0) = <<>>
    BY <1>1, SubSeqEmpty, EmptySeq
  <2> QED
    BY <2>1, ConcatEmptySeq
<1>4. SubSeq(t \o u, Len(t) + 1, Len(t \o u)) = u
  <2> DEFINE w == t \o u
             m == Len(t) + 1
             n == Len(w)
             v == SubSeq(w, m, n)
  <2>1. /\ m \in Int /\ n \in Int /\ n - m + 1 = Len(u)
        /\ (IF m <= n THEN n - m + 1 ELSE 0) = Len(u)
    BY <1>1
  <2>2. \A i \in m..n : w[i] \in Nat
    <3>1. m..n \subseteq 1..Len(w)
      BY <1>1
    <3> QED
      BY <1>1, <3>1, ElementOfSeq
  <2>3. \A i \in 1..Len(u) : w[m + i - 1] = u[i]
    <3> SUFFICES ASSUME NEW i \in 1..Len(u) PROVE w[m + i - 1] = u[i]
      OBVIOUS
    <3>1. m + i - 1 = Len(t) + i
      BY <1>1
    <3> QED
      BY <1>1, <3>1
  <2> HIDE DEF w, m, n
  <2>4. /\ v \in Seq(Nat) /\ Len(v) = (IF m <= n THEN n - m + 1 ELSE 0)
        /\ \A i \in 1..n - m + 1 : v[i] = w[m + i - 1]
    BY <2>1, <2>2, SubSeqProperties
  <2> HIDE DEF v
  <2>5. Len(v) = Len(u) /\ \A i \in 1..Len(u) : v[i] = u[i]
    BY <2>1, <2>3, <2>4
  <2>6. v = u
    BY <2>4, <2>5, SeqEqual
  <2> QED
    BY <2>6 DEF v, w, m, n
<1> QED
  BY <1>2, <1>3, <1>4

(* The server is sent what it has not been sent, or nothing; what the      *)
(* connection it came on carried before is not sent again on the next.     *)
LEMMA ClientIInv == ASSUME IInv, Client(C!ClientStep) PROVE IInv'
<1>1. CP!ClientStep
  BY SameClientStep DEF Client
<1>2. CP!IInv'
  BY <1>1, CP!StepIInv, ClientAssumption DEF IInv, CP!Next
<1>3. CP!Delivers
  BY <1>1, CP!ClientStepDelivers, ClientAssumption
<1>4. /\ wire' = wire /\ send_data' = send_data
      /\ send_pc' # "idle" => send_pc # "idle"
  BY <1>3 DEF CP!Delivers
<1>5. UNCHANGED FP!fwdVars
  BY <1>4 DEF Client, fwdOnly, FP!fwdVars
<1>6. FP!IInv' /\ OneCall'
  BY <1>4, <1>5, FP!StutterIInv, ClientBridgeAssumption
  DEF IInv, OneCall, FP!fwdVars
<1>7. \/ delivered' = delivered
      \/ /\ send_pc # "idle" /\ send_pc' = "idle"
         /\ delivered' = delivered \o send_data
  <2>1. delivered' = delivered \o SubSeq(got', Len(got) + 1, Len(got'))
    BY DEF Client
  <2>2. CASE got' = got
    BY <2>1, <2>2, Types, Added
  <2>3. CASE got' = <<>>
    <3>1. Len(<<>>) = 0
      BY EmptySeq
    <3>2. delivered' = delivered \o SubSeq(<<>>, Len(got) + 1, 0)
      BY <2>1, <2>3, <3>1
    <3> QED
      BY <3>2, Types, Added
  <2>4. CASE /\ send_pc # "idle" /\ send_pc' = "idle"
             /\ got' = got \o send_data
    BY <2>1, <2>4, Types, Added
  <2> QED
    BY <1>3, <2>2, <2>3, <2>4 DEF CP!Delivers
<1>8. CASE delivered' = delivered
  <2>1. DeviceOrder' /\ Sent' /\ Call'
    BY <1>4, <1>8 DEF IInv, DeviceOrder, Sent, Call
  <2> QED
    BY <1>2, <1>6, <2>1 DEF IInv, Connects, Client, fwdOnly
<1>9. CASE /\ send_pc # "idle" /\ send_pc' = "idle"
           /\ delivered' = delivered \o send_data
  <2>1. /\ F!Increasing(delivered) /\ FP!From(delivered, wire)
        /\ F!Increasing(send_data) /\ FP!From(send_data, wire)
        /\ FP!Older(delivered, send_data)
    BY <1>9 DEF IInv, DeviceOrder, Sent, Call
  <2>2. F!Increasing(delivered \o send_data)
    BY <2>1, Types, SameOrder, FP!IncreasingConcat, ClientBridgeAssumption
  <2>3. FP!From(delivered \o send_data, wire)
    BY <2>1, Types, FP!FromConcat, ClientBridgeAssumption
  <2>4. delivered \o send_data \in Seq(Nat)
    BY Types, ConcatProperties
  <2>5. DeviceOrder' /\ Sent' /\ Call'
    BY <1>4, <1>9, <2>2, <2>3, <2>4 DEF DeviceOrder, Sent, Call
  <2> QED
    BY <1>2, <1>6, <2>5 DEF IInv, Connects, Client, fwdOnly
<1> QED
  BY <1>7, <1>8, <1>9

LEMMA RestartIInv == ASSUME IInv, Restart PROVE IInv'
<1>1. CP!IInv'
  BY CP!RestartIInv, SameClient, ClientAssumption DEF IInv, Restart
<1>2. wire' = <<>> /\ send_pc' = "idle" /\ delivered' = <<>>
  BY DEF Restart, C!Restart
<1>3. FP!IInv'
  BY <1>2, FP!RestartedIInv, ClientBridgeAssumption
  DEF IInv, Restart, FP!configVars
<1>4. DeviceOrder' /\ Sent' /\ Call' /\ OneCall'
  BY <1>2 DEF DeviceOrder, F!Increasing, Sent, FP!From, Call, OneCall
<1> QED
  BY <1>1, <1>3, <1>4 DEF IInv, Connects, Restart

LEMMA StepIInv == ASSUME IInv, [Next]_bridgeVars PROVE IInv'
<1>1. CASE ReadDevice \/ BufferOrDrop \/ FlushLock \/ FlushIdle
           \/ DirectReturns \/ FlushReset
  BY <1>1, LocalIInv
<1>2. CASE CallDirect
  <2>1. F!Next /\ OneCall'
    BY <1>2 DEF CallDirect, F!SendDirect, F!Next, F!Usb, OneCall
  <2> QED
    BY <1>2, <2>1, CallIInv, Types DEF CallDirect
<1>3. CASE CallFlush
  <2>1. F!Next /\ OneCall'
    BY <1>3 DEF CallFlush, F!FlushSend, F!Next, F!FlushThread, OneCall
  <2> QED
    BY <1>3, <2>1, CallIInv, Types DEF CallFlush
<1>4. CASE Client(C!ClientStep)
  BY <1>4, ClientIInv
<1>5. CASE Restart
  BY <1>5, RestartIInv
<1>6. CASE UNCHANGED bridgeVars
  <2>1. UNCHANGED <<F!fwdVars, clientOnly, wire, delivered>> /\ OneCall'
    BY <1>6 DEF bridgeVars, fwdOnly, clientOnly, F!fwdVars, IInv, OneCall
  <2> QED
    BY <2>1, ForwarderIInv
<1> QED
  BY <1>1, <1>2, <1>3, <1>4, <1>5, <1>6 DEF Next

(* The invariant holds in each state of the program.                       *)
THEOREM Invariance == Spec => []IInv
BY InitIInv, StepIInv, PTL DEF Spec

(* The server is given bytes in the order of the device, each once, on all *)
(* the connections of one life of the process taken together.              *)
THEOREM EndToEnd == Spec => []DeviceOrder
<1>1. IInv => DeviceOrder
  BY DEF IInv
<1> QED
  BY Invariance, <1>1, PTL

(* When forwarder_send or flush_thread is about to call tcp_client_send,   *)
(* no other call is under way.                                             *)
FreeToCall ==
  /\ usb_pc = "forward" /\ use_interval = 0 => send_pc = "idle"
  /\ flush_pc = "locked" /\ F!MustFlush => send_pc = "idle"

(* No two calls of tcp_client_send overlap.                             *)
THEOREM CallsAlone == Spec => []FreeToCall
<1>1. IInv => FreeToCall
  BY DEF IInv, OneCall, FP!IInv, FP!Modes, FreeToCall, F!MustFlush
<1> QED
  BY Invariance, <1>1, PTL

(* The buffer never overruns and loses no byte it has taken, with a client *)
(* behind it that blocks, that has no connection or that has given up.     *)
THEOREM BufferKept == Spec => [](F!BufferBounded /\ F!Conservation)
<1>1. IInv => F!BufferBounded /\ F!Conservation
  BY DEF IInv, FP!IInv, FP!BufferBounded, F!BufferBounded, FP!tcp_buffer_len,
         F!tcp_buffer_len, FP!Conservation, F!Conservation, FP!Unsent, F!Unsent
<1> QED
  BY Invariance, <1>1, PTL

(* With the chunks and whole buffers that the forwarder sends, too, each   *)
(* connection carries a contiguous piece of what was sent, and no byte     *)
(* goes to another part of the process while the thread lives.             *)
THEOREM ConnectionSound == Spec => [](C!NoGap /\ C!StrayOnlyAfterGivingUp)
<1>1. IInv => CP!NoGap
  BY CP!PieceIsNoGap, ClientAssumption DEF IInv, CP!IInv
<1>2. CP!NoGap => C!NoGap
  BY DEF CP!NoGap, C!NoGap
<1>3. IInv => C!StrayOnlyAfterGivingUp
  BY DEF IInv, CP!IInv, CP!StrayOnlyAfterGivingUp, C!StrayOnlyAfterGivingUp
<1> QED
  BY Invariance, <1>1, <1>2, <1>3, PTL

(* From the device to the server: as long as the connection works, it      *)
(* has carried all that forwarder_send has taken since it came up, but for *)
(* what the call under way holds and what is in the buffer.                *)
Complete ==
  sock \in {"up", "fin"} =>
    \E w \in Seq(Nat) : accepted = w \o ((got \o CP!Pending) \o F!Unsent)

LEMMA Grouped ==
  \A s, t, u \in Seq(Nat) : (s \o t) \o u = s \o (t \o u)
BY FP!Regroup, ClientBridgeAssumption

LEMMA CompleteIInv == ASSUME IInv PROVE Complete
<1> SUFFICES ASSUME sock \in {"up", "fin"}
             PROVE  \E w \in Seq(Nat) :
                      accepted = w \o ((got \o CP!Pending) \o F!Unsent)
  BY DEF Complete
<1>1. PICK w \in Seq(Nat) : wire = (w \o got) \o CP!Pending
  BY DEF IInv, CP!IInv, CP!NothingMissed
<1>2. CP!Pending \in Seq(Nat)
  BY Types, EmptySeq DEF CP!Pending
<1>3. F!Unsent \in Seq(Nat) /\ accepted = wire \o F!Unsent
  BY Types, EmptySeq
  DEF F!Unsent, IInv, Connects, FP!IInv, FP!Conservation, FP!Unsent
<1> DEFINE d == got \o CP!Pending
<1>4. d \in Seq(Nat)
  BY <1>2, Types, ConcatProperties
<1>5. wire = w \o d
  <2>1. w \in Seq(Nat) /\ got \in Seq(Nat)
    BY <1>1, Types
  <2>2. (w \o got) \o CP!Pending = w \o (got \o CP!Pending)
    BY <1>2, <2>1, Grouped, Zenon
  <2> QED
    BY <1>1, <2>2
<1> HIDE DEF d
<1>6. (w \o d) \o F!Unsent = w \o (d \o F!Unsent)
  BY <1>3, <1>4, Grouped, Zenon
<1>7. accepted = w \o (d \o F!Unsent)
  BY <1>3, <1>5, <1>6, Zenon
<1> QED
  BY <1>7 DEF d

(* No byte that was taken is left out on the way.                          *)
THEOREM NothingLeftOut == Spec => []Complete
BY Invariance, CompleteIInv, PTL
=============================================================================
