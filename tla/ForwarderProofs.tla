-------------------------- MODULE ForwarderProofs --------------------------
(***************************************************************************)
(* Theorems about Forwarder, for every buffer size, chunk length and       *)
(* amount of input.                                                        *)
(***************************************************************************)
EXTENDS Forwarder, SequenceTheorems, TLAPS

(* The mutex is held exactly in flush_thread's section.                    *)
MutexHeld == tcp_buffer_mutex = "flush" <=> flush_pc \in {"locked", "sending"}

(* A flush is only sent with the interval on, a transport, and bytes; a    *)
(* direct send only with the interval off and a transport; and the one     *)
(* setting leaves the buffer alone, the lack of a transport the wire.      *)
Modes ==
  /\ flush_pc = "sending" => /\ use_interval # 0
                             /\ forward_mode # "none"
                             /\ tcp_buffer # <<>>
  /\ usb_pc = "sending" => use_interval = 0 /\ forward_mode # "none"
  /\ use_interval = 0 => tcp_buffer = <<>>
  /\ forward_mode = "none" => wire = <<>>

(* The bytes before the chunk that is on offer.                            *)
before == IF usb_pc = "forward" THEN read - Len(usb_data) ELSE read

(* The accepted bytes increase, and come before the chunk on offer, which  *)
(* holds the last bytes read.                                              *)
Numbered ==
  /\ Increasing(accepted)
  /\ \A i \in 1..Len(accepted) : accepted[i] <= before
  /\ usb_pc = "forward" =>
       \A i \in 1..Len(usb_data) : usb_data[i] = before + i

IInv == TypeOK /\ MutexHeld /\ Modes /\ BufferBounded /\ Conservation /\ Numbered

-----------------------------------------------------------------------------
(* The first part of an increasing sequence increases.                     *)
LEMMA IncreasingPrefix ==
  ASSUME NEW s \in Seq(Nat), NEW t \in Seq(Nat), Increasing(s \o t)
  PROVE  Increasing(s)
<1> SUFFICES ASSUME NEW i \in 1..Len(s), NEW j \in 1..Len(s), i < j
             PROVE  s[i] < s[j]
  BY DEF Increasing
<1>1. /\ Len(s) \in Nat /\ Len(t) \in Nat
      /\ Len(s \o t) = Len(s) + Len(t)
      /\ (s \o t)[i] = s[i] /\ (s \o t)[j] = s[j]
  BY ConcatProperties, LenProperties
<1>2. i \in 1..Len(s \o t) /\ j \in 1..Len(s \o t)
  BY <1>1
<1>3. (s \o t)[i] < (s \o t)[j]
  BY <1>2 DEF Increasing
<1> QED
  BY <1>1, <1>3

(* Bytes numbered from k + 1 on, put after bytes up to k.                  *)
LEMMA IncreasingAppend ==
  ASSUME NEW s \in Seq(Nat), NEW t \in Seq(Nat), NEW k \in Int,
         Increasing(s),
         \A i \in 1..Len(s) : s[i] <= k,
         \A i \in 1..Len(t) : t[i] = k + i
  PROVE  /\ Increasing(s \o t)
         /\ \A i \in 1..Len(s \o t) : (s \o t)[i] <= k + Len(t)
<1> DEFINE u == s \o t
<1>1. /\ Len(s) \in Nat /\ Len(t) \in Nat
      /\ Len(u) = Len(s) + Len(t)
      /\ \A i \in 1..Len(s) : u[i] = s[i] /\ u[i] \in Nat
      /\ \A i \in 1..Len(u) : ~(i <= Len(s)) => u[i] = t[i - Len(s)]
  BY ConcatProperties, LenProperties, ElementOfSeq
<1>2. \A i \in 1..Len(u) : ~(i <= Len(s)) => u[i] = k + (i - Len(s))
  BY <1>1
<1>3. \A i \in 1..Len(u) : u[i] <= k + Len(t)
  BY <1>1, <1>2
<1>4. ASSUME NEW i \in 1..Len(u), NEW j \in 1..Len(u), i < j
      PROVE  u[i] < u[j]
  <2>1. CASE j <= Len(s)
    BY <1>1, <1>4, <2>1 DEF Increasing
  <2>2. CASE i <= Len(s) /\ ~(j <= Len(s))
    <3>1. i \in 1..Len(s) /\ j \in Nat /\ Len(s) \in Nat /\ Len(s) < j
      BY <1>1, <2>2
    <3>2. u[i] <= k /\ u[i] \in Nat
      BY <1>1, <3>1
    <3>3. u[j] = k + (j - Len(s))
      BY <1>2, <2>2
    <3> HIDE DEF u
    <3> QED
      BY ONLY <3>1, <3>2, <3>3, k \in Int
  <2>3. CASE ~(i <= Len(s))
    BY <1>1, <1>2, <1>4, <2>3
  <2> QED
    BY <1>1, <2>1, <2>2, <2>3
<1> QED
  BY <1>3, <1>4 DEF Increasing

(* Concatenation is associative.                                           *)
LEMMA Regroup ==
  ASSUME NEW s \in Seq(Nat), NEW t \in Seq(Nat), NEW u \in Seq(Nat)
  PROVE  (s \o t) \o u = s \o (t \o u)
  BY ConcatAssociative, SMTT(30)

(* What ReadDevice puts on offer is a sequence of numbers.                 *)
LEMMA ChunkIsSeq ==
  ASSUME NEW r \in Nat, NEW n \in Nat
  PROVE  /\ [i \in 1..n |-> r + i] \in Seq(Nat)
         /\ Len([i \in 1..n |-> r + i]) = n
<1>1. [i \in 1..n |-> r + i] \in [1..n -> Nat]
  OBVIOUS
<1>2. [i \in 1..n |-> r + i] \in Seq(Nat)
  BY <1>1, SeqDef
<1>3. DOMAIN [i \in 1..n |-> r + i] = 1..n
  OBVIOUS
<1> QED
  BY <1>2, <1>3, LenProperties

-----------------------------------------------------------------------------
LEMMA InitIInv == Init => IInv
<1> SUFFICES ASSUME Init PROVE IInv
  OBVIOUS
<1>1. <<>> \in Seq(Nat) /\ Len(<<>>) = 0 /\ <<>> \o <<>> = <<>>
  BY EmptySeq, ConcatEmptySeq
<1> QED
  BY <1>1, ForwarderAssumption
  DEF Init, IInv, TypeOK, MutexHeld, Modes, BufferBounded, tcp_buffer_len,
      Conservation, Unsent, Numbered, before, Increasing

(* Each action of the reader keeps the invariant.                          *)
LEMMA ReadDeviceIInv ==
  ASSUME IInv, NEW n \in 0..MaxChunk, ReadDevice(n)
  PROVE  IInv'
<1> DEFINE chunk == [i \in 1..n |-> read + i]
<1>1. n \in Nat /\ read \in Nat /\ accepted \in Seq(Nat)
  BY ForwarderAssumption DEF IInv, TypeOK
<1>2. chunk \in Seq(Nat) /\ Len(chunk) = n
  BY <1>1, ChunkIsSeq
<1>3. /\ usb_pc = "read" /\ usb_pc' = "forward"
      /\ usb_data' = chunk /\ read' = read + n
  BY DEF ReadDevice
<1>4. UNCHANGED <<forward_mode, use_interval, tcp_buffer, tcp_buffer_mutex,
                  flush_pc, accepted, wire>>
  BY DEF ReadDevice, configVars, bufferVars
<1>5. before = read /\ before' = read
  BY <1>1, <1>2, <1>3 DEF before
<1>6. TypeOK'
  BY <1>1, <1>2, <1>3, <1>4 DEF IInv, TypeOK
<1>7. Numbered'
  BY <1>1, <1>2, <1>3, <1>4, <1>5 DEF IInv, Numbered, Increasing
<1>8. MutexHeld' /\ Modes' /\ BufferBounded' /\ Conservation'
  BY <1>3, <1>4
  DEF IInv, MutexHeld, Modes, BufferBounded, tcp_buffer_len, Conservation, Unsent
<1> QED
  BY <1>6, <1>7, <1>8 DEF IInv

(* A chunk that is accepted, by the wire or by the buffer: the numbering   *)
(* goes on.                                                                *)
LEMMA AcceptNumbered ==
  ASSUME IInv, usb_pc = "forward", usb_pc' # "forward",
         accepted' = accepted \o usb_data, read' = read
  PROVE  Numbered' /\ accepted' \in Seq(Nat)
<1>1. /\ accepted \in Seq(Nat) /\ usb_data \in Seq(Nat) /\ read \in Nat
      /\ Len(usb_data) \in Nat
  BY LenProperties DEF IInv, TypeOK
<1>2. before \in Int /\ before + Len(usb_data) = read /\ before' = read
  BY <1>1 DEF before
<1>3. /\ Increasing(accepted \o usb_data)
      /\ \A i \in 1..Len(accepted \o usb_data) :
           (accepted \o usb_data)[i] <= before + Len(usb_data)
  BY <1>1, <1>2, IncreasingAppend DEF IInv, Numbered
<1>4. Numbered'
  BY <1>2, <1>3 DEF Numbered, Increasing
<1> QED
  BY <1>1, <1>4, ConcatProperties

(* A step that leaves what was read and accepted alone, and puts no new    *)
(* chunk on offer.                                                         *)
LEMMA KeepNumbered ==
  ASSUME IInv, UNCHANGED <<accepted, read, usb_data>>,
         usb_pc' # "forward" \/ usb_pc' = usb_pc
  PROVE  Numbered'
<1>1. /\ accepted \in Seq(Nat) /\ usb_data \in Seq(Nat) /\ read \in Nat
      /\ Len(usb_data) \in Nat /\ Len(accepted) \in Nat
      /\ \A i \in 1..Len(accepted) : accepted[i] \in Nat
  BY LenProperties, ElementOfSeq DEF IInv, TypeOK
<1>2. CASE usb_pc' = usb_pc
  BY <1>2 DEF IInv, Numbered, before, Increasing
<1>3. CASE usb_pc' # "forward"
  BY <1>1, <1>3 DEF IInv, Numbered, before, Increasing
<1> QED
  BY <1>2, <1>3

LEMMA SendDirectIInv == ASSUME IInv, SendDirect PROVE IInv'
<1> USE DEF SendDirect, configVars, bufferVars
<1>1. Numbered' /\ accepted' \in Seq(Nat)
  BY AcceptNumbered
<1>2. wire \in Seq(Nat) /\ usb_data \in Seq(Nat) /\ accepted \in Seq(Nat)
  BY DEF IInv, TypeOK
<1>3. TypeOK'
  BY <1>1, <1>2, ConcatProperties DEF IInv, TypeOK
<1>4. tcp_buffer = <<>> /\ Unsent = <<>> /\ Unsent' = <<>>
  BY DEF IInv, Modes, Unsent
<1>5. accepted = wire
  BY <1>2, <1>4, ConcatEmptySeq DEF IInv, Conservation
<1>6. Conservation'
  <2>1. accepted' = wire' /\ wire' \in Seq(Nat)
    BY <1>3, <1>5 DEF TypeOK
  <2> QED
    BY <1>4, <2>1, ConcatEmptySeq DEF Conservation
<1>7. MutexHeld' /\ Modes' /\ BufferBounded'
  BY DEF IInv, MutexHeld, Modes, BufferBounded, tcp_buffer_len
<1> QED
  BY <1>1, <1>3, <1>6, <1>7 DEF IInv

LEMMA DirectReturnsIInv == ASSUME IInv, DirectReturns PROVE IInv'
<1> USE DEF DirectReturns, configVars, bufferVars
<1>1. Numbered'
  BY KeepNumbered
<1> QED
  BY <1>1
  DEF IInv, TypeOK, MutexHeld, Modes, BufferBounded, tcp_buffer_len,
      Conservation, Unsent

LEMMA SendNowhereIInv == ASSUME IInv, SendNowhere PROVE IInv'
<1> USE DEF SendNowhere, configVars, bufferVars
<1>1. Numbered'
  BY KeepNumbered
<1> QED
  BY <1>1
  DEF IInv, TypeOK, MutexHeld, Modes, BufferBounded, tcp_buffer_len,
      Conservation, Unsent

LEMMA DropOverflowIInv == ASSUME IInv, DropOverflow PROVE IInv'
<1> USE DEF DropOverflow, configVars, bufferVars
<1>1. Numbered'
  BY KeepNumbered
<1> QED
  BY <1>1
  DEF IInv, TypeOK, MutexHeld, Modes, BufferBounded, tcp_buffer_len,
      Conservation, Unsent

(* With the mutex free no flush is under way, so what is appended to the   *)
(* buffer is appended to what has not left yet.                            *)
LEMMA SendBufferIInv == ASSUME IInv, SendBuffer PROVE IInv'
<1> USE DEF SendBuffer, configVars
<1>1. Numbered' /\ accepted' \in Seq(Nat)
  BY AcceptNumbered
<1>2. wire \in Seq(Nat) /\ usb_data \in Seq(Nat) /\ tcp_buffer \in Seq(Nat)
  BY DEF IInv, TypeOK
<1>3. /\ tcp_buffer' \in Seq(Nat)
      /\ Len(tcp_buffer') = Len(tcp_buffer) + Len(usb_data)
  BY <1>2, ConcatProperties
<1>4. TypeOK'
  BY <1>1, <1>3 DEF IInv, TypeOK
<1>5. BufferBounded'
  BY <1>3 DEF Fits, BufferBounded, tcp_buffer_len
<1>6. flush_pc # "sending" /\ flush_pc' # "sending"
  BY DEF IInv, MutexHeld
<1>7. Conservation'
  <2> SUFFICES ASSUME forward_mode' # "none"
               PROVE  accepted' = wire' \o tcp_buffer'
    BY <1>6 DEF Conservation, Unsent
  <2>1. accepted = wire \o tcp_buffer
    BY <1>6 DEF IInv, Conservation, Unsent
  <2>2. (wire \o tcp_buffer) \o usb_data = wire \o (tcp_buffer \o usb_data)
    BY <1>2, Regroup
  <2> QED
    BY <2>1, <2>2
<1>8. MutexHeld' /\ Modes'
  BY <1>6 DEF IInv, MutexHeld, Modes
<1> QED
  BY <1>1, <1>4, <1>5, <1>7, <1>8 DEF IInv

-----------------------------------------------------------------------------
(* Each action of flush_thread keeps the invariant.                        *)
LEMMA FlushLockIInv == ASSUME IInv, FlushLock PROVE IInv'
<1> USE DEF FlushLock, configVars, usbVars
<1>1. Numbered'
  BY KeepNumbered
<1> QED
  BY <1>1
  DEF IInv, TypeOK, MutexHeld, Modes, BufferBounded, tcp_buffer_len,
      Conservation, Unsent

LEMMA FlushIdleIInv == ASSUME IInv, FlushIdle PROVE IInv'
<1> USE DEF FlushIdle, configVars, usbVars
<1>1. Numbered'
  BY KeepNumbered
<1> QED
  BY <1>1
  DEF IInv, TypeOK, MutexHeld, Modes, BufferBounded, tcp_buffer_len,
      Conservation, Unsent

LEMMA FlushSendIInv == ASSUME IInv, FlushSend PROVE IInv'
<1> USE DEF FlushSend, configVars, bufferVars, usbVars
<1>1. Numbered'
  BY KeepNumbered
<1>2. wire \in Seq(Nat) /\ tcp_buffer \in Seq(Nat)
  BY DEF IInv, TypeOK
<1>3. wire' \in Seq(Nat)
  BY <1>2, ConcatProperties
<1>4. TypeOK'
  BY <1>3 DEF IInv, TypeOK
<1>5. tcp_buffer # <<>>
  BY <1>2, EmptySeq DEF MustFlush, tcp_buffer_len
<1>6. Conservation'
  <2>1. accepted = wire \o tcp_buffer
    BY DEF IInv, Conservation, Unsent
  <2>2. wire' \o <<>> = wire'
    BY <1>3, ConcatEmptySeq
  <2> QED
    BY <2>1, <2>2 DEF Conservation, Unsent
<1>7. MutexHeld' /\ Modes' /\ BufferBounded'
  BY <1>5 DEF IInv, MutexHeld, Modes, MustFlush, BufferBounded, tcp_buffer_len
<1> QED
  BY <1>1, <1>4, <1>6, <1>7 DEF IInv

(* The buffer is emptied: what is left of the invariant.                   *)
LEMMA EmptiedIInv ==
  ASSUME IInv, UNCHANGED <<forward_mode, use_interval, usb_pc, usb_data, read,
                           accepted, wire>>,
         tcp_buffer' = <<>>, tcp_buffer_mutex' = "free", flush_pc' = "sleep",
         Unsent = <<>> \/ forward_mode = "none"
  PROVE  IInv'
<1>1. Numbered'
  BY KeepNumbered
<1>2. <<>> \in Seq(Nat) /\ Len(<<>>) = 0
  BY EmptySeq
<1>3. TypeOK' /\ MutexHeld' /\ Modes'
  BY <1>2 DEF IInv, TypeOK, MutexHeld, Modes
<1>4. BufferBounded'
  BY <1>2, ForwarderAssumption DEF BufferBounded, tcp_buffer_len
<1>5. Conservation'
  BY DEF IInv, Conservation, Unsent
<1> QED
  BY <1>1, <1>3, <1>4, <1>5 DEF IInv

LEMMA FlushResetIInv == ASSUME IInv, FlushReset PROVE IInv'
<1>1. Unsent = <<>>
  BY DEF FlushReset, Unsent
<1> QED
  BY <1>1, EmptiedIInv DEF FlushReset, configVars, usbVars

LEMMA FlushDiscardIInv == ASSUME IInv, FlushDiscard PROVE IInv'
  BY EmptiedIInv DEF FlushDiscard, configVars, usbVars

-----------------------------------------------------------------------------
LEMMA StutterIInv == ASSUME IInv, UNCHANGED fwdVars PROVE IInv'
  BY DEF fwdVars, IInv, TypeOK, MutexHeld, Modes, BufferBounded,
         tcp_buffer_len, Conservation, Unsent, Numbered, before, Increasing

LEMMA StepIInv == ASSUME IInv, [Next]_fwdVars PROVE IInv'
<1>1. ASSUME Usb PROVE IInv'
  BY <1>1, ReadDeviceIInv, SendDirectIInv, DirectReturnsIInv,
     SendNowhereIInv, SendBufferIInv, DropOverflowIInv DEF Usb
<1>2. ASSUME FlushThread PROVE IInv'
  BY <1>2, FlushLockIInv, FlushIdleIInv, FlushSendIInv, FlushResetIInv,
     FlushDiscardIInv DEF FlushThread
<1> QED
  BY <1>1, <1>2, StutterIInv DEF Next

(* The program starts again with the same configuration.                   *)
LEMMA RestartedIInv ==
  ASSUME IInv, UNCHANGED configVars,
         tcp_buffer' = <<>>, tcp_buffer_mutex' = "free",
         usb_pc' = "read", usb_data' = <<>>, flush_pc' \in {"sleep", "absent"},
         read' = 0, accepted' = <<>>, wire' = <<>>
  PROVE  IInv'
<1>1. <<>> \in Seq(Nat) /\ Len(<<>>) = 0 /\ <<>> \o <<>> = <<>>
  BY EmptySeq, ConcatEmptySeq
<1> QED
  BY <1>1, ForwarderAssumption
  DEF configVars, IInv, TypeOK, MutexHeld, Modes, BufferBounded,
      tcp_buffer_len, Conservation, Unsent, Numbered, before, Increasing

(* The invariant is inductive.                                             *)
THEOREM Invariance == Spec => []IInv
BY InitIInv, StepIInv, PTL DEF Spec

(* Type correctness.                                                       *)
THEOREM TypeCorrect == Spec => []TypeOK
<1>1. IInv => TypeOK
  BY DEF IInv
<1> QED
  BY Invariance, <1>1, PTL

(* memcpy stays within tcp_buffer, for every size and sequence of chunks.  *)
THEOREM BufferSafe == Spec => []BufferBounded
<1>1. IInv => BufferBounded
  BY DEF IInv
<1> QED
  BY Invariance, <1>1, PTL

(* Every accepted byte has been handed over once and in order, or is in    *)
(* the buffer.                                                             *)
THEOREM NothingLost == Spec => []Conservation
<1>1. IInv => Conservation
  BY DEF IInv
<1> QED
  BY Invariance, <1>1, PTL

LEMMA OrderIInv == ASSUME IInv PROVE WireInOrder
<1>1. CASE forward_mode = "none"
  <2>1. wire = <<>>
    BY <1>1 DEF IInv, Modes
  <2> QED
    BY <2>1, EmptySeq DEF WireInOrder, Increasing
<1>2. CASE forward_mode # "none"
  <2>1. wire \in Seq(Nat) /\ Unsent \in Seq(Nat)
    BY EmptySeq DEF IInv, TypeOK, Unsent
  <2>2. Increasing(wire \o Unsent)
    BY <1>2 DEF IInv, Conservation, Numbered
  <2> QED
    BY <2>1, <2>2, IncreasingPrefix DEF WireInOrder
<1> QED
  BY <1>1, <1>2

(* The bytes of the wire are in the order of the device.                   *)
THEOREM InOrder == Spec => []WireInOrder
BY Invariance, OrderIInv, PTL

(* The TCP side is never entered by two threads at once.                   *)
THEOREM OneSender == Spec => []SingleSender
<1>1. IInv => SingleSender
  BY DEF IInv, Modes, SingleSender
<1> QED
  BY Invariance, <1>1, PTL

-----------------------------------------------------------------------------
(* The forwarder implements the abstract pipe.                             *)
LEMMA InitMaps == Init => Pipe!Init
  BY DEF Init, Pipe!Init, Unsent

LEMMA ReaderMaps == ASSUME IInv, Usb PROVE [Pipe!Next]_(Pipe!pipeVars)
<1> USE DEF Pipe!Next, Pipe!pipeVars
<1>1. ASSUME NEW n \in 0..MaxChunk, ReadDevice(n) PROVE Pipe!Offer(n)
  BY <1>1 DEF ReadDevice, Pipe!Offer, Unsent, configVars, bufferVars
<1>2. CASE SendDirect
  <2>1. Pipe!Pass
    BY <1>2 DEF SendDirect, Pipe!Pass, Unsent, configVars, bufferVars
  <2> QED
    BY <2>1
<1>3. CASE DirectReturns
  BY <1>3 DEF DirectReturns, Unsent, configVars, bufferVars
<1>4. CASE SendNowhere
  <2>1. Pipe!Lose
    BY <1>4 DEF SendNowhere, Pipe!Lose, Unsent, configVars, bufferVars
  <2> QED
    BY <2>1
<1>5. ASSUME tcp_buffer_mutex = "free" PROVE Unsent = tcp_buffer
  BY <1>5 DEF IInv, MutexHeld, Unsent
<1>6. CASE SendBuffer
  <2>1. Unsent = tcp_buffer /\ Unsent' = tcp_buffer'
    BY <1>5, <1>6 DEF SendBuffer, Unsent, IInv, MutexHeld
  <2>2. Pipe!Hold
    BY <1>6, <2>1
    DEF SendBuffer, Fits, tcp_buffer_len, Pipe!Hold, configVars
  <2> QED
    BY <2>2
<1>7. CASE DropOverflow
  <2>1. Unsent = tcp_buffer /\ Unsent' = Unsent
    BY <1>5, <1>7 DEF DropOverflow, Unsent, bufferVars
  <2>2. Len(tcp_buffer) + Len(usb_data) > BufferSize
    <3>1. Len(tcp_buffer) \in Nat /\ Len(usb_data) \in Nat
      BY LenProperties DEF IInv, TypeOK
    <3> QED
      BY <1>7, <3>1, ForwarderAssumption DEF DropOverflow, Fits, tcp_buffer_len
  <2>3. Pipe!Lose
    BY <1>7, <2>1, <2>2 DEF DropOverflow, Pipe!Lose, configVars
  <2> QED
    BY <2>3
<1> QED
  BY <1>1, <1>2, <1>3, <1>4, <1>6, <1>7 DEF Usb

LEMMA FlushMaps == ASSUME IInv, FlushThread PROVE [Pipe!Next]_(Pipe!pipeVars)
<1> USE DEF Pipe!Next, Pipe!pipeVars, configVars, usbVars
<1>1. CASE FlushLock
  BY <1>1 DEF FlushLock, Unsent
<1>2. CASE FlushIdle
  BY <1>2 DEF FlushIdle, Unsent
<1>3. MustFlush => tcp_buffer # <<>>
  BY EmptySeq DEF MustFlush, tcp_buffer_len
<1>4. CASE FlushSend
  <2>1. Pipe!Flush
    BY <1>3, <1>4 DEF FlushSend, Unsent, Pipe!Flush
  <2> QED
    BY <2>1
<1>5. CASE FlushReset
  BY <1>5 DEF FlushReset, Unsent
<1>6. CASE FlushDiscard
  <2>1. Pipe!Flush
    BY <1>3, <1>6 DEF FlushDiscard, Unsent, Pipe!Flush
  <2> QED
    BY <2>1
<1> QED
  BY <1>1, <1>2, <1>4, <1>5, <1>6 DEF FlushThread

(* Every behaviour of the forwarder is one of the pipe: FlushSend is the   *)
(* pipe's Flush, and the return from the transport a stuttering step.      *)
THEOREM Refinement == Spec => ImplementsPipe
<1>1. IInv /\ [Next]_fwdVars => [Pipe!Next]_(Pipe!pipeVars)
  <2> SUFFICES ASSUME IInv, [Next]_fwdVars PROVE [Pipe!Next]_(Pipe!pipeVars)
    OBVIOUS
  <2>1. CASE UNCHANGED fwdVars
    BY <2>1 DEF fwdVars, Pipe!pipeVars, Unsent
  <2> QED
    BY <2>1, ReaderMaps, FlushMaps DEF Next
<1> QED
  BY InitMaps, <1>1, Invariance, PTL DEF Spec, ImplementsPipe, Pipe!PipeSpec

-----------------------------------------------------------------------------
(* For what comes after the forwarder: sequences in order.                 *)

(* Each element of s is one of t.                                          *)
From(s, t) == \A i \in 1..Len(s) : \E j \in 1..Len(t) : t[j] = s[i]

(* The elements of s are smaller than those of t.                          *)
Older(s, t) == \A i \in 1..Len(s), j \in 1..Len(t) : s[i] < t[j]

(* Put after a sequence with smaller elements.                             *)
LEMMA IncreasingConcat ==
  ASSUME NEW s \in Seq(Nat), NEW t \in Seq(Nat),
         Increasing(s), Increasing(t), Older(s, t)
  PROVE  Increasing(s \o t)
<1> DEFINE u == s \o t
<1>1. /\ Len(s) \in Nat /\ Len(t) \in Nat
      /\ Len(u) = Len(s) + Len(t)
      /\ \A i \in 1..Len(s) : u[i] = s[i]
      /\ \A i \in 1..Len(t) : u[Len(s) + i] = t[i]
  BY ConcatProperties, LenProperties
<1> HIDE DEF u
<1>2. ASSUME NEW i \in 1..Len(u), NEW j \in 1..Len(u), i < j
      PROVE  u[i] < u[j]
  <2>1. CASE j <= Len(s)
    <3>1. i \in 1..Len(s) /\ j \in 1..Len(s)
      BY <1>1, <1>2, <2>1
    <3> QED
      BY <1>1, <1>2, <3>1 DEF Increasing
  <2>2. CASE i <= Len(s) /\ ~(j <= Len(s))
    <3>1. i \in 1..Len(s) /\ j - Len(s) \in 1..Len(t)
      BY <1>1, <2>2
    <3>2. j = Len(s) + (j - Len(s))
      BY <1>1
    <3>3. u[j] = t[j - Len(s)]
      BY <1>1, <3>1, <3>2
    <3> QED
      BY <1>1, <3>1, <3>3 DEF Older
  <2>3. CASE ~(i <= Len(s))
    <3>1. i - Len(s) \in 1..Len(t) /\ j - Len(s) \in 1..Len(t)
      BY <1>1, <1>2, <2>3
    <3>2. i = Len(s) + (i - Len(s)) /\ j = Len(s) + (j - Len(s))
      BY <1>1
    <3>3. u[i] = t[i - Len(s)] /\ u[j] = t[j - Len(s)]
      BY <1>1, <3>1, <3>2
    <3>4. i - Len(s) < j - Len(s)
      BY <1>1, <1>2
    <3> QED
      BY <3>1, <3>3, <3>4 DEF Increasing
  <2> QED
    BY <1>1, <2>1, <2>2, <2>3
<1> QED
  BY <1>2 DEF Increasing, u

(* Taken apart again.                                                      *)
LEMMA IncreasingParts ==
  ASSUME NEW s \in Seq(Nat), NEW t \in Seq(Nat), Increasing(s \o t)
  PROVE  Increasing(t) /\ Older(s, t)
<1> DEFINE u == s \o t
<1>1. /\ Len(s) \in Nat /\ Len(t) \in Nat
      /\ Len(u) = Len(s) + Len(t)
      /\ \A i \in 1..Len(s) : u[i] = s[i]
      /\ \A i \in 1..Len(t) : u[Len(s) + i] = t[i]
  BY ConcatProperties, LenProperties
<1> HIDE DEF u
<1>2. \A i, j \in 1..Len(u) : i < j => u[i] < u[j]
  BY DEF Increasing, u
<1>3. ASSUME NEW i \in 1..Len(t), NEW j \in 1..Len(t), i < j
      PROVE  t[i] < t[j]
  <2>1. /\ Len(s) + i \in 1..Len(u) /\ Len(s) + j \in 1..Len(u)
        /\ Len(s) + i < Len(s) + j
    BY <1>1, <1>3
  <2> QED
    BY <1>1, <1>2, <2>1
<1>4. ASSUME NEW i \in 1..Len(s), NEW j \in 1..Len(t)
      PROVE  s[i] < t[j]
  <2>1. /\ i \in 1..Len(u) /\ Len(s) + j \in 1..Len(u)
        /\ i < Len(s) + j
    BY <1>1
  <2> QED
    BY <1>1, <1>2, <2>1
<1> QED
  BY <1>3, <1>4 DEF Increasing, Older

(* What is older than a sequence is older than each choice from it.        *)
LEMMA OlderFrom ==
  ASSUME NEW r \in Seq(Nat), NEW s \in Seq(Nat), NEW t \in Seq(Nat),
         From(r, s), Older(s, t)
  PROVE  Older(r, t)
<1> SUFFICES ASSUME NEW i \in 1..Len(r), NEW j \in 1..Len(t)
             PROVE  r[i] < t[j]
  BY DEF Older
<1>1. PICK k \in 1..Len(s) : s[k] = r[i]
  BY DEF From
<1> QED
  BY <1>1 DEF Older

LEMMA FromConcat ==
  ASSUME NEW s \in Seq(Nat), NEW t \in Seq(Nat), NEW u \in Seq(Nat)
  PROVE  /\ From(s, u) => From(s, u \o t)
         /\ From(t, u \o t)
         /\ From(s, u) /\ From(t, u) => From(s \o t, u)
<1>1. /\ Len(s) \in Nat /\ Len(t) \in Nat /\ Len(u) \in Nat
      /\ Len(u \o t) = Len(u) + Len(t) /\ Len(s \o t) = Len(s) + Len(t)
      /\ \A i \in 1..Len(u) : (u \o t)[i] = u[i]
      /\ \A i \in 1..Len(t) : (u \o t)[Len(u) + i] = t[i]
      /\ \A i \in 1..Len(s) : (s \o t)[i] = s[i]
      /\ \A i \in 1..Len(t) : (s \o t)[Len(s) + i] = t[i]
  BY ConcatProperties, LenProperties
<1>2. From(s, u) => From(s, u \o t)
  <2> SUFFICES ASSUME From(s, u), NEW i \in 1..Len(s)
               PROVE  \E j \in 1..Len(u \o t) : (u \o t)[j] = s[i]
    BY DEF From
  <2>1. PICK j \in 1..Len(u) : u[j] = s[i]
    BY DEF From
  <2>2. j \in 1..Len(u \o t) /\ (u \o t)[j] = s[i]
    BY <1>1, <2>1
  <2> QED
    BY <2>2
<1>3. From(t, u \o t)
  <2> SUFFICES ASSUME NEW i \in 1..Len(t)
               PROVE  \E j \in 1..Len(u \o t) : (u \o t)[j] = t[i]
    BY DEF From
  <2>1. Len(u) + i \in 1..Len(u \o t) /\ (u \o t)[Len(u) + i] = t[i]
    BY <1>1
  <2> QED
    BY <2>1
<1>4. From(s, u) /\ From(t, u) => From(s \o t, u)
  <2> SUFFICES ASSUME From(s, u), From(t, u), NEW i \in 1..Len(s \o t)
               PROVE  \E j \in 1..Len(u) : u[j] = (s \o t)[i]
    BY DEF From
  <2>1. CASE i \in 1..Len(s)
    BY <1>1, <2>1 DEF From
  <2>2. CASE i \notin 1..Len(s)
    <3>1. i - Len(s) \in 1..Len(t) /\ i = Len(s) + (i - Len(s))
      BY <1>1, <2>2
    <3>2. (s \o t)[i] = t[i - Len(s)]
      BY <1>1, <3>1
    <3> QED
      BY <3>1, <3>2 DEF From
  <2> QED
    BY <2>1, <2>2
<1> QED
  BY <1>2, <1>3, <1>4
=============================================================================
