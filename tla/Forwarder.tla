----------------------------- MODULE Forwarder -----------------------------
(***************************************************************************)
(* forwarder.c: the buffer between the thread that reads the USB device    *)
(* and the TCP side, and the flush thread that empties it every interval.  *)
(*                                                                         *)
(* Two threads run here: the one USB reader main() starts, inside          *)
(* forwarder_send, and flush_thread.  A critical section that makes no     *)
(* blocking call is one action, guarded by its mutex being free;           *)
(* flush_thread holds the mutex across the call of tcp_server_send or      *)
(* tcp_client_send, which may block, so its section is split there.  The   *)
(* transport itself is not here: a call begins, and at some later time it  *)
(* returns.                                                                *)
(*                                                                         *)
(* A definition named X_Something, here and in the other modules, is X     *)
(* with a bug a change of the code could bring in.  No specification uses  *)
(* it: it is put in the place of X to see that a property notices.         *)
(***************************************************************************)
EXTENDS Naturals, Sequences

CONSTANTS
  BufferSize,   (* TCP_BUFFER_SIZE                                         *)
  MaxChunk,     (* longest chunk a reader passes to forwarder_send         *)
  MaxInput      (* bound of the model: bytes the device produces           *)

ASSUME ForwarderAssumption ==
  /\ BufferSize \in Nat \ {0}
  /\ MaxChunk \in Nat \ {0}
  /\ MaxInput \in Nat

VARIABLES
  forward_mode,      (* "none", "server" or "client"                       *)
  use_interval,      (* 0: send at once; otherwise buffer and flush        *)
  tcp_buffer,        (* tcp_buffer[0 .. tcp_buffer_len - 1]                *)
  tcp_buffer_mutex,  (* "free", or "flush" while flush_thread holds it     *)
  usb_pc,            (* where the reader thread is                         *)
  usb_data,          (* the chunk the reader is forwarding                 *)
  flush_pc,          (* where flush_thread is; "absent" if not created     *)
  read,              (* bytes read from the device                         *)
  accepted,          (* history: bytes buffered or passed on               *)
  wire               (* history: bytes given to the transport              *)

configVars == <<forward_mode, use_interval>>
bufferVars == <<tcp_buffer, tcp_buffer_mutex>>
usbVars    == <<usb_pc, usb_data, read>>
fwdVars    == <<forward_mode, use_interval, tcp_buffer, tcp_buffer_mutex,
                usb_pc, usb_data, flush_pc, read, accepted, wire>>

tcp_buffer_len == Len(tcp_buffer)

(* After forwarder_init, which main() completes before it starts a reader: *)
(* the configuration is fixed, and flush_thread runs unless its creation   *)
(* failed.                                                                 *)
Init ==
  /\ forward_mode \in {"none", "server", "client"}
  /\ use_interval \in {0, 1}
  /\ tcp_buffer = <<>>
  /\ tcp_buffer_mutex = "free"
  /\ usb_pc = "read"
  /\ usb_data = <<>>
  /\ flush_pc \in {"sleep", "absent"}
  /\ read = 0
  /\ accepted = <<>>
  /\ wire = <<>>

-----------------------------------------------------------------------------
(* The reader: usb_com_start and usb_hid_start call forwarder_send with    *)
(* what the device gave them.  A chunk of no bytes is possible in both.    *)
ReadDevice(n) ==
  /\ usb_pc = "read"
  /\ read + n <= MaxInput
  /\ usb_data' = [i \in 1..n |-> read + i]
  /\ read' = read + n
  /\ usb_pc' = "forward"
  /\ UNCHANGED <<configVars, bufferVars, flush_pc, accepted, wire>>

(* forwarder_send with the interval disabled: the call of the transport.   *)
SendDirect ==
  /\ usb_pc = "forward"
  /\ use_interval = 0
  /\ forward_mode # "none"
  /\ accepted' = accepted \o usb_data
  /\ wire' = wire \o usb_data
  /\ usb_pc' = "sending"
  /\ UNCHANGED <<configVars, bufferVars, usb_data, flush_pc, read>>

(* ... and its return.                                                     *)
DirectReturns ==
  /\ usb_pc = "sending"
  /\ usb_pc' = "read"
  /\ UNCHANGED <<configVars, bufferVars, usb_data, flush_pc, read, accepted,
                 wire>>

(* Interval disabled and no transport configured: the chunk is dropped.    *)
SendNowhere ==
  /\ usb_pc = "forward"
  /\ use_interval = 0
  /\ forward_mode = "none"
  /\ usb_pc' = "read"
  /\ UNCHANGED <<configVars, bufferVars, usb_data, flush_pc, read, accepted,
                 wire>>

Fits_AnyRoom(data) == tcp_buffer_len < BufferSize

Fits(data) == tcp_buffer_len + Len(data) <= BufferSize

(* Copying as much of the chunk as there is room for.                      *)
SendBuffer_Truncates ==
  /\ usb_pc = "forward"
  /\ use_interval # 0
  /\ tcp_buffer_mutex = "free"
  /\ LET n == IF Fits(usb_data) THEN Len(usb_data) ELSE BufferSize - tcp_buffer_len
         part == SubSeq(usb_data, 1, n)
     IN  tcp_buffer' = tcp_buffer \o part /\ accepted' = accepted \o part
  /\ usb_pc' = "read"
  /\ UNCHANGED <<configVars, tcp_buffer_mutex, usb_data, flush_pc, read, wire>>

(* forwarder_send with the interval enabled: lock, memcpy, unlock.         *)
SendBuffer ==
  /\ usb_pc = "forward"
  /\ use_interval # 0
  /\ tcp_buffer_mutex = "free"
  /\ Fits(usb_data)
  /\ tcp_buffer' = tcp_buffer \o usb_data
  /\ accepted' = accepted \o usb_data
  /\ usb_pc' = "read"
  /\ UNCHANGED <<configVars, tcp_buffer_mutex, usb_data, flush_pc, read, wire>>

(* The early return without the unlock.                                    *)
DropOverflow_NoUnlock ==
  /\ usb_pc = "forward"
  /\ use_interval # 0
  /\ tcp_buffer_mutex = "free"
  /\ ~Fits(usb_data)
  /\ tcp_buffer_mutex' = "reader"
  /\ usb_pc' = "read"
  /\ UNCHANGED <<configVars, tcp_buffer, usb_data, flush_pc, read, accepted,
                 wire>>

(* Waiting for room instead of dropping the chunk.                         *)
DropOverflow_Waits == usb_pc = "forward" /\ ~Fits(usb_data) /\ UNCHANGED fwdVars

(* ... lock, no room for the whole chunk: drop it, unlock.                 *)
DropOverflow ==
  /\ usb_pc = "forward"
  /\ use_interval # 0
  /\ tcp_buffer_mutex = "free"
  /\ ~Fits(usb_data)
  /\ usb_pc' = "read"
  /\ UNCHANGED <<configVars, bufferVars, usb_data, flush_pc, read, accepted,
                 wire>>

-----------------------------------------------------------------------------
(* flush_thread: the sleep is over and the mutex is taken.                 *)
FlushLock ==
  /\ flush_pc = "sleep"
  /\ tcp_buffer_mutex = "free"
  /\ tcp_buffer_mutex' = "flush"
  /\ flush_pc' = "locked"
  /\ UNCHANGED <<configVars, tcp_buffer, usbVars, accepted, wire>>

MustFlush_Always == TRUE
MustFlush_OffByOne == use_interval # 0 /\ tcp_buffer_len > 1

MustFlush == use_interval # 0 /\ tcp_buffer_len > 0

(* Nothing to do: unlock and sleep.                                        *)
FlushIdle ==
  /\ flush_pc = "locked"
  /\ ~MustFlush
  /\ tcp_buffer_mutex' = "free"
  /\ flush_pc' = "sleep"
  /\ UNCHANGED <<configVars, tcp_buffer, usbVars, accepted, wire>>

(* Unlocking before the call and not after it.                             *)
FlushSend_Unlocks ==
  /\ flush_pc = "locked"
  /\ MustFlush
  /\ forward_mode # "none"
  /\ wire' = wire \o tcp_buffer
  /\ tcp_buffer_mutex' = "free"
  /\ flush_pc' = "sending"
  /\ UNCHANGED <<configVars, tcp_buffer, usbVars, accepted>>

(* The call of tcp_server_send or tcp_client_send, the mutex held.         *)
FlushSend ==
  /\ flush_pc = "locked"
  /\ MustFlush
  /\ forward_mode # "none"
  /\ wire' = wire \o tcp_buffer
  /\ flush_pc' = "sending"
  /\ UNCHANGED <<configVars, bufferVars, usbVars, accepted>>

(* Forgetting to reset tcp_buffer_len.                                     *)
FlushReset_KeepsBytes ==
  /\ flush_pc = "sending"
  /\ tcp_buffer_mutex' = "free"
  /\ flush_pc' = "sleep"
  /\ UNCHANGED <<configVars, tcp_buffer, usbVars, accepted, wire>>

(* The call has returned, whatever it returned: reset, unlock, sleep.      *)
FlushReset ==
  /\ flush_pc = "sending"
  /\ tcp_buffer' = <<>>
  /\ tcp_buffer_mutex' = "free"
  /\ flush_pc' = "sleep"
  /\ UNCHANGED <<configVars, usbVars, accepted, wire>>

(* No transport configured: the buffer is reset all the same.              *)
FlushDiscard ==
  /\ flush_pc = "locked"
  /\ MustFlush
  /\ forward_mode = "none"
  /\ tcp_buffer' = <<>>
  /\ tcp_buffer_mutex' = "free"
  /\ flush_pc' = "sleep"
  /\ UNCHANGED <<configVars, usbVars, accepted, wire>>

-----------------------------------------------------------------------------
Usb == \/ \E n \in 0..MaxChunk : ReadDevice(n)
       \/ SendDirect \/ DirectReturns \/ SendNowhere
       \/ SendBuffer \/ DropOverflow

FlushThread == FlushLock \/ FlushIdle \/ FlushSend \/ FlushReset \/ FlushDiscard

Next == Usb \/ FlushThread

Spec == Init /\ [][Next]_fwdVars

(* The scheduler runs both threads and the transport returns from its      *)
(* calls.  The reader is strongly fair when it waits for the mutex:        *)
(* flush_thread sleeps between two holds, so the mutex is free again and   *)
(* again.  Nothing makes the device produce input.                         *)
Fairness ==
  /\ WF_fwdVars(FlushLock) /\ WF_fwdVars(FlushIdle)
  /\ WF_fwdVars(FlushSend) /\ WF_fwdVars(FlushReset) /\ WF_fwdVars(FlushDiscard)
  /\ WF_fwdVars(SendDirect) /\ WF_fwdVars(DirectReturns) /\ WF_fwdVars(SendNowhere)
  /\ SF_fwdVars(SendBuffer) /\ SF_fwdVars(DropOverflow)

FairSpec == Spec /\ Fairness

-----------------------------------------------------------------------------
(* Every variable has its type.                                            *)
TypeOK ==
  /\ forward_mode \in {"none", "server", "client"}
  /\ use_interval \in {0, 1}
  /\ tcp_buffer \in Seq(Nat)
  /\ tcp_buffer_mutex \in {"free", "flush"}
  /\ usb_pc \in {"read", "forward", "sending"}
  /\ usb_data \in Seq(Nat)
  /\ flush_pc \in {"sleep", "locked", "sending", "absent"}
  /\ read \in Nat
  /\ accepted \in Seq(Nat)
  /\ wire \in Seq(Nat)

(* memcpy never writes past the end of tcp_buffer, whatever the sequence   *)
(* of chunks and flushes: what is buffered fits.                           *)
BufferBounded == tcp_buffer_len <= BufferSize

(* What flush_thread has handed to the transport stays in tcp_buffer until *)
(* the call returns; these are the bytes that have not left yet.           *)
Unsent == IF flush_pc = "sending" THEN <<>> ELSE tcp_buffer

(* Every byte taken from the reader is handed to the transport exactly     *)
(* once and in order, or is still in the buffer.  Holding the mutex across *)
(* the blocking call is what makes it so: a chunk appended between the     *)
(* call and the reset of tcp_buffer_len would be wiped out.                *)
Conservation == forward_mode # "none" => accepted = wire \o Unsent

Increasing(s) == \A i, j \in 1..Len(s) : i < j => s[i] < s[j]

(* Bytes reach the transport in the order in which the device gave them,   *)
(* and no byte reaches it twice, across flushes, drops and direct sends.   *)
WireInOrder == Increasing(wire)

(* At most one thread is inside the transport: the TCP modules have a      *)
(* single sender, although two threads of the program can call them.       *)
SingleSender == ~(usb_pc = "sending" /\ flush_pc = "sending")

(* forwarder_send returns: a reader is not kept from its device for ever   *)
(* by the flush thread or by a full buffer.                                *)
ReaderReturns == usb_pc # "read" ~> usb_pc = "read"

(* The forwarder is a BytePipe: the bytes flush_thread is sending have     *)
(* already left the pipe, the chunk inside forwarder_send is on offer      *)
(* until it is taken or dropped.                                           *)
Pipe == INSTANCE BytePipe WITH
          Capacity <- BufferSize,
          open     <- forward_mode # "none",
          buffered <- use_interval # 0,
          offer    <- IF usb_pc = "forward" THEN usb_data ELSE <<>>,
          pending  <- Unsent

ImplementsPipe == Pipe!PipeSpec
=============================================================================
