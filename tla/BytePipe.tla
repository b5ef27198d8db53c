------------------------------ MODULE BytePipe ------------------------------
(***************************************************************************)
(* What the forwarder promises the two sides it joins, with no thread, no  *)
(* mutex and no timer in it.  The reader of the USB device hands over      *)
(* chunks of bytes; the network side takes bytes away.  Between them at    *)
(* most Capacity bytes are held.  A chunk is taken whole or lost whole,    *)
(* bytes leave in the order in which they were taken, and every byte taken *)
(* leaves at most once.                                                    *)
(*                                                                         *)
(* The bytes of the device are numbered 1, 2, 3, ... in the order in which *)
(* they are read, so that a byte says where it belongs.                    *)
(***************************************************************************)
EXTENDS Naturals, Sequences

CONSTANTS
  Capacity,   (* bytes the pipe can hold                                   *)
  MaxChunk    (* bytes of the longest chunk a reader hands over            *)

VARIABLES
  open,       (* TRUE when there is a network side at all                  *)
  buffered,   (* TRUE when bytes are held back, FALSE when passed at once  *)
  read,       (* number of bytes the reader has read so far                *)
  offer,      (* the chunk the reader offers, <<>> when it offers none     *)
  accepted,   (* bytes the pipe has taken, in order                        *)
  pending,    (* bytes taken and still held                                *)
  wire        (* bytes handed to the network side, in order                *)

pipeVars == <<open, buffered, read, offer, accepted, pending, wire>>

Init ==
  /\ open \in BOOLEAN
  /\ buffered \in BOOLEAN
  /\ read = 0
  /\ offer = <<>>
  /\ accepted = <<>>
  /\ pending = <<>>
  /\ wire = <<>>

(* The reader obtains the next n bytes of the device and offers them.      *)
Offer(n) ==
  /\ offer = <<>>
  /\ offer' = [i \in 1..n |-> read + i]
  /\ read' = read + n
  /\ UNCHANGED <<open, buffered, accepted, pending, wire>>

(* The chunk is held back until a flush.                                   *)
Hold ==
  /\ buffered
  /\ Len(pending) + Len(offer) <= Capacity
  /\ accepted' = accepted \o offer
  /\ pending' = pending \o offer
  /\ offer' = <<>>
  /\ UNCHANGED <<open, buffered, read, wire>>

(* The chunk is passed on at once.                                         *)
Pass ==
  /\ open
  /\ ~buffered
  /\ accepted' = accepted \o offer
  /\ wire' = wire \o offer
  /\ offer' = <<>>
  /\ UNCHANGED <<open, buffered, read, pending>>

(* The chunk is lost: there is no room for all of it, or nowhere to go.    *)
Lose ==
  /\ IF buffered THEN Len(pending) + Len(offer) > Capacity ELSE ~open
  /\ offer' = <<>>
  /\ UNCHANGED <<open, buffered, read, accepted, pending, wire>>

(* Everything held leaves; with no network side it leaves for nowhere.     *)
Flush ==
  /\ pending # <<>>
  /\ pending' = <<>>
  /\ wire' = IF open THEN wire \o pending ELSE wire
  /\ UNCHANGED <<open, buffered, read, offer, accepted>>

Next ==
  \/ \E n \in 0..MaxChunk : Offer(n)
  \/ Hold \/ Pass \/ Lose \/ Flush

PipeSpec == Init /\ [][Next]_pipeVars
=============================================================================
