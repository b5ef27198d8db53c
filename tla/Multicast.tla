----------------------------- MODULE Multicast -----------------------------
(***************************************************************************)
(* What the TCP server promises its clients, with no table, no descriptor  *)
(* and no mutex in it: one stream, of which each client is given the part  *)
(* that begins when it joins, without a gap, until it leaves or its        *)
(* connection fails.  The stream is offered piece by piece, and the next   *)
(* piece is not taken before every client has the one before.              *)
(***************************************************************************)
EXTENDS Naturals, Sequences

CONSTANT Clients

VARIABLES
  stream,   (* everything that was offered                                 *)
  data,     (* the last piece                                              *)
  busy,     (* TRUE while it is handed out                                 *)
  member,   (* the clients that have joined and whose connection is good   *)
  lacks,    (* those that have not been given the last piece yet           *)
  got       (* what each of them has been given                            *)

castVars == <<stream, data, busy, member, lacks, got>>

Init ==
  /\ stream = <<>>
  /\ data = <<>>
  /\ busy = FALSE
  /\ member = {}
  /\ lacks = {}
  /\ got = [c \in Clients |-> <<>>]

Offer ==
  /\ ~busy
  /\ busy' = TRUE
  /\ data' \in Seq(Nat)
  /\ stream' = stream \o data'
  /\ lacks' = member
  /\ UNCHANGED <<member, got>>

(* A client that joins while a piece waits to be handed out gets it too.   *)
Join(c) ==
  /\ member' = member \cup {c}
  /\ lacks' = IF busy THEN lacks \cup {c} ELSE lacks
  /\ UNCHANGED <<stream, data, busy, got>>

Deliver(c) ==
  /\ got' = [got EXCEPT ![c] = @ \o data]
  /\ lacks' = lacks \ {c}
  /\ UNCHANGED <<stream, data, busy, member>>

Leave(c) ==
  /\ member' = member \ {c}
  /\ lacks' = lacks \ {c}
  /\ got' = [got EXCEPT ![c] = <<>>]
  /\ UNCHANGED <<stream, data, busy>>

Done ==
  /\ busy
  /\ busy' = FALSE
  /\ lacks = {}
  /\ UNCHANGED <<stream, data, member, lacks, got>>

(* The process ends and is started again.                                  *)
Reset ==
  /\ stream' = <<>>
  /\ data' = <<>>
  /\ busy' = FALSE
  /\ member' = {}
  /\ lacks' = {}
  /\ got' = [c \in Clients |-> <<>>]

Next ==
  \/ Offer \/ Done \/ Reset
  \/ \E c \in Clients \ member : Join(c)
  \/ \E c \in lacks : Deliver(c)
  \/ \E c \in member : Leave(c)

CastSpec == Init /\ [][Next]_castVars

-----------------------------------------------------------------------------
EndsWith(s, t) == \E n \in 0..Len(s) : s = SubSeq(s, 1, n) \o t

(* What a client has been given, with the piece that it lacks.             *)
Due(c) == IF c \in lacks THEN got[c] \o data ELSE got[c]

(* Each client has the end of the stream, from where it joined, without a  *)
(* gap and without repetition; while a piece is handed out, up to that.    *)
Gapless == \A c \in member : EndsWith(stream, Due(c))
=============================================================================
