---------------------------- MODULE MCForwarder ----------------------------
(* Bounds for TLC: a buffer of 3 bytes, chunks of at most 2, so that a     *)
(* chunk can fit exactly, fit with room to spare, or overflow by one; 6    *)
(* bytes of input fill the buffer twice.                                   *)
EXTENDS Forwarder
=============================================================================
