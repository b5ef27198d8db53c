--------------------------- MODULE MCClientBridge ---------------------------
(* A buffer of two bytes and chunks of one or two, one byte more of input  *)
(* than the buffer holds; two descriptors, of which the rest of the        *)
(* process may hold one, so that a number is used again after giving up.   *)
EXTENDS ClientBridge
=============================================================================
