--------------------------- MODULE MCServerBridge ---------------------------
(* One byte more than the buffer holds, so that a flush, an overflow and a *)
(* second flush all happen.  One connection, which is made and lost any    *)
(* number of times: what several clients have to do with each other is     *)
(* checked on TcpServer for any sequence of calls.                         *)
EXTENDS ServerBridge
=============================================================================
