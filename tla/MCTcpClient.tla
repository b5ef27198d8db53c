---------------------------- MODULE MCTcpClient ----------------------------
(* Two descriptors, so that a number the client has closed can be given to *)
(* another part of the process while the client opens the other one, and   *)
(* so that the process can run out of them when others hold both.          *)
EXTENDS TcpClient
=============================================================================
