---------------------------- MODULE MCTcpServer ----------------------------
(* Three connections for a table of two slots: the table fills, a third    *)
(* client is turned away, and a client that leaves makes another move in   *)
(* the table.  Two descriptors more than slots would hide reuse, so there  *)
(* are as many descriptors as connections.                                 *)
(*                                                                         *)
(* For progress, two connections and two slots, and a send buffer that     *)
(* holds one of the two bytes that are sent: the second send to a client   *)
(* that does not read blocks, with the mutex held, and the other client's  *)
(* handler or the accept thread waits behind it (MCTcpServerLive).         *)
EXTENDS TcpServer, TLC

Symmetry == Permutations(Conns) \cup Permutations(Fds)
=============================================================================
