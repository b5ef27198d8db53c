---------------------------- MODULE MCWebConfig ----------------------------
(* Two uploads at a time, of four texts: two complete configurations with  *)
(* the same wireless network, one with a static address for it and one     *)
(* with DHCP, and different addresses for the wired one, the second with a *)
(* string that is too long; JSON that lacks a key; and an empty text, for  *)
(* which no setting is applied.  A text that is not JSON is what a torn    *)
(* save leaves.                                                            *)
EXTENDS WebConfig

CONSTANTS p1, p2, home, moved, lacking, empty, net

MCPosts == {p1, p2}
MCTexts == {home, moved, lacking, empty}
MCSsid == [t \in {home, moved} |-> net]
=============================================================================
