----------------------------- MODULE MCPeerPool -----------------------------
(***************************************************************************)
(* A small instance of PeerPool for TLC.                                   *)
(***************************************************************************)
EXTENDS PeerPool

CONSTANTS p1, p2, p3

=============================================================================
