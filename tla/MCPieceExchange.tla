-------------------------- MODULE MCPieceExchange --------------------------
(***************************************************************************)
(* Small instances of PieceExchange for TLC.                               *)
(***************************************************************************)
EXTENDS PieceExchange, TLC

CONSTANTS p1, p2, w1, w2

MCPeers == {p1, p2}
MCWorkers == {w1, w2}

(* Safety only: peers and threads are told apart by nothing but their names.*)
MCSymmetry == Permutations(MCPeers) \cup Permutations(MCWorkers)

PeerFaults == {"handshake", "bad", "stack"}
OnlyUnknown == {"unknown"}
OnlyHandshake == {"handshake"}
NoFaults == {}
FullBitfield == {Pieces}

=============================================================================
