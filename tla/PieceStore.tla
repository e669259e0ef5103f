----------------------------- MODULE PieceStore -----------------------------
(***************************************************************************)
(* What the download expects of the files of a torrent: a piece that is    *)
(* written fills up with its own bytes, in any order and in pieces of any  *)
(* size; what is stored stays stored, whoever else writes; and a piece is  *)
(* reported as written only with all of its bytes stored.                  *)
(***************************************************************************)
CONSTANTS
    Workers,
    Pieces,
    BytesOf(_),  \* the bytes of a piece
    NoPiece

VARIABLES
    stored,      \* the bytes of the torrent that are where they belong
    writing,     \* the piece each thread writes
    reports      \* the pieces that were reported, with their success

vars == <<stored, writing, reports>>

Init ==
    /\ stored = {}
    /\ writing = [w \in Workers |-> NoPiece]
    /\ reports = {}

Begin(w, p) ==
    /\ writing[w] = NoPiece
    /\ writing' = [writing EXCEPT ![w] = p]
    /\ UNCHANGED <<stored, reports>>

Stores(w) ==
    /\ writing[w] # NoPiece
    /\ \E bytes \in SUBSET BytesOf(writing[w]) : stored' = stored \cup bytes

Continue(w) ==
    /\ Stores(w)
    /\ UNCHANGED <<writing, reports>>

(* A write that fails may have stored a part.                               *)
Report(w, success) ==
    /\ Stores(w)
    /\ success => BytesOf(writing[w]) \subseteq stored'
    /\ writing' = [writing EXCEPT ![w] = NoPiece]
    /\ reports' = reports \cup {[piece |-> writing[w], success |-> success]}

Next ==
    \E w \in Workers :
        \/ \E p \in Pieces : Begin(w, p)
        \/ Continue(w)
        \/ \E success \in BOOLEAN : Report(w, success)

Spec == Init /\ [][Next]_vars

=============================================================================
