----------------------------- MODULE MCSession -----------------------------
(***************************************************************************)
(* Small instances of Session for TLC.                                     *)
(***************************************************************************)
EXTENDS Session, TLC

CONSTANTS h1, h2, h3, n1, n2, n3, a1, a2, a3

MCArenas == {a1, a2, a3}
ThreeArenas == Permutations(MCArenas)

(* Each .torrent file has its own name.                                    *)
OwnNames == (h1 :> {n1}) @@ (h2 :> {n2}) @@ (h3 :> {n3})

(* The first may be added under two names, the second under one of these,  *)
(* the third has its own.                                                   *)
SharedNames == (h1 :> {n1, n2}) @@ (h2 :> {n2}) @@ (h3 :> {n3})

AllFaults == FaultKinds
NoFaults == {}

=============================================================================
