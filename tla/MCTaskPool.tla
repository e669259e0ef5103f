----------------------------- MODULE MCTaskPool -----------------------------
(***************************************************************************)
(* A small instance of TaskPool: the ring wraps around and is overrun.     *)
(***************************************************************************)
EXTENDS TaskPool

CONSTANTS w1, w2, w3

MCWorkers == {w1, w2, w3}

=============================================================================
