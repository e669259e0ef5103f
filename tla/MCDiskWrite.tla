---------------------------- MODULE MCDiskWrite ----------------------------
(***************************************************************************)
(* Small instances of DiskWrite: pieces of 4 bytes over files that end in  *)
(* the middle of a piece, at the end of one, and hold nothing at all; and  *)
(* over a single file.                                                     *)
(***************************************************************************)
EXTENDS DiskWrite

CONSTANTS w1, w2

ManyFiles == <<3, 0, 2, 3, 1>>
SingleFile == <<8>>
EachOfMany == DOMAIN ManyFiles
TheOne == DOMAIN SingleFile

=============================================================================
