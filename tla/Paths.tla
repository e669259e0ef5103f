------------------------------- MODULE Paths -------------------------------
(***************************************************************************)
(* The names of files and directories that a .torrent file gives           *)
(* (parser.c): how each is made harmless, how the list of names of a file  *)
(* becomes its path, and which file is allocated for it                    *)
(* (file_interactions.c).  write_piece_to_disk opens the path without the   *)
(* directory in front, and so another file: that is in DiskWrite.           *)
(*                                                                         *)
(* A name is a sequence of characters; "?" stands for all the reserved     *)
(* ones that separate nothing, control characters included.                *)
(***************************************************************************)
EXTENDS Integers, Sequences, FiniteSets, SequencesExt

CONSTANT PathBuffer   \* bytes of the buffer in allocate_file, 4096

(* reserved_table, after init_reserved_table.                              *)
Reserved == {"/", "?"}

Rejected == [ok |-> FALSE]
Sanitized(name) == [ok |-> TRUE, name |-> name]

(* Where the name starts and ends without blanks at the start and blanks    *)
(* and dots at the end; if nothing is left both are the end of the blanks.  *)
StartPos(name) ==
    LET k == SelectInSeq(name, LAMBDA ch : ch # " ") IN
    IF k = 0 THEN Len(name) ELSE k - 1

(* Definitions named X_... are the mistakes the properties are tried on; no *)
(* action uses them.  Here: blanks at the end only.                        *)
EndPos_blanks(name) ==
    LET k == SelectLastInSeq(name, LAMBDA ch : ch # " ") IN
    IF k < StartPos(name) THEN StartPos(name) ELSE k

EndPos(name) ==
    LET k == SelectLastInSeq(name, LAMBDA ch : ch \notin {" ", "."}) IN
    IF k < StartPos(name) THEN StartPos(name) ELSE k

(* sanitize_file_BEN_string.  A lone dot is rejected by a test of its own,  *)
(* two dots since nothing of them is left.                                 *)
sanitize_file_BEN_string(name) ==
    LET replaced == [k \in DOMAIN name |-> IF name[k] \in Reserved THEN "_" ELSE name[k]] IN
    IF name = <<>> \/ name = <<".">> \/ StartPos(replaced) = EndPos(replaced) THEN Rejected
    ELSE Sanitized(SubSeq(replaced, StartPos(replaced) + 1, EndPos(replaced)))

(* The names, or Rejected if one of them is.                               *)
SanitizedAll(names) ==
    [k \in DOMAIN names |-> sanitize_file_BEN_string(names[k])]

(* The two loops over the names: what they have come to after k of them.    *)
Joined(all) ==
    LET join[k \in 0 .. Len(all)] ==
            IF k = 0 THEN [path |-> <<>>, length |-> 0]
            ELSE [path |-> join[k - 1].path \o <<"/">> \o all[k].name,
                  length |-> join[k - 1].length + Len(all[k].name)]
    IN join[Len(all)]

(* parse_BEN_list_to_path_C_string: path_length is what is allocated, the  *)
(* terminating NUL is the zero the arena's memory holds.                    *)
parse_BEN_list_to_path(names) ==
    LET all == SanitizedAll(names) IN
    IF \E k \in DOMAIN all : ~all[k].ok THEN [ok |-> FALSE]
    ELSE [ok |-> TRUE,
          path |-> Joined(all).path,
          path_length |-> Joined(all).length + Len(all) + 1]

(* allocate_file: the file it makes, its name cut to what fits the buffer.  *)
allocated_path(download_path, path) ==
    LET whole == download_path \o path IN
    IF Len(whole) < PathBuffer THEN whole ELSE SubSeq(whole, 1, PathBuffer - 1)

-----------------------------------------------------------------------------
(* Properties of a list of names                                           *)

Slashes(path) == {k \in DOMAIN path : path[k] = "/"}

(* Between two slashes, or a slash and the end, there is no other.          *)
Neighbours(path, s, t) ==
    /\ s \in Slashes(path) /\ t \in Slashes(path) \cup {Len(path) + 1}
    /\ s < t /\ \A u \in s + 1 .. t - 1 : path[u] # "/"

(* A part of a path that is not empty, does not lead up, and has no         *)
(* character a file system may refuse.                                     *)
Harmless(part) ==
    /\ part \notin {<<>>, <<".">>, <<".", ".">>}
    /\ \A k \in DOMAIN part : part[k] # "?"
    /\ part[1] # " "
    /\ part[Len(part)] \notin {" ", "."}

(* Through one directory for each of n names but the last.                  *)
LeadsDown(path, n) ==
    /\ path[1] = "/"
    /\ Cardinality(Slashes(path)) = n
    /\ \A s \in 1 .. Len(path), t \in 1 .. Len(path) + 1 :
          Neighbours(path, s, t) => Harmless(SubSeq(path, s + 1, t - 1))

(* A path that is accepted fits the memory allocated for it; and the file    *)
(* allocated for it, if its name fits the buffer, is in the download         *)
(* directory, below one directory for each name but the last.               *)
AllocatedDown(download_path, names) ==
    LET result == parse_BEN_list_to_path(names)
        file == allocated_path(download_path, result.path)
    IN result.ok /\ names # <<>> =>
          /\ Len(result.path) < result.path_length
          /\ Len(download_path) + Len(result.path) < PathBuffer =>
                /\ SubSeq(file, 1, Len(download_path)) = download_path
                /\ LeadsDown(SubSeq(file, Len(download_path) + 1, Len(file)), Len(names))

=============================================================================
