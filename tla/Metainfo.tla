------------------------------ MODULE Metainfo ------------------------------
(***************************************************************************)
(* From the tree of a .torrent file to the torrent (parser.c): what the    *)
(* file must have, the trackers, the names of its files, and the info hash *)
(* (CMD_add).                                                              *)
(*                                                                         *)
(* The strings of the tree lie in the buffer the file was read into.  The  *)
(* names are made harmless there, and the info hash is made of the buffer  *)
(* afterwards.  Values are of the type that the key promises; the code     *)
(* does not look.                                                          *)
(***************************************************************************)
EXTENDS Bencode, Paths

Get(dict, key) == get_BEN_value_by_key(dict, <<key>>)
Has(dict, key) == HasKey(dict, <<key>>)

(* parse_BEN_announce_to_TR_info, but for the trackers it lists.             *)
AnnounceOK(dict) == Has(dict, "announce-list") \/ Has(dict, "announce")

(* The names in the path of a file.                                        *)
Names(file) == [k \in DOMAIN Get(file, "path").list |-> Get(file, "path").list[k].string]

(* parse_BEN_multifile_list_to_TR_info                                     *)
FileOK(file) ==
    /\ Has(file, "length")
    /\ Has(file, "path")
    /\ parse_BEN_list_to_path(Names(file)).ok

(* parse_BEN_info_to_TR_info                                               *)
InfoOK(info) ==
    /\ Has(info, "name") /\ sanitize_file_BEN_string(Get(info, "name").string).ok
    /\ Has(info, "piece length")
    /\ Has(info, "pieces")
    /\ IF Has(info, "files")
       THEN \A j \in DOMAIN Get(info, "files").list : FileOK(Get(info, "files").list[j].dict)
       ELSE Has(info, "length")

(* BEN_pairs_to_TR_info                                                    *)
IsTorrent(dict) ==
    /\ AnnounceOK(dict)
    /\ Has(dict, "info")
    /\ InfoOK(Get(dict, "info").dict)

(* The strings sanitize_file_BEN_string works on, in a file that is         *)
(* accepted.                                                               *)
SanitizedStrings(info) ==
    {Get(info, "name")} \cup
    (IF Has(info, "files")
     THEN UNION {ToSet(Get(Get(info, "files").list[j].dict, "path").list) :
                     j \in DOMAIN Get(info, "files").list}
     ELSE {})

(* Where a string lies in the buffer.                                      *)
Span(s) == s.at .. s.at + Len(s.string) - 1

(* Definitions named X_... are the mistakes the properties are tried on; no *)
(* action uses them.  Here: what is cut off a name is overwritten.         *)
BufferAfter_cut(text, info) ==
    [k \in DOMAIN text |->
        IF \E s \in SanitizedStrings(info) :
              /\ k \in Span(s)
              /\ text[k] \in Reserved \/ k >= s.at + EndPos(s.string)
        THEN "_" ELSE text[k]]

(* The buffer when the torrent is made: what is cut off stays in it.        *)
BufferAfter(text, info) ==
    [k \in DOMAIN text |->
        IF \E s \in SanitizedStrings(info) : k \in Span(s) /\ text[k] \in Reserved
        THEN "_" ELSE text[k]]

(* get_info_hash, or rather the bytes it takes the hash of.                 *)
HashedBytes(buffer) ==
    LET offsets == get_info_value_offset(buffer) IN
    SubSeq(buffer, offsets.begining, offsets.end - 1)

-----------------------------------------------------------------------------
(* Properties of a file                                                    *)

(* The info hash of a torrent is that of the file as it is, by which        *)
(* trackers and peers know it, exactly when no name in it has a reserved     *)
(* character: with one, nobody knows the hash the program announces.        *)
HashIsOfTheFile(text) ==
    LET dict == parse_dict(text) IN
    dict.outcome = "value" /\ IsTorrent(dict.value.dict) =>
        LET info == Get(dict.value.dict, "info").dict IN
        HashedBytes(BufferAfter(text, info)) = HashedBytes(text)
            <=> \A s \in SanitizedStrings(info) : ToSet(s.string) \cap Reserved = {}

=============================================================================
