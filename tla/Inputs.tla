------------------------------- MODULE Inputs -------------------------------
(***************************************************************************)
(* The sequential parts of the program whose input is a list of names or a *)
(* number: the path of a file, a size.  A state is an input; names grow by *)
(* a character, a size by one.                                             *)
(***************************************************************************)
EXTENDS Paths, Sizes

CONSTANTS
    Chars,         \* characters of a name
    DownloadPaths, \* directories of torrents
    MaxNames,      \* bound: names of a path
    MaxChars,      \* bound: characters of all its names
    MaxSize,       \* bound: bytes of a message
    MaxPiece       \* bound: bytes of a torrent and a piece

ASSUME InputsAssumption ==
    /\ MaxPiece \in Nat
    /\ DownloadPaths \subseteq Seq(Chars \cup {"_"})

VARIABLES
    kind,    \* what the input is
    input

vars == <<kind, input>>

Init ==
    \/ kind = "names" /\ input = <<>>
    \/ kind = "size" /\ input = 1

Written == FoldSeq(LAMBDA name, n : Len(name) + n, 0, input)

AddName ==
    /\ kind = "names" /\ Len(input) < MaxNames
    /\ input' = Append(input, <<>>)
    /\ UNCHANGED kind

AddChar ==
    /\ kind = "names" /\ input # <<>> /\ Written < MaxChars
    /\ \E ch \in Chars : input' = [input EXCEPT ![Len(input)] = Append(@, ch)]
    /\ UNCHANGED kind

AddByte ==
    /\ kind = "size" /\ input < MaxSize
    /\ input' = input + 1
    /\ UNCHANGED kind

Next == AddName \/ AddChar \/ AddByte
Spec == Init /\ [][Next]_vars

-----------------------------------------------------------------------------
(* Properties                                                              *)

(* sanitize_file_BEN_string, parse_BEN_list_to_path_C_string and            *)
(* allocate_file: the files allocated for a torrent are below its directory, *)
(* and their paths in the memory allocated for them.                        *)
AllocatedBelow ==
    kind = "names" =>
        \A download_path \in DownloadPaths : AllocatedDown(download_path, input)

(* request_all_blocks asks for each byte of a torrent once, but for those of *)
(* its last piece if that is a full one or the torrent has a single file;    *)
(* and handle_piece takes a piece for complete when it has just what was     *)
(* asked for, if these are fewer blocks than an int has bits.               *)
AskedAndAwaited ==
    kind = "size" /\ input <= MaxPiece =>
        /\ \A length \in 1 .. MaxPiece, multifile \in BOOLEAN :
              TorrentAskedFor(input, length, multifile)
        /\ BlocksCoverPiece(input)
        /\ CompleteWhenAll(input)
        /\ WrongFromIntBitsOn(input)

(* SHA1_padding pads as the standard demands, but for one length in 64.     *)
Padding == kind = "size" => PaddedAsSHA1Demands(input)

=============================================================================
