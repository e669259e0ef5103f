----------------------------- MODULE DiskWrite -----------------------------
(***************************************************************************)
(* The pieces of a torrent laid over its files: the offsets that           *)
(* fill_in_calculated_field_in_TR_info gives the files, and the loop of    *)
(* write_piece_to_disk, which several pool threads run at a time for       *)
(* pieces that share files.                                                *)
(*                                                                         *)
(* A byte of data is its place in the torrent: byte k of piece p is        *)
(* p * PieceLength + k.                                                    *)
(*                                                                         *)
(* open is given file->path as it is, which starts at the root, whereas    *)
(* allocate_file puts download_path in front of it.  The files here are    *)
(* those that open finds; the allocated ones nobody writes to.             *)
(***************************************************************************)
EXTENDS Integers, Sequences

CONSTANTS
    Lengths,      \* the lengths of the files in the .torrent file
    Found,        \* those at whose path, from the root, there is a file to open
    Multifile,    \* it has the key "files", a file alone has "length" instead
    PieceLength,  \* info->piece_length
    PiecesCount,  \* info->pieces_count
    LastLength,   \* bytes of the last piece
    UintRange,    \* values of a uint32_t (2^32)
    Workers,      \* the pool threads
    Blank         \* a byte of a file nothing was written to

ASSUME DiskAssumption ==
    /\ Lengths \in Seq(Nat) /\ Lengths # <<>>
    /\ Found \subseteq DOMAIN Lengths
    /\ Multifile \in BOOLEAN
    /\ PieceLength \in Nat \ {0}
    /\ PiecesCount \in Nat \ {0}
    /\ LastLength \in 1 .. PieceLength
    /\ UintRange \in Nat \ {0}
    /\ PieceLength < UintRange
    /\ Blank \notin Nat

VARIABLES
    filled,      \* files fill_in_calculated_field_in_TR_info has done
    offset,      \* info->files[].offset
    total_size,  \* info->total_size
    disk,        \* the bytes of the files that open finds, if any
    pc,          \* "idle" or "loop" for each thread
    piece,       \* piece_idx
    file,        \* i, counted from 1
    written,     \* written
    results      \* what write_piece_to_disk has returned, for each piece

locals == <<piece, file, written>>
layout == <<filled, offset, total_size>>
vars == <<layout, disk, pc, locals, results>>

Files == DOMAIN Lengths

(* parse_BEN_info_to_TR_info leaves files_count 0 when the torrent is a     *)
(* single file.                                                             *)
FilesCount == IF Multifile THEN Len(Lengths) ELSE 0

Init ==
    /\ filled = 0
    /\ offset = [f \in Files |-> 0]
    /\ total_size = 0
    /\ disk = [f \in Files |-> [o \in 0 .. Lengths[f] - 1 |-> Blank]]
    /\ pc = [w \in Workers |-> "idle"]
    /\ piece = [w \in Workers |-> 0]
    /\ file = [w \in Workers |-> 1]
    /\ written = [w \in Workers |-> 0]
    /\ results = {}

(* fill_in_calculated_field_in_TR_info, an iteration.                       *)
fill_in_file ==
    /\ filled < FilesCount
    /\ filled' = filled + 1
    /\ offset' = [offset EXCEPT ![filled + 1] = total_size]
    /\ total_size' = total_size + Lengths[filled + 1]
    /\ UNCHANGED <<disk, pc, locals, results>>

-----------------------------------------------------------------------------
(* write_piece_to_disk, given for data_len the length of the piece.  (What  *)
(* handle_sha1_result passes instead is a matter of PieceExchange.)         *)

Pieces == 0 .. PiecesCount - 1
DataLen(p) == IF p = PiecesCount - 1 THEN LastLength ELSE PieceLength
PieceOffset(w) == piece[w] * PieceLength

write_piece_to_disk(w, p) ==
    /\ filled = FilesCount
    /\ pc[w] = "idle"
    /\ pc' = [pc EXCEPT ![w] = "loop"]
    /\ piece' = [piece EXCEPT ![w] = p]
    /\ file' = [file EXCEPT ![w] = 1]
    /\ written' = [written EXCEPT ![w] = 0]
    /\ UNCHANGED <<layout, disk, results>>

Return(w, success) ==
    /\ pc' = [pc EXCEPT ![w] = "idle"]
    /\ results' = results \cup {[piece |-> piece[w], success |-> success]}
    /\ UNCHANGED locals

(* Definitions named X_... are the mistakes the properties are tried on; no *)
(* action uses them.  Here: a file with one byte of the piece is left out.  *)
EndsBefore_early(w, f) == PieceOffset(w) + DataLen(piece[w]) <= offset[f] + 1

(* The piece ends before file f; file f ends before the piece.              *)
EndsBefore(w, f) == PieceOffset(w) + DataLen(piece[w]) <= offset[f]
LiesBefore(w, f) == offset[f] + Lengths[f] <= PieceOffset(w)

(* All is written, all files are done, or the next one is past the piece.   *)
LoopDone(w) ==
    \/ written[w] = DataLen(piece[w])
    \/ file[w] > FilesCount
    \/ file[w] <= FilesCount /\ EndsBefore(w, file[w])

loop_ends(w) ==
    /\ pc[w] = "loop"
    /\ LoopDone(w)
    /\ Return(w, TRUE)
    /\ UNCHANGED <<layout, disk>>

skip_file(w) ==
    /\ pc[w] = "loop"
    /\ ~LoopDone(w)
    /\ LiesBefore(w, file[w])
    /\ file' = [file EXCEPT ![w] = @ + 1]
    /\ UNCHANGED <<layout, disk, pc, piece, written, results>>

(* The start of the piece is compared with the start of the file, not what  *)
(* is left of the piece.                                                    *)
FileStart(w) ==
    IF PieceOffset(w) > offset[file[w]] THEN PieceOffset(w) - offset[file[w]] ELSE 0

(* The rest of the piece is taken for all of it.                            *)
ToWrite_whole(w) ==
    LET to_write == (Lengths[file[w]] - FileStart(w)) % UintRange
    IN  IF to_write > DataLen(piece[w]) THEN DataLen(piece[w]) ELSE to_write

(* A file's remainder of 2^32 bytes or more does not fit to_write.          *)
ToWrite(w) ==
    LET to_write == (Lengths[file[w]] - FileStart(w)) % UintRange
        left     == DataLen(piece[w]) - written[w]
    IN  IF to_write > left THEN left ELSE to_write

(* The data is taken from the start of the piece for each file.             *)
Pwritten_start(w, n) ==
    [disk EXCEPT ![file[w]] = [o \in DOMAIN @ |->
        IF FileStart(w) <= o /\ o < FileStart(w) + n
        THEN PieceOffset(w) + o - FileStart(w) ELSE @[o]]]

(* The files when n bytes from data + written are at file_start.            *)
Pwritten(w, n) ==
    [disk EXCEPT ![file[w]] = [o \in DOMAIN @ |->
        IF FileStart(w) <= o /\ o < FileStart(w) + n
        THEN PieceOffset(w) + written[w] + o - FileStart(w) ELSE @[o]]]

Writes(w) ==
    /\ pc[w] = "loop"
    /\ ~LoopDone(w) /\ ~LiesBefore(w, file[w])

(* There is no file at file->path, or it cannot be opened.                  *)
open_fails(w) ==
    /\ Writes(w)
    /\ Return(w, FALSE)
    /\ UNCHANGED <<layout, disk>>

(* pwrite returns fewer bytes than it was asked for, or -1.                 *)
pwrite_short(w) ==
    /\ Writes(w)
    /\ file[w] \in Found
    /\ \E n \in 0 .. ToWrite(w) - 1 : disk' = Pwritten(w, n)
    /\ Return(w, FALSE)
    /\ UNCHANGED layout

pwrite_all(w) ==
    /\ Writes(w)
    /\ file[w] \in Found
    /\ disk' = Pwritten(w, ToWrite(w))
    /\ written' = [written EXCEPT ![w] = @ + ToWrite(w)]
    /\ file' = [file EXCEPT ![w] = @ + 1]
    /\ UNCHANGED <<layout, pc, piece, results>>

WorkerStep(w) ==
    \/ \E p \in Pieces : write_piece_to_disk(w, p)
    \/ loop_ends(w)
    \/ skip_file(w)
    \/ open_fails(w)
    \/ pwrite_short(w)
    \/ pwrite_all(w)

Next == fill_in_file \/ \E w \in Workers : WorkerStep(w)

Spec == Init /\ [][Next]_vars

-----------------------------------------------------------------------------
(* Properties                                                              *)

(* Types of all variables.                                                 *)
TypeOK ==
    /\ filled \in 0 .. FilesCount
    /\ offset \in [Files -> Nat]
    /\ total_size \in Nat
    /\ DOMAIN disk = Files
    /\ \A f \in Files : disk[f] \in [0 .. Lengths[f] - 1 -> Nat \cup {Blank}]
    /\ pc \in [Workers -> {"idle", "loop"}]
    /\ piece \in [Workers -> Pieces]
    /\ file \in [Workers -> 1 .. Len(Lengths) + 1]
    /\ written \in [Workers -> 0 .. PieceLength]
    /\ results \subseteq [piece : Pieces, success : BOOLEAN]

(* Whatever the threads write at the same time, and whichever writes fail   *)
(* in the middle, no byte of the torrent is ever found at a place of a file *)
(* that is not its own.                                                     *)
InPlace ==
    \A f \in Files : \A o \in DOMAIN disk[f] : disk[f][o] \in {Blank, offset[f] + o}

(* The bytes of a piece, and which bytes of the torrent are where they       *)
(* belong.                                                                  *)
BytesOf(p) == p * PieceLength .. p * PieceLength + DataLen(p) - 1
Stored(a) == \E f \in Files : \E o \in DOMAIN disk[f] : offset[f] + o = a /\ disk[f][o] = a

(* A piece reported as written is in the files from its first byte to its   *)
(* last, over the ends of files and past empty ones.                        *)
ReportedIsWritten ==
    \A r \in results : r.success => \A a \in BytesOf(r.piece) : Stored(a)

(* The files store pieces (PieceStore): a thread stores bytes of its piece   *)
(* and of no other, nothing that is stored is lost to another thread or to  *)
(* a failure, and success is reported of whole pieces only.                 *)
Abstract == INSTANCE PieceStore
    WITH stored <- {a \in UNION {BytesOf(p) : p \in Pieces} : Stored(a)},
         writing <- [w \in Workers |-> IF pc[w] = "loop" THEN piece[w] ELSE Blank],
         reports <- results,
         NoPiece <- Blank

StoresPieces == Abstract!Spec

=============================================================================
