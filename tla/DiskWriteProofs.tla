-------------------------- MODULE DiskWriteProofs --------------------------
(***************************************************************************)
(* DiskWrite for any files, pieces and number of threads: its types; that  *)
(* no byte gets to a wrong place as long as the length of each file fits a *)
(* uint32_t; and that a piece reported as written is then in the files,    *)
(* when these are as long as the pieces.                                   *)
(***************************************************************************)
EXTENDS DiskWrite, TLAPS

USE DiskAssumption DEF Files

(* Every file is shorter than a uint32_t can tell.                         *)
FitsUint == \A f \in Files : Lengths[f] < UintRange

(* The files done so far lie behind each other, the first at 0.            *)
LayoutInv ==
    /\ filled = 0 => total_size = 0
    /\ filled > 0 => offset[1] = 0 /\ total_size = offset[filled] + Lengths[filled]
    /\ \A f \in 1 .. filled - 1 : offset[f + 1] = offset[f] + Lengths[f]

(* Nothing is written before the layout is complete.                       *)
BlankInv ==
    filled < FilesCount =>
        /\ \A w \in Workers : pc[w] = "idle"
        /\ \A f \in Files : \A o \in DOMAIN disk[f] : disk[f][o] = Blank

(* A thread with bytes left to write is at a file that starts no later than *)
(* the piece, with nothing written, or exactly where the bytes written end. *)
At(w) ==
    \/ written[w] = 0 /\ offset[file[w]] <= PieceOffset(w)
    \/ PieceOffset(w) + written[w] = offset[file[w]]

Unfinished(w) ==
    pc[w] = "loop" /\ file[w] <= FilesCount /\ written[w] # DataLen(piece[w])

LoopInv == \A w \in Workers : Unfinished(w) => At(w)

(* No thread has written more than its piece.                              *)
WrittenInv ==
    \A w \in Workers : pc[w] = "loop" => written[w] <= DataLen(piece[w])

(* The types are inductive with WrittenInv alone, InPlace with all of it.  *)
TypeInv == TypeOK /\ WrittenInv
PlaceInv == LayoutInv /\ BlankInv /\ LoopInv /\ InPlace

-----------------------------------------------------------------------------
(* Facts about the helpers                                                 *)

LEMMA Counts == FilesCount \in Nat /\ FilesCount <= Len(Lengths)
BY DEF FilesCount

LEMMA FilesRange == Files = 1 .. Len(Lengths) /\ Len(Lengths) \in Nat
OBVIOUS

LEMMA DataLenType ==
    ASSUME NEW p \in Pieces
    PROVE  DataLen(p) \in 1 .. PieceLength
BY DEF DataLen

LEMMA OffsetType ==
    ASSUME NEW w \in Workers, TypeOK
    PROVE  PieceOffset(w) \in Nat
<1>1. piece[w] \in Nat
  BY DEF TypeOK, Pieces
<1>2. \A a, b \in Nat : a * b \in Nat
  OBVIOUS
<1> QED
  BY <1>1, <1>2 DEF PieceOffset

LEMMA LoopGoesOn ==
    ASSUME NEW w \in Workers, TypeOK, pc[w] = "loop", ~LoopDone(w)
    PROVE  Unfinished(w)
<1>1. file[w] \in Nat /\ FilesCount \in Nat
  BY Counts DEF TypeOK
<1>2. ~(file[w] > FilesCount) /\ written[w] # DataLen(piece[w])
  BY DEF LoopDone
<1> QED
  BY <1>1, <1>2 DEF Unfinished

LEMMA ModType ==
    ASSUME NEW n \in Int
    PROVE  n % UintRange \in 0 .. UintRange - 1
OBVIOUS

LEMMA ModSmall ==
    ASSUME NEW n \in 0 .. UintRange - 1
    PROVE  n % UintRange = n
OBVIOUS

(* What the loop's tests say of the file a thread is about to write.       *)
LEMMA WritesType ==
    ASSUME NEW w \in Workers, TypeInv, Writes(w)
    PROVE  /\ file[w] \in Files
           /\ offset[file[w]] \in Nat /\ Lengths[file[w]] \in Nat
           /\ PieceOffset(w) \in Nat /\ FileStart(w) \in Nat
           /\ written[w] \in Nat
           /\ DataLen(piece[w]) \in 1 .. PieceLength
           /\ written[w] <= DataLen(piece[w])
<1>1. file[w] \in Files
  BY Counts DEF TypeInv, TypeOK, Writes, LoopDone
<1>2. offset[file[w]] \in Nat /\ Lengths[file[w]] \in Nat
  BY <1>1 DEF TypeInv, TypeOK
<1>3. PieceOffset(w) \in Nat
  BY OffsetType DEF TypeInv
<1>4. FileStart(w) \in Nat
  BY <1>2, <1>3 DEF FileStart
<1>5. DataLen(piece[w]) \in 1 .. PieceLength
  BY DataLenType DEF TypeInv, TypeOK
<1>6. written[w] \in Nat /\ written[w] <= DataLen(piece[w])
  BY DEF TypeInv, TypeOK, WrittenInv, Writes
<1> QED
  BY <1>1, <1>2, <1>3, <1>4, <1>5, <1>6

(* At most the rest of the piece is written.                               *)
LEMMA ToWriteType ==
    ASSUME NEW w \in Workers, TypeInv, Writes(w)
    PROVE  ToWrite(w) \in 0 .. DataLen(piece[w]) - written[w]
<1> DEFINE to_write == (Lengths[file[w]] - FileStart(w)) % UintRange
<1>1. Lengths[file[w]] - FileStart(w) \in Int
  BY WritesType
<1>2. to_write \in 0 .. UintRange - 1
  BY <1>1, ModType
<1>3. ToWrite(w) = IF to_write > DataLen(piece[w]) - written[w]
                   THEN DataLen(piece[w]) - written[w] ELSE to_write
  BY DEF ToWrite
<1> HIDE DEF to_write
<1> QED
  BY <1>2, <1>3, WritesType

(* The files keep their bytes' types when part of the piece is written.    *)
LEMMA PwrittenType ==
    ASSUME NEW w \in Workers, TypeInv, Writes(w), NEW n \in Nat,
           disk' = Pwritten(w, n)
    PROVE  /\ DOMAIN disk' = Files
           /\ \A f \in Files : disk'[f] \in [0 .. Lengths[f] - 1 -> Nat \cup {Blank}]
<1>1. DOMAIN disk' = Files
  BY DEF Pwritten, TypeInv, TypeOK
<1>2. ASSUME NEW f \in Files
      PROVE  disk'[f] \in [0 .. Lengths[f] - 1 -> Nat \cup {Blank}]
  <2>1. CASE f # file[w]
    BY <2>1 DEF Pwritten, TypeInv, TypeOK
  <2>2. CASE f = file[w]
    <3>1. disk'[f] = [o \in 0 .. Lengths[f] - 1 |->
              IF FileStart(w) <= o /\ o < FileStart(w) + n
              THEN PieceOffset(w) + written[w] + o - FileStart(w) ELSE disk[f][o]]
      BY <2>2, WritesType DEF Pwritten, TypeInv, TypeOK
    <3>2. \A o \in 0 .. Lengths[f] - 1 : disk[f][o] \in Nat \cup {Blank}
      BY DEF TypeInv, TypeOK
    <3>3. \A o \in 0 .. Lengths[f] - 1 : FileStart(w) <= o =>
              PieceOffset(w) + written[w] + o - FileStart(w) \in Nat
      <4>1. /\ PieceOffset(w) \in Nat /\ written[w] \in Nat
            /\ FileStart(w) \in Nat /\ Lengths[f] \in Nat
        BY <2>2, WritesType
      <4> DEFINE po == PieceOffset(w)
                 wr == written[w]
                 fs == FileStart(w)
                 ln == Lengths[f]
      <4>2. po \in Nat /\ wr \in Nat /\ fs \in Nat /\ ln \in Nat
        BY <4>1
      <4> HIDE DEF po, wr, fs, ln
      <4>3. \A o \in 0 .. ln - 1 : fs <= o => po + wr + o - fs \in Nat
        BY <4>2
      <4> QED
        BY <4>3 DEF po, wr, fs, ln
    <3> QED
      BY <3>1, <3>2, <3>3
  <2> QED
    BY <2>1, <2>2
<1> QED
  BY <1>1, <1>2

-----------------------------------------------------------------------------
(* Types                                                                   *)

LEMMA TypeInit ==
    Init => TypeInv
<1> SUFFICES ASSUME Init PROVE TypeInv
  OBVIOUS
<1>1. 0 \in Pieces /\ 0 \in 0 .. FilesCount /\ 0 \in 0 .. PieceLength
  BY Counts DEF Pieces
<1>2. 1 \in 1 .. Len(Lengths) + 1
  OBVIOUS
<1>3. \A f \in Files : disk[f] \in [0 .. Lengths[f] - 1 -> Nat \cup {Blank}]
  BY DEF Init
<1>4. TypeOK
  BY <1>1, <1>2, <1>3 DEF Init, TypeOK
<1> QED
  BY <1>4 DEF Init, TypeInv, WrittenInv

(* A thread that returns leaves everything typed but what it wrote.        *)
LEMMA ReturnType ==
    ASSUME NEW w \in Workers, TypeInv, NEW b \in BOOLEAN, Return(w, b),
           UNCHANGED layout
    PROVE  /\ filled' \in 0 .. FilesCount
           /\ offset' \in [Files -> Nat]
           /\ total_size' \in Nat
           /\ pc' \in [Workers -> {"idle", "loop"}]
           /\ UNCHANGED locals
           /\ results' \subseteq [piece : Pieces, success : BOOLEAN]
           /\ WrittenInv'
<1>1. [piece |-> piece[w], success |-> b] \in [piece : Pieces, success : BOOLEAN]
  BY DEF TypeInv, TypeOK
<1>2. results' \subseteq [piece : Pieces, success : BOOLEAN]
  BY <1>1 DEF TypeInv, TypeOK, Return
<1>3. WrittenInv'
  BY DEF TypeInv, TypeOK, WrittenInv, Return, locals
<1> QED
  BY <1>2, <1>3 DEF TypeInv, TypeOK, Return, layout

LEMMA TypeNext ==
    TypeInv /\ [Next]_vars => TypeInv'
<1> SUFFICES ASSUME TypeInv, [Next]_vars PROVE TypeInv'
  OBVIOUS
<1>1. CASE fill_in_file
  <2>1. filled \in Nat /\ filled + 1 \in Files /\ filled' \in 0 .. FilesCount
    BY <1>1, Counts, FilesRange DEF fill_in_file, TypeInv, TypeOK
  <2>2. Lengths[filled + 1] \in Nat
    BY <2>1
  <2>3. offset' \in [Files -> Nat]
    BY <1>1, <2>1 DEF fill_in_file, TypeInv, TypeOK
  <2>4. total_size' \in Nat
    BY <1>1, <2>2 DEF fill_in_file, TypeInv, TypeOK
  <2> QED
    BY <1>1, <2>1, <2>3, <2>4 DEF fill_in_file, TypeInv, TypeOK, WrittenInv, locals
<1>2. ASSUME NEW w \in Workers, NEW p \in Pieces, write_piece_to_disk(w, p)
      PROVE  TypeInv'
  <2>1. TypeOK'
    BY <1>2 DEF write_piece_to_disk, TypeInv, TypeOK, layout
  <2>2. \A x \in Workers : pc'[x] = "loop" => written'[x] <= DataLen(piece'[x])
    <3> SUFFICES ASSUME NEW x \in Workers, pc'[x] = "loop"
                 PROVE  written'[x] <= DataLen(piece'[x])
      OBVIOUS
    <3>1. CASE x = w
      BY <1>2, <3>1, DataLenType DEF write_piece_to_disk, TypeInv, TypeOK
    <3>2. CASE x # w
      BY <1>2, <3>2 DEF write_piece_to_disk, TypeInv, TypeOK, WrittenInv
    <3> QED
      BY <3>1, <3>2
  <2> QED
    BY <2>1, <2>2 DEF TypeInv, WrittenInv
<1>3. ASSUME NEW w \in Workers, loop_ends(w)
      PROVE  TypeInv'
  BY <1>3, ReturnType DEF loop_ends, TypeInv, TypeOK, locals
<1>4. ASSUME NEW w \in Workers, skip_file(w)
      PROVE  TypeInv'
  <2>1. file' \in [Workers -> 1 .. Len(Lengths) + 1]
    BY <1>4, Counts DEF skip_file, LoopDone, TypeInv, TypeOK
  <2> QED
    BY <1>4, <2>1 DEF skip_file, TypeInv, TypeOK, WrittenInv, layout
<1>5. ASSUME NEW w \in Workers, open_fails(w)
      PROVE  TypeInv'
  BY <1>5, ReturnType DEF open_fails, TypeInv, TypeOK, locals
<1>6. ASSUME NEW w \in Workers, pwrite_short(w)
      PROVE  TypeInv'
  <2>1. PICK n \in 0 .. ToWrite(w) - 1 : disk' = Pwritten(w, n)
    BY <1>6 DEF pwrite_short
  <2>2. n \in Nat
    BY <2>1, <1>6, ToWriteType, WritesType DEF pwrite_short
  <2>3. DOMAIN disk' = Files
        /\ \A f \in Files : disk'[f] \in [0 .. Lengths[f] - 1 -> Nat \cup {Blank}]
    BY <1>6, <2>1, <2>2, PwrittenType DEF pwrite_short
  <2> QED
    BY <1>6, <2>3, ReturnType DEF pwrite_short, TypeInv, TypeOK, locals
<1>7. ASSUME NEW w \in Workers, pwrite_all(w)
      PROVE  TypeInv'
  <2>1. Writes(w) /\ ToWrite(w) \in 0 .. DataLen(piece[w]) - written[w]
    BY <1>7, ToWriteType DEF pwrite_all
  <2>2. ToWrite(w) \in Nat
    BY <2>1, WritesType
  <2>3. DOMAIN disk' = Files
        /\ \A f \in Files : disk'[f] \in [0 .. Lengths[f] - 1 -> Nat \cup {Blank}]
    BY <1>7, <2>1, <2>2, PwrittenType DEF pwrite_all
  <2>4. written[w] + ToWrite(w) \in 0 .. DataLen(piece[w])
    BY <2>1, <2>2, WritesType
  <2>5. written' \in [Workers -> 0 .. PieceLength]
    <3>1. written[w] + ToWrite(w) \in 0 .. PieceLength
      BY <2>1, <2>4, WritesType
    <3> QED
      BY <1>7, <3>1 DEF pwrite_all, TypeInv, TypeOK
  <2>6. file' \in [Workers -> 1 .. Len(Lengths) + 1]
    <3>1. file[w] \in 1 .. Len(Lengths) /\ Len(Lengths) \in Nat
      BY <2>1, WritesType, FilesRange
    <3>2. file[w] + 1 \in 1 .. Len(Lengths) + 1
      BY <3>1
    <3> QED
      BY <1>7, <3>2 DEF pwrite_all, TypeInv, TypeOK
  <2>7. TypeOK'
    BY <1>7, <2>3, <2>5, <2>6 DEF pwrite_all, TypeInv, TypeOK, layout
  <2>8. \A x \in Workers : pc'[x] = "loop" => written'[x] <= DataLen(piece'[x])
    BY <1>7, <2>4 DEF pwrite_all, TypeInv, TypeOK, WrittenInv
  <2> QED
    BY <2>7, <2>8 DEF TypeInv, WrittenInv
<1>8. CASE UNCHANGED vars
  BY <1>8 DEF vars, layout, locals, TypeInv, TypeOK, WrittenInv
<1> QED
  BY <1>1, <1>2, <1>3, <1>4, <1>5, <1>6, <1>7, <1>8
  DEF Next, WorkerStep

LEMMA TypeAlways ==
    Spec => []TypeInv
BY TypeInit, TypeNext, PTL DEF Spec

(* Every variable keeps its type: no thread writes more than its piece or  *)
(* runs further than one past the last file, whatever the lengths are and  *)
(* whatever the conversion to uint32_t makes of them.                      *)
THEOREM TypeCorrect ==
    Spec => []TypeOK
<1>1. TypeInv => TypeOK
  BY DEF TypeInv
<1> QED
  BY <1>1, TypeAlways, PTL

-----------------------------------------------------------------------------
(* Places                                                                  *)

(* All offsets are known when a thread writes, and each file starts where  *)
(* the one before it ends.                                                 *)
LEMMA LayoutDone ==
    ASSUME TypeInv, PlaceInv, NEW w \in Workers, pc[w] = "loop"
    PROVE  /\ filled = FilesCount
           /\ \A f \in 1 .. FilesCount - 1 : offset[f + 1] = offset[f] + Lengths[f]
<1>1. filled \in 0 .. FilesCount /\ FilesCount \in Nat
  BY Counts DEF TypeInv, TypeOK
<1>2. ~(filled < FilesCount)
  BY DEF PlaceInv, BlankInv
<1>3. filled = FilesCount
  BY <1>1, <1>2
<1> QED
  BY <1>3 DEF PlaceInv, LayoutInv

(* The place in the file and the place in the piece are the same byte of   *)
(* the torrent.                                                            *)
LEMMA Aligned ==
    ASSUME TypeInv, PlaceInv, NEW w \in Workers, Writes(w)
    PROVE  PieceOffset(w) + written[w] - FileStart(w) = offset[file[w]]
<1>1. At(w)
  BY LoopGoesOn DEF TypeInv, PlaceInv, LoopInv, Writes
<1>2. /\ offset[file[w]] \in Nat /\ PieceOffset(w) \in Nat
      /\ written[w] \in Nat
  BY WritesType
<1>3. CASE written[w] = 0 /\ offset[file[w]] <= PieceOffset(w)
  <2>1. FileStart(w) = PieceOffset(w) - offset[file[w]]
    BY <1>2, <1>3 DEF FileStart
  <2> QED
    BY <1>2, <1>3, <2>1
<1>4. CASE PieceOffset(w) + written[w] = offset[file[w]]
  <2>1. FileStart(w) = 0
    BY <1>2, <1>4 DEF FileStart
  <2> QED
    BY <1>2, <1>4, <2>1
<1> QED
  BY <1>1, <1>3, <1>4 DEF At

(* What pwrite puts at place o of its file is the byte that belongs there. *)
LEMMA ByteOfPlace ==
    ASSUME TypeInv, PlaceInv, NEW w \in Workers, Writes(w), NEW o \in Nat
    PROVE  PieceOffset(w) + written[w] + o - FileStart(w) = offset[file[w]] + o
<1> DEFINE po == PieceOffset(w)
           wr == written[w]
           fs == FileStart(w)
           at == offset[file[w]]
<1>1. po \in Nat /\ wr \in Nat /\ fs \in Nat /\ at \in Nat
  BY WritesType
<1>2. po + wr - fs = at
  BY Aligned
<1> HIDE DEF po, wr, fs, at
<1>3. po + wr + o - fs = at + o
  BY <1>1, <1>2
<1> QED
  BY <1>3 DEF po, wr, fs, at

LEMMA PwrittenPlace ==
    ASSUME TypeInv, PlaceInv, NEW w \in Workers, Writes(w), NEW n \in Nat,
           disk' = Pwritten(w, n), UNCHANGED offset
    PROVE  InPlace'
<1> SUFFICES ASSUME NEW f \in Files, NEW o \in DOMAIN disk'[f]
             PROVE  disk'[f][o] \in {Blank, offset[f] + o}
  BY DEF InPlace
<1>1. disk[f] \in [0 .. Lengths[f] - 1 -> Nat \cup {Blank}]
  BY DEF TypeInv, TypeOK
<1>2. CASE f # file[w]
  <2>1. disk'[f] = disk[f]
    BY <1>2 DEF Pwritten, TypeInv, TypeOK
  <2> QED
    BY <2>1 DEF PlaceInv, InPlace
<1>3. CASE f = file[w]
  <2>1. disk'[f] = [x \in DOMAIN disk[f] |->
            IF FileStart(w) <= x /\ x < FileStart(w) + n
            THEN PieceOffset(w) + written[w] + x - FileStart(w) ELSE disk[f][x]]
    BY <1>3, WritesType DEF Pwritten, TypeInv, TypeOK
  <2>2. o \in DOMAIN disk[f] /\ o \in Nat
    BY <1>1, <2>1
  <2>3. PieceOffset(w) + written[w] + o - FileStart(w) = offset[f] + o
    BY <1>3, <2>2, ByteOfPlace
  <2>4. disk[f][o] \in {Blank, offset[f] + o}
    BY <2>2 DEF PlaceInv, InPlace
  <2> QED
    BY <2>1, <2>2, <2>3, <2>4
<1> QED
  BY <1>2, <1>3

(* What stays true of the layout, the other threads and what was blank     *)
(* when thread w writes or returns.                                        *)
LEMMA OthersKeep ==
    ASSUME TypeInv, PlaceInv, NEW w \in Workers, pc[w] = "loop",
           UNCHANGED <<layout, piece>>,
           NEW x \in Workers, x # w, pc'[x] = pc[x], file'[x] = file[x],
           written'[x] = written[x], Unfinished(x)'
    PROVE  At(x)'
BY DEF PlaceInv, LoopInv, Unfinished, At, PieceOffset, layout

(* A thread that has bytes left after a write has reached the file's end.  *)
LEMMA RestWritten ==
    ASSUME FitsUint, TypeInv, PlaceInv, NEW w \in Workers, Writes(w),
           written[w] + ToWrite(w) # DataLen(piece[w])
    PROVE  PieceOffset(w) + written[w] + ToWrite(w) = offset[file[w]] + Lengths[file[w]]
<1> DEFINE f == file[w]
           left == DataLen(piece[w]) - written[w]
           rest == Lengths[f] - FileStart(w)
<1>2. PieceOffset(w) + written[w] - FileStart(w) = offset[f]
  BY Aligned
<1>t. /\ f \in Files /\ offset[f] \in Nat /\ Lengths[f] \in Nat
      /\ PieceOffset(w) \in Nat /\ FileStart(w) \in Nat
      /\ written[w] \in Nat /\ DataLen(piece[w]) \in Nat
  BY WritesType
<1>4. rest \in 0 .. UintRange - 1
  <2>1. ~(offset[f] + Lengths[f] <= PieceOffset(w))
    BY DEF Writes, LiesBefore
  <2>2. Lengths[f] < UintRange /\ UintRange \in Nat
    BY <1>t DEF FitsUint
  <2>3. FileStart(w) <= Lengths[f]
    BY <1>t, <2>1 DEF FileStart
  <2> QED
    BY <1>t, <2>2, <2>3
<1>5. ToWrite(w) = IF rest > left THEN left ELSE rest
  BY <1>4, ModSmall DEF ToWrite
<1>6. ToWrite(w) = rest
  <2> HIDE DEF rest
  <2> QED
    BY <1>t, <1>4, <1>5
<1>7. PieceOffset(w) + written[w] + rest = offset[f] + Lengths[f]
  <2> DEFINE po == PieceOffset(w)
             wr == written[w]
             fs == FileStart(w)
             at == offset[f]
             ln == Lengths[f]
  <2>1. po \in Nat /\ wr \in Nat /\ fs \in Nat /\ at \in Nat /\ ln \in Nat
    BY <1>t
  <2>2. po + wr - fs = at
    BY <1>2
  <2> HIDE DEF po, wr, fs, at, ln
  <2>3. po + wr + (ln - fs) = at + ln
    BY <2>1, <2>2
  <2> QED
    BY <2>3 DEF po, wr, fs, at, ln
<1> QED
  BY <1>6, <1>7

(* A thread that wrote the rest of a file is at the start of the next one. *)
LEMMA NextFile ==
    ASSUME FitsUint, TypeInv, PlaceInv, NEW w \in Workers, pwrite_all(w),
           file[w] + 1 <= FilesCount, written[w] + ToWrite(w) # DataLen(piece[w])
    PROVE  PieceOffset(w) + written[w] + ToWrite(w) = offset[file[w] + 1]
<1>1. Writes(w)
  BY DEF pwrite_all
<1>2. file[w] \in 1 .. FilesCount - 1
  BY <1>1, WritesType, FilesRange, Counts
<1>3. offset[file[w] + 1] = offset[file[w]] + Lengths[file[w]]
  BY <1>1, <1>2, LayoutDone DEF Writes
<1> QED
  BY <1>1, <1>3, RestWritten

LEMMA PlaceInit ==
    Init => PlaceInv
<1> SUFFICES ASSUME Init PROVE PlaceInv
  OBVIOUS
<1>1. LayoutInv
  BY DEF Init, LayoutInv
<1>2. BlankInv /\ LoopInv
  BY DEF Init, BlankInv, LoopInv, Unfinished
<1>3. InPlace
  BY DEF Init, InPlace
<1> QED
  BY <1>1, <1>2, <1>3 DEF PlaceInv

(* A step that returns keeps PlaceInv if it keeps InPlace.                 *)
LEMMA ReturnPlace ==
    ASSUME TypeInv, PlaceInv, NEW w \in Workers, pc[w] = "loop",
           NEW b \in BOOLEAN, Return(w, b), UNCHANGED layout, InPlace'
    PROVE  PlaceInv'
<1>1. LayoutInv'
  BY DEF PlaceInv, LayoutInv, layout
<1>2. ~(filled < FilesCount)'
  BY LayoutDone, Counts DEF layout
<1>3. LoopInv'
  BY DEF PlaceInv, LoopInv, Unfinished, At, PieceOffset, TypeInv, TypeOK, Return,
         layout, locals
<1> QED
  BY <1>1, <1>2, <1>3 DEF PlaceInv, BlankInv

LEMMA PlaceNext ==
    FitsUint /\ TypeInv /\ PlaceInv /\ [Next]_vars => PlaceInv'
<1> SUFFICES ASSUME FitsUint, TypeInv, PlaceInv, [Next]_vars PROVE PlaceInv'
  OBVIOUS
<1>1. CASE fill_in_file
  <2>1. filled \in Nat /\ filled' = filled + 1 /\ filled + 1 \in Files /\ FilesCount \in Nat
    BY <1>1, Counts, FilesRange DEF fill_in_file, TypeInv, TypeOK
  <2>2. LayoutInv'
    <3>1. \A f \in Files : offset'[f] = IF f = filled + 1 THEN total_size ELSE offset[f]
      BY <1>1 DEF fill_in_file, TypeInv, TypeOK
    <3>2. total_size' = offset'[filled'] + Lengths[filled']
      BY <1>1, <2>1, <3>1 DEF fill_in_file
    <3>3. offset'[1] = 0
      BY <2>1, <3>1, FilesRange DEF PlaceInv, LayoutInv
    <3>4. ASSUME NEW f \in 1 .. filled' - 1
          PROVE  offset'[f + 1] = offset'[f] + Lengths[f]
      <4>1. f \in Files /\ f + 1 \in Files /\ f # filled + 1
        BY <2>1, <3>4, FilesRange
      <4>2. CASE f = filled
        <5>1. filled > 0 /\ total_size = offset[filled] + Lengths[filled]
          BY <2>1, <3>4, <4>2 DEF PlaceInv, LayoutInv
        <5>2. offset'[f + 1] = total_size /\ offset'[f] = offset[f]
          BY <2>1, <3>1, <4>1, <4>2
        <5> QED
          BY <4>2, <5>1, <5>2
      <4>3. CASE f # filled
        <5>1. f \in 1 .. filled - 1 /\ f + 1 # filled + 1
          BY <2>1, <3>4, <4>3
        <5>2. offset[f + 1] = offset[f] + Lengths[f]
          BY <5>1 DEF PlaceInv, LayoutInv
        <5>3. offset'[f + 1] = offset[f + 1] /\ offset'[f] = offset[f]
          BY <3>1, <4>1, <5>1
        <5> QED
          BY <5>2, <5>3
      <4> QED
        BY <4>2, <4>3
    <3> QED
      BY <2>1, <3>2, <3>3, <3>4 DEF LayoutInv
  <2>3. \A w \in Workers : pc[w] = "idle"
    BY <1>1 DEF fill_in_file, PlaceInv, BlankInv
  <2>4. \A f \in Files : \A o \in DOMAIN disk[f] : disk[f][o] = Blank
    BY <1>1 DEF fill_in_file, PlaceInv, BlankInv
  <2>5. BlankInv' /\ LoopInv'
    BY <1>1, <2>3, <2>4 DEF fill_in_file, BlankInv, LoopInv, Unfinished
  <2>6. InPlace'
    BY <1>1, <2>4 DEF fill_in_file, InPlace
  <2> QED
    BY <2>2, <2>5, <2>6 DEF PlaceInv
<1>2. ASSUME NEW w \in Workers, NEW p \in Pieces, write_piece_to_disk(w, p)
      PROVE  PlaceInv'
  <2>1. LayoutInv' /\ InPlace' /\ ~(filled < FilesCount)'
    <3>1. UNCHANGED <<layout, disk>> /\ filled = FilesCount
      BY <1>2 DEF write_piece_to_disk
    <3>2. LayoutInv'
      BY <3>1 DEF PlaceInv, LayoutInv, layout
    <3>3. InPlace'
      BY <3>1 DEF PlaceInv, InPlace, layout
    <3> QED
      BY <3>1, <3>2, <3>3, Counts DEF layout
  <2>2. ASSUME NEW x \in Workers, Unfinished(x)'
        PROVE  At(x)'
    <3>1. CASE x = w
      <4>1. written'[w] = 0 /\ file'[w] = 1 /\ piece'[w] = p
        BY <1>2 DEF write_piece_to_disk, TypeInv, TypeOK
      <4>2. FilesCount > 0 /\ filled = FilesCount
        BY <1>2, <2>2, <3>1, <4>1, Counts DEF write_piece_to_disk, Unfinished
      <4>3. offset'[1] = 0
        BY <1>2, <4>2 DEF write_piece_to_disk, PlaceInv, LayoutInv, layout
      <4>4. p \in Nat /\ \A a, b \in Nat : a * b \in Nat
        BY DEF Pieces
      <4>5. PieceOffset(w)' \in Nat
        BY <4>1, <4>4 DEF PieceOffset
      <4> QED
        BY <3>1, <4>1, <4>3, <4>5 DEF At
    <3>2. CASE x # w
      BY <1>2, <2>2, <3>2
      DEF write_piece_to_disk, TypeInv, TypeOK, PlaceInv, LoopInv, Unfinished, At, PieceOffset,
          layout
    <3> QED
      BY <3>1, <3>2
  <2> QED
    BY <2>1, <2>2 DEF PlaceInv, BlankInv, LoopInv
<1>3. ASSUME NEW w \in Workers, loop_ends(w)
      PROVE  PlaceInv'
  <2>1. InPlace'
    BY <1>3 DEF loop_ends, PlaceInv, InPlace, layout
  <2> QED
    BY <1>3, <2>1, ReturnPlace DEF loop_ends
<1>4. ASSUME NEW w \in Workers, skip_file(w)
      PROVE  PlaceInv'
  <2> DEFINE f == file[w]
  <2>1. filled = FilesCount
        /\ \A g \in 1 .. FilesCount - 1 : offset[g + 1] = offset[g] + Lengths[g]
    BY <1>4, LayoutDone DEF skip_file
  <2>2. LayoutInv' /\ InPlace' /\ ~(filled < FilesCount)'
    BY <1>4, <2>1, Counts DEF skip_file, PlaceInv, LayoutInv, InPlace, layout
  <2>3. ASSUME NEW x \in Workers, Unfinished(x)'
        PROVE  At(x)'
    <3>1. CASE x = w
      <4>1. f \in Files /\ file'[w] = f + 1 /\ f + 1 <= FilesCount
        BY <1>4, <2>3, <3>1, Counts, FilesRange DEF skip_file, Unfinished, TypeInv, TypeOK
      <4>2. f + 1 \in Files /\ offset[f + 1] = offset[f] + Lengths[f]
        <5>1. f \in 1 .. FilesCount - 1 /\ f + 1 \in Files
          BY <4>1, Counts, FilesRange
        <5> QED
          BY <2>1, <5>1
      <4>3. offset[f] \in Nat /\ Lengths[f] \in Nat /\ offset[f + 1] \in Nat
        <5>1. \A g \in Files : offset[g] \in Nat /\ Lengths[g] \in Nat
          BY DEF TypeInv, TypeOK
        <5> QED
          BY <4>1, <4>2, <5>1
      <4>4. PieceOffset(w) \in Nat /\ written[w] \in Nat
        <5>1. PieceOffset(w) \in Nat
          BY OffsetType DEF TypeInv
        <5>2. written[w] \in Nat
          BY DEF TypeInv, TypeOK
        <5> QED
          BY <5>1, <5>2
      <4>5. offset[f + 1] <= PieceOffset(w)
        BY <1>4, <4>2 DEF skip_file, LiesBefore
      <4>6. written[w] = 0
        <5>1. written[w] = 0 \/ PieceOffset(w) + written[w] = offset[f]
          BY <1>4, LoopGoesOn DEF skip_file, TypeInv, PlaceInv, LoopInv, At
        <5>2. offset[f] + Lengths[f] <= PieceOffset(w)
          BY <4>2, <4>5
        <5> QED
          BY <4>3, <4>4, <5>1, <5>2
      <4>7. PieceOffset(w)' = PieceOffset(w) /\ written'[w] = 0
            /\ offset'[file'[w]] = offset[f + 1]
        BY <1>4, <4>1, <4>6 DEF skip_file, PieceOffset, layout
      <4> QED
        BY <3>1, <4>5, <4>7 DEF At
    <3>2. CASE x # w
      BY <1>4, <2>3, <3>2, OthersKeep DEF skip_file, TypeInv, TypeOK
    <3> QED
      BY <3>1, <3>2
  <2> QED
    BY <2>2, <2>3 DEF PlaceInv, BlankInv, LoopInv
<1>5. ASSUME NEW w \in Workers, open_fails(w)
      PROVE  PlaceInv'
  <2>1. InPlace'
    BY <1>5 DEF open_fails, PlaceInv, InPlace, layout
  <2> QED
    BY <1>5, <2>1, ReturnPlace DEF open_fails, Writes
<1>6. ASSUME NEW w \in Workers, pwrite_short(w)
      PROVE  PlaceInv'
  <2>1. PICK n \in 0 .. ToWrite(w) - 1 : disk' = Pwritten(w, n)
    BY <1>6 DEF pwrite_short
  <2>2. n \in Nat
    BY <2>1, <1>6, ToWriteType, WritesType DEF pwrite_short
  <2>3. InPlace'
    BY <1>6, <2>1, <2>2, PwrittenPlace DEF pwrite_short, layout
  <2> QED
    BY <1>6, <2>3, ReturnPlace DEF pwrite_short, Writes
<1>7. ASSUME NEW w \in Workers, pwrite_all(w)
      PROVE  PlaceInv'
  <2>1. Writes(w) /\ pc[w] = "loop" /\ ToWrite(w) \in Nat
    BY <1>7, ToWriteType, WritesType DEF pwrite_all, Writes
  <2>2. InPlace'
    BY <1>7, <2>1, PwrittenPlace DEF pwrite_all, layout
  <2>3. filled = FilesCount
    BY <2>1, LayoutDone
  <2>4. LayoutInv' /\ ~(filled < FilesCount)'
    BY <1>7, <2>3, Counts DEF pwrite_all, PlaceInv, LayoutInv, layout
  <2>5. ASSUME NEW x \in Workers, Unfinished(x)'
        PROVE  At(x)'
    <3>1. CASE x = w
      <4>1. file'[w] = file[w] + 1 /\ written'[w] = written[w] + ToWrite(w)
        BY <1>7 DEF pwrite_all, TypeInv, TypeOK
      <4>2. PieceOffset(w) + written[w] + ToWrite(w) = offset[file[w] + 1]
        BY <1>7, <2>5, <3>1, <4>1, NextFile DEF pwrite_all, Unfinished
      <4>3. PieceOffset(w)' = PieceOffset(w) /\ offset' = offset
        BY <1>7 DEF pwrite_all, PieceOffset, layout
      <4>4. PieceOffset(w) + (written[w] + ToWrite(w)) = offset[file[w] + 1]
        BY <2>1, <4>2, WritesType
      <4> QED
        BY <3>1, <4>1, <4>3, <4>4 DEF At
    <3>2. CASE x # w
      BY <1>7, <2>1, <2>5, <3>2, OthersKeep DEF pwrite_all, TypeInv, TypeOK
    <3> QED
      BY <3>1, <3>2
  <2> QED
    BY <2>2, <2>4, <2>5 DEF PlaceInv, BlankInv, LoopInv
<1>8. CASE UNCHANGED vars
  BY <1>8 DEF vars, layout, locals, PlaceInv, LayoutInv, BlankInv, LoopInv, InPlace,
              Unfinished, At, PieceOffset
<1> QED
  BY <1>1, <1>2, <1>3, <1>4, <1>5, <1>6, <1>7, <1>8
  DEF Next, WorkerStep

(* For any number of threads, any files and any failures of open and       *)
(* pwrite: as long as no file's length is lost in a uint32_t, no byte is   *)
(* written to a place that is not its own.                                 *)
THEOREM EveryByteInPlace ==
    ASSUME FitsUint
    PROVE  Spec => []InPlace
<1>1. Init => TypeInv /\ PlaceInv
  BY TypeInit, PlaceInit
<1>2. (TypeInv /\ PlaceInv) /\ [Next]_vars => (TypeInv /\ PlaceInv)'
  BY TypeNext, PlaceNext
<1>3. TypeInv /\ PlaceInv => InPlace
  BY DEF PlaceInv
<1> QED
  BY <1>1, <1>2, <1>3, PTL DEF Spec

-----------------------------------------------------------------------------
(* Whole pieces                                                            *)

TotalBytes == (PiecesCount - 1) * PieceLength + LastLength

(* What a thread counts as written is stored, and a thread that is past the *)
(* last file with bytes left is past the end of all files.                  *)
ProgressInv ==
    \A w \in Workers : pc[w] = "loop" =>
        /\ \A a \in PieceOffset(w) .. PieceOffset(w) + written[w] - 1 : Stored(a)
        /\ file[w] > FilesCount /\ written[w] # DataLen(piece[w])
              => total_size <= PieceOffset(w) + written[w]

WholeInv ==
    /\ filled < FilesCount => results = {}
    /\ ProgressInv
    /\ TotalBytes <= total_size => ReportedIsWritten

LEMMA PieceInTorrent ==
    ASSUME NEW p \in Pieces
    PROVE  p * PieceLength + DataLen(p) <= TotalBytes
<1>1. p \in Nat /\ p <= PiecesCount - 1 /\ PieceLength \in Nat /\ LastLength \in Nat
  BY DEF Pieces
<1>2. CASE p = PiecesCount - 1
  BY <1>2 DEF DataLen, TotalBytes
<1>3. CASE p # PiecesCount - 1
  <2>1. p + 1 <= PiecesCount - 1 /\ p + 1 \in Nat /\ PiecesCount - 1 \in Nat
    BY <1>1, <1>3
  <2>2. \A m, n, l \in Nat : m <= n => m * l <= n * l
    OBVIOUS
  <2>3. (p + 1) * PieceLength <= (PiecesCount - 1) * PieceLength
    BY <1>1, <2>1, <2>2
  <2>4. (p + 1) * PieceLength = p * PieceLength + PieceLength
    BY <1>1
  <2>5. DataLen(p) = PieceLength
    BY <1>3 DEF DataLen
  <2>6. \A m, n \in Nat : m * n \in Nat
    OBVIOUS
  <2>7. p * PieceLength \in Nat /\ (PiecesCount - 1) * PieceLength \in Nat
    BY <1>1, <2>1, <2>6
  <2> QED
    BY <1>1, <2>3, <2>4, <2>5, <2>7 DEF TotalBytes
<1> QED
  BY <1>2, <1>3

(* The byte at a place of a file after a write.                            *)
LEMMA ByteWritten ==
    ASSUME TypeInv, PlaceInv, NEW w \in Workers, Writes(w), NEW n \in Nat,
           disk' = Pwritten(w, n),
           NEW f \in Files, NEW o \in DOMAIN disk[f]
    PROVE  /\ o \in Nat /\ o \in DOMAIN disk'[f]
           /\ disk'[f][o] = IF f = file[w] /\ FileStart(w) <= o /\ o < FileStart(w) + n
                            THEN offset[f] + o ELSE disk[f][o]
<1>1. o \in 0 .. Lengths[f] - 1 /\ Lengths[f] \in Nat
  <2>1. disk[f] \in [0 .. Lengths[f] - 1 -> Nat \cup {Blank}]
    BY DEF TypeInv, TypeOK
  <2> QED
    BY <2>1
<1>2. CASE f # file[w]
  <2>1. disk'[f] = disk[f]
    BY <1>2 DEF Pwritten, TypeInv, TypeOK
  <2> QED
    BY <1>1, <1>2, <2>1
<1>3. CASE f = file[w]
  <2>1. disk'[f] = [x \in DOMAIN disk[f] |->
            IF FileStart(w) <= x /\ x < FileStart(w) + n
            THEN PieceOffset(w) + written[w] + x - FileStart(w) ELSE disk[f][x]]
    BY <1>3, WritesType DEF Pwritten, TypeInv, TypeOK
  <2>2. PieceOffset(w) + written[w] + o - FileStart(w) = offset[f] + o
    BY <1>1, <1>3, ByteOfPlace
  <2> QED
    BY <1>1, <1>3, <2>1, <2>2
<1> QED
  BY <1>2, <1>3

(* A write, whole or short and of whatever thread, leaves what is stored.  *)
LEMMA StoredStays ==
    ASSUME TypeInv, PlaceInv, NEW w \in Workers, Writes(w), NEW n \in Nat,
           disk' = Pwritten(w, n), UNCHANGED offset, NEW a, Stored(a)
    PROVE  Stored(a)'
<1>1. PICK f \in Files : \E o \in DOMAIN disk[f] : offset[f] + o = a /\ disk[f][o] = a
  BY DEF Stored
<1>2. PICK o \in DOMAIN disk[f] : offset[f] + o = a /\ disk[f][o] = a
  BY <1>1
<1>3. o \in DOMAIN disk'[f] /\ disk'[f][o] = a
  BY <1>2, ByteWritten
<1> QED
  BY <1>2, <1>3 DEF Stored

(* The bytes a write returns as written are stored.                        *)
LEMMA StoredAnew ==
    ASSUME TypeInv, PlaceInv, NEW w \in Workers, Writes(w),
           disk' = Pwritten(w, ToWrite(w)), UNCHANGED offset,
           NEW a \in PieceOffset(w) + written[w] .. PieceOffset(w) + written[w] + ToWrite(w) - 1
    PROVE  Stored(a)'
<1> DEFINE fs == FileStart(w)
           at == offset[file[w]]
           po == PieceOffset(w)
           wr == written[w]
           n  == ToWrite(w)
           ln == Lengths[file[w]]
           o  == a - at
<1>1. /\ file[w] \in Files /\ at \in Nat /\ ln \in Nat /\ po \in Nat /\ fs \in Nat /\ wr \in Nat
      /\ n \in Nat
  BY WritesType, ToWriteType
<1>2. po + wr - fs = at
  BY Aligned
<1>3. fs <= ln
  BY <1>1 DEF Writes, LiesBefore, FileStart
<1>4. n <= ln - fs
  <2>1. \A m \in Nat : m % UintRange <= m
    OBVIOUS
  <2>2. ln - fs \in Nat
    BY <1>1, <1>3
  <2>3. (ln - fs) % UintRange <= ln - fs /\ (ln - fs) % UintRange \in Nat
    <3> DEFINE d == ln - fs
    <3>1. d \in Nat
      BY <2>2
    <3> HIDE DEF d
    <3>2. d % UintRange <= d
      BY ONLY <2>1, <3>1
    <3>3. d % UintRange <= d /\ d % UintRange \in Nat
      BY <3>1, <3>2
    <3> QED
      BY <3>3 DEF d
  <2>4. n <= (ln - fs) % UintRange
    <3> DEFINE m == (ln - fs) % UintRange
               left == DataLen(piece[w]) - written[w]
    <3>1. n = IF m > left THEN left ELSE m
      BY DEF ToWrite
    <3>2. m \in Int
      BY <2>3
    <3>3. left \in Int
      <4>1. written[w] \in Nat /\ DataLen(piece[w]) \in 1 .. PieceLength
        BY WritesType
      <4>2. \A d \in 1 .. PieceLength : \A x \in Nat : d - x \in Int
        OBVIOUS
      <4> QED
        BY ONLY <4>1, <4>2 DEF left
    <3> HIDE DEF m, left, n
    <3>4. n <= m
      BY <3>1, <3>2, <3>3
    <3> QED
      BY <3>4 DEF m
  <2> DEFINE m == (ln - fs) % UintRange
  <2> HIDE DEF m, n, ln, fs
  <2>5. m <= ln - fs /\ n <= m /\ m \in Nat
    BY <2>3, <2>4 DEF m
  <2> QED
    BY <1>1, <2>5
<1>5. a \in po + wr .. po + wr + n - 1
  OBVIOUS
<1> HIDE DEF fs, at, po, wr, n, ln
<1>6. o \in Nat /\ fs <= o /\ o < fs + n /\ o <= ln - 1 /\ at + o = a
  BY <1>1, <1>2, <1>3, <1>4, <1>5
<1>7. o \in DOMAIN disk[file[w]]
  <2>1. disk[file[w]] \in [0 .. Lengths[file[w]] - 1 -> Nat \cup {Blank}]
    BY <1>1 DEF TypeInv, TypeOK
  <2> QED
    BY <1>1, <1>6, <2>1 DEF ln
<1> HIDE DEF o
<1>8. o \in DOMAIN disk'[file[w]] /\ disk'[file[w]][o] = at + o
  BY <1>1, <1>6, <1>7, ByteWritten DEF fs, at, n
<1> QED
  BY <1>1, <1>6, <1>8 DEF Stored, at

(* The loop of a thread ends early only when its whole piece is written.   *)
LEMMA EndsWhole ==
    ASSUME TypeInv, PlaceInv, ProgressInv, NEW w \in Workers, loop_ends(w),
           TotalBytes <= total_size
    PROVE  written[w] = DataLen(piece[w])
<1> SUFFICES ASSUME written[w] # DataLen(piece[w]) PROVE FALSE
  OBVIOUS
<1>1. pc[w] = "loop" /\ LoopDone(w)
  BY DEF loop_ends
<1>2. /\ PieceOffset(w) \in Nat /\ written[w] \in Nat /\ file[w] \in Nat /\ FilesCount \in Nat
      /\ DataLen(piece[w]) \in Nat \ {0} /\ piece[w] \in Pieces
      /\ written[w] <= DataLen(piece[w])
  <2>1. piece[w] \in Pieces /\ written[w] \in Nat /\ file[w] \in Nat
    BY DEF TypeInv, TypeOK
  <2>2. PieceOffset(w) \in Nat
    BY OffsetType DEF TypeInv
  <2>3. DataLen(piece[w]) \in 1 .. PieceLength
    BY <2>1, DataLenType
  <2>4. written[w] <= DataLen(piece[w])
    BY <1>1 DEF TypeInv, WrittenInv
  <2> QED
    BY <2>1, <2>2, <2>3, <2>4, Counts
<1>3. CASE file[w] > FilesCount
  <2>1. total_size <= PieceOffset(w) + written[w]
    BY <1>1, <1>3 DEF ProgressInv
  <2>2. PieceOffset(w) + DataLen(piece[w]) <= TotalBytes
    BY <1>2, PieceInTorrent DEF PieceOffset
  <2>3. TotalBytes \in Int /\ total_size \in Int
    <3>1. \A m, n \in Int : m * n \in Int
      OBVIOUS
    <3>2. (PiecesCount - 1) * PieceLength \in Int
      BY <3>1
    <3> QED
      BY <3>2 DEF TotalBytes, TypeInv, TypeOK
  <2> QED
    BY <1>2, <2>1, <2>2, <2>3
<1>4. CASE file[w] <= FilesCount /\ EndsBefore(w, file[w])
  <2>1. At(w)
    BY <1>1, <1>4 DEF PlaceInv, LoopInv, Unfinished
  <2>2. offset[file[w]] \in Nat
    <3>1. file[w] \in Files
      BY <1>2, <1>4, Counts, FilesRange DEF TypeInv, TypeOK
    <3> QED
      BY <3>1 DEF TypeInv, TypeOK
  <2>3. PieceOffset(w) + DataLen(piece[w]) <= offset[file[w]]
    BY <1>4 DEF EndsBefore
  <2> QED
    BY <1>2, <2>1, <2>2, <2>3 DEF At
<1> QED
  BY <1>1, <1>3, <1>4 DEF LoopDone

(* Past the last file a thread is past all bytes there are.                *)
LEMMA LastEnds ==
    ASSUME TypeInv, PlaceInv, NEW w \in Workers, pc[w] = "loop",
           file[w] <= FilesCount, file[w] + 1 > FilesCount
    PROVE  total_size = offset[file[w]] + Lengths[file[w]]
<1>1. file[w] \in Nat \ {0} /\ FilesCount \in Nat
  BY Counts DEF TypeInv, TypeOK
<1>2. filled = FilesCount
  BY LayoutDone
<1>3. file[w] = filled /\ filled > 0
  BY <1>1, <1>2
<1> QED
  BY <1>3 DEF PlaceInv, LayoutInv

(* What the other threads have written stays written.                      *)
LEMMA ProgressOfOthers ==
    ASSUME ProgressInv, NEW x \in Workers, pc[x] = "loop",
           file'[x] = file[x], written'[x] = written[x], piece'[x] = piece[x],
           UNCHANGED layout, \A a : Stored(a) => Stored(a)'
    PROVE  /\ \A a \in PieceOffset(x)' .. PieceOffset(x)' + written'[x] - 1 : Stored(a)'
           /\ file'[x] > FilesCount /\ written'[x] # DataLen(piece'[x])
                 => total_size' <= PieceOffset(x)' + written'[x]
<1>1. PieceOffset(x)' = PieceOffset(x) /\ total_size' = total_size
  BY DEF PieceOffset, layout
<1> QED
  BY <1>1 DEF ProgressInv

(* What was reported stays true.                                           *)
LEMMA ReportsStay ==
    ASSUME ReportedIsWritten, \A a : Stored(a) => Stored(a)',
           \A r \in results' : r.success =>
               \/ r \in results
               \/ \A a \in r.piece * PieceLength .. r.piece * PieceLength + DataLen(r.piece) - 1 :
                     Stored(a)
    PROVE  ReportedIsWritten'
<1> SUFFICES ASSUME NEW r \in results', r.success,
                    NEW a \in r.piece * PieceLength .. r.piece * PieceLength + DataLen(r.piece) - 1
             PROVE  Stored(a)'
  BY DEF ReportedIsWritten, BytesOf, Stored, DataLen
<1>1. Stored(a)
  BY DEF ReportedIsWritten, BytesOf
<1> QED
  BY <1>1

LEMMA WholeNext ==
    FitsUint /\ TypeInv /\ PlaceInv /\ WholeInv /\ [Next]_vars => WholeInv'
<1> SUFFICES ASSUME FitsUint, TypeInv, PlaceInv, WholeInv, [Next]_vars PROVE WholeInv'
  OBVIOUS
<1>0. TotalBytes' = TotalBytes
  BY DEF TotalBytes
<1>1. CASE fill_in_file
  <2>1. filled < FilesCount /\ UNCHANGED <<disk, pc, results>>
    BY <1>1 DEF fill_in_file
  <2>2. results = {} /\ \A w \in Workers : pc[w] = "idle"
    BY <2>1 DEF WholeInv, PlaceInv, BlankInv
  <2> QED
    BY <2>1, <2>2 DEF WholeInv, ProgressInv, ReportedIsWritten
<1>2. ASSUME UNCHANGED <<disk, layout>> PROVE \A a : Stored(a) => Stored(a)'
  BY <1>2 DEF Stored, layout
<1>3. ASSUME NEW w \in Workers, pc[w] = "loop" PROVE ~(filled < FilesCount)
  BY <1>3, LayoutDone, Counts
<1>4. ASSUME NEW w \in Workers, NEW b \in BOOLEAN, pc[w] = "loop", Return(w, b), UNCHANGED layout,
             \A a : Stored(a) => Stored(a)',
             b /\ TotalBytes <= total_size => written[w] = DataLen(piece[w])
      PROVE  WholeInv'
  <2>1. /\ pc' = [pc EXCEPT ![w] = "idle"] /\ UNCHANGED <<piece, file, written>>
        /\ results' = results \cup {[piece |-> piece[w], success |-> b]}
    BY <1>4 DEF Return, locals
  <2>2. ASSUME NEW x \in Workers, pc'[x] = "loop" PROVE pc[x] = "loop"
    BY <2>1, <2>2 DEF TypeInv, TypeOK
  <2>3. ProgressInv'
    <3> SUFFICES ASSUME NEW x \in Workers, pc'[x] = "loop"
                 PROVE  /\ \A a \in PieceOffset(x)' .. PieceOffset(x)' + written'[x] - 1 : Stored(a)'
                        /\ file'[x] > FilesCount /\ written'[x] # DataLen(piece'[x])
                              => total_size' <= PieceOffset(x)' + written'[x]
      BY DEF ProgressInv, DataLen, FilesCount
    <3> QED
      BY <1>4, <2>1, <2>2, ProgressOfOthers DEF WholeInv
  <2>4. ASSUME TotalBytes <= total_size PROVE ReportedIsWritten'
    <3>1. ASSUME b
          PROVE  \A a \in piece[w] * PieceLength .. piece[w] * PieceLength + DataLen(piece[w]) - 1 :
                     Stored(a)
      BY <1>4, <2>4, <3>1 DEF WholeInv, ProgressInv, PieceOffset
    <3>2. \A r \in results' : r.success =>
               \/ r \in results
               \/ \A a \in r.piece * PieceLength .. r.piece * PieceLength + DataLen(r.piece) - 1 :
                     Stored(a)
      BY <2>1, <3>1
    <3> QED
      BY <1>4, <2>4, <3>2, ReportsStay DEF WholeInv
  <2>5. ~(filled < FilesCount)' /\ total_size' = total_size
    BY <1>3, <1>4 DEF layout, FilesCount
  <2> QED
    BY <1>0, <2>3, <2>4, <2>5 DEF WholeInv
<1>5. ASSUME NEW w \in Workers, UNCHANGED <<layout, results>>,
             \A x \in Workers \ {w} : pc'[x] = "loop" =>
                 pc[x] = "loop" /\ file'[x] = file[x] /\ written'[x] = written[x] /\ piece'[x] = piece[x],
             \A a : Stored(a) => Stored(a)',
             /\ \A a \in PieceOffset(w)' .. PieceOffset(w)' + written'[w] - 1 : Stored(a)'
             /\ file'[w] > FilesCount /\ written'[w] # DataLen(piece'[w])
                   => total_size' <= PieceOffset(w)' + written'[w]
      PROVE  WholeInv'
  <2>1. ProgressInv'
    <3> SUFFICES ASSUME NEW x \in Workers, pc'[x] = "loop"
                 PROVE  /\ \A a \in PieceOffset(x)' .. PieceOffset(x)' + written'[x] - 1 : Stored(a)'
                        /\ file'[x] > FilesCount /\ written'[x] # DataLen(piece'[x])
                              => total_size' <= PieceOffset(x)' + written'[x]
      BY DEF ProgressInv, DataLen, FilesCount
    <3>1. CASE x = w
      BY <1>5, <3>1
    <3>2. CASE x # w
      <4>1. pc[x] = "loop" /\ file'[x] = file[x] /\ written'[x] = written[x] /\ piece'[x] = piece[x]
        BY <1>5, <3>2
      <4> QED
        BY <1>5, <4>1, ProgressOfOthers DEF WholeInv
    <3> QED
      BY <3>1, <3>2
  <2>2. ReportedIsWritten => ReportedIsWritten'
    BY <1>5, ReportsStay
  <2>3. filled' = filled /\ total_size' = total_size /\ results' = results
    BY <1>5 DEF layout
  <2> QED
    BY <1>0, <2>1, <2>2, <2>3 DEF WholeInv, FilesCount
<1>6. ASSUME NEW w \in Workers, NEW p \in Pieces, write_piece_to_disk(w, p)
      PROVE  WholeInv'
  <2>1. /\ UNCHANGED <<layout, results, disk>> /\ filled = FilesCount
        /\ written'[w] = 0 /\ file'[w] = 1 /\ piece'[w] = p
        /\ \A x \in Workers \ {w} : /\ pc'[x] = pc[x] /\ file'[x] = file[x]
                                    /\ written'[x] = written[x] /\ piece'[x] = piece[x]
    BY <1>6 DEF write_piece_to_disk, TypeInv, TypeOK
  <2>2. PieceOffset(w)' \in Nat
    <3>1. p \in Nat /\ \A m, n \in Nat : m * n \in Nat
      BY DEF Pieces
    <3> QED
      BY <2>1, <3>1 DEF PieceOffset
  <2>3. PieceOffset(w)' .. PieceOffset(w)' + written'[w] - 1 = {}
    BY <2>1, <2>2
  <2>4. file'[w] > FilesCount => total_size' = 0
    <3>1. file'[w] > FilesCount => filled = 0
      BY <2>1, Counts
    <3> QED
      BY <2>1, <3>1 DEF PlaceInv, LayoutInv, layout
  <2>5. file'[w] > FilesCount => total_size' <= PieceOffset(w)' + written'[w]
    BY <2>1, <2>2, <2>4
  <2> QED
    BY <1>2, <1>5, <2>1, <2>3, <2>5
<1>7. ASSUME NEW w \in Workers, loop_ends(w) PROVE WholeInv'
  <2>1. TotalBytes <= total_size => written[w] = DataLen(piece[w])
    BY <1>7, EndsWhole DEF WholeInv
  <2> QED
    BY <1>2, <1>4, <1>7, <2>1 DEF loop_ends
<1>8. ASSUME NEW w \in Workers, skip_file(w) PROVE WholeInv'
  <2>1. /\ UNCHANGED <<layout, results, disk, pc, piece, written>> /\ pc[w] = "loop"
        /\ file'[w] = file[w] + 1 /\ \A x \in Workers \ {w} : file'[x] = file[x]
        /\ ~LoopDone(w) /\ offset[file[w]] + Lengths[file[w]] <= PieceOffset(w)
    BY <1>8 DEF skip_file, LiesBefore, TypeInv, TypeOK
  <2>2. PieceOffset(w)' = PieceOffset(w) /\ PieceOffset(w) \in Nat /\ written[w] \in Nat
    <3>1. PieceOffset(w) \in Nat
      BY OffsetType DEF TypeInv
    <3> QED
      BY <2>1, <3>1 DEF PieceOffset, TypeInv, TypeOK
  <2>3. file'[w] > FilesCount => total_size' <= PieceOffset(w)' + written'[w]
    <3>1. file[w] <= FilesCount
      BY <2>1, LoopGoesOn DEF Unfinished, TypeInv
    <3>2. file'[w] > FilesCount => total_size <= PieceOffset(w)
      BY <2>1, <3>1, LastEnds
    <3>3. total_size' = total_size /\ total_size \in Nat
      BY <2>1 DEF layout, TypeInv, TypeOK
    <3> QED
      BY <2>1, <2>2, <3>2, <3>3
  <2>4. \A a : Stored(a) => Stored(a)'
    BY <1>2, <2>1
  <2>5. \A a \in PieceOffset(w)' .. PieceOffset(w)' + written'[w] - 1 : Stored(a)'
    BY <2>1, <2>2, <2>4 DEF WholeInv, ProgressInv
  <2> QED
    BY <1>5, <2>1, <2>3, <2>4, <2>5
<1>9. ASSUME NEW w \in Workers, open_fails(w) PROVE WholeInv'
  BY <1>2, <1>4, <1>9 DEF open_fails, Writes
<1>10. ASSUME NEW w \in Workers, pwrite_short(w) PROVE WholeInv'
  <2>1. PICK n \in 0 .. ToWrite(w) - 1 : disk' = Pwritten(w, n)
    BY <1>10 DEF pwrite_short
  <2>2. n \in Nat /\ Writes(w) /\ UNCHANGED offset
    BY <2>1, <1>10, ToWriteType, WritesType DEF pwrite_short, layout
  <2>3. \A a : Stored(a) => Stored(a)'
    BY <2>1, <2>2, StoredStays
  <2> QED
    BY <1>4, <1>10, <2>3 DEF pwrite_short, Writes
<1>11. ASSUME NEW w \in Workers, pwrite_all(w) PROVE WholeInv'
  <2>1. /\ Writes(w) /\ disk' = Pwritten(w, ToWrite(w))
        /\ UNCHANGED <<layout, results, pc, piece>> /\ pc[w] = "loop"
        /\ file'[w] = file[w] + 1 /\ written'[w] = written[w] + ToWrite(w)
        /\ \A x \in Workers \ {w} : file'[x] = file[x] /\ written'[x] = written[x]
    BY <1>11 DEF pwrite_all, Writes, TypeInv, TypeOK
  <2>2. /\ ToWrite(w) \in Nat /\ PieceOffset(w) \in Nat /\ written[w] \in Nat
        /\ PieceOffset(w)' = PieceOffset(w) /\ offset' = offset /\ total_size' = total_size
    BY <2>1, ToWriteType, WritesType DEF PieceOffset, layout
  <2>3. \A a : Stored(a) => Stored(a)'
    BY <2>1, <2>2, StoredStays
  <2>4. \A a \in PieceOffset(w)' .. PieceOffset(w)' + written'[w] - 1 : Stored(a)'
    <3> SUFFICES ASSUME NEW a \in PieceOffset(w)' .. PieceOffset(w)' + written'[w] - 1
                 PROVE  Stored(a)'
      OBVIOUS
    <3>1. CASE a \in PieceOffset(w) .. PieceOffset(w) + written[w] - 1
      BY <2>1, <2>3, <3>1 DEF WholeInv, ProgressInv
    <3>2. CASE a \in PieceOffset(w) + written[w] .. PieceOffset(w) + written[w] + ToWrite(w) - 1
      BY <2>1, <2>2, <3>2, StoredAnew
    <3> QED
      BY <2>1, <2>2, <3>1, <3>2
  <2>5. file'[w] > FilesCount /\ written'[w] # DataLen(piece'[w])
           => total_size' <= PieceOffset(w)' + written'[w]
    <3> SUFFICES ASSUME file'[w] > FilesCount, written'[w] # DataLen(piece'[w])
                 PROVE  total_size' <= PieceOffset(w)' + written'[w]
      OBVIOUS
    <3>1. file[w] <= FilesCount
      BY <2>1, LoopGoesOn DEF Unfinished, TypeInv, Writes
    <3>2. total_size = offset[file[w]] + Lengths[file[w]]
      BY <2>1, <3>1, LastEnds
    <3>3. PieceOffset(w) + written[w] + ToWrite(w) = offset[file[w]] + Lengths[file[w]]
      BY <2>1, RestWritten
    <3> QED
      BY <2>1, <2>2, <3>2, <3>3
  <2> QED
    BY <1>5, <2>1, <2>3, <2>4, <2>5
<1>12. CASE UNCHANGED vars
  <2>1. UNCHANGED <<layout, disk, pc, piece, file, written, results>>
    BY <1>12 DEF vars, locals
  <2> QED
    BY <2>1 DEF WholeInv, ProgressInv, PieceOffset, Stored, ReportedIsWritten, DataLen, layout,
       TotalBytes
<1> QED
  BY <1>1, <1>6, <1>7, <1>8, <1>9, <1>10, <1>11, <1>12 DEF Next, WorkerStep

(* A piece reported as written is in the files from its first byte to its  *)
(* last, whatever other threads write to the same files, and whichever     *)
(* writes fail, when the files that are laid out are as long as the pieces. *)
(* (A torrent of one file is laid out with a length of 0.)                 *)
THEOREM ReportedIsThere ==
    ASSUME FitsUint
    PROVE  Spec => [](TotalBytes <= total_size => ReportedIsWritten)
<1>1. Init => TypeInv /\ PlaceInv /\ WholeInv
  <2>1. Init => WholeInv
    BY DEF Init, WholeInv, ProgressInv, ReportedIsWritten
  <2> QED
    BY <2>1, TypeInit, PlaceInit
<1>2. (TypeInv /\ PlaceInv /\ WholeInv) /\ [Next]_vars => (TypeInv /\ PlaceInv /\ WholeInv)'
  BY TypeNext, PlaceNext, WholeNext
<1>3. TypeInv /\ PlaceInv /\ WholeInv => (TotalBytes <= total_size => ReportedIsWritten)
  BY DEF WholeInv
<1> QED
  BY <1>1, <1>2, <1>3, PTL DEF Spec

-----------------------------------------------------------------------------
(* The files store pieces (PieceStore)                                     *)

StoredBytes == {a \in UNION {BytesOf(p) : p \in Pieces} : Stored(a)}
WritingOf == [w \in Workers |-> IF pc[w] = "loop" THEN piece[w] ELSE Blank]

(* A write, whole or short, stores bytes of its thread's piece only.        *)
LEMMA OwnBytesOnly ==
    ASSUME TypeInv, PlaceInv, NEW w \in Workers, Writes(w), NEW n \in 0 .. ToWrite(w),
           disk' = Pwritten(w, n), UNCHANGED offset, NEW a, Stored(a)', ~Stored(a)
    PROVE  a \in BytesOf(piece[w])
<1>1. /\ file[w] \in Files /\ offset[file[w]] \in Nat /\ PieceOffset(w) \in Nat
      /\ FileStart(w) \in Nat /\ written[w] \in Nat /\ ToWrite(w) \in Nat /\ n \in Nat
      /\ DataLen(piece[w]) \in Nat
  <2>1. /\ file[w] \in Files /\ offset[file[w]] \in Nat /\ PieceOffset(w) \in Nat
        /\ FileStart(w) \in Nat /\ written[w] \in Nat /\ DataLen(piece[w]) \in 1 .. PieceLength
    BY WritesType
  <2>2. ToWrite(w) \in Nat
    BY ToWriteType
  <2> QED
    BY <2>1, <2>2
<1>2. PieceOffset(w) + written[w] - FileStart(w) = offset[file[w]]
  BY Aligned
<1>3. PICK f \in Files : \E o \in DOMAIN disk'[f] : offset[f] + o = a /\ disk'[f][o] = a
  BY DEF Stored
<1>4. PICK o \in DOMAIN disk[f] : offset[f] + o = a /\ disk'[f][o] = a
  <2>1. DOMAIN disk'[f] = DOMAIN disk[f]
    BY <1>1 DEF Pwritten, TypeInv, TypeOK
  <2> QED
    BY <1>3, <2>1
<1>5. n \in Nat
  BY <1>1
<1>6. /\ o \in Nat
      /\ disk'[f][o] = IF f = file[w] /\ FileStart(w) <= o /\ o < FileStart(w) + n
                       THEN offset[f] + o ELSE disk[f][o]
  BY <1>5, ByteWritten
<1>7. f = file[w] /\ FileStart(w) <= o /\ o < FileStart(w) + n
  BY <1>4, <1>6 DEF Stored
<1>8. written[w] + n <= DataLen(piece[w])
  <2>1. ToWrite(w) <= DataLen(piece[w]) - written[w]
    BY ToWriteType
  <2> QED
    BY <1>1, <2>1
<1>9. a \in PieceOffset(w) .. PieceOffset(w) + DataLen(piece[w]) - 1
  <2>1. PICK at \in Nat, po \in Nat, wr \in Nat, fs \in Nat, ln \in Nat :
           /\ at = offset[file[w]] /\ po = PieceOffset(w) /\ wr = written[w]
           /\ fs = FileStart(w) /\ ln = DataLen(piece[w])
    BY <1>1
  <2>2. /\ po + wr - fs = at /\ at + o = a /\ fs <= o /\ o < fs + n /\ wr + n <= ln
        /\ o \in Nat /\ n \in Nat
    BY <1>2, <1>4, <1>5, <1>6, <1>7, <1>8, <2>1
  <2>3. a \in po .. po + ln - 1
    BY ONLY <2>2, at \in Nat, po \in Nat, wr \in Nat, fs \in Nat, ln \in Nat
  <2> QED
    BY <2>1, <2>3
<1> QED
  BY <1>9 DEF BytesOf, PieceOffset

(* Such a write is a step of the store.                                     *)
LEMMA WriteStores ==
    ASSUME TypeInv, PlaceInv, NEW w \in Workers, Writes(w), NEW n \in 0 .. ToWrite(w),
           disk' = Pwritten(w, n), UNCHANGED offset
    PROVE  \E bytes \in SUBSET BytesOf(piece[w]) : StoredBytes' = StoredBytes \cup bytes
<1> DEFINE bytes == StoredBytes' \ StoredBytes
<1>1. n \in Nat
  BY ToWriteType
<1>2. \A a : Stored(a) => Stored(a)'
  BY <1>1, StoredStays
<1>3. \A a : Stored(a)' /\ ~Stored(a) => a \in BytesOf(piece[w])
  BY OwnBytesOnly
<1>4. (UNION {BytesOf(p) : p \in Pieces})' = UNION {BytesOf(p) : p \in Pieces}
  BY DEF BytesOf, DataLen
<1>5. StoredBytes \subseteq StoredBytes' /\ bytes \subseteq BytesOf(piece[w])
  BY <1>2, <1>3, <1>4 DEF StoredBytes
<1>6. StoredBytes' = StoredBytes \cup bytes
  BY <1>5
<1> HIDE DEF bytes
<1> QED
  BY <1>5, <1>6

LEMMA StoredUnchanged ==
    ASSUME UNCHANGED <<disk, offset>>
    PROVE  StoredBytes' = StoredBytes
  BY DEF StoredBytes, Stored, BytesOf, DataLen

LEMMA StoreInit == Init => Abstract!Init
<1> SUFFICES ASSUME Init PROVE Abstract!Init
  OBVIOUS
<1>1. \A a \in UNION {BytesOf(p) : p \in Pieces} : ~Stored(a)
  <2>1. \A p \in Pieces : \A a \in BytesOf(p) : a # Blank
    BY DEF BytesOf, Pieces, DataLen
  <2>2. \A f \in Files : \A o \in DOMAIN disk[f] : disk[f][o] = Blank
    BY DEF Init
  <2> QED
    BY <2>1, <2>2 DEF Stored
<1>2. StoredBytes = {}
  BY <1>1 DEF StoredBytes
<1> QED
  BY <1>2 DEF Init, Abstract!Init, StoredBytes

(* The steps of the store, in terms of the two definitions above.           *)
LEMMA StoreStutters ==
    ASSUME StoredBytes' = StoredBytes, WritingOf' = WritingOf, results' = results
    PROVE  UNCHANGED Abstract!vars
BY DEF StoredBytes, WritingOf, Abstract!vars

LEMMA StoreContinues ==
    ASSUME NEW w \in Workers, WritingOf[w] # Blank,
           \E bytes \in SUBSET BytesOf(WritingOf[w]) : StoredBytes' = StoredBytes \cup bytes,
           WritingOf' = WritingOf, results' = results
    PROVE  Abstract!Next
<1>1. Abstract!Stores(w)
  BY DEF StoredBytes, WritingOf, Abstract!Stores
<1>2. Abstract!Continue(w)
  BY <1>1 DEF WritingOf, Abstract!Continue
<1> QED
  BY <1>2 DEF Abstract!Next

LEMMA StoreReports ==
    ASSUME NEW w \in Workers, NEW b \in BOOLEAN, WritingOf[w] # Blank,
           \E bytes \in SUBSET BytesOf(WritingOf[w]) : StoredBytes' = StoredBytes \cup bytes,
           b => BytesOf(WritingOf[w]) \subseteq StoredBytes',
           WritingOf' = [WritingOf EXCEPT ![w] = Blank],
           results' = results \cup {[piece |-> WritingOf[w], success |-> b]}
    PROVE  Abstract!Next
<1>1. Abstract!Stores(w)
  BY DEF StoredBytes, WritingOf, Abstract!Stores
<1>2. Abstract!Report(w, b)
  BY <1>1 DEF StoredBytes, WritingOf, Abstract!Report
<1> QED
  BY <1>2 DEF Abstract!Next

(* A thread that returns leaves its piece, the others keep theirs.          *)
LEMMA ReturnReports ==
    ASSUME TypeInv, NEW w \in Workers, NEW b \in BOOLEAN, pc[w] = "loop", Return(w, b),
           \E bytes \in SUBSET BytesOf(piece[w]) : StoredBytes' = StoredBytes \cup bytes,
           b => BytesOf(piece[w]) \subseteq StoredBytes'
    PROVE  Abstract!Next
<1>1. piece[w] \in Pieces /\ pc \in [Workers -> {"idle", "loop"}]
  BY DEF TypeInv, TypeOK
<1>2. piece[w] # Blank
  BY <1>1 DEF Pieces
<1>3. WritingOf[w] = piece[w]
  BY DEF WritingOf
<1>4. WritingOf' = [WritingOf EXCEPT ![w] = Blank]
  BY <1>1 DEF WritingOf, Return, locals
<1>5. results' = results \cup {[piece |-> WritingOf[w], success |-> b]}
  BY <1>3 DEF Return
<1>6. /\ WritingOf[w] # Blank
      /\ \E bytes \in SUBSET BytesOf(WritingOf[w]) : StoredBytes' = StoredBytes \cup bytes
      /\ b => BytesOf(WritingOf[w]) \subseteq StoredBytes'
  BY <1>2, <1>3
<1> QED
  BY <1>4, <1>5, <1>6, StoreReports

(* Before the layout is complete nothing is stored, wherever files start.   *)
LEMMA NothingStored ==
    ASSUME \A f \in Files : \A o \in DOMAIN disk[f] : disk[f][o] = Blank
    PROVE  StoredBytes = {}
<1>1. \A p \in Pieces : \A a \in BytesOf(p) : a # Blank
  BY DEF BytesOf, Pieces, DataLen
<1> QED
  BY <1>1 DEF StoredBytes, Stored

(* The files are laid out at least as long as the pieces.                   *)
LongEnough == filled = FilesCount => TotalBytes <= total_size

LEMMA StoreStep ==
    TypeInv /\ PlaceInv /\ WholeInv /\ LongEnough /\ [Next]_vars
        => [Abstract!Next]_(Abstract!vars)
<1> SUFFICES ASSUME TypeInv, PlaceInv, WholeInv, LongEnough, [Next]_vars
             PROVE  [Abstract!Next]_(Abstract!vars)
  OBVIOUS
<1>0. pc \in [Workers -> {"idle", "loop"}] /\ piece \in [Workers -> Pieces]
  BY DEF TypeInv, TypeOK
<1>1. CASE fill_in_file
  <2>1. \A f \in Files : \A o \in DOMAIN disk[f] : disk[f][o] = Blank
    BY <1>1 DEF fill_in_file, PlaceInv, BlankInv
  <2>2. StoredBytes = {}
    BY <2>1, NothingStored
  <2>3. disk' = disk /\ pc' = pc /\ piece' = piece /\ results' = results
    BY <1>1 DEF fill_in_file, locals
  <2>4. \A a \in UNION {BytesOf(p) : p \in Pieces} : ~Stored(a)'
    <3>1. \A p \in Pieces : \A a \in BytesOf(p) : a # Blank
      BY DEF BytesOf, Pieces, DataLen
    <3> QED
      BY <2>1, <2>3, <3>1 DEF Stored
  <2>5. StoredBytes' = {}
    BY <2>4 DEF StoredBytes, BytesOf, DataLen
  <2>6. WritingOf' = WritingOf
    BY <2>3 DEF WritingOf
  <2> QED
    BY <2>2, <2>3, <2>5, <2>6, StoreStutters
<1>2. ASSUME NEW w \in Workers, NEW p \in Pieces, write_piece_to_disk(w, p)
      PROVE  Abstract!Next
  <2>1. StoredBytes' = StoredBytes
    BY <1>2, StoredUnchanged DEF write_piece_to_disk, layout
  <2>2. WritingOf[w] = Blank /\ WritingOf' = [WritingOf EXCEPT ![w] = p]
    BY <1>0, <1>2 DEF write_piece_to_disk, WritingOf
  <2>3. results' = results
    BY <1>2 DEF write_piece_to_disk
  <2>4. Abstract!Begin(w, p)
    BY <2>1, <2>2, <2>3 DEF StoredBytes, WritingOf, Abstract!Begin
  <2> QED
    BY <2>4 DEF Abstract!Next
<1>3. ASSUME NEW w \in Workers, loop_ends(w)
      PROVE  Abstract!Next
  <2>1. pc[w] = "loop" /\ Return(w, TRUE)
    BY <1>3 DEF loop_ends
  <2>2. StoredBytes' = StoredBytes
    BY <1>3, StoredUnchanged DEF loop_ends, layout
  <2>3. TotalBytes <= total_size
    BY <2>1, LayoutDone DEF LongEnough
  <2>4. written[w] = DataLen(piece[w])
    BY <1>3, <2>3, EndsWhole DEF WholeInv
  <2>5. \A a \in BytesOf(piece[w]) : Stored(a)
    BY <2>1, <2>4 DEF WholeInv, ProgressInv, BytesOf, PieceOffset
  <2>6. BytesOf(piece[w]) \subseteq StoredBytes'
    <3>1. BytesOf(piece[w]) \subseteq StoredBytes
      BY <1>0, <2>5 DEF StoredBytes
    <3> QED
      BY <2>2, <3>1
  <2>7. \E bytes \in SUBSET BytesOf(piece[w]) : StoredBytes' = StoredBytes \cup bytes
    <3> WITNESS {} \in SUBSET BytesOf(piece[w])
    <3> QED
      BY <2>2
  <2> QED
    BY <2>1, <2>6, <2>7, ReturnReports
<1>4. ASSUME NEW w \in Workers, skip_file(w)
      PROVE  UNCHANGED Abstract!vars
  <2>1. StoredBytes' = StoredBytes
    BY <1>4, StoredUnchanged DEF skip_file, layout
  <2>2. WritingOf' = WritingOf /\ results' = results
    BY <1>4 DEF skip_file, WritingOf
  <2> QED
    BY <2>1, <2>2, StoreStutters
<1>5. ASSUME NEW w \in Workers, open_fails(w)
      PROVE  Abstract!Next
  <2>1. pc[w] = "loop" /\ Return(w, FALSE)
    BY <1>5 DEF open_fails, Writes
  <2>2. StoredBytes' = StoredBytes
    BY <1>5, StoredUnchanged DEF open_fails, layout
  <2>3. \E bytes \in SUBSET BytesOf(piece[w]) : StoredBytes' = StoredBytes \cup bytes
    <3> WITNESS {} \in SUBSET BytesOf(piece[w])
    <3> QED
      BY <2>2
  <2> QED
    BY <2>1, <2>3, ReturnReports
<1>6. ASSUME NEW w \in Workers, pwrite_short(w)
      PROVE  Abstract!Next
  <2>1. pc[w] = "loop" /\ Writes(w) /\ Return(w, FALSE) /\ offset' = offset
    BY <1>6 DEF pwrite_short, Writes, layout
  <2>2. PICK n \in 0 .. ToWrite(w) - 1 : disk' = Pwritten(w, n)
    BY <1>6 DEF pwrite_short
  <2>3. n \in 0 .. ToWrite(w)
    BY <2>1, ToWriteType
  <2>4. \E bytes \in SUBSET BytesOf(piece[w]) : StoredBytes' = StoredBytes \cup bytes
    BY <2>1, <2>2, <2>3, WriteStores
  <2> QED
    BY <2>1, <2>4, ReturnReports
<1>7. ASSUME NEW w \in Workers, pwrite_all(w)
      PROVE  Abstract!Next
  <2>1. /\ pc[w] = "loop" /\ Writes(w) /\ disk' = Pwritten(w, ToWrite(w))
        /\ offset' = offset /\ pc' = pc /\ piece' = piece /\ results' = results
    BY <1>7 DEF pwrite_all, Writes, layout
  <2>2. ToWrite(w) \in 0 .. ToWrite(w)
    <3>1. ToWrite(w) \in Nat
      BY <2>1, ToWriteType
    <3> QED
      BY <3>1
  <2>3. \E bytes \in SUBSET BytesOf(piece[w]) : StoredBytes' = StoredBytes \cup bytes
    BY <2>1, <2>2, WriteStores
  <2>4. WritingOf[w] = piece[w] /\ WritingOf' = WritingOf
    BY <2>1 DEF WritingOf
  <2>5. piece[w] # Blank
    BY <1>0 DEF Pieces
  <2> QED
    BY <2>1, <2>3, <2>4, <2>5, StoreContinues
<1>8. CASE UNCHANGED vars
  <2>1. StoredBytes' = StoredBytes
    BY <1>8, StoredUnchanged DEF vars, layout
  <2>2. WritingOf' = WritingOf /\ results' = results
    BY <1>8 DEF vars, locals, WritingOf
  <2> QED
    BY <2>1, <2>2, StoreStutters
<1> QED
  BY <1>1, <1>2, <1>3, <1>4, <1>5, <1>6, <1>7, <1>8 DEF Next, WorkerStep

(* The threads that write pieces implement the store, for files that are as  *)
(* long as the pieces: a thread stores bytes of its own piece and no other,  *)
(* what is stored no other thread and no failed write loses, and a piece is  *)
(* reported as written with all its bytes stored.                            *)
THEOREM FilesStorePieces ==
    ASSUME FitsUint
    PROVE  Spec /\ []LongEnough => StoresPieces
<1>1. Init => TypeInv /\ PlaceInv /\ WholeInv
  <2>1. Init => WholeInv
    BY DEF Init, WholeInv, ProgressInv, ReportedIsWritten
  <2> QED
    BY <2>1, TypeInit, PlaceInit
<1>2. (TypeInv /\ PlaceInv /\ WholeInv) /\ [Next]_vars => (TypeInv /\ PlaceInv /\ WholeInv)'
  BY TypeNext, PlaceNext, WholeNext
<1> QED
  BY <1>1, <1>2, StoreInit, StoreStep, PTL DEF Spec, StoresPieces, Abstract!Spec

=============================================================================
