------------------------------- MODULE Sizes -------------------------------
(***************************************************************************)
(* The arithmetic of sizes: how a torrent is cut into pieces and a piece   *)
(* into the blocks that are asked for (request_all_blocks), by which bits  *)
(* handle_piece knows that a piece is complete, and how a message is       *)
(* padded before it is hashed (SHA1_padding).                              *)
(***************************************************************************)
EXTENDS Integers, FiniteSets

CONSTANTS
    BlockSize,   \* BLOCK_SIZE, 16384
    IntBits      \* bits of an int: 32

ASSUME SizesAssumption ==
    /\ BlockSize \in Nat \ {0}
    /\ IntBits \in Nat \ {0}

CeilDiv(n, m) == (n + m - 1) \div m

(* total_size in TR_info: fill_in_calculated_field_in_TR_info adds up        *)
(* files_count files, and parse_BEN_info_to_TR_info counts none when the     *)
(* torrent has a single file.  total is the size of the files.              *)
info_total_size(total, multifile) == IF multifile THEN total ELSE 0

(* request_all_blocks and handle_piece work out the size of a piece from the *)
(* total_size of TR_info; pieces count from 0.                              *)
piece_size(total_size, piece_length, pieces_count, piece_idx) ==
    IF piece_idx = pieces_count - 1 THEN total_size % piece_length ELSE piece_length

(* request_all_blocks: what is sent for a piece of that size.              *)
requests(size) ==
    {[offset |-> k * BlockSize,
      length |-> IF size - (k * BlockSize) > BlockSize THEN BlockSize
                 ELSE size - (k * BlockSize)] :
        k \in {j \in 0 .. size : j * BlockSize < size}}

(* The bit that 1 << n has set: no shift by the width of an int or more is  *)
(* defined, the build's takes n modulo the width.                          *)
Bit(n) == n % IntBits

(* blocks_received, as the set of its bits, when the blocks at these        *)
(* offsets have come.                                                      *)
blocks_received(offsets) == {Bit(offset \div BlockSize) : offset \in offsets}

total_blocks(size) == CeilDiv(size, BlockSize)

(* Definitions named X_... are the mistakes the properties are tried on; no *)
(* action uses them.  Here: a last block that is not full is not counted.   *)
all_received_floor(size) == 0 .. Bit(size \div BlockSize) - 1

(* (1 << total_blocks) - 1, as the set of its bits.                        *)
all_received(size) == 0 .. Bit(total_blocks(size)) - 1

-----------------------------------------------------------------------------
(* The block that holds the last bits is forgotten when the rest is full.   *)
padded_length_floor(length) == ((length + 9) \div 64) * 64

(* SHA1_padding                                                            *)
padded_length(length) == ((length + 9) \div 64 + 1) * 64

-----------------------------------------------------------------------------
(* Properties of a torrent and of a message                                *)

(* The pieces as they are asked for make up the torrent, but nothing of the  *)
(* last piece is asked for when the length of a piece divides the size, and  *)
(* in a torrent of a single file never.  total is the size of the torrent's  *)
(* files, length that of a piece.                                          *)
TorrentAskedFor(total, length, multifile) ==
    LET count == CeilDiv(total, length)
        sizes == [k \in 0 .. count - 1 |->
                     piece_size(info_total_size(total, multifile), length, count, k)]
    IN \A k \in 0 .. count - 1 :
          /\ k < count - 1 => sizes[k] = length
          /\ k = count - 1 =>
                IF multifile /\ total % length # 0 THEN (k * length) + sizes[k] = total
                ELSE requests(sizes[k]) = {}

(* The blocks that are asked for cover the piece, none twice, and none is   *)
(* longer than a block.                                                    *)
BlocksCoverPiece(size) ==
    /\ \A r \in requests(size) : r.length \in 1 .. BlockSize
    /\ \A byte \in 0 .. size - 1 :
          Cardinality({r \in requests(size) :
                          byte \in r.offset .. r.offset + r.length - 1}) = 1
    /\ \A r \in requests(size) : r.offset + r.length <= size

(* While a piece has fewer blocks than an int has bits, it is taken for     *)
(* complete exactly when all the blocks asked for have come.                *)
CompleteWhenAll(size) ==
    LET asked == {r.offset : r \in requests(size)} IN
    total_blocks(size) < IntBits =>
        \A come \in SUBSET asked :
            blocks_received(come) = all_received(size) <=> come = asked

(* From as many blocks on as an int has bits, a piece is taken for complete *)
(* too early (when the blocks whose bits are in the mask have come) or, if  *)
(* the number of its blocks is a multiple of the bits, never.               *)
WrongFromIntBitsOn(size) ==
    LET asked == {r.offset : r \in requests(size)} IN
    total_blocks(size) >= IntBits =>
        IF total_blocks(size) % IntBits = 0
        THEN \A come \in (SUBSET asked) \ {{}} : blocks_received(come) # all_received(size)
        ELSE /\ blocks_received(asked) # all_received(size)
             /\ \E come \in SUBSET asked :
                    come # asked /\ blocks_received(come) = all_received(size)

(* A message is padded to the least multiple of 64 that holds it, the byte  *)
(* 0x80 and the eight bytes of its length, but for one that would fit       *)
(* exactly: that one gets 64 bytes too many, and a hash of its own.         *)
PaddedAsSHA1Demands(length) ==
    LET least == CeilDiv(length + 9, 64) * 64 IN
    padded_length(length) = IF (length + 9) % 64 = 0 THEN least + 64 ELSE least

=============================================================================
