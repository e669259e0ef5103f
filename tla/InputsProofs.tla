---------------------------- MODULE InputsProofs ----------------------------
(***************************************************************************)
(* What the properties in Sizes and Paths say, for inputs without a bound,  *)
(* and so in all states of Inputs, whatever its bounds.                    *)
(***************************************************************************)
EXTENDS Inputs, FiniteSetTheorems, SequenceTheorems, WellFoundedInduction, TLAPS

(* The products of two unknowns are beyond linear arithmetic, so that all   *)
(* proofs about sizes go through the few facts about multiples stated first. *)
LEMMA Division ==
    ASSUME NEW n \in Nat, NEW d \in Nat \ {0}
    PROVE  /\ n \div d \in Nat /\ n % d \in 0 .. d - 1
           /\ n = (d * (n \div d)) + (n % d)
  OBVIOUS

LEMMA Multiples ==
    ASSUME NEW d \in Nat \ {0}, NEW i \in Int, NEW j \in Int
    PROVE  /\ i * d \in Int /\ d * i = i * d /\ (i + 1) * d = (i * d) + d
           /\ (i - 1) * d = (i * d) - d
           /\ i < j => (i * d) + d <= j * d
           /\ i <= j => i * d <= j * d
<1>1. i * d \in Int /\ d * i = i * d /\ (i + 1) * d = (i * d) + d /\ (i - 1) * d = (i * d) - d
  OBVIOUS
<1>2. i <= j => i * d <= j * d
  OBVIOUS
<1>3. i < j => (i * d) + d <= j * d
  OBVIOUS
<1> QED
  BY <1>1, <1>2, <1>3

(* A number is between two multiples in one way only.                       *)
LEMMA Quotient ==
    ASSUME NEW d \in Nat \ {0}, NEW k \in Nat, NEW n \in Nat, k * d <= n, n < (k * d) + d
    PROVE  n \div d = k
<1> DEFINE q == n \div d
<1>1. q \in Nat /\ q * d <= n /\ n < (q * d) + d
  BY Division, Multiples
<1> HIDE DEF q
<1>2. ~(q < k) /\ ~(k < q)
  <2>1. q < k => (q * d) + d <= k * d
    BY <1>1, Multiples
  <2>2. k < q => (k * d) + d <= q * d
    BY <1>1, Multiples
  <2>3. k * d \in Int /\ q * d \in Int
    BY <1>1
  <2> QED
    BY <1>1, <2>1, <2>2, <2>3
<1>3. q = k
  BY <1>1, <1>2
<1> QED
  BY <1>3 DEF q

LEMMA Ceil ==
    ASSUME NEW n \in Nat, NEW d \in Nat \ {0}
    PROVE  /\ CeilDiv(n, d) \in Nat
           /\ n <= CeilDiv(n, d) * d
           /\ CeilDiv(n, d) * d < n + d
<1> DEFINE c == CeilDiv(n, d)
<1>1. /\ c \in Nat /\ (n + d - 1) % d \in 0 .. d - 1
      /\ n + d - 1 = (d * c) + ((n + d - 1) % d)
  <2>1. n + d - 1 \in Nat
    OBVIOUS
  <2> QED
    BY <2>1, Division DEF CeilDiv
<1>2. d * c = c * d /\ c * d \in Int
  BY <1>1
<1> HIDE DEF c
<1>3. n <= c * d /\ c * d < n + d
  BY <1>1, <1>2
<1> QED
  BY <1>1, <1>3 DEF c

(* The multiples of d below n.                                              *)
LEMMA Below ==
    ASSUME NEW n \in Nat, NEW d \in Nat \ {0}, NEW j \in Nat
    PROVE  j * d < n <=> j < CeilDiv(n, d)
<1>1. PICK c \in Nat : c = CeilDiv(n, d) /\ n <= c * d /\ c * d < n + d
  BY Ceil
<1>2. j < c => (j * d) + d <= c * d
  BY Multiples
<1>3. c <= j => c * d <= j * d
  BY Multiples
<1>4. j * d \in Int /\ c * d \in Int
  OBVIOUS
<1> QED
  BY <1>1, <1>2, <1>3, <1>4

-----------------------------------------------------------------------------
(* The blocks of a piece                                                    *)

Block(size, k) ==
    [offset |-> k * BlockSize,
     length |-> IF size - (k * BlockSize) > BlockSize THEN BlockSize
                ELSE size - (k * BlockSize)]

LEMMA RequestsAre ==
    ASSUME NEW size \in Nat
    PROVE  /\ total_blocks(size) \in Nat
           /\ \A r : r \in requests(size) <=>
                     \E k \in 0 .. total_blocks(size) - 1 : r = Block(size, k)
           /\ \A k \in 0 .. total_blocks(size) - 1 : k * BlockSize < size
<1>1. PICK n \in Nat : n = total_blocks(size)
  BY Ceil, SizesAssumption DEF total_blocks
<1>2. \A j \in Nat : j * BlockSize < size <=> j < n
  BY <1>1, Below, SizesAssumption DEF total_blocks
<1>3. \A j \in Nat : j * BlockSize < size => j <= size
  <2> TAKE j \in Nat
  <2>1. j <= j * BlockSize /\ j * BlockSize \in Int
    BY SizesAssumption
  <2> QED
    BY <2>1
<1>4. {j \in 0 .. size : j * BlockSize < size} = 0 .. n - 1
  BY <1>2, <1>3
<1>5. requests(size) = {Block(size, k) : k \in 0 .. n - 1}
  BY <1>4 DEF requests, Block
<1>6. \A k \in 0 .. n - 1 : k * BlockSize < size
  BY <1>2
<1> QED
  BY <1>1, <1>5, <1>6

(* request_all_blocks asks for each byte of a piece in one block.           *)
THEOREM BlocksCover == \A size \in Nat : BlocksCoverPiece(size)
<1> TAKE size \in Nat
<1> DEFINE n == total_blocks(size)
<1>1. BlockSize \in Nat \ {0}
  BY SizesAssumption
<1>2. /\ n \in Nat
      /\ \A r : r \in requests(size) <=> \E k \in 0 .. n - 1 : r = Block(size, k)
      /\ \A k \in 0 .. n - 1 : k * BlockSize < size
  BY RequestsAre
<1> HIDE DEF n
<1>3. ASSUME NEW k \in 0 .. n - 1
      PROVE  /\ Block(size, k).length \in 1 .. BlockSize
             /\ Block(size, k).offset = k * BlockSize
             /\ k * BlockSize \in Nat
             /\ (k * BlockSize) + Block(size, k).length <= size
             /\ Block(size, k).length = BlockSize \/ (k * BlockSize) + Block(size, k).length = size
  <2>1. k * BlockSize \in Nat /\ k * BlockSize < size
    BY <1>1, <1>2
  <2> QED
    BY <1>1, <2>1 DEF Block
<1>4. \A r \in requests(size) : r.length \in 1 .. BlockSize /\ r.offset + r.length <= size
  BY <1>2, <1>3
<1>5. ASSUME NEW byte \in 0 .. size - 1
      PROVE  Cardinality({r \in requests(size) : byte \in r.offset .. r.offset + r.length - 1}) = 1
  <2> DEFINE k == byte \div BlockSize
  <2>1. k \in Nat /\ k * BlockSize <= byte /\ byte < (k * BlockSize) + BlockSize
    <3>1. /\ k \in Nat /\ byte % BlockSize \in 0 .. BlockSize - 1
          /\ byte = (BlockSize * k) + (byte % BlockSize)
      <4>1. byte \in Nat
        OBVIOUS
      <4> QED
        BY <1>1, <4>1, Division
    <3>2. BlockSize * k = k * BlockSize /\ k * BlockSize \in Int
      BY <1>1, <3>1
    <3> HIDE DEF k
    <3> QED
      BY <1>1, <3>1, <3>2
  <2>2. k \in 0 .. n - 1
    <3>1. k * BlockSize < size
      BY <1>1, <2>1
    <3>2. k < n
      BY <1>1, <2>1, <3>1, Below DEF n, total_blocks
    <3> HIDE DEF k
    <3> QED
      BY <1>2, <2>1, <3>2
  <2>3. Block(size, k) \in requests(size)
    BY <1>2, <2>2
  <2>4. byte \in Block(size, k).offset .. Block(size, k).offset + Block(size, k).length - 1
    <3> HIDE DEF k
    <3> QED
      BY <1>1, <1>3, <2>1, <2>2
  <2>5. ASSUME NEW r \in requests(size), byte \in r.offset .. r.offset + r.length - 1
        PROVE  r = Block(size, k)
    <3>1. PICK i \in 0 .. n - 1 : r = Block(size, i)
      BY <1>2
    <3>2. i * BlockSize <= byte /\ byte < (i * BlockSize) + BlockSize
      BY <1>1, <1>3, <2>5, <3>1
    <3>3. i = k
      BY <1>1, <3>2, Quotient
    <3> QED
      BY <3>1, <3>3
  <2>6. {r \in requests(size) : byte \in r.offset .. r.offset + r.length - 1} = {Block(size, k)}
    BY <2>3, <2>4, <2>5
  <2> QED
    BY <2>6, FS_Singleton
<1> QED
  BY <1>4, <1>5 DEF BlocksCoverPiece

-----------------------------------------------------------------------------
(* The mask of the blocks                                                   *)

Asked(size) == {r.offset : r \in requests(size)}

(* The block of an offset that is asked for, and the bits of some of them.   *)
LEMMA OffsetsAre ==
    ASSUME NEW size \in Nat
    PROVE  /\ total_blocks(size) \in Nat
           /\ \A k \in 0 .. total_blocks(size) - 1 : k * BlockSize \in Asked(size)
           /\ \A offset \in Asked(size) :
                 \E k \in 0 .. total_blocks(size) - 1 :
                     offset = k * BlockSize /\ offset \div BlockSize = k
           /\ \A k \in 0 .. total_blocks(size) - 1 : (k * BlockSize) \div BlockSize = k
<1> DEFINE n == total_blocks(size)
<1>1. /\ n \in Nat
      /\ \A r : r \in requests(size) <=> \E k \in 0 .. n - 1 : r = Block(size, k)
  BY RequestsAre
<1> HIDE DEF n
<1>2. ASSUME NEW k \in 0 .. n - 1 PROVE (k * BlockSize) \div BlockSize = k
  <2>1. k \in Nat /\ k * BlockSize \in Nat /\ BlockSize \in Nat \ {0}
    BY <1>1, SizesAssumption
  <2> QED
    BY <2>1, Quotient
<1>3. \A k \in 0 .. n - 1 : Block(size, k).offset = k * BlockSize
  BY DEF Block
<1>4. \A k \in 0 .. n - 1 : k * BlockSize \in Asked(size)
  BY <1>1, <1>3 DEF Asked
<1>5. \A offset \in Asked(size) : \E k \in 0 .. n - 1 : offset = k * BlockSize
  BY <1>1, <1>3 DEF Asked
<1> QED
  BY <1>1, <1>2, <1>4, <1>5 DEF n

LEMMA Bits ==
    /\ \A k \in Nat : Bit(k) \in 0 .. IntBits - 1
    /\ \A k \in Nat : k < IntBits => Bit(k) = k
<1>1. IntBits \in Nat \ {0}
  BY SizesAssumption
<1>2. ASSUME NEW k \in Nat
      PROVE  k % IntBits \in 0 .. IntBits - 1 /\ (k < IntBits => k % IntBits = k)
  BY <1>1, <1>2
<1> QED
  BY <1>2 DEF Bit

(* handle_piece takes a piece that has fewer blocks than an int has bits for *)
(* complete exactly when all blocks asked for have come.                    *)
THEOREM CompleteInTime == \A size \in Nat : CompleteWhenAll(size)
<1> TAKE size \in Nat
<1> DEFINE n == total_blocks(size)
           asked == Asked(size)
<1>1. /\ n \in Nat
      /\ \A k \in 0 .. n - 1 : k * BlockSize \in asked
      /\ \A offset \in asked :
            \E k \in 0 .. n - 1 : offset = k * BlockSize /\ offset \div BlockSize = k
      /\ \A k \in 0 .. n - 1 : (k * BlockSize) \div BlockSize = k
  BY OffsetsAre
<1> HIDE DEF n, asked
<1>2. ASSUME n < IntBits, NEW come \in SUBSET asked
      PROVE  blocks_received(come) = 0 .. n - 1 <=> come = asked
  <2>1. \A k \in 0 .. n - 1 : Bit(k) = k
    BY <1>1, <1>2, Bits, SizesAssumption
  <2>2. \A offset \in come : \E k \in 0 .. n - 1 :
           offset = k * BlockSize /\ Bit(offset \div BlockSize) = k
    BY <1>1, <2>1
  <2>3. blocks_received(come) = {k \in 0 .. n - 1 : k * BlockSize \in come}
    <3>1. ASSUME NEW k \in 0 .. n - 1, k * BlockSize \in come PROVE k \in blocks_received(come)
      BY <1>1, <2>1, <3>1 DEF blocks_received
    <3>2. \A k \in blocks_received(come) : k \in 0 .. n - 1 /\ k * BlockSize \in come
      BY <2>2 DEF blocks_received
    <3> QED
      BY <3>1, <3>2
  <2>4. ASSUME blocks_received(come) = 0 .. n - 1 PROVE come = asked
    <3>1. \A k \in 0 .. n - 1 : k * BlockSize \in come
      BY <2>3, <2>4
    <3>2. \A offset \in asked : offset \in come
      BY <1>1, <3>1
    <3> QED
      BY <3>2
  <2>5. ASSUME come = asked PROVE blocks_received(come) = 0 .. n - 1
    BY <1>1, <2>3, <2>5
  <2> QED
    BY <2>4, <2>5
<1>3. n < IntBits => all_received(size) = 0 .. n - 1
  BY <1>1, Bits DEF all_received, n
<1> QED
  BY <1>2, <1>3 DEF CompleteWhenAll, n, asked, Asked

(* From as many blocks on as an int has bits, it does so too early or never.  *)
THEOREM WrongInLargePieces == \A size \in Nat : WrongFromIntBitsOn(size)
<1> TAKE size \in Nat
<1> DEFINE n == total_blocks(size)
           asked == Asked(size)
           mask == all_received(size)
<1>1. /\ n \in Nat
      /\ \A k \in 0 .. n - 1 : k * BlockSize \in asked
      /\ \A offset \in asked :
            \E k \in 0 .. n - 1 : offset = k * BlockSize /\ offset \div BlockSize = k
      /\ \A k \in 0 .. n - 1 : (k * BlockSize) \div BlockSize = k
  BY OffsetsAre
<1>2. PICK m \in 0 .. IntBits - 1 : m = n % IntBits /\ mask = 0 .. m - 1
  BY <1>1, Bits DEF all_received, Bit
<1> HIDE DEF n, asked, mask
<1>3. ASSUME m = 0, NEW come \in (SUBSET asked) \ {{}} PROVE blocks_received(come) # mask
  <2>1. mask = {}
    BY <1>2, <1>3
  <2> QED
    <3>1. PICK offset : offset \in come
      BY <1>3
    <3>2. Bit(offset \div BlockSize) \in blocks_received(come)
      BY <3>1 DEF blocks_received
    <3> QED
      BY <2>1, <3>2
<1>4. ASSUME n >= IntBits
      PROVE  blocks_received(asked) # mask
  <2> DEFINE last == IntBits - 1
  <2>1. last \in 0 .. n - 1 /\ last \in Nat /\ last \notin mask
    BY <1>1, <1>2, <1>4, SizesAssumption
  <2>2. Bit(last) = last
    BY <2>1, Bits, SizesAssumption
  <2> HIDE DEF last
  <2>3. last \in blocks_received(asked)
    BY <1>1, <2>1, <2>2 DEF blocks_received
  <2> QED
    BY <2>1, <2>3
<1>5. ASSUME n >= IntBits, m # 0
      PROVE  \E come \in SUBSET asked : come # asked /\ blocks_received(come) = mask
  <2> DEFINE come == {k * BlockSize : k \in 0 .. m - 1}
  <2>1. 0 .. m - 1 \subseteq 0 .. n - 1 /\ m \in 0 .. n - 1 /\ m \notin 0 .. m - 1
    BY <1>1, <1>2, <1>5, SizesAssumption
  <2>2. come \subseteq asked
    BY <1>1, <2>1
  <2>3. m * BlockSize \in asked /\ m * BlockSize \notin come
    <3>1. \A k \in 0 .. m - 1 : (k * BlockSize) \div BlockSize = k
      BY <1>1, <2>1
    <3>2. (m * BlockSize) \div BlockSize = m
      BY <1>1, <2>1
    <3> QED
      BY <1>1, <2>1, <3>1, <3>2
  <2>4. \A k \in 0 .. m - 1 : Bit((k * BlockSize) \div BlockSize) = k
    <3>1. \A k \in 0 .. m - 1 : k \in Nat /\ k < IntBits /\ k \in 0 .. n - 1
      BY <1>2, <2>1, SizesAssumption
    <3> QED
      BY <1>1, <3>1, Bits
  <2>5. blocks_received(come) = 0 .. m - 1
    <3>1. blocks_received(come) = {Bit((k * BlockSize) \div BlockSize) : k \in 0 .. m - 1}
      BY DEF blocks_received
    <3> HIDE DEF come
    <3> QED
      BY <2>4, <3>1
  <2> QED
    BY <1>2, <2>2, <2>3, <2>5
<1> QED
  BY <1>1, <1>2, <1>3, <1>4, <1>5 DEF WrongFromIntBitsOn, n, asked, mask, Asked

-----------------------------------------------------------------------------
(* The pieces of a torrent                                                  *)

(* The last piece, and what is left of it when the length of a piece does    *)
(* not divide the size.                                                     *)
LEMMA LastPiece ==
    ASSUME NEW total \in Nat, NEW length \in Nat \ {0}, NEW count, count = CeilDiv(total, length)
    PROVE  /\ count \in Nat /\ total % length \in 0 .. length - 1
           /\ total % length = 0 => count * length = total
           /\ total % length # 0 => /\ count # 0
                                    /\ ((count - 1) * length) + (total % length) = total
                                    /\ count * length = total + length - (total % length)
<1>1. count \in Nat /\ total <= count * length /\ count * length < total + length
  BY Ceil
<1>2. PICK q \in Nat, r \in 0 .. length - 1 :
         r = total % length /\ total = (q * length) + r /\ q * length \in Int
  <2>1. /\ total \div length \in Nat /\ total % length \in 0 .. length - 1
        /\ total = (length * (total \div length)) + (total % length)
    BY Division
  <2> QED
    BY <2>1, Multiples
<1>3. CASE r = 0
  <2>1. ~(q < count) /\ ~(count < q)
    <3>1. q < count => (q * length) + length <= count * length
      BY <1>1, Multiples
    <3>2. count < q => (count * length) + length <= q * length
      BY <1>1, Multiples
    <3> QED
      BY <1>1, <1>2, <1>3, <3>1, <3>2
  <2>2. q = count
    BY <1>1, <2>1
  <2> QED
    BY <1>1, <1>2, <1>3, <2>2
<1>4. CASE r # 0
  <2>1. (q + 1) * length = (q * length) + length /\ (count - 1) * length = (count * length) - length
    BY <1>1, Multiples
  <2>2. ~(q + 1 < count) /\ ~(count < q + 1)
    <3>1. q + 1 < count => ((q + 1) * length) + length <= count * length
      BY <1>1, Multiples
    <3>2. count < q + 1 => count * length <= q * length
      BY <1>1, Multiples
    <3>3. count * length \in Int
      BY <1>1
    <3> QED
      BY <1>1, <1>2, <1>4, <2>1, <3>1, <3>2, <3>3
  <2>3. count = q + 1
    BY <1>1, <2>2
  <2> QED
    BY <1>1, <1>2, <1>4, <2>1, <2>3
<1> QED
  BY <1>3, <1>4

(* request_all_blocks asks for all pieces of a torrent, except that nothing  *)
(* is asked of a last piece of full length, nor of the last one of a single  *)
(* file, whatever its length.                                              *)
THEOREM TorrentAsked ==
    \A total \in Nat : \A length \in Nat \ {0} : \A multifile \in BOOLEAN :
        TorrentAskedFor(total, length, multifile)
<1> SUFFICES ASSUME NEW total \in Nat, NEW length \in Nat \ {0}, NEW multifile \in BOOLEAN
             PROVE  TorrentAskedFor(total, length, multifile)
  OBVIOUS
<1>1. PICK count : count = CeilDiv(total, length)
  OBVIOUS
<1>2. /\ count \in Nat /\ total % length \in 0 .. length - 1
      /\ total % length # 0 => ((count - 1) * length) + (total % length) = total
  BY <1>1, LastPiece
<1>3. requests(0) = {}
  <2>1. \A j \in 0 .. 0 : ~(j * BlockSize < 0)
    BY SizesAssumption
  <2>2. {j \in 0 .. 0 : j * BlockSize < 0} = {}
    BY <2>1
  <2> QED
    BY <2>2 DEF requests
<1>4. PICK known : known = info_total_size(total, multifile)
  OBVIOUS
<1>5. known % length = IF multifile THEN total % length ELSE 0
  <2>1. 0 % length = 0
    OBVIOUS
  <2> QED
    BY <1>4, <2>1 DEF info_total_size
<1>6. \A k \in 0 .. count - 1 :
         piece_size(known, length, count, k) = IF k = count - 1 THEN known % length ELSE length
  BY DEF piece_size
<1>7. ASSUME NEW k \in 0 .. count - 1
      PROVE  /\ k < count - 1 => piece_size(known, length, count, k) = length
             /\ k = count - 1 =>
                   IF multifile /\ total % length # 0
                   THEN (k * length) + piece_size(known, length, count, k) = total
                   ELSE requests(piece_size(known, length, count, k)) = {}
  <2>1. CASE k = count - 1 /\ multifile /\ total % length # 0
    BY <1>2, <1>5, <1>6, <2>1
  <2>2. CASE k = count - 1 /\ ~(multifile /\ total % length # 0)
    <3>1. piece_size(known, length, count, k) = 0
      BY <1>5, <1>6, <2>2
    <3> QED
      BY <1>3, <2>2, <3>1
  <2>3. CASE k # count - 1
    BY <1>2, <1>6, <2>3
  <2> QED
    BY <2>1, <2>2, <2>3
<1> QED
  BY <1>1, <1>4, <1>7 DEF TorrentAskedFor

-----------------------------------------------------------------------------
(* SHA1_padding pads as the standard demands, but for one length in 64.     *)
THEOREM Padded == \A length \in Nat : PaddedAsSHA1Demands(length)
  BY DEF PaddedAsSHA1Demands, CeilDiv, padded_length

-----------------------------------------------------------------------------
(* The names of a path                                                      *)

LEMMA Least ==
    ASSUME NEW T, T \subseteq Nat, T # {}
    PROVE  \E n \in T : \A m \in T : n <= m
<1> DEFINE R == OpToRel(<, Nat)
<1>1. IsWellFoundedOn(R, Nat)
  BY NatLessThanWellFounded
<1>2. \A x \in Nat, y \in Nat : y < x => <<y, x>> \in R
  BY DEF OpToRel
<1> HIDE DEF R
<1>3. PICK n \in T : \A m \in T : ~(<<m, n>> \in R)
  BY <1>1, WFMin
<1>4. ASSUME NEW m \in T PROVE n <= m
  <2>1. n \in Nat /\ m \in Nat /\ ~(m < n)
    BY <1>2, <1>3
  <2> QED
    BY <2>1
<1> QED
  BY <1>4

LEMMA MinMax ==
    ASSUME NEW n \in Nat, NEW T, T \subseteq 1 .. n, T # {}
    PROVE  /\ Min(T) \in T /\ \A i \in T : Min(T) <= i
           /\ Max(T) \in T /\ \A i \in T : i <= Max(T)
<1>1. \E k \in T : \A i \in T : k <= i
  <2>1. T \subseteq Nat
    OBVIOUS
  <2> QED
    BY <2>1, Least
<1>2. \E k \in T : \A i \in T : i <= k
  <2> DEFINE R == {n - i : i \in T}
  <2>1. R \subseteq Nat /\ R # {} /\ \A i \in T : n - i \in R
    <3>1. \A i \in T : n - i \in Nat
      OBVIOUS
    <3> QED
      BY <3>1
  <2>2. PICK r \in R : \A q \in R : r <= q
    BY <2>1, Least
  <2>3. PICK k \in T : r = n - k
    OBVIOUS
  <2>4. ASSUME NEW i \in T PROVE i <= k
    <3>1. r <= n - i
      BY <2>1, <2>2
    <3> QED
      BY <2>3, <3>1
  <2> QED
    BY <2>4
<1> QED
  BY <1>1, <1>2 DEF Min, Max

(* What sanitize_file_BEN_string accepts.                                   *)
Clean(part) ==
    /\ Len(part) # 0
    /\ \A k \in 1 .. Len(part) : part[k] \notin {"/", "?"}
    /\ part[1] # " "
    /\ part[Len(part)] \notin {" ", "."}

LEMMA Trimmed ==
    ASSUME NEW S, NEW s \in Seq(S), StartPos(s) # EndPos(s)
    PROVE  /\ StartPos(s) \in 0 .. EndPos(s) - 1 /\ EndPos(s) \in 1 .. Len(s)
           /\ s[StartPos(s) + 1] # " "
           /\ s[EndPos(s)] \notin {" ", "."}
<1> DEFINE I == {i \in 1 .. Len(s) : s[i] # " "}
           J == {i \in 1 .. Len(s) : s[i] \notin {" ", "."}}
<1>0. /\ \A i \in I : s[i] # " "
      /\ \A i \in J : s[i] \notin {" ", "."}
  OBVIOUS
<1>1. Len(s) \in Nat /\ J \subseteq I /\ I \subseteq 1 .. Len(s)
  <2>1. \A i \in 1 .. Len(s) : s[i] \notin {" ", "."} => s[i] # " "
    OBVIOUS
  <2>2. Len(s) \in Nat
    OBVIOUS
  <2> QED
    BY <2>1, <2>2
<1>2. StartPos(s) = IF (IF I # {} THEN Min(I) ELSE 0) = 0 THEN Len(s)
                    ELSE (IF I # {} THEN Min(I) ELSE 0) - 1
  BY DEF StartPos, SelectInSeq
<1>3. EndPos(s) = IF (IF J # {} THEN Max(J) ELSE 0) < StartPos(s) THEN StartPos(s)
                  ELSE (IF J # {} THEN Max(J) ELSE 0)
  BY DEF EndPos, SelectLastInSeq
<1> HIDE DEF I, J
<1>4. ASSUME I = {} PROVE FALSE
  <2>1. J = {}
    BY <1>1, <1>4
  <2>2. StartPos(s) = Len(s)
    BY <1>2, <1>4
  <2>3. EndPos(s) = IF 0 < Len(s) THEN Len(s) ELSE 0
    BY <1>3, <2>1, <2>2
  <2> QED
    BY <1>1, <2>2, <2>3
<1>5. Min(I) \in I /\ Min(I) \in 1 .. Len(s) /\ \A i \in I : Min(I) <= i
  BY <1>1, <1>4, MinMax
<1>6. StartPos(s) = Min(I) - 1
  BY <1>2, <1>4, <1>5
<1>7. J # {}
  BY <1>3, <1>5, <1>6
<1>8. Max(J) \in J /\ Max(J) \in 1 .. Len(s) /\ Min(I) <= Max(J)
  <2>1. J \subseteq 1 .. Len(s)
    BY <1>1
  <2>2. Max(J) \in J
    BY <1>1, <1>7, <2>1, MinMax
  <2> QED
    BY <1>1, <1>5, <2>1, <2>2
<1>9. EndPos(s) = Max(J)
  BY <1>3, <1>5, <1>6, <1>7, <1>8
<1>10. StartPos(s) + 1 = Min(I)
  BY <1>5, <1>6
<1>11. s[StartPos(s) + 1] # " " /\ s[EndPos(s)] \notin {" ", "."}
  BY <1>0, <1>5, <1>8, <1>9, <1>10
<1>12. StartPos(s) \in 0 .. EndPos(s) - 1 /\ EndPos(s) \in 1 .. Len(s)
  BY <1>1, <1>5, <1>6, <1>8, <1>9
<1> QED
  BY <1>11, <1>12

LEMMA NameSound ==
    ASSUME NEW S, NEW name \in Seq(S), sanitize_file_BEN_string(name).ok
    PROVE  /\ sanitize_file_BEN_string(name).name \in Seq(S \cup {"_", "/"})
           /\ Clean(sanitize_file_BEN_string(name).name)
<1> DEFINE C == S \cup {"_", "/"}
           replaced == [k \in DOMAIN name |-> IF name[k] \in Reserved THEN "_" ELSE name[k]]
<1>1. /\ replaced \in Seq(C) /\ Len(replaced) \in Nat
      /\ \A k \in 1 .. Len(replaced) : replaced[k] \notin {"/", "?"}
  <2>1. PICK n \in Nat : n = Len(name) /\ DOMAIN name = 1 .. n
    OBVIOUS
  <2>2. \A k \in 1 .. n : name[k] \in S
    BY <2>1
  <2>3. \A k \in 1 .. n : replaced[k] \in C /\ replaced[k] \notin {"/", "?"}
    BY <2>1, <2>2 DEF Reserved
  <2>4. replaced \in [1 .. n -> C]
    <3>1. replaced = [k \in 1 .. n |-> replaced[k]]
      BY <2>1
    <3> HIDE DEF replaced
    <3> QED
      BY <2>3, <3>1
  <2> HIDE DEF replaced, C
  <2>5. replaced \in Seq(C) /\ Len(replaced) = n
    BY <2>4
  <2> QED
    BY <2>3, <2>5
<1>2. /\ StartPos(replaced) # EndPos(replaced)
      /\ sanitize_file_BEN_string(name).name =
            SubSeq(replaced, StartPos(replaced) + 1, EndPos(replaced))
  BY DEF sanitize_file_BEN_string, Rejected, Sanitized
<1> HIDE DEF C, replaced
<1>3. PICK a \in 1 .. Len(replaced), b \in 1 .. Len(replaced) :
         /\ a <= b /\ a = StartPos(replaced) + 1 /\ b = EndPos(replaced)
         /\ replaced[a] # " " /\ replaced[b] \notin {" ", "."}
  <2>1. /\ StartPos(replaced) \in 0 .. EndPos(replaced) - 1 /\ EndPos(replaced) \in 1 .. Len(replaced)
        /\ replaced[StartPos(replaced) + 1] # " "
        /\ replaced[EndPos(replaced)] \notin {" ", "."}
    BY <1>1, <1>2, Trimmed
  <2>2. StartPos(replaced) + 1 \in 1 .. Len(replaced) /\ StartPos(replaced) + 1 <= EndPos(replaced)
    <3>1. /\ StartPos(replaced) \in 0 .. EndPos(replaced) - 1 /\ EndPos(replaced) \in 1 .. Len(replaced)
          /\ Len(replaced) \in Nat
      BY <1>1, <2>1
    <3> QED
      BY <3>1
  <2> QED
    BY <2>1, <2>2
<1>4. PICK part : part = SubSeq(replaced, a, b)
  OBVIOUS
<1>5. a \in Int /\ b \in Int /\ a <= b
  <2>1. Len(replaced) \in Nat /\ a <= b
    BY <1>1, <1>3
  <2> QED
    BY <2>1
<1>6. /\ part \in Seq(C)
      /\ Len(part) = b - a + 1
      /\ \A i \in 1 .. b - a + 1 : part[i] = replaced[a + i - 1]
  <2>1. \A i \in a .. b : replaced[i] \in C
    BY <1>1
  <2> QED
    BY <1>4, <1>5, <2>1, SubSeqProperties
<1>7. Clean(part)
  <2>1. Len(part) \in Nat \ {0} /\ part[1] = replaced[a] /\ part[Len(part)] = replaced[b]
    <3>1. PICK n \in Nat \ {0} : n = b - a + 1 /\ a + 1 - 1 = a /\ a + n - 1 = b
      BY <1>5
    <3>2. 1 \in 1 .. n /\ n \in 1 .. n
      OBVIOUS
    <3> QED
      BY <1>6, <3>1, <3>2
  <2>2. \A k \in 1 .. Len(part) : a + k - 1 \in 1 .. Len(replaced) /\ part[k] = replaced[a + k - 1]
    BY <1>1, <1>6
  <2> QED
    BY <1>1, <1>3, <2>1, <2>2 DEF Clean
<1> QED
  BY <1>2, <1>3, <1>4, <1>6, <1>7 DEF C

(* One more name, and the path of the first n names.                        *)
Step(all, last, k) ==
    [path |-> last.path \o <<"/">> \o all[k].name,
     length |-> last.length + Len(all[k].name)]

Follows(all, f, n) ==
    f = [k \in 0 .. n |-> IF k = 0 THEN [path |-> <<>>, length |-> 0]
                          ELSE Step(all, f[k - 1], k)]

LEMMA FollowsExists == \A all : \A n \in Nat : \E f : Follows(all, f, n)
<1> SUFFICES ASSUME NEW all, NEW bad \in Nat, ~\E f : Follows(all, f, bad) PROVE FALSE
  OBVIOUS
<1> DEFINE T == {n \in Nat : ~\E f : Follows(all, f, n)}
<1>1. PICK n \in T : \A m \in T : n <= m
  <2>1. T \subseteq Nat /\ T # {}
    OBVIOUS
  <2> HIDE DEF T
  <2> QED
    BY <2>1, Least
<1>2. n \in Nat /\ ~\E f : Follows(all, f, n)
  OBVIOUS
<1>3. CASE n = 0
  <2> DEFINE f == [k \in 0 .. 0 |-> [path |-> <<>>, length |-> 0]]
  <2>1. f = [k \in 0 .. 0 |-> IF k = 0 THEN [path |-> <<>>, length |-> 0]
                              ELSE Step(all, f[k - 1], k)]
    OBVIOUS
  <2> HIDE DEF f
  <2>2. Follows(all, f, 0)
    BY <2>1 DEF Follows
  <2> QED
    BY <1>2, <1>3, <2>2
<1>4. CASE n # 0
  <2>1. PICK m \in Nat : n = m + 1
    BY <1>2, <1>4
  <2>2. m \notin T
    BY <1>1, <2>1
  <2>3. PICK f : Follows(all, f, m)
    BY <2>2
  <2> HIDE DEF T
  <2> DEFINE g == [k \in 0 .. n |-> IF k = n THEN Step(all, f[m], n) ELSE f[k]]
  <2>4. ASSUME NEW k \in 0 .. n
        PROVE  g[k] = IF k = 0 THEN [path |-> <<>>, length |-> 0] ELSE Step(all, g[k - 1], k)
    <3>1. CASE k = n
      <4>1. k - 1 = m /\ m \in 0 .. n /\ m # n /\ k # 0
        BY <2>1, <3>1
      <4>2. g[k] = Step(all, f[m], n) /\ g[m] = f[m]
        BY <3>1, <4>1
      <4> HIDE DEF g
      <4> QED
        BY <3>1, <4>1, <4>2
    <3>2. CASE k # n
      <4>1. k \in 0 .. m /\ (k # 0 => k - 1 \in 0 .. n /\ k - 1 # n)
        BY <2>1, <3>2
      <4>2. g[k] = f[k] /\ (k # 0 => g[k - 1] = f[k - 1])
        BY <3>2, <4>1
      <4>3. f[k] = IF k = 0 THEN [path |-> <<>>, length |-> 0] ELSE Step(all, f[k - 1], k)
        BY <2>3, <4>1 DEF Follows
      <4> HIDE DEF g
      <4> QED
        BY <4>2, <4>3
    <3> QED
      BY <3>1, <3>2
  <2>5. g = [k \in 0 .. n |-> g[k]]
    OBVIOUS
  <2> HIDE DEF g
  <2>6. Follows(all, g, n)
    BY <2>4, <2>5 DEF Follows
  <2> QED
    BY <1>2, <2>6
<1> QED
  BY <1>3, <1>4

LEMMA JoinedIs ==
    ASSUME NEW all, Len(all) \in Nat
    PROVE  \E f : Follows(all, f, Len(all)) /\ Joined(all) = f[Len(all)]
<1> DEFINE f == CHOOSE g : Follows(all, g, Len(all))
<1>1. Follows(all, f, Len(all))
  BY FollowsExists
<1>2. Joined(all) = f[Len(all)]
  BY DEF Joined, Follows, Step
<1> QED
  BY <1>1, <1>2

(* What the path of the first names is like.                                *)
GoodPath(path) ==
    /\ path # <<>> => path[1] = "/"
    /\ \A s \in 1 .. Len(path), t \in 1 .. Len(path) + 1 :
          Neighbours(path, s, t) => Harmless(SubSeq(path, s + 1, t - 1))

LEMMA CleanIsHarmless ==
    ASSUME NEW C, NEW part \in Seq(C), Clean(part)
    PROVE  Harmless(part)
<1>1. part \notin {<<>>, <<".">>, <<".", ".">>}
  <2>1. Len(part) # 0 /\ part[Len(part)] # "."
    BY DEF Clean
  <2> QED
    BY <2>1
<1>2. \A k \in DOMAIN part : part[k] # "?"
  <2>1. DOMAIN part = 1 .. Len(part)
    OBVIOUS
  <2> QED
    BY <2>1 DEF Clean
<1> QED
  BY <1>1, <1>2 DEF Clean, Harmless

LEMMA Slice ==
    ASSUME NEW C, NEW s, NEW m \in Int, NEW n \in Int, \A i \in m .. n : s[i] \in C,
           NEW cut, cut = SubSeq(s, m, n)
    PROVE  /\ cut \in Seq(C) /\ Len(cut) = IF m <= n THEN n - m + 1 ELSE 0
           /\ \A i \in 1 .. n - m + 1 : cut[i] = s[m + i - 1]
  BY SubSeqProperties

(* A path with one more name: its characters, then its parts.               *)
HasOneMore(new, old, part) ==
    /\ Len(new) = Len(old) + 1 + Len(part)
    /\ \A i \in 1 .. Len(old) : new[i] = old[i]
    /\ new[Len(old) + 1] = "/"
    /\ \A i \in 1 .. Len(part) : new[Len(old) + 1 + i] = part[i]

LEMMA Longer ==
    ASSUME NEW C, NEW old \in Seq(C), NEW part \in Seq(C), "/" \in C
    PROVE  /\ old \o <<"/">> \o part \in Seq(C)
           /\ HasOneMore(old \o <<"/">> \o part, old, part)
<1>1. PICK l \in Nat, m \in Nat : l = Len(old) /\ m = Len(part)
  OBVIOUS
<1>2. PICK front : front = old \o <<"/">>
  OBVIOUS
<1>3. /\ front \in Seq(C) /\ Len(front) = l + 1
      /\ \A i \in 1 .. l : front[i] = old[i]
      /\ front[l + 1] = "/"
  <2>1. <<"/">> \in Seq(C) /\ Len(<<"/">>) = 1
    OBVIOUS
  <2> QED
    BY <1>1, <1>2, <2>1, ConcatProperties
<1>4. PICK new : new = front \o part
  OBVIOUS
<1>5. /\ new \in Seq(C) /\ Len(new) = l + 1 + m
      /\ \A i \in 1 .. l + 1 + m : new[i] = IF i <= l + 1 THEN front[i] ELSE part[i - (l + 1)]
  <2>1. front \in Seq(C)
    BY <1>3
  <2>2. /\ new \in Seq(C) /\ Len(new) = Len(front) + Len(part)
        /\ \A i \in 1 .. Len(front) + Len(part) :
              new[i] = IF i <= Len(front) THEN front[i] ELSE part[i - Len(front)]
    BY <1>4, <2>1, ConcatProperties
  <2> QED
    BY <1>1, <1>3, <2>2
<1>6. \A i \in 1 .. l : i \in 1 .. l + 1 + m /\ i <= l + 1
  OBVIOUS
<1>7. l + 1 \in 1 .. l + 1 + m /\ l + 1 <= l + 1
  OBVIOUS
<1>8. ASSUME NEW i \in 1 .. m PROVE new[l + 1 + i] = part[i]
  <2>1. PICK k \in 1 .. l + 1 + m : k = l + 1 + i /\ ~(k <= l + 1) /\ k - (l + 1) = i
    OBVIOUS
  <2> QED
    BY <1>5, <2>1
<1>9. HasOneMore(new, old, part)
  BY <1>1, <1>3, <1>5, <1>6, <1>7, <1>8 DEF HasOneMore
<1> QED
  BY <1>2, <1>4, <1>5, <1>9

LEMMA OneMore ==
    ASSUME NEW C, NEW old \in Seq(C), NEW part \in Seq(C), NEW new \in Seq(C),
           Clean(part), GoodPath(old), HasOneMore(new, old, part),
           NEW count \in Nat, IsFiniteSet(Slashes(old)), Cardinality(Slashes(old)) = count
    PROVE  /\ IsFiniteSet(Slashes(new)) /\ Cardinality(Slashes(new)) = count + 1
           /\ GoodPath(new)
<1>1. PICK l \in Nat, m \in Nat \ {0} : l = Len(old) /\ m = Len(part)
  <2>1. Len(part) # 0
    BY DEF Clean
  <2> QED
    BY <2>1
<1>2. /\ new \in Seq(C) /\ Len(new) = l + 1 + m
      /\ \A i \in 1 .. l : new[i] = old[i]
      /\ new[l + 1] = "/"
      /\ \A i \in 1 .. m : new[l + 1 + i] = part[i]
  BY <1>1 DEF HasOneMore
<1>3. \A i \in 1 .. m : part[i] # "/"
  BY <1>1 DEF Clean
<1>4. \A i \in l + 2 .. l + 1 + m : new[i] # "/"
  <2> TAKE i \in l + 2 .. l + 1 + m
  <2>1. PICK k \in 1 .. m : i = l + 1 + k
    <3>1. i - (l + 1) \in 1 .. m /\ i = l + 1 + (i - (l + 1))
      OBVIOUS
    <3> QED
      BY <3>1
  <2> QED
    BY <1>2, <1>3, <2>1
<1>5. Slashes(new) = Slashes(old) \cup {l + 1} /\ l + 1 \notin Slashes(old)
  <2>1. DOMAIN new = 1 .. l + 1 + m /\ DOMAIN old = 1 .. l
    BY <1>1, <1>2
  <2>2. \A i \in 1 .. l + 1 + m : i \in 1 .. l \/ i = l + 1 \/ i \in l + 2 .. l + 1 + m
    OBVIOUS
  <2>3. \A i \in 1 .. l : i \in 1 .. l + 1 + m
    OBVIOUS
  <2>4. l + 1 \in 1 .. l + 1 + m /\ l + 1 \notin 1 .. l
    OBVIOUS
  <2> QED
    BY <1>2, <1>4, <2>1, <2>2, <2>3, <2>4 DEF Slashes
<1>6. IsFiniteSet(Slashes(new)) /\ Cardinality(Slashes(new)) = count + 1
  <2>1. PICK few : few = Slashes(old)
    OBVIOUS
  <2>2. PICK more : more = l + 1
    OBVIOUS
  <2>3. IsFiniteSet(few \cup {more}) /\ Cardinality(few \cup {more}) = Cardinality(few) + 1
    BY <1>5, <2>1, <2>2, FS_AddElement
  <2> QED
    BY <1>5, <2>1, <2>2, <2>3
<1>7. new # <<>> => new[1] = "/"
  <2>1. CASE l = 0
    BY <1>2, <2>1
  <2>2. CASE l # 0
    <3>1. old # <<>> /\ 1 \in 1 .. l
      BY <1>1, <2>2
    <3> QED
      BY <1>2, <3>1 DEF GoodPath
  <2> QED
    BY <2>1, <2>2
<1>8. ASSUME NEW s \in 1 .. Len(new), NEW t \in 1 .. Len(new) + 1, Neighbours(new, s, t)
      PROVE  Harmless(SubSeq(new, s + 1, t - 1))
  <2>1. /\ s \in Slashes(old) \cup {l + 1}
        /\ t \in Slashes(old) \cup {l + 1, l + 1 + m + 1}
        /\ s < t /\ \A u \in s + 1 .. t - 1 : new[u] # "/"
    BY <1>2, <1>5, <1>8 DEF Neighbours
  <2>2. Slashes(old) \subseteq 1 .. l
    BY <1>1 DEF Slashes
  <2>3. CASE s = l + 1
    <3>1. t = l + 1 + m + 1
      BY <2>1, <2>2, <2>3
    <3>2. SubSeq(new, s + 1, t - 1) = part
      <4>1. PICK a \in Int, b \in Int : a = s + 1 /\ b = t - 1 /\ a = l + 2 /\ b = l + 1 + m
        BY <2>3, <3>1
      <4>2. \A i \in a .. b : new[i] \in C
        BY <1>2, <4>1
      <4>c. PICK cut : cut = SubSeq(new, a, b)
        OBVIOUS
      <4>d. \A i \in a .. b : new[i] \in C
        BY <4>2
      <4>3. /\ cut \in Seq(C) /\ Len(cut) = IF a <= b THEN b - a + 1 ELSE 0
            /\ \A i \in 1 .. b - a + 1 : cut[i] = new[a + i - 1]
        BY <4>c, <4>d, Slice
      <4>4. a <= b /\ b - a + 1 = m /\ \A i \in 1 .. m : a + i - 1 = l + 1 + i
        BY <4>1
      <4>5. \A i \in 1 .. m : cut[i] = part[i]
        BY <1>2, <4>3, <4>4
      <4>6. cut = part
        BY <1>1, <4>3, <4>4, <4>5, SeqEqual
      <4> QED
        BY <4>1, <4>c, <4>6
    <3> QED
      BY <3>2, CleanIsHarmless
  <2>4. CASE s \in Slashes(old)
    <3>1. s \in 1 .. l /\ t \in 1 .. l + 1
      <4>1. ~(l + 1 \in s + 1 .. t - 1)
        BY <1>2, <2>1
      <4>2. s \in 1 .. l /\ t \in 1 .. l + 1 + m + 1
        BY <2>1, <2>2, <2>4
      <4> QED
        BY <4>1, <4>2
    <3>2. t \in Slashes(old) \cup {l + 1}
      BY <2>1, <3>1
    <3>3. \A u \in s + 1 .. t - 1 : old[u] # "/"
      <4>1. \A u \in s + 1 .. t - 1 : u \in 1 .. l
        BY <3>1
      <4> QED
        BY <1>2, <2>1, <4>1
    <3>4. Neighbours(old, s, t)
      BY <1>1, <2>1, <2>4, <3>2, <3>3 DEF Neighbours
    <3>5. Harmless(SubSeq(old, s + 1, t - 1))
      BY <1>1, <3>1, <3>4 DEF GoodPath
    <3>6. SubSeq(new, s + 1, t - 1) = SubSeq(old, s + 1, t - 1)
      <4>1. PICK a \in Int, b \in Int : a = s + 1 /\ b = t - 1 /\ \A i \in a .. b : i \in 1 .. l
        BY <3>1
      <4>2. \A i \in a .. b : new[i] = old[i] /\ old[i] \in C
        BY <1>1, <1>2, <4>1
      <4>c. PICK cut : cut = SubSeq(new, a, b)
        OBVIOUS
      <4>d. \A i \in a .. b : new[i] \in C
        BY <4>2
      <4>3. /\ cut \in Seq(C) /\ Len(cut) = IF a <= b THEN b - a + 1 ELSE 0
            /\ \A i \in 1 .. b - a + 1 : cut[i] = new[a + i - 1]
        BY <4>c, <4>d, Slice
      <4>e. PICK was : was = SubSeq(old, a, b)
        OBVIOUS
      <4>f. \A i \in a .. b : old[i] \in C
        BY <4>2
      <4>4. /\ was \in Seq(C) /\ Len(was) = IF a <= b THEN b - a + 1 ELSE 0
            /\ \A i \in 1 .. b - a + 1 : was[i] = old[a + i - 1]
        BY <4>e, <4>f, Slice
      <4>5. \A i \in 1 .. Len(cut) : i \in 1 .. b - a + 1 /\ a + i - 1 \in a .. b
        BY <4>3
      <4>6. \A i \in 1 .. Len(cut) : cut[i] = was[i]
        BY <4>2, <4>3, <4>4, <4>5
      <4>7. cut = was
        BY <4>3, <4>4, <4>6, SeqEqual
      <4> QED
        BY <4>1, <4>c, <4>e, <4>7
    <3> QED
      BY <3>5, <3>6
  <2> QED
    BY <2>1, <2>3, <2>4
<1>9. GoodPath(new)
  BY <1>7, <1>8 DEF GoodPath
<1> QED
  BY <1>1, <1>2, <1>6, <1>9

LEMMA JoinedGood ==
    ASSUME NEW C, "/" \in C, NEW all, Len(all) \in Nat,
           \A k \in 1 .. Len(all) : all[k].name \in Seq(C) /\ Clean(all[k].name)
    PROVE  LET joined == Joined(all) IN
           /\ joined.path \in Seq(C) /\ joined.length \in Nat
           /\ Len(joined.path) = joined.length + Len(all)
           /\ Cardinality(Slashes(joined.path)) = Len(all)
           /\ GoodPath(joined.path)
<1>1. PICK count \in Nat : count = Len(all)
  OBVIOUS
<1>2. PICK f : Follows(all, f, count) /\ Joined(all) = f[count]
  BY <1>1, JoinedIs
<1> DEFINE Good(k) ==
               /\ f[k].path \in Seq(C) /\ f[k].length \in Nat
               /\ Len(f[k].path) = f[k].length + k
               /\ IsFiniteSet(Slashes(f[k].path)) /\ Cardinality(Slashes(f[k].path)) = k
               /\ GoodPath(f[k].path)
<1>3. Good(0)
  <2>1. f[0].path = <<>> /\ f[0].length = 0
    <3>1. 0 \in 0 .. count
      OBVIOUS
    <3>2. f[0] = [path |-> <<>>, length |-> 0]
      BY <1>2, <3>1 DEF Follows
    <3> QED
      BY <3>2
  <2>2. Slashes(<<>>) = {}
    BY DEF Slashes
  <2>3. GoodPath(<<>>)
    BY DEF GoodPath
  <2>4. IsFiniteSet({}) /\ Cardinality({}) = 0
    BY FS_EmptySet
  <2>5. PICK none : none = <<>> /\ none \in Seq(C) /\ Len(none) = 0
    <3>1. <<>> \in Seq(C) /\ Len(<<>>) = 0
      BY EmptySeq
    <3> QED
      BY <3>1
  <2>6. IsFiniteSet(Slashes(none)) /\ Cardinality(Slashes(none)) = 0 /\ GoodPath(none)
    BY <2>2, <2>3, <2>4, <2>5
  <2>7. f[0].path = none
    BY <2>1, <2>5
  <2>8. 0 \in Nat /\ Len(none) = 0 + 0
    BY <2>5
  <2> QED
    BY <2>1, <2>5, <2>6, <2>7, <2>8
<1>4. ASSUME NEW k \in 1 .. count, Good(k - 1) PROVE Good(k)
  <2>1. PICK j \in Nat : k = j + 1
    <3>1. k - 1 \in Nat /\ k = (k - 1) + 1
      OBVIOUS
    <3> QED
      BY <3>1
  <2>2. PICK old, length, part : old = f[j].path /\ length = f[j].length /\ part = all[k].name
    OBVIOUS
  <2>3. f[k] = Step(all, f[j], k)
    <3>1. k \in 0 .. count /\ k # 0 /\ k - 1 = j
      BY <2>1
    <3> QED
      BY <1>2, <3>1 DEF Follows
  <2>4. f[k].path = old \o <<"/">> \o part /\ f[k].length = length + Len(part)
    <3>1. PICK last, now : last = f[j] /\ now = f[k]
      OBVIOUS
    <3>2. now = [path |-> last.path \o <<"/">> \o all[k].name,
                 length |-> last.length + Len(all[k].name)]
      BY <2>3, <3>1 DEF Step
    <3>3. /\ now.path = last.path \o <<"/">> \o all[k].name
          /\ now.length = last.length + Len(all[k].name)
      BY <3>2
    <3> QED
      BY <2>2, <3>1, <3>3
  <2>5. /\ old \in Seq(C) /\ length \in Nat
        /\ Len(old) = length + j
        /\ IsFiniteSet(Slashes(old)) /\ Cardinality(Slashes(old)) = j
        /\ GoodPath(old)
    BY <1>4, <2>1, <2>2
  <2>6. part \in Seq(C) /\ Clean(part) /\ Len(part) \in Nat
    BY <1>1, <2>2
  <2>7. PICK new : new = old \o <<"/">> \o part
    OBVIOUS
  <2>8. new \in Seq(C) /\ HasOneMore(new, old, part)
    BY <2>5, <2>6, <2>7, Longer
  <2>9. /\ IsFiniteSet(Slashes(new)) /\ Cardinality(Slashes(new)) = j + 1
        /\ GoodPath(new)
    BY <2>5, <2>6, <2>8, OneMore
  <2>10. Len(new) = Len(old) + 1 + Len(part)
    BY <2>8 DEF HasOneMore
  <2>11. f[k].path = new
    BY <2>4, <2>7
  <2>12. Len(new) = (length + Len(part)) + k
    BY <2>1, <2>5, <2>6, <2>10
  <2>13. length + Len(part) \in Nat
    BY <2>5, <2>6
  <2> QED
    BY <2>1, <2>4, <2>8, <2>9, <2>11, <2>12, <2>13
<1>5. ASSUME ~Good(count) PROVE FALSE
  <2> DEFINE T == {k \in 0 .. count : ~Good(k)}
  <2> HIDE DEF Good
  <2>1. T \subseteq Nat /\ T # {}
    BY <1>5
  <2>2. PICK n \in T : \A m \in T : n <= m
    BY <2>1, Least
  <2>3. n # 0
    BY <1>3
  <2>4. n \in 1 .. count /\ n - 1 \in 0 .. count /\ n - 1 \notin T
    BY <2>2, <2>3
  <2>5. Good(n - 1)
    BY <2>4
  <2> QED
    BY <1>4, <2>4, <2>5
<1> QED
  BY <1>1, <1>2, <1>5

(* A path that parse_BEN_list_to_path_C_string accepts has a part for each   *)
(* name, none that leads up, and fits the memory allocated for it.          *)
LEMMA PathSound ==
    ASSUME NEW S, NEW names \in Seq(Seq(S)),
           parse_BEN_list_to_path(names).ok, names # <<>>
    PROVE  /\ parse_BEN_list_to_path(names).path \in Seq(S \cup {"_", "/"})
           /\ Len(parse_BEN_list_to_path(names).path) < parse_BEN_list_to_path(names).path_length
           /\ LeadsDown(parse_BEN_list_to_path(names).path, Len(names))
<1> DEFINE C == S \cup {"_", "/"}
<1>1. PICK count \in Nat \ {0} : count = Len(names) /\ DOMAIN names = 1 .. count
  BY EmptySeq
<1>2. PICK all : all = SanitizedAll(names)
  OBVIOUS
<1>3. /\ \A k \in 1 .. count : all[k].ok
      /\ parse_BEN_list_to_path(names).path = Joined(all).path
      /\ parse_BEN_list_to_path(names).path_length = Joined(all).length + Len(all) + 1
  <2>1. DOMAIN all = 1 .. count
    BY <1>1, <1>2 DEF SanitizedAll
  <2>2. ~\E k \in DOMAIN all : ~all[k].ok
    BY <1>2 DEF parse_BEN_list_to_path
  <2> QED
    BY <1>2, <2>1, <2>2 DEF parse_BEN_list_to_path
<1>4. Len(all) = count
  BY <1>1, <1>2 DEF SanitizedAll
<1>5. ASSUME NEW k \in 1 .. count
      PROVE  all[k].name \in Seq(C) /\ Clean(all[k].name)
  <2>1. names[k] \in Seq(S) /\ all[k] = sanitize_file_BEN_string(names[k])
    BY <1>1, <1>2 DEF SanitizedAll
  <2> QED
    BY <1>3, <2>1, NameSound
<1> HIDE DEF C
<1>6. "/" \in C
  BY DEF C
<1>7. PICK path, length :
         /\ path = Joined(all).path /\ length = Joined(all).length
         /\ path \in Seq(C) /\ length \in Nat
         /\ Len(path) = length + count
         /\ Cardinality(Slashes(path)) = count
         /\ GoodPath(path)
  BY <1>4, <1>5, <1>6, JoinedGood
<1>8. path[1] = "/"
  <2>1. path # <<>>
    BY <1>1, <1>7
  <2> QED
    BY <1>7, <2>1 DEF GoodPath
<1>9. Len(path) < length + count + 1
  BY <1>1, <1>7
<1>10. LeadsDown(path, count)
  BY <1>7, <1>8 DEF LeadsDown, GoodPath
<1> QED
  BY <1>1, <1>3, <1>4, <1>7, <1>9, <1>10 DEF C

(* Front and rest of a file's name.                                         *)
IsCut(all, front, rest) ==
    /\ Len(all) = Len(front) + Len(rest)
    /\ SubSeq(all, 1, Len(front)) = front
    /\ SubSeq(all, Len(front) + 1, Len(all)) = rest

LEMMA FrontAndRest ==
    ASSUME NEW C, NEW front \in Seq(C), NEW rest \in Seq(C)
    PROVE  IsCut(front \o rest, front, rest)
<1>1. PICK l \in Nat, m \in Nat : l = Len(front) /\ m = Len(rest)
  OBVIOUS
<1>2. PICK all : all = front \o rest
  OBVIOUS
<1>3. /\ all \in Seq(C) /\ Len(all) = l + m
      /\ \A i \in 1 .. l + m : all[i] = IF i <= l THEN front[i] ELSE rest[i - l]
  BY <1>1, <1>2, ConcatProperties
<1>4. \A i \in 1 .. l + m : all[i] \in C
  BY <1>3
<1>5. SubSeq(all, 1, l) = front
  <2>1. PICK start : start = SubSeq(all, 1, l)
    OBVIOUS
  <2>2. \A i \in 1 .. l : all[i] \in C
    BY <1>4
  <2>3. /\ start \in Seq(C) /\ Len(start) = IF 1 <= l THEN l - 1 + 1 ELSE 0
        /\ \A i \in 1 .. l - 1 + 1 : start[i] = all[1 + i - 1]
    BY <2>1, <2>2, Slice
  <2>4. Len(start) = l /\ \A i \in 1 .. l : start[i] = all[i]
    BY <2>3
  <2>5. \A i \in 1 .. l : start[i] = front[i]
    BY <1>3, <2>4
  <2> QED
    BY <1>1, <2>1, <2>3, <2>4, <2>5, SeqEqual
<1>6. SubSeq(all, l + 1, l + m) = rest
  <2>1. PICK end : end = SubSeq(all, l + 1, l + m)
    OBVIOUS
  <2>2. \A i \in l + 1 .. l + m : all[i] \in C
    BY <1>4
  <2>3. /\ end \in Seq(C) /\ Len(end) = IF l + 1 <= l + m THEN l + m - (l + 1) + 1 ELSE 0
        /\ \A i \in 1 .. l + m - (l + 1) + 1 : end[i] = all[l + 1 + i - 1]
    BY <2>1, <2>2, Slice
  <2>4. Len(end) = m /\ \A i \in 1 .. m : end[i] = all[l + i]
    BY <2>3
  <2>5. \A i \in 1 .. m : l + i \in 1 .. l + m /\ ~(l + i <= l) /\ l + i - l = i
    OBVIOUS
  <2>6. \A i \in 1 .. m : end[i] = rest[i]
    BY <1>3, <2>4, <2>5
  <2> QED
    BY <1>1, <2>1, <2>3, <2>4, <2>6, SeqEqual
<1> QED
  BY <1>1, <1>2, <1>3, <1>5, <1>6 DEF IsCut

(* allocate_file, for a path that is accepted: while the name fits its       *)
(* buffer, the file it makes is in the directory, below one directory for    *)
(* each name but the last.                                                 *)
THEOREM PathsAllocatedDown ==
    \A S : \A names \in Seq(Seq(S)) : \A download_path \in Seq(S \cup {"_", "/"}) :
        AllocatedDown(download_path, names)
<1> SUFFICES ASSUME NEW S, NEW names \in Seq(Seq(S)), NEW download_path \in Seq(S \cup {"_", "/"}),
                    parse_BEN_list_to_path(names).ok, names # <<>>
             PROVE  AllocatedDown(download_path, names)
  BY DEF AllocatedDown
<1>1. PICK path : path = parse_BEN_list_to_path(names).path
  OBVIOUS
<1>2. /\ path \in Seq(S \cup {"_", "/"})
      /\ Len(path) < parse_BEN_list_to_path(names).path_length
      /\ LeadsDown(path, Len(names))
  BY <1>1, PathSound
<1>3. PICK file : file = allocated_path(download_path, path)
  OBVIOUS
<1>4. PICK C : C = S \cup {"_", "/"}
  OBVIOUS
<1>5. download_path \in Seq(C) /\ path \in Seq(C)
  BY <1>2, <1>4
<1>6. IsCut(download_path \o path, download_path, path)
  BY <1>5, FrontAndRest
<1>7. PICK whole : whole = download_path \o path /\ IsCut(whole, download_path, path)
  BY <1>6
<1>8. Len(download_path) + Len(path) < PathBuffer => file = whole
  BY <1>3, <1>7 DEF allocated_path, IsCut
<1> QED
  BY <1>1, <1>2, <1>3, <1>7, <1>8 DEF AllocatedDown, IsCut

-----------------------------------------------------------------------------
(* The states of Inputs                                                     *)

LEMMA SeqWider ==
    ASSUME NEW A, NEW B, A \subseteq B
    PROVE  Seq(A) \subseteq Seq(B)
<1> SUFFICES ASSUME NEW s \in Seq(A) PROVE s \in Seq(B)
  OBVIOUS
<1>1. Len(s) \in Nat /\ s = [i \in 1 .. Len(s) |-> s[i]] /\ \A i \in 1 .. Len(s) : s[i] \in B
  OBVIOUS
<1> QED
  BY <1>1, SeqDef

(* A state is an input of its kind.                                         *)
TypeOK ==
    \/ kind = "names" /\ input \in Seq(Seq(Chars))
    \/ kind = "size" /\ input \in Nat \ {0}

(* Every state of Inputs is an input of its kind.                           *)
THEOREM Types == Spec => []TypeOK
<1>1. Init => TypeOK
  <2>1. <<>> \in Seq(Seq(Chars)) /\ 1 \in Nat \ {0}
    OBVIOUS
  <2>2. Init => \/ kind = "names" /\ input = <<>>
                \/ kind = "size" /\ input = 1
    BY DEF Init
  <2> QED
    BY <2>1, <2>2 DEF TypeOK
<1>2. TypeOK /\ [Next]_vars => TypeOK'
  <2> SUFFICES ASSUME TypeOK, [Next]_vars PROVE TypeOK'
    OBVIOUS
  <2>1. CASE AddName
    <3>1. kind = "names" /\ input \in Seq(Seq(Chars))
      BY <2>1 DEF TypeOK, AddName
    <3>2. <<>> \in Seq(Chars)
      OBVIOUS
    <3>3. Append(input, <<>>) \in Seq(Seq(Chars))
      BY <3>1, <3>2, AppendProperties
    <3> QED
      BY <2>1, <3>1, <3>3 DEF TypeOK, AddName
  <2>2. CASE AddChar
    <3>1. kind = "names" /\ input \in Seq(Seq(Chars)) /\ input # <<>>
      BY <2>2 DEF TypeOK, AddChar
    <3>2. Len(input) \in 1 .. Len(input)
      BY <3>1, EmptySeq
    <3>3. PICK ch \in Chars : input' = [input EXCEPT ![Len(input)] = Append(input[Len(input)], ch)]
      BY <2>2 DEF AddChar
    <3>4. Append(input[Len(input)], ch) \in Seq(Chars)
      BY <3>1, <3>2, AppendProperties
    <3>5. input' \in Seq(Seq(Chars))
      BY <3>1, <3>2, <3>3, <3>4, ExceptSeq
    <3> QED
      BY <2>2, <3>1, <3>5 DEF TypeOK, AddChar
  <2>3. CASE AddByte
    <3>1. kind = "size" /\ input \in Nat \ {0}
      BY <2>3 DEF TypeOK, AddByte
    <3> QED
      BY <2>3, <3>1 DEF TypeOK, AddByte
  <2>4. CASE UNCHANGED vars
    BY <2>4 DEF TypeOK, vars
  <2> QED
    BY <2>1, <2>2, <2>3, <2>4 DEF Next
<1> QED
  BY <1>1, <1>2, PTL DEF Spec

(* The files allocated for a torrent are below its directory.               *)
THEOREM FilesAreAllocatedBelow == Spec => []AllocatedBelow
<1>1. ASSUME kind = "names", TypeOK, NEW download_path \in DownloadPaths
      PROVE  AllocatedDown(download_path, input)
  <2> DEFINE S == Chars \cup {"_"}
  <2>1. Chars \cup {"_"} \subseteq S \cup {"_", "/"}
    OBVIOUS
  <2>2. download_path \in Seq(S \cup {"_", "/"})
    <3>1. download_path \in Seq(Chars \cup {"_"})
      BY InputsAssumption
    <3> QED
      BY <3>1, <2>1, SeqWider
  <2>3. input \in Seq(Seq(S))
    <3>1. input \in Seq(Seq(Chars))
      BY <1>1 DEF TypeOK
    <3>2. Seq(Chars) \subseteq Seq(S)
      BY SeqWider
    <3> QED
      BY <3>1, <3>2, SeqWider
  <2> HIDE DEF S
  <2> QED
    BY <2>2, <2>3, PathsAllocatedDown
<1>2. TypeOK => AllocatedBelow
  BY <1>1 DEF AllocatedBelow
<1> QED
  BY <1>2, Types, PTL

(* What request_all_blocks asks for and what handle_piece waits for.        *)
THEOREM PiecesAskedAndAwaited == Spec => []AskedAndAwaited
<1>1. ASSUME TypeOK, kind = "size", input <= MaxPiece
      PROVE  /\ \A length \in 1 .. MaxPiece, multifile \in BOOLEAN :
                   TorrentAskedFor(input, length, multifile)
             /\ BlocksCoverPiece(input)
             /\ CompleteWhenAll(input)
             /\ WrongFromIntBitsOn(input)
  <2>1. input \in Nat
    BY <1>1 DEF TypeOK
  <2>2. \A length \in 1 .. MaxPiece : length \in Nat \ {0}
    <3>1. MaxPiece \in Nat
      BY InputsAssumption, Zenon
    <3> QED
      BY <3>1
  <2> QED
    BY <2>1, <2>2, TorrentAsked, BlocksCover, CompleteInTime, WrongInLargePieces
<1>2. TypeOK => AskedAndAwaited
  BY <1>1 DEF AskedAndAwaited
<1> QED
  BY <1>2, Types, PTL

(* SHA1_padding, message by message.                                        *)
THEOREM MessagesPadded == Spec => []Padding
<1>1. TypeOK => Padding
  BY Padded DEF TypeOK, Padding
<1> QED
  BY <1>1, Types, PTL

=============================================================================
