---------------------------- MODULE ArenaProofs ----------------------------
(***************************************************************************)
(* ArenaSound for any sizes, chunk, alignment and reserve.  That what is    *)
(* given out is disjoint is not inductive: nothing that is given out may    *)
(* end behind used, nor used lie behind commited.                          *)
(***************************************************************************)
EXTENDS Arena, TLAPS

Allocations == [ptr : Nat, size : Nat]

ArenaTypeOK ==
    /\ used \in Nat
    /\ commited \in Nat
    /\ given \subseteq Allocations
    /\ aborted \in Nat \cup {-1}

Bounded ==
    /\ used <= commited
    /\ commited <= Reserve
    /\ commited % CommitChunk = 0
    /\ \A p \in given : p.ptr + p.size <= used

IInv == ArenaTypeOK /\ Bounded /\ ArenaSound

(* What the remainder by any positive number is: the rest of the proofs      *)
(* about %, \div and products needs no more.                                *)
LEMMA Division ==
    ASSUME NEW a \in Int, NEW b \in Nat \ {0}
    PROVE  /\ a % b \in 0 .. b - 1
           /\ a \div b \in Int
           /\ a = b * (a \div b) + (a % b)
    BY Z3

(* A multiple, from a product.                                             *)
LEMMA MultipleIsZero ==
    ASSUME NEW b \in Nat \ {0}, NEW q \in Int
    PROVE  (b * q) % b = 0
    BY Division, Z3

LEMMA PaddingAligns ==
    ASSUME used \in Nat
    PROVE  padding \in 0 .. Align - 1 /\ (used + padding) % Align = 0
<1> DEFINE q == (-used) \div Align
<1>1. Align \in Nat \ {0} /\ -used \in Int
    BY ArenaAssumption
<1>2. /\ padding \in 0 .. Align - 1
      /\ q \in Int
      /\ -used = Align * q + padding
    BY <1>1, Division DEF padding
<1> HIDE DEF q
<1>3. used + padding = Align * (-q)
    BY <1>1, <1>2, Z3
<1>4. -q \in Int
    BY <1>2
<1>5. (Align * (-q)) % Align = 0
    BY <1>1, <1>4, MultipleIsZero, Zenon
<1> QED
    BY <1>2, <1>3, <1>5

(* The loop commits as many chunks as are needed, and none that is not.     *)
LEMMA ChunksSuffice ==
    ASSUME ArenaTypeOK, Bounded, NEW size \in Nat,
           NEW new_commit, new_commit = commited + (Chunks(size) * CommitChunk)
    PROVE  /\ Needed(size) \in Nat
           /\ new_commit \in Nat
           /\ Needed(size) <= new_commit
           /\ new_commit % CommitChunk = 0
           /\ new_commit > Reserve => Needed(size) > Reserve
<1> USE DEF ArenaTypeOK
<1> DEFINE gap == Needed(size) - commited + CommitChunk - 1
           c == gap \div CommitChunk
           k == Reserve \div CommitChunk
           d == commited \div CommitChunk
<1>1. CommitChunk \in Nat \ {0} /\ Reserve \in Nat /\ Reserve % CommitChunk = 0
    BY ArenaAssumption
<1>2. Needed(size) \in Nat
    BY PaddingAligns, ArenaAssumption DEF Needed
<1>3. /\ commited = CommitChunk * d /\ d \in Int
      /\ Reserve = CommitChunk * k /\ k \in Int
    <2>1. commited \in Int /\ Reserve \in Int /\ commited % CommitChunk = 0
        BY <1>1 DEF Bounded
    <2>2. /\ d \in Int /\ commited = CommitChunk * d + (commited % CommitChunk)
          /\ k \in Int /\ Reserve = CommitChunk * k + (Reserve % CommitChunk)
        BY <1>1, <2>1, Division, Zenon
    <2> HIDE DEF d, k
    <2> QED
        BY <1>1, <2>1, <2>2, Z3
<1>4. CASE Needed(size) <= commited
    <2>1. new_commit = commited
        BY <1>1, <1>4 DEF Chunks
    <2> QED
        BY <1>1, <1>2, <1>4, <2>1 DEF Bounded
<1>5. CASE ~(Needed(size) <= commited)
    <2>1. gap \in Int
        BY <1>1, <1>2
    <2>2. /\ c \in Int
          /\ gap % CommitChunk \in 0 .. CommitChunk - 1
          /\ gap = CommitChunk * c + (gap % CommitChunk)
        BY <1>1, <2>1, Division
    <2>3. new_commit = commited + (c * CommitChunk)
        BY <1>5 DEF Chunks
    <2> DEFINE r == gap % CommitChunk
    <2> HIDE DEF c, k, d, r
    <2>4. new_commit = CommitChunk * (c + d)
        BY <1>1, <1>3, <2>2, <2>3, Z3
    <2>5. new_commit \in Int /\ new_commit % CommitChunk = 0
        <3>1. c + d \in Int /\ CommitChunk * (c + d) \in Int
            BY <1>1, <1>3, <2>2, Z3
        <3> QED
            BY <1>1, <2>4, <3>1, MultipleIsZero, Zenon
    <2>6. new_commit = Needed(size) + CommitChunk - 1 - r /\ r \in 0 .. CommitChunk - 1
        <3>1. r \in 0 .. CommitChunk - 1 /\ gap = CommitChunk * c + r
            BY <2>2 DEF r
        <3>2. c * CommitChunk = CommitChunk * c /\ CommitChunk * c \in Int
            BY <1>1, <2>2, Z3
        <3> QED
            BY <1>1, <1>2, <2>3, <3>1, <3>2
    <2>7. Needed(size) <= new_commit /\ new_commit < Needed(size) + CommitChunk
        BY <1>1, <1>2, <2>5, <2>6
    <2>8. ASSUME new_commit > Reserve
          PROVE  new_commit >= Reserve + CommitChunk
        <3>1. c + d > k
            BY <1>1, <1>3, <2>2, <2>4, <2>8, Z3
        <3>2. c + d >= k + 1
            BY <1>3, <2>2, <3>1
        <3>3. CommitChunk * (c + d) >= CommitChunk * (k + 1)
            BY <1>1, <1>3, <2>2, <3>2, Z3
        <3>4. CommitChunk * (k + 1) = Reserve + CommitChunk
            BY <1>1, <1>3, Z3
        <3> QED
            BY <2>4, <3>3, <3>4
    <2> QED
        BY <1>1, <1>2, <2>5, <2>7, <2>8
<1> QED
    BY <1>4, <1>5

LEMMA CreateEstablishes == arena_create => IInv
<1> SUFFICES ASSUME arena_create PROVE IInv
    OBVIOUS
<1>1. 0 % CommitChunk = 0
    BY ArenaAssumption, MultipleIsZero, Division, Z3
<1> QED
    BY <1>1, ArenaAssumption
    DEF arena_create, IInv, ArenaTypeOK, Bounded, ArenaSound, Disjoint, InsideCommitted,
        AbortsOnlyWhenFull, Allocations

(* What is given out lies behind all that was given out before.             *)
LEMMA PushKeeps ==
    ASSUME IInv, NEW size \in PushSizes, arena_push(size)
    PROVE  IInv'
<1> DEFINE new_commit == commited + (Chunks(size) * CommitChunk)
           ptr == used + padding
           new == [ptr |-> ptr, size |-> size]
<1>1. /\ ArenaTypeOK /\ Bounded
      /\ Disjoint /\ size \in Nat
      /\ commited' = new_commit /\ used' = ptr + size
      /\ given' = given \cup {new}
      /\ aborted' = -1 /\ new_commit <= Reserve
    BY ArenaAssumption DEF IInv, ArenaSound, arena_push
<1>2. /\ padding \in Nat /\ ptr \in Nat /\ ptr % Align = 0
      /\ used <= ptr
    BY <1>1, PaddingAligns, ArenaAssumption DEF ArenaTypeOK
<1>3. /\ new_commit \in Nat /\ Needed(size) <= new_commit /\ new_commit % CommitChunk = 0
    BY <1>1, ChunksSuffice
<1>4. Needed(size) = ptr + size
    BY DEF Needed
<1> HIDE DEF new_commit, ptr
<1>5. ArenaTypeOK'
    BY <1>1, <1>2, <1>3 DEF ArenaTypeOK, Allocations
<1>6. Bounded'
    <2>1. \A p \in given : p.ptr + p.size <= used'
        BY <1>1, <1>2 DEF Bounded, ArenaTypeOK, Allocations
    <2> QED
        BY <1>1, <1>2, <1>3, <1>4, <2>1 DEF Bounded
<1>7. Disjoint'
    <2>1. \A p \in given : p.ptr + p.size <= new.ptr
        BY <1>1, <1>2 DEF Bounded, ArenaTypeOK, Allocations
    <2> QED
        BY <1>1, <1>2, <2>1 DEF Disjoint
<1>8. InsideCommitted'
    BY <1>5, <1>6 DEF InsideCommitted, Bounded, ArenaTypeOK, Allocations
<1>9. AbortsOnlyWhenFull'
    BY <1>1 DEF AbortsOnlyWhenFull
<1> QED
    BY <1>5, <1>6, <1>7, <1>8, <1>9 DEF IInv, ArenaSound

LEMMA AbortKeeps ==
    ASSUME IInv, NEW size \in PushSizes, assertion_fails(size)
    PROVE  IInv'
<1>1. size \in Nat
    BY ArenaAssumption
<1>2. Needed(size) > Reserve
    BY <1>1, ChunksSuffice DEF IInv, assertion_fails
<1>3. AbortsOnlyWhenFull'
    BY <1>2 DEF AbortsOnlyWhenFull, assertion_fails, Needed, padding
<1> QED
    BY <1>1, <1>3 DEF IInv, ArenaSound, assertion_fails, ArenaTypeOK, Bounded, Disjoint,
        InsideCommitted

(* For any alignment, chunk, reserve and sizes, what is given out is         *)
(* aligned, committed and disjoint, and the assertion fails only for want   *)
(* of memory.                                                              *)
THEOREM ArenaIsSound == ArenaSpec => []ArenaSound
<1>1. IInv /\ [ArenaNext]_arena_vars => IInv'
    <2> SUFFICES ASSUME IInv, [ArenaNext]_arena_vars PROVE IInv'
        OBVIOUS
    <2>1. CASE ArenaNext
        BY <2>1, PushKeeps, AbortKeeps DEF ArenaNext
    <2>2. CASE UNCHANGED arena_vars
        BY <2>2 DEF arena_vars, IInv, ArenaTypeOK, Bounded, ArenaSound, Disjoint,
            InsideCommitted, AbortsOnlyWhenFull, padding
    <2> QED
        BY <2>1, <2>2
<1>2. IInv => ArenaSound
    BY DEF IInv
<1> QED
    BY CreateEstablishes, <1>1, <1>2, PTL DEF ArenaSpec

=============================================================================
