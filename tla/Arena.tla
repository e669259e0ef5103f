------------------------------- MODULE Arena -------------------------------
(***************************************************************************)
(* The allocator of all that a torrent, the session and the parser hold    *)
(* (arena.h): a range of addresses is reserved, committed chunk by chunk,   *)
(* and given out from its start.  mmap and mprotect, whose failure the code *)
(* does not look for, succeed here.  Nothing calls arena_rewind and         *)
(* arena_reset; arena_destroy is in module Session.                        *)
(***************************************************************************)
EXTENDS Integers

CONSTANTS
    Align,         \* 16
    CommitChunk,   \* COMMIT_CHUNK
    Reserve,       \* the size arena_create is called with
    PushSizes      \* the sizes that are asked for

ASSUME ArenaAssumption ==
    /\ Align \in Nat \ {0}
    /\ CommitChunk \in Nat \ {0}
    /\ Reserve \in Nat /\ Reserve % CommitChunk = 0
    /\ PushSizes \subseteq Nat

VARIABLES
    used,        \* a->used
    commited,    \* a->commited
    given,       \* what arena_push has returned, with the sizes asked for
    aborted      \* the size for which the assertion has failed, or -1

arena_vars == <<used, commited, given, aborted>>

arena_create == used = 0 /\ commited = 0 /\ given = {} /\ aborted = -1

(* (~used + 1) & (align - 1)                                               *)
padding == (-used) % Align

(* Definitions named X_... are the mistakes the properties are tried on; no *)
(* action uses them.  Here: the room is tested for without the padding.    *)
Needed_unpadded(size) == used + size

Needed(size) == used + padding + size

(* The commits of the loop, until what is needed is there.                 *)
Chunks(size) ==
    IF Needed(size) <= commited THEN 0
    ELSE (Needed(size) - commited + CommitChunk - 1) \div CommitChunk

(* arena_push, and arena_push_zero, which clears the memory too.            *)
arena_push(size) ==
    LET new_commit == commited + (Chunks(size) * CommitChunk) IN
    /\ aborted = -1
    /\ new_commit <= Reserve
    /\ commited' = new_commit
    /\ used' = used + padding + size
    /\ given' = given \cup {[ptr |-> used + padding, size |-> size]}
    /\ UNCHANGED aborted

(* The assertion; chunks before it are committed, but the process ends.     *)
assertion_fails(size) ==
    /\ aborted = -1
    /\ commited + (Chunks(size) * CommitChunk) > Reserve
    /\ aborted' = size
    /\ UNCHANGED <<used, commited, given>>

ArenaNext == \E size \in PushSizes : arena_push(size) \/ assertion_fails(size)

ArenaSpec == arena_create /\ [][ArenaNext]_arena_vars

-----------------------------------------------------------------------------
(* Properties                                                              *)

(* Nothing that is given out overlaps anything else, and it is aligned.     *)
Disjoint ==
    \A p, q \in given :
        /\ p.ptr % Align = 0
        /\ p # q => p.ptr + p.size <= q.ptr \/ q.ptr + q.size <= p.ptr

(* All that is given out is memory that may be touched.                    *)
InsideCommitted ==
    /\ \A p \in given : p.ptr + p.size <= commited
    /\ commited <= Reserve

(* The program is ended for lack of memory only when what is asked for      *)
(* does not fit any more.                                                  *)
AbortsOnlyWhenFull == aborted # -1 => used + padding + aborted > Reserve

(* What arena_push and arena_push_zero return is free, aligned and          *)
(* committed, and they end the program only when nothing can be returned.   *)
ArenaSound == Disjoint /\ InsideCommitted /\ AbortsOnlyWhenFull

=============================================================================
