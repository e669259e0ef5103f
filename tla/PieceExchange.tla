--------------------------- MODULE PieceExchange ---------------------------
(***************************************************************************)
(* The download pipeline of one torrent: the peer handlers that run on the *)
(* event loop (announcer.c), the SHA-1 and disk tasks the pool threads run *)
(* (tasks.c), and the notify pipe that carries their results back.         *)
(*                                                                         *)
(* Data is kept at the granularity of a block.  A cell of a piece buffer   *)
(* holds the index of the piece whose right bytes it carries, or Junk.     *)
(* The stack frame of handle_piece is a variable of its own: the task it   *)
(* pushes points into that frame and is read after the handler returned.   *)
(***************************************************************************)
EXTENDS Integers, Sequences, FiniteSets

CONSTANTS
    Peers,          \* the TR_peer objects that may connect
    Workers,        \* the pool threads
    PiecesCount,    \* info->pieces_count
    PieceBlocks,    \* blocks of a full piece
    LastBlocks,     \* blocks of the last piece, 0 when total_size % piece_length = 0
    BLOCK_SIZE,     \* bytes of a block
    MAX_PEERS,      \* slots of the slabs of init_TR_swarm (50)
    Announcements,  \* the bitfields a peer may send
    Faults,         \* what may go wrong around the client, see FaultKinds
    MaxUnchokes,    \* bound: UNCHOKE messages of all peers
    MaxTasks,       \* bound: tasks waiting in the pool's queue
    MaxDownloaded   \* bound: the downloaded counter, in pieces

Pieces  == 0 .. PiecesCount - 1
Blocks  == 0 .. PieceBlocks - 1
Slots   == 0 .. MAX_PEERS - 1
None    == -1       \* current_piece of a peer that fetches nothing
Junk    == -1       \* a cell that holds no block's right bytes
NoFrame == [peer |-> None, piece |-> None, slot |-> None]

(* "handshake": a peer's handshake is short or wrong.  "bad": a block has   *)
(* wrong bytes, or recv does not return all of it.  "unasked": a peer sends *)
(* a block nobody requested.  "unknown": a message the client does not      *)
(* know.  "stack": a later call overwrites the dead stack frame of          *)
(* handle_piece before a worker has read the task in it.                    *)
FaultKinds == {"handshake", "bad", "unasked", "unknown", "stack"}

ASSUME ConstantsAssumption ==
    /\ PiecesCount \in Nat \ {0}
    /\ PieceBlocks \in Nat \ {0}
    /\ LastBlocks \in 0 .. PieceBlocks
    /\ BLOCK_SIZE \in Nat \ {0}
    /\ MAX_PEERS \in Nat \ {0}
    /\ Announcements \subseteq SUBSET Pieces
    /\ Faults \subseteq FaultKinds
    /\ IsFiniteSet(Peers) /\ None \notin Peers
    /\ IsFiniteSet(Workers)
    /\ MaxUnchokes \in Nat /\ MaxTasks \in Nat /\ MaxDownloaded \in Nat

VARIABLES
    process,          \* "running"; "hung" in the loop of handle_message; "crashed"
    peer_state,       \* peer->peer_state
    peers,            \* swarm->peers[0 .. peers_count - 1]
    slot,             \* index of peer->bitfield and peer->piece_buf in the slabs
    peer_bitfield,    \* bitfield_slab, one set of pieces for each slot
    piece_buf,        \* piece_buf_slab, one buffer for each slot
    current_piece,    \* peer->current_piece
    blocks_received,  \* peer->blocks_received
    outstanding,      \* blocks requested of a peer and not answered yet
    unchokes,         \* UNCHOKE messages received so far (bound)
    bitfield,         \* tr->bitfield: the pieces the client has
    requested,        \* tr->requested_pieces
    downloaded,       \* tr->downloaded, in pieces
    disk,             \* the files, one block per cell
    frame,            \* the piece_task in the stack frame of handle_piece
    queue,            \* the pool's queue
    worker,           \* the task each pool thread runs
    pipe,             \* notify_pipe
    verified          \* history: pieces whose hash check has succeeded

peerVars == <<peer_state, peers, slot, unchokes>>
slabVars == <<peer_bitfield, piece_buf>>
fetchVars == <<current_piece, blocks_received, outstanding>>
torrentVars == <<bitfield, requested, downloaded>>
taskVars == <<frame, queue, worker, pipe>>
vars == <<process, peerVars, slabVars, fetchVars, torrentVars, disk, taskVars, verified>>

---------------------------------------------------------------------------
(* Tasks and results.  A queued verify task is a pointer to the frame of    *)
(* handle_piece, a queued disk task points to an argument of its own.       *)

PieceTask  == [peer : Peers, piece : Pieces, slot : Slots]
VerifyTask == [fn |-> "verify"]
DiskTask   == [fn : {"disk"}, args : PieceTask]
Running    == [fn : {"verify", "disk"}, args : PieceTask]
Idle       == [fn |-> "none"]
Result     == [type : {"NOTIFY_SHA1_VERIFY", "NOTIFY_DISK_WRITE"},
               peer : Peers, piece : Pieces, success : BOOLEAN]

(* Definitions named X_... are the mistakes the properties are tried on: X  *)
(* with a guard, a reset or a bound gone wrong.  No action uses them.       *)

(* A last piece of full blocks is given a block more.                       *)
BlocksOf_inclusive(i) == IF i = PiecesCount - 1 THEN 0 .. LastBlocks ELSE Blocks

(* request_all_blocks and handle_piece: the blocks a piece is made of.  The *)
(* last piece has total_size % piece_length bytes.                          *)
BlocksOf(i) == IF i = PiecesCount - 1 THEN 0 .. LastBlocks - 1 ELSE Blocks

(* The highest index, not the count.                                        *)
data_len_index == PiecesCount - 1

(* handle_sha1_result: task->data_len is the pieces of the torrent, not the *)
(* bytes of the piece.                                                      *)
data_len == PiecesCount

Init ==
    /\ process = "running"
    /\ peer_state = [p \in Peers |-> "NOT_CONNECTED"]
    /\ peers = <<>>
    /\ slot = [p \in Peers |-> 0]
    /\ peer_bitfield = [s \in Slots |-> {}]
    /\ piece_buf = [s \in Slots |-> [b \in Blocks |-> Junk]]
    /\ current_piece = [p \in Peers |-> 0]
    /\ blocks_received = [p \in Peers |-> {}]
    /\ outstanding = [p \in Peers |-> {}]
    /\ unchokes = 0
    /\ bitfield = {}
    /\ requested = {}
    /\ downloaded = 0
    /\ disk = [i \in Pieces |-> [b \in Blocks |-> Junk]]
    /\ frame = NoFrame
    /\ queue = <<>>
    /\ worker = [w \in Workers |-> Idle]
    /\ pipe = <<>>
    /\ verified = {}

---------------------------------------------------------------------------
(* Connections                                                             *)

(* connect_to_peer as ANN_refill_peers calls it.  A peer that is still      *)
(* HANDSHAKING is connected again: pick_peer passes over CONNECTED and      *)
(* CONNECTING peers only.                                                   *)
connect_to_peer(p) ==
    /\ process = "running"
    /\ peer_state[p] \in {"NOT_CONNECTED", "HANDSHAKING"}
    /\ peer_state' = [peer_state EXCEPT ![p] = "CONNECTING"]
    /\ UNCHANGED <<process, peers, slot, unchokes, slabVars, fetchVars,
                   torrentVars, disk, taskVars, verified>>

(* on_peer_connected with a socket error.                                   *)
connection_failed(p) ==
    /\ process = "running"
    /\ peer_state[p] = "CONNECTING"
    /\ peer_state' = [peer_state EXCEPT ![p] = "NOT_CONNECTED"]
    /\ UNCHANGED <<process, peers, slot, unchokes, slabVars, fetchVars,
                   torrentVars, disk, taskVars, verified>>

(* on_peer_connected: the slab slot is the current peers_count.             *)
on_peer_connected(p) ==
    /\ process = "running"
    /\ peer_state[p] = "CONNECTING"
    /\ Len(peers) < MAX_PEERS
    /\ slot' = [slot EXCEPT ![p] = Len(peers)]
    /\ peers' = Append(peers, p)
    /\ peer_state' = [peer_state EXCEPT ![p] = "HANDSHAKING"]
    /\ UNCHANGED <<process, unchokes, slabVars, fetchVars, torrentVars, disk,
                   taskVars, verified>>

(* handle_handshake, the handshake is right.                                *)
handshake_accepted(p) ==
    /\ process = "running"
    /\ peer_state[p] = "HANDSHAKING"
    /\ peer_state' = [peer_state EXCEPT ![p] = "CONNECTED"]
    /\ UNCHANGED <<process, peers, slot, unchokes, slabVars, fetchVars,
                   torrentVars, disk, taskVars, verified>>

(* swarm->peers without its entry k: the last entry takes the place.        *)
SwapRemove(seq, k) ==
    [j \in 1 .. Len(seq) - 1 |-> IF j = k THEN seq[Len(seq)] ELSE seq[j]]

(* handle_handshake, short or wrong: disconnect_peer.  The piece buffer     *)
(* keeps its bytes: swarm->piece_length is never set, the memset clears     *)
(* nothing.                                                                 *)
handshake_rejected(p) ==
    /\ process = "running"
    /\ "handshake" \in Faults
    /\ peer_state[p] = "HANDSHAKING"
    /\ peer_state' = [peer_state EXCEPT ![p] = "NOT_CONNECTED"]
    /\ current_piece' = [current_piece EXCEPT ![p] = None]
    /\ blocks_received' = [blocks_received EXCEPT ![p] = {}]
    /\ outstanding' = [outstanding EXCEPT ![p] = {}]
    /\ peer_bitfield' = [peer_bitfield EXCEPT ![slot[p]] = {}]
    /\ \E k \in DOMAIN peers :
          /\ peers[k] = p
          /\ \A j \in 1 .. k - 1 : peers[j] # p
          /\ peers' = SwapRemove(peers, k)
    /\ UNCHANGED <<process, slot, unchokes, piece_buf, torrentVars, disk,
                   taskVars, verified>>

---------------------------------------------------------------------------
(* Messages of a connected peer                                            *)

(* The piece assigned is not marked as requested.                           *)
AssignPiece_unmarked(p, have, asked) ==
    LET free == {i \in peer_bitfield[slot[p]] : i \notin have /\ i \notin asked}
    IN  \/ free = {} /\ UNCHANGED fetchVars /\ requested' = asked
        \/ \E i \in free :
              /\ \A j \in free : i <= j
              /\ requested' = asked
              /\ current_piece' = [current_piece EXCEPT ![p] = i]
              /\ blocks_received' = [blocks_received EXCEPT ![p] = {}]
              /\ outstanding' = [outstanding EXCEPT ![p] = @ \cup ({i} \X BlocksOf(i))]

(* assign_piece_to_peer, the client having the pieces have and having asked *)
(* for the pieces asked: the first piece of the peer's bitfield that is in  *)
(* neither.  Whatever the peer was fetching is forgotten.                   *)
AssignPiece(p, have, asked) ==
    LET free == {i \in peer_bitfield[slot[p]] : i \notin have /\ i \notin asked}
    IN  \/ /\ free = {}
           /\ requested' = asked
           /\ UNCHANGED fetchVars
        \/ \E i \in free :
              /\ \A j \in free : i <= j
              /\ requested' = asked \cup {i}
              /\ current_piece' = [current_piece EXCEPT ![p] = i]
              /\ blocks_received' = [blocks_received EXCEPT ![p] = {}]
              /\ outstanding' = [outstanding EXCEPT ![p] = @ \cup ({i} \X BlocksOf(i))]

Readable(p) == process = "running" /\ peer_state[p] = "CONNECTED"

(* handle_message, BITFIELD.                                                *)
receive_bitfield(p, B) ==
    /\ Readable(p)
    /\ peer_bitfield' = [peer_bitfield EXCEPT ![slot[p]] = B]
    /\ UNCHANGED <<process, peerVars, piece_buf, fetchVars, torrentVars, disk,
                   taskVars, verified>>

(* HAVE: an idle peer is given a piece at once.                             *)
receive_have_assigns(p, i) ==
    /\ Readable(p)
    /\ peer_bitfield' = [peer_bitfield EXCEPT ![slot[p]] = @ \cup {i}]
    /\ IF current_piece[p] = None THEN AssignPiece(p, bitfield, requested)
                                  ELSE UNCHANGED <<fetchVars, requested>>
    /\ UNCHANGED <<process, peerVars, piece_buf, bitfield, downloaded, disk,
                   taskVars, verified>>

(* handle_message, HAVE: peer_set_piece.                                    *)
receive_have(p, i) ==
    /\ Readable(p)
    /\ peer_bitfield' = [peer_bitfield EXCEPT ![slot[p]] = @ \cup {i}]
    /\ UNCHANGED <<process, peerVars, piece_buf, fetchVars, torrentVars, disk,
                   taskVars, verified>>

(* handle_message, UNCHOKE.  current_piece is not looked at.                *)
receive_unchoke(p) ==
    /\ Readable(p)
    /\ unchokes < MaxUnchokes
    /\ unchokes' = unchokes + 1
    /\ AssignPiece(p, bitfield, requested)
    /\ UNCHANGED <<process, peer_state, peers, slot, slabVars, bitfield,
                   downloaded, disk, taskVars, verified>>

(* The default case of handle_message: recv returns 0 or -1 on a drained    *)
(* socket and the loop never ends.                                          *)
receive_unknown(p) ==
    /\ Readable(p)
    /\ "unknown" \in Faults
    /\ process' = "hung"
    /\ UNCHANGED <<peerVars, slabVars, fetchVars, torrentVars, disk, taskVars, verified>>

(* What recv leaves in block b of a buffer when a PIECE of piece i arrives. *)
(* If it leaves the bytes that were there, these are right or they are not. *)
Received(i) == {i} \cup (IF "bad" \in Faults THEN {Junk} ELSE {})

Asked(p, i, b) == "unasked" \in Faults \/ <<i, b>> \in outstanding[p]

(* handle_piece, a block of another piece than the current one.             *)
piece_discarded(p, i, b) ==
    /\ Readable(p)
    /\ Asked(p, i, b)
    /\ i # current_piece[p]
    /\ outstanding' = [outstanding EXCEPT ![p] = @ \ {<<i, b>>}]
    /\ UNCHANGED <<process, peerVars, slabVars, current_piece, blocks_received,
                   torrentVars, disk, taskVars, verified>>

(* handle_piece, a block of the current piece but not the last one missing. *)
handle_piece(p, i, b) ==
    /\ Readable(p)
    /\ Asked(p, i, b)
    /\ i = current_piece[p]
    /\ blocks_received[p] \cup {b} # BlocksOf(i)
    /\ blocks_received' = [blocks_received EXCEPT ![p] = @ \cup {b}]
    /\ outstanding' = [outstanding EXCEPT ![p] = @ \ {<<i, b>>}]
    /\ \E d \in Received(i) :
          piece_buf' = [piece_buf EXCEPT ![slot[p]][b] = d]
    /\ UNCHANGED <<process, peerVars, peer_bitfield, current_piece,
                   torrentVars, disk, taskVars, verified>>

(* handle_piece, the last block: the task for the pool is a local variable. *)
piece_complete(p, i, b) ==
    /\ Readable(p)
    /\ Asked(p, i, b)
    /\ i = current_piece[p]
    /\ blocks_received[p] \cup {b} = BlocksOf(i)
    /\ Len(queue) < MaxTasks
    /\ current_piece' = [current_piece EXCEPT ![p] = None]
    /\ blocks_received' = [blocks_received EXCEPT ![p] = {}]
    /\ outstanding' = [outstanding EXCEPT ![p] = @ \ {<<i, b>>}]
    /\ \E d \in Received(i) :
          piece_buf' = [piece_buf EXCEPT ![slot[p]][b] = d]
    /\ frame' = [peer |-> p, piece |-> i, slot |-> slot[p]]
    /\ queue' = Append(queue, VerifyTask)
    /\ UNCHANGED <<process, peerVars, peer_bitfield, torrentVars, disk, worker,
                   pipe, verified>>

(* Calls the event loop makes after handle_piece has returned reuse the     *)
(* stack its task lies in.                                                  *)
stack_reused ==
    /\ process = "running"
    /\ "stack" \in Faults
    /\ frame # NoFrame
    /\ frame' = NoFrame
    /\ UNCHANGED <<process, peerVars, slabVars, fetchVars, torrentVars, disk,
                   queue, worker, pipe, verified>>

---------------------------------------------------------------------------
(* Pool threads.  They go on while the event loop is hung.                 *)

(* worker takes a task; task_sha1_verify copies its argument, the frame.    *)
take_verify(w) ==
    /\ process # "crashed"
    /\ worker[w] = Idle
    /\ queue # <<>>
    /\ Head(queue).fn = "verify"
    /\ frame # NoFrame
    /\ worker' = [worker EXCEPT ![w] = [fn |-> "verify", args |-> frame]]
    /\ queue' = Tail(queue)
    /\ UNCHANGED <<process, peerVars, slabVars, fetchVars, torrentVars, disk,
                   frame, pipe, verified>>

(* The same, and the pointers in the frame are gone.                        *)
take_garbage(w) ==
    /\ process # "crashed"
    /\ worker[w] = Idle
    /\ queue # <<>>
    /\ Head(queue).fn = "verify"
    /\ frame = NoFrame
    /\ process' = "crashed"
    /\ UNCHANGED <<peerVars, slabVars, fetchVars, torrentVars, disk, taskVars, verified>>

take_disk(w) ==
    /\ process # "crashed"
    /\ worker[w] = Idle
    /\ queue # <<>>
    /\ Head(queue).fn = "disk"
    /\ worker' = [worker EXCEPT ![w] = Head(queue)]
    /\ queue' = Tail(queue)
    /\ UNCHANGED <<process, peerVars, slabVars, fetchVars, torrentVars, disk,
                   frame, pipe, verified>>

(* task_sha1_verify hashes the buffer as it is now.                         *)
HashMatches(i, s) == \A b \in BlocksOf(i) : piece_buf[s][b] = i

task_sha1_verify(w) ==
    /\ process # "crashed"
    /\ worker[w].fn = "verify"
    /\ LET t  == worker[w].args
           ok == HashMatches(t.piece, t.slot)
       IN  /\ pipe' = Append(pipe, [type |-> "NOTIFY_SHA1_VERIFY", peer |-> t.peer,
                                    piece |-> t.piece, success |-> ok])
           /\ verified' = IF ok THEN verified \cup {t.piece} ELSE verified
    /\ worker' = [worker EXCEPT ![w] = Idle]
    /\ UNCHANGED <<process, peerVars, slabVars, fetchVars, torrentVars, disk,
                   frame, queue>>

(* write_piece_to_disk, n bytes of it, from the start of the task's piece   *)
(* and of its peer's buffer on: over the next pieces, from the buffers next *)
(* in the slab, when n is more than a piece.  A block that is written in    *)
(* part is spoilt unless it had these bytes.  (What would lie behind the    *)
(* end of the torrent no file has and nobody reads.)                        *)
Written(t, n) ==
    LET Reaches(j, b) == n - ((j - t.piece) * PieceBlocks + b) * BLOCK_SIZE
        Source(j, b)  == LET s == t.slot + (j - t.piece)
                         IN  IF s \in Slots THEN piece_buf[s][b] ELSE Junk
    IN  [j \in Pieces |-> [b \in Blocks |->
            IF j < t.piece \/ Reaches(j, b) <= 0 THEN disk[j][b]
            ELSE IF Reaches(j, b) >= BLOCK_SIZE \/ disk[j][b] = Source(j, b) THEN Source(j, b)
            ELSE Junk]]

(* Every open and pwrite succeeds.  (open is given the path of the .torrent *)
(* file, from the root: there must be a file there.)                        *)
task_disk_write(w) ==
    /\ process # "crashed"
    /\ worker[w].fn = "disk"
    /\ disk' = Written(worker[w].args, data_len)
    /\ pipe' = Append(pipe, [type |-> "NOTIFY_DISK_WRITE", peer |-> worker[w].args.peer,
                             piece |-> worker[w].args.piece, success |-> TRUE])
    /\ worker' = [worker EXCEPT ![w] = Idle]
    /\ UNCHANGED <<process, peerVars, slabVars, fetchVars, torrentVars, frame,
                   queue, verified>>

(* An open or a pwrite fails, after a part of the bytes or before any.      *)
disk_write_fails(w) ==
    /\ process # "crashed"
    /\ worker[w].fn = "disk"
    /\ \E n \in 0 .. data_len - 1 : disk' = Written(worker[w].args, n)
    /\ pipe' = Append(pipe, [type |-> "NOTIFY_DISK_WRITE", peer |-> worker[w].args.peer,
                             piece |-> worker[w].args.piece, success |-> FALSE])
    /\ worker' = [worker EXCEPT ![w] = Idle]
    /\ UNCHANGED <<process, peerVars, slabVars, fetchVars, torrentVars, frame,
                   queue, verified>>

---------------------------------------------------------------------------
(* notify_pipe_readable: results come back to the event loop               *)

(* The handler does not look at success.                                    *)
ResultIs_unread(type, success) ==
    process = "running" /\ pipe # <<>> /\ Head(pipe).type = type

ResultIs(type, success) ==
    /\ process = "running"
    /\ pipe # <<>>
    /\ Head(pipe).type = type
    /\ Head(pipe).success = success

(* handle_sha1_result, wrong hash.  The bit cleared is that of the piece    *)
(* the peer fetches by now, no bit when it fetches none.                    *)
sha1_failed ==
    /\ ResultIs("NOTIFY_SHA1_VERIFY", FALSE)
    /\ LET p == Head(pipe).peer
       IN  AssignPiece(p, bitfield, requested \ {current_piece[p]})
    /\ pipe' = Tail(pipe)
    /\ UNCHANGED <<process, peerVars, slabVars, bitfield, downloaded, disk,
                   frame, queue, worker, verified>>

(* The peer is given its next piece at once, before the write.              *)
sha1_succeeded_prefetch ==
    /\ ResultIs("NOTIFY_SHA1_VERIFY", TRUE)
    /\ Len(queue) < MaxTasks
    /\ LET p == Head(pipe).peer
       IN  /\ queue' = Append(queue, [fn |-> "disk",
                  args |-> [peer |-> p, piece |-> Head(pipe).piece, slot |-> slot[p]]])
           /\ AssignPiece(p, bitfield, requested)
    /\ pipe' = Tail(pipe)
    /\ UNCHANGED <<process, peerVars, slabVars, bitfield, downloaded, disk,
                   frame, worker, verified>>

(* handle_sha1_result, right hash.                                          *)
sha1_succeeded ==
    /\ ResultIs("NOTIFY_SHA1_VERIFY", TRUE)
    /\ Len(queue) < MaxTasks
    /\ LET p == Head(pipe).peer
       IN  queue' = Append(queue, [fn |-> "disk",
               args |-> [peer |-> p, piece |-> Head(pipe).piece, slot |-> slot[p]]])
    /\ pipe' = Tail(pipe)
    /\ UNCHANGED <<process, peerVars, slabVars, fetchVars, torrentVars, disk,
                   frame, worker, verified>>

(* The piece that could not be written stays requested.                     *)
disk_failed_kept ==
    /\ ResultIs("NOTIFY_DISK_WRITE", FALSE)
    /\ AssignPiece(Head(pipe).peer, bitfield, requested)
    /\ pipe' = Tail(pipe)
    /\ UNCHANGED <<process, peerVars, slabVars, bitfield, downloaded, disk,
                   frame, queue, worker, verified>>

(* The piece is counted, its bit is not set.                                *)
disk_succeeded_unclaimed ==
    /\ ResultIs("NOTIFY_DISK_WRITE", TRUE)
    /\ downloaded < MaxDownloaded
    /\ downloaded' = downloaded + 1
    /\ AssignPiece(Head(pipe).peer, bitfield, requested)
    /\ pipe' = Tail(pipe)
    /\ UNCHANGED <<process, peerVars, slabVars, bitfield, disk, frame, queue, worker, verified>>

(* handle_disk_result.                                                      *)
disk_failed ==
    /\ ResultIs("NOTIFY_DISK_WRITE", FALSE)
    /\ AssignPiece(Head(pipe).peer, bitfield, requested \ {Head(pipe).piece})
    /\ pipe' = Tail(pipe)
    /\ UNCHANGED <<process, peerVars, slabVars, bitfield, downloaded, disk,
                   frame, queue, worker, verified>>

disk_succeeded ==
    /\ ResultIs("NOTIFY_DISK_WRITE", TRUE)
    /\ downloaded < MaxDownloaded
    /\ bitfield' = bitfield \cup {Head(pipe).piece}
    /\ downloaded' = downloaded + 1
    /\ AssignPiece(Head(pipe).peer, bitfield', requested)
    /\ pipe' = Tail(pipe)
    /\ UNCHANGED <<process, peerVars, slabVars, disk, frame, queue, worker, verified>>

---------------------------------------------------------------------------
PeerStep(p) ==
    \/ connect_to_peer(p)
    \/ connection_failed(p)
    \/ on_peer_connected(p)
    \/ handshake_accepted(p)
    \/ handshake_rejected(p)
    \/ \E B \in Announcements : receive_bitfield(p, B)
    \/ \E i \in Pieces : receive_have(p, i)
    \/ receive_unchoke(p)
    \/ receive_unknown(p)
    \/ \E i \in Pieces, b \in Blocks :
          piece_discarded(p, i, b) \/ handle_piece(p, i, b) \/ piece_complete(p, i, b)

WorkerStep(w) ==
    \/ take_verify(w)
    \/ take_garbage(w)
    \/ take_disk(w)
    \/ task_sha1_verify(w)
    \/ task_disk_write(w)
    \/ disk_write_fails(w)

ResultStep == sha1_failed \/ sha1_succeeded \/ disk_failed \/ disk_succeeded

Next ==
    \/ \E p \in Peers : PeerStep(p)
    \/ stack_reused
    \/ \E w \in Workers : WorkerStep(w)
    \/ ResultStep

Spec == Init /\ [][Next]_vars

(* Liveness is stated for calm surroundings.  The main loop of main.c       *)
(* always returns to epoll_wait, so a result in the pipe is handled; the    *)
(* pool threads always run and end their tasks, a write with success or     *)
(* without, for ever without for all that is assumed; and a peer answers    *)
(* each request.                                                            *)
Fairness ==
    /\ \A p \in Peers, i \in Pieces, b \in Blocks :
          WF_vars(piece_discarded(p, i, b) \/ handle_piece(p, i, b) \/ piece_complete(p, i, b))
    /\ \A w \in Workers : WF_vars(\/ take_verify(w) \/ task_sha1_verify(w)
                                   \/ take_disk(w) \/ task_disk_write(w) \/ disk_write_fails(w))
    /\ WF_vars(ResultStep)

FairSpec == Spec /\ Fairness

---------------------------------------------------------------------------
(* Properties                                                              *)

(* Types of all variables.                                                  *)
TypeOK ==
    /\ process \in {"running", "hung", "crashed"}
    /\ peer_state \in [Peers -> {"NOT_CONNECTED", "CONNECTING", "HANDSHAKING", "CONNECTED"}]
    /\ peers \in Seq(Peers) /\ Len(peers) <= MAX_PEERS
    /\ slot \in [Peers -> Slots]
    /\ peer_bitfield \in [Slots -> SUBSET Pieces]
    /\ piece_buf \in [Slots -> [Blocks -> Pieces \cup {Junk}]]
    /\ current_piece \in [Peers -> Pieces \cup {None}]
    /\ blocks_received \in [Peers -> SUBSET Blocks]
    /\ outstanding \in [Peers -> SUBSET (Pieces \X Blocks)]
    /\ unchokes \in Nat
    /\ bitfield \subseteq Pieces /\ requested \subseteq Pieces
    /\ downloaded \in Nat
    /\ disk \in [Pieces -> [Blocks -> Pieces \cup {Junk}]]
    /\ frame \in PieceTask \cup {NoFrame}
    /\ queue \in Seq(DiskTask \cup {VerifyTask})
    /\ worker \in [Workers -> Running \cup {Idle}]
    /\ pipe \in Seq(Result)
    /\ verified \subseteq Pieces

(* The client claims a piece only after its hash check has succeeded, and   *)
(* nothing is written for a piece, nor reported as written, before that.    *)
(* The claim (tr->bitfield, and the HAVE messages that follow it) travels   *)
(* from the check through two tasks and two results.                        *)
HaveWasVerified ==
    /\ bitfield \subseteq verified
    /\ \A k \in DOMAIN queue : queue[k].fn = "disk" => queue[k].args.piece \in verified
    /\ \A w \in Workers : worker[w].fn = "disk" => worker[w].args.piece \in verified
    /\ \A k \in DOMAIN pipe : pipe[k].success => pipe[k].piece \in verified

(* The tasks and results of the torrent that are on their way.              *)
Load == Len(queue) + Cardinality({w \in Workers : worker[w] # Idle}) + Len(pipe)

(* Work begins with an UNCHOKE and nothing multiplies it: a piece that is    *)
(* assigned again after a wrong hash or a failed write, or the next piece    *)
(* after a written one, takes the place of the result it follows.  So the    *)
(* pool never holds more tasks of the torrent than UNCHOKEs have come, and   *)
(* one more for each peer that may send blocks of piece 0 nobody asked for,  *)
(* current_piece being 0 at first.  The ring of 64 needs such a bound.       *)
TasksPerUnchoke ==
    Load <= unchokes + (IF "unasked" \in Faults THEN Cardinality(Peers) ELSE 0)

(* p fetches piece i: each of its blocks has come or is still to come.      *)
Fetches(p, i) ==
    /\ current_piece[p] = i
    /\ \A b \in BlocksOf(i) : b \in blocks_received[p] \/ <<i, b>> \in outstanding[p]

(* The places at which work on piece i goes on.                             *)
Stages(i) ==
    {<<"peer", p>> : p \in {q \in Peers : Fetches(q, i)}}
    \cup {<<"queue", k>> : k \in {j \in DOMAIN queue :
             IF queue[j].fn = "disk" THEN queue[j].args.piece = i ELSE frame.piece = i}}
    \cup {<<"worker", w>> : w \in {v \in Workers :
             worker[v].fn # "none" /\ worker[v].args.piece = i}}
    \cup {<<"pipe", k>> : k \in {j \in DOMAIN pipe : pipe[j].piece = i}}

Abandoned(i) == i \in requested \ bitfield /\ Stages(i) = {}

(* A requested piece is given up, so that nobody fetches it and nobody may, *)
(* in three ways and no other: its peer is assigned another piece while it  *)
(* fetches this one; the dead frame that holds its verify task is used      *)
(* again before a worker has read it; its hash is wrong, and the bit that   *)
(* handle_sha1_result clears is not its own.                                *)
AbandonedOnlyThus ==
    [][\A i \in Pieces : ~Abandoned(i) /\ Abandoned(i)' =>
          \/ \E p \in Peers : Fetches(p, i) /\ current_piece'[p] \in Pieces \ {i}
          \/ frame.piece = i /\ frame' # frame
          \/ /\ ResultIs("NOTIFY_SHA1_VERIFY", FALSE)
             /\ Head(pipe).piece = i
             /\ current_piece[Head(pipe).peer] # i]_vars

(* With one peer that unchokes once and makes no mistake, a requested piece *)
(* is at exactly one stage until the client has it, and at none otherwise:  *)
(* no piece is lost, fetched twice, written twice or counted twice.         *)
OneStage ==
    \A i \in Pieces :
        Cardinality(Stages(i)) = IF i \in requested \ bitfield THEN 1 ELSE 0

(* The counter the tracker is told agrees with the pieces the client has.   *)
CountedOnce == downloaded = Cardinality(bitfield)

(* The files hold the right bytes of each piece the client claims to have.  *)
DiskHoldsHave ==
    \A i \in bitfield : \A b \in BlocksOf(i) : disk[i][b] = i

(* Two peers of the swarm have slabs of their own: the bitfield of one is   *)
(* not the bitfield of the other.                                           *)
OwnBitfield ==
    \A p, q \in {peers[k] : k \in DOMAIN peers} : p # q => slot[p] # slot[q]

(* What a disk task is to write, or writes, is the piece that was verified: *)
(* from the hash of the buffer to the end of the write nothing is received  *)
(* into it, for the peer is given its next piece only then.                 *)
WritesWhatWasVerified ==
    /\ \A k \in DOMAIN queue : queue[k].fn = "disk" =>
          HashMatches(queue[k].args.piece, queue[k].args.slot)
    /\ \A w \in Workers : worker[w].fn = "disk" =>
          HashMatches(worker[w].args.piece, worker[w].args.slot)

(* A failed write is reported.                                             *)
WriteFailed ==
    \E k \in DOMAIN pipe : pipe[k].type = "NOTIFY_DISK_WRITE" /\ ~pipe[k].success

(* A piece once requested arrives, unless the event loop hangs or writes     *)
(* fail again and again, for ever: those that fail a number of times cost a  *)
(* piece its time and no more.  (Writes of one piece that fail for ever keep *)
(* every later one waiting: its peer is always given the first one missing.) *)
ArrivesUnlessWritesFail ==
    \A i \in Pieces :
        \/ i \in requested ~> (i \in bitfield \/ process # "running")
        \/ []<>WriteFailed

=============================================================================
