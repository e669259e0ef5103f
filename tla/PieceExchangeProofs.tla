------------------------ MODULE PieceExchangeProofs ------------------------
(***************************************************************************)
(* Proofs about PieceExchange, for any peers, threads, pieces and faults.  *)
(*                                                                         *)
(* TypeOK is inductive by itself.  HaveWasVerified is inductive relative   *)
(* to it: its last three conjuncts follow the success of a hash check from *)
(* the thread that computed it to the bitfield.  AbandonedOnlyThus needs   *)
(* AbandonInv, that all work is that of connected peers.  What holds in    *)
(* calm surroundings follows from StageInv, that one piece at most is at   *)
(* work, and where, and that its buffer is right from its check on.        *)
(***************************************************************************)
EXTENDS PieceExchange, FiniteSetTheorems, TLAPS

(* The blocks of a piece are blocks.  request_all_blocks, announcer.c.      *)
LEMMA BlocksOfType == \A i \in Pieces : BlocksOf(i) \subseteq Blocks
  BY ConstantsAssumption DEF BlocksOf, Pieces, Blocks

(* A frame and the empty frame are not the same.                            *)
LEMMA FrameDistinct == NoFrame \notin PieceTask
  BY ConstantsAssumption DEF NoFrame, PieceTask, None

(* assign_piece_to_peer keeps the types of what it writes.                  *)
LEMMA AssignType ==
    ASSUME TypeOK, NEW p \in Peers, NEW have, NEW asked \in SUBSET Pieces,
           AssignPiece(p, have, asked)
    PROVE  /\ requested' \subseteq Pieces
           /\ current_piece' \in [Peers -> Pieces \cup {None}]
           /\ blocks_received' \in [Peers -> SUBSET Blocks]
           /\ outstanding' \in [Peers -> SUBSET (Pieces \X Blocks)]
  <1> DEFINE free == {i \in peer_bitfield[slot[p]] : i \notin have /\ i \notin asked}
  <1>1. free \subseteq Pieces
    BY DEF TypeOK
  <1>2. CASE free = {} /\ requested' = asked /\ UNCHANGED fetchVars
    BY <1>2 DEF TypeOK, fetchVars
  <1>3. ASSUME NEW i \in free,
               requested' = asked \cup {i},
               current_piece' = [current_piece EXCEPT ![p] = i],
               blocks_received' = [blocks_received EXCEPT ![p] = {}],
               outstanding' = [outstanding EXCEPT ![p] = @ \cup ({i} \X BlocksOf(i))]
        PROVE  /\ requested' \subseteq Pieces
               /\ current_piece' \in [Peers -> Pieces \cup {None}]
               /\ blocks_received' \in [Peers -> SUBSET Blocks]
               /\ outstanding' \in [Peers -> SUBSET (Pieces \X Blocks)]
    <2>1. {i} \X BlocksOf(i) \subseteq Pieces \X Blocks
      BY <1>1, BlocksOfType
    <2>2. outstanding' \in [Peers -> SUBSET (Pieces \X Blocks)]
      BY <1>3, <2>1 DEF TypeOK
    <2> QED
      BY <1>1, <1>3, <2>2 DEF TypeOK
  <1> QED
    BY <1>2, <1>3 DEF AssignPiece

(* A list of peers without one of its entries is a list of peers.           *)
LEMMA SwapRemoveType ==
    ASSUME NEW seq \in Seq(Peers), NEW k \in DOMAIN seq
    PROVE  SwapRemove(seq, k) \in Seq(Peers) /\ Len(SwapRemove(seq, k)) = Len(seq) - 1
  <1>1. Len(seq) \in Nat \ {0} /\ \A j \in 1 .. Len(seq) : seq[j] \in Peers
    OBVIOUS
  <1>2. SwapRemove(seq, k) \in [1 .. Len(seq) - 1 -> Peers]
    BY <1>1 DEF SwapRemove
  <1> QED
    BY <1>1, <1>2

(* What recv leaves in a buffer is a cell.                                  *)
LEMMA ReceivedType ==
    ASSUME NEW i \in Pieces
    PROVE  Received(i) \subseteq Pieces \cup {Junk}
  BY DEF Received

(* write_piece_to_disk keeps the type of the files.                         *)
LEMMA WrittenType ==
    ASSUME TypeOK, NEW t \in PieceTask, NEW n \in Nat
    PROVE  Written(t, n) \in [Pieces -> [Blocks -> Pieces \cup {Junk}]]
  <1> DEFINE Source(j, b) == LET s == t.slot + (j - t.piece)
                             IN  IF s \in Slots THEN piece_buf[s][b] ELSE Junk
  <1>1. \A j \in Pieces, b \in Blocks :
           Source(j, b) \in Pieces \cup {Junk} /\ disk[j][b] \in Pieces \cup {Junk}
    BY DEF TypeOK
  <1>2. \A j \in Pieces, b \in Blocks :
           Written(t, n)[j][b] \in {disk[j][b], Source(j, b), Junk}
    BY DEF Written
  <1>3. \A j \in Pieces, b \in Blocks : Written(t, n)[j][b] \in Pieces \cup {Junk}
    <2> HIDE DEF Source
    <2> QED
      BY <1>1, <1>2
  <1>4. /\ DOMAIN Written(t, n) = Pieces
        /\ \A j \in Pieces : DOMAIN Written(t, n)[j] = Blocks
        /\ Written(t, n) = [j \in Pieces |-> [b \in Blocks |-> Written(t, n)[j][b]]]
    BY DEF Written
  <1> QED
    BY <1>3, <1>4

-----------------------------------------------------------------------------
(* Each group of steps keeps the types.                                     *)

LEMMA InitType == Init => TypeOK
  <1> SUFFICES ASSUME Init PROVE TypeOK
    OBVIOUS
  <1>1. 0 \in Slots /\ 0 \in Pieces /\ 0 <= MAX_PEERS
    BY ConstantsAssumption DEF Slots, Pieces
  <1>2. /\ peers \in Seq(Peers) /\ Len(peers) <= MAX_PEERS
        /\ queue \in Seq(DiskTask \cup {VerifyTask})
        /\ pipe \in Seq(Result)
    BY <1>1 DEF Init
  <1>3. /\ piece_buf \in [Slots -> [Blocks -> Pieces \cup {Junk}]]
        /\ disk \in [Pieces -> [Blocks -> Pieces \cup {Junk}]]
    BY DEF Init
  <1>4. /\ outstanding \in [Peers -> SUBSET (Pieces \X Blocks)]
        /\ blocks_received \in [Peers -> SUBSET Blocks]
        /\ current_piece \in [Peers -> Pieces \cup {None}]
    BY <1>1 DEF Init
  <1> QED
    BY <1>1, <1>2, <1>3, <1>4 DEF Init, TypeOK

LEMMA PeerStepType ==
    ASSUME TypeOK, NEW p \in Peers, PeerStep(p)
    PROVE  TypeOK'
  <1> USE DEF peerVars, slabVars, fetchVars, torrentVars, taskVars, Readable
  <1>1. CASE connect_to_peer(p)
    BY <1>1 DEF TypeOK, connect_to_peer
  <1>2. CASE connection_failed(p)
    BY <1>2 DEF TypeOK, connection_failed
  <1>3. CASE on_peer_connected(p)
    <2>1. peers' \in Seq(Peers) /\ Len(peers') = Len(peers) + 1
      BY <1>3 DEF TypeOK, on_peer_connected
    <2>2. slot' \in [Peers -> Slots] /\ Len(peers') <= MAX_PEERS
      BY <1>3, <2>1, ConstantsAssumption DEF TypeOK, on_peer_connected, Slots
    <2> QED
      BY <1>3, <2>1, <2>2 DEF TypeOK, on_peer_connected
  <1>4. CASE handshake_accepted(p)
    BY <1>4 DEF TypeOK, handshake_accepted
  <1>5. CASE handshake_rejected(p)
    <2>1. PICK k \in DOMAIN peers : peers' = SwapRemove(peers, k)
      BY <1>5 DEF handshake_rejected
    <2>2. peers' \in Seq(Peers) /\ Len(peers') <= MAX_PEERS
      BY <2>1, SwapRemoveType, ConstantsAssumption DEF TypeOK
    <2> QED
      BY <1>5, <2>2 DEF TypeOK, handshake_rejected
  <1>6. ASSUME NEW B \in Announcements, receive_bitfield(p, B) PROVE TypeOK'
    BY <1>6, ConstantsAssumption DEF TypeOK, receive_bitfield
  <1>7. ASSUME NEW i \in Pieces, receive_have(p, i) PROVE TypeOK'
    BY <1>7 DEF TypeOK, receive_have
  <1>8. CASE receive_unchoke(p)
    <2>1. /\ requested' \subseteq Pieces
          /\ current_piece' \in [Peers -> Pieces \cup {None}]
          /\ blocks_received' \in [Peers -> SUBSET Blocks]
          /\ outstanding' \in [Peers -> SUBSET (Pieces \X Blocks)]
      BY <1>8, AssignType DEF TypeOK, receive_unchoke
    <2>2. unchokes' \in Nat
      BY <1>8 DEF TypeOK, receive_unchoke
    <2>3. UNCHANGED <<process, peer_state, peers, slot, peer_bitfield, piece_buf,
                      bitfield, downloaded, disk, frame, queue, worker, pipe, verified>>
      BY <1>8 DEF receive_unchoke
    <2> QED
      BY <2>1, <2>2, <2>3 DEF TypeOK
  <1>9. CASE receive_unknown(p)
    BY <1>9 DEF TypeOK, receive_unknown
  <1>10. ASSUME NEW i \in Pieces, NEW b \in Blocks, piece_discarded(p, i, b)
         PROVE  TypeOK'
    BY <1>10 DEF TypeOK, piece_discarded
  <1>11. ASSUME NEW i \in Pieces, NEW b \in Blocks,
                handle_piece(p, i, b) \/ piece_complete(p, i, b)
         PROVE  /\ piece_buf' \in [Slots -> [Blocks -> Pieces \cup {Junk}]]
                /\ blocks_received' \in [Peers -> SUBSET Blocks]
                /\ outstanding' \in [Peers -> SUBSET (Pieces \X Blocks)]
    <2>1. PICK d \in Received(i) :
             piece_buf' = [piece_buf EXCEPT ![slot[p]][b] = d]
      BY <1>11 DEF handle_piece, piece_complete
    <2>2. d \in Pieces \cup {Junk}
      <3>1. piece_buf[slot[p]][b] \in Pieces \cup {Junk}
        BY DEF TypeOK
      <3> QED
        BY <2>1, <3>1, ReceivedType
    <2>3. piece_buf' \in [Slots -> [Blocks -> Pieces \cup {Junk}]]
      BY <2>1, <2>2 DEF TypeOK
    <2>4. blocks_received' \in [Peers -> SUBSET Blocks]
      <3>1. \E bs \in SUBSET Blocks :
               blocks_received' = [blocks_received EXCEPT ![p] = bs]
        <4>1. blocks_received[p] \cup {b} \in SUBSET Blocks /\ {} \in SUBSET Blocks
          BY DEF TypeOK
        <4> QED
          BY <1>11, <4>1 DEF handle_piece, piece_complete
      <3> QED
        BY <3>1 DEF TypeOK
    <2>5. outstanding' = [outstanding EXCEPT ![p] = @ \ {<<i, b>>}]
      BY <1>11 DEF handle_piece, piece_complete
    <2>6. outstanding' \in [Peers -> SUBSET (Pieces \X Blocks)]
      BY <2>5 DEF TypeOK
    <2> QED
      BY <2>3, <2>4, <2>6
  <1>12. ASSUME NEW i \in Pieces, NEW b \in Blocks, handle_piece(p, i, b)
         PROVE  TypeOK'
    BY <1>11, <1>12 DEF TypeOK, handle_piece
  <1>13. ASSUME NEW i \in Pieces, NEW b \in Blocks, piece_complete(p, i, b)
         PROVE  TypeOK'
    <2>1. frame' \in PieceTask
      BY <1>13 DEF TypeOK, piece_complete, PieceTask
    <2>2. queue' \in Seq(DiskTask \cup {VerifyTask})
      BY <1>13 DEF TypeOK, piece_complete
    <2>3. current_piece' \in [Peers -> Pieces \cup {None}]
      BY <1>13 DEF TypeOK, piece_complete
    <2> QED
      BY <1>11, <1>13, <2>1, <2>2, <2>3 DEF TypeOK, piece_complete
  <1> QED
    BY <1>1, <1>2, <1>3, <1>4, <1>5, <1>6, <1>7, <1>8, <1>9, <1>10, <1>12, <1>13
    DEF PeerStep

LEMMA WorkerStepType ==
    ASSUME TypeOK, NEW w \in Workers, WorkerStep(w)
    PROVE  TypeOK'
  <1> USE DEF peerVars, slabVars, fetchVars, torrentVars, taskVars
  <1>1. queue # <<>> =>
          Head(queue) \in DiskTask \cup {VerifyTask} /\ Tail(queue) \in Seq(DiskTask \cup {VerifyTask})
    BY DEF TypeOK
  <1>2. worker[w].fn # "none" => worker[w].args \in PieceTask
    BY DEF TypeOK, Running, Idle
  <1>3. CASE take_verify(w)
    <2>1. frame \in PieceTask
      BY <1>3 DEF take_verify, TypeOK
    <2>2. worker' \in [Workers -> Running \cup {Idle}]
      BY <1>3, <2>1 DEF take_verify, TypeOK, Running
    <2> QED
      BY <1>1, <1>3, <2>2 DEF take_verify, TypeOK
  <1>4. CASE take_garbage(w)
    BY <1>4 DEF take_garbage, TypeOK
  <1>5. CASE take_disk(w)
    <2>1. Head(queue) \in Running
      BY <1>1, <1>5 DEF take_disk, DiskTask, VerifyTask, Running
    <2>2. worker' \in [Workers -> Running \cup {Idle}]
      BY <1>5, <2>1 DEF take_disk, TypeOK
    <2> QED
      BY <1>1, <1>5, <2>2 DEF take_disk, TypeOK
  <1>6. CASE task_sha1_verify(w)
    <2>1. worker[w].args.piece \in Pieces /\ worker[w].args.peer \in Peers
      BY <1>2, <1>6 DEF task_sha1_verify, PieceTask
    <2>2. HashMatches(worker[w].args.piece, worker[w].args.slot) \in BOOLEAN
      BY DEF HashMatches
    <2>3. pipe' \in Seq(Result)
      BY <1>6, <2>1, <2>2 DEF task_sha1_verify, TypeOK, Result
    <2>4. verified' \subseteq Pieces
      BY <1>6, <2>1 DEF task_sha1_verify, TypeOK
    <2>5. worker' \in [Workers -> Running \cup {Idle}]
      BY <1>6 DEF task_sha1_verify, TypeOK
    <2> QED
      BY <1>6, <2>3, <2>4, <2>5 DEF task_sha1_verify, TypeOK
  <1>7. ASSUME task_disk_write(w) \/ disk_write_fails(w) PROVE TypeOK'
    <2>1. worker[w].args \in PieceTask
      BY <1>2, <1>7 DEF task_disk_write, disk_write_fails
    <2>2. disk' \in [Pieces -> [Blocks -> Pieces \cup {Junk}]]
      <3>1. PICK n \in Nat : disk' = Written(worker[w].args, n)
        BY <1>7, ConstantsAssumption DEF task_disk_write, disk_write_fails, data_len
      <3> QED
        BY <2>1, <3>1, WrittenType
    <2>3. pipe' \in Seq(Result)
      <3>1. PICK ok \in BOOLEAN :
               pipe' = Append(pipe, [type |-> "NOTIFY_DISK_WRITE",
                                     peer |-> worker[w].args.peer,
                                     piece |-> worker[w].args.piece, success |-> ok])
        BY <1>7 DEF task_disk_write, disk_write_fails
      <3>2. [type |-> "NOTIFY_DISK_WRITE", peer |-> worker[w].args.peer,
             piece |-> worker[w].args.piece, success |-> ok] \in Result
        BY <2>1 DEF Result, PieceTask
      <3> QED
        BY <3>1, <3>2 DEF TypeOK
    <2>4. worker' \in [Workers -> Running \cup {Idle}]
      BY <1>7 DEF task_disk_write, disk_write_fails, TypeOK
    <2> QED
      BY <1>7, <2>2, <2>3, <2>4 DEF task_disk_write, disk_write_fails, TypeOK
  <1> QED
    BY <1>3, <1>4, <1>5, <1>6, <1>7 DEF WorkerStep

LEMMA ResultStepType ==
    ASSUME TypeOK, ResultStep
    PROVE  TypeOK'
  <1> USE DEF peerVars, slabVars, fetchVars, torrentVars, taskVars
  <1>1. pipe # <<>>
    BY DEF ResultStep, ResultIs, sha1_failed, sha1_succeeded, disk_failed, disk_succeeded
  <1>2. /\ Head(pipe) \in Result /\ Tail(pipe) \in Seq(Result)
        /\ Head(pipe).peer \in Peers /\ Head(pipe).piece \in Pieces
    <2>1. Head(pipe) \in Result /\ Tail(pipe) \in Seq(Result)
      BY <1>1 DEF TypeOK
    <2> QED
      BY <2>1 DEF Result
  <1>3. ASSUME sha1_failed \/ disk_failed \/ disk_succeeded
        PROVE  /\ requested' \subseteq Pieces
               /\ current_piece' \in [Peers -> Pieces \cup {None}]
               /\ blocks_received' \in [Peers -> SUBSET Blocks]
               /\ outstanding' \in [Peers -> SUBSET (Pieces \X Blocks)]
    <2> DEFINE p == Head(pipe).peer
    <2>1. CASE sha1_failed
      <3>1. AssignPiece(p, bitfield, requested \ {current_piece[p]})
        BY <2>1 DEF sha1_failed
      <3>2. requested \ {current_piece[p]} \in SUBSET Pieces
        BY DEF TypeOK
      <3> QED
        BY <1>2, <3>1, <3>2, AssignType
    <2>2. CASE disk_failed
      <3>1. AssignPiece(p, bitfield, requested \ {Head(pipe).piece})
        BY <2>2 DEF disk_failed
      <3>2. requested \ {Head(pipe).piece} \in SUBSET Pieces
        BY DEF TypeOK
      <3> QED
        BY <1>2, <3>1, <3>2, AssignType
    <2>3. CASE disk_succeeded
      <3>1. AssignPiece(p, bitfield \cup {Head(pipe).piece}, requested)
        BY <2>3 DEF disk_succeeded
      <3>2. requested \in SUBSET Pieces
        BY DEF TypeOK
      <3> QED
        BY <1>2, <3>1, <3>2, AssignType
    <2> QED
      BY <1>3, <2>1, <2>2, <2>3
  <1>4. CASE sha1_failed
    BY <1>2, <1>3, <1>4 DEF sha1_failed, TypeOK
  <1>5. CASE sha1_succeeded
    <2>1. queue' \in Seq(DiskTask \cup {VerifyTask})
      BY <1>2, <1>5 DEF sha1_succeeded, TypeOK, DiskTask, PieceTask
    <2> QED
      BY <1>2, <1>5, <2>1 DEF sha1_succeeded, TypeOK
  <1>6. CASE disk_failed
    BY <1>2, <1>3, <1>6 DEF disk_failed, TypeOK
  <1>7. CASE disk_succeeded
    <2>1. bitfield' \subseteq Pieces /\ downloaded' \in Nat
      BY <1>2, <1>7 DEF disk_succeeded, TypeOK
    <2>2. UNCHANGED <<process, peer_state, peers, slot, unchokes, peer_bitfield,
                      piece_buf, disk, frame, queue, worker, verified>>
      BY <1>7 DEF disk_succeeded
    <2>3. pipe' \in Seq(Result)
      BY <1>2, <1>7 DEF disk_succeeded
    <2> QED
      BY <1>3, <1>7, <2>1, <2>2, <2>3 DEF TypeOK
  <1> QED
    BY <1>4, <1>5, <1>6, <1>7 DEF ResultStep

LEMMA NextType == TypeOK /\ [Next]_vars => TypeOK'
  <1> SUFFICES ASSUME TypeOK, [Next]_vars PROVE TypeOK'
    OBVIOUS
  <1>1. CASE UNCHANGED vars
    BY <1>1 DEF TypeOK, vars, peerVars, slabVars, fetchVars, torrentVars, taskVars
  <1>2. CASE stack_reused
    BY <1>2 DEF TypeOK, stack_reused, peerVars, slabVars, fetchVars, torrentVars
  <1> QED
    BY <1>1, <1>2, PeerStepType, WorkerStepType, ResultStepType DEF Next

(* Every variable keeps its type, whatever the peers, the disk and the      *)
(* stack do.                                                                *)
THEOREM TypeCorrect == Spec => []TypeOK
  BY InitType, NextType, PTL DEF Spec

-----------------------------------------------------------------------------
(* The success of a hash check, on its way to the bitfield.                 *)

(* A queue whose new entry is harmless has only harmless entries.           *)
LEMMA AppendedEntry ==
    ASSUME NEW S, NEW seq \in Seq(S), NEW e \in S,
           NEW k \in DOMAIN Append(seq, e)
    PROVE  (k \in DOMAIN seq /\ Append(seq, e)[k] = seq[k]) \/ Append(seq, e)[k] = e
  OBVIOUS

(* The entries that stay when the head is taken are those behind it.        *)
LEMMA RemainingEntry ==
    ASSUME NEW S, NEW seq \in Seq(S), seq # <<>>, NEW k \in DOMAIN Tail(seq)
    PROVE  k + 1 \in DOMAIN seq /\ Tail(seq)[k] = seq[k + 1]
  OBVIOUS

LEMMA InitVerified == Init => HaveWasVerified
  BY DEF Init, HaveWasVerified, Idle

(* The event loop's handlers of connections and messages.                   *)
LEMMA PeerStepVerified ==
    ASSUME TypeOK, HaveWasVerified, NEW p \in Peers, PeerStep(p)
    PROVE  HaveWasVerified'
  <1> USE DEF torrentVars, taskVars
  <1>1. ASSUME UNCHANGED <<bitfield, queue, worker, pipe, verified>>
        PROVE  HaveWasVerified'
    BY <1>1 DEF HaveWasVerified
  <1>2. ASSUME NEW i \in Pieces, NEW b \in Blocks, piece_complete(p, i, b)
        PROVE  HaveWasVerified'
    <2>1. /\ UNCHANGED <<bitfield, worker, pipe, verified>>
          /\ queue' = Append(queue, VerifyTask)
      BY <1>2 DEF piece_complete
    <2>2. ASSUME NEW k \in DOMAIN queue', queue'[k].fn = "disk"
          PROVE  k \in DOMAIN queue /\ queue'[k] = queue[k]
      <3>1. VerifyTask.fn = "verify"
        BY DEF VerifyTask
      <3>2. queue \in Seq(DiskTask \cup {VerifyTask})
        BY DEF TypeOK
      <3> QED
        BY <2>1, <2>2, <3>1, <3>2, AppendedEntry
    <2> QED
      BY <2>1, <2>2 DEF HaveWasVerified
  <1>3. PeerStep(p) => \/ UNCHANGED <<bitfield, queue, worker, pipe, verified>>
                       \/ \E i \in Pieces, b \in Blocks : piece_complete(p, i, b)
    BY DEF PeerStep, connect_to_peer, connection_failed, on_peer_connected,
           handshake_accepted, handshake_rejected, receive_bitfield, receive_have,
           receive_unchoke, receive_unknown, piece_discarded, handle_piece
  <1> QED
    BY <1>1, <1>2, <1>3

(* The pool threads: only a disk task whose piece is verified is taken, and *)
(* a check that succeeds verifies its piece.                                *)
LEMMA WorkerStepVerified ==
    ASSUME TypeOK, HaveWasVerified, NEW w \in Workers, WorkerStep(w)
    PROVE  HaveWasVerified'
  <1> USE DEF torrentVars, taskVars
  <1> DEFINE Tasks == DiskTask \cup {VerifyTask}
  <1>1. queue \in Seq(Tasks) /\ pipe \in Seq(Result) /\ worker \in [Workers -> Running \cup {Idle}]
    BY DEF TypeOK
  <1>2. CASE take_verify(w) \/ take_disk(w)
    <2>1. UNCHANGED <<bitfield, pipe, verified>> /\ queue # <<>> /\ queue' = Tail(queue)
      BY <1>2 DEF take_verify, take_disk
    <2>2. \A k \in DOMAIN queue' : queue'[k].fn = "disk" => queue'[k].args.piece \in verified
      BY <1>1, <2>1, RemainingEntry DEF HaveWasVerified
    <2>3. worker'[w].fn = "disk" => worker'[w].args.piece \in verified
      <3>1. CASE take_verify(w)
        BY <1>1, <3>1 DEF take_verify
      <3>2. CASE take_disk(w)
        <4>1. Head(queue) = queue[1] /\ 1 \in DOMAIN queue
          BY <1>1, <2>1
        <4>2. worker'[w] = Head(queue) /\ Head(queue).fn = "disk"
          BY <1>1, <3>2 DEF take_disk
        <4> QED
          BY <4>1, <4>2 DEF HaveWasVerified
      <3> QED
        BY <1>2, <3>1, <3>2
    <2>4. \A v \in Workers : v # w => worker'[v] = worker[v]
      BY <1>1, <1>2 DEF take_verify, take_disk
    <2> QED
      BY <2>1, <2>2, <2>3, <2>4 DEF HaveWasVerified
  <1>3. CASE take_garbage(w)
    BY <1>3 DEF take_garbage, HaveWasVerified
  <1>4. ASSUME NEW r \in Result, pipe' = Append(pipe, r),
               verified \subseteq verified', r.success => r.piece \in verified',
               worker' = [worker EXCEPT ![w] = Idle], UNCHANGED <<bitfield, queue>>
        PROVE  HaveWasVerified'
    <2>1. \A k \in DOMAIN pipe' : pipe'[k].success => pipe'[k].piece \in verified'
      <3> SUFFICES ASSUME NEW k \in DOMAIN pipe', pipe'[k].success
                   PROVE  pipe'[k].piece \in verified'
        OBVIOUS
      <3>1. (k \in DOMAIN pipe /\ pipe'[k] = pipe[k]) \/ pipe'[k] = r
        BY <1>1, <1>4, AppendedEntry
      <3> QED
        BY <1>4, <3>1 DEF HaveWasVerified
    <2>2. \A v \in Workers : worker'[v].fn = "disk" => worker'[v] = worker[v]
      BY <1>1, <1>4 DEF Idle
    <2> QED
      BY <1>4, <2>1, <2>2 DEF HaveWasVerified
  <1>5. worker[w].fn # "none" => worker[w].args.piece \in Pieces /\ worker[w].args.peer \in Peers
    BY <1>1 DEF Running, PieceTask, Idle
  <1>6. CASE task_sha1_verify(w)
    <2> DEFINE ok == HashMatches(worker[w].args.piece, worker[w].args.slot)
               r == [type |-> "NOTIFY_SHA1_VERIFY", peer |-> worker[w].args.peer,
                     piece |-> worker[w].args.piece, success |-> ok]
    <2>1. ok \in BOOLEAN
      BY DEF HashMatches
    <2>2. worker[w].fn # "none"
      BY <1>6 DEF task_sha1_verify
    <2> HIDE DEF ok
    <2>3. r \in Result
      BY <1>5, <2>1, <2>2 DEF Result
    <2>4. /\ pipe' = Append(pipe, r)
          /\ verified' = IF ok THEN verified \cup {worker[w].args.piece} ELSE verified
          /\ worker' = [worker EXCEPT ![w] = Idle]
          /\ UNCHANGED <<bitfield, queue>>
      BY <1>6 DEF task_sha1_verify, ok
    <2> QED
      BY <1>4, <2>3, <2>4
  <1>7. CASE task_disk_write(w) \/ disk_write_fails(w)
    <2>1. PICK ok \in BOOLEAN :
             pipe' = Append(pipe, [type |-> "NOTIFY_DISK_WRITE",
                                   peer |-> worker[w].args.peer,
                                   piece |-> worker[w].args.piece, success |-> ok])
      BY <1>7 DEF task_disk_write, disk_write_fails
    <2> DEFINE r == [type |-> "NOTIFY_DISK_WRITE", peer |-> worker[w].args.peer,
                     piece |-> worker[w].args.piece, success |-> ok]
    <2>2. /\ worker[w].fn = "disk"
          /\ worker' = [worker EXCEPT ![w] = Idle]
          /\ UNCHANGED <<bitfield, queue, verified>>
      BY <1>7 DEF task_disk_write, disk_write_fails
    <2>3. r \in Result
      BY <1>5, <2>2 DEF Result
    <2>4. worker[w].args.piece \in verified
      BY <2>2 DEF HaveWasVerified
    <2> QED
      BY <1>4, <2>1, <2>2, <2>3, <2>4
  <1> QED
    BY <1>2, <1>3, <1>6, <1>7 DEF WorkerStep

(* The event loop's handlers of results: a disk task is pushed only after a *)
(* successful check, a piece is claimed only after its write.               *)
LEMMA ResultStepVerified ==
    ASSUME TypeOK, HaveWasVerified, ResultStep
    PROVE  HaveWasVerified'
  <1> USE DEF torrentVars, taskVars
  <1> DEFINE r == Head(pipe)
  <1>1. queue \in Seq(DiskTask \cup {VerifyTask}) /\ pipe \in Seq(Result)
    BY DEF TypeOK
  <1>2. pipe # <<>> /\ pipe' = Tail(pipe) /\ UNCHANGED <<worker, verified>>
    BY DEF ResultStep, ResultIs, sha1_failed, sha1_succeeded, disk_failed, disk_succeeded
  <1>3. r.success => r.piece \in verified
    BY <1>1, <1>2 DEF HaveWasVerified
  <1>4. \A k \in DOMAIN pipe' : pipe'[k].success => pipe'[k].piece \in verified'
    BY <1>1, <1>2, RemainingEntry DEF HaveWasVerified
  <1>5. CASE sha1_failed \/ disk_failed
    BY <1>2, <1>4, <1>5 DEF sha1_failed, disk_failed, HaveWasVerified
  <1>6. CASE sha1_succeeded
    <2> DEFINE t == [fn |-> "disk",
                     args |-> [peer |-> r.peer, piece |-> r.piece, slot |-> slot[r.peer]]]
    <2>1. queue' = Append(queue, t) /\ bitfield' = bitfield /\ r.success
      BY <1>6 DEF sha1_succeeded, ResultIs
    <2>2. t \in DiskTask
      <3>1. r \in Result
        BY <1>1, <1>2
      <3>2. r.peer \in Peers /\ r.piece \in Pieces
        BY <3>1 DEF Result
      <3>3. slot[r.peer] \in Slots
        BY <3>2 DEF TypeOK
      <3> QED
        BY <3>2, <3>3 DEF DiskTask, PieceTask
    <2>3. \A k \in DOMAIN queue' : queue'[k].fn = "disk" => queue'[k].args.piece \in verified'
      <3> SUFFICES ASSUME NEW k \in DOMAIN queue', queue'[k].fn = "disk"
                   PROVE  queue'[k].args.piece \in verified'
        OBVIOUS
      <3>1. (k \in DOMAIN queue /\ queue'[k] = queue[k]) \/ queue'[k] = t
        BY <1>1, <2>1, <2>2, AppendedEntry
      <3> QED
        BY <1>2, <1>3, <2>1, <3>1 DEF HaveWasVerified
    <2> QED
      BY <1>2, <1>4, <2>1, <2>3 DEF HaveWasVerified
  <1>7. CASE disk_succeeded
    <2>1. bitfield' = bitfield \cup {r.piece} /\ queue' = queue /\ r.success
      BY <1>7 DEF disk_succeeded, ResultIs
    <2> QED
      BY <1>2, <1>3, <1>4, <2>1 DEF HaveWasVerified
  <1> QED
    BY <1>5, <1>6, <1>7 DEF ResultStep

LEMMA NextVerified == TypeOK /\ HaveWasVerified /\ [Next]_vars => HaveWasVerified'
  <1> SUFFICES ASSUME TypeOK, HaveWasVerified, [Next]_vars PROVE HaveWasVerified'
    OBVIOUS
  <1>1. CASE UNCHANGED vars \/ stack_reused
    BY <1>1 DEF HaveWasVerified, stack_reused, vars, torrentVars, taskVars
  <1> QED
    BY <1>1, PeerStepVerified, WorkerStepVerified, ResultStepVerified DEF Next

(* No piece is written, reported as written or claimed before its hash      *)
(* check has succeeded, however peers, threads and results interleave and   *)
(* whatever slabs are shared and frames are overwritten.                    *)
THEOREM HaveOnlyVerified == Spec => []HaveWasVerified
  <1>1. Init => HaveWasVerified
    BY InitVerified
  <1>2. TypeOK /\ HaveWasVerified /\ [Next]_vars => HaveWasVerified'
    BY NextVerified
  <1> QED
    BY <1>1, <1>2, TypeCorrect, PTL DEF Spec

-----------------------------------------------------------------------------
(* How a piece is abandoned                                                 *)

(* All work is that of connected peers, which stay connected: only they     *)
(* fetch, and the frame, the tasks and the results name nobody else.        *)
Connected(p) == peer_state[p] = "CONNECTED"

ConnectedInv ==
    /\ \A p \in Peers : ~Connected(p) =>
          /\ outstanding[p] = {} /\ blocks_received[p] = {}
          /\ current_piece[p] \in {0, None}
    /\ frame # NoFrame => Connected(frame.peer)
    /\ \A k \in DOMAIN queue : queue[k].fn = "disk" => Connected(queue[k].args.peer)
    /\ \A w \in Workers : worker[w].fn # "none" => Connected(worker[w].args.peer)
    /\ \A k \in DOMAIN pipe : Connected(pipe[k].peer)

(* A torrent of one piece of full length: the peer that is assigned it waits *)
(* for ever.                                                                *)
EmptyInv ==
    BlocksOf(0) = {} /\ 0 \in requested =>
        \E p \in Peers : Connected(p) /\ current_piece[p] = 0

AbandonInv == TypeOK /\ ConnectedInv /\ EmptyInv

QueuedFor(k, i) == IF queue[k].fn = "disk" THEN queue[k].args.piece = i ELSE frame.piece = i

AtWork(i) ==
    \/ \E p \in Peers : Fetches(p, i)
    \/ \E k \in DOMAIN queue : QueuedFor(k, i)
    \/ \E w \in Workers : worker[w].fn # "none" /\ worker[w].args.piece = i
    \/ \E k \in DOMAIN pipe : pipe[k].piece = i

LEMMA StagesOfWork == \A i : Stages(i) # {} <=> AtWork(i)
  <1> TAKE i
  <1> DEFINE F == {<<"peer", p>> : p \in {q \in Peers : Fetches(q, i)}}
             Q == {<<"queue", k>> : k \in {j \in DOMAIN queue :
                      IF queue[j].fn = "disk" THEN queue[j].args.piece = i ELSE frame.piece = i}}
             W == {<<"worker", w>> : w \in {v \in Workers :
                      worker[v].fn # "none" /\ worker[v].args.piece = i}}
             R == {<<"pipe", k>> : k \in {j \in DOMAIN pipe : pipe[j].piece = i}}
  <1>1. Stages(i) = F \cup Q \cup W \cup R
    BY DEF Stages
  <1>2. F # {} <=> \E p \in Peers : Fetches(p, i)
    OBVIOUS
  <1>3. Q # {} <=> \E k \in DOMAIN queue : QueuedFor(k, i)
    BY DEF QueuedFor
  <1>4. W # {} <=> \E w \in Workers : worker[w].fn # "none" /\ worker[w].args.piece = i
    OBVIOUS
  <1>5. R # {} <=> \E k \in DOMAIN pipe : pipe[k].piece = i
    OBVIOUS
  <1> HIDE DEF F, Q, W, R
  <1> QED
    BY <1>1, <1>2, <1>3, <1>4, <1>5 DEF AtWork

(* What assign_piece_to_peer changes.                                       *)
LEMMA Assigned ==
    ASSUME TypeOK, NEW p \in Peers, NEW have, NEW asked, AssignPiece(p, have, asked)
    PROVE  /\ \A q \in Peers \ {p} : /\ current_piece'[q] = current_piece[q]
                                     /\ blocks_received'[q] = blocks_received[q]
                                     /\ outstanding'[q] = outstanding[q]
           /\ \/ requested' = asked /\ UNCHANGED fetchVars
              \/ \E i \in Pieces :
                    /\ i \notin have /\ i \notin asked /\ requested' = asked \cup {i}
                    /\ current_piece'[p] = i /\ blocks_received'[p] = {}
                    /\ outstanding'[p] = outstanding[p] \cup ({i} \X BlocksOf(i))
  <1> DEFINE free == {i \in peer_bitfield[slot[p]] : i \notin have /\ i \notin asked}
  <1>1. free \subseteq Pieces
    BY DEF TypeOK
  <1>2. CASE requested' = asked /\ UNCHANGED fetchVars
    BY <1>2 DEF fetchVars
  <1>3. ASSUME NEW i \in free,
               requested' = asked \cup {i},
               current_piece' = [current_piece EXCEPT ![p] = i],
               blocks_received' = [blocks_received EXCEPT ![p] = {}],
               outstanding' = [outstanding EXCEPT ![p] = @ \cup ({i} \X BlocksOf(i))]
        PROVE  /\ \A q \in Peers \ {p} : /\ current_piece'[q] = current_piece[q]
                                         /\ blocks_received'[q] = blocks_received[q]
                                         /\ outstanding'[q] = outstanding[q]
               /\ i \in Pieces /\ i \notin have /\ i \notin asked
               /\ current_piece'[p] = i /\ blocks_received'[p] = {}
               /\ outstanding'[p] = outstanding[p] \cup ({i} \X BlocksOf(i))
    BY <1>1, <1>3 DEF TypeOK
  <1>4. \/ requested' = asked /\ UNCHANGED fetchVars
        \/ \E i \in free :
              /\ requested' = asked \cup {i}
              /\ current_piece' = [current_piece EXCEPT ![p] = i]
              /\ blocks_received' = [blocks_received EXCEPT ![p] = {}]
              /\ outstanding' = [outstanding EXCEPT ![p] = @ \cup ({i} \X BlocksOf(i))]
    BY DEF AssignPiece
  <1> HIDE DEF free
  <1> QED
    BY <1>2, <1>3, <1>4

(* The handlers that assign a piece: to a connected peer, and of the pieces  *)
(* asked for only the one whose result is read, or that its peer fetches,   *)
(* may be given back.                                                       *)
LEMMA Assigners ==
    ASSUME TypeOK, ConnectedInv, NEW p \in Peers, receive_unchoke(p)
    PROVE  Connected(p) /\ AssignPiece(p, bitfield, requested)
  BY DEF receive_unchoke, Readable, Connected

LEMMA ResultReaders ==
    ASSUME TypeOK, ConnectedInv, ResultStep
    PROVE  /\ 1 \in DOMAIN pipe /\ pipe' = Tail(pipe) /\ Head(pipe) = pipe[1]
           /\ pipe[1].peer \in Peers /\ pipe[1].piece \in Pieces /\ Connected(pipe[1].peer)
           /\ UNCHANGED <<process, peerVars, slabVars, disk, frame, worker, verified>>
           /\ \/ sha1_failed /\ UNCHANGED <<queue, bitfield, downloaded>>
                 /\ AssignPiece(pipe[1].peer, bitfield, requested \ {current_piece[pipe[1].peer]})
              \/ sha1_succeeded /\ UNCHANGED <<fetchVars, torrentVars>>
              \/ disk_failed /\ UNCHANGED <<queue, bitfield, downloaded>>
                 /\ AssignPiece(pipe[1].peer, bitfield, requested \ {pipe[1].piece})
              \/ disk_succeeded /\ UNCHANGED queue
                 /\ bitfield' = bitfield \cup {pipe[1].piece} /\ downloaded' = downloaded + 1
                 /\ AssignPiece(pipe[1].peer, bitfield', requested)
  <1>1. pipe \in Seq(Result) /\ pipe # <<>> /\ pipe' = Tail(pipe)
    BY DEF TypeOK, ResultStep, ResultIs, sha1_failed, sha1_succeeded, disk_failed, disk_succeeded
  <1>2. 1 \in DOMAIN pipe /\ Head(pipe) = pipe[1] /\ pipe[1] \in Result
    BY <1>1
  <1>3. pipe[1].peer \in Peers /\ pipe[1].piece \in Pieces
    BY <1>2 DEF Result
  <1>4. Connected(pipe[1].peer)
    BY <1>2 DEF ConnectedInv
  <1> QED
    BY <1>1, <1>2, <1>3, <1>4 DEF ResultStep, sha1_failed, sha1_succeeded, disk_failed,
       disk_succeeded, torrentVars

(* A peer stays connected.                                                  *)
LEMMA StaysConnected ==
    ASSUME TypeOK, [Next]_vars, NEW p \in Peers, Connected(p)
    PROVE  Connected(p)'
  <1> USE DEF peerVars, Connected
  <1>1. ASSUME NEW q \in Peers, PeerStep(q) PROVE Connected(p)'
    BY <1>1 DEF TypeOK, PeerStep, connect_to_peer, connection_failed, on_peer_connected,
       handshake_accepted, handshake_rejected, receive_bitfield, receive_have,
       receive_unchoke, receive_unknown, piece_discarded, handle_piece, piece_complete
  <1>2. ASSUME NEW w \in Workers, WorkerStep(w) PROVE Connected(p)'
    BY <1>2 DEF WorkerStep, take_verify, take_garbage, take_disk, task_sha1_verify,
       task_disk_write, disk_write_fails
  <1>3. CASE ResultStep \/ stack_reused \/ UNCHANGED vars
    BY <1>3 DEF ResultStep, sha1_failed, sha1_succeeded, disk_failed, disk_succeeded,
       stack_reused, vars
  <1> QED
    BY <1>1, <1>2, <1>3 DEF Next

(* A pool thread takes the first task, or reports the one it runs.          *)
Takes(w) ==
    /\ queue # <<>> /\ worker[w] = Idle /\ queue' = Tail(queue)
    /\ UNCHANGED <<fetchVars, torrentVars, frame, pipe>>
    /\ \E t \in PieceTask, fn \in {"verify", "disk"} :
          /\ worker' = [worker EXCEPT ![w] = [fn |-> fn, args |-> t]]
          /\ IF queue[1].fn = "disk" THEN queue[1].args = t ELSE frame = t

Reports(w) ==
    /\ worker[w].fn # "none"
    /\ UNCHANGED <<fetchVars, torrentVars, frame, queue>>
    /\ worker' = [worker EXCEPT ![w] = Idle]
    /\ \E r \in Result : /\ pipe' = Append(pipe, r)
                         /\ r.peer = worker[w].args.peer /\ r.piece = worker[w].args.piece

LEMMA WorkerSteps ==
    ASSUME TypeOK, NEW w \in Workers, WorkerStep(w)
    PROVE  Takes(w) \/ Reports(w) \/ UNCHANGED <<fetchVars, torrentVars, taskVars>>
  <1>1. queue # <<>> => Head(queue) = queue[1] /\ queue[1] \in DiskTask \cup {VerifyTask}
    BY DEF TypeOK
  <1>2. worker[w].fn # "none" => worker[w].args \in PieceTask
    BY DEF TypeOK, Running, Idle
  <1>3. CASE take_verify(w)
    <2>1. frame \in PieceTask
      BY <1>3 DEF take_verify, TypeOK
    <2>2. queue[1].fn # "disk"
      BY <1>1, <1>3 DEF take_verify
    <2> QED
      BY <1>3, <2>1, <2>2 DEF take_verify, Takes
  <1>4. CASE take_disk(w)
    <2>1. Head(queue) = queue[1] /\ queue[1].fn = "disk"
      BY <1>1, <1>4 DEF take_disk
    <2>2. queue[1].args \in PieceTask /\ queue[1] = [fn |-> "disk", args |-> queue[1].args]
      BY <1>1, <1>4, <2>1 DEF take_disk, DiskTask, VerifyTask
    <2> QED
      BY <1>4, <2>1, <2>2 DEF take_disk, Takes
  <1>5. CASE take_garbage(w)
    BY <1>5 DEF take_garbage
  <1>6. ASSUME NEW ty \in {"NOTIFY_SHA1_VERIFY", "NOTIFY_DISK_WRITE"}, NEW ok \in BOOLEAN,
               worker[w].fn # "none"
        PROVE  [type |-> ty, peer |-> worker[w].args.peer,
                piece |-> worker[w].args.piece, success |-> ok] \in Result
    BY <1>2, <1>6 DEF Result, PieceTask
  <1>7. CASE task_sha1_verify(w)
    <2>1. PICK ok \in BOOLEAN :
             pipe' = Append(pipe, [type |-> "NOTIFY_SHA1_VERIFY", peer |-> worker[w].args.peer,
                                   piece |-> worker[w].args.piece, success |-> ok])
      BY <1>7 DEF task_sha1_verify, HashMatches
    <2>2. worker[w].fn # "none"
      BY <1>7 DEF task_sha1_verify
    <2> QED
      BY <1>6, <1>7, <2>1, <2>2 DEF task_sha1_verify, Reports
  <1>8. CASE task_disk_write(w) \/ disk_write_fails(w)
    <2>1. PICK ok \in BOOLEAN :
             pipe' = Append(pipe, [type |-> "NOTIFY_DISK_WRITE", peer |-> worker[w].args.peer,
                                   piece |-> worker[w].args.piece, success |-> ok])
      BY <1>8 DEF task_disk_write, disk_write_fails
    <2>2. worker[w].fn # "none"
      BY <1>8 DEF task_disk_write, disk_write_fails
    <2> QED
      BY <1>6, <1>8, <2>1, <2>2 DEF task_disk_write, disk_write_fails, Reports
  <1> QED
    BY <1>3, <1>4, <1>5, <1>7, <1>8 DEF WorkerStep

(* A peer that is not connected fetches nothing and starts nothing.         *)
LEMMA OthersRest ==
    ASSUME TypeOK, ConnectedInv, [Next]_vars, NEW p \in Peers, ~Connected(p)'
    PROVE  /\ outstanding'[p] = {} /\ blocks_received'[p] = {}
           /\ current_piece'[p] \in {0, None}
  <1> DEFINE Rests == /\ outstanding'[p] = {} /\ blocks_received'[p] = {}
                      /\ current_piece'[p] \in {0, None}
  <1>1. ~Connected(p)
    BY StaysConnected
  <1>2. outstanding[p] = {} /\ blocks_received[p] = {} /\ current_piece[p] \in {0, None}
    BY <1>1 DEF ConnectedInv
  <1>3. ASSUME UNCHANGED fetchVars PROVE Rests
    BY <1>2, <1>3 DEF fetchVars
  <1>4. ASSUME NEW q \in Peers, Connected(q), NEW have, NEW asked, AssignPiece(q, have, asked)
        PROVE  Rests
    <2>1. p \in Peers \ {q}
      BY <1>1, <1>4
    <2> QED
      BY <1>2, <1>4, <2>1, Assigned
  <1>5. ASSUME NEW q \in Peers, PeerStep(q) PROVE Rests
    <2>1. CASE UNCHANGED fetchVars
      BY <1>3, <2>1
    <2>2. CASE receive_unchoke(q)
      BY <1>4, <2>2, Assigners
    <2>3. CASE handshake_rejected(q)
      BY <1>2, <2>3 DEF handshake_rejected, TypeOK
    <2>4. ASSUME NEW i \in Pieces, NEW b \in Blocks,
                 piece_discarded(q, i, b) \/ handle_piece(q, i, b) \/ piece_complete(q, i, b)
          PROVE  Rests
      <3>1. q # p
        BY <1>1, <2>4 DEF piece_discarded, handle_piece, piece_complete, Readable, Connected
      <3> QED
        BY <1>2, <2>4, <3>1 DEF piece_discarded, handle_piece, piece_complete, TypeOK
    <2> QED
      BY <1>5, <2>1, <2>2, <2>3, <2>4 DEF PeerStep, connect_to_peer, connection_failed,
         on_peer_connected, handshake_accepted, receive_bitfield, receive_have, receive_unknown
  <1>6. ASSUME NEW w \in Workers, WorkerStep(w) PROVE Rests
    <2>1. UNCHANGED fetchVars
      BY <1>6, WorkerSteps DEF Takes, Reports
    <2> QED
      BY <1>3, <2>1
  <1>7. CASE ResultStep
    <2> DEFINE q == pipe[1].peer
    <2>1. q \in Peers /\ Connected(q)
      BY <1>7, ResultReaders
    <2>2. \/ AssignPiece(q, bitfield, requested \ {current_piece[q]})
          \/ AssignPiece(q, bitfield, requested \ {pipe[1].piece})
          \/ AssignPiece(q, bitfield', requested)
          \/ UNCHANGED fetchVars
      BY <1>7, ResultReaders
    <2> HIDE DEF q
    <2> QED
      BY <1>3, <1>4, <2>1, <2>2
  <1>8. CASE stack_reused \/ UNCHANGED vars
    BY <1>3, <1>8 DEF stack_reused, vars
  <1> QED
    BY <1>5, <1>6, <1>7, <1>8 DEF Next

(* The frame, the tasks and the results are those of connected peers.       *)
LEMMA NextConnected ==
    ASSUME TypeOK, ConnectedInv, [Next]_vars
    PROVE  ConnectedInv'
  <1> DEFINE On(p) == peer_state[p] = "CONNECTED"
  <1>1. \A p \in Peers : On(p) => peer_state'[p] = "CONNECTED"
    BY StaysConnected DEF Connected
  <1> DEFINE Q == \A k \in DOMAIN queue' : queue'[k].fn = "disk" => queue'[k].args.peer \in Peers /\ On(queue'[k].args.peer)
             W == \A w \in Workers : worker'[w].fn # "none" => worker'[w].args.peer \in Peers /\ On(worker'[w].args.peer)
             R == \A k \in DOMAIN pipe' : pipe'[k].peer \in Peers /\ On(pipe'[k].peer)
             F == frame' # NoFrame => frame'.peer \in Peers /\ On(frame'.peer)
  <1>2. SUFFICES F /\ Q /\ W /\ R
    <2>1. \A p \in Peers : ~(peer_state'[p] = "CONNECTED") =>
             /\ outstanding'[p] = {} /\ blocks_received'[p] = {}
             /\ current_piece'[p] \in {0, None}
      BY OthersRest DEF Connected
    <2>2. frame' # NoFrame => peer_state'[frame'.peer] = "CONNECTED"
      BY <1>1
    <2>3. \A k \in DOMAIN queue' : queue'[k].fn = "disk" => peer_state'[queue'[k].args.peer] = "CONNECTED"
      BY <1>1
    <2>4. \A w \in Workers : worker'[w].fn # "none" => peer_state'[worker'[w].args.peer] = "CONNECTED"
      BY <1>1
    <2>5. \A k \in DOMAIN pipe' : peer_state'[pipe'[k].peer] = "CONNECTED"
      BY <1>1
    <2> HIDE DEF F, Q, W, R
    <2> QED
      BY <2>1, <2>2, <2>3, <2>4, <2>5 DEF ConnectedInv, Connected
  <1>3. /\ queue \in Seq(DiskTask \cup {VerifyTask}) /\ pipe \in Seq(Result)
        /\ worker \in [Workers -> Running \cup {Idle}] /\ frame \in PieceTask \cup {NoFrame}
    BY DEF TypeOK
  <1>4. /\ \A k \in DOMAIN queue : queue[k].fn = "disk" => queue[k].args.peer \in Peers /\ On(queue[k].args.peer)
        /\ \A w \in Workers : worker[w].fn # "none" => worker[w].args.peer \in Peers /\ On(worker[w].args.peer)
        /\ \A k \in DOMAIN pipe : pipe[k].peer \in Peers /\ On(pipe[k].peer)
        /\ frame # NoFrame => frame.peer \in Peers /\ On(frame.peer)
    <2>1. \A t \in PieceTask : t.peer \in Peers
      BY DEF PieceTask
    <2>2. \A k \in DOMAIN queue : queue[k].fn = "disk" => queue[k].args \in PieceTask
      BY <1>3 DEF DiskTask, VerifyTask
    <2>3. \A w \in Workers : worker[w].fn # "none" => worker[w].args \in PieceTask
      BY <1>3 DEF Running, Idle
    <2>4. \A k \in DOMAIN pipe : pipe[k].peer \in Peers
      <3>1. \A k \in DOMAIN pipe : pipe[k] \in Result
        BY <1>3
      <3> QED
        BY <3>1 DEF Result
    <2> QED
      BY <1>3, <2>1, <2>2, <2>3, <2>4 DEF ConnectedInv, Connected
  <1> HIDE DEF On
  <1>5. ASSUME UNCHANGED taskVars PROVE F /\ Q /\ W /\ R
    BY <1>4, <1>5 DEF taskVars
  <1>6. ASSUME NEW p \in Peers, PeerStep(p) PROVE F /\ Q /\ W /\ R
    <2>1. CASE UNCHANGED taskVars
      BY <1>5, <2>1
    <2>2. ASSUME NEW i \in Pieces, NEW b \in Blocks, piece_complete(p, i, b)
          PROVE  F /\ Q /\ W /\ R
      <3>1. /\ On(p) /\ frame' = [peer |-> p, piece |-> i, slot |-> slot[p]]
            /\ queue' = Append(queue, VerifyTask) /\ UNCHANGED <<worker, pipe>>
        BY <2>2 DEF piece_complete, Readable, On
      <3>2. \A k \in DOMAIN queue' : (k \in DOMAIN queue /\ queue'[k] = queue[k]) \/ queue'[k] = VerifyTask
        BY <1>3, <3>1, AppendedEntry
      <3>3. Q
        BY <1>4, <3>2 DEF VerifyTask
      <3> QED
        BY <1>4, <3>1, <3>3
    <2> QED
      BY <1>6, <2>1, <2>2 DEF PeerStep, connect_to_peer, connection_failed, on_peer_connected,
         handshake_accepted, handshake_rejected, receive_bitfield, receive_have,
         receive_unchoke, receive_unknown, piece_discarded, handle_piece
  <1>7. ASSUME NEW w \in Workers, WorkerStep(w) PROVE F /\ Q /\ W /\ R
    <2>1. CASE Takes(w)
      <3>1. PICK t \in PieceTask, fn \in {"verify", "disk"} :
               /\ worker' = [worker EXCEPT ![w] = [fn |-> fn, args |-> t]]
               /\ IF queue[1].fn = "disk" THEN queue[1].args = t ELSE frame = t
        BY <2>1 DEF Takes
      <3>2. queue # <<>> /\ queue' = Tail(queue) /\ UNCHANGED <<frame, pipe>>
        BY <2>1 DEF Takes
      <3>3. t.peer \in Peers /\ On(t.peer)
        <4>1. 1 \in DOMAIN queue /\ t # NoFrame
          BY <1>3, <3>2, FrameDistinct
        <4> QED
          BY <1>4, <3>1, <4>1
      <3>4. Q
        BY <1>3, <1>4, <3>2, RemainingEntry
      <3>5. W
        BY <1>3, <1>4, <3>1, <3>3
      <3> QED
        BY <1>4, <3>2, <3>4, <3>5
    <2>2. CASE Reports(w)
      <3>1. PICK r \in Result : /\ pipe' = Append(pipe, r)
                                /\ r.peer = worker[w].args.peer /\ r.piece = worker[w].args.piece
        BY <2>2 DEF Reports
      <3>2. /\ worker[w].fn # "none" /\ worker' = [worker EXCEPT ![w] = Idle]
            /\ UNCHANGED <<frame, queue>>
        BY <2>2 DEF Reports
      <3>3. R
        BY <1>3, <1>4, <3>1, <3>2, AppendedEntry
      <3>4. W
        BY <1>3, <1>4, <3>2 DEF Idle
      <3> QED
        BY <1>4, <3>2, <3>3, <3>4
    <2>3. CASE UNCHANGED taskVars
      BY <1>5, <2>3
    <2> QED
      BY <1>7, <2>1, <2>2, <2>3, WorkerSteps
  <1>8. CASE ResultStep
    <2>1. /\ 1 \in DOMAIN pipe /\ pipe' = Tail(pipe) /\ pipe[1].peer \in Peers
          /\ UNCHANGED <<frame, worker>>
      BY <1>8, ResultReaders
    <2>2. R
      BY <1>3, <1>4, <2>1, RemainingEntry
    <2>3. Q
      <3>1. CASE UNCHANGED queue
        BY <1>4, <3>1
      <3>2. CASE sha1_succeeded
        <4>1. PICK t \in DiskTask : queue' = Append(queue, t) /\ t.args.peer = pipe[1].peer
          <5>1. Head(pipe) = pipe[1] /\ pipe[1].piece \in Pieces /\ slot[pipe[1].peer] \in Slots
            BY <1>8, <2>1, ResultReaders DEF TypeOK
          <5> QED
            BY <2>1, <3>2, <5>1 DEF sha1_succeeded, DiskTask, PieceTask
        <4>2. \A k \in DOMAIN queue' : (k \in DOMAIN queue /\ queue'[k] = queue[k]) \/ queue'[k] = t
          BY <1>3, <4>1, AppendedEntry
        <4> QED
          BY <1>4, <2>1, <4>1, <4>2
      <3> QED
        BY <1>8, <3>1, <3>2, ResultReaders
    <2> QED
      BY <1>4, <2>1, <2>2, <2>3
  <1>9. CASE stack_reused
    BY <1>4, <1>9 DEF stack_reused
  <1>10. CASE UNCHANGED vars
    BY <1>5, <1>10 DEF vars
  <1> QED
    BY <1>6, <1>7, <1>8, <1>9, <1>10 DEF Next

(* A piece without blocks is the only piece.                                *)
LEMMA OnlyPiece == BlocksOf(0) = {} => Pieces = {0}
  <1> SUFFICES ASSUME BlocksOf(0) = {} PROVE Pieces = {0}
    OBVIOUS
  <1>1. 0 \in Blocks
    BY ConstantsAssumption DEF Blocks
  <1>2. 0 = PiecesCount - 1
    BY <1>1 DEF BlocksOf
  <1> QED
    BY <1>2, ConstantsAssumption DEF Pieces

LEMMA NextEmpty ==
    ASSUME TypeOK, ConnectedInv, EmptyInv, [Next]_vars
    PROVE  EmptyInv'
  <1> SUFFICES ASSUME BlocksOf(0) = {}, 0 \in requested'
               PROVE  \E p \in Peers : Connected(p)' /\ current_piece'[p] = 0
    BY DEF EmptyInv, BlocksOf, Blocks
  <1> DEFINE Waits == \E p \in Peers : Connected(p)' /\ current_piece'[p] = 0
  <1>1. Pieces = {0}
    BY OnlyPiece
  <1>2. ASSUME NEW q \in Peers, Connected(q), NEW have, NEW asked,
               AssignPiece(q, have, asked), 0 \in asked => 0 \in requested
        PROVE  Waits
    <2>1. Connected(q)'
      BY <1>2, StaysConnected
    <2>2. CASE \E i \in Pieces : current_piece'[q] = i
      BY <1>1, <2>1, <2>2
    <2>3. CASE requested' = asked /\ UNCHANGED fetchVars
      <3>1. PICK p \in Peers : Connected(p) /\ current_piece[p] = 0
        BY <1>2, <2>3 DEF EmptyInv
      <3>2. Connected(p)'
        BY <3>1, StaysConnected
      <3> QED
        BY <2>3, <3>1, <3>2 DEF fetchVars
    <2> QED
      BY <1>2, <2>2, <2>3, Assigned
  <1>3. ASSUME requested' = requested,
               \A p \in Peers : Connected(p) /\ current_piece[p] = 0 => current_piece'[p] = 0
        PROVE  Waits
    <2>1. PICK p \in Peers : Connected(p) /\ current_piece[p] = 0
      BY <1>3 DEF EmptyInv
    <2> QED
      BY <1>3, <2>1, StaysConnected
  <1>4. ASSUME UNCHANGED <<fetchVars, torrentVars>> PROVE Waits
    BY <1>3, <1>4 DEF fetchVars, torrentVars
  <1>5. ASSUME NEW p \in Peers, PeerStep(p) PROVE Waits
    <2>1. CASE UNCHANGED <<fetchVars, torrentVars>>
      BY <1>4, <2>1
    <2>2. CASE receive_unchoke(p)
      BY <1>2, <2>2, Assigners
    <2>3. CASE handshake_rejected(p)
      <3>1. ~Connected(p) /\ requested' = requested
        BY <2>3 DEF handshake_rejected, Connected, torrentVars
      <3>2. \A q \in Peers : q # p => current_piece'[q] = current_piece[q]
        BY <2>3 DEF handshake_rejected, TypeOK
      <3> QED
        BY <1>3, <3>1, <3>2
    <2>4. ASSUME NEW i \in Pieces, NEW b \in Blocks,
                 piece_discarded(p, i, b) \/ handle_piece(p, i, b) \/ piece_complete(p, i, b)
          PROVE  Waits
      <3>1. ~piece_complete(p, i, b)
        BY <1>1 DEF piece_complete
      <3>2. requested' = requested /\ current_piece' = current_piece
        BY <2>4, <3>1 DEF piece_discarded, handle_piece, torrentVars
      <3> QED
        BY <1>3, <3>2
    <2> QED
      BY <1>5, <2>1, <2>2, <2>3, <2>4 DEF PeerStep, connect_to_peer, connection_failed,
         on_peer_connected, handshake_accepted, receive_bitfield, receive_have, receive_unknown
  <1>6. ASSUME NEW w \in Workers, WorkerStep(w) PROVE Waits
    <2>1. UNCHANGED <<fetchVars, torrentVars>>
      BY <1>6, WorkerSteps DEF Takes, Reports
    <2> QED
      BY <1>4, <2>1
  <1>7. CASE ResultStep
    <2> DEFINE q == pipe[1].peer
    <2>1. q \in Peers /\ Connected(q)
      BY <1>7, ResultReaders
    <2>2. \/ AssignPiece(q, bitfield, requested \ {current_piece[q]})
          \/ AssignPiece(q, bitfield, requested \ {pipe[1].piece})
          \/ AssignPiece(q, bitfield', requested)
          \/ UNCHANGED <<fetchVars, torrentVars>>
      BY <1>7, ResultReaders
    <2> HIDE DEF q
    <2> QED
      BY <1>2, <1>4, <2>1, <2>2
  <1>8. CASE stack_reused \/ UNCHANGED vars
    BY <1>4, <1>8 DEF stack_reused, vars
  <1> QED
    BY <1>5, <1>6, <1>7, <1>8 DEF Next

LEMMA AbandonInvariant == Spec => []AbandonInv
  <1>1. Init => AbandonInv
    <2>1. Init => ConnectedInv
      BY DEF Init, ConnectedInv, Connected, Idle
    <2>2. Init => EmptyInv
      BY DEF Init, EmptyInv
    <2> QED
      BY <2>1, <2>2, InitType DEF AbandonInv
  <1>2. AbandonInv /\ [Next]_vars => AbandonInv'
    BY NextType, NextConnected, NextEmpty DEF AbandonInv
  <1> QED
    BY <1>1, <1>2, PTL DEF Spec

(* A peer fetches the piece it is assigned.                                 *)
LEMMA AssignedFetches ==
    ASSUME NEW p \in Peers, NEW i \in Pieces, current_piece'[p] = i,
           outstanding'[p] = outstanding[p] \cup ({i} \X BlocksOf(i))
    PROVE  Fetches(p, i)'
  <1>1. \A b \in BlocksOf(i) : <<i, b>> \in outstanding'[p]
    OBVIOUS
  <1>2. BlocksOf(i)' = BlocksOf(i)
    BY DEF BlocksOf, Blocks
  <1> QED
    BY <1>1, <1>2 DEF Fetches

(* A requested piece is at work when it has just been assigned.             *)
LEMMA AssignedAtWork ==
    ASSUME TypeOK, NEW p \in Peers, NEW have, NEW asked, AssignPiece(p, have, asked),
           NEW i \in Pieces, i \in requested', i \notin asked
    PROVE  AtWork(i)'
  <1>1. PICK j \in Pieces :
           /\ requested' = asked \cup {j} /\ current_piece'[p] = j
           /\ outstanding'[p] = outstanding[p] \cup ({j} \X BlocksOf(j))
    BY Assigned
  <1>2. j = i
    BY <1>1
  <1> QED
    BY <1>1, <1>2, AssignedFetches DEF AtWork

(* The fetching of a piece goes on until its task is pushed, unless the     *)
(* peer is assigned another.                                                *)
LEMMA FetchGoesOn ==
    ASSUME AbandonInv, [Next]_vars, NEW i \in Pieces, i \in requested,
           NEW p \in Peers, Fetches(p, i)
    PROVE  AtWork(i)' \/ current_piece'[p] \in Pieces \ {i}
  <1> USE DEF AbandonInv
  <1> DEFINE On == AtWork(i)' \/ current_piece'[p] \in Pieces \ {i}
  <1>1. BlocksOf(i)' = BlocksOf(i)
    BY DEF BlocksOf, Blocks
  <1>2. ASSUME NEW q \in Peers, current_piece'[q] = i,
               \A b \in BlocksOf(i) : b \in blocks_received'[q] \/ <<i, b>> \in outstanding'[q]
        PROVE  On
    BY <1>1, <1>2 DEF AtWork, Fetches
  <1>3. ASSUME current_piece'[p] = current_piece[p], blocks_received'[p] = blocks_received[p],
               outstanding'[p] = outstanding[p]
        PROVE  On
    BY <1>2, <1>3 DEF Fetches
  <1>4. ASSUME UNCHANGED fetchVars PROVE On
    BY <1>3, <1>4 DEF fetchVars
  <1>5. ASSUME NEW q \in Peers, NEW have, NEW asked, AssignPiece(q, have, asked) PROVE On
    <2>1. CASE q # p
      BY <1>3, <1>5, <2>1, Assigned
    <2>2. CASE UNCHANGED fetchVars
      BY <1>4, <2>2
    <2>3. ASSUME q = p,
                 NEW j \in Pieces, current_piece'[q] = j,
                 outstanding'[q] = outstanding[q] \cup ({j} \X BlocksOf(j))
          PROVE  On
      BY <2>3, AssignedFetches DEF AtWork
    <2> QED
      BY <1>5, <2>1, <2>2, <2>3, Assigned
  <1>6. ASSUME NEW q \in Peers, PeerStep(q) PROVE On
    <2>1. CASE UNCHANGED fetchVars
      BY <1>4, <2>1
    <2>2. CASE receive_unchoke(q)
      BY <1>5, <2>2, Assigners
    <2>3. CASE handshake_rejected(q)
      <3>1. CASE q # p
        BY <1>3, <2>3, <3>1 DEF handshake_rejected, TypeOK
      <3>2. CASE q = p
        <4>1. ~Connected(p)
          BY <2>3, <3>2 DEF handshake_rejected, Connected
        <4>2. outstanding[p] = {} /\ blocks_received[p] = {} /\ current_piece[p] \in {0, None}
          BY <4>1 DEF ConnectedInv
        <4>3. i = 0 /\ BlocksOf(i) = {}
          BY <4>2 DEF Fetches, Pieces, None
        <4>4. PICK r \in Peers : Connected(r) /\ current_piece[r] = 0
          BY <4>3 DEF EmptyInv
        <4>5. current_piece'[r] = current_piece[r]
          BY <2>3, <3>2, <4>1, <4>4 DEF handshake_rejected, TypeOK
        <4> QED
          BY <1>2, <4>3, <4>4, <4>5
      <3> QED
        BY <3>1, <3>2
    <2>4. ASSUME NEW j \in Pieces, NEW b \in Blocks,
                 piece_discarded(q, j, b) \/ handle_piece(q, j, b) \/ piece_complete(q, j, b)
          PROVE  On
      <3>1. CASE q # p
        BY <1>3, <2>4, <3>1 DEF piece_discarded, handle_piece, piece_complete, TypeOK
      <3>2. CASE q = p /\ piece_discarded(q, j, b)
        <4>1. /\ j # i /\ current_piece'[p] = i /\ blocks_received'[p] = blocks_received[p]
              /\ outstanding'[p] = outstanding[p] \ {<<j, b>>}
          BY <3>2 DEF piece_discarded, Fetches, TypeOK
        <4> QED
          BY <1>2, <4>1 DEF Fetches
      <3>3. CASE q = p /\ handle_piece(q, j, b)
        <4>1. /\ j = i /\ current_piece'[p] = i
              /\ blocks_received'[p] = blocks_received[p] \cup {b}
              /\ outstanding'[p] = outstanding[p] \ {<<i, b>>}
          BY <3>3 DEF handle_piece, Fetches, TypeOK
        <4> QED
          BY <1>2, <4>1 DEF Fetches
      <3>4. CASE q = p /\ piece_complete(q, j, b)
        <4>1. j = i /\ frame'.piece = i /\ queue' = Append(queue, VerifyTask)
          BY <3>4 DEF piece_complete, Fetches
        <4>2. Len(queue) + 1 \in DOMAIN queue' /\ queue'[Len(queue) + 1] = VerifyTask
          BY <4>1 DEF TypeOK
        <4>3. \E k \in DOMAIN queue' : queue'[k].fn # "disk" /\ frame'.piece = i
          BY <4>1, <4>2 DEF VerifyTask
        <4> QED
          BY <4>3 DEF AtWork, QueuedFor
      <3> QED
        BY <2>4, <3>1, <3>2, <3>3, <3>4
    <2> QED
      BY <1>6, <2>1, <2>2, <2>3, <2>4 DEF PeerStep, connect_to_peer, connection_failed,
         on_peer_connected, handshake_accepted, receive_bitfield, receive_have, receive_unknown
  <1>7. ASSUME NEW w \in Workers, WorkerStep(w) PROVE On
    <2>1. UNCHANGED fetchVars
      BY <1>7, WorkerSteps DEF Takes, Reports
    <2> QED
      BY <1>4, <2>1
  <1>8. CASE ResultStep
    <2> DEFINE q == pipe[1].peer
    <2>1. q \in Peers
      BY <1>8, ResultReaders
    <2>2. \/ AssignPiece(q, bitfield, requested \ {current_piece[q]})
          \/ AssignPiece(q, bitfield, requested \ {pipe[1].piece})
          \/ AssignPiece(q, bitfield', requested)
          \/ UNCHANGED fetchVars
      BY <1>8, ResultReaders
    <2> HIDE DEF q
    <2> QED
      BY <1>4, <1>5, <2>1, <2>2
  <1>9. CASE stack_reused \/ UNCHANGED vars
    BY <1>4, <1>9 DEF stack_reused, vars
  <1> QED
    BY <1>6, <1>7, <1>8, <1>9 DEF Next

(* An entry of a sequence stays in it, and what is appended is in it.       *)
LEMMA AppendKeeps ==
    ASSUME NEW S, NEW seq \in Seq(S), NEW e \in S
    PROVE  /\ \A k \in DOMAIN seq : k \in DOMAIN Append(seq, e) /\ Append(seq, e)[k] = seq[k]
           /\ \E k \in DOMAIN Append(seq, e) : Append(seq, e)[k] = e
  <1>1. Len(seq) + 1 \in DOMAIN Append(seq, e) /\ Append(seq, e)[Len(seq) + 1] = e
    OBVIOUS
  <1> QED
    BY <1>1

LEMMA TailKeeps ==
    ASSUME NEW S, NEW seq \in Seq(S), NEW k \in DOMAIN seq, k # 1
    PROVE  k - 1 \in DOMAIN Tail(seq) /\ Tail(seq)[k - 1] = seq[k]
  OBVIOUS

(* A queued task stays queued, is run, or loses the frame it points into.   *)
LEMMA TaskGoesOn ==
    ASSUME TypeOK, ConnectedInv, [Next]_vars, NEW i \in Pieces,
           NEW k \in DOMAIN queue, QueuedFor(k, i)
    PROVE  AtWork(i)' \/ (frame.piece = i /\ frame' # frame)
  <1> DEFINE On == AtWork(i)' \/ (frame.piece = i /\ frame' # frame)
  <1>1. queue \in Seq(DiskTask \cup {VerifyTask})
    BY DEF TypeOK
  <1>2. ASSUME NEW m \in DOMAIN queue', queue'[m] = queue[k] PROVE On
    <2>1. CASE queue[k].fn = "disk"
      BY <1>2, <2>1 DEF QueuedFor, AtWork
    <2>2. CASE queue[k].fn # "disk"
      BY <1>2, <2>2 DEF QueuedFor, AtWork
    <2> QED
      BY <2>1, <2>2
  <1>3. ASSUME UNCHANGED queue PROVE On
    BY <1>2, <1>3
  <1>4. ASSUME NEW t \in DiskTask \cup {VerifyTask}, queue' = Append(queue, t) PROVE On
    BY <1>1, <1>2, <1>4, AppendKeeps
  <1>5. ASSUME NEW p \in Peers, PeerStep(p) PROVE On
    <2>1. ASSUME NEW j \in Pieces, NEW b \in Blocks, piece_complete(p, j, b) PROVE On
      BY <1>4, <2>1 DEF piece_complete
    <2> QED
      BY <1>3, <1>5, <2>1 DEF PeerStep, connect_to_peer, connection_failed, on_peer_connected,
         handshake_accepted, handshake_rejected, receive_bitfield, receive_have,
         receive_unchoke, receive_unknown, piece_discarded, handle_piece, taskVars
  <1>6. ASSUME NEW w \in Workers, WorkerStep(w) PROVE On
    <2>1. CASE Takes(w)
      <3>1. PICK t \in PieceTask, fn \in {"verify", "disk"} :
               /\ worker' = [worker EXCEPT ![w] = [fn |-> fn, args |-> t]]
               /\ IF queue[1].fn = "disk" THEN queue[1].args = t ELSE frame = t
        BY <2>1 DEF Takes
      <3>2. queue' = Tail(queue)
        BY <2>1 DEF Takes
      <3>3. CASE k = 1
        <4>1. t.piece = i
          BY <3>1, <3>3 DEF QueuedFor
        <4>2. worker'[w].fn # "none" /\ worker'[w].args.piece = i
          BY <3>1, <4>1 DEF TypeOK
        <4> QED
          BY <4>2 DEF AtWork
      <3>4. CASE k # 1
        BY <1>1, <1>2, <3>2, <3>4, TailKeeps
      <3> QED
        BY <3>3, <3>4
    <2> QED
      BY <1>3, <1>6, <2>1, WorkerSteps DEF Reports, taskVars
  <1>7. CASE ResultStep
    <2>1. CASE sha1_succeeded
      <3>1. PICK t \in DiskTask : queue' = Append(queue, t)
        <4>1. /\ Head(pipe) = pipe[1] /\ pipe[1].peer \in Peers /\ pipe[1].piece \in Pieces
              /\ slot[pipe[1].peer] \in Slots
          BY <1>7, ResultReaders DEF TypeOK
        <4> QED
          BY <2>1, <4>1 DEF sha1_succeeded, DiskTask, PieceTask
      <3> QED
        BY <1>4, <3>1
    <2> QED
      BY <1>3, <1>7, <2>1, ResultReaders
  <1>8. CASE stack_reused \/ UNCHANGED vars
    BY <1>3, <1>8 DEF stack_reused, vars, taskVars
  <1> QED
    BY <1>5, <1>6, <1>7, <1>8 DEF Next

(* A task that runs goes on running or is reported.                         *)
LEMMA RunGoesOn ==
    ASSUME TypeOK, ConnectedInv, [Next]_vars, NEW i \in Pieces,
           NEW w \in Workers, worker[w].fn # "none", worker[w].args.piece = i
    PROVE  AtWork(i)'
  <1>1. ASSUME worker'[w] = worker[w] PROVE AtWork(i)'
    BY <1>1 DEF AtWork
  <1>2. ASSUME NEW v \in Workers, WorkerStep(v) PROVE AtWork(i)'
    <2>1. CASE Takes(v)
      <3>1. v # w
        BY <2>1 DEF Takes, Idle
      <3> QED
        BY <1>1, <2>1, <3>1 DEF Takes, TypeOK
    <2>2. CASE Reports(v)
      <3>1. CASE v # w
        BY <1>1, <2>2, <3>1 DEF Reports, TypeOK
      <3>2. CASE v = w
        <4>1. PICK r \in Result : pipe' = Append(pipe, r) /\ r.piece = i
          BY <2>2, <3>2 DEF Reports
        <4>2. \E k \in DOMAIN pipe' : pipe'[k] = r
          BY <4>1, AppendKeeps DEF TypeOK
        <4> QED
          BY <4>1, <4>2 DEF AtWork
      <3> QED
        BY <3>1, <3>2
    <2>3. CASE UNCHANGED taskVars
      BY <1>1, <2>3 DEF taskVars
    <2> QED
      BY <1>2, <2>1, <2>2, <2>3, WorkerSteps
  <1>3. ASSUME NEW p \in Peers, PeerStep(p) PROVE AtWork(i)'
    BY <1>1, <1>3 DEF PeerStep, connect_to_peer, connection_failed, on_peer_connected,
       handshake_accepted, handshake_rejected, receive_bitfield, receive_have,
       receive_unchoke, receive_unknown, piece_discarded, handle_piece, piece_complete, taskVars
  <1>4. CASE ResultStep
    BY <1>1, <1>4, ResultReaders
  <1>5. CASE stack_reused \/ UNCHANGED vars
    BY <1>1, <1>5 DEF stack_reused, vars, taskVars
  <1> QED
    BY <1>2, <1>3, <1>4, <1>5 DEF Next

(* What becomes of a result: its piece is written next, is claimed, is      *)
(* assigned anew, or keeps its bit though its hash is wrong.                *)
LEMMA ResultGoesOn ==
    ASSUME TypeOK, ConnectedInv, [Next]_vars, NEW i \in Pieces,
           i \in requested' \ bitfield',
           NEW k \in DOMAIN pipe, pipe[k].piece = i
    PROVE  \/ AtWork(i)'
           \/ /\ ResultIs("NOTIFY_SHA1_VERIFY", FALSE)
              /\ Head(pipe).piece = i
              /\ current_piece[Head(pipe).peer] # i
  <1> DEFINE On == \/ AtWork(i)'
                   \/ /\ ResultIs("NOTIFY_SHA1_VERIFY", FALSE)
                      /\ Head(pipe).piece = i
                      /\ current_piece[Head(pipe).peer] # i
  <1>1. pipe \in Seq(Result)
    BY DEF TypeOK
  <1>2. ASSUME NEW m \in DOMAIN pipe', pipe'[m] = pipe[k] PROVE On
    BY <1>2 DEF AtWork
  <1>3. ASSUME UNCHANGED pipe PROVE On
    BY <1>2, <1>3
  <1>4. ASSUME NEW p \in Peers, PeerStep(p) PROVE On
    BY <1>3, <1>4 DEF PeerStep, connect_to_peer, connection_failed, on_peer_connected,
       handshake_accepted, handshake_rejected, receive_bitfield, receive_have,
       receive_unchoke, receive_unknown, piece_discarded, handle_piece, piece_complete, taskVars
  <1>5. ASSUME NEW w \in Workers, WorkerStep(w) PROVE On
    <2>1. CASE Reports(w)
      <3>1. PICK r \in Result : pipe' = Append(pipe, r)
        BY <2>1 DEF Reports
      <3>2. k \in DOMAIN pipe' /\ pipe'[k] = pipe[k]
        BY <1>1, <3>1, AppendKeeps
      <3> QED
        BY <1>2, <3>2
    <2> QED
      BY <1>3, <1>5, <2>1, WorkerSteps DEF Takes, taskVars
  <1>6. ASSUME ResultStep PROVE On
    <2>1. /\ pipe' = Tail(pipe) /\ Head(pipe) = pipe[1]
          /\ pipe[1].peer \in Peers /\ pipe[1].piece \in Pieces
      BY <1>6, ResultReaders
    <2>2. CASE k # 1
      BY <1>1, <1>2, <2>1, <2>2, TailKeeps
    <2>3. CASE k = 1 /\ sha1_succeeded
      <3>1. PICK t \in DiskTask : queue' = Append(queue, t) /\ t.args.piece = i
        <4>1. slot[pipe[1].peer] \in Slots
          BY <2>1 DEF TypeOK
        <4> QED
          BY <2>1, <2>3, <4>1 DEF sha1_succeeded, DiskTask, PieceTask
      <3>2. \E m \in DOMAIN queue' : queue'[m] = t
        <4>1. queue \in Seq(DiskTask \cup {VerifyTask}) /\ t \in DiskTask \cup {VerifyTask}
          BY DEF TypeOK
        <4>2. \E m \in DOMAIN Append(queue, t) : Append(queue, t)[m] = t
          BY <4>1, AppendKeeps
        <4> QED
          BY <3>1, <4>2
      <3>3. \E m \in DOMAIN queue' : queue'[m].fn = "disk" /\ queue'[m].args.piece = i
        BY <3>1, <3>2 DEF DiskTask
      <3> QED
        BY <3>3 DEF AtWork, QueuedFor
    <2>4. ASSUME NEW p \in Peers, NEW have, NEW asked, AssignPiece(p, have, asked), i \notin asked
          PROVE  On
      BY <2>4, AssignedAtWork
    <2>5. ASSUME k = 1, sha1_failed,
                 AssignPiece(pipe[1].peer, bitfield, requested \ {current_piece[pipe[1].peer]})
          PROVE  On
      <3>1. CASE current_piece[pipe[1].peer] = i
        BY <2>1, <2>4, <2>5, <3>1
      <3>2. CASE current_piece[pipe[1].peer] # i
        BY <2>1, <2>5, <3>2 DEF sha1_failed
      <3> QED
        BY <3>1, <3>2
    <2>6. ASSUME k = 1, AssignPiece(pipe[1].peer, bitfield, requested \ {pipe[1].piece})
          PROVE  On
      BY <2>1, <2>4, <2>6
    <2>7. ~(k = 1 /\ bitfield' = bitfield \cup {pipe[1].piece})
      OBVIOUS
    <2>8. \/ sha1_failed
             /\ AssignPiece(pipe[1].peer, bitfield, requested \ {current_piece[pipe[1].peer]})
          \/ sha1_succeeded
          \/ AssignPiece(pipe[1].peer, bitfield, requested \ {pipe[1].piece})
          \/ bitfield' = bitfield \cup {pipe[1].piece}
      BY <1>6, ResultReaders
    <2> HIDE DEF On
    <2> QED
      BY <2>2, <2>3, <2>5, <2>6, <2>7, <2>8
  <1>7. CASE stack_reused \/ UNCHANGED vars
    BY <1>3, <1>7 DEF stack_reused, vars, taskVars
  <1> QED
    BY <1>4, <1>5, <1>6, <1>7 DEF Next

(* A piece that becomes requested has just been assigned.                   *)
LEMMA NewlyRequested ==
    ASSUME TypeOK, ConnectedInv, [Next]_vars, NEW i \in Pieces,
           i \in requested' \ requested
    PROVE  AtWork(i)'
  <1>1. ASSUME UNCHANGED torrentVars PROVE FALSE
    BY <1>1 DEF torrentVars
  <1>2. ASSUME NEW p \in Peers, PeerStep(p) PROVE AtWork(i)'
    <2>1. CASE receive_unchoke(p)
      BY <2>1, Assigners, AssignedAtWork
    <2> QED
      BY <1>1, <1>2, <2>1 DEF PeerStep, connect_to_peer, connection_failed, on_peer_connected,
         handshake_accepted, handshake_rejected, receive_bitfield, receive_have,
         receive_unknown, piece_discarded, handle_piece, piece_complete
  <1>3. ASSUME NEW w \in Workers, WorkerStep(w) PROVE FALSE
    BY <1>1, <1>3, WorkerSteps DEF Takes, Reports
  <1>4. CASE ResultStep
    <2> DEFINE q == pipe[1].peer
    <2>1. q \in Peers
      BY <1>4, ResultReaders
    <2>2. \/ AssignPiece(q, bitfield, requested \ {current_piece[q]})
          \/ AssignPiece(q, bitfield, requested \ {pipe[1].piece})
          \/ AssignPiece(q, bitfield', requested)
          \/ UNCHANGED torrentVars
      BY <1>4, ResultReaders
    <2> HIDE DEF q
    <2> QED
      BY <1>1, <2>1, <2>2, AssignedAtWork
  <1>5. CASE stack_reused \/ UNCHANGED vars
    BY <1>1, <1>5 DEF stack_reused, vars
  <1> QED
    BY <1>2, <1>3, <1>4, <1>5 DEF Next

(* The client never gives up a claim.                                       *)
LEMMA ClaimsStay == [Next]_vars => bitfield \subseteq bitfield'
  <1> SUFFICES ASSUME [Next]_vars PROVE bitfield \subseteq bitfield'
    OBVIOUS
  <1> USE DEF torrentVars
  <1>1. ASSUME NEW p \in Peers, PeerStep(p) PROVE bitfield' = bitfield
    BY <1>1 DEF PeerStep, connect_to_peer, connection_failed, on_peer_connected,
       handshake_accepted, handshake_rejected, receive_bitfield, receive_have,
       receive_unchoke, receive_unknown, piece_discarded, handle_piece, piece_complete
  <1>2. ASSUME NEW w \in Workers, WorkerStep(w) PROVE bitfield' = bitfield
    BY <1>2 DEF WorkerStep, take_verify, take_garbage, take_disk, task_sha1_verify,
       task_disk_write, disk_write_fails
  <1>3. CASE ResultStep \/ stack_reused \/ UNCHANGED vars
    BY <1>3 DEF ResultStep, sha1_failed, sha1_succeeded, disk_failed, disk_succeeded,
       stack_reused, vars
  <1> QED
    BY <1>1, <1>2, <1>3 DEF Next

(* A requested piece is given up in the three ways AbandonedOnlyThus names  *)
(* and in no other, whatever the peers, the threads and the disk do: no     *)
(* interleaving of announcer.c's handlers with the pool loses a piece       *)
(* between two of its stages.                                               *)
THEOREM GivenUpOnlyThus == Spec => AbandonedOnlyThus
  <1> DEFINE Given(i) ==
               \/ \E p \in Peers : Fetches(p, i) /\ current_piece'[p] \in Pieces \ {i}
               \/ frame.piece = i /\ frame' # frame
               \/ /\ ResultIs("NOTIFY_SHA1_VERIFY", FALSE)
                  /\ Head(pipe).piece = i
                  /\ current_piece[Head(pipe).peer] # i
             Step == \A i \in Pieces : ~Abandoned(i) /\ Abandoned(i)' => Given(i)
  <1>1. ASSUME AbandonInv, [Next]_vars, NEW i \in Pieces, i \in requested' \ bitfield',
               ~(i \in requested \ bitfield /\ ~AtWork(i)), ~AtWork(i)'
        PROVE  Given(i)
    <2>1. TypeOK /\ ConnectedInv
      BY <1>1 DEF AbandonInv
    <2>2. i \in requested /\ AtWork(i)
      BY <1>1, <2>1, NewlyRequested, ClaimsStay
    <2>3. CASE \E p \in Peers : Fetches(p, i)
      BY <1>1, <2>2, <2>3, FetchGoesOn
    <2>4. CASE \E k \in DOMAIN queue : QueuedFor(k, i)
      BY <1>1, <2>1, <2>4, TaskGoesOn
    <2>5. CASE \E w \in Workers : worker[w].fn # "none" /\ worker[w].args.piece = i
      BY <1>1, <2>1, <2>5, RunGoesOn
    <2>6. CASE \E k \in DOMAIN pipe : pipe[k].piece = i
      BY <1>1, <2>1, <2>6, ResultGoesOn
    <2> QED
      BY <2>2, <2>3, <2>4, <2>5, <2>6 DEF AtWork
  <1>2. \A i : Stages(i) # {} <=> AtWork(i)
    BY StagesOfWork
  <1>3. (\A i : Stages(i) # {} <=> AtWork(i))'
    BY StagesOfWork, PTL
  <1>4. AbandonInv /\ [Next]_vars => Step
    <2> SUFFICES ASSUME AbandonInv, [Next]_vars, NEW i \in Pieces,
                        ~Abandoned(i), Abandoned(i)'
                 PROVE  Given(i)
      OBVIOUS
    <2>1. i \in requested' \ bitfield' /\ ~AtWork(i)'
      BY <1>3 DEF Abandoned
    <2>2. ~(i \in requested \ bitfield /\ ~AtWork(i))
      BY <1>2 DEF Abandoned
    <2> QED
      BY <1>1, <2>1, <2>2
  <1>5. AbandonInv /\ [Next]_vars => [Step]_vars
    BY <1>4
  <1> QED
    BY <1>5, AbandonInvariant, PTL DEF Spec, AbandonedOnlyThus

-----------------------------------------------------------------------------
(* Calm surroundings: one UNCHOKE, no wrong, short or unasked block, and no *)
(* frame overwritten.  Handshakes may fail and unknown messages may come.   *)
(* The torrent is not the one piece of full length that is never fetched.   *)

Calm ==
    /\ MaxUnchokes <= 1
    /\ Faults \subseteq {"handshake", "unknown"}
    /\ BlocksOf(0) # {}

Asleep(p) ==
    outstanding[p] = {} /\ blocks_received[p] = {} /\ current_piece[p] \in {0, None}

AllIdle == \A w \in Workers : worker[w] = Idle
NoTask  == queue = <<>> /\ pipe = <<>> /\ AllIdle

TaskOf(p, i) == [peer |-> p, piece |-> i, slot |-> slot[p]]

(* The stages of a piece, in the order it passes them.                      *)
Fetching(p, i) ==
    /\ NoTask
    /\ current_piece[p] = i
    /\ outstanding[p] = {i} \X (BlocksOf(i) \ blocks_received[p])
    /\ \A b \in blocks_received[p] : piece_buf[slot[p]][b] = i

Queued(p, i) ==
    /\ pipe = <<>> /\ AllIdle
    /\ \/ queue = <<VerifyTask>> /\ frame = TaskOf(p, i)
       \/ queue = <<[fn |-> "disk", args |-> TaskOf(p, i)]>>

Runs(p, i) ==
    /\ queue = <<>> /\ pipe = <<>>
    /\ \E w \in Workers :
          /\ worker[w].fn # "none" /\ worker[w].args = TaskOf(p, i)
          /\ \A v \in Workers \ {w} : worker[v] = Idle

Reported(p, i) ==
    /\ queue = <<>> /\ AllIdle
    /\ \E r \in Result :
          /\ pipe = <<r>> /\ r.peer = p /\ r.piece = i
          /\ r.type = "NOTIFY_SHA1_VERIFY" => r.success

Passed(p, i) ==
    /\ Asleep(p) /\ HashMatches(i, slot[p])
    /\ Queued(p, i) \/ Runs(p, i) \/ Reported(p, i)

(* p is the one peer that unchoked, and i is the one piece at work.         *)
Working(p, i) ==
    /\ unchokes = 1
    /\ i \in Pieces \ bitfield
    /\ requested = bitfield \cup {i}
    /\ Connected(p)
    /\ \A q \in Peers \ {p} : Asleep(q)
    /\ Fetching(p, i) \/ Passed(p, i)

Resting == requested = bitfield /\ NoTask /\ \A p \in Peers : Asleep(p)

StageInv == Resting \/ \E p \in Peers, i \in Pieces : Working(p, i)

(* A piece assigned when no work is left is fetched, and is the only one.   *)
LEMMA NextPiece ==
    ASSUME TypeOK, Calm, NEW p \in Peers, Connected(p)', unchokes' = 1,
           \A q \in Peers : Asleep(q), NoTask',
           AssignPiece(p, bitfield', bitfield')
    PROVE  StageInv'
  <1>1. \A q \in Peers \ {p} : Asleep(q)'
    BY Assigned DEF Asleep
  <1>2. CASE requested' = bitfield' /\ UNCHANGED fetchVars
    BY <1>2 DEF StageInv, Resting, Asleep, fetchVars
  <1>3. ASSUME NEW i \in Pieces, i \notin bitfield', requested' = bitfield' \cup {i},
               current_piece'[p] = i, blocks_received'[p] = {},
               outstanding'[p] = outstanding[p] \cup ({i} \X BlocksOf(i))
        PROVE  Working(p, i)'
    <2>1. outstanding'[p] = {i} \X (BlocksOf(i) \ blocks_received'[p])
      BY <1>3 DEF Asleep
    <2>2. BlocksOf(i)' = BlocksOf(i)
      BY DEF BlocksOf, Blocks
    <2>3. Fetching(p, i)'
      BY <1>3, <2>1, <2>2 DEF Fetching
    <2>4. i \in Pieces'
      BY DEF Pieces
    <2> QED
      BY <1>1, <1>3, <2>3, <2>4 DEF Working
  <1>4. Pieces' = Pieces /\ Peers' = Peers
    BY DEF Pieces
  <1> QED
    BY <1>2, <1>3, <1>4, Assigned DEF StageInv

(* A step that leaves the work alone.                                       *)
LEMMA Undisturbed ==
    ASSUME TypeOK, Calm, StageInv, [Next]_vars,
           UNCHANGED <<piece_buf, unchokes, torrentVars, taskVars>>,
           \A q \in Peers : Connected(q) => slot'[q] = slot[q],
           \A q \in Peers : Connected(q) => /\ current_piece'[q] = current_piece[q]
                                            /\ blocks_received'[q] = blocks_received[q]
                                            /\ outstanding'[q] = outstanding[q],
           \A q \in Peers : Asleep(q) => Asleep(q)'
    PROVE  StageInv'
  <1> USE DEF torrentVars, taskVars
  <1>1. CASE Resting
    BY <1>1 DEF StageInv, Resting, NoTask, AllIdle
  <1>2. ASSUME NEW p \in Peers, NEW i \in Pieces, Working(p, i)
        PROVE  Working(p, i)'
    <2>1. /\ Connected(p)' /\ slot'[p] = slot[p] /\ current_piece'[p] = current_piece[p]
          /\ blocks_received'[p] = blocks_received[p] /\ outstanding'[p] = outstanding[p]
      BY <1>2, StaysConnected DEF Working
    <2>2. BlocksOf(i)' = BlocksOf(i) /\ i \in Pieces'
      BY DEF BlocksOf, Blocks, Pieces
    <2>3. Fetching(p, i) => Fetching(p, i)'
      BY <2>1, <2>2 DEF Fetching, NoTask, AllIdle
    <2>4. HashMatches(i, slot[p]) => HashMatches(i, slot[p])'
      BY <2>1, <2>2 DEF HashMatches
    <2>5. /\ Queued(p, i) => Queued(p, i)'
          /\ Runs(p, i) => Runs(p, i)'
          /\ Reported(p, i) => Reported(p, i)'
      BY <2>1 DEF Queued, Runs, Reported, TaskOf, AllIdle
    <2>6. Passed(p, i) => Passed(p, i)'
      BY <2>4, <2>5 DEF Passed
    <2> QED
      BY <1>2, <2>1, <2>2, <2>3, <2>6 DEF Working
  <1>3. Pieces' = Pieces
    BY DEF Pieces
  <1> QED
    BY <1>1, <1>2, <1>3 DEF StageInv

(* The event loop's handlers of connections and messages.                   *)
LEMMA PeerStepStage ==
    ASSUME TypeOK, Calm, StageInv, [Next]_vars, NEW p \in Peers, PeerStep(p)
    PROVE  StageInv'
  <1>1. CASE \/ connect_to_peer(p) \/ connection_failed(p) \/ handshake_accepted(p)
             \/ receive_unknown(p)
             \/ \E B \in Announcements : receive_bitfield(p, B)
             \/ \E i \in Pieces : receive_have(p, i)
    <2>1. UNCHANGED <<slot, piece_buf, unchokes, fetchVars, torrentVars, taskVars>>
      BY <1>1 DEF connect_to_peer, connection_failed, handshake_accepted, receive_unknown,
         receive_bitfield, receive_have, peerVars, slabVars
    <2> QED
      BY <2>1, Undisturbed DEF fetchVars, Asleep
  <1>2. CASE on_peer_connected(p)
    <2>1. /\ UNCHANGED <<piece_buf, unchokes, fetchVars, torrentVars, taskVars>>
          /\ slot' = [slot EXCEPT ![p] = Len(peers)] /\ ~Connected(p)
      BY <1>2 DEF on_peer_connected, slabVars, Connected
    <2>2. \A q \in Peers : Connected(q) => slot'[q] = slot[q]
      BY <2>1 DEF TypeOK
    <2> QED
      BY <2>1, <2>2, Undisturbed DEF fetchVars, Asleep
  <1>3. CASE handshake_rejected(p)
    <2>1. /\ UNCHANGED <<piece_buf, unchokes, torrentVars, taskVars, slot>> /\ ~Connected(p)
          /\ current_piece'[p] = None /\ blocks_received'[p] = {} /\ outstanding'[p] = {}
          /\ \A q \in Peers \ {p} : /\ current_piece'[q] = current_piece[q]
                                    /\ blocks_received'[q] = blocks_received[q]
                                    /\ outstanding'[q] = outstanding[q]
      BY <1>3 DEF handshake_rejected, Connected, TypeOK
    <2> QED
      BY <2>1, Undisturbed DEF Asleep
  <1>4. CASE receive_unchoke(p)
    <2>1. unchokes = 0 /\ unchokes' = 1
      BY <1>4, ConstantsAssumption DEF receive_unchoke, Calm, TypeOK
    <2>2. Resting
      BY <2>1 DEF StageInv, Working
    <2>3. UNCHANGED <<bitfield, queue, worker, pipe>>
      BY <1>4 DEF receive_unchoke, AssignPiece, taskVars
    <2>4. AssignPiece(p, bitfield', bitfield')
      BY <1>4, <2>2, <2>3 DEF receive_unchoke, Resting
    <2>5. NoTask' /\ \A q \in Peers : Asleep(q)
      BY <2>2, <2>3 DEF Resting, NoTask, AllIdle
    <2>6. Connected(p)'
      BY <1>4, StaysConnected DEF receive_unchoke, Readable, Connected
    <2> QED
      BY <2>1, <2>4, <2>5, <2>6, NextPiece
  <1>5. ASSUME NEW j \in Pieces, NEW b \in Blocks,
               piece_discarded(p, j, b) \/ handle_piece(p, j, b) \/ piece_complete(p, j, b)
        PROVE  StageInv'
    <2>1. <<j, b>> \in outstanding[p]
      BY <1>5 DEF piece_discarded, handle_piece, piece_complete, Asked, Calm
    <2>2. PICK i \in Pieces : Working(p, i) /\ Fetching(p, i)
      BY <2>1 DEF StageInv, Resting, Working, Passed, Asleep
    <2>3. /\ j = i /\ b \in BlocksOf(i) \ blocks_received[p] /\ current_piece[p] = i
          /\ ~piece_discarded(p, j, b)
      BY <2>1, <2>2 DEF Fetching, piece_discarded
    <2>4. \A q \in Peers \ {p} : Asleep(q) /\ Asleep(q)'
      BY <1>5, <2>2 DEF Working, Asleep, piece_discarded, handle_piece, piece_complete, TypeOK
    <2>5. piece_buf' = [piece_buf EXCEPT ![slot[p]][b] = i]
      BY <1>5, <2>3 DEF handle_piece, piece_complete, Received, Calm
    <2>6. /\ slot' = slot /\ UNCHANGED <<unchokes, torrentVars, worker, pipe>>
      BY <1>5, <2>3 DEF handle_piece, piece_complete, peerVars, taskVars
    <2>7. /\ piece_buf'[slot[p]][b] = i
          /\ \A c \in blocks_received[p] : piece_buf'[slot[p]][c] = i
      <3>1. slot[p] \in Slots /\ blocks_received[p] \subseteq Blocks
        BY DEF TypeOK
      <3>2. piece_buf[slot[p]] \in [Blocks -> Pieces \cup {Junk}]
        BY <3>1 DEF TypeOK
      <3> QED
        BY <2>2, <2>5, <3>1, <3>2 DEF Fetching, TypeOK
    <2>8. outstanding'[p] = {i} \X (BlocksOf(i) \ (blocks_received[p] \cup {b}))
      <3>1. outstanding'[p] = outstanding[p] \ {<<i, b>>}
        BY <1>5, <2>3 DEF handle_piece, piece_complete, TypeOK
      <3> QED
        BY <2>2, <3>1 DEF Fetching
    <2>9. Connected(p)' /\ i \in Pieces' \ bitfield' /\ requested' = bitfield' \cup {i}
      BY <2>2, <2>6, StaysConnected DEF Working, torrentVars, Pieces
    <2>10. BlocksOf(i)' = BlocksOf(i)
      BY DEF BlocksOf, Blocks
    <2>11. CASE handle_piece(p, j, b)
      <3>1. /\ blocks_received'[p] = blocks_received[p] \cup {b} /\ current_piece'[p] = i
            /\ queue' = queue
        BY <2>3, <2>11 DEF handle_piece, TypeOK, taskVars
      <3>2. Fetching(p, i)'
        BY <2>2, <2>6, <2>7, <2>8, <2>10, <3>1 DEF Fetching, NoTask, AllIdle
      <3>3. Working(p, i)'
        BY <2>2, <2>4, <2>6, <2>9, <3>2 DEF Working
      <3> QED
        BY <3>3 DEF StageInv, Pieces
    <2>12. CASE piece_complete(p, j, b)
      <3>1. /\ blocks_received'[p] = {} /\ current_piece'[p] = None
            /\ blocks_received[p] \cup {b} = BlocksOf(i)
            /\ frame' = TaskOf(p, i) /\ queue' = Append(queue, VerifyTask)
        BY <2>3, <2>12 DEF piece_complete, TypeOK, TaskOf
      <3>2. outstanding'[p] = {}
        BY <2>8, <3>1
      <3>3. Asleep(p)'
        BY <3>1, <3>2 DEF Asleep
      <3>4. HashMatches(i, slot[p])'
        BY <2>6, <2>7, <2>10, <3>1 DEF HashMatches
      <3>5. Queued(p, i)'
        <4>1. queue' = <<VerifyTask>>
          BY <2>2, <3>1 DEF Fetching, NoTask
        <4>2. (pipe = <<>> /\ AllIdle)'
          BY <2>2, <2>6 DEF Fetching, NoTask, AllIdle
        <4> QED
          BY <2>6, <3>1, <4>1, <4>2 DEF Queued, TaskOf
      <3>6. Working(p, i)'
        BY <2>2, <2>4, <2>6, <2>9, <3>3, <3>4, <3>5 DEF Working, Passed
      <3> QED
        BY <3>6 DEF StageInv, Pieces
    <2> QED
      BY <1>5, <2>3, <2>11, <2>12
  <1> QED
    BY <1>1, <1>2, <1>3, <1>4, <1>5 DEF PeerStep

(* The pool threads.  The hash of a buffer that holds the right blocks is   *)
(* right.                                                                   *)
LEMMA WorkerStepStage ==
    ASSUME TypeOK, Calm, StageInv, [Next]_vars, NEW w \in Workers, WorkerStep(w)
    PROVE  StageInv'
  <1>1. CASE UNCHANGED taskVars
    <2>1. UNCHANGED <<slot, piece_buf, unchokes, fetchVars, torrentVars>>
      BY DEF WorkerStep, take_verify, take_garbage, take_disk, task_sha1_verify,
         task_disk_write, disk_write_fails, peerVars, slabVars
    <2> QED
      BY <1>1, <2>1, Undisturbed DEF fetchVars, Asleep
  <1>2. UNCHANGED <<peer_state, slot, piece_buf, unchokes, fetchVars, torrentVars>>
    BY DEF WorkerStep, take_verify, take_garbage, take_disk, task_sha1_verify,
       task_disk_write, disk_write_fails, peerVars, slabVars
  <1>3. ASSUME NEW p \in Peers, NEW i \in Pieces, Working(p, i), Asleep(p),
               HashMatches(i, slot[p]), (Runs(p, i) \/ Reported(p, i))'
        PROVE  StageInv'
    <2>1. HashMatches(i, slot[p])' /\ \A q \in Peers : Asleep(q) => Asleep(q)'
      BY <1>2, <1>3 DEF HashMatches, BlocksOf, Blocks, Asleep, fetchVars
    <2>2. Working(p, i)'
      BY <1>2, <1>3, <2>1 DEF Working, Passed, Connected, Pieces, torrentVars
    <2> QED
      BY <2>2 DEF StageInv, Pieces
  <1>4. CASE Takes(w)
    <2>1. queue # <<>>
      BY <1>4 DEF Takes
    <2>2. PICK p \in Peers, i \in Pieces : Working(p, i) /\ Asleep(p)
                                           /\ HashMatches(i, slot[p]) /\ Queued(p, i)
      BY <2>1 DEF StageInv, Resting, Working, Fetching, Passed, Runs, Reported, NoTask
    <2>3. PICK t \in PieceTask, fn \in {"verify", "disk"} :
             /\ worker' = [worker EXCEPT ![w] = [fn |-> fn, args |-> t]]
             /\ IF queue[1].fn = "disk" THEN queue[1].args = t ELSE frame = t
      BY <1>4 DEF Takes
    <2>4. t = TaskOf(p, i)
      BY <2>2, <2>3 DEF Queued, VerifyTask
    <2>5. queue' = <<>> /\ pipe' = <<>>
      <3>1. PICK x : queue = <<x>>
        BY <2>2 DEF Queued
      <3>2. queue' = <<>>
        BY <1>4, <3>1 DEF Takes
      <3> QED
        BY <1>4, <2>2, <3>2 DEF Takes, Queued
    <2>6. worker'[w].fn # "none" /\ worker'[w].args = TaskOf(p, i)
      BY <2>3, <2>4 DEF TypeOK
    <2>7. \A v \in Workers \ {w} : worker'[v] = Idle
      BY <2>2, <2>3 DEF Queued, AllIdle, TypeOK
    <2>8. Runs(p, i)'
      BY <1>2, <2>5, <2>6, <2>7 DEF Runs, TaskOf, Idle
    <2> QED
      BY <1>3, <2>2, <2>8
  <1>5. CASE Reports(w)
    <2>1. worker[w].fn # "none"
      BY <1>5 DEF Reports
    <2>2. PICK p \in Peers, i \in Pieces : Working(p, i) /\ Asleep(p)
                                           /\ HashMatches(i, slot[p]) /\ Runs(p, i)
      BY <2>1 DEF StageInv, Resting, Working, Fetching, Passed, Queued, Reported, NoTask,
         AllIdle, Idle
    <2>3. worker[w].args = TaskOf(p, i) /\ \A v \in Workers \ {w} : worker[v] = Idle
      BY <2>1, <2>2 DEF Runs, Idle
    <2>4. PICK r \in Result : /\ pipe' = Append(pipe, r)
                              /\ r.peer = p /\ r.piece = i
                              /\ r.type = "NOTIFY_SHA1_VERIFY" => r.success
      <3>1. PICK r \in Result : /\ pipe' = Append(pipe, r)
                                /\ r.peer = worker[w].args.peer /\ r.piece = worker[w].args.piece
        BY <1>5 DEF Reports
      <3>2. r.type = "NOTIFY_SHA1_VERIFY" => r.success
        <4>1. pipe = <<>>
          BY <2>2 DEF Runs
        <4>2. \A x : Append(<<>>, x)[1] = x
          OBVIOUS
        <4>3. pipe' # pipe
          BY <3>1, <4>1
        <4>4. CASE task_sha1_verify(w)
          <5>1. pipe' = Append(pipe, [type |-> "NOTIFY_SHA1_VERIFY", peer |-> p, piece |-> i,
                                      success |-> HashMatches(i, slot[p])])
            BY <2>3, <4>4 DEF task_sha1_verify, TaskOf
          <5>2. r.success = HashMatches(i, slot[p])
            BY <3>1, <4>1, <4>2, <5>1
          <5> QED
            BY <2>2, <5>2
        <4>5. CASE task_disk_write(w) \/ disk_write_fails(w)
          <5>1. PICK ok \in BOOLEAN :
                   pipe' = Append(pipe, [type |-> "NOTIFY_DISK_WRITE", peer |-> worker[w].args.peer,
                                         piece |-> worker[w].args.piece, success |-> ok])
            BY <4>5 DEF task_disk_write, disk_write_fails
          <5>2. r.type = "NOTIFY_DISK_WRITE"
            BY <3>1, <4>1, <4>2, <5>1
          <5> QED
            BY <5>2
        <4> QED
          BY <4>3, <4>4, <4>5 DEF WorkerStep, take_verify, take_garbage, take_disk, taskVars
      <3> QED
        BY <2>3, <3>1, <3>2 DEF TaskOf
    <2>5. queue' = <<>> /\ pipe' = <<r>>
      BY <1>5, <2>2, <2>4 DEF Reports, Runs
    <2>6. AllIdle'
      BY <1>5, <2>3 DEF Reports, AllIdle, TypeOK, Idle
    <2>7. Reported(p, i)'
      <3>1. r \in Result'
        BY DEF Result, Pieces
      <3> QED
        BY <2>4, <2>5, <2>6, <3>1 DEF Reported
    <2> QED
      BY <1>3, <2>2, <2>7
  <1>6. CASE UNCHANGED <<fetchVars, torrentVars, taskVars>>
    BY <1>1, <1>6
  <1> QED
    BY <1>4, <1>5, <1>6, WorkerSteps

(* The handlers of results.  What follows a disk result, good or bad, is    *)
(* the next piece.                                                          *)
LEMMA ResultStepStage ==
    ASSUME TypeOK, ConnectedInv, Calm, StageInv, [Next]_vars, ResultStep
    PROVE  StageInv'
  <1>1. /\ pipe # <<>> /\ pipe' = Tail(pipe) /\ Head(pipe) = pipe[1]
        /\ UNCHANGED <<unchokes, slot, piece_buf, worker>>
    BY ResultReaders DEF peerVars, slabVars, TypeOK
  <1>2. PICK p \in Peers, i \in Pieces : Working(p, i) /\ Asleep(p)
                                         /\ HashMatches(i, slot[p]) /\ Reported(p, i)
    BY <1>1 DEF StageInv, Resting, Working, Fetching, Passed, Runs, Queued, NoTask
  <1>3. PICK r \in Result : /\ pipe = <<r>> /\ r.peer = p /\ r.piece = i
                            /\ r.type = "NOTIFY_SHA1_VERIFY" => r.success
    BY <1>2 DEF Reported
  <1>4. pipe[1].peer = p /\ pipe[1].piece = i /\ pipe' = <<>>
    BY <1>1, <1>3
  <1>5. ~sha1_failed
    BY <1>1, <1>3 DEF sha1_failed, ResultIs
  <1>6. Connected(p)' /\ unchokes' = 1 /\ queue = <<>> /\ AllIdle'
    BY <1>1, <1>2, StaysConnected DEF Working, Reported, AllIdle
  <1>7. \A q \in Peers : Asleep(q)
    BY <1>2 DEF Working
  <1>8. CASE sha1_succeeded
    <2>1. /\ UNCHANGED <<fetchVars, torrentVars>>
          /\ queue' = <<[fn |-> "disk", args |-> TaskOf(p, i)]>>
      <3>1. Head(pipe).peer = p /\ Head(pipe).piece = i
        BY <1>1, <1>4
      <3>2. queue' = Append(queue, [fn |-> "disk", args |-> TaskOf(p, i)])
        BY <1>8, <3>1 DEF sha1_succeeded, TaskOf
      <3> QED
        BY <1>6, <1>8, <3>2 DEF sha1_succeeded
    <2>2. Queued(p, i)'
      BY <1>1, <1>4, <1>6, <2>1 DEF Queued, TaskOf
    <2>3. HashMatches(i, slot[p])' /\ \A q \in Peers : Asleep(q)'
      BY <1>1, <1>2, <1>7, <2>1 DEF HashMatches, BlocksOf, Blocks, Asleep, fetchVars
    <2>4. Working(p, i)'
      BY <1>2, <1>6, <2>1, <2>2, <2>3 DEF Working, Passed, Pieces, torrentVars
    <2> QED
      BY <2>4 DEF StageInv, Pieces
  <1>9. ASSUME queue' = queue, AssignPiece(p, bitfield', bitfield') PROVE StageInv'
    BY <1>4, <1>6, <1>7, <1>9, NextPiece DEF NoTask
  <1>10. requested = bitfield \cup {i} /\ i \notin bitfield
    BY <1>2 DEF Working
  <1>11. CASE disk_failed
    <2>1. requested \ {pipe[1].piece} = bitfield'
      BY <1>4, <1>10, <1>11 DEF disk_failed
    <2> QED
      BY <1>1, <1>4, <1>9, <1>11, <2>1 DEF disk_failed
  <1>12. CASE disk_succeeded
    <2>1. requested = bitfield'
      BY <1>1, <1>4, <1>10, <1>12 DEF disk_succeeded
    <2> QED
      BY <1>1, <1>4, <1>9, <1>12, <2>1 DEF disk_succeeded
  <1> QED
    BY <1>5, <1>8, <1>11, <1>12 DEF ResultStep

LEMMA NextStage == TypeOK /\ ConnectedInv /\ Calm /\ StageInv /\ [Next]_vars => StageInv'
  <1> SUFFICES ASSUME TypeOK, ConnectedInv, Calm, StageInv, [Next]_vars PROVE StageInv'
    OBVIOUS
  <1>1. CASE UNCHANGED vars
    BY <1>1, Undisturbed DEF vars, peerVars, slabVars, fetchVars, Asleep
  <1>2. ~stack_reused
    BY DEF stack_reused, Calm
  <1> QED
    BY <1>1, <1>2, PeerStepStage, WorkerStepStage, ResultStepStage DEF Next

LEMMA StageInvariant == Spec => [](Calm => StageInv)
  <1>1. Init => (Calm => StageInv)
    BY DEF Init, StageInv, Resting, NoTask, AllIdle, Asleep
  <1>2. AbandonInv /\ (Calm => StageInv) /\ [Next]_vars => (Calm => StageInv)'
    <2>1. Calm' <=> Calm
      BY DEF Calm, BlocksOf, Blocks
    <2> QED
      BY <2>1, NextStage DEF AbandonInv
  <1> QED
    BY <1>1, <1>2, AbandonInvariant, PTL DEF Spec

(* Peers that sleep fetch nothing.                                          *)
LEMMA AsleepFetchesNot ==
    ASSUME Calm, NEW p, Asleep(p), NEW i
    PROVE  ~Fetches(p, i)
  <1> SUFFICES ASSUME Fetches(p, i) PROVE FALSE
    OBVIOUS
  <1>1. i \in {0, None} /\ BlocksOf(i) = {}
    BY DEF Fetches, Asleep
  <1>2. i # 0
    BY <1>1 DEF Calm
  <1>3. None # PiecesCount - 1 /\ 0 \in Blocks
    BY ConstantsAssumption DEF None, Blocks
  <1> QED
    BY <1>1, <1>2, <1>3 DEF BlocksOf

LEMMA StageIsOne == Calm /\ StageInv => OneStage
  <1> SUFFICES ASSUME Calm, StageInv, NEW i \in Pieces
               PROVE  Cardinality(Stages(i)) = IF i \in requested \ bitfield THEN 1 ELSE 0
    BY DEF OneStage
  <1> DEFINE F == {<<"peer", p>> : p \in {q \in Peers : Fetches(q, i)}}
             Q == {<<"queue", k>> : k \in {j \in DOMAIN queue :
                      IF queue[j].fn = "disk" THEN queue[j].args.piece = i ELSE frame.piece = i}}
             W == {<<"worker", w>> : w \in {v \in Workers :
                      worker[v].fn # "none" /\ worker[v].args.piece = i}}
             R == {<<"pipe", k>> : k \in {j \in DOMAIN pipe : pipe[j].piece = i}}
  <1>1. Stages(i) = F \cup Q \cup W \cup R
    BY DEF Stages
  <1>2. ASSUME F \cup Q \cup W \cup R = {}, i \notin requested \ bitfield
        PROVE  Cardinality(Stages(i)) = IF i \in requested \ bitfield THEN 1 ELSE 0
    BY <1>1, <1>2, FS_EmptySet
  <1>3. ASSUME NEW x, F \cup Q \cup W \cup R = {x}, i \in requested \ bitfield
        PROVE  Cardinality(Stages(i)) = IF i \in requested \ bitfield THEN 1 ELSE 0
    BY <1>1, <1>3, FS_Singleton
  <1>4. queue = <<>> => Q = {}
    OBVIOUS
  <1>5. pipe = <<>> => R = {}
    OBVIOUS
  <1>6. AllIdle => W = {}
    BY DEF AllIdle, Idle
  <1>7. (\A p \in Peers : Asleep(p)) => F = {}
    BY AsleepFetchesNot
  <1>8. CASE Resting
    <2>1. F \cup Q \cup W \cup R = {}
      BY <1>4, <1>5, <1>6, <1>7, <1>8 DEF Resting, NoTask
    <2> HIDE DEF F, Q, W, R
    <2> QED
      BY <1>2, <1>8, <2>1 DEF Resting
  <1>9. ASSUME NEW p \in Peers, NEW j \in Pieces, Working(p, j)
        PROVE  \/ i = j /\ \E x : F \cup Q \cup W \cup R = {x}
               \/ i # j /\ F \cup Q \cup W \cup R = {}
    <2>1. CASE Fetching(p, j)
      <3>1. Q \cup W \cup R = {}
        BY <1>4, <1>5, <1>6, <2>1 DEF Fetching, NoTask
      <3>2. \A q \in Peers : Fetches(q, i) => q = p
        BY <1>9, AsleepFetchesNot DEF Working
      <3>3. Fetches(p, i) <=> i = j
        BY <2>1 DEF Fetching, Fetches
      <3>4. IF i = j THEN F = {<<"peer", p>>} ELSE F = {}
        BY <3>2, <3>3
      <3> QED
        BY <3>1, <3>4
    <2>2. ASSUME Passed(p, j) PROVE F = {}
      BY <1>7, <1>9, <2>2 DEF Passed, Working
    <2>3. CASE Passed(p, j) /\ Queued(p, j)
      <3>1. F \cup W \cup R = {}
        BY <1>5, <1>6, <2>2, <2>3 DEF Queued
      <3>2. \E t : queue = <<t>> /\ IF t.fn = "disk" THEN t.args.piece = j ELSE frame.piece = j
        BY <2>3 DEF Queued, VerifyTask, TaskOf
      <3>3. IF i = j THEN Q = {<<"queue", 1>>} ELSE Q = {}
        BY <3>2
      <3> QED
        BY <3>1, <3>3
    <2>4. CASE Passed(p, j) /\ Runs(p, j)
      <3>1. F \cup Q \cup R = {}
        BY <1>4, <1>5, <2>2, <2>4 DEF Runs
      <3>2. PICK w \in Workers : /\ worker[w].fn # "none" /\ worker[w].args = TaskOf(p, j)
                                 /\ \A v \in Workers \ {w} : worker[v] = Idle
        BY <2>4 DEF Runs
      <3>3. worker[w].args.piece = j /\ \A v \in Workers \ {w} : worker[v].fn = "none"
        BY <3>2 DEF TaskOf, Idle
      <3>4. IF i = j THEN W = {<<"worker", w>>} ELSE W = {}
        BY <3>2, <3>3
      <3> QED
        BY <3>1, <3>4
    <2>5. CASE Passed(p, j) /\ Reported(p, j)
      <3>1. F \cup Q \cup W = {}
        BY <1>4, <1>6, <2>2, <2>5 DEF Reported
      <3>2. \E r : pipe = <<r>> /\ r.piece = j
        BY <2>5 DEF Reported
      <3>3. IF i = j THEN R = {<<"pipe", 1>>} ELSE R = {}
        BY <3>2
      <3> QED
        BY <3>1, <3>3
    <2> QED
      BY <1>9, <2>1, <2>3, <2>4, <2>5 DEF Working, Passed
  <1> HIDE DEF F, Q, W, R
  <1>10. ASSUME NEW p \in Peers, NEW j \in Pieces, Working(p, j)
         PROVE  Cardinality(Stages(i)) = IF i \in requested \ bitfield THEN 1 ELSE 0
    <2>1. j \notin bitfield /\ requested = bitfield \cup {j}
      BY <1>10 DEF Working
    <2> QED
      BY <1>2, <1>3, <1>9, <1>10, <2>1
  <1> QED
    BY <1>8, <1>10 DEF StageInv

(* In calm surroundings a requested piece is at one stage until the client  *)
(* has it: none is lost between the handlers and the pool, none is fetched  *)
(* twice.                                                                   *)
THEOREM OneStageWhenCalm == Spec => [](Calm => OneStage)
  BY StageInvariant, StageIsOne, PTL

(* In calm surroundings the buffer that a write is given keeps the piece     *)
(* that was verified in it until the write has ended.                       *)
THEOREM WritesWhatWasVerifiedWhenCalm == Spec => [](Calm => WritesWhatWasVerified)
  <1>1. Calm /\ StageInv => WritesWhatWasVerified
    <2> SUFFICES ASSUME StageInv PROVE WritesWhatWasVerified
      OBVIOUS
    <2>1. CASE NoTask
      BY <2>1 DEF NoTask, AllIdle, Idle, WritesWhatWasVerified
    <2>2. ASSUME NEW p \in Peers, NEW i \in Pieces, HashMatches(i, slot[p]),
                 Queued(p, i) \/ Runs(p, i) \/ Reported(p, i)
          PROVE  WritesWhatWasVerified
      <3>1. ASSUME NEW k \in DOMAIN queue, queue[k].fn = "disk"
            PROVE  queue[k].args = TaskOf(p, i)
        BY <2>2, <3>1 DEF Queued, Runs, Reported, VerifyTask
      <3>2. ASSUME NEW w \in Workers, worker[w].fn = "disk"
            PROVE  worker[w].args = TaskOf(p, i)
        BY <2>2, <3>2 DEF Queued, Runs, Reported, AllIdle, Idle
      <3> QED
        BY <2>2, <3>1, <3>2 DEF WritesWhatWasVerified, TaskOf
    <2> QED
      BY <2>1, <2>2 DEF StageInv, Resting, Working, Fetching, Passed
  <1> QED
    BY <1>1, StageInvariant, PTL

(* The claim of a piece that was written counts it.                         *)
LEMMA ClaimCounts ==
    ASSUME TypeOK, ConnectedInv, Calm, StageInv, CountedOnce, ResultStep, disk_succeeded
    PROVE  CountedOnce'
  <1>1. /\ pipe # <<>> /\ 1 \in DOMAIN pipe
        /\ pipe[1].type = "NOTIFY_DISK_WRITE"
    BY ResultReaders DEF disk_succeeded, ResultIs, TypeOK
  <1>2. bitfield' = bitfield \cup {pipe[1].piece} /\ downloaded' = downloaded + 1
    BY ResultReaders DEF disk_succeeded
  <1>3. pipe[1].piece \notin bitfield
    <2>1. PICK p \in Peers, i \in Pieces : Working(p, i) /\ Reported(p, i)
      BY <1>1 DEF StageInv, Resting, Working, Fetching, Passed, Runs, Queued, NoTask
    <2>2. PICK r \in Result : pipe = <<r>> /\ r.piece = i
      BY <2>1 DEF Reported
    <2> QED
      BY <1>1, <2>1, <2>2 DEF Working
  <1>4. IsFiniteSet(bitfield)
    <2>1. IsFiniteSet(Pieces)
      BY FS_Interval, ConstantsAssumption DEF Pieces
    <2> QED
      BY <2>1, FS_Subset DEF TypeOK
  <1> QED
    BY <1>2, <1>3, <1>4, FS_AddElement DEF CountedOnce

(* In calm surroundings the counter the tracker is told agrees with the     *)
(* pieces the client has.                                                   *)
THEOREM CountedOnceWhenCalm == Spec => [](Calm => CountedOnce)
  <1>1. ASSUME TypeOK, ConnectedInv, Calm, StageInv, CountedOnce, [Next]_vars
        PROVE  CountedOnce'
    <2> USE <1>1 DEF torrentVars
    <2>1. ASSUME UNCHANGED <<bitfield, downloaded>> PROVE CountedOnce'
      BY <2>1 DEF CountedOnce
    <2>2. ASSUME NEW p \in Peers, PeerStep(p) PROVE CountedOnce'
      BY <2>1, <2>2 DEF PeerStep, connect_to_peer, connection_failed, on_peer_connected,
         handshake_accepted, handshake_rejected, receive_bitfield, receive_have,
         receive_unchoke, receive_unknown, piece_discarded, handle_piece, piece_complete
    <2>3. ASSUME NEW w \in Workers, WorkerStep(w) PROVE CountedOnce'
      BY <2>1, <2>3 DEF WorkerStep, take_verify, take_garbage, take_disk, task_sha1_verify,
         task_disk_write, disk_write_fails
    <2>4. CASE ResultStep
      BY <2>1, <2>4, ClaimCounts DEF ResultStep, sha1_failed, sha1_succeeded, disk_failed
    <2>5. CASE stack_reused \/ UNCHANGED vars
      BY <2>1, <2>5 DEF stack_reused, vars
    <2> QED
      BY <2>2, <2>3, <2>4, <2>5 DEF Next
  <1>2. Init => (Calm => CountedOnce)
    BY FS_EmptySet DEF Init, CountedOnce
  <1>3. AbandonInv /\ (Calm => StageInv) /\ (Calm => CountedOnce) /\ [Next]_vars
           => (Calm => CountedOnce)'
    <2>1. Calm' <=> Calm
      BY DEF Calm, BlocksOf, Blocks
    <2> QED
      BY <1>1, <2>1 DEF AbandonInv
  <1> QED
    BY <1>2, <1>3, AbandonInvariant, StageInvariant, PTL DEF Spec

-----------------------------------------------------------------------------
(* How much work there is                                                   *)

(* A peer that may still complete a piece: it fetches one, and blocks are   *)
(* to come, asked for or not.                                               *)
Active(p) == current_piece[p] # None /\ ("unasked" \in Faults \/ outstanding[p] # {})
Fetchers == {p \in Peers : Active(p)}
Busy == {w \in Workers : worker[w] # Idle}
Slack == IF "unasked" \in Faults THEN Cardinality(Peers) ELSE 0

(* Each UNCHOKE is spent on one fetching peer, task or result.              *)
LoadInv == Load + Cardinality(Fetchers) <= unchokes + Slack

LEMMA SetSizes ==
    ASSUME NEW S, NEW T, NEW x, IsFiniteSet(S), T \subseteq S \cup {x}
    PROVE  /\ IsFiniteSet(T) /\ Cardinality(S) \in Nat /\ Cardinality(T) \in Nat
           /\ Cardinality(T) <= Cardinality(S) + 1
           /\ T \subseteq S => Cardinality(T) <= Cardinality(S)
           /\ x \in S /\ x \notin T => Cardinality(T) + 1 <= Cardinality(S)
  <1>1. /\ IsFiniteSet(S \cup {x}) /\ Cardinality(S) \in Nat
        /\ Cardinality(S \cup {x}) = IF x \in S THEN Cardinality(S) ELSE Cardinality(S) + 1
    BY FS_AddElement, FS_CardinalityType
  <1>2. IsFiniteSet(T) /\ Cardinality(T) \in Nat /\ Cardinality(T) <= Cardinality(S \cup {x})
    BY <1>1, FS_Subset, FS_CardinalityType
  <1>3. T \subseteq S => Cardinality(T) <= Cardinality(S)
    BY FS_Subset
  <1>4. ASSUME x \in S, x \notin T PROVE Cardinality(T) + 1 <= Cardinality(S)
    <2>1. IsFiniteSet(S \ {x}) /\ Cardinality(S \ {x}) = Cardinality(S) - 1
      BY <1>4, FS_RemoveElement
    <2>2. T \subseteq S \ {x}
      BY <1>4
    <2>3. Cardinality(T) <= Cardinality(S \ {x})
      BY <2>1, <2>2, FS_Subset
    <2> QED
      BY <1>1, <1>2, <2>1, <2>3
  <1> QED
    BY <1>1, <1>2, <1>3, <1>4

LEMMA LoadType ==
    ASSUME TypeOK
    PROVE  /\ Len(queue) \in Nat /\ Len(pipe) \in Nat /\ unchokes \in Nat /\ Slack \in Nat
           /\ IsFiniteSet(Busy) /\ Cardinality(Busy) \in Nat
           /\ IsFiniteSet(Fetchers) /\ Cardinality(Fetchers) \in Nat
           /\ Load = Len(queue) + Cardinality(Busy) + Len(pipe)
  <1>1. Len(queue) \in Nat /\ Len(pipe) \in Nat /\ unchokes \in Nat
    BY DEF TypeOK
  <1>2. Slack \in Nat
    BY ConstantsAssumption, FS_CardinalityType DEF Slack
  <1>3. IsFiniteSet(Busy)
    BY ConstantsAssumption, FS_Subset DEF Busy
  <1>4. IsFiniteSet(Fetchers)
    BY ConstantsAssumption, FS_Subset DEF Fetchers
  <1> QED
    BY <1>1, <1>2, <1>3, <1>4, FS_CardinalityType DEF Load, Busy

LEMMA LoadTypeNext ==
    ASSUME TypeOK'
    PROVE  /\ Cardinality(Busy') \in Nat /\ Cardinality(Fetchers') \in Nat
           /\ Load' = Len(queue') + Cardinality(Busy') + Len(pipe')
  <1>1. IsFiniteSet(Busy') /\ IsFiniteSet(Fetchers')
    BY ConstantsAssumption, FS_Subset DEF Busy, Fetchers
  <1> QED
    BY <1>1, FS_CardinalityType DEF Load, Busy

LEMMA InitLoad == Init => LoadInv
  <1> SUFFICES ASSUME Init PROVE LoadInv
    OBVIOUS
  <1>1. TypeOK
    BY InitType
  <1>2. Busy = {} /\ Len(queue) = 0 /\ Len(pipe) = 0 /\ unchokes = 0
    BY DEF Init, Busy
  <1>3. Load = 0
    BY <1>1, <1>2, LoadType, FS_EmptySet
  <1>4. Cardinality(Fetchers) <= Slack
    <2>1. CASE "unasked" \in Faults
      <3>1. Fetchers \subseteq Peers
        BY DEF Fetchers
      <3> QED
        BY <2>1, <3>1, ConstantsAssumption, FS_Subset DEF Slack
    <2>2. CASE "unasked" \notin Faults
      <3>1. Fetchers = {}
        BY <2>2 DEF Init, Fetchers, Active
      <3> QED
        BY <2>2, <3>1, FS_EmptySet DEF Slack
    <2> QED
      BY <2>1, <2>2
  <1> QED
    BY <1>1, <1>2, <1>3, <1>4, LoadType DEF LoadInv

(* The peers that fetch after a step that changes what one of them fetches. *)
LEMMA FetchingBut ==
    ASSUME TypeOK, NEW p \in Peers,
           \A q \in Peers \ {p} : /\ current_piece'[q] = current_piece[q]
                                  /\ outstanding'[q] = outstanding[q]
    PROVE  /\ Cardinality(Fetchers') <= Cardinality(Fetchers) + 1
           /\ (Active(p)' => Active(p)) => Cardinality(Fetchers') <= Cardinality(Fetchers)
           /\ Active(p) /\ ~Active(p)' => Cardinality(Fetchers') + 1 <= Cardinality(Fetchers)
           /\ Cardinality(Fetchers') \in Nat
  <1>1. \A q \in Peers \ {p} : Active(q)' => Active(q)
    BY DEF Active
  <1>2. Fetchers' \subseteq Fetchers \cup {p}
    BY <1>1 DEF Fetchers
  <1>3. (Active(p)' => Active(p)) => Fetchers' \subseteq Fetchers
    BY <1>1 DEF Fetchers
  <1>4. Active(p) /\ ~Active(p)' => p \in Fetchers /\ p \notin Fetchers'
    BY DEF Fetchers
  <1>5. IsFiniteSet(Fetchers)
    BY LoadType
  <1> HIDE DEF Fetchers, Active
  <1> QED
    BY <1>2, <1>3, <1>4, <1>5, SetSizes

LEMMA PeerStepLoad ==
    ASSUME TypeOK, TypeOK', LoadInv, NEW p \in Peers, PeerStep(p)
    PROVE  LoadInv'
  <1> USE DEF peerVars, taskVars
  <1>1. worker' = worker /\ pipe' = pipe
    BY DEF PeerStep, connect_to_peer, connection_failed, on_peer_connected, handshake_accepted,
       handshake_rejected, receive_bitfield, receive_have, receive_unchoke, receive_unknown,
       piece_discarded, handle_piece, piece_complete
  <1>2. Cardinality(Busy') = Cardinality(Busy) /\ Len(pipe') = Len(pipe)
    BY <1>1 DEF Busy
  <1>3. ASSUME Len(queue') = Len(queue), unchokes' = unchokes, UNCHANGED fetchVars
        PROVE  LoadInv'
    <2>1. Fetchers' = Fetchers
      BY <1>3 DEF Fetchers, Active, fetchVars
    <2> QED
      BY <1>2, <1>3, <2>1, LoadType DEF LoadInv, Load, Slack, Busy
  <1>4. ASSUME Len(queue') = Len(queue), unchokes' = unchokes,
               Cardinality(Fetchers') <= Cardinality(Fetchers)
        PROVE  LoadInv'
    <2>1. Load' = Load
      BY <1>2, <1>4 DEF Load, Busy
    <2>2. Load \in Nat /\ Cardinality(Fetchers) \in Nat /\ unchokes \in Nat /\ Slack \in Nat
      BY LoadType
    <2>3. Cardinality(Fetchers') \in Nat
      BY LoadTypeNext
    <2> QED
      BY <1>4, <2>1, <2>2, <2>3 DEF LoadInv, Slack
  <1>5. CASE receive_unchoke(p)
    <2>1. queue' = queue /\ unchokes' = unchokes + 1 /\ AssignPiece(p, bitfield, requested)
      BY <1>5 DEF receive_unchoke
    <2>2. Cardinality(Fetchers') <= Cardinality(Fetchers) + 1 /\ Cardinality(Fetchers') \in Nat
      BY <2>1, Assigned, FetchingBut
    <2>3. Load' = Load
      BY <1>2, <2>1 DEF Load, Busy
    <2>4. Load \in Nat /\ Cardinality(Fetchers) \in Nat /\ unchokes \in Nat /\ Slack \in Nat
      BY LoadType
    <2> QED
      BY <2>1, <2>2, <2>3, <2>4 DEF LoadInv, Slack
  <1>6. CASE handshake_rejected(p)
    <2>1. /\ queue' = queue /\ unchokes' = unchokes
          /\ \A q \in Peers \ {p} : /\ current_piece'[q] = current_piece[q]
                                    /\ outstanding'[q] = outstanding[q]
          /\ current_piece'[p] = None
      BY <1>6 DEF handshake_rejected, TypeOK
    <2>2. ~Active(p)'
      BY <2>1 DEF Active
    <2>3. Cardinality(Fetchers') <= Cardinality(Fetchers)
      BY <2>1, <2>2, FetchingBut
    <2> QED
      BY <1>4, <2>1, <2>3
  <1>7. ASSUME NEW i \in Pieces, NEW b \in Blocks,
               piece_discarded(p, i, b) \/ handle_piece(p, i, b)
        PROVE  LoadInv'
    <2>1. /\ queue' = queue /\ unchokes' = unchokes /\ current_piece' = current_piece
          /\ \A q \in Peers \ {p} : outstanding'[q] = outstanding[q]
          /\ outstanding'[p] \subseteq outstanding[p]
      BY <1>7 DEF piece_discarded, handle_piece, TypeOK
    <2>2. Active(p)' => Active(p)
      BY <2>1 DEF Active
    <2>3. Cardinality(Fetchers') <= Cardinality(Fetchers)
      BY <2>1, <2>2, FetchingBut
    <2> QED
      BY <1>4, <2>1, <2>3
  <1>8. ASSUME NEW i \in Pieces, NEW b \in Blocks, piece_complete(p, i, b)
        PROVE  LoadInv'
    <2>1. /\ unchokes' = unchokes
          /\ \A q \in Peers \ {p} : /\ current_piece'[q] = current_piece[q]
                                    /\ outstanding'[q] = outstanding[q]
          /\ current_piece[p] = i /\ current_piece'[p] = None
          /\ Asked(p, i, b)
      BY <1>8 DEF piece_complete, TypeOK
    <2>2. Len(queue') = Len(queue) + 1
      BY <1>8 DEF piece_complete, TypeOK
    <2>3. Active(p) /\ ~Active(p)'
      BY <2>1 DEF Active, Asked, None, Pieces
    <2>4. Cardinality(Fetchers') + 1 <= Cardinality(Fetchers) /\ Cardinality(Fetchers') \in Nat
      BY <2>1, <2>3, FetchingBut
    <2>5. /\ Len(queue) \in Nat /\ Len(pipe) \in Nat /\ Cardinality(Busy) \in Nat
          /\ Cardinality(Fetchers) \in Nat /\ unchokes \in Nat /\ Slack \in Nat
          /\ Load = Len(queue) + Cardinality(Busy) + Len(pipe)
      BY LoadType
    <2>6. Load' = Load + 1
      BY <1>2, <2>2, <2>5 DEF Load, Busy
    <2>7. Slack' = Slack
      BY DEF Slack
    <2>8. Load + Cardinality(Fetchers) <= unchokes + Slack
      BY DEF LoadInv
    <2>9. Load' + Cardinality(Fetchers') <= unchokes + Slack
      BY <2>4, <2>5, <2>6, <2>8
    <2> QED
      BY <2>1, <2>7, <2>9 DEF LoadInv
  <1> QED
    BY <1>3, <1>5, <1>6, <1>7, <1>8 DEF PeerStep, connect_to_peer, connection_failed,
       on_peer_connected, handshake_accepted, receive_bitfield, receive_have, receive_unknown

LEMMA WorkerStepLoad ==
    ASSUME TypeOK, TypeOK', LoadInv, NEW w \in Workers, WorkerStep(w)
    PROVE  LoadInv'
  <1>1. unchokes' = unchokes
    BY DEF WorkerStep, take_verify, take_garbage, take_disk, task_sha1_verify, task_disk_write,
       disk_write_fails, peerVars
  <1>2. Takes(w) \/ Reports(w) \/ UNCHANGED <<fetchVars, torrentVars, taskVars>>
    BY WorkerSteps
  <1>3. UNCHANGED fetchVars
    BY <1>2 DEF Takes, Reports
  <1>4. Cardinality(Fetchers') = Cardinality(Fetchers)
    BY <1>3 DEF Fetchers, Active, fetchVars
  <1>5. /\ Len(queue) \in Nat /\ Len(pipe) \in Nat /\ Cardinality(Busy) \in Nat
        /\ IsFiniteSet(Busy)
        /\ Cardinality(Fetchers) \in Nat /\ unchokes \in Nat /\ Slack \in Nat
        /\ Load = Len(queue) + Cardinality(Busy) + Len(pipe)
    BY LoadType
  <1>6. Load' = Len(queue') + Cardinality(Busy') + Len(pipe') /\ Cardinality(Busy') \in Nat
    BY LoadTypeNext
  <1>7. Load' \in Nat /\ Load' <= Load
    <2>1. CASE Takes(w)
      <3>1. Len(queue') = Len(queue) - 1 /\ Len(pipe') = Len(pipe) /\ Len(queue') \in Nat
        BY <2>1, <1>5 DEF Takes, TypeOK
      <3>2. Busy' \subseteq Busy \cup {w}
        BY <2>1 DEF Takes, Busy, TypeOK
      <3>3. Cardinality(Busy') <= Cardinality(Busy) + 1
        BY <1>5, <3>2, SetSizes
      <3> QED
        BY <1>5, <1>6, <3>1, <3>3
    <2>2. CASE Reports(w)
      <3>1. Len(pipe') = Len(pipe) + 1 /\ Len(queue') = Len(queue)
        BY <2>2 DEF Reports, TypeOK
      <3>2. Busy' \subseteq Busy \cup {w} /\ w \in Busy /\ w \notin Busy'
        BY <2>2 DEF Reports, Busy, TypeOK, Idle
      <3>3. Cardinality(Busy') + 1 <= Cardinality(Busy)
        BY <1>5, <3>2, SetSizes
      <3> QED
        BY <1>5, <1>6, <3>1, <3>3
    <2>3. CASE UNCHANGED taskVars
      <3>1. Busy' = Busy /\ queue' = queue /\ pipe' = pipe
        BY <2>3 DEF taskVars, Busy
      <3> QED
        BY <1>5, <1>6, <3>1
    <2> QED
      BY <1>2, <2>1, <2>2, <2>3
  <1>8. Load \in Nat
    BY <1>5
  <1> QED
    BY <1>1, <1>4, <1>5, <1>7, <1>8 DEF LoadInv, Slack

LEMMA ResultStepLoad ==
    ASSUME TypeOK, TypeOK', ConnectedInv, LoadInv, ResultStep
    PROVE  LoadInv'
  <1> DEFINE p == pipe[1].peer
  <1>1. /\ Len(queue) \in Nat /\ Len(pipe) \in Nat /\ Cardinality(Busy) \in Nat
        /\ Cardinality(Fetchers) \in Nat /\ unchokes \in Nat /\ Slack \in Nat
        /\ Load = Len(queue) + Cardinality(Busy) + Len(pipe)
    BY LoadType
  <1>2. Load' = Len(queue') + Cardinality(Busy') + Len(pipe')
    BY LoadTypeNext
  <1>3. p \in Peers /\ worker' = worker /\ unchokes' = unchokes /\ Len(pipe') = Len(pipe) - 1
    <2>1. p \in Peers /\ worker' = worker /\ unchokes' = unchokes
      BY ResultReaders DEF peerVars
    <2>2. 1 \in DOMAIN pipe /\ pipe' = Tail(pipe)
      BY ResultReaders
    <2>3. Len(pipe') = Len(pipe) - 1
      BY <2>2 DEF TypeOK
    <2> QED
      BY <2>1, <2>3
  <1>4. Cardinality(Busy') = Cardinality(Busy)
    BY <1>3 DEF Busy
  <1>5. CASE sha1_succeeded /\ UNCHANGED fetchVars
    <2>1. Len(queue') = Len(queue) + 1
      BY <1>5 DEF sha1_succeeded, TypeOK
    <2>2. Cardinality(Fetchers') = Cardinality(Fetchers)
      BY <1>5 DEF Fetchers, Active, fetchVars
    <2>3. Load' = Load
      BY <1>1, <1>2, <1>3, <1>4, <2>1
    <2> QED
      BY <1>3, <2>2, <2>3 DEF LoadInv, Slack
  <1>6. ASSUME NEW have, NEW asked, queue' = queue, AssignPiece(p, have, asked)
        PROVE  LoadInv'
    <2>1. Cardinality(Fetchers') <= Cardinality(Fetchers) + 1 /\ Cardinality(Fetchers') \in Nat
      BY <1>3, <1>6, Assigned, FetchingBut
    <2>2. Load' = Load - 1 /\ Load \in Nat
      BY <1>1, <1>2, <1>3, <1>4, <1>6
    <2>3. /\ Cardinality(Fetchers) \in Nat /\ unchokes \in Nat /\ Slack \in Nat
          /\ Load + Cardinality(Fetchers) <= unchokes + Slack /\ unchokes' = unchokes
      BY <1>1, <1>3 DEF LoadInv
    <2>4. Load' + Cardinality(Fetchers') <= unchokes' + Slack
      BY <2>1, <2>2, <2>3
    <2> QED
      BY <2>4 DEF LoadInv, Slack
  <1> HIDE DEF p
  <1>7. \/ sha1_succeeded /\ UNCHANGED fetchVars
        \/ queue' = queue /\ AssignPiece(p, bitfield, requested \ {current_piece[p]})
        \/ queue' = queue /\ AssignPiece(p, bitfield, requested \ {pipe[1].piece})
        \/ queue' = queue /\ AssignPiece(p, bitfield', requested)
    BY ResultReaders DEF p
  <1> QED
    BY <1>5, <1>6, <1>7

LEMMA NextLoad ==
    TypeOK /\ TypeOK' /\ ConnectedInv /\ LoadInv /\ [Next]_vars => LoadInv'
  <1> SUFFICES ASSUME TypeOK, TypeOK', ConnectedInv, LoadInv, [Next]_vars PROVE LoadInv'
    OBVIOUS
  <1>1. CASE stack_reused \/ UNCHANGED vars
    <2>1. UNCHANGED <<unchokes, fetchVars, queue, worker, pipe>>
      BY <1>1 DEF stack_reused, vars, peerVars, taskVars
    <2>2. Load' = Load /\ Fetchers' = Fetchers
      BY <2>1 DEF Load, Fetchers, Active, fetchVars
    <2> QED
      BY <2>1, <2>2 DEF LoadInv, Slack
  <1> QED
    BY <1>1, PeerStepLoad, WorkerStepLoad, ResultStepLoad DEF Next

(* However often hashes are wrong, writes fail and peers are refused: the    *)
(* tasks and results of a torrent that are on their way are no more than    *)
(* the UNCHOKEs that have come, and one for each peer that may send blocks  *)
(* nobody asked for.                                                        *)
THEOREM WorkComesFromUnchokes == Spec => []TasksPerUnchoke
  <1>1. TypeOK /\ LoadInv => TasksPerUnchoke
    <2> SUFFICES ASSUME TypeOK, LoadInv PROVE TasksPerUnchoke
      OBVIOUS
    <2>1. Load \in Nat /\ Cardinality(Fetchers) \in Nat /\ unchokes \in Nat /\ Slack \in Nat
      BY LoadType
    <2>2. Load <= unchokes + Slack
      BY <2>1 DEF LoadInv
    <2> QED
      BY <2>2 DEF TasksPerUnchoke, Slack
  <1>2. AbandonInv => ConnectedInv
    BY DEF AbandonInv
  <1> QED
    BY <1>1, <1>2, InitLoad, NextLoad, TypeCorrect, AbandonInvariant, PTL DEF Spec

=============================================================================
