------------------------------ MODULE PeerPool ------------------------------
(***************************************************************************)
(* The peers a torrent knows and those it talks to (announcer.c): the pool *)
(* of addresses that trackers fill, the timer that connects to them, the   *)
(* eviction of those that fail, and the swarm of connected peers.          *)
(*                                                                         *)
(* peer_pool is an array of pointers to PoolSize objects.  Only the first  *)
(* pool_count entries are the pool; the pointers behind them are the       *)
(* objects that peer_pool_add will take next.                              *)
(***************************************************************************)
EXTENDS Integers, Sequences, FiniteSets, SequencesExt

CONSTANTS
    Addresses,   \* the addresses trackers answer with (ip and port)
    PoolSize,    \* length of peer_pool (200)
    MaxPeers,    \* length of peers (50)
    MaxFailures  \* failed tries after which a peer is evicted (3)

ASSUME PeerPoolAssumption ==
    /\ PoolSize \in Nat \ {0}
    /\ MaxPeers \in Nat \ {0}
    /\ MaxFailures \in Nat \ {0}

Objects == 1 .. PoolSize
NoAddress == "none"
PeerStates == {"NOT_CONNECTED", "CONNECTING", "HANDSHAKING", "CONNECTED"}

VARIABLES
    process,       \* "running", or "undefined" once memory was overwritten
    scan,          \* the place pick_peer is at, 0 outside of ANN_refill_peers
    peer_pool,     \* swarm->peer_pool, all of it
    pool_count,    \* swarm->pool_count
    peers,         \* swarm->peers[0 .. peers_count - 1]
    address,       \* peer->ip and peer->port
    peer_state,    \* peer->peer_state
    waiting,       \* whether peer->last_tried is less than 300 seconds ago
    failed_tries,  \* peer->failed_tries, up to MaxFailures
    sock,          \* the event peer->sock is registered for, or "none"
    stray,         \* objects with another socket registered for EPOLLOUT
    moved,         \* history: an eviction moved the last entry into a gap
    reconnected    \* history: a peer was connected during its handshake

poolVars == <<scan, peer_pool, pool_count>>
objectVars == <<address, peer_state, waiting, failed_tries, sock, stray>>
historyVars == <<moved, reconnected>>
vars == <<process, poolVars, peers, objectVars, historyVars>>

(* init_TR_swarm; the arena is zeroed memory.                              *)
Init ==
    /\ process = "running"
    /\ scan = 0
    /\ peer_pool = [i \in 1 .. PoolSize |-> i]
    /\ pool_count = 0
    /\ peers = <<>>
    /\ address = [o \in Objects |-> NoAddress]
    /\ peer_state = [o \in Objects |-> "NOT_CONNECTED"]
    /\ waiting = [o \in Objects |-> FALSE]
    /\ failed_tries = [o \in Objects |-> 0]
    /\ sock = [o \in Objects |-> "none"]
    /\ stray = {}
    /\ moved = FALSE
    /\ reconnected = FALSE

Pool == {peer_pool[i] : i \in 1 .. pool_count}
Known == {address[o] : o \in Pool}

(* Between two handlers of the event loop.                                 *)
Ready == process = "running" /\ scan = 0

(* The number of failed tries, no longer counted once it means eviction.   *)
OneMore(n) == IF n < MaxFailures THEN n + 1 ELSE n

-----------------------------------------------------------------------------
(* parse_peers, for one of the peers in an answer                          *)

(* Definitions named X_... are the mistakes the properties are tried on; no *)
(* action uses them.  Here: an address that is known is added again.       *)
peer_pool_add_known(a) ==
    /\ Ready
    /\ pool_count < PoolSize
    /\ LET o == peer_pool[pool_count + 1] IN
          /\ address' = [address EXCEPT ![o] = a]
          /\ peer_state' = [peer_state EXCEPT ![o] = "NOT_CONNECTED"]
    /\ pool_count' = pool_count + 1
    /\ UNCHANGED <<process, scan, peer_pool, peers, waiting, failed_tries, sock, stray, historyVars>>

(* peer_pool_add takes the object behind the last entry.  Of what it was    *)
(* before only the address and the state are set anew.                     *)
peer_pool_add(a) ==
    /\ Ready
    /\ pool_count < PoolSize
    /\ a \notin Known
    /\ LET o == peer_pool[pool_count + 1] IN
          /\ address' = [address EXCEPT ![o] = a]
          /\ peer_state' = [peer_state EXCEPT ![o] = "NOT_CONNECTED"]
    /\ pool_count' = pool_count + 1
    /\ UNCHANGED <<process, scan, peer_pool, peers, waiting, failed_tries, sock, stray, historyVars>>

-----------------------------------------------------------------------------
(* ANN_refill_peers.  A peer that pick_peer has returned is connecting or   *)
(* waiting afterwards, so that its calls go through the pool once.  They    *)
(* are one handler: nothing else happens while scan # 0.                    *)

refill_starts ==
    /\ Ready
    /\ Len(peers) < MaxPeers
    /\ pool_count > 0
    /\ scan' = 1
    /\ UNCHANGED <<process, peer_pool, pool_count, peers, objectVars, historyVars>>

refill_ends ==
    /\ process = "running"
    /\ scan > pool_count
    /\ scan' = 0
    /\ UNCHANGED <<process, peer_pool, pool_count, peers, objectVars, historyVars>>

(* pick_peer looks at object o.                                            *)
At(o) ==
    /\ process = "running"
    /\ scan \in 1 .. pool_count
    /\ peer_pool[scan] = o

Passed(o) == peer_state[o] \in {"CONNECTED", "CONNECTING"} \/ waiting[o]

(* NULL is returned at the first peer that cannot be taken.                *)
pick_passes_none(o) ==
    /\ At(o)
    /\ Passed(o)
    /\ scan' = 0
    /\ UNCHANGED <<process, peer_pool, pool_count, peers, objectVars, historyVars>>

pick_passes(o) ==
    /\ At(o)
    /\ Passed(o)
    /\ scan' = scan + 1
    /\ UNCHANGED <<process, peer_pool, pool_count, peers, objectVars, historyVars>>

(* The pool ends an entry earlier and the last one is not moved.           *)
pick_evicts_last(o) ==
    /\ At(o)
    /\ ~Passed(o)
    /\ failed_tries[o] >= MaxFailures
    /\ pool_count' = pool_count - 1
    /\ UNCHANGED <<process, scan, peer_pool, peers, objectVars, historyVars>>

(* The last entry takes the place; its pointer is still behind the pool.   *)
pick_evicts(o) ==
    /\ At(o)
    /\ ~Passed(o)
    /\ failed_tries[o] >= MaxFailures
    /\ peer_pool' = [peer_pool EXCEPT ![scan] = peer_pool[pool_count]]
    /\ pool_count' = pool_count - 1
    /\ moved' = (moved \/ scan # pool_count)
    /\ UNCHANGED <<process, scan, peers, objectVars, reconnected>>

(* connect_to_peer.  The socket the peer had is not closed.                *)
Connects(o) ==
    /\ At(o)
    /\ ~Passed(o)
    /\ failed_tries[o] < MaxFailures
    /\ scan' = scan + 1
    /\ stray' = IF sock[o] = "EPOLLOUT" THEN stray \cup {o} ELSE stray
    /\ UNCHANGED <<process, peer_pool, pool_count, peers, address, failed_tries, moved>>

connect_to_peer(o) ==
    /\ Connects(o)
    /\ peer_state' = [peer_state EXCEPT ![o] = "CONNECTING"]
    /\ sock' = [sock EXCEPT ![o] = "EPOLLOUT"]
    /\ reconnected' = (reconnected \/ peer_state[o] = "HANDSHAKING")
    /\ UNCHANGED waiting

(* connect fails at once: neither the state nor failed_tries changes.      *)
connect_fails(o) ==
    /\ Connects(o)
    /\ sock' = [sock EXCEPT ![o] = "none"]
    /\ waiting' = [waiting EXCEPT ![o] = TRUE]
    /\ reconnected' = (reconnected \/ peer_state[o] = "HANDSHAKING")
    /\ UNCHANGED peer_state

-----------------------------------------------------------------------------
(* Events of the peers' sockets                                            *)

(* EPOLLOUT for a socket of the peer: on_peer_connected asks peer->sock.    *)
Writable(o) == Ready /\ (sock[o] = "EPOLLOUT" \/ o \in stray)

(* The peer is not connected and waits.                                    *)
Fails(o) ==
    /\ peer_state' = [peer_state EXCEPT ![o] = "NOT_CONNECTED"]
    /\ failed_tries' = [failed_tries EXCEPT ![o] = OneMore(@)]
    /\ waiting' = [waiting EXCEPT ![o] = TRUE]
    /\ sock' = [sock EXCEPT ![o] = "none"]
    /\ UNCHANGED <<address, stray>>

connection_failed(o) ==
    /\ Writable(o)
    /\ Fails(o)
    /\ UNCHANGED <<process, poolVars, peers, historyVars>>

(* A peer more than the array holds.                                       *)
on_peer_connected_full(o) ==
    /\ Writable(o)
    /\ Len(peers) <= MaxPeers
    /\ peers' = Append(peers, o)
    /\ peer_state' = [peer_state EXCEPT ![o] = "HANDSHAKING"]
    /\ sock' = [sock EXCEPT ![o] = IF @ = "none" THEN "none" ELSE "EPOLLIN"]
    /\ UNCHANGED <<process, poolVars, address, waiting, failed_tries, stray, historyVars>>

on_peer_connected(o) ==
    /\ Writable(o)
    /\ Len(peers) < MaxPeers
    /\ peers' = Append(peers, o)
    /\ peer_state' = [peer_state EXCEPT ![o] = "HANDSHAKING"]
    /\ sock' = [sock EXCEPT ![o] = IF @ = "none" THEN "none" ELSE "EPOLLIN"]
    /\ UNCHANGED <<process, poolVars, address, waiting, failed_tries, stray, historyVars>>

(* peers_count is not compared: it lies behind the array and is written.   *)
swarm_overflows(o) ==
    /\ Writable(o)
    /\ Len(peers) >= MaxPeers
    /\ process' = "undefined"
    /\ UNCHANGED <<poolVars, peers, objectVars, historyVars>>

handle_handshake(o) ==
    /\ Ready
    /\ peer_state[o] = "HANDSHAKING"
    /\ sock[o] = "EPOLLIN"
    /\ peer_state' = [peer_state EXCEPT ![o] = "CONNECTED"]
    /\ UNCHANGED <<process, poolVars, peers, address, waiting, failed_tries, sock, stray, historyVars>>

(* The first place only: the peer is overwritten, its copy is not counted.  *)
WithoutPeer_counted(o) ==
    [k \in DOMAIN peers |-> IF peers[k] = o THEN Last(peers) ELSE peers[k]]

(* The last entry of peers takes the first place of o.                     *)
WithoutPeer(o) ==
    LET k == SelectInSeq(peers, LAMBDA p : p = o) IN
    IF k = 0 THEN peers ELSE Front([peers EXCEPT ![k] = Last(peers)])

(* disconnect_peer: a handshake that is refused or cut off.  Nothing calls  *)
(* it for a connected peer, which stays in the swarm when it closes.        *)
disconnect_peer(o) ==
    /\ Ready
    /\ peer_state[o] = "HANDSHAKING"
    /\ peers' = WithoutPeer(o)
    /\ Fails(o)
    /\ UNCHANGED <<process, poolVars, historyVars>>

(* handle_sha1_result: a piece of a connected peer fails its check.         *)
hash_failed(o) ==
    /\ Ready
    /\ peer_state[o] = "CONNECTED"
    /\ failed_tries' = [failed_tries EXCEPT ![o] = OneMore(@)]
    /\ UNCHANGED <<process, poolVars, peers, address, peer_state, waiting, sock, stray, historyVars>>

(* 300 seconds are over.                                                   *)
time_passes(o) ==
    /\ Ready
    /\ waiting[o]
    /\ waiting' = [waiting EXCEPT ![o] = FALSE]
    /\ UNCHANGED <<process, poolVars, peers, address, peer_state, failed_tries, sock, stray, historyVars>>

-----------------------------------------------------------------------------
Refill ==
    \/ refill_starts
    \/ refill_ends
    \/ \E o \in Objects :
          pick_passes(o) \/ pick_evicts(o) \/ connect_to_peer(o) \/ connect_fails(o)

PeerStep(o) ==
    \/ connection_failed(o)
    \/ on_peer_connected(o)
    \/ swarm_overflows(o)
    \/ handle_handshake(o)
    \/ disconnect_peer(o)
    \/ hash_failed(o)

Next ==
    \/ \E a \in Addresses : peer_pool_add(a)
    \/ Refill
    \/ \E o \in Objects : PeerStep(o) \/ time_passes(o)

Spec == Init /\ [][Next]_vars

(* The peer timer goes on, and its handler ends.                           *)
Fairness == WF_vars(Refill)

FairSpec == Spec /\ Fairness

-----------------------------------------------------------------------------
(* Properties                                                              *)

(* Types of all variables.                                                 *)
TypeOK ==
    /\ process \in {"running", "undefined"}
    /\ scan \in 0 .. PoolSize + 1
    /\ peer_pool \in [1 .. PoolSize -> Objects]
    /\ pool_count \in 0 .. PoolSize
    /\ peers \in Seq(Objects) /\ Len(peers) <= MaxPeers
    /\ address \in [Objects -> Addresses \cup {NoAddress}]
    /\ peer_state \in [Objects -> PeerStates]
    /\ waiting \in [Objects -> BOOLEAN]
    /\ failed_tries \in [Objects -> 0 .. MaxFailures]
    /\ sock \in [Objects -> {"none", "EPOLLOUT", "EPOLLIN"}]
    /\ stray \subseteq Objects
    /\ moved \in BOOLEAN /\ reconnected \in BOOLEAN

(* No address is in the pool twice and no two entries share an object, as   *)
(* long as no eviction has moved an entry (the pointer it leaves behind is  *)
(* what peer_pool_add takes next).                                          *)
PoolSound ==
    ~moved => \A i, j \in 1 .. pool_count :
                  i # j => /\ peer_pool[i] # peer_pool[j]
                           /\ address[peer_pool[i]] # address[peer_pool[j]]

(* The swarm holds the peers in or after their handshake, each once and     *)
(* each from the pool, unless such an eviction happened or a peer was       *)
(* connected anew during its handshake.                                     *)
SwarmSound ==
    ~moved /\ ~reconnected =>
        /\ {peers[k] : k \in DOMAIN peers} =
              {o \in Objects : peer_state[o] \in {"HANDSHAKING", "CONNECTED"}}
        /\ \A j, k \in DOMAIN peers : peers[j] = peers[k] => j = k
        /\ \A k \in DOMAIN peers : peers[k] \in Pool

(* An address is forgotten only after the failures that evict it, by an    *)
(* eviction of its own, unless an earlier eviction moved an entry.          *)
ForgottenOnlyThus ==
    [][~moved => \A o \in Pool :
          address[o] \notin Known' =>
              /\ failed_tries[o] = MaxFailures
              /\ peer_state[o] = "NOT_CONNECTED"
              /\ ~waiting[o]]_vars

(* A known peer that is not connected and need not wait is tried or         *)
(* forgotten, unless the swarm fills up or memory is overwritten: peers     *)
(* that cannot be taken do not keep the others from their turn.             *)
EveryPeerTried ==
    \A o \in Objects :
        o \in Pool /\ peer_state[o] = "NOT_CONNECTED" /\ ~waiting[o]
            ~> \/ o \notin Pool
               \/ peer_state[o] # "NOT_CONNECTED"
               \/ waiting[o]
               \/ Len(peers) = MaxPeers
               \/ process # "running"

=============================================================================
