--------------------------- MODULE PeerPoolProofs ---------------------------
(***************************************************************************)
(* Proofs about PeerPool, for any addresses and any lengths of its arrays.  *)
(*                                                                         *)
(* PoolSound and SwarmSound speak of what the pool and the swarm hold; that *)
(* they stay so rests on the objects outside of them.  Until an eviction    *)
(* moves an entry, object i is the one at place i (PoolInv), so that those  *)
(* behind the pool are no peer's and unconnected, and an object has one     *)
(* socket in flight, which is the one it is connecting with                *)
(* (ConnectionsInv): a peer enters the swarm only out of CONNECTING.        *)
(***************************************************************************)
EXTENDS PeerPool, SequenceTheorems, WellFoundedInduction, TLAPS

PoolInv ==
    /\ \A i \in 1 .. PoolSize : peer_pool[i] = i
    /\ \A i, j \in 1 .. pool_count : address[i] = address[j] => i = j

(* A peer in its handshake has not failed as often as evicts it, so that no *)
(* eviction takes a peer out of the swarm.                                  *)
ConnectionsInv ==
    /\ stray = {}
    /\ \A o \in Objects :
          /\ sock[o] = "EPOLLOUT" => peer_state[o] = "CONNECTING"
          /\ peer_state[o] \in {"CONNECTING", "HANDSHAKING"} => failed_tries[o] < MaxFailures
          /\ o > pool_count => peer_state[o] = "NOT_CONNECTED"

InSwarm(o) == \E k \in DOMAIN peers : peers[k] = o

SwarmInv ==
    /\ \A o \in Objects : InSwarm(o) <=> peer_state[o] \in {"HANDSHAKING", "CONNECTED"}
    /\ \A j, k \in DOMAIN peers : peers[j] = peers[k] => j = k

IInv ==
    /\ TypeOK
    /\ ~moved => /\ PoolInv
                 /\ ConnectionsInv
                 /\ ~reconnected => SwarmInv

-----------------------------------------------------------------------------
(* The swarm without a peer                                                 *)

LEMMA Least ==
    ASSUME NEW S, S \subseteq Nat, S # {}
    PROVE  Min(S) \in S
<1> DEFINE R == OpToRel(<, Nat)
<1>1. IsWellFoundedOn(R, Nat)
  BY NatLessThanWellFounded
<1>2. \A x \in Nat, y \in Nat : y < x => <<y, x>> \in R
  BY DEF OpToRel
<1> HIDE DEF R
<1>3. \E x \in S : \A y \in S : ~ (<<y, x>> \in R)
  BY <1>1, WFMin
<1>4. PICK x \in S : \A y \in S : ~ (<<y, x>> \in R)
  BY <1>3
<1>5. ASSUME NEW y \in S PROVE x <= y
  <2>1. x \in Nat /\ y \in Nat /\ ~ (y < x)
    BY <1>2, <1>4
  <2> QED
    BY <2>1
<1> QED
  BY <1>5 DEF Min

LEMMA WithoutPeerIs ==
    ASSUME peers \in Seq(Objects), NEW o
    PROVE  \E k : \/ k = 0 /\ WithoutPeer(o) = peers /\ \A j \in DOMAIN peers : peers[j] # o
                  \/ /\ k \in DOMAIN peers /\ peers[k] = o
                     /\ WithoutPeer(o) = Front([peers EXCEPT ![k] = Last(peers)])
<1> DEFINE I == {i \in 1 .. Len(peers) : peers[i] = o}
           k == IF I # {} THEN Min(I) ELSE 0
<1>1. WithoutPeer(o) = IF k = 0 THEN peers ELSE Front([peers EXCEPT ![k] = Last(peers)])
  BY DEF WithoutPeer, SelectInSeq
<1>2. I \subseteq DOMAIN peers /\ I \subseteq Nat \ {0}
  OBVIOUS
<1>3. CASE I = {}
  BY <1>1, <1>3
<1>4. CASE I # {}
  <2> HIDE DEF I
  <2>1. Min(I) \in I
    BY <1>2, <1>4, Least
  <2>2. k \in I /\ k # 0
    BY <1>2, <1>4, <2>1
  <2>3. k \in DOMAIN peers /\ peers[k] = o
    BY <1>2, <2>2 DEF I
  <2> QED
    BY <1>1, <2>2, <2>3
<1> QED
  BY <1>3, <1>4

(* A peer that is in the swarm once is removed, and nobody else is.          *)
LEMMA PeerRemoved ==
    ASSUME peers \in Seq(Objects), NEW o
    PROVE  /\ WithoutPeer(o) \in Seq(Objects) /\ Len(WithoutPeer(o)) <= Len(peers)
           /\ (\A i, j \in DOMAIN peers : peers[i] = peers[j] => i = j) =>
                 /\ \A i, j \in DOMAIN WithoutPeer(o) :
                       WithoutPeer(o)[i] = WithoutPeer(o)[j] => i = j
                 /\ \A p : (\E j \in DOMAIN WithoutPeer(o) : WithoutPeer(o)[j] = p) <=>
                           p # o /\ \E j \in DOMAIN peers : peers[j] = p
<1>1. PICK k : \/ k = 0 /\ WithoutPeer(o) = peers /\ \A j \in DOMAIN peers : peers[j] # o
               \/ /\ k \in DOMAIN peers /\ peers[k] = o
                  /\ WithoutPeer(o) = Front([peers EXCEPT ![k] = Last(peers)])
  BY WithoutPeerIs
<1>2. CASE WithoutPeer(o) = peers /\ \A j \in DOMAIN peers : peers[j] # o
  BY <1>2
<1>3. CASE /\ k \in DOMAIN peers /\ peers[k] = o
           /\ WithoutPeer(o) = Front([peers EXCEPT ![k] = Last(peers)])
  <2> DEFINE n == Len(peers)
             s == [peers EXCEPT ![k] = Last(peers)]
             w == WithoutPeer(o)
  <2>1. n \in Nat \ {0} /\ DOMAIN peers = 1 .. n
    BY <1>3
  <2>2. /\ s \in Seq(Objects) /\ Len(s) = n
        /\ \A j \in 1 .. n : s[j] = IF j = k THEN peers[n] ELSE peers[j]
    BY <1>3, <2>1 DEF Last
  <2>3. w = SubSeq(s, 1, n - 1)
    BY <1>3, <2>2 DEF Front
  <2>4. /\ w \in Seq(Objects) /\ Len(w) = n - 1
        /\ \A j \in 1 .. n - 1 : w[j] = s[j]
    <3> HIDE DEF s, w, n
    <3>1. \A j \in 1 .. n - 1 : s[j] \in Objects
      BY <2>1, <2>2
    <3> QED
      BY <2>1, <2>3, <3>1, SubSeqProperties
  <2>5. \A j \in 1 .. n - 1 : w[j] = IF j = k THEN peers[n] ELSE peers[j]
    BY <2>1, <2>2, <2>4
  <2>6. DOMAIN w = 1 .. n - 1
    BY <2>1, <2>4
  <2> HIDE DEF n, w, s
  <2>7. ASSUME \A i, j \in 1 .. n : peers[i] = peers[j] => i = j
        PROVE  /\ \A i, j \in 1 .. n - 1 : w[i] = w[j] => i = j
               /\ \A p : (\E j \in 1 .. n - 1 : w[j] = p) <=>
                         p # o /\ \E j \in 1 .. n : peers[j] = p
    <3>1. \A i, j \in 1 .. n - 1 : w[i] = w[j] => i = j
      BY <2>1, <2>5, <2>7
    <3>2. ASSUME NEW j \in 1 .. n - 1
          PROVE  w[j] # o /\ \E i \in 1 .. n : peers[i] = w[j]
      BY <1>3, <2>1, <2>5, <2>7
    <3>3. ASSUME NEW j \in 1 .. n, peers[j] # o
          PROVE  \E i \in 1 .. n - 1 : w[i] = peers[j]
      <4>1. CASE j = n
        BY <1>3, <2>1, <2>5, <3>3, <4>1
      <4>2. CASE j # n
        BY <1>3, <2>1, <2>5, <3>3, <4>2
      <4> QED
        BY <4>1, <4>2
    <3> QED
      BY <3>1, <3>2, <3>3
  <2>8. w \in Seq(Objects) /\ Len(w) <= n
    BY <2>1, <2>4
  <2> QED
    BY <2>1, <2>6, <2>7, <2>8 DEF n, w
<1> QED
  BY <1>1, <1>2, <1>3

-----------------------------------------------------------------------------
(* Types                                                                    *)

LEMMA InitEstablishesTypes == Init => TypeOK
<1> SUFFICES ASSUME Init PROVE TypeOK
  OBVIOUS
<1>1. peers \in Seq(Objects) /\ Len(peers) = 0
  BY EmptySeq DEF Init
<1>2. /\ scan \in 0 .. PoolSize + 1 /\ pool_count \in 0 .. PoolSize
      /\ peer_pool \in [1 .. PoolSize -> Objects] /\ MaxPeers \in Nat
  BY PeerPoolAssumption DEF Init, Objects
<1>3. failed_tries \in [Objects -> 0 .. MaxFailures]
  BY PeerPoolAssumption DEF Init
<1>4. /\ address \in [Objects -> Addresses \cup {NoAddress}]
      /\ peer_state \in [Objects -> PeerStates]
      /\ waiting \in [Objects -> BOOLEAN]
      /\ sock \in [Objects -> {"none", "EPOLLOUT", "EPOLLIN"}]
  BY DEF Init, PeerStates
<1>5. process \in {"running", "undefined"} /\ stray \subseteq Objects
  BY DEF Init
<1>6. moved \in BOOLEAN /\ reconnected \in BOOLEAN
  BY DEF Init
<1> QED
  BY <1>1, <1>2, <1>3, <1>4, <1>5, <1>6 DEF TypeOK

LEMMA FailsTypes ==
    ASSUME TypeOK, NEW o \in Objects, Fails(o)
    PROVE  /\ peer_state' \in [Objects -> PeerStates]
           /\ failed_tries' \in [Objects -> 0 .. MaxFailures]
           /\ waiting' \in [Objects -> BOOLEAN]
           /\ sock' \in [Objects -> {"none", "EPOLLOUT", "EPOLLIN"}]
           /\ UNCHANGED <<address, stray>>
<1>1. \A n \in 0 .. MaxFailures : OneMore(n) \in 0 .. MaxFailures
  BY PeerPoolAssumption DEF OneMore
<1> QED
  BY <1>1 DEF Fails, TypeOK, PeerStates

LEMMA PoolTypes ==
    ASSUME TypeOK, \/ \E a \in Addresses : peer_pool_add(a)
                   \/ Refill
    PROVE  TypeOK'
<1>1. PoolSize \in Nat /\ Objects = 1 .. PoolSize
  BY PeerPoolAssumption DEF Objects
<1>2. ASSUME NEW a \in Addresses, peer_pool_add(a) PROVE TypeOK'
  <2>1. pool_count + 1 \in 0 .. PoolSize /\ peer_pool[pool_count + 1] \in Objects
    BY <1>1, <1>2 DEF peer_pool_add, TypeOK
  <2> QED
    BY <1>2, <2>1 DEF peer_pool_add, PeerStates, TypeOK, historyVars
<1>3. CASE refill_starts
  <2>1. scan' \in 0 .. PoolSize + 1
    BY <1>1, <1>3 DEF refill_starts
  <2> QED
    BY <1>3, <2>1 DEF refill_starts, objectVars, historyVars, TypeOK
<1>4. CASE refill_ends
  <2>1. scan' \in 0 .. PoolSize + 1
    BY <1>1, <1>4 DEF refill_ends
  <2> QED
    BY <1>4, <2>1 DEF refill_ends, objectVars, historyVars, TypeOK
<1>5. ASSUME scan \in 1 .. pool_count
      PROVE  scan + 1 \in 0 .. PoolSize + 1 /\ pool_count - 1 \in 0 .. PoolSize
  BY <1>1, <1>5 DEF TypeOK
<1>6. ASSUME NEW o \in Objects, pick_passes(o) PROVE TypeOK'
  <2>1. scan' \in 0 .. PoolSize + 1
    BY <1>5, <1>6 DEF pick_passes, At
  <2> QED
    BY <1>6, <2>1 DEF pick_passes, objectVars, historyVars, TypeOK
<1>7. ASSUME NEW o \in Objects, pick_evicts(o) PROVE TypeOK'
  <2>1. pool_count' \in 0 .. PoolSize /\ pool_count \in 1 .. PoolSize
    BY <1>1, <1>5, <1>7 DEF pick_evicts, At, TypeOK
  <2>2. peer_pool' \in [1 .. PoolSize -> Objects]
    BY <1>7, <2>1 DEF pick_evicts, TypeOK
  <2> QED
    BY <1>7, <2>1, <2>2 DEF pick_evicts, objectVars, TypeOK
<1>8. ASSUME NEW o \in Objects, connect_to_peer(o) PROVE TypeOK'
  <2>1. scan' \in 0 .. PoolSize + 1
    BY <1>5, <1>8 DEF connect_to_peer, Connects, At
  <2> QED
    BY <1>8, <2>1 DEF connect_to_peer, Connects, PeerStates, TypeOK
<1>9. ASSUME NEW o \in Objects, connect_fails(o) PROVE TypeOK'
  <2>1. scan' \in 0 .. PoolSize + 1
    BY <1>5, <1>9 DEF connect_fails, Connects, At
  <2> QED
    BY <1>9, <2>1 DEF connect_fails, Connects, TypeOK
<1> QED
  BY <1>2, <1>3, <1>4, <1>6, <1>7, <1>8, <1>9 DEF Refill

LEMMA PeerTypes ==
    ASSUME TypeOK, NEW o \in Objects, PeerStep(o) \/ time_passes(o)
    PROVE  TypeOK'
<1>1. MaxPeers \in Nat
  BY PeerPoolAssumption
<1> USE DEF poolVars, historyVars
<1>2. CASE connection_failed(o)
  BY <1>2, FailsTypes DEF connection_failed, TypeOK
<1>3. CASE on_peer_connected(o)
  <2>1. peers' \in Seq(Objects) /\ Len(peers') = Len(peers) + 1 /\ Len(peers) \in Nat
    BY <1>3, AppendProperties DEF on_peer_connected, TypeOK
  <2> QED
    BY <1>1, <1>3, <2>1 DEF on_peer_connected, TypeOK, PeerStates
<1>4. CASE swarm_overflows(o)
  BY <1>4 DEF swarm_overflows, TypeOK, objectVars
<1>5. CASE handle_handshake(o)
  BY <1>5 DEF handle_handshake, TypeOK, PeerStates
<1>6. CASE disconnect_peer(o)
  <2>1. peers' \in Seq(Objects) /\ Len(peers') <= MaxPeers
    BY <1>1, <1>6, PeerRemoved DEF disconnect_peer, TypeOK
  <2> QED
    BY <1>6, <2>1, FailsTypes DEF disconnect_peer, TypeOK
<1>7. CASE hash_failed(o)
  <2>1. \A n \in 0 .. MaxFailures : OneMore(n) \in 0 .. MaxFailures
    BY PeerPoolAssumption DEF OneMore
  <2> QED
    BY <1>7, <2>1 DEF hash_failed, TypeOK
<1>8. CASE time_passes(o)
  BY <1>8 DEF time_passes, TypeOK
<1> QED
  BY <1>2, <1>3, <1>4, <1>5, <1>6, <1>7, <1>8 DEF PeerStep

LEMMA StepKeepsTypes == TypeOK /\ [Next]_vars => TypeOK'
<1>1. TypeOK /\ Next => TypeOK'
  BY PoolTypes, PeerTypes DEF Next
<1>2. TypeOK /\ UNCHANGED vars => TypeOK'
  BY DEF TypeOK, vars, poolVars, objectVars, historyVars
<1> QED
  BY <1>1, <1>2

(* The variables keep their types.                                          *)
THEOREM PeerPoolTypeCorrect == Spec => []TypeOK
  BY InitEstablishesTypes, StepKeepsTypes, PTL DEF Spec

-----------------------------------------------------------------------------
(* The pool and the objects, until an entry is moved                        *)

LEMMA Steps ==
    ASSUME Next
    PROVE  \/ \E a \in Addresses : peer_pool_add(a)
           \/ refill_starts \/ refill_ends
           \/ \E o \in Objects :
                 \/ pick_passes(o) \/ pick_evicts(o) \/ connect_to_peer(o) \/ connect_fails(o)
                 \/ connection_failed(o) \/ on_peer_connected(o) \/ swarm_overflows(o)
                 \/ handle_handshake(o) \/ disconnect_peer(o) \/ hash_failed(o) \/ time_passes(o)
  BY DEF Next, Refill, PeerStep

LEMMA NotMovedBefore ==
    ASSUME TypeOK, Next, ~moved'
    PROVE  ~moved /\ (~reconnected' => ~reconnected)
  BY Steps DEF TypeOK, historyVars, peer_pool_add, refill_starts, refill_ends, pick_passes,
     pick_evicts, connect_to_peer, connect_fails, Connects, connection_failed,
     on_peer_connected, swarm_overflows, handle_handshake, disconnect_peer, hash_failed,
     time_passes

(* Only an address that is not known is added, at the end of the pool.      *)
LEMMA Added ==
    ASSUME TypeOK, PoolInv, NEW a, peer_pool_add(a)
    PROVE  /\ pool_count \in Nat /\ pool_count + 1 \in Objects /\ pool_count' = pool_count + 1
           /\ address' = [address EXCEPT ![pool_count + 1] = a]
           /\ peer_state' = [peer_state EXCEPT ![pool_count + 1] = "NOT_CONNECTED"]
           /\ \A i \in 1 .. pool_count : address[i] # a
<1>1. PoolSize \in Nat /\ pool_count \in 0 .. PoolSize /\ pool_count < PoolSize
  BY PeerPoolAssumption DEF peer_pool_add, TypeOK
<1>2. peer_pool[pool_count + 1] = pool_count + 1 /\ pool_count + 1 \in Objects
  BY <1>1 DEF PoolInv, Objects
<1>3. \A i \in 1 .. pool_count : peer_pool[i] = i
  BY <1>1 DEF PoolInv
<1>4. \A i \in 1 .. pool_count : address[i] # a
  BY <1>3 DEF peer_pool_add, Known, Pool
<1> QED
  BY <1>1, <1>2, <1>4 DEF peer_pool_add

(* An eviction that moves nothing takes the last entry out of the pool, which *)
(* is not connected.                                                        *)
LEMMA Evicted ==
    ASSUME TypeOK, PoolInv, ConnectionsInv, NEW o \in Objects, pick_evicts(o), ~moved'
    PROVE  /\ o = pool_count /\ pool_count' = pool_count - 1
           /\ peer_state[o] = "NOT_CONNECTED"
           /\ UNCHANGED <<peer_pool, peers, objectVars, reconnected>>
<1>1. PoolSize \in Nat /\ pool_count \in 0 .. PoolSize /\ scan \in 1 .. pool_count
  BY PeerPoolAssumption DEF pick_evicts, At, TypeOK
<1>2. scan = pool_count /\ o = pool_count
  <2>1. scan = pool_count
    BY DEF pick_evicts
  <2>2. scan \in 1 .. PoolSize /\ o = peer_pool[scan]
    BY <1>1 DEF pick_evicts, At
  <2> QED
    BY <2>1, <2>2 DEF PoolInv
<1>3. peer_pool' = peer_pool
  BY <1>1, <1>2 DEF pick_evicts, TypeOK
<1>4. peer_state[o] = "NOT_CONNECTED"
  <2>1. peer_state[o] \in PeerStates /\ failed_tries[o] \in Int /\ MaxFailures \in Int
    BY PeerPoolAssumption DEF TypeOK
  <2> QED
    BY <2>1 DEF pick_evicts, Passed, ConnectionsInv, PeerStates
<1> QED
  BY <1>2, <1>3, <1>4 DEF pick_evicts

LEMMA StepKeepsPool ==
    ASSUME TypeOK, PoolInv, ConnectionsInv, Next, ~moved'
    PROVE  PoolInv'
<1>1. CASE UNCHANGED <<peer_pool, pool_count, address>>
  BY <1>1 DEF PoolInv
<1>2. ASSUME NEW a \in Addresses, peer_pool_add(a) PROVE PoolInv'
  <2>1. UNCHANGED peer_pool
    BY <1>2 DEF peer_pool_add
  <2>2. \A i \in 1 .. pool_count' : i \in Objects /\ (i = pool_count + 1 \/ i \in 1 .. pool_count)
    <3>1. PoolSize \in Nat /\ pool_count \in Nat /\ pool_count + 1 \in 1 .. PoolSize
      BY <1>2, Added, PeerPoolAssumption DEF Objects
    <3>2. pool_count' = pool_count + 1
      BY <1>2, Added
    <3> QED
      BY <3>1, <3>2 DEF Objects
  <2>3. \A i \in 1 .. pool_count' :
           address'[i] = IF i = pool_count + 1 THEN a ELSE address[i]
    BY <1>2, <2>2, Added DEF TypeOK
  <2>4. \A i, j \in 1 .. pool_count' : address'[i] = address'[j] => i = j
    BY <1>2, <2>2, <2>3, Added DEF PoolInv
  <2> QED
    BY <2>1, <2>4 DEF PoolInv
<1>3. ASSUME NEW o \in Objects, pick_evicts(o) PROVE PoolInv'
  <2>1. pool_count' = pool_count - 1 /\ UNCHANGED <<peer_pool, address>>
    BY <1>3, Evicted DEF objectVars
  <2>2. 1 .. pool_count' \subseteq 1 .. pool_count
    BY <2>1, PeerPoolAssumption DEF TypeOK
  <2> QED
    BY <2>1, <2>2 DEF PoolInv
<1> QED
  BY <1>1, <1>2, <1>3, Steps DEF refill_starts, refill_ends, pick_passes, connect_to_peer,
     connect_fails, Connects, connection_failed, Fails, on_peer_connected, swarm_overflows,
     handle_handshake, disconnect_peer, hash_failed, time_passes, objectVars, poolVars

(* A peer that fails is not connected, has no socket, and no other changes.  *)
LEMMA FailsKeepsConnections ==
    ASSUME TypeOK, ConnectionsInv, NEW o \in Objects, Fails(o), UNCHANGED pool_count
    PROVE  ConnectionsInv'
<1>1. /\ peer_state'[o] = "NOT_CONNECTED" /\ sock'[o] = "none" /\ stray' = stray
      /\ \A p \in Objects \ {o} : /\ peer_state'[p] = peer_state[p] /\ sock'[p] = sock[p]
                                  /\ failed_tries'[p] = failed_tries[p]
  BY DEF Fails, TypeOK
<1> QED
  BY <1>1 DEF ConnectionsInv

LEMMA StepKeepsConnections ==
    ASSUME TypeOK, PoolInv, ConnectionsInv, Next, ~moved'
    PROVE  ConnectionsInv'
<1>1. CASE UNCHANGED <<pool_count, peer_state, failed_tries, sock, stray>>
  BY <1>1 DEF ConnectionsInv
<1>2. ASSUME NEW a \in Addresses, peer_pool_add(a) PROVE ConnectionsInv'
  <2> DEFINE new == pool_count + 1
  <2>1. /\ pool_count \in Nat /\ new \in Objects /\ pool_count' = new
        /\ peer_state' = [peer_state EXCEPT ![new] = "NOT_CONNECTED"]
    BY <1>2, Added
  <2>2. peer_state[new] = "NOT_CONNECTED"
    BY <2>1 DEF ConnectionsInv
  <2>3. UNCHANGED <<peer_state, failed_tries, sock, stray>>
    BY <1>2, <2>1, <2>2 DEF peer_pool_add, TypeOK
  <2>4. \A o \in Objects : o > pool_count' => o > pool_count
    BY <2>1, PeerPoolAssumption DEF Objects
  <2> QED
    BY <2>3, <2>4 DEF ConnectionsInv
<1>3. ASSUME NEW o \in Objects, pick_evicts(o) PROVE ConnectionsInv'
  <2>1. /\ o = pool_count /\ pool_count' = pool_count - 1
        /\ peer_state[o] = "NOT_CONNECTED" /\ UNCHANGED objectVars
    BY <1>3, Evicted
  <2>2. \A p \in Objects : p > pool_count' => p > pool_count \/ p = o
    BY <2>1, PeerPoolAssumption DEF Objects
  <2> QED
    BY <2>1, <2>2 DEF ConnectionsInv, objectVars
<1>4. ASSUME NEW o \in Objects, connect_to_peer(o) \/ connect_fails(o)
      PROVE  /\ stray' = {} /\ UNCHANGED <<pool_count, failed_tries>>
             /\ o <= pool_count /\ failed_tries[o] < MaxFailures /\ peer_state[o] # "CONNECTING"
  <2>1. Connects(o)
    BY <1>4 DEF connect_to_peer, connect_fails
  <2>2. scan \in 1 .. pool_count /\ pool_count \in 0 .. PoolSize /\ PoolSize \in Nat /\ o = peer_pool[scan]
    BY <2>1, PeerPoolAssumption DEF Connects, At, TypeOK
  <2>3. o <= pool_count
    BY <2>2 DEF PoolInv
  <2>4. peer_state[o] # "CONNECTING" /\ sock[o] # "EPOLLOUT"
    BY <2>1 DEF Connects, Passed, ConnectionsInv
  <2> QED
    BY <2>1, <2>3, <2>4 DEF Connects, ConnectionsInv
<1>5. ASSUME NEW o \in Objects, connect_to_peer(o) PROVE ConnectionsInv'
  <2>1. /\ peer_state'[o] = "CONNECTING"
        /\ \A p \in Objects \ {o} : peer_state'[p] = peer_state[p] /\ sock'[p] = sock[p]
    BY <1>5 DEF connect_to_peer, TypeOK
  <2>2. ~(o > pool_count)
    BY <1>4, <1>5, PeerPoolAssumption DEF TypeOK, Objects
  <2> QED
    BY <1>4, <1>5, <2>1, <2>2 DEF ConnectionsInv
<1>6. ASSUME NEW o \in Objects, connect_fails(o) PROVE ConnectionsInv'
  <2>1. /\ UNCHANGED peer_state /\ sock'[o] = "none"
        /\ \A p \in Objects \ {o} : sock'[p] = sock[p]
    BY <1>6 DEF connect_fails, TypeOK
  <2> QED
    BY <1>4, <1>6, <2>1 DEF ConnectionsInv
<1>7. ASSUME NEW o \in Objects, connection_failed(o) \/ disconnect_peer(o) PROVE ConnectionsInv'
  BY <1>7, FailsKeepsConnections DEF connection_failed, disconnect_peer, poolVars
<1>8. ASSUME NEW o \in Objects, on_peer_connected(o) PROVE ConnectionsInv'
  <2>1. /\ sock[o] = "EPOLLOUT" /\ peer_state[o] = "CONNECTING"
        /\ UNCHANGED <<pool_count, failed_tries, stray>>
    BY <1>8 DEF on_peer_connected, Writable, ConnectionsInv, poolVars
  <2>2. /\ peer_state'[o] = "HANDSHAKING" /\ sock'[o] = "EPOLLIN"
        /\ \A p \in Objects \ {o} : peer_state'[p] = peer_state[p] /\ sock'[p] = sock[p]
    BY <1>8, <2>1 DEF on_peer_connected, TypeOK
  <2> QED
    BY <2>1, <2>2 DEF ConnectionsInv
<1>9. ASSUME NEW o \in Objects, handle_handshake(o) PROVE ConnectionsInv'
  <2>1. /\ peer_state[o] = "HANDSHAKING" /\ sock[o] # "EPOLLOUT"
        /\ UNCHANGED <<pool_count, failed_tries, sock, stray>>
    BY <1>9 DEF handle_handshake, poolVars
  <2>2. /\ peer_state'[o] = "CONNECTED"
        /\ \A p \in Objects \ {o} : peer_state'[p] = peer_state[p]
    BY <1>9 DEF handle_handshake, TypeOK
  <2> QED
    BY <2>1, <2>2 DEF ConnectionsInv
<1>10. ASSUME NEW o \in Objects, hash_failed(o) PROVE ConnectionsInv'
  <2>1. /\ peer_state[o] = "CONNECTED" /\ UNCHANGED <<pool_count, peer_state, sock, stray>>
        /\ \A p \in Objects \ {o} : failed_tries'[p] = failed_tries[p]
    BY <1>10 DEF hash_failed, poolVars, TypeOK
  <2> QED
    BY <2>1 DEF ConnectionsInv
<1> QED
  BY <1>1, <1>2, <1>3, <1>5, <1>6, <1>7, <1>8, <1>9, <1>10, Steps DEF refill_starts, refill_ends,
     pick_passes, swarm_overflows, time_passes, objectVars, poolVars

-----------------------------------------------------------------------------
(* The swarm, until a peer is connected during its handshake                *)

LEMMA StepKeepsSwarm ==
    ASSUME TypeOK, PoolInv, ConnectionsInv, SwarmInv, Next, ~moved', ~reconnected'
    PROVE  SwarmInv'
<1>1. ASSUME UNCHANGED peers,
             \A o \in Objects : peer_state'[o] \in {"HANDSHAKING", "CONNECTED"} <=>
                                peer_state[o] \in {"HANDSHAKING", "CONNECTED"}
      PROVE  SwarmInv'
  BY <1>1 DEF SwarmInv, InSwarm
<1>2. ASSUME NEW a \in Addresses, peer_pool_add(a) PROVE SwarmInv'
  <2>1. /\ pool_count \in Nat /\ pool_count + 1 \in Objects
        /\ peer_state' = [peer_state EXCEPT ![pool_count + 1] = "NOT_CONNECTED"]
    BY <1>2, Added
  <2>2. peer_state[pool_count + 1] = "NOT_CONNECTED"
    BY <2>1 DEF ConnectionsInv
  <2>3. UNCHANGED <<peer_state, peers>>
    BY <1>2, <2>1, <2>2 DEF peer_pool_add, TypeOK
  <2> QED
    BY <1>1, <2>3
<1>3. ASSUME NEW o \in Objects, connect_to_peer(o) PROVE SwarmInv'
  <2>1. /\ UNCHANGED peers /\ peer_state[o] \notin {"HANDSHAKING", "CONNECTED"}
        /\ peer_state' = [peer_state EXCEPT ![o] = "CONNECTING"]
    BY <1>3 DEF connect_to_peer, Connects, Passed
  <2> QED
    BY <1>1, <2>1 DEF TypeOK
<1>4. ASSUME NEW o \in Objects, connection_failed(o) PROVE SwarmInv'
  <2>1. peer_state[o] = "CONNECTING"
    BY <1>4 DEF connection_failed, Writable, ConnectionsInv
  <2>2. UNCHANGED peers /\ peer_state' = [peer_state EXCEPT ![o] = "NOT_CONNECTED"]
    BY <1>4 DEF connection_failed, Fails
  <2> QED
    BY <1>1, <2>1, <2>2 DEF TypeOK
<1>5. ASSUME NEW o \in Objects, on_peer_connected(o) PROVE SwarmInv'
  <2>1. peer_state[o] = "CONNECTING" /\ ~InSwarm(o)
    BY <1>5 DEF on_peer_connected, Writable, ConnectionsInv, SwarmInv
  <2>2. /\ peer_state'[o] = "HANDSHAKING"
        /\ \A p \in Objects \ {o} : peer_state'[p] = peer_state[p]
    BY <1>5 DEF on_peer_connected, TypeOK
  <2>3. PICK n : n = Len(peers) + 1
    OBVIOUS
  <2>4. /\ DOMAIN peers' = DOMAIN peers \cup {n} /\ n \notin DOMAIN peers
        /\ \A k \in DOMAIN peers : peers'[k] = peers[k]
        /\ peers'[n] = o
    BY <1>5, <2>3, AppendProperties DEF on_peer_connected, TypeOK
  <2>5. \A p \in Objects : InSwarm(p)' <=> InSwarm(p) \/ p = o
    BY <2>4 DEF InSwarm
  <2>6. \A p \in Objects : InSwarm(p)' <=> peer_state'[p] \in {"HANDSHAKING", "CONNECTED"}
    BY <2>2, <2>5 DEF SwarmInv
  <2>7. \A j, k \in DOMAIN peers' : peers'[j] = peers'[k] => j = k
    BY <2>1, <2>4 DEF SwarmInv, InSwarm
  <2> QED
    BY <2>6, <2>7 DEF SwarmInv
<1>6. ASSUME NEW o \in Objects, handle_handshake(o) PROVE SwarmInv'
  <2>1. /\ UNCHANGED peers /\ peer_state[o] = "HANDSHAKING"
        /\ peer_state' = [peer_state EXCEPT ![o] = "CONNECTED"]
    BY <1>6 DEF handle_handshake
  <2> QED
    BY <1>1, <2>1 DEF TypeOK
<1>7. ASSUME NEW o \in Objects, disconnect_peer(o) PROVE SwarmInv'
  <2>1. peers' = WithoutPeer(o) /\ peers \in Seq(Objects)
    BY <1>7 DEF disconnect_peer, TypeOK
  <2>2. /\ peer_state'[o] = "NOT_CONNECTED"
        /\ \A p \in Objects \ {o} : peer_state'[p] = peer_state[p]
    BY <1>7 DEF disconnect_peer, Fails, TypeOK
  <2>3. /\ \A j, k \in DOMAIN peers' : peers'[j] = peers'[k] => j = k
        /\ \A p : InSwarm(p)' <=> p # o /\ InSwarm(p)
    <3>1. /\ \A j, k \in DOMAIN WithoutPeer(o) : WithoutPeer(o)[j] = WithoutPeer(o)[k] => j = k
          /\ \A p : (\E j \in DOMAIN WithoutPeer(o) : WithoutPeer(o)[j] = p) <=>
                    p # o /\ \E j \in DOMAIN peers : peers[j] = p
      BY <2>1, PeerRemoved DEF SwarmInv
    <3> QED
      BY ONLY <2>1, <3>1 DEF InSwarm
  <2>4. \A p \in Objects : InSwarm(p)' <=> peer_state'[p] \in {"HANDSHAKING", "CONNECTED"}
    BY <2>2, <2>3 DEF SwarmInv
  <2> QED
    BY <2>3, <2>4 DEF SwarmInv
<1>8. ASSUME NEW o \in Objects, pick_evicts(o) PROVE UNCHANGED <<peers, peer_state>>
  BY <1>8 DEF pick_evicts, objectVars
<1> QED
  BY <1>1, <1>2, <1>3, <1>4, <1>5, <1>6, <1>7, <1>8, Steps DEF refill_starts, refill_ends,
     pick_passes, connect_fails, Connects, swarm_overflows, hash_failed, time_passes, objectVars,
     poolVars

-----------------------------------------------------------------------------
(* The theorems                                                             *)

LEMMA InitEstablishesIInv == Init => IInv
<1>1. Init => PoolInv
  BY DEF Init, PoolInv
<1>2. Init => ConnectionsInv
  BY DEF Init, ConnectionsInv
<1>3. Init => SwarmInv
  BY DEF Init, SwarmInv, InSwarm
<1> QED
  BY <1>1, <1>2, <1>3, InitEstablishesTypes DEF IInv

LEMMA Invariance == Spec => []IInv
<1>1. IInv /\ [Next]_vars => IInv'
  <2> SUFFICES ASSUME IInv, [Next]_vars PROVE IInv'
    OBVIOUS
  <2>1. CASE Next
    BY <2>1, NotMovedBefore, StepKeepsTypes, StepKeepsPool, StepKeepsConnections, StepKeepsSwarm
    DEF IInv
  <2>2. CASE UNCHANGED vars
    <3>1. TypeOK'
      BY StepKeepsTypes DEF IInv
    <3>2. UNCHANGED <<poolVars, peers, objectVars, historyVars>>
      BY <2>2 DEF vars
    <3> QED
      BY <3>1, <3>2 DEF IInv, PoolInv, ConnectionsInv, SwarmInv, InSwarm, poolVars, objectVars,
                        historyVars
  <2> QED
    BY <2>1, <2>2
<1> QED
  BY <1>1, InitEstablishesIInv, PTL DEF Spec

(* Until an eviction moves an entry, no address is in the pool twice and no  *)
(* two entries share an object.                                             *)
THEOREM PoolIsSound == Spec => []PoolSound
<1>1. IInv => PoolSound
  <2> SUFFICES ASSUME IInv, ~moved PROVE PoolSound
    BY DEF PoolSound
  <2>1. \A i \in 1 .. pool_count : peer_pool[i] = i
    BY PeerPoolAssumption DEF IInv, TypeOK, PoolInv
  <2> QED
    BY <2>1 DEF IInv, PoolInv, PoolSound
<1> QED
  BY Invariance, <1>1, PTL

(* Until an eviction moves an entry or a peer is connected anew during its   *)
(* handshake, the swarm is the set of the peers in or after their handshake, *)
(* each once and in the pool.                                               *)
THEOREM SwarmIsSound == Spec => []SwarmSound
<1>1. IInv => SwarmSound
  <2> SUFFICES ASSUME IInv, ~moved, ~reconnected PROVE SwarmSound
    BY DEF SwarmSound
  <2>1. peers \in Seq(Objects) /\ PoolInv /\ ConnectionsInv /\ SwarmInv
    BY DEF IInv, TypeOK
  <2>2. \A k \in DOMAIN peers : peers[k] \in Objects
    BY <2>1
  <2>3. {peers[k] : k \in DOMAIN peers} =
           {o \in Objects : peer_state[o] \in {"HANDSHAKING", "CONNECTED"}}
    BY <2>1, <2>2 DEF SwarmInv, InSwarm
  <2>4. \A o \in Objects : o <= pool_count => o \in Pool
    <3>1. \A o \in Objects : o <= pool_count => o \in 1 .. pool_count /\ peer_pool[o] = o
      BY <2>1, PeerPoolAssumption DEF IInv, TypeOK, PoolInv, Objects
    <3> QED
      BY <3>1 DEF Pool
  <2>5. \A k \in DOMAIN peers : peers[k] \in Pool
    <3> TAKE k \in DOMAIN peers
    <3>1. peers[k] \in Objects /\ peer_state[peers[k]] # "NOT_CONNECTED"
      BY <2>1, <2>2 DEF SwarmInv, InSwarm
    <3>2. peers[k] <= pool_count
      BY <2>1, <3>1, PeerPoolAssumption DEF ConnectionsInv, IInv, TypeOK, Objects
    <3> QED
      BY <2>4, <3>1, <3>2
  <2> QED
    BY <2>1, <2>3, <2>5 DEF SwarmInv, SwarmSound
<1> QED
  BY Invariance, <1>1, PTL

(* An address is forgotten, until an eviction has moved an entry, only by    *)
(* its own eviction.                                                        *)
THEOREM ForgottenByEviction == Spec => ForgottenOnlyThus
<1> DEFINE Forgets == ~moved => \A o \in Pool :
          address[o] \notin Known' =>
              /\ failed_tries[o] = MaxFailures
              /\ peer_state[o] = "NOT_CONNECTED"
              /\ ~waiting[o]
<1>1. IInv /\ [Next]_vars => Forgets
  <2> SUFFICES ASSUME IInv, [Next]_vars, ~moved, NEW o \in Pool, address[o] \notin Known'
               PROVE  /\ failed_tries[o] = MaxFailures
                      /\ peer_state[o] = "NOT_CONNECTED"
                      /\ ~waiting[o]
    OBVIOUS
  <2> USE DEF IInv
  <2>1. PICK i \in 1 .. pool_count : peer_pool[i] = o
    BY DEF Pool
  <2>2. /\ PoolSize \in Nat /\ pool_count \in 0 .. PoolSize /\ i \in 1 .. PoolSize
        /\ i = o /\ o \in Objects
    BY <2>1, PeerPoolAssumption DEF TypeOK, PoolInv, Objects
  <2>3. ASSUME NEW j \in 1 .. pool_count', peer_pool'[j] = o, address'[o] = address[o]
        PROVE  FALSE
    BY <2>3 DEF Known, Pool
  <2>4. CASE UNCHANGED <<pool_count, peer_pool, address>>
    BY <2>1, <2>3, <2>4
  <2>5. ASSUME NEW a \in Addresses, peer_pool_add(a) PROVE FALSE
    <3>1. /\ UNCHANGED peer_pool /\ pool_count' = pool_count + 1
          /\ address' = [address EXCEPT ![pool_count + 1] = a]
      BY <2>5, Added DEF peer_pool_add
    <3>2. address'[o] = address[o] /\ i \in 1 .. pool_count'
      BY <2>1, <2>2, <3>1 DEF TypeOK
    <3> QED
      BY <2>1, <2>3, <3>1, <3>2
  <2>6. ASSUME NEW q \in Objects, pick_evicts(q)
        PROVE  /\ failed_tries[o] = MaxFailures
               /\ peer_state[o] = "NOT_CONNECTED"
               /\ ~waiting[o]
    <3>1. /\ scan \in 1 .. pool_count /\ peer_pool[scan] = q
          /\ pool_count' = pool_count - 1 /\ UNCHANGED address
          /\ peer_pool' = [peer_pool EXCEPT ![scan] = peer_pool[pool_count]]
      BY <2>6 DEF pick_evicts, At, objectVars
    <3>2. scan = i
      <4> SUFFICES ASSUME scan # i PROVE FALSE
        OBVIOUS
      <4>1. CASE i = pool_count
        <5>1. scan \in 1 .. pool_count' /\ peer_pool'[scan] = o
          BY <2>1, <2>2, <3>1, <4>1 DEF TypeOK
        <5> QED
          BY <2>3, <3>1, <5>1
      <4>2. CASE i # pool_count
        <5>1. i \in 1 .. pool_count' /\ peer_pool'[i] = o
          BY <2>1, <2>2, <3>1, <4>2 DEF TypeOK
        <5> QED
          BY <2>3, <3>1, <5>1
      <4> QED
        BY <4>1, <4>2
    <3>3. ~Passed(o) /\ failed_tries[o] >= MaxFailures
      BY <2>1, <2>6, <3>1, <3>2 DEF pick_evicts
    <3>4. /\ peer_state[o] \in PeerStates /\ failed_tries[o] \in 0 .. MaxFailures
          /\ MaxFailures \in Nat
      BY <2>2, PeerPoolAssumption DEF TypeOK
    <3>5. failed_tries[o] = MaxFailures /\ peer_state[o] # "HANDSHAKING"
      BY <2>2, <3>3, <3>4 DEF ConnectionsInv
    <3> QED
      BY <3>3, <3>4, <3>5 DEF Passed, PeerStates
  <2>7. CASE UNCHANGED vars
    BY <2>4, <2>7 DEF vars, poolVars, objectVars
  <2> QED
    BY <2>4, <2>5, <2>6, <2>7, Steps DEF refill_starts, refill_ends, pick_passes, connect_to_peer,
       connect_fails, Connects, connection_failed, Fails, on_peer_connected, swarm_overflows,
       handle_handshake, disconnect_peer, hash_failed, time_passes, objectVars, poolVars
<1> QED
  BY Invariance, <1>1, PTL DEF Spec, ForgottenOnlyThus

=============================================================================
