--------------------------- MODULE TaskPoolProofs ---------------------------
(***************************************************************************)
(* Proofs about TaskPool, for any set of threads and any size of the ring, *)
(* and for any number of tasks that wait: also more than the ring holds.   *)
(*                                                                         *)
(* The inductive invariant adds three facts to the types: tail lies count  *)
(* slots behind head, the slots between them hold tasks, and stop is set   *)
(* exactly when threadpool_destroy has been called.  It survives an        *)
(* overrun, for tail and head go on round the ring.  NoLostWakeup and      *)
(* NoSleeperAfterStop are each inductive relative to it.                   *)
(***************************************************************************)
EXTENDS TaskPool, FiniteSetTheorems, SequenceTheorems, TLAPS

RingInv ==
    /\ tail = (head + count) % QUEUE_SIZE
    /\ \A k \in 1 .. count : queue[(head + k - 1) % QUEUE_SIZE] \in Nat
    /\ \A w \in Workers : pc[w] = "task" => task[w] \in Nat
    /\ stop <=> main # "running"

IInv == TypeOK /\ RingInv

-----------------------------------------------------------------------------
(* Arithmetic of ring indices.                                              *)

LEMMA Size == QUEUE_SIZE \in Nat \ {0} /\ 1 \in 0 .. QUEUE_SIZE
  BY PoolAssumption

LEMMA Division ==
    ASSUME NEW n \in Nat, NEW d \in Nat \ {0}
    PROVE  /\ n \div d \in Nat /\ n % d \in 0 .. d - 1
           /\ n = ((n \div d) * d) + (n % d)
  OBVIOUS

LEMMA Multiples ==
    ASSUME NEW d \in Nat \ {0}, NEW i \in Nat, NEW j \in Nat
    PROVE  /\ i * d \in Nat /\ (i + j) * d = (i * d) + (j * d)
           /\ i < j => (i * d) + d <= j * d
  <1>1. i * d \in Nat /\ (i + j) * d = (i * d) + (j * d)
    OBVIOUS
  <1>2. i < j => (i * d) + d <= j * d
    OBVIOUS
  <1> QED
    BY <1>1, <1>2

(* There is one way to divide with remainder.                               *)
LEMMA Remainder ==
    ASSUME NEW d \in Nat \ {0}, NEW q \in Nat, NEW r \in 0 .. d - 1
    PROVE  ((q * d) + r) % d = r
  <1> DEFINE n == (q * d) + r
             p == n \div d
             s == n % d
  <1>1. n \in Nat /\ q * d \in Nat
    BY Multiples
  <1> HIDE DEF n
  <1>2. p \in Nat /\ s \in 0 .. d - 1 /\ n = (p * d) + s /\ p * d \in Nat
    BY <1>1, Division, Multiples
  <1> HIDE DEF p, s
  <1>3. ~(p < q) /\ ~(q < p)
    <2>1. p < q => (p * d) + d <= q * d
      BY <1>2, Multiples
    <2>2. q < p => (q * d) + d <= p * d
      BY <1>2, Multiples
    <2> QED
      BY <1>1, <1>2, <2>1, <2>2 DEF n
  <1>4. p = q
    BY <1>2, <1>3
  <1>5. s = r
    BY <1>1, <1>2, <1>4 DEF n
  <1> QED
    BY <1>5 DEF s, n

(* An index may be reduced before it is moved on.                           *)
LEMMA AddMod ==
    ASSUME NEW x \in Nat, NEW k \in Nat
    PROVE  ((x % QUEUE_SIZE) + k) % QUEUE_SIZE = (x + k) % QUEUE_SIZE
  <1> DEFINE N == QUEUE_SIZE
             p == x \div N
             s == x % N
             q == (s + k) \div N
             r == (s + k) % N
  <1>1. N \in Nat \ {0}
    BY Size
  <1> HIDE DEF N
  <1>2. p \in Nat /\ s \in 0 .. N - 1 /\ x = (p * N) + s
    BY <1>1, Division
  <1> HIDE DEF p, s
  <1>3. q \in Nat /\ r \in 0 .. N - 1 /\ s + k = (q * N) + r
    <2>1. s + k \in Nat
      BY <1>1, <1>2
    <2> QED
      BY <1>1, <2>1, Division
  <1> HIDE DEF q, r
  <1>4. x + k = ((p + q) * N) + r
    <2>1. (p + q) * N = (p * N) + (q * N) /\ p * N \in Nat /\ q * N \in Nat
      BY <1>1, <1>2, <1>3, Multiples
    <2> QED
      BY <1>1, <1>2, <1>3, <2>1
  <1>5. (x + k) % N = r
    <2>1. p + q \in Nat
      BY <1>2, <1>3
    <2> QED
      BY <1>1, <1>3, <1>4, <2>1, Remainder
  <1> QED
    BY <1>5 DEF r, s, N

LEMMA SlotOf ==
    ASSUME NEW x \in Nat
    PROVE  x % QUEUE_SIZE \in 0 .. QUEUE_SIZE - 1
  BY Size, Division

(* A slot of the ring, counted from its head.                               *)
LEMMA SlotFromHead ==
    ASSUME NEW h \in 0 .. QUEUE_SIZE - 1, NEW k \in 0 .. QUEUE_SIZE
    PROVE  (h + k) % QUEUE_SIZE =
                 IF h + k < QUEUE_SIZE THEN h + k ELSE h + k - QUEUE_SIZE
  <1>1. CASE h + k < QUEUE_SIZE
    <2>1. ((0 * QUEUE_SIZE) + (h + k)) % QUEUE_SIZE = h + k
      BY <1>1, Size, Remainder
    <2>2. (0 * QUEUE_SIZE) + (h + k) = h + k
      BY Size
    <2> QED
      BY <1>1, <2>1, <2>2
  <1>2. CASE h + k >= QUEUE_SIZE
    <2>1. h + k - QUEUE_SIZE \in 0 .. QUEUE_SIZE - 1 /\ ~(h + k < QUEUE_SIZE)
      BY <1>2, Size
    <2>2. ((1 * QUEUE_SIZE) + (h + k - QUEUE_SIZE)) % QUEUE_SIZE = h + k - QUEUE_SIZE
      BY <2>1, Size, Remainder
    <2>3. (1 * QUEUE_SIZE) + (h + k - QUEUE_SIZE) = h + k
      BY Size
    <2> QED
      BY <2>1, <2>2, <2>3
  <1> QED
    BY <1>1, <1>2, Size

LEMMA HeadSlot ==
    ASSUME NEW h \in 0 .. QUEUE_SIZE - 1
    PROVE  (h + 1 - 1) % QUEUE_SIZE = h
  <1>1. 0 \in 0 .. QUEUE_SIZE /\ h + 0 < QUEUE_SIZE /\ h + 0 = h /\ h + 1 - 1 = h
    BY Size
  <1>2. (h + 0) % QUEUE_SIZE = h
    BY <1>1, SlotFromHead
  <1> QED
    BY <1>1, <1>2

(* The slot behind the last of n < QUEUE_SIZE tasks is none of theirs.      *)
LEMMA TailIsFree ==
    ASSUME NEW h \in 0 .. QUEUE_SIZE - 1, NEW n \in 0 .. QUEUE_SIZE - 1,
           NEW k \in 1 .. n
    PROVE  (h + k - 1) % QUEUE_SIZE # (h + n) % QUEUE_SIZE
  <1>1. k - 1 \in 0 .. QUEUE_SIZE /\ n \in 0 .. QUEUE_SIZE /\ h + (k - 1) = h + k - 1
    BY PoolAssumption
  <1>2. (h + (k - 1)) % QUEUE_SIZE =
           IF h + (k - 1) < QUEUE_SIZE THEN h + (k - 1) ELSE h + (k - 1) - QUEUE_SIZE
    BY <1>1, SlotFromHead
  <1>3. (h + n) % QUEUE_SIZE = IF h + n < QUEUE_SIZE THEN h + n ELSE h + n - QUEUE_SIZE
    BY <1>1, SlotFromHead
  <1> QED
    BY <1>1, <1>2, <1>3, PoolAssumption

(* Advancing the head by one and counting one less is the same slot.        *)
LEMMA HeadAdvances ==
    ASSUME NEW h \in 0 .. QUEUE_SIZE - 1, NEW k \in Nat
    PROVE  (((h + 1) % QUEUE_SIZE) + k) % QUEUE_SIZE = (h + (k + 1)) % QUEUE_SIZE
  <1>1. h + 1 \in Nat /\ h + 1 + k = h + (k + 1)
    BY Size
  <1> QED
    BY <1>1, AddMod

-----------------------------------------------------------------------------
(* The inductive invariant.                                                 *)

LEMMA InitInv == Init => IInv
  <1> SUFFICES ASSUME Init PROVE IInv
    OBVIOUS
  <1>1. 0 \in 0 .. QUEUE_SIZE - 1 /\ 0 \in 0 .. QUEUE_SIZE
    BY PoolAssumption
  <1>2. (0 + 0) % QUEUE_SIZE = 0
    BY <1>1, SlotFromHead, PoolAssumption
  <1>3. TypeOK
    BY <1>1, PoolAssumption DEF Init, TypeOK
  <1>4. RingInv
    BY <1>2 DEF Init, RingInv
  <1> QED
    BY <1>3, <1>4 DEF IInv

(* The step of threadpool_push on the ring.                                 *)
LEMMA PushInv ==
    ASSUME IInv, threadpool_push
    PROVE  IInv'
  <1> USE DEF IInv
  <1>1. count \in Nat /\ count + 1 \in Nat
    BY DEF TypeOK
  <1>2. /\ pc' \in [Workers -> {"lock", "asleep", "task", "returned"}]
        /\ \A w \in Workers : pc'[w] = "task" => pc[w] = "task"
    BY DEF TypeOK, threadpool_push, Signal, Asleep
  <1>3. /\ tail \in 0 .. QUEUE_SIZE - 1 /\ head \in 0 .. QUEUE_SIZE - 1
        /\ tail \in Nat /\ head \in Nat
        /\ tail = (head + count) % QUEUE_SIZE
        /\ pushed + 1 \in Nat
    BY Size DEF TypeOK, RingInv
  <1>4. tail' \in 0 .. QUEUE_SIZE - 1
    <2>1. (tail + 1) % QUEUE_SIZE \in 0 .. QUEUE_SIZE - 1
      BY <1>3, SlotOf
    <2> QED
      BY <2>1 DEF threadpool_push
  <1>5. queue' = [queue EXCEPT ![tail] = pushed + 1]
        /\ queue' \in [0 .. QUEUE_SIZE - 1 -> Nat \cup {NoTask}]
    BY <1>3 DEF TypeOK, threadpool_push
  <1>6. TypeOK'
    <2>1. overrun' \in BOOLEAN
      BY DEF TypeOK, threadpool_push
    <2> QED
      BY <1>1, <1>2, <1>4, <1>5, <2>1 DEF TypeOK, threadpool_push
  <1>7. tail' = (head' + count') % QUEUE_SIZE
    <2>0. head + count \in Nat
      BY <1>1, <1>3
    <2>1. (((head + count) % QUEUE_SIZE) + 1) % QUEUE_SIZE = (head + count + 1) % QUEUE_SIZE
      BY <2>0, AddMod
    <2>2. head + count + 1 = head + (count + 1)
      BY <1>1, <1>3
    <2> QED
      BY <1>3, <2>1, <2>2 DEF threadpool_push
  <1>8. \A k \in 1 .. count' : queue'[(head' + k - 1) % QUEUE_SIZE] \in Nat
    <2> SUFFICES ASSUME NEW k \in 1 .. count + 1
                 PROVE  queue'[(head + k - 1) % QUEUE_SIZE] \in Nat
      BY DEF threadpool_push
    <2> DEFINE slot == (head + k - 1) % QUEUE_SIZE
    <2>0. head + k - 1 \in Nat
      BY <1>1, <1>3
    <2>1. slot \in 0 .. QUEUE_SIZE - 1
      BY <2>0, SlotOf
    <2>2. slot = tail => queue'[slot] = pushed + 1
      BY <1>3, <1>5 DEF TypeOK
    <2>3. slot # tail => queue'[slot] = queue[slot]
      BY <1>5, <2>1 DEF TypeOK
    <2>4. slot # tail => k \in 1 .. count
      <3>1. k = count + 1 => head + k - 1 = head + count
        BY <1>1, <1>3
      <3>2. k = count + 1 => slot = tail
        BY <1>3, <3>1
      <3> QED
        BY <1>1, <3>2
    <2>5. k \in 1 .. count => queue[slot] \in Nat
      BY DEF RingInv
    <2> QED
      BY <1>3, <2>2, <2>3, <2>4, <2>5
  <1>9. RingInv'
    BY <1>2, <1>7, <1>8 DEF RingInv, threadpool_push
  <1> QED
    BY <1>6, <1>9

(* The step of worker() that takes a task.                                  *)
LEMMA TakeInv ==
    ASSUME IInv, NEW w \in Workers, take_task(w)
    PROVE  IInv' /\ queue[head] \in Nat
  <1> USE DEF IInv
  <1>1. /\ head \in 0 .. QUEUE_SIZE - 1 /\ head \in Nat
        /\ count \in Nat \ {0} /\ count - 1 \in Nat
    BY Size DEF TypeOK, take_task
  <1>2. queue[head] \in Nat
    <2>1. (head + 1 - 1) % QUEUE_SIZE = head /\ 1 \in 1 .. count
      BY <1>1, HeadSlot
    <2> QED
      BY <1>1, <2>1 DEF RingInv
  <1>3. head' = (head + 1) % QUEUE_SIZE /\ head' \in 0 .. QUEUE_SIZE - 1
    <2>1. (head + 1) % QUEUE_SIZE \in 0 .. QUEUE_SIZE - 1
      BY <1>1, SlotOf
    <2> QED
      BY <2>1 DEF take_task
  <1>4. TypeOK'
    <2>1. count' \in Nat
      BY <1>1 DEF take_task
    <2>2. task' \in [Workers -> Nat \cup {NoTask}]
      BY <1>2 DEF TypeOK, take_task
    <2> QED
      BY <1>3, <2>1, <2>2 DEF TypeOK, take_task
  <1>5. tail' = (head' + count') % QUEUE_SIZE
    <2>1. (((head + 1) % QUEUE_SIZE) + (count - 1)) % QUEUE_SIZE
             = (head + (count - 1 + 1)) % QUEUE_SIZE
      BY <1>1, HeadAdvances
    <2>2. count - 1 + 1 = count
      BY <1>1
    <2> QED
      BY <2>1, <2>2 DEF RingInv, take_task
  <1>6. \A k \in 1 .. count' : queue'[(head' + k - 1) % QUEUE_SIZE] \in Nat
    <2> SUFFICES ASSUME NEW k \in 1 .. count - 1
                 PROVE  queue[(head' + k - 1) % QUEUE_SIZE] \in Nat
      BY DEF take_task
    <2>1. k - 1 \in Nat /\ k + 1 \in 1 .. count
      BY <1>1
    <2>2. (((head + 1) % QUEUE_SIZE) + (k - 1)) % QUEUE_SIZE = (head + (k - 1 + 1)) % QUEUE_SIZE
      BY <1>1, <2>1, HeadAdvances
    <2>3. head' + k - 1 = ((head + 1) % QUEUE_SIZE) + (k - 1) /\ head + (k - 1 + 1) = head + (k + 1) - 1
      BY <1>1, <1>3, <2>1
    <2> QED
      BY <2>1, <2>2, <2>3 DEF RingInv
  <1>7. \A v \in Workers : pc'[v] = "task" => task'[v] \in Nat
    BY <1>2 DEF RingInv, TypeOK, take_task
  <1>8. RingInv'
    BY <1>5, <1>6, <1>7 DEF RingInv, take_task
  <1> QED
    BY <1>2, <1>4, <1>8

LEMMA NextInv == IInv /\ [Next]_vars => IInv'
  <1> SUFFICES ASSUME IInv, [Next]_vars PROVE IInv'
    OBVIOUS
  <1> USE DEF IInv
  <1>1. CASE threadpool_push
    BY <1>1, PushInv
  <1>2. CASE threadpool_destroy
    BY <1>2 DEF threadpool_destroy, Broadcast, TypeOK, RingInv
  <1>3. CASE joined
    BY <1>3 DEF joined, TypeOK, RingInv
  <1>4. ASSUME NEW w \in Workers, worker(w) PROVE IInv'
    <2>1. CASE cond_wait(w)
      BY <2>1 DEF cond_wait, TypeOK, RingInv
    <2>2. CASE spurious_wakeup(w)
      BY <2>2 DEF spurious_wakeup, TypeOK, RingInv
    <2>3. CASE return_stopped(w)
      BY <2>3 DEF return_stopped, TypeOK, RingInv
    <2>4. CASE take_task(w)
      BY <2>4, TakeInv
    <2>5. CASE task_returns(w)
      BY <2>5 DEF task_returns, TypeOK, RingInv
    <2> QED
      BY <1>4, <2>1, <2>2, <2>3, <2>4, <2>5 DEF worker
  <1>5. CASE UNCHANGED vars
    BY <1>5 DEF vars, TypeOK, RingInv
  <1> QED
    BY <1>1, <1>2, <1>3, <1>4, <1>5 DEF Next

(* The types of the pool's fields, and the ring's shape behind them.        *)
THEOREM PoolInv == Spec => []IInv
  BY InitInv, NextInv, PTL DEF Spec

(* The fields of the pool have their types: head and tail stay in the ring  *)
(* however far the pushes are ahead of the threads.                         *)
THEOREM PoolTypeCorrect == Spec => []TypeOK
  <1>1. IInv => TypeOK
    BY DEF IInv
  <1> QED
    BY <1>1, PoolInv, PTL

-----------------------------------------------------------------------------
(* Wakeups.                                                                 *)

LEMMA LockFinite == IsFiniteSet(AtLock) /\ Cardinality(AtLock) \in Nat
  <1>1. IsFiniteSet(AtLock)
    BY PoolAssumption, FS_Subset DEF AtLock
  <1> QED
    BY <1>1, FS_CardinalityType

(* A thread that comes to the lock makes one more.                          *)
LEMMA OneMoreAtLock ==
    ASSUME TypeOK, NEW w \in Workers, pc[w] # "lock", pc' = [pc EXCEPT ![w] = "lock"]
    PROVE  Cardinality(AtLock') = Cardinality(AtLock) + 1
  <1>1. AtLock' = AtLock \cup {w} /\ w \notin AtLock
    BY DEF AtLock, TypeOK
  <1> QED
    BY <1>1, LockFinite, FS_AddElement

(* A thread that leaves the lock makes one less.                            *)
LEMMA OneLessAtLock ==
    ASSUME TypeOK, NEW w \in Workers, NEW to, to # "lock", pc[w] = "lock",
           pc' = [pc EXCEPT ![w] = to]
    PROVE  Cardinality(AtLock') = Cardinality(AtLock) - 1
  <1>1. AtLock' = AtLock \ {w} /\ w \in AtLock
    BY DEF AtLock, TypeOK
  <1> QED
    BY <1>1, LockFinite, FS_RemoveElement

LEMMA NextWakeup == IInv /\ NoSleeperAfterStop /\ NoLostWakeup /\ [Next]_vars => NoLostWakeup'
  <1> SUFFICES ASSUME IInv, NoSleeperAfterStop, NoLostWakeup, [Next]_vars
               PROVE  NoLostWakeup'
    OBVIOUS
  <1> USE DEF IInv
  <1>1. count \in Nat /\ Cardinality(AtLock) \in Nat
    BY LockFinite, PoolAssumption DEF TypeOK
  <1>2. CASE threadpool_push
    <2>1. count' = count + 1
      BY <1>2 DEF threadpool_push
    <2>2. CASE Asleep = {} /\ UNCHANGED pc
      BY <2>2 DEF NoLostWakeup, Asleep
    <2>3. ASSUME NEW w \in Asleep, pc' = [pc EXCEPT ![w] = "lock"]
          PROVE  NoLostWakeup'
      <3>1. w \in Workers /\ pc[w] # "lock" /\ Asleep # {}
        BY <2>3 DEF Asleep
      <3>2. Cardinality(AtLock') = Cardinality(AtLock) + 1
        BY <2>3, <3>1, OneMoreAtLock
      <3>3. count <= Cardinality(AtLock)
        BY <3>1 DEF NoLostWakeup
      <3>4. count' <= Cardinality(AtLock')
        BY <1>1, <2>1, <3>2, <3>3
      <3> QED
        BY <3>4 DEF NoLostWakeup
    <2> QED
      BY <1>2, <2>2, <2>3 DEF threadpool_push, Signal
  <1>3. CASE threadpool_destroy
    <2>1. Asleep' = {}
      BY <1>3 DEF threadpool_destroy, Broadcast, Asleep
    <2> QED
      BY <2>1 DEF NoLostWakeup
  <1>4. CASE joined \/ UNCHANGED vars
    BY <1>4 DEF joined, vars, NoLostWakeup, Asleep, AtLock
  <1>5. ASSUME NEW w \in Workers, cond_wait(w) PROVE NoLostWakeup'
    <2>1. count' = 0
      BY <1>5 DEF cond_wait
    <2>2. Cardinality(AtLock') = Cardinality(AtLock) - 1
      BY <1>5, OneLessAtLock DEF cond_wait
    <2>3. Cardinality(AtLock) # 0
      <3>1. w \in AtLock
        BY <1>5 DEF AtLock, cond_wait
      <3> QED
        BY <3>1, LockFinite, FS_EmptySet
    <2>4. count' <= Cardinality(AtLock')
      BY <1>1, <2>1, <2>2, <2>3
    <2> QED
      BY <2>4 DEF NoLostWakeup
  <1>6. ASSUME NEW w \in Workers, spurious_wakeup(w) \/ task_returns(w)
        PROVE  NoLostWakeup'
    <2>1. /\ count' = count
          /\ pc[w] # "lock" /\ pc' = [pc EXCEPT ![w] = "lock"]
      BY <1>6 DEF spurious_wakeup, task_returns
    <2>2. Cardinality(AtLock') = Cardinality(AtLock) + 1
      BY <1>6, <2>1, OneMoreAtLock
    <2>3. Asleep' # {} => Asleep # {}
      BY <2>1 DEF Asleep, TypeOK
    <2>4. Asleep' # {} => count' <= Cardinality(AtLock')
      BY <1>1, <2>1, <2>2, <2>3 DEF NoLostWakeup
    <2> QED
      BY <2>4 DEF NoLostWakeup
  <1>7. ASSUME NEW w \in Workers, return_stopped(w) PROVE NoLostWakeup'
    <2>1. Asleep' = {}
      BY <1>7 DEF return_stopped, NoSleeperAfterStop, Asleep, TypeOK
    <2> QED
      BY <2>1 DEF NoLostWakeup
  <1>8. ASSUME NEW w \in Workers, take_task(w) PROVE NoLostWakeup'
    <2>1. count' = count - 1
      BY <1>8 DEF take_task
    <2>2. Cardinality(AtLock') = Cardinality(AtLock) - 1
      BY <1>8, OneLessAtLock DEF take_task
    <2>3. Asleep' # {} => Asleep # {}
      BY <1>8 DEF Asleep, TypeOK, take_task
    <2>4. Asleep' # {} => count' <= Cardinality(AtLock')
      BY <1>1, <2>1, <2>2, <2>3 DEF NoLostWakeup
    <2> QED
      BY <2>4 DEF NoLostWakeup
  <1> QED
    BY <1>2, <1>3, <1>4, <1>5, <1>6, <1>7, <1>8 DEF Next, worker

LEMMA NextSleeper == IInv /\ NoSleeperAfterStop /\ [Next]_vars => NoSleeperAfterStop'
  <1> SUFFICES ASSUME IInv, NoSleeperAfterStop, [Next]_vars PROVE NoSleeperAfterStop'
    OBVIOUS
  <1> USE DEF IInv, NoSleeperAfterStop, Asleep, TypeOK, RingInv
  <1>1. CASE threadpool_push
    BY <1>1 DEF threadpool_push
  <1>2. CASE threadpool_destroy
    BY <1>2 DEF threadpool_destroy, Broadcast
  <1>3. CASE joined \/ UNCHANGED vars
    BY <1>3 DEF joined, vars
  <1>4. ASSUME NEW w \in Workers, worker(w) PROVE NoSleeperAfterStop'
    BY <1>4 DEF worker, cond_wait, spurious_wakeup, return_stopped, take_task, task_returns
  <1> QED
    BY <1>1, <1>2, <1>3, <1>4 DEF Next

(* A broadcast leaves nobody asleep, and nobody falls asleep in a stopped   *)
(* pool: threadpool_destroy cannot wait for a thread that waits for a task. *)
THEOREM NobodySleepsStopped == Spec => []NoSleeperAfterStop
  <1>1. Init => NoSleeperAfterStop
    BY DEF Init, NoSleeperAfterStop, Asleep
  <1> QED
    BY <1>1, NextSleeper, PoolInv, PTL DEF Spec

(* One signal for each push is enough, for any number of threads: as long   *)
(* as one sleeps, every task in the ring has a thread on its way to it; and *)
(* the broadcast of the stop is enough for all.                             *)
THEOREM WakeupsSuffice == Spec => []NobodyOversleeps
  <1>1. Init => NoLostWakeup
    BY DEF Init, NoLostWakeup, Asleep
  <1>2. NoLostWakeup /\ NoSleeperAfterStop => NobodyOversleeps
    BY DEF NobodyOversleeps
  <1> QED
    BY <1>1, <1>2, NextWakeup, NobodySleepsStopped, PoolInv, PTL DEF Spec

-----------------------------------------------------------------------------
(* The pool implements the queue.                                           *)

LEMMA RingType == ASSUME IInv PROVE Ring \in Seq(Nat) /\ Len(Ring) = count
  <1>1. count \in Nat
    BY Size DEF IInv, TypeOK
  <1>2. Ring \in [1 .. count -> Nat]
    BY DEF IInv, RingInv, Ring
  <1> QED
    BY <1>1, <1>2 DEF Ring

(* A push to a ring with a free slot appends to the sequence it stands for. *)
LEMMA RingPush ==
    ASSUME IInv, threadpool_push, count < QUEUE_SIZE
    PROVE  Ring' = Append(Ring, pushed + 1)
  <1>1. /\ count \in 0 .. QUEUE_SIZE - 1 /\ count' = count + 1 /\ count \in Nat
        /\ head \in 0 .. QUEUE_SIZE - 1 /\ head' = head
        /\ tail \in 0 .. QUEUE_SIZE - 1 /\ tail = (head + count) % QUEUE_SIZE
        /\ queue' = [queue EXCEPT ![tail] = pushed + 1]
        /\ queue \in [0 .. QUEUE_SIZE - 1 -> Nat \cup {NoTask}]
    BY Size, PoolAssumption DEF IInv, TypeOK, RingInv, threadpool_push
  <1>2. ASSUME NEW k \in 1 .. count
        PROVE  queue'[(head + k - 1) % QUEUE_SIZE] = queue[(head + k - 1) % QUEUE_SIZE]
    <2>1. (head + k - 1) % QUEUE_SIZE # tail
      BY <1>1, TailIsFree
    <2>2. head + k - 1 \in Nat
      BY <1>1, Size
    <2>3. (head + k - 1) % QUEUE_SIZE \in 0 .. QUEUE_SIZE - 1
      BY <2>2, SlotOf
    <2> QED
      BY <1>1, <2>1, <2>3
  <1>3. queue'[(head + (count + 1) - 1) % QUEUE_SIZE] = pushed + 1
    <2>1. head + (count + 1) - 1 = head + count
      BY <1>1
    <2> QED
      BY <1>1, <2>1
  <1>4. Ring' = [k \in 1 .. count + 1 |-> queue'[(head + k - 1) % QUEUE_SIZE]]
    BY <1>1 DEF Ring
  <1>5. Append(Ring, pushed + 1) =
           [k \in 1 .. count + 1 |-> IF k = count + 1 THEN pushed + 1 ELSE Ring[k]]
    BY <1>1, RingType
  <1>6. ASSUME NEW k \in 1 .. count + 1
        PROVE  queue'[(head + k - 1) % QUEUE_SIZE] =
                  IF k = count + 1 THEN pushed + 1 ELSE Ring[k]
    <2>1. CASE k = count + 1
      BY <1>3, <2>1
    <2>2. CASE k \in 1 .. count
      <3>1. k # count + 1
        BY <1>1, <2>2
      <3>2. Ring[k] = queue[(head + k - 1) % QUEUE_SIZE]
        BY <2>2 DEF Ring
      <3> QED
        BY <1>2, <2>2, <3>1, <3>2
    <2> QED
      BY <1>1, <2>1, <2>2
  <1> QED
    BY <1>4, <1>5, <1>6

LEMMA TailIsFunction ==
    ASSUME NEW s \in Seq(Nat), s # <<>>
    PROVE  Tail(s) = [k \in 1 .. Len(s) - 1 |-> s[k + 1]]
  <1> DEFINE f == [k \in 1 .. Len(s) - 1 |-> s[k + 1]]
  <1>1. Len(s) \in Nat \ {0} /\ Len(s) - 1 \in Nat
    BY EmptySeq, LenProperties
  <1>2. \A k \in 1 .. Len(s) - 1 : s[k + 1] \in Nat
    BY <1>1, LenProperties
  <1>3. f \in Seq(Nat) /\ Len(f) = Len(s) - 1
    BY <1>1, <1>2
  <1>4. /\ Tail(s) \in Seq(Nat) /\ Len(Tail(s)) = Len(s) - 1
        /\ \A k \in 1 .. Len(Tail(s)) : Tail(s)[k] = s[k + 1]
    BY HeadTailProperties
  <1>5. \A k \in 1 .. Len(Tail(s)) : Tail(s)[k] = f[k]
    BY <1>4
  <1> HIDE DEF f
  <1>6. Tail(s) = f
    BY <1>3, <1>4, <1>5, SeqEqual
  <1> QED
    BY <1>6 DEF f

(* Taking a task removes the head of the sequence the ring stands for.      *)
LEMMA RingTake ==
    ASSUME IInv, NEW w \in Workers, take_task(w)
    PROVE  Ring # <<>> /\ Head(Ring) = queue[head] /\ Ring' = Tail(Ring)
  <1>1. /\ count \in Nat \ {0} /\ count' = count - 1 /\ queue' = queue
        /\ head \in 0 .. QUEUE_SIZE - 1 /\ head \in Nat /\ head' = (head + 1) % QUEUE_SIZE
    BY Size DEF IInv, TypeOK, take_task
  <1>2. Ring \in Seq(Nat) /\ Len(Ring) = count /\ Ring # <<>>
    BY <1>1, RingType, Size
  <1>3. Head(Ring) = queue[head]
    <2>1. (head + 1 - 1) % QUEUE_SIZE = head
      BY <1>1, HeadSlot
    <2>2. Head(Ring) = Ring[1] /\ 1 \in 1 .. count
      BY <1>1, <1>2, Size
    <2> QED
      BY <2>1, <2>2 DEF Ring
  <1>4. head' \in 0 .. QUEUE_SIZE - 1
    BY <1>1, SlotOf
  <1>5. ASSUME NEW k \in 1 .. count - 1
        PROVE  queue[(head' + k - 1) % QUEUE_SIZE] = Ring[k + 1]
    <2>1. k - 1 \in Nat /\ k + 1 \in 1 .. count
      BY <1>1, Size
    <2>2. (((head + 1) % QUEUE_SIZE) + (k - 1)) % QUEUE_SIZE = (head + (k - 1 + 1)) % QUEUE_SIZE
      BY <1>1, <2>1, HeadAdvances
    <2>3. head' + k - 1 = ((head + 1) % QUEUE_SIZE) + (k - 1) /\ head + (k - 1 + 1) = head + (k + 1) - 1
      BY <1>1, <1>4, <2>1
    <2> QED
      BY <2>1, <2>2, <2>3 DEF Ring
  <1>6. Ring' = [k \in 1 .. count - 1 |-> queue[(head' + k - 1) % QUEUE_SIZE]]
    BY <1>1 DEF Ring
  <1>7. Tail(Ring) = [k \in 1 .. count - 1 |-> Ring[k + 1]]
    BY <1>2, TailIsFunction
  <1> QED
    BY <1>2, <1>3, <1>5, <1>6, <1>7

(* What the queue of TaskQueue calls the running tasks.                     *)
RunningTasks == [w \in Workers |-> IF pc[w] = "task" THEN task[w] ELSE NoTask]

LEMMA StepRefines == IInv /\ [Next]_vars => overrun' \/ [Abstract!Next]_(Abstract!vars)
  <1> SUFFICES ASSUME IInv, [Next]_vars, ~overrun'
               PROVE  [Abstract!Next]_(Abstract!vars)
    OBVIOUS
  <1> USE DEF IInv
  <1>0. pc \in [Workers -> {"lock", "asleep", "task", "returned"}]
    BY DEF TypeOK
  <1>1. CASE threadpool_push
    <2>1. Ring' = Append(Ring, pushed + 1)
      <3>1. count < QUEUE_SIZE
        <4>1. ~(count >= QUEUE_SIZE)
          BY <1>1, Zenon DEF threadpool_push
        <4> QED
          BY <4>1, Size DEF TypeOK
      <3> QED
        BY <1>1, <3>1, RingPush
    <2>2. pushed + 1 \in Tasks
      BY <1>1, PoolAssumption DEF threadpool_push, TypeOK, Tasks
    <2>3. RunningTasks' = RunningTasks
      BY <1>0, <1>1 DEF threadpool_push, Signal, Asleep, RunningTasks
    <2>4. stop' = stop
      BY <1>1 DEF threadpool_push
    <2> QED
      BY <2>1, <2>2, <2>3, <2>4 DEF Abstract!Next, Abstract!Push, RunningTasks
  <1>2. CASE threadpool_destroy
    <2>1. Ring' = Ring
      BY <1>2 DEF threadpool_destroy, Ring
    <2>2. RunningTasks' = RunningTasks
      BY <1>0, <1>2 DEF threadpool_destroy, Broadcast, RunningTasks
    <2>3. stop = FALSE /\ stop' = TRUE
      BY <1>2 DEF threadpool_destroy, RingInv, TypeOK
    <2> QED
      BY <2>1, <2>2, <2>3 DEF Abstract!Next, Abstract!Close, RunningTasks
  <1>3. ASSUME NEW w \in Workers, take_task(w)
        PROVE  Abstract!Start(w)
    <2>1. Ring # <<>> /\ Head(Ring) = queue[head] /\ Ring' = Tail(Ring)
      BY <1>3, RingTake
    <2>2. RunningTasks[w] = NoTask /\ RunningTasks' = [RunningTasks EXCEPT ![w] = queue[head]]
      BY <1>0, <1>3 DEF take_task, RunningTasks, TypeOK
    <2>3. stop = FALSE /\ stop' = stop
      BY <1>3 DEF take_task, TypeOK
    <2> QED
      BY <2>1, <2>2, <2>3 DEF Abstract!Start, RunningTasks
  <1>4. ASSUME NEW w \in Workers, task_returns(w)
        PROVE  Abstract!Finish(w)
    <2>1. Ring' = Ring /\ stop' = stop
      BY <1>4 DEF task_returns, Ring
    <2>2. RunningTasks[w] # NoTask
      BY <1>4, PoolAssumption DEF task_returns, RunningTasks, RingInv
    <2>3. RunningTasks' = [RunningTasks EXCEPT ![w] = NoTask]
      BY <1>0, <1>4 DEF task_returns, RunningTasks
    <2> QED
      BY <2>1, <2>2, <2>3 DEF Abstract!Finish, RunningTasks
  <1>5. ASSUME joined \/ UNCHANGED vars
               \/ \E w \in Workers : cond_wait(w) \/ spurious_wakeup(w) \/ return_stopped(w)
        PROVE  UNCHANGED Abstract!vars
    <2>1. Ring' = Ring /\ stop' = stop
      BY <1>5 DEF joined, vars, cond_wait, spurious_wakeup, return_stopped, Ring
    <2>2. RunningTasks' = RunningTasks
      BY <1>0, <1>5 DEF joined, vars, cond_wait, spurious_wakeup, return_stopped, RunningTasks
    <2> QED
      BY <2>1, <2>2 DEF Abstract!vars, RunningTasks
  <1> QED
    BY <1>1, <1>2, <1>3, <1>4, <1>5 DEF Next, worker, Abstract!Next

LEMMA InitRefines == Init => Abstract!Init
  <1> SUFFICES ASSUME Init PROVE Abstract!Init
    OBVIOUS
  <1>1. Ring = <<>>
    BY DEF Init, Ring
  <1> QED
    BY <1>1 DEF Init, Abstract!Init

(* Whatever the event loop pushes, the ring, the lock and the condition     *)
(* variable are a queue as long as no push has met a full ring.             *)
THEOREM QueueUpToOverrun == Spec => QueueUntilOverrun
  BY InitRefines, StepRefines, PoolInv, PTL DEF Spec, QueueUntilOverrun

(* An event loop that never has more tasks waiting than the ring has slots  *)
(* overruns nothing: the pool implements the queue.  Tasks start in the     *)
(* order of their pushes, each once, none in a stopped pool.                *)
THEOREM PoolIsQueue ==
    ASSUME MaxPending <= QUEUE_SIZE
    PROVE  Spec => ImplementsQueue
  <1>1. Init => ~overrun
    BY DEF Init
  <1>2. IInv /\ ~overrun /\ [Next]_vars => ~overrun'
    <2> SUFFICES ASSUME IInv, ~overrun, [Next]_vars PROVE ~overrun'
      OBVIOUS
    <2>1. CASE threadpool_push
      BY <2>1, PoolAssumption DEF threadpool_push, IInv, TypeOK
    <2>2. CASE ~threadpool_push
      BY <2>2 DEF Next, vars, threadpool_destroy, joined, worker, cond_wait, spurious_wakeup,
                  return_stopped, take_task, task_returns
    <2> QED
      BY <2>1, <2>2
  <1>3. IInv /\ ~overrun' /\ [Next]_vars => [Abstract!Next]_(Abstract!vars)
    BY StepRefines
  <1> QED
    BY <1>1, <1>2, <1>3, InitRefines, PoolInv, PTL DEF Spec, ImplementsQueue, Abstract!Spec

-----------------------------------------------------------------------------
(* What an overrun costs.                                                   *)

(* A task that waited and does not any more was started or written over.    *)
LEMMA NextLoses ==
    ASSUME IInv, [Next]_vars, NEW t \in Waiting \ Waiting'
    PROVE  \/ \E w \in Workers : pc[w] = "lock" /\ pc'[w] = "task" /\ task'[w] = t
           \/ count >= QUEUE_SIZE /\ pushed' # pushed /\ queue[tail] = t
  <1> USE DEF IInv
  <1>1. PICK k \in 1 .. count : t = queue[(head + k - 1) % QUEUE_SIZE]
    BY DEF Waiting, Ring
  <1>2. /\ count \in Nat /\ head \in 0 .. QUEUE_SIZE - 1 /\ head \in Nat
        /\ tail \in 0 .. QUEUE_SIZE - 1 /\ pushed \in Nat
        /\ tail = (head + count) % QUEUE_SIZE
    BY Size DEF TypeOK, RingInv
  <1>3. \A j \in 1 .. count' : queue'[(head' + j - 1) % QUEUE_SIZE] # t
    BY DEF Waiting, Ring
  <1>4. CASE threadpool_push
    <2> DEFINE slot == (head + k - 1) % QUEUE_SIZE
    <2>1. count' = count + 1 /\ head' = head /\ pushed' = pushed + 1
          /\ queue' = [queue EXCEPT ![tail] = pushed + 1]
      BY <1>4 DEF threadpool_push
    <2>2. k \in 1 .. count'
      BY <1>2, <2>1
    <2>3. slot \in 0 .. QUEUE_SIZE - 1
      <3>1. head + k - 1 \in Nat
        BY <1>2
      <3> QED
        BY <3>1, SlotOf
    <2>4. queue'[slot] # queue[slot]
      BY <1>1, <1>3, <2>1, <2>2
    <2>5. slot = tail
      BY <2>1, <2>3, <2>4 DEF TypeOK
    <2>6. count >= QUEUE_SIZE
      <3> SUFFICES ASSUME ~(count >= QUEUE_SIZE) PROVE FALSE
        OBVIOUS
      <3>1. count \in 0 .. QUEUE_SIZE - 1
        BY <1>2, Size
      <3> QED
        BY <1>2, <2>5, <3>1, TailIsFree
    <2> QED
      BY <1>1, <1>2, <2>1, <2>5, <2>6
  <1>5. ASSUME NEW w \in Workers, take_task(w)
        PROVE  pc[w] = "lock" /\ pc'[w] = "task" /\ task'[w] = t
    <2>1. /\ pc[w] = "lock" /\ pc'[w] = "task" /\ task'[w] = queue[head]
          /\ queue' = queue /\ head' = (head + 1) % QUEUE_SIZE /\ count' = count - 1
      BY <1>5 DEF take_task, TypeOK
    <2>2. CASE k = 1
      BY <1>1, <1>2, <2>1, <2>2, HeadSlot
    <2>3. CASE k # 1
      <3>1. k - 1 \in 1 .. count' /\ k - 2 \in Nat
        BY <1>2, <2>1, <2>3
      <3>2. (((head + 1) % QUEUE_SIZE) + (k - 2)) % QUEUE_SIZE = (head + (k - 2 + 1)) % QUEUE_SIZE
        BY <1>2, <3>1, HeadAdvances
      <3>3. (head + 1) % QUEUE_SIZE \in 0 .. QUEUE_SIZE - 1
        <4>1. head + 1 \in Nat
          BY <1>2
        <4> QED
          BY <4>1, SlotOf
      <3>4. head' + (k - 1) - 1 = ((head + 1) % QUEUE_SIZE) + (k - 2)
            /\ head + (k - 2 + 1) = head + k - 1
        BY <1>2, <2>1, <3>3, Size
      <3>5. queue'[(head' + (k - 1) - 1) % QUEUE_SIZE] = t
        BY <1>1, <2>1, <3>2, <3>4
      <3> QED
        BY <1>3, <3>1, <3>5
    <2> QED
      BY <2>2, <2>3
  <1>6. CASE /\ ~threadpool_push
             /\ \A w \in Workers : ~take_task(w)
    <2>1. queue' = queue /\ head' = head /\ count' = count
      BY <1>6 DEF Next, vars, threadpool_destroy, joined, worker, cond_wait, spurious_wakeup,
                  return_stopped, task_returns
    <2> QED
      BY <1>1, <1>3, <2>1
  <1> QED
    BY <1>4, <1>5, <1>6

(* For any ring and any number of tasks: one that waits leaves the ring     *)
(* when a thread starts it, or when a push to a full ring writes over it.   *)
THEOREM LostToOverrunOnly == Spec => OverwrittenOnlyThus
  <1>1. IInv /\ [Next]_vars =>
           \A t \in Waiting \ Waiting' :
              \/ \E w \in Workers : pc[w] = "lock" /\ pc'[w] = "task" /\ task'[w] = t
              \/ count >= QUEUE_SIZE /\ pushed' # pushed /\ queue[tail] = t
    BY NextLoses
  <1> QED
    BY <1>1, PoolInv, PTL DEF Spec, OverwrittenOnlyThus

=============================================================================
