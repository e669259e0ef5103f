------------------------------ MODULE TaskPool ------------------------------
(***************************************************************************)
(* The thread pool of threads/pool_thread.c: a ring buffer, a mutex and a  *)
(* condition variable between the event loop, which pushes tasks and in    *)
(* the end destroys the pool, and the threads that run worker().           *)
(*                                                                         *)
(* Every access to the ring lies between a lock and an unlock, so that one *)
(* critical section is one step.  A thread is at the lock, asleep in       *)
(* pthread_cond_wait, running a task outside the lock, or has returned.    *)
(***************************************************************************)
EXTENDS Integers, Sequences, FiniteSets

CONSTANTS
    Workers,     \* the pool's threads (4)
    QUEUE_SIZE,  \* slots of the ring (64)
    MaxPending,  \* tasks the event loop has waiting at a time, at most: more
                 \* than QUEUE_SIZE, perhaps, for it does not count them
    MaxPushed,   \* bound: tasks pushed in a behaviour
    NoTask

ASSUME PoolAssumption ==
    /\ IsFiniteSet(Workers) /\ Workers # {}
    /\ QUEUE_SIZE \in Nat \ {0}
    /\ MaxPending \in Nat
    /\ MaxPushed \in Nat
    /\ NoTask \notin Nat

VARIABLES
    queue,   \* pool->queue
    head,    \* pool->head
    tail,    \* pool->tail
    count,   \* pool->count
    stop,    \* pool->stop
    pc,      \* where each thread is
    task,    \* the local variable task of each thread
    main,    \* the event loop: "running", "joining" in threadpool_destroy, "joined"
    pushed,  \* tasks pushed so far; the task pushed n-th is n
    overrun  \* history: a push found no free slot in the ring

vars == <<queue, head, tail, count, stop, pc, task, main, pushed, overrun>>

Tasks == 1 .. MaxPushed

(* threadpool_init                                                         *)
Init ==
    /\ queue = [i \in 0 .. QUEUE_SIZE - 1 |-> NoTask]
    /\ head = 0
    /\ tail = 0
    /\ count = 0
    /\ stop = FALSE
    /\ pc = [w \in Workers |-> "lock"]
    /\ task = [w \in Workers |-> NoTask]
    /\ main = "running"
    /\ pushed = 0
    /\ overrun = FALSE

Asleep == {w \in Workers : pc[w] = "asleep"}

(* Definitions named X_... are the mistakes the properties are tried on; no *)
(* action uses them.  Here: the push does not signal.                      *)
Signal_none == UNCHANGED pc

(* threadpool_destroy signals where it should broadcast.                   *)
Broadcast_one ==
    \/ Asleep = {} /\ UNCHANGED pc
    \/ \E w \in Asleep : pc' = [pc EXCEPT ![w] = "lock"]

(* pthread_cond_signal wakes a thread if one is asleep.                    *)
Signal ==
    \/ Asleep = {} /\ UNCHANGED pc
    \/ \E w \in Asleep : pc' = [pc EXCEPT ![w] = "lock"]

(* pthread_cond_broadcast                                                  *)
Broadcast == pc' = [w \in Workers |-> IF pc[w] = "asleep" THEN "lock" ELSE pc[w]]

(* The ring does not wrap around.                                          *)
threadpool_push_straight ==
    /\ main = "running" /\ count < MaxPending /\ pushed < MaxPushed
    /\ pushed' = pushed + 1 /\ overrun' = (overrun \/ count >= QUEUE_SIZE)
    /\ queue' = [queue EXCEPT ![tail] = pushed + 1]
    /\ tail' = tail + 1
    /\ count' = count + 1
    /\ Signal
    /\ UNCHANGED <<head, stop, task, main>>

(* threadpool_push.  The code does not look at count: in a full ring tail   *)
(* is head, and the task that waits longest is overwritten.                *)
threadpool_push ==
    /\ main = "running"
    /\ count < MaxPending
    /\ pushed < MaxPushed
    /\ pushed' = pushed + 1
    /\ queue' = [queue EXCEPT ![tail] = pushed + 1]
    /\ tail' = (tail + 1) % QUEUE_SIZE
    /\ count' = count + 1
    /\ overrun' = (overrun \/ count >= QUEUE_SIZE)
    /\ Signal
    /\ UNCHANGED <<head, stop, task, main>>

(* threadpool_destroy, up to the first pthread_join.                       *)
threadpool_destroy ==
    /\ main = "running"
    /\ main' = "joining"
    /\ stop' = TRUE
    /\ Broadcast
    /\ UNCHANGED <<queue, head, tail, count, task, pushed, overrun>>

(* The last pthread_join returns.                                          *)
joined ==
    /\ main = "joining"
    /\ \A w \in Workers : pc[w] = "returned"
    /\ main' = "joined"
    /\ UNCHANGED <<queue, head, tail, count, stop, pc, task, pushed, overrun>>

(* worker: the lock is taken, there is nothing to do.                      *)
cond_wait(w) ==
    /\ pc[w] = "lock"
    /\ count = 0 /\ ~stop
    /\ pc' = [pc EXCEPT ![w] = "asleep"]
    /\ UNCHANGED <<queue, head, tail, count, stop, task, main, pushed, overrun>>

(* POSIX lets pthread_cond_wait return without a signal.                   *)
spurious_wakeup(w) ==
    /\ pc[w] = "asleep"
    /\ pc' = [pc EXCEPT ![w] = "lock"]
    /\ UNCHANGED <<queue, head, tail, count, stop, task, main, pushed, overrun>>

return_stopped(w) ==
    /\ pc[w] = "lock"
    /\ stop
    /\ pc' = [pc EXCEPT ![w] = "returned"]
    /\ UNCHANGED <<queue, head, tail, count, stop, task, main, pushed, overrun>>

(* A thread that takes a task leaves the head where it was.                *)
take_task_again(w) ==
    /\ pc[w] = "lock" /\ count # 0 /\ ~stop
    /\ task' = [task EXCEPT ![w] = queue[head]]
    /\ count' = count - 1
    /\ pc' = [pc EXCEPT ![w] = "task"]
    /\ UNCHANGED <<queue, head, tail, stop, main, pushed, overrun>>

(* The head has moved on before the slot is read.                          *)
take_task_late(w) ==
    /\ pc[w] = "lock" /\ count # 0 /\ ~stop
    /\ head' = (head + 1) % QUEUE_SIZE
    /\ task' = [task EXCEPT ![w] = queue[head']]
    /\ count' = count - 1
    /\ pc' = [pc EXCEPT ![w] = "task"]
    /\ UNCHANGED <<queue, tail, stop, main, pushed, overrun>>

take_task(w) ==
    /\ pc[w] = "lock"
    /\ count # 0 /\ ~stop
    /\ task' = [task EXCEPT ![w] = queue[head]]
    /\ head' = (head + 1) % QUEUE_SIZE
    /\ count' = count - 1
    /\ pc' = [pc EXCEPT ![w] = "task"]
    /\ UNCHANGED <<queue, tail, stop, main, pushed, overrun>>

(* task.fn(task.arg) returns.                                              *)
task_returns(w) ==
    /\ pc[w] = "task"
    /\ pc' = [pc EXCEPT ![w] = "lock"]
    /\ UNCHANGED <<queue, head, tail, count, stop, task, main, pushed, overrun>>

worker(w) ==
    \/ cond_wait(w)
    \/ spurious_wakeup(w)
    \/ return_stopped(w)
    \/ take_task(w)
    \/ task_returns(w)

Next ==
    \/ threadpool_push
    \/ threadpool_destroy
    \/ joined
    \/ \E w \in Workers : worker(w)

Spec == Init /\ [][Next]_vars

(* Threads that can run do run, every task returns, and the mutex is not   *)
(* kept from any thread for ever.  A thread asleep may sleep on.           *)
Fairness ==
    /\ WF_vars(joined)
    /\ \A w \in Workers : WF_vars(cond_wait(w) \/ return_stopped(w) \/ take_task(w) \/ task_returns(w))

FairSpec == Spec /\ Fairness

-----------------------------------------------------------------------------
(* Properties                                                              *)

(* Types of all variables.                                                 *)
TypeOK ==
    /\ queue \in [0 .. QUEUE_SIZE - 1 -> Nat \cup {NoTask}]
    /\ head \in 0 .. QUEUE_SIZE - 1
    /\ tail \in 0 .. QUEUE_SIZE - 1
    /\ count \in Nat
    /\ stop \in BOOLEAN
    /\ pc \in [Workers -> {"lock", "asleep", "task", "returned"}]
    /\ task \in [Workers -> Nat \cup {NoTask}]
    /\ main \in {"running", "joining", "joined"}
    /\ pushed \in Nat
    /\ overrun \in BOOLEAN

(* While a thread sleeps, there are at least as many threads on their way  *)
(* to the ring as there are tasks in it: no wakeup is lost, and no task    *)
(* waits for a task to end while another thread has nothing to do.         *)
AtLock == {w \in Workers : pc[w] = "lock"}
NoLostWakeup == Asleep # {} => count <= Cardinality(AtLock)

(* Once the pool is stopped no thread is left asleep, so that the joins of *)
(* threadpool_destroy end, and when they have ended no thread can touch    *)
(* what the tasks point to any more.                                       *)
NoSleeperAfterStop ==
    /\ stop => Asleep = {}
    /\ main = "joined" => \A w \in Workers : pc[w] = "returned"

(* Neither the signal of a push nor the broadcast of the stop is missed.    *)
NobodyOversleeps == NoLostWakeup /\ NoSleeperAfterStop

(* The ring holds count tasks from head on, oldest first.                  *)
Ring == [k \in 1 .. count |-> queue[(head + k - 1) % QUEUE_SIZE]]

(* A task that waits is lost only when a push to a full ring overwrites it; *)
(* else it waits until a thread starts it.                                 *)
Waiting == {Ring[k] : k \in 1 .. count}
OverwrittenOnlyThus ==
    [][\A t \in Waiting \ Waiting' :
          \/ \E w \in Workers : pc[w] = "lock" /\ pc'[w] = "task" /\ task'[w] = t
          \/ count >= QUEUE_SIZE /\ pushed' # pushed /\ queue[tail] = t]_vars

(* The pool is a queue (TaskQueue): tasks start in the order of the pushes,*)
(* each once, and none after the pool was stopped.                         *)
Abstract == INSTANCE TaskQueue
    WITH pending <- Ring,
         running <- [w \in Workers |-> IF pc[w] = "task" THEN task[w] ELSE NoTask],
         closed <- stop

ImplementsQueue == Abstract!Spec

(* Whatever is pushed, it is that queue until the ring was overrun.        *)
QueueUntilOverrun ==
    Abstract!Init /\ [][overrun' \/ [Abstract!Next]_(Abstract!vars)]_vars

(* It is a fair one: a pushed task starts, as long as the pool is not       *)
(* stopped, even if no thread was awake when it was pushed; and             *)
(* threadpool_destroy returns.                                             *)
StartsAndEnds == Abstract!Fairness /\ (main = "joining" ~> main = "joined")

=============================================================================
