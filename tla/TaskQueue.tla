----------------------------- MODULE TaskQueue -----------------------------
(***************************************************************************)
(* What the event loop expects of the thread pool: tasks start in the      *)
(* order they were pushed, each exactly once, until the pool is closed.    *)
(* Tasks that have not started by then never do.                           *)
(***************************************************************************)
EXTENDS Naturals, Sequences

CONSTANTS Workers, Tasks, NoTask

VARIABLES
    pending,   \* the tasks that have not started, oldest first
    running,   \* the task of each thread
    closed     \* no task starts any more

vars == <<pending, running, closed>>

Init ==
    /\ pending = <<>>
    /\ running = [w \in Workers |-> NoTask]
    /\ closed = FALSE

Push(t) ==
    /\ pending' = Append(pending, t)
    /\ UNCHANGED <<running, closed>>

Start(w) ==
    /\ ~closed
    /\ running[w] = NoTask
    /\ pending # <<>>
    /\ running' = [running EXCEPT ![w] = Head(pending)]
    /\ pending' = Tail(pending)
    /\ UNCHANGED closed

Finish(w) ==
    /\ running[w] # NoTask
    /\ running' = [running EXCEPT ![w] = NoTask]
    /\ UNCHANGED <<pending, closed>>

Close ==
    /\ ~closed
    /\ closed' = TRUE
    /\ UNCHANGED <<pending, running>>

Next ==
    \/ \E t \in Tasks : Push(t)
    \/ \E w \in Workers : Start(w) \/ Finish(w)
    \/ Close

Spec == Init /\ [][Next]_vars

(* A pool that is open starts what it is given, and tasks end.             *)
Fairness ==
    /\ WF_vars(\E w \in Workers : Start(w))
    /\ \A w \in Workers : WF_vars(Finish(w))

FairSpec == Spec /\ Fairness

=============================================================================
