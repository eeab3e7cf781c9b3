-------------------------- MODULE BoundedTaskQueue --------------------------
(***************************************************************************)
(* What ThreadPool<T> promises the threads that give it tasks, without     *)
(* workers, locks or wakeups: an open queue accepts at most Capacity       *)
(* waiting tasks, starts them in order, at most Parallelism at a time, and *)
(* starts none once it is closed.                                          *)
(***************************************************************************)
EXTENDS Integers, Sequences, FiniteSets

CONSTANTS Tasks, Capacity, Parallelism

VARIABLES
    open,       \* tasks are accepted and started
    queue,      \* the tasks that wait, oldest first
    running,    \* the tasks being handled
    ended       \* the tasks whose handler returned or threw

vars == <<open, queue, running, ended>>

Init ==
    /\ open = FALSE
    /\ queue = <<>>
    /\ running = {}
    /\ ended = {}

Open ==
    /\ open' = TRUE
    /\ UNCHANGED <<queue, running, ended>>

Close ==
    /\ open' = FALSE
    /\ UNCHANGED <<queue, running, ended>>

Submit(t) ==
    /\ open
    /\ Len(queue) < Capacity
    /\ t \notin running \cup ended
    /\ \A i \in DOMAIN queue : queue[i] # t
    /\ queue' = Append(queue, t)
    /\ UNCHANGED <<open, running, ended>>

Begin ==
    /\ open
    /\ queue # <<>>
    /\ Cardinality(running) < Parallelism
    /\ running' = running \cup {Head(queue)}
    /\ queue' = Tail(queue)
    /\ UNCHANGED <<open, ended>>

End(t) ==
    /\ t \in running
    /\ running' = running \ {t}
    /\ ended' = ended \cup {t}
    /\ UNCHANGED <<open, queue>>

Next == Open \/ Close \/ Begin \/ (\E t \in Tasks : Submit(t) \/ End(t))

Spec == Init /\ [][Next]_vars
=============================================================================
