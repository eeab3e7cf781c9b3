----------------------------- MODULE ThreadPool -----------------------------
(***************************************************************************)
(* fastcgi::ThreadPool<T> of include/details/thread_pool.h: a bounded FIFO *)
(* queue drained by a fixed group of worker threads.                       *)
(*                                                                         *)
(* Each critical section of mutex_ is one action.  What the code does      *)
(* outside the mutex is an action of its own: the notify_one that follows  *)
(* addTask's critical section, the initialisation callback, the handler.   *)
(* A worker that was signalled, one that woke spuriously and one that has  *)
(* not waited yet do the same thing next (acquire mutex_), so all three    *)
(* are at "lock".                                                          *)
(***************************************************************************)
EXTENDS Integers, Sequences, FiniteSets

CONSTANTS Workers,      \* the threads created by start
          Producers,    \* the threads that call addTask
          Tasks,        \* the tasks; each one is offered at most once
          NoTask,       \* an empty task variable
          QueueLength   \* info_.queueLength

ASSUME WorkersAssumption == IsFiniteSet(Workers) /\ Workers # {}
ASSUME ProducersAssumption == IsFiniteSet(Producers)
ASSUME TasksAssumption == NoTask \notin Tasks
ASSUME QueueLengthAssumption == QueueLength \in Nat

VARIABLES
    started,              \* info_.started
    tasksQueue,           \* tasksQueue_
    busyThreadsCounter, goodTasksCounter, badTasksCounter, currentQueue,
                          \* the counters of info_
    pc,                   \* where each worker is in workMethod
    state,                \* workMethod's local variable of that name
    task,                 \* workMethod's local variable of that name
    producer,             \* where each producer is in addTask
    phase,                \* what the pool's owner has called so far
    accepted,             \* history: the tasks pushed, in order
    taken,                \* history: the tasks popped, in order
    refused               \* history: the tasks addTask threw for

counters == <<busyThreadsCounter, goodTasksCounter, badTasksCounter>>
history == <<accepted, taken, refused>>
vars == <<started, tasksQueue, counters, currentQueue, pc, state, task,
          producer, phase, history>>

WorkerPC == {"off", "init", "lock", "wait", "handle", "exit"}
WorkerState == {"none", "good", "bad"}
Phase == {"created", "failed", "running", "stopped", "joined"}

\* The constructor; no thread exists yet.
Init ==
    /\ started = FALSE
    /\ tasksQueue = <<>>
    /\ busyThreadsCounter = 0
    /\ goodTasksCounter = 0
    /\ badTasksCounter = 0
    /\ currentQueue = 0
    /\ pc = [w \in Workers |-> "off"]
    /\ state = [w \in Workers |-> "none"]
    /\ task = [w \in Workers |-> NoTask]
    /\ producer = [p \in Producers |-> "idle"]
    /\ phase = "created"
    /\ accepted = <<>>
    /\ taken = <<>>
    /\ refused = {}

-----------------------------------------------------------------------------
(* The owner: start, stop, join, getInfo. *)

\* start() holds mutex_ while it creates the threads, so none of them gets
\* past its first lock before started is set.
Start ==
    /\ phase = "created"
    /\ pc' = [w \in Workers |-> "init"]
    /\ started' = TRUE
    /\ phase' = "running"
    /\ UNCHANGED <<tasksQueue, counters, currentQueue, state, task, producer,
                   history>>

\* create_thread throws after some of the threads were created: start() is
\* left with started still false.
StartFails(S) ==
    /\ phase = "created"
    /\ S # Workers
    /\ pc' = [w \in Workers |-> IF w \in S THEN "init" ELSE "off"]
    /\ phase' = "failed"
    /\ UNCHANGED <<started, tasksQueue, counters, currentQueue, state, task,
                   producer, history>>

\* Variant: stop() without the notify_all.
StopSilently ==
    /\ phase = "running"
    /\ started' = FALSE
    /\ phase' = "stopped"
    /\ UNCHANGED <<tasksQueue, counters, currentQueue, pc, state, task, producer,
                   history>>

\* stop(): notify_all is called with mutex_ held.
Stop ==
    /\ phase = "running"
    /\ started' = FALSE
    /\ pc' = [w \in Workers |-> IF pc[w] = "wait" THEN "lock" ELSE pc[w]]
    /\ phase' = "stopped"
    /\ UNCHANGED <<tasksQueue, counters, currentQueue, state, task, producer,
                   history>>

\* join() returns: join_all has seen every thread end.  The main thread sits in
\* it from the start on, and no thread ends before stop().
Join ==
    /\ phase = "stopped"
    /\ \A w \in Workers : pc[w] = "exit"
    /\ phase' = "joined"
    /\ UNCHANGED <<started, tasksQueue, counters, currentQueue, pc, state, task,
                   producer, history>>

\* getInfo() refreshes info_.currentQueue and returns a copy of info_.
GetInfo ==
    /\ currentQueue' = Len(tasksQueue)
    /\ UNCHANGED <<started, tasksQueue, counters, pc, state, task, producer,
                   phase, history>>

-----------------------------------------------------------------------------
(* A producer: addTask. *)

Fresh(t) ==
    /\ t \notin refused
    /\ \A i \in DOMAIN accepted : accepted[i] # t

\* Variant: addTask notifies only when the queue was empty.
PushNotifyIfEmpty(p, t) ==
    /\ producer[p] = "idle"
    /\ Fresh(t)
    /\ started
    /\ Len(tasksQueue) < QueueLength
    /\ tasksQueue' = Append(tasksQueue, t)
    /\ accepted' = Append(accepted, t)
    /\ producer' = [producer EXCEPT
                      ![p] = IF tasksQueue = <<>> THEN "notify" ELSE "idle"]
    /\ UNCHANGED <<started, counters, currentQueue, pc, state, task, phase,
                   taken, refused>>

\* The critical section of addTask, when it pushes the task.
Push(p, t) ==
    /\ producer[p] = "idle"
    /\ Fresh(t)
    /\ started
    /\ Len(tasksQueue) < QueueLength
    /\ tasksQueue' = Append(tasksQueue, t)
    /\ accepted' = Append(accepted, t)
    /\ producer' = [producer EXCEPT ![p] = "notify"]
    /\ UNCHANGED <<started, counters, currentQueue, pc, state, task, phase,
                   taken, refused>>

\* The critical section of addTask, when it throws: the pool is not started
\* or the queue is full.  The catch block also calls notify_one.
Refuse(p, t) ==
    /\ producer[p] = "idle"
    /\ Fresh(t)
    /\ ~started \/ Len(tasksQueue) >= QueueLength
    /\ refused' = refused \cup {t}
    /\ producer' = [producer EXCEPT ![p] = "notify"]
    /\ UNCHANGED <<started, tasksQueue, counters, currentQueue, pc, state, task,
                   phase, accepted, taken>>

\* condition_.notify_one(), after mutex_ has been released: it wakes one
\* waiting worker, or nobody when none is waiting.
Notify(p) ==
    /\ producer[p] = "notify"
    /\ producer' = [producer EXCEPT ![p] = "idle"]
    /\ \/ \E w \in Workers : pc[w] = "wait" /\ pc' = [pc EXCEPT ![w] = "lock"]
       \/ (\A w \in Workers : pc[w] # "wait") /\ pc' = pc
    /\ UNCHANGED <<started, tasksQueue, counters, currentQueue, state, task,
                   phase, history>>

-----------------------------------------------------------------------------
(* A worker: workMethod. *)

\* func() returned or threw; both are the same to workMethod.
InitDone(w) ==
    /\ pc[w] = "init"
    /\ pc' = [pc EXCEPT ![w] = "lock"]
    /\ UNCHANGED <<started, tasksQueue, counters, currentQueue, state, task,
                   producer, phase, history>>

Bump(n, on) == IF on THEN n + 1 ELSE n

\* Variant: a task that failed is counted but its thread stays busy.
AccountBadStaysBusy(w, takes) ==
    /\ pc[w] = "lock"
    /\ goodTasksCounter' = Bump(goodTasksCounter, state[w] = "good")
    /\ badTasksCounter' = Bump(badTasksCounter, state[w] = "bad")
    /\ busyThreadsCounter' = busyThreadsCounter + takes - Bump(0, state[w] = "good")
    /\ state' = [state EXCEPT ![w] = "none"]

\* Variant: every entry into the critical section decrements the counter.
AccountAlwaysIdle(w, takes) ==
    /\ pc[w] = "lock"
    /\ goodTasksCounter' = Bump(goodTasksCounter, state[w] = "good")
    /\ badTasksCounter' = Bump(badTasksCounter, state[w] = "bad")
    /\ busyThreadsCounter' = busyThreadsCounter + takes - 1
    /\ state' = [state EXCEPT ![w] = "none"]

\* Entering the critical section: the outcome of the previous task is
\* counted; takes is 1 when this entry takes a new one and 0 otherwise.
Account(w, takes) ==
    /\ pc[w] = "lock"
    /\ goodTasksCounter' = Bump(goodTasksCounter, state[w] = "good")
    /\ badTasksCounter' = Bump(badTasksCounter, state[w] = "bad")
    /\ busyThreadsCounter' = busyThreadsCounter + takes - Bump(0, state[w] # "none")
    /\ state' = [state EXCEPT ![w] = "none"]

\* Variant: the worker looks at started before it counts its last task.
ExitUncounted(w) ==
    /\ pc[w] = "lock"
    /\ ~started
    /\ pc' = [pc EXCEPT ![w] = "exit"]
    /\ UNCHANGED <<started, tasksQueue, counters, currentQueue, state, task,
                   producer, phase, history>>

\* The worker returns: the pool is not started.
Exit(w) ==
    /\ Account(w, 0)
    /\ ~started
    /\ pc' = [pc EXCEPT ![w] = "exit"]
    /\ UNCHANGED <<started, tasksQueue, currentQueue, task, producer, phase,
                   history>>

\* Variant: the worker looks at the queue before it looks at started.
TakeWhenStopped(w) ==
    /\ Account(w, 1)
    /\ tasksQueue # <<>>
    /\ task' = [task EXCEPT ![w] = Head(tasksQueue)]
    /\ tasksQueue' = Tail(tasksQueue)
    /\ taken' = Append(taken, Head(tasksQueue))
    /\ pc' = [pc EXCEPT ![w] = "handle"]
    /\ UNCHANGED <<started, currentQueue, producer, phase, accepted, refused>>

\* The worker pops the front of the queue and leaves the critical section.
Take(w) ==
    /\ Account(w, 1)
    /\ started
    /\ tasksQueue # <<>>
    /\ task' = [task EXCEPT ![w] = Head(tasksQueue)]
    /\ tasksQueue' = Tail(tasksQueue)
    /\ taken' = Append(taken, Head(tasksQueue))
    /\ pc' = [pc EXCEPT ![w] = "handle"]
    /\ UNCHANGED <<started, currentQueue, producer, phase, accepted, refused>>

\* The worker finds nothing to do and waits on the condition.
Wait(w) ==
    /\ Account(w, 0)
    /\ started
    /\ tasksQueue = <<>>
    /\ pc' = [pc EXCEPT ![w] = "wait"]
    /\ UNCHANGED <<started, tasksQueue, currentQueue, task, producer, phase,
                   history>>

\* condition_.wait may return without having been signalled.
SpuriousWakeup(w) ==
    /\ pc[w] = "wait"
    /\ pc' = [pc EXCEPT ![w] = "lock"]
    /\ UNCHANGED <<started, tasksQueue, counters, currentQueue, state, task,
                   producer, phase, history>>

\* handleTask returns ("good") or throws ("bad"); the iteration's task
\* variable goes out of scope.
Handled(w, outcome) ==
    /\ pc[w] = "handle"
    /\ state' = [state EXCEPT ![w] = outcome]
    /\ task' = [task EXCEPT ![w] = NoTask]
    /\ pc' = [pc EXCEPT ![w] = "lock"]
    /\ UNCHANGED <<started, tasksQueue, counters, currentQueue, producer, phase,
                   history>>

-----------------------------------------------------------------------------
Owner == Start \/ (\E S \in SUBSET Workers : StartFails(S)) \/ Stop \/ Join
         \/ GetInfo

AddTask(p) == (\E t \in Tasks : Push(p, t) \/ Refuse(p, t)) \/ Notify(p)

\* What a worker does without the help of a handler or of another thread.
Advance(w) == InitDone(w) \/ Exit(w) \/ Take(w) \/ Wait(w)

WorkMethod(w) == Advance(w) \/ SpuriousWakeup(w)
                 \/ (\E outcome \in {"good", "bad"} : Handled(w, outcome))

Next == Owner \/ (\E p \in Producers : AddTask(p))
        \/ (\E w \in Workers : WorkMethod(w))

Spec == Init /\ [][Next]_vars

\* The scheduler runs every thread that is not blocked.  Nothing is assumed of
\* the handlers: a task may run for ever.
ThreadsRun ==
    /\ \A p \in Producers : WF_vars(Notify(p))
    /\ \A w \in Workers : WF_vars(Advance(w))

LiveSpec == Spec /\ ThreadsRun

\* Every handler returns or throws in the end, and the owner that called join()
\* sees it return.
HandlersReturn ==
    /\ \A w \in Workers : WF_vars(\E o \in {"good", "bad"} : Handled(w, o))
    /\ WF_vars(Join)

-----------------------------------------------------------------------------
(* Properties. *)

\* Type correctness.  The counters are uint64_t in the code: that they stay in
\* Nat says that none of their decrements wraps.
TypeOK ==
    /\ started \in BOOLEAN
    /\ tasksQueue \in Seq(Tasks)
    /\ Len(tasksQueue) <= QueueLength
    /\ busyThreadsCounter \in Nat
    /\ goodTasksCounter \in Nat
    /\ badTasksCounter \in Nat
    /\ currentQueue \in 0 .. QueueLength
    /\ pc \in [Workers -> WorkerPC]
    /\ state \in [Workers -> WorkerState]
    /\ task \in [Workers -> Tasks \cup {NoTask}]
    /\ producer \in [Producers -> {"idle", "notify"}]
    /\ phase \in Phase
    /\ accepted \in Seq(Tasks)
    /\ taken \in Seq(Tasks)
    /\ refused \in SUBSET Tasks

Handling == {w \in Workers : pc[w] = "handle"}
Unaccounted == {w \in Workers : state[w] # "none"}
Awake == {w \in Workers : pc[w] \in {"init", "lock"}}
Waiting == {w \in Workers : pc[w] = "wait"}
Notifying == {p \in Producers : producer[p] = "notify"}

\* The busyThreadsCounter that getInfo reports is the number of workers that
\* run a handler or have run one and have not come back to mutex_ yet; it is
\* changed in two critical sections of workMethod, with the handler (which may
\* throw) between them.
BusyExact == busyThreadsCounter = Cardinality(Handling \cup Unaccounted)

\* Every task addTask accepted is in exactly one place: finished (good or bad),
\* with a busy worker, or still queued.  None is lost or counted twice,
\* whatever the handlers throw and whenever stop() comes.
Conservation ==
    Len(accepted) = goodTasksCounter + badTasksCounter + busyThreadsCounter
                    + Len(tasksQueue)

\* Tasks are started in the order in which addTask accepted them, each once.
FIFO == accepted = taken \o tasksQueue

\* While a worker waits, every queued task has a wakeup on its way: a producer
\* that has not called notify_one yet, or a worker on its way to mutex_.
\* addTask notifies after releasing mutex_ and workMethod waits in a loop;
\* this is why no queued task is left to a pool of sleeping workers.
NoLostWakeup ==
    started /\ Waiting # {} =>
        Len(tasksQueue) <= Cardinality(Notifying) + Cardinality(Awake)

\* Once join() has returned no worker touches the pool any more: the counters
\* are final, nothing is being handled, and what is still queued stays there.
JoinIsFinal ==
    [][phase = "joined" =>
          /\ busyThreadsCounter = 0
          /\ UNCHANGED <<counters, tasksQueue, task, taken>>]_vars

\* A task at the head of the queue is picked up as long as some worker is not
\* busy, even if the handlers of all the other workers never return: the wakeup
\* reaches an idle worker (or the pool is stopped, or every worker is busy).
PickedUp ==
    \A n \in 0 .. Cardinality(Tasks) :
        (started /\ Len(taken) = n /\ tasksQueue # <<>>)
            ~> (~started \/ Len(taken) > n \/ Handling = Workers)

\* stop() ends the pool: if handlers return, join() returns, also when workers
\* were waiting, were about to wait or had tasks left in the queue.
StopJoins == HandlersReturn => ((phase = "stopped") ~> (phase = "joined"))

\* What the pool promises its users, as one abstract state machine.
Queue == INSTANCE BoundedTaskQueue WITH
    Capacity <- QueueLength,
    Parallelism <- Cardinality(Workers),
    open <- started,
    queue <- tasksQueue,
    running <- {task[w] : w \in Handling},
    ended <- {t \in Tasks : \E i \in DOMAIN taken : taken[i] = t}
             \ {task[w] : w \in Handling}

\* The pool implements the bounded queue: it accepts only while open and below
\* capacity, starts tasks in order, never runs more than it has workers, ends
\* only what it has started, and starts nothing once it is stopped.
RefinesQueue == Queue!Spec
=============================================================================
