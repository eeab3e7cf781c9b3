----------------------------- MODULE FCGIServer -----------------------------
(***************************************************************************)
(* The life of the daemon: main.cpp, FCGIServer (main/fcgi_server.cpp),    *)
(* its endpoint and the ScopedBusyCounter (main/endpoint.cpp), Server      *)
(* (library/server.cpp) and the thread pools as Globals drives them.       *)
(*                                                                         *)
(* The actors are the main thread (start, join, the destructors at the end *)
(* of main), the signal handler, the monitor thread, the stop thread, the  *)
(* endpoint threads that run handle(), and the workers of the pool, which  *)
(* appear here as the bounded queue that module ThreadPool implements.     *)
(*                                                                         *)
(* Init is the state in which main() has built Globals (so the pools run)  *)
(* and the server, and has installed the signal handlers.                  *)
(***************************************************************************)
EXTENDS Integers, Sequences, FiniteSets, Functions

CONSTANTS Threads,      \* the threads of the endpoint
          Requests,     \* the connections clients make, each accepted once
          Blank,        \* a FastcgiRequest whose accept() has not succeeded
          None,         \* no FastcgiRequest
          PoolThreads,  \* workers of the pool
          QueueLength,  \* the pool's queue
          MaxStops      \* bound on the number of stop requests

ASSUME ThreadsAssumption == IsFiniteSet(Threads)
ASSUME RequestsAssumption == {Blank, None} \cap Requests = {} /\ Blank # None
ASSUME PoolAssumption == PoolThreads \in Nat \ {0} /\ QueueLength \in Nat
ASSUME MaxStopsAssumption == MaxStops \in Nat

VARIABLES
    main,          \* what the main thread does next
    status,        \* status_
    stopPipe,      \* stopPipes_: "none" (never set), "open" or "closed"
    pipeBytes,     \* 's' bytes in the pipe
    stopThread,    \* where stopThreadFunction is
    stopped,       \* stopper_->stopped()
    monitor,       \* where the monitor thread is
    pc,            \* where each endpoint thread is in handle()
    holder,        \* which endpoint threads hold active_thread_holder_
    incremented,   \* the incremented_ flag of each thread's busy counter
    busy_count,    \* the endpoint's busy_count_
    object,        \* the FastcgiRequest of each endpoint thread's iteration
    poolOpen,      \* the pool accepts and starts tasks
    queue,         \* the pool's queue
    running,       \* the requests in the hands of pool workers
    outcome,       \* history: what became of each connection
    components,    \* the logger, cache and statistics components exist
    stops,         \* history: how many stop requests were made
    stopsInTime    \* history: one of them found the pipe open

serverVars == <<main, status, stopPipe, components>>
stopVars == <<pipeBytes, stopThread, stopped, stops, stopsInTime>>
threadVars == <<pc, holder, incremented, busy_count, object>>
poolVars == <<poolOpen, queue, running>>
vars == <<serverVars, stopVars, monitor, threadVars, poolVars, outcome>>

MainPC == {"loading", "monitor", "subsystem", "threads", "run", "pipe",
           "stopThread", "joinPools", "joinThreads", "destroyServer",
           "destroyComponents", "destroyPools", "exited"}
\* The statuses sendError is called with; a thread at one of them is about to
\* send it.
Statuses == {"400", "404", "500", "503"}
ThreadPC == {"off", "top", "check", "ready", "accept", "accepted", "resume",
             "attach", "dispatch", "leave", "exit"} \cup Statuses
\* What became of a connection.  A worker handled it, or an endpoint thread
\* answered it with an error status, unless the client was gone.
Answered == {"handled", "answered"}
Outcomes == {"new", "held", "queued", "dropped", "lost"} \cup Answered

\* The process has not ended.
Alive == main # "exited"

Init ==
    /\ main = "loading"
    /\ status = "NOT_INITED"
    /\ stopPipe = "none"
    /\ pipeBytes = 0
    /\ stopThread = "off"
    /\ stopped = FALSE
    /\ monitor = "off"
    /\ pc = [h \in Threads |-> "off"]
    /\ holder = {}
    /\ incremented = [h \in Threads |-> FALSE]
    /\ busy_count = 0
    /\ object = [h \in Threads |-> None]
    /\ poolOpen = TRUE
    /\ queue = <<>>
    /\ running = {}
    /\ outcome = [r \in Requests |-> "new"]
    /\ components = TRUE
    /\ stops = 0
    /\ stopsInTime = FALSE

-----------------------------------------------------------------------------
(* The main thread: FCGIServer::start, join and the destructors. *)

MainStep(from, to) == main = from /\ main' = to

\* start() up to initMonitorThread.
Load ==
    /\ MainStep("loading", "monitor")
    /\ status' = "LOADING"
    /\ UNCHANGED <<stopPipe, components, stopVars, monitor, threadVars, poolVars,
                   outcome>>

\* initMonitorThread: the monitor thread runs from here on.
InitMonitorThread ==
    /\ MainStep("monitor", "subsystem")
    /\ monitor' = "top"
    /\ UNCHANGED <<status, stopPipe, components, stopVars, threadVars, poolVars,
                   outcome>>

\* initRequestCache, initTimeStatistics, initFastCGISubsystem.
InitSubsystem ==
    /\ MainStep("subsystem", "threads")
    /\ UNCHANGED <<status, stopPipe, components, stopVars, monitor, threadVars,
                   poolVars, outcome>>

CreateWorkThreads ==
    /\ MainStep("threads", "run")
    /\ pc' = [h \in Threads |-> "top"]
    /\ UNCHANGED <<status, stopPipe, components, stopVars, monitor, holder,
                   incremented, busy_count, object, poolVars, outcome>>

SetRunning ==
    /\ MainStep("run", "pipe")
    /\ status' = "RUNNING"
    /\ UNCHANGED <<stopPipe, components, stopVars, monitor, threadVars, poolVars,
                   outcome>>

\* pipe(stopPipes_), after the server was declared running.
MakePipe ==
    /\ MainStep("pipe", "stopThread")
    /\ stopPipe' = "open"
    /\ UNCHANGED <<status, components, stopVars, monitor, threadVars, poolVars,
                   outcome>>

SpawnStopThread ==
    /\ MainStep("stopThread", "joinPools")
    /\ stopThread' = "reading"
    /\ UNCHANGED <<status, stopPipe, components, pipeBytes, stopped, stops,
                   stopsInTime, monitor, threadVars, poolVars, outcome>>

\* A step of start() throws: main() catches it and unwinds, which destroys the
\* server without stopping or joining anything.
StartFails ==
    /\ main \in {"loading", "monitor", "subsystem", "pipe", "stopThread"}
    /\ main' = "destroyServer"
    /\ UNCHANGED <<status, stopPipe, components, stopVars, monitor, threadVars,
                   poolVars, outcome>>

\* create_thread throws after the threads S were created.
CreateWorkThreadsFails(S) ==
    /\ MainStep("threads", "destroyServer")
    /\ pc' = [h \in Threads |-> IF h \in S THEN "top" ELSE "off"]
    /\ UNCHANGED <<status, stopPipe, components, stopVars, monitor, holder,
                   incremented, busy_count, object, poolVars, outcome>>

\* join(): joinThreadPools returns once every worker has left, ...
JoinThreadPools ==
    /\ ~poolOpen
    /\ running = {}
    /\ MainStep("joinPools", "joinThreads")
    /\ UNCHANGED <<status, stopPipe, components, stopVars, monitor, threadVars,
                   poolVars, outcome>>

\* ... then the loop waits until nobody shares active_thread_holder_.
JoinThreads ==
    /\ holder = {}
    /\ MainStep("joinThreads", "destroyServer")
    /\ UNCHANGED <<status, stopPipe, components, stopVars, monitor, threadVars,
                   poolVars, outcome>>

\* ~FCGIServer closes the pipe; its threads are detached.
DestroyServer ==
    /\ MainStep("destroyServer", "destroyComponents")
    /\ stopPipe' = "closed"
    /\ UNCHANGED <<status, components, stopVars, monitor, threadVars, poolVars,
                   outcome>>

\* ~Globals destroys its members in reverse order: the components first, ...
DestroyComponents ==
    /\ MainStep("destroyComponents", "destroyPools")
    /\ components' = FALSE
    /\ UNCHANGED <<status, stopPipe, stopVars, monitor, threadVars, poolVars,
                   outcome>>

\* ... the pools last: the tasks still queued die with them, unanswered; then
\* main returns and the process ends with whatever its threads were doing.
DestroyPools ==
    /\ MainStep("destroyPools", "exited")
    /\ queue' = <<>>
    /\ outcome' = [r \in Requests |-> IF r \in Range(queue) THEN "lost"
                                                            ELSE outcome[r]]
    /\ UNCHANGED <<status, stopPipe, components, stopVars, monitor, threadVars,
                   poolOpen, running>>

Main == Load \/ InitMonitorThread \/ InitSubsystem \/ CreateWorkThreads
        \/ SetRunning \/ MakePipe \/ SpawnStopThread \/ JoinThreadPools
        \/ JoinThreads \/ DestroyServer \/ DestroyComponents \/ DestroyPools

-----------------------------------------------------------------------------
(* Stopping. *)

\* stop(): one byte is written to stopPipes_[1].  Before pipe() the array is
\* uninitialised and after ~FCGIServer it is closed: the byte reaches nobody.
Stop ==
    /\ Alive
    /\ stops < MaxStops
    /\ stops' = stops + 1
    /\ pipeBytes' = IF stopPipe = "open" THEN pipeBytes + 1 ELSE pipeBytes
    /\ stopsInTime' = (stopsInTime \/ stopPipe = "open")

\* signalHandler: SIGINT or SIGTERM, at any time.
SignalHandler ==
    /\ Stop
    /\ UNCHANGED <<serverVars, stopThread, stopped, monitor, threadVars, poolVars,
                   outcome>>

\* stopThreadFunction has read its byte.
ReadStopByte ==
    /\ Alive
    /\ stopThread = "reading"
    /\ pipeBytes > 0
    /\ pipeBytes' = pipeBytes - 1
    /\ stopThread' = "check"
    /\ UNCHANGED <<serverVars, stopped, stops, stopsInTime, monitor, threadVars,
                   poolVars, outcome>>

\* stopInternal(): its checks, and the flag.  One that throws ends the process,
\* as nothing in the stop thread catches the exception.
StopInternal ==
    /\ Alive
    /\ stopThread = "check"
    /\ IF status # "RUNNING" \/ stopped
          THEN stopThread' = "thrown" /\ stopped' = stopped
          ELSE stopThread' = "stopPools" /\ stopped' = TRUE
    /\ UNCHANGED <<serverVars, pipeBytes, stops, stopsInTime, monitor, threadVars,
                   poolVars, outcome>>

\* Variant: the stop thread goes back to reading the pipe.
StopThreadPoolsAgain ==
    /\ Alive
    /\ stopThread = "stopPools"
    /\ poolOpen' = FALSE
    /\ stopThread' = "reading"
    /\ UNCHANGED <<serverVars, pipeBytes, stopped, stops, stopsInTime, monitor,
                   threadVars, queue, running, outcome>>

\* FCGX_ShutdownPending and stopThreadPools.
StopThreadPools ==
    /\ Alive
    /\ stopThread = "stopPools"
    /\ poolOpen' = FALSE
    /\ stopThread' = "done"
    /\ UNCHANGED <<serverVars, pipeBytes, stopped, stops, stopsInTime, monitor,
                   threadVars, queue, running, outcome>>

StopThread == ReadStopByte \/ StopInternal \/ StopThreadPools

-----------------------------------------------------------------------------
(* monitor() *)

\* The loop's first check.
MonitorTop ==
    /\ Alive
    /\ monitor = "top"
    /\ monitor' = IF stopped THEN "exit" ELSE "accept"
    /\ UNCHANGED <<serverVars, stopVars, threadVars, poolVars, outcome>>

\* accept() returned, with a connection or an error; an error, like a read
\* that returns nothing, goes round the loop.
MonitorAccept(connected) ==
    /\ Alive
    /\ monitor = "accept"
    /\ monitor' = IF stopped THEN "exit" ELSE IF connected THEN "serve" ELSE "top"
    /\ UNCHANGED <<serverVars, stopVars, threadVars, poolVars, outcome>>

\* 'i': getServerInfo; endpoints_ and the pools are read only when RUNNING.
MonitorInfo ==
    /\ Alive
    /\ monitor = "serve"
    /\ monitor' = "top"
    /\ UNCHANGED <<serverVars, stopVars, threadVars, poolVars, outcome>>

\* 's': stop().
MonitorStop ==
    /\ monitor = "serve"
    /\ Stop
    /\ monitor' = "top"
    /\ UNCHANGED <<serverVars, stopThread, stopped, threadVars, poolVars, outcome>>

Monitor == MonitorTop \/ (\E c \in BOOLEAN : MonitorAccept(c)) \/ MonitorInfo
           \/ MonitorStop

-----------------------------------------------------------------------------
(* An endpoint thread: handle(), and the ScopedBusyCounter it uses. *)

Goto(h, from, to) == Alive /\ pc[h] = from /\ pc' = [pc EXCEPT ![h] = to]

\* ScopedBusyCounter::increment and decrement, which only act when the flag
\* says so, with Endpoint::incrementBusyCounter and decrementBusyCounter.
Increment(h) ==
    /\ incremented' = [incremented EXCEPT ![h] = TRUE]
    /\ busy_count' = IF incremented[h] THEN busy_count ELSE busy_count + 1
Decrement(h) ==
    /\ incremented' = [incremented EXCEPT ![h] = FALSE]
    /\ busy_count' = IF incremented[h] THEN busy_count - 1 ELSE busy_count

\* The end of an iteration: the thread's reference to the request goes (with
\* ~FastcgiRequest when it is the last one), then ~ScopedBusyCounter and the
\* release of the holder.
EndIteration(h) ==
    /\ object' = [object EXCEPT ![h] = None]
    /\ Decrement(h)
    /\ holder' = holder \ {h}

\* The holder is taken before the first check of stopped().
TakeHolder(h) ==
    /\ Goto(h, "top", "check")
    /\ holder' = holder \cup {h}
    /\ UNCHANGED <<serverVars, stopVars, monitor, incremented, busy_count, object,
                   poolVars, outcome>>

\* stopped(): the thread returns.
LeaveBeforeAccept(h) ==
    /\ Goto(h, "check", "exit")
    /\ stopped
    /\ EndIteration(h)
    /\ UNCHANGED <<serverVars, stopVars, monitor, poolVars, outcome>>

\* The busy counter and the request are built.
Construct(h) ==
    /\ Goto(h, "check", "ready")
    /\ ~stopped
    /\ Increment(h)
    /\ object' = [object EXCEPT ![h] = Blank]
    /\ UNCHANGED <<serverVars, stopVars, monitor, holder, poolVars, outcome>>

\* FCGX_InitRequest fails: the constructor throws and the loop goes on.
ConstructFails(h) ==
    /\ Goto(h, "check", "top")
    /\ ~stopped
    /\ EndIteration(h)
    /\ UNCHANGED <<serverVars, stopVars, monitor, poolVars, outcome>>

\* Variant: the counter is not decremented before accept().
BeginAcceptBusy(h) ==
    /\ Goto(h, "ready", "accept")
    /\ holder' = holder \ {h}
    /\ UNCHANGED <<serverVars, stopVars, monitor, incremented, busy_count, object,
                   poolVars, outcome>>

\* Variant: the holder is kept during accept().
BeginAcceptHolding(h) ==
    /\ Goto(h, "ready", "accept")
    /\ Decrement(h)
    /\ UNCHANGED <<serverVars, stopVars, monitor, holder, object, poolVars,
                   outcome>>

\* busyCounter.decrement(); holder.reset(); then accept() blocks.
BeginAccept(h) ==
    /\ Goto(h, "ready", "accept")
    /\ Decrement(h)
    /\ holder' = holder \ {h}
    /\ UNCHANGED <<serverVars, stopVars, monitor, object, poolVars, outcome>>

\* A client's connection is accepted.
AcceptConnection(h, r) ==
    /\ outcome[r] = "new"
    /\ Goto(h, "accept", "accepted")
    /\ object' = [object EXCEPT ![h] = r]
    /\ outcome' = [outcome EXCEPT ![r] = "held"]
    /\ UNCHANGED <<serverVars, stopVars, monitor, holder, incremented, busy_count,
                   poolVars>>

\* accept() fails.
AcceptFails(h) ==
    /\ Goto(h, "accept", "accepted")
    /\ UNCHANGED <<serverVars, stopVars, monitor, holder, incremented, busy_count,
                   object, poolVars, outcome>>

\* stopped() after accept(): the thread returns, and with it goes the request.
LeaveAfterAccept(h) ==
    /\ Goto(h, "accepted", "exit")
    /\ stopped
    /\ EndIteration(h)
    /\ outcome' = IF object[h] \in Requests
                    THEN [outcome EXCEPT ![object[h]] = "dropped"] ELSE outcome
    /\ UNCHANGED <<serverVars, stopVars, monitor, poolVars>>

\* Not stopped: from this check until the holder is taken again, in a step of
\* its own, the thread is invisible to join().
KeepGoing(h) ==
    /\ Goto(h, "accepted", "resume")
    /\ ~stopped
    /\ UNCHANGED <<serverVars, stopVars, monitor, holder, incremented, busy_count,
                   object, poolVars, outcome>>

\* The holder and the busy counter are taken again.
Resume(h) ==
    /\ Goto(h, "resume", "attach")
    /\ object[h] \in Requests
    /\ holder' = holder \cup {h}
    /\ Increment(h)
    /\ UNCHANGED <<serverVars, stopVars, monitor, object, poolVars, outcome>>

\* accept() had failed: the exception ends the iteration.
ResumeFails(h) ==
    /\ Goto(h, "resume", "top")
    /\ object[h] = Blank
    /\ EndIteration(h)
    /\ UNCHANGED <<serverVars, stopVars, monitor, poolVars, outcome>>

\* A thread moves on with its request, counter and holder.
Proceed(h, from, to) ==
    /\ Goto(h, from, to)
    /\ UNCHANGED <<serverVars, stopVars, monitor, holder, incremented, busy_count,
                   object, poolVars, outcome>>

\* attach() succeeds, ...
Attach(h) == Proceed(h, "attach", "dispatch")

\* Variant: the exception is only logged.
AttachFailsSilently(h) == Proceed(h, "attach", "leave")

\* ... or throws, which is answered with 400.
AttachFails(h) == Proceed(h, "attach", "400")

\* addTask pushes the task.
Push(h) ==
    /\ poolOpen
    /\ queue' = Append(queue, object[h])
    /\ outcome' = [outcome EXCEPT ![object[h]] = "queued"]
    /\ UNCHANGED <<serverVars, stopVars, monitor, holder, incremented, busy_count,
                   object, poolOpen, running>>

\* Variant: the queue's limit is not looked at.
DispatchUnbounded(h) == Goto(h, "dispatch", "leave") /\ Push(h)

\* Variant: addTask throws after it has pushed the task, and the 503 is sent.
DispatchThenThrow(h) ==
    Goto(h, "dispatch", "503") /\ Len(queue) < QueueLength /\ Push(h)

\* handleRequest, when a handler matches and addTask accepts the task.  The pool
\* has a copy of the task; the thread keeps its own, its counter and its holder
\* until the end of the try block.
Dispatch(h) ==
    Goto(h, "dispatch", "leave") /\ Len(queue) < QueueLength /\ Push(h)

\* No handler matches: 404.
NoHandler(h) == Proceed(h, "dispatch", "404")

\* Variant: the refusal is only logged.
RefuseSilently(h) ==
    /\ ~poolOpen \/ Len(queue) >= QueueLength
    /\ Proceed(h, "dispatch", "leave")

\* addTask throws, as the pool is stopped or its queue full: 503.
Refuse(h) ==
    /\ ~poolOpen \/ Len(queue) >= QueueLength
    /\ Proceed(h, "dispatch", "503")

\* Anything else in handleRequest throws: 500.
DispatchThrows(h) == Proceed(h, "dispatch", "500")

\* sendError sends the status.  If it finds the connection broken it throws, and
\* the catch blocks of handle() end at the same place.
Reply(h) ==
    /\ pc[h] \in Statuses
    /\ Goto(h, pc[h], "leave")
    /\ outcome' = [outcome EXCEPT ![object[h]] = "answered"]
    /\ UNCHANGED <<serverVars, stopVars, monitor, holder, incremented, busy_count,
                   object, poolVars>>

\* The end of the try block, or the continue after a 400.
Leave(h) ==
    /\ Goto(h, "leave", "top")
    /\ EndIteration(h)
    /\ UNCHANGED <<serverVars, stopVars, monitor, poolVars, outcome>>

\* What an endpoint thread does by itself.
Handle(h) ==
    \/ TakeHolder(h) \/ LeaveBeforeAccept(h) \/ Construct(h) \/ ConstructFails(h)
    \/ BeginAccept(h) \/ LeaveAfterAccept(h) \/ KeepGoing(h) \/ Resume(h)
    \/ ResumeFails(h) \/ Dispatch(h) \/ NoHandler(h) \/ Refuse(h) \/ DispatchThrows(h)

\* What may wait for the client of its request: reading the body (attach),
\* writing an answer, and FCGX_Finish_r in ~FastcgiRequest.
Client(h) ==
    Attach(h) \/ AttachFails(h) \/ Reply(h) \/ Leave(h)

\* What it waits for in accept().
Accept(h) == (\E r \in Requests : AcceptConnection(h, r)) \/ AcceptFails(h)

-----------------------------------------------------------------------------
(* The pool, as module ThreadPool implements it (see BoundedTaskQueue). *)

PoolTake ==
    /\ Alive
    /\ poolOpen
    /\ queue # <<>>
    /\ Cardinality(running) < PoolThreads
    /\ running' = running \cup {Head(queue)}
    /\ queue' = Tail(queue)
    /\ UNCHANGED <<serverVars, stopVars, monitor, threadVars, poolOpen, outcome>>

\* handleTask is over and the worker lets go of its reference.
PoolDone(r) ==
    /\ Alive
    /\ r \in running
    /\ running' = running \ {r}
    /\ outcome' = [outcome EXCEPT ![r] = "handled"]
    /\ UNCHANGED <<serverVars, stopVars, monitor, threadVars, poolOpen, queue>>

Pool == PoolTake \/ (\E r \in Requests : PoolDone(r))

\* Nothing happens once the process has ended.
Exited == ~Alive /\ UNCHANGED vars

Next ==
    \/ Main \/ StartFails \/ (\E S \in SUBSET Threads : CreateWorkThreadsFails(S))
    \/ SignalHandler \/ StopThread \/ Monitor
    \/ (\E h \in Threads : Handle(h) \/ Client(h) \/ Accept(h)) \/ Pool \/ Exited

Spec == Init /\ [][Next]_vars

\* Every thread that can run is scheduled.  Nothing is assumed of clients (they
\* may never connect, stall their body or never read the answer), of handlers
\* (they may never return), of signals or of the monitor port, and start() may
\* fail.
Fairness ==
    /\ WF_vars(Main)
    /\ WF_vars(StopThread)
    /\ WF_vars(PoolTake)
    /\ \A h \in Threads : WF_vars(Handle(h))

LiveSpec == Spec /\ Fairness

-----------------------------------------------------------------------------
(* Properties. *)

\* Type correctness.
TypeOK ==
    /\ main \in MainPC
    /\ status \in {"NOT_INITED", "LOADING", "RUNNING"}
    /\ stopPipe \in {"none", "open", "closed"}
    /\ pipeBytes \in 0 .. MaxStops
    /\ stopThread \in {"off", "reading", "check", "stopPools", "done", "thrown"}
    /\ stopped \in BOOLEAN
    /\ monitor \in {"off", "top", "accept", "serve", "exit"}
    /\ pc \in [Threads -> ThreadPC]
    /\ holder \in SUBSET Threads
    /\ incremented \in [Threads -> BOOLEAN]
    /\ busy_count \in 0 .. Cardinality(Threads)
    /\ object \in [Threads -> Requests \cup {Blank, None}]
    /\ poolOpen \in BOOLEAN
    /\ queue \in Seq(Requests) /\ Len(queue) <= QueueLength
    /\ running \in SUBSET Requests
    /\ outcome \in [Requests -> Outcomes]
    /\ components \in BOOLEAN
    /\ stops \in 0 .. MaxStops
    /\ stopsInTime \in BOOLEAN

\* The endpoint's busy_count_, which getServerInfo publishes, counts exactly the
\* threads that build or serve a request, never one that is blocked in accept()
\* or has left, whatever exception or `continue` ended an iteration; hence the
\* assert in decrementBusyCounter never fails.
BusyCountExact ==
    busy_count = Cardinality({h \in Threads :
                                pc[h] \in {"ready", "attach", "dispatch", "leave"}
                                            \cup Statuses})

\* stopInternal, called by the stop thread, never throws, however many signals
\* and monitor commands arrive and whenever they do: an exception there would
\* end the daemon.
StopThreadNeverThrows == stopThread # "thrown"

\* The request an endpoint thread may touch.  At the end of the try block it only
\* has its reference left, which the pool's worker may share.
using == [h \in Threads |-> IF pc[h] = "leave" THEN None ELSE object[h]]

\* Request and its streams have no lock.  An accepted request is in use in one
\* place, and in none once its outcome is decided: by the endpoint thread that
\* reads or answers it, or in the pool, waiting or with one worker.  So no error
\* page is sent for a request that a worker may be answering, and no thread goes
\* on with one that is answered.
SingleUser ==
    \A r \in Requests :
        Cardinality({h \in Threads : using[h] = r})
        + Cardinality({i \in DOMAIN queue : queue[i] = r})
        + Cardinality(running \cap {r})
            = IF outcome[r] \in {"held", "queued"} THEN 1 ELSE 0

\* Somebody has a reference to the request: an endpoint thread, the queue or a
\* worker.
Referenced(r) ==
    \/ \E h \in Threads : object[h] = r
    \/ \E i \in DOMAIN queue : queue[i] = r
    \/ r \in running

\* When the last reference to a request goes, ~FastcgiRequest closes its
\* connection.  By then it has been answered, whoever of the endpoint thread and
\* the worker is the last and whatever ended the iteration of handle(); except
\* that a thread which finds the server stopped after accept(), and so has no
\* holder, gives its request up, and that tasks still queued go with the pools.
ClosedAnswered ==
    [][\A r \in Requests :
          Referenced(r) /\ ~Referenced(r)' =>
             \/ outcome'[r] \in Answered
             \/ stopped /\ \E h \in Threads \ holder : object[h] = r
             \/ main = "destroyPools"]_vars

\* Premises on the outside: no client stalls a thread for ever, and every handler
\* returns.
ClientsRespond ==
    \A h \in Threads : []<>(pc[h] \notin {"attach", "leave"} \cup Statuses)
HandlersReturn == \A r \in Requests : []<>(r \notin running)

\* When clients and handlers let the threads go on, a stop request made once
\* start() has created the pipe ends the process: join() returns although
\* endpoint threads may stay blocked in accept(), be about to look at stopped(),
\* or have requests in the pool.
StopEndsServer == ClientsRespond /\ HandlersReturn => (stopsInTime ~> ~Alive)

\* Under the same premises a connection accepted by a server that keeps running
\* is answered and then closed, also when the pool is full.
AnsweredOrStopped ==
    ClientsRespond /\ HandlersReturn =>
        \A r \in Requests :
            outcome[r] = "held" ~>
                \/ outcome[r] \in Answered /\ ~Referenced(r)
                \/ stopped \/ ~Alive

\* ~FastcgiRequest reports to the logger and statistics components.  In a
\* server that was stopped, none runs after those components are gone.
DestructorSafe ==
    [][stopped /\ ~components =>
          /\ \A h \in Threads : object[h] = Blank => object'[h] # None
          /\ \A r \in Requests : Referenced(r) => Referenced(r)']_vars

=============================================================================
