-------------------------- MODULE FCGIServerProofs --------------------------
(***************************************************************************)
(* The safety properties of FCGIServer, for every set of endpoint threads  *)
(* and of connections, every size of the pool and every number of stop     *)
(* requests.                                                               *)
(***************************************************************************)
EXTENDS FCGIServer, FiniteSetTheorems, SequenceTheorems, TLAPS

\* The places in handle() where the busy counter is incremented, and the
\* threads that are there.
Serving == {"ready", "attach", "dispatch", "leave"} \cup Statuses
Counted == {h \in Threads : pc[h] \in Serving}

\* Where a thread has an accepted request and its holder, and where it has none.
Holding == {"attach", "dispatch", "leave"} \cup Statuses
Away == {"accept", "accepted", "resume"}

\* start() up to the creation of the threads, and up to the stop thread.
BeforeThreads == {"loading", "monitor", "subsystem", "threads"}
BeforeStopThread == BeforeThreads \cup {"run", "pipe", "stopThread"}

\* The server's own state: the stop thread exists once the server is RUNNING and
\* sets stopped() once; it is the only one to do so, and every byte in the pipe
\* comes from a stop request.
ControlInv ==
    /\ main \in MainPC
    /\ status \in {"NOT_INITED", "LOADING", "RUNNING"}
    /\ stopPipe \in {"none", "open", "closed"}
    /\ stopThread \in {"off", "reading", "check", "stopPools", "done"}
    /\ stopped \in BOOLEAN
    /\ monitor \in {"off", "top", "accept", "serve", "exit"}
    /\ poolOpen \in BOOLEAN
    /\ components \in BOOLEAN
    /\ stopsInTime \in BOOLEAN
    /\ stops \in 0 .. MaxStops
    /\ pipeBytes \in 0 .. stops
    /\ main \in BeforeStopThread => stopThread = "off"
    /\ main \in {"pipe", "stopThread"} => status = "RUNNING"
    /\ stopThread # "off" => status = "RUNNING"
    /\ stopThread \in {"off", "reading", "check"} => ~stopped

\* The endpoint threads: the flag of the scoped counter and the request object
\* follow the thread's place in handle(), and no thread runs before it was
\* created.
ThreadInv ==
    /\ pc \in [Threads -> ThreadPC]
    /\ holder \in SUBSET Threads
    /\ incremented \in [Threads -> BOOLEAN]
    /\ object \in [Threads -> Requests \cup {Blank, None}]
    /\ busy_count = Cardinality(Counted)
    /\ \A h \in Threads : incremented[h] <=> pc[h] \in Serving
    /\ \A h \in Threads : pc[h] \in {"off", "top", "check", "exit"} => object[h] = None
    /\ \A h \in Threads : pc[h] \in {"ready", "accept"} => object[h] = Blank
    /\ \A h \in Threads : pc[h] \in Holding => object[h] \in Requests
    /\ \A h \in holder : pc[h] \notin Away
    /\ main \in BeforeThreads => \A h \in Threads : pc[h] = "off"

\* The connections: an accepted one is in use by the one thread that accepted it
\* until its outcome is decided, or is in the pool, queued or running.
OwnerInv ==
    /\ outcome \in [Requests -> Outcomes]
    /\ queue \in Seq(Requests) /\ Len(queue) <= QueueLength
    /\ running \in SUBSET Requests
    /\ \A h \in Threads : using[h] \in Requests => outcome[using[h]] = "held"
    /\ \A h, g \in Threads : using[h] \in Requests /\ using[h] = using[g] => h = g
    /\ \A r \in Requests : outcome[r] = "held" => \E h \in Threads : using[h] = r
    /\ \A i \in 1 .. Len(queue) : outcome[queue[i]] = "queued" /\ queue[i] \notin running
    /\ \A i, j \in 1 .. Len(queue) : queue[i] = queue[j] => i = j
    /\ \A r \in running : outcome[r] = "queued"
    /\ \A r \in Requests : outcome[r] = "queued" =>
          r \in running \/ \E i \in 1 .. Len(queue) : queue[i] = r

\* A thread at the end of its try block has answered its request or has given it
\* to the pool.
LeaveInv ==
    Alive => \A h \in Threads :
                pc[h] = "leave" => outcome[object[h]] \in Answered \cup {"queued"}

\* The inductive invariant.
IInv == ControlInv /\ ThreadInv /\ OwnerInv /\ LeaveInv

-----------------------------------------------------------------------------
(* What the steps of one actor leave alone. *)

\* A step of an endpoint thread.
ThreadStep(h) == Handle(h) \/ Client(h) \/ Accept(h)

\* An endpoint thread touches nothing of the server or of stopping, and closes
\* no pool.
LEMMA HandleFrame ==
    ASSUME NEW h \in Threads, ThreadStep(h)
    PROVE  UNCHANGED <<serverVars, stopVars, monitor, poolOpen, running>>
  <1>1. CASE Handle(h)
    BY <1>1 DEF Handle, TakeHolder, LeaveBeforeAccept, Construct, ConstructFails,
       BeginAccept, LeaveAfterAccept, KeepGoing, Resume, ResumeFails, Dispatch, Push,
       NoHandler, Refuse, DispatchThrows, Proceed, poolVars
  <1>2. CASE Client(h)
    BY <1>2 DEF Client, Attach, AttachFails, Reply, Leave, Proceed, poolVars
  <1>3. CASE Accept(h)
    BY <1>3 DEF Accept, AcceptConnection, AcceptFails, poolVars
  <1> QED BY <1>1, <1>2, <1>3 DEF ThreadStep

\* A pool worker touches only the pool and the outcomes.
LEMMA PoolFrame ==
    ASSUME Pool
    PROVE  UNCHANGED <<serverVars, stopVars, monitor, threadVars, poolOpen>>
  BY DEF Pool, PoolTake, PoolDone

\* Stopping and the monitor touch neither the threads nor the connections.
LEMMA StopFrame ==
    ASSUME SignalHandler \/ StopThread \/ Monitor
    PROVE  UNCHANGED <<serverVars, threadVars, queue, running, outcome>>
  BY DEF SignalHandler, StopThread, Monitor, ReadStopByte, StopInternal, StopThreadPools,
         MonitorTop, MonitorAccept, MonitorInfo, MonitorStop, poolVars

-----------------------------------------------------------------------------
(* The initial state. *)

\* What main() has built satisfies the invariant.
LEMMA InitIInv == Init => IInv
  <1> SUFFICES ASSUME Init PROVE IInv
    OBVIOUS
  <1>1. ControlInv
    <2>1. stops \in 0 .. MaxStops /\ pipeBytes \in 0 .. stops
      BY MaxStopsAssumption DEF Init
    <2> QED BY <2>1 DEF Init, ControlInv, MainPC, BeforeStopThread, BeforeThreads
  <1>2. ThreadInv
    <2>1. Counted = {}
      BY DEF Init, Counted, Serving, Statuses
    <2>2. busy_count = Cardinality(Counted)
      BY <2>1, FS_EmptySet DEF Init
    <2> QED BY <2>2 DEF Init, ThreadInv, ThreadPC, Serving, Holding, Statuses
  <1>3. OwnerInv
    <2>1. <<>> \in Seq(Requests) /\ Len(<<>>) = 0 /\ 0 <= QueueLength
      BY EmptySeq, PoolAssumption
    <2>2. \A h \in Threads : using[h] \notin Requests
      BY RequestsAssumption DEF Init, using
    <2>3. outcome \in [Requests -> Outcomes]
          /\ \A r \in Requests : outcome[r] \notin {"held", "queued"}
      BY DEF Init, Outcomes
    <2>4. queue \in Seq(Requests) /\ Len(queue) = 0 /\ running = {}
      BY <2>1 DEF Init
    <2> QED BY <2>1, <2>2, <2>3, <2>4 DEF OwnerInv
  <1>4. LeaveInv
    BY DEF Init, LeaveInv
  <1> QED BY <1>1, <1>2, <1>3, <1>4 DEF IInv

-----------------------------------------------------------------------------
(* The server's own state. *)

\* A step of main() preserves ControlInv: the stop thread is started after the
\* status was set and nothing takes the status back.
LEMMA MainControl ==
    ASSUME ControlInv,
           Main \/ StartFails \/ \E S \in SUBSET Threads : CreateWorkThreadsFails(S)
    PROVE  ControlInv'
  <1> USE DEF ControlInv, MainPC, BeforeStopThread, BeforeThreads, MainStep, stopVars, poolVars
  <1>1. CASE Load
    BY <1>1 DEF Load
  <1>2. CASE InitMonitorThread
    BY <1>2 DEF InitMonitorThread
  <1>3. CASE InitSubsystem
    BY <1>3 DEF InitSubsystem
  <1>4. CASE CreateWorkThreads
    BY <1>4 DEF CreateWorkThreads
  <1>5. CASE SetRunning
    BY <1>5 DEF SetRunning
  <1>6. CASE MakePipe
    BY <1>6 DEF MakePipe
  <1>7. CASE SpawnStopThread
    BY <1>7 DEF SpawnStopThread
  <1>8. CASE JoinThreadPools
    BY <1>8 DEF JoinThreadPools
  <1>9. CASE JoinThreads
    BY <1>9 DEF JoinThreads
  <1>10. CASE DestroyServer
    BY <1>10 DEF DestroyServer
  <1>11. CASE DestroyComponents
    BY <1>11 DEF DestroyComponents
  <1>12. CASE DestroyPools
    BY <1>12 DEF DestroyPools
  <1>13. CASE StartFails
    BY <1>13 DEF StartFails
  <1>14. CASE \E S \in SUBSET Threads : CreateWorkThreadsFails(S)
    BY <1>14 DEF CreateWorkThreadsFails
  <1> QED BY <1>1, <1>2, <1>3, <1>4, <1>5, <1>6, <1>7, <1>8, <1>9, <1>10, <1>11, <1>12,
             <1>13, <1>14 DEF Main

\* Stop requests, the stop thread and the monitor preserve ControlInv: the one
\* run of stopInternal finds a running server that nobody has stopped.
LEMMA StopControl ==
    ASSUME ControlInv, SignalHandler \/ StopThread \/ Monitor
    PROVE  ControlInv'
  <1> USE DEF serverVars, poolVars
  <1>1. ASSUME Stop, UNCHANGED <<serverVars, stopThread, stopped, poolOpen>>,
               monitor' \in {"off", "top", "accept", "serve", "exit"}
        PROVE  ControlInv'
    <2>1. stops' \in 0 .. MaxStops /\ pipeBytes' \in 0 .. stops'
      BY <1>1, MaxStopsAssumption DEF Stop, ControlInv
    <2>2. stopsInTime' \in BOOLEAN
      BY <1>1 DEF Stop
    <2> QED BY <1>1, <2>1, <2>2 DEF ControlInv
  <1>2. CASE SignalHandler
    BY <1>1, <1>2 DEF SignalHandler, ControlInv
  <1>3. CASE MonitorStop
    BY <1>1, <1>3 DEF MonitorStop
  <1>4. CASE MonitorTop \/ (\E c \in BOOLEAN : MonitorAccept(c)) \/ MonitorInfo
    BY <1>4 DEF MonitorTop, MonitorAccept, MonitorInfo, ControlInv, stopVars
  <1>5. CASE ReadStopByte
    <2>1. pipeBytes' \in 0 .. stops /\ stops' = stops
      BY <1>5, MaxStopsAssumption DEF ReadStopByte, ControlInv
    <2> QED BY <1>5, <2>1 DEF ReadStopByte, ControlInv
  <1>6. CASE StopInternal
    BY <1>6 DEF StopInternal, ControlInv
  <1>7. CASE StopThreadPools
    BY <1>7 DEF StopThreadPools, ControlInv
  <1> QED BY <1>2, <1>3, <1>4, <1>5, <1>6, <1>7 DEF StopThread, Monitor

\* Every step preserves ControlInv.
LEMMA NextControl == IInv /\ [Next]_vars => ControlInv'
  <1> SUFFICES ASSUME IInv, [Next]_vars PROVE ControlInv'
    OBVIOUS
  <1>1. ASSUME UNCHANGED <<serverVars, stopVars, monitor, poolOpen>> PROVE ControlInv'
    BY <1>1 DEF IInv, ControlInv, serverVars, stopVars
  <1>2. CASE Main \/ StartFails \/ \E S \in SUBSET Threads : CreateWorkThreadsFails(S)
    BY <1>2, MainControl DEF IInv
  <1>3. CASE SignalHandler \/ StopThread \/ Monitor
    BY <1>3, StopControl DEF IInv
  <1>4. CASE \E h \in Threads : ThreadStep(h)
    BY <1>1, <1>4, HandleFrame
  <1>5. CASE Pool
    BY <1>1, <1>5, PoolFrame
  <1>6. CASE Exited \/ UNCHANGED vars
    BY <1>1, <1>6 DEF Exited, vars, poolVars
  <1> QED BY <1>2, <1>3, <1>4, <1>5, <1>6 DEF Next, ThreadStep

-----------------------------------------------------------------------------
(* The endpoint threads. *)

\* The flag and the counter stay exact when a thread moves and the scoped
\* counter is incremented, decremented or left alone as its new place requires.
LEMMA CounterExact ==
    ASSUME ThreadInv, NEW h \in Threads, NEW to \in ThreadPC,
           pc' = [pc EXCEPT ![h] = to],
           \/ to \in Serving /\ Increment(h)
           \/ to \notin Serving /\ Decrement(h)
           \/ (to \in Serving <=> pc[h] \in Serving)
              /\ UNCHANGED <<incremented, busy_count>>
    PROVE  /\ pc' \in [Threads -> ThreadPC]
           /\ incremented' \in [Threads -> BOOLEAN]
           /\ busy_count' = Cardinality(Counted')
           /\ \A g \in Threads : incremented'[g] <=> pc'[g] \in Serving
  <1>1. pc' \in [Threads -> ThreadPC]
        /\ \A g \in Threads : pc'[g] = IF g = h THEN to ELSE pc[g]
    BY DEF ThreadInv
  <1>2. incremented[h] \in BOOLEAN /\ (incremented[h] <=> h \in Counted)
    BY DEF ThreadInv, Counted
  <1>3. Counted' = IF to \in Serving THEN Counted \cup {h} ELSE Counted \ {h}
    BY <1>1 DEF Counted, ThreadInv
  <1>4. IsFiniteSet(Counted) /\ Cardinality(Counted) \in Nat
    BY ThreadsAssumption, FS_Subset, FS_CardinalityType DEF Counted
  <1>5. /\ Cardinality(Counted \cup {h})
              = IF h \in Counted THEN Cardinality(Counted) ELSE Cardinality(Counted) + 1
        /\ Cardinality(Counted \ {h})
              = IF h \in Counted THEN Cardinality(Counted) - 1 ELSE Cardinality(Counted)
    BY <1>4, FS_AddElement, FS_RemoveElement
  <1>6. busy_count = Cardinality(Counted)
    BY DEF ThreadInv
  <1>7. CASE to \in Serving /\ Increment(h)
    <2>1. busy_count' = Cardinality(Counted')
      BY <1>2, <1>3, <1>5, <1>6, <1>7 DEF Increment
    <2>2. incremented' \in [Threads -> BOOLEAN]
          /\ \A g \in Threads : incremented'[g] = IF g = h THEN TRUE ELSE incremented[g]
      BY <1>7 DEF Increment, ThreadInv
    <2> QED BY <1>1, <1>7, <2>1, <2>2 DEF ThreadInv
  <1>8. CASE to \notin Serving /\ Decrement(h)
    <2>1. busy_count' = Cardinality(Counted')
      BY <1>2, <1>3, <1>5, <1>6, <1>8 DEF Decrement
    <2>2. incremented' \in [Threads -> BOOLEAN]
          /\ \A g \in Threads : incremented'[g] = IF g = h THEN FALSE ELSE incremented[g]
      BY <1>8 DEF Decrement, ThreadInv
    <2> QED BY <1>1, <1>8, <2>1, <2>2 DEF ThreadInv
  <1>9. CASE /\ to \in Serving <=> pc[h] \in Serving
             /\ UNCHANGED <<incremented, busy_count>>
    <2>1. h \in Counted <=> to \in Serving
      BY <1>9 DEF Counted
    <2>2. Counted' = Counted
      BY <1>3, <2>1
    <2> QED BY <1>1, <1>6, <1>9, <2>2 DEF ThreadInv
  <1> QED BY <1>7, <1>8, <1>9

\* Every step of an endpoint thread preserves ThreadInv.
LEMMA HandleThread ==
    ASSUME ThreadInv, ControlInv, NEW h \in Threads, ThreadStep(h)
    PROVE  ThreadInv'
  <1> DEFINE Fits(o, p) ==
        /\ p \in {"off", "top", "check", "exit"} => o = None
        /\ p \in {"ready", "accept"} => o = Blank
        /\ p \in Holding => o \in Requests
  <1> DEFINE Held(to) == /\ holder' \in SUBSET Threads
                         /\ holder' \subseteq holder \cup {h}
                         /\ h \in holder' => to \notin Away
  <1>1. ASSUME NEW to \in ThreadPC, Goto(h, pc[h], to), pc[h] # "off",
               \/ to \in Serving /\ Increment(h)
               \/ to \notin Serving /\ Decrement(h)
               \/ (to \in Serving <=> pc[h] \in Serving)
                  /\ UNCHANGED <<incremented, busy_count>>,
               Held(to),
               object' \in [Threads -> Requests \cup {Blank, None}],
               \A g \in Threads \ {h} : object'[g] = object[g],
               Fits(object'[h], to), UNCHANGED main
        PROVE  ThreadInv'
    <2>1. pc' = [pc EXCEPT ![h] = to]
      BY <1>1 DEF Goto
    <2>2. /\ pc' \in [Threads -> ThreadPC]
          /\ incremented' \in [Threads -> BOOLEAN]
          /\ busy_count' = Cardinality(Counted')
          /\ \A g \in Threads : incremented'[g] <=> pc'[g] \in Serving
      BY <1>1, <2>1, CounterExact
    <2>3. \A g \in Threads : pc'[g] = IF g = h THEN to ELSE pc[g]
      BY <2>1 DEF ThreadInv
    <2>4. \A g \in Threads : Fits(object'[g], pc'[g])
      <3> TAKE g \in Threads
      <3>1. CASE g = h
        BY <1>1, <2>3, <3>1
      <3>2. CASE g # h
        BY <1>1, <2>3, <3>2 DEF ThreadInv
      <3> QED BY <3>1, <3>2
    <2>5. main' \notin BeforeThreads
      BY <1>1 DEF ThreadInv
    <2>6. \A g \in holder' : pc'[g] \notin Away
      BY <1>1, <2>3 DEF ThreadInv
    <2> QED BY <1>1, <2>2, <2>3, <2>4, <2>5, <2>6 DEF ThreadInv
  <1>2. UNCHANGED main
    BY HandleFrame DEF serverVars
  <1>3. ASSUME NEW to \in {"top", "exit"}, Goto(h, pc[h], to), pc[h] # "off",
               EndIteration(h)
        PROVE  ThreadInv'
    <2>1. /\ object' \in [Threads -> Requests \cup {Blank, None}]
          /\ object'[h] = None
          /\ \A g \in Threads \ {h} : object'[g] = object[g]
      BY <1>3 DEF EndIteration, ThreadInv
    <2>2. Held(to) /\ Decrement(h)
      BY <1>3 DEF EndIteration, ThreadInv
    <2>3. to \in ThreadPC /\ to \notin Serving /\ Fits(None, to)
      BY <1>3 DEF ThreadPC, Serving, Holding, Statuses
    <2> HIDE DEF Fits, Held
    <2> QED BY <1>1, <1>2, <1>3, <2>1, <2>2, <2>3
  <1>4. ASSUME NEW to \in ThreadPC, Goto(h, pc[h], to), pc[h] # "off",
               \/ to \in Serving /\ Increment(h)
               \/ to \notin Serving /\ Decrement(h)
               \/ (to \in Serving <=> pc[h] \in Serving)
                  /\ UNCHANGED <<incremented, busy_count>>,
               Held(to), object' = object, Fits(object[h], to)
        PROVE  ThreadInv'
    <2>1. /\ object' \in [Threads -> Requests \cup {Blank, None}]
          /\ \A g \in Threads \ {h} : object'[g] = object[g]
          /\ Fits(object'[h], to)
      BY <1>4 DEF ThreadInv
    <2> HIDE DEF Fits, Held
    <2> QED BY <1>1, <1>2, <1>4, <2>1
  <1> DEFINE Same == UNCHANGED <<incremented, busy_count>>
  <1>5. ASSUME NEW from \in {"attach", "dispatch"}, NEW to \in Holding,
               Goto(h, from, to) \/ (pc[h] \in Statuses /\ Goto(h, pc[h], to)),
               UNCHANGED <<holder, incremented, busy_count, object>>
        PROVE  ThreadInv'
    <2>1. pc[h] \in Holding /\ pc[h] \in Serving /\ to \in Serving /\ to \in ThreadPC
          /\ to \notin Away /\ pc[h] # "off" /\ Goto(h, pc[h], to)
      BY <1>5 DEF Goto, Holding, Serving, ThreadPC, Away, Statuses
    <2>2. to \notin {"off", "top", "check", "exit", "ready", "accept"}
      BY <1>5 DEF Holding, Statuses
    <2>3. Fits(object[h], to)
      BY <2>1, <2>2 DEF ThreadInv
    <2>4. Held(to) /\ object' = object
      BY <1>5, <2>1 DEF ThreadInv
    <2> HIDE DEF Fits, Held
    <2> QED BY <1>4, <1>5, <2>1, <2>3, <2>4
  <1>6. CASE TakeHolder(h)
    <2>1. /\ Goto(h, pc[h], "check") /\ pc[h] # "off" /\ Same /\ object' = object
          /\ "check" \in ThreadPC /\ "check" \notin Serving /\ pc[h] \notin Serving
      BY <1>6 DEF TakeHolder, Goto, ThreadPC, Serving, Statuses
    <2>2. Held("check") /\ Fits(object[h], "check")
      BY <1>6 DEF TakeHolder, Goto, ThreadInv, Away, Holding, Statuses
    <2> HIDE DEF Fits, Held
    <2> QED BY <1>4, <2>1, <2>2
  <1>7. CASE LeaveBeforeAccept(h)
    BY <1>3, <1>7 DEF LeaveBeforeAccept, Goto
  <1>8. CASE Construct(h)
    <2>1. /\ object' \in [Threads -> Requests \cup {Blank, None}]
          /\ object'[h] = Blank
          /\ \A g \in Threads \ {h} : object'[g] = object[g]
      BY <1>8 DEF Construct, ThreadInv
    <2>2. Fits(object'[h], "ready") /\ Held("ready")
      BY <1>8, <2>1 DEF Construct, ThreadInv, Away, Holding, Statuses
    <2>3. /\ Goto(h, pc[h], "ready") /\ pc[h] # "off" /\ Increment(h)
          /\ "ready" \in ThreadPC /\ "ready" \in Serving
      BY <1>8 DEF Construct, Goto, ThreadPC, Serving
    <2> HIDE DEF Fits, Held
    <2> QED BY <1>1, <1>2, <2>1, <2>2, <2>3
  <1>9. CASE ConstructFails(h)
    BY <1>3, <1>9 DEF ConstructFails, Goto
  <1>10. CASE BeginAccept(h)
    <2>1. Fits(object[h], "accept") /\ Held("accept")
      BY <1>10 DEF BeginAccept, Goto, ThreadInv, Holding, Statuses
    <2>2. /\ Goto(h, pc[h], "accept") /\ pc[h] # "off" /\ Decrement(h)
          /\ object' = object /\ "accept" \in ThreadPC /\ "accept" \notin Serving
      BY <1>10 DEF BeginAccept, Goto, ThreadPC, Serving, Statuses
    <2> HIDE DEF Fits, Held
    <2> QED BY <1>4, <2>1, <2>2
  <1>11. CASE LeaveAfterAccept(h)
    BY <1>3, <1>11 DEF LeaveAfterAccept, Goto
  <1>12. CASE KeepGoing(h)
    <2>1. Fits(object[h], "resume") /\ Held("resume")
      BY <1>12 DEF KeepGoing, Goto, ThreadInv, Away, Holding, Statuses
    <2>2. /\ Goto(h, pc[h], "resume") /\ pc[h] # "off" /\ Same /\ object' = object
          /\ "resume" \in ThreadPC /\ "resume" \notin Serving /\ pc[h] \notin Serving
      BY <1>12 DEF KeepGoing, Goto, ThreadPC, Serving, Statuses
    <2> HIDE DEF Fits, Held
    <2> QED BY <1>4, <2>1, <2>2
  <1>13. CASE Resume(h)
    <2>1. Fits(object[h], "attach") /\ Held("attach")
      BY <1>13 DEF Resume, ThreadInv, Away
    <2>2. /\ Goto(h, pc[h], "attach") /\ pc[h] # "off" /\ Increment(h)
          /\ object' = object /\ "attach" \in ThreadPC /\ "attach" \in Serving
      BY <1>13 DEF Resume, Goto, ThreadPC, Serving
    <2> HIDE DEF Fits, Held
    <2> QED BY <1>4, <2>1, <2>2
  <1>14. CASE ResumeFails(h)
    BY <1>3, <1>14 DEF ResumeFails, Goto
  <1>15. CASE Attach(h) \/ AttachFails(h)
    BY <1>5, <1>15 DEF Attach, AttachFails, Proceed, Holding, Statuses
  <1>16. CASE Dispatch(h) \/ NoHandler(h) \/ Refuse(h) \/ DispatchThrows(h)
    BY <1>5, <1>16 DEF Dispatch, Push, NoHandler, Refuse, DispatchThrows, Proceed, Holding,
       Statuses
  <1>17. CASE Reply(h)
    BY <1>5, <1>17 DEF Reply, Holding
  <1>18. CASE Leave(h)
    BY <1>3, <1>18 DEF Leave, Goto
  <1>19. CASE \E r \in Requests : AcceptConnection(h, r)
    <2> PICK r \in Requests : AcceptConnection(h, r)
      BY <1>19
    <2>1. /\ object' \in [Threads -> Requests \cup {Blank, None}]
          /\ \A g \in Threads \ {h} : object'[g] = object[g]
      BY DEF AcceptConnection, ThreadInv
    <2>2. Fits(object'[h], "accepted") /\ Held("accepted")
      BY DEF AcceptConnection, Goto, ThreadInv, Away, Holding, Statuses
    <2>3. /\ Goto(h, pc[h], "accepted") /\ pc[h] # "off" /\ Same
          /\ "accepted" \in ThreadPC /\ "accepted" \notin Serving /\ pc[h] \notin Serving
      BY DEF AcceptConnection, Goto, ThreadPC, Serving, Statuses
    <2> HIDE DEF Fits, Held
    <2> QED BY <1>1, <1>2, <2>1, <2>2, <2>3
  <1>20. CASE AcceptFails(h)
    <2>1. Fits(object[h], "accepted") /\ Held("accepted")
      BY <1>20 DEF AcceptFails, Goto, ThreadInv, Away, Holding, Statuses
    <2>2. /\ Goto(h, pc[h], "accepted") /\ pc[h] # "off" /\ Same /\ object' = object
          /\ "accepted" \in ThreadPC /\ "accepted" \notin Serving /\ pc[h] \notin Serving
      BY <1>20 DEF AcceptFails, Goto, ThreadPC, Serving, Statuses
    <2> HIDE DEF Fits, Held
    <2> QED BY <1>4, <2>1, <2>2
  <1> QED BY <1>6, <1>7, <1>8, <1>9, <1>10, <1>11, <1>12, <1>13, <1>14, <1>15, <1>16, <1>17,
             <1>18, <1>19, <1>20 DEF ThreadStep, Handle, Client, Accept

\* Every step preserves ThreadInv.
LEMMA NextThread == IInv /\ [Next]_vars => ThreadInv'
  <1> SUFFICES ASSUME IInv, [Next]_vars PROVE ThreadInv'
    OBVIOUS
  <1>1. ASSUME UNCHANGED threadVars, main' \in BeforeThreads => main \in BeforeThreads
        PROVE  ThreadInv'
    BY <1>1 DEF IInv, ThreadInv, Counted, threadVars
  <1>2. ASSUME main = "threads", NEW S \in SUBSET Threads, main' \notin BeforeThreads,
               pc' = [h \in Threads |-> IF h \in S THEN "top" ELSE "off"],
               UNCHANGED <<holder, incremented, busy_count, object>>
        PROVE  ThreadInv'
    <2>1. \A h \in Threads : pc[h] = "off" /\ object[h] = None /\ ~incremented[h]
      BY <1>2 DEF IInv, ThreadInv, BeforeThreads, Serving, Statuses
    <2>2. Counted' = Counted
      BY <1>2, <2>1 DEF Counted, Serving, Statuses
    <2> QED BY <1>2, <2>1, <2>2 DEF IInv, ThreadInv, ThreadPC, Serving, Holding, Away, Statuses
  <1>3. CASE CreateWorkThreads
    <2>1. pc' = [h \in Threads |-> IF h \in Threads THEN "top" ELSE "off"]
      BY <1>3 DEF CreateWorkThreads
    <2> QED BY <1>2, <1>3, <2>1 DEF CreateWorkThreads, MainStep, BeforeThreads
  <1>4. CASE \E S \in SUBSET Threads : CreateWorkThreadsFails(S)
    BY <1>2, <1>4 DEF CreateWorkThreadsFails, MainStep, BeforeThreads
  <1>5. CASE Load \/ InitMonitorThread \/ InitSubsystem \/ SetRunning \/ MakePipe
             \/ SpawnStopThread \/ JoinThreadPools \/ JoinThreads
    BY <1>1, <1>5 DEF Load, InitMonitorThread, InitSubsystem, SetRunning, MakePipe,
       SpawnStopThread, JoinThreadPools, JoinThreads, MainStep, BeforeThreads
  <1>6. CASE DestroyServer \/ DestroyComponents \/ DestroyPools \/ StartFails
    BY <1>1, <1>6 DEF DestroyServer, DestroyComponents, DestroyPools, StartFails, MainStep,
       BeforeThreads
  <1>7. CASE SignalHandler \/ StopThread \/ Monitor
    BY <1>1, <1>7, StopFrame DEF serverVars
  <1>8. CASE \E h \in Threads : ThreadStep(h)
    BY <1>8, HandleThread DEF IInv
  <1>9. CASE Pool
    BY <1>1, <1>9, PoolFrame DEF serverVars
  <1>10. CASE Exited \/ UNCHANGED vars
    BY <1>1, <1>10 DEF Exited, vars, serverVars
  <1> QED BY <1>3, <1>4, <1>5, <1>6, <1>7, <1>8, <1>9, <1>10 DEF Next, Main, ThreadStep

-----------------------------------------------------------------------------
(* The connections. *)

\* What a thread uses is no connection (nothing or a blank request) and changes into
\* something that is none.
LEMMA NoConnection ==
    ASSUME OwnerInv, NEW h \in Threads,
           using[h] \notin Requests, using'[h] \notin Requests,
           \A g \in Threads \ {h} : using'[g] = using[g],
           UNCHANGED <<outcome, queue, running>>
    PROVE  OwnerInv'
  <1>1. \A g \in Threads : using'[g] \in Requests => g # h /\ using'[g] = using[g]
    OBVIOUS
  <1>2. ASSUME NEW r \in Requests, outcome'[r] = "held"
        PROVE  \E g \in Threads : using'[g] = r
    <2>1. PICK g \in Threads : using[g] = r
      BY <1>2 DEF OwnerInv
    <2>2. g # h
      BY <2>1
    <2> QED BY <2>1, <2>2
  <1> QED BY <1>1, <1>2 DEF OwnerInv

\* accept() gives a thread a connection that nobody has had.
LEMMA TakeConnection ==
    ASSUME OwnerInv, NEW h \in Threads, NEW r \in Requests,
           using[h] \notin Requests, outcome[r] = "new",
           using'[h] = r, \A g \in Threads \ {h} : using'[g] = using[g],
           outcome' = [outcome EXCEPT ![r] = "held"],
           UNCHANGED <<queue, running>>
    PROVE  OwnerInv'
  <1>1. /\ outcome' \in [Requests -> Outcomes]
        /\ \A q \in Requests : outcome'[q] = IF q = r THEN "held" ELSE outcome[q]
    BY DEF OwnerInv, Outcomes
  <1>2. \A g \in Threads : using[g] # r
    BY DEF OwnerInv
  <1>3. \A i \in 1 .. Len(queue) : queue[i] \in Requests
    BY ElementOfSeq DEF OwnerInv
  <1>4. \A g \in Threads : using'[g] \in Requests => outcome'[using'[g]] = "held"
    BY <1>1, <1>2 DEF OwnerInv
  <1>5. \A g, f \in Threads : using'[g] \in Requests /\ using'[g] = using'[f] => g = f
    BY <1>2 DEF OwnerInv
  <1>6. ASSUME NEW q \in Requests, outcome'[q] = "held"
        PROVE  \E g \in Threads : using'[g] = q
    <2>1. CASE q = r
      BY <2>1
    <2>2. CASE q # r
      <3>1. PICK g \in Threads : using[g] = q
        BY <1>1, <1>6, <2>2 DEF OwnerInv
      <3> QED BY <3>1
    <2> QED BY <2>1, <2>2
  <1>7. \A i \in 1 .. Len(queue) : outcome'[queue[i]] = "queued" /\ queue[i] \notin running
    BY <1>1, <1>3 DEF OwnerInv
  <1>8. \A q \in running : outcome'[q] = "queued"
    BY <1>1 DEF OwnerInv
  <1>9. \A q \in Requests : outcome'[q] = "queued" =>
           q \in running \/ \E i \in 1 .. Len(queue) : queue[i] = q
    BY <1>1 DEF OwnerInv
  <1> QED BY <1>1, <1>4, <1>5, <1>6, <1>7, <1>8, <1>9 DEF OwnerInv

\* A thread has done with its connection, which ends with an outcome of its own.
LEMMA EndConnection ==
    ASSUME OwnerInv, NEW h \in Threads, NEW how \in Outcomes \ {"held", "queued"},
           using[h] \in Requests, using'[h] \notin Requests,
           \A g \in Threads \ {h} : using'[g] = using[g],
           outcome' = [outcome EXCEPT ![using[h]] = how],
           UNCHANGED <<queue, running>>
    PROVE  OwnerInv'
  <1> DEFINE r == using[h]
  <1>1. /\ r \in Requests /\ outcome[r] = "held" /\ outcome' \in [Requests -> Outcomes]
        /\ \A q \in Requests : outcome'[q] = IF q = r THEN how ELSE outcome[q]
    BY DEF OwnerInv
  <1>2. \A g \in Threads : using'[g] \in Requests => g # h /\ using'[g] = using[g]
                                                      /\ using[g] # r
    BY DEF OwnerInv
  <1> HIDE DEF r
  <1>3. \A i \in 1 .. Len(queue) : queue[i] \in Requests
    BY ElementOfSeq DEF OwnerInv
  <1>4. \A g \in Threads : using'[g] \in Requests => outcome'[using'[g]] = "held"
    BY <1>1, <1>2 DEF OwnerInv
  <1>5. \A g, f \in Threads : using'[g] \in Requests /\ using'[g] = using'[f] => g = f
    BY <1>2 DEF OwnerInv
  <1>6. ASSUME NEW q \in Requests, outcome'[q] = "held"
        PROVE  \E g \in Threads : using'[g] = q
    <2>1. q # r
      BY <1>1, <1>6
    <2>2. PICK g \in Threads : using[g] = q
      BY <1>1, <1>6, <2>1 DEF OwnerInv
    <2> QED BY <2>1, <2>2 DEF r
  <1>7. \A i \in 1 .. Len(queue) : outcome'[queue[i]] = "queued" /\ queue[i] \notin running
    BY <1>1, <1>3 DEF OwnerInv
  <1>8. \A q \in running : outcome'[q] = "queued"
    BY <1>1 DEF OwnerInv
  <1>9. \A q \in Requests : outcome'[q] = "queued" =>
           q \in running \/ \E i \in 1 .. Len(queue) : queue[i] = q
    BY <1>1 DEF OwnerInv
  <1> QED BY <1>1, <1>4, <1>5, <1>6, <1>7, <1>8, <1>9 DEF OwnerInv

\* A thread hands its connection over to the pool's queue.
LEMMA QueueConnection ==
    ASSUME OwnerInv, NEW h \in Threads, using[h] \in Requests, using'[h] \notin Requests,
           \A g \in Threads \ {h} : using'[g] = using[g],
           Len(queue) < QueueLength, queue' = Append(queue, using[h]),
           outcome' = [outcome EXCEPT ![using[h]] = "queued"], running' = running
    PROVE  OwnerInv'
  <1> DEFINE r == using[h]
  <1>1. /\ r \in Requests /\ outcome[r] = "held" /\ outcome' \in [Requests -> Outcomes]
        /\ \A q \in Requests : outcome'[q] = IF q = r THEN "queued" ELSE outcome[q]
    BY DEF OwnerInv, Outcomes
  <1>2. \A g \in Threads : using'[g] \in Requests => g # h /\ using'[g] = using[g]
                                                      /\ using[g] # r
    BY DEF OwnerInv
  <1>3. queue' = Append(queue, r)
    OBVIOUS
  <1> HIDE DEF r
  <1>4. /\ queue \in Seq(Requests) /\ Len(queue) \in Nat
        /\ queue' \in Seq(Requests) /\ Len(queue') = Len(queue) + 1
        /\ \A i \in 1 .. Len(queue) : queue'[i] = queue[i]
        /\ queue'[Len(queue) + 1] = r
    BY <1>1, <1>3, AppendProperties, LenProperties DEF OwnerInv
  <1>5. \A i \in 1 .. Len(queue') : i \in 1 .. Len(queue) \/ i = Len(queue) + 1
    BY <1>4
  <1>6. \A i \in 1 .. Len(queue) : queue[i] \in Requests /\ queue[i] # r
    BY <1>1, <1>4, ElementOfSeq DEF OwnerInv
  <1>7. Len(queue') <= QueueLength
    BY <1>4, PoolAssumption
  <1>8. \A g \in Threads : using'[g] \in Requests => outcome'[using'[g]] = "held"
    BY <1>1, <1>2 DEF OwnerInv
  <1>9. \A g, f \in Threads : using'[g] \in Requests /\ using'[g] = using'[f] => g = f
    BY <1>2 DEF OwnerInv
  <1>10. ASSUME NEW q \in Requests, outcome'[q] = "held"
         PROVE  \E g \in Threads : using'[g] = q
    <2>1. q # r
      BY <1>1, <1>10
    <2>2. PICK g \in Threads : using[g] = q
      BY <1>1, <1>10, <2>1 DEF OwnerInv
    <2> QED BY <2>1, <2>2 DEF r
  <1>11. r \notin running /\ (\A q \in running : outcome'[q] = "queued")
    BY <1>1 DEF OwnerInv
  <1>12. ASSUME NEW i \in 1 .. Len(queue')
         PROVE  outcome'[queue'[i]] = "queued" /\ queue'[i] \notin running'
    <2>1. CASE i \in 1 .. Len(queue)
      BY <2>1, <1>1, <1>4, <1>6 DEF OwnerInv
    <2>2. CASE i = Len(queue) + 1
      BY <2>2, <1>1, <1>4, <1>11
    <2> QED BY <2>1, <2>2, <1>5
  <1>13. \A i, j \in 1 .. Len(queue') : queue'[i] = queue'[j] => i = j
    BY <1>4, <1>5, <1>6 DEF OwnerInv
  <1>14. ASSUME NEW q \in Requests, outcome'[q] = "queued"
         PROVE  q \in running' \/ \E i \in 1 .. Len(queue') : queue'[i] = q
    <2>1. CASE q = r
      <3>1. Len(queue) + 1 \in 1 .. Len(queue')
        BY <1>4
      <3> QED BY <2>1, <3>1, <1>4
    <2>2. CASE q # r
      <3>1. q \in running \/ \E i \in 1 .. Len(queue) : queue[i] = q
        BY <1>1, <1>14, <2>2 DEF OwnerInv
      <3>2. \A i \in 1 .. Len(queue) : i \in 1 .. Len(queue')
        BY <1>4
      <3> QED BY <3>1, <3>2, <1>4
    <2> QED BY <2>1, <2>2
  <1> QED BY <1>1, <1>4, <1>7, <1>8, <1>9, <1>10, <1>11, <1>12, <1>13, <1>14 DEF OwnerInv

\* When thread h moves, only what h uses can change.
LEMMA UsingStep ==
    ASSUME ThreadInv, NEW h \in Threads, NEW to, pc' = [pc EXCEPT ![h] = to],
           \A g \in Threads \ {h} : object'[g] = object[g]
    PROVE  /\ \A g \in Threads \ {h} : using'[g] = using[g]
           /\ using'[h] = IF to = "leave" THEN None ELSE object'[h]
           /\ using[h] = IF pc[h] = "leave" THEN None ELSE object[h]
  <1>1. \A g \in Threads : pc'[g] = IF g = h THEN to ELSE pc[g]
    BY DEF ThreadInv
  <1> QED BY <1>1 DEF using

\* A step of an endpoint thread preserves OwnerInv.
LEMMA HandleOwner ==
    ASSUME ThreadInv, OwnerInv, NEW h \in Threads, ThreadStep(h)
    PROVE  OwnerInv'
  <1>0. Blank \notin Requests /\ None \notin Requests
    BY RequestsAssumption
  <1>1. ASSUME NEW from, NEW to, Goto(h, from, to), from # "leave", to # "leave",
               UNCHANGED <<object, outcome, queue, running>>
        PROVE  OwnerInv'
    <2>1. UNCHANGED using
      <3>1. \A g \in Threads : pc'[g] = "leave" <=> pc[g] = "leave"
        BY <1>1 DEF Goto, ThreadInv
      <3> QED BY <1>1, <3>1 DEF using
    <2> QED BY <1>1, <2>1 DEF OwnerInv
  <1>2. ASSUME NEW from, NEW to, Goto(h, from, to), EndIteration(h)
        PROVE  using'[h] \notin Requests /\ \A g \in Threads \ {h} : using'[g] = using[g]
    <2>1. object'[h] = None /\ \A g \in Threads \ {h} : object'[g] = object[g]
      BY <1>2 DEF EndIteration, ThreadInv
    <2>2. pc' = [pc EXCEPT ![h] = to]
      BY <1>2 DEF Goto
    <2> QED BY <1>0, <2>1, <2>2, UsingStep
  <1>3. CASE TakeHolder(h) \/ BeginAccept(h) \/ KeepGoing(h) \/ Resume(h) \/ AcceptFails(h)
    BY <1>1, <1>3 DEF TakeHolder, BeginAccept, KeepGoing, Resume, AcceptFails, poolVars
  <1>4. CASE Attach(h) \/ AttachFails(h) \/ NoHandler(h) \/ Refuse(h) \/ DispatchThrows(h)
    BY <1>1, <1>4 DEF Attach, AttachFails, NoHandler, Refuse, DispatchThrows, Proceed, poolVars
  <1>5. CASE LeaveBeforeAccept(h) \/ ConstructFails(h) \/ ResumeFails(h) \/ Leave(h)
    <2>1. PICK from, to : Goto(h, from, to) /\ EndIteration(h)
      BY <1>5 DEF LeaveBeforeAccept, ConstructFails, ResumeFails, Leave
    <2>2. using[h] \notin Requests /\ UNCHANGED <<outcome, queue, running>>
      BY <1>0, <1>5 DEF LeaveBeforeAccept, ConstructFails, ResumeFails, Leave, Goto, ThreadInv,
         poolVars, using
    <2> QED BY <1>2, <2>1, <2>2, NoConnection
  <1>6. CASE Construct(h)
    <2>1. object'[h] = Blank /\ \A g \in Threads \ {h} : object'[g] = object[g]
      BY <1>6 DEF Construct, ThreadInv
    <2>2. pc[h] = "check" /\ pc' = [pc EXCEPT ![h] = "ready"] /\ object[h] = None
          /\ UNCHANGED <<outcome, queue, running>>
      BY <1>6 DEF Construct, Goto, ThreadInv, poolVars
    <2>3. /\ using[h] \notin Requests /\ using'[h] \notin Requests
          /\ \A g \in Threads \ {h} : using'[g] = using[g]
      BY <1>0, <2>1, <2>2, UsingStep
    <2> QED BY <2>2, <2>3, NoConnection
  <1>7. CASE LeaveAfterAccept(h)
    <2>1. /\ Goto(h, "accepted", "exit") /\ EndIteration(h) /\ UNCHANGED <<queue, running>>
          /\ using[h] = object[h]
      BY <1>7 DEF LeaveAfterAccept, Goto, poolVars, using
    <2>2. CASE object[h] \in Requests
      <3>1. outcome' = [outcome EXCEPT ![using[h]] = "dropped"]
            /\ "dropped" \in Outcomes \ {"held", "queued"}
        BY <1>7, <2>1, <2>2 DEF LeaveAfterAccept, Outcomes
      <3> QED BY <1>2, <2>1, <2>2, <3>1, EndConnection
    <2>3. CASE object[h] \notin Requests
      <3>1. outcome' = outcome
        BY <1>7, <2>3 DEF LeaveAfterAccept
      <3> QED BY <1>2, <2>1, <2>3, <3>1, NoConnection
    <2> QED BY <2>2, <2>3
  <1>8. CASE Dispatch(h)
    <2>1. /\ pc' = [pc EXCEPT ![h] = "leave"] /\ pc[h] = "dispatch" /\ object' = object
          /\ object[h] \in Requests
      BY <1>8 DEF Dispatch, Push, Goto, ThreadInv, Holding
    <2>2. /\ using[h] = object[h] /\ using'[h] \notin Requests
          /\ \A g \in Threads \ {h} : using'[g] = using[g]
      BY <1>0, <2>1, UsingStep
    <2>3. /\ Len(queue) < QueueLength /\ queue' = Append(queue, object[h])
          /\ outcome' = [outcome EXCEPT ![object[h]] = "queued"] /\ running' = running
      BY <1>8 DEF Dispatch, Push
    <2> QED BY <2>1, <2>2, <2>3, QueueConnection
  <1>9. CASE Reply(h)
    <2>1. /\ pc' = [pc EXCEPT ![h] = "leave"] /\ pc[h] \in Statuses /\ object' = object
      BY <1>9 DEF Reply, Goto
    <2>2. object[h] \in Requests /\ pc[h] # "leave"
      BY <2>1 DEF ThreadInv, Holding, Statuses
    <2>3. /\ using[h] = object[h] /\ using'[h] \notin Requests
          /\ \A g \in Threads \ {h} : using'[g] = using[g]
      BY <1>0, <2>1, <2>2, UsingStep
    <2>4. /\ outcome' = [outcome EXCEPT ![object[h]] = "answered"]
          /\ UNCHANGED <<queue, running>> /\ "answered" \in Outcomes \ {"held", "queued"}
      BY <1>9 DEF Reply, poolVars, Outcomes, Answered
    <2> QED BY <2>2, <2>3, <2>4, EndConnection
  <1>10. CASE \E r \in Requests : AcceptConnection(h, r)
    <2> PICK r \in Requests : AcceptConnection(h, r)
      BY <1>10
    <2>1. /\ pc[h] = "accept" /\ object[h] = Blank /\ outcome[r] = "new"
          /\ pc' = [pc EXCEPT ![h] = "accepted"]
          /\ outcome' = [outcome EXCEPT ![r] = "held"] /\ UNCHANGED <<queue, running>>
      BY DEF AcceptConnection, Goto, ThreadInv, poolVars
    <2>2. object'[h] = r /\ \A g \in Threads \ {h} : object'[g] = object[g]
      BY DEF AcceptConnection, ThreadInv
    <2>3. /\ using[h] \notin Requests /\ using'[h] = r
          /\ \A g \in Threads \ {h} : using'[g] = using[g]
      BY <1>0, <2>1, <2>2, UsingStep
    <2> QED BY <2>1, <2>3, TakeConnection
  <1> QED BY <1>3, <1>4, <1>5, <1>6, <1>7, <1>8, <1>9, <1>10 DEF ThreadStep, Handle, Client, Accept

\* A pool worker takes the head of the queue, or ends with its request.
LEMMA PoolOwner ==
    ASSUME OwnerInv, Pool
    PROVE  OwnerInv'
  <1>1. UNCHANGED using
    BY PoolFrame DEF threadVars, using
  <1>2. CASE PoolTake
    <2> DEFINE r == Head(queue)
    <2>1. /\ queue \in Seq(Requests) /\ queue # <<>> /\ running' = running \cup {r}
          /\ queue' = Tail(queue) /\ outcome' = outcome
      BY <1>2 DEF PoolTake, OwnerInv
    <2>2. /\ r \in Requests /\ queue' \in Seq(Requests) /\ Len(queue') = Len(queue) - 1
          /\ \A i \in 1 .. Len(queue') : queue'[i] = queue[i + 1]
      BY <2>1, HeadTailProperties
    <2>3. r = queue[1] /\ Len(queue) \in Nat \ {0}
      BY <2>1, EmptySeq, LenProperties
    <2> HIDE DEF r
    <2>4. 1 \in 1 .. Len(queue) /\ \A i \in 1 .. Len(queue') : i + 1 \in 1 .. Len(queue)
      BY <2>2, <2>3
    <2>5. Len(queue') <= QueueLength
      BY <2>2, <2>3, PoolAssumption DEF OwnerInv
    <2>6. ASSUME NEW i \in 1 .. Len(queue')
          PROVE  outcome'[queue'[i]] = "queued" /\ queue'[i] \notin running'
      <3>1. queue'[i] = queue[i + 1] /\ i + 1 # 1
        BY <2>2
      <3>2. queue[i + 1] # r /\ queue[i + 1] \notin running /\ outcome[queue[i + 1]] = "queued"
        BY <2>3, <2>4, <3>1 DEF OwnerInv
      <3> QED BY <2>1, <3>1, <3>2
    <2>7. ASSUME NEW i \in 1 .. Len(queue'), NEW j \in 1 .. Len(queue'),
                 queue'[i] = queue'[j]
          PROVE  i = j
      <3>1. i + 1 \in 1 .. Len(queue) /\ j + 1 \in 1 .. Len(queue) /\ queue[i + 1] = queue[j + 1]
        BY <2>2, <2>4, <2>7
      <3>2. i + 1 = j + 1
        BY <3>1 DEF OwnerInv
      <3> QED BY <3>2
    <2>8. \A q \in running' : outcome'[q] = "queued"
      BY <2>1, <2>3, <2>4 DEF OwnerInv
    <2>9. ASSUME NEW q \in Requests, outcome'[q] = "queued"
          PROVE  q \in running' \/ \E i \in 1 .. Len(queue') : queue'[i] = q
      <3>1. CASE q \in running
        BY <2>1, <3>1
      <3>2. CASE \E i \in 1 .. Len(queue) : queue[i] = q
        <4>1. PICK i \in 1 .. Len(queue) : queue[i] = q
          BY <3>2
        <4>2. CASE i = 1
          BY <2>1, <2>3, <4>1, <4>2
        <4>3. CASE i # 1
          <5>1. i - 1 \in 1 .. Len(queue') /\ (i - 1) + 1 = i
            BY <2>2, <2>3, <4>3
          <5>2. queue'[i - 1] = q
            BY <2>2, <4>1, <5>1
          <5> QED BY <5>1, <5>2
        <4> QED BY <4>2, <4>3
      <3> QED BY <2>1, <2>9, <3>1, <3>2 DEF OwnerInv
    <2>10. running' \in SUBSET Requests
      BY <2>1, <2>2 DEF OwnerInv
    <2> QED BY <1>1, <2>1, <2>2, <2>5, <2>6, <2>7, <2>8, <2>9, <2>10 DEF OwnerInv
  <1>3. CASE \E r \in Requests : PoolDone(r)
    <2> PICK r \in Requests : PoolDone(r)
      BY <1>3
    <2>1. /\ r \in running /\ running' = running \ {r} /\ queue' = queue
          /\ outcome[r] = "queued" /\ outcome' = [outcome EXCEPT ![r] = "handled"]
      BY DEF PoolDone, OwnerInv
    <2>2. /\ outcome' \in [Requests -> Outcomes]
          /\ \A q \in Requests : outcome'[q] = IF q = r THEN "handled" ELSE outcome[q]
      BY <2>1 DEF OwnerInv, Outcomes, Answered
    <2>3. \A i \in 1 .. Len(queue) : queue[i] \in Requests /\ queue[i] # r
      BY <2>1, ElementOfSeq DEF OwnerInv
    <2>4. \A g \in Threads : using[g] \in Requests => outcome'[using[g]] = "held"
      BY <2>1, <2>2 DEF OwnerInv
    <2>5. \A q \in Requests : outcome'[q] = "held" => \E g \in Threads : using[g] = q
      BY <2>2 DEF OwnerInv
    <2>6. \A i \in 1 .. Len(queue) : outcome'[queue[i]] = "queued" /\ queue[i] \notin running'
      BY <2>1, <2>2, <2>3 DEF OwnerInv
    <2>7. running' \in SUBSET Requests /\ \A q \in running' : outcome'[q] = "queued"
      BY <2>1, <2>2 DEF OwnerInv
    <2>8. \A q \in Requests : outcome'[q] = "queued" =>
             q \in running' \/ \E i \in 1 .. Len(queue) : queue[i] = q
      BY <2>1, <2>2 DEF OwnerInv
    <2> QED BY <1>1, <2>1, <2>2, <2>4, <2>5, <2>6, <2>7, <2>8 DEF OwnerInv
  <1> QED BY <1>2, <1>3 DEF Pool

\* Every step preserves OwnerInv.
LEMMA NextOwner == IInv /\ [Next]_vars => OwnerInv'
  <1> SUFFICES ASSUME IInv, [Next]_vars PROVE OwnerInv'
    OBVIOUS
  <1>1. ASSUME UNCHANGED <<using, outcome, queue, running>> PROVE OwnerInv'
    BY <1>1 DEF IInv, OwnerInv
  <1>0. ASSUME main = "threads", UNCHANGED object, \A h \in Threads : pc'[h] # "leave"
        PROVE  UNCHANGED using
    BY <1>0 DEF IInv, ThreadInv, BeforeThreads, using
  <1>2. CASE DestroyPools
    <2> USE DEF IInv
    <2>1. /\ queue' = <<>> /\ UNCHANGED <<using, running>>
          /\ outcome' = [r \in Requests |-> IF r \in Range(queue) THEN "lost" ELSE outcome[r]]
      BY <1>2 DEF DestroyPools, threadVars, using
    <2>2. queue \in Seq(Requests) /\ DOMAIN queue = 1 .. Len(queue)
      BY LenProperties DEF OwnerInv
    <2>3. \A r : r \in Range(queue) <=> \E i \in 1 .. Len(queue) : queue[i] = r
      BY <2>2 DEF Range
    <2>4. queue' \in Seq(Requests) /\ Len(queue') = 0 /\ Len(queue') <= QueueLength
      BY <2>1, EmptySeq, PoolAssumption
    <2>5. /\ outcome' \in [Requests -> Outcomes]
          /\ \A r \in Requests : outcome'[r] = IF r \in Range(queue) THEN "lost" ELSE outcome[r]
      BY <2>1 DEF OwnerInv, Outcomes
    <2>6. \A r \in Requests : outcome[r] = "held" \/ r \in running => r \notin Range(queue)
      BY <2>3 DEF OwnerInv
    <2>7. \A g \in Threads : using'[g] \in Requests => outcome'[using'[g]] = "held"
      BY <2>1, <2>5, <2>6 DEF OwnerInv
    <2>8. \A r \in Requests : outcome'[r] = "held" => \E g \in Threads : using'[g] = r
      BY <2>1, <2>5 DEF OwnerInv
    <2>9. \A r \in running' : outcome'[r] = "queued"
      BY <2>1, <2>5, <2>6 DEF OwnerInv
    <2>10. \A r \in Requests : outcome'[r] = "queued" => r \in running'
      BY <2>1, <2>3, <2>5 DEF OwnerInv
    <2>11. \A i \in 1 .. Len(queue') : FALSE
      BY <2>4
    <2>12. running' \in SUBSET Requests
           /\ \A g, f \in Threads : using'[g] \in Requests /\ using'[g] = using'[f] => g = f
      BY <2>1 DEF OwnerInv
    <2> HIDE DEF IInv
    <2> QED BY <2>4, <2>5, <2>7, <2>8, <2>9, <2>10, <2>11, <2>12 DEF OwnerInv
  <1>3. CASE Load \/ InitMonitorThread \/ InitSubsystem \/ SetRunning \/ MakePipe
             \/ SpawnStopThread
    BY <1>1, <1>3 DEF Load, InitMonitorThread, InitSubsystem, SetRunning, MakePipe,
       SpawnStopThread, poolVars, threadVars, using
  <1>4. CASE JoinThreadPools \/ JoinThreads \/ DestroyServer \/ DestroyComponents \/ StartFails
    BY <1>1, <1>4 DEF JoinThreadPools, JoinThreads, DestroyServer, DestroyComponents,
       StartFails, poolVars, threadVars, using
  <1>5. CASE SignalHandler \/ StopThread \/ Monitor
    BY <1>1, <1>5, StopFrame DEF threadVars, using
  <1>9. CASE CreateWorkThreads \/ \E S \in SUBSET Threads : CreateWorkThreadsFails(S)
    <2>1. /\ main = "threads" /\ UNCHANGED object /\ \A h \in Threads : pc'[h] # "leave"
          /\ UNCHANGED <<outcome, queue, running>>
      BY <1>9 DEF CreateWorkThreads, CreateWorkThreadsFails, MainStep, poolVars
    <2> QED BY <1>0, <1>1, <2>1
  <1>6. CASE \E h \in Threads : ThreadStep(h)
    BY <1>6, HandleOwner DEF IInv
  <1>7. CASE Pool
    BY <1>7, PoolOwner DEF IInv
  <1>8. CASE Exited \/ UNCHANGED vars
    BY <1>1, <1>8 DEF Exited, vars, threadVars, poolVars, using
  <1> QED BY <1>2, <1>3, <1>4, <1>5, <1>6, <1>7, <1>8, <1>9 DEF Next, Main, ThreadStep

\* The threads touch only the outcome of a request that is new or held.
LEMMA DecidedStays ==
    ASSUME ThreadInv, OwnerInv, NEW h \in Threads, ThreadStep(h), NEW r \in Requests,
           outcome[r] \notin {"new", "held"}
    PROVE  outcome'[r] = outcome[r]
  <1>1. CASE UNCHANGED outcome
    BY <1>1
  <1>2. ASSUME NEW how, outcome' = [outcome EXCEPT ![object[h]] = how],
               pc[h] \in {"accepted", "dispatch"} \cup Statuses, object[h] \in Requests
        PROVE  outcome'[r] = outcome[r]
    <2>1. using[h] = object[h]
      BY <1>2 DEF using, Statuses
    <2>2. object[h] # r
      BY <1>2, <2>1 DEF OwnerInv
    <2> QED BY <1>2, <2>2 DEF OwnerInv
  <1>3. CASE LeaveAfterAccept(h)
    <2>1. CASE object[h] \in Requests
      BY <1>2, <1>3, <2>1 DEF LeaveAfterAccept, Goto
    <2>2. CASE object[h] \notin Requests
      BY <1>3, <2>2 DEF LeaveAfterAccept
    <2> QED BY <2>1, <2>2
  <1>4. CASE Dispatch(h)
    BY <1>2, <1>4 DEF Dispatch, Push, Goto, ThreadInv, Holding
  <1>5. CASE Reply(h)
    BY <1>2, <1>5 DEF Reply, ThreadInv, Holding
  <1>6. CASE \E q \in Requests : AcceptConnection(h, q)
    BY <1>6 DEF AcceptConnection, OwnerInv
  <1> QED BY <1>1, <1>3, <1>4, <1>5, <1>6
      DEF ThreadStep, Handle, Client, Accept, TakeHolder, LeaveBeforeAccept, Construct,
          ConstructFails, BeginAccept, KeepGoing, Resume, ResumeFails, NoHandler, Refuse,
          DispatchThrows, Attach, AttachFails, Leave, AcceptFails, Proceed

\* Every step preserves LeaveInv: a thread comes to the end of its try block by an
\* answer or by the push, and neither is taken back.
LEMMA NextLeave == IInv /\ [Next]_vars => LeaveInv'
  <1> SUFFICES ASSUME IInv, [Next]_vars PROVE LeaveInv'
    OBVIOUS
  <1> USE DEF IInv
  <1>0. \A g \in Threads : pc[g] = "leave" => object[g] \in Requests
    BY DEF ThreadInv, Holding
  <1>1. ASSUME UNCHANGED <<pc, object, outcome>>, Alive' => Alive PROVE LeaveInv'
    BY <1>1 DEF LeaveInv
  <1>2. CASE \E h \in Threads : ThreadStep(h)
    <2> PICK h \in Threads : ThreadStep(h)
      BY <1>2
    <2>1. UNCHANGED main
      BY HandleFrame DEF serverVars
    <2>2. ASSUME NEW g \in Threads \ {h}, Alive', pc'[g] = "leave"
          PROVE  outcome'[object'[g]] \in Answered \cup {"queued"}
      <3>1. pc'[g] = pc[g] /\ object'[g] = object[g]
        BY DEF ThreadStep, Handle, Client, Accept, TakeHolder, LeaveBeforeAccept, Construct,
           ConstructFails, BeginAccept, KeepGoing, Resume, ResumeFails, NoHandler, Refuse,
           DispatchThrows, Attach, AttachFails, Leave, AcceptFails, AcceptConnection, Proceed,
           LeaveAfterAccept, Dispatch, Push, Reply, EndIteration, Goto, ThreadInv
      <3>2. object[g] \in Requests /\ outcome[object[g]] \in Answered \cup {"queued"}
        BY <1>0, <2>1, <2>2, <3>1 DEF LeaveInv, Alive
      <3>3. outcome'[object[g]] = outcome[object[g]]
        BY <3>2, DecidedStays DEF Answered
      <3> QED BY <3>1, <3>2, <3>3
    <2>3. ASSUME pc'[h] = "leave"
          PROVE  outcome'[object'[h]] \in Answered \cup {"queued"}
      <3>1. Dispatch(h) \/ Reply(h)
        BY <2>3 DEF ThreadStep, Handle, Client, Accept, TakeHolder, LeaveBeforeAccept, Construct,
           ConstructFails, BeginAccept, KeepGoing, Resume, ResumeFails, NoHandler, Refuse,
           DispatchThrows, Attach, AttachFails, Leave, AcceptFails, AcceptConnection, Proceed,
           LeaveAfterAccept, Goto, ThreadInv
      <3>2. object' = object /\ object[h] \in Requests
        BY <3>1 DEF Dispatch, Push, Reply, Goto, ThreadInv, Holding
      <3> QED BY <3>1, <3>2 DEF Dispatch, Push, Reply, OwnerInv, Answered
    <2> QED BY <2>2, <2>3 DEF LeaveInv
  <1>3. CASE Pool
    <2>1. UNCHANGED <<main, pc, object>>
      BY <1>3, PoolFrame DEF serverVars, threadVars
    <2>2. \A r \in Requests : outcome[r] \in Answered \cup {"queued"} =>
                               outcome'[r] \in Answered \cup {"queued"}
      BY <1>3 DEF Pool, PoolTake, PoolDone, OwnerInv, Answered
    <2> QED BY <1>0, <2>1, <2>2 DEF LeaveInv, Alive
  <1>4. CASE CreateWorkThreads \/ \E S \in SUBSET Threads : CreateWorkThreadsFails(S)
    BY <1>4 DEF CreateWorkThreads, CreateWorkThreadsFails, LeaveInv
  <1>5. CASE Load \/ InitMonitorThread \/ InitSubsystem \/ SetRunning \/ MakePipe
             \/ SpawnStopThread \/ JoinThreadPools \/ JoinThreads
    BY <1>1, <1>5 DEF Load, InitMonitorThread, InitSubsystem, SetRunning, MakePipe,
       SpawnStopThread, JoinThreadPools, JoinThreads, MainStep, Alive, threadVars
  <1>6. CASE DestroyServer \/ DestroyComponents \/ StartFails
    BY <1>1, <1>6 DEF DestroyServer, DestroyComponents, StartFails, MainStep, Alive, threadVars
  <1>7. CASE DestroyPools
    BY <1>7 DEF DestroyPools, MainStep, Alive, LeaveInv
  <1>8. CASE SignalHandler \/ StopThread \/ Monitor
    BY <1>1, <1>8, StopFrame DEF serverVars, threadVars, Alive
  <1>9. CASE Exited \/ UNCHANGED vars
    BY <1>1, <1>9 DEF Exited, vars, serverVars, threadVars, Alive
  <1> QED BY <1>2, <1>3, <1>4, <1>5, <1>6, <1>7, <1>8, <1>9 DEF Next, Main, ThreadStep

\* The inductive invariant holds in every behaviour.
THEOREM Invariance == Spec => []IInv
  <1>1. IInv /\ [Next]_vars => IInv'
    BY NextControl, NextThread, NextOwner, NextLeave DEF IInv
  <1> QED BY <1>1, InitIInv, PTL DEF Spec

-----------------------------------------------------------------------------
(* What the invariant says of the daemon. *)

\* Every variable stays in its domain; busy_count_ never exceeds the number of
\* threads and the pipe never holds more bytes than there were stop requests.
THEOREM TypeCorrect == Spec => []TypeOK
  <1>1. ASSUME IInv PROVE TypeOK
    <2> USE <1>1 DEF IInv
    <2>1. busy_count \in 0 .. Cardinality(Threads)
      <3>1. Counted \subseteq Threads
        BY DEF Counted
      <3>2. /\ Cardinality(Counted) \in Nat /\ Cardinality(Threads) \in Nat
            /\ Cardinality(Counted) <= Cardinality(Threads)
        BY <3>1, ThreadsAssumption, FS_Subset, FS_CardinalityType
      <3>3. busy_count = Cardinality(Counted)
        BY DEF ThreadInv
      <3> QED BY <3>2, <3>3
    <2>2. pipeBytes \in 0 .. MaxStops
      BY MaxStopsAssumption DEF ControlInv
    <2> QED BY <2>1, <2>2 DEF TypeOK, ControlInv, ThreadInv, OwnerInv
  <1> QED BY <1>1, Invariance, PTL

\* The busy counter that getServerInfo publishes is exact, for any number of
\* endpoint threads.
THEOREM BusyCounter == Spec => []BusyCountExact
  <1>1. IInv => BusyCountExact
    BY DEF IInv, ThreadInv, BusyCountExact, Counted, Serving
  <1> QED BY <1>1, Invariance, PTL

\* stopInternal never throws in the stop thread, for any number of signals and
\* monitor commands at any time.
THEOREM StopThreadSafe == Spec => []StopThreadNeverThrows
  <1>1. IInv => StopThreadNeverThrows
    BY DEF IInv, ControlInv, StopThreadNeverThrows
  <1> QED BY <1>1, Invariance, PTL

\* Although the endpoint thread keeps its reference after the push, every request
\* is in use in one place from accept() to its answer, and in none after it: no
\* request is answered by two threads and none is left with nobody.
THEOREM OneUser == Spec => []SingleUser
  <1>1. ASSUME IInv, NEW r \in Requests
        PROVE  Cardinality({h \in Threads : using[h] = r})
               + Cardinality({i \in DOMAIN queue : queue[i] = r})
               + Cardinality(running \cap {r})
                 = IF outcome[r] \in {"held", "queued"} THEN 1 ELSE 0
    <2> USE <1>1 DEF IInv
    <2> DEFINE H == {h \in Threads : using[h] = r}
               Q == {i \in DOMAIN queue : queue[i] = r}
               R == running \cap {r}
    <2>1. DOMAIN queue = 1 .. Len(queue)
      BY LenProperties DEF OwnerInv
    <2>2. /\ (H = {} \/ \E h \in Threads : H = {h})
          /\ (H # {} <=> outcome[r] = "held")
      <3>1. H # {} <=> outcome[r] = "held"
        BY DEF OwnerInv
      <3>2. ASSUME NEW h \in H PROVE H = {h}
        BY DEF OwnerInv
      <3> QED BY <3>1, <3>2
    <2>3. /\ (Q = {} \/ \E i \in 1 .. Len(queue) : Q = {i})
          /\ (R = {} \/ R = {r})
          /\ (Q # {} \/ R # {} <=> outcome[r] = "queued")
          /\ (Q = {} \/ R = {})
      <3>1. ASSUME NEW i \in Q PROVE Q = {i}
        BY <2>1 DEF OwnerInv
      <3>2. Q # {} \/ R # {} <=> outcome[r] = "queued"
        BY <2>1 DEF OwnerInv
      <3>3. Q = {} \/ R = {}
        BY <2>1 DEF OwnerInv
      <3>4. Q = {} \/ \E i \in 1 .. Len(queue) : Q = {i}
        BY <2>1, <3>1
      <3> QED BY <3>2, <3>3, <3>4
    <2>4. Cardinality({}) = 0 /\ \A x : Cardinality({x}) = 1
      BY FS_EmptySet, FS_Singleton
    <2> HIDE DEF H, Q, R
    <2>5. Cardinality(H) = IF outcome[r] = "held" THEN 1 ELSE 0
      BY <2>2, <2>4
    <2>6. /\ Cardinality(Q) = IF Q = {} THEN 0 ELSE 1
          /\ Cardinality(R) = IF R = {} THEN 0 ELSE 1
      BY <2>3, <2>4
    <2>7. Cardinality(Q) + Cardinality(R) = IF outcome[r] = "queued" THEN 1 ELSE 0
      BY <2>3, <2>6
    <2>8. Cardinality(H) + Cardinality(Q) + Cardinality(R)
            = IF outcome[r] \in {"held", "queued"} THEN 1 ELSE 0
      BY <2>5, <2>6, <2>7
    <2> QED BY <2>8 DEF H, Q, R
  <1>2. IInv => SingleUser
    BY <1>1 DEF SingleUser
  <1> QED BY <1>2, Invariance, PTL

\* No request is closed unanswered but by a thread that finds the server stopped
\* after accept() and by the destruction of the pools.
THEOREM NoneClosedUnanswered == Spec => ClosedAnswered
  <1> DEFINE Closes(r) == Referenced(r) /\ ~Referenced(r)'
             Excused(r) == \/ outcome'[r] \in Answered
                           \/ stopped /\ \E h \in Threads \ holder : object[h] = r
                           \/ main = "destroyPools"
  <1>1. ASSUME IInv, [Next]_vars, NEW r \in Requests, Closes(r)
        PROVE  Excused(r)
    <2> USE <1>1 DEF IInv
    <2>1. CASE UNCHANGED <<object, queue, running>>
      BY <2>1 DEF Referenced
    <2>2. CASE DestroyPools
      BY <2>2 DEF DestroyPools, MainStep
    <2>3. CASE PoolTake
      <3>1. queue \in Seq(Requests) /\ queue # <<>> /\ queue' = Tail(queue)
            /\ running' = running \cup {Head(queue)} /\ object' = object
        BY <2>3 DEF PoolTake, OwnerInv, threadVars
      <3>2. /\ Len(queue) \in Nat \ {0} /\ Len(queue') = Len(queue) - 1
            /\ queue' \in Seq(Requests) /\ Head(queue) = queue[1]
            /\ \A i \in 1 .. Len(queue') : queue'[i] = queue[i + 1]
        BY <3>1, HeadTailProperties, EmptySeq, LenProperties
      <3>3. DOMAIN queue = 1 .. Len(queue) /\ DOMAIN queue' = 1 .. Len(queue')
        BY <3>1, <3>2, LenProperties
      <3>4. ASSUME NEW i \in DOMAIN queue, queue[i] = r
            PROVE  r \in running' \/ \E j \in DOMAIN queue' : queue'[j] = r
        <4>1. CASE i = 1
          BY <3>1, <3>2, <3>4, <4>1
        <4>2. CASE i # 1
          <5>1. i - 1 \in 1 .. Len(queue') /\ (i - 1) + 1 = i
            BY <3>2, <3>3, <4>2
          <5>2. queue'[i - 1] = r
            BY <3>2, <3>4, <5>1
          <5> QED BY <3>3, <5>1, <5>2
        <4> QED BY <4>1, <4>2
      <3> QED BY <3>1, <3>4 DEF Referenced
    <2>4. CASE \E q \in Requests : PoolDone(q)
      BY <2>4 DEF PoolDone, Referenced, OwnerInv, threadVars, Answered
    <2>5. CASE \E h \in Threads : ThreadStep(h)
      <3> PICK h \in Threads : ThreadStep(h)
        BY <2>5
      <3>1. CASE Dispatch(h)
        <4>1. /\ object' = object /\ running' = running /\ queue \in Seq(Requests)
              /\ queue' = Append(queue, object[h]) /\ object[h] \in Requests
          BY <3>1 DEF Dispatch, Push, Goto, OwnerInv, ThreadInv, Holding
        <4>2. \A i \in DOMAIN queue : i \in DOMAIN queue' /\ queue'[i] = queue[i]
          BY <4>1, AppendProperties, LenProperties
        <4> QED BY <4>1, <4>2 DEF Referenced
      <3>2. ASSUME UNCHANGED <<queue, running>>,
                   \A g \in Threads \ {h} : object'[g] = object[g]
            PROVE  object[h] = r
        BY <3>2 DEF Referenced
      <3>3. ASSUME EndIteration(h), UNCHANGED poolVars
            PROVE  object[h] = r
        <4>1. \A g \in Threads \ {h} : object'[g] = object[g]
          BY <3>3 DEF EndIteration, ThreadInv
        <4> QED BY <3>2, <3>3, <4>1 DEF poolVars
      <3>4. Blank \notin Requests /\ None \notin Requests
        BY RequestsAssumption
      <3>5. CASE LeaveBeforeAccept(h) \/ ConstructFails(h) \/ ResumeFails(h)
        <4>1. EndIteration(h) /\ UNCHANGED poolVars /\ object[h] \notin Requests
          BY <3>4, <3>5 DEF LeaveBeforeAccept, ConstructFails, ResumeFails, Goto, ThreadInv
        <4> QED BY <3>3, <4>1
      <3>6. CASE LeaveAfterAccept(h)
        <4>1. object[h] = r /\ stopped
          BY <3>3, <3>6 DEF LeaveAfterAccept
        <4>2. h \notin holder
          BY <3>6 DEF LeaveAfterAccept, Goto, ThreadInv, Away
        <4> QED BY <4>1, <4>2
      <3>7. CASE Leave(h)
        <4>1. object[h] = r /\ pc[h] = "leave" /\ Alive /\ outcome' = outcome
              /\ UNCHANGED <<queue, running>>
          BY <3>3, <3>7 DEF Leave, Goto, poolVars
        <4>2. outcome[r] \in Answered \cup {"queued"}
          BY <4>1 DEF LeaveInv
        <4>3. outcome[r] # "queued"
          BY <4>1, LenProperties DEF Referenced, OwnerInv
        <4> QED BY <4>1, <4>2, <4>3
      <3>8. CASE Construct(h) \/ \E q \in Requests : AcceptConnection(h, q)
        <4>1. /\ UNCHANGED <<queue, running>> /\ object[h] \notin Requests
              /\ \A g \in Threads \ {h} : object'[g] = object[g]
          BY <3>4, <3>8 DEF Construct, AcceptConnection, Goto, ThreadInv, poolVars
        <4> QED BY <3>2, <4>1
      <3> QED BY <2>1, <3>1, <3>5, <3>6, <3>7, <3>8
          DEF ThreadStep, Handle, Client, Accept, TakeHolder, BeginAccept, KeepGoing, Resume,
              NoHandler, Refuse, DispatchThrows, Attach, AttachFails, Reply, AcceptFails,
              Proceed, poolVars
    <2>6. CASE SignalHandler \/ StopThread \/ Monitor
      BY <2>1, <2>6, StopFrame DEF threadVars
    <2>7. CASE Load \/ InitMonitorThread \/ InitSubsystem \/ CreateWorkThreads \/ SetRunning
               \/ MakePipe \/ SpawnStopThread
      BY <2>1, <2>7 DEF Load, InitMonitorThread, InitSubsystem, CreateWorkThreads, SetRunning,
         MakePipe, SpawnStopThread, poolVars, threadVars
    <2>8. CASE JoinThreadPools \/ JoinThreads \/ DestroyServer \/ DestroyComponents
               \/ StartFails \/ \E S \in SUBSET Threads : CreateWorkThreadsFails(S)
      BY <2>1, <2>8 DEF JoinThreadPools, JoinThreads, DestroyServer, DestroyComponents,
         StartFails, CreateWorkThreadsFails, poolVars, threadVars
    <2>9. CASE Exited \/ UNCHANGED vars
      BY <2>1, <2>9 DEF Exited, vars, threadVars, poolVars
    <2> QED BY <2>2, <2>3, <2>4, <2>5, <2>6, <2>7, <2>8, <2>9 DEF Next, Main, Pool, ThreadStep
  <1>2. IInv /\ [Next]_vars =>
          [\A r \in Requests :
              Referenced(r) /\ ~Referenced(r)' =>
                 \/ outcome'[r] \in Answered
                 \/ stopped /\ \E h \in Threads \ holder : object[h] = r
                 \/ main = "destroyPools"]_vars
    BY <1>1
  <1> QED BY <1>2, Invariance, PTL DEF Spec, ClosedAnswered
=============================================================================
