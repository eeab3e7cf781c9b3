-------------------------- MODULE ThreadPoolProofs --------------------------
(***************************************************************************)
(* The safety invariants of ThreadPool, for every set of workers,          *)
(* producers and tasks and every queue length.                             *)
(***************************************************************************)
EXTENDS ThreadPool, SequenceFacts, FiniteSetTheorems, SequenceTheorems, TLAPS

\* What ties the workers' places to the owner's phase: an outcome not counted
\* yet belongs to a worker on its way to mutex_, no thread exists before
\* start(), only a running pool is started, and join() outlasts every worker.
Control ==
    /\ \A w \in Workers : state[w] # "none" => pc[w] = "lock"
    /\ phase = "created" => \A w \in Workers : pc[w] = "off"
    /\ started <=> phase = "running"
    /\ phase = "joined" => \A w \in Workers : pc[w] = "exit"

\* The inductive invariant.
IInv ==
    /\ TypeOK
    /\ Control
    /\ BusyExact
    /\ Conservation
    /\ FIFO
    /\ NoLostWakeup

Busy == Handling \cup Unaccounted

-----------------------------------------------------------------------------
(* Facts about the sets that the invariants count. *)

\* The counted sets are finite, in every state and in the next one.
LEMMA CountedFinite ==
    /\ IsFiniteSet(Busy) /\ Cardinality(Busy) \in Nat
    /\ IsFiniteSet(Busy') /\ Cardinality(Busy') \in Nat
    /\ IsFiniteSet(Awake) /\ Cardinality(Awake) \in Nat
    /\ IsFiniteSet(Awake') /\ Cardinality(Awake') \in Nat
    /\ IsFiniteSet(Notifying) /\ Cardinality(Notifying) \in Nat
    /\ IsFiniteSet(Notifying') /\ Cardinality(Notifying') \in Nat
  <1>1. /\ Busy \in SUBSET Workers /\ Busy' \in SUBSET Workers
        /\ Awake \in SUBSET Workers /\ Awake' \in SUBSET Workers
        /\ Notifying \in SUBSET Producers /\ Notifying' \in SUBSET Producers
    BY DEF Busy, Handling, Unaccounted, Awake, Notifying
  <1>2. \A S \in SUBSET Workers : IsFiniteSet(S) /\ Cardinality(S) \in Nat
    BY WorkersAssumption, FS_Subset, FS_CardinalityType
  <1>3. \A S \in SUBSET Producers : IsFiniteSet(S) /\ Cardinality(S) \in Nat
    BY ProducersAssumption, FS_Subset, FS_CardinalityType
  <1> QED BY <1>1, <1>2, <1>3

-----------------------------------------------------------------------------
(* The three facts about IInv. *)

\* The constructor establishes the inductive invariant.
LEMMA InitIInv == Init => IInv
  <1> SUFFICES ASSUME Init PROVE IInv
    OBVIOUS
  <1>1. TypeOK
    <2>1. <<>> \in Seq(Tasks) /\ Len(<<>>) = 0
      BY EmptySeq
    <2>2. /\ pc \in [Workers -> WorkerPC]
          /\ state \in [Workers -> WorkerState]
          /\ task \in [Workers -> Tasks \cup {NoTask}]
          /\ producer \in [Producers -> {"idle", "notify"}]
      BY DEF Init, WorkerPC, WorkerState
    <2>3. 0 \in 0 .. QueueLength /\ 0 <= QueueLength
      BY QueueLengthAssumption
    <2>4. /\ tasksQueue \in Seq(Tasks) /\ Len(tasksQueue) <= QueueLength
          /\ accepted \in Seq(Tasks) /\ taken \in Seq(Tasks)
      BY <2>1, <2>3 DEF Init
    <2> QED BY <2>2, <2>3, <2>4 DEF Init, TypeOK, Phase
  <1>2. Control
    BY DEF Init, Control
  <1>3. BusyExact
    <2>1. Handling \cup Unaccounted = {}
      BY DEF Init, Handling, Unaccounted
    <2> QED BY <2>1, FS_EmptySet DEF Init, BusyExact
  <1>4. Conservation
    BY DEF Init, Conservation
  <1>5. FIFO
    BY ConcatEmptySeq, EmptySeq DEF Init, FIFO
  <1>6. NoLostWakeup
    BY DEF Init, NoLostWakeup
  <1> QED BY <1>1, <1>2, <1>3, <1>4, <1>5, <1>6 DEF IInv

\* Every step of the owner preserves it.
LEMMA OwnerIInv == IInv /\ Owner => IInv'
  <1> SUFFICES ASSUME IInv, Owner PROVE IInv'
    OBVIOUS
  <1> USE DEF IInv
  <1>1. ASSUME NEW S \in SUBSET Workers, phase = "created",
               pc' = [w \in Workers |-> IF w \in S THEN "init" ELSE "off"],
               started' \in BOOLEAN, phase' \in {"running", "failed"},
               started' <=> phase' = "running",
               UNCHANGED <<tasksQueue, counters, currentQueue, state, task,
                           producer, history>>
        PROVE  IInv'
    <2>1. TypeOK'
      BY <1>1 DEF TypeOK, WorkerPC, Phase, counters, history
    <2>2. \A w \in Workers : pc[w] = "off" /\ state[w] = "none"
      BY <1>1 DEF Control, TypeOK
    <2>3. Control'
      BY <1>1, <2>2 DEF Control
    <2>4. (Handling \cup Unaccounted)' = Handling \cup Unaccounted
      BY <1>1, <2>2 DEF Handling, Unaccounted
    <2>5. BusyExact' /\ Conservation' /\ FIFO'
      BY <1>1, <2>4 DEF BusyExact, Conservation, FIFO, counters, history
    <2>6. NoLostWakeup'
      <3>1. Waiting' = {}
        BY <1>1 DEF Waiting
      <3> QED BY <3>1 DEF NoLostWakeup
    <2> QED BY <2>1, <2>3, <2>5, <2>6
  <1>2. CASE Start
    <2>1. pc' = [w \in Workers |-> IF w \in Workers THEN "init" ELSE "off"]
      BY <1>2 DEF Start
    <2> QED BY <1>1, <1>2, <2>1 DEF Start
  <1>3. CASE \E S \in SUBSET Workers : StartFails(S)
    <2> PICK S \in SUBSET Workers : StartFails(S)
      BY <1>3
    <2>1. started = FALSE /\ started' = FALSE
      BY DEF StartFails, Control, TypeOK
    <2> QED BY <1>1, <2>1 DEF StartFails
  <1>4. CASE Stop
    <2>1. TypeOK'
      BY <1>4 DEF Stop, TypeOK, WorkerPC, Phase, counters, history
    <2>2. Control'
      BY <1>4 DEF Stop, Control, TypeOK
    <2>3. (Handling \cup Unaccounted)' = Handling \cup Unaccounted
      BY <1>4 DEF Stop, Handling, Unaccounted, TypeOK
    <2>4. BusyExact' /\ Conservation' /\ FIFO' /\ NoLostWakeup'
      BY <1>4, <2>3 DEF Stop, BusyExact, Conservation, FIFO, NoLostWakeup,
                        counters, history
    <2> QED BY <2>1, <2>2, <2>4
  <1>5. CASE Join
    <2>1. TypeOK'
      BY <1>5 DEF Join, TypeOK, Phase, counters, history
    <2>2. Control'
      BY <1>5 DEF Join, Control, TypeOK
    <2>3. BusyExact' /\ Conservation' /\ FIFO' /\ NoLostWakeup'
      BY <1>5 DEF Join, BusyExact, Conservation, FIFO, NoLostWakeup, counters,
                  history, Handling, Unaccounted, Waiting, Awake, Notifying
    <2> QED BY <2>1, <2>2, <2>3
  <1>6. CASE GetInfo
    <2>1. TypeOK'
      <3>1. Len(tasksQueue) \in 0 .. QueueLength
        BY LenProperties, QueueLengthAssumption DEF TypeOK
      <3> QED BY <1>6, <3>1 DEF GetInfo, TypeOK, counters, history
    <2>2. Control' /\ BusyExact' /\ Conservation' /\ FIFO' /\ NoLostWakeup'
      BY <1>6 DEF GetInfo, Control, BusyExact, Conservation, FIFO,
                  NoLostWakeup, counters, history, Handling, Unaccounted,
                  Waiting, Awake, Notifying
    <2> QED BY <2>1, <2>2
  <1> QED BY <1>2, <1>3, <1>4, <1>5, <1>6 DEF Owner

\* Every step of a producer preserves it.
LEMMA ProducerIInv ==
    ASSUME NEW p \in Producers, IInv, AddTask(p)
    PROVE  IInv'
  <1> USE DEF IInv
  <1>1. ASSUME producer[p] = "idle",
               producer' = [producer EXCEPT ![p] = "notify"]
        PROVE  /\ producer' \in [Producers -> {"idle", "notify"}]
               /\ Cardinality(Notifying') = Cardinality(Notifying) + 1
    <2>1. Notifying' = Notifying \cup {p} /\ p \notin Notifying
      BY <1>1 DEF TypeOK, Notifying
    <2> QED BY <1>1, <2>1, CountedFinite, FS_AddElement DEF TypeOK
  <1>2. Len(tasksQueue) \in Nat
    BY LenProperties DEF TypeOK
  <1>3. ASSUME NEW t \in Tasks, Push(p, t) PROVE IInv'
    <2>1. /\ tasksQueue' \in Seq(Tasks) /\ Len(tasksQueue') = Len(tasksQueue) + 1
          /\ accepted' \in Seq(Tasks) /\ Len(accepted') = Len(accepted) + 1
      BY <1>3, AppendProperties DEF Push, TypeOK
    <2>2. TypeOK'
      BY <1>1, <1>2, <1>3, <2>1, QueueLengthAssumption DEF Push, TypeOK, counters
    <2>3. Control' /\ BusyExact'
      BY <1>3 DEF Push, Control, BusyExact, Handling, Unaccounted, counters
    <2>4. Conservation'
      <3>1. Len(accepted) \in Nat
        BY LenProperties DEF TypeOK
      <3> QED BY <1>2, <1>3, <2>1, <3>1 DEF Push, Conservation, TypeOK, counters
    <2>5. FIFO'
      <3>1. /\ Append(tasksQueue, t) = tasksQueue \o <<t>>
            /\ Append(accepted, t) = accepted \o <<t>>
            /\ <<t>> \in Seq(Tasks)
        BY AppendIsConcat DEF TypeOK
      <3>2. (taken \o tasksQueue) \o <<t>> = taken \o (tasksQueue \o <<t>>)
        BY <3>1, ConcatAssociative DEF TypeOK
      <3> QED BY <1>3, <3>1, <3>2 DEF Push, FIFO
    <2>6. NoLostWakeup'
      <3>1. Cardinality(Awake') = Cardinality(Awake) /\ Waiting' = Waiting
        BY <1>3 DEF Push, Awake, Waiting
      <3>2. Cardinality(Notifying') = Cardinality(Notifying) + 1
        BY <1>1, <1>3 DEF Push
      <3> QED BY <1>2, <1>3, <2>1, <3>1, <3>2, CountedFinite DEF Push, NoLostWakeup
    <2> QED BY <2>2, <2>3, <2>4, <2>5, <2>6
  <1>4. ASSUME NEW t \in Tasks, Refuse(p, t) PROVE IInv'
    <2>1. TypeOK'
      BY <1>1, <1>4 DEF Refuse, TypeOK, counters
    <2>2. Control' /\ BusyExact' /\ Conservation' /\ FIFO'
      BY <1>4 DEF Refuse, Control, BusyExact, Conservation, FIFO, Handling,
                  Unaccounted, counters
    <2>3. NoLostWakeup'
      <3>1. Cardinality(Awake') = Cardinality(Awake) /\ Waiting' = Waiting
        BY <1>4 DEF Refuse, Awake, Waiting
      <3>2. Cardinality(Notifying') = Cardinality(Notifying) + 1
        BY <1>1, <1>4 DEF Refuse
      <3> QED BY <1>2, <1>4, <3>1, <3>2, CountedFinite DEF Refuse, NoLostWakeup
    <2> QED BY <2>1, <2>2, <2>3
  <1>5. CASE Notify(p)
    <2>1. TypeOK' /\ Control'
      BY <1>5 DEF Notify, TypeOK, Control, WorkerPC, counters, history
    <2>2. (Handling \cup Unaccounted)' = Handling \cup Unaccounted
      BY <1>5 DEF Notify, Handling, Unaccounted, TypeOK
    <2>3. BusyExact' /\ Conservation' /\ FIFO'
      BY <1>5, <2>2 DEF Notify, BusyExact, Conservation, FIFO, counters, history
    <2>4. Cardinality(Notifying') = Cardinality(Notifying) - 1
      <3>1. Notifying' = Notifying \ {p} /\ p \in Notifying
        BY <1>5 DEF Notify, Notifying, TypeOK
      <3> QED BY <3>1, CountedFinite, FS_RemoveElement
    <2>5. NoLostWakeup'
      <3>1. CASE \E w \in Workers : pc[w] = "wait" /\ pc' = [pc EXCEPT ![w] = "lock"]
        <4> PICK w \in Workers : pc[w] = "wait" /\ pc' = [pc EXCEPT ![w] = "lock"]
          BY <3>1
        <4>1. Awake' = Awake \cup {w} /\ w \notin Awake /\ Waiting # {}
          BY DEF Awake, Waiting, TypeOK
        <4>2. Cardinality(Awake') = Cardinality(Awake) + 1
          BY <4>1, CountedFinite, FS_AddElement
        <4> QED BY <1>2, <1>5, <2>4, <4>1, <4>2, CountedFinite
                DEF Notify, NoLostWakeup
      <3>2. CASE (\A w \in Workers : pc[w] # "wait") /\ pc' = pc
        BY <3>2 DEF NoLostWakeup, Waiting
      <3> QED BY <1>5, <3>1, <3>2 DEF Notify
    <2> QED BY <2>1, <2>3, <2>5
  <1> QED BY <1>3, <1>4, <1>5 DEF AddTask

\* Every step of a worker preserves it.
LEMMA WorkerIInv ==
    ASSUME NEW w \in Workers, IInv, WorkMethod(w)
    PROVE  IInv'
  <1> USE DEF IInv
  <1>1. Len(tasksQueue) \in Nat /\ Len(accepted) \in Nat /\ Len(taken) \in Nat
    BY LenProperties DEF TypeOK
  <1>2. ASSUME pc[w] \in {"init", "wait"}, pc' = [pc EXCEPT ![w] = "lock"],
               UNCHANGED <<started, tasksQueue, counters, currentQueue, state,
                           task, producer, phase, history>>
        PROVE  IInv'
    <2>1. TypeOK' /\ Control'
      BY <1>2 DEF TypeOK, Control, WorkerPC, counters, history
    <2>2. (Handling \cup Unaccounted)' = Handling \cup Unaccounted
      BY <1>2 DEF Handling, Unaccounted, TypeOK
    <2>3. BusyExact' /\ Conservation' /\ FIFO'
      BY <1>2, <2>2 DEF BusyExact, Conservation, FIFO, counters, history
    <2>4. NoLostWakeup'
      <3>1. Awake' = Awake \cup {w} /\ Notifying' = Notifying
            /\ (Waiting' # {} => Waiting # {})
        BY <1>2 DEF Awake, Waiting, Notifying, TypeOK
      <3>2. Cardinality(Awake') >= Cardinality(Awake)
        BY <3>1, CountedFinite, FS_AddElement
      <3> QED BY <1>1, <1>2, <3>1, <3>2, CountedFinite DEF NoLostWakeup
    <2> QED BY <2>1, <2>3, <2>4
  <1>3. ASSUME NEW takes \in {0, 1}, Account(w, takes),
               NEW place \in {"exit", "wait", "handle"},
               pc' = [pc EXCEPT ![w] = place],
               takes = 1 <=> place = "handle"
        PROVE  /\ BusyExact'
               /\ busyThreadsCounter' \in Nat
               /\ goodTasksCounter' \in Nat
               /\ badTasksCounter' \in Nat
               /\ goodTasksCounter' + badTasksCounter' + busyThreadsCounter'
                    = goodTasksCounter + badTasksCounter + busyThreadsCounter
                      + takes
               /\ Awake' = Awake \ {w} /\ w \in Awake
               /\ Cardinality(Awake') = Cardinality(Awake) - 1
    <2>1. Busy' = IF takes = 1 THEN Busy \cup {w} ELSE Busy \ {w}
      BY <1>3 DEF Account, Busy, Handling, Unaccounted, TypeOK
    <2>2. w \in Busy <=> state[w] # "none"
      BY <1>3 DEF Account, Busy, Handling, Unaccounted
    <2>3. busyThreadsCounter = Cardinality(Busy)
      BY DEF BusyExact, Busy
    <2>4. busyThreadsCounter' = Cardinality(Busy')
      <3>1. CASE takes = 1
        <4>1. Cardinality(Busy') = IF w \in Busy THEN Cardinality(Busy)
                                                  ELSE Cardinality(Busy) + 1
          BY <2>1, <3>1, CountedFinite, FS_AddElement
        <4> QED BY <1>3, <2>2, <2>3, <3>1, <4>1, CountedFinite DEF Account, Bump
      <3>2. CASE takes = 0
        <4>1. Cardinality(Busy') = IF w \in Busy THEN Cardinality(Busy) - 1
                                                  ELSE Cardinality(Busy)
          BY <2>1, <3>2, CountedFinite, FS_RemoveElement
        <4> QED BY <1>3, <2>2, <2>3, <3>2, <4>1, CountedFinite DEF Account, Bump
      <3> QED BY <3>1, <3>2
    <2>5. goodTasksCounter' \in Nat /\ badTasksCounter' \in Nat
      BY <1>3 DEF Account, Bump, TypeOK
    <2>6. goodTasksCounter' + badTasksCounter' + busyThreadsCounter'
            = goodTasksCounter + badTasksCounter + busyThreadsCounter
              + takes
      <3>1. state[w] \in {"none", "good", "bad"}
        BY DEF TypeOK, WorkerState
      <3> QED BY <1>3, <3>1 DEF Account, Bump, TypeOK
    <2>7. Awake' = Awake \ {w} /\ w \in Awake
      BY <1>3 DEF Account, Awake, TypeOK
    <2>8. Cardinality(Awake') = Cardinality(Awake) - 1
      BY <2>7, CountedFinite, FS_RemoveElement
    <2> QED BY <2>4, <2>5, <2>6, <2>7, <2>8, CountedFinite DEF BusyExact, Busy
  <1>4. CASE Exit(w)
    <2>1. /\ BusyExact' /\ busyThreadsCounter' \in Nat
          /\ goodTasksCounter' \in Nat /\ badTasksCounter' \in Nat
          /\ goodTasksCounter' + badTasksCounter' + busyThreadsCounter'
               = goodTasksCounter + badTasksCounter + busyThreadsCounter
      BY <1>3, <1>4 DEF Exit, TypeOK
    <2>2. TypeOK'
      BY <1>4, <2>1 DEF Exit, Account, TypeOK, WorkerPC, WorkerState, history
    <2>3. Control'
      BY <1>4 DEF Exit, Account, Control, TypeOK
    <2>4. Conservation' /\ FIFO' /\ NoLostWakeup'
      BY <1>1, <1>4, <2>1 DEF Exit, Conservation, FIFO, NoLostWakeup, TypeOK,
                              history
    <2> QED BY <2>1, <2>2, <2>3, <2>4
  <1>5. CASE Wait(w)
    <2>1. /\ BusyExact' /\ busyThreadsCounter' \in Nat
          /\ goodTasksCounter' \in Nat /\ badTasksCounter' \in Nat
          /\ goodTasksCounter' + badTasksCounter' + busyThreadsCounter'
               = goodTasksCounter + badTasksCounter + busyThreadsCounter
      BY <1>3, <1>5 DEF Wait, TypeOK
    <2>2. TypeOK'
      BY <1>5, <2>1 DEF Wait, Account, TypeOK, WorkerPC, WorkerState, history
    <2>3. Control'
      BY <1>5 DEF Wait, Account, Control, TypeOK
    <2>4. Conservation' /\ FIFO'
      BY <1>1, <1>5, <2>1 DEF Wait, Conservation, FIFO, TypeOK, history
    <2>5. NoLostWakeup'
      <3>1. Len(tasksQueue') = 0
        BY <1>5, EmptySeq DEF Wait
      <3> QED BY <3>1, CountedFinite DEF NoLostWakeup
    <2> QED BY <2>1, <2>2, <2>3, <2>4, <2>5
  <1>6. CASE Take(w)
    <2>1. /\ BusyExact' /\ busyThreadsCounter' \in Nat
          /\ goodTasksCounter' \in Nat /\ badTasksCounter' \in Nat
          /\ goodTasksCounter' + badTasksCounter' + busyThreadsCounter'
               = goodTasksCounter + badTasksCounter + busyThreadsCounter + 1
          /\ Cardinality(Awake') = Cardinality(Awake) - 1
      BY <1>3, <1>6 DEF Take, TypeOK
    <2>2. /\ Head(tasksQueue) \in Tasks
          /\ tasksQueue' \in Seq(Tasks) /\ Len(tasksQueue') = Len(tasksQueue) - 1
          /\ taken' \in Seq(Tasks)
      <3>1. /\ Head(tasksQueue) \in Tasks /\ Tail(tasksQueue) \in Seq(Tasks)
            /\ Len(Tail(tasksQueue)) = Len(tasksQueue) - 1
        BY <1>6, HeadTailProperties DEF Take, TypeOK
      <3>2. Append(taken, Head(tasksQueue)) \in Seq(Tasks)
        BY <3>1, AppendProperties DEF TypeOK
      <3> QED BY <1>6, <3>1, <3>2 DEF Take
    <2>3. /\ started' = started /\ started
          /\ pc' = [pc EXCEPT ![w] = "handle"]
          /\ state' = [state EXCEPT ![w] = "none"]
          /\ UNCHANGED <<currentQueue, producer, phase, accepted, refused>>
      BY <1>6 DEF Take, Account
    <2>4. task' \in [Workers -> Tasks \cup {NoTask}]
      <3> DEFINE h == Head(tasksQueue)
      <3>1. h \in Tasks /\ task' = [task EXCEPT ![w] = h]
        BY <1>6, <2>2 DEF Take
      <3> HIDE DEF h
      <3> QED BY <3>1 DEF TypeOK
    <2>5. Len(tasksQueue') <= QueueLength
      BY <1>1, <2>2, QueueLengthAssumption DEF TypeOK
    <2>8. TypeOK'
      BY <2>1, <2>2, <2>3, <2>4, <2>5 DEF TypeOK, WorkerPC, WorkerState
    <2>9. Control'
      BY <2>3 DEF Control, TypeOK
    <2>10. Conservation'
      <3>1. Len(accepted') = Len(accepted)
        BY <2>3
      <3>2. /\ busyThreadsCounter \in Nat /\ goodTasksCounter \in Nat
            /\ badTasksCounter \in Nat
        BY DEF TypeOK
      <3>3. Len(accepted) = goodTasksCounter + badTasksCounter
                            + busyThreadsCounter + Len(tasksQueue)
        BY DEF Conservation
      <3>4. Len(tasksQueue') = Len(tasksQueue) - 1
        BY <2>2
      <3> DEFINE done == goodTasksCounter + badTasksCounter + busyThreadsCounter
                 q == Len(tasksQueue)
      <3>5. done \in Nat /\ q \in Nat
        BY <1>1, <3>2
      <3>6. done' = done + 1
        BY <2>1
      <3>7. q' = q - 1
        BY <3>4
      <3>8. Len(accepted) = done + q
        BY <3>3
      <3> HIDE DEF done, q
      <3>9. Len(accepted') = done' + q'
        BY <3>1, <3>5, <3>6, <3>7, <3>8
      <3> QED BY <3>9 DEF Conservation, done, q
    <2>6. FIFO'
      <3>1. Append(taken, Head(tasksQueue)) \o Tail(tasksQueue) = taken \o tasksQueue
        BY <1>6, HeadMoves DEF Take, TypeOK
      <3> QED BY <1>6, <3>1 DEF Take, FIFO
    <2>7. NoLostWakeup'
      <3>1. (Waiting' # {} => Waiting # {}) /\ Notifying' = Notifying
        BY <2>3 DEF Waiting, Notifying, TypeOK
      <3>2. Len(tasksQueue') = Len(tasksQueue) - 1
        BY <2>2
      <3>3. /\ Cardinality(Awake') = Cardinality(Awake) - 1
            /\ Cardinality(Notifying') = Cardinality(Notifying)
        BY <2>1, <3>1
      <3> QED BY <1>1, <2>3, <3>1, <3>2, <3>3, CountedFinite DEF NoLostWakeup
    <2> QED BY <2>1, <2>6, <2>7, <2>8, <2>9, <2>10
  <1>7. ASSUME NEW outcome \in {"good", "bad"}, Handled(w, outcome) PROVE IInv'
    <2>1. TypeOK'
      BY <1>7 DEF Handled, TypeOK, WorkerPC, WorkerState, counters, history
    <2>2. Control'
      BY <1>7 DEF Handled, Control, TypeOK
    <2>3. (Handling \cup Unaccounted)' = Handling \cup Unaccounted
      BY <1>7 DEF Handled, Handling, Unaccounted, TypeOK
    <2>4. BusyExact' /\ Conservation' /\ FIFO'
      BY <1>7, <2>3 DEF Handled, BusyExact, Conservation, FIFO, counters, history
    <2>5. NoLostWakeup'
      <3>1. Awake' = Awake \cup {w} /\ Notifying' = Notifying /\ Waiting' = Waiting
        BY <1>7 DEF Handled, Awake, Waiting, Notifying, TypeOK
      <3>2. Cardinality(Awake') >= Cardinality(Awake)
        BY <3>1, CountedFinite, FS_AddElement
      <3> QED BY <1>1, <1>7, <3>1, <3>2, CountedFinite DEF Handled, NoLostWakeup
    <2> QED BY <2>1, <2>2, <2>4, <2>5
  <1> QED BY <1>2, <1>4, <1>5, <1>6, <1>7
          DEF WorkMethod, Advance, InitDone, SpuriousWakeup

\* A step that changes nothing preserves it.
LEMMA StutterIInv == IInv /\ UNCHANGED vars => IInv'
  BY DEF IInv, TypeOK, Control, BusyExact, Conservation, FIFO, NoLostWakeup,
         Handling, Unaccounted, Waiting, Awake, Notifying, vars, counters, history

-----------------------------------------------------------------------------
(* The theorems. *)

\* The inductive invariant holds in every state of the pool.
THEOREM Invariance == Spec => []IInv
  <1>1. IInv /\ [Next]_vars => IInv'
    BY OwnerIInv, ProducerIInv, WorkerIInv, StutterIInv DEF Next
  <1> QED BY <1>1, InitIInv, PTL DEF Spec

\* ThreadPool's variables keep their types: in particular the queue never
\* exceeds queueLength and no counter of info_ wraps below zero.
THEOREM TypeCorrect == Spec => []TypeOK
  BY Invariance, PTL DEF IInv

\* getInfo's busyThreadsCounter is exact, for any number of workers.
THEOREM BusyCounterExact == Spec => []BusyExact
  BY Invariance, PTL DEF IInv

\* addTask and workMethod neither lose nor duplicate an accepted task.
THEOREM TasksConserved == Spec => []Conservation
  BY Invariance, PTL DEF IInv

\* Workers pop tasks in the order in which addTask accepted them.
THEOREM TasksInOrder == Spec => []FIFO
  BY Invariance, PTL DEF IInv

\* notify_one after the unlock of addTask and the loop around condition_.wait
\* lose no wakeup, for any number of workers and producers.
THEOREM WakeupsKept == Spec => []NoLostWakeup
  BY Invariance, PTL DEF IInv

\* After join() the counters are final and the workers are gone.
THEOREM JoinFinal == Spec => JoinIsFinal
  <1>1. IInv /\ [Next]_vars =>
          [phase = "joined" =>
              /\ busyThreadsCounter = 0
              /\ UNCHANGED <<counters, tasksQueue, task, taken>>]_vars
    <2> SUFFICES ASSUME IInv, Next, phase = "joined"
                 PROVE  /\ busyThreadsCounter = 0
                        /\ UNCHANGED <<counters, tasksQueue, task, taken>>
      BY DEF vars
    <2>1. started = FALSE /\ \A w \in Workers : pc[w] = "exit"
      BY DEF IInv, Control, TypeOK
    <2>2. busyThreadsCounter = 0
      <3>1. Handling \cup Unaccounted = {}
        BY <2>1 DEF IInv, Control, Handling, Unaccounted
      <3> QED BY <3>1, FS_EmptySet DEF IInv, BusyExact
    <2>3. CASE Owner
      <3>1. ~Start /\ ~Stop /\ ~Join /\ \A S \in SUBSET Workers : ~StartFails(S)
        BY DEF Start, StartFails, Stop, Join
      <3>2. GetInfo
        BY <2>3, <3>1 DEF Owner
      <3> QED BY <2>2, <3>2 DEF GetInfo, history
    <2>4. ASSUME NEW p \in Producers, AddTask(p)
          PROVE  UNCHANGED <<counters, tasksQueue, task, taken>>
      BY <2>4, <2>1 DEF AddTask, Push, Refuse, Notify, history
    <2>5. ASSUME NEW w \in Workers PROVE ~WorkMethod(w)
      BY <2>1 DEF WorkMethod, Advance, InitDone, Exit, Take, Wait, Account,
                  SpuriousWakeup, Handled
    <2> QED BY <2>2, <2>3, <2>4, <2>5 DEF Next
  <1> QED BY <1>1, Invariance, PTL DEF Spec, JoinIsFinal

-----------------------------------------------------------------------------
(* The pool implements the bounded queue. *)

\* What the refinement needs beyond IInv: no task is accepted twice, and the
\* workers in handleTask hold different tasks, each popped from the queue.
Ownership ==
    /\ \A i, j \in 1 .. Len(accepted) : accepted[i] = accepted[j] => i = j
    /\ \A w \in Handling : task[w] \in Tasks
                           /\ \E i \in 1 .. Len(taken) : taken[i] = task[w]
    /\ \A v, w \in Handling : task[v] = task[w] => v = w

\* The tasks being handled, and the ones that have been popped.
Running == {task[w] : w \in Handling}
Begun == {t \in Tasks : \E i \in DOMAIN taken : taken[i] = t}

\* The part of the abstract state that workers move.
LEMMA MappedState ==
    /\ Queue!vars = <<started, tasksQueue, Running, Begun \ Running>>
    /\ Queue!vars' = <<started', tasksQueue', Running', Begun' \ Running'>>
  BY DEF Queue!vars, Running, Begun

\* A popped task is not in the queue any more.
LEMMA PoppedNotQueued ==
    ASSUME TypeOK, FIFO, Ownership
    PROVE  /\ \A i \in 1 .. Len(taken), j \in 1 .. Len(tasksQueue) :
                 taken[i] # tasksQueue[j]
           /\ \A i \in 1 .. Len(taken) : \E k \in 1 .. Len(accepted) : accepted[k] = taken[i]
           /\ \A j \in 1 .. Len(tasksQueue) :
                 \E k \in 1 .. Len(accepted) : accepted[k] = tasksQueue[j]
  <1>1. Len(taken) \in Nat /\ Len(tasksQueue) \in Nat
    BY LenProperties DEF TypeOK
  <1>2. /\ Len(accepted) = Len(taken) + Len(tasksQueue)
        /\ \A i \in 1 .. Len(taken) + Len(tasksQueue) :
              accepted[i] = IF i <= Len(taken) THEN taken[i] ELSE tasksQueue[i - Len(taken)]
    BY ConcatProperties DEF FIFO, TypeOK
  <1>3. \A i \in 1 .. Len(taken) : i \in 1 .. Len(accepted) /\ accepted[i] = taken[i]
    BY <1>1, <1>2
  <1>4. ASSUME NEW j \in 1 .. Len(tasksQueue)
        PROVE  /\ Len(taken) + j \in 1 .. Len(accepted)
               /\ accepted[Len(taken) + j] = tasksQueue[j]
    <2>1. /\ Len(taken) + j \in 1 .. Len(taken) + Len(tasksQueue)
          /\ ~(Len(taken) + j <= Len(taken)) /\ (Len(taken) + j) - Len(taken) = j
      BY <1>1
    <2> QED BY <1>2, <2>1
  <1>5. ASSUME NEW i \in 1 .. Len(taken), NEW j \in 1 .. Len(tasksQueue)
        PROVE  taken[i] # tasksQueue[j]
    <2>1. i # Len(taken) + j
      BY <1>1
    <2> QED BY <1>3, <1>4, <2>1 DEF Ownership
  <1> QED BY <1>3, <1>4, <1>5

\* Ownership holds in every state of the pool.
LEMMA NextOwnership == IInv /\ Ownership /\ [Next]_vars => Ownership'
  <1> SUFFICES ASSUME IInv, Ownership, [Next]_vars PROVE Ownership'
    OBVIOUS
  <1> USE DEF IInv
  <1>1. ASSUME UNCHANGED <<accepted, taken>>, Handling' \subseteq Handling,
               \A w \in Handling' : task'[w] = task[w]
        PROVE  Ownership'
    BY <1>1 DEF Ownership
  <1>2. CASE Owner
    <2>1. Handling' \subseteq Handling /\ task' = task
      BY <1>2 DEF Owner, Start, StartFails, Stop, Join, GetInfo, Handling, TypeOK
    <2>2. UNCHANGED <<accepted, taken>>
      BY <1>2 DEF Owner, Start, StartFails, Stop, Join, GetInfo, history
    <2> QED BY <1>1, <2>1, <2>2
  <1>3. ASSUME NEW p \in Producers, NEW t \in Tasks, Push(p, t) PROVE Ownership'
    <2>1. Handling' = Handling /\ task' = task /\ taken' = taken
      BY <1>3 DEF Push, Handling
    <2>2. /\ Len(accepted) \in Nat /\ Len(accepted') = Len(accepted) + 1
          /\ \A i \in 1 .. Len(accepted) : accepted'[i] = accepted[i]
          /\ accepted'[Len(accepted) + 1] = t
      BY <1>3, AppendProperties, LenProperties DEF Push, TypeOK
    <2>3. \A i \in 1 .. Len(accepted) : accepted[i] # t
      BY <1>3, LenProperties DEF Push, Fresh, TypeOK
    <2>4. \A i \in 1 .. Len(accepted') : i \in 1 .. Len(accepted) \/ i = Len(accepted) + 1
      BY <2>2
    <2>5. \A i, j \in 1 .. Len(accepted') : accepted'[i] = accepted'[j] => i = j
      BY <2>2, <2>3, <2>4 DEF Ownership
    <2> QED BY <2>1, <2>5 DEF Ownership
  <1>4. ASSUME NEW p \in Producers, (\E t \in Tasks : Refuse(p, t)) \/ Notify(p)
        PROVE  Ownership'
    <2>1. Handling' = Handling /\ task' = task /\ UNCHANGED <<accepted, taken>>
      BY <1>4 DEF Refuse, Notify, Handling, TypeOK, history
    <2> QED BY <1>1, <2>1
  <1>5. ASSUME NEW w \in Workers, Take(w) PROVE Ownership'
    <2> DEFINE h == Head(tasksQueue)
    <2>1. /\ task' = [task EXCEPT ![w] = h] /\ taken' = Append(taken, h)
          /\ pc' = [pc EXCEPT ![w] = "handle"] /\ pc[w] = "lock" /\ accepted' = accepted
          /\ tasksQueue # <<>>
      BY <1>5 DEF Take, Account
    <2>2. h \in Tasks /\ h = tasksQueue[1] /\ 1 \in 1 .. Len(tasksQueue)
      BY <2>1, HeadTailProperties, EmptySeq, LenProperties DEF TypeOK
    <2>3. \A i \in 1 .. Len(taken) : taken[i] # h
      BY <2>2, PoppedNotQueued
    <2> HIDE DEF h
    <2>4. /\ Handling' = Handling \cup {w} /\ w \notin Handling
          /\ \A v \in Workers : task'[v] = IF v = w THEN h ELSE task[v]
      BY <2>1 DEF Handling, TypeOK
    <2>5. /\ Len(taken) \in Nat /\ Len(taken') = Len(taken) + 1
          /\ \A i \in 1 .. Len(taken) : taken'[i] = taken[i]
          /\ taken'[Len(taken) + 1] = h
      BY <2>1, <2>2, AppendProperties, LenProperties DEF TypeOK
    <2>6. Handling \subseteq Workers
      BY DEF Handling
    <2>7. \A v \in Handling : task[v] # h
      BY <2>3 DEF Ownership
    <2>8. ASSUME NEW v \in Handling'
          PROVE  task'[v] \in Tasks /\ \E i \in 1 .. Len(taken') : taken'[i] = task'[v]
      <3>1. CASE v = w
        <4>1. Len(taken) + 1 \in 1 .. Len(taken')
          BY <2>5
        <4> QED BY <2>2, <2>4, <2>5, <3>1, <4>1
      <3>2. CASE v # w
        <4>1. v \in Handling /\ task'[v] = task[v]
          BY <2>4, <2>6, <3>2
        <4>2. PICK i \in 1 .. Len(taken) : taken[i] = task[v]
          BY <4>1 DEF Ownership
        <4>3. i \in 1 .. Len(taken')
          BY <2>5
        <4> QED BY <2>5, <4>1, <4>2, <4>3 DEF Ownership
      <3> QED BY <3>1, <3>2
    <2>9. \A v, u \in Handling' : task'[v] = task'[u] => v = u
      BY <2>4, <2>6, <2>7 DEF Ownership
    <2> QED BY <2>1, <2>8, <2>9 DEF Ownership
  <1>6. ASSUME NEW w \in Workers,
               InitDone(w) \/ Exit(w) \/ Wait(w) \/ SpuriousWakeup(w)
        PROVE  Ownership'
    <2>1. Handling' = Handling /\ task' = task /\ UNCHANGED <<accepted, taken>>
      BY <1>6 DEF InitDone, Exit, Wait, Account, SpuriousWakeup, Handling, TypeOK, history
    <2> QED BY <1>1, <2>1
  <1>7. ASSUME NEW w \in Workers, NEW o \in {"good", "bad"}, Handled(w, o)
        PROVE  Ownership'
    <2>1. /\ Handling' = Handling \ {w} /\ UNCHANGED <<accepted, taken>>
          /\ \A v \in Handling' : task'[v] = task[v]
      BY <1>7 DEF Handled, Handling, TypeOK, history
    <2> QED BY <1>1, <2>1
  <1>8. CASE UNCHANGED vars
    <2>1. Handling' = Handling /\ task' = task /\ UNCHANGED <<accepted, taken>>
      BY <1>8 DEF vars, Handling, history
    <2> QED BY <1>1, <2>1
  <1> QED BY <1>2, <1>3, <1>4, <1>5, <1>6, <1>7, <1>8 DEF Next, AddTask, WorkMethod, Advance

\* The pool runs fewer tasks than it has workers whenever one of them is not in
\* handleTask.
LEMMA RunningBound ==
    ASSUME NEW w \in Workers, w \notin Handling
    PROVE  Cardinality(Running) < Cardinality(Workers)
  <1> DEFINE Others == Workers \ {w}
             f == [v \in Handling |-> task[v]]
  <1>1. /\ IsFiniteSet(Others) /\ Cardinality(Others) = Cardinality(Workers) - 1
        /\ Cardinality(Workers) \in Nat
    BY WorkersAssumption, FS_RemoveElement, FS_CardinalityType
  <1>2. Handling \in SUBSET Others
    BY DEF Handling
  <1>3. IsFiniteSet(Handling) /\ Cardinality(Handling) <= Cardinality(Others)
    BY <1>1, <1>2, FS_Subset
  <1>4. f \in Surjection(Handling, Running)
    BY DEF Surjection, Running
  <1>5. IsFiniteSet(Running) /\ Cardinality(Running) <= Cardinality(Handling)
    BY <1>3, <1>4, FS_Surjection
  <1>6. Cardinality(Running) \in Nat /\ Cardinality(Handling) \in Nat
    BY <1>3, <1>5, FS_CardinalityType
  <1> HIDE DEF Others, f
  <1> QED BY <1>1, <1>3, <1>5, <1>6

\* Every step of the pool is a step of the bounded queue or leaves it alone.
LEMMA QueueStep == IInv /\ Ownership /\ [Next]_vars => [Queue!Next]_(Queue!vars)
  <1> SUFFICES ASSUME IInv, Ownership, [Next]_vars PROVE [Queue!Next]_(Queue!vars)
    OBVIOUS
  <1> USE DEF IInv
  <1> DEFINE ended == Begun \ Running
  <1>1. DOMAIN taken = 1 .. Len(taken) /\ DOMAIN tasksQueue = 1 .. Len(tasksQueue)
        /\ DOMAIN accepted = 1 .. Len(accepted)
    BY LenProperties DEF TypeOK
  <1>2. ASSUME taken' = taken, Handling' = Handling, \A w \in Handling : task'[w] = task[w]
        PROVE  Running' = Running /\ Begun' = Begun /\ ended' = ended
    BY <1>2 DEF Running, Begun
  <1>3. ASSUME UNCHANGED <<started, tasksQueue, taken>>, Handling' = Handling,
               \A w \in Handling : task'[w] = task[w]
        PROVE  UNCHANGED Queue!vars
    BY <1>2, <1>3, MappedState
  <1>4. CASE Start
    <2>1. started' = TRUE /\ UNCHANGED <<tasksQueue, task, taken>>
      BY <1>4 DEF Start, history
    <2>2. Handling' = Handling
      BY <1>4 DEF Start, Control, Handling
    <2>3. Queue!Open
      BY <1>2, <2>1, <2>2 DEF Queue!Open, Running, Begun
    <2> QED BY <2>3 DEF Queue!Next
  <1>5. CASE Stop
    <2>1. started' = FALSE /\ UNCHANGED <<tasksQueue, task, taken>>
      BY <1>5 DEF Stop, history
    <2>2. Handling' = Handling
      BY <1>5 DEF Stop, Handling, TypeOK
    <2>3. Queue!Close
      BY <1>2, <2>1, <2>2 DEF Queue!Close, Running, Begun
    <2> QED BY <2>3 DEF Queue!Next
  <1>6. CASE (\E S \in SUBSET Workers : StartFails(S)) \/ Join \/ GetInfo
    <2>1. UNCHANGED <<started, tasksQueue, task, taken>>
      BY <1>6 DEF StartFails, Join, GetInfo, history
    <2>2. Handling' = Handling
      BY <1>6 DEF StartFails, Join, GetInfo, Control, Handling
    <2> QED BY <1>3, <2>1, <2>2
  <1>7. ASSUME NEW p \in Producers, NEW t \in Tasks, Push(p, t)
        PROVE  Queue!Submit(t)
    <2>1. /\ started /\ Len(tasksQueue) < QueueLength /\ tasksQueue' = Append(tasksQueue, t)
          /\ UNCHANGED <<started, taken, task>> /\ Handling' = Handling
      BY <1>7 DEF Push, Handling
    <2>2. \A k \in 1 .. Len(accepted) : accepted[k] # t
      BY <1>1, <1>7 DEF Push, Fresh
    <2>3. /\ \A i \in 1 .. Len(taken) : taken[i] # t
          /\ \A i \in DOMAIN tasksQueue : tasksQueue[i] # t
      BY <1>1, <2>2, PoppedNotQueued
    <2>4. t \notin Running \cup ended
      BY <1>1, <2>3 DEF Running, Begun, Ownership
    <2>5. Running' = Running /\ ended' = ended
      BY <1>2, <2>1
    <2> QED BY <2>1, <2>3, <2>4, <2>5 DEF Queue!Submit, Running, Begun
  <1>8. ASSUME NEW p \in Producers, (\E t \in Tasks : Refuse(p, t)) \/ Notify(p)
        PROVE  UNCHANGED Queue!vars
    <2>1. UNCHANGED <<started, tasksQueue, task, taken>>
      BY <1>8 DEF Refuse, Notify, history
    <2>2. Handling' = Handling
      BY <1>8 DEF Refuse, Notify, Handling, TypeOK
    <2> QED BY <1>3, <2>1, <2>2
  <1>9. ASSUME NEW w \in Workers, Take(w) PROVE Queue!Begin
    <2> DEFINE h == Head(tasksQueue)
    <2>1. /\ task' = [task EXCEPT ![w] = h] /\ taken' = Append(taken, h)
          /\ pc' = [pc EXCEPT ![w] = "handle"] /\ pc[w] = "lock"
          /\ started /\ started' = started
          /\ tasksQueue # <<>> /\ tasksQueue' = Tail(tasksQueue)
      BY <1>9 DEF Take, Account
    <2>2. h \in Tasks /\ h = tasksQueue[1] /\ 1 \in 1 .. Len(tasksQueue)
      BY <2>1, HeadTailProperties, EmptySeq, LenProperties DEF TypeOK
    <2>3. \A i \in 1 .. Len(taken) : taken[i] # h
      BY <2>2, PoppedNotQueued
    <2>4. Running' = Running \cup {h}
      <3> HIDE DEF h
      <3>1. Handling' = Handling \cup {w} /\ w \notin Handling
            /\ \A v \in Workers : task'[v] = IF v = w THEN h ELSE task[v]
        BY <2>1 DEF Handling, TypeOK
      <3>2. Handling \subseteq Workers
        BY DEF Handling
      <3>3. ASSUME NEW x PROVE x \in Running' <=> x \in Running \cup {h}
        BY <3>1, <3>2 DEF Running
      <3> QED BY <3>3
    <2>5. Begun' = Begun \cup {h}
      <3> HIDE DEF h
      <3>1. /\ Len(taken) \in Nat /\ Len(taken') = Len(taken) + 1
            /\ \A i \in 1 .. Len(taken) : taken'[i] = taken[i]
            /\ taken'[Len(taken) + 1] = h /\ DOMAIN taken' = 1 .. Len(taken')
        BY <2>1, <2>2, AppendProperties, LenProperties DEF TypeOK
      <3>2. \A i : i \in 1 .. Len(taken') <=> i \in 1 .. Len(taken) \/ i = Len(taken) + 1
        BY <3>1
      <3>3. ASSUME NEW x \in Tasks PROVE x \in Begun' <=> x \in Begun \cup {h}
        BY <1>1, <3>1, <3>2 DEF Begun
      <3> QED BY <2>2, <3>3 DEF Begun
    <2>6. h \notin Begun
      BY <1>1, <2>3 DEF Begun
    <2>7. ended' = ended
      <3> HIDE DEF h
      <3> QED BY <2>4, <2>5, <2>6
    <2>8. Cardinality(Running) < Cardinality(Workers)
      <3>1. w \notin Handling
        BY <2>1 DEF Handling
      <3> QED BY <3>1, RunningBound
    <2>9. Queue!Cardinality(Running) = Cardinality(Running)
      BY DEF Queue!Cardinality, Cardinality
    <2> QED BY <2>1, <2>4, <2>7, <2>8, <2>9 DEF Queue!Begin, Running, Begun
  <1>10. ASSUME NEW w \in Workers, InitDone(w) \/ Exit(w) \/ Wait(w) \/ SpuriousWakeup(w)
         PROVE  UNCHANGED Queue!vars
    <2>1. UNCHANGED <<started, tasksQueue, task, taken>>
      BY <1>10 DEF InitDone, Exit, Wait, SpuriousWakeup, history
    <2>2. Handling' = Handling
      BY <1>10 DEF InitDone, Exit, Wait, Account, SpuriousWakeup, Handling, TypeOK
    <2> QED BY <1>3, <2>1, <2>2
  <1>11. ASSUME NEW w \in Workers, NEW o \in {"good", "bad"}, Handled(w, o)
         PROVE  \E t \in Tasks : Queue!End(t)
    <2>1. w \in Handling /\ Handling \subseteq Workers
      BY <1>11 DEF Handled, Handling
    <2>2. PICK t \in Tasks : t = task[w]
      BY <2>1 DEF Ownership
    <2>3. /\ Handling' = Handling \ {w} /\ UNCHANGED <<started, tasksQueue, taken>>
          /\ \A v \in Handling' : task'[v] = task[v]
      BY <1>11 DEF Handled, Handling, TypeOK, history
    <2>4. t \in Running /\ Running' = Running \ {t}
      <3>1. t \in Running
        BY <2>1, <2>2 DEF Running
      <3>2. \A v \in Handling : v # w => task[v] # t
        BY <2>1, <2>2 DEF Ownership
      <3>3. ASSUME NEW x PROVE x \in Running' <=> x \in Running \ {t}
        BY <2>2, <2>3, <3>2 DEF Running
      <3> QED BY <3>1, <3>3
    <2>5. Begun' = Begun /\ t \in Begun
      BY <1>1, <2>1, <2>2, <2>3 DEF Begun, Ownership
    <2>6. ended' = ended \cup {t}
      BY <2>4, <2>5
    <2> QED BY <2>3, <2>4, <2>6 DEF Queue!End, Running, Begun
  <1>12. CASE UNCHANGED vars
    <2>1. UNCHANGED <<started, tasksQueue, task, taken, Handling>>
      BY <1>12 DEF vars, history, Handling
    <2> QED BY <1>3, <2>1
  <1> QED BY <1>4, <1>5, <1>6, <1>7, <1>8, <1>9, <1>10, <1>11, <1>12
          DEF Next, Owner, AddTask, WorkMethod, Advance, Queue!Next

\* ThreadPool implements BoundedTaskQueue: whatever the number of workers and the
\* interleaving of addTask, stop() and the handlers, its users see a queue that
\* accepts only while open and below its capacity, starts tasks in order and
\* once, runs no more of them than it has workers, and starts none once stopped.
THEOREM ImplementsQueue == Spec => RefinesQueue
  <1>1. Init => Ownership
    BY EmptySeq DEF Init, Ownership, Handling
  <1>2. Spec => []Ownership
    BY <1>1, Invariance, NextOwnership, PTL DEF Spec
  <1>3. Init => Queue!Init
    <2> SUFFICES ASSUME Init PROVE Queue!Init
      OBVIOUS
    <2>1. Handling = {} /\ DOMAIN taken = {}
      BY DEF Init, Handling
    <2>2. Running = {} /\ Begun = {}
      BY <2>1 DEF Running, Begun
    <2> QED BY <2>2 DEF Init, Queue!Init, Running, Begun
  <1> QED BY <1>2, <1>3, Invariance, QueueStep, PTL DEF Spec, RefinesQueue, Queue!Spec
=============================================================================
