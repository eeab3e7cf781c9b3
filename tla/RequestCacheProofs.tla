-------------------------- MODULE RequestCacheProofs --------------------------
(***************************************************************************)
(* The invariants of RequestCache, for every number of requests, threads   *)
(* and retries and every length of the queue: the files, the keys and the  *)
(* counters of the request cache stay consistent.                          *)
(***************************************************************************)
EXTENDS RequestCache, SequenceTheorems, TLAPS

\* Where a thread has no Request object, and where it is the only one to have it.
Resting == {"idle", "poll", "park", "wait", "done", "load"}
Alone == {"submit", "save", "link", "erase", "insert", "free"}
Labels == Resting \union Alone \union {"run", "release"}

Savings == [key : Keys \union {None}, retries : 0 .. MaxRetries + 1, new : Keys \union {None}]

\* The objects in the queue of the pool.
Queued == {queue[i] : i \in DOMAIN queue}

\* The tasks still to be done: those in waiting_, and the one just taken from it.
Due == waiting \union (IF popped = None THEN {} ELSE {popped})

\* A thread in save() has a link that is not in waiting_ yet.
Linked(t) == pc[t] \in {"erase", "insert"} /\ saving[t].new # None

\* Thread k[1] was given the key k by KeyId::get, now or earlier.
Given(k) ==
  \/ k[2] < keyid[k[1]].last
  \/ k[2] = keyid[k[1]].last /\ k[3] <= keyid[k[1]].id

-----------------------------------------------------------------------------
(* The parts of the inductive invariant. *)

Types ==
  /\ now \in 0 .. MaxTime
  /\ keyid \in [Threads -> [id : Nat, last : Int]]
  /\ DOMAIN disk \subseteq Keys /\ \A k \in DOMAIN disk : disk[k] \in Requests
  /\ DOMAIN active \subseteq Keys /\ lost \subseteq Keys
  /\ waiting \subseteq Tasks /\ popped \in Tasks \union {None}
  /\ queue \in Seq(Objects)
  /\ pc \in [Threads -> Labels]
  /\ obj \in [Threads -> Objects \union {None}]
  /\ saving \in [Threads -> Savings \union {None}]
  /\ body \in [Objects -> Keys \union {None}]
  /\ delay \in [Objects -> Delays \union {0}]
  /\ attempts \in [Requests -> 0 .. MaxRetries + 1]

\* A thread has an object, and the cache thread a task, where it works on one.
Control ==
  /\ \A t \in Threads : obj[t] = None <=> pc[t] \in Resting
  /\ \A w \in Workers : pc[w] # "submit"
  /\ popped = None <=> pc[CacheThread] # "load"

\* Every key in use was given to a thread, and the keys a thread is given grow.
KeysGiven ==
  /\ \A t \in Threads : keyid[t].last <= now
  /\ \A k \in DOMAIN disk \union DOMAIN active \union lost : Given(k)
  /\ \A t \in Threads : pc[t] \in {"link", "erase"} /\ saving[t].key # None => Given(saving[t].key)

\* Who may have one object at a time: its producer with the queue or with one
\* worker, and ~Request and save() are run by the last one.
Holders ==
  /\ \A t \in Threads : pc[t] \in Alone =>
       obj[t] \notin Queued /\ \A u \in Threads : obj[u] = obj[t] => u = t
  /\ \A w, x \in Workers : obj[w] = obj[x] /\ obj[w] # None => w = x
  /\ \A w \in Workers : obj[w] \notin Queued
  /\ \A i, j \in DOMAIN queue : queue[i] = queue[j] => i = j

\* An object is the last attempt of its request, unless all that is left to do is
\* to free it.
Current ==
  /\ \A t \in Threads : obj[t] # None =>
       /\ obj[t][2] < attempts[obj[t][1]]
       /\ pc[t] # "free" => obj[t][2] + 1 = attempts[obj[t][1]]
  /\ \A o \in Queued : o[2] + 1 = attempts[o[1]]

\* A body in a file is that of one object that is alive, and holds its request;
\* only a first attempt has its body in memory.
BodiesSound ==
  /\ \A o \in Objects : body[o] # None =>
       /\ o \in Queued \/ \E t \in Threads : obj[t] = o
       /\ body[o] \in DOMAIN disk /\ disk[body[o]] = o[1] /\ body[o] \notin lost
  /\ \A o, p \in Objects : body[o] = body[p] /\ body[o] # None => o = p
  /\ \A t \in Threads : obj[t] # None /\ body[obj[t]] = None => obj[t][2] = 0
  /\ \A o \in Queued : body[o] = None => o[2] = 0

\* A task has the file and the count of a request of which no attempt goes on.
TasksSound ==
  /\ popped \notin waiting
  /\ \A w \in Due :
       /\ w.key \in DOMAIN disk /\ w.key \notin lost
       /\ w.retries = attempts[disk[w.key]]
       /\ \A t \in Threads : obj[t] # None /\ obj[t][1] = disk[w.key] => pc[t] = "free"
       /\ \A o \in Queued : o[1] # disk[w.key]
       /\ \A o \in Objects : body[o] # w.key
  /\ \A w, v \in Due : disk[w.key] = disk[v.key] => w = v

\* The locals of save().
SaveSound(t) ==
  /\ pc[t] \in {"link", "erase", "insert"} =>
       saving[t] \in Savings /\ saving[t].retries = obj[t][2]
  /\ pc[t] \in {"link", "erase"} =>
       /\ body[obj[t]] = None => saving[t].key \notin DOMAIN disk
       /\ body[obj[t]] # None => saving[t].key = body[obj[t]]
  /\ pc[t] = "link" => saving[t].new = None /\ obj[t][2] < MaxRetries
  /\ pc[t] = "insert" => saving[t].new # None
  /\ Linked(t) =>
       /\ saving[t].new \in DOMAIN disk /\ disk[saving[t].new] = obj[t][1]
       /\ saving[t].new \notin lost /\ obj[t][2] < MaxRetries
       /\ \A o \in Objects : body[o] # saving[t].new
SavesSound == \A t \in Threads : SaveSound(t)

\* active_ has the files of the requests alive, up to eraseActive, with the number
\* of their attempt.
ActiveSound ==
  /\ \A k \in DOMAIN active : k \in lost \/ \E o \in Objects : body[o] = k
  /\ \A o \in Objects : body[o] \in DOMAIN active => active[body[o]] = o[2]
  /\ \A t \in Threads : obj[t] # None /\ body[obj[t]] # None =>
       (body[obj[t]] \in DOMAIN active <=> pc[t] \notin {"insert", "free"})
  /\ \A o \in Queued : body[o] # None => body[o] \in DOMAIN active

\* Every file on disk is of use, but for those that a failure left behind.
DiskSound ==
  \A k \in DOMAIN disk :
    \/ k \in lost
    \/ \E o \in Objects : body[o] = k
    \/ \E w \in Due : w.key = k
    \/ \E t \in Threads : Linked(t) /\ saving[t].new = k

IInv == /\ Types /\ Control /\ KeysGiven /\ Holders /\ Current
        /\ BodiesSound /\ TasksSound /\ SavesSound /\ ActiveSound /\ DiskSound

-----------------------------------------------------------------------------
(* Facts about the queue and the keys. *)

\* The queue holds objects.
LEMMA QueuedObjects == Types => Queued \subseteq Objects
  BY ElementOfSeq, LenProperties DEF Types, Queued

\* Adding a new object at the end of the queue.
LEMMA QueueGrows ==
    ASSUME queue \in Seq(Objects), NEW o \in Objects, o \notin Queued, queue' = Append(queue, o),
           \A i, j \in DOMAIN queue : queue[i] = queue[j] => i = j
    PROVE  /\ queue' \in Seq(Objects) /\ Queued' = Queued \union {o}
           /\ \A i, j \in DOMAIN queue' : queue'[i] = queue'[j] => i = j
  <1>1. /\ queue' \in Seq(Objects) /\ Len(queue') = Len(queue) + 1
        /\ \A i \in 1 .. Len(queue) : queue'[i] = queue[i]
        /\ queue'[Len(queue) + 1] = o
    BY AppendProperties
  <1>2. Len(queue) \in Nat /\ DOMAIN queue = 1 .. Len(queue) /\ DOMAIN queue' = 1 .. Len(queue) + 1
    BY <1>1, LenProperties
  <1>3. DOMAIN queue' = DOMAIN queue \union {Len(queue) + 1} /\ Len(queue) + 1 \notin DOMAIN queue
    BY <1>2
  <1>4. \A i \in DOMAIN queue : queue'[i] = queue[i] /\ queue[i] # o
    BY <1>1, <1>2 DEF Queued
  <1>5. Queued' = Queued \union {o}
    BY <1>1, <1>3, <1>4 DEF Queued
  <1>6. \A i, j \in DOMAIN queue' : queue'[i] = queue'[j] => i = j
    BY <1>1, <1>3, <1>4
  <1> QED BY <1>1, <1>5, <1>6

\* Taking the object at the head of the queue.
LEMMA QueueShrinks ==
    ASSUME queue \in Seq(Objects), queue # <<>>, queue' = Tail(queue),
           \A i, j \in DOMAIN queue : queue[i] = queue[j] => i = j
    PROVE  /\ queue' \in Seq(Objects) /\ Head(queue) \in Queued
           /\ Queued' = Queued \ {Head(queue)}
           /\ \A i, j \in DOMAIN queue' : queue'[i] = queue'[j] => i = j
  <1>1. /\ queue' \in Seq(Objects) /\ Len(queue') = Len(queue) - 1
        /\ \A i \in 1 .. Len(queue') : queue'[i] = queue[i + 1]
        /\ Head(queue) = queue[1]
    BY HeadTailProperties
  <1>2. Len(queue) \in Nat \ {0} /\ DOMAIN queue = 1 .. Len(queue) /\ DOMAIN queue' = 1 .. Len(queue) - 1
    BY <1>1, LenProperties, EmptySeq
  <1>3. /\ 1 \in DOMAIN queue
        /\ \A i \in DOMAIN queue' : i \in Int /\ i + 1 \in DOMAIN queue /\ i + 1 # 1
        /\ \A i \in DOMAIN queue : i # 1 => i - 1 \in DOMAIN queue' /\ (i - 1) + 1 = i
    BY <1>2
  <1>4. Queued' \subseteq Queued \ {Head(queue)}
    BY <1>1, <1>2, <1>3 DEF Queued
  <1>5. Queued \ {Head(queue)} \subseteq Queued'
    <2> SUFFICES ASSUME NEW i \in DOMAIN queue, queue[i] # queue[1] PROVE queue[i] \in Queued'
      BY <1>1 DEF Queued
    <2>1. i - 1 \in DOMAIN queue' /\ queue'[i - 1] = queue[i]
      <3>1. i - 1 \in DOMAIN queue' /\ (i - 1) + 1 = i
        BY <1>3
      <3> QED BY <3>1, <1>1, <1>2
    <2> QED BY <2>1 DEF Queued
  <1>6. ASSUME NEW i \in DOMAIN queue', NEW j \in DOMAIN queue', queue'[i] = queue'[j]
        PROVE  i = j
    <2>1. i + 1 = j + 1
      BY <1>1, <1>2, <1>3, <1>6
    <2> QED BY <2>1, <1>3
  <1>7. Head(queue) \in Queued
    BY <1>1, <1>3 DEF Queued
  <1> QED BY <1>1, <1>4, <1>5, <1>6, <1>7

\* The key that KeyId::get gives is new, and those given before stay given.
LEMMA NewKey ==
    ASSUME Types, KeysGiven, NEW t \in Threads, NEW k, k = UniqueKey(t),
           keyid' = [keyid EXCEPT ![t] = NextKeyId(t)], UNCHANGED now
    PROVE  /\ k \in Keys /\ k # None /\ ~Given(k) /\ Given(k)'
           /\ \A x \in Keys : Given(x) => Given(x)'
           /\ keyid' \in [Threads -> [id : Nat, last : Int]]
           /\ \A u \in Threads : keyid'[u].last <= now'
  <1> DEFINE n == NextKeyId(t)
  <1>1. now \in 0 .. MaxTime /\ now \in Int
    BY MaxTimeAssumption DEF Types
  <1>2. /\ keyid[t].id \in Nat /\ keyid[t].last \in Int /\ keyid[t].last <= now
        /\ keyid[t] = Unset => keyid[t].last = -1
    BY DEF Types, KeysGiven, Unset
  <1>3. n \in [id : Nat, last : Int] /\ n.last = now
        /\ (keyid[t].last = now => n.id > keyid[t].id)
    BY <1>1, <1>2 DEF NextKeyId
  <1>4. k = <<t, n.last, n.id>>
    BY DEF UniqueKey, Key
  <1>5. keyid'[t] = n /\ \A u \in Threads \ {t} : keyid'[u] = keyid[u]
    BY DEF Types
  <1> HIDE DEF n
  <1>6. k \in Keys /\ k[1] = t /\ k[2] = n.last /\ k[3] = n.id
    BY <1>1, <1>3, <1>4 DEF Keys
  <1>7. ~Given(k)
    BY <1>2, <1>3, <1>6 DEF Given
  <1>8. Given(k)'
    BY <1>3, <1>5, <1>6 DEF Given
  <1>9. ASSUME NEW x \in Keys, Given(x) PROVE Given(x)'
    <2>1. x[1] \in Threads /\ x[2] \in Int /\ x[3] \in Int
      BY DEF Keys
    <2>2. CASE x[1] = t
      <3>1. x[2] < n.last \/ (x[2] = n.last /\ x[3] <= n.id)
        BY <1>2, <1>3, <1>9, <2>1, <2>2, <1>1 DEF Given
      <3> QED BY <3>1, <1>5, <2>2 DEF Given
    <2>3. CASE x[1] # t
      BY <1>5, <1>9, <2>1, <2>3 DEF Given
    <2> QED BY <2>2, <2>3
  <1>10. /\ keyid' \in [Threads -> [id : Nat, last : Int]]
         /\ \A u \in Threads : keyid'[u].last <= now'
    <2>1. keyid' \in [Threads -> [id : Nat, last : Int]]
      BY <1>3 DEF Types, n
    <2>2. \A u \in Threads : keyid'[u].last <= now'
      BY <1>1, <1>3, <1>5 DEF KeysGiven
    <2> QED BY <2>1, <2>2
  <1> QED BY <1>6, <1>7, <1>8, <1>9, <1>10, NoneAssumption

-----------------------------------------------------------------------------
(* The invariant holds initially, and what steps keep it that change little. *)

\* A cache that was just constructed, with nothing on disk, satisfies the invariant.
LEMMA InitIInv == Init => IInv
  <1> SUFFICES ASSUME Init PROVE IInv
    OBVIOUS
  <1>1. /\ <<>> \in Seq(Objects) /\ DOMAIN <<>> = {}
    <2>1. <<>> \in Seq(Objects) /\ Len(<<>>) = 0
      BY EmptySeq
    <2> QED BY <2>1, LenProperties
  <1>2. Queued = {} /\ Due = {} /\ DOMAIN disk = {} /\ DOMAIN active = {}
    BY <1>1 DEF Init, Queued, Due
  <1>3. Types
    <2>1. Unset \in [id : Nat, last : Int]
      BY DEF Unset
    <2>2. now \in 0 .. MaxTime /\ attempts \in [Requests -> 0 .. MaxRetries + 1]
      BY MaxTimeAssumption, MaxRetriesAssumption DEF Init
    <2>3. pc \in [Threads -> Labels]
      BY DEF Init, Labels, Resting
    <2>4. /\ obj \in [Threads -> Objects \union {None}]
          /\ saving \in [Threads -> Savings \union {None}]
          /\ body \in [Objects -> Keys \union {None}] /\ delay \in [Objects -> Delays \union {0}]
          /\ keyid \in [Threads -> [id : Nat, last : Int]]
      BY <2>1 DEF Init
    <2>5. waiting = {} /\ lost = {} /\ popped = None /\ queue \in Seq(Objects)
      BY <1>1 DEF Init
    <2> QED BY <1>2, <2>2, <2>3, <2>4, <2>5 DEF Types
  <1>4. Control
    BY DEF Init, Control, Resting, Threads
  <1>5. KeysGiven
    BY <1>2 DEF Init, KeysGiven, Unset
  <1>6. Holders
    BY <1>1, <1>2 DEF Init, Holders, Alone, Threads
  <1>7. Current /\ BodiesSound /\ TasksSound
    BY <1>2 DEF Init, Current, BodiesSound, TasksSound
  <1>8. SavesSound
    BY DEF Init, SavesSound, SaveSound, Linked
  <1>9. ActiveSound /\ DiskSound
    BY <1>2 DEF Init, ActiveSound, DiskSound
  <1> QED BY <1>3, <1>4, <1>5, <1>6, <1>7, <1>8, <1>9 DEF IInv

cacheState == <<keyid, disk, active, waiting, queue, obj, saving, popped, body, attempts, lost>>

\* The cache thread polls and waits, time passes, the daemon stops.
LEMMA PauseIInv ==
    ASSUME IInv, UNCHANGED <<cacheState, delay>>, now' \in 0 .. MaxTime, now <= now',
           pc' \in [Threads -> Labels],
           \A t \in Threads : \/ pc'[t] = pc[t]
                              \/ pc[t] \in Resting \ {"load"} /\ pc'[t] \in Resting \ {"load"}
    PROVE  IInv'
  <1> USE DEF IInv
  <1>1. UNCHANGED <<keyid, disk, active, waiting, queue, obj, saving, popped, body, attempts, lost>>
    BY DEF cacheState
  <1>2. UNCHANGED <<Queued, Due>> /\ \A k : Given(k)' <=> Given(k)
    BY <1>1 DEF Queued, Due, Given
  <1>3. /\ \A t \in Threads : pc'[t] \in Resting <=> pc[t] \in Resting
        /\ \A t \in Threads : pc'[t] = "load" <=> pc[t] = "load"
        /\ \A t \in Threads, l \in Alone \union {"run", "release"} : pc'[t] = l <=> pc[t] = l
    BY DEF Resting, Alone
  <1>4. \A t \in Threads : Linked(t)' <=> Linked(t)
    BY <1>1, <1>3 DEF Linked, Alone
  <1>5. Types'
    BY <1>1 DEF Types
  <1>6. Control'
    BY <1>1, <1>3 DEF Control, Threads, Alone
  <1>7. KeysGiven'
    <2>1. \A t \in Threads : keyid[t].last <= now'
      BY MaxTimeAssumption DEF KeysGiven, Types
    <2> QED BY <1>1, <1>2, <1>3, <2>1 DEF KeysGiven, Alone
  <1>8. Holders'
    BY <1>1, <1>2, <1>3 DEF Holders
  <1>9. Current'
    BY <1>1, <1>2, <1>3 DEF Current, Alone
  <1>10. BodiesSound'
    BY <1>1, <1>2 DEF BodiesSound
  <1>11. TasksSound'
    BY <1>1, <1>2, <1>3 DEF TasksSound, Alone
  <1>12. SavesSound'
    BY <1>1, <1>3, <1>4 DEF SavesSound, SaveSound, Alone
  <1>13. ActiveSound'
    BY <1>1, <1>2, <1>3 DEF ActiveSound, Alone
  <1>14. DiskSound'
    BY <1>1, <1>2, <1>4 DEF DiskSound
  <1> QED BY <1>5, <1>6, <1>7, <1>8, <1>9, <1>10, <1>11, <1>12, <1>13, <1>14

\* A thread goes on with its object: the handlers have run, the pool has refused
\* it, or the thread is the last to have it.
LEMMA MoveIInv ==
    ASSUME IInv, NEW t \in Threads, NEW label \in {"release", "save"},
           pc[t] \in {"submit", "run", "release"}, pc' = [pc EXCEPT ![t] = label],
           label = "save" => obj[t] \notin Queued /\ \A u \in Threads : obj[u] = obj[t] => u = t,
           UNCHANGED <<cacheState, now>>, delay' \in [Objects -> Delays \union {0}]
    PROVE  IInv'
  <1> USE DEF IInv
  <1>1. UNCHANGED <<keyid, disk, active, waiting, queue, obj, saving, popped, body, attempts, lost>>
    BY DEF cacheState
  <1>2. UNCHANGED <<Queued, Due>> /\ \A k : Given(k)' <=> Given(k)
    BY <1>1 DEF Queued, Due, Given
  <1>3. pc'[t] = label /\ \A u \in Threads \ {t} : pc'[u] = pc[u]
    BY DEF Types
  <1>4. \A u \in Threads : Linked(u)' <=> Linked(u)
    BY <1>1, <1>3 DEF Linked
  <1>5. Types'
    <2>1. pc' \in [Threads -> Labels]
      BY DEF Types, Labels, Alone
    <2> QED BY <1>1, <2>1 DEF Types
  <1>6. Control'
    BY <1>1, <1>3 DEF Control, Resting, Threads
  <1>7. KeysGiven'
    BY <1>1, <1>2, <1>3 DEF KeysGiven
  <1>8. Holders'
    BY <1>1, <1>2, <1>3 DEF Holders, Alone
  <1>9. Current'
    BY <1>1, <1>2, <1>3 DEF Current
  <1>10. BodiesSound'
    BY <1>1, <1>2 DEF BodiesSound
  <1>11. TasksSound'
    BY <1>1, <1>2, <1>3 DEF TasksSound
  <1>12. SavesSound'
    BY <1>1, <1>3, <1>4 DEF SavesSound, SaveSound
  <1>13. ActiveSound'
    BY <1>1, <1>2, <1>3 DEF ActiveSound
  <1>14. DiskSound'
    BY <1>1, <1>2, <1>4 DEF DiskSound
  <1> QED BY <1>5, <1>6, <1>7, <1>8, <1>9, <1>10, <1>11, <1>12, <1>13, <1>14

\* A thread drops an object that the queue or another thread still has.
LEMMA DropIInv ==
    ASSUME IInv, NEW t \in Threads, pc[t] = "release", Shared(t),
           pc' = [pc EXCEPT ![t] = Idle(t)], obj' = [obj EXCEPT ![t] = None],
           UNCHANGED <<now, keyid, disk, active, waiting, queue, saving, popped, body, delay,
                       attempts, lost>>
    PROVE  IInv'
  <1> USE DEF IInv
  <1>2. UNCHANGED <<Queued, Due>> /\ \A k : Given(k)' <=> Given(k)
    BY DEF Queued, Due, Given
  <1>3. /\ pc'[t] = Idle(t) /\ \A u \in Threads \ {t} : pc'[u] = pc[u]
        /\ obj'[t] = None /\ \A u \in Threads \ {t} : obj'[u] = obj[u]
        /\ Idle(t) \in {"idle", "poll"}
    BY DEF Types, Idle
  <1>o. obj[t] # None
    BY DEF Control, Resting
  <1>4. \A u \in Threads : Linked(u)' <=> Linked(u)
    BY <1>3 DEF Linked
  <1>5. Types'
    <2>1. pc' \in [Threads -> Labels] /\ obj' \in [Threads -> Objects \union {None}]
      BY <1>3 DEF Types, Labels, Resting
    <2> QED BY <2>1 DEF Types
  <1>6. Control'
    BY <1>3 DEF Control, Resting, Threads
  <1>7. KeysGiven'
    BY <1>2, <1>3 DEF KeysGiven
  <1>8. Holders'
    <2>1. None \notin Queued
      BY NoneAssumption, QueuedObjects
    <2>2. \A u \in Threads : pc'[u] \in Alone =>
            obj'[u] \notin Queued' /\ \A x \in Threads : obj'[x] = obj'[u] => x = u
      BY <1>2, <1>3 DEF Holders, Alone, Control, Resting
    <2>3. \A w, x \in Workers : obj'[w] = obj'[x] /\ obj'[w] # None => w = x
      BY <1>3 DEF Holders, Threads
    <2>4. \A w \in Workers : obj'[w] \notin Queued'
      BY <1>2, <1>3, <2>1 DEF Holders, Threads
    <2> QED BY <2>2, <2>3, <2>4 DEF Holders
  <1>9. Current'
    BY <1>2, <1>3 DEF Current
  <1>10. BodiesSound'
    <2>1. ASSUME NEW o \in Objects, body[o] # None
          PROVE  o \in Queued \/ \E u \in Threads : obj'[u] = o
      <3>1. CASE o \in Queued \/ \E u \in Threads \ {t} : obj[u] = o
        BY <1>3, <3>1
      <3>2. CASE obj[t] = o
        BY <1>3, <3>2 DEF Shared, Queued
      <3> QED BY <2>1, <3>1, <3>2 DEF BodiesSound
    <2> QED BY <1>2, <1>3, <2>1 DEF BodiesSound
  <1>11. TasksSound'
    BY <1>2, <1>3 DEF TasksSound
  <1>12. SavesSound'
    <2> SUFFICES ASSUME NEW u \in Threads PROVE SaveSound(u)'
      BY DEF SavesSound
    <2>1. CASE u = t
      BY <1>3, <2>1 DEF SaveSound, Linked
    <2>2. CASE u # t
      BY <1>3, <1>4, <2>2 DEF SavesSound, SaveSound
    <2> QED BY <2>1, <2>2
  <1>13. ActiveSound'
    BY <1>2, <1>3 DEF ActiveSound
  <1>14. DiskSound'
    BY <1>2, <1>4 DEF DiskSound
  <1> QED BY <1>5, <1>6, <1>7, <1>8, <1>9, <1>10, <1>11, <1>12, <1>13, <1>14

-----------------------------------------------------------------------------
(* The pool. *)

\* The task is accepted.
LEMMA SubmitIInv ==
    ASSUME IInv, NEW t \in Threads, Submit(t)
    PROVE  IInv'
  <1> USE DEF IInv
  <1>1. /\ pc[t] = "submit" /\ queue' = Append(queue, obj[t]) /\ pc' = [pc EXCEPT ![t] = "release"]
        /\ UNCHANGED <<now, keyid, disk, active, waiting, obj, saving, popped, body, delay,
                       attempts, lost>>
    BY DEF Submit, Goto, objVars, cacheVars
  <1>o. obj[t] # None /\ obj[t] \in Objects /\ obj[t] \notin Queued /\ t \notin Workers
        /\ \A u \in Threads : obj[u] = obj[t] => u = t
    BY <1>1 DEF Control, Resting, Types, Holders, Alone
  <1>2. /\ UNCHANGED Due /\ \A k : Given(k)' <=> Given(k)
        /\ Queued' = Queued \union {obj[t]} /\ queue' \in Seq(Objects)
        /\ \A i, j \in DOMAIN queue' : queue'[i] = queue'[j] => i = j
    <2>1. UNCHANGED Due /\ \A k : Given(k)' <=> Given(k)
      BY <1>1 DEF Due, Given
    <2>2. PICK o \in Objects : o = obj[t]
      BY <1>o
    <2> QED BY <1>1, <1>o, <2>1, <2>2, QueueGrows DEF Types, Holders
  <1>3. pc'[t] = "release" /\ \A u \in Threads \ {t} : pc'[u] = pc[u]
    BY <1>1 DEF Types
  <1>4. \A u \in Threads : Linked(u)' <=> Linked(u)
    BY <1>1, <1>3 DEF Linked
  <1>5. Types'
    <2>1. pc' \in [Threads -> Labels]
      BY <1>1 DEF Types, Labels
    <2> QED BY <1>1, <1>2, <2>1 DEF Types
  <1>6. Control'
    BY <1>1, <1>3 DEF Control, Resting, Threads
  <1>7. KeysGiven'
    BY <1>1, <1>2, <1>3 DEF KeysGiven
  <1>8. Holders'
    BY <1>1, <1>2, <1>3, <1>o DEF Holders, Alone, Threads
  <1>9. Current'
    BY <1>1, <1>2, <1>3, <1>o DEF Current
  <1>10. BodiesSound'
    BY <1>1, <1>2, <1>o DEF BodiesSound
  <1>11. TasksSound'
    BY <1>1, <1>2, <1>3, <1>o DEF TasksSound
  <1>12. SavesSound'
    BY <1>1, <1>3, <1>4 DEF SavesSound, SaveSound
  <1>13. ActiveSound'
    BY <1>1, <1>2, <1>3, <1>o DEF ActiveSound
  <1>14. DiskSound'
    BY <1>1, <1>2, <1>4 DEF DiskSound
  <1> QED BY <1>5, <1>6, <1>7, <1>8, <1>9, <1>10, <1>11, <1>12, <1>13, <1>14

\* A worker takes the task at the head of the queue.
LEMMA TakeIInv ==
    ASSUME IInv, NEW w \in Workers, Take(w)
    PROVE  IInv'
  <1> USE DEF IInv
  <1> DEFINE o == Head(queue)
  <1>1. /\ pc[w] = "idle" /\ queue # <<>> /\ queue' = Tail(queue)
        /\ obj' = [obj EXCEPT ![w] = o] /\ pc' = [pc EXCEPT ![w] = "run"]
        /\ UNCHANGED <<now, keyid, disk, active, waiting, saving, popped, body, delay,
                       attempts, lost>>
    BY DEF Take, Goto, objVars, cacheVars
  <1>2. /\ queue' \in Seq(Objects) /\ o \in Queued /\ Queued' = Queued \ {o}
        /\ \A i, j \in DOMAIN queue' : queue'[i] = queue'[j] => i = j
    BY <1>1, QueueShrinks DEF Types, Holders
  <1> HIDE DEF o
  <1>o. Queued \subseteq Objects /\ o \in Objects /\ o # None /\ obj[w] = None /\ w \in Threads
    <2>1. Queued \subseteq Objects
      BY QueuedObjects
    <2>2. w \in Threads
      BY DEF Threads
    <2> QED BY <1>1, <1>2, <2>1, <2>2, NoneAssumption DEF Control, Resting
  <1>3. /\ pc'[w] = "run" /\ \A u \in Threads \ {w} : pc'[u] = pc[u]
        /\ obj'[w] = o /\ \A u \in Threads \ {w} : obj'[u] = obj[u]
    BY <1>1, <1>o DEF Types
  <1>4. /\ \A u \in Threads : Linked(u)' <=> Linked(u)
        /\ UNCHANGED Due /\ \A k : Given(k)' <=> Given(k)
    BY <1>1, <1>3 DEF Linked, Due, Given
  <1>5. Types'
    <2>1. pc' \in [Threads -> Labels] /\ obj' \in [Threads -> Objects \union {None}]
      BY <1>1, <1>o DEF Types, Labels
    <2> QED BY <1>1, <1>2, <2>1 DEF Types
  <1>6. Control'
    BY <1>1, <1>3, <1>o, ThreadsAssumption DEF Control, Resting, Threads
  <1>7. KeysGiven'
    BY <1>1, <1>3, <1>4 DEF KeysGiven
  <1>8. Holders'
    <2>1. \A u \in Threads : pc'[u] \in Alone =>
            obj'[u] \notin Queued' /\ \A x \in Threads : obj'[x] = obj'[u] => x = u
      BY <1>2, <1>3 DEF Holders, Alone
    <2>2. \A x \in Workers : obj'[x] \notin Queued' /\ (obj'[x] = o => x = w)
      BY <1>2, <1>3 DEF Holders, Threads
    <2>3. \A x, y \in Workers : obj'[x] = obj'[y] /\ obj'[x] # None => x = y
      BY <1>3, <2>2 DEF Holders, Threads
    <2> QED BY <1>2, <2>1, <2>2, <2>3 DEF Holders
  <1>9. Current'
    <2>1. o[2] \in Nat
      BY <1>o DEF Objects
    <2>2. o[2] + 1 = attempts[o[1]] /\ o[2] < attempts[o[1]]
      BY <1>2, <2>1 DEF Current
    <2> QED BY <1>1, <1>2, <1>3, <2>2 DEF Current
  <1>10. BodiesSound'
    <2>1. \A p \in Objects : body[p] # None => p \in Queued' \/ \E u \in Threads : obj'[u] = p
      <3> SUFFICES ASSUME NEW p \in Objects, body[p] # None
                   PROVE  p \in Queued' \/ \E u \in Threads : obj'[u] = p
        OBVIOUS
      <3>1. CASE p \in Queued
        BY <1>2, <1>3, <1>o, <3>1
      <3>2. CASE \E u \in Threads : obj[u] = p
        BY <1>3, <1>o, <3>2, NoneAssumption
      <3> QED BY <3>1, <3>2 DEF BodiesSound
    <2> QED BY <1>1, <1>2, <1>3, <2>1 DEF BodiesSound
  <1>11. TasksSound'
    BY <1>1, <1>2, <1>3, <1>4 DEF TasksSound
  <1>12. SavesSound'
    <2> SUFFICES ASSUME NEW u \in Threads PROVE SaveSound(u)'
      BY DEF SavesSound
    <2>1. CASE u = w
      BY <1>3, <2>1 DEF SaveSound, Linked
    <2>2. CASE u # w
      BY <1>1, <1>3, <1>4, <2>2 DEF SavesSound, SaveSound
    <2> QED BY <2>1, <2>2
  <1>13. ActiveSound'
    BY <1>1, <1>2, <1>3 DEF ActiveSound
  <1>14. DiskSound'
    BY <1>1, <1>4 DEF DiskSound
  <1> QED BY <1>5, <1>6, <1>7, <1>8, <1>9, <1>10, <1>11, <1>12, <1>13, <1>14

-----------------------------------------------------------------------------
(* The listener. *)

\* What a new object of a request without a live attempt means for the parts of
\* the invariant that are not about files.
LEMMA NewObjectIInv ==
    ASSUME IInv, NEW t \in Threads, NEW r \in Requests, NEW label \in {"submit", "release"},
           obj[t] = None, t \notin Workers, attempts[r] <= MaxRetries,
           \A u \in Threads : obj[u] # None /\ obj[u][1] = r => pc[u] = "free",
           \A o \in Queued : o[1] # r,
           NewObject(t, r), pc' = [pc EXCEPT ![t] = label], UNCHANGED <<queue, delay>>
    PROVE  /\ <<r, attempts[r]>> \in Objects /\ Queued' = Queued
           /\ obj'[t] = <<r, attempts[r]>> /\ \A u \in Threads \ {t} : obj'[u] = obj[u]
           /\ pc'[t] = label /\ \A u \in Threads \ {t} : pc'[u] = pc[u]
           /\ attempts'[r] = attempts[r] + 1 /\ \A q \in Requests \ {r} : attempts'[q] = attempts[q]
           /\ <<r, attempts[r]>> \notin Queued /\ \A u \in Threads : obj[u] # <<r, attempts[r]>>
           /\ attempts' \in [Requests -> 0 .. MaxRetries + 1]
           /\ pc' \in [Threads -> Labels] /\ obj' \in [Threads -> Objects \union {None}]
           /\ Holders' /\ Current'
  <1> USE DEF IInv
  <1> DEFINE n == <<r, attempts[r]>>
  <1>1. n \in Objects /\ attempts[r] \in Nat /\ n # None
    BY MaxRetriesAssumption, NoneAssumption DEF Types, Objects
  <1>2. /\ obj'[t] = n /\ \A u \in Threads \ {t} : obj'[u] = obj[u]
        /\ pc'[t] = label /\ \A u \in Threads \ {t} : pc'[u] = pc[u]
        /\ attempts'[r] = attempts[r] + 1 /\ \A q \in Requests \ {r} : attempts'[q] = attempts[q]
        /\ Queued' = Queued
    BY DEF NewObject, Types, Queued
  <1>3. n \notin Queued /\ \A u \in Threads : obj[u] # n
    <2>1. n \notin Queued
      OBVIOUS
    <2>2. ASSUME NEW u \in Threads, obj[u] = n PROVE FALSE
      BY <1>1, <2>2 DEF Current
    <2> QED BY <2>1, <2>2
  <1>4. /\ attempts' \in [Requests -> 0 .. MaxRetries + 1]
        /\ pc' \in [Threads -> Labels] /\ obj' \in [Threads -> Objects \union {None}]
    <2>1. attempts[r] + 1 \in 0 .. MaxRetries + 1
      BY <1>1, MaxRetriesAssumption
    <2> QED BY <1>1, <2>1 DEF NewObject, Types, Labels, Alone
  <1>5. Queued \subseteq Objects
    BY QueuedObjects
  <1> HIDE DEF n
  <1>6. Holders'
    <2>1. \A u \in Threads : pc'[u] \in Alone =>
            obj'[u] \notin Queued' /\ \A x \in Threads : obj'[x] = obj'[u] => x = u
      BY <1>2, <1>3 DEF Holders
    <2>2. \A w \in Workers : w # t /\ w \in Threads
      BY DEF Threads
    <2>3. \A w, x \in Workers : obj'[w] = obj'[x] /\ obj'[w] # None => w = x
      BY <1>2, <2>2 DEF Holders
    <2>4. \A w \in Workers : obj'[w] \notin Queued'
      BY <1>2, <2>2 DEF Holders
    <2> QED BY <2>1, <2>3, <2>4 DEF Holders
  <1>7. Current'
    <2>1. n[1] = r /\ n[2] = attempts[r]
      BY DEF n
    <2>2. \A o \in Objects : o[1] \in Requests /\ o[2] \in Nat
      BY DEF Objects
    <2>3. \A o \in Queued : o[2] + 1 = attempts'[o[1]]
      BY <1>2, <1>5, <2>2 DEF Current
    <2>4. ASSUME NEW u \in Threads, obj'[u] # None
          PROVE  /\ obj'[u][2] < attempts'[obj'[u][1]]
                 /\ pc'[u] # "free" => obj'[u][2] + 1 = attempts'[obj'[u][1]]
      <3>1. CASE u = t
        BY <1>1, <1>2, <2>1, <3>1
      <3>2. CASE u # t
        <4>1. obj'[u] = obj[u] /\ pc'[u] = pc[u] /\ obj[u] \in Objects
          BY <1>2, <2>4, <3>2 DEF Types
        <4>2. obj[u][1] \in Requests /\ obj[u][2] \in Nat
          BY <4>1, <2>2
        <4>3. CASE obj[u][1] = r
          <5>1. pc[u] = "free" /\ obj[u][2] < attempts[r]
            BY <2>4, <4>1, <4>3 DEF Current
          <5> QED BY <1>1, <1>2, <4>1, <4>2, <4>3, <5>1
        <4>4. CASE obj[u][1] # r
          BY <1>2, <2>4, <4>1, <4>2, <4>4 DEF Current
        <4> QED BY <4>3, <4>4
      <3> QED BY <3>1, <3>2
    <2> QED BY <1>2, <2>3, <2>4 DEF Current
  <1> QED BY <1>1, <1>2, <1>3, <1>4, <1>6, <1>7 DEF n

\* A request that has not arrived has no object and no task.
LEMMA NotArrived ==
    ASSUME IInv, NEW r \in Requests, attempts[r] = 0
    PROVE  /\ \A u \in Threads : obj[u] # None => obj[u][1] # r
           /\ \A o \in Queued : o[1] # r
           /\ \A w \in Due : disk[w.key] # r
           /\ Queued \subseteq Objects /\ Due \subseteq Tasks
           /\ body[<<r, 0>>] = None /\ <<r, 0>> \in Objects
  <1> USE DEF IInv
  <1>1. Queued \subseteq Objects
    BY QueuedObjects
  <1>2. \A o \in Objects : o[2] \in Nat
    BY DEF Objects
  <1>3. ASSUME NEW u \in Threads, obj[u] # None PROVE obj[u][1] # r
    <2>1. obj[u] \in Objects
      BY <1>3 DEF Types
    <2>2. obj[u][2] \in Nat /\ obj[u][2] < attempts[obj[u][1]]
      BY <1>2, <1>3, <2>1 DEF Current
    <2> QED BY <2>2
  <1>4. \A o \in Queued : o[1] # r
    BY <1>1, <1>2 DEF Current
  <1>5. Due \subseteq Tasks
    BY DEF Due, Types
  <1>6. \A w \in Due : disk[w.key] # r
    BY <1>5, MaxRetriesAssumption DEF TasksSound, Tasks
  <1>7. <<r, 0>> \in Objects
    BY MaxRetriesAssumption DEF Objects
  <1>8. body[<<r, 0>>] = None
    BY <1>3, <1>4, <1>7, NoneAssumption DEF BodiesSound
  <1> QED BY <1>1, <1>3, <1>4, <1>5, <1>6, <1>7, <1>8

\* A request whose body is kept in memory.
LEMMA AttachInMemoryIInv ==
    ASSUME IInv, NEW l \in Listeners, NEW r \in Requests, AttachInMemory(l, r)
    PROVE  IInv'
  <1> USE DEF IInv
  <1> DEFINE n == <<r, attempts[r]>>
  <1>1. /\ pc[l] = "idle" /\ attempts[r] = 0 /\ NewObject(l, r) /\ pc' = [pc EXCEPT ![l] = "submit"]
        /\ UNCHANGED <<now, keyid, disk, active, waiting, queue, saving, popped, body, delay, lost>>
    BY DEF AttachInMemory, Accepts, Goto
  <1>2. l \in Threads /\ l \notin Workers /\ l # CacheThread /\ obj[l] = None
    BY <1>1, ThreadsAssumption DEF Threads, Control, Resting
  <1>3. /\ \A u \in Threads : obj[u] # None => obj[u][1] # r
        /\ \A o \in Queued : o[1] # r
        /\ \A w \in Due : disk[w.key] # r
        /\ body[n] = None /\ n[2] = 0 /\ n[1] = r
    BY <1>1, NotArrived
  <1>4. /\ n \in Objects /\ Queued' = Queued
        /\ obj'[l] = n /\ \A u \in Threads \ {l} : obj'[u] = obj[u]
        /\ pc'[l] = "submit" /\ \A u \in Threads \ {l} : pc'[u] = pc[u]
        /\ \A q \in Requests \ {r} : attempts'[q] = attempts[q]
        /\ attempts' \in [Requests -> 0 .. MaxRetries + 1]
        /\ pc' \in [Threads -> Labels] /\ obj' \in [Threads -> Objects \union {None}]
        /\ Holders' /\ Current'
    <2>1. attempts[r] <= MaxRetries
      BY <1>1, MaxRetriesAssumption
    <2> QED BY <1>1, <1>2, <1>3, <2>1, NewObjectIInv
  <1> HIDE DEF n
  <1>5. /\ \A u \in Threads : Linked(u)' <=> Linked(u)
        /\ UNCHANGED Due /\ \A k : Given(k)' <=> Given(k)
    BY <1>1, <1>2, <1>4 DEF Linked, Due, Given
  <1>6. Types'
    BY <1>1, <1>4 DEF Types
  <1>7. Control'
    BY <1>1, <1>2, <1>4, NoneAssumption DEF Control, Resting, Threads
  <1>8. KeysGiven'
    BY <1>1, <1>4, <1>5 DEF KeysGiven
  <1>9. BodiesSound'
    <2>1. \A o \in Objects : body[o] # None => o \in Queued \/ \E u \in Threads : obj'[u] = o
      BY <1>2, <1>4, NoneAssumption DEF BodiesSound
    <2> QED BY <1>1, <1>3, <1>4, <2>1 DEF BodiesSound
  <1>10. TasksSound'
    <2>1. \A w \in Due : attempts'[disk[w.key]] = attempts[disk[w.key]]
      BY <1>3, <1>4 DEF TasksSound, Types
    <2>2. \A w \in Due : \A u \in Threads :
            obj'[u] # None /\ obj'[u][1] = disk[w.key] => pc'[u] = "free"
      BY <1>3, <1>4 DEF TasksSound
    <2> QED BY <1>1, <1>4, <1>5, <2>1, <2>2 DEF TasksSound
  <1>11. SavesSound'
    <2> SUFFICES ASSUME NEW u \in Threads PROVE SaveSound(u)'
      BY DEF SavesSound
    <2>1. CASE u = l
      BY <1>4, <2>1 DEF SaveSound, Linked
    <2>2. CASE u # l
      BY <1>1, <1>4, <1>5, <2>2 DEF SavesSound, SaveSound
    <2> QED BY <2>1, <2>2
  <1>12. ActiveSound'
    BY <1>1, <1>3, <1>4 DEF ActiveSound
  <1>13. DiskSound'
    BY <1>1, <1>5 DEF DiskSound
  <1> QED BY <1>4, <1>6, <1>7, <1>8, <1>9, <1>10, <1>11, <1>12, <1>13

\* A request whose body goes to a file, by create().
LEMMA AttachStoredIInv ==
    ASSUME IInv, NEW l \in Listeners, NEW r \in Requests, AttachStored(l, r)
    PROVE  IInv'
  <1> USE DEF IInv
  <1> DEFINE n == <<r, attempts[r]>>
  <1>k. PICK k : k = UniqueKey(l)
    OBVIOUS
  <1>1. /\ pc[l] = "idle" /\ attempts[r] = 0 /\ NewObject(l, r)
        /\ keyid' = [keyid EXCEPT ![l] = NextKeyId(l)]
        /\ disk' = Write(disk, k, r) /\ active' = insert(active, k, 0)
        /\ body' = [body EXCEPT ![n] = k]
        /\ UNCHANGED <<now, waiting, queue, saving, popped, delay, lost>>
    BY <1>k DEF AttachStored, Accepts
  <1>l. PICK label \in {"submit", "release"} : pc' = [pc EXCEPT ![l] = label]
    BY DEF AttachStored, Goto
  <1>2. l \in Threads /\ l \notin Workers /\ l # CacheThread /\ obj[l] = None
    BY <1>1, ThreadsAssumption DEF Threads, Control, Resting
  <1>3. /\ \A u \in Threads : obj[u] # None => obj[u][1] # r
        /\ \A o \in Queued : o[1] # r
        /\ \A w \in Due : disk[w.key] # r
        /\ body[n] = None /\ n[2] = 0 /\ n[1] = r /\ Due \subseteq Tasks
    BY <1>1, NotArrived
  <1>4. /\ n \in Objects /\ Queued' = Queued
        /\ obj'[l] = n /\ \A u \in Threads \ {l} : obj'[u] = obj[u] /\ obj[u] # n
        /\ pc'[l] = label /\ \A u \in Threads \ {l} : pc'[u] = pc[u]
        /\ \A q \in Requests \ {r} : attempts'[q] = attempts[q]
        /\ attempts' \in [Requests -> 0 .. MaxRetries + 1] /\ n \notin Queued
        /\ pc' \in [Threads -> Labels] /\ obj' \in [Threads -> Objects \union {None}]
        /\ Holders' /\ Current'
    <2>1. attempts[r] <= MaxRetries
      BY <1>1, MaxRetriesAssumption
    <2> QED BY <1>1, <1>l, <1>2, <1>3, <2>1, NewObjectIInv
  <1> HIDE DEF n
  <1>5. /\ k \in Keys /\ k # None /\ ~Given(k) /\ Given(k)'
        /\ \A x \in Keys : Given(x) => Given(x)'
        /\ keyid' \in [Threads -> [id : Nat, last : Int]]
        /\ \A u \in Threads : keyid'[u].last <= now'
    BY <1>k, <1>1, <1>2, NewKey
  <1>6. k \notin DOMAIN disk /\ k \notin DOMAIN active /\ k \notin lost
    BY <1>5 DEF KeysGiven
  <1>7. /\ DOMAIN disk' = DOMAIN disk \union {k} /\ disk'[k] = r
        /\ \A x \in DOMAIN disk : disk'[x] = disk[x]
        /\ DOMAIN active' = DOMAIN active \union {k} /\ active'[k] = 0
        /\ \A x \in DOMAIN active : active'[x] = active[x]
    BY <1>1, <1>6 DEF Write, insert
  <1>8. body'[n] = k /\ \A o \in Objects \ {n} : body'[o] = body[o]
    BY <1>1, <1>4 DEF Types
  <1>9. /\ \A u \in Threads : Linked(u)' <=> Linked(u)
        /\ UNCHANGED Due
    BY <1>1, <1>2, <1>4 DEF Linked, Due
  <1>10. Types'
    <2>1. body' \in [Objects -> Keys \union {None}]
      BY <1>1, <1>5 DEF Types
    <2>2. DOMAIN disk' \subseteq Keys /\ (\A x \in DOMAIN disk' : disk'[x] \in Requests)
          /\ DOMAIN active' \subseteq Keys
      BY <1>5, <1>7 DEF Types
    <2> QED BY <1>1, <1>4, <1>5, <2>1, <2>2 DEF Types
  <1>11. Control'
    BY <1>1, <1>2, <1>4, NoneAssumption DEF Control, Resting, Threads
  <1>12. KeysGiven'
    <2>1. \A x \in DOMAIN disk' \union DOMAIN active' \union lost' : Given(x)'
      BY <1>1, <1>5, <1>7 DEF KeysGiven, Types
    <2>2. \A u \in Threads : pc'[u] \in {"link", "erase"} /\ saving'[u].key # None =>
            Given(saving[u].key)'
      <3> SUFFICES ASSUME NEW u \in Threads, pc'[u] \in {"link", "erase"}, saving[u].key # None
                   PROVE  Given(saving[u].key)'
        BY <1>1
      <3>1. pc[u] = pc'[u] /\ saving[u] \in Savings
        BY <1>4 DEF SavesSound, SaveSound
      <3>2. PICK x \in Keys : x = saving[u].key
        BY <3>1 DEF Savings
      <3>3. Given(x)
        BY <3>1, <3>2 DEF KeysGiven
      <3> QED BY <1>1, <1>5, <3>2, <3>3
    <2> QED BY <1>1, <1>5, <2>1, <2>2 DEF KeysGiven
  <1>13. BodiesSound'
    <2>1. \A o \in Objects : body'[o] # None =>
            /\ o \in Queued \/ \E u \in Threads : obj'[u] = o
            /\ body'[o] \in DOMAIN disk' /\ disk'[body'[o]] = o[1] /\ body'[o] \notin lost
      <3> SUFFICES ASSUME NEW o \in Objects, body'[o] # None
                   PROVE  /\ o \in Queued \/ \E u \in Threads : obj'[u] = o
                          /\ body'[o] \in DOMAIN disk' /\ disk'[body'[o]] = o[1] /\ body'[o] \notin lost
        OBVIOUS
      <3>1. CASE o = n
        BY <1>2, <1>3, <1>4, <1>6, <1>7, <1>8, <3>1
      <3>2. CASE o # n
        <4>1. body'[o] = body[o]
          BY <1>8, <3>2
        <4>2. o \in Queued \/ \E u \in Threads : obj'[u] = o
          BY <1>2, <1>4, <4>1, NoneAssumption DEF BodiesSound
        <4> QED BY <1>7, <4>1, <4>2 DEF BodiesSound
      <3> QED BY <3>1, <3>2
    <2>2. \A o, p \in Objects : body'[o] = body'[p] /\ body'[o] # None => o = p
      BY <1>6, <1>8 DEF BodiesSound
    <2>3. \A u \in Threads : obj'[u] # None /\ body'[obj'[u]] = None => obj'[u][2] = 0
      <3> SUFFICES ASSUME NEW u \in Threads, obj'[u] # None, body'[obj'[u]] = None
                   PROVE  obj'[u][2] = 0
        OBVIOUS
      <3>1. CASE u = l
        BY <1>3, <1>4, <3>1
      <3>2. CASE u # l
        <4>1. obj'[u] = obj[u] /\ obj[u] \in Objects \ {n}
          BY <1>4, <3>2 DEF Types
        <4> QED BY <1>8, <4>1 DEF BodiesSound
      <3> QED BY <3>1, <3>2
    <2>4. \A o \in Queued : body'[o] = None => o[2] = 0
      BY <1>4, <1>8, QueuedObjects DEF BodiesSound
    <2> QED BY <1>1, <1>4, <2>1, <2>2, <2>3, <2>4 DEF BodiesSound
  <1>14. TasksSound'
    <2>1. \A w \in Due : disk'[w.key] = disk[w.key] /\ w.key \in DOMAIN disk' /\ w.key # k
      BY <1>6, <1>7 DEF TasksSound
    <2>2. \A w \in Due : attempts'[disk[w.key]] = attempts[disk[w.key]]
      BY <1>3, <1>4 DEF TasksSound, Types
    <2>3. \A w \in Due : \A u \in Threads :
            obj'[u] # None /\ obj'[u][1] = disk[w.key] => pc'[u] = "free"
      BY <1>3, <1>4 DEF TasksSound
    <2>4. \A w \in Due : \A o \in Objects : body'[o] # w.key
      BY <1>8, <2>1 DEF TasksSound
    <2> QED BY <1>1, <1>4, <1>9, <2>1, <2>2, <2>3, <2>4 DEF TasksSound
  <1>15. SavesSound'
    <2> SUFFICES ASSUME NEW u \in Threads PROVE SaveSound(u)'
      BY DEF SavesSound
    <2>1. CASE u = l
      BY <1>4, <1>l, <2>1 DEF SaveSound, Linked
    <2>2. CASE u # l
      <3>1. SaveSound(u) /\ pc'[u] = pc[u] /\ obj'[u] = obj[u] /\ obj[u] # n
        BY <1>4, <2>2 DEF SavesSound
      <3>2. pc[u] \in {"link", "erase"} => body'[obj[u]] = body[obj[u]] /\ saving[u].key # k
        <4>1. pc[u] \in {"link", "erase"} => obj[u] \in Objects
          BY DEF Control, Resting, Types
        <4> QED BY <1>5, <1>8, <3>1, <4>1 DEF KeysGiven
      <3>3. Linked(u) => \A o \in Objects : body'[o] # saving[u].new
        BY <1>6, <1>8, <3>1 DEF SaveSound
      <3> QED BY <1>1, <1>7, <1>9, <3>1, <3>2, <3>3 DEF SaveSound
    <2> QED BY <2>1, <2>2
  <1>16. ActiveSound'
    <2>1. \A x \in DOMAIN active' : x \in lost' \/ \E o \in Objects : body'[o] = x
      BY <1>1, <1>3, <1>4, <1>7, <1>8 , NoneAssumption DEF ActiveSound, Types
    <2>2. \A o \in Objects : body'[o] \in DOMAIN active' => active'[body'[o]] = o[2]
      <3> SUFFICES ASSUME NEW o \in Objects, body'[o] \in DOMAIN active'
                   PROVE  active'[body'[o]] = o[2]
        OBVIOUS
      <3>1. CASE o = n
        BY <1>3, <1>7, <1>8, <3>1
      <3>2. CASE o # n
        <4>1. body'[o] = body[o] /\ body[o] # k
          BY <1>5, <1>6, <1>8, <3>2 DEF BodiesSound
        <4> QED BY <1>7, <4>1 DEF ActiveSound
      <3> QED BY <3>1, <3>2
    <2>3. \A u \in Threads : obj'[u] # None /\ body'[obj'[u]] # None =>
            (body'[obj'[u]] \in DOMAIN active' <=> pc'[u] \notin {"insert", "free"})
      <3> SUFFICES ASSUME NEW u \in Threads, obj'[u] # None, body'[obj'[u]] # None
                   PROVE  body'[obj'[u]] \in DOMAIN active' <=> pc'[u] \notin {"insert", "free"}
        OBVIOUS
      <3>1. CASE u = l
        BY <1>4, <1>l, <1>7, <1>8, <3>1
      <3>2. CASE u # l
        <4>1. obj'[u] = obj[u] /\ obj[u] \in Objects \ {n} /\ pc'[u] = pc[u]
          BY <1>4, <3>2 DEF Types
        <4>2. body'[obj[u]] = body[obj[u]] /\ body[obj[u]] # k
          BY <1>6, <1>8, <4>1 DEF BodiesSound
        <4> QED BY <1>7, <4>1, <4>2 DEF ActiveSound
      <3> QED BY <3>1, <3>2
    <2>4. \A o \in Queued : body'[o] # None => body'[o] \in DOMAIN active'
      BY <1>4, <1>7, <1>8, QueuedObjects DEF ActiveSound
    <2> QED BY <1>4, <2>1, <2>2, <2>3, <2>4 DEF ActiveSound
  <1>17. DiskSound'
    <2>1. \A o \in Objects : body[o] # None => body'[o] = body[o]
      BY <1>3, <1>8
    <2> SUFFICES ASSUME NEW x \in DOMAIN disk'
                 PROVE  \/ x \in lost
                        \/ \E o \in Objects : body'[o] = x
                        \/ \E w \in Due : w.key = x
                        \/ \E u \in Threads : Linked(u) /\ saving[u].new = x
      BY <1>1, <1>9 DEF DiskSound
    <2>2. CASE x = k
      BY <1>4, <1>8, <2>2
    <2>3. CASE x # k
      <3>1. x \in DOMAIN disk /\ x # None
        BY <1>7, <2>3, NoneAssumption DEF Types
      <3> QED BY <2>1, <3>1 DEF DiskSound
    <2> QED BY <2>2, <2>3
  <1> QED BY <1>4, <1>10, <1>11, <1>12, <1>13, <1>14, <1>15, <1>16, <1>17

\* The body cannot be stored: the key may stay in active_.
LEMMA AttachFailsIInv ==
    ASSUME IInv, NEW l \in Listeners, NEW r \in Requests, AttachFails(l, r)
    PROVE  IInv'
  <1> USE DEF IInv
  <1> DEFINE n == <<r, attempts[r]>>
  <1>k. PICK k : k = UniqueKey(l)
    OBVIOUS
  <1>1. /\ pc[l] = "idle" /\ attempts[r] = 0 /\ NewObject(l, r)
        /\ keyid' = [keyid EXCEPT ![l] = NextKeyId(l)]
        /\ \/ UNCHANGED <<active, lost>>
           \/ active' = insert(active, k, 0) /\ lost' = lost \union {k}
        /\ pc' = [pc EXCEPT ![l] = "release"]
        /\ UNCHANGED <<now, disk, waiting, queue, saving, popped, body, delay>>
    BY <1>k DEF AttachFails, Accepts, Goto
  <1>2. l \in Threads /\ l \notin Workers /\ l # CacheThread /\ obj[l] = None
    BY <1>1, ThreadsAssumption DEF Threads, Control, Resting
  <1>3. /\ \A u \in Threads : obj[u] # None => obj[u][1] # r
        /\ \A o \in Queued : o[1] # r
        /\ \A w \in Due : disk[w.key] # r
        /\ body[n] = None /\ n[2] = 0 /\ n[1] = r /\ Due \subseteq Tasks
    BY <1>1, NotArrived
  <1>4. /\ n \in Objects /\ Queued' = Queued
        /\ obj'[l] = n /\ \A u \in Threads \ {l} : obj'[u] = obj[u]
        /\ pc'[l] = "release" /\ \A u \in Threads \ {l} : pc'[u] = pc[u]
        /\ \A q \in Requests \ {r} : attempts'[q] = attempts[q]
        /\ attempts' \in [Requests -> 0 .. MaxRetries + 1]
        /\ pc' \in [Threads -> Labels] /\ obj' \in [Threads -> Objects \union {None}]
        /\ Holders' /\ Current'
    <2>1. attempts[r] <= MaxRetries
      BY <1>1, MaxRetriesAssumption
    <2> QED BY <1>1, <1>2, <1>3, <2>1, NewObjectIInv
  <1> HIDE DEF n
  <1>5. /\ k \in Keys /\ k # None /\ ~Given(k) /\ Given(k)'
        /\ \A x \in Keys : Given(x) => Given(x)'
        /\ keyid' \in [Threads -> [id : Nat, last : Int]]
        /\ \A u \in Threads : keyid'[u].last <= now'
    BY <1>k, <1>1, <1>2, NewKey
  <1>6. k \notin DOMAIN disk /\ k \notin DOMAIN active /\ k \notin lost
    BY <1>5 DEF KeysGiven
  <1>7. /\ DOMAIN active \subseteq DOMAIN active' /\ DOMAIN active' \subseteq DOMAIN active \union {k}
        /\ \A x \in DOMAIN active : active'[x] = active[x]
        /\ lost \subseteq lost' /\ lost' \subseteq lost \union {k}
        /\ k \in DOMAIN active' => k \in lost'
    BY <1>1, <1>6 DEF insert
  <1>8. /\ \A u \in Threads : Linked(u)' <=> Linked(u)
        /\ UNCHANGED Due
    BY <1>1, <1>2, <1>4 DEF Linked, Due
  <1>9. \A o \in Objects : body[o] # k
    BY <1>5, <1>6 DEF BodiesSound
  <1>10. Types'
    <2>1. DOMAIN active' \subseteq Keys /\ lost' \subseteq Keys
      BY <1>5, <1>7 DEF Types
    <2> QED BY <1>1, <1>4, <1>5, <2>1 DEF Types
  <1>11. Control'
    BY <1>1, <1>2, <1>4, NoneAssumption DEF Control, Resting, Threads
  <1>12. KeysGiven'
    <2>1. \A x \in DOMAIN disk' \union DOMAIN active' \union lost' : Given(x)'
      BY <1>1, <1>5, <1>7 DEF KeysGiven, Types
    <2>2. ASSUME NEW u \in Threads, pc'[u] \in {"link", "erase"}, saving[u].key # None
          PROVE  Given(saving[u].key)'
      <3>1. pc[u] = pc'[u] /\ saving[u] \in Savings
        BY <1>4, <2>2 DEF SavesSound, SaveSound
      <3>2. PICK x \in Keys : x = saving[u].key
        BY <2>2, <3>1 DEF Savings
      <3>3. Given(x)
        BY <2>2, <3>1, <3>2 DEF KeysGiven
      <3> QED BY <1>1, <1>5, <3>2, <3>3
    <2> QED BY <1>1, <1>5, <2>1, <2>2 DEF KeysGiven
  <1>13. BodiesSound'
    <2>1. \A o \in Objects : body[o] # None =>
            (o \in Queued \/ \E u \in Threads : obj'[u] = o) /\ body[o] \notin lost'
      BY <1>2, <1>4, <1>7, <1>9, NoneAssumption DEF BodiesSound
    <2> QED BY <1>1, <1>3, <1>4, <2>1 DEF BodiesSound
  <1>14. TasksSound'
    <2>1. \A w \in Due : attempts'[disk[w.key]] = attempts[disk[w.key]] /\ w.key \notin lost'
      BY <1>3, <1>4, <1>6, <1>7 DEF TasksSound, Types
    <2>2. \A w \in Due : \A u \in Threads :
            obj'[u] # None /\ obj'[u][1] = disk[w.key] => pc'[u] = "free"
      BY <1>3, <1>4 DEF TasksSound
    <2> QED BY <1>1, <1>4, <1>8, <2>1, <2>2 DEF TasksSound
  <1>15. SavesSound'
    <2> SUFFICES ASSUME NEW u \in Threads PROVE SaveSound(u)'
      BY DEF SavesSound
    <2>1. CASE u = l
      BY <1>4, <2>1 DEF SaveSound, Linked
    <2>2. CASE u # l
      <3>1. SaveSound(u) /\ pc'[u] = pc[u] /\ obj'[u] = obj[u]
        BY <1>4, <2>2 DEF SavesSound
      <3>2. Linked(u) => saving[u].new \notin lost'
        BY <1>6, <1>7, <3>1 DEF SaveSound
      <3> QED BY <1>1, <1>8, <3>1, <3>2 DEF SaveSound
    <2> QED BY <2>1, <2>2
  <1>16. ActiveSound'
    <2>1. \A o \in Objects : body[o] \in DOMAIN active' <=> body[o] \in DOMAIN active
      BY <1>7, <1>9
    <2>2. \A x \in DOMAIN active' : x \in lost' \/ \E o \in Objects : body[o] = x
      BY <1>7 DEF ActiveSound
    <2>3. ASSUME NEW u \in Threads, obj'[u] # None, body[obj'[u]] # None
          PROVE  body[obj'[u]] \in DOMAIN active' <=> pc'[u] \notin {"insert", "free"}
      <3>1. u # l /\ obj'[u] = obj[u] /\ pc'[u] = pc[u]
        BY <1>3, <1>4, <2>3
      <3>2. obj[u] \in Objects
        BY <2>3, <3>1 DEF Types
      <3> QED BY <2>1, <2>3, <3>1, <3>2 DEF ActiveSound
    <2>4. \A o \in Queued : body[o] # None => body[o] \in DOMAIN active'
      BY <1>7 DEF ActiveSound
    <2>5. \A o \in Objects : body[o] \in DOMAIN active' => active'[body[o]] = o[2]
      BY <1>7, <2>1 DEF ActiveSound
    <2> QED BY <1>1, <1>4, <2>2, <2>3, <2>4, <2>5 DEF ActiveSound
  <1>17. DiskSound'
    BY <1>1, <1>7, <1>8 DEF DiskSound
  <1> QED BY <1>4, <1>10, <1>11, <1>12, <1>13, <1>14, <1>15, <1>16, <1>17

-----------------------------------------------------------------------------
(* save() and the rest of ~Request. *)

\* The object of a thread in ~Request is its own, and is an object.
LEMMA OwnObject ==
    ASSUME IInv, NEW t \in Threads, pc[t] \in Alone
    PROVE  /\ obj[t] \in Objects /\ obj[t] # None /\ obj[t] \notin Queued
           /\ \A u \in Threads : obj[u] = obj[t] => u = t
           /\ obj[t][1] \in Requests /\ obj[t][2] \in 0 .. MaxRetries + 1
           /\ body[obj[t]] \in Keys \union {None}
           /\ pc[CacheThread] = "load" => t # CacheThread
  <1> USE DEF IInv
  <1>1. obj[t] # None
    BY DEF Control, Resting, Alone
  <1>2. obj[t] \in Objects
    BY <1>1 DEF Types
  <1>3. obj[t][1] \in Requests /\ obj[t][2] \in 0 .. MaxRetries + 1
    BY <1>2 DEF Objects
  <1>4. obj[t] \notin Queued /\ \A u \in Threads : obj[u] = obj[t] => u = t
    BY DEF Holders
  <1>5. body[obj[t]] \in Keys \union {None}
    BY <1>2 DEF Types
  <1> QED BY <1>1, <1>2, <1>3, <1>4, <1>5 DEF Alone

\* save() decides.
LEMMA SaveLookupIInv ==
    ASSUME IInv, NEW t \in Threads, SaveLookup(t)
    PROVE  IInv'
  <1> USE DEF IInv
  <1> DEFINE o == obj[t]
             drop == delay[o] = 0 \/ MaxRetries = 0
             key == IF body[o] # None THEN body[o] ELSE IF drop THEN None ELSE UniqueKey(t)
             retries == IF key \in DOMAIN active THEN active[key] ELSE 0
             label == IF drop \/ (key \in DOMAIN active /\ ~MayRetry(retries))
                      THEN "erase" ELSE "link"
  <1>1. /\ pc[t] = "save" /\ pc' = [pc EXCEPT ![t] = label]
        /\ saving' = [saving EXCEPT ![t] = [key |-> key, retries |-> retries, new |-> None]]
        /\ keyid' = IF body[o] = None /\ ~drop THEN [keyid EXCEPT ![t] = NextKeyId(t)] ELSE keyid
        /\ UNCHANGED <<now, disk, active, waiting, queue, obj, popped, body, delay, attempts, lost>>
    BY DEF SaveLookup, Goto, poolVars, objVars, cacheVars
  <1>o. /\ o \in Objects /\ o # None /\ o \notin Queued
        /\ o[2] \in 0 .. MaxRetries + 1 /\ body[o] \in Keys \union {None}
        /\ \A u \in Threads : obj[u] = o => u = t
    BY <1>1, OwnObject DEF Alone
  <1>2. /\ key \in Keys \union {None} /\ retries = o[2]
        /\ label = "link" => o[2] < MaxRetries
        /\ body[o] = None => key \notin DOMAIN disk
        /\ body[o] # None => key = body[o]
        /\ \A x \in Keys : Given(x) => Given(x)'
        /\ keyid' \in [Threads -> [id : Nat, last : Int]]
        /\ \A u \in Threads : keyid'[u].last <= now'
        /\ \A x : x = key /\ x # None => Given(x)'
    <2>1. CASE body[o] # None
      <3>1. key = body[o] /\ keyid' = keyid /\ \A x : Given(x)' <=> Given(x)
        BY <1>1, <2>1 DEF Given
      <3>2. body[o] \in DOMAIN active /\ active[body[o]] = o[2]
        BY <1>1, <1>o, <2>1 DEF ActiveSound
      <3>3. label = "link" => o[2] < MaxRetries
        BY <3>1, <3>2 DEF MayRetry
      <3> QED BY <1>1, <1>o, <2>1, <3>1, <3>2, <3>3 DEF KeysGiven, Types
    <2>2. CASE body[o] = None /\ drop
      <3>1. key = None /\ keyid' = keyid /\ label = "erase" /\ \A x : Given(x)' <=> Given(x)
        BY <1>1, <2>2 DEF Given
      <3>2. None \notin DOMAIN active /\ None \notin DOMAIN disk
        BY NoneAssumption DEF Types
      <3>3. o[2] = 0
        BY <1>o, <2>2 DEF BodiesSound
      <3> QED BY <1>1, <1>o, <2>2, <3>1, <3>2, <3>3 DEF KeysGiven, Types
    <2>3. CASE body[o] = None /\ ~drop
      <3>1. PICK k : k = UniqueKey(t)
        OBVIOUS
      <3>2. key = k /\ keyid' = [keyid EXCEPT ![t] = NextKeyId(t)]
        BY <1>1, <2>3, <3>1
      <3>3. /\ k \in Keys /\ k # None /\ ~Given(k) /\ Given(k)'
            /\ \A x \in Keys : Given(x) => Given(x)'
            /\ keyid' \in [Threads -> [id : Nat, last : Int]]
            /\ \A u \in Threads : keyid'[u].last <= now'
        BY <1>1, <3>1, <3>2, NewKey
      <3>4. k \notin DOMAIN active /\ k \notin DOMAIN disk
        BY <3>3 DEF KeysGiven
      <3>5. o[2] = 0 /\ 0 < MaxRetries
        BY <1>o, <2>3, MaxRetriesAssumption DEF BodiesSound
      <3> QED BY <2>3, <3>2, <3>3, <3>4, <3>5
    <2> QED BY <2>1, <2>2, <2>3
  <1>l. label \in {"link", "erase"}
    OBVIOUS
  <1> HIDE DEF key, label, retries, drop
  <1>3. /\ pc'[t] = label /\ \A u \in Threads \ {t} : pc'[u] = pc[u]
        /\ \A u \in Threads \ {t} : saving'[u] = saving[u]
        /\ saving'[t] \in Savings /\ saving'[t].key = key /\ saving'[t].retries = o[2]
        /\ saving'[t].new = None
    <2>1. saving'[t] = [key |-> key, retries |-> retries, new |-> None]
      BY <1>1 DEF Types
    <2>2. saving'[t] \in Savings
      BY <1>2, <1>o, <2>1 DEF Savings
    <2> QED BY <1>1, <1>2, <2>1, <2>2 DEF Types
  <1>4. /\ \A u \in Threads : Linked(u)' <=> Linked(u)
        /\ UNCHANGED <<Queued, Due>>
    BY <1>1, <1>3 DEF Linked, Queued, Due
  <1>5. Types'
    <2>1. pc' \in [Threads -> Labels]
      BY <1>1, <1>l DEF Types, Labels, Alone
    <2>2. saving' \in [Threads -> Savings \union {None}]
      BY <1>1, <1>3 DEF Types
    <2> QED BY <1>1, <1>2, <2>1, <2>2 DEF Types
  <1>6. Control'
    BY <1>1, <1>3, <1>l DEF Control, Resting, Threads
  <1>7. KeysGiven'
    <2>1. \A x \in DOMAIN disk' \union DOMAIN active' \union lost' : Given(x)'
      BY <1>1, <1>2 DEF KeysGiven, Types
    <2>2. ASSUME NEW u \in Threads, pc'[u] \in {"link", "erase"}, saving'[u].key # None
          PROVE  \E x : x = saving'[u].key /\ Given(x)'
      <3>1. CASE u = t
        BY <1>2, <1>3, <2>2, <3>1
      <3>2. CASE u # t
        <4>1. pc[u] = pc'[u] /\ saving'[u] = saving[u] /\ saving[u] \in Savings
          BY <1>3, <2>2, <3>2 DEF SavesSound, SaveSound
        <4>2. PICK x \in Keys : x = saving[u].key
          BY <2>2, <4>1 DEF Savings
        <4>3. Given(x)
          BY <2>2, <4>1, <4>2 DEF KeysGiven
        <4> QED BY <1>2, <4>1, <4>2, <4>3
      <3> QED BY <3>1, <3>2
    <2> QED BY <1>2, <2>1, <2>2 DEF KeysGiven
  <1>8. Holders'
    BY <1>1, <1>3, <1>4, <1>o, <1>l DEF Holders, Alone
  <1>9. Current'
    BY <1>1, <1>3, <1>4 DEF Current
  <1>10. BodiesSound'
    BY <1>1, <1>4 DEF BodiesSound
  <1>11. TasksSound'
    BY <1>1, <1>3, <1>4 DEF TasksSound
  <1>12. SavesSound'
    <2> SUFFICES ASSUME NEW u \in Threads PROVE SaveSound(u)'
      BY DEF SavesSound
    <2>1. CASE u = t
      BY <1>1, <1>2, <1>3, <1>l, <2>1 DEF SaveSound, Linked
    <2>2. CASE u # t
      BY <1>1, <1>3, <1>4, <2>2 DEF SavesSound, SaveSound
    <2> QED BY <2>1, <2>2
  <1>13. ActiveSound'
    BY <1>1, <1>3, <1>4, <1>l DEF ActiveSound
  <1>14. DiskSound'
    <2>1. \A u \in Threads : Linked(u) => saving'[u] = saving[u]
      BY <1>1, <1>3 DEF Linked
    <2> QED BY <1>1, <1>4, <2>1 DEF DiskSound
  <1> QED BY <1>5, <1>6, <1>7, <1>8, <1>9, <1>10, <1>11, <1>12, <1>13, <1>14

\* The request is kept in a file of its own.
LEMMA SaveLinkIInv ==
    ASSUME IInv, NEW t \in Threads, SaveLink(t)
    PROVE  IInv'
  <1> USE DEF IInv
  <1> DEFINE o == obj[t]
  <1>k. PICK k : k = UniqueKey(t)
    OBVIOUS
  <1>1. /\ pc[t] = "link" /\ pc' = [pc EXCEPT ![t] = "erase"]
        /\ keyid' = [keyid EXCEPT ![t] = NextKeyId(t)]
        /\ saving' = [saving EXCEPT ![t].new = k]
        /\ disk' = Write(disk, k, IF body[o] = None THEN o[1] ELSE disk[saving[t].key])
        /\ UNCHANGED <<now, active, waiting, queue, obj, popped, body, delay, attempts, lost>>
    BY <1>k DEF SaveLink, Goto, poolVars, objVars, RequestOf
  <1>o. /\ o \in Objects /\ o # None /\ o \notin Queued /\ o[1] \in Requests
        /\ \A u \in Threads : obj[u] = o => u = t
    BY <1>1, OwnObject DEF Alone
  <1>s. SaveSound(t)
    BY DEF SavesSound
  <1>2. /\ k \in Keys /\ k # None /\ ~Given(k) /\ Given(k)'
        /\ \A x \in Keys : Given(x) => Given(x)'
        /\ keyid' \in [Threads -> [id : Nat, last : Int]]
        /\ \A u \in Threads : keyid'[u].last <= now'
    BY <1>k, <1>1, NewKey
  <1>6. k \notin DOMAIN disk /\ k \notin DOMAIN active /\ k \notin lost
    BY <1>2 DEF KeysGiven
  <1>7. /\ DOMAIN disk' = DOMAIN disk \union {k} /\ disk'[k] = o[1]
        /\ \A x \in DOMAIN disk : disk'[x] = disk[x]
    <2>1. body[o] # None => disk[saving[t].key] = o[1]
      BY <1>1, <1>o, <1>s DEF SaveSound, BodiesSound
    <2> QED BY <1>1, <1>6, <2>1 DEF Write
  <1>3. /\ pc'[t] = "erase" /\ \A u \in Threads \ {t} : pc'[u] = pc[u]
        /\ \A u \in Threads \ {t} : saving'[u] = saving[u]
        /\ saving'[t] \in Savings /\ saving'[t].key = saving[t].key
        /\ saving'[t].retries = o[2] /\ saving'[t].new = k
    <2>1. saving[t] \in Savings /\ saving[t].retries = o[2]
      BY <1>1, <1>s DEF SaveSound
    <2>2. saving'[t] = [saving[t] EXCEPT !.new = k] /\ \A u \in Threads \ {t} : saving'[u] = saving[u]
      BY <1>1 DEF Types
    <2>3. saving'[t] \in Savings /\ saving'[t].key = saving[t].key
          /\ saving'[t].retries = saving[t].retries /\ saving'[t].new = k
      BY <1>2, <2>1, <2>2 DEF Savings
    <2> QED BY <1>1, <2>1, <2>2, <2>3 DEF Types
  <1>4. /\ UNCHANGED <<Queued, Due>> /\ Linked(t)'
        /\ \A u \in Threads \ {t} : Linked(u)' <=> Linked(u)
    BY <1>1, <1>2, <1>3 DEF Linked, Queued, Due
  <1>b. \A p \in Objects : body[p] # k
    BY <1>2, <1>6 DEF BodiesSound
  <1>5. Types'
    <2>1. pc' \in [Threads -> Labels]
      BY <1>1 DEF Types, Labels, Alone
    <2>2. saving' \in [Threads -> Savings \union {None}]
      <3>1. DOMAIN saving' = Threads /\ saving' = [u \in Threads |-> saving'[u]]
        BY <1>1 DEF Types
      <3>2. \A u \in Threads : saving'[u] \in Savings \union {None}
        BY <1>3 DEF Types
      <3> QED BY <3>1, <3>2
    <2>3. DOMAIN disk' \subseteq Keys /\ \A x \in DOMAIN disk' : disk'[x] \in Requests
      BY <1>2, <1>7, <1>o DEF Types
    <2> QED BY <1>1, <1>2, <2>1, <2>2, <2>3 DEF Types
  <1>8. Control'
    BY <1>1, <1>3 DEF Control, Resting, Threads
  <1>9. KeysGiven'
    <2>1. \A x \in DOMAIN disk' \union DOMAIN active' \union lost' : Given(x)'
      BY <1>1, <1>2, <1>7 DEF KeysGiven, Types
    <2>2. ASSUME NEW u \in Threads, pc'[u] \in {"link", "erase"}, saving'[u].key # None
          PROVE  \E x : x = saving'[u].key /\ Given(x)'
      <3>1. pc[u] \in {"link", "erase"} /\ saving'[u].key = saving[u].key /\ saving[u] \in Savings
        BY <1>1, <1>3, <2>2 DEF SavesSound, SaveSound
      <3>2. PICK x \in Keys : x = saving[u].key
        BY <2>2, <3>1 DEF Savings
      <3>3. Given(x)
        BY <2>2, <3>1, <3>2 DEF KeysGiven
      <3> QED BY <1>2, <3>1, <3>2, <3>3
    <2> QED BY <1>2, <2>1, <2>2 DEF KeysGiven
  <1>10. Holders'
    BY <1>1, <1>3, <1>4, <1>o DEF Holders, Alone
  <1>11. Current'
    BY <1>1, <1>3, <1>4 DEF Current
  <1>12. BodiesSound'
    BY <1>1, <1>4, <1>7 DEF BodiesSound
  <1>13. TasksSound'
    <2>1. \A w \in Due : disk'[w.key] = disk[w.key] /\ w.key \in DOMAIN disk'
      BY <1>7 DEF TasksSound
    <2>2. \A w \in Due : \A u \in Threads :
            obj'[u] # None /\ obj'[u][1] = disk[w.key] => pc'[u] = "free"
      BY <1>1, <1>3 DEF TasksSound
    <2> QED BY <1>1, <1>4, <2>1, <2>2 DEF TasksSound
  <1>14. SavesSound'
    <2> SUFFICES ASSUME NEW u \in Threads PROVE SaveSound(u)'
      BY DEF SavesSound
    <2>1. CASE u = t
      <3>1. body[o] = None => saving[t].key # k
        <4>1. saving[t].key # None => Given(saving[t].key)
          BY <1>1 DEF KeysGiven
        <4> QED BY <1>2, <4>1
      <3> QED BY <1>1, <1>3, <1>6, <1>7, <1>b, <1>s, <2>1, <3>1 DEF SaveSound, Linked
    <2>2. CASE u # t
      <3>1. SaveSound(u) /\ pc'[u] = pc[u] /\ saving'[u] = saving[u] /\ (Linked(u)' <=> Linked(u))
        BY <1>3, <1>4, <2>2 DEF SavesSound
      <3>2. pc[u] \in {"link", "erase"} => saving[u].key # k
        BY <1>2 DEF KeysGiven
      <3>3. pc[u] \in {"link", "erase"} /\ body[obj[u]] = None => saving[u].key \notin DOMAIN disk'
        BY <1>7, <3>1, <3>2 DEF SaveSound
      <3>4. Linked(u) => saving[u].new \in DOMAIN disk' /\ disk'[saving[u].new] = obj[u][1]
        BY <1>7, <3>1 DEF SaveSound
      <3>5. UNCHANGED <<obj, body, lost>>
        BY <1>1
      <3> QED BY <3>1, <3>3, <3>4, <3>5 DEF SaveSound
    <2> QED BY <2>1, <2>2
  <1>15. ActiveSound'
    BY <1>1, <1>3, <1>4 DEF ActiveSound
  <1>16. DiskSound'
    <2> SUFFICES ASSUME NEW x \in DOMAIN disk'
                 PROVE  \/ x \in lost
                        \/ \E p \in Objects : body[p] = x
                        \/ \E w \in Due : w.key = x
                        \/ \E u \in Threads : Linked(u)' /\ saving'[u].new = x
      BY <1>1, <1>4 DEF DiskSound
    <2>1. CASE x = k
      BY <1>3, <1>4, <2>1
    <2>2. CASE x # k
      <3>1. x \in DOMAIN disk
        BY <1>7, <2>2
      <3>2. \A u \in Threads : Linked(u) => u # t
        BY <1>1 DEF Linked
      <3> QED BY <1>3, <1>4, <3>1, <3>2 DEF DiskSound
    <2> QED BY <2>1, <2>2
  <1> QED BY <1>5, <1>8, <1>9, <1>10, <1>11, <1>12, <1>13, <1>14, <1>15, <1>16

\* The file cannot be written or linked.
LEMMA SaveFailsIInv ==
    ASSUME IInv, NEW t \in Threads, SaveFails(t)
    PROVE  IInv'
  <1> USE DEF IInv
  <1>k. PICK k : k = UniqueKey(t)
    OBVIOUS
  <1>1. /\ pc[t] = "link" /\ pc' = [pc EXCEPT ![t] = "erase"]
        /\ keyid' = [keyid EXCEPT ![t] = NextKeyId(t)]
        /\ UNCHANGED <<now, disk, active, waiting, queue, obj, saving, popped, body, delay,
                       attempts, lost>>
    BY DEF SaveFails, Goto, poolVars, objVars, cacheVars
  <1>o. obj[t] \notin Queued /\ \A u \in Threads : obj[u] = obj[t] => u = t
    BY <1>1, OwnObject DEF Alone
  <1>2. /\ \A x \in Keys : Given(x) => Given(x)'
        /\ keyid' \in [Threads -> [id : Nat, last : Int]]
        /\ \A u \in Threads : keyid'[u].last <= now'
    BY <1>k, <1>1, NewKey
  <1>3. pc'[t] = "erase" /\ \A u \in Threads \ {t} : pc'[u] = pc[u]
    BY <1>1 DEF Types
  <1>4. /\ \A u \in Threads : Linked(u)' <=> Linked(u)
        /\ UNCHANGED <<Queued, Due>>
    BY <1>1, <1>3 DEF Linked, Queued, Due, SavesSound, SaveSound
  <1>5. Types'
    <2>1. pc' \in [Threads -> Labels]
      BY <1>1 DEF Types, Labels, Alone
    <2> QED BY <1>1, <1>2, <2>1 DEF Types
  <1>6. Control'
    BY <1>1, <1>3 DEF Control, Resting, Threads
  <1>7. KeysGiven'
    <2>1. \A x \in DOMAIN disk' \union DOMAIN active' \union lost' : Given(x)'
      BY <1>1, <1>2 DEF KeysGiven, Types
    <2>2. ASSUME NEW u \in Threads, pc'[u] \in {"link", "erase"}, saving[u].key # None
          PROVE  \E x : x = saving[u].key /\ Given(x)'
      <3>1. pc[u] \in {"link", "erase"} /\ saving[u] \in Savings
        BY <1>1, <1>3, <2>2 DEF SavesSound, SaveSound
      <3>2. PICK x \in Keys : x = saving[u].key
        BY <2>2, <3>1 DEF Savings
      <3>3. Given(x)
        BY <2>2, <3>1, <3>2 DEF KeysGiven
      <3> QED BY <1>2, <3>2, <3>3
    <2> QED BY <1>1, <1>2, <2>1, <2>2 DEF KeysGiven
  <1>8. Holders'
    BY <1>1, <1>3, <1>4, <1>o DEF Holders, Alone
  <1>9. Current'
    BY <1>1, <1>3, <1>4 DEF Current
  <1>10. BodiesSound'
    BY <1>1, <1>4 DEF BodiesSound
  <1>11. TasksSound'
    BY <1>1, <1>3, <1>4 DEF TasksSound
  <1>12. SavesSound'
    <2> SUFFICES ASSUME NEW u \in Threads PROVE SaveSound(u)'
      BY DEF SavesSound
    <2>1. CASE u = t
      BY <1>1, <1>3, <1>4, <2>1 DEF SavesSound, SaveSound, Linked
    <2>2. CASE u # t
      BY <1>1, <1>3, <1>4, <2>2 DEF SavesSound, SaveSound
    <2> QED BY <2>1, <2>2
  <1>13. ActiveSound'
    BY <1>1, <1>3, <1>4 DEF ActiveSound
  <1>14. DiskSound'
    BY <1>1, <1>4 DEF DiskSound
  <1> QED BY <1>5, <1>6, <1>7, <1>8, <1>9, <1>10, <1>11, <1>12, <1>13, <1>14

\* eraseActive takes the entry of this object and of no other.
LEMMA SaveEraseIInv ==
    ASSUME IInv, NEW t \in Threads, SaveErase(t)
    PROVE  IInv'
  <1> USE DEF IInv
  <1> DEFINE label == IF saving[t].new = None THEN "free" ELSE "insert"
             o == obj[t]
             key == saving[t].key
  <1>1. /\ pc[t] = "erase" /\ pc' = [pc EXCEPT ![t] = label]
        /\ active' = Without(active, key)
        /\ UNCHANGED <<now, keyid, disk, waiting, queue, obj, saving, popped, body, delay,
                       attempts, lost>>
    BY DEF SaveErase, Goto, poolVars, objVars
  <1>o. /\ o \in Objects /\ o # None /\ o \notin Queued /\ o[2] \in 0 .. MaxRetries + 1
        /\ \A u \in Threads : obj[u] = o => u = t
    BY <1>1, OwnObject DEF Alone
  <1>s. /\ body[o] = None => key \notin DOMAIN disk
        /\ body[o] # None => key = body[o]
    BY <1>1 DEF SavesSound, SaveSound
  <1>l. label \in {"free", "insert"} /\ (label = "insert" <=> saving[t].new # None)
    OBVIOUS
  <1>b. \A p \in Objects : p # o /\ body[p] # None => body[p] # key
    BY <1>o, <1>s DEF BodiesSound
  <1> HIDE DEF label, key
  <1>2. /\ DOMAIN active' = DOMAIN active \ {key}
        /\ \A x \in DOMAIN active \ {key} : active'[x] = active[x]
    BY <1>1 DEF Without, Restrict
  <1>3. pc'[t] = label /\ \A u \in Threads \ {t} : pc'[u] = pc[u]
    BY <1>1 DEF Types
  <1>4. /\ \A u \in Threads : Linked(u)' <=> Linked(u)
        /\ UNCHANGED <<Queued, Due>> /\ \A x : Given(x)' <=> Given(x)
    BY <1>1, <1>3, <1>l DEF Linked, Queued, Due, Given
  <1>5. Types'
    <2>1. pc' \in [Threads -> Labels]
      BY <1>1, <1>l DEF Types, Labels, Alone
    <2> QED BY <1>1, <1>2, <2>1 DEF Types
  <1>6. Control'
    BY <1>1, <1>3, <1>l DEF Control, Resting, Threads
  <1>7. KeysGiven'
    BY <1>1, <1>2, <1>3, <1>4, <1>l DEF KeysGiven
  <1>8. Holders'
    BY <1>1, <1>3, <1>4, <1>o DEF Holders, Alone
  <1>9. Current'
    <2>1. obj[t][2] < attempts[obj[t][1]]
      BY <1>o DEF Current
    <2> QED BY <1>1, <1>3, <1>4, <2>1 DEF Current
  <1>10. BodiesSound'
    BY <1>1, <1>4 DEF BodiesSound
  <1>11. TasksSound'
    BY <1>1, <1>3, <1>4 DEF TasksSound
  <1>12. SavesSound'
    <2> SUFFICES ASSUME NEW u \in Threads PROVE SaveSound(u)'
      BY DEF SavesSound
    <2>1. CASE u = t
      BY <1>1, <1>3, <1>4, <1>l, <2>1 DEF SavesSound, SaveSound
    <2>2. CASE u # t
      BY <1>1, <1>3, <1>4, <2>2 DEF SavesSound, SaveSound
    <2> QED BY <2>1, <2>2
  <1>13. ActiveSound'
    <2>1. \A x \in DOMAIN active' : x \in lost \/ \E p \in Objects : body[p] = x
      BY <1>2 DEF ActiveSound
    <2>2. \A p \in Objects : body[p] \in DOMAIN active' => active'[body[p]] = p[2]
      BY <1>2 DEF ActiveSound
    <2>3. ASSUME NEW u \in Threads, obj[u] # None, body[obj[u]] # None
          PROVE  body[obj[u]] \in DOMAIN active' <=> pc'[u] \notin {"insert", "free"}
      <3>1. CASE u = t
        BY <1>2, <1>3, <1>l, <1>s, <2>3, <3>1
      <3>2. CASE u # t
        <4>1. obj[u] \in Objects /\ obj[u] # o /\ pc'[u] = pc[u]
          BY <1>3, <1>o, <2>3, <3>2 DEF Types
        <4>2. body[obj[u]] # key
          BY <1>b, <2>3, <4>1
        <4> QED BY <1>2, <2>3, <4>1, <4>2 DEF ActiveSound
      <3> QED BY <3>1, <3>2
    <2>4. \A p \in Queued : body[p] # None => body[p] \in DOMAIN active'
      BY <1>2, <1>b, <1>o, QueuedObjects DEF ActiveSound
    <2> QED BY <1>1, <1>4, <2>1, <2>2, <2>3, <2>4 DEF ActiveSound
  <1>14. DiskSound'
    BY <1>1, <1>4 DEF DiskSound
  <1> QED BY <1>5, <1>6, <1>7, <1>8, <1>9, <1>10, <1>11, <1>12, <1>13, <1>14

\* insertWaiting: the link that was this thread's becomes a task.
LEMMA SaveInsertIInv ==
    ASSUME IInv, NEW t \in Threads, SaveInsert(t)
    PROVE  IInv'
  <1> USE DEF IInv
  <1> DEFINE o == obj[t]
             due == now + delay[obj[t]]
             e == [due |-> IF due > MaxTime THEN MaxTime ELSE due,
                   key |-> saving[t].new, retries |-> saving[t].retries + 1]
  <1>1. /\ pc[t] = "insert" /\ pc' = [pc EXCEPT ![t] = "free"]
        /\ waiting' = waiting \union {e}
        /\ UNCHANGED <<now, keyid, disk, active, queue, obj, saving, popped, body, delay,
                       attempts, lost>>
    BY DEF SaveInsert, Goto, poolVars, objVars
  <1>o. /\ o \in Objects /\ o # None /\ o \notin Queued
        /\ o[1] \in Requests /\ o[2] \in 0 .. MaxRetries + 1
        /\ \A u \in Threads : obj[u] = o => u = t
    BY <1>1, OwnObject DEF Alone
  <1>s. /\ saving[t] \in Savings /\ saving[t].retries = o[2] /\ saving[t].new # None
        /\ saving[t].new \in DOMAIN disk /\ disk[saving[t].new] = o[1]
        /\ saving[t].new \notin lost /\ o[2] < MaxRetries
        /\ \A p \in Objects : body[p] # saving[t].new
    BY <1>1 DEF SavesSound, SaveSound, Linked
  <1>2. e \in Tasks /\ e.key = saving[t].new /\ e.retries = o[2] + 1
    <2>1. due \in Nat
      <3>1. now \in Nat
        BY MaxTimeAssumption DEF Types
      <3>2. delay[o] \in Nat
        <4>1. delay[o] \in Delays \union {0}
          BY <1>o DEF Types
        <4>2. \A d \in Delays : d \in Nat
          BY DelaysAssumption
        <4>3. 0 \in Nat
          OBVIOUS
        <4> QED BY <4>1, <4>2, <4>3
      <3> QED BY <3>1, <3>2
    <2>2. (IF due > MaxTime THEN MaxTime ELSE due) \in 0 .. MaxTime
      BY <2>1, MaxTimeAssumption
    <2>3. saving[t].new \in Keys /\ o[2] + 1 \in 1 .. MaxRetries
      BY <1>o, <1>s, MaxRetriesAssumption DEF Savings
    <2> QED BY <1>s, <2>2, <2>3 DEF Tasks
  <1> HIDE DEF e
  <1>3. pc'[t] = "free" /\ \A u \in Threads \ {t} : pc'[u] = pc[u]
    BY <1>1 DEF Types
  <1>4. /\ \A u \in Threads \ {t} : Linked(u)' <=> Linked(u)
        /\ Queued' = Queued /\ Due' = Due \union {e} /\ \A x : Given(x)' <=> Given(x)
    BY <1>1, <1>3 DEF Linked, Queued, Due, Given
  <1>c. o[2] + 1 = attempts[o[1]] /\ \A w \in Due : disk[w.key] # o[1]
    BY <1>1, <1>o DEF Current, TasksSound
  <1>5. Types'
    <2>1. pc' \in [Threads -> Labels]
      BY <1>1 DEF Types, Labels, Alone
    <2> QED BY <1>1, <1>2, <2>1 DEF Types
  <1>6. Control'
    BY <1>1, <1>3 DEF Control, Resting, Threads
  <1>7. KeysGiven'
    BY <1>1, <1>3, <1>4 DEF KeysGiven
  <1>8. Holders'
    BY <1>1, <1>3, <1>4, <1>o DEF Holders, Alone
  <1>9. Current'
    <2>1. obj[t][2] < attempts[obj[t][1]]
      BY <1>o DEF Current
    <2> QED BY <1>1, <1>3, <1>4, <2>1 DEF Current
  <1>10. BodiesSound'
    BY <1>1, <1>4 DEF BodiesSound
  <1>11. TasksSound'
    <2>1. popped' \notin waiting'
      <3>1. popped # None => popped \in Due
        BY DEF Due
      <3>2. popped # e
        BY <1>2, <1>s, <1>c, <3>1, NoneAssumption
      <3> QED BY <1>1, <3>2 DEF TasksSound
    <2>2. ASSUME NEW u \in Threads, obj[u] # None, obj[u][1] = o[1] PROVE pc'[u] = "free"
      <3>1. CASE u = t
        BY <1>3, <3>1
      <3>2. CASE u # t /\ pc[u] # "free"
        <4>1. obj[u] \in Objects /\ obj[u][2] + 1 = attempts[o[1]]
          BY <2>2, <3>2 DEF Current, Types
        <4>2. obj[u][2] = o[2]
          BY <1>c, <1>o, <4>1 DEF Objects
        <4>3. obj[u] = o
          BY <1>o, <2>2, <4>1, <4>2 DEF Objects
        <4> QED BY <1>o, <3>2, <4>3
      <3> QED BY <1>3, <3>1, <3>2
    <2>3. ASSUME NEW p \in Queued PROVE p[1] # o[1]
      <3> SUFFICES ASSUME p[1] = o[1] PROVE FALSE
        OBVIOUS
      <3>1. p \in Objects /\ p[2] + 1 = attempts[o[1]]
        BY QueuedObjects DEF Current
      <3>2. p[2] = o[2]
        BY <1>c, <1>o, <3>1 DEF Objects
      <3>3. p = o
        BY <1>o, <3>1, <3>2 DEF Objects
      <3> QED BY <1>o, <3>3
    <2>4. /\ e.key \in DOMAIN disk /\ e.key \notin lost /\ disk[e.key] = o[1]
          /\ e.retries = attempts[disk[e.key]] /\ \A p \in Objects : body[p] # e.key
      BY <1>2, <1>c, <1>s
    <2>5. \A w \in Due : \A u \in Threads : obj[u] # None /\ obj[u][1] = disk[w.key] => pc'[u] = "free"
      BY <1>3 DEF TasksSound
    <2>6. \A w \in Due' :
            /\ w.key \in DOMAIN disk /\ w.key \notin lost
            /\ w.retries = attempts[disk[w.key]]
            /\ \A u \in Threads : obj[u] # None /\ obj[u][1] = disk[w.key] => pc'[u] = "free"
            /\ \A p \in Queued : p[1] # disk[w.key]
            /\ \A p \in Objects : body[p] # w.key
      BY <1>4, <2>2, <2>3, <2>4, <2>5 DEF TasksSound
    <2>7. \A w, v \in Due' : disk[w.key] = disk[v.key] => w = v
      BY <1>4, <1>c, <2>4 DEF TasksSound
    <2> QED BY <1>1, <1>4, <2>1, <2>6, <2>7 DEF TasksSound
  <1>12. SavesSound'
    <2> SUFFICES ASSUME NEW u \in Threads PROVE SaveSound(u)'
      BY DEF SavesSound
    <2>1. CASE u = t
      BY <1>3, <2>1 DEF SaveSound, Linked
    <2>2. CASE u # t
      BY <1>1, <1>3, <1>4, <2>2 DEF SavesSound, SaveSound
    <2> QED BY <2>1, <2>2
  <1>13. ActiveSound'
    BY <1>1, <1>3, <1>4 DEF ActiveSound
  <1>14. DiskSound'
    BY <1>1, <1>2, <1>4 DEF DiskSound
  <1> QED BY <1>5, <1>6, <1>7, <1>8, <1>9, <1>10, <1>11, <1>12, <1>13, <1>14

\* The object goes, and with it the name of its file: ~FileHolder.
LEMMA FreeIInv ==
    ASSUME IInv, NEW t \in Threads, Free(t)
    PROVE  IInv'
  <1> USE DEF IInv
  <1> DEFINE o == obj[t]
             key == body[obj[t]]
  <1>1. /\ pc[t] = "free" /\ pc' = [pc EXCEPT ![t] = Idle(t)]
        /\ disk' = Without(disk, key)
        /\ body' = [body EXCEPT ![o] = None] /\ delay' = [delay EXCEPT ![o] = 0]
        /\ obj' = [obj EXCEPT ![t] = None] /\ saving' = [saving EXCEPT ![t] = None]
        /\ UNCHANGED <<now, keyid, active, waiting, queue, popped, attempts, lost>>
    BY DEF Free, Goto, poolVars
  <1>o. /\ o \in Objects /\ o # None /\ o \notin Queued
        /\ \A u \in Threads : obj[u] = o => u = t
    BY <1>1, OwnObject DEF Alone
  <1>b. /\ \A p \in Objects : p # o /\ body[p] # None => body[p] # key
        /\ key \notin DOMAIN active
        /\ \A w \in Due : w.key # key
    <2>1. key \notin DOMAIN active
      BY <1>1, <1>o, NoneAssumption DEF ActiveSound, Types
    <2> QED BY <1>o, <2>1 DEF BodiesSound, TasksSound
  <1>2. /\ DOMAIN disk' = DOMAIN disk \ {key}
        /\ \A x \in DOMAIN disk \ {key} : disk'[x] = disk[x]
    BY <1>1 DEF Without, Restrict
  <1>3. /\ pc'[t] = Idle(t) /\ \A u \in Threads \ {t} : pc'[u] = pc[u]
        /\ obj'[t] = None /\ \A u \in Threads \ {t} : obj'[u] = obj[u] /\ saving'[u] = saving[u]
        /\ body'[o] = None /\ \A p \in Objects \ {o} : body'[p] = body[p]
        /\ Idle(t) \in {"idle", "poll"}
    BY <1>1, <1>o DEF Types, Idle
  <1> HIDE DEF o, key
  <1>4. /\ \A u \in Threads : Linked(u)' <=> Linked(u)
        /\ UNCHANGED <<Queued, Due>> /\ \A x : Given(x)' <=> Given(x)
    BY <1>1, <1>3 DEF Linked, Queued, Due, Given
  <1>n. \A u \in Threads : Linked(u) => saving[u].new # key
    BY <1>o, NoneAssumption DEF SavesSound, SaveSound, o, key
  <1>5. Types'
    <2>1. pc' \in [Threads -> Labels]
      BY <1>1, <1>3 DEF Types, Labels, Resting
    <2>2. /\ obj' \in [Threads -> Objects \union {None}] /\ saving' \in [Threads -> Savings \union {None}]
          /\ body' \in [Objects -> Keys \union {None}] /\ delay' \in [Objects -> Delays \union {0}]
      BY <1>1 DEF Types
    <2>3. DOMAIN disk' \subseteq Keys /\ \A x \in DOMAIN disk' : disk'[x] \in Requests
      BY <1>2 DEF Types
    <2> QED BY <1>1, <2>1, <2>2, <2>3 DEF Types
  <1>6. Control'
    BY <1>1, <1>3 DEF Control, Resting, Threads
  <1>7. KeysGiven'
    BY <1>1, <1>2, <1>3, <1>4 DEF KeysGiven
  <1>8. Holders'
    <2>1. None \notin Queued
      BY NoneAssumption, QueuedObjects
    <2>2. \A u \in Threads : pc'[u] \in Alone =>
            obj'[u] \notin Queued' /\ \A x \in Threads : obj'[x] = obj'[u] => x = u
      BY <1>3, <1>4 DEF Holders, Alone, Control, Resting
    <2>3. \A w, x \in Workers : obj'[w] = obj'[x] /\ obj'[w] # None => w = x
      BY <1>3 DEF Holders, Threads
    <2>4. \A w \in Workers : obj'[w] \notin Queued'
      BY <1>3, <1>4, <2>1 DEF Holders, Threads
    <2> QED BY <1>1, <2>2, <2>3, <2>4 DEF Holders
  <1>9. Current'
    BY <1>1, <1>3, <1>4 DEF Current
  <1>10. BodiesSound'
    <2>1. ASSUME NEW p \in Objects, body'[p] # None
          PROVE  /\ p \in Queued \/ \E u \in Threads : obj'[u] = p
                 /\ body'[p] \in DOMAIN disk' /\ disk'[body'[p]] = p[1] /\ body'[p] \notin lost
      <3>1. p # o /\ body'[p] = body[p] /\ body[p] # key
        BY <1>3, <1>b, <2>1
      <3>2. p \in Queued \/ \E u \in Threads \ {t} : obj[u] = p
        BY <2>1, <3>1 DEF BodiesSound, o
      <3> QED BY <1>2, <1>3, <2>1, <3>1, <3>2 DEF BodiesSound
    <2>2. \A p, q \in Objects : body'[p] = body'[q] /\ body'[p] # None => p = q
      BY <1>3, <1>o DEF BodiesSound
    <2>3. ASSUME NEW u \in Threads, obj'[u] # None, body'[obj'[u]] = None PROVE obj'[u][2] = 0
      <3>1. u # t /\ obj'[u] = obj[u] /\ obj[u] # o /\ obj[u] \in Objects
        BY <1>3, <1>o, <2>3 DEF Types
      <3> QED BY <1>3, <2>3, <3>1 DEF BodiesSound
    <2>4. \A p \in Queued : body'[p] = None => p[2] = 0
      BY <1>3, <1>o, QueuedObjects DEF BodiesSound
    <2> QED BY <1>1, <1>4, <2>1, <2>2, <2>3, <2>4 DEF BodiesSound
  <1>11. TasksSound'
    <2>1. \A w \in Due : w.key \in DOMAIN disk' /\ disk'[w.key] = disk[w.key]
      BY <1>2, <1>b DEF TasksSound
    <2>2. \A w \in Due : \A u \in Threads :
            obj'[u] # None /\ obj'[u][1] = disk[w.key] => pc'[u] = "free"
      BY <1>3 DEF TasksSound
    <2>3. \A w \in Due : \A p \in Objects : body'[p] # w.key
      <3>1. \A w \in Due : w.key # None
        BY NoneAssumption DEF TasksSound, Types
      <3> QED BY <1>3, <3>1 DEF TasksSound
    <2> QED BY <1>1, <1>4, <2>1, <2>2, <2>3 DEF TasksSound
  <1>12. SavesSound'
    <2> SUFFICES ASSUME NEW u \in Threads PROVE SaveSound(u)'
      BY DEF SavesSound
    <2>1. CASE u = t
      BY <1>3, <2>1 DEF SaveSound, Linked
    <2>2. CASE u # t
      <3>1. /\ SaveSound(u) /\ pc'[u] = pc[u] /\ saving'[u] = saving[u] /\ obj'[u] = obj[u]
            /\ (Linked(u)' <=> Linked(u)) /\ lost' = lost
        BY <1>1, <1>3, <1>4, <2>2 DEF SavesSound
      <3>2. pc[u] \in {"link", "erase"} => body'[obj[u]] = body[obj[u]]
        <4>1. pc[u] \in {"link", "erase"} => obj[u] \in Objects /\ obj[u] # o
          BY <1>o, <2>2 DEF Control, Resting, Types
        <4> QED BY <1>3, <4>1
      <3>3. Linked(u) => /\ saving[u].new \in DOMAIN disk' /\ disk'[saving[u].new] = obj[u][1]
                         /\ \A p \in Objects : body'[p] # saving[u].new
        BY <1>2, <1>3, <1>n, <3>1 DEF SaveSound, Linked
      <3>4. pc[u] \in {"link", "erase"} /\ body[obj[u]] = None => saving[u].key \notin DOMAIN disk'
        BY <1>2, <3>1 DEF SaveSound
      <3> QED BY <3>1, <3>2, <3>3, <3>4 DEF SaveSound
    <2> QED BY <2>1, <2>2
  <1>13. ActiveSound'
    <2>1. \A x \in DOMAIN active : x \in lost \/ \E p \in Objects : body'[p] = x
      BY <1>3, <1>b DEF ActiveSound, o, key
    <2>2. \A p \in Objects : body'[p] \in DOMAIN active => active[body'[p]] = p[2]
      <3>1. None \notin DOMAIN active
        BY NoneAssumption DEF Types
      <3> QED BY <1>3, <3>1 DEF ActiveSound
    <2>3. ASSUME NEW u \in Threads, obj'[u] # None, body'[obj'[u]] # None
          PROVE  body'[obj'[u]] \in DOMAIN active <=> pc'[u] \notin {"insert", "free"}
      <3>1. u # t /\ obj'[u] = obj[u] /\ obj[u] # o /\ obj[u] \in Objects /\ pc'[u] = pc[u]
        BY <1>3, <1>o, <2>3 DEF Types
      <3> QED BY <1>3, <2>3, <3>1 DEF ActiveSound
    <2>4. \A p \in Queued : body'[p] # None => body'[p] \in DOMAIN active
      BY <1>3, <1>o, QueuedObjects DEF ActiveSound
    <2> QED BY <1>1, <1>4, <2>1, <2>2, <2>3, <2>4 DEF ActiveSound
  <1>14. DiskSound'
    <2> SUFFICES ASSUME NEW x \in DOMAIN disk'
                 PROVE  \/ x \in lost
                        \/ \E p \in Objects : body'[p] = x
                        \/ \E w \in Due : w.key = x
                        \/ \E u \in Threads : Linked(u)' /\ saving'[u].new = x
      BY <1>1, <1>4 DEF DiskSound
    <2>1. x \in DOMAIN disk /\ x # key
      BY <1>2
    <2>2. \A p \in Objects : body[p] = x => body'[p] = x
      BY <1>3, <2>1 DEF o, key
    <2>3. \A u \in Threads : Linked(u) => u # t
      BY <1>1 DEF Linked
    <2> QED BY <1>3, <1>4, <2>1, <2>2, <2>3 DEF DiskSound
  <1> QED BY <1>5, <1>6, <1>7, <1>8, <1>9, <1>10, <1>11, <1>12, <1>13, <1>14

-----------------------------------------------------------------------------
(* The cache thread. *)

\* The cache thread takes a task that is due.
LEMMA PollDueIInv ==
    ASSUME IInv, PollDue
    PROVE  IInv'
  <1> USE DEF IInv
  <1>1. /\ pc[CacheThread] = "poll" /\ pc' = [pc EXCEPT ![CacheThread] = "load"]
        /\ UNCHANGED <<now, keyid, disk, active, queue, obj, saving, body, delay, attempts, lost>>
    BY DEF PollDue, Goto, poolVars, objVars
  <1>w. PICK w \in waiting : popped' = w /\ waiting' = waiting \ {w}
    BY DEF PollDue, Earliest
  <1>t. w \in Tasks /\ w # None /\ popped = None /\ CacheThread \in Threads
    BY <1>1, NoneAssumption DEF Types, Control, Threads
  <1>3. pc'[CacheThread] = "load" /\ \A u \in Threads \ {CacheThread} : pc'[u] = pc[u]
    BY <1>1, <1>t DEF Types
  <1>4. /\ \A u \in Threads : Linked(u)' <=> Linked(u)
        /\ Due' = Due /\ Queued' = Queued /\ \A x : Given(x)' <=> Given(x)
    BY <1>1, <1>3, <1>t, <1>w DEF Linked, Queued, Due, Given
  <1>5. Types'
    <2>1. pc' \in [Threads -> Labels]
      BY <1>1 DEF Types, Labels, Resting
    <2> QED BY <1>1, <1>t, <1>w, <2>1 DEF Types
  <1>6. Control'
    BY <1>1, <1>3, <1>t, <1>w DEF Control, Resting, Threads
  <1>7. KeysGiven'
    BY <1>1, <1>3, <1>4 DEF KeysGiven
  <1>8. Holders'
    BY <1>1, <1>3, <1>4 DEF Holders, Alone
  <1>9. Current'
    BY <1>1, <1>3, <1>4 DEF Current, Control, Resting
  <1>10. BodiesSound'
    BY <1>1, <1>4 DEF BodiesSound
  <1>11. TasksSound'
    <2>1. popped' \notin waiting'
      BY <1>w
    <2> QED BY <1>1, <1>3, <1>4, <2>1 DEF TasksSound, Control, Resting
  <1>12. SavesSound'
    BY <1>1, <1>3, <1>4 DEF SavesSound, SaveSound
  <1>13. ActiveSound'
    BY <1>1, <1>3, <1>4 DEF ActiveSound, Control, Resting
  <1>14. DiskSound'
    BY <1>1, <1>4 DEF DiskSound
  <1> QED BY <1>5, <1>6, <1>7, <1>8, <1>9, <1>10, <1>11, <1>12, <1>13, <1>14

\* What is known of the task the cache thread has just taken.
LEMMA PoppedTask ==
    ASSUME IInv, pc[CacheThread] = "load"
    PROVE  /\ popped # None /\ popped \in Tasks /\ popped \in Due /\ CacheThread \in Threads
           /\ obj[CacheThread] = None /\ CacheThread \notin Workers
           /\ popped.key \in DOMAIN disk /\ popped.key \in Keys /\ popped.key # None
           /\ popped.key \notin lost /\ popped.key \notin DOMAIN active
           /\ disk[popped.key] \in Requests
           /\ popped.retries = attempts[disk[popped.key]]
           /\ popped.retries \in 1 .. MaxRetries
           /\ \A u \in Threads : obj[u] # None /\ obj[u][1] = disk[popped.key] => pc[u] = "free"
           /\ \A o \in Queued : o[1] # disk[popped.key]
           /\ \A o \in Objects : body[o] # popped.key
           /\ \A w \in waiting : w \in Due /\ w.key # popped.key /\ disk[w.key] # disk[popped.key]
           /\ \A u \in Threads : Linked(u) =>
                saving[u].new # popped.key /\ obj[u][1] # disk[popped.key]
  <1> USE DEF IInv
  <1>1. popped # None /\ popped \in Tasks /\ popped \in Due /\ CacheThread \in Threads
    BY DEF Control, Types, Due, Threads
  <1>2. obj[CacheThread] = None /\ CacheThread \notin Workers
    BY <1>1, ThreadsAssumption DEF Control, Resting
  <1>3. /\ popped.key \in DOMAIN disk /\ popped.key \notin lost
        /\ popped.retries = attempts[disk[popped.key]]
        /\ \A u \in Threads : obj[u] # None /\ obj[u][1] = disk[popped.key] => pc[u] = "free"
        /\ \A o \in Queued : o[1] # disk[popped.key]
        /\ \A o \in Objects : body[o] # popped.key
    BY <1>1 DEF TasksSound
  <1>4. popped.key \in Keys /\ popped.key # None /\ popped.retries \in 1 .. MaxRetries
    BY <1>1, NoneAssumption DEF Tasks
  <1>5. disk[popped.key] \in Requests
    BY <1>3 DEF Types
  <1>6. popped.key \notin DOMAIN active
    BY <1>3 DEF ActiveSound
  <1>7. \A w \in waiting : w \in Due /\ w.key # popped.key /\ disk[w.key] # disk[popped.key]
    BY <1>1 DEF TasksSound, Due
  <1>8. ASSUME NEW u \in Threads, Linked(u)
        PROVE  saving[u].new # popped.key /\ obj[u][1] # disk[popped.key]
    <2>1. obj[u] # None /\ pc[u] # "free"
      BY <1>8 DEF Linked, Control, Resting
    <2>2. disk[saving[u].new] = obj[u][1]
      BY <1>8 DEF SavesSound, SaveSound
    <2> QED BY <1>3, <2>1, <2>2
  <1> QED BY <1>1, <1>2, <1>3, <1>4, <1>5, <1>6, <1>7, <1>8

\* The file cannot be opened, or what is in it cannot be parsed: the task is gone,
\* and its key is left in active_ or on disk.
LEMMA LoadFailsIInv ==
    ASSUME IInv, OpenFails \/ ParseFails
    PROVE  IInv'
  <1> USE DEF IInv
  <1> DEFINE key == popped.key
  <1>1. /\ pc[CacheThread] = "load" /\ pc' = [pc EXCEPT ![CacheThread] = "poll"]
        /\ lost' = lost \union {key} /\ popped' = None
        /\ \/ UNCHANGED <<disk, active>>
           \/ active' = insert(active, key, popped.retries) /\ disk' = Without(disk, key)
        /\ UNCHANGED <<now, keyid, waiting, queue, obj, saving, body, delay, attempts>>
    BY DEF OpenFails, ParseFails, Goto, poolVars, objVars
  <1>p. /\ popped # None /\ CacheThread \in Threads
        /\ obj[CacheThread] = None
        /\ key \in DOMAIN disk /\ key \in Keys
        /\ key \notin lost /\ key \notin DOMAIN active
        /\ \A o \in Objects : body[o] # key
        /\ \A w \in waiting : w \in Due /\ w.key # key
        /\ \A u \in Threads : Linked(u) => saving[u].new # key
    BY <1>1, PoppedTask
  <1>d. Due' = waiting /\ \A w \in Due : w \in waiting \/ w = popped
    BY <1>1 DEF Due
  <1>g. Given(key)
    BY <1>p DEF KeysGiven
  <1>2. /\ DOMAIN active \subseteq DOMAIN active' /\ DOMAIN active' \subseteq DOMAIN active \union {key}
        /\ \A x \in DOMAIN active : active'[x] = active[x]
        /\ DOMAIN disk' \subseteq DOMAIN disk /\ DOMAIN disk \ {key} \subseteq DOMAIN disk'
        /\ \A x \in DOMAIN disk' : disk'[x] = disk[x]
    BY <1>1, <1>p DEF insert, Without, Restrict
  <1>k. \A w \in Due : w.key = key => w = popped
    BY <1>d, <1>p
  <1> HIDE DEF key
  <1>3. pc'[CacheThread] = "poll" /\ \A u \in Threads \ {CacheThread} : pc'[u] = pc[u]
    BY <1>1, <1>p DEF Types
  <1>4. /\ \A u \in Threads : Linked(u)' <=> Linked(u)
        /\ Queued' = Queued /\ \A x : Given(x)' <=> Given(x)
    BY <1>1, <1>3 DEF Linked, Queued, Given
  <1>5. Types'
    <2>1. pc' \in [Threads -> Labels]
      BY <1>1 DEF Types, Labels, Resting
    <2>2. /\ DOMAIN disk' \subseteq Keys /\ (\A x \in DOMAIN disk' : disk'[x] \in Requests)
          /\ DOMAIN active' \subseteq Keys /\ lost' \subseteq Keys
      BY <1>1, <1>2, <1>p DEF Types
    <2> QED BY <1>1, <2>1, <2>2 DEF Types
  <1>6. Control'
    BY <1>1, <1>3, <1>p DEF Control, Resting, Threads
  <1>7. KeysGiven'
    <2>1. \A x \in DOMAIN disk' \union DOMAIN active' \union lost' : Given(x)
      BY <1>1, <1>2, <1>g DEF KeysGiven
    <2> QED BY <1>1, <1>3, <1>4, <2>1 DEF KeysGiven
  <1>8. Holders'
    BY <1>1, <1>3, <1>4 DEF Holders, Alone
  <1>9. Current'
    BY <1>1, <1>3, <1>4, <1>p DEF Current
  <1>10. BodiesSound'
    <2>1. \A o \in Objects : body[o] # None =>
            body[o] \in DOMAIN disk' /\ disk'[body[o]] = o[1] /\ body[o] \notin lost'
      BY <1>1, <1>2, <1>p DEF BodiesSound
    <2> QED BY <1>1, <1>4, <2>1 DEF BodiesSound
  <1>11. TasksSound'
    <2>1. popped' \notin waiting'
      BY <1>1, NoneAssumption DEF Types
    <2>2. \A w \in waiting : w.key \in DOMAIN disk' /\ disk'[w.key] = disk[w.key] /\ w.key \notin lost'
      BY <1>1, <1>2, <1>p DEF TasksSound
    <2>3. \A w \in waiting : \A u \in Threads :
            obj'[u] # None /\ obj'[u][1] = disk[w.key] => pc'[u] = "free"
      BY <1>1, <1>3, <1>p DEF TasksSound
    <2> QED BY <1>1, <1>4, <1>d, <1>p, <2>1, <2>2, <2>3 DEF TasksSound
  <1>12. SavesSound'
    <2> SUFFICES ASSUME NEW u \in Threads PROVE SaveSound(u)'
      BY DEF SavesSound
    <2>1. CASE u = CacheThread
      BY <1>3, <2>1 DEF SaveSound, Linked
    <2>2. CASE u # CacheThread
      <3>1. /\ SaveSound(u) /\ pc'[u] = pc[u] /\ UNCHANGED <<saving, obj, body>>
            /\ (Linked(u)' <=> Linked(u))
        BY <1>1, <1>3, <1>4, <2>2 DEF SavesSound
      <3>2. Linked(u) => /\ saving[u].new \in DOMAIN disk' /\ disk'[saving[u].new] = obj[u][1]
                         /\ saving[u].new \notin lost'
        BY <1>1, <1>2, <1>p, <3>1 DEF SaveSound
      <3>3. pc[u] \in {"link", "erase"} /\ body[obj[u]] = None => saving[u].key \notin DOMAIN disk'
        BY <1>2, <3>1 DEF SaveSound
      <3> QED BY <3>1, <3>2, <3>3 DEF SaveSound
    <2> QED BY <2>1, <2>2
  <1>13. ActiveSound'
    <2>1. \A o \in Objects : body[o] \in DOMAIN active' <=> body[o] \in DOMAIN active
      BY <1>2, <1>p
    <2>2. \A x \in DOMAIN active' : x \in lost' \/ \E o \in Objects : body[o] = x
      BY <1>1, <1>2 DEF ActiveSound
    <2>3. ASSUME NEW u \in Threads, obj[u] # None, body[obj[u]] # None
          PROVE  body[obj[u]] \in DOMAIN active' <=> pc'[u] \notin {"insert", "free"}
      <3>1. u # CacheThread /\ pc'[u] = pc[u] /\ obj[u] \in Objects
        BY <1>3, <1>p, <2>3 DEF Types
      <3> QED BY <2>1, <2>3, <3>1 DEF ActiveSound
    <2>4. \A o \in Queued : body[o] # None => body[o] \in DOMAIN active'
      BY <1>2 DEF ActiveSound
    <2>5. \A o \in Objects : body[o] \in DOMAIN active' => active'[body[o]] = o[2]
      BY <1>2, <2>1 DEF ActiveSound
    <2> QED BY <1>1, <1>4, <2>2, <2>3, <2>4, <2>5 DEF ActiveSound
  <1>14. DiskSound'
    <2> SUFFICES ASSUME NEW x \in DOMAIN disk'
                 PROVE  \/ x \in lost'
                        \/ \E o \in Objects : body[o] = x
                        \/ \E w \in waiting : w.key = x
                        \/ \E u \in Threads : Linked(u) /\ saving[u].new = x
      BY <1>1, <1>4, <1>d DEF DiskSound
    <2>1. x \in DOMAIN disk
      BY <1>2
    <2> QED BY <1>1, <1>d, <2>1 DEF DiskSound, key
  <1> QED BY <1>5, <1>6, <1>7, <1>8, <1>9, <1>10, <1>11, <1>12, <1>13, <1>14

\* The task becomes an object, with the task's file as its body and the task's
\* count in active_.
LEMMA LoadRetryIInv ==
    ASSUME IInv, LoadRetry
    PROVE  IInv'
  <1> USE DEF IInv
  <1> DEFINE key == popped.key
             r == disk[popped.key]
             n == <<r, attempts[r]>>
             c == CacheThread
  <1>1. /\ pc[c] = "load" /\ NewObject(c, r) /\ body' = [body EXCEPT ![n] = key]
        /\ active' = insert(active, key, popped.retries) /\ popped' = None
        /\ UNCHANGED <<now, keyid, disk, waiting, queue, saving, delay, lost>>
    BY DEF LoadRetry, poolVars
  <1>l. PICK label \in {"submit", "release"} : pc' = [pc EXCEPT ![c] = label]
    BY DEF LoadRetry, Goto
  <1>p. /\ popped # None /\ c \in Threads /\ obj[c] = None /\ c \notin Workers
        /\ key \in DOMAIN disk /\ key \in Keys /\ key # None
        /\ key \notin lost /\ key \notin DOMAIN active
        /\ r \in Requests /\ popped.retries = attempts[r] /\ popped.retries \in 1 .. MaxRetries
        /\ \A u \in Threads : obj[u] # None /\ obj[u][1] = r => pc[u] = "free"
        /\ \A o \in Queued : o[1] # r
        /\ \A o \in Objects : body[o] # key
        /\ \A w \in waiting : w \in Due /\ w.key # key /\ disk[w.key] # r
        /\ \A u \in Threads : Linked(u) => saving[u].new # key
    BY <1>1, PoppedTask
  <1>4. /\ n \in Objects /\ Queued' = Queued
        /\ obj'[c] = n /\ \A u \in Threads \ {c} : obj'[u] = obj[u]
        /\ pc'[c] = label /\ \A u \in Threads \ {c} : pc'[u] = pc[u]
        /\ \A q \in Requests \ {r} : attempts'[q] = attempts[q]
        /\ n \notin Queued /\ \A u \in Threads : obj[u] # n
        /\ attempts' \in [Requests -> 0 .. MaxRetries + 1]
        /\ pc' \in [Threads -> Labels] /\ obj' \in [Threads -> Objects \union {None}]
        /\ Holders' /\ Current'
    <2>1. attempts[r] <= MaxRetries
      BY <1>p, MaxRetriesAssumption
    <2>2. PICK q \in Requests : q = r
      BY <1>p
    <2>3. /\ attempts[q] <= MaxRetries /\ NewObject(c, q)
          /\ \A u \in Threads : obj[u] # None /\ obj[u][1] = q => pc[u] = "free"
          /\ \A o \in Queued : o[1] # q
      BY <1>1, <1>p, <2>1, <2>2
    <2>4. c \in Threads /\ obj[c] = None /\ c \notin Workers /\ UNCHANGED <<queue, delay>>
      BY <1>1, <1>p
    <2>5. IInv
      OBVIOUS
    <2> HIDE DEF IInv, c, r, n, key
    <2>6. /\ <<q, attempts[q]>> \in Objects /\ Queued' = Queued
          /\ obj'[c] = <<q, attempts[q]>> /\ \A u \in Threads \ {c} : obj'[u] = obj[u]
          /\ pc'[c] = label /\ \A u \in Threads \ {c} : pc'[u] = pc[u]
          /\ \A x \in Requests \ {q} : attempts'[x] = attempts[x]
          /\ <<q, attempts[q]>> \notin Queued /\ \A u \in Threads : obj[u] # <<q, attempts[q]>>
          /\ attempts' \in [Requests -> 0 .. MaxRetries + 1]
          /\ pc' \in [Threads -> Labels] /\ obj' \in [Threads -> Objects \union {None}]
          /\ Holders' /\ Current'
      BY <1>l, <2>3, <2>4, <2>5, NewObjectIInv
    <2> QED BY <2>2, <2>6 DEF n
  <1>n. n[1] = r /\ n[2] = popped.retries
    BY <1>p
  <1>d. Due' = waiting /\ \A w \in Due : w \in waiting \/ w = popped
    BY <1>1 DEF Due
  <1>c. c \notin Workers /\ c = CacheThread
    BY <1>p
  <1> HIDE DEF n, r, key, c
  <1>7. /\ DOMAIN active' = DOMAIN active \union {key} /\ active'[key] = popped.retries
        /\ \A x \in DOMAIN active : active'[x] = active[x]
    BY <1>1, <1>p DEF insert
  <1>8. body'[n] = key /\ \A o \in Objects \ {n} : body'[o] = body[o]
    BY <1>1, <1>4 DEF Types
  <1>b. body[n] = None
    BY <1>4 DEF BodiesSound
  <1>9. /\ \A u \in Threads : Linked(u)' <=> Linked(u)
        /\ \A x : Given(x)' <=> Given(x)
    <2>1. ~Linked(c) /\ ~Linked(c)'
      BY <1>1, <1>4, <1>l DEF Linked
    <2> QED BY <1>1, <1>4, <2>1 DEF Linked, Given
  <1>10. Types'
    <2>1. body' \in [Objects -> Keys \union {None}]
      BY <1>1, <1>p DEF Types
    <2>2. DOMAIN active' \subseteq Keys
      BY <1>7, <1>p DEF Types
    <2> QED BY <1>1, <1>4, <2>1, <2>2 DEF Types
  <1>11. Control'
    <2>1. n # None
      BY <1>4, NoneAssumption
    <2>2. \A u \in Threads : obj'[u] = None <=> pc'[u] \in Resting
      BY <1>4, <1>l, <2>1 DEF Control, Resting
    <2>3. \A w \in Workers : pc'[w] # "submit"
      BY <1>4, <1>c DEF Control, Threads
    <2>4. popped' = None <=> pc'[CacheThread] # "load"
      BY <1>1, <1>4, <1>l, <1>c
    <2> QED BY <2>2, <2>3, <2>4 DEF Control
  <1>12. KeysGiven'
    <2>1. \A x \in DOMAIN disk' \union DOMAIN active' \union lost' : Given(x)
      BY <1>1, <1>7, <1>p DEF KeysGiven
    <2>2. \A u \in Threads : pc'[u] \in {"link", "erase"} => pc[u] = pc'[u]
      BY <1>4, <1>l
    <2> QED BY <1>1, <1>9, <2>1, <2>2 DEF KeysGiven
  <1>13. BodiesSound'
    <2>1. ASSUME NEW o \in Objects, body'[o] # None
          PROVE  /\ o \in Queued \/ \E u \in Threads : obj'[u] = o
                 /\ body'[o] \in DOMAIN disk /\ disk[body'[o]] = o[1] /\ body'[o] \notin lost
      <3>1. CASE o = n
        <4>1. body'[o] = key /\ obj'[c] = o /\ o[1] = r
          BY <1>4, <1>8, <1>n, <3>1
        <4> QED BY <1>p, <4>1 DEF r, key
      <3>2. CASE o # n
        <4>1. body'[o] = body[o]
          BY <1>8, <3>2
        <4>2. o \in Queued \/ \E u \in Threads : obj'[u] = o
          BY <1>p, <1>4, <2>1, <4>1, NoneAssumption DEF BodiesSound
        <4> QED BY <2>1, <4>1, <4>2 DEF BodiesSound
      <3> QED BY <3>1, <3>2
    <2>2. \A o, p \in Objects : body'[o] = body'[p] /\ body'[o] # None => o = p
      BY <1>8, <1>p DEF BodiesSound
    <2>3. ASSUME NEW u \in Threads, obj'[u] # None, body'[obj'[u]] = None PROVE obj'[u][2] = 0
      <3>1. CASE u = c
        BY <1>4, <1>8, <1>p, <2>3, <3>1
      <3>2. CASE u # c
        <4>1. obj'[u] = obj[u] /\ obj[u] \in Objects \ {n}
          BY <1>4, <2>3, <3>2 DEF Types
        <4> QED BY <1>8, <2>3, <4>1 DEF BodiesSound
      <3> QED BY <3>1, <3>2
    <2>4. \A o \in Queued : body'[o] = None => o[2] = 0
      BY <1>4, <1>8, QueuedObjects DEF BodiesSound
    <2> QED BY <1>1, <1>4, <2>1, <2>2, <2>3, <2>4 DEF BodiesSound
  <1>14. TasksSound'
    <2>1. popped' \notin waiting'
      BY <1>1, NoneAssumption DEF Types
    <2>2. \A w \in waiting : attempts'[disk[w.key]] = attempts[disk[w.key]]
      BY <1>4, <1>p DEF TasksSound, Types
    <2>3. \A w \in waiting : \A u \in Threads :
            obj'[u] # None /\ obj'[u][1] = disk[w.key] => pc'[u] = "free"
      BY <1>4, <1>n, <1>p DEF TasksSound
    <2>4. \A w \in waiting : \A o \in Objects : body'[o] # w.key
      BY <1>8, <1>p DEF TasksSound
    <2> QED BY <1>1, <1>4, <1>d, <1>p, <2>1, <2>2, <2>3, <2>4 DEF TasksSound
  <1>15. SavesSound'
    <2> SUFFICES ASSUME NEW u \in Threads PROVE SaveSound(u)'
      BY DEF SavesSound
    <2>1. CASE u = c
      BY <1>4, <1>l, <2>1 DEF SaveSound, Linked
    <2>2. CASE u # c
      <3>1. /\ SaveSound(u) /\ pc'[u] = pc[u] /\ obj'[u] = obj[u] /\ obj[u] # n
            /\ UNCHANGED <<saving, disk, lost>> /\ (Linked(u)' <=> Linked(u))
        BY <1>1, <1>4, <1>9, <2>2 DEF SavesSound
      <3>2. pc[u] \in {"link", "erase"} => body'[obj[u]] = body[obj[u]]
        <4>1. pc[u] \in {"link", "erase"} => obj[u] \in Objects
          BY DEF Control, Resting, Types
        <4> QED BY <1>8, <3>1, <4>1
      <3>3. Linked(u) => \A o \in Objects : body'[o] # saving[u].new
        BY <1>8, <1>p, <3>1 DEF SaveSound
      <3> QED BY <3>1, <3>2, <3>3 DEF SaveSound
    <2> QED BY <2>1, <2>2
  <1>16. ActiveSound'
    <2>1. \A x \in DOMAIN active' : x \in lost \/ \E o \in Objects : body'[o] = x
      <3>1. \A x \in DOMAIN active : x # None
        BY NoneAssumption DEF Types
      <3> QED BY <1>4, <1>7, <1>8, <1>b, <3>1 DEF ActiveSound
    <2>2. ASSUME NEW o \in Objects, body'[o] \in DOMAIN active' PROVE active'[body'[o]] = o[2]
      <3>1. CASE o = n
        BY <1>7, <1>8, <1>n, <3>1
      <3>2. CASE o # n
        <4>1. body'[o] = body[o] /\ body[o] # key
          BY <1>8, <1>p, <3>2
        <4> QED BY <1>7, <2>2, <4>1 DEF ActiveSound
      <3> QED BY <3>1, <3>2
    <2>3. ASSUME NEW u \in Threads, obj'[u] # None, body'[obj'[u]] # None
          PROVE  body'[obj'[u]] \in DOMAIN active' <=> pc'[u] \notin {"insert", "free"}
      <3>1. CASE u = c
        BY <1>4, <1>l, <1>7, <1>8, <3>1
      <3>2. CASE u # c
        <4>1. obj'[u] = obj[u] /\ obj[u] \in Objects \ {n} /\ pc'[u] = pc[u]
          BY <1>4, <2>3, <3>2 DEF Types
        <4>2. body'[obj[u]] = body[obj[u]] /\ body[obj[u]] # key
          BY <1>8, <1>p, <4>1
        <4> QED BY <1>7, <2>3, <4>1, <4>2 DEF ActiveSound
      <3> QED BY <3>1, <3>2
    <2>4. \A o \in Queued : body'[o] # None => body'[o] \in DOMAIN active'
      BY <1>4, <1>7, <1>8, QueuedObjects DEF ActiveSound
    <2> QED BY <1>1, <1>4, <2>1, <2>2, <2>3, <2>4 DEF ActiveSound
  <1>17. DiskSound'
    <2> SUFFICES ASSUME NEW x \in DOMAIN disk
                 PROVE  \/ x \in lost
                        \/ \E o \in Objects : body'[o] = x
                        \/ \E w \in waiting : w.key = x
                        \/ \E u \in Threads : Linked(u) /\ saving[u].new = x
      BY <1>1, <1>9, <1>d DEF DiskSound
    <2>1. x # None
      BY NoneAssumption DEF Types
    <2>2. \A o \in Objects : body[o] = x => body'[o] = x
      BY <1>8, <1>b, <2>1
    <2>3. popped.key = x => body'[n] = x
      BY <1>8 DEF key
    <2> QED BY <1>4, <1>d, <2>2, <2>3 DEF DiskSound
  <1> QED BY <1>4, <1>10, <1>11, <1>12, <1>13, <1>14, <1>15, <1>16, <1>17

-----------------------------------------------------------------------------
(* The theorems. *)

\* The last reference to an object, or one of several, is dropped.
LEMMA ReleaseIInv ==
    ASSUME IInv, NEW t \in Threads, Release(t)
    PROVE  IInv'
  <1>1. /\ pc[t] = "release"
        /\ UNCHANGED <<now, keyid, disk, active, waiting, queue, saving, popped, body, delay,
                       attempts, lost>>
    BY DEF Release, poolVars, objVars, cacheVars
  <1>2. CASE Shared(t)
    BY <1>1, <1>2, DropIInv DEF Release, Goto
  <1>3. CASE ~Shared(t)
    <2>1. obj[t] \notin Queued /\ \A u \in Threads : obj[u] = obj[t] => u = t
      BY <1>3 DEF Shared, Queued
    <2>2. pc' = [pc EXCEPT ![t] = "save"] /\ UNCHANGED obj
      BY <1>3 DEF Release, Goto
    <2>3. UNCHANGED <<cacheState, now>> /\ delay' \in [Objects -> Delays \union {0}]
      BY <1>1, <2>2 DEF cacheState, IInv, Types
    <2> QED BY <1>1, <2>1, <2>2, <2>3, MoveIInv
  <1> QED BY <1>2, <1>3

\* The pool refuses the request, or a worker has run its handlers.
LEMMA RanIInv ==
    ASSUME IInv, NEW t \in Threads, Refused(t) \/ Run(t)
    PROVE  IInv'
  <1>1. /\ pc[t] \in {"submit", "run", "release"} /\ pc' = [pc EXCEPT ![t] = "release"]
        /\ UNCHANGED <<now, keyid, disk, active, waiting, queue, obj, saving, popped, body,
                       attempts, lost>>
    BY DEF Refused, Run, Goto, poolVars, objVars, cacheVars
  <1>2. UNCHANGED <<cacheState, now>>
    BY <1>1 DEF cacheState
  <1>3. delay' \in [Objects -> Delays \union {0}]
    <2>1. delay \in [Objects -> Delays \union {0}]
      BY DEF IInv, Types
    <2>2. CASE Refused(t)
      BY <2>1, <2>2 DEF Refused, objVars
    <2>3. CASE Run(t)
      BY <2>1, <2>3 DEF Run
    <2> QED BY <2>2, <2>3
  <1> QED BY <1>1, <1>2, <1>3, MoveIInv

\* The cache thread starts, polls, waits and ends, the pool and the cache stop,
\* time passes.
LEMMA IdleIInv ==
    ASSUME IInv,
           \/ OnLoad \/ PollStopped \/ PollNothing \/ Park \/ Wake
           \/ PoolStop \/ Stop \/ Tick \/ UNCHANGED vars
    PROVE  IInv'
  <1>1. UNCHANGED <<keyid, disk, active, waiting, queue, obj, saving, popped, body, attempts, lost, delay>>
    BY DEF OnLoad, PollStopped, PollNothing, Park, Wake, PoolStop, Stop, Tick, vars,
           poolVars, objVars, cacheVars
  <1>2. UNCHANGED <<cacheState, delay>>
    BY <1>1 DEF cacheState
  <1>3. now' \in 0 .. MaxTime /\ now <= now'
    <2>1. now \in 0 .. MaxTime /\ now \in Int
      BY MaxTimeAssumption DEF IInv, Types
    <2>2. now' = now \/ (now < MaxTime /\ now' = now + 1)
      BY DEF OnLoad, PollStopped, PollNothing, Park, Wake, PoolStop, Stop, Tick, vars
    <2> QED BY <2>1, <2>2, MaxTimeAssumption
  <1>4. pc \in [Threads -> Labels] /\ CacheThread \in Threads
    BY DEF IInv, Types, Threads
  <1>5. \/ UNCHANGED pc
        \/ /\ pc[CacheThread] \in Resting \ {"load"}
           /\ \E l \in Resting \ {"load"} : pc' = [pc EXCEPT ![CacheThread] = l]
    <2>1. CASE OnLoad \/ PollStopped \/ PollNothing \/ Park \/ Wake
      BY <2>1 DEF OnLoad, PollStopped, PollNothing, Park, Wake, Goto, Resting
    <2>2. CASE Stop
      BY <2>2 DEF Stop, Resting
    <2>3. CASE PoolStop \/ Tick \/ UNCHANGED vars
      BY <2>3 DEF PoolStop, Tick, vars
    <2> QED BY <2>1, <2>2, <2>3
  <1>6. /\ pc' \in [Threads -> Labels]
        /\ \A t \in Threads : \/ pc'[t] = pc[t]
                              \/ pc[t] \in Resting \ {"load"} /\ pc'[t] \in Resting \ {"load"}
    BY <1>4, <1>5 DEF Labels
  <1> QED BY <1>2, <1>3, <1>6, PauseIInv

\* Every step keeps the invariant.
LEMMA NextIInv == IInv /\ [Next]_vars => IInv'
  <1> SUFFICES ASSUME IInv, [Next]_vars PROVE IInv'
    OBVIOUS
  <1>1. CASE Attach
    BY <1>1, AttachInMemoryIInv, AttachStoredIInv, AttachFailsIInv DEF Attach
  <1>2. ASSUME NEW t \in Threads, Submit(t) \/ Refused(t) \/ Release(t)
        PROVE  IInv'
    BY <1>2, SubmitIInv, RanIInv, ReleaseIInv
  <1>3. ASSUME NEW t \in Threads, Save(t)
        PROVE  IInv'
    BY <1>3, SaveLookupIInv, SaveLinkIInv, SaveFailsIInv, SaveEraseIInv, SaveInsertIInv, FreeIInv
       DEF Save
  <1>4. ASSUME NEW w \in Workers, Take(w) \/ Run(w)
        PROVE  IInv'
    BY <1>4, TakeIInv, RanIInv DEF Threads
  <1>5. CASE Handle
    BY <1>5, IdleIInv, PollDueIInv, LoadRetryIInv, LoadFailsIInv DEF Handle
  <1>6. CASE PoolStop \/ Stop \/ Tick \/ UNCHANGED vars
    BY <1>6, IdleIInv
  <1> QED BY <1>1, <1>2, <1>3, <1>4, <1>5, <1>6 DEF Next

\* The invariant that the theorems below rest on: it relates every file, key,
\* counter and task of the cache to the attempt that it stands for.
THEOREM Invariance == Spec => []IInv
  <1>1. Init => IInv
    BY InitIInv
  <1>2. IInv /\ [Next]_vars => IInv'
    BY NextIInv
  <1> QED BY <1>1, <1>2, PTL DEF Spec

\* The live objects, their files and the files of the retries to come, as the
\* invariant speaks of them.
LEMMA FilesOfUse ==
    ASSUME IInv
    PROVE  /\ Live \subseteq Objects
           /\ \A o \in Objects : body[o] # None => o \in Live
           /\ \A k : k \in Bodies <=> k # None /\ \E o \in Objects : body[o] = k
           /\ \A k : k \in Pending <=> \/ \E w \in Due : w.key = k
                                       \/ \E t \in Threads : Linked(t) /\ saving[t].new = k
  <1>1. \A o \in Objects : body[o] # None => o \in Live
    BY DEF IInv, BodiesSound, Live, Queued
  <1>2. \A t \in Threads : Linked(t) <=> pc[t] = "insert" \/ (pc[t] = "erase" /\ saving[t].new # None)
    BY DEF IInv, SavesSound, SaveSound, Linked
  <1>3. \A k : k \in Pending <=> \/ \E w \in Due : w.key = k
                                 \/ \E t \in Threads : Linked(t) /\ saving[t].new = k
    BY <1>2 DEF Pending, Due
  <1> QED BY <1>1, <1>3 DEF Bodies, Live

\* FilesExact: the file of a retry is never the one that ~FileHolder unlinks, and
\* no file and no entry of active_ outlives its use except after a failure.
THEOREM FilesAccounted == Spec => []FilesExact
  <1>1. ASSUME IInv PROVE FilesExact
    <2>1. Pending \union Bodies \subseteq DOMAIN disk
      BY <1>1, FilesOfUse DEF IInv, BodiesSound, TasksSound, SavesSound, SaveSound
    <2>2. DOMAIN disk \subseteq Bodies \union Pending \union lost
      <3>1. None \notin DOMAIN disk
        BY <1>1, NoneAssumption DEF IInv, Types
      <3> QED BY <1>1, <3>1, FilesOfUse DEF IInv, DiskSound
    <2>3. DOMAIN active \subseteq Bodies \union lost
      <3>1. None \notin DOMAIN active
        BY <1>1, NoneAssumption DEF IInv, Types
      <3> QED BY <1>1, <3>1, FilesOfUse DEF IInv, ActiveSound
    <2> QED BY <2>1, <2>2, <2>3 DEF FilesExact
  <1> QED BY <1>1, Invariance, PTL

\* OneOwner: no two live requests, and no live request and a retry to come, share
\* a file, and no two workers execute the same request.
THEOREM NothingShared == Spec => []OneOwner
  <1>1. ASSUME IInv PROVE OneOwner
    <2>1. Pending \intersect Bodies = {}
      BY <1>1, FilesOfUse DEF IInv, TasksSound, SavesSound, SaveSound
    <2>2. \A o, p \in Live : body[o] # None /\ body[o] = body[p] => o = p
      BY <1>1, FilesOfUse DEF IInv, BodiesSound
    <2>3. ASSUME NEW t \in Workers, NEW u \in Workers, pc[t] = "run", pc[u] = "run",
                 obj[t][1] = obj[u][1]
          PROVE  t = u
      <3>1. t \in Threads /\ u \in Threads
        BY DEF Threads
      <3>2. obj[t] # None /\ obj[u] # None /\ obj[t] \in Objects /\ obj[u] \in Objects
        BY <1>1, <2>3, <3>1 DEF IInv, Control, Resting, Types
      <3>3. obj[t][2] + 1 = obj[u][2] + 1
        BY <1>1, <2>3, <3>1, <3>2 DEF IInv, Current
      <3>4. obj[t] = obj[u]
        BY <2>3, <3>2, <3>3 DEF Objects
      <3> QED BY <1>1, <3>2, <3>4 DEF IInv, Holders
    <2> QED BY <2>1, <2>2, <2>3 DEF OneOwner, RequestOf
  <1> QED BY <1>1, Invariance, PTL

\* RetryBound: the counter in active_ and waiting_ is the number of attempts made,
\* under all the keys the request has had, so it is executed at most
\* 1 + max-retries times.
THEOREM RetriesCounted == Spec => []RetryBound
  <1>1. ASSUME IInv PROVE RetryBound
    <2>1. \A r \in Requests : attempts[r] <= MaxRetries + 1
      BY <1>1, MaxRetriesAssumption DEF IInv, Types
    <2>2. \A o \in Live : body[o] \in DOMAIN active => active[body[o]] = o[2]
      BY <1>1, FilesOfUse DEF IInv, ActiveSound
    <2>3. \A w \in waiting : w.key \in DOMAIN disk => w.retries = attempts[disk[w.key]]
      BY <1>1 DEF IInv, TasksSound, Due
    <2> QED BY <2>1, <2>2, <2>3 DEF RetryBound
  <1> QED BY <1>1, Invariance, PTL

=============================================================================
