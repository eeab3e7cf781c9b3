---------------------------- MODULE RequestCache ----------------------------
(***************************************************************************)
(* The on-disk request cache (request-cache/file_cache.cpp): a handler     *)
(* that calls Request::tryAgain(delay) has its request kept in a file and  *)
(* executed again, at most max-retries times.                              *)
(*                                                                         *)
(* A Request object is reference counted.  The listener or the cache       *)
(* thread that created it and the pool (its queue, then a worker) hold it; *)
(* the thread that drops the last reference runs ~Request, which calls     *)
(* FileRequestCache::save, and then frees the body, whose FileHolder       *)
(* unlinks the file.  The file of a retry is a second hard link made       *)
(* before that.                                                            *)
(*                                                                         *)
(* Keys are the triple hashed by KeyId::get; MD5 is taken as injective.    *)
(* The pool is what ThreadPool promises: a bounded FIFO of tasks.          *)
(***************************************************************************)
EXTENDS Integers, Sequences, FiniteSets, Functions

CONSTANTS Requests,      \* client requests; each arrives once
          Listeners,     \* threads running FCGIServer::handle
          Workers,       \* threads of the pool
          CacheThread,   \* the thread running FileRequestCache::handle
          MaxRetries,    \* <max-retries>
          QueueLength,   \* <queue> of the pool
          Delays,        \* delays handlers ask for
          MaxTime,       \* bound: the last second of the clock, standing for all later ones
          None

ASSUME MaxRetriesAssumption == MaxRetries \in Nat
ASSUME QueueLengthAssumption == QueueLength \in Nat
ASSUME DelaysAssumption == Delays \subseteq Nat \ {0}
ASSUME MaxTimeAssumption == MaxTime \in Nat

VARIABLES now,       \* time(NULL)
          keyid,     \* key_id_holder: each thread's KeyId, None until first used
          disk,      \* file name -> the request serialized in it
          active,    \* active_: key -> retries
          waiting,   \* waiting_: the delayed tasks, ordered by due time
          stopped,   \* stopped_
          queue,     \* the pool's queue of Request objects
          poolUp,    \* the pool accepts and runs tasks
          pc,        \* where each thread is
          obj,       \* the Request object each thread holds
          saving,    \* each thread's locals of save(): key, retries, new_key
          popped,    \* delay_task of FileRequestCache::handle
          body,      \* the file behind each object's body_, or None
          delay,     \* each object's delay_
          attempts,  \* objects created so far for each request
          fate,      \* history: how the last attempt of each request ended
          lost       \* history: keys a failed parse or open left behind

cacheVars == <<disk, active, waiting, lost>>
poolVars == <<queue, poolUp>>
objVars == <<body, delay, attempts>>
vars == <<now, keyid, disk, active, waiting, stopped, queue, poolUp, pc, obj,
          saving, popped, body, delay, attempts, fate, lost>>

Threads == Listeners \union Workers \union {CacheThread}

\* An object is named by its request and the number of the attempt.
Objects == Requests \X (0 .. MaxRetries + 1)
RequestOf(o) == o[1]

\* A key: the thread, the second and the count that KeyId::get hashes.
Keys == Threads \X (0 .. MaxTime) \X Nat

\* A DelayTask in waiting_, under its time.
Tasks == [due : 0 .. MaxTime, key : Keys, retries : 1 .. MaxRetries]

\* The listeners, the workers and the cache thread are different threads.
ASSUME ThreadsAssumption ==
  /\ Listeners \intersect Workers = {}
  /\ CacheThread \notin Listeners \union Workers

ASSUME NoneAssumption == None \notin Objects /\ None \notin Keys /\ None \notin Tasks

Unset == [id |-> 0, last |-> -1]

(***************************************************************************)
(* Keys.                                                                   *)
(***************************************************************************)

\* Variant: the per-second counter is not advanced within a second.
NextKeyIdNoIncrement(t) == [id |-> 0, last |-> now]

\* KeyId::get: the counter runs within one second and restarts with the next.
NextKeyId(t) ==
  [id   |-> IF keyid[t] = Unset THEN 1
            ELSE IF keyid[t].last = now THEN keyid[t].id + 1 ELSE 0,
   last |-> now]

Key(t, k) == <<t, k.last, k.id>>

\* generateUniqueKey by thread t, whose KeyId becomes NextKeyId(t).
UniqueKey(t) == Key(t, NextKeyId(t))

-----------------------------------------------------------------------------
Init ==
  /\ now = 0
  /\ keyid = [t \in Threads |-> Unset]
  /\ disk = <<>>
  /\ active = <<>>
  /\ waiting = {}
  /\ stopped = FALSE
  /\ queue = <<>>
  /\ poolUp = TRUE
  /\ pc = [t \in Threads |-> "idle"]
  /\ obj = [t \in Threads |-> None]
  /\ saving = [t \in Threads |-> None]
  /\ popped = None
  /\ body = [o \in Objects |-> None]
  /\ delay = [o \in Objects |-> 0]
  /\ attempts = [r \in Requests |-> 0]
  /\ fate = [r \in Requests |-> "none"]
  /\ lost = {}

\* std::map::insert: a key that is there keeps its value.
insert(m, k, v) == [x \in DOMAIN m \union {k} |-> IF x \in DOMAIN m THEN m[x] ELSE v]

\* A file written, and a file or an entry of a map removed.
Write(f, k, v) == [x \in DOMAIN f \union {k} |-> IF x = k THEN v ELSE f[x]]
Without(f, k) == Restrict(f, DOMAIN f \ {k})

\* A new Request object for r, held by thread t.
NewObject(t, r) ==
  /\ obj' = [obj EXCEPT ![t] = <<r, attempts[r]>>]
  /\ attempts' = [attempts EXCEPT ![r] = @ + 1]

Goto(t, label) == pc' = [pc EXCEPT ![t] = label]

(***************************************************************************)
(* The listener: attach, then handleRequest.                               *)
(***************************************************************************)

\* The server accepts requests once its components are loaded.
Accepts(l, r) ==
  /\ pc[l] = "idle" /\ attempts[r] = 0
  /\ poolUp /\ pc[CacheThread] # "idle"

\* RequestImpl::attach of a body below min-post-size: kept in memory.
AttachInMemory(l, r) ==
  /\ Accepts(l, r)
  /\ NewObject(l, r)
  /\ Goto(l, "submit")
  /\ UNCHANGED <<now, keyid, disk, active, waiting, stopped, queue, poolUp,
                 saving, popped, body, delay, fate, lost>>

\* RequestImpl::attach of a large body: create() makes its file and enters it
\* in active_ with no retries.  Reading the entity may then fail: the request
\* is released with the body in place.
AttachStored(l, r) ==
  /\ Accepts(l, r)
  /\ NewObject(l, r)
  /\ keyid' = [keyid EXCEPT ![l] = NextKeyId(l)]
  /\ LET k == UniqueKey(l) IN
       /\ disk' = Write(disk, k, r)
       /\ active' = insert(active, k, 0)
       /\ body' = [body EXCEPT ![<<r, attempts[r]>>] = k]
  /\ \/ /\ Goto(l, "submit")
        /\ UNCHANGED fate
     \/ /\ Goto(l, "release")
        /\ fate' = [fate EXCEPT ![r] = "failed"]
  /\ UNCHANGED <<now, waiting, stopped, queue, poolUp, saving, popped, delay, lost>>

\* The file cannot be opened, or serializeEnv throws (it cannot be grown)
\* before body_ is set: then the buffer and its file go, but the entry in
\* active_ stays.
AttachFails(l, r) ==
  /\ Accepts(l, r)
  /\ NewObject(l, r)
  /\ keyid' = [keyid EXCEPT ![l] = NextKeyId(l)]
  /\ \/ UNCHANGED <<active, lost>>
     \/ /\ active' = insert(active, UniqueKey(l), 0)
        /\ lost' = lost \union {UniqueKey(l)}
  /\ fate' = [fate EXCEPT ![r] = "failed"]
  /\ Goto(l, "release")
  /\ UNCHANGED <<now, disk, waiting, stopped, queue, poolUp, saving, popped,
                 body, delay>>

(***************************************************************************)
(* Server::handleRequestInternal, by the listener or the cache thread.     *)
(***************************************************************************)
Submit(t) ==
  /\ pc[t] = "submit"
  /\ poolUp /\ Len(queue) < QueueLength
  /\ queue' = Append(queue, obj[t])
  /\ fate' = [fate EXCEPT ![RequestOf(obj[t])] = "queued"]
  /\ Goto(t, "release")
  /\ UNCHANGED <<now, keyid, stopped, poolUp, obj, saving, popped, objVars, cacheVars>>

\* addTask throws: 503 is sent to a stream nobody listens to on a retry, and
\* the request is released with delay 0.
Refused(t) ==
  /\ pc[t] = "submit"
  /\ ~poolUp \/ Len(queue) >= QueueLength
  /\ fate' = [fate EXCEPT ![RequestOf(obj[t])] = "refused"]
  /\ Goto(t, "release")
  /\ UNCHANGED <<now, keyid, stopped, poolVars, obj, saving, popped, objVars, cacheVars>>

(***************************************************************************)
(* The pool.                                                               *)
(***************************************************************************)

\* A worker takes the task at the head of the queue.
Take(w) ==
  /\ pc[w] = "idle" /\ poolUp /\ queue # <<>>
  /\ obj' = [obj EXCEPT ![w] = Head(queue)]
  /\ queue' = Tail(queue)
  /\ Goto(w, "run")
  /\ UNCHANGED <<now, keyid, stopped, poolUp, saving, popped, objVars, fate, cacheVars>>

\* The handlers run; one of them may call tryAgain(d).
Run(w) ==
  /\ pc[w] = "run"
  /\ \E d \in Delays \union {0} :
       /\ delay' = [delay EXCEPT ![obj[w]] = d]
       /\ fate' = [fate EXCEPT ![RequestOf(obj[w])] =
                     IF d # 0 /\ obj[w][2] < MaxRetries THEN "retry" ELSE "done"]
  /\ Goto(w, "release")
  /\ UNCHANGED <<now, keyid, stopped, poolVars, obj, saving, popped, body, attempts, cacheVars>>

\* The daemon stops the pools before it destroys the components.
PoolStop ==
  /\ poolUp
  /\ poolUp' = FALSE
  /\ UNCHANGED <<now, keyid, stopped, queue, pc, obj, saving, popped, objVars, fate, cacheVars>>

(***************************************************************************)
(* ~Request.                                                               *)
(***************************************************************************)

\* Another holder of the object thread t holds.
Shared(t) == \/ \E i \in DOMAIN queue : queue[i] = obj[t]
             \/ \E u \in Threads \ {t} : obj[u] = obj[t]

\* Where a thread goes once it is rid of its task.
Idle(t) == IF t = CacheThread THEN "poll" ELSE "idle"

\* A shared_ptr<Request> goes out of scope: the last one runs ~Request.
Release(t) ==
  /\ pc[t] = "release"
  /\ IF Shared(t)
     THEN /\ Goto(t, Idle(t))
          /\ obj' = [obj EXCEPT ![t] = None]
     ELSE /\ Goto(t, "save")
          /\ UNCHANGED obj
  /\ UNCHANGED <<now, keyid, stopped, poolVars, saving, popped, objVars, fate, cacheVars>>

\* save, line 238.
MayRetry(retries) == retries < MaxRetries

\* save up to the lookup in active_: nothing to do, the retries are used up,
\* or the request is to be kept.  A body in memory gets a fresh key.
SaveLookup(t) ==
  /\ pc[t] = "save"
  /\ LET o == obj[t]
         drop == delay[o] = 0 \/ MaxRetries = 0
         key == IF body[o] # None THEN body[o]
                ELSE IF drop THEN None ELSE UniqueKey(t)
         retries == IF key \in DOMAIN active THEN active[key] ELSE 0
     IN /\ saving' = [saving EXCEPT ![t] =
                        [key |-> key, retries |-> retries, new |-> None]]
        /\ keyid' = IF body[o] = None /\ ~drop
                    THEN [keyid EXCEPT ![t] = NextKeyId(t)] ELSE keyid
        /\ IF drop \/ (key \in DOMAIN active /\ ~MayRetry(retries))
           THEN Goto(t, "erase")
           ELSE Goto(t, "link")
  /\ UNCHANGED <<now, stopped, poolVars, obj, popped, objVars, fate, cacheVars>>

\* Variant: the retry keeps the key, and the file, of the request being destroyed.
SaveLinkSameKey(t) ==
  /\ pc[t] = "link"
  /\ saving' = [saving EXCEPT ![t].new = saving[t].key]
  /\ disk' = Write(disk, saving[t].key, RequestOf(obj[t]))
  /\ Goto(t, "erase")
  /\ UNCHANGED <<now, keyid, active, waiting, stopped, poolVars, obj, popped,
                 objVars, fate, lost>>

\* saveRequest: a body in memory is first serialized to a file of its own,
\* which is unlinked on return; link() then gives the file a second name.
SaveLink(t) ==
  /\ pc[t] = "link"
  /\ keyid' = [keyid EXCEPT ![t] = NextKeyId(t)]
  /\ UniqueKey(t) \notin DOMAIN disk
  /\ body[obj[t]] # None => saving[t].key \in DOMAIN disk
  /\ saving' = [saving EXCEPT ![t].new = UniqueKey(t)]
  /\ disk' = Write(disk, UniqueKey(t),
                   IF body[obj[t]] = None THEN RequestOf(obj[t]) ELSE disk[saving[t].key])
  /\ Goto(t, "erase")
  /\ UNCHANGED <<now, active, waiting, stopped, poolVars, obj, popped, objVars, fate, lost>>

\* The file cannot be written or linked: the request is given up.
SaveFails(t) ==
  /\ pc[t] = "link"
  /\ keyid' = [keyid EXCEPT ![t] = NextKeyId(t)]
  /\ fate' = [fate EXCEPT ![RequestOf(obj[t])] = "failed"]
  /\ Goto(t, "erase")
  /\ UNCHANGED <<now, stopped, poolVars, obj, saving, popped, objVars, cacheVars>>

\* eraseActive, on every path through save that has an entry to erase.
SaveErase(t) ==
  /\ pc[t] = "erase"
  /\ active' = Without(active, saving[t].key)
  /\ Goto(t, IF saving[t].new = None THEN "free" ELSE "insert")
  /\ UNCHANGED <<now, keyid, disk, waiting, stopped, poolVars, obj, saving,
                 popped, objVars, fate, lost>>

\* Variant: the attempt just made is not counted.
SaveInsertNotCounted(t) ==
  /\ pc[t] = "insert"
  /\ waiting' = waiting \union {[due |-> MaxTime, key |-> saving[t].new,
                                 retries |-> saving[t].retries]}
  /\ Goto(t, "free")
  /\ UNCHANGED <<now, keyid, disk, active, stopped, poolVars, obj, saving,
                 popped, objVars, fate, lost>>

\* Variant: the task is not entered in waiting_.
SaveInsertLost(t) ==
  /\ pc[t] = "insert"
  /\ Goto(t, "free")
  /\ UNCHANGED <<now, keyid, stopped, poolVars, obj, saving, popped, objVars, fate, cacheVars>>

\* insertWaiting.  A due time past the bound is due at the bound.
SaveInsert(t) ==
  /\ pc[t] = "insert"
  /\ LET due == now + delay[obj[t]] IN
       waiting' = waiting \union
         {[due |-> IF due > MaxTime THEN MaxTime ELSE due,
           key |-> saving[t].new, retries |-> saving[t].retries + 1]}
  /\ Goto(t, "free")
  /\ UNCHANGED <<now, keyid, disk, active, stopped, poolVars, obj, saving,
                 popped, objVars, fate, lost>>

\* The rest of ~Request: the body's last buffer goes and ~FileHolder unlinks
\* its file.
Free(t) ==
  /\ pc[t] = "free"
  /\ disk' = Without(disk, body[obj[t]])
  /\ body' = [body EXCEPT ![obj[t]] = None]
  /\ delay' = [delay EXCEPT ![obj[t]] = 0]
  /\ obj' = [obj EXCEPT ![t] = None]
  /\ saving' = [saving EXCEPT ![t] = None]
  /\ Goto(t, Idle(t))
  /\ UNCHANGED <<now, keyid, active, waiting, stopped, poolVars, popped, attempts,
                 fate, lost>>

(***************************************************************************)
(* FileRequestCache::handle.                                               *)
(***************************************************************************)
Earliest == {w \in waiting : \A v \in waiting : w.due <= v.due}

\* onLoad starts the thread.
OnLoad ==
  /\ pc[CacheThread] = "idle"
  /\ Goto(CacheThread, "poll")
  /\ UNCHANGED <<now, keyid, stopped, poolVars, obj, saving, popped, objVars, fate, cacheVars>>

PollStopped ==
  /\ pc[CacheThread] = "poll" /\ stopped
  /\ Goto(CacheThread, "done")
  /\ UNCHANGED <<now, keyid, stopped, poolVars, obj, saving, popped, objVars, fate, cacheVars>>

\* Nothing is due.
PollNothing ==
  /\ pc[CacheThread] = "poll" /\ ~stopped
  /\ \A w \in waiting : w.due > now
  /\ Goto(CacheThread, "park")
  /\ UNCHANGED <<now, keyid, stopped, poolVars, obj, saving, popped, objVars, fate, cacheVars>>

\* timed_wait, for a second or until stop() notifies.  stopped_ was read
\* before mutex_ was taken.
Park ==
  /\ pc[CacheThread] = "park"
  /\ Goto(CacheThread, "wait")
  /\ UNCHANGED <<now, keyid, stopped, poolVars, obj, saving, popped, objVars, fate, cacheVars>>

\* Variant: wait() without a timeout returns only when notified.
WakeOnlyNotified == FALSE /\ UNCHANGED vars

\* timed_wait times out.
Wake ==
  /\ pc[CacheThread] = "wait"
  /\ Goto(CacheThread, "poll")
  /\ UNCHANGED <<now, keyid, stopped, poolVars, obj, saving, popped, objVars, fate, cacheVars>>

\* The earliest task is due and leaves waiting_.
PollDue ==
  /\ pc[CacheThread] = "poll" /\ ~stopped
  /\ \E w \in Earliest :
       /\ w.due <= now
       /\ popped' = w
       /\ waiting' = waiting \ {w}
  /\ Goto(CacheThread, "load")
  /\ UNCHANGED <<now, keyid, disk, active, stopped, poolVars, obj, saving, objVars, fate, lost>>

\* The file (FilesPresent: it is there) is mapped, entered in active_ with its
\* retries, and parsed.  Parsing what follows the body may fail: the request
\* is released with the body in place.
LoadRetry ==
  /\ pc[CacheThread] = "load"
  /\ popped.key \in DOMAIN disk
  /\ LET r == disk[popped.key] IN
       /\ NewObject(CacheThread, r)
       /\ body' = [body EXCEPT ![<<r, attempts[r]>>] = popped.key]
  /\ active' = insert(active, popped.key, popped.retries)
  /\ popped' = None
  /\ \/ /\ Goto(CacheThread, "submit")
        /\ UNCHANGED fate
     \/ /\ Goto(CacheThread, "release")
        /\ fate' = [fate EXCEPT ![disk[popped.key]] = "failed"]
  /\ UNCHANGED <<now, keyid, disk, waiting, stopped, poolVars, saving, delay, lost>>

\* createFileBuffer throws: the file stays, nothing refers to it any more.
OpenFails ==
  /\ pc[CacheThread] = "load"
  /\ popped.key \in DOMAIN disk
  /\ fate' = [fate EXCEPT ![disk[popped.key]] = "failed"]
  /\ lost' = lost \union {popped.key}
  /\ popped' = None
  /\ Goto(CacheThread, "poll")
  /\ UNCHANGED <<now, keyid, disk, active, waiting, stopped, poolVars, obj, saving, objVars>>

\* parse throws before body_ is set: ~Request cannot tell its key and the
\* entry stays in active_; the buffer unlinks the file.
ParseFails ==
  /\ pc[CacheThread] = "load"
  /\ popped.key \in DOMAIN disk
  /\ fate' = [fate EXCEPT ![disk[popped.key]] = "failed"]
  /\ active' = insert(active, popped.key, popped.retries)
  /\ disk' = Without(disk, popped.key)
  /\ lost' = lost \union {popped.key}
  /\ popped' = None
  /\ Goto(CacheThread, "poll")
  /\ UNCHANGED <<now, keyid, waiting, stopped, poolVars, obj, saving, objVars>>

\* onUnload, from ~ComponentSet: stop() raises the flag and notifies.  (What
\* the thread does between the two it also does after both.)
Stop ==
  /\ ~poolUp /\ ~stopped /\ pc[CacheThread] # "idle"
  /\ stopped' = TRUE
  /\ pc' = IF pc[CacheThread] = "wait" THEN [pc EXCEPT ![CacheThread] = "poll"] ELSE pc
  /\ UNCHANGED <<now, keyid, poolVars, obj, saving, popped, objVars, fate, cacheVars>>

Tick ==
  /\ now < MaxTime
  /\ now' = now + 1
  /\ UNCHANGED <<keyid, stopped, poolVars, pc, obj, saving, popped, objVars, fate, cacheVars>>

-----------------------------------------------------------------------------
Attach == \E l \in Listeners, r \in Requests :
            AttachInMemory(l, r) \/ AttachStored(l, r) \/ AttachFails(l, r)

Save(t) == \/ SaveLookup(t) \/ SaveLink(t) \/ SaveFails(t)
           \/ SaveErase(t) \/ SaveInsert(t) \/ Free(t)

Handle == \/ OnLoad \/ PollStopped \/ PollNothing \/ Park \/ Wake \/ PollDue
          \/ LoadRetry \/ OpenFails \/ ParseFails

Next ==
  \/ Attach
  \/ \E t \in Threads : Submit(t) \/ Refused(t) \/ Release(t) \/ Save(t)
  \/ \E w \in Workers : Take(w) \/ Run(w)
  \/ Handle
  \/ PoolStop \/ Stop \/ Tick

Spec == Init /\ [][Next]_vars

\* Every thread that can run does, and time passes.
Fairness ==
  /\ \A t \in Threads : WF_vars(Submit(t) \/ Refused(t) \/ Release(t) \/ Save(t))
  /\ \A w \in Workers : WF_vars(Take(w) \/ Run(w))
  /\ WF_vars(Handle)
  /\ WF_vars(Tick)

FairSpec == Spec /\ Fairness

-----------------------------------------------------------------------------
Live == {o \in Objects : \/ \E i \in DOMAIN queue : queue[i] = o
                         \/ \E t \in Threads : obj[t] = o}

\* Names of files that some retry depends on: waiting, being loaded, or linked
\* by a save that has not put them in waiting_ yet.
Pending ==
  {w.key : w \in waiting}
    \union (IF popped = None THEN {} ELSE {popped.key})
    \union {saving[t].new : t \in {u \in Threads : pc[u] = "insert"
                \/ (pc[u] = "erase" /\ saving[u].new # None)}}

\* Files of live request bodies.
Bodies == {body[o] : o \in Live} \ {None}

\* The domain of every variable of the cache.
TypeOK ==
  /\ now \in 0 .. MaxTime
  /\ DOMAIN disk \subseteq Keys /\ \A k \in DOMAIN disk : disk[k] \in Requests
  /\ DOMAIN active \subseteq Keys
  /\ \A k \in DOMAIN active : active[k] \in 0 .. MaxRetries
  /\ \A w \in waiting : /\ w.due \in 0 .. MaxTime
                        /\ w.key \in Keys
                        /\ w.retries \in 1 .. MaxRetries
  /\ stopped \in BOOLEAN /\ poolUp \in BOOLEAN
  /\ queue \in Seq(Objects) /\ Len(queue) <= QueueLength
  /\ \A t \in Threads : obj[t] \in Objects \union {None}
  /\ popped # None => popped.key \in Keys /\ popped.retries \in 1 .. MaxRetries
  /\ \A o \in Objects : body[o] \in Keys \union {None}
  /\ delay \in [Objects -> Delays \union {0}]
  /\ lost \subseteq Keys

\* The unlink in ~FileHolder takes the name of the finished request, never the
\* link a retry lives on, whatever the order of save, load and free: every file
\* a waiting retry or a live request refers to is on disk.  And nothing leaks but
\* what a failure left behind: active_ holds the keys of live requests, and a
\* file on disk belongs to a live request or to a retry still to come.
FilesExact ==
  /\ Pending \union Bodies \subseteq DOMAIN disk
  /\ DOMAIN disk \subseteq Bodies \union Pending \union lost
  /\ DOMAIN active \subseteq Bodies \union lost

\* A file has one owner: a key is not both waiting and the body of a live
\* request, nor the body of two requests, so no two executions share a file
\* that one of them will unlink; and no request is executed by two threads at
\* once: a retry begins after the attempt that asked for it has ended.
OneOwner ==
  /\ Pending \intersect Bodies = {}
  /\ \A o, p \in Live : body[o] # None /\ body[o] = body[p] => o = p
  /\ \A t, u \in Workers :
       pc[t] = "run" /\ pc[u] = "run" /\ RequestOf(obj[t]) = RequestOf(obj[u]) => t = u

\* No request is executed more than 1 + max-retries times, however its
\* attempts are spread over threads and keys: the counter kept in active_ and
\* waiting_ is the number of attempts made before, under all its keys.
RetryBound ==
  /\ \A r \in Requests : attempts[r] <= MaxRetries + 1
  /\ \A o \in Live : body[o] \in DOMAIN active => active[body[o]] = o[2]
  /\ \A w \in waiting : w.key \in DOMAIN disk => w.retries = attempts[disk[w.key]]

\* A request whose handler asked for a retry it is entitled to is executed
\* again, unless the pool refuses it, its file fails, or the daemon stops.
RetryHappens ==
  \A r \in Requests :
    fate[r] = "retry" ~> fate[r] \in {"queued", "refused", "failed"} \/ ~poolUp

\* stop() returns: the cache thread it joins ends, even when it was about to
\* wait as the flag was raised.
StopEndsThread == stopped ~> pc[CacheThread] = "done"
=============================================================================
