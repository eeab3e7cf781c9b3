# A TLA+ development for Fastcgi-Daemon

Fastcgi-Daemon is a C++ framework: a process that accepts FastCGI connections,
routes each to a list of handlers, and runs the handlers on bounded thread
pools. Handlers, loggers, the request cache and the statistics are components
loaded from shared objects. The modules here model the daemon from its
configuration to its end: the concurrent core, what happens to one request, and
the data structures under it. The runs check them on small instances; the
modules `*Proofs` prove the safety properties of the concurrent parts and of the
start-up for every value of the constants.

## The system

| Part | State it keeps | Operations | What makes it correct | Module |
|---|---|---|---|---|
| `ThreadPool<T>` (`include/details/thread_pool.h`) | `started`, the queue, three counters, the workers | start, stop, join, addTask, getInfo, workMethod | bounded FIFO, nothing lost or counted twice, no lost wakeup, stop ends it | `ThreadPool` |
| `FCGIServer`, `Endpoint`, `main()` (`main/`) | status, stop pipe, stop flag, thread holder, busy counters | start, stop, join, handle, monitor, destructors | a stop request ends the process; every accepted connection is answered; nothing is used after it is destroyed | `FCGIServer` |
| `RequestsThreadPool::handleTask`, output side of `RequestImpl`, `RequestStream` | the response being built, the exception in flight | the handler loop, setStatus, setCookie, sendError, write, the catch blocks | one well-formed answer; failures are visible | `HandleTask` |
| `FileRequestCache` (`request-cache/`) | `active_`, `waiting_`, files, per-thread key counters | create, save, handle, stop | a retry is executed, at most max-retries times, from a file that is there; nothing leaks | `RequestCache` |
| `FileLogger` (`file-logger/`) | queue, descriptor, stop flag | log, rollOver, writingThread, destructor | lines in order, once, in whole batches | `FileLogger` |
| `DataBuffer`, `StringBuffer`, `FileBuffer`, `MMapFile` | the view, the mapped window | read, write, find, trim, split, resize, segments | the same answers as on a plain string, wherever the window is | `Buffers` |
| `Parser`, `StringUtils`, `Range` | none | URL codec, headers, cookies, forms, multipart | what the client meant is what handlers see; parsing ends | `RequestText` |
| Stored-request layout (`RequestImpl::serialize*`, `parse*`) | none | serialize, parse | what is written is read back | `StoredRequest` |
| Input side of `RequestImpl` and `Request` | headers, cookies, variables, arguments, files, body | attach, parse, the getters | a retry cannot be told from the first attempt | `Request` |
| `ComponentSet` (`library/componentset.cpp`) | load marks, load order | init, find, destructor | dependencies loaded before and unloaded after their users; cycles end in an error | `ComponentSet` |
| `XmlConfig`, `Loader`, `HandlerSet`, filters, `Globals` | variables, handles and factories, routing table, pools | the constructor of `Globals`, findURIHandler, the destructor | a daemon that is up has all that was configured; first match wins; no code is unmapped under a live component | `Startup` |
| Cookies to send, logger base, syslog, statistics | little or none | sequential | see `PROJECT.json`, `components` | none |

How they interact. `main()` builds `Globals` (loader, component set, handler
set, pools), then `FCGIServer::start` opens the endpoints and starts their
threads. An endpoint thread accepts a connection, attaches the request (large
bodies go to a cache file, read through a sliding window) and hands the task to
a pool with `addTask`; a worker runs `handleTask`. `~Request`, run by whichever
thread drops the last reference, calls the cache's `save`, and the cache's own
thread restores the stored request and submits the retry to the same pools.
`~FastcgiRequest` reports to the logger and the statistics. `stop()` writes to a
pipe read by the stop thread, which sets the flag, shuts FastCGI down and stops
the pools; `join()` waits for the pools and polls a reference count for the
endpoint threads; the destructors then unload the components.

What is hard: notifications sent outside the mutex; state read before a
blocking `accept()` and used after; who destroys a request; exceptions on every
path while a response is half sent; shutdown order; wakeups without a
predicate; recursive loading; start-up that breaks off half way; searches that
cross the windows of a mapped file; sizes and offsets that are computed once
and used by another piece of code. `hazards` in `PROJECT.json` lists each at
its line.

## Modules

`ThreadPool` has one action per critical section of `mutex_`, and one for what
happens outside it (the notification after `addTask`, the handler). `Account`,
`Exit`, `Take` and `Wait` split the one critical section of `workMethod` by its
outcome. `StartFails` is a thread that cannot be created. `BoundedTaskQueue` is
what users of the pool may rely on (accept up to a capacity, start in order, at
most as many at once as there are workers, none once closed); `RefinesQueue`
states that the pool implements it.

`FCGIServer` models the main thread step by step through `start`, `join` and
the destructors at the end of `main`, the signal handler, the monitor thread,
the stop thread and the endpoint threads. `handle()` is split at each shared
read or write, so that stop, join and destruction can come between them. The
pool appears as its abstract queue. Requests are identities with an `outcome`.
`addTask` copies the task, so after `Dispatch` the endpoint thread and the pool
both have a reference; the thread keeps its own, its holder and its place in the
busy counter up to the end of the try block (`Leave`), while a worker may already
have answered the request. Whoever drops the last reference runs
`~FastcgiRequest`. The steps that wait for a client are apart: `Client(h)` has
`Attach` (which reads the body), the error pages and the end of the block, which
closes the connection; `Handle(h)` is the rest.

`HandleTask` is one task in a worker. Handlers are arbitrary sequences of calls
that may end in an `HttpException`, a `std::exception` or something else; the
connection may break at any write. The two overloads of `write` differ: the one
for characters throws when it cannot send the body, the one for a streambuf, which
`~RequestStream` uses, sets `failbit` and returns; in both the headers are sent
first, and that throws. Header text is reduced to the status and the set of
cookies. It assumes the C++98 rule that destructors may throw, which is
the language the code is written in; a destructor that throws while unwinding
ends the process.

`RequestCache` models keys as the triple that `KeyId::get` hashes, the disk as a
map from names to the request a file holds, and `Request` objects as (request,
attempt) pairs held by threads and by the pool's queue. `save` is split at its
lock acquisitions and its `link`. Opening, linking and parsing may fail.

`FileLogger` models the queue, the swap, writing line by line under `fdMutex_`,
rotation and the destructor.

`Buffers` is a storage (a vector, or a file behind `MMapFile`), the mapping as
the operations before left it, and one `DataBuffer` view. Each operation of the
code is an operator that takes the mapping and returns the answer with the
mapping after it; the actions apply them. Indices are unsigned and wrap at
`Word`. Characters are numbers, because one line of the code applies `isspace`
to an index (`FileTrim`). That call is defined up to `MaxChar` only, 255 in the
code; past it every answer is possible, so `trim` of a file has a set of outcomes
and `DoTrim` chooses one. (That the call may also crash is left out; so is
`isspace` of a negative `char`, which the C library's table covers.) The loops over windows and segments are recursive functions of the
number of turns, one turn an operator of its own (`CopyTurn`, `FindTurn`,
`TrimTurn`, `SegmentTurn`), so that they can be proved about. `AnswersAgree` is
the conjunction of one named part per operation.

`RequestText` has the pure functions on the text of a request: split and trim,
the URL codec, cookies, forms, content types and one turn of the multipart
loop. Words that are only compared as a whole are single codes. Text in a body
keeps its offset, so that decoding works segment by segment where the code does,
and so that `trimBuffer` can trim the end of a cached body by the offsets `white`
for which `isspace` says yes: part of the input, and chosen in `MCRequest`.
`StoredRequest` adds the serializer and the parser of stored requests over cells
of one character, with fixed-width integers and writes that are cut at the end
of the buffer. `Request` has the actions: `Attach`, `ReadBody`, `ParseBody`,
`PartTurn` and `PartsDone` (one for a turn of the multipart loop), `AttachDone`,
`Save`, `Restore`. `remoteFile` of an absent name is `Undefined` in a request that
has no body, where the code dereferences a null pointer. What the client means is part of the input, so that the
properties can compare it with what handlers are told.

`ComponentSet` runs `onLoad` as an explicit stack of calls over a dependency
graph, with components that throw and components that swallow the failures of
others. `Startup` extends it with the steps of the constructor of `Globals` in
their order (variables, modules, components, loading, handlers, logger, pools,
starting the pools), each of which may break off, and with the destructors.
`HandlerReading` gives the first problem of a handler's configuration in the
order in which the code looks. Texts of the configuration are sequences of
words, some of which are variables. `Turn` is one replacement of
`resolveVariables`, and `resolveVariables` as many of them as `MaxTurns`;
`Meaning` is what the properties compare it with: the definitions expanded all
at once, level by level, with no order of replacements.

The modules `*Proofs` and `SequenceFacts` hold the theorems, see Proofs.

`MCFCGIServer` and `MCRequestCache` define symmetry sets; `MCRequest` and
`MCStartup` define the inputs and the configurations.

Operators marked "Variant:" are plausible mistakes in the code. They are not
part of any specification; each property is checked to fail when one of them
replaces the definition it is a variant of.

## Runs

| Run | Instance | Checks |
|---|---|---|
| `thread_pool` | 2 workers, 2 producers, 3 tasks, queue of 2 | `TypeOK`, `BusyExact`, `Conservation`, `NoLostWakeup`, `JoinIsFinal`, `RefinesQueue`, `PickedUp`, `StopJoins` |
| `fcgi_server` | 2 endpoint threads, 3 connections, 1 worker, queue of 1, 2 stop requests | `TypeOK`, `BusyCountExact`, `StopThreadNeverThrows`, `SingleUser`, `ClosedAnswered` |
| `fcgi_server_live` | 2 endpoint threads, 2 connections, 1 worker, queue of 1, 1 stop request | `StopEndsServer`, `AnsweredOrStopped` |
| `fcgi_server_teardown` | as in `fcgi_server_live` | violates `DestructorSafe` |
| `handle_task` | 2 handlers of up to 3 calls | `WellFormedAnswer`, `CountedAsAnswered`, `EarlyFailureVisible`, `TerminatedOnlyInHeaders` |
| `request_cache` | 2 requests, 2 workers, 1 retry, queue of 1, 2 seconds | `FilesExact`, `OneOwner`, `RetryBound` |
| `request_cache_live` | 1 request, 2 workers, 2 retries, 3 seconds | `RetryHappens`, `StopEndsThread` |
| `file_logger` | 3 lines, 2 threads, 1 rotation | `TypeOK`, `LinesInOrder`, `BatchInOneFile` |
| `file_logger_lost` | 2 lines, 1 thread | violates `EveryLineWritten` |
| `buffers` | storages of up to 5 characters, windows of 2 to 4, 25 281 states | `Views`, `AnswersAgree` |
| `request` | about 9000 requests, 72 410 states | `FaithfulRetry`, `FormMeaning`, `MultipartMeaning`, `ParseEnds` |
| `startup` | all graphs over 3 components, configurations with each kind of mistake, 668 198 states | `TypeOK`, `DependenciesAlive`, `LoadedOnce`, `UpComplete`, `DispatchAsConfigured`, `CodeMapped`, `StartEnds` |

Why the bounds are enough for the cases that matter. Two workers are one that
runs and one that is notified or asleep; three tasks on a queue of two reach the
refusal; larger instances are what the theorems are for. Two endpoint threads are
one in `accept()` and one at work; three connections fill a worker and a queue
of one, and two fill the queue while the worker has taken none; two stop requests are one more than the stop thread reads. Two cached
requests compete for a queue of one, and two seconds make the key counter
restart. Storages of five characters are longer than every window, so reads,
writes and delimiters of two characters lie across a window's end in every
position; the white space has a code that is also an index, and at two further
indices `isspace` is undefined. The forms hold every character from 0 to 255 and every pair of
arguments over texts with `&`, `=`, `%` and spaces; the multipart messages are
all sequences of up to four delimiters, closing marks and parts (complete,
folded, without an end), and whole messages of two parts, in memory and in the
cache with none, some and all of the offsets taken for white space. Three components give
every cycle shape up to length three and a failure below a component that
ignores it.

Named bounds: `MaxStops` (stop requests), `MaxCalls` (calls of a handler),
`MaxTime` (seconds; a due time past it is due at it), `MaxRolls` (rotations),
`MaxSize` (size of a storage), `MaxTurns` (turns of the multipart loop in
`Request`, of `resolveVariables` in `Startup`; a loop that reaches it is
endless, and `ParseEnds` and `StartEnds` say when that happens). Constants of
the code made small: `Window` and `Windows` (the mapped window), `PageSizes`,
`MinPostSize` (body size from which the cache is used), `IntSize` and `Word`
(integer widths), `MaxChar` (255), `MaxTasks` (65535), `Modulus` (the range of `unsigned int`).

The two runs that violate their property, each on what the code does:

- `DestructorSafe`: an endpoint thread that was in `accept()` at shutdown
  destroys its `FastcgiRequest`, which logs and counts, after the components
  are gone; so do tasks left in a stopped pool's queue.
- `EveryLineWritten`: the writing thread waits without looking at its queue, so
  a line logged while it writes stays there until the next one, or is lost at
  shutdown. By the same wait the logger's destructor can hang: if its
  notification comes between the test of `stopping_` and the wait, `join()`
  does not return.

Further behaviour of the code that the models show; the properties that meet it
name it as their exception:

- Shutdown: a stop request made before `pipe()` is called is lost
  (`StopEndsServer` is about requests made later). A client that stalls its body
  or does not take its answer keeps `join()` polling (premise `ClientsRespond`).
  A connection whose thread finds the server stopped after `accept()`, and a task
  left in the queue of a stopped pool, is closed without an answer
  (`ClosedAnswered`). When a pool cannot start, the
  components are destroyed while the earlier pools run (`StartFails`).
- Request cache: a retry the pool refuses is gone although retries were left
  (`Refused`); an entry of `active_` stays for ever when `parse` fails before
  the body is set (`lost`).
- Buffers: `checkIndex` lets `at(0)` pass on the view [0, 0) (`AnswersAgree`);
  `FileBuffer::trim` tests `isspace` of the index at the end and not of the
  character there: white space stays, and past 255, where the call is undefined,
  anything may go (`TrimStrips` says nothing of a file's end, `MultipartMeaning`
  is stated for the answer no).
- Requests: `remoteFile` of a name without a file dereferences a null pointer in
  a request without a body, and gives an empty buffer in its retry
  (`FaithfulRetry` asks for the files that `remoteFiles` lists). A body written
  with the streambuf overload on a broken connection is reported by nobody, and
  the task counts as good (`CountedAsAnswered` says that its headers were sent).
- Parsing: an escape that lies across two windows is not decoded
  (`FormMeaning`); a closing mark that is all there is in front of a delimiter
  makes the multipart loop endless (`ParseEnds`); a part that begins with a
  folded line is read from offset 0 of the body; the content length is taken
  from `HTTP_CONTENT_LENGTH` and not from `CONTENT_LENGTH`, and a
  POST without the former is refused.
- Start-up: a variable defined through itself is expanded for ever
  (`StartEnds`); a filter whose text uses an undefined variable is dropped and
  its handler matches more (`DispatchAsConfigured`); a second component of a
  name is created and forgotten; a pool no handler names may be configured
  twice; negative pool sizes wrap and can make room under the limit
  (`UpComplete`); a component whose `onLoad` failed is reported as "Cyclic
  component dependence found" when it is looked up again (`SendOnLoad`).

## Fairness

Weak fairness only, and only of steps the scheduler or the C library
guarantees: a thread that is not blocked runs. That handlers return is a premise
of the property where it is needed (`StopJoins`, `HandlersReturn` in `FCGIServer`);
`PickedUp` holds although handlers may never return. `RequestCache` assumes it of
the pool. In `FCGIServer` a step that waits for a client (`Client`) has no
fairness; `StopEndsServer` and `AnsweredOrStopped` have the premise
`ClientsRespond`, that no thread stays in one for ever, and both fail without it,
since `attach()` reads the body and `join()` waits for the thread that does. Of
handlers and clients nothing else is assumed, and nothing of the next connection,
of signals, of spurious wakeups or of a next log line. In `RequestCache` time passes, which is what the code's
one-second `timed_wait` relies on. `Startup` is one thread, which goes on while
it can; that a running daemon is told to stop is not assumed.

## Proofs

Each proof module states an inductive invariant, has one lemma per action or
group of actions (and in it one step per part of the invariant that the action
can disturb), and derives the properties from the invariant. All of them are
about `Spec` without fairness, so they hold for the fair specifications too.
TLC checked each inductive invariant on a small instance first.

| Module | Properties of the runs that it proves | Further results |
|---|---|---|
| `ThreadPoolProofs` | `TypeOK`, `BusyExact`, `Conservation`, `NoLostWakeup`, `JoinIsFinal`, `RefinesQueue` | `FIFO` |
| `FCGIServerProofs` | `TypeOK`, `BusyCountExact`, `StopThreadNeverThrows`, `SingleUser`, `ClosedAnswered` | |
| `HandleTaskProofs` | `WellFormedAnswer`, `CountedAsAnswered`, `EarlyFailureVisible`, `TerminatedOnlyInHeaders` | `TypeOK` |
| `RequestCacheProofs` | `FilesExact`, `OneOwner`, `RetryBound` | |
| `FileLoggerProofs` | `TypeOK`, `LinesInOrder`, `BatchInOneFile` | |
| `StartupProofs` | `TypeOK`, `LoadedOnce`, `DependenciesAlive` of the set and of the daemon, `CodeMapped`, `UpComplete`, `DispatchAsConfigured` | a set that is up has loaded every component (`NonePassedOver`); `Startup` uses the set as `ComponentSet` says (`UsesComponentSet`); `resolveVariables` computes the meaning of a text (`ResolvesMeaning`) |
| `BuffersProofs` | `Views`, `AnswersAgree` | the inductive invariant (`BInvariance`) |
| `SequenceFacts` | | moving the head of a sequence, taking out its middle, joining sequences; induction over a set of numbers, recursive functions |

**Thread pool.** `IInv` is the conjunction of the five invariants and `Control`,
which ties the workers' places to the owner's phase: an outcome not counted yet
belongs to a worker on its way to `mutex_`; no thread runs before `start`; the
pool is started exactly in phase "running"; after `join` all have left. `Control`
is needed because a worker's `Account` decrements the busy counter for a handler
that ran an iteration earlier: without it the decrement could not be matched to
a member of the counted set, and `JoinIsFinal` could not exclude a worker that
is still to account. `NoLostWakeup` is preserved because each push adds a
notifying producer and each notification that finds a sleeper makes it awake; a
worker that takes a task removes one task and one awake worker together. The
refinement of `BoundedTaskQueue` needs `Ownership` besides: no task is accepted
twice and workers handle different tasks, each popped earlier. Then `Push`,
`Take`, `Handled` and `Stop` are steps of the abstract queue and all else
stutters. Assumed: workers and producers are finite sets, there is a worker,
`NoTask` is no task, the queue length is a natural number.

**Server.** `ControlInv` says where the stop thread can be when the main thread
is at each place, so that the one run of `stopInternal` finds a running server
nobody has stopped. `ThreadInv` ties the flag of `ScopedBusyCounter` and the
request object of an endpoint thread to its place in `handle()`: the counter is
the number of threads between its two ends. `OwnerInv` says who uses a request,
read in both directions (whose it is, and that one held or queued has its user),
which `SingleUser` alone is too weak to carry through `accept()` and the hand-over
to the queue; a thread at the end of the block has a reference but uses nothing.
`LeaveInv` says that what such a thread refers to is answered or in the pool,
unless the pools are gone, so that it may be the last to let go: `ClosedAnswered`
follows from it and from where a reference can end. Assumed: the threads are a finite set,
the markers `Blank` and `None` are no connections, the sizes are natural numbers.

**One task.** `Sound` says how a response has grown: nothing, a part of the
headers on a connection that broke there, or headers and then bodies. Each
operation of `RequestImpl` has a lemma saying what it returns from a sound
response; the actions are compositions of them. `Control` says what is known of
the response at each place of `handleTask` (an exception that gets past the
catch blocks leaves one begun or broken, and a process that terminated had its
connection break in the header block), and `Early` that after a failure with
nothing sent nothing is sent but the error page. Assumed: error codes are 400 to
599.

**Request cache.** None of the three properties is inductive. `RetryBound` needs
that a file on disk leads back to the number of attempts made, hence the parts
`TasksSound` (a waiting task has its file, its count is the number of attempts,
and no attempt of its request goes on but one that is about to be freed),
`SavesSound` (the locals of a `save` in progress) and `ActiveSound` (the entry of
a live body has the number of the attempt, and is there up to `eraseActive`).
`OneOwner` needs `Holders`, which is the reference counting: producer and pool
may share an object, and the one that enters `~Request` is alone; and
`KeysGiven`: every key in use was given out, and the keys of a thread grow, so
that `generateUniqueKey` returns none that is on disk, in `active_` or in a local
of `save`. `DiskSound` accounts for every file. That the attempt which a retry
follows may still be alive, at `Free`, while the retry is already loaded is why
`Current` and `TasksSound` make an exception for that place. Assumed: listeners,
workers and the cache thread are different threads, `None` is no object, key or
task, and the clock does not go back (time only grows in the model).

**File logger.** `LinesInOrder` is stated by `Kept`, the lines logged and not
met by a logger without a file: the files, the batch and the queue, one after
the other, are `Kept`. `LoggedOnce` adds that no line is queued twice and
`WriterSound` where the writing thread has a batch. `SequenceFacts` has the two
facts about concatenations that the swap and the dropping of a batch need.
Assumed: `None` is no line, the number of rotations is a natural number.

**Component set and start-up.** `StackSound` and `LoadedSound` say that the calls
of `onLoad` under way and the load order hold different components, and that
what a component got from `find` is in front of it in the load order. The proof
of `NonePassedOver` follows the loop of `sendOnLoadToComponents`: what it has
passed is loaded, unless an exception is on its way. `StartupProofs` first shows that
each step of `Globals` is a step of `ComponentSet` or leaves it alone
(`UsesComponentSet`), which brings the theorems over; `SInv` then says, phase by
phase, what has been read from the configuration. `PInv` follows the loop of
`initPools`: of the entries it has passed, those that a handler names are in
`pools_` with their settings, and no two have one name. It is the reason that
the test for duplicates, which looks only at `pools_`, is enough. `RInv` follows
the same loop and that of `HandlerSet::init` for what the texts mean: the
handlers read so far have the filters of their entries, and the unsigned counter
of threads and places is the sum of the entries passed, which wraps at no entry
because each of them was within the limit before the next was added
(`UpPoolsAsConfigured`; `PoolsUp` makes an exception for negative sizes).

`UpComplete` is `ComponentsUp /\ PoolsRead /\ PoolsUp` and
`DispatchAsConfigured` is `FirstMatch /\ HandlersServed`; each part has a theorem
of its own. `PoolsUp` and `FirstMatch` rest on `ResolvesMeaning`. Its argument:
a turn of `resolveVariables` leaves the meaning of the text as it is
(`TurnsKeep`, by induction over the turns), because the meaning of a text is
joined from those of its words and the meaning of a variable is that of its
definition; a text without references is its own meaning. A text that uses an
undefined variable at some depth keeps a reference without meaning until it is
met, and the turn that meets it throws. The hypothesis `~Endless(t)` leaves out
the texts whose replacement has not ended after `MaxTurns`, of which nothing is
said; the reading of such a text does not return, so that a daemon which is up
has read none.

Assumed of a configuration (`ConfigsAssumption`): its lists are sequences, its
names and filters are texts, its components are the components of the set, what
`onLoad` looks up is among them, and the size of a pool is an int, half as wide
as the counter it is added to (`BoundsAssumption`: the limit is less than half
of the counter's range, in the code 65535 of 2^32).

**Buffers.** `BInv` is small: the view lies in the storage, the mapping starts at
a page and is not empty. What has to be shown is that each operation, from any
such state, gives the right answer, since the mapping at a call is whatever the
calls before left. Two lemmas carry it: `RangeMapped` (after `map_range` the bytes
asked for are mapped) and `MappedBehind` (a byte that is mapped is the byte of the
file, so that no read falls outside the mapping). For each loop a lemma says what
one turn does and keeps: the bytes copied are those of the file up to the
position (`CopyTurnFacts`), no match begins before the position of a search,
because a window is searched together with as many bytes after it as the pattern
is long (`FindTurnFacts`), all passed by `trim` is white space (`TrimTurnFacts`),
the segments so far are joined to the text up to the position
(`SegmentTurnFacts`). The loop at the end of a file's `trim` needs none: whatever
`isspace` answers of an index, it stops between the front and the end. Induction over the turns gives the whole, and a measure
that the number of turns of the model is enough for the loop to have ended.
Assumed: page sizes are positive, characters and the codes of white space are
numbers up to `MaxChar`, and no index reaches half of `Word`
(2 * `MaxSize` < `Word`), so that sums of two indices do not wrap.

**Induction and recursion.** The library's induction theorems take a predicate,
which the provers here cannot instantiate. `SequenceFacts` states induction for
the SET of the numbers with a property (`InductionOnSet`, from the well-founded
order of the natural numbers), for which a set is given and no predicate, and
from it that a recursive function over 0 .. k exists and obeys its equation
(`Recursion`, `RecursionType`). In this form the loops written as recursive
functions, and the joining of sequences of sequences by `FlattenSeq`, can be
proved about.

Only model-checked:

- The liveness properties `PickedUp`, `StopJoins`, `StopEndsServer`,
  `AnsweredOrStopped`, `RetryHappens`, `StopEndsThread` and `StartEnds`: the
  prover treats neither fairness nor `ENABLED`.
- `FaithfulRetry`, `FormMeaning`, `MultipartMeaning` and `ParseEnds` of `Request`.
  `RequestText` and `StoredRequest` are parsers written with recursive operators,
  and the prover has no arithmetic in a module that reaches one; the
  fixed-width integers of stored requests are sums of powers of 256, and
  exponentiation is outside the provers besides.

## Not modelled

- XML and XPath, the command line, sockets, `dlopen` and `dlsym`: external; the
  models choose what they give, failure included. Failures of `mmap`,
  `ftruncate` and of allocation inside critical sections are left out.
- Formatting: log lines, status texts, the names of output headers, cookies to
  send (`Cookie`), the text of `getServerInfo`, the statistics page.
- The logger base class (level names, forwarding), the syslog logger and the
  component that forwards commands to a logger: sequential, no state of their
  own. `FileLogger` has the rollover command as an action.
- Response time statistics: counters under one mutex. `FCGIServer` has when a
  request reports to them.
- The clock going backwards, which would repeat cache keys; constructors of
  components looking up other components; handlers and components that are not
  part of the repository.

## Plan

All the safety invariants of the runs but the four of `Request` are proved. What
is left, in this order:

1. The parsers of `RequestText` and `StoredRequest` as recursive functions over
   positions, in the form of the loops of `Buffers`; then `ParseEnds`, whose
   measure is the position in the body.
2. `FaithfulRetry`, with the integers of a stored request as sequences of
   digits, so that what is read back is compared digit by digit.
3. `RequestCache`: as an action property, that a retry never has the key of an
   earlier attempt.
