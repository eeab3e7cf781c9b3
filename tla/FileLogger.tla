----------------------------- MODULE FileLogger -----------------------------
(***************************************************************************)
(* The asynchronous file logger (file-logger/file_logger.cpp).  log() puts *)
(* a formatted line in queue_ and signals the writing thread, which swaps  *)
(* the queue out and writes it while holding fdMutex_; rollOver() reopens  *)
(* the file under the same mutex when logrotate asks for it.               *)
(*                                                                         *)
(* A line is its identity; fd_ is the number of the file it stands for,    *)
(* Closed for -1.  The write(2) calls succeed: their result is ignored.    *)
(***************************************************************************)
EXTENDS Integers, SequencesExt

CONSTANTS Lines,     \* lines at or above the logger's level; each is logged once
          Callers,   \* threads that log
          MaxRolls,  \* bound: calls of rollOver
          None

ASSUME MaxRollsAssumption == MaxRolls \in Nat
ASSUME NoneAssumption == None \notin Lines

VARIABLES queue,     \* queue_
          fd,        \* fd_
          stopping,  \* stopping_
          wpc,       \* where the writing thread is
          batch,     \* queueCopy: what the writing thread has still to write
          cpc,       \* where each caller is
          line,      \* the line each caller has formatted
          logged,    \* history: the lines pushed, in order
          written,   \* history: the lines in the files, in order
          dropped,   \* history: lines discarded because no file was open
          rolls,     \* number of rollOver calls
          dtor       \* the destructor: "no", "notify", "join", "done"

callerVars == <<cpc, line>>
vars == <<queue, fd, stopping, wpc, batch, cpc, line, logged, written, dropped, rolls, dtor>>

Closed == -1

\* The writing thread is started by the constructor, which then opens the
\* file; opening may fail.
Init ==
  /\ queue = <<>> /\ batch = <<>>
  /\ fd \in {0, Closed}
  /\ stopping = FALSE
  /\ wpc = "check"
  /\ cpc = [c \in Callers |-> "idle"]
  /\ line = [c \in Callers |-> None]
  /\ logged = <<>> /\ written = <<>> /\ dropped = {}
  /\ rolls = 0
  /\ dtor = "no"

(***************************************************************************)
(* log.                                                                    *)
(***************************************************************************)

\* fd_ is tested without a lock, then the line is formatted.
LogBegin(c, l) ==
  /\ dtor = "no" /\ cpc[c] = "idle"
  /\ l \notin ToSet(logged) \union dropped
  /\ \A d \in Callers : line[d] # l
  /\ IF fd = Closed
     THEN /\ dropped' = dropped \union {l}
          /\ UNCHANGED <<cpc, line>>
     ELSE /\ cpc' = [cpc EXCEPT ![c] = "push"]
          /\ line' = [line EXCEPT ![c] = l]
          /\ UNCHANGED dropped
  /\ UNCHANGED <<queue, fd, stopping, wpc, batch, logged, written, rolls, dtor>>

\* notify_one wakes the writing thread only if it is waiting.
Signalled == IF wpc = "wait" THEN "woken" ELSE wpc

\* push_back and notify_one under queueMutex_.
LogPush(c) ==
  /\ cpc[c] = "push"
  /\ queue' = Append(queue, line[c])
  /\ logged' = Append(logged, line[c])
  /\ wpc' = Signalled
  /\ cpc' = [cpc EXCEPT ![c] = "idle"]
  /\ line' = [line EXCEPT ![c] = None]
  /\ UNCHANGED <<fd, stopping, batch, written, dropped, rolls, dtor>>

(***************************************************************************)
(* rollOver.                                                               *)
(***************************************************************************)
\* Variant: the name of the next file is taken.
ReopenNextFile == fd' \in {rolls + 2, Closed}

\* close and open: the file now behind the name, or -1.
Reopen == fd' \in {rolls + 1, Closed}

\* Variant: the file is reopened without fdMutex_.
RollOverUnlocked ==
  /\ dtor = "no" /\ rolls < MaxRolls
  /\ rolls' = rolls + 1
  /\ Reopen
  /\ UNCHANGED <<queue, stopping, wpc, batch, callerVars, logged, written, dropped, dtor>>

\* openFile: close and open under fdMutex_, which the writing thread holds
\* while it writes.
RollOver ==
  /\ dtor = "no" /\ rolls < MaxRolls
  /\ wpc # "write"
  /\ rolls' = rolls + 1
  /\ Reopen
  /\ UNCHANGED <<queue, stopping, wpc, batch, callerVars, logged, written, dropped, dtor>>

(***************************************************************************)
(* writingThread.                                                          *)
(***************************************************************************)

\* while (!stopping_)
WriterCheck ==
  /\ wpc = "check"
  /\ wpc' = IF stopping THEN "done" ELSE "lock"
  /\ UNCHANGED <<queue, fd, stopping, batch, callerVars, logged, written, dropped, rolls, dtor>>

\* queueCondition_.wait(lock), whatever the queue holds.
WriterWait ==
  /\ wpc = "lock"
  /\ wpc' = "wait"
  /\ UNCHANGED <<queue, fd, stopping, batch, callerVars, logged, written, dropped, rolls, dtor>>

\* A condition variable may wake without a signal.
SpuriousWakeup ==
  /\ wpc = "wait"
  /\ wpc' = "woken"
  /\ UNCHANGED <<queue, fd, stopping, batch, callerVars, logged, written, dropped, rolls, dtor>>

\* Variant: the queue is copied but not emptied.
WriterSwapCopies ==
  /\ wpc = "woken"
  /\ batch' = queue
  /\ wpc' = "lockfd"
  /\ UNCHANGED <<queue, fd, stopping, callerVars, logged, written, dropped, rolls, dtor>>

\* std::swap(queueCopy, queue_) under queueMutex_.
WriterSwap ==
  /\ wpc = "woken"
  /\ batch' = queue
  /\ queue' = <<>>
  /\ wpc' = "lockfd"
  /\ UNCHANGED <<fd, stopping, callerVars, logged, written, dropped, rolls, dtor>>

\* fdMutex_ is taken; with no file open the batch is discarded.
WriterLockFd ==
  /\ wpc = "lockfd"
  /\ IF fd = Closed
     THEN /\ wpc' = "check"
          /\ batch' = <<>>
          /\ dropped' = dropped \union ToSet(batch)
     ELSE /\ wpc' = "write"
          /\ UNCHANGED <<batch, dropped>>
  /\ UNCHANGED <<queue, fd, stopping, callerVars, logged, written, rolls, dtor>>

\* One ::write of the loop; fdMutex_ is released after the last.
WriterWrite ==
  /\ wpc = "write"
  /\ IF batch = <<>>
     THEN wpc' = "check" /\ UNCHANGED <<batch, written>>
     ELSE /\ written' = Append(written, Head(batch))
          /\ batch' = Tail(batch)
          /\ UNCHANGED wpc
  /\ UNCHANGED <<queue, fd, stopping, callerVars, logged, dropped, rolls, dtor>>

(***************************************************************************)
(* ~FileLogger: nobody logs any more.                                      *)
(***************************************************************************)
DtorStop ==
  /\ dtor = "no" /\ \A c \in Callers : cpc[c] = "idle"
  /\ stopping' = TRUE
  /\ dtor' = "notify"
  /\ UNCHANGED <<queue, fd, wpc, batch, callerVars, logged, written, dropped, rolls>>

\* notify_one, without queueMutex_.
DtorNotify ==
  /\ dtor = "notify"
  /\ wpc' = Signalled
  /\ dtor' = "join"
  /\ UNCHANGED <<queue, fd, stopping, batch, callerVars, logged, written, dropped, rolls>>

\* join returns and the file is closed.
DtorJoin ==
  /\ dtor = "join" /\ wpc = "done"
  /\ fd' = Closed
  /\ dtor' = "done"
  /\ UNCHANGED <<queue, stopping, wpc, batch, callerVars, logged, written, dropped, rolls>>

-----------------------------------------------------------------------------
Log(c) == (\E l \in Lines : LogBegin(c, l)) \/ LogPush(c)

Writer == WriterCheck \/ WriterWait \/ WriterSwap \/ WriterLockFd \/ WriterWrite

Dtor == DtorNotify \/ DtorJoin

Next ==
  \/ \E c \in Callers : Log(c)
  \/ RollOver
  \/ Writer \/ SpuriousWakeup
  \/ DtorStop \/ Dtor

Spec == Init /\ [][Next]_vars

\* Threads that can run do; a spurious wakeup is never promised.
FairSpec ==
  /\ Spec
  /\ \A c \in Callers : WF_vars(LogPush(c))
  /\ WF_vars(Writer)
  /\ WF_vars(Dtor)

-----------------------------------------------------------------------------
\* The domain of every variable.
TypeOK ==
  /\ queue \in Seq(Lines) /\ batch \in Seq(Lines)
  /\ fd \in Closed .. MaxRolls
  /\ stopping \in BOOLEAN
  /\ wpc \in {"check", "lock", "wait", "woken", "lockfd", "write", "done"}
  /\ cpc \in [Callers -> {"idle", "push"}]
  /\ line \in [Callers -> Lines \union {None}]
  /\ \A c \in Callers : line[c] \in Lines <=> cpc[c] = "push"
  /\ logged \in Seq(Lines) /\ written \in Seq(Lines)
  /\ dropped \subseteq Lines
  /\ rolls \in 0 .. MaxRolls
  /\ dtor \in {"no", "notify", "join", "done"}

\* What was queued and not discarded, in the order it is written.
Kept == written \o batch \o queue

\* m and n are places of logged that hold the lines k and l, in this order.
LoggedBefore(k, l) ==
  \E m, n \in DOMAIN logged : m < n /\ logged[m] = k /\ logged[n] = l

\* Lines reach the files in the order log() queued them, each once (each is
\* logged once), and the only ones missing are those met by a logger without a
\* file, whatever rotations and batches came between.
LinesInOrder ==
  /\ ToSet(Kept) = ToSet(logged) \ dropped
  /\ \A i, j \in DOMAIN Kept : i < j => LoggedBefore(Kept[i], Kept[j])

\* logrotate never splits a batch: the descriptor the writing thread tested is
\* the one it writes all the lines of the batch to (fdMutex_).
BatchInOneFile == [][wpc = "write" /\ wpc' = "write" => fd' = fd /\ fd # Closed]_vars

\* Every line queued is written by the writing thread.
EveryLineWritten ==
  \A l \in Lines : l \in ToSet(queue) ~> l \in ToSet(written) \union dropped

=============================================================================
