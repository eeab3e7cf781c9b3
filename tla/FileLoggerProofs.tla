-------------------------- MODULE FileLoggerProofs --------------------------
(***************************************************************************)
(* The safety properties of FileLogger, for every set of lines and callers *)
(* and every number of rotations.                                          *)
(***************************************************************************)
EXTENDS FileLogger, SequenceFacts, SequenceTheorems, TLAPS

\* The writing thread holds lines of its own only between the swap and the end
\* of the batch, writes to an open file, and no file is newer than the last
\* rotation.
WriterSound ==
  /\ wpc \notin {"lockfd", "write"} => batch = <<>>
  /\ wpc = "write" => fd # Closed
  /\ fd <= rolls

\* No line is queued twice: a caller's line is not queued or discarded yet, and
\* is no other caller's.
LoggedOnce ==
  /\ \A i, j \in DOMAIN logged : logged[i] = logged[j] => i = j
  /\ \A c \in Callers : cpc[c] = "push" => line[c] \notin ToSet(logged) \union dropped
  /\ \A c, d \in Callers : cpc[c] = "push" /\ line[c] = line[d] => c = d

\* The inductive invariant.
IInv ==
  /\ TypeOK
  /\ WriterSound
  /\ LoggedOnce
  /\ LinesInOrder

-----------------------------------------------------------------------------
(* The lines that are kept. *)

\* Kept is a sequence of lines; no line is in it twice.
LEMMA KeptOnce ==
    ASSUME IInv
    PROVE  /\ Kept \in Seq(Lines)
           /\ \A i, j \in 1 .. Len(Kept) : Kept[i] = Kept[j] => i = j
  <1>1. Kept \in Seq(Lines)
    BY ThreeParts DEF Kept, IInv, TypeOK
  <1>2. Len(Kept) \in Nat /\ DOMAIN Kept = 1 .. Len(Kept)
    BY <1>1, LenProperties
  <1>3. DOMAIN logged = 1 .. Len(logged) /\ Len(logged) \in Nat
    BY LenProperties DEF IInv, TypeOK
  <1>4. ASSUME NEW i \in 1 .. Len(Kept), NEW j \in 1 .. Len(Kept), i < j
        PROVE  Kept[i] # Kept[j]
    <2>1. PICK m \in DOMAIN logged, n \in DOMAIN logged :
             m < n /\ logged[m] = Kept[i] /\ logged[n] = Kept[j]
      BY <1>2, <1>4 DEF IInv, LinesInOrder, LoggedBefore
    <2>2. m # n
      BY <2>1, <1>3
    <2> QED BY <2>1, <2>2 DEF IInv, LoggedOnce
  <1> QED BY <1>1, <1>2, <1>4

\* A step that changes neither what is kept nor the histories of the callers
\* leaves the order as it was.
LEMMA KeptFrame ==
    ASSUME IInv, Kept' = Kept, logged' = logged, dropped' = dropped
    PROVE  LinesInOrder'
  BY DEF IInv, LinesInOrder, LoggedBefore

-----------------------------------------------------------------------------
(* One lemma for each step that touches the lines. *)

\* log() before it takes queueMutex_.
LEMMA LogBeginIInv ==
    ASSUME IInv, NEW c \in Callers, NEW l \in Lines, LogBegin(c, l)
    PROVE  IInv'
  <1> USE DEF IInv
  <1>1. TypeOK' /\ WriterSound'
    BY NoneAssumption DEF LogBegin, TypeOK, WriterSound, Closed
  <1>2. LoggedOnce'
    <2>1. CASE fd = Closed
      BY <2>1 DEF LogBegin, TypeOK, LoggedOnce
    <2>2. CASE fd # Closed
      <3>1. /\ cpc' = [cpc EXCEPT ![c] = "push"] /\ line' = [line EXCEPT ![c] = l]
            /\ logged' = logged /\ dropped' = dropped
            /\ l \notin ToSet(logged) \union dropped
            /\ \A d \in Callers : line[d] # l
        BY <2>2 DEF LogBegin
      <3>2. /\ cpc'[c] = "push" /\ line'[c] = l
            /\ \A d \in Callers \ {c} : cpc'[d] = cpc[d] /\ line'[d] = line[d]
        BY <3>1 DEF TypeOK
      <3>3. \A d \in Callers : cpc'[d] = "push" => line'[d] \notin ToSet(logged') \union dropped'
        BY <3>1, <3>2 DEF LoggedOnce
      <3>4. \A d, e \in Callers : cpc'[d] = "push" /\ line'[d] = line'[e] => d = e
        BY <3>1, <3>2 DEF LoggedOnce
      <3> QED BY <3>1, <3>3, <3>4 DEF LoggedOnce
    <2> QED BY <2>1, <2>2
  <1>3. LinesInOrder'
    <2>1. Kept' = Kept /\ ToSet(logged') = ToSet(logged) /\ logged' = logged
      BY DEF LogBegin, Kept
    <2>2. ToSet(logged) \ dropped' = ToSet(logged) \ dropped
      BY DEF LogBegin
    <2> QED BY <2>1, <2>2 DEF LinesInOrder, LoggedBefore
  <1> QED BY <1>1, <1>2, <1>3

\* log() under queueMutex_: the line goes to the end of what is kept.
LEMMA LogPushIInv ==
    ASSUME IInv, NEW c \in Callers, LogPush(c)
    PROVE  IInv'
  <1> USE DEF IInv
  <1> DEFINE l == line[c]
  <1>1. l \in Lines /\ l \notin ToSet(logged) \union dropped
    BY DEF LogPush, TypeOK, LoggedOnce
  <1>2. /\ queue' = Append(queue, l) /\ logged' = Append(logged, l)
        /\ UNCHANGED <<batch, written, dropped>>
    BY DEF LogPush
  <1> HIDE DEF l
  <1>3. /\ queue' \in Seq(Lines) /\ logged' \in Seq(Lines)
        /\ Len(logged') = Len(logged) + 1 /\ Len(logged) \in Nat
        /\ \A i \in 1 .. Len(logged) : logged'[i] = logged[i]
        /\ logged'[Len(logged) + 1] = l
        /\ DOMAIN logged = 1 .. Len(logged) /\ DOMAIN logged' = 1 .. Len(logged')
    BY <1>1, <1>2, AppendProperties, LenProperties DEF TypeOK
  <1>4. Kept' = Append(Kept, l)
    <2> DEFINE u == written \o batch
    <2>1. u \in Seq(Lines) /\ queue \in Seq(Lines) /\ <<l>> \in Seq(Lines)
      BY <1>1, ConcatProperties DEF TypeOK
    <2>2. Kept' = u \o Append(queue, l)
      BY <1>2 DEF Kept
    <2> HIDE DEF u
    <2>3. Append(queue, l) = queue \o <<l>>
      BY <1>1, <2>1, AppendIsConcat
    <2>4. u \o (queue \o <<l>>) = (u \o queue) \o <<l>>
      BY <2>1, ConcatAssociative
    <2>5. u \o queue \in Seq(Lines)
      BY <2>1, ConcatProperties
    <2>6. Append(u \o queue, l) = (u \o queue) \o <<l>>
      BY <1>1, <2>5, AppendIsConcat
    <2> QED BY <2>2, <2>3, <2>4, <2>6 DEF u, Kept
  <1>5. /\ Kept \in Seq(Lines) /\ Kept' \in Seq(Lines)
        /\ Len(Kept') = Len(Kept) + 1 /\ Len(Kept) \in Nat
        /\ \A i \in 1 .. Len(Kept) : Kept'[i] = Kept[i]
        /\ Kept'[Len(Kept) + 1] = l
        /\ DOMAIN Kept = 1 .. Len(Kept) /\ DOMAIN Kept' = 1 .. Len(Kept')
    BY <1>1, <1>4, KeptOnce, AppendProperties, LenProperties
  <1>6. ToSet(logged') = ToSet(logged) \union {l} /\ ToSet(Kept') = ToSet(Kept) \union {l}
    <2>1. ToSet(logged') = ToSet(logged) \union {l}
      BY <1>3 DEF ToSet
    <2>2. ToSet(Kept') = ToSet(Kept) \union {l}
      BY <1>5 DEF ToSet
    <2> QED BY <2>1, <2>2
  <1>7. TypeOK'
    BY <1>2, <1>3, NoneAssumption DEF LogPush, TypeOK, Signalled
  <1>8. WriterSound'
    BY DEF LogPush, WriterSound, Signalled
  <1>9. LoggedOnce'
    <2>1. \A i, j \in DOMAIN logged' : logged'[i] = logged'[j] => i = j
      <3>1. \A i \in 1 .. Len(logged) : logged[i] # l
        BY <1>1, <1>3 DEF ToSet
      <3> QED BY <3>1, <1>3 DEF LoggedOnce
    <2>2. \A d \in Callers : cpc'[d] = "push" =>
             d # c /\ cpc[d] = "push" /\ line'[d] = line[d]
      BY DEF LogPush, TypeOK
    <2>3. \A d \in Callers : cpc'[d] = "push" => line'[d] \notin ToSet(logged') \union dropped'
      BY <2>2, <1>2, <1>6 DEF l, LogPush, LoggedOnce
    <2>4. \A d, e \in Callers : cpc'[d] = "push" /\ line'[d] = line'[e] => d = e
      <3>1. \A d \in Callers : cpc[d] = "push" => line[d] # None
        BY NoneAssumption DEF TypeOK
      <3> QED BY <2>2, <3>1 DEF LogPush, LoggedOnce, TypeOK
    <2> QED BY <2>1, <2>3, <2>4 DEF LoggedOnce
  <1>10. LinesInOrder'
    <2>1. ToSet(Kept') = ToSet(logged') \ dropped'
      BY <1>1, <1>2, <1>6 DEF LinesInOrder
    <2>2. ASSUME NEW i \in DOMAIN Kept', NEW j \in DOMAIN Kept', i < j
          PROVE  \E m, n \in DOMAIN logged' :
                    m < n /\ logged'[m] = Kept'[i] /\ logged'[n] = Kept'[j]
      <3>1. i \in 1 .. Len(Kept) /\ Kept'[i] = Kept[i]
        BY <2>2, <1>5
      <3>2. CASE j \in 1 .. Len(Kept)
        <4>1. Kept'[j] = Kept[j]
          BY <3>2, <1>5
        <4>2. PICK m \in DOMAIN logged, n \in DOMAIN logged :
                 m < n /\ logged[m] = Kept[i] /\ logged[n] = Kept[j]
          BY <2>2, <3>1, <3>2, <1>5 DEF LinesInOrder, LoggedBefore
        <4> QED BY <3>1, <4>1, <4>2, <1>3
      <3>3. CASE j = Len(Kept) + 1
        <4>1. PICK m \in DOMAIN logged : logged[m] = Kept[i]
          BY <3>1, <1>5 DEF LinesInOrder, ToSet
        <4>2. m \in DOMAIN logged' /\ logged'[m] = Kept'[i] /\ m < Len(logged) + 1
          BY <3>1, <4>1, <1>3
        <4> QED BY <3>3, <4>2, <1>3, <1>5
      <3> QED BY <3>2, <3>3, <1>5
    <2> QED BY <2>1, <2>2 DEF LinesInOrder, LoggedBefore
  <1> QED BY <1>7, <1>8, <1>9, <1>10

\* The swap: the lines change hands and keep their order.
LEMMA WriterSwapIInv ==
    ASSUME IInv, WriterSwap
    PROVE  IInv'
  <1> USE DEF IInv
  <1>1. batch = <<>> /\ batch' = queue /\ queue' = <<>> /\ written' = written
    BY DEF WriterSwap, WriterSound
  <1>2. Kept' = Kept
    <2>1. written \o queue \in Seq(Lines) /\ written \in Seq(Lines)
      BY ConcatProperties DEF TypeOK
    <2>2. written \o <<>> = written /\ (written \o queue) \o <<>> = written \o queue
      BY <2>1, ConcatEmptySeq
    <2> QED BY <1>1, <2>2 DEF Kept
  <1>3. TypeOK'
    BY <1>1, EmptySeq DEF WriterSwap, TypeOK, callerVars
  <1>4. WriterSound' /\ LoggedOnce'
    BY DEF WriterSwap, WriterSound, LoggedOnce, callerVars
  <1>5. LinesInOrder'
    BY <1>2, KeptFrame DEF WriterSwap
  <1> QED BY <1>3, <1>4, <1>5

\* fdMutex_ taken: with no file open the batch goes from what is kept to what
\* was dropped, and the rest keeps its order.
LEMMA WriterLockFdIInv ==
    ASSUME IInv, WriterLockFd
    PROVE  IInv'
  <1> USE DEF IInv
  <1>1. CASE fd # Closed
    <2>1. Kept' = Kept /\ logged' = logged /\ dropped' = dropped
      BY <1>1 DEF WriterLockFd, Kept
    <2>2. TypeOK' /\ WriterSound' /\ LoggedOnce'
      BY <1>1 DEF WriterLockFd, TypeOK, WriterSound, LoggedOnce, callerVars
    <2> QED BY <2>1, <2>2, KeptFrame
  <1>2. CASE fd = Closed
    <2>1. /\ batch' = <<>> /\ dropped' = dropped \union ToSet(batch)
          /\ wpc' = "check"
          /\ UNCHANGED <<queue, fd, stopping, callerVars, logged, written, rolls, dtor>>
      BY <1>2 DEF WriterLockFd
    <2>2. Kept' = written \o queue
      <3>1. written \o <<>> = written
        BY ConcatEmptySeq DEF TypeOK
      <3> QED BY <2>1, <3>1 DEF Kept
    <2>3. PICK e : Embeds(e, Kept', Kept, Len(written), Len(written) + Len(batch))
      BY <2>2, WithoutMiddle DEF Kept, TypeOK
    <2> USE <2>3 DEF Embeds
    <2>4. /\ Kept \in Seq(Lines) /\ Kept' \in Seq(Lines)
          /\ DOMAIN Kept = 1 .. Len(Kept) /\ DOMAIN Kept' = 1 .. Len(Kept')
          /\ DOMAIN batch = 1 .. Len(batch)
          /\ Len(written) \in Nat /\ Len(batch) \in Nat
      BY <2>2, KeptOnce, ConcatProperties, LenProperties DEF TypeOK
    <2>5. ASSUME NEW k \in 1 .. Len(batch)
          PROVE  /\ Len(written) + k \in 1 .. Len(Kept)
                 /\ Kept[Len(written) + k] = batch[k]
      <3>1. /\ Len(Kept) = Len(written) + Len(batch) + Len(queue) /\ Len(queue) \in Nat
            /\ \A i \in 1 .. Len(written) + Len(batch) + Len(queue) :
                 Kept[i] = IF i <= Len(written) THEN written[i]
                           ELSE IF i <= Len(written) + Len(batch)
                                THEN batch[i - Len(written)]
                           ELSE queue[i - (Len(written) + Len(batch))]
        BY ThreeParts DEF Kept, TypeOK
      <3> DEFINE i == Len(written) + k
      <3>2. /\ i \in 1 .. Len(written) + Len(batch) + Len(queue)
            /\ ~(i <= Len(written)) /\ i <= Len(written) + Len(batch) /\ i - Len(written) = k
        BY <2>4, <3>1
      <3> HIDE DEF i
      <3>3. i \in 1 .. Len(Kept) /\ Kept[i] = batch[k]
        BY <3>1, <3>2
      <3> QED BY <3>3 DEF i
    <2>6. ToSet(Kept') = ToSet(Kept) \ ToSet(batch)
      <3>1. ASSUME NEW i \in 1 .. Len(Kept')
            PROVE  Kept'[i] \in ToSet(Kept) /\ Kept'[i] \notin ToSet(batch)
        <4>1. Kept'[i] = Kept[e[i]] /\ e[i] \in 1 .. Len(Kept)
          OBVIOUS
        <4>2. ASSUME NEW k \in 1 .. Len(batch), batch[k] = Kept'[i] PROVE FALSE
          <5>1. Len(written) + k = e[i]
            BY <2>5, <4>1, <4>2, KeptOnce
          <5>2. Len(written) + k \in Len(written) + 1 .. Len(written) + Len(batch)
            BY <2>4
          <5> QED BY <5>1, <5>2, <2>3
        <4> QED BY <4>1, <4>2, <2>4 DEF ToSet
      <3>2. ASSUME NEW k \in 1 .. Len(Kept), Kept[k] \notin ToSet(batch)
            PROVE  Kept[k] \in ToSet(Kept')
        <4>1. CASE k \in Len(written) + 1 .. Len(written) + Len(batch)
          <5>1. k - Len(written) \in 1 .. Len(batch) /\ Len(written) + (k - Len(written)) = k
            BY <4>1, <2>4
          <5>2. Kept[k] = batch[k - Len(written)]
            BY <5>1, <2>5
          <5> QED BY <5>1, <5>2, <3>2, <2>4 DEF ToSet
        <4>2. CASE \E i \in 1 .. Len(Kept') : e[i] = k
          BY <4>2, <2>3, <2>4 DEF ToSet
        <4> QED BY <4>1, <4>2, <2>3
      <3>3. ToSet(Kept) = {Kept[k] : k \in 1 .. Len(Kept)}
            /\ ToSet(Kept') = {Kept'[k] : k \in 1 .. Len(Kept')}
        BY <2>4 DEF ToSet
      <3>4. ToSet(Kept') \subseteq ToSet(Kept) \ ToSet(batch)
        BY <3>1, <3>3
      <3>5. ToSet(Kept) \ ToSet(batch) \subseteq ToSet(Kept')
        BY <3>2, <3>3
      <3> QED BY <3>4, <3>5
    <2>7. ToSet(batch) \subseteq ToSet(logged) /\ ToSet(batch) \subseteq Lines
      <3>1. ToSet(batch) \subseteq ToSet(Kept)
        BY <2>4, <2>5 DEF ToSet
      <3>2. \A k \in 1 .. Len(batch) : batch[k] \in Lines
        BY ElementOfSeq DEF TypeOK
      <3> QED BY <3>1, <3>2, <2>4 DEF LinesInOrder, ToSet
    <2>8. TypeOK'
      BY <2>1, <2>7, EmptySeq DEF TypeOK, callerVars
    <2>9. WriterSound' /\ LoggedOnce'
      BY <2>1, <2>7 DEF WriterSound, LoggedOnce, callerVars
    <2>10. LinesInOrder'
      <3>1. ToSet(Kept') = ToSet(logged') \ dropped'
        BY <2>1, <2>6 DEF LinesInOrder
      <3>2. ASSUME NEW i \in DOMAIN Kept', NEW j \in DOMAIN Kept', i < j
            PROVE  \E m, n \in DOMAIN logged :
                      m < n /\ logged[m] = Kept'[i] /\ logged[n] = Kept'[j]
        <4>1. /\ e[i] \in DOMAIN Kept /\ e[j] \in DOMAIN Kept /\ e[i] < e[j]
              /\ Kept'[i] = Kept[e[i]] /\ Kept'[j] = Kept[e[j]]
          BY <2>3, <2>4, <3>2
        <4> QED BY <4>1 DEF LinesInOrder, LoggedBefore
      <3> QED BY <3>1, <3>2, <2>1 DEF LinesInOrder, LoggedBefore
    <2> QED BY <2>8, <2>9, <2>10
  <1> QED BY <1>1, <1>2

\* One write(2): the line moves from the batch to the file.
LEMMA WriterWriteIInv ==
    ASSUME IInv, WriterWrite
    PROVE  IInv'
  <1> USE DEF IInv
  <1>1. Kept' = Kept /\ batch' \in Seq(Lines) /\ written' \in Seq(Lines)
    <2>1. CASE batch = <<>>
      BY <2>1 DEF WriterWrite, Kept, TypeOK
    <2>2. CASE batch # <<>>
      <3>1. /\ written' = Append(written, Head(batch)) /\ batch' = Tail(batch)
            /\ queue' = queue
        BY <2>2 DEF WriterWrite
      <3>2. written' \o batch' = written \o batch
        BY <2>2, <3>1, HeadMoves DEF TypeOK
      <3>3. Head(batch) \in Lines /\ Tail(batch) \in Seq(Lines)
        BY <2>2, HeadTailProperties DEF TypeOK
      <3>4. written' \in Seq(Lines)
        BY <3>1, <3>3, AppendProperties DEF TypeOK
      <3> QED BY <3>1, <3>2, <3>3, <3>4 DEF Kept
    <2> QED BY <2>1, <2>2
  <1>2. TypeOK' /\ WriterSound' /\ LoggedOnce'
    BY <1>1 DEF WriterWrite, TypeOK, WriterSound, LoggedOnce, callerVars
  <1>3. LinesInOrder'
    BY <1>1, KeptFrame DEF WriterWrite
  <1> QED BY <1>2, <1>3

-----------------------------------------------------------------------------
(* The theorems. *)

\* The constructor establishes the invariant.
LEMMA InitIInv == Init => IInv
  <1> SUFFICES ASSUME Init PROVE IInv
    OBVIOUS
  <1>1. TypeOK
    <2>1. <<>> \in Seq(Lines)
      BY EmptySeq
    <2>2. cpc \in [Callers -> {"idle", "push"}] /\ line \in [Callers -> Lines \union {None}]
      BY DEF Init
    <2>3. \A c \in Callers : line[c] \in Lines <=> cpc[c] = "push"
      BY NoneAssumption DEF Init
    <2>4. fd \in Closed .. MaxRolls /\ rolls \in 0 .. MaxRolls
      BY MaxRollsAssumption DEF Init, Closed
    <2> QED BY <2>1, <2>2, <2>3, <2>4 DEF Init, TypeOK
  <1>2. WriterSound
    BY DEF Init, WriterSound, Closed
  <1>3. DOMAIN <<>> = {} /\ ToSet(<<>>) = {}
    <2>1. DOMAIN <<>> = {}
      BY EmptySeq, LenProperties
    <2> QED BY <2>1 DEF ToSet
  <1>4. LoggedOnce
    BY <1>3 DEF Init, LoggedOnce
  <1>5. LinesInOrder
    <2>1. <<>> \o <<>> = <<>>
      BY ConcatEmptySeq, EmptySeq
    <2>2. Kept = <<>>
      BY <2>1 DEF Init, Kept
    <2> QED BY <2>2, <1>3 DEF Init, LinesInOrder
  <1> QED BY <1>1, <1>2, <1>4, <1>5 DEF IInv

\* Every step preserves it.
LEMMA NextIInv == IInv /\ [Next]_vars => IInv'
  <1> SUFFICES ASSUME IInv, [Next]_vars PROVE IInv'
    OBVIOUS
  <1>1. ASSUME Kept' = Kept, logged' = logged, dropped' = dropped,
               TypeOK', WriterSound', LoggedOnce'
        PROVE  IInv'
    BY <1>1, KeptFrame DEF IInv
  <1>2. ASSUME NEW c \in Callers, Log(c) PROVE IInv'
    BY <1>2, LogBeginIInv, LogPushIInv DEF Log
  <1>3. CASE RollOver
    <2>1. TypeOK'
      BY <1>3, MaxRollsAssumption DEF IInv, RollOver, Reopen, TypeOK, callerVars, Closed
    <2>2. WriterSound'
      BY <1>3, MaxRollsAssumption DEF IInv, RollOver, Reopen, TypeOK, WriterSound, Closed
    <2>3. LoggedOnce' /\ Kept' = Kept /\ logged' = logged /\ dropped' = dropped
      BY <1>3 DEF IInv, RollOver, LoggedOnce, callerVars, Kept
    <2> QED BY <2>1, <2>2, <2>3, <1>1
  <1>4. CASE WriterCheck \/ WriterWait \/ SpuriousWakeup
    BY <1>4, <1>1 DEF IInv, WriterCheck, WriterWait, SpuriousWakeup, TypeOK, WriterSound,
                      LoggedOnce, callerVars, Kept
  <1>5. CASE WriterSwap \/ WriterLockFd \/ WriterWrite
    BY <1>5, WriterSwapIInv, WriterLockFdIInv, WriterWriteIInv
  <1>6. CASE DtorStop \/ DtorNotify
    BY <1>6, <1>1 DEF IInv, DtorStop, DtorNotify, Signalled, TypeOK, WriterSound, LoggedOnce,
                      callerVars, Kept
  <1>7. CASE DtorJoin
    <2>1. TypeOK' /\ WriterSound'
      BY <1>7, MaxRollsAssumption DEF IInv, DtorJoin, TypeOK, WriterSound, callerVars, Closed
    <2>2. LoggedOnce' /\ Kept' = Kept /\ logged' = logged /\ dropped' = dropped
      BY <1>7 DEF IInv, DtorJoin, LoggedOnce, callerVars, Kept
    <2> QED BY <2>1, <2>2, <1>1
  <1>8. CASE UNCHANGED vars
    BY <1>8, <1>1 DEF IInv, TypeOK, WriterSound, LoggedOnce, Kept, vars
  <1> QED BY <1>2, <1>3, <1>4, <1>5, <1>6, <1>7, <1>8 DEF Next, Writer, Dtor

\* The inductive invariant holds in every state of the logger.
THEOREM Invariance == Spec => []IInv
  BY InitIInv, NextIInv, PTL DEF Spec

\* Type correctness of the logger, its queue, its descriptor and its threads.
THEOREM TypeCorrect == Spec => []TypeOK
  <1>1. IInv => TypeOK
    BY DEF IInv
  <1> QED BY <1>1, Invariance, PTL

\* The files hold the lines in the order log() queued them, each once, without
\* any but those met by a logger with no file, for any number of callers, lines
\* and rotations.
THEOREM OrderKept == Spec => []LinesInOrder
  <1>1. IInv => LinesInOrder
    BY DEF IInv
  <1> QED BY <1>1, Invariance, PTL

\* rollOver never changes the file under a batch (fdMutex_): all its lines go to
\* the descriptor that the writing thread tested.
THEOREM BatchNotSplit == Spec => BatchInOneFile
  <1>1. IInv /\ [Next]_vars => [wpc = "write" /\ wpc' = "write" => fd' = fd /\ fd # Closed]_vars
    <2> SUFFICES ASSUME IInv, [Next]_vars, wpc = "write" PROVE fd' = fd /\ fd # Closed
      OBVIOUS
    <2>1. fd # Closed
      BY DEF IInv, WriterSound
    <2>2. fd' = fd
      BY DEF Next, Log, LogBegin, LogPush, RollOver, Writer, WriterCheck, WriterWait, WriterSwap,
             WriterLockFd, WriterWrite, SpuriousWakeup, DtorStop, Dtor, DtorNotify, DtorJoin, vars
    <2> QED BY <2>1, <2>2
  <1> QED BY <1>1, Invariance, PTL DEF Spec, BatchInOneFile

=============================================================================
