---------------------------- MODULE StartupProofs ----------------------------
(***************************************************************************)
(* The start-up and the end of the daemon, for every configuration.        *)
(*                                                                         *)
(* First the component set, for every number of components and every way   *)
(* in which their onLoad methods look each other up, throw and catch; then *)
(* the texts of the configuration, whose variables resolveVariables        *)
(* replaces turn by turn by what they mean; then Globals, which uses the   *)
(* set as ComponentSet says, keeps the modules mapped as long as it has    *)
(* components, and is up only with everything in place.                    *)
(***************************************************************************)
EXTENDS Startup, SequenceFacts, FiniteSetTheorems

(* The component set. *)

FrameType == [comp : Components, todo : SUBSET Components]

\* isLoadingStarted is set by the one call of onLoad and never reset.
CallsExact == \A c \in Components : calls[c] = IF c \in started THEN 1 ELSE 0

\* The onLoad calls under way belong to different components, which have been
\* started and are not loaded yet, and hold pointers to loaded ones only.
StackSound ==
    /\ \A i \in 1 .. Len(stack) :
          /\ stack[i].comp \in started
          /\ \A k \in 1 .. Len(loaded) : loaded[k] # stack[i].comp
          /\ \A d \in got[stack[i].comp] : \E k \in 1 .. Len(loaded) : loaded[k] = d
    /\ \A i, j \in 1 .. Len(stack) : stack[i].comp = stack[j].comp => i = j

\* loadingStack_ holds each component once, after those it has pointers to.
LoadedSound ==
    /\ \A i \in 1 .. Len(loaded) :
          /\ loaded[i] \in started
          /\ \A d \in got[loaded[i]] : \E k \in 1 .. i - 1 : loaded[k] = d
    /\ \A i, j \in 1 .. Len(loaded) : loaded[i] = loaded[j] => i = j

\* A component that was never started holds no pointer, and onLoad calls are
\* under way only while components are being loaded.
Idle ==
    /\ \A c \in Components : c \notin started => got[c] = {}
    /\ mode \notin {"load", "throw"} => stack = <<>>

\* The inductive invariant.
IInv == TypeOK /\ CallsExact /\ StackSound /\ LoadedSound /\ Idle

-----------------------------------------------------------------------------
(* Facts about the ends of a sequence. *)

\* What the last element and the rest of a stack are.
LEMMA FrontLast ==
    ASSUME NEW S, NEW s \in Seq(S), s # <<>>
    PROVE  /\ Len(s) \in Nat \ {0}
           /\ Last(s) = s[Len(s)] /\ Last(s) \in S
           /\ Front(s) \in Seq(S) /\ Len(Front(s)) = Len(s) - 1
           /\ \A i \in 1 .. Len(s) - 1 : Front(s)[i] = s[i]
  <1>1. Len(s) \in Nat \ {0}
    BY EmptySeq, LenProperties
  <1>2. s[Len(s)] \in S
    BY <1>1, ElementOfSeq
  <1>3. /\ SubSeq(s, 1, Len(s) - 1) \in Seq(S)
        /\ Len(SubSeq(s, 1, Len(s) - 1)) = Len(s) - 1
        /\ \A i \in 1 .. Len(s) - 1 : SubSeq(s, 1, Len(s) - 1)[i] = s[i]
    <2> DEFINE n == Len(s) - 1
    <2>1. n \in Nat /\ \A i \in 1 .. n : s[i] \in S
      BY <1>1, ElementOfSeq
    <2> HIDE DEF n
    <2>2. /\ SubSeq(s, 1, n) \in Seq(S)
          /\ Len(SubSeq(s, 1, n)) = IF 1 <= n THEN n - 1 + 1 ELSE 0
          /\ \A i \in 1 .. n - 1 + 1 : SubSeq(s, 1, n)[i] = s[1 + i - 1]
      BY <2>1, SubSeqProperties
    <2>3. \A i \in 1 .. n : i \in 1 .. n - 1 + 1 /\ 1 + i - 1 = i
      BY <2>1
    <2>4. (IF 1 <= n THEN n - 1 + 1 ELSE 0) = n
      BY <2>1
    <2> QED BY <2>2, <2>3, <2>4 DEF n
  <1> QED BY <1>1, <1>2, <1>3 DEF Last, Front

\* Membership in loadingStack_ by its indices.
LEMMA LoadedIndex ==
    ASSUME loaded \in Seq(Components), NEW c
    PROVE  Loaded(c) <=> \E k \in 1 .. Len(loaded) : loaded[k] = c
  <1>1. DOMAIN loaded = 1 .. Len(loaded)
    BY LenProperties
  <1> QED BY <1>1 DEF Loaded, ToSet

\* A call on the stack is the onLoad of a component.
LEMMA FrameComponent ==
    ASSUME NEW s \in Seq(FrameType), NEW i \in 1 .. Len(s)
    PROVE  s[i].comp \in Components
  <1>1. s[i] \in FrameType
    BY ElementOfSeq
  <1> QED BY <1>1 DEF FrameType

-----------------------------------------------------------------------------
(* The three facts about IInv. *)

\* A set nothing was loaded into satisfies the invariant.
LEMMA InitIInv == Init => IInv
  <1> SUFFICES ASSUME Init PROVE IInv
    OBVIOUS
  <1>1. <<>> \in Seq(Components) /\ <<>> \in Seq(FrameType) /\ Len(<<>>) = 0
    BY EmptySeq
  <1>2. TypeOK
    <2>1. 1 \in 1 .. N + 1
      BY NAssumption
    <2> QED BY <1>1, <2>1 DEF Init, Fresh, TypeOK, FrameType
  <1> QED BY <1>1, <1>2 DEF Init, Fresh, IInv, CallsExact, StackSound, LoadedSound, Idle

\* The calls that stay on the stack keep what holds of them.
LEMMA StackKept ==
    ASSUME StackSound, started \subseteq started', UNCHANGED <<loaded, got>>,
           Len(stack) \in Nat, Len(stack') \in Nat, Len(stack') <= Len(stack),
           \A i \in 1 .. Len(stack') : stack'[i].comp = stack[i].comp
    PROVE  StackSound'
  <1>1. \A i \in 1 .. Len(stack') : i \in 1 .. Len(stack)
    OBVIOUS
  <1>2. ASSUME NEW i \in 1 .. Len(stack')
        PROVE  /\ stack'[i].comp \in started'
               /\ \A k \in 1 .. Len(loaded') : loaded'[k] # stack'[i].comp
               /\ \A d \in got'[stack'[i].comp] :
                     \E k \in 1 .. Len(loaded') : loaded'[k] = d
    <2> DEFINE c == stack[i].comp
    <2>1. stack'[i].comp = c
      OBVIOUS
    <2>2. /\ c \in started
          /\ \A k \in 1 .. Len(loaded) : loaded[k] # c
          /\ \A d \in got[c] : \E k \in 1 .. Len(loaded) : loaded[k] = d
      BY <1>1 DEF StackSound
    <2> HIDE DEF c
    <2> QED BY <2>1, <2>2
  <1>3. ASSUME NEW i \in 1 .. Len(stack'), NEW j \in 1 .. Len(stack'),
               stack'[i].comp = stack'[j].comp
        PROVE  i = j
    <2>1. stack[i].comp = stack[j].comp
      BY <1>3
    <2> QED BY <1>1, <2>1 DEF StackSound
  <1> QED BY <1>2, <1>3 DEF StackSound

\* sendOnLoad preserves the invariant, whether it starts the component or finds
\* it on the stack of calls and throws.
LEMMA SendOnLoadIInv ==
    ASSUME IInv, mode = "load",
           NEW c \in Components, ~Loaded(c),
           NEW frames \in Seq(FrameType), Len(frames) = Len(stack),
           \A i \in 1 .. Len(stack) : frames[i].comp = stack[i].comp,
           SendOnLoad(c, frames), cursor' \in 1 .. N + 1,
           UNCHANGED <<config, loaded, got>>
    PROVE  IInv'
  <1> USE DEF IInv
  <1>0. Len(stack) \in Nat
    BY LenProperties DEF TypeOK, FrameType
  <1>1. CASE c \in started
    <2>1. TypeOK'
      BY <1>1 DEF TypeOK, SendOnLoad, config, FrameType, Components
    <2>2. CallsExact' /\ LoadedSound' /\ Idle'
      BY <1>1 DEF CallsExact, LoadedSound, Idle, SendOnLoad, Components
    <2>3. StackSound'
      BY <1>0, <1>1, StackKept DEF SendOnLoad
    <2> QED BY <2>1, <2>2, <2>3
  <1>2. CASE c \notin started
    <2>1. Frame(c) \in FrameType /\ Frame(c).comp = c
      BY DEF Frame, FrameType, TypeOK
    <2>2. /\ stack' \in Seq(FrameType) /\ Len(stack') = Len(stack) + 1
          /\ \A i \in 1 .. Len(stack) : stack'[i] = frames[i]
          /\ stack'[Len(stack) + 1] = Frame(c)
      <3>1. stack' = Append(frames, Frame(c))
        BY <1>2 DEF SendOnLoad
      <3> HIDE DEF IInv
      <3> QED BY <2>1, <3>1, AppendProperties
    <2>3. TypeOK'
      <3>1. stack' \in Seq([comp : Components, todo : SUBSET Components])
        BY <2>2 DEF FrameType
      <3>2. calls' \in [Components -> Nat]
        <4>1. calls \in [Components -> Nat] /\ calls' = [calls EXCEPT ![c] = @ + 1]
          BY <1>2 DEF TypeOK, SendOnLoad
        <4> HIDE DEF IInv
        <4> QED BY <4>1
      <3>3. started' \subseteq Components
        BY <1>2 DEF TypeOK, SendOnLoad
      <3>4. UNCHANGED <<needs, catches, throws, loaded, got, mode>>
        BY <1>2 DEF SendOnLoad, config
      <3> QED BY <3>1, <3>2, <3>3, <3>4 DEF TypeOK, Components
    <2>4. CallsExact'
      <3>1. calls' = [calls EXCEPT ![c] = @ + 1] /\ started' = started \union {c}
        BY <1>2 DEF SendOnLoad
      <3>2. calls \in [Components -> Nat] /\ calls[c] = 0
        BY <1>2 DEF TypeOK, CallsExact
      <3>3. \A b \in Components : calls'[b] = IF b \in started' THEN 1 ELSE 0
        BY <3>1, <3>2 DEF CallsExact
      <3> QED BY <3>3 DEF CallsExact, Components
    <2>5. LoadedSound'
      <3>1. started \subseteq started' /\ loaded' = loaded /\ got' = got
        BY <1>2 DEF SendOnLoad
      <3>2. LoadedSound
        OBVIOUS
      <3> HIDE DEF IInv
      <3>3. ASSUME NEW i \in 1 .. Len(loaded')
            PROVE  /\ loaded'[i] \in started'
                   /\ \A d \in got'[loaded'[i]] : \E k \in 1 .. i - 1 : loaded'[k] = d
        <4>0. i \in 1 .. Len(loaded)
          BY <3>1
        <4>1. loaded[i] \in started
          BY <3>2, <4>0 DEF LoadedSound
        <4>2. \A d \in got[loaded[i]] : \E k \in 1 .. i - 1 : loaded[k] = d
          BY <3>2, <4>0, Zenon DEF LoadedSound
        <4> QED BY <3>1, <4>1, <4>2
      <3>4. \A i, j \in 1 .. Len(loaded') : loaded'[i] = loaded'[j] => i = j
        BY <3>1, <3>2 DEF LoadedSound
      <3> QED BY <3>3, <3>4, Zenon DEF LoadedSound
    <2>6. Idle'
      BY <1>2 DEF Idle, SendOnLoad, Components
    <2>7. StackSound'
      <3>1. /\ \A i \in 1 .. Len(stack) : stack'[i].comp = stack[i].comp
            /\ stack'[Len(stack) + 1].comp = c
        BY <2>1, <2>2
      <3>2. \A i \in 1 .. Len(stack') : i \in 1 .. Len(stack) \/ i = Len(stack) + 1
        BY <1>0, <2>2
      <3>3. got[c] = {} /\ (\A i \in 1 .. Len(stack) : stack[i].comp # c)
        BY <1>2 DEF Idle, StackSound
      <3>4. \A k \in 1 .. Len(loaded) : loaded[k] # c
        BY LoadedIndex DEF TypeOK
      <3>5. started' = started \union {c} /\ loaded' = loaded /\ got' = got
        BY <1>2 DEF SendOnLoad
      <3>6. ASSUME NEW i \in 1 .. Len(stack')
            PROVE  /\ stack'[i].comp \in started'
                   /\ \A k \in 1 .. Len(loaded') : loaded'[k] # stack'[i].comp
                   /\ \A d \in got'[stack'[i].comp] :
                         \E k \in 1 .. Len(loaded') : loaded'[k] = d
        <4>1. CASE i \in 1 .. Len(stack)
          <5>1. StackSound
            OBVIOUS
          <5> HIDE DEF IInv
          <5>2. /\ stack[i].comp \in started
                /\ \A k \in 1 .. Len(loaded) : loaded[k] # stack[i].comp
                /\ \A d \in got[stack[i].comp] : \E k \in 1 .. Len(loaded) : loaded[k] = d
            BY <4>1, <5>1, Zenon DEF StackSound
          <5>3. stack'[i].comp = stack[i].comp
            BY <4>1, <3>1
          <5> QED BY <5>2, <5>3, <3>5
        <4>2. CASE i = Len(stack) + 1
          BY <4>2, <3>1, <3>3, <3>4, <3>5
        <4> QED BY <4>1, <4>2, <3>2
      <3>7. ASSUME NEW i \in 1 .. Len(stack'), NEW j \in 1 .. Len(stack'),
                   stack'[i].comp = stack'[j].comp
            PROVE  i = j
        BY <3>1, <3>2, <3>3, <3>7 DEF StackSound
      <3> QED BY <3>6, <3>7 DEF StackSound
    <2> QED BY <2>3, <2>4, <2>5, <2>6, <2>7
  <1> QED BY <1>1, <1>2

\* The innermost onLoad call leaves the stack by an exception.
LEMMA DropFrameIInv ==
    ASSUME IInv, stack # <<>>, mode \in {"load", "throw"},
           stack' = Front(stack), mode' = "throw",
           UNCHANGED <<config, started, loaded, cursor, got, calls>>
    PROVE  IInv'
  <1> USE DEF IInv
  <1>1. /\ Len(stack) \in Nat \ {0}
        /\ Front(stack) \in Seq(FrameType) /\ Len(Front(stack)) = Len(stack) - 1
        /\ \A i \in 1 .. Len(stack) - 1 : Front(stack)[i] = stack[i]
    <2>1. stack \in Seq(FrameType)
      BY DEF TypeOK, FrameType
    <2> QED BY <2>1, FrontLast
  <1>2. TypeOK'
    BY <1>1 DEF TypeOK, config, FrameType, Components
  <1>3. CallsExact' /\ LoadedSound' /\ Idle'
    BY DEF CallsExact, LoadedSound, Idle, Components
  <1>4. StackSound'
    BY <1>1, StackKept
  <1> QED BY <1>2, <1>3, <1>4

\* The calls under way after the innermost one has made a lookup.
Lookup(d) == [stack EXCEPT ![Len(stack)].todo = @ \ {d}]

\* They are the same calls.
LEMMA CallerFrames ==
    ASSUME stack \in Seq(FrameType), stack # <<>>, NEW d
    PROVE  /\ Lookup(d) \in Seq(FrameType) /\ Len(Lookup(d)) = Len(stack)
           /\ \A i \in 1 .. Len(stack) : Lookup(d)[i].comp = stack[i].comp
  <1> DEFINE top == Len(stack)
             frames == Lookup(d)
  <1>1. top \in Nat \ {0} /\ stack[top] \in FrameType
    BY FrontLast
  <1>2. frames = [stack EXCEPT ![top] = [stack[top] EXCEPT !.todo = @ \ {d}]]
    BY DEF Lookup
  <1>3. [stack[top] EXCEPT !.todo = @ \ {d}] \in FrameType
        /\ [stack[top] EXCEPT !.todo = @ \ {d}].comp = stack[top].comp
    BY <1>1 DEF FrameType
  <1>4. top \in 1 .. Len(stack) /\ DOMAIN stack = 1 .. Len(stack)
    BY <1>1, LenProperties
  <1>5. frames \in Seq(FrameType) /\ Len(frames) = Len(stack)
    BY <1>2, <1>3, <1>4, ExceptSeq
  <1>6. \A i \in 1 .. Len(stack) : frames[i].comp = stack[i].comp
    BY <1>2, <1>3, <1>4
  <1> QED BY <1>5, <1>6

\* A lookup preserves it: the pointer to a loaded component is handed out, or the
\* component's own onLoad is called first.
LEMMA FindIInv ==
    ASSUME IInv, NEW d \in Components, Find(d)
    PROVE  IInv'
  <1> USE DEF IInv
  <1> DEFINE top == Len(stack)
             caller == Last(stack).comp
             frames == [stack EXCEPT ![Len(stack)].todo = @ \ {d}]
  <1>1. stack \in Seq(FrameType) /\ stack # <<>> /\ mode = "load"
    BY DEF TypeOK, FrameType, Find
  <1>2. top \in Nat \ {0} /\ Last(stack) = stack[top] /\ stack[top] \in FrameType
    BY <1>1, FrontLast
  <1>3. /\ frames \in Seq(FrameType) /\ Len(frames) = Len(stack)
        /\ \A i \in 1 .. Len(stack) : frames[i].comp = stack[i].comp
    BY <1>1, CallerFrames DEF Lookup
  <1>4. CASE Loaded(d)
    <2>1. /\ stack' = frames /\ got' = [got EXCEPT ![caller] = @ \union {d}]
          /\ UNCHANGED <<needs, catches, throws, started, mode, calls, loaded, cursor>>
      BY <1>4 DEF Find, config
    <2>2. caller \in Components /\ caller = stack[top].comp
      BY <1>2 DEF FrameType
    <2> HIDE DEF frames, caller
    <2>3. TypeOK'
      <3>1. stack' \in Seq([comp : Components, todo : SUBSET Components])
        BY <1>3, <2>1 DEF FrameType
      <3>2. got' \in [Components -> SUBSET Components]
        BY <2>1, <2>2 DEF TypeOK
      <3> QED BY <2>1, <3>1, <3>2 DEF TypeOK, Components
    <2>4. \A c \in Components : got'[c] = IF c = caller THEN got[c] \union {d} ELSE got[c]
      BY <2>1, <2>2 DEF TypeOK
    <2>5. CallsExact'
      BY <2>1 DEF CallsExact, Components
    <2>6. \A i \in 1 .. Len(stack) : stack[i].comp \in Components
      BY <1>1, FrameComponent
    <2>7. \E k \in 1 .. Len(loaded) : loaded[k] = d
      BY <1>4, LoadedIndex DEF TypeOK
    <2>8. StackSound'
      <3>1. ASSUME NEW i \in 1 .. Len(stack)
            PROVE  /\ stack'[i].comp \in started
                   /\ \A k \in 1 .. Len(loaded) : loaded[k] # stack'[i].comp
                   /\ \A e \in got'[stack'[i].comp] :
                         \E k \in 1 .. Len(loaded) : loaded[k] = e
        <4>1. stack'[i].comp = stack[i].comp
          BY <1>3, <2>1
        <4>2. \A e \in got'[stack[i].comp] : e \in got[stack[i].comp] \/ e = d
          BY <2>4, <2>6
        <4>3. StackSound
          OBVIOUS
        <4> HIDE DEF IInv
        <4> QED BY <4>1, <4>2, <4>3, <2>7 DEF StackSound
      <3>2. \A i, j \in 1 .. Len(stack) : stack'[i].comp = stack'[j].comp => i = j
        BY <1>3, <2>1 DEF StackSound
      <3>3. Len(stack') = Len(stack) /\ loaded' = loaded /\ started' = started
        BY <1>3, <2>1
      <3> HIDE DEF IInv
      <3> QED BY <3>1, <3>2, <3>3 DEF StackSound
    <2>9. LoadedSound'
      <3>1. \A i \in 1 .. Len(loaded) : loaded[i] \in Components /\ loaded[i] # caller
        <4>1. top \in 1 .. Len(stack)
          BY <1>2
        <4> QED BY <2>2, <4>1, ElementOfSeq DEF StackSound, TypeOK
      <3>2. \A i \in 1 .. Len(loaded) : got'[loaded[i]] = got[loaded[i]]
        BY <2>4, <3>1
      <3> QED BY <2>1, <3>2 DEF LoadedSound
    <2>10. Idle'
      <3>1. caller \in started
        <4>1. top \in 1 .. Len(stack)
          BY <1>2
        <4> QED BY <2>2, <4>1 DEF StackSound
      <3>2. \A c \in Components : c \notin started => got'[c] = {}
        BY <2>4, <3>1 DEF Idle
      <3> QED BY <1>1, <2>1, <3>2 DEF Idle, Components
    <2> QED BY <2>3, <2>5, <2>8, <2>9, <2>10
  <1>5. CASE ~Loaded(d)
    <2>1. SendOnLoad(d, frames) /\ UNCHANGED <<config, loaded, got, cursor>>
      BY <1>5 DEF Find
    <2>2. cursor' \in 1 .. N + 1
      BY <2>1 DEF TypeOK
    <2>3. PICK f : f = frames
      OBVIOUS
    <2> HIDE DEF frames, IInv
    <2> QED BY <1>1, <1>3, <1>5, <2>1, <2>2, <2>3, SendOnLoadIInv
  <1> QED BY <1>4, <1>5

\* The return of onLoad preserves it: the component goes on top of loadingStack_
\* and its caller gets the pointer.
LEMMA ReturnIInv ==
    ASSUME IInv, Return
    PROVE  IInv'
  <1> USE DEF IInv
  <1> DEFINE top == Len(stack)
             c == Last(stack).comp
  <1>1. stack \in Seq(FrameType) /\ stack # <<>> /\ mode = "load"
    BY DEF TypeOK, FrameType, Return
  <1>2. /\ top \in Nat \ {0} /\ Last(stack) = stack[top] /\ stack[top] \in FrameType
        /\ Front(stack) \in Seq(FrameType) /\ Len(Front(stack)) = top - 1
        /\ \A i \in 1 .. top - 1 : Front(stack)[i] = stack[i]
    BY <1>1, FrontLast
  <1>3. /\ c \in Components /\ c = stack[top].comp /\ top \in 1 .. Len(stack)
        /\ \A i \in 1 .. Len(stack) : stack[i].comp \in Components
    <2>1. top \in 1 .. Len(stack)
      BY <1>2
    <2> QED BY <1>1, <1>2, <2>1, FrameComponent
  <1> DEFINE caller == stack[top - 1].comp
  <1>4. /\ loaded' = Append(loaded, c) /\ stack' = Front(stack)
        /\ got' = IF top = 1 THEN got ELSE [got EXCEPT ![caller] = @ \union {c}]
        /\ UNCHANGED <<needs, catches, throws, started, cursor, mode, calls>>
    BY DEF Return, config
  <1>5. /\ loaded \in Seq(Components) /\ Len(loaded) \in Nat
        /\ loaded' \in Seq(Components) /\ Len(loaded') = Len(loaded) + 1
        /\ \A i \in 1 .. Len(loaded) : loaded'[i] = loaded[i]
        /\ loaded'[Len(loaded) + 1] = c
    BY <1>3, <1>4, AppendProperties, LenProperties DEF TypeOK
  <1>6. c \in started /\ (\A k \in 1 .. Len(loaded) : loaded[k] # c)
        /\ (\A d \in got[c] : \E k \in 1 .. Len(loaded) : loaded[k] = d)
    BY <1>3 DEF StackSound
  <1>7. top # 1 => /\ top - 1 \in 1 .. top /\ caller \in Components
                   /\ caller \in started /\ caller # c
                   /\ \A k \in 1 .. Len(loaded) : loaded[k] # caller
    BY <1>2, <1>3 DEF StackSound
  <1>8. \A b \in Components :
          got'[b] = IF top # 1 /\ b = caller THEN got[b] \union {c} ELSE got[b]
    BY <1>4, <1>7 DEF TypeOK
  <1> HIDE DEF c, caller
  <1>9. TypeOK'
    <2>1. stack' \in Seq([comp : Components, todo : SUBSET Components])
      BY <1>2, <1>4 DEF FrameType
    <2>2. got' \in [Components -> SUBSET Components]
      BY <1>3, <1>4, <1>7 DEF TypeOK
    <2> QED BY <1>4, <1>5, <2>1, <2>2 DEF TypeOK, Components
  <1>10. CallsExact'
    BY <1>4 DEF CallsExact, Components
  <1>11. \A i \in 1 .. Len(loaded') : i \in 1 .. Len(loaded) \/ i = Len(loaded) + 1
    BY <1>5
  <1>12. \A d : (\E k \in 1 .. Len(loaded) : loaded[k] = d) \/ d = c
                  => \E k \in 1 .. Len(loaded') : loaded'[k] = d
    <2>1. \A k \in 1 .. Len(loaded) : k \in 1 .. Len(loaded')
      BY <1>5
    <2>2. Len(loaded) + 1 \in 1 .. Len(loaded')
      BY <1>5
    <2> QED BY <1>5, <2>1, <2>2
  <1>13. StackSound'
    <2>1. \A i \in 1 .. Len(stack') : i \in 1 .. Len(stack) /\ i # top /\ stack'[i] = stack[i]
      BY <1>2, <1>4
    <2>2. ASSUME NEW i \in 1 .. Len(stack')
          PROVE  /\ stack'[i].comp \in started'
                 /\ \A k \in 1 .. Len(loaded') : loaded'[k] # stack'[i].comp
                 /\ \A d \in got'[stack'[i].comp] :
                       \E k \in 1 .. Len(loaded') : loaded'[k] = d
      <3> DEFINE b == stack[i].comp
      <3>1. stack'[i].comp = b /\ b \in Components /\ b # c
        BY <1>3, <2>1 DEF StackSound
      <3>2. /\ b \in started
            /\ \A k \in 1 .. Len(loaded) : loaded[k] # b
            /\ \A d \in got[b] : \E k \in 1 .. Len(loaded) : loaded[k] = d
        BY <2>1 DEF StackSound
      <3> HIDE DEF b
      <3>3. \A d \in got'[b] : d \in got[b] \/ d = c
        BY <1>8, <3>1
      <3>4. \A d \in got'[b] : \E k \in 1 .. Len(loaded') : loaded'[k] = d
        BY <3>2, <3>3, <1>12
      <3>5. \A k \in 1 .. Len(loaded') : loaded'[k] # b
        BY <3>1, <3>2, <1>5, <1>11
      <3> QED BY <3>1, <3>2, <3>4, <3>5, <1>4
    <2>3. \A i, j \in 1 .. Len(stack') : stack'[i].comp = stack'[j].comp => i = j
      BY <2>1 DEF StackSound
    <2> QED BY <2>2, <2>3 DEF StackSound
  <1>14. LoadedSound'
    <2>1. ASSUME NEW i \in 1 .. Len(loaded')
          PROVE  /\ loaded'[i] \in started'
                 /\ \A d \in got'[loaded'[i]] : \E k \in 1 .. i - 1 : loaded'[k] = d
      <3>1. CASE i \in 1 .. Len(loaded)
        <4>1. loaded'[i] = loaded[i] /\ loaded[i] \in Components
          BY <3>1, <1>5, ElementOfSeq
        <4>2. got'[loaded[i]] = got[loaded[i]]
          BY <3>1, <4>1, <1>7, <1>8
        <4>3. \A k \in 1 .. i - 1 : loaded'[k] = loaded[k]
          BY <3>1, <1>5
        <4>4. /\ loaded[i] \in started
              /\ \A d \in got[loaded[i]] : \E k \in 1 .. i - 1 : loaded[k] = d
          BY <3>1 DEF LoadedSound
        <4> HIDE DEF IInv
        <4> QED BY <4>1, <4>2, <4>3, <4>4, <1>4
      <3>2. CASE i = Len(loaded) + 1
        <4>1. loaded'[i] = c /\ got'[c] = got[c]
          BY <3>2, <1>3, <1>5, <1>7, <1>8
        <4>2. \A k \in 1 .. Len(loaded) : k \in 1 .. i - 1
          BY <3>2, <1>5
        <4> QED BY <4>1, <4>2, <1>4, <1>5, <1>6
      <3> QED BY <3>1, <3>2, <1>11
    <2>2. \A i, j \in 1 .. Len(loaded') : loaded'[i] = loaded'[j] => i = j
      BY <1>5, <1>6, <1>11 DEF LoadedSound
    <2> QED BY <2>1, <2>2 DEF LoadedSound
  <1>15. Idle'
    <2>1. \A b \in Components : b \notin started => got'[b] = {}
      BY <1>7, <1>8 DEF Idle
    <2> QED BY <1>1, <1>4, <2>1 DEF Idle, Components
  <1> QED BY <1>9, <1>10, <1>13, <1>14, <1>15

\* Every step of the load and of the unload preserves the invariant.
LEMMA NextIInv == IInv /\ [Next]_vars => IInv'
  <1> SUFFICES ASSUME IInv, [Next]_vars PROVE IInv'
    OBVIOUS
  <1>1. ASSUME UNCHANGED <<config, started, loaded, stack, got, calls>>,
               cursor' \in 1 .. N + 1,
               mode' \in {"load", "throw", "up", "failed", "unload", "gone"},
               mode' \notin {"load", "throw"} => stack = <<>>
        PROVE  IInv'
    <2>1. TypeOK'
      BY <1>1 DEF IInv, TypeOK, config, Components
    <2>2. CallsExact' /\ LoadedSound' /\ StackSound'
      BY <1>1 DEF IInv, CallsExact, LoadedSound, StackSound, Components
    <2>3. Idle'
      BY <1>1 DEF IInv, Idle, Components
    <2> QED BY <2>1, <2>2, <2>3 DEF IInv
  <1>2. cursor \in 1 .. N + 1 /\ mode \in {"load", "throw", "up", "failed", "unload", "gone"}
        /\ (mode \notin {"load", "throw"} => stack = <<>>)
    BY DEF IInv, TypeOK, Idle
  <1>3. CASE LoadNext
    <2>1. cursor \in Components /\ cursor' \in 1 .. N + 1 /\ mode = "load"
      BY <1>2, <1>3, NAssumption DEF LoadNext, Components
    <2>2. CASE Loaded(cursor)
      BY <1>1, <1>3, <2>1, <2>2 DEF LoadNext
    <2>3. CASE ~Loaded(cursor)
      <3>1. PICK c \in Components : c = cursor
        BY <2>1
      <3>2. SendOnLoad(c, <<>>) /\ UNCHANGED <<config, loaded, got>>
        BY <1>3, <2>3, <3>1 DEF LoadNext
      <3>3. /\ <<>> \in Seq(FrameType) /\ Len(<<>>) = Len(stack)
            /\ \A i \in 1 .. Len(stack) : <<>>[i].comp = stack[i].comp
        BY <1>3, EmptySeq DEF LoadNext
      <3> QED BY <2>1, <2>3, <3>1, <3>2, <3>3, SendOnLoadIInv
    <2> QED BY <2>2, <2>3
  <1>4. CASE \E d \in Components : Find(d)
    BY <1>4, FindIInv
  <1>5. CASE Return
    BY <1>5, ReturnIInv
  <1>6. CASE OnLoadThrows
    BY <1>6, DropFrameIInv DEF OnLoadThrows
  <1>7. CASE Unwind
    <2>1. CASE Last(stack).comp \in catches
      BY <1>1, <1>2, <1>7, <2>1 DEF Unwind
    <2>2. CASE Last(stack).comp \notin catches
      BY <1>7, <2>2, DropFrameIInv DEF Unwind
    <2> QED BY <2>1, <2>2
  <1>8. CASE InitFails \/ InitDone \/ Destroy \/ Delete
    BY <1>1, <1>2, <1>8 DEF InitFails, InitDone, Destroy, Delete
  <1>9. CASE Unload
    <2> USE DEF IInv
    <2>1. /\ stack = <<>> /\ loaded # <<>> /\ loaded \in Seq(Components)
          /\ loaded' = Front(loaded)
          /\ UNCHANGED <<needs, catches, throws, started, stack, cursor, mode, got, calls>>
      BY <1>9 DEF Unload, Idle, TypeOK, config
    <2>2. /\ Len(loaded) \in Nat \ {0}
          /\ loaded' \in Seq(Components) /\ Len(loaded') = Len(loaded) - 1
          /\ \A i \in 1 .. Len(loaded) - 1 : loaded'[i] = loaded[i]
      BY <2>1, FrontLast
    <2>3. \A i \in 1 .. Len(loaded') : i \in 1 .. Len(loaded) /\ loaded'[i] = loaded[i]
      BY <2>2
    <2>4. TypeOK' /\ CallsExact' /\ Idle'
      BY <2>1, <2>2 DEF TypeOK, CallsExact, Idle, Components
    <2>5. StackSound'
      BY <2>1, EmptySeq DEF StackSound
    <2>6. LoadedSound'
      <3>1. ASSUME NEW i \in 1 .. Len(loaded')
            PROVE  /\ loaded'[i] \in started'
                   /\ \A d \in got'[loaded'[i]] : \E k \in 1 .. i - 1 : loaded'[k] = d
        <4>1. \A k \in 1 .. i - 1 : loaded'[k] = loaded[k]
          BY <2>2
        <4>2. /\ loaded[i] \in started
              /\ \A d \in got[loaded[i]] : \E k \in 1 .. i - 1 : loaded[k] = d
          BY <2>3 DEF LoadedSound
        <4> HIDE DEF IInv
        <4> QED BY <4>1, <4>2, <2>1, <2>3
      <3>2. \A i, j \in 1 .. Len(loaded') : loaded'[i] = loaded'[j] => i = j
        BY <2>3 DEF LoadedSound
      <3> QED BY <3>1, <3>2 DEF LoadedSound
    <2> QED BY <2>4, <2>5, <2>6
  <1>10. CASE UNCHANGED vars
    BY <1>1, <1>2, <1>10 DEF vars, config
  <1> QED BY <1>3, <1>4, <1>5, <1>6, <1>7, <1>8, <1>9, <1>10 DEF Next, Calls

\* The inductive invariant holds in every behaviour.
THEOREM Invariance == Spec => []IInv
  BY InitIInv, NextIInv, PTL DEF Spec

-----------------------------------------------------------------------------
(* What the invariant says of the component set. *)

\* Every variable stays in its domain, whatever is looked up, thrown and caught.
THEOREM TypeCorrect == Spec => []TypeOK
  BY Invariance, PTL DEF IInv

\* onLoad of a component is never called twice (the test of isLoadingStarted in
\* sendOnLoad), for any graph of lookups, cyclic ones included.
THEOREM AtMostOneOnLoad == Spec => []LoadedOnce
  <1>1. IInv => LoadedOnce
    BY DEF IInv, CallsExact, LoadedOnce
  <1> QED BY <1>1, Invariance, PTL

\* The pointers find() has handed out to a component that is loaded or being
\* loaded are to components loaded before it and unloaded after it.
THEOREM PointersAlive == Spec => []DependenciesAlive
  <1>1. ASSUME IInv PROVE DependenciesAlive
    <2> USE <1>1 DEF IInv
    <2>1. /\ DOMAIN loaded = 1 .. Len(loaded) /\ DOMAIN stack = 1 .. Len(stack)
          /\ Len(loaded) \in Nat
      BY LenProperties DEF TypeOK
    <2>2. ASSUME NEW c \in Components, NEW d \in got[c], Loaded(c)
          PROVE  \E i \in 1 .. Len(loaded) :
                    loaded[i] = d /\ \A j \in 1 .. Len(loaded) : loaded[j] = c => i < j
      <3>1. PICK m \in 1 .. Len(loaded) : loaded[m] = c
        BY <2>2, LoadedIndex DEF TypeOK
      <3>2. PICK k \in 1 .. m - 1 : loaded[k] = d
        BY <3>1 DEF LoadedSound
      <3>3. \A j \in 1 .. Len(loaded) : loaded[j] = c => j = m
        BY <3>1 DEF LoadedSound
      <3>4. k \in 1 .. Len(loaded) /\ k < m
        BY <2>1
      <3> QED BY <3>2, <3>3, <3>4
    <2>3. ASSUME NEW c \in Components, NEW d \in got[c],
                 NEW i \in 1 .. Len(stack), stack[i].comp = c
          PROVE  \E k \in 1 .. Len(loaded) :
                    loaded[k] = d /\ \A j \in 1 .. Len(loaded) : loaded[j] = c => k < j
      <3>1. PICK k \in 1 .. Len(loaded) : loaded[k] = d
        BY <2>3 DEF StackSound
      <3>2. \A j \in 1 .. Len(loaded) : loaded[j] # c
        BY <2>3 DEF StackSound
      <3> QED BY <3>1, <3>2
    <2> QED BY <2>1, <2>2, <2>3 DEF DependenciesAlive
  <1> QED BY <1>1, Invariance, PTL

-----------------------------------------------------------------------------
(* No component is passed over. *)

\* The loop of sendOnLoadToComponents leaves every component it has passed
\* loaded, but for the one whose onLoad it is waiting for.
PassedLoaded ==
    /\ mode \in {"load", "throw"} /\ stack # <<>> =>
          stack[1].comp = cursor - 1 /\ \A c \in 1 .. cursor - 2 : Loaded(c)
    /\ mode = "load" /\ stack = <<>> => \A c \in 1 .. cursor - 1 : Loaded(c)
    /\ mode = "up" => \A c \in Components : Loaded(c)

\* A step of the loop, of the onLoad calls and of the unloading keeps it so.
LEMMA NextPassed == IInv /\ PassedLoaded /\ [Next]_vars => PassedLoaded'
  <1> SUFFICES ASSUME IInv, PassedLoaded, [Next]_vars PROVE PassedLoaded'
    OBVIOUS
  <1>1. /\ stack \in Seq(FrameType) /\ loaded \in Seq(Components)
        /\ Len(stack) \in Nat /\ cursor \in 1 .. N + 1 /\ Len(<<>>) = 0
    BY LenProperties, EmptySeq DEF IInv, TypeOK, FrameType
  <1>2. loaded' = loaded => \A c : Loaded(c) <=> Loaded(c)'
    BY DEF Loaded
  <1>3. CASE LoadNext
    <2>1. /\ mode = "load" /\ stack = <<>> /\ cursor \in 1 .. N /\ cursor' = cursor + 1
          /\ loaded' = loaded
      BY <1>1, <1>3, NAssumption DEF LoadNext
    <2>2. \A c \in 1 .. cursor - 1 : Loaded(c)'
      BY <2>1, <1>2 DEF PassedLoaded
    <2>3. CASE Loaded(cursor)
      <3>1. mode' = mode /\ stack' = stack /\ cursor \in ToSet(loaded')
        BY <1>3, <2>3, <2>1 DEF LoadNext, Loaded
      <3>2. \A c \in 1 .. cursor' - 1 : c \in 1 .. cursor - 1 \/ c = cursor
        BY <2>1
      <3>3. \A c \in 1 .. cursor' - 1 : Loaded(c)'
        BY <2>2, <3>1, <3>2 DEF Loaded
      <3> QED BY <2>1, <3>1, <3>3 DEF PassedLoaded
    <2>4. CASE ~Loaded(cursor) /\ cursor \in started
      <3>1. mode' = "throw" /\ stack' = <<>>
        BY <1>3, <2>4 DEF LoadNext, SendOnLoad
      <3> QED BY <3>1 DEF PassedLoaded
    <2>5. CASE ~Loaded(cursor) /\ cursor \notin started
      <3>1. mode' = "load" /\ stack' = Append(<<>>, Frame(cursor))
        BY <1>3, <2>1, <2>5 DEF LoadNext, SendOnLoad
      <3>2. stack' = <<Frame(cursor)>> /\ stack'[1] = Frame(cursor)
        BY <3>1
      <3>3. stack'[1].comp = cursor' - 1 /\ cursor' - 2 = cursor - 1
        BY <2>1, <3>2 DEF Frame
      <3>4. stack' # <<>>
        BY <3>2
      <3> QED BY <2>2, <3>1, <3>3, <3>4 DEF PassedLoaded
    <2> QED BY <2>3, <2>4, <2>5
  <1>4. ASSUME stack # <<>>, mode \in {"load", "throw"}, mode' \in {"load", "throw"},
               stack' # <<>>, stack'[1].comp = stack[1].comp,
               \A c : Loaded(c) => Loaded(c)', cursor' = cursor
        PROVE  PassedLoaded'
    BY <1>4 DEF PassedLoaded
  <1>5. ASSUME NEW d \in Components, Find(d) PROVE PassedLoaded'
    <2>1. mode = "load" /\ stack # <<>> /\ loaded' = loaded /\ cursor' = cursor
      BY <1>5 DEF Find
    <2>2. /\ Lookup(d) \in Seq(FrameType) /\ Len(Lookup(d)) = Len(stack)
          /\ Lookup(d)[1].comp = stack[1].comp /\ Len(stack) >= 1
      <3>1. Len(stack) >= 1
        BY <1>1, <2>1, EmptySeq
      <3> QED BY <1>1, <2>1, <3>1, CallerFrames
    <2>3. mode' \in {"load", "throw"}
      BY <1>5, <2>1 DEF Find, SendOnLoad
    <2>4. stack' = Lookup(d) \/ stack' = Append(Lookup(d), Frame(d))
      BY <1>5 DEF Find, SendOnLoad, Lookup
    <2>5. stack' # <<>> /\ stack'[1].comp = stack[1].comp
      <3>1. Frame(d) \in FrameType
        BY DEF Frame, FrameType, IInv, TypeOK
      <3>2. CASE stack' = Lookup(d)
        BY <2>2, <3>2, <1>1
      <3>3. CASE stack' = Append(Lookup(d), Frame(d))
        <4>1. Len(stack') = Len(stack) + 1 /\ stack'[1] = Lookup(d)[1]
          BY <2>2, <3>1, <3>3, <1>1, AppendProperties
        <4> QED BY <4>1, <2>2, <1>1
      <3> QED BY <2>4, <3>2, <3>3
    <2> QED BY <1>2, <1>4, <2>1, <2>3, <2>5
  <1>6. ASSUME stack # <<>>, stack' = Front(stack), stack' # <<>>
        PROVE  stack'[1].comp = stack[1].comp
    <2>1. /\ Len(stack) \in Nat \ {0} /\ stack' \in Seq(FrameType)
          /\ Len(stack') = Len(stack) - 1
          /\ \A i \in 1 .. Len(stack) - 1 : stack'[i] = stack[i]
      <3>1. /\ Len(stack) \in Nat \ {0} /\ Front(stack) \in Seq(FrameType)
            /\ Len(Front(stack)) = Len(stack) - 1
            /\ \A i \in 1 .. Len(stack) - 1 : Front(stack)[i] = stack[i]
        BY <1>1, <1>6, FrontLast
      <3> QED BY <1>6, <3>1
    <2>2. Len(stack') # 0
      BY <1>6, <2>1, EmptySeq
    <2> QED BY <2>1, <2>2
  <1>7. CASE Return
    <2> DEFINE b == Last(stack).comp
    <2>1. /\ mode = "load" /\ mode' = "load" /\ stack # <<>> /\ stack' = Front(stack)
          /\ loaded' = Append(loaded, b) /\ cursor' = cursor
      BY <1>7 DEF Return
    <2>2. /\ Len(stack) \in Nat \ {0} /\ Last(stack) = stack[Len(stack)]
          /\ stack' \in Seq(FrameType) /\ Len(stack') = Len(stack) - 1
          /\ Last(stack) \in FrameType
      BY <1>1, <2>1, FrontLast
    <2>3. b \in Components
      BY <2>2 DEF FrameType
    <2> HIDE DEF b
    <2>4. \A c : (Loaded(c) \/ c = b) => Loaded(c)'
      <3>1. /\ loaded' \in Seq(Components) /\ Len(loaded') = Len(loaded) + 1
            /\ \A i \in 1 .. Len(loaded) : loaded'[i] = loaded[i]
            /\ loaded'[Len(loaded) + 1] = b /\ Len(loaded) \in Nat
        BY <1>1, <2>1, <2>3, AppendProperties, LenProperties
      <3>2. DOMAIN loaded = 1 .. Len(loaded) /\ DOMAIN loaded' = 1 .. Len(loaded')
        BY <1>1, <3>1, LenProperties
      <3> QED BY <3>1, <3>2 DEF Loaded, ToSet
    <2>5. CASE stack' # <<>>
      BY <1>4, <1>6, <2>1, <2>4, <2>5
    <2>6. CASE stack' = <<>>
      <3>1. Len(stack) = 1
        BY <2>2, <2>6, <1>1
      <3>2. b = stack[1].comp
        BY <2>2, <3>1 DEF b
      <3>3. b = cursor - 1 /\ \A c \in 1 .. cursor - 2 : Loaded(c)
        BY <2>1, <3>2 DEF PassedLoaded
      <3>4. \A c \in 1 .. cursor - 1 : c \in 1 .. cursor - 2 \/ c = b
        BY <3>3, <1>1
      <3> QED BY <2>1, <2>4, <2>6, <3>3, <3>4 DEF PassedLoaded
    <2> QED BY <2>5, <2>6
  <1>8. CASE OnLoadThrows \/ (Unwind /\ Last(stack).comp \notin catches)
    <2>1. /\ mode \in {"load", "throw"} /\ mode' = "throw" /\ stack # <<>>
          /\ stack' = Front(stack) /\ loaded' = loaded /\ cursor' = cursor
      BY <1>8 DEF OnLoadThrows, Unwind
    <2>2. CASE stack' # <<>>
      BY <1>2, <1>4, <1>6, <2>1, <2>2
    <2>3. CASE stack' = <<>>
      BY <2>1, <2>3 DEF PassedLoaded
    <2> QED BY <2>2, <2>3
  <1>9. CASE Unwind /\ Last(stack).comp \in catches
    BY <1>2, <1>4, <1>9 DEF Unwind
  <1>10. CASE InitDone
    <2>1. mode = "load" /\ stack = <<>> /\ cursor - 1 = N /\ mode' = "up" /\ loaded' = loaded
      BY <1>1, <1>10, NAssumption DEF InitDone
    <2>2. \A c \in Components : Loaded(c)'
      BY <2>1, <1>2 DEF PassedLoaded, Components
    <2> QED BY <2>1, <2>2 DEF PassedLoaded, Components
  <1>11. CASE InitFails \/ Destroy \/ Unload \/ Delete
    <2>1. mode' \notin {"load", "throw", "up"}
      BY <1>11 DEF InitFails, Destroy, Unload, Delete
    <2> QED BY <2>1 DEF PassedLoaded
  <1>12. CASE UNCHANGED vars
    BY <1>12, <1>2 DEF PassedLoaded, vars, Components
  <1> QED BY <1>3, <1>5, <1>7, <1>8, <1>9, <1>10, <1>11, <1>12 DEF Next, Calls

\* A component set that is up has loaded every component: none is lost in a cycle
\* of lookups or to an exception that another component caught.
THEOREM NonePassedOver == Spec => [](mode = "up" => \A c \in Components : Loaded(c))
  <1>1. Init => PassedLoaded
    <2>1. \A c \in 1 .. 1 - 1 : FALSE
      OBVIOUS
    <2> QED BY <2>1 DEF Init, Fresh, PassedLoaded
  <1>2. PassedLoaded => (mode = "up" => \A c \in Components : Loaded(c))
    BY DEF PassedLoaded
  <1> QED BY <1>1, <1>2, NextPassed, Invariance, PTL DEF Spec

-----------------------------------------------------------------------------
(* Texts and what they mean. *)

\* Texts without references.
PlainText == Seq(Words \ Variables)

\* Maps from variables to texts without references.
PlainMaps == UNION {[D -> PlainText] : D \in SUBSET (DOMAIN vars_ \intersect Variables)}

\* Such a map gives a text without references for each of its variables.
LEMMA MapFacts ==
    ASSUME NEW m \in PlainMaps
    PROVE  /\ DOMAIN m \subseteq Variables /\ DOMAIN m \subseteq DOMAIN vars_
           /\ \A v \in DOMAIN m : m[v] \in PlainText
  BY DEF PlainMaps

\* A text without references is a text.
LEMMA PlainIsText == PlainText \subseteq Text
  <1> SUFFICES ASSUME NEW s \in PlainText PROVE s \in Text
    OBVIOUS
  <1>1. Words \ Variables \subseteq Words
    OBVIOUS
  <1> QED BY <1>1, SeqMonotonic DEF PlainText, Text

\* The words of a text.
LEMMA TextFacts ==
    ASSUME NEW t \in Text
    PROVE  /\ Len(t) \in Nat /\ DOMAIN t = 1 .. Len(t)
           /\ \A i \in 1 .. Len(t) : t[i] \in Words
  BY LenProperties, ElementOfSeq DEF Text

\* Every word of a text has its piece,
LEMMA PiecesType ==
    ASSUME NEW m \in PlainMaps, NEW t \in Text
    PROVE  Pieces(t, m) \in Seq(Text) /\ Len(Pieces(t, m)) = Len(t)
  <1>1. Len(t) \in Nat /\ DOMAIN t = 1 .. Len(t) /\ \A i \in 1 .. Len(t) : t[i] \in Words
    BY TextFacts
  <1> DEFINE p == Pieces(t, m)
  <1>2. ASSUME NEW i \in 1 .. Len(t) PROVE p[i] \in Text
    <2>1. CASE t[i] \in DOMAIN m
      <3>1. m[t[i]] \in Text
        BY <2>1, MapFacts, PlainIsText
      <3> QED BY <1>1, <2>1, <3>1 DEF Pieces
    <2>2. CASE t[i] \notin DOMAIN m
      <3>1. <<t[i]>> \in Text
        BY <1>1 DEF Text
      <3> QED BY <1>1, <2>2, <3>1 DEF Pieces
    <2> QED BY <2>1, <2>2
  <1>3. p = [i \in 1 .. Len(t) |-> p[i]]
    BY <1>1 DEF Pieces
  <1> HIDE DEF p
  <1>4. p \in [1 .. Len(t) -> Text]
    BY <1>2, <1>3
  <1>5. p \in Seq(Text) /\ Len(p) = Len(t)
    BY <1>1, <1>4, IsASeq, LenProperties
  <1> QED BY <1>5 DEF p

\* and the pieces put together are a text.
LEMMA ExpandType ==
    ASSUME NEW m \in PlainMaps, NEW t \in Text
    PROVE  Expand(t, m) \in Text
  BY PiecesType, FlattenType DEF Expand, Text

\* A text all of whose references have meanings expands to one without references.
LEMMA ExpandPlain ==
    ASSUME NEW m \in PlainMaps, NEW t \in Text, Refs(t) \subseteq DOMAIN m
    PROVE  Expand(t, m) \in PlainText
  <1> DEFINE p == Pieces(t, m)
  <1>1. Len(t) \in Nat /\ DOMAIN t = 1 .. Len(t) /\ \A i \in 1 .. Len(t) : t[i] \in Words
    BY TextFacts
  <1>2. ASSUME NEW i \in 1 .. Len(t) PROVE p[i] \in PlainText
    <2>1. CASE t[i] \in DOMAIN m
      <3>1. m[t[i]] \in PlainText
        BY <2>1, MapFacts
      <3> QED BY <1>1, <2>1, <3>1 DEF Pieces
    <2>2. CASE t[i] \notin DOMAIN m
      <3>1. t[i] \in Words \ Variables
        BY <1>1, <2>2 DEF Refs, ToSet
      <3>2. <<t[i]>> \in PlainText
        BY <3>1 DEF PlainText
      <3> QED BY <1>1, <2>2, <3>2 DEF Pieces
    <2> QED BY <2>1, <2>2
  <1>3. p = [i \in 1 .. Len(t) |-> p[i]]
    BY <1>1 DEF Pieces
  <1> HIDE DEF p
  <1>4. p \in [1 .. Len(t) -> PlainText]
    BY <1>2, <1>3
  <1>5. p \in Seq(PlainText)
    BY <1>1, <1>4, IsASeq
  <1> QED BY <1>5, FlattenType DEF p, Expand, PlainText

\* Two texts, one behind the other, are expanded one behind the other.
LEMMA ExpandConcat ==
    ASSUME NEW m \in PlainMaps, NEW s \in Text, NEW t \in Text
    PROVE  s \o t \in Text /\ Expand(s \o t, m) = Expand(s, m) \o Expand(t, m)
  <1> DEFINE u == s \o t
             p == Pieces(s, m)
             q == Pieces(t, m)
             r == Pieces(u, m)
  <1>1. /\ Len(s) \in Nat /\ DOMAIN s = 1 .. Len(s)
        /\ Len(t) \in Nat /\ DOMAIN t = 1 .. Len(t)
    BY TextFacts
  <1>2. /\ u \in Text /\ Len(u) = Len(s) + Len(t)
        /\ \A i \in 1 .. Len(s) + Len(t) : u[i] = IF i <= Len(s) THEN s[i] ELSE t[i - Len(s)]
    BY ConcatProperties DEF Text
  <1> HIDE DEF u
  <1>3. DOMAIN u = 1 .. Len(s) + Len(t)
    BY <1>2, TextFacts
  <1>4. p \in Seq(Text) /\ Len(p) = Len(s) /\ q \in Seq(Text) /\ Len(q) = Len(t)
    BY PiecesType
  <1>5. r \in Seq(Text) /\ Len(r) = Len(s) + Len(t)
    BY <1>2, PiecesType
  <1>6. /\ p \o q \in Seq(Text) /\ Len(p \o q) = Len(s) + Len(t)
        /\ \A i \in 1 .. Len(s) + Len(t) : (p \o q)[i] = IF i <= Len(s) THEN p[i] ELSE q[i - Len(s)]
    <2> HIDE DEF p, q
    <2>1. p \in Seq(Text) /\ q \in Seq(Text)
      BY <1>4
    <2>2. /\ p \o q \in Seq(Text) /\ Len(p \o q) = Len(p) + Len(q)
          /\ \A i \in 1 .. Len(p) + Len(q) : (p \o q)[i] = IF i <= Len(p) THEN p[i] ELSE q[i - Len(p)]
      BY <2>1, ConcatProperties
    <2>3. Len(p) = Len(s) /\ Len(q) = Len(t)
      BY <1>4
    <2> HIDE <1>4
    <2> QED BY <2>2, <2>3, Zenon
  <1>7. ASSUME NEW i \in 1 .. Len(s) + Len(t)
        PROVE  r[i] = IF i <= Len(s) THEN p[i] ELSE q[i - Len(s)]
    <2>1. CASE i <= Len(s)
      <3>1. i \in DOMAIN s /\ i \in DOMAIN u /\ u[i] = s[i]
        BY <1>1, <1>2, <1>3, <2>1
      <3> QED BY <2>1, <3>1 DEF Pieces
    <2>2. CASE ~(i <= Len(s))
      <3>1. i - Len(s) \in DOMAIN t /\ i \in DOMAIN u /\ u[i] = t[i - Len(s)]
        BY <1>1, <1>2, <1>3, <2>2
      <3> QED BY <2>2, <3>1 DEF Pieces
    <2> QED BY <2>1, <2>2
  <1> HIDE DEF p, q, r
  <1>8. r = p \o q
    <2> DEFINE w == p \o q
    <2>1. w \in Seq(Text) /\ Len(w) = Len(r) /\ \A i \in 1 .. Len(r) : r[i] = w[i]
      BY <1>5, <1>6, <1>7
    <2> HIDE DEF w
    <2>2. r = w
      BY <1>5, <2>1, SeqEqual
    <2> QED BY <2>2 DEF w
  <1>9. FlattenSeq(r) = FlattenSeq(p) \o FlattenSeq(q)
    BY <1>4, <1>8, FlattenConcat DEF Text
  <1> QED BY <1>2, <1>9 DEF p, q, r, u, Expand


\* Their references are those of both.
LEMMA RefsConcat ==
    ASSUME NEW s \in Text, NEW t \in Text
    PROVE  Refs(s \o t) = Refs(s) \union Refs(t)
  <1>1. Range(s \o t) = Range(s) \union Range(t)
    BY RangeConcatenation DEF Text
  <1> QED BY <1>1 DEF Refs, ToSet, Range

\* PlainText is what has no references.
LEMMA RefsPlain == \A t \in Text : Refs(t) = {} <=> t \in PlainText
  <1> SUFFICES ASSUME NEW t \in Text PROVE Refs(t) = {} <=> t \in PlainText
    OBVIOUS
  <1>1. Len(t) \in Nat /\ DOMAIN t = 1 .. Len(t) /\ \A i \in 1 .. Len(t) : t[i] \in Words
    BY TextFacts
  <1>2. ASSUME Refs(t) = {} PROVE t \in PlainText
    <2>1. \A i \in 1 .. Len(t) : t[i] \in Words \ Variables
      BY <1>1, <1>2 DEF Refs, ToSet
    <2>2. t = [i \in 1 .. Len(t) |-> t[i]]
      BY <1>1, LenProperties DEF Text
    <2>3. t \in [1 .. Len(t) -> Words \ Variables]
      BY <2>1, <2>2
    <2> QED BY <1>1, <2>3, IsASeq DEF PlainText
  <1>3. ASSUME t \in PlainText PROVE Refs(t) = {}
    <2>1. \A i \in 1 .. Len(t) : t[i] \in Words \ Variables
      BY <1>3, ElementOfSeq DEF PlainText
    <2> QED BY <1>1, <2>1 DEF Refs, ToSet
  <1> QED BY <1>2, <1>3

\* A text of one word expands to its piece.
LEMMA ExpandOne ==
    ASSUME NEW m \in PlainMaps, NEW w \in Words
    PROVE  <<w>> \in Text /\ Expand(<<w>>, m) = IF w \in DOMAIN m THEN m[w] ELSE <<w>>
  <1> DEFINE x == IF w \in DOMAIN m THEN m[w] ELSE <<w>>
             p == Pieces(<<w>>, m)
  <1>1. <<w>> \in Text /\ Len(<<w>>) = 1
    BY DEF Text
  <1>2. p \in Seq(Text) /\ Len(p) = 1
    BY <1>1, PiecesType
  <1>3. p[1] = x
    <2>1. 1 \in DOMAIN <<w>> /\ <<w>>[1] = w
      OBVIOUS
    <2> QED BY <2>1 DEF Pieces
  <1>4. x \in Text
    <2>1. CASE w \in DOMAIN m
      BY <2>1, MapFacts, PlainIsText
    <2> QED BY <1>1, <2>1
  <1> HIDE DEF p, x
  <1>5. <<>> \in Seq(Text) /\ <<>> \in Text
    BY EmptySeq DEF Text
  <1>6. p = Append(<<>>, x)
    <2> DEFINE a == Append(<<>>, x)
    <2>1. a \in Seq(Text) /\ Len(a) = 1 /\ a[1] = x
      BY <1>4, <1>5, AppendProperties, EmptySeq
    <2> HIDE DEF a
    <2>2. p = a
      BY <1>2, <1>3, <2>1, SeqEqual
    <2> QED BY <2>2 DEF a
  <1>7. FlattenSeq(p) = FlattenSeq(<<>>) \o x
    BY <1>4, <1>5, <1>6, FlattenAppend DEF Text
  <1>8. <<>> \o x = x
    BY <1>4, ConcatEmptySeq
  <1> QED BY <1>1, <1>7, <1>8, FlattenEmpty DEF Expand, p, x

\* A text without references is its own expansion.
LEMMA ExpandNone ==
    ASSUME NEW m \in PlainMaps, NEW t \in PlainText
    PROVE  Expand(t, m) = t
  <1> DEFINE S == {n \in Nat : \A u \in PlainText : Len(u) = n => Expand(u, m) = u}
  <1>1. 0 \in S
    <2> SUFFICES ASSUME NEW u \in PlainText, Len(u) = 0 PROVE Expand(u, m) = u
      OBVIOUS
    <2>1. u = <<>> /\ u \in Text
      BY EmptySeq, PlainIsText DEF PlainText
    <2>2. Pieces(u, m) \in Seq(Text) /\ Len(Pieces(u, m)) = 0
      BY <2>1, PiecesType
    <2>3. Pieces(u, m) = <<>>
      BY <2>2, EmptySeq
    <2> QED BY <2>1, <2>3, FlattenEmpty DEF Expand
  <1>2. ASSUME NEW n \in Nat, n \in S PROVE n + 1 \in S
    <2> SUFFICES ASSUME NEW u \in PlainText, Len(u) = n + 1 PROVE Expand(u, m) = u
      OBVIOUS
    <2>1. PICK v \in PlainText, w \in Words \ Variables : u = Append(v, w) /\ Len(v) = n
      <3>1. u \in Seq(Words \ Variables) /\ u # <<>>
        BY EmptySeq DEF PlainText
      <3>2. PICK v \in Seq(Words \ Variables), w \in Words \ Variables : u = Append(v, w)
        BY <3>1, SequenceEmptyOrAppend
      <3>3. Len(v) = n
        BY <3>2, AppendProperties, LenProperties
      <3> QED BY <3>2, <3>3 DEF PlainText
    <2>2. u = v \o <<w>>
      BY <2>1, AppendIsConcat DEF PlainText
    <2>3. Expand(u, m) = Expand(v, m) \o Expand(<<w>>, m)
      BY <2>2, ExpandConcat, ExpandOne, PlainIsText
    <2>4. Expand(v, m) = v
      BY <1>2, <2>1
    <2>5. w \notin DOMAIN m
      BY MapFacts
    <2>6. Expand(<<w>>, m) = <<w>>
      BY <2>5, ExpandOne
    <2> QED BY <2>2, <2>3, <2>4, <2>6
  <1> HIDE DEF S
  <1>3. Nat \subseteq S
    BY <1>1, <1>2, InductionOnSet
  <1>4. Len(t) \in S
    BY <1>3, LenProperties DEF PlainText
  <1> QED BY <1>4 DEF S

\* Two maps that agree on the references of a text expand it alike.
LEMMA ExpandSame ==
    ASSUME NEW m \in PlainMaps, NEW n \in PlainMaps, NEW t \in Text,
           \A w \in Refs(t) : w \in DOMAIN m /\ w \in DOMAIN n /\ m[w] = n[w]
    PROVE  Expand(t, m) = Expand(t, n)
  <1>1. ASSUME NEW i \in DOMAIN t
        PROVE  (IF t[i] \in DOMAIN m THEN m[t[i]] ELSE <<t[i]>>)
                 = (IF t[i] \in DOMAIN n THEN n[t[i]] ELSE <<t[i]>>)
    <2>1. CASE t[i] \in Variables
      BY <2>1 DEF Refs, ToSet
    <2>2. CASE t[i] \notin Variables
      BY <2>2, MapFacts
    <2> QED BY <2>1, <2>2
  <1>2. Pieces(t, m) = Pieces(t, n)
    BY <1>1 DEF Pieces
  <1> QED BY <1>2 DEF Expand

\* A text is what is in front of a word, the word, and what is behind it.
LEMMA SplitAt ==
    ASSUME NEW t \in Text, NEW i \in 1 .. Len(t)
    PROVE  /\ SubSeq(t, 1, i - 1) \in Text /\ SubSeq(t, i + 1, Len(t)) \in Text /\ <<t[i]>> \in Text
           /\ t = SubSeq(t, 1, i - 1) \o <<t[i]>> \o SubSeq(t, i + 1, Len(t))
  <1> DEFINE a == SubSeq(t, 1, i - 1)
             b == SubSeq(t, i + 1, Len(t))
             w == <<t[i]>>
  <1>1. Len(t) \in Nat /\ DOMAIN t = 1 .. Len(t) /\ \A j \in 1 .. Len(t) : t[j] \in Words
    BY TextFacts
  <1>2. a \in Text /\ Len(a) = i - 1 /\ \A j \in 1 .. i - 1 : a[j] = t[j]
    <2>1. \A j \in 1 .. i - 1 : t[j] \in Words
      BY <1>1
    <2> QED BY <1>1, <2>1, SubSeqProperties DEF Text
  <1>3. b \in Text /\ Len(b) = Len(t) - i /\ \A j \in 1 .. Len(t) - i : b[j] = t[i + j]
    <2>1. \A j \in i + 1 .. Len(t) : t[j] \in Words
      BY <1>1
    <2>2. /\ b \in Seq(Words) /\ Len(b) = IF i + 1 <= Len(t) THEN Len(t) - (i + 1) + 1 ELSE 0
          /\ \A j \in 1 .. Len(t) - (i + 1) + 1 : b[j] = t[(i + 1) + j - 1]
      BY <1>1, <2>1, SubSeqProperties
    <2>3. Len(t) - (i + 1) + 1 = Len(t) - i /\ \A j \in 1 .. Len(t) - i : (i + 1) + j - 1 = i + j
      BY <1>1
    <2> HIDE DEF b
    <2>4. Len(b) = Len(t) - i
      <3>1. Len(b) = IF i + 1 <= Len(t) THEN Len(t) - (i + 1) + 1 ELSE 0
        BY <2>2
      <3>2. Len(t) \in Nat /\ i \in Nat /\ i <= Len(t)
        BY <1>1
      <3> QED BY <3>1, <3>2
    <2> QED BY <2>2, <2>3, <2>4 DEF Text
  <1>4. w \in Text /\ Len(w) = 1 /\ w[1] = t[i]
    BY <1>1 DEF Text
  <1> HIDE DEF a, b, w
  <1> DEFINE u == a \o w \o b
  <1>5. /\ u \in Seq(Words) /\ Len(u) = Len(a) + Len(w) + Len(b)
        /\ \A j \in 1 .. Len(a) + Len(w) + Len(b) :
             u[j] = IF j <= Len(a) THEN a[j]
                    ELSE IF j <= Len(a) + Len(w) THEN w[j - Len(a)]
                    ELSE b[j - (Len(a) + Len(w))]
    <2>1. a \in Seq(Words) /\ w \in Seq(Words) /\ b \in Seq(Words)
      BY <1>2, <1>3, <1>4 DEF Text
    <2> QED BY <2>1, ThreeParts
  <1> HIDE DEF u
  <1>6. Len(u) = Len(t)
    BY <1>1, <1>2, <1>3, <1>4, <1>5
  <1>7. ASSUME NEW j \in 1 .. Len(t) PROVE t[j] = u[j]
    <2>1. CASE j < i
      BY <1>1, <1>2, <1>3, <1>4, <1>5, <2>1
    <2>2. CASE j = i
      <3>1. j \in 1 .. Len(a) + Len(w) + Len(b) /\ ~(j <= Len(a)) /\ j <= Len(a) + Len(w) /\ j - Len(a) = 1
        BY <1>1, <1>2, <1>3, <1>4, <2>2
      <3> QED BY <1>4, <1>5, <2>2, <3>1
    <2>3. CASE j > i
      <3>1. /\ j \in 1 .. Len(a) + Len(w) + Len(b) /\ ~(j <= Len(a)) /\ ~(j <= Len(a) + Len(w))
            /\ j - (Len(a) + Len(w)) = j - i /\ j - i \in 1 .. Len(t) - i /\ i + (j - i) = j
        BY <1>1, <1>2, <1>3, <1>4, <2>3
      <3>2. u[j] = b[j - i]
        BY <1>5, <3>1
      <3> QED BY <1>3, <3>1, <3>2
    <2> QED BY <1>1, <2>1, <2>2, <2>3
  <1>8. t = u
    BY <1>5, <1>6, <1>7, SeqEqual DEF Text
  <1> QED BY <1>2, <1>3, <1>4, <1>8 DEF a, b, w, u

\* The meanings of the variables that are defined with those that have one.
Deeper(m) ==
  [v \in {w \in DOMAIN vars_ \intersect Variables : Refs(vars_[w]) \subseteq DOMAIN m}
     |-> Expand(vars_[v], m)]

\* The definitions are texts.
TextsDefined == \A v \in DOMAIN vars_ : vars_[v] \in Text

\* One level more of definitions is a map of the same kind.
LEMMA DeeperType ==
    ASSUME TextsDefined, NEW m \in PlainMaps
    PROVE  Deeper(m) \in PlainMaps
  <1> DEFINE D == {w \in DOMAIN vars_ \intersect Variables : Refs(vars_[w]) \subseteq DOMAIN m}
  <1>1. ASSUME NEW v \in D PROVE Expand(vars_[v], m) \in PlainText
    BY ExpandPlain DEF TextsDefined
  <1>2. Deeper(m) \in [D -> PlainText]
    BY <1>1 DEF Deeper
  <1>3. D \in SUBSET (DOMAIN vars_ \intersect Variables)
    OBVIOUS
  <1> HIDE DEF D
  <1> QED BY <1>2, <1>3 DEF PlainMaps

\* Meanings, unfolded: nothing has a meaning at level 0, and each level is made
\* from the one before.
LEMMA MeaningsDef ==
    ASSUME TextsDefined
    PROVE  /\ Meanings \in [0 .. MaxTurns -> PlainMaps]
           /\ DOMAIN Meanings[0] = {}
           /\ \A n \in 1 .. MaxTurns : Meanings[n] = Deeper(Meanings[n - 1])
  <1> DEFINE none == [v \in {} |-> <<>>]
             F == [n \in 1 .. MaxTurns |-> [m \in PlainMaps |-> Deeper(m)]]
  <1>1. MaxTurns \in Nat
    BY BoundsAssumption
  <1>2. none \in PlainMaps
    <2>1. none \in [{} -> PlainText] /\ {} \in SUBSET (DOMAIN vars_ \intersect Variables)
      OBVIOUS
    <2> QED BY <2>1 DEF PlainMaps
  <1>3. F \in Steps(MaxTurns, PlainMaps)
    BY DeeperType DEF Steps
  <1>4. PICK g : Iterates(g, MaxTurns, PlainMaps, none, F)
    <2> HIDE DEF F, none
    <2> QED BY <1>1, <1>2, <1>3, Recursion
  <1>5. \A n \in 1 .. MaxTurns : n - 1 \in 0 .. MaxTurns /\ n # 0 /\ n \in 0 .. MaxTurns
    BY <1>1
  <1>6. g[0] = none /\ \A n \in 1 .. MaxTurns : g[n] = Deeper(g[n - 1])
    <2>1. g[0] = none
      BY <1>4 DEF Iterates
    <2>2. ASSUME NEW n \in 1 .. MaxTurns PROVE g[n] = Deeper(g[n - 1])
      <3>1. g[n - 1] \in PlainMaps /\ g[n] = F[n][g[n - 1]]
        BY <1>4, <1>5 DEF Iterates
      <3> QED BY <3>1
    <2> QED BY <2>1, <2>2
  <1>7. g = [n \in 0 .. MaxTurns |-> IF n = 0 THEN none ELSE Deeper(g[n - 1])]
    <2>1. g = [n \in 0 .. MaxTurns |-> g[n]]
      BY <1>4 DEF Iterates
    <2>2. \A n \in 0 .. MaxTurns : n = 0 \/ n \in 1 .. MaxTurns
      BY <1>1
    <2> HIDE DEF none
    <2>3. \A n \in 0 .. MaxTurns : g[n] = IF n = 0 THEN none ELSE Deeper(g[n - 1])
      BY <1>6, <2>2
    <2> QED BY <2>1, <2>3
  <1>8. Meanings = [n \in 0 .. MaxTurns |-> IF n = 0 THEN none ELSE Deeper(Meanings[n - 1])]
    BY <1>7, Zenon DEF Meanings, Deeper
  <1> HIDE DEF none
  <1>9. Meanings[0] = none /\ \A n \in 1 .. MaxTurns : Meanings[n] = Deeper(Meanings[n - 1])
    <2>1. \A n \in 0 .. MaxTurns : Meanings[n] = IF n = 0 THEN none ELSE Deeper(Meanings[n - 1])
      BY <1>8
    <2>2. 0 \in 0 .. MaxTurns
      BY <1>1
    <2> QED BY <1>5, <2>1, <2>2
  <1>10. Meanings \in [0 .. MaxTurns -> PlainMaps]
    <2>1. DOMAIN Meanings = 0 .. MaxTurns /\ Meanings = [n \in 0 .. MaxTurns |-> Meanings[n]]
      BY <1>8
    <2>2. \A n \in 1 .. MaxTurns : Meanings[n - 1] \in PlainMaps => Meanings[n] \in PlainMaps
      BY <1>9, DeeperType
    <2>3. Meanings[0] \in PlainMaps
      BY <1>2, <1>9
    <2> QED BY <1>1, <2>1, <2>2, <2>3, RecursionType
  <1>11. DOMAIN none = {}
    BY DEF none
  <1> QED BY <1>9, <1>10, <1>11

\* A map that a deeper one contains.
Within(m, n) == \A v \in DOMAIN m : v \in DOMAIN n /\ m[v] = n[v]

\* One level more keeps the order of maps.
LEMMA DeeperWithin ==
    ASSUME TextsDefined, NEW m \in PlainMaps, NEW n \in PlainMaps, Within(m, n)
    PROVE  Within(Deeper(m), Deeper(n))
  <1> SUFFICES ASSUME NEW v \in DOMAIN Deeper(m)
               PROVE  v \in DOMAIN Deeper(n) /\ Deeper(m)[v] = Deeper(n)[v]
    BY DEF Within
  <1>1. v \in DOMAIN vars_ \intersect Variables /\ Refs(vars_[v]) \subseteq DOMAIN m
    BY DEF Deeper
  <1>2. \A w \in Refs(vars_[v]) : w \in DOMAIN m /\ w \in DOMAIN n /\ m[w] = n[w]
    BY <1>1 DEF Within
  <1>3. Expand(vars_[v], m) = Expand(vars_[v], n)
    BY <1>1, <1>2, ExpandSame DEF TextsDefined
  <1> QED BY <1>1, <1>2, <1>3 DEF Deeper

\* What has a meaning keeps it in the levels above.
LEMMA MeaningsGrow ==
    ASSUME TextsDefined
    PROVE  \A n \in 1 .. MaxTurns : Within(Meanings[n - 1], Meanings[n])
  <1> DEFINE S == {j \in Nat : j + 1 <= MaxTurns => Within(Meanings[j], Meanings[j + 1])}
  <1>0. MaxTurns \in Nat
    BY BoundsAssumption
  <1>1. 0 \in S
    BY MeaningsDef DEF Within
  <1>2. ASSUME NEW j \in Nat, j \in S PROVE j + 1 \in S
    <2> SUFFICES ASSUME (j + 1) + 1 <= MaxTurns PROVE Within(Meanings[j + 1], Meanings[(j + 1) + 1])
      OBVIOUS
    <2>1. /\ j + 1 \in 1 .. MaxTurns /\ (j + 1) - 1 = j
          /\ (j + 1) + 1 \in 1 .. MaxTurns /\ ((j + 1) + 1) - 1 = j + 1
          /\ j \in 0 .. MaxTurns /\ j + 1 \in 0 .. MaxTurns
      BY <1>0
    <2>2. Within(Meanings[j], Meanings[j + 1])
      BY <1>0, <1>2, <2>1
    <2>3. Meanings[j] \in PlainMaps /\ Meanings[j + 1] \in PlainMaps
      BY <2>1, MeaningsDef
    <2>4. Meanings[j + 1] = Deeper(Meanings[j]) /\ Meanings[(j + 1) + 1] = Deeper(Meanings[j + 1])
      BY <2>1, MeaningsDef
    <2>5. Within(Deeper(Meanings[j]), Deeper(Meanings[j + 1]))
      BY <2>2, <2>3, DeeperWithin
    <2> QED BY <2>4, <2>5
  <1> HIDE DEF S
  <1>3. Nat \subseteq S
    BY <1>1, <1>2, InductionOnSet
  <1>4. ASSUME NEW n \in 1 .. MaxTurns PROVE Within(Meanings[n - 1], Meanings[n])
    <2>1. n - 1 \in S /\ (n - 1) + 1 = n /\ n <= MaxTurns
      BY <1>0, <1>3
    <2> QED BY <2>1 DEF S
  <1> QED BY <1>4

\* The deepest level solves the definitions: a meaning is the definition with its
\* references replaced by their meanings.
LEMMA MeaningSolves ==
    ASSUME TextsDefined
    PROVE  /\ Meanings[MaxTurns] \in PlainMaps
           /\ \A v \in DOMAIN Meanings[MaxTurns] :
                /\ v \in DOMAIN vars_ /\ Refs(vars_[v]) \subseteq DOMAIN Meanings[MaxTurns]
                /\ Meanings[MaxTurns][v] = Expand(vars_[v], Meanings[MaxTurns])
  <1> DEFINE M == Meanings[MaxTurns]
  <1>0. MaxTurns \in Nat
    BY BoundsAssumption
  <1>1. M \in PlainMaps
    BY <1>0, MeaningsDef
  <1>2. ASSUME NEW v \in DOMAIN M
        PROVE  v \in DOMAIN vars_ /\ Refs(vars_[v]) \subseteq DOMAIN M /\ M[v] = Expand(vars_[v], M)
    <2>1. MaxTurns \in 1 .. MaxTurns /\ MaxTurns - 1 \in 0 .. MaxTurns
      BY <1>0, <1>2, MeaningsDef
    <2> DEFINE m == Meanings[MaxTurns - 1]
    <2>2. m \in PlainMaps /\ M = Deeper(m) /\ Within(m, M)
      BY <2>1, MeaningsDef, MeaningsGrow
    <2> HIDE DEF m, M
    <2>3. v \in DOMAIN vars_ /\ Refs(vars_[v]) \subseteq DOMAIN m /\ M[v] = Expand(vars_[v], m)
      BY <1>2, <2>2 DEF Deeper
    <2>4. \A w \in Refs(vars_[v]) : w \in DOMAIN m /\ w \in DOMAIN M /\ m[w] = M[w]
      BY <2>2, <2>3 DEF Within
    <2>5. Expand(vars_[v], m) = Expand(vars_[v], M)
      BY <1>1, <2>2, <2>3, <2>4, ExpandSame DEF TextsDefined
    <2> QED BY <2>3, <2>4, <2>5
  <1> QED BY <1>1, <1>2

\* The exception is no text, and has no references.
LEMMA ThrowFacts == Throw \notin Text /\ Refs(Throw) = {}
  <1>2. ToSet(Throw) = {"throw"}
    <2>1. ToSet(<<"throw">>) = {"throw"}
      BY DEF ToSet
    <2> QED BY <2>1, Zenon DEF Throw
  <1>3. "throw" \notin Variables
    BY BoundsAssumption DEF Words
  <1>4. ASSUME Throw \in Text PROVE FALSE
    <2>1. Throw[1] \in Words
      BY <1>4, TextFacts DEF Throw
    <2> QED BY <2>1 DEF Throw, Words
  <1> QED BY <1>2, <1>3, <1>4 DEF Refs

\* A text without references stays as it is.
LEMMA TurnNone ==
    ASSUME NEW t \in Text \union {Throw}, Refs(t) = {}
    PROVE  Turn[t] = t
  BY DEF Turn

\* A turn replaces one reference by its definition, if there is one.
LEMMA TurnOne ==
    ASSUME NEW t \in Text, Refs(t) # {}
    PROVE  \E a \in Text, b \in Text, v \in Variables :
             /\ t = a \o <<v>> \o b /\ <<v>> \in Text
             /\ Turn[t] = IF v \notin DOMAIN vars_ THEN Throw ELSE a \o vars_[v] \o b
  <1> DEFINE J == {j \in DOMAIN t : t[j] \in Variables}
             i == Min(J)
  <1>1. Len(t) \in Nat /\ DOMAIN t = 1 .. Len(t) /\ \A j \in 1 .. Len(t) : t[j] \in Words
    BY TextFacts
  <1>2. J \in SUBSET Nat /\ J # {}
    BY <1>1 DEF Refs, ToSet
  <1>3. i \in J
    <2> HIDE DEF J
    <2>1. \E x \in J : \A y \in J : x <= y
      BY <1>2, LeastNumber
    <2> QED BY <2>1, Zenon DEF Min
  <1>4. t \in Text \union {Throw}
    OBVIOUS
  <1>5. Turn[t] = IF t[i] \notin DOMAIN vars_ THEN Throw
                  ELSE SubSeq(t, 1, i - 1) \o vars_[t[i]] \o SubSeq(t, i + 1, Len(t))
    BY <1>4 DEF Turn
  <1> HIDE DEF i
  <1>6. i \in 1 .. Len(t) /\ t[i] \in Variables
    BY <1>1, <1>3
  <1> QED BY <1>5, <1>6, SplitAt

\* The same for three texts.
LEMMA ThreeTexts ==
    ASSUME NEW a \in Text, NEW b \in Text, NEW c \in Text
    PROVE  /\ a \o b \o c \in Text
           /\ Refs(a \o b \o c) = Refs(a) \union Refs(b) \union Refs(c)
           /\ \A m \in PlainMaps : Expand(a \o b \o c, m) = Expand(a, m) \o Expand(b, m) \o Expand(c, m)
  <1>1. a \o b \in Text /\ a \o b \o c \in Text
    BY ConcatProperties DEF Text
  <1>2. Refs(a \o b \o c) = Refs(a) \union Refs(b) \union Refs(c)
    BY <1>1, RefsConcat
  <1>3. ASSUME NEW m \in PlainMaps
        PROVE  Expand(a \o b \o c, m) = Expand(a, m) \o Expand(b, m) \o Expand(c, m)
    <2>1. Expand(a \o b \o c, m) = Expand(a \o b, m) \o Expand(c, m)
      BY <1>1, ExpandConcat
    <2>2. Expand(a \o b, m) = Expand(a, m) \o Expand(b, m)
      BY ExpandConcat
    <2> QED BY <2>1, <2>2
  <1> QED BY <1>1, <1>2, <1>3

\* The reference of a text that is nothing else.
LEMMA RefsOne == ASSUME NEW v \in Variables PROVE Refs(<<v>>) = {v}
  <1>1. ToSet(<<v>>) = {v}
    BY DEF ToSet
  <1> QED BY <1>1 DEF Refs

\* A turn changes nothing of what a text means, if it means something.
LEMMA TurnKeeps ==
    ASSUME TextsDefined, NEW t \in Text, Refs(t) \subseteq DOMAIN Meanings[MaxTurns]
    PROVE  /\ Turn[t] \in Text /\ Refs(Turn[t]) \subseteq DOMAIN Meanings[MaxTurns]
           /\ Expand(Turn[t], Meanings[MaxTurns]) = Expand(t, Meanings[MaxTurns])
  <1> DEFINE M == Meanings[MaxTurns]
  <1>0. /\ M \in PlainMaps
        /\ \A v \in DOMAIN M : /\ v \in DOMAIN vars_ /\ Refs(vars_[v]) \subseteq DOMAIN M
                               /\ M[v] = Expand(vars_[v], M)
    BY MeaningSolves
  <1>1. CASE Refs(t) = {}
    BY <1>1, TurnNone, ThrowFacts
  <1>2. CASE Refs(t) # {}
    <2> HIDE DEF M
    <2>1. PICK a \in Text, b \in Text, v \in Variables :
             /\ t = a \o <<v>> \o b /\ <<v>> \in Text
             /\ Turn[t] = IF v \notin DOMAIN vars_ THEN Throw ELSE a \o vars_[v] \o b
      BY <1>2, TurnOne
    <2>2. Refs(t) = Refs(a) \union {v} \union Refs(b)
      BY <2>1, ThreeTexts, RefsOne
    <2>3. v \in DOMAIN M /\ Refs(a) \subseteq DOMAIN M /\ Refs(b) \subseteq DOMAIN M
      BY <2>2 DEF M
    <2>4. v \in DOMAIN vars_ /\ vars_[v] \in Text /\ Refs(vars_[v]) \subseteq DOMAIN M
      BY <1>0, <2>3 DEF TextsDefined
    <2>5. Turn[t] = a \o vars_[v] \o b
      BY <2>1, <2>4
    <2>6. /\ Turn[t] \in Text /\ Refs(Turn[t]) = Refs(a) \union Refs(vars_[v]) \union Refs(b)
          /\ Expand(Turn[t], M) = Expand(a, M) \o Expand(vars_[v], M) \o Expand(b, M)
      BY <1>0, <2>4, <2>5, ThreeTexts
    <2>7. Expand(t, M) = Expand(a, M) \o Expand(<<v>>, M) \o Expand(b, M)
      <3> DEFINE w == <<v>>
      <3>1. w \in Text /\ M \in PlainMaps /\ t = a \o w \o b
        BY <1>0, <2>1
      <3> HIDE DEF w
      <3>2. Expand(a \o w \o b, M) = Expand(a, M) \o Expand(w, M) \o Expand(b, M)
        BY <3>1, ThreeTexts
      <3>3. Expand(t, M) = Expand(a, M) \o Expand(w, M) \o Expand(b, M)
        BY <3>1, <3>2
      <3> QED BY <3>3 DEF w
    <2>8. Expand(<<v>>, M) = M[v] /\ M[v] = Expand(vars_[v], M)
      <3>1. v \in Words
        BY BoundsAssumption
      <3> QED BY <1>0, <2>3, <3>1, ExpandOne
    <2> QED BY <2>3, <2>4, <2>6, <2>7, <2>8 DEF M
  <1> QED BY <1>1, <1>2

\* A text that means something after a turn means something one level deeper
\* before it.
LEMMA TurnNeeds ==
    ASSUME TextsDefined, NEW t \in Text, Turn[t] # Throw, NEW n \in 1 .. MaxTurns,
           Refs(Turn[t]) \subseteq DOMAIN Meanings[n - 1]
    PROVE  Refs(t) \subseteq DOMAIN Meanings[n]
  <1> DEFINE m == Meanings[n - 1]
  <1>0. MaxTurns \in Nat /\ n - 1 \in 0 .. MaxTurns
    BY BoundsAssumption
  <1>1. Within(m, Meanings[n]) /\ Meanings[n] = Deeper(m)
    BY MeaningsGrow, MeaningsDef
  <1> HIDE DEF m
  <1>2. CASE Refs(t) = {}
    BY <1>2
  <1>3. CASE Refs(t) # {}
    <2>1. PICK a \in Text, b \in Text, v \in Variables :
             /\ t = a \o <<v>> \o b /\ <<v>> \in Text
             /\ Turn[t] = IF v \notin DOMAIN vars_ THEN Throw ELSE a \o vars_[v] \o b
      BY <1>3, TurnOne
    <2>2. Refs(t) = Refs(a) \union {v} \union Refs(b)
      BY <2>1, ThreeTexts, RefsOne
    <2>3. v \in DOMAIN vars_ /\ vars_[v] \in Text /\ Turn[t] = a \o vars_[v] \o b
      BY <2>1 DEF TextsDefined
    <2>4. Refs(Turn[t]) = Refs(a) \union Refs(vars_[v]) \union Refs(b)
      BY <2>3, ThreeTexts
    <2>5. Refs(a) \subseteq DOMAIN m /\ Refs(b) \subseteq DOMAIN m /\ Refs(vars_[v]) \subseteq DOMAIN m
      BY <2>4 DEF m
    <2>6. v \in DOMAIN Meanings[n]
      BY <1>1, <2>3, <2>5 DEF Deeper
    <2>7. DOMAIN m \subseteq DOMAIN Meanings[n]
      BY <1>1 DEF Within
    <2> QED BY <2>2, <2>5, <2>6, <2>7
  <1> QED BY <1>2, <1>3

\* The loop of resolveVariables, as a sequence of turns.
Turns(f, t) ==
  /\ f \in [0 .. MaxTurns -> Text \union {Throw}] /\ f[0] = t
  /\ \A n \in 1 .. MaxTurns : f[n] = Turn[f[n - 1]]

\* A turn gives a text or the exception, which stays.
LEMMA TurnType ==
    ASSUME TextsDefined, NEW t \in Text \union {Throw}
    PROVE  /\ Turn[t] \in Text \union {Throw}
           /\ t = Throw => Turn[t] = Throw
  <1>1. CASE t = Throw
    BY <1>1, TurnNone, ThrowFacts
  <1>2. CASE t \in Text /\ Refs(t) = {}
    <2>1. t # Throw
      BY <1>2, ThrowFacts
    <2> QED BY <1>2, <2>1, TurnNone
  <1>3. CASE t \in Text /\ Refs(t) # {}
    <2>1. PICK a \in Text, b \in Text, v \in Variables :
             /\ t = a \o <<v>> \o b /\ <<v>> \in Text
             /\ Turn[t] = IF v \notin DOMAIN vars_ THEN Throw ELSE a \o vars_[v] \o b
      BY <1>3, TurnOne
    <2>2. CASE v \notin DOMAIN vars_
      BY <1>3, <2>1, <2>2, ThrowFacts
    <2>3. CASE v \in DOMAIN vars_
      <3>1. vars_[v] \in Text
        BY <2>3 DEF TextsDefined
      <3>2. a \o vars_[v] \o b \in Text
        BY <3>1, ThreeTexts
      <3> QED BY <1>3, <2>1, <2>3, <3>2, ThrowFacts
    <2> QED BY <2>2, <2>3
  <1> QED BY <1>1, <1>2, <1>3

\* resolveVariables, unfolded into its turns.
LEMMA ResolveTurns ==
    ASSUME TextsDefined, NEW t \in Text
    PROVE  \E f : Turns(f, t) /\ resolveVariables(t) = f[MaxTurns]
  <1> DEFINE X == Text \union {Throw}
             F == [n \in 1 .. MaxTurns |-> [x \in X |-> Turn[x]]]
             after[n \in 0 .. MaxTurns] == IF n = 0 THEN t ELSE Turn[after[n - 1]]
  <1>1. MaxTurns \in Nat /\ t \in X
    BY BoundsAssumption
  <1>2. F \in Steps(MaxTurns, X)
    <2>1. \A x \in X : Turn[x] \in X
      BY TurnType
    <2> QED BY <2>1 DEF Steps
  <1>3. PICK g : Iterates(g, MaxTurns, X, t, F)
    BY <1>1, <1>2, Recursion
  <1>4. g \in [0 .. MaxTurns -> X] /\ g[0] = t /\ \A n \in 1 .. MaxTurns : g[n] = Turn[g[n - 1]]
    <2>1. ASSUME NEW n \in 1 .. MaxTurns PROVE g[n] = Turn[g[n - 1]]
      <3>1. n - 1 \in 0 .. MaxTurns /\ g[n - 1] \in X
        BY <1>1, <1>3 DEF Iterates
      <3> QED BY <1>3, <3>1 DEF Iterates
    <2> QED BY <1>3, <2>1 DEF Iterates
  <1>5. g = [n \in 0 .. MaxTurns |-> IF n = 0 THEN t ELSE Turn[g[n - 1]]]
    BY <1>1, <1>4
  <1>6. after = [n \in 0 .. MaxTurns |-> IF n = 0 THEN t ELSE Turn[after[n - 1]]]
    BY <1>5, Zenon DEF after
  <1>7. resolveVariables(t) = after[MaxTurns]
    BY Zenon DEF resolveVariables, after
  <1> HIDE DEF after
  <1>8. after[0] = t /\ \A n \in 1 .. MaxTurns : after[n] = Turn[after[n - 1]]
    BY <1>1, <1>6
  <1>9. DOMAIN after = 0 .. MaxTurns /\ after = [n \in 0 .. MaxTurns |-> after[n]]
    BY <1>6
  <1>10. \A n \in 1 .. MaxTurns : after[n - 1] \in X => after[n] \in X
    BY <1>8, TurnType
  <1> HIDE DEF X
  <1>11. after \in [0 .. MaxTurns -> X]
    BY <1>1, <1>8, <1>9, <1>10, RecursionType
  <1> QED BY <1>7, <1>8, <1>11 DEF Turns, X

\* If every reference of a text has a meaning, every turn keeps what it means.
LEMMA TurnsKeep ==
    ASSUME TextsDefined, NEW t \in Text, Refs(t) \subseteq DOMAIN Meanings[MaxTurns], NEW f, Turns(f, t)
    PROVE  /\ f[MaxTurns] \in Text
           /\ Meaning(f[MaxTurns]) = Meaning(t)
  <1> DEFINE M == Meanings[MaxTurns]
             Kept(n) == /\ f[n] \in Text /\ Refs(f[n]) \subseteq DOMAIN M
                        /\ Expand(f[n], M) = Expand(t, M)
             S == {n \in Nat : n <= MaxTurns => Kept(n)}
  <1>1. MaxTurns \in Nat
    BY BoundsAssumption
  <1>2. Kept(0)
    BY DEF Turns
  <1>3. ASSUME NEW n \in Nat, n + 1 <= MaxTurns, Kept(n) PROVE Kept(n + 1)
    <2>1. n + 1 \in 1 .. MaxTurns /\ (n + 1) - 1 = n
      BY <1>1, <1>3
    <2>2. f[n + 1] = Turn[f[n]]
      BY <2>1 DEF Turns
    <2> QED BY <1>3, <2>2, TurnKeeps
  <1> HIDE DEF Kept
  <1>4. 0 \in S
    BY <1>2
  <1>5. ASSUME NEW n \in Nat, n \in S PROVE n + 1 \in S
    BY <1>1, <1>3, <1>5
  <1> HIDE DEF S
  <1>6. Nat \subseteq S
    BY <1>4, <1>5, InductionOnSet
  <1>7. Kept(MaxTurns)
    BY <1>1, <1>6 DEF S
  <1> QED BY <1>7 DEF Kept, Meaning

\* If the loop ends without an exception, every reference of the text has a
\* meaning: from the end, every turn goes one level of definitions up.
LEMMA TurnsNeed ==
    ASSUME TextsDefined, NEW t \in Text, NEW f, Turns(f, t),
           f[MaxTurns] # Throw, Refs(f[MaxTurns]) = {}
    PROVE  Refs(t) \subseteq DOMAIN Meanings[MaxTurns]
  <1> DEFINE Back(j) == f[MaxTurns - j] \in Text /\ Refs(f[MaxTurns - j]) \subseteq DOMAIN Meanings[j]
             S == {j \in Nat : j <= MaxTurns => Back(j)}
  <1>1. MaxTurns \in Nat /\ MaxTurns - 0 = MaxTurns /\ MaxTurns - MaxTurns = 0
    BY BoundsAssumption
  <1>2. Back(0)
    BY <1>1 DEF Turns
  <1>3. ASSUME NEW j \in Nat, j + 1 <= MaxTurns, Back(j) PROVE Back(j + 1)
    <2> DEFINE n == MaxTurns - (j + 1)
    <2>1. /\ n + 1 = MaxTurns - j /\ n + 1 \in 1 .. MaxTurns /\ n \in 0 .. MaxTurns /\ (n + 1) - 1 = n
          /\ j + 1 \in 1 .. MaxTurns /\ (j + 1) - 1 = j
      BY <1>1, <1>3
    <2> HIDE DEF n
    <2>2. f[n + 1] = Turn[f[n]] /\ f[n] \in Text \union {Throw}
      BY <2>1 DEF Turns
    <2>3. f[n + 1] \in Text /\ Refs(f[n + 1]) \subseteq DOMAIN Meanings[j]
      BY <1>3, <2>1
    <2>4. f[n + 1] # Throw
      BY <2>3, ThrowFacts
    <2>5. f[n] \in Text
      BY <2>2, <2>4, TurnType
    <2>6. Refs(f[n]) \subseteq DOMAIN Meanings[j + 1]
      BY <2>1, <2>2, <2>3, <2>4, <2>5, TurnNeeds
    <2> QED BY <2>5, <2>6 DEF n
  <1> HIDE DEF Back
  <1>4. 0 \in S
    BY <1>2
  <1>5. ASSUME NEW n \in Nat, n \in S PROVE n + 1 \in S
    BY <1>1, <1>3, <1>5
  <1> HIDE DEF S
  <1>6. Nat \subseteq S
    BY <1>4, <1>5, InductionOnSet
  <1>7. Back(MaxTurns)
    BY <1>1, <1>6 DEF S
  <1> QED BY <1>1, <1>7 DEF Back, Turns

\* A reference without a meaning is there in what a text means.
LEMMA MeaningKeepsBad ==
    ASSUME TextsDefined, NEW t \in Text, NEW v \in Refs(t), v \notin DOMAIN Meanings[MaxTurns]
    PROVE  v \in Refs(Meaning(t))
  <1> DEFINE M == Meanings[MaxTurns]
  <1>0. M \in PlainMaps
    BY MeaningSolves
  <1> HIDE DEF M
  <1>1. PICK i \in 1 .. Len(t) : t[i] = v
    BY TextFacts DEF Refs, ToSet
  <1> DEFINE a == SubSeq(t, 1, i - 1)
             b == SubSeq(t, i + 1, Len(t))
             w == <<t[i]>>
  <1>2. a \in Text /\ b \in Text /\ w \in Text /\ t = a \o w \o b
    BY SplitAt
  <1>3. v \in Words /\ v \in Variables
    BY BoundsAssumption DEF Refs
  <1>4. Expand(w, M) = w
    BY <1>0, <1>1, <1>3, ExpandOne DEF M
  <1>5. Refs(w) = {v}
    BY <1>1, <1>3, RefsOne
  <1> HIDE DEF a, b, w
  <1>6. Expand(a, M) \in Text /\ Expand(b, M) \in Text
    BY <1>0, <1>2, ExpandType
  <1>7. Expand(t, M) = Expand(a, M) \o w \o Expand(b, M)
    <2>1. Expand(a \o w \o b, M) = Expand(a, M) \o Expand(w, M) \o Expand(b, M)
      BY <1>0, <1>2, ThreeTexts
    <2> QED BY <1>2, <1>4, <2>1
  <1>8. Refs(Expand(a, M) \o w \o Expand(b, M)) = Refs(Expand(a, M)) \union Refs(w) \union Refs(Expand(b, M))
    BY <1>2, <1>6, ThreeTexts
  <1> QED BY <1>5, <1>7, <1>8 DEF Meaning, M

\* The turns of resolveVariables, where they end, put in for every reference
\* the meaning of its definition, level by level; the exception stands for a
\* text that is left with a reference nothing defines.
THEOREM ResolvesMeaning ==
    ASSUME TextsDefined, NEW t \in Text, ~Endless(t)
    PROVE  resolveVariables(t) = IF Refs(Meaning(t)) = {} THEN Meaning(t) ELSE Throw
  <1> DEFINE M == Meanings[MaxTurns]
  <1>0. M \in PlainMaps
    BY MeaningSolves
  <1>1. PICK f : Turns(f, t) /\ resolveVariables(t) = f[MaxTurns]
    BY ResolveTurns
  <1>2. Refs(f[MaxTurns]) = {}
    BY <1>1 DEF Endless
  <1> HIDE DEF M
  <1>3. CASE Refs(t) \subseteq DOMAIN M
    <2>1. f[MaxTurns] \in Text /\ Meaning(f[MaxTurns]) = Meaning(t)
      BY <1>1, <1>3, TurnsKeep DEF M
    <2>2. f[MaxTurns] \in PlainText
      BY <1>2, <2>1, RefsPlain
    <2>3. Meaning(f[MaxTurns]) = f[MaxTurns]
      BY <1>0, <2>2, ExpandNone DEF Meaning, M
    <2> QED BY <1>1, <1>2, <2>1, <2>3
  <1>4. CASE ~(Refs(t) \subseteq DOMAIN M)
    <2>1. f[MaxTurns] = Throw
      BY <1>1, <1>2, <1>4, TurnsNeed DEF M
    <2>2. Refs(Meaning(t)) # {}
      BY <1>4, MeaningKeepsBad DEF M
    <2> QED BY <1>1, <2>1, <2>2
  <1> QED BY <1>3, <1>4

\* The definitions of a configuration are texts.
LEMMA ConfDefined ==
    ASSUME NEW family \in Configs, conf \in family
    PROVE  TextsDefined
  <1> SUFFICES ASSUME NEW v \in DOMAIN vars_ PROVE vars_[v] \in Text
    BY DEF TextsDefined
  <1> DEFINE J == {j \in DOMAIN conf.variables : conf.variables[j][1] = v}
             i == Min(J)
  <1>1. /\ conf.variables \in Seq(ToSet(conf.variables))
        /\ \A j \in DOMAIN conf.variables : conf.variables[j][2] \in Text
    BY ConfigsAssumption
  <1>2. DOMAIN conf.variables = 1 .. Len(conf.variables) /\ Len(conf.variables) \in Nat
    BY <1>1, LenProperties
  <1>3. J \in SUBSET Nat /\ J # {}
    BY <1>2 DEF vars_
  <1>4. i \in J
    <2> HIDE DEF J
    <2>1. \E x \in J : \A y \in J : x <= y
      BY <1>3, LeastNumber
    <2> QED BY <2>1, Zenon DEF Min
  <1>5. vars_[v] = conf.variables[i][2]
    BY DEF vars_
  <1> HIDE DEF i
  <1> QED BY <1>1, <1>4, <1>5

-----------------------------------------------------------------------------
(* The invariants of the daemon. *)

\* A sequence, of whatever elements.
Sequence(s) == \E S : s \in Seq(S)

\* How far the component set is in each phase of Globals.
Phases ==
  /\ phase \in {"config", "modules", "components", "loading", "handlers", "logger",
                "pools", "start", "up", "endless", "closing", "exit"}
  /\ phase \in {"config", "modules", "components"} => mode = "load"
  /\ phase = "loading" => mode \in {"load", "throw"}
  /\ phase \in {"handlers", "logger", "pools", "start", "up", "endless"} => mode = "up"

\* Components are made by factories of modules that are open; no module is closed
\* before the components are gone.
Mapped ==
  /\ mode # "gone" =>
       /\ Sequence(handles)
       /\ \A f \in factories : f[1] \in ToSet(handles)
  /\ \A c \in DOMAIN components_ : components_[c] \in factories
  /\ mode = "gone" => components_ = <<>>

\* The components created so far are those of the entries read so far.
Created ==
  /\ \E family \in Configs : conf \in family
  /\ phase \in {"config", "modules"} => components_ = <<>>
  /\ phase = "components" =>
       /\ next \in 1 .. Len(conf.components) + 1
       /\ DOMAIN components_ = {conf.components[i].name : i \in 1 .. next - 1}
  /\ phase \in {"loading", "handlers", "logger", "pools", "start", "up"} =>
       DOMAIN components_ = Components

\* The handlers read so far, and the logger, are what they are used as.
Handled ==
  /\ Sequence(handlers_)
  /\ \A i \in DOMAIN handlers_ :
       /\ handlers_[i].handlers = ToSet(conf.handlers[i].components)
       /\ \A c \in handlers_[i].handlers : Implements(c, "handler")
  /\ phase \in {"config", "modules", "components", "loading"} => handlers_ = <<>>
  /\ phase = "handlers" => next \in 1 .. Len(conf.handlers) + 1 /\ Len(handlers_) = next - 1
  /\ phase \in {"logger", "pools", "start", "up"} => Len(handlers_) = Len(conf.handlers)
  /\ phase \in {"pools", "start", "up"} => Implements(logger_, "logger")

\* The pools made are pools that handlers name, all of them before any is started;
\* each runs with the handlers that name it.
Pooled ==
  /\ phase \in {"config", "modules", "components", "loading", "handlers", "logger"} =>
       pools_ = <<>>
  /\ phase = "pools" => DOMAIN pools_ \subseteq getPoolsNeeded
  /\ phase \in {"start", "up"} => DOMAIN pools_ = getPoolsNeeded
  /\ phase \notin {"start", "up", "closing", "exit"} => running = <<>>
  /\ phase \in {"start", "up"} =>
       \A p \in DOMAIN running : p \in DOMAIN pools_ /\ running[p] = findPoolHandlers(p)
  /\ phase = "up" => DOMAIN running = DOMAIN pools_

\* The inductive invariant.
SInv == Phases /\ Mapped /\ Created /\ Handled /\ Pooled

\* The handlers read so far have the pools they name.
Named == \A i \in DOMAIN handlers_ : handlers_[i].pool = PoolOf(i)

\* Of the first n entries for pools, those that a handler names are in pools_,
\* each in one place; there are no others.
PlacedUpTo(n) ==
  /\ \A k \in 1 .. n :
       PoolName(k) \in getPoolsNeeded =>
         /\ PoolName(k) \in DOMAIN pools_ /\ pools_[PoolName(k)] = conf.pools[k]
         /\ \A j \in 1 .. n : PoolName(j) = PoolName(k) => j = k
  /\ \A p \in DOMAIN pools_ : \E k \in 1 .. n : PoolName(k) = p

\* The loop of initPools, and what it leaves.
Placed ==
  /\ phase = "pools" => next \in 1 .. Len(conf.pools) + 1 /\ PlacedUpTo(next - 1)
  /\ phase \in {"start", "up"} => PlacedUpTo(Len(conf.pools))

\* What the start-up keeps of the pools, given SInv.
PInv == Named /\ Placed

\* The handlers read so far were read to their ends, and have the filters of
\* their entries.
Filtered ==
  \A i \in DOMAIN handlers_ :
    /\ handlers_[i].filters = Filters(conf.handlers[i])
    /\ HandlerReading(conf.handlers[i]) = "fine"

\* No pool has a negative size.
Positive == \A i \in DOMAIN conf.pools : SizeOf(i) >= 0

\* The names of the first n pools were read to their ends, and the counter is
\* within the limit and the sum of their sizes, no carry lost.
CountedUpTo(n) ==
  /\ \A k \in 1 .. n : PoolName(k) # Throw /\ ~Endless(conf.pools[k].name)
  /\ Positive => counter = Sizes[n] /\ counter \in 0 .. MaxTasks

\* The loop of initPools, and what it leaves.
Counted ==
  /\ phase \notin {"pools", "start", "up", "closing", "exit", "endless"} => counter = 0
  /\ phase = "pools" => CountedUpTo(next - 1)
  /\ phase \in {"start", "up"} => CountedUpTo(Len(conf.pools))

\* What the start-up keeps of what it read, given SInv and PInv.
RInv == Filtered /\ Counted

-----------------------------------------------------------------------------
(* Sequences. *)

\* A sequence of whatever elements, and one more.
LEMMA SeqGrows ==
    ASSUME NEW s, NEW e, Sequence(s)
    PROVE  /\ Sequence(Append(s, e))
           /\ Len(s) \in Nat /\ Len(Append(s, e)) = Len(s) + 1
           /\ DOMAIN s = 1 .. Len(s) /\ DOMAIN Append(s, e) = 1 .. Len(s) + 1
           /\ \A i \in 1 .. Len(s) : Append(s, e)[i] = s[i]
           /\ Append(s, e)[Len(s) + 1] = e
           /\ ToSet(Append(s, e)) = ToSet(s) \union {e}
  <1>1. PICK S : s \in Seq(S)
    BY DEF Sequence
  <1> DEFINE T == S \union {e}
             u == Append(s, e)
  <1>2. Len(s) \in Nat /\ DOMAIN s = 1 .. Len(s) /\ s \in [1 .. Len(s) -> S]
    BY <1>1, LenProperties
  <1>3. s \in Seq(T)
    <2>1. s \in [1 .. Len(s) -> T]
      BY <1>2
    <2> QED BY <2>1, <1>2, SeqDef
  <1>4. e \in T
    OBVIOUS
  <1> HIDE DEF T
  <1>5. /\ u \in Seq(T) /\ Len(u) = Len(s) + 1
        /\ \A i \in 1 .. Len(s) : u[i] = s[i]
        /\ u[Len(s) + 1] = e
    BY <1>3, <1>4, AppendProperties
  <1>6. DOMAIN u = 1 .. Len(s) + 1
    BY <1>5, LenProperties
  <1> HIDE DEF u
  <1>7. ToSet(u) = ToSet(s) \union {e}
    BY <1>2, <1>5, <1>6 DEF ToSet
  <1>8. Sequence(u)
    BY <1>5 DEF Sequence
  <1> QED BY <1>2, <1>5, <1>6, <1>7, <1>8 DEF u

\* The empty map and the empty sequence are one.
LEMMA Empty == DOMAIN <<>> = {} /\ ToSet(<<>>) = {} /\ Len(<<>>) = 0 /\ <<>> \in Seq({})
  <1>1. <<>> \in Seq({}) /\ Len(<<>>) = 0
    BY EmptySeq
  <1>2. DOMAIN <<>> = {}
    BY <1>1, LenProperties
  <1> QED BY <1>1, <1>2 DEF ToSet

-----------------------------------------------------------------------------
(* The daemon uses the component set as ComponentSet says. *)

\* Every step of the daemon is a step of the component set or leaves it alone.
LEMMA StepOfSet == [SNext]_svars => [Next]_vars
  <1> SUFFICES ASSUME [SNext]_svars PROVE [Next]_vars
    OBVIOUS
  <1>1. CASE LoadComponents
    BY <1>1 DEF LoadComponents, Next
  <1>2. CASE DestroyComponents
    BY <1>2 DEF DestroyComponents, Next
  <1>3. CASE UNCHANGED svars
    BY <1>3 DEF svars
  <1>4. CASE \/ ReadConfig \/ LoadModule \/ ModulesDone \/ add \/ AllAdded
             \/ AddHandler \/ HandlersDone \/ initLogger \/ initPool \/ PoolsDone
             \/ StartPool \/ StartFails \/ Up \/ Shutdown \/ CloseModule \/ Exit
    <2>1. UNCHANGED vars
      BY <1>4 DEF ReadConfig, LoadModule, ModulesDone, add, AllAdded, AddHandler, HandlersDone,
                  initLogger, initPool, PoolsDone, StartPool, StartFails, Up, Shutdown,
                  CloseModule, Exit
    <2> QED BY <2>1
  <1> QED BY <1>1, <1>2, <1>3, <1>4 DEF SNext, Starting, Closing

\* Globals, whatever its configuration, calls its component set in the way
\* ComponentSet describes: what is proved of the set holds in the daemon.
THEOREM UsesComponentSet == SSpec => Spec
  <1>1. SInit => Init
    BY ConfigsAssumption DEF SInit, Init
  <1> QED BY <1>1, StepOfSet, PTL DEF SSpec, Spec

-----------------------------------------------------------------------------
(* The invariant of the daemon. *)

\* A process that has not read its configuration satisfies it.
LEMMA InitSInv == SInit => SInv
  <1> SUFFICES ASSUME SInit PROVE SInv
    OBVIOUS
  <1>1. /\ mode = "load" /\ phase = "config"
        /\ handles = <<>> /\ factories = {} /\ components_ = <<>> /\ handlers_ = <<>>
        /\ pools_ = <<>> /\ running = <<>>
        /\ \E family \in Configs : conf \in family
    BY DEF SInit, Fresh
  <1>2. Phases
    BY <1>1 DEF Phases
  <1>3. Mapped
    BY <1>1, Empty DEF Mapped, Sequence
  <1>4. Created
    BY <1>1 DEF Created
  <1>5. Handled
    BY <1>1, Empty DEF Handled, Sequence
  <1>6. Pooled
    BY <1>1 DEF Pooled
  <1> QED BY <1>2, <1>3, <1>4, <1>5, <1>6 DEF SInv

\* A configuration is read to its end; what it names is a component.
LEMMA ConfigRead ==
    ASSUME Created
    PROVE  /\ Len(conf.components) \in Nat /\ DOMAIN conf.components = 1 .. Len(conf.components)
           /\ Len(conf.handlers) \in Nat /\ DOMAIN conf.handlers = 1 .. Len(conf.handlers)
           /\ {conf.components[i].name : i \in 1 .. Len(conf.components)} = Components
  <1>1. PICK family \in Configs : conf \in family
    BY DEF Created
  <1>2. /\ conf.components \in Seq(ToSet(conf.components))
        /\ conf.handlers \in Seq(ToSet(conf.handlers))
        /\ {conf.components[i].name : i \in DOMAIN conf.components} = Components
    BY <1>1, ConfigsAssumption
  <1>3. /\ Len(conf.components) \in Nat /\ DOMAIN conf.components = 1 .. Len(conf.components)
        /\ Len(conf.handlers) \in Nat /\ DOMAIN conf.handlers = 1 .. Len(conf.handlers)
    BY <1>2, LenProperties
  <1> QED BY <1>2, <1>3

\* What the component set does not touch stays mapped while the set is there.
LEMMA MappedKept ==
    ASSUME Mapped, UNCHANGED <<loader, components_>>, mode = "gone" <=> mode' = "gone"
    PROVE  Mapped'
  BY DEF Mapped, loader

\* The handlers stay what they are as long as the phase claims no more of them.
LEMMA HandledKept ==
    ASSUME Handled, UNCHANGED <<conf, handling>>,
           phase' \in {"config", "modules", "components", "loading"} => handlers_ = <<>>,
           phase' = "handlers" => next' \in 1 .. Len(conf.handlers) + 1 /\ Len(handlers_) = next' - 1,
           phase' \in {"logger", "pools", "start", "up"} => Len(handlers_) = Len(conf.handlers),
           phase' \in {"pools", "start", "up"} => Implements(logger_, "logger")
    PROVE  Handled'
  BY DEF Handled, handling, Implements

\* So do the pools.
LEMMA PooledKept ==
    ASSUME Pooled, UNCHANGED <<handlers_, pooling, running>>,
           phase' \in {"config", "modules", "components", "loading", "handlers", "logger"} =>
             pools_ = <<>>,
           phase' = "pools" => DOMAIN pools_ \subseteq getPoolsNeeded,
           phase' \in {"start", "up"} => phase \in {"start", "up"}
             \/ (DOMAIN pools_ = getPoolsNeeded /\ running = <<>>),
           phase' \notin {"start", "up", "closing", "exit"} => running = <<>>,
           phase' = "up" => DOMAIN running = DOMAIN pools_
    PROVE  Pooled'
  BY Empty DEF Pooled, pooling, getPoolsNeeded, findPoolHandlers

\* So do the components that are there.
LEMMA CreatedKept ==
    ASSUME Created, UNCHANGED <<conf, components_>>,
           phase' \in {"config", "modules"} => components_ = <<>>,
           phase' = "components" => components_ = <<>> /\ next' = 1,
           phase' \in {"loading", "handlers", "logger", "pools", "start", "up"} =>
             DOMAIN components_ = Components
    PROVE  Created'
  <1>1. \E family \in Configs : conf' \in family
    BY DEF Created
  <1>2. phase' = "components" =>
          /\ next' \in 1 .. Len(conf'.components) + 1
          /\ DOMAIN components_' = {conf'.components[i].name : i \in 1 .. next' - 1}
    <2> SUFFICES ASSUME phase' = "components"
                 PROVE  /\ next' \in 1 .. Len(conf'.components) + 1
                        /\ DOMAIN components_' = {conf'.components[i].name : i \in 1 .. next' - 1}
      OBVIOUS
    <2>1. next' = 1 /\ DOMAIN components_' = {}
      BY Empty
    <2>2. 1 \in 1 .. Len(conf.components) + 1
      BY ConfigRead
    <2>3. \A i \in 1 .. 1 - 1 : FALSE
      OBVIOUS
    <2>4. {conf'.components[i].name : i \in 1 .. next' - 1} = {}
      BY <2>1, <2>3
    <2> QED BY <2>1, <2>2, <2>4
  <1> QED BY <1>1, <1>2 DEF Created, Components

\* Every step of the daemon keeps the invariant.
LEMMA NextSInv == SInv /\ [SNext]_svars => SInv'
  <1> SUFFICES ASSUME SInv, [SNext]_svars PROVE SInv'
    OBVIOUS
  <1> USE DEF SInv
  <1> USE DEF Enter, Fail, Hang, Step
  <1>cfg. /\ Len(conf.components) \in Nat /\ DOMAIN conf.components = 1 .. Len(conf.components)
          /\ Len(conf.handlers) \in Nat /\ DOMAIN conf.handlers = 1 .. Len(conf.handlers)
          /\ {conf.components[i].name : i \in 1 .. Len(conf.components)} = Components
    BY ConfigRead
  <1>1. CASE ReadConfig
    <2>1. /\ phase = "config" /\ phase' \in {"modules", "exit"} /\ mode = "load"
          /\ UNCHANGED <<vars, conf, own>>
      BY <1>1 DEF ReadConfig, Phases
    <2>2. UNCHANGED <<mode, conf, loader, components_, handlers_, handling, pooling, running>>
      BY <2>1 DEF vars, own, handling
    <2>3. Phases'
      BY <2>1, <2>2 DEF Phases
    <2>4. Mapped'
      BY <2>2, MappedKept
    <2>5. Created'
      BY <2>1, <2>2, CreatedKept DEF Created
    <2>6. Handled'
      BY <2>1, <2>2, HandledKept DEF Handled
    <2>7. Pooled'
      BY <2>1, <2>2, PooledKept DEF Pooled
    <2> QED BY <2>3, <2>4, <2>5, <2>6, <2>7
  <1>2. CASE LoadModule
    <2> DEFINE m == conf.modules[next]
    <2>1. /\ phase = "modules" /\ phase' \in {"modules", "closing"} /\ mode = "load"
          /\ UNCHANGED <<vars, conf, components_, handling, pooling, running>>
      BY <1>2 DEF LoadModule, Phases
    <2>2. UNCHANGED <<mode, handlers_>>
      BY <2>1 DEF vars, handling
    <2>3. Phases'
      BY <2>1, <2>2 DEF Phases
    <2>4. Mapped'
      <3>1. CASE UNCHANGED loader
        BY <2>1, <2>2, <3>1, MappedKept
      <3>2. CASE /\ handles' = Append(handles, m.name)
                 /\ factories' = factories \union {<<m.name, t>> : t \in m.types}
        <4> HIDE DEF m
        <4>1. /\ Sequence(handles')
              /\ ToSet(handles') = ToSet(handles) \union {m.name}
          BY <2>1, <3>2, SeqGrows DEF Mapped
        <4>2. \A f \in factories' : f[1] \in ToSet(handles')
          BY <2>1, <3>2, <4>1 DEF Mapped
        <4> QED BY <2>1, <2>2, <3>2, <4>1, <4>2 DEF Mapped
      <3> QED BY <1>2, <3>1, <3>2 DEF LoadModule
    <2>5. Created'
      BY <2>1, <2>2, CreatedKept DEF Created
    <2>6. Handled'
      BY <2>1, <2>2, HandledKept DEF Handled
    <2>7. Pooled'
      BY <2>1, <2>2, PooledKept DEF Pooled
    <2> QED BY <2>3, <2>4, <2>5, <2>6, <2>7
  <1>3. CASE ModulesDone
    <2>1. /\ phase = "modules" /\ phase' = "components" /\ next' = 1 /\ mode = "load"
          /\ UNCHANGED <<vars, conf, own>>
      BY <1>3 DEF ModulesDone, Phases
    <2>2. UNCHANGED <<mode, conf, loader, components_, handlers_, handling, pooling, running>>
      BY <2>1 DEF vars, own, handling
    <2>3. Phases'
      BY <2>1, <2>2 DEF Phases
    <2>4. Mapped'
      BY <2>2, MappedKept
    <2>5. Created'
      BY <2>1, <2>2, CreatedKept DEF Created
    <2>6. Handled'
      BY <2>1, <2>2, HandledKept DEF Handled
    <2>7. Pooled'
      BY <2>1, <2>2, PooledKept DEF Pooled
    <2> QED BY <2>3, <2>4, <2>5, <2>6, <2>7
  <1>4. CASE add
    <2> DEFINE c == conf.components[next]
    <2>1. /\ phase = "components" /\ next <= Len(conf.components)
          /\ mode = "load" /\ UNCHANGED <<vars, conf, loader, handling, pooling, running>>
          /\ \/ phase' = "closing" /\ UNCHANGED components_
             \/ /\ c.type \in factories /\ next' = next + 1 /\ phase' = "components"
                /\ components_' = insert(components_, c.name, c.type)
      BY <1>4 DEF add, Phases
    <2>2. UNCHANGED <<mode, handlers_>>
      BY <2>1 DEF vars, handling
    <2>3. Phases'
      BY <2>1, <2>2 DEF Phases
    <2>4. Mapped'
      <3>1. CASE UNCHANGED components_
        BY <2>1, <2>2, <3>1, MappedKept
      <3>2. CASE c.type \in factories /\ components_' = insert(components_, c.name, c.type)
        <4> HIDE DEF c
        <4>1. \A n \in DOMAIN components_' : components_'[n] \in factories
          BY <3>2 DEF Mapped, insert
        <4> QED BY <2>1, <2>2, <4>1 DEF Mapped, loader
      <3> QED BY <2>1, <3>1, <3>2
    <2>5. Created'
      <3>1. CASE phase' = "closing"
        BY <2>1, <3>1 DEF Created
      <3>2. CASE /\ next' = next + 1 /\ phase' = "components"
                 /\ components_' = insert(components_, c.name, c.type)
        <4>1. next \in Nat /\ next \in 1 .. Len(conf.components) /\ next' \in 1 .. Len(conf.components) + 1
          BY <1>cfg, <2>1, <3>2 DEF Created
        <4>2. DOMAIN components_' = DOMAIN components_ \union {c.name}
          BY <3>2 DEF insert
        <4>3. 1 .. next' - 1 = (1 .. next - 1) \union {next}
          BY <3>2, <4>1
        <4>4. DOMAIN components_ = {conf.components[i].name : i \in 1 .. next - 1}
          BY <2>1 DEF Created
        <4>5. DOMAIN components_' = {conf.components[i].name : i \in 1 .. next' - 1}
          BY <4>2, <4>3, <4>4
        <4> QED BY <2>1, <3>2, <4>1, <4>5 DEF Created
      <3> QED BY <2>1, <3>1, <3>2
    <2>6. Handled'
      BY <2>1, <2>2, HandledKept DEF Handled
    <2>7. Pooled'
      BY <2>1, <2>2, PooledKept DEF Pooled
    <2> QED BY <2>3, <2>4, <2>5, <2>6, <2>7
  <1>5. CASE AllAdded
    <2>1. /\ phase = "components" /\ next > Len(conf.components) /\ phase' = "loading"
          /\ mode = "load" /\ UNCHANGED <<vars, conf, own>>
      BY <1>5 DEF AllAdded, Phases
    <2>2. UNCHANGED <<mode, conf, loader, components_, handlers_, handling, pooling, running>>
      BY <2>1 DEF vars, own, handling
    <2>3. Phases'
      BY <2>1, <2>2 DEF Phases
    <2>4. Mapped'
      BY <2>2, MappedKept
    <2>5. Created'
      <3>1. next - 1 = Len(conf.components)
        BY <1>cfg, <2>1 DEF Created
      <3>2. DOMAIN components_ = Components
        BY <1>cfg, <2>1, <3>1 DEF Created
      <3> QED BY <2>1, <2>2, <3>2, CreatedKept
    <2>6. Handled'
      BY <2>1, <2>2, HandledKept DEF Handled
    <2>7. Pooled'
      BY <2>1, <2>2, PooledKept DEF Pooled
    <2> QED BY <2>3, <2>4, <2>5, <2>6, <2>7
  <1>6. CASE LoadComponents
    <2>1. /\ phase = "loading" /\ mode \in {"load", "throw"}
          /\ UNCHANGED <<conf, own>>
          /\ \/ phase' = "loading" /\ mode' \in {"load", "throw"}
             \/ phase' = "handlers" /\ next' = 1 /\ mode' = "up"
             \/ phase' = "closing" /\ mode' = "failed"
      <3>1. Calls => mode' \in {"load", "throw"}
        BY <1>6 DEF Calls, LoadNext, Find, Return, OnLoadThrows, Unwind, SendOnLoad
      <3> QED BY <1>6, <3>1 DEF LoadComponents, Phases, InitDone, InitFails
    <2>2. UNCHANGED <<conf, loader, components_, handlers_, handling, pooling, running>>
      BY <2>1 DEF own, handling
    <2>3. Phases'
      BY <2>1, <2>2 DEF Phases
    <2>4. Mapped'
      BY <2>1, <2>2, MappedKept
    <2>5. Created'
      BY <2>1, <2>2, CreatedKept DEF Created
    <2>6. Handled'
      BY <1>cfg, <2>1, <2>2, HandledKept, Empty DEF Handled
    <2>7. Pooled'
      BY <2>1, <2>2, PooledKept DEF Pooled
    <2> QED BY <2>3, <2>4, <2>5, <2>6, <2>7
  <1>7. CASE AddHandler
    <2> DEFINE h == conf.handlers[next]
               d == [pool |-> resolveVariables(h.pool), filters |-> Filters(h),
                     handlers |-> ToSet(h.components)]
    <2>1. /\ phase = "handlers" /\ next <= Len(conf.handlers) /\ mode = "up"
          /\ UNCHANGED <<vars, conf, loader, components_, logger_, pooling, running>>
          /\ \/ phase' \in {"closing", "endless"} /\ UNCHANGED handlers_
             \/ /\ HandlerReading(h) = "fine" /\ next' = next + 1 /\ phase' = "handlers"
                /\ handlers_' = Append(handlers_, d)
      BY <1>7 DEF AddHandler, Phases
    <2>2. UNCHANGED mode
      BY <2>1 DEF vars
    <2>3. Phases'
      BY <2>1, <2>2 DEF Phases
    <2>4. Mapped'
      BY <2>1, <2>2, MappedKept
    <2>5. Created'
      BY <2>1, CreatedKept DEF Created
    <2>6. Handled'
      <3>1. CASE phase' \in {"closing", "endless"} /\ UNCHANGED handlers_
        BY <2>1, <3>1, HandledKept DEF handling
      <3>2. CASE /\ HandlerReading(h) = "fine" /\ next' = next + 1 /\ phase' = "handlers"
                 /\ handlers_' = Append(handlers_, d)
        <4>1. /\ next \in 1 .. Len(conf.handlers) /\ next' \in 1 .. Len(conf.handlers) + 1
              /\ Len(handlers_) = next - 1
          BY <1>cfg, <2>1, <3>2 DEF Handled
        <4>2. \A i \in DOMAIN h.components : Implements(h.components[i], "handler")
          BY <3>2 DEF HandlerReading
        <4>3. \A e \in d.handlers : Implements(e, "handler")
          BY <4>2 DEF ToSet
        <4>4. d.handlers = ToSet(conf.handlers[next].components)
          OBVIOUS
        <4> HIDE DEF h, d
        <4>5. /\ Sequence(handlers_')
              /\ Len(handlers_') = next' - 1
              /\ DOMAIN handlers_ = 1 .. next - 1 /\ DOMAIN handlers_' = 1 .. next
              /\ \A i \in 1 .. next - 1 : handlers_'[i] = handlers_[i]
              /\ handlers_'[next] = d
          <5>1. Sequence(handlers_)
            BY DEF Handled
          <5>2. /\ Sequence(handlers_')
                /\ Len(handlers_') = Len(handlers_) + 1
                /\ DOMAIN handlers_ = 1 .. Len(handlers_)
                /\ DOMAIN handlers_' = 1 .. Len(handlers_) + 1
                /\ \A i \in 1 .. Len(handlers_) : handlers_'[i] = handlers_[i]
                /\ handlers_'[Len(handlers_) + 1] = d
            BY <3>2, <5>1, SeqGrows
          <5>3. Len(handlers_) + 1 = next
            BY <4>1
          <5>4. next = next' - 1
            BY <3>2, <4>1
          <5> QED BY <4>1, <5>2, <5>3, <5>4
        <4>6. \A i \in 1 .. next : i \in 1 .. next - 1 \/ i = next
          BY <4>1
        <4>7. \A i \in DOMAIN handlers_' :
                /\ handlers_'[i].handlers = ToSet(conf.handlers[i].components)
                /\ \A e \in handlers_'[i].handlers : Implements(e, "handler")
          BY <4>3, <4>4, <4>5, <4>6 DEF Handled
        <4> QED BY <2>1, <3>2, <4>1, <4>5, <4>7 DEF Handled, Implements
      <3> QED BY <2>1, <3>1, <3>2
    <2>7. Pooled'
      BY <2>1 DEF Pooled, pooling
    <2> QED BY <2>3, <2>4, <2>5, <2>6, <2>7
  <1>8. CASE HandlersDone
    <2>1. /\ phase = "handlers" /\ next > Len(conf.handlers) /\ phase' = "logger"
          /\ mode = "up" /\ UNCHANGED <<vars, conf, own>>
      BY <1>8 DEF HandlersDone, Phases
    <2>2. UNCHANGED <<mode, conf, loader, components_, handlers_, handling, pooling, running>>
      BY <2>1 DEF vars, own, handling
    <2>3. Phases'
      BY <2>1, <2>2 DEF Phases
    <2>4. Mapped'
      BY <2>2, MappedKept
    <2>5. Created'
      BY <2>1, <2>2, CreatedKept DEF Created
    <2>6. Handled'
      <3>1. Len(handlers_) = Len(conf.handlers)
        BY <1>cfg, <2>1 DEF Handled
      <3> QED BY <2>1, <2>2, <3>1, HandledKept
    <2>7. Pooled'
      BY <2>1, <2>2, PooledKept DEF Pooled
    <2> QED BY <2>3, <2>4, <2>5, <2>6, <2>7
  <1>9. CASE initLogger
    <2>1. /\ phase = "logger" /\ mode = "up"
          /\ UNCHANGED <<vars, conf, loader, components_, handlers_, pooling, running>>
          /\ \/ phase' = "pools" /\ Implements(conf.logger, "logger") /\ logger_' = conf.logger
             \/ phase' = "closing" /\ UNCHANGED logger_
      BY <1>9 DEF initLogger, Phases
    <2>2. UNCHANGED mode
      BY <2>1 DEF vars
    <2>3. Phases'
      BY <2>1, <2>2 DEF Phases
    <2>4. Mapped'
      BY <2>1, <2>2, MappedKept
    <2>5. Created'
      BY <2>1, CreatedKept DEF Created
    <2>6. Handled'
      BY <2>1 DEF Handled, Implements
    <2>7. Pooled'
      BY <2>1, PooledKept, Empty DEF Pooled
    <2> QED BY <2>3, <2>4, <2>5, <2>6, <2>7
  <1>10. CASE initPool
    <2>1. /\ phase = "pools" /\ phase' \in {"pools", "closing", "endless"} /\ mode = "up"
          /\ UNCHANGED <<vars, conf, loader, components_, handling, running>>
          /\ \/ UNCHANGED pools_
             \/ \E n, p : n \in getPoolsNeeded /\ pools_' = insert(pools_, n, p)
      BY <1>10 DEF initPool, Phases, pooling
    <2>2. UNCHANGED <<mode, handlers_>>
      BY <2>1 DEF vars, handling
    <2>3. Phases'
      BY <2>1, <2>2 DEF Phases
    <2>4. Mapped'
      BY <2>1, <2>2, MappedKept
    <2>5. Created'
      BY <2>1, CreatedKept DEF Created
    <2>6. Handled'
      BY <2>1, HandledKept DEF Handled
    <2>7. Pooled'
      <3>1. DOMAIN pools_' \subseteq getPoolsNeeded
        <4>1. DOMAIN pools_ \subseteq getPoolsNeeded
          BY <2>1 DEF Pooled
        <4>2. CASE \E n, p : n \in getPoolsNeeded /\ pools_' = insert(pools_, n, p)
          <5>1. PICK n, p : n \in getPoolsNeeded /\ pools_' = insert(pools_, n, p)
            BY <4>2
          <5> QED BY <4>1, <5>1 DEF insert
        <4> QED BY <2>1, <4>1, <4>2
      <3> QED BY <2>1, <2>2, <3>1 DEF Pooled, getPoolsNeeded
    <2> QED BY <2>3, <2>4, <2>5, <2>6, <2>7
  <1>11. CASE PoolsDone
    <2>1. /\ phase = "pools" /\ mode = "up" /\ UNCHANGED <<vars, conf, own>>
          /\ phase' = "closing" \/ (phase' = "start" /\ getPoolsNeeded \subseteq DOMAIN pools_)
      BY <1>11 DEF PoolsDone, Phases
    <2>2. UNCHANGED <<mode, conf, loader, components_, handlers_, handling, pooling, running>>
      BY <2>1 DEF vars, own, handling
    <2>3. Phases'
      BY <2>1, <2>2 DEF Phases
    <2>4. Mapped'
      BY <2>2, MappedKept
    <2>5. Created'
      BY <2>1, <2>2, CreatedKept DEF Created
    <2>6. Handled'
      BY <2>1, <2>2, HandledKept DEF Handled
    <2>7. Pooled'
      <3>1. phase' = "start" => DOMAIN pools_ = getPoolsNeeded
        BY <2>1 DEF Pooled
      <3>2. running = <<>>
        BY <2>1 DEF Pooled
      <3> QED BY <2>1, <2>2, <3>1, <3>2, PooledKept
    <2> QED BY <2>3, <2>4, <2>5, <2>6, <2>7
  <1>12. CASE StartPool
    <2>1. /\ phase = "start" /\ phase' = "start" /\ mode = "up"
          /\ UNCHANGED <<vars, conf, loader, components_, handling, pooling>>
      BY <1>12 DEF StartPool, Phases
    <2>2. UNCHANGED <<mode, handlers_, pools_>>
      BY <2>1 DEF vars, handling, pooling
    <2>3. Phases'
      BY <2>1, <2>2 DEF Phases
    <2>4. Mapped'
      BY <2>1, <2>2, MappedKept
    <2>5. Created'
      BY <2>1, CreatedKept DEF Created
    <2>6. Handled'
      BY <2>1, HandledKept DEF Handled
    <2>7. Pooled'
      <3>1. PICK p \in DOMAIN pools_ \ DOMAIN running :
              running' = insert(running, p, findPoolHandlers(p))
        BY <1>12 DEF StartPool
      <3>2. \A q \in DOMAIN running' : q \in DOMAIN pools_ /\ running'[q] = findPoolHandlers(q)
        <4>1. \A q \in DOMAIN running : q \in DOMAIN pools_ /\ running[q] = findPoolHandlers(q)
          BY <2>1 DEF Pooled
        <4>2. /\ DOMAIN running' = DOMAIN running \union {p}
              /\ \A q \in DOMAIN running : running'[q] = running[q]
              /\ running'[p] = findPoolHandlers(p)
          BY <3>1 DEF insert
        <4> QED BY <3>1, <4>1, <4>2
      <3>3. DOMAIN pools_' = getPoolsNeeded'
        BY <2>1, <2>2 DEF Pooled, getPoolsNeeded
      <3> QED BY <2>1, <2>2, <3>2, <3>3 DEF Pooled, findPoolHandlers
    <2> QED BY <2>3, <2>4, <2>5, <2>6, <2>7
  <1>13. CASE StartFails \/ Up
    <2>1. /\ phase = "start" /\ mode = "up" /\ UNCHANGED <<vars, conf, own>>
          /\ phase' = "closing" \/ (phase' = "up" /\ DOMAIN running = DOMAIN pools_)
      BY <1>13 DEF StartFails, Up, Phases
    <2>2. UNCHANGED <<mode, conf, loader, components_, handlers_, handling, pooling, running>>
      BY <2>1 DEF vars, own, handling
    <2>3. Phases'
      BY <2>1, <2>2 DEF Phases
    <2>4. Mapped'
      BY <2>2, MappedKept
    <2>5. Created'
      BY <2>1, <2>2, CreatedKept DEF Created
    <2>6. Handled'
      BY <2>1, <2>2, HandledKept DEF Handled
    <2>7. Pooled'
      BY <2>1, <2>2, PooledKept
    <2> QED BY <2>3, <2>4, <2>5, <2>6, <2>7
  <1>14. CASE Shutdown
    <2>1. /\ phase = "up" /\ phase' = "closing"
          /\ UNCHANGED <<vars, conf, loader, components_, handling, pooling>>
      BY <1>14 DEF Shutdown
    <2>2. UNCHANGED mode
      BY <2>1 DEF vars
    <2>3. Phases'
      BY <2>1 DEF Phases
    <2>4. Mapped'
      BY <2>1, <2>2, MappedKept
    <2>5. Created'
      BY <2>1, CreatedKept
    <2>6. Handled'
      BY <2>1, HandledKept
    <2>7. Pooled'
      BY <2>1 DEF Pooled
    <2> QED BY <2>3, <2>4, <2>5, <2>6, <2>7
  <1>15. CASE DestroyComponents
    <2>1. /\ phase = "closing" /\ phase' = "closing"
          /\ UNCHANGED <<conf, loader, handling>>
          /\ \/ mode' # "gone" /\ mode # "gone" /\ UNCHANGED components_
             \/ mode # "gone" /\ mode' = "gone" /\ components_' = <<>>
      BY <1>15 DEF DestroyComponents, Destroy, Unload, Delete
    <2>3. Phases'
      BY <2>1 DEF Phases
    <2>4. Mapped'
      BY <2>1, Empty DEF Mapped, loader
    <2>5. Created'
      BY <2>1 DEF Created
    <2>6. Handled'
      BY <2>1, HandledKept
    <2>7. Pooled'
      BY <2>1 DEF Pooled
    <2> QED BY <2>3, <2>4, <2>5, <2>6, <2>7
  <1>16. CASE CloseModule \/ Exit
    <2>1. /\ phase = "closing" /\ phase' \in {"closing", "exit"} /\ mode = "gone"
          /\ UNCHANGED <<vars, conf, factories, components_, handling>>
      BY <1>16 DEF CloseModule, Exit, own, loader
    <2>2. UNCHANGED mode
      BY <2>1 DEF vars
    <2>3. Phases'
      BY <2>1 DEF Phases
    <2>4. Mapped'
      BY <2>1, <2>2, Empty DEF Mapped
    <2>5. Created'
      BY <2>1, CreatedKept
    <2>6. Handled'
      BY <2>1, HandledKept
    <2>7. Pooled'
      BY <2>1 DEF Pooled
    <2> QED BY <2>3, <2>4, <2>5, <2>6, <2>7
  <1>17. CASE UNCHANGED svars
    <2>1. UNCHANGED <<mode, conf, phase, next, handles, factories, components_, handlers_, logger_,
                      pools_, running>>
      BY <1>17 DEF svars, vars, own, loader, handling, pooling
    <2> QED BY <2>1 DEF Phases, Mapped, Created, Handled, Pooled, Components, Implements,
                        getPoolsNeeded, findPoolHandlers
  <1> QED BY <1>1, <1>2, <1>3, <1>4, <1>5, <1>6, <1>7, <1>8, <1>9, <1>10, <1>11, <1>12, <1>13,
             <1>14, <1>15, <1>16, <1>17 DEF SNext, Starting, Closing

\* The invariant holds in every state of the daemon.
THEOREM SInvariance == SSpec => []SInv
  BY InitSInv, NextSInv, PTL DEF SSpec

-----------------------------------------------------------------------------
(* The pools. *)

\* A text is read the same way as long as the configuration is the same.
LEMMA NamesFixed ==
    ASSUME UNCHANGED conf
    PROVE  \A i : PoolOf(i)' = PoolOf(i) /\ PoolName(i)' = PoolName(i)
  <1>1. Turn' = Turn
    <2>1. vars_' = vars_
      BY DEF vars_
    <2> QED BY <2>1 DEF Turn, Refs
  <1>2. ASSUME NEW t PROVE resolveVariables(t)' = resolveVariables(t)
    BY <1>1 DEF resolveVariables
  <1> QED BY <1>2 DEF PoolOf, PoolName

\* As long as handlers and pools are the same, so is what is in its place.
LEMMA PlacedFixed ==
    ASSUME UNCHANGED <<conf, handlers_, pools_>>, NEW n, PlacedUpTo(n)
    PROVE  PlacedUpTo(n)'
  <1>1. getPoolsNeeded' = getPoolsNeeded
    BY DEF getPoolsNeeded
  <1> QED BY <1>1, NamesFixed DEF PlacedUpTo

\* Every step of the daemon keeps the invariant of the pools.
LEMMA NextPInv == SInv /\ PInv /\ [SNext]_svars => PInv'
  <1> SUFFICES ASSUME SInv, PInv, [SNext]_svars PROVE PInv'
    OBVIOUS
  <1> USE DEF SInv, PInv
  <1> USE DEF Enter, Fail, Hang, Step
  <1>len. Len(conf.pools) \in Nat
    <2>1. PICK family \in Configs : conf \in family
      BY DEF Created
    <2>2. conf.pools \in Seq(ToSet(conf.pools))
      BY <2>1, ConfigsAssumption
    <2> QED BY <2>2, LenProperties
  <1>conf. UNCHANGED conf
    BY DEF SNext, Starting, Closing, svars, ReadConfig, LoadModule, ModulesDone, add, AllAdded,
           LoadComponents, AddHandler, HandlersDone, initLogger, initPool, PoolsDone, StartPool,
           StartFails, Up, Shutdown, DestroyComponents, CloseModule, Exit
  <1>1. CASE AddHandler
    <2>1. /\ phase = "handlers" /\ phase' \in {"handlers", "closing", "endless"}
          /\ next <= Len(conf.handlers)
          /\ \/ UNCHANGED handlers_
             \/ \E h : h.pool = PoolOf(next) /\ handlers_' = Append(handlers_, h)
      BY <1>1 DEF AddHandler, PoolOf
    <2>2. Named'
      <3>1. CASE UNCHANGED handlers_
        BY <1>conf, <3>1, NamesFixed DEF Named
      <3>2. CASE \E h : h.pool = PoolOf(next) /\ handlers_' = Append(handlers_, h)
        <4>1. PICK h : h.pool = PoolOf(next) /\ handlers_' = Append(handlers_, h)
          BY <3>2
        <4>2. Sequence(handlers_) /\ Len(handlers_) = next - 1 /\ next \in 1 .. Len(conf.handlers) + 1
          BY <2>1 DEF Handled
        <4>3. Len(conf.handlers) \in Nat
          BY ConfigRead
        <4>4. next \in Nat /\ Len(handlers_) + 1 = next
          BY <4>2, <4>3
        <4>5. /\ DOMAIN handlers_ = 1 .. Len(handlers_) /\ DOMAIN handlers_' = 1 .. next
              /\ \A i \in 1 .. Len(handlers_) : handlers_'[i] = handlers_[i]
              /\ handlers_'[next] = h
          BY <4>1, <4>2, <4>4, SeqGrows
        <4>6. \A i \in DOMAIN handlers_' : i \in DOMAIN handlers_ \/ i = next
          BY <4>2, <4>3, <4>4, <4>5
        <4> QED BY <1>conf, <4>1, <4>5, <4>6, NamesFixed DEF Named
      <3> QED BY <2>1, <3>1, <3>2
    <2> QED BY <2>1, <2>2 DEF Placed
  <1>2. CASE initPool
    <2> DEFINE n == PoolName(next)
               p == conf.pools[next]
    <2>1. /\ phase = "pools" /\ next <= Len(conf.pools) /\ UNCHANGED handling
          /\ \/ phase' \in {"closing", "endless"}
             \/ /\ phase' = "pools" /\ next' = next + 1 /\ n \notin DOMAIN pools_
                /\ pools_' = IF n \in getPoolsNeeded THEN insert(pools_, n, p) ELSE pools_
      BY <1>2 DEF initPool, PoolName, pooling
    <2>2. Named'
      BY <1>conf, <2>1, NamesFixed DEF Named, handling
    <2>3. Placed'
      <3>1. CASE phase' \in {"closing", "endless"}
        BY <3>1 DEF Placed
      <3>2. CASE /\ phase' = "pools" /\ next' = next + 1 /\ n \notin DOMAIN pools_
                 /\ pools_' = IF n \in getPoolsNeeded THEN insert(pools_, n, p) ELSE pools_
        <4>1. next \in 1 .. Len(conf.pools) /\ next' \in 1 .. Len(conf.pools) + 1 /\ next' - 1 = next
          BY <1>len, <2>1, <3>2 DEF Placed
        <4>2. \A k \in 1 .. next : k \in 1 .. next - 1 \/ k = next
          BY <1>len, <4>1
        <4>3. next \in 1 .. next /\ \A k \in 1 .. next - 1 : k \in 1 .. next
          BY <1>len, <4>1
        <4>4. PlacedUpTo(next - 1)
          BY <2>1 DEF Placed
        <4>5. getPoolsNeeded' = getPoolsNeeded
          BY <2>1 DEF getPoolsNeeded, handling
        <4>6. \A q \in DOMAIN pools_ : q \in DOMAIN pools_' /\ pools_'[q] = pools_[q]
          BY <3>2 DEF insert
        <4>7. n \in getPoolsNeeded => n \in DOMAIN pools_' /\ pools_'[n] = p
          BY <3>2 DEF insert
        <4>8. \A q \in DOMAIN pools_' : q \in DOMAIN pools_ \/ q = n
          BY <3>2 DEF insert
        \* An entry before this one that a handler names has another name.
        <4>9. \A k \in 1 .. next - 1 : n \in getPoolsNeeded => PoolName(k) # n
          BY <3>2, <4>4 DEF PlacedUpTo
        <4> HIDE DEF n, p
        <4>10. \A k \in 1 .. next : PoolName(k) \in getPoolsNeeded =>
                 /\ PoolName(k) \in DOMAIN pools_' /\ pools_'[PoolName(k)] = conf.pools[k]
                 /\ \A j \in 1 .. next : PoolName(j) = PoolName(k) => j = k
          <5> SUFFICES ASSUME NEW k \in 1 .. next, PoolName(k) \in getPoolsNeeded
                       PROVE  /\ PoolName(k) \in DOMAIN pools_' /\ pools_'[PoolName(k)] = conf.pools[k]
                              /\ \A j \in 1 .. next : PoolName(j) = PoolName(k) => j = k
            OBVIOUS
          <5>1. CASE k = next
            BY <4>2, <4>7, <4>9, <5>1 DEF n, p
          <5>2. CASE k \in 1 .. next - 1
            <6>1. /\ PoolName(k) \in DOMAIN pools_ /\ pools_[PoolName(k)] = conf.pools[k]
                  /\ \A j \in 1 .. next - 1 : PoolName(j) = PoolName(k) => j = k
              BY <4>4, <5>2 DEF PlacedUpTo
            <6>2. PoolName(next) # PoolName(k)
              BY <3>2, <6>1 DEF n
            <6> QED BY <4>2, <4>6, <6>1, <6>2
          <5> QED BY <4>2, <5>1, <5>2
        <4>11. \A q \in DOMAIN pools_' : \E k \in 1 .. next : PoolName(k) = q
          BY <4>3, <4>4, <4>8 DEF PlacedUpTo, n
        <4>12. PlacedUpTo(next - 1)'
          <5>1. 1 .. next' - 1 = 1 .. next
            BY <4>1
          <5>2. conf' = conf /\ \A k : PoolName(k)' = PoolName(k)
            BY <1>conf, NamesFixed
          <5> QED BY <4>5, <4>10, <4>11, <5>1, <5>2 DEF PlacedUpTo
        <4> QED BY <1>conf, <3>2, <4>1, <4>12 DEF Placed
      <3> QED BY <2>1, <3>1, <3>2
    <2> QED BY <2>2, <2>3
  <1>3. CASE initLogger
    <2>1. /\ phase = "logger" /\ UNCHANGED <<handlers_, pooling>>
          /\ phase' = "closing" \/ (phase' = "pools" /\ next' = 1)
      BY <1>3 DEF initLogger
    <2>2. Named'
      BY <1>conf, <2>1, NamesFixed DEF Named
    <2>3. pools_' = <<>>
      BY <2>1 DEF Pooled, pooling
    <2>4. 1 \in 1 .. Len(conf.pools) + 1 /\ \A k \in 1 .. 1 - 1 : FALSE
      BY <1>len
    <2>5. next' = 1 => PlacedUpTo(next - 1)'
      BY <2>3, <2>4, Empty DEF PlacedUpTo
    <2> QED BY <1>conf, <2>1, <2>2, <2>4, <2>5 DEF Placed
  <1>4. CASE PoolsDone
    <2>1. /\ phase = "pools" /\ next > Len(conf.pools) /\ UNCHANGED <<handlers_, pools_>>
          /\ phase' \in {"start", "closing"}
      BY <1>4 DEF PoolsDone, own, handling, pooling
    <2>2. Named'
      BY <1>conf, <2>1, NamesFixed DEF Named
    <2>3. next - 1 = Len(conf.pools)
      BY <1>len, <2>1 DEF Placed
    <2>4. PlacedUpTo(Len(conf.pools))
      BY <2>1, <2>3 DEF Placed
    <2>5. PlacedUpTo(Len(conf.pools))'
      BY <1>conf, <2>1, <2>4, PlacedFixed
    <2> QED BY <2>1, <2>2, <2>5 DEF Placed
  <1>5. CASE StartPool \/ StartFails \/ Up
    <2>1. /\ phase = "start" /\ phase' \in {"start", "up", "closing"}
          /\ UNCHANGED <<handlers_, pools_>>
      BY <1>5 DEF StartPool, StartFails, Up, own, handling, pooling
    <2>2. Named'
      BY <1>conf, <2>1, NamesFixed DEF Named
    <2>3. PlacedUpTo(Len(conf.pools))'
      BY <1>conf, <2>1, PlacedFixed DEF Placed
    <2> QED BY <2>1, <2>2, <2>3 DEF Placed
  <1>6. CASE \/ ReadConfig \/ LoadModule \/ ModulesDone \/ add \/ AllAdded \/ LoadComponents
             \/ HandlersDone \/ Shutdown \/ DestroyComponents \/ CloseModule \/ Exit
    <2>1. UNCHANGED handlers_ /\ phase' \notin {"pools", "start", "up"}
      BY <1>6 DEF ReadConfig, LoadModule, ModulesDone, add, AllAdded, LoadComponents, HandlersDone,
                  Shutdown, DestroyComponents, CloseModule, Exit, own, handling
    <2>2. Named'
      BY <1>conf, <2>1, NamesFixed DEF Named
    <2> QED BY <2>1, <2>2 DEF Placed
  <1>7. CASE UNCHANGED svars
    <2>1. UNCHANGED <<phase, next, handlers_, pools_>>
      BY <1>7 DEF svars, own, handling, pooling
    <2>2. Named'
      BY <1>conf, <2>1, NamesFixed DEF Named
    <2>3. phase = "pools" => PlacedUpTo(next - 1)'
      BY <1>conf, <2>1, PlacedFixed DEF Placed
    <2>4. phase \in {"start", "up"} => PlacedUpTo(Len(conf.pools))'
      BY <1>conf, <2>1, PlacedFixed DEF Placed
    <2> QED BY <1>conf, <2>1, <2>2, <2>3, <2>4 DEF Placed
  <1> QED BY <1>1, <1>2, <1>3, <1>4, <1>5, <1>6, <1>7 DEF SNext, Starting, Closing

-----------------------------------------------------------------------------
(* What was read. *)

\* Nothing is read differently as long as the configuration is the same.
LEMMA ReadingsFixed ==
    ASSUME UNCHANGED conf
    PROVE  /\ \A i : Filters(conf.handlers[i])' = Filters(conf.handlers[i])
           /\ \A i : HandlerReading(conf.handlers[i])' = HandlerReading(conf.handlers[i])
           /\ \A i : Endless(conf.pools[i].name)' = Endless(conf.pools[i].name)
           /\ Sizes' = Sizes /\ Positive' = Positive
  <1>1. Turn' = Turn
    <2>1. vars_' = vars_
      BY DEF vars_
    <2> QED BY <2>1 DEF Turn, Refs
  <1>2. ASSUME NEW t PROVE resolveVariables(t)' = resolveVariables(t)
    BY <1>1 DEF resolveVariables
  <1>3. ASSUME NEW t, NEW d PROVE asStringOr(t, d)' = asStringOr(t, d) /\ Endless(t)' = Endless(t)
    BY <1>2 DEF asStringOr, Endless, Throw, Refs
  <1>4. ASSUME NEW f PROVE Reading(f)' = Reading(f)
    BY <1>3 DEF Reading, BadRegex
  <1>5. ASSUME NEW h PROVE Filters(h)' = Filters(h)
    BY <1>3 DEF Filters, Filter
  <1>6. ASSUME NEW h PROVE HandlerReading(h)' = HandlerReading(h)
    BY <1>2, <1>4 DEF HandlerReading, Throw, Refs, Implements, Components
  <1>7. \A i : Filters(conf.handlers[i])' = Filters(conf.handlers[i])
    BY <1>5
  <1>8. \A i : HandlerReading(conf.handlers[i])' = HandlerReading(conf.handlers[i])
    BY <1>6
  <1>9. \A i : Endless(conf.pools[i].name)' = Endless(conf.pools[i].name)
    BY <1>3
  <1>10. Sizes' = Sizes
    BY DEF Sizes, SizeOf
  <1>11. Positive' = Positive
    BY DEF Positive, SizeOf
  <1> QED BY <1>7, <1>8, <1>9, <1>10, <1>11

\* What a step leaves alone stays as it was read.
LEMMA FilteredFixed ==
    ASSUME UNCHANGED <<conf, handlers_>>, Filtered
    PROVE  Filtered'
  BY ReadingsFixed DEF Filtered

\* So does the counter of the pools.
LEMMA CountedFixed ==
    ASSUME UNCHANGED <<conf, counter>>, NEW n, CountedUpTo(n)
    PROVE  CountedUpTo(n)'
  <1>1. Throw' = Throw
    BY DEF Throw
  <1> QED BY <1>1, ReadingsFixed, NamesFixed DEF CountedUpTo

\* The pools of a configuration and their sizes.
LEMMA PoolFacts ==
    ASSUME Created
    PROVE  /\ Len(conf.pools) \in Nat /\ DOMAIN conf.pools = 1 .. Len(conf.pools)
           /\ \A k \in 1 .. Len(conf.pools) :
                /\ conf.pools[k].name \in Text /\ conf.pools[k].threads \in Int
                /\ conf.pools[k].queue \in Int /\ SizeOf(k) \in Int /\ SizeOf(k) < Modulus \div 2
           /\ Sizes[0] = 0
           /\ \A k \in 1 .. Len(conf.pools) : Sizes[k] = Sizes[k - 1] + SizeOf(k)
           /\ \A k \in 0 .. Len(conf.pools) : Sizes[k] \in Int
  <1>1. PICK family \in Configs : conf \in family
    BY DEF Created
  <1>2. /\ conf.pools \in Seq(ToSet(conf.pools))
        /\ \A i \in DOMAIN conf.pools :
             /\ conf.pools[i].name \in Text /\ conf.pools[i].threads \in Int /\ conf.pools[i].queue \in Int
             /\ conf.pools[i].threads + conf.pools[i].queue < Modulus \div 2
    BY <1>1, ConfigsAssumption
  <1> DEFINE k == Len(conf.pools)
             F == [n \in 1 .. k |-> [x \in Int |-> x + SizeOf(n)]]
  <1>3. k \in Nat /\ DOMAIN conf.pools = 1 .. k
    BY <1>2, LenProperties
  <1>4. \A n \in 1 .. k : SizeOf(n) \in Int /\ SizeOf(n) < Modulus \div 2
    BY <1>2, <1>3 DEF SizeOf
  <1> HIDE DEF k
  <1>5. F \in Steps(k, Int)
    BY <1>4 DEF Steps
  <1>6. PICK g : Iterates(g, k, Int, 0, F)
    <2>1. 0 \in Int
      OBVIOUS
    <2> HIDE DEF F
    <2> QED BY <1>3, <1>5, <2>1, Recursion, Zenon
  <1>7. \A n \in 1 .. k : n - 1 \in 0 .. k /\ n # 0 /\ n \in 0 .. k
    BY <1>3
  <1>8. g = [n \in 0 .. k |-> IF n = 0 THEN 0 ELSE g[n - 1] + SizeOf(n)]
    <2>1. g = [n \in 0 .. k |-> g[n]] /\ g[0] = 0
      BY <1>6 DEF Iterates
    <2>2. ASSUME NEW n \in 1 .. k PROVE g[n] = g[n - 1] + SizeOf(n)
      <3>1. g[n - 1] \in Int /\ g[n] = F[n][g[n - 1]]
        BY <1>6, <1>7 DEF Iterates
      <3> QED BY <3>1
    <2>3. \A n \in 0 .. k : n = 0 \/ n \in 1 .. k
      BY <1>3
    <2>4. \A n \in 0 .. k : g[n] = IF n = 0 THEN 0 ELSE g[n - 1] + SizeOf(n)
      BY <2>1, <2>2, <2>3
    <2> QED BY <2>1, <2>4
  <1>9. Sizes = [n \in 0 .. k |-> IF n = 0 THEN 0 ELSE Sizes[n - 1] + SizeOf(n)]
    BY <1>8, Zenon DEF Sizes, k
  <1>10. Sizes[0] = 0 /\ \A n \in 1 .. k : Sizes[n] = Sizes[n - 1] + SizeOf(n)
    <2>1. \A n \in 0 .. k : Sizes[n] = IF n = 0 THEN 0 ELSE Sizes[n - 1] + SizeOf(n)
      BY <1>9
    <2>2. 0 \in 0 .. k
      BY <1>3
    <2> QED BY <1>7, <2>1, <2>2
  <1>11. Sizes \in [0 .. k -> Int]
    <2>1. DOMAIN Sizes = 0 .. k /\ Sizes = [n \in 0 .. k |-> Sizes[n]]
      BY <1>9
    <2>2. \A n \in 1 .. k : Sizes[n - 1] \in Int => Sizes[n] \in Int
      BY <1>4, <1>10
    <2>3. Sizes[0] \in Int
      BY <1>10
    <2> QED BY <1>3, <2>1, <2>2, <2>3, RecursionType
  <1> QED BY <1>2, <1>3, <1>4, <1>10, <1>11 DEF k

\* Every step of the daemon keeps what it has read.
LEMMA NextRInv == SInv /\ PInv /\ RInv /\ [SNext]_svars => RInv'
  <1> SUFFICES ASSUME SInv, PInv, RInv, [SNext]_svars PROVE RInv'
    OBVIOUS
  <1> USE DEF SInv, PInv, RInv
  <1> USE DEF Enter, Fail, Hang, Step
  <1>len. Len(conf.pools) \in Nat
    BY PoolFacts
  <1>conf. UNCHANGED conf
    BY DEF SNext, Starting, Closing, svars, ReadConfig, LoadModule, ModulesDone, add, AllAdded,
           LoadComponents, AddHandler, HandlersDone, initLogger, initPool, PoolsDone, StartPool,
           StartFails, Up, Shutdown, DestroyComponents, CloseModule, Exit
  <1>1. CASE AddHandler
    <2> DEFINE h == conf.handlers[next]
    <2>1. /\ phase = "handlers" /\ phase' \in {"handlers", "closing", "endless"}
          /\ next <= Len(conf.handlers) /\ UNCHANGED counter
          /\ \/ UNCHANGED handlers_
             \/ /\ HandlerReading(h) = "fine"
                /\ \E d : d.filters = Filters(h) /\ handlers_' = Append(handlers_, d)
      BY <1>1 DEF AddHandler, pooling
    <2>2. Filtered'
      <3>1. CASE UNCHANGED handlers_
        BY <1>conf, <3>1, FilteredFixed
      <3>2. CASE /\ HandlerReading(h) = "fine"
                 /\ \E d : d.filters = Filters(h) /\ handlers_' = Append(handlers_, d)
        <4>1. PICK d : d.filters = Filters(h) /\ handlers_' = Append(handlers_, d)
          BY <3>2
        <4>2. Sequence(handlers_) /\ Len(handlers_) = next - 1 /\ next \in 1 .. Len(conf.handlers) + 1
          BY <2>1 DEF Handled
        <4>3. Len(conf.handlers) \in Nat
          BY ConfigRead
        <4>4. next \in Nat /\ Len(handlers_) + 1 = next
          BY <4>2, <4>3
        <4>5. /\ DOMAIN handlers_ = 1 .. Len(handlers_) /\ DOMAIN handlers_' = 1 .. next
              /\ \A i \in 1 .. Len(handlers_) : handlers_'[i] = handlers_[i]
              /\ handlers_'[next] = d
          BY <4>1, <4>2, <4>4, SeqGrows
        <4>6. \A i \in DOMAIN handlers_' : i \in DOMAIN handlers_ \/ i = next
          BY <4>2, <4>3, <4>4, <4>5
        <4>7. \A i \in DOMAIN handlers_' :
                /\ handlers_'[i].filters = Filters(conf.handlers[i])
                /\ HandlerReading(conf.handlers[i]) = "fine"
          BY <3>2, <4>1, <4>5, <4>6 DEF Filtered
        <4> QED BY <1>conf, <4>7, ReadingsFixed DEF Filtered
      <3> QED BY <2>1, <3>1, <3>2
    <2>3. Counted'
      BY <2>1 DEF Counted
    <2> QED BY <2>2, <2>3
  <1>2. CASE initPool
    <2> DEFINE p == conf.pools[next]
               sum == (counter + p.threads + p.queue) % Modulus
    <2>1. /\ phase = "pools" /\ next <= Len(conf.pools) /\ UNCHANGED handlers_
          /\ \/ phase' \in {"closing", "endless"}
             \/ /\ phase' = "pools" /\ next' = next + 1
                /\ PoolName(next) # Throw /\ ~Endless(p.name)
                /\ counter' = sum /\ sum <= MaxTasks
      BY <1>2 DEF initPool, PoolName, pooling, handling
    <2>2. Filtered'
      BY <1>conf, <2>1, FilteredFixed
    <2>3. Counted'
      <3>1. CASE phase' \in {"closing", "endless"}
        BY <3>1 DEF Counted
      <3>2. CASE /\ phase' = "pools" /\ next' = next + 1
                 /\ PoolName(next) # Throw /\ ~Endless(p.name)
                 /\ counter' = sum /\ sum <= MaxTasks
        <4>1. next \in 1 .. Len(conf.pools) /\ next' - 1 = next /\ next - 1 \in 0 .. Len(conf.pools)
          BY <1>len, <2>1, <3>2 DEF Placed
        <4>2. \A k \in 1 .. next : k \in 1 .. next - 1 \/ k = next
          BY <1>len, <4>1
        <4>3. CountedUpTo(next - 1)
          BY <2>1 DEF Counted
        <4>4. \A k \in 1 .. next : PoolName(k) # Throw /\ ~Endless(conf.pools[k].name)
          BY <3>2, <4>2, <4>3 DEF CountedUpTo
        <4>5. ASSUME Positive PROVE counter' = Sizes[next] /\ counter' \in 0 .. MaxTasks
          <5>1. /\ p.threads \in Int /\ p.queue \in Int /\ SizeOf(next) = p.threads + p.queue
                /\ SizeOf(next) < Modulus \div 2 /\ SizeOf(next) >= 0
                /\ Sizes[next] = Sizes[next - 1] + SizeOf(next)
            BY <4>1, <4>5, PoolFacts DEF Positive, SizeOf
          <5>2. counter = Sizes[next - 1] /\ counter \in 0 .. MaxTasks
            BY <4>3, <4>5 DEF CountedUpTo
          <5> HIDE DEF p
          <5>3. /\ MaxTasks \in Nat /\ Modulus \in Nat /\ MaxTasks < Modulus \div 2
            BY BoundsAssumption
          <5>4. counter + p.threads + p.queue \in Nat /\ counter + p.threads + p.queue < Modulus
            BY <5>1, <5>2, <5>3
          <5>5. sum = counter + p.threads + p.queue
            BY <5>3, <5>4
          <5> QED BY <3>2, <5>1, <5>2, <5>3, <5>4, <5>5
        <4>6. CountedUpTo(next - 1)'
          <5>1. Throw' = Throw
            BY DEF Throw
          <5>2. CountedUpTo(next - 1)' <=>
                  /\ \A k \in 1 .. next : PoolName(k) # Throw /\ ~Endless(conf.pools[k].name)
                  /\ Positive => counter' = Sizes[next] /\ counter' \in 0 .. MaxTasks
            BY <1>conf, <4>1, <5>1, ReadingsFixed, NamesFixed DEF CountedUpTo
          <5> QED BY <4>4, <4>5, <5>2
        <4> QED BY <3>2, <4>6 DEF Counted
      <3> QED BY <2>1, <3>1, <3>2
    <2> QED BY <2>2, <2>3
  <1>3. CASE initLogger
    <2>1. /\ phase = "logger" /\ UNCHANGED <<handlers_, counter>>
          /\ phase' = "closing" \/ (phase' = "pools" /\ next' = 1)
      BY <1>3 DEF initLogger, pooling
    <2>2. Filtered'
      BY <1>conf, <2>1, FilteredFixed
    <2>3. counter = 0 /\ Sizes[0] = 0 /\ 0 \in 0 .. MaxTasks /\ \A k \in 1 .. 0 : FALSE
      BY <2>1, PoolFacts, BoundsAssumption DEF Counted
    <2>4. CountedUpTo(0)
      BY <2>3 DEF CountedUpTo
    <2>5. CountedUpTo(0)'
      BY <1>conf, <2>1, <2>4, CountedFixed
    <2> QED BY <2>1, <2>2, <2>5 DEF Counted
  <1>4. CASE PoolsDone
    <2>1. /\ phase = "pools" /\ next > Len(conf.pools) /\ UNCHANGED <<handlers_, counter>>
          /\ phase' \in {"start", "closing"}
      BY <1>4 DEF PoolsDone, own, handling, pooling
    <2>2. Filtered'
      BY <1>conf, <2>1, FilteredFixed
    <2>3. next - 1 = Len(conf.pools)
      BY <1>len, <2>1 DEF Placed
    <2>4. CountedUpTo(Len(conf.pools))
      BY <2>1, <2>3 DEF Counted
    <2>5. CountedUpTo(Len(conf.pools))'
      BY <1>conf, <2>1, <2>4, CountedFixed
    <2> QED BY <2>1, <2>2, <2>5 DEF Counted
  <1>5. CASE StartPool \/ StartFails \/ Up
    <2>1. /\ phase = "start" /\ phase' \in {"start", "up", "closing"}
          /\ UNCHANGED <<handlers_, counter>>
      BY <1>5 DEF StartPool, StartFails, Up, own, handling, pooling
    <2>2. Filtered'
      BY <1>conf, <2>1, FilteredFixed
    <2>3. CountedUpTo(Len(conf.pools))'
      BY <1>conf, <2>1, CountedFixed DEF Counted
    <2> QED BY <2>1, <2>2, <2>3 DEF Counted
  <1>6. CASE \/ ReadConfig \/ LoadModule \/ ModulesDone \/ add \/ AllAdded \/ LoadComponents
             \/ HandlersDone \/ Shutdown \/ DestroyComponents \/ CloseModule \/ Exit
    <2>1. /\ UNCHANGED <<handlers_, counter>> /\ phase' \notin {"pools", "start", "up"}
          /\ \/ phase \notin {"pools", "start", "up", "closing", "exit", "endless"}
             \/ phase' \in {"closing", "exit"}
      BY <1>6 DEF ReadConfig, LoadModule, ModulesDone, add, AllAdded, LoadComponents, HandlersDone,
                  Shutdown, DestroyComponents, CloseModule, Exit, own, handling, pooling
    <2>2. Filtered'
      BY <1>conf, <2>1, FilteredFixed
    <2> QED BY <2>1, <2>2 DEF Counted
  <1>7. CASE UNCHANGED svars
    <2>1. UNCHANGED <<phase, next, handlers_, counter>>
      BY <1>7 DEF svars, own, handling, pooling
    <2>2. Filtered'
      BY <1>conf, <2>1, FilteredFixed
    <2>3. phase = "pools" => CountedUpTo(next - 1)'
      BY <1>conf, <2>1, CountedFixed DEF Counted
    <2>4. phase \in {"start", "up"} => CountedUpTo(Len(conf.pools))'
      BY <1>conf, <2>1, CountedFixed DEF Counted
    <2> QED BY <1>conf, <2>1, <2>2, <2>3, <2>4 DEF Counted
  <1> QED BY <1>1, <1>2, <1>3, <1>4, <1>5, <1>6, <1>7 DEF SNext, Starting, Closing

\* Nothing is read before the start.
LEMMA InitRInv == SInit => PInv /\ RInv
  <1> SUFFICES ASSUME SInit PROVE PInv /\ RInv
    OBVIOUS
  <1>1. phase = "config" /\ handlers_ = <<>> /\ counter = 0
    BY DEF SInit
  <1>2. PInv
    BY <1>1, Empty DEF PInv, Named, Placed
  <1>3. RInv
    BY <1>1, Empty DEF RInv, Filtered, Counted
  <1> QED BY <1>2, <1>3

\* All that the daemon has read, in every state.
THEOREM RInvariance == SSpec => [](SInv /\ PInv /\ RInv)
  BY InitSInv, NextSInv, InitRInv, NextPInv, NextRInv, PTL DEF SSpec

-----------------------------------------------------------------------------
(* What the invariants say of the daemon. *)

\* For every configuration the variables of the component set keep their types.
THEOREM StartTypeCorrect == SSpec => []TypeOK
  BY UsesComponentSet, TypeCorrect, PTL

\* For every configuration, no component of the daemon holds a pointer to one that
\* is not loaded, also while a start-up that failed is taken back.
THEOREM StartPointersAlive == SSpec => []DependenciesAlive
  BY UsesComponentSet, PointersAlive, PTL

\* For every configuration, onLoad of a component is called at most once.
THEOREM StartOneOnLoad == SSpec => []LoadedOnce
  BY UsesComponentSet, AtMostOneOnLoad, PTL

\* No component outlives the module its code is in, wherever the start-up breaks
\* off: Globals destroys its component set before its loader.
THEOREM CodeStaysMapped == SSpec => []CodeMapped
  <1>1. SInv => CodeMapped
    <2> SUFFICES ASSUME SInv, NEW c \in DOMAIN components_
                 PROVE  components_[c][1] \in ToSet(handles)
      BY DEF CodeMapped
    <2>1. mode # "gone"
      BY Empty DEF SInv, Mapped
    <2> QED BY <2>1 DEF SInv, Mapped
  <1> QED BY <1>1, SInvariance, PTL

\* A daemon that is up has created and loaded every component, its logger is a
\* Logger and what its pools call is a Handler.
THEOREM UpHasComponents == SSpec => []ComponentsUp
  <1>1. ASSUME SInv, TypeOK, mode = "up" => \A c \in Components : Loaded(c)
        PROVE  ComponentsUp
    <2> SUFFICES ASSUME phase = "up" PROVE ComponentsUp
      BY DEF ComponentsUp
    <2> USE <1>1 DEF SInv
    <2>1. ToSet(loaded) = Components
      <3>1. Components \subseteq ToSet(loaded)
        BY DEF Phases, Loaded
      <3>2. loaded \in Seq(Components)
        BY DEF TypeOK
      <3>3. ToSet(loaded) \subseteq Components
        BY <3>2, LenProperties, ElementOfSeq DEF ToSet
      <3> QED BY <3>1, <3>3
    <2>2. DOMAIN components_ = Components
      BY DEF Created
    <2>3. Implements(logger_, "logger")
      BY DEF Handled
    <2>4. ASSUME NEW p \in DOMAIN running, NEW c \in running[p]
          PROVE  Implements(c, "handler")
      <3>1. c \in findPoolHandlers(p)
        BY <2>4 DEF Pooled
      <3>2. \E i \in DOMAIN handlers_ : c \in handlers_[i].handlers
        BY <3>1 DEF findPoolHandlers
      <3> QED BY <3>2 DEF Handled
    <2> QED BY <2>1, <2>2, <2>3, <2>4 DEF ComponentsUp
  <1> QED BY <1>1, SInvariance, UsesComponentSet, NonePassedOver, TypeCorrect, PTL

\* In a daemon that is up every handler of the configuration has its pool, whose
\* threads have called onThreadStart of the handler's components.
THEOREM UpServesHandlers == SSpec => []HandlersServed
  <1>1. ASSUME SInv PROVE HandlersServed
    <2> SUFFICES ASSUME phase = "up" PROVE HandlersServed
      BY DEF HandlersServed
    <2> USE <1>1 DEF SInv
    <2>1. Len(handlers_) = Len(conf.handlers)
      BY DEF Handled
    <2>2. ASSUME NEW d \in DOMAIN handlers_
          PROVE  /\ handlers_[d].pool \in DOMAIN running
                 /\ ToSet(conf.handlers[d].components) \subseteq running[handlers_[d].pool]
      <3>1. handlers_[d].pool \in getPoolsNeeded
        BY DEF getPoolsNeeded
      <3>2. handlers_[d].pool \in DOMAIN running
        BY <3>1 DEF Pooled
      <3>3. running[handlers_[d].pool] = findPoolHandlers(handlers_[d].pool)
        BY <3>2 DEF Pooled
      <3>4. handlers_[d].handlers \subseteq findPoolHandlers(handlers_[d].pool)
        BY DEF findPoolHandlers
      <3>5. handlers_[d].handlers = ToSet(conf.handlers[d].components)
        BY DEF Handled
      <3> QED BY <3>2, <3>3, <3>4, <3>5
    <2> QED BY <2>1, <2>2 DEF HandlersServed
  <1> QED BY <1>1, SInvariance, PTL

\* The pools that run are those the handlers name; initPools took each from the
\* one entry with its name, for a name that comes twice makes it fail.
THEOREM UpPoolsAsRead == SSpec => []PoolsRead
  <1>1. SInit => PInv
    <2> SUFFICES ASSUME SInit PROVE PInv
      OBVIOUS
    <2>1. phase = "config" /\ handlers_ = <<>>
      BY DEF SInit
    <2> QED BY <2>1, Empty DEF PInv, Named, Placed
  <1>2. SInv /\ PInv => PoolsRead
    <2> SUFFICES ASSUME SInv, PInv, phase = "up" PROVE PoolsRead
      BY DEF PoolsRead
    <2> USE DEF SInv, PInv
    <2>1. PICK family \in Configs : conf \in family
      BY DEF Created
    <2>2. DOMAIN conf.pools = 1 .. Len(conf.pools)
      BY <2>1, ConfigsAssumption, LenProperties
    <2>3. DOMAIN handlers_ = DOMAIN conf.handlers
      <3>1. Sequence(handlers_) /\ Len(handlers_) = Len(conf.handlers)
        BY DEF Handled
      <3>2. DOMAIN handlers_ = 1 .. Len(handlers_)
        BY <3>1, SeqGrows
      <3> QED BY <3>1, <3>2, ConfigRead
    <2>4. getPoolsNeeded = {PoolOf(i) : i \in DOMAIN conf.handlers}
      BY <2>3 DEF getPoolsNeeded, Named
    <2>5. DOMAIN running = getPoolsNeeded /\ DOMAIN pools_ = getPoolsNeeded
      BY DEF Pooled
    <2>6. PlacedUpTo(Len(conf.pools))
      BY DEF Placed
    <2>7. ASSUME NEW n \in DOMAIN running
          PROVE  \E k \in DOMAIN conf.pools :
                   /\ PoolName(k) = n /\ pools_[n] = conf.pools[k]
                   /\ \A j \in DOMAIN conf.pools : PoolName(j) = n => j = k
      <3>1. PICK k \in 1 .. Len(conf.pools) : PoolName(k) = n
        BY <2>5, <2>6, <2>7 DEF PlacedUpTo
      <3>2. pools_[n] = conf.pools[k] /\ \A j \in 1 .. Len(conf.pools) : PoolName(j) = n => j = k
        BY <2>5, <2>6, <2>7, <3>1 DEF PlacedUpTo
      <3> QED BY <2>2, <3>1, <3>2
    <2> QED BY <2>4, <2>5, <2>7 DEF PoolsRead
  <1> QED BY <1>1, <1>2, NextPInv, SInvariance, PTL DEF SSpec

\* A name or a filter that was read to its end was read as what it means.
LEMMA ReadMeaning ==
    ASSUME TextsDefined, NEW t \in Text, ~Endless(t)
    PROVE  /\ resolveVariables(t) # Throw => resolveVariables(t) = Meaning(t)
           /\ asStringOr(t, <<>>) = IF Refs(Meaning(t)) = {} THEN Meaning(t) ELSE <<>>
  <1>1. resolveVariables(t) = IF Refs(Meaning(t)) = {} THEN Meaning(t) ELSE Throw
    BY ResolvesMeaning
  <1>2. Meaning(t) \in Text
    BY MeaningSolves, ExpandType DEF Meaning
  <1>3. Meaning(t) # Throw
    BY <1>2, ThrowFacts
  <1> QED BY <1>1, <1>3 DEF asStringOr

\* What a handler that was read to its end says of its pool and its filters.
LEMMA FineHandler ==
    ASSUME NEW h, HandlerReading(h) = "fine"
    PROVE  /\ resolveVariables(h.pool) # Throw /\ ~Endless(h.pool)
           /\ \A k \in DOMAIN h.filters :
                (h.filters[k].kind = "param" /\ h.filters[k].name = "") \/ ~Endless(h.filters[k].text)
  <1>1. /\ resolveVariables(h.pool) # Throw /\ Refs(resolveVariables(h.pool)) = {}
        /\ \A k \in DOMAIN h.filters : Reading(h.filters[k]) = "fine"
    BY DEF HandlerReading
  <1>2. ASSUME NEW k \in DOMAIN h.filters
        PROVE (h.filters[k].kind = "param" /\ h.filters[k].name = "") \/ ~Endless(h.filters[k].text)
    <2>1. Reading(h.filters[k]) = "fine"
      BY <1>1
    <2> QED BY <2>1 DEF Reading
  <1> QED BY <1>1, <1>2 DEF Endless

\* What the handlers and pools of a configuration are.
LEMMA ConfigTexts ==
    ASSUME Created
    PROVE  /\ TextsDefined
           /\ DOMAIN conf.handlers = 1 .. Len(conf.handlers) /\ Len(conf.handlers) \in Nat
           /\ \A i \in DOMAIN conf.handlers :
                /\ conf.handlers[i].pool \in Text
                /\ \A k \in DOMAIN conf.handlers[i].filters : conf.handlers[i].filters[k].text \in Text
  <1>1. PICK family \in Configs : conf \in family
    BY DEF Created
  <1>2. \A i \in DOMAIN conf.handlers :
          /\ conf.handlers[i].pool \in Text
          /\ \A k \in DOMAIN conf.handlers[i].filters : conf.handlers[i].filters[k].text \in Text
    BY <1>1, ConfigsAssumption
  <1> QED BY <1>1, <1>2, ConfDefined, ConfigRead

\* A daemon that is up has read all its handlers.
LEMMA UpHandlers ==
    ASSUME SInv, phase = "up"
    PROVE  DOMAIN handlers_ = DOMAIN conf.handlers
  <1>1. Sequence(handlers_) /\ Len(handlers_) = Len(conf.handlers)
    BY DEF SInv, Handled
  <1>2. DOMAIN handlers_ = 1 .. Len(handlers_)
    BY <1>1, SeqGrows
  <1> QED BY <1>1, <1>2, ConfigRead DEF SInv

\* The pools of a daemon that is up are those of the configuration with its
\* variables replaced, one entry for each, and their threads and places are
\* together within the limit: the counter never wrapped.
THEOREM UpPoolsAsConfigured == SSpec => []PoolsUp
  <1>1. SInv /\ PInv /\ RInv /\ PoolsRead => PoolsUp
    <2> SUFFICES ASSUME SInv, PInv, RInv, PoolsRead, phase = "up" PROVE PoolsUp
      BY DEF PoolsUp
    <2> DEFINE named == {Meaning(conf.handlers[i].pool) : i \in DOMAIN conf.handlers}
               places(n) == {i \in DOMAIN conf.pools : Meaning(conf.pools[i].name) = n}
    <2>0. Created /\ Filtered /\ CountedUpTo(Len(conf.pools))
      BY DEF SInv, RInv, Counted
    <2>1. \A i \in DOMAIN conf.handlers : Meaning(conf.handlers[i].pool) = PoolOf(i)
      <3> SUFFICES ASSUME NEW i \in DOMAIN conf.handlers
                   PROVE  Meaning(conf.handlers[i].pool) = PoolOf(i)
        OBVIOUS
      <3>1. HandlerReading(conf.handlers[i]) = "fine"
        BY <2>0, UpHandlers DEF Filtered
      <3>2. resolveVariables(conf.handlers[i].pool) # Throw /\ ~Endless(conf.handlers[i].pool)
        BY <3>1, FineHandler
      <3>3. conf.handlers[i].pool \in Text /\ TextsDefined
        BY <2>0, ConfigTexts
      <3> QED BY <3>2, <3>3, ReadMeaning DEF PoolOf
    <2>2. DOMAIN conf.pools = 1 .. Len(conf.pools)
      BY <2>0, PoolFacts
    <2>3. \A k \in DOMAIN conf.pools : Meaning(conf.pools[k].name) = PoolName(k)
      <3> SUFFICES ASSUME NEW k \in DOMAIN conf.pools
                   PROVE  Meaning(conf.pools[k].name) = PoolName(k)
        OBVIOUS
      <3>1. PoolName(k) # Throw /\ ~Endless(conf.pools[k].name)
        BY <2>0, <2>2 DEF CountedUpTo
      <3>2. conf.pools[k].name \in Text /\ TextsDefined
        BY <2>0, <2>2, PoolFacts, ConfigTexts
      <3> QED BY <3>1, <3>2, ReadMeaning DEF PoolName
    <2>4. DOMAIN running = named
      BY <2>1 DEF PoolsRead
    <2>5. ASSUME NEW n \in named PROVE Cardinality(places(n)) = 1
      <3>1. PICK k \in DOMAIN conf.pools :
              PoolName(k) = n /\ \A j \in DOMAIN conf.pools : PoolName(j) = n => j = k
        BY <2>4 DEF PoolsRead
      <3>2. places(n) = {k}
        BY <2>3, <3>1
      <3> QED BY <3>2, FS_Singleton
    <2>6. Positive => Sizes[Len(conf.pools)] <= MaxTasks
      BY <2>0, BoundsAssumption DEF CountedUpTo
    <2> QED BY <2>4, <2>5, <2>6 DEF PoolsUp, Positive
  <1> QED BY <1>1, RInvariance, UpPoolsAsRead, PTL

\* A daemon that is up is complete: its components, handlers and logger, and its
\* pools, read from texts in which variables were replaced.
THEOREM UpIsComplete == SSpec => []UpComplete
  <1>1. ComponentsUp /\ PoolsRead /\ PoolsUp => UpComplete
    BY DEF UpComplete
  <1> QED BY <1>1, UpHasComponents, UpPoolsAsRead, UpPoolsAsConfigured, PTL

\* The filters of a handler that was read to its end are the filters of its
\* entry that say something.
LEMMA FiltersPass ==
    ASSUME TextsDefined, NEW h, HandlerReading(h) = "fine",
           \A k \in DOMAIN h.filters : h.filters[k].text \in Text, NEW r
    PROVE  (\A f \in Filters(h) : check(f, r)) <=> Passes(h, r)
  <1> DEFINE value(k) == asStringOr(h.filters[k].text, <<>>)
             kept == {k \in DOMAIN h.filters :
                        value(k) # <<>> /\ (h.filters[k].kind = "param" => h.filters[k].name # "")}
  <1>1. Filters(h) = {Filter(h.filters[k], value(k)) : k \in kept}
    BY DEF Filters
  <1>2. ASSUME NEW k \in DOMAIN h.filters
        PROVE  /\ k \in kept <=> Sound(h.filters[k])
               /\ k \in kept => value(k) = Meaning(h.filters[k].text)
    <2>1. CASE h.filters[k].kind = "param" /\ h.filters[k].name = ""
      BY <2>1 DEF Sound
    <2>2. CASE ~(h.filters[k].kind = "param" /\ h.filters[k].name = "")
      <3>1. ~Endless(h.filters[k].text) /\ h.filters[k].text \in Text
        BY <2>2, FineHandler
      <3>2. value(k) = IF Refs(Meaning(h.filters[k].text)) = {} THEN Meaning(h.filters[k].text) ELSE <<>>
        BY <3>1, ReadMeaning
      <3> HIDE DEF value
      <3> QED BY <2>2, <3>2 DEF Sound
    <2> QED BY <2>1, <2>2
  <1> HIDE DEF value, kept
  <1>3. kept \subseteq DOMAIN h.filters
    BY DEF kept
  <1>4. (\A f \in Filters(h) : check(f, r)) <=> \A k \in kept : check(Filter(h.filters[k], value(k)), r)
    BY <1>1
  <1> QED BY <1>2, <1>3, <1>4 DEF Passes

\* A request goes to the first handler of the configuration whose filters, with
\* their variables replaced, all let it pass, and to none if there is no such.
THEOREM FirstMatchTaken == SSpec => []FirstMatch
  <1>1. SInv /\ PInv /\ RInv => FirstMatch
    <2> SUFFICES ASSUME SInv, RInv, phase = "up", NEW r \in Requests
                 PROVE  LET d == findURIHandler(r)
                        IN  /\ d = 0 => \A i \in DOMAIN conf.handlers : ~Passes(conf.handlers[i], r)
                            /\ d > 0 => /\ Passes(conf.handlers[d], r)
                                        /\ \A i \in 1 .. d - 1 : ~Passes(conf.handlers[i], r)
      BY DEF FirstMatch
    <2> DEFINE T == matching(r)
               d == findURIHandler(r)
    <2>0. Created /\ Filtered /\ DOMAIN handlers_ = DOMAIN conf.handlers
      BY UpHandlers DEF SInv, RInv
    <2>1. DOMAIN conf.handlers = 1 .. Len(conf.handlers) /\ Len(conf.handlers) \in Nat
      BY <2>0, ConfigTexts
    <2>2. \A i \in DOMAIN conf.handlers : i \in T <=> Passes(conf.handlers[i], r)
      <3> SUFFICES ASSUME NEW i \in DOMAIN conf.handlers
                   PROVE  i \in T <=> Passes(conf.handlers[i], r)
        OBVIOUS
      <3>1. handlers_[i].filters = Filters(conf.handlers[i]) /\ HandlerReading(conf.handlers[i]) = "fine"
        BY <2>0 DEF Filtered
      <3>2. TextsDefined /\ \A k \in DOMAIN conf.handlers[i].filters : conf.handlers[i].filters[k].text \in Text
        BY <2>0, ConfigTexts
      <3>3. (\A f \in Filters(conf.handlers[i]) : check(f, r)) <=> Passes(conf.handlers[i], r)
        BY <3>1, <3>2, FiltersPass
      <3>4. i \in T <=> \A f \in handlers_[i].filters : check(f, r)
        BY <2>0 DEF matching
      <3> QED BY <3>1, <3>3, <3>4
    <2>3. T \subseteq 1 .. Len(conf.handlers)
      BY <2>0, <2>1 DEF matching
    <2>4. d = IF T = {} THEN 0 ELSE Min(T)
      BY DEF findURIHandler
    <2> HIDE DEF T, d
    <2>5. CASE T = {}
      BY <2>2, <2>4, <2>5 DEF d
    <2>6. CASE T # {}
      <3>1. T \in SUBSET Nat
        BY <2>1, <2>3
      <3>2. \E x \in T : \A y \in T : x <= y
        BY <2>6, <3>1, LeastNumber
      <3>3. Min(T) \in T /\ \A y \in T : Min(T) <= y
        BY <3>2, Zenon DEF Min
      <3>4. d \in T /\ d \in 1 .. Len(conf.handlers) /\ \A y \in T : d <= y
        BY <2>3, <2>4, <2>6, <3>3
      <3>5. \A i \in 1 .. d - 1 : i \in DOMAIN conf.handlers /\ i \notin T
        BY <2>1, <2>3, <3>1, <3>4
      <3> QED BY <2>1, <2>2, <3>4, <3>5 DEF d
    <2> QED BY <2>5, <2>6
  <1> QED BY <1>1, RInvariance, PTL

\* Requests are dispatched as the configuration says, to pools that run and have
\* called onThreadStart of the components that will handle them.
THEOREM DispatchesAsConfigured == SSpec => []DispatchAsConfigured
  <1>1. FirstMatch /\ HandlersServed => DispatchAsConfigured
    BY DEF DispatchAsConfigured
  <1> QED BY <1>1, FirstMatchTaken, UpServesHandlers, PTL

==============================================================================
