--------------------------- MODULE SequenceFacts ---------------------------
(***************************************************************************)
(* Facts about sequences used as queues, for the proofs about the thread   *)
(* pool and the file logger, and about recursive definitions, for those    *)
(* about the start-up and the buffers: induction over the numbers with a   *)
(* property, taken as a set.                                               *)
(***************************************************************************)
EXTENDS Integers, SequencesExt, WellFoundedInduction, SequenceTheorems, TLAPS

\* Popping the head of a queue and appending it to what was popped before
\* leaves the concatenation of the two as it was.
LEMMA HeadMoves ==
    ASSUME NEW S, NEW s \in Seq(S), NEW q \in Seq(S), q # <<>>
    PROVE  Append(s, Head(q)) \o Tail(q) = s \o q
  <1> DEFINE h == Head(q)
  <1>1. h \in S /\ Tail(q) \in Seq(S) /\ Len(Tail(q)) = Len(q) - 1
        /\ \A i \in 1 .. Len(Tail(q)) : Tail(q)[i] = q[i + 1]
    BY HeadTailProperties
  <1>2. h = q[1] /\ Len(q) \in Nat \ {0} /\ Len(s) \in Nat
    BY EmptySeq, LenProperties
  <1>3. /\ Append(s, h) \in Seq(S)
        /\ Len(Append(s, h)) = Len(s) + 1
        /\ \A i \in 1 .. Len(s) : Append(s, h)[i] = s[i]
        /\ Append(s, h)[Len(s) + 1] = h
    BY <1>1, AppendProperties
  <1> HIDE DEF h
  <1> DEFINE u == Append(s, h) \o Tail(q)
             v == s \o q
  <1>4. /\ u \in Seq(S) /\ Len(u) = Len(s) + Len(q)
        /\ \A i \in 1 .. Len(s) + Len(q) :
              u[i] = IF i <= Len(s) + 1 THEN Append(s, h)[i]
                                        ELSE Tail(q)[i - (Len(s) + 1)]
    <2>1. Len(Append(s, h)) + Len(Tail(q)) = Len(s) + Len(q)
      BY <1>1, <1>2, <1>3
    <2> QED BY <2>1, <1>1, <1>3, ConcatProperties
  <1>5. /\ v \in Seq(S) /\ Len(v) = Len(s) + Len(q)
        /\ \A i \in 1 .. Len(s) + Len(q) :
              v[i] = IF i <= Len(s) THEN s[i] ELSE q[i - Len(s)]
    BY ConcatProperties
  <1> HIDE DEF u, v
  <1>6. \A i \in 1 .. Len(u) : u[i] = v[i]
    <2> TAKE i \in 1 .. Len(u)
    <2>1. CASE i <= Len(s)
      BY <2>1, <1>2, <1>3, <1>4, <1>5
    <2>2. CASE i = Len(s) + 1
      <3>1. i \in 1 .. Len(s) + Len(q) /\ i - Len(s) = 1 /\ ~(i <= Len(s))
        BY <2>2, <1>2, <1>4
      <3>2. u[i] = Append(s, h)[Len(s) + 1]
        BY <2>2, <3>1, <1>2, <1>4
      <3>3. v[i] = q[1]
        BY <3>1, <1>5
      <3> QED BY <3>2, <3>3, <1>2, <1>3
    <2>3. CASE i > Len(s) + 1
      <3>1. i - (Len(s) + 1) \in 1 .. Len(Tail(q))
        BY <2>3, <1>1, <1>2, <1>4
      <3>2. Tail(q)[i - (Len(s) + 1)] = q[i - Len(s)]
        BY <3>1, <1>1, <1>2
      <3> QED BY <2>3, <3>2, <1>2, <1>4, <1>5
    <2> QED BY <2>1, <2>2, <2>3, <1>2, <1>4
  <1>7. u = v
    BY <1>4, <1>5, <1>6, SeqEqual
  <1> QED BY <1>7 DEF u, v, h

\* A concatenation of three sequences, by its indices.
LEMMA ThreeParts ==
    ASSUME NEW S, NEW w \in Seq(S), NEW b \in Seq(S), NEW q \in Seq(S)
    PROVE  /\ w \o b \o q \in Seq(S)
           /\ Len(w \o b \o q) = Len(w) + Len(b) + Len(q)
           /\ Len(w) \in Nat /\ Len(b) \in Nat /\ Len(q) \in Nat
           /\ \A i \in 1 .. Len(w) + Len(b) + Len(q) :
                (w \o b \o q)[i] = IF i <= Len(w) THEN w[i]
                                   ELSE IF i <= Len(w) + Len(b) THEN b[i - Len(w)]
                                   ELSE q[i - (Len(w) + Len(b))]
  <1>1. Len(w) \in Nat /\ Len(b) \in Nat /\ Len(q) \in Nat
    BY LenProperties
  <1> DEFINE u == w \o b
  <1>2. /\ u \in Seq(S) /\ Len(u) = Len(w) + Len(b)
        /\ \A i \in 1 .. Len(w) + Len(b) : u[i] = IF i <= Len(w) THEN w[i] ELSE b[i - Len(w)]
    BY ConcatProperties
  <1> HIDE DEF u
  <1> DEFINE v == u \o q
  <1>3. /\ v \in Seq(S) /\ Len(v) = Len(u) + Len(q)
        /\ \A i \in 1 .. Len(u) + Len(q) : v[i] = IF i <= Len(u) THEN u[i] ELSE q[i - Len(u)]
    <2>1. u \in Seq(S)
      BY <1>2
    <2> QED BY <2>1, ConcatProperties
  <1> HIDE DEF v
  <1>4. ASSUME NEW i \in 1 .. Len(w) + Len(b) + Len(q)
        PROVE  v[i] = IF i <= Len(w) THEN w[i]
                      ELSE IF i <= Len(w) + Len(b) THEN b[i - Len(w)]
                      ELSE q[i - (Len(w) + Len(b))]
    <2>1. CASE i <= Len(w) + Len(b)
      BY <2>1, <1>1, <1>2, <1>3
    <2>2. CASE ~(i <= Len(w) + Len(b))
      <3>1. i \in 1 .. Len(u) + Len(q) /\ ~(i <= Len(u)) /\ ~(i <= Len(w))
        BY <2>2, <1>1, <1>2
      <3>2. v[i] = q[i - Len(u)]
        BY <3>1, <1>3
      <3> QED BY <2>2, <3>1, <3>2, <1>2
    <2> QED BY <2>1, <2>2
  <1> QED BY <1>1, <1>2, <1>3, <1>4 DEF u, v

\* e maps the places of u to those of v, in order, hitting all but the places
\* from m + 1 to n, and u has the element of v there.
Embeds(e, u, v, m, n) ==
    /\ e \in [1 .. Len(u) -> 1 .. Len(v)]
    /\ \A i \in 1 .. Len(u) : u[i] = v[e[i]] /\ e[i] \notin m + 1 .. n
    /\ \A i, j \in 1 .. Len(u) : i < j => e[i] < e[j]
    /\ \A k \in 1 .. Len(v) : k \in m + 1 .. n \/ \E i \in 1 .. Len(u) : e[i] = k

\* Taking the middle part out leaves the other elements, in their order.
LEMMA WithoutMiddle ==
    ASSUME NEW S, NEW w \in Seq(S), NEW b \in Seq(S), NEW q \in Seq(S)
    PROVE  \E e : Embeds(e, w \o q, w \o b \o q, Len(w), Len(w) + Len(b))
  <1> DEFINE u == w \o q
             v == w \o b \o q
             e == [i \in 1 .. Len(u) |-> IF i <= Len(w) THEN i ELSE i + Len(b)]
  <1>1. /\ Len(w) \in Nat /\ Len(b) \in Nat /\ Len(q) \in Nat
        /\ Len(v) = Len(w) + Len(b) + Len(q)
        /\ \A i \in 1 .. Len(w) + Len(b) + Len(q) :
             v[i] = IF i <= Len(w) THEN w[i]
                    ELSE IF i <= Len(w) + Len(b) THEN b[i - Len(w)]
                    ELSE q[i - (Len(w) + Len(b))]
    BY ThreeParts
  <1>2. /\ Len(u) = Len(w) + Len(q)
        /\ \A i \in 1 .. Len(w) + Len(q) : u[i] = IF i <= Len(w) THEN w[i] ELSE q[i - Len(w)]
    BY ConcatProperties
  <1> HIDE DEF u, v
  <1>3. e \in [1 .. Len(u) -> 1 .. Len(v)]
    BY <1>1, <1>2
  <1>4. ASSUME NEW i \in 1 .. Len(u)
        PROVE  u[i] = v[e[i]] /\ e[i] \notin Len(w) + 1 .. Len(w) + Len(b)
    <2>1. CASE i <= Len(w)
      BY <2>1, <1>1, <1>2
    <2>2. CASE ~(i <= Len(w))
      <3>1. /\ e[i] = i + Len(b) /\ e[i] \in 1 .. Len(w) + Len(b) + Len(q)
            /\ ~(e[i] <= Len(w)) /\ ~(e[i] <= Len(w) + Len(b))
            /\ e[i] - (Len(w) + Len(b)) = i - Len(w)
        BY <2>2, <1>1, <1>2
      <3>2. v[e[i]] = q[i - Len(w)]
        <4> HIDE DEF e
        <4> QED BY <3>1, <1>1
      <3>3. u[i] = q[i - Len(w)]
        BY <2>2, <1>2
      <3> QED BY <3>1, <3>2, <3>3, <1>1
    <2> QED BY <2>1, <2>2
  <1>5. \A i, j \in 1 .. Len(u) : i < j => e[i] < e[j]
    BY <1>1, <1>2
  <1>6. ASSUME NEW k \in 1 .. Len(v), k \notin Len(w) + 1 .. Len(w) + Len(b)
        PROVE  \E i \in 1 .. Len(u) : e[i] = k
    <2>1. CASE k <= Len(w)
      BY <2>1, <1>1, <1>2
    <2>2. CASE k > Len(w) + Len(b)
      <3>1. k - Len(b) \in 1 .. Len(u) /\ ~(k - Len(b) <= Len(w)) /\ k - Len(b) + Len(b) = k
        BY <2>2, <1>1, <1>2
      <3> QED BY <3>1
    <2> QED BY <2>1, <2>2, <1>1, <1>6
  <1> HIDE DEF e
  <1>7. Embeds(e, u, v, Len(w), Len(w) + Len(b))
    BY <1>3, <1>4, <1>5, <1>6 DEF Embeds
  <1> QED BY <1>7 DEF u, v

-----------------------------------------------------------------------------
(* Induction and recursion. *)

\* A set of numbers that is not empty has a least one.
LEMMA LeastNumber ==
    ASSUME NEW T \in SUBSET Nat, T # {}
    PROVE  \E x \in T : \A y \in T : x <= y
  <1> DEFINE R == {p \in Nat \X Nat : p[1] < p[2]}
  <1>1. IsWellFoundedOn(R, Nat)
    BY NatLessThanWellFounded DEF OpToRel
  <1> HIDE DEF R
  <1>2. PICK x \in T : \A y \in T : ~(<<y, x>> \in R)
    BY <1>1, WFMin
  <1>3. \A y \in T : ~(y < x)
    BY <1>2 DEF R
  <1> QED BY <1>3

\* Induction, with the numbers that have the property as a set.
LEMMA InductionOnSet ==
    ASSUME NEW S, 0 \in S, \A n \in Nat : n \in S => n + 1 \in S
    PROVE  Nat \subseteq S
  <1> SUFFICES ASSUME Nat \ S # {} PROVE FALSE
    OBVIOUS
  <1>1. PICK x \in Nat \ S : \A y \in Nat \ S : x <= y
    BY LeastNumber
  <1>2. x # 0 /\ x - 1 \in Nat
    BY <1>1
  <1>3. x - 1 \in S
    BY <1>1, <1>2
  <1> QED BY <1>2, <1>3, <1>1

\* g has the values of x0 after the first steps of F.
Iterates(g, k, X, x0, F) ==
    g \in [0 .. k -> X] /\ g[0] = x0 /\ \A n \in 1 .. k : g[n] = F[n][g[n - 1]]
Steps(k, X) == [1 .. k -> [X -> X]]

\* A recursive definition of k steps in a set defines something.
LEMMA Recursion ==
    ASSUME NEW k \in Nat, NEW X, NEW x0 \in X, NEW F \in Steps(k, X)
    PROVE  \E g : Iterates(g, k, X, x0, F)
  <1> DEFINE S == {j \in Nat : j <= k => \E g \in [0 .. j -> X] :
                     g[0] = x0 /\ \A n \in 1 .. j : g[n] = F[n][g[n - 1]]}
  <1>1. 0 \in S
    <2> DEFINE g == [i \in 0 .. 0 |-> x0]
    <2>1. g \in [0 .. 0 -> X] /\ g[0] = x0 /\ \A n \in 1 .. 0 : g[n] = F[n][g[n - 1]]
      OBVIOUS
    <2> QED BY <2>1
  <1>2. ASSUME NEW j \in Nat, j \in S PROVE j + 1 \in S
    <2> SUFFICES ASSUME j + 1 <= k
                 PROVE  \E h \in [0 .. j + 1 -> X] :
                           h[0] = x0 /\ \A n \in 1 .. j + 1 : h[n] = F[n][h[n - 1]]
      OBVIOUS
    <2>1. PICK g \in [0 .. j -> X] : g[0] = x0 /\ \A n \in 1 .. j : g[n] = F[n][g[n - 1]]
      BY <1>2
    <2> DEFINE h == [i \in 0 .. j + 1 |-> IF i = j + 1 THEN F[j + 1][g[j]] ELSE g[i]]
    <2>2. F[j + 1][g[j]] \in X
      BY DEF Steps
    <2>3. h \in [0 .. j + 1 -> X]
      BY <2>2
    <2>4. h[0] = x0 /\ \A n \in 1 .. j + 1 : h[n] = F[n][h[n - 1]]
      BY <2>1
    <2> QED BY <2>3, <2>4
  <1> HIDE DEF S
  <1>3. k \in S
    BY <1>1, <1>2, InductionOnSet
  <1> QED BY <1>3 DEF S, Iterates

\* What is defined by steps in a set is in the set.
LEMMA RecursionType ==
    ASSUME NEW k \in Nat, NEW X, NEW h, DOMAIN h = 0 .. k, h = [n \in 0 .. k |-> h[n]],
           h[0] \in X, \A n \in 1 .. k : h[n - 1] \in X => h[n] \in X
    PROVE  h \in [0 .. k -> X]
  <1> DEFINE S == {j \in Nat : j <= k => h[j] \in X}
  <1>1. 0 \in S
    OBVIOUS
  <1>2. ASSUME NEW j \in Nat, j \in S PROVE j + 1 \in S
    <2> SUFFICES ASSUME j + 1 <= k PROVE h[j + 1] \in X
      OBVIOUS
    <2>1. j + 1 \in 1 .. k /\ h[(j + 1) - 1] \in X
      BY <1>2
    <2> QED BY <2>1
  <1> HIDE DEF S
  <1>3. Nat \subseteq S
    BY <1>1, <1>2, InductionOnSet
  <1>4. \A n \in 0 .. k : h[n] \in X
    BY <1>3 DEF S
  <1> QED BY <1>4


-----------------------------------------------------------------------------
(* FlattenSeq. *)

\* What FlattenSeq computes: the concatenations of the first elements.
Flattens(f, s) == f = [i \in 1 .. Len(s) |-> IF i = 1 THEN s[i] ELSE f[i - 1] \o s[i]]

\* The value of FlattenSeq is the last of them.
LEMMA FlattenDef ==
    ASSUME NEW s, Len(s) # 0
    PROVE  FlattenSeq(s) = (CHOOSE f : Flattens(f, s))[Len(s)]
  BY Zenon DEF FlattenSeq, Flattens

\* There are such concatenations,
LEMMA FlattensExists ==
    ASSUME NEW A, NEW s \in Seq(Seq(A)), Len(s) # 0
    PROVE  \E f : Flattens(f, s)
  <1> DEFINE X == Seq(A)
             k == Len(s) - 1
             F == [n \in 1 .. k |-> [x \in X |-> x \o s[n + 1]]]
  <1>1. Len(s) \in Nat \ {0} /\ k \in Nat /\ \A i \in 1 .. Len(s) : s[i] \in X
    BY LenProperties, ElementOfSeq
  <1>2. F \in Steps(k, X)
    <2>1. ASSUME NEW n \in 1 .. k, NEW x \in X PROVE x \o s[n + 1] \in X
      <3>1. s[n + 1] \in X
        BY <1>1
      <3> QED BY <3>1, ConcatProperties
    <2> QED BY <2>1 DEF Steps
  <1>3. PICK g : Iterates(g, k, X, s[1], F)
    <2> HIDE DEF F, k, X
    <2>1. s[1] \in X
      BY <1>1
    <2> QED BY <1>1, <1>2, <2>1, Recursion
  <1> DEFINE f == [i \in 1 .. Len(s) |-> g[i - 1]]
  <1>4. ASSUME NEW i \in 1 .. Len(s) PROVE f[i] = IF i = 1 THEN s[i] ELSE f[i - 1] \o s[i]
    <2>1. CASE i = 1
      BY <2>1, <1>3 DEF Iterates
    <2>2. CASE i # 1
      <3>1. i - 1 \in 1 .. k /\ i - 1 \in 1 .. Len(s) /\ (i - 1) + 1 = i /\ (i - 1) - 1 \in 0 .. k
        BY <2>2, <1>1
      <3>2. g[i - 1] = F[i - 1][g[(i - 1) - 1]] /\ g[(i - 1) - 1] \in X
        BY <3>1, <1>3 DEF Iterates
      <3>3. g[i - 1] = g[(i - 1) - 1] \o s[i]
        BY <3>1, <3>2
      <3> QED BY <2>2, <3>1, <3>3
    <2> QED BY <2>1, <2>2
  <1>5. f = [i \in 1 .. Len(s) |-> IF i = 1 THEN s[i] ELSE f[i - 1] \o s[i]]
    BY <1>4
  <1> HIDE DEF f
  <1> QED BY <1>5 DEF Flattens

\* they are sequences.
LEMMA FlattensType ==
    ASSUME NEW A, NEW s \in Seq(Seq(A)), NEW f, Flattens(f, s)
    PROVE  \A i \in 1 .. Len(s) : f[i] \in Seq(A)
  <1> DEFINE S == {n \in Nat : n + 1 <= Len(s) => f[n + 1] \in Seq(A)}
  <1>1. Len(s) \in Nat /\ \A i \in 1 .. Len(s) : s[i] \in Seq(A)
    BY LenProperties, ElementOfSeq
  <1>2. \A i \in 1 .. Len(s) : f[i] = IF i = 1 THEN s[i] ELSE f[i - 1] \o s[i]
    BY Zenon DEF Flattens
  <1>3. 0 \in S
    BY <1>1, <1>2
  <1>4. ASSUME NEW n \in Nat, n \in S PROVE n + 1 \in S
    <2> SUFFICES ASSUME (n + 1) + 1 <= Len(s) PROVE f[(n + 1) + 1] \in Seq(A)
      OBVIOUS
    <2>1. (n + 1) + 1 \in 1 .. Len(s) /\ (n + 1) + 1 # 1 /\ ((n + 1) + 1) - 1 = n + 1
      BY <1>1
    <2>2. f[(n + 1) + 1] = f[n + 1] \o s[(n + 1) + 1]
      BY <1>2, <2>1
    <2>3. f[n + 1] \in Seq(A) /\ s[(n + 1) + 1] \in Seq(A)
      BY <1>1, <1>4, <2>1
    <2> QED BY <2>2, <2>3, ConcatProperties
  <1> HIDE DEF S
  <1>5. Nat \subseteq S
    BY <1>3, <1>4, InductionOnSet
  <1>6. ASSUME NEW i \in 1 .. Len(s) PROVE f[i] \in Seq(A)
    <2>1. i - 1 \in S /\ (i - 1) + 1 = i
      BY <1>1, <1>5
    <2> QED BY <2>1, <1>1 DEF S
  <1> QED BY <1>6

\* Two functions agree up to m.
AgreeUpTo(f, g, m) == \A i \in 1 .. m : f[i] = g[i]

\* The concatenations so far depend on the elements before only.
LEMMA FlattensUnique ==
    ASSUME NEW s, NEW t, NEW f, NEW g, Flattens(f, s), Flattens(g, t), NEW m \in Nat,
           Len(s) \in Nat, Len(t) \in Nat, m <= Len(s), m <= Len(t), AgreeUpTo(s, t, m)
    PROVE  AgreeUpTo(f, g, m)
  <1> DEFINE S == {n \in Nat : n + 1 <= m => f[n + 1] = g[n + 1]}
  <1>2. /\ \A i \in 1 .. Len(s) : f[i] = IF i = 1 THEN s[i] ELSE f[i - 1] \o s[i]
        /\ \A i \in 1 .. Len(t) : g[i] = IF i = 1 THEN t[i] ELSE g[i - 1] \o t[i]
    BY Zenon DEF Flattens
  <1>3. 0 \in S
    BY <1>2 DEF AgreeUpTo
  <1>4. ASSUME NEW n \in Nat, n \in S PROVE n + 1 \in S
    <2> SUFFICES ASSUME (n + 1) + 1 <= m PROVE f[(n + 1) + 1] = g[(n + 1) + 1]
      OBVIOUS
    <2>1. /\ (n + 1) + 1 \in 1 .. Len(s) /\ (n + 1) + 1 \in 1 .. Len(t)
          /\ (n + 1) + 1 # 1 /\ ((n + 1) + 1) - 1 = n + 1 /\ (n + 1) + 1 \in 1 .. m
      OBVIOUS
    <2>2. f[(n + 1) + 1] = f[n + 1] \o s[(n + 1) + 1] /\ g[(n + 1) + 1] = g[n + 1] \o t[(n + 1) + 1]
      BY <1>2, <2>1
    <2>3. f[n + 1] = g[n + 1] /\ s[(n + 1) + 1] = t[(n + 1) + 1]
      BY <1>4, <2>1 DEF AgreeUpTo
    <2> QED BY <2>2, <2>3
  <1> HIDE DEF S
  <1>5. Nat \subseteq S
    BY <1>3, <1>4, InductionOnSet
  <1>6. ASSUME NEW i \in 1 .. m PROVE f[i] = g[i]
    <2>1. i - 1 \in S /\ (i - 1) + 1 = i
      BY <1>5
    <2> QED BY <2>1 DEF S
  <1> QED BY <1>6 DEF AgreeUpTo

\* FlattenSeq of nothing is nothing.
LEMMA FlattenEmpty == FlattenSeq(<<>>) = <<>>
  <1>1. Len(<<>>) = 0
    BY EmptySeq
  <1> QED BY <1>1 DEF FlattenSeq

\* FlattenSeq gives a sequence.
LEMMA FlattenType ==
    ASSUME NEW A, NEW s \in Seq(Seq(A))
    PROVE  FlattenSeq(s) \in Seq(A)
  <1>1. CASE Len(s) = 0
    <2>1. s = <<>> /\ <<>> \in Seq(A)
      BY <1>1, EmptySeq
    <2> QED BY <2>1, FlattenEmpty
  <1>2. CASE Len(s) # 0
    <2> DEFINE f == CHOOSE f : Flattens(f, s)
    <2>1. Flattens(f, s)
      BY <1>2, FlattensExists
    <2> HIDE DEF f
    <2>2. Len(s) \in 1 .. Len(s)
      BY <1>2, LenProperties
    <2>3. f[Len(s)] \in Seq(A)
      BY <2>1, <2>2, FlattensType
    <2> QED BY <1>2, <2>3, FlattenDef DEF f
  <1> QED BY <1>1, <1>2

\* One more sequence comes at the end.
LEMMA FlattenAppend ==
    ASSUME NEW A, NEW s \in Seq(Seq(A)), NEW x \in Seq(A)
    PROVE  FlattenSeq(Append(s, x)) = FlattenSeq(s) \o x
  <1> DEFINE t == Append(s, x)
  <1>1. /\ t \in Seq(Seq(A)) /\ Len(t) = Len(s) + 1 /\ t[Len(s) + 1] = x
        /\ \A i \in 1 .. Len(s) : t[i] = s[i]
    BY AppendProperties
  <1> HIDE DEF t
  <1>2. Len(s) \in Nat /\ Len(t) # 0
    BY <1>1, LenProperties
  <1> DEFINE g == CHOOSE g : Flattens(g, t)
  <1>3. Flattens(g, t)
    BY <1>1, <1>2, FlattensExists
  <1>4. FlattenSeq(t) = g[Len(t)]
    BY <1>2, FlattenDef
  <1> HIDE DEF g
  <1>5. \A i \in 1 .. Len(t) : g[i] = IF i = 1 THEN t[i] ELSE g[i - 1] \o t[i]
    BY <1>3, Zenon DEF Flattens
  <1>6. CASE Len(s) = 0
    <2>1. s = <<>> /\ FlattenSeq(s) = <<>>
      BY <1>6, EmptySeq, FlattenEmpty
    <2>2. g[Len(t)] = x
      BY <1>1, <1>5, <1>6
    <2>3. <<>> \o x = x
      BY ConcatEmptySeq
    <2> QED BY <1>4, <2>1, <2>2, <2>3 DEF t
  <1>7. CASE Len(s) # 0
    <2> DEFINE f == CHOOSE f : Flattens(f, s)
    <2>1. Flattens(f, s)
      BY <1>7, FlattensExists
    <2>2. FlattenSeq(s) = f[Len(s)]
      BY <1>7, FlattenDef
    <2> HIDE DEF f
    <2>3. f[Len(s)] = g[Len(s)]
      <3>1. \A i \in 1 .. Len(s) : f[i] = g[i]
        <4>1. Len(t) \in Nat /\ Len(s) <= Len(s) /\ Len(s) <= Len(t)
          <5>1. Len(t) = Len(s) + 1
            BY <1>1
          <5> QED BY <5>1, <1>2
        <4>2. \A i \in 1 .. Len(s) : s[i] = t[i]
          BY <1>1, Zenon
        <4>3. Len(s) \in Nat
          BY <1>2
        <4>4. AgreeUpTo(s, t, Len(s))
          BY <4>2 DEF AgreeUpTo
        <4>5. AgreeUpTo(f, g, Len(s))
          BY <1>3, <2>1, <4>1, <4>3, <4>4, FlattensUnique
        <4> QED BY <4>5 DEF AgreeUpTo
      <3> QED BY <3>1, <1>2, <1>7
    <2>4. g[Len(t)] = g[Len(s)] \o x
      <3>1. Len(t) \in 1 .. Len(t) /\ Len(t) # 1 /\ Len(t) - 1 = Len(s)
        BY <1>1, <1>2, <1>7
      <3> QED BY <1>1, <1>5, <3>1
    <2> QED BY <1>4, <2>2, <2>3, <2>4 DEF t
  <1> QED BY <1>6, <1>7

\* FlattenSeq of a concatenation is the concatenation.
LEMMA FlattenConcat ==
    ASSUME NEW A, NEW s \in Seq(Seq(A)), NEW t \in Seq(Seq(A))
    PROVE  FlattenSeq(s \o t) = FlattenSeq(s) \o FlattenSeq(t)
  <1>assoc. ASSUME NEW p \in Seq(A), NEW q \in Seq(A), NEW r \in Seq(A)
            PROVE  (p \o q) \o r = p \o (q \o r)
    BY ConcatAssociative, SMTT(30)
  <1> DEFINE S == {n \in Nat : \A u \in Seq(Seq(A)) :
                     Len(u) = n => FlattenSeq(s \o u) = FlattenSeq(s) \o FlattenSeq(u)}
  <1>0. FlattenSeq(s) \in Seq(A)
    BY FlattenType
  <1>1. 0 \in S
    <2> SUFFICES ASSUME NEW u \in Seq(Seq(A)), Len(u) = 0
                 PROVE  FlattenSeq(s \o u) = FlattenSeq(s) \o FlattenSeq(u)
      OBVIOUS
    <2>1. u = <<>>
      BY EmptySeq
    <2>2. s \o <<>> = s /\ FlattenSeq(s) \o <<>> = FlattenSeq(s)
      BY <1>0, ConcatEmptySeq
    <2> QED BY <2>1, <2>2, FlattenEmpty
  <1>2. ASSUME NEW n \in Nat, n \in S PROVE n + 1 \in S
    <2> SUFFICES ASSUME NEW u \in Seq(Seq(A)), Len(u) = n + 1
                 PROVE  FlattenSeq(s \o u) = FlattenSeq(s) \o FlattenSeq(u)
      OBVIOUS
    <2>1. PICK v \in Seq(Seq(A)), x \in Seq(A) : u = Append(v, x) /\ Len(v) = n
      <3>1. u # <<>>
        BY EmptySeq
      <3>2. PICK v \in Seq(Seq(A)), x \in Seq(A) : u = Append(v, x)
        BY <3>1, SequenceEmptyOrAppend
      <3>3. Len(v) = n
        BY <3>2, AppendProperties, LenProperties
      <3> QED BY <3>2, <3>3
    <2>2. s \o u = Append(s \o v, x) /\ s \o v \in Seq(Seq(A))
      <3>1. /\ u = v \o <<x>> /\ <<x>> \in Seq(Seq(A)) /\ s \o v \in Seq(Seq(A))
            /\ Append(s \o v, x) = (s \o v) \o <<x>>
        <4>1. s \o v \in Seq(Seq(A))
          BY ConcatProperties
        <4>2. <<x>> \in Seq(Seq(A))
          OBVIOUS
        <4> QED BY <2>1, <4>1, <4>2, AppendIsConcat
      <3> QED BY <3>1, ConcatAssociative
    <2>3. FlattenSeq(s \o u) = FlattenSeq(s \o v) \o x
      BY <2>2, FlattenAppend
    <2>4. FlattenSeq(s \o v) = FlattenSeq(s) \o FlattenSeq(v)
      BY <1>2, <2>1
    <2>5. FlattenSeq(u) = FlattenSeq(v) \o x /\ FlattenSeq(v) \in Seq(A)
      BY <2>1, FlattenAppend, FlattenType
    <2>6. (FlattenSeq(s) \o FlattenSeq(v)) \o x = FlattenSeq(s) \o (FlattenSeq(v) \o x)
      BY <1>0, <2>5, <1>assoc, Zenon
    <2> QED BY <2>3, <2>4, <2>5, <2>6, Zenon
  <1> HIDE DEF S
  <1>3. Nat \subseteq S
    BY <1>1, <1>2, InductionOnSet
  <1>4. Len(t) \in S
    BY <1>3, LenProperties
  <1> QED BY <1>4 DEF S

=============================================================================
