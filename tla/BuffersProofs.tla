--------------------------- MODULE BuffersProofs ---------------------------
(***************************************************************************)
(* What Buffers promises, for every page size, window, content and sequence*)
(* of operations: the view stays inside its storage (BufferViews), and each*)
(* operation answers as of a plain string, wherever the mapping was left   *)
(* (BufferAnswers).                                                        *)
(*                                                                         *)
(* The inductive invariant BInv is small; the work is in the operators.    *)
(* map_range maps the range it is asked for (RangeMapped), so that no byte *)
(* from outside the mapping is seen (MappedBehind).  Each loop of the code *)
(* is a recursive function of the number of turns: a lemma says what one   *)
(* turn does to the state of the loop (CopyTurnFacts, FindTurnFacts,       *)
(* TrimTurnFacts, SegmentTurnFacts), and the induction of SequenceFacts    *)
(* gives what the whole of it has done, and that the turns were enough.    *)
(***************************************************************************)
EXTENDS Buffers, SequenceFacts

\* Mappings: whole pages from the start of one, and never empty.
Segs == {m \in [start : Nat, len : Nat] : m.len > 0 /\ m.start % page = 0}

\* The types of the constants of a buffer and of its contents.
Shape ==
  /\ kind \in {"string", "file"} /\ page \in Nat \ {0} /\ window \in Nat \ {0}
  /\ data \in Seq(Chars) /\ Len(data) <= MaxSize

\* The inductive invariant.
BInv ==
  /\ Shape
  /\ seg \in Segs
  /\ begin_ \in Nat /\ end_ \in Nat /\ begin_ <= end_ /\ end_ <= Size

\* Views that lie inside the storage.
Inside(v) == v \in [b : Nat, e : Nat] /\ v.b <= v.e /\ v.e <= Size

-----------------------------------------------------------------------------
(* Numbers. *)

\* Division leaves a rest.
LEMMA DivFacts ==
    ASSUME NEW a \in Nat, NEW d \in Nat \ {0}
    PROVE  /\ a \div d \in Nat /\ d * (a \div d) \in Nat /\ (a \div d) * d = d * (a \div d)
           /\ d * (a \div d) <= a /\ a < d * (a \div d) + d
           /\ (d * (a \div d)) % d = 0
  OBVIOUS

\* The smaller of two numbers.
LEMMA MinTwo ==
    ASSUME NEW a \in Int, NEW b \in Int
    PROVE  Min({a, b}) = IF a <= b THEN a ELSE b
  <1>1. \E x \in {a, b} : \A y \in {a, b} : x <= y
    OBVIOUS
  <1>2. Min({a, b}) \in {a, b} /\ \A y \in {a, b} : Min({a, b}) <= y
    BY <1>1, Zenon DEF Min
  <1> QED BY <1>2

\* The larger of two numbers.
LEMMA MaxTwo ==
    ASSUME NEW a \in Int, NEW b \in Int
    PROVE  Max({a, b}) = IF a >= b THEN a ELSE b
  <1>1. \E x \in {a, b} : \A y \in {a, b} : x >= y
    OBVIOUS
  <1>2. Max({a, b}) \in {a, b} /\ \A y \in {a, b} : Max({a, b}) >= y
    BY <1>1, Zenon DEF Max
  <1> QED BY <1>2

\* The least of a set of numbers.
LEMMA MinSet ==
    ASSUME NEW S \in SUBSET Nat, S # {}
    PROVE  Min(S) \in S /\ \A y \in S : Min(S) <= y
  <1>1. \E x \in S : \A y \in S : x <= y
    BY LeastNumber
  <1> QED BY <1>1, Zenon DEF Min

-----------------------------------------------------------------------------
(* The mapping. *)

\* After map_range the range is mapped.
LEMMA RangeMapped ==
    ASSUME Shape, NEW m \in Segs, NEW b \in Nat, NEW e \in Nat, b < e
    PROVE  map_range(m, b, e) \in Segs /\ mapped(map_range(m, b, e), b, e)
  <1>1. CASE mapped(m, b, e)
    BY <1>1 DEF map_range
  <1>2. CASE ~mapped(m, b, e)
    <2> DEFINE base == page * (b \div page)
               n == [start |-> base, len |-> e - base]
    <2>1. base \in Nat /\ base <= b /\ base % page = 0
      BY DivFacts DEF Shape
    <2>2. map_range(m, b, e) = n
      BY <1>2 DEF map_range
    <2> HIDE DEF base
    <2>3. n \in Segs /\ mapped(n, b, e)
      BY <2>1 DEF Segs, mapped
    <2> QED BY <2>2, <2>3
  <1> QED BY <1>1, <1>2

\* The bytes of a mapped range are those of the file.
LEMMA MappedBehind ==
    ASSUME NEW m \in Segs, NEW b \in Nat, NEW e \in Nat, mapped(m, b, e),
           NEW i \in Nat, b <= i, i < e, i < Size
    PROVE  Behind(m, i) = i /\ Byte(m, i) = data[i + 1]
  <1>1. mapped(m, i, i + 1)
    BY DEF mapped, Segs
  <1> QED BY <1>1 DEF Behind, Byte, Wild

\* at() of both storages.
LEMMA AtAnswers ==
    ASSUME Shape, NEW m \in Segs, NEW i \in Nat
    PROVE  /\ ImplAt(m, i).seg \in Segs
           /\ ImplAt(m, i).val = IF i < Size THEN data[i + 1] ELSE Throw
  <1>0. Size \in Nat
    BY LenProperties DEF Shape, Size
  <1>1. CASE kind = "string" \/ i >= Size
    BY <1>0, <1>1 DEF ImplAt, MMapAt, Shape
  <1>2. CASE kind = "file" /\ i < Size /\ mapped(m, i, i + 1)
    <2>1. Byte(m, i) = data[i + 1]
      BY <1>2, MappedBehind
    <2> QED BY <1>0, <1>2, <2>1 DEF ImplAt, MMapAt
  <1>3. CASE kind = "file" /\ i < Size /\ ~mapped(m, i, i + 1)
    <2> DEFINE b == (i \div window) * window
               n == map_range(m, b, b + window)
    <2>1. b \in Nat /\ b <= i /\ i < b + window /\ b + window \in Nat
      BY DivFacts DEF Shape
    <2>2. map_segment(m, i \div window) = n
      BY DEF map_segment
    <2> HIDE DEF b
    <2>3. n \in Segs /\ mapped(n, b, b + window)
      BY <2>1, RangeMapped
    <2> HIDE DEF n
    <2>4. Byte(n, i) = data[i + 1]
      BY <1>3, <2>1, <2>3, MappedBehind
    <2> QED BY <1>0, <1>3, <2>2, <2>3, <2>4 DEF ImplAt, MMapAt
  <1> QED BY <1>0, <1>1, <1>2, <1>3 DEF Shape

\* atSegment: a chunk that is not empty, all of it mapped.
LEMMA ChunkMapped ==
    ASSUME Shape, NEW m \in Segs, NEW i \in Nat, i < Size
    PROVE  LET c == AtSegment(m, i)
           IN  /\ c.seg \in Segs /\ c.upto \in Nat /\ i < c.upto /\ c.upto <= Size
               /\ \A j \in i .. c.upto - 1 : Behind(c.seg, j) = j
               /\ window * (i \div window) + window >= c.upto
               /\ c.upto = Size \/ c.upto = window * (i \div window) + window
  <1> DEFINE b == (i \div window) * window
             n == map_range(m, b, b + window)
             u == Min({b + window, Size})
  <1>0. Size \in Nat
    BY LenProperties DEF Shape, Size
  <1>1. b \in Nat /\ b <= i /\ i < b + window /\ b + window \in Nat /\ window * (i \div window) = b
    BY DivFacts DEF Shape
  <1>2. AtSegment(m, i) = [seg |-> n, upto |-> u]
    BY DEF AtSegment
  <1> HIDE DEF b
  <1>3. u = IF b + window <= Size THEN b + window ELSE Size
    BY <1>0, <1>1, MinTwo
  <1>4. n \in Segs /\ mapped(n, b, b + window)
    BY <1>1, RangeMapped
  <1> HIDE DEF n, u
  <1>5. ASSUME NEW j \in i .. u - 1 PROVE Behind(n, j) = j
    <2>1. j \in Nat /\ b <= j /\ j < b + window /\ j < Size
      BY <1>0, <1>1, <1>3
    <2> QED BY <1>1, <1>4, <2>1, MappedBehind
  <1> QED BY <1>0, <1>1, <1>2, <1>3, <1>4, <1>5

-----------------------------------------------------------------------------
(* read and write. *)

\* The offsets of the n bytes from pos.
Offsets(pos, n) == [k \in 1 .. n |-> pos + k - 1]

\* Two ranges, one behind the other.
LEMMA OffsetsConcat ==
    ASSUME NEW p \in Nat, NEW n \in Nat, NEW d \in Nat
    PROVE  /\ Offsets(p, n) \in Seq(Nat) /\ Len(Offsets(p, n)) = n
           /\ Offsets(p, n) \o Offsets(p + n, d) = Offsets(p, n + d)
  <1>1. ASSUME NEW q \in Nat, NEW k \in Nat
        PROVE  Offsets(q, k) \in Seq(Nat) /\ Len(Offsets(q, k)) = k
    <2>1. Offsets(q, k) \in [1 .. k -> Nat]
      BY DEF Offsets
    <2>2. Offsets(q, k) \in Seq(Nat)
      BY <2>1, SeqDef
    <2> QED BY <2>1, <2>2, LenProperties
  <1> DEFINE s == Offsets(p, n)
             t == Offsets(p + n, d)
             u == Offsets(p, n + d)
  <1>2. /\ s \in Seq(Nat) /\ Len(s) = n /\ t \in Seq(Nat) /\ Len(t) = d
        /\ u \in Seq(Nat) /\ Len(u) = n + d
    <2>1. p + n \in Nat /\ n + d \in Nat
      OBVIOUS
    <2> QED BY <1>1, <2>1
  <1>3. s \o t \in Seq(Nat) /\ Len(s \o t) = n + d
    BY <1>2, ConcatProperties
  <1>4. ASSUME NEW i \in 1 .. n + d PROVE (s \o t)[i] = u[i]
    <2>1. (s \o t)[i] = IF i <= n THEN s[i] ELSE t[i - n]
      <3> HIDE DEF s, t, u
      <3>1. i \in 1 .. Len(s) + Len(t)
        BY <1>2
      <3>2. (s \o t)[i] = IF i <= Len(s) THEN s[i] ELSE t[i - Len(s)]
        BY <1>2, <3>1, ConcatProperties
      <3> QED BY <1>2, <3>2
    <2>2. i <= n => s[i] = p + i - 1
      BY DEF Offsets
    <2>3. i > n => t[i - n] = (p + n) + (i - n) - 1
      BY DEF Offsets
    <2>4. u[i] = p + i - 1
      BY DEF Offsets
    <2> HIDE DEF s, t, u
    <2> QED BY <2>1, <2>2, <2>3, <2>4
  <1> HIDE DEF s, t, u
  <1>5. s \o t = u
    BY <1>2, <1>3, <1>4, SeqEqual
  <1> QED BY <1>2, <1>5 DEF s, t, u

\* No offsets.
LEMMA OffsetsNone == ASSUME NEW p \in Nat PROVE Offsets(p, 0) = <<>>
  <1>1. Offsets(p, 0) \in Seq(Nat) /\ Len(Offsets(p, 0)) = 0
    BY OffsetsConcat
  <1> QED BY <1>1, EmptySeq

\* What the loop of read and write has after some turns.
Copying(pos, len) == {[seg |-> m, at |-> Offsets(pos, n)] : m \in Segs, n \in 0 .. len}

\* A turn copies the next bytes, at least one.
LEMMA CopyTurnFacts ==
    ASSUME Shape, NEW pos \in Nat, NEW len \in Nat, pos + len <= Size,
           NEW acc \in Copying(pos, len)
    PROVE  LET new == CopyTurn(acc, pos, len)
           IN  /\ new \in Copying(pos, len) /\ Len(acc.at) \in 0 .. len
               /\ Len(new.at) > Len(acc.at) \/ Len(new.at) = len
  <1>0. Size \in Nat
    BY LenProperties DEF Shape, Size
  <1>1. PICK m \in Segs, n \in 0 .. len : acc = [seg |-> m, at |-> Offsets(pos, n)]
    BY DEF Copying
  <1>2. n \in Nat /\ Len(Offsets(pos, n)) = n /\ acc.seg = m /\ acc.at = Offsets(pos, n)
    BY <1>1, OffsetsConcat
  <1> DEFINE from == pos + n
             c == AtSegment(m, from)
             upto == Min({c.upto, pos + len})
             d == upto - from
             new == [seg |-> c.seg,
                     at |-> Offsets(pos, n) \o [k \in 1 .. upto - from |-> Behind(c.seg, from + k - 1)]]
  <1>3. CopyTurn(acc, pos, len) = IF from = pos + len THEN acc ELSE new
    BY <1>2 DEF CopyTurn
  <1>4. CASE from = pos + len
    BY <1>2, <1>3, <1>4
  <1>5. CASE from # pos + len
    <2>1. from \in Nat /\ from < pos + len /\ from < Size
      BY <1>0, <1>5
    <2>2. /\ c.seg \in Segs /\ c.upto \in Nat /\ from < c.upto
          /\ \A j \in from .. c.upto - 1 : Behind(c.seg, j) = j
      BY <2>1, ChunkMapped
    <2> HIDE DEF c
    <2>3. upto = IF c.upto <= pos + len THEN c.upto ELSE pos + len
      BY <2>2, MinTwo
    <2>4. upto \in Nat /\ from < upto /\ upto <= c.upto /\ upto <= pos + len
      BY <2>1, <2>2, <2>3
    <2> HIDE DEF upto
    <2>5. d \in Nat /\ d > 0 /\ n + d \in 0 .. len
      BY <1>1, <2>1, <2>4
    <2>6. [k \in 1 .. upto - from |-> Behind(c.seg, from + k - 1)] = Offsets(from, d)
      <3>1. ASSUME NEW k \in 1 .. d PROVE Behind(c.seg, from + k - 1) = from + k - 1
        <4>1. from + k - 1 \in from .. c.upto - 1
          BY <2>1, <2>2, <2>4, <2>5
        <4> QED BY <2>2, <4>1
      <3> QED BY <3>1 DEF Offsets
    <2> HIDE DEF d
    <2>7. Offsets(pos, n) \o Offsets(from, d) = Offsets(pos, n + d) /\ Len(Offsets(pos, n + d)) = n + d
      <3>1. n + d \in Nat /\ n \in Nat /\ d \in Nat
        BY <1>2, <2>5
      <3>2. Offsets(pos, n) \o Offsets(pos + n, d) = Offsets(pos, n + d)
        BY <3>1, OffsetsConcat
      <3>3. Len(Offsets(pos, n + d)) = n + d
        BY <3>1, OffsetsConcat
      <3> QED BY <3>2, <3>3
    <2>8. new = [seg |-> c.seg, at |-> Offsets(pos, n + d)]
      BY <2>6, <2>7, Zenon
    <2> HIDE DEF new
    <2>9. CopyTurn(acc, pos, len) = [seg |-> c.seg, at |-> Offsets(pos, n + d)]
      BY <1>3, <1>5, <2>8
    <2>10. [seg |-> c.seg, at |-> Offsets(pos, n + d)] \in Copying(pos, len)
      BY <2>2, <2>5 DEF Copying
    <2> QED BY <1>2, <2>5, <2>7, <2>9, <2>10
  <1> QED BY <1>4, <1>5

\* The loop of read and write copies all there is to copy.
LEMMA FileCopies ==
    ASSUME Shape, NEW m \in Segs, NEW pos \in Nat, NEW len \in Nat, pos + len <= Size
    PROVE  FileCopy(m, pos, len).seg \in Segs /\ FileCopy(m, pos, len).at = Offsets(pos, len)
  <1> DEFINE X == Copying(pos, len)
             x0 == [seg |-> m, at |-> <<>>]
             F == [n \in 1 .. len |-> [x \in X |-> CopyTurn(x, pos, len)]]
             after[n \in 0 .. len] == IF n = 0 THEN [seg |-> m, at |-> <<>>]
                                      ELSE CopyTurn(after[n - 1], pos, len)
  <1>1. x0 \in X
    <2>1. Offsets(pos, 0) = <<>>
      BY OffsetsNone
    <2> QED BY <2>1 DEF Copying
  <1>2. \A x \in X : CopyTurn(x, pos, len) \in X
    BY CopyTurnFacts
  <1> HIDE DEF X
  <1>3. F \in Steps(len, X)
    BY <1>2 DEF Steps
  <1>4. PICK g : Iterates(g, len, X, x0, F)
    <2> HIDE DEF F, x0
    <2> QED BY <1>1, <1>3, Recursion
  <1>5. g = [n \in 0 .. len |-> IF n = 0 THEN [seg |-> m, at |-> <<>>] ELSE CopyTurn(g[n - 1], pos, len)]
    <2>1. g = [n \in 0 .. len |-> g[n]] /\ g[0] = x0
      BY <1>4 DEF Iterates
    <2>2. ASSUME NEW n \in 1 .. len PROVE g[n] = CopyTurn(g[n - 1], pos, len)
      <3>1. n - 1 \in 0 .. len
        OBVIOUS
      <3>2. g[n - 1] \in X /\ g[n] = F[n][g[n - 1]]
        BY <1>4, <3>1 DEF Iterates
      <3> QED BY <3>2
    <2>3. \A n \in 0 .. len : n = 0 \/ n \in 1 .. len
      OBVIOUS
    <2>4. \A n \in 0 .. len : g[n] = IF n = 0 THEN x0 ELSE CopyTurn(g[n - 1], pos, len)
      BY <2>1, <2>2, <2>3
    <2> QED BY <2>1, <2>4
  <1>6. after = [n \in 0 .. len |-> IF n = 0 THEN [seg |-> m, at |-> <<>>] ELSE CopyTurn(after[n - 1], pos, len)]
    BY <1>5, Zenon DEF after
  <1>7. FileCopy(m, pos, len) = after[len]
    <2>1. ~(pos + len > Size)
      BY LenProperties DEF Shape, Size
    <2> QED BY <2>1, Zenon DEF FileCopy, after
  <1> HIDE DEF after
  <1>8. after[0] = x0 /\ \A n \in 1 .. len : after[n] = CopyTurn(after[n - 1], pos, len)
    <2>1. \A n \in 0 .. len : after[n] = IF n = 0 THEN x0 ELSE CopyTurn(after[n - 1], pos, len)
      BY <1>6
    <2>2. 0 \in 0 .. len /\ \A n \in 1 .. len : n \in 0 .. len /\ n # 0
      OBVIOUS
    <2> QED BY <2>1, <2>2
  <1>9. after \in [0 .. len -> X]
    <2>1. DOMAIN after = 0 .. len /\ after = [n \in 0 .. len |-> after[n]]
      BY <1>6
    <2>2. \A n \in 1 .. len : after[n - 1] \in X => after[n] \in X
      BY <1>2, <1>8
    <2>3. after[0] \in X
      BY <1>1, <1>8
    <2> QED BY <2>1, <2>2, <2>3, RecursionType
  <1> HIDE DEF x0
  <1> DEFINE S == {n \in Nat : n <= len => Len(after[n].at) >= n}
  <1>10. 0 \in S
    <2>1. Len(after[0].at) \in 0 .. len
      BY <1>9, CopyTurnFacts DEF X
    <2> QED BY <2>1
  <1>11. ASSUME NEW n \in Nat, n \in S PROVE n + 1 \in S
    <2> SUFFICES ASSUME n + 1 <= len PROVE Len(after[n + 1].at) >= n + 1
      OBVIOUS
    <2>1. n + 1 \in 1 .. len /\ (n + 1) - 1 = n /\ n \in 0 .. len /\ n + 1 \in 0 .. len
      OBVIOUS
    <2>2. after[n] \in X /\ after[n + 1] \in X /\ after[n + 1] = CopyTurn(after[n], pos, len)
      BY <1>8, <1>9, <2>1
    <2>3. /\ Len(after[n].at) \in 0 .. len /\ Len(after[n + 1].at) \in 0 .. len
          /\ Len(after[n + 1].at) > Len(after[n].at) \/ Len(after[n + 1].at) = len
      BY <2>2, CopyTurnFacts DEF X
    <2>4. Len(after[n].at) >= n
      BY <1>11, <2>1
    <2> QED BY <2>3, <2>4
  <1> HIDE DEF S
  <1>12. len \in S
    BY <1>10, <1>11, InductionOnSet
  <1>13. PICK n \in 0 .. len, s \in Segs : after[len] = [seg |-> s, at |-> Offsets(pos, n)]
    <2>1. len \in 0 .. len
      OBVIOUS
    <2>2. after[len] \in X
      BY <1>9, <2>1
    <2> QED BY <2>2 DEF X, Copying
  <1>14. n = len
    <2>1. Len(Offsets(pos, n)) = n
      BY OffsetsConcat
    <2> QED BY <1>12, <1>13, <2>1 DEF S
  <1> QED BY <1>7, <1>13, <1>14

\* So do both storages,
LEMMA Copies ==
    ASSUME Shape, NEW m \in Segs, NEW pos \in Nat, NEW len \in Nat, pos + len <= Size
    PROVE  Copy(m, pos, len).seg \in Segs /\ Copy(m, pos, len).at = Offsets(pos, len)
  <1>1. CASE kind = "file"
    BY <1>1, FileCopies DEF Copy
  <1>2. CASE kind # "file"
    <2>1. Size \in Nat
      BY LenProperties DEF Shape, Size
    <2>2. [k \in 1 .. len |-> IF pos + k > Size THEN Wild ELSE pos + k - 1] = Offsets(pos, len)
      BY <2>1 DEF Offsets
    <2> QED BY <1>2, <2>2 DEF Copy, StringCopy
  <1> QED BY <1>1, <1>2

\* and DataBuffer takes as many bytes as there are.
Count(v, pos, len) ==
  IF pos >= v.e - v.b THEN 0 ELSE IF v.e - v.b - pos <= len THEN v.e - v.b - pos ELSE len

\* The offsets DataBuffer::read and write touch, and how many.
LEMMA ViewCopies ==
    ASSUME Shape, NEW m \in Segs, NEW v, Inside(v), NEW pos \in Nat, NEW len \in Nat
    PROVE  /\ copy(m, v, pos, len).seg \in Segs
           /\ copy(m, v, pos, len).at = Offsets(v.b + pos, Count(v, pos, len))
           /\ Count(v, pos, len) \in 0 .. len
           /\ Count(v, pos, len) > 0 => v.b + pos + Count(v, pos, len) <= v.e
  <1>0. v.b \in Nat /\ v.e \in Nat /\ v.b <= v.e /\ v.e <= Size /\ Size \in Nat
    BY LenProperties DEF Inside, Shape, Size
  <1>1. CASE pos >= v.e - v.b
    <2>1. Offsets(v.b + pos, 0) = <<>>
      <3>1. v.b + pos \in Nat
        BY <1>0
      <3> QED BY <3>1, OffsetsNone
    <2>2. copy(m, v, pos, len) = [seg |-> m, at |-> <<>>] /\ Count(v, pos, len) = 0
      BY <1>1 DEF copy, Count
    <2> QED BY <2>1, <2>2
  <1>2. CASE ~(pos >= v.e - v.b)
    <2> DEFINE n == Min({v.e - v.b - pos, len})
    <2>1. n = Count(v, pos, len) /\ n \in 0 .. len /\ v.b + pos + n <= v.e
      BY <1>0, <1>2, MinTwo DEF Count
    <2>2. copy(m, v, pos, len) = Copy(m, pos + v.b, n)
      BY <1>2 DEF copy
    <2> HIDE DEF n
    <2>3. pos + v.b \in Nat /\ pos + v.b = v.b + pos /\ pos + v.b + n <= Size /\ n \in Nat
      BY <1>0, <2>1
    <2>4. Copy(m, pos + v.b, n).seg \in Segs /\ Copy(m, pos + v.b, n).at = Offsets(pos + v.b, n)
      BY <2>3, Copies
    <2> QED BY <2>1, <2>2, <2>3, <2>4
  <1> QED BY <1>1, <1>2

-----------------------------------------------------------------------------
(* Answers as of a plain string. *)

\* A piece of a sequence, by its borders.
LEMMA PieceFacts ==
    ASSUME NEW S, NEW s \in Seq(S), NEW a \in Nat, NEW b \in Nat, a <= b, b <= Len(s)
    PROVE  /\ SubSeq(s, a + 1, b) \in Seq(S) /\ Len(SubSeq(s, a + 1, b)) = b - a
           /\ \A i \in 1 .. b - a : SubSeq(s, a + 1, b)[i] = s[a + i]
  <1>1. Len(s) \in Nat /\ \A i \in 1 .. Len(s) : s[i] \in S
    BY LenProperties, ElementOfSeq
  <1>2. \A i \in a + 1 .. b : s[i] \in S
    BY <1>1
  <1>3. a + 1 \in Int /\ b \in Int
    OBVIOUS
  <1> DEFINE t == SubSeq(s, a + 1, b)
  <1>4. /\ t \in Seq(S) /\ Len(t) = IF a + 1 <= b THEN b - (a + 1) + 1 ELSE 0
        /\ \A i \in 1 .. b - (a + 1) + 1 : t[i] = s[(a + 1) + i - 1]
    BY <1>2, <1>3, SubSeqProperties
  <1> HIDE DEF t
  <1>5. Len(t) = b - a
    BY <1>4
  <1>6. ASSUME NEW i \in 1 .. b - a PROVE t[i] = s[a + i]
    <2>1. i \in 1 .. b - (a + 1) + 1 /\ (a + 1) + i - 1 = a + i
      OBVIOUS
    <2> QED BY <1>4, <2>1
  <1> QED BY <1>4, <1>5, <1>6 DEF t

\* The string of a view.
LEMMA StrFacts ==
    ASSUME Shape, NEW v, Inside(v)
    PROVE  /\ Str(v) \in Seq(Chars) /\ Len(Str(v)) = v.e - v.b /\ v.e - v.b \in Nat
           /\ \A i \in 1 .. v.e - v.b : Str(v)[i] = data[v.b + i]
  <1>1. v.b \in Nat /\ v.e \in Nat /\ v.b <= v.e /\ v.e <= Len(data) /\ data \in Seq(Chars)
    BY DEF Inside, Shape, Size
  <1> DEFINE a == v.b
             z == v.e
  <1>2. Str(v) = SubSeq(data, a + 1, z) /\ v.b = a /\ v.e = z
    BY DEF Str
  <1> HIDE DEF a, z
  <1>3. a \in Nat /\ z \in Nat /\ a <= z /\ z <= Len(data) /\ z - a \in Nat
    BY <1>1, <1>2
  <1>4. /\ SubSeq(data, a + 1, z) \in Seq(Chars) /\ Len(SubSeq(data, a + 1, z)) = z - a
        /\ \A i \in 1 .. z - a : SubSeq(data, a + 1, z)[i] = data[a + i]
    BY <1>1, <1>3, PieceFacts
  <1> QED BY <1>2, <1>3, <1>4

\* The bytes behind a range of offsets.
LEMMA FetchFacts ==
    ASSUME Shape, NEW p \in Nat, NEW n \in Nat, n > 0 => p + n <= Size
    PROVE  /\ Fetch(Offsets(p, n)) \in Seq(Chars) /\ Len(Fetch(Offsets(p, n))) = n
           /\ \A i \in 1 .. n : Fetch(Offsets(p, n))[i] = data[p + i]
  <1> DEFINE t == Fetch(Offsets(p, n))
  <1>1. Size \in Nat /\ \A i \in 1 .. Size : data[i] \in Chars
    BY LenProperties, ElementOfSeq DEF Shape, Size
  <1>2. ASSUME NEW i \in 1 .. n
        PROVE  t[i] = data[p + i] /\ t[i] \in Chars
    <2>1. p + i - 1 \in Nat /\ (p + i - 1) + 1 = p + i /\ p + i \in 1 .. Size
      BY <1>1
    <2>2. t[i] = data[p + i]
      BY <2>1 DEF Fetch, Offsets
    <2> QED BY <1>1, <2>1, <2>2
  <1>3. DOMAIN t = 1 .. n /\ t = [i \in 1 .. n |-> t[i]]
    BY DEF Fetch, Offsets
  <1> HIDE DEF t
  <1>4. t \in [1 .. n -> Chars]
    BY <1>2, <1>3
  <1>5. t \in Seq(Chars) /\ Len(t) = n
    BY <1>3, <1>4, SeqDef, LenProperties
  <1> QED BY <1>2, <1>5 DEF t

\* at(): the byte asked for, or the exception.
LEMMA AtIsRight == ASSUME BInv PROVE AtAgrees
  <1> SUFFICES ASSUME NEW pos \in 0 .. MaxSize
               PROVE  LET c == at(seg, This, pos).val
                      IN  IF pos < Len(Str(This)) THEN c = Str(This)[pos + 1]
                          ELSE c = Throw \/ (pos = 0 /\ This = Nil /\ c = data[1])
    BY DEF AtAgrees
  <1>1. Inside(This) /\ This.b = begin_ /\ This.e = end_
    BY DEF BInv, This, View, Inside
  <1>2. /\ MaxSize \in Nat /\ pos \in Nat /\ begin_ \in Nat /\ end_ \in Nat /\ Size \in Nat
        /\ begin_ <= end_ /\ end_ <= Size /\ Shape /\ seg \in Segs
    BY BuffersAssumption, LenProperties DEF BInv, Shape, Size
  <1>3. Len(Str(This)) = end_ - begin_ /\ \A i \in 1 .. end_ - begin_ : Str(This)[i] = data[begin_ + i]
    BY <1>1, <1>2, StrFacts
  <1>4. begin_ + pos \in Nat
    BY <1>2
  <1>5. ImplAt(seg, begin_ + pos).val = IF begin_ + pos < Size THEN data[begin_ + pos + 1] ELSE Throw
    BY <1>2, <1>4, AtAnswers
  <1>6. CASE pos < end_ - begin_
    <2>1. checkIndex(This, begin_ + pos) /\ begin_ + pos < Size /\ pos + 1 \in 1 .. end_ - begin_
      BY <1>1, <1>2, <1>6 DEF checkIndex
    <2>2. at(seg, This, pos).val = data[begin_ + pos + 1]
      BY <1>1, <1>5, <2>1 DEF at
    <2>3. begin_ + (pos + 1) = begin_ + pos + 1
      BY <1>2
    <2> QED BY <1>3, <1>6, <2>1, <2>2, <2>3
  <1>7. CASE ~(pos < end_ - begin_)
    <2>1. CASE ~checkIndex(This, begin_ + pos)
      BY <1>1, <1>3, <1>7, <2>1 DEF at
    <2>2. CASE checkIndex(This, begin_ + pos)
      <3>1. begin_ + pos = 0 /\ This = Nil
        BY <1>1, <1>2, <1>7, <2>2 DEF checkIndex
      <3>2. pos = 0 /\ begin_ = 0
        BY <1>2, <3>1
      <3>3. at(seg, This, pos).val = ImplAt(seg, begin_ + pos).val
        BY <1>1, <2>2 DEF at
      <3> QED BY <1>3, <1>5, <1>7, <3>1, <3>2, <3>3
    <2> QED BY <2>1, <2>2
  <1> QED BY <1>3, <1>6, <1>7

\* read(): the bytes asked for, as far as there are any.
LEMMA ReadIsRight == ASSUME BInv PROVE ReadAgrees
  <1> SUFFICES ASSUME NEW pos \in 0 .. MaxSize, NEW len \in 0 .. MaxSize
               PROVE  Fetch(copy(seg, This, pos, len).at) =
                        SubSeq(Str(This), pos + 1, Min({pos + len, Len(Str(This))}))
    BY DEF ReadAgrees
  <1>1. Inside(This) /\ This.b = begin_ /\ This.e = end_
    BY DEF BInv, This, View, Inside
  <1>2. /\ MaxSize \in Nat /\ pos \in Nat /\ len \in Nat /\ begin_ \in Nat /\ end_ \in Nat
        /\ Size \in Nat /\ begin_ <= end_ /\ end_ <= Size /\ Shape /\ seg \in Segs
    BY BuffersAssumption, LenProperties DEF BInv, Shape, Size
  <1> DEFINE str == Str(This)
             n == end_ - begin_
             c == Count(This, pos, len)
             u == Min({pos + len, n})
             t == SubSeq(str, pos + 1, u)
             f == Fetch(Offsets(begin_ + pos, c))
  <1>3. str \in Seq(Chars) /\ Len(str) = n /\ n \in Nat /\ \A i \in 1 .. n : str[i] = data[begin_ + i]
    BY <1>1, <1>2, StrFacts
  <1>4. /\ copy(seg, This, pos, len).at = Offsets(begin_ + pos, c) /\ c \in 0 .. len
        /\ c > 0 => begin_ + pos + c <= end_
    <2> DEFINE v == This
    <2>1. Inside(v) /\ v.b = begin_ /\ v.e = end_ /\ v = This
      BY <1>1
    <2> HIDE DEF v
    <2>2. /\ copy(seg, v, pos, len).at = Offsets(v.b + pos, Count(v, pos, len))
          /\ Count(v, pos, len) \in 0 .. len
          /\ Count(v, pos, len) > 0 => v.b + pos + Count(v, pos, len) <= v.e
      <3>1. Shape /\ seg \in Segs /\ pos \in Nat /\ len \in Nat /\ Inside(v)
        BY <1>2, <2>1
      <3> QED BY <3>1, ViewCopies, Zenon
    <2> QED BY <2>1, <2>2
  <1>5. u = IF pos + len <= n THEN pos + len ELSE n
    BY <1>2, <1>3, MinTwo
  <1>6. c = IF pos >= n THEN 0 ELSE IF n - pos <= len THEN n - pos ELSE len
    BY <1>1 DEF Count
  <1> HIDE DEF c, u, str, n
  <1>7. f \in Seq(Chars) /\ Len(f) = c /\ \A i \in 1 .. c : f[i] = data[begin_ + pos + i]
    BY <1>2, <1>4, FetchFacts
  <1>8. t \in Seq(Chars) /\ Len(t) = c /\ \A i \in 1 .. c : t[i] = data[begin_ + pos + i]
    <2>1. CASE pos >= n
      <3>1. c = 0 /\ u < pos + 1
        BY <1>2, <1>3, <1>5, <1>6, <2>1
      <3>2. t = <<>>
        BY <1>2, <1>3, <1>5, <3>1
      <3> HIDE DEF t
      <3> QED BY <3>1, <3>2, EmptySeq
    <2>2. CASE pos < n
      <3>1. c = u - pos /\ pos <= u /\ u <= n /\ u \in Nat
        BY <1>2, <1>3, <1>5, <1>6, <2>2
      <3>2. t \in Seq(Chars) /\ Len(t) = c /\ \A i \in 1 .. c : t[i] = str[pos + i]
        <4>1. u <= Len(str)
          BY <1>3, <3>1
        <4>2. t \in Seq(Chars) /\ Len(t) = u - pos /\ \A i \in 1 .. u - pos : t[i] = str[pos + i]
          BY <1>2, <1>3, <3>1, <4>1, PieceFacts
        <4> QED BY <3>1, <4>2
      <3> HIDE DEF t
      <3>3. ASSUME NEW i \in 1 .. c PROVE t[i] = data[begin_ + pos + i]
        <4>1. pos + i \in 1 .. n /\ begin_ + (pos + i) = begin_ + pos + i
          BY <1>2, <1>3, <3>1
        <4> QED BY <1>3, <3>2, <4>1
      <3> QED BY <3>2, <3>3
    <2> QED BY <1>2, <1>3, <2>1, <2>2
  <1> HIDE DEF t, f
  <1>9. f = t
    BY <1>7, <1>8, SeqEqual
  <1> QED BY <1>3, <1>4, <1>9 DEF t, f, str, u, n

\* The mapping of a storage that was opened, cloned or resized.
LEMMA FreshMapping == ASSUME Shape PROVE Fresh \in Segs
  <1>1. 0 * window = 0 /\ page * (0 \div page) = 0 /\ 0 % page = 0
    BY DEF Shape
  <1>2. Fresh = [start |-> 0, len |-> window]
    BY <1>1 DEF Fresh, map_segment, map_range, mapped, Shape
  <1> QED BY <1>1, <1>2 DEF Segs, Shape

\* What the loop of toString has after some turns.
Appending(v) == {[pos |-> v.b + n, str |-> Offsets(v.b, n)] : n \in 0 .. v.e - v.b}

\* A turn appends the next bytes, at least one.
LEMMA SegmentTurnFacts ==
    ASSUME Shape, NEW m \in Segs, NEW v, Inside(v), NEW acc \in Appending(v)
    PROVE  LET new == SegmentTurn(m, v, acc)
           IN  /\ new \in Appending(v) /\ acc.pos \in v.b .. v.e
               /\ new.pos > acc.pos \/ new.pos = v.e
  <1>0. v.b \in Nat /\ v.e \in Nat /\ v.b <= v.e /\ v.e <= Size /\ Size \in Nat
    BY LenProperties DEF Inside, Shape, Size
  <1>1. PICK n \in 0 .. v.e - v.b : acc = [pos |-> v.b + n, str |-> Offsets(v.b, n)]
    BY DEF Appending
  <1> DEFINE p == v.b + n
             end == SegmentEnd(p)
             next == Min({end, v.e})
             d == next - p
  <1>2. n \in Nat /\ p \in Nat /\ p <= v.e /\ acc.pos = p /\ acc.str = Offsets(v.b, n)
    BY <1>0, <1>1
  <1>3. SegmentTurn(m, v, acc) = [pos |-> next, str |-> Offsets(v.b, n) \o Copy(m, p, d).at]
    BY <1>2 DEF SegmentTurn
  <1>4. end \in Nat /\ (end > p \/ end >= v.e)
    <2>1. CASE kind = "file"
      <3>1. window * (p \div window) \in Nat /\ p < window * (p \div window) + window
        BY <1>2, DivFacts DEF Shape
      <3> QED BY <2>1, <3>1 DEF SegmentEnd, Shape
    <2>2. CASE kind # "file"
      BY <1>0, <2>2 DEF SegmentEnd
    <2> QED BY <2>1, <2>2
  <1> HIDE DEF end
  <1>5. next = IF end <= v.e THEN end ELSE v.e
    BY <1>0, <1>4, MinTwo
  <1> HIDE DEF next
  <1>6. next \in Nat /\ p <= next /\ next <= v.e /\ (next > p \/ next = v.e)
    <2>1. p \in Nat /\ v.e \in Nat /\ p <= v.e /\ end \in Nat /\ (end > p \/ end >= v.e)
      BY <1>0, <1>2, <1>4
    <2> HIDE DEF p
    <2>2. CASE end <= v.e
      BY <1>5, <2>1, <2>2
    <2>3. CASE ~(end <= v.e)
      BY <1>5, <2>1, <2>3
    <2> QED BY <2>2, <2>3
  <1>7. d \in Nat /\ p + d <= Size /\ n + d \in 0 .. v.e - v.b /\ v.b + (n + d) = next
    BY <1>0, <1>2, <1>6
  <1> HIDE DEF d
  <1>8. Copy(m, p, d).at = Offsets(p, d)
    BY <1>2, <1>7, Copies
  <1>9. Offsets(v.b, n) \o Offsets(v.b + n, d) = Offsets(v.b, n + d)
    BY <1>0, <1>2, <1>7, OffsetsConcat
  <1>10. SegmentTurn(m, v, acc) = [pos |-> v.b + (n + d), str |-> Offsets(v.b, n + d)]
    BY <1>3, <1>7, <1>8, <1>9
  <1>11. SegmentTurn(m, v, acc) \in Appending(v)
    BY <1>7, <1>10 DEF Appending
  <1>12. SegmentTurn(m, v, acc).pos = next
    BY <1>3
  <1> QED BY <1>0, <1>2, <1>6, <1>11, <1>12

\* The segments of a view, put together, are the whole of it.
LEMMA SegmentsCover ==
    ASSUME Shape, seg \in Segs, NEW v, Inside(v)
    PROVE  toString(v) = Offsets(v.b, v.e - v.b)
  <1> DEFINE X == Appending(v)
             len == v.e - v.b
             m == IF kind = "file" THEN Fresh ELSE seg
             x0 == [pos |-> v.b, str |-> <<>>]
             F == [n \in 1 .. len |-> [x \in X |-> SegmentTurn(m, v, x)]]
             after[n \in 0 .. len] == IF n = 0 THEN [pos |-> v.b, str |-> <<>>]
                                      ELSE SegmentTurn(m, v, after[n - 1])
  <1>0. v.b \in Nat /\ v.e \in Nat /\ len \in Nat
    BY DEF Inside
  <1>1. x0 \in X
    <2>1. Offsets(v.b, 0) = <<>> /\ v.b + 0 = v.b /\ 0 \in 0 .. len
      BY <1>0, OffsetsNone
    <2>2. x0 = [pos |-> v.b + 0, str |-> Offsets(v.b, 0)]
      BY <2>1
    <2> QED BY <2>1, <2>2 DEF Appending
  <1>m. m \in Segs
    BY FreshMapping
  <1>7. toString(v) = after[len].str
    BY Zenon DEF toString, after
  <1>s. after = CHOOSE f : f = [n \in 0 .. len |-> IF n = 0 THEN [pos |-> v.b, str |-> <<>>] ELSE SegmentTurn(m, v, f[n - 1])]
    BY Zenon DEF after
  <1> HIDE DEF m
  <1>2. \A x \in X : SegmentTurn(m, v, x) \in X
    BY <1>m, SegmentTurnFacts
  <1> HIDE DEF X, len
  <1>3. F \in Steps(len, X)
    BY <1>2 DEF Steps
  <1>4. PICK g : Iterates(g, len, X, x0, F)
    <2> HIDE DEF F, x0
    <2> QED BY <1>0, <1>1, <1>3, Recursion
  <1>5. g = [n \in 0 .. len |-> IF n = 0 THEN [pos |-> v.b, str |-> <<>>] ELSE SegmentTurn(m, v, g[n - 1])]
    <2>1. g = [n \in 0 .. len |-> g[n]] /\ g[0] = x0
      BY <1>4 DEF Iterates
    <2>2. ASSUME NEW n \in 1 .. len PROVE g[n] = SegmentTurn(m, v, g[n - 1])
      <3>1. n - 1 \in 0 .. len
        BY <1>0
      <3>2. g[n - 1] \in X /\ g[n] = F[n][g[n - 1]]
        BY <1>4, <3>1 DEF Iterates
      <3> QED BY <3>2
    <2>3. \A n \in 0 .. len : n = 0 \/ n \in 1 .. len
      BY <1>0
    <2>4. \A n \in 0 .. len : g[n] = IF n = 0 THEN x0 ELSE SegmentTurn(m, v, g[n - 1])
      BY <2>1, <2>2, <2>3
    <2> QED BY <2>1, <2>4
  <1> HIDE DEF after
  <1>6. after = [n \in 0 .. len |-> IF n = 0 THEN [pos |-> v.b, str |-> <<>>] ELSE SegmentTurn(m, v, after[n - 1])]
    BY <1>5, <1>s, Zenon
  <1>8. after[0] = x0 /\ \A n \in 1 .. len : after[n] = SegmentTurn(m, v, after[n - 1])
    <2>1. \A n \in 0 .. len : after[n] = IF n = 0 THEN x0 ELSE SegmentTurn(m, v, after[n - 1])
      BY <1>6
    <2>2. 0 \in 0 .. len /\ \A n \in 1 .. len : n \in 0 .. len /\ n # 0
      BY <1>0
    <2> QED BY <2>1, <2>2
  <1>9. after \in [0 .. len -> X]
    <2>1. DOMAIN after = 0 .. len /\ after = [n \in 0 .. len |-> after[n]]
      BY <1>6
    <2>2. \A n \in 1 .. len : after[n - 1] \in X => after[n] \in X
      BY <1>2, <1>8
    <2>3. after[0] \in X
      BY <1>1, <1>8
    <2> QED BY <1>0, <2>1, <2>2, <2>3, RecursionType
  <1> HIDE DEF x0
  <1> DEFINE S == {n \in Nat : n <= len => after[n].pos >= v.b + n}
  <1>10. 0 \in S
    <2>1. after[0].pos \in v.b .. v.e
      BY <1>0, <1>m, <1>9, SegmentTurnFacts DEF X
    <2> QED BY <1>0, <2>1
  <1>11. ASSUME NEW n \in Nat, n \in S PROVE n + 1 \in S
    <2> SUFFICES ASSUME n + 1 <= len PROVE after[n + 1].pos >= v.b + (n + 1)
      OBVIOUS
    <2>1. n + 1 \in 1 .. len /\ (n + 1) - 1 = n /\ n \in 0 .. len /\ n + 1 \in 0 .. len
      BY <1>0
    <2>2. after[n] \in X /\ after[n + 1] \in X /\ after[n + 1] = SegmentTurn(m, v, after[n])
      BY <1>8, <1>9, <2>1
    <2>3. /\ after[n].pos \in v.b .. v.e /\ after[n + 1].pos \in v.b .. v.e
          /\ after[n + 1].pos > after[n].pos \/ after[n + 1].pos = v.e
      BY <1>m, <2>2, SegmentTurnFacts DEF X
    <2>4. after[n].pos >= v.b + n
      BY <1>0, <1>11, <2>1
    <2> QED BY <1>0, <2>1, <2>3, <2>4 DEF len
  <1> HIDE DEF S
  <1>12. len \in S
    BY <1>0, <1>10, <1>11, InductionOnSet
  <1>13. PICK n \in 0 .. len : after[len] = [pos |-> v.b + n, str |-> Offsets(v.b, n)]
    <2>1. len \in 0 .. len
      BY <1>0
    <2>2. after[len] \in X
      BY <1>9, <2>1
    <2> QED BY <2>2 DEF X, Appending, len
  <1>14. n = len
    BY <1>0, <1>12, <1>13 DEF S
  <1> QED BY <1>7, <1>13, <1>14 DEF len

\* toString() is the string of the view.
LEMMA ToStringIsRight == ASSUME BInv PROVE Fetch(toString(This)) = Str(This)
  <1>1. Inside(This) /\ This.b = begin_ /\ This.e = end_ /\ Shape /\ seg \in Segs
    BY DEF BInv, This, View, Inside
  <1>2. begin_ \in Nat /\ end_ \in Nat /\ end_ - begin_ \in Nat /\ begin_ + (end_ - begin_) <= Size
    BY DEF BInv, Shape
  <1> DEFINE t == Fetch(Offsets(begin_, end_ - begin_))
             s == Str(This)
  <1>3. toString(This) = Offsets(begin_, end_ - begin_)
    BY <1>1, SegmentsCover
  <1>4. /\ t \in Seq(Chars) /\ Len(t) = end_ - begin_
        /\ \A i \in 1 .. end_ - begin_ : t[i] = data[begin_ + i]
    BY <1>1, <1>2, FetchFacts
  <1>5. /\ s \in Seq(Chars) /\ Len(s) = end_ - begin_
        /\ \A i \in 1 .. end_ - begin_ : s[i] = data[begin_ + i]
    BY <1>1, StrFacts
  <1> HIDE DEF t, s
  <1>6. t = s
    BY <1>4, <1>5, SeqEqual
  <1> QED BY <1>3, <1>6 DEF t, s

-----------------------------------------------------------------------------
(* startsWith and endsWith. *)

\* What is looked for: strings of characters, none of them empty.
LEMMA PatternFacts ==
    ASSUME NEW s \in Patterns
    PROVE  s \in Seq(Chars) /\ Len(s) \in Nat /\ Len(s) > 0 /\ DOMAIN s = 1 .. Len(s)
  <1>1. s \in SeqOf(Chars, 2) /\ s # <<>>
    BY DEF Patterns
  <1>2. PICK n \in 0 .. 2 : s \in [1 .. n -> Chars]
    BY <1>1 DEF SeqOf
  <1>3. s \in Seq(Chars)
    BY <1>2, SeqDef
  <1> QED BY <1>1, <1>3, LenProperties, EmptySeq

\* Equal sequences, by their elements.
LEMMA EqualBy ==
    ASSUME NEW S, NEW s \in Seq(S), NEW t \in Seq(S), NEW n \in Nat, Len(s) = n, Len(t) = n
    PROVE  s = t <=> \A i \in 1 .. n : s[i] = t[i]
  BY SeqEqual

\* A prefix, by its elements.
LEMMA PrefixBy ==
    ASSUME NEW S, NEW s \in Seq(S), NEW t \in Seq(S)
    PROVE  IsPrefix(s, t) <=> Len(s) <= Len(t) /\ \A i \in 1 .. Len(s) : s[i] = t[i]
  <1>1. Len(s) \in Nat /\ Len(t) \in Nat
    BY LenProperties
  <1>2. CASE Len(s) <= Len(t)
    <2> DEFINE n == Len(s)
               a == SubSeq(s, 0 + 1, n)
               b == SubSeq(t, 0 + 1, n)
    <2>1. a \in Seq(S) /\ Len(a) = n - 0 /\ \A i \in 1 .. n - 0 : a[i] = s[0 + i]
      BY <1>1, PieceFacts
    <2>2. b \in Seq(S) /\ Len(b) = n - 0 /\ \A i \in 1 .. n - 0 : b[i] = t[0 + i]
      BY <1>1, <1>2, PieceFacts
    <2>3. SubSeq(s, 1, n) = a /\ SubSeq(t, 1, n) = b
      OBVIOUS
    <2> HIDE DEF a, b
    <2>4. a = b <=> \A i \in 1 .. n : a[i] = b[i]
      BY <1>1, <2>1, <2>2, EqualBy
    <2>5. \A i \in 1 .. n : a[i] = s[i] /\ b[i] = t[i]
      BY <1>1, <2>1, <2>2
    <2> QED BY <1>2, <2>3, <2>4, <2>5 DEF IsPrefix
  <1> QED BY <1>2 DEF IsPrefix

\* A sequence backwards.
LEMMA ReverseFacts ==
    ASSUME NEW S, NEW s \in Seq(S)
    PROVE  /\ Reverse(s) \in Seq(S) /\ Len(Reverse(s)) = Len(s)
           /\ \A i \in 1 .. Len(s) : Reverse(s)[i] = s[Len(s) + 1 - i]
  <1>1. Len(s) \in Nat /\ \A i \in 1 .. Len(s) : s[i] \in S
    BY LenProperties, ElementOfSeq
  <1> DEFINE r == Reverse(s)
             n == Len(s)
  <1>2. ASSUME NEW i \in 1 .. n PROVE r[i] = s[n + 1 - i] /\ r[i] \in S
    <2>1. (n - i) + 1 = n + 1 - i /\ n + 1 - i \in 1 .. n
      BY <1>1
    <2>2. r[i] = s[(n - i) + 1]
      BY DEF Reverse
    <2> QED BY <1>1, <2>1, <2>2
  <1>3. DOMAIN r = 1 .. n /\ r = [i \in 1 .. n |-> r[i]]
    BY DEF Reverse
  <1> HIDE DEF r
  <1>4. r \in [1 .. n -> S]
    BY <1>2, <1>3
  <1>5. r \in Seq(S)
    BY <1>1, <1>4, SeqDef
  <1>6. Len(r) = n
    BY <1>1, <1>3, <1>5, LenProperties
  <1> QED BY <1>2, <1>5, <1>6 DEF r

\* A suffix, by its elements.
LEMMA SuffixBy ==
    ASSUME NEW S, NEW s \in Seq(S), NEW t \in Seq(S)
    PROVE  IsSuffix(s, t) <=>
             Len(s) <= Len(t) /\ \A i \in 1 .. Len(s) : s[Len(s) + 1 - i] = t[Len(t) + 1 - i]
  <1>1. Len(s) \in Nat /\ Len(t) \in Nat
    BY LenProperties
  <1> DEFINE a == Reverse(s)
             b == Reverse(t)
  <1>2. /\ a \in Seq(S) /\ Len(a) = Len(s) /\ b \in Seq(S) /\ Len(b) = Len(t)
        /\ \A i \in 1 .. Len(s) : a[i] = s[Len(s) + 1 - i]
        /\ \A i \in 1 .. Len(t) : b[i] = t[Len(t) + 1 - i]
    BY ReverseFacts
  <1>3. IsSuffix(s, t) <=> IsPrefix(a, b)
    BY DEF IsSuffix
  <1> HIDE DEF a, b
  <1>4. IsPrefix(a, b) <=> Len(a) <= Len(b) /\ \A i \in 1 .. Len(a) : a[i] = b[i]
    BY <1>2, PrefixBy
  <1>5. ASSUME Len(s) <= Len(t), NEW i \in 1 .. Len(s)
        PROVE  a[i] = s[Len(s) + 1 - i] /\ b[i] = t[Len(t) + 1 - i]
    <2>1. i \in 1 .. Len(t)
      BY <1>1, <1>5
    <2> QED BY <1>2, <2>1
  <1> QED BY <1>2, <1>3, <1>4, <1>5

\* The byte at a place of the view.
LEMMA AtInside ==
    ASSUME BInv, NEW pos \in Nat, pos < end_ - begin_
    PROVE  at(seg, This, pos).val = Str(This)[pos + 1]
  <1>1. end_ - begin_ = Len(Str(This)) /\ pos \in 0 .. MaxSize
    <2>1. Inside(This) /\ This.b = begin_ /\ This.e = end_
      BY DEF BInv, This, View, Inside
    <2>2. Len(Str(This)) = end_ - begin_
      BY <2>1, StrFacts DEF BInv
    <2> QED BY <2>2, BuffersAssumption, LenProperties DEF BInv, Shape, Size
  <1> QED BY <1>1, AtIsRight DEF AtAgrees

\* startsWith() and endsWith() see what is there.
LEMMA AffixesAreRight == ASSUME BInv, NEW s \in Patterns PROVE AffixesAgree(s)
  <1> DEFINE str == Str(This)
             n == end_ - begin_
  <1>1. Inside(This) /\ This.b = begin_ /\ This.e = end_
    BY DEF BInv, This, View, Inside
  <1>2. str \in Seq(Chars) /\ Len(str) = n /\ n \in Nat
    BY <1>1, StrFacts DEF BInv
  <1>3. \A i \in 1 .. n : str[i] \in Chars
    BY <1>2, ElementOfSeq
  <1>4. s \in Seq(Chars) /\ Len(s) \in Nat
    BY PatternFacts
  <1>5. \A i \in 1 .. Len(s) : s[i] \in Chars
    BY <1>4, ElementOfSeq
  <1>6. ASSUME Len(s) <= n, NEW i \in 1 .. Len(s)
        PROVE  /\ at(seg, This, i - 1).val = str[i] /\ at(seg, This, n - i).val = str[n + 1 - i]
               /\ str[i] \in Chars /\ str[n + 1 - i] \in Chars
               /\ s[i] \in Chars /\ s[Len(s) + 1 - i] \in Chars
    <2>1. /\ i - 1 \in Nat /\ i - 1 < n /\ (i - 1) + 1 = i /\ n - i \in Nat /\ n - i < n
          /\ (n - i) + 1 = n + 1 - i /\ i \in 1 .. n /\ n + 1 - i \in 1 .. n
          /\ Len(s) + 1 - i \in 1 .. Len(s)
      BY <1>2, <1>4, <1>6
    <2>2. at(seg, This, i - 1).val = str[(i - 1) + 1]
      BY <2>1, AtInside
    <2>3. at(seg, This, n - i).val = str[(n - i) + 1]
      BY <2>1, AtInside
    <2> QED BY <1>3, <1>5, <2>1, <2>2, <2>3
  <1>7. IsPrefix(s, str) <=> Len(s) <= n /\ \A i \in 1 .. Len(s) : s[i] = str[i]
    BY <1>2, <1>4, PrefixBy
  <1>8. IsSuffix(s, str) <=>
          Len(s) <= n /\ \A i \in 1 .. Len(s) : s[Len(s) + 1 - i] = str[n + 1 - i]
    <2> HIDE DEF str, n
    <2>1. IsSuffix(s, str) <=>
            Len(s) <= Len(str) /\ \A i \in 1 .. Len(s) : s[Len(s) + 1 - i] = str[Len(str) + 1 - i]
      <3>1. str \in Seq(Chars) /\ s \in Seq(Chars)
        BY <1>2, <1>4
      <3> QED BY <3>1, SuffixBy
    <2> QED BY <1>2, <2>1
  <1> HIDE DEF str
  <1>9. startsWith(seg, This, s, same) <=> IsPrefix(s, str)
    BY <1>1, <1>6, <1>7 DEF startsWith, same
  <1>10. endsWith(seg, This, s, same) <=> IsSuffix(s, str)
    BY <1>1, <1>6, <1>8 DEF endsWith, same
  <1>11. IsPrefix(s, str) => startsWith(seg, This, s, lower)
    BY <1>1, <1>6, <1>7 DEF startsWith
  <1> QED BY <1>9, <1>10, <1>11 DEF AffixesAgree, str

-----------------------------------------------------------------------------
(* write. *)

\* What is stored: the bytes written in their place, the others as they were.
LEMMA StoredFacts ==
    ASSUME BInv, NEW pos \in Nat, NEW s \in Patterns
    PROVE  LET d == Stored(seg, This, pos, s)
               c == Count(This, pos, Len(s))
           IN  /\ d \in Seq(Chars) /\ Len(d) = Len(data)
               /\ \A i \in 1 .. Size :
                    d[i] = IF i - begin_ - pos \in 1 .. c THEN s[i - begin_ - pos] ELSE data[i]
  <1> DEFINE d == Stored(seg, This, pos, s)
             c == Count(This, pos, Len(s))
             at0 == Offsets(begin_ + pos, c)
  <1>1. Inside(This) /\ This.b = begin_ /\ This.e = end_ /\ Shape /\ seg \in Segs
    BY DEF BInv, This, View, Inside
  <1>2. /\ begin_ \in Nat /\ data \in Seq(Chars) /\ Size \in Nat /\ Size = Len(data)
        /\ DOMAIN data = 1 .. Size /\ \A i \in 1 .. Size : data[i] \in Chars
    BY <1>1, LenProperties, ElementOfSeq DEF BInv, Shape, Size
  <1>3. s \in Seq(Chars) /\ Len(s) \in Nat /\ \A k \in 1 .. Len(s) : s[k] \in Chars
    BY PatternFacts, ElementOfSeq
  <1>4. copy(seg, This, pos, Len(s)).at = at0 /\ c \in 0 .. Len(s)
    BY <1>1, <1>3, ViewCopies
  <1> HIDE DEF c
  <1>5. DOMAIN at0 = 1 .. c /\ \A k \in 1 .. c : at0[k] = begin_ + pos + k - 1
    BY DEF Offsets
  <1>6. d = [i \in 1 .. Size |-> IF \E k \in DOMAIN at0 : at0[k] = i - 1
                                 THEN s[CHOOSE k \in DOMAIN at0 : at0[k] = i - 1] ELSE data[i]]
    BY <1>2, <1>4 DEF Stored
  <1> HIDE DEF d, at0
  <1>7. ASSUME NEW i \in 1 .. Size
        PROVE  /\ d[i] = IF i - begin_ - pos \in 1 .. c THEN s[i - begin_ - pos] ELSE data[i]
               /\ d[i] \in Chars
    <2> DEFINE j == i - begin_ - pos
    <2>1. ASSUME NEW k \in 1 .. c PROVE at0[k] = i - 1 <=> k = j
      BY <1>2, <1>5
    <2>2. CASE j \in 1 .. c
      <3>1. \E k \in DOMAIN at0 : at0[k] = i - 1
        BY <1>5, <2>1, <2>2
      <3>2. (CHOOSE k \in DOMAIN at0 : at0[k] = i - 1) = j
        <4> DEFINE x == CHOOSE k \in DOMAIN at0 : at0[k] = i - 1
        <4>1. x \in DOMAIN at0 /\ at0[x] = i - 1
          BY <3>1
        <4> HIDE DEF x
        <4>2. x = j
          BY <1>5, <2>1, <4>1
        <4> QED BY <4>2 DEF x
      <3>3. j \in 1 .. Len(s)
        BY <1>3, <1>4, <2>2
      <3> HIDE DEF j
      <3>4. d[i] = s[j]
        BY <1>6, <3>1, <3>2
      <3> QED BY <1>3, <2>2, <3>3, <3>4 DEF j
    <2>3. CASE j \notin 1 .. c
      <3>1. ~\E k \in DOMAIN at0 : at0[k] = i - 1
        BY <1>5, <2>1, <2>3
      <3> QED BY <1>2, <1>6, <2>3, <3>1
    <2> QED BY <2>2, <2>3
  <1>8. DOMAIN d = 1 .. Size /\ d = [i \in 1 .. Size |-> d[i]]
    BY <1>6
  <1>9. d \in [1 .. Size -> Chars]
    BY <1>7, <1>8
  <1>10. d \in Seq(Chars)
    BY <1>2, <1>9, SeqDef
  <1>11. Len(d) = Len(data)
    BY <1>2, <1>8, <1>10, LenProperties
  <1> QED BY <1>7, <1>10, <1>11 DEF c, d

\* write() stores in its place.
LEMMA WriteIsRight == ASSUME BInv, NEW s \in Patterns PROVE WriteAgrees(s)
  <1>1. Inside(This) /\ This.b = begin_ /\ This.e = end_ /\ Shape
    BY DEF BInv, This, View, Inside
  <1>2. Len(Str(This)) = end_ - begin_
    BY <1>1, StrFacts
  <1>3. begin_ \in Nat /\ end_ \in Nat /\ Size \in Nat /\ DOMAIN data = 1 .. Size
    BY <1>1, LenProperties DEF BInv, Shape, Size
  <1>4. DOMAIN s = 1 .. Len(s) /\ Len(s) \in Nat
    BY PatternFacts
  <1> SUFFICES ASSUME NEW pos \in 0 .. end_ - begin_ - 1, NEW i \in 1 .. Size
               PROVE  Stored(seg, This, pos, s)[i] =
                        IF i - begin_ - pos \in 1 .. Len(s) /\ i <= end_
                        THEN s[i - begin_ - pos] ELSE data[i]
    BY <1>2, <1>3, <1>4 DEF WriteAgrees
  <1> DEFINE c == Count(This, pos, Len(s))
  <1>5. pos \in Nat /\ pos < end_ - begin_
    BY <1>3
  <1>6. c = IF end_ - begin_ - pos <= Len(s) THEN end_ - begin_ - pos ELSE Len(s)
    BY <1>1, <1>3, <1>5 DEF Count
  <1>7. Stored(seg, This, pos, s)[i] =
          IF i - begin_ - pos \in 1 .. c THEN s[i - begin_ - pos] ELSE data[i]
    BY <1>5, StoredFacts
  <1> HIDE DEF c
  <1>8. i - begin_ - pos \in 1 .. c <=> i - begin_ - pos \in 1 .. Len(s) /\ i <= end_
    <2>1. CASE end_ - begin_ - pos <= Len(s)
      <3>1. c = end_ - begin_ - pos
        BY <1>6, <2>1
      <3> QED BY <1>3, <1>4, <1>5, <2>1, <3>1
    <2>2. CASE ~(end_ - begin_ - pos <= Len(s))
      <3>1. c = Len(s)
        BY <1>6, <2>2
      <3> QED BY <1>3, <1>4, <1>5, <2>2, <3>1
    <2> QED BY <2>1, <2>2
  <1> QED BY <1>7, <1>8

-----------------------------------------------------------------------------
(* find and split. *)

\* pat is stored from offset p on.
Occurs(pat, p) == \A j \in 1 .. Len(pat) : data[p + j] = pat[j]

\* None of the places before p, at which pat would end before e, has it,
NoneBefore(p, b, e, pat) == \A q \in b .. p - 1 : q + Len(pat) <= e => ~Occurs(pat, q)

\* and r is the first that has, or the end.
FirstPlace(r, b, e, pat) ==
  /\ r \in b .. e /\ NoneBefore(r, b, e, pat)
  /\ r < e => r + Len(pat) <= e /\ Occurs(pat, r)

\* A string at a place of another one,
IsAt(s, pat, q) == SubSeq(s, q + 1, q + Len(pat)) = pat

\* and the same by its elements.
LEMMA PlaceBy ==
    ASSUME NEW S, NEW s \in Seq(S), NEW pat \in Seq(S), NEW q \in Nat, q + Len(pat) <= Len(s)
    PROVE  IsAt(s, pat, q) <=> \A i \in 1 .. Len(pat) : s[q + i] = pat[i]
  <1> DEFINE l == Len(pat)
             u == q + l
             t == SubSeq(s, q + 1, u)
  <1>1. l \in Nat /\ u \in Nat /\ q <= u /\ u <= Len(s) /\ u - q = l
    BY LenProperties
  <1> HIDE DEF u, l
  <1>2. t \in Seq(S) /\ Len(t) = u - q /\ \A i \in 1 .. u - q : t[i] = s[q + i]
    BY <1>1, PieceFacts
  <1>3. t \in Seq(S) /\ Len(t) = l /\ \A i \in 1 .. l : t[i] = s[q + i]
    BY <1>1, <1>2
  <1> HIDE DEF t
  <1>4. t = pat <=> \A i \in 1 .. l : t[i] = pat[i]
    <2>1. Len(pat) = l /\ Len(t) = l /\ l \in Nat /\ t \in Seq(S)
      BY <1>1, <1>3 DEF l
    <2> QED BY <2>1, EqualBy
  <1> QED BY <1>3, <1>4 DEF t, u, l, IsAt

\* s is what is stored from offset p on.
StoredAt(s, p) == \A i \in 1 .. Len(s) : s[i] = data[p + i]

\* Range::find on bytes of the storage.
LEMMA RangeFindFacts ==
    ASSUME NEW pat \in Patterns, NEW p \in Nat, NEW n \in Nat, NEW s \in Seq(Chars),
           Len(s) = n, StoredAt(s, p)
    PROVE  LET k == RangeFind(s, pat)
           IN  k \in 0 .. n /\ FirstPlace(p + k, p, p + n, pat)
  <1> DEFINE l == Len(pat)
             P == {k \in 0 .. n - l : SubSeq(s, k + 1, k + l) = pat}
             M == P \union {n}
             k == Min(M)
  <1>1. pat \in Seq(Chars) /\ l \in Nat /\ l > 0
    BY PatternFacts
  <1>2. ASSUME NEW q \in 0 .. n - l PROVE SubSeq(s, q + 1, q + l) = pat <=> Occurs(pat, p + q)
    <2>1. q \in Nat /\ q + l <= Len(s)
      BY <1>1
    <2>2. SubSeq(s, q + 1, q + l) = pat <=> \A i \in 1 .. l : s[q + i] = pat[i]
      <3> HIDE DEF P, M, k
      <3>1. s \in Seq(Chars) /\ pat \in Seq(Chars) /\ q \in Nat /\ q + Len(pat) <= Len(s)
        BY <1>1, <2>1
      <3>2. IsAt(s, pat, q) <=> \A i \in 1 .. Len(pat) : s[q + i] = pat[i]
        BY <3>1, PlaceBy
      <3> QED BY <3>2 DEF IsAt
    <2> HIDE DEF l
    <2>3. ASSUME NEW i \in 1 .. l PROVE s[q + i] = data[(p + q) + i]
      <3>1. q + i \in 1 .. n /\ p + (q + i) = (p + q) + i
        BY <1>1, <2>1
      <3> QED BY <3>1 DEF StoredAt
    <2> QED BY <2>2, <2>3 DEF Occurs, l
  <1>3. M \in SUBSET Nat /\ M # {}
    BY <1>1
  <1>4. k \in M /\ \A y \in M : k <= y
    <2> HIDE DEF M
    <2> QED BY <1>3, MinSet
  <1>5. RangeFind(s, pat) = k
    BY Zenon DEF RangeFind
  <1> HIDE DEF k
  <1>6. k \in 0 .. n
    BY <1>1, <1>4
  <1>7. k < n => k \in 0 .. n - l /\ Occurs(pat, p + k)
    BY <1>2, <1>4
  <1>8. NoneBefore(p + k, p, p + n, pat)
    <2> SUFFICES ASSUME NEW q \in p .. (p + k) - 1, q + l <= p + n, Occurs(pat, q) PROVE FALSE
      BY DEF NoneBefore
    <2>1. q - p \in 0 .. n - l /\ p + (q - p) = q /\ q - p < k
      BY <1>1, <1>6
    <2>2. q - p \in P
      BY <1>2, <2>1
    <2>3. k <= q - p
      BY <1>4, <2>2
    <2> QED BY <1>6, <2>1, <2>3
  <1> QED BY <1>1, <1>5, <1>6, <1>7, <1>8 DEF FirstPlace

\* What the loop of FileBuffer::find knows after some turns.
Finding(b, e, pat) ==
  {x \in [seg : Segs, pos : Nat, val : Nat, done : BOOLEAN] :
     IF x.done THEN FirstPlace(x.val, b, e, pat)
     ELSE x.pos \in b .. e - 1 /\ x.val = e /\ NoneBefore(x.pos, b, e, pat)}

\* A turn finds the first place or goes on in the next window.
LEMMA FindTurnFacts ==
    ASSUME Shape, NEW b \in Nat, NEW e \in Nat, e <= Size, NEW pat \in Patterns,
           NEW acc \in Finding(b, e, pat)
    PROVE  LET new == FindTurn(acc, e, pat)
           IN  /\ new \in Finding(b, e, pat) /\ (acc.done => new.done)
               /\ new.done \/ new.pos > acc.pos
  <1>1. CASE acc.done
    BY <1>1 DEF FindTurn
  <1>2. CASE ~acc.done
    <2> DEFINE pos == acc.pos
               l == Len(pat)
               after == window * (pos \div window) + window
               finish == after + l >= e
               upto == IF finish THEN e ELSE after + l
               len == upto - pos
               range == AtRange(acc.seg, pos, len)
               s == [i \in 1 .. len |-> Byte(range, pos + i - 1)]
               k == RangeFind(s, pat)
               new == [seg |-> range, pos |-> after, val |-> IF k < len THEN pos + k ELSE e,
                       done |-> k < len \/ finish]
    <2>1. /\ acc.seg \in Segs /\ pos \in b .. e - 1 /\ pos \in Nat /\ pos < e
          /\ NoneBefore(pos, b, e, pat) /\ Size \in Nat
      BY <1>2, LenProperties DEF Finding, Shape, Size
    <2>2. FindTurn(acc, e, pat) = new
      BY <1>2 DEF FindTurn
    <2>3. l \in Nat /\ l > 0
      BY PatternFacts
    <2>4. after \in Nat /\ pos < after
      <3> HIDE DEF pos
      <3>1. window \in Nat \ {0}
        BY DEF Shape
      <3>2. window * (pos \div window) \in Nat /\ pos < window * (pos \div window) + window
        BY <2>1, <3>1, DivFacts
      <3> QED BY <2>1, <3>1, <3>2
    <2> HIDE DEF after, l
    <2>5. upto \in Nat /\ pos < upto /\ upto <= e /\ (upto = e \/ (upto = after + l /\ ~finish))
      BY <2>1, <2>3, <2>4
    <2> HIDE DEF pos
    <2>6. finish => upto = e
      OBVIOUS
    <2>7. finish \/ (~finish /\ after < e /\ upto = after + l)
      BY <2>3, <2>4
    <2> HIDE DEF upto, finish
    <2>8. len \in Nat /\ len > 0 /\ pos + len = upto
      BY <2>1, <2>5
    <2>9. range \in Segs /\ mapped(range, pos, upto)
      BY <2>1, <2>5, <2>8, RangeMapped DEF AtRange
    <2> HIDE DEF len, range
    <2>10. ASSUME NEW i \in 1 .. len PROVE Byte(range, pos + i - 1) = data[pos + i] /\ data[pos + i] \in Chars
      <3>1. pos + i - 1 \in Nat /\ pos <= pos + i - 1 /\ pos + i - 1 < upto /\ pos + i - 1 < Size
        BY <2>1, <2>5, <2>8
      <3>2. Byte(range, pos + i - 1) = data[(pos + i - 1) + 1]
        BY <2>1, <2>5, <2>9, <3>1, MappedBehind
      <3>3. (pos + i - 1) + 1 = pos + i /\ pos + i \in 1 .. Size
        BY <2>1, <3>1
      <3>4. data[pos + i] \in Chars
        BY <3>3, ElementOfSeq DEF Shape, Size
      <3> QED BY <3>2, <3>3, <3>4
    <2>11. s \in Seq(Chars) /\ Len(s) = len /\ StoredAt(s, pos)
      <3>1. s \in [1 .. len -> Chars] /\ DOMAIN s = 1 .. len /\ \A i \in 1 .. len : s[i] = data[pos + i]
        BY <2>10
      <3> HIDE DEF s
      <3>2. s \in Seq(Chars)
        BY <2>8, <3>1, SeqDef
      <3>3. Len(s) = len
        BY <2>8, <3>1, <3>2, LenProperties
      <3> QED BY <3>1, <3>2, <3>3 DEF StoredAt
    <2> HIDE DEF s
    <2>12. k \in 0 .. len /\ FirstPlace(pos + k, pos, upto, pat)
      BY <2>1, <2>8, <2>11, RangeFindFacts
    <2> HIDE DEF k
    <2>13. ASSUME NEW q \in Int, b <= q, q < pos + k, q + l <= upto PROVE ~Occurs(pat, q)
      <3>1. CASE q < pos
        <4>1. q \in b .. pos - 1 /\ q + l <= e
          BY <2>1, <2>3, <2>5, <2>13, <3>1
        <4> QED BY <2>1, <4>1 DEF NoneBefore, l
      <3>2. CASE q >= pos
        <4>1. q \in pos .. pos + k - 1
          BY <2>1, <2>12, <2>13, <3>2
        <4> QED BY <2>12, <2>13, <4>1 DEF FirstPlace, NoneBefore, l
      <3> QED BY <2>1, <3>1, <3>2
    <2>14. CASE k < len
      <3>1. pos + k < upto /\ pos + k \in b .. e /\ pos + k \in Nat
        BY <2>1, <2>5, <2>8, <2>12, <2>14
      <3>2. pos + k + l <= upto /\ Occurs(pat, pos + k)
        BY <2>12, <3>1 DEF FirstPlace, l
      <3>3. ASSUME NEW q \in b .. (pos + k) - 1 PROVE ~Occurs(pat, q)
        <4>1. q \in Int /\ b <= q /\ q < pos + k /\ q + l <= upto
          BY <2>1, <2>3, <2>5, <2>12, <3>2
        <4> QED BY <2>13, <4>1
      <3>4. pos + k + l <= e
        BY <2>1, <2>3, <2>5, <2>12, <3>2
      <3>5. FirstPlace(pos + k, b, e, pat)
        <4>1. NoneBefore(pos + k, b, e, pat)
          BY <3>3 DEF NoneBefore
        <4> QED BY <3>1, <3>2, <3>4, <4>1 DEF FirstPlace, l
      <3>6. new = [seg |-> range, pos |-> after, val |-> pos + k, done |-> TRUE]
        BY <2>14
      <3>7. new \in Finding(b, e, pat) /\ new.done
        BY <2>4, <2>9, <3>1, <3>5, <3>6 DEF Finding
      <3> QED BY <1>2, <2>2, <3>7
    <2>15. CASE ~(k < len)
      <3>0. k = len
        BY <2>8, <2>12, <2>15
      <3>1. CASE finish
        <4>1. NoneBefore(e, b, e, pat)
          <5> SUFFICES ASSUME NEW q \in b .. e - 1, q + l <= e PROVE ~Occurs(pat, q)
            BY DEF NoneBefore, l
          <5>1. q \in Int /\ b <= q /\ q < pos + k /\ q + l <= upto
            BY <2>6, <2>8, <3>0, <3>1
          <5> QED BY <2>13, <5>1
        <4>2. e \in b .. e
          BY <2>1
        <4>3. FirstPlace(e, b, e, pat)
          BY <4>1, <4>2 DEF FirstPlace
        <4>4. new = [seg |-> range, pos |-> after, val |-> e, done |-> TRUE]
          BY <2>15, <3>1
        <4>5. new \in Finding(b, e, pat) /\ new.done
          BY <2>4, <2>9, <4>3, <4>4 DEF Finding
        <4> QED BY <1>2, <2>2, <4>5
      <3>2. CASE ~finish
        <4>1. after < e /\ upto = after + l
          BY <2>7, <3>2
        <4>2. NoneBefore(after, b, e, pat)
          <5> SUFFICES ASSUME NEW q \in b .. after - 1 PROVE ~Occurs(pat, q)
            BY DEF NoneBefore
          <5>1. q \in Int /\ b <= q /\ q < pos + k /\ q + l <= upto
            BY <2>3, <2>4, <2>8, <3>0, <4>1
          <5> QED BY <2>13, <5>1
        <4>3. after \in b .. e - 1
          BY <2>1, <2>4, <4>1
        <4>4. new = [seg |-> range, pos |-> after, val |-> e, done |-> FALSE]
          BY <2>15, <3>2
        <4>5. new \in Finding(b, e, pat) /\ new.pos > acc.pos
          BY <2>4, <2>9, <4>2, <4>3, <4>4 DEF Finding, pos
        <4> QED BY <1>2, <2>2, <4>5
      <3> QED BY <3>1, <3>2
    <2> QED BY <2>14, <2>15
  <1> QED BY <1>1, <1>2

\* FileBuffer::find gives the first place.
LEMMA FileFinds ==
    ASSUME Shape, NEW m \in Segs, NEW b \in Nat, NEW e \in Nat, b <= e, e <= Size,
           NEW pat \in Patterns
    PROVE  LET f == FileFind(m, b, e, pat) IN f.seg \in Segs /\ FirstPlace(f.val, b, e, pat)
  <1>p. Len(pat) \in Nat /\ Len(pat) > 0
    BY PatternFacts
  <1>a. CASE Len(pat) > e - b
    <2>1. FileFind(m, b, e, pat) = [seg |-> m, val |-> e]
      BY <1>a DEF FileFind
    <2>2. NoneBefore(e, b, e, pat)
      BY <1>a, <1>p DEF NoneBefore
    <2>3. FirstPlace(e, b, e, pat)
      BY <2>2 DEF FirstPlace
    <2> QED BY <2>1, <2>3
  <1>b. CASE ~(Len(pat) > e - b)
    <2> DEFINE X == Finding(b, e, pat)
               len == e - b
               x0 == [seg |-> m, pos |-> b, val |-> e, done |-> FALSE]
               F == [n \in 1 .. len |-> [x \in X |-> FindTurn(x, e, pat)]]
               after[n \in 0 .. len] == IF n = 0 THEN [seg |-> m, pos |-> b, val |-> e, done |-> FALSE]
                                        ELSE FindTurn(after[n - 1], e, pat)
    <2>0. len \in Nat /\ b < e
      BY <1>b, <1>p
    <2>1. x0 \in X
      <3>1. NoneBefore(b, b, e, pat) /\ b \in b .. e - 1
        BY <2>0 DEF NoneBefore
      <3> QED BY <3>1 DEF Finding
    <2>2. \A x \in X : FindTurn(x, e, pat) \in X
      BY FindTurnFacts
    <2>7. FileFind(m, b, e, pat) = after[len]
      BY <1>b, Zenon DEF FileFind, after
    <2>s. after = CHOOSE f : f = [n \in 0 .. len |-> IF n = 0 THEN [seg |-> m, pos |-> b, val |-> e, done |-> FALSE] ELSE FindTurn(f[n - 1], e, pat)]
      BY Zenon DEF after
    <2> HIDE DEF X, len
    <2>3. F \in Steps(len, X)
      BY <2>2 DEF Steps
    <2>4. PICK g : Iterates(g, len, X, x0, F)
      <3> HIDE DEF F, x0
      <3> QED BY <2>0, <2>1, <2>3, Recursion
    <2>5. g = [n \in 0 .. len |-> IF n = 0 THEN [seg |-> m, pos |-> b, val |-> e, done |-> FALSE] ELSE FindTurn(g[n - 1], e, pat)]
      <3>1. g = [n \in 0 .. len |-> g[n]] /\ g[0] = x0
        BY <2>4 DEF Iterates
      <3>2. ASSUME NEW n \in 1 .. len PROVE g[n] = FindTurn(g[n - 1], e, pat)
        <4>1. n - 1 \in 0 .. len
          BY <2>0
        <4>2. g[n - 1] \in X /\ g[n] = F[n][g[n - 1]]
          BY <2>4, <4>1 DEF Iterates
        <4> QED BY <4>2
      <3>3. \A n \in 0 .. len : n = 0 \/ n \in 1 .. len
        BY <2>0
      <3>4. \A n \in 0 .. len : g[n] = IF n = 0 THEN x0 ELSE FindTurn(g[n - 1], e, pat)
        BY <3>1, <3>2, <3>3
      <3> QED BY <3>1, <3>4
    <2> HIDE DEF after
    <2>6. after = [n \in 0 .. len |-> IF n = 0 THEN [seg |-> m, pos |-> b, val |-> e, done |-> FALSE] ELSE FindTurn(after[n - 1], e, pat)]
      BY <2>5, <2>s, Zenon
    <2>8. after[0] = x0 /\ \A n \in 1 .. len : after[n] = FindTurn(after[n - 1], e, pat)
      <3>1. \A n \in 0 .. len : after[n] = IF n = 0 THEN x0 ELSE FindTurn(after[n - 1], e, pat)
        BY <2>6
      <3>2. 0 \in 0 .. len /\ \A n \in 1 .. len : n \in 0 .. len /\ n # 0
        BY <2>0
      <3> QED BY <3>1, <3>2
    <2>9. after \in [0 .. len -> X]
      <3>1. DOMAIN after = 0 .. len /\ after = [n \in 0 .. len |-> after[n]]
        BY <2>6
      <3>2. \A n \in 1 .. len : after[n - 1] \in X => after[n] \in X
        BY <2>2, <2>8
      <3>3. after[0] \in X
        BY <2>1, <2>8
      <3> QED BY <2>0, <3>1, <3>2, <3>3, RecursionType
    <2> DEFINE S == {n \in Nat : n <= len => after[n].done \/ after[n].pos >= b + n}
    <2>10. 0 \in S
      BY <2>8
    <2>11. ASSUME NEW n \in Nat, n \in S PROVE n + 1 \in S
      <3> SUFFICES ASSUME n + 1 <= len PROVE after[n + 1].done \/ after[n + 1].pos >= b + (n + 1)
        OBVIOUS
      <3>1. n + 1 \in 1 .. len /\ (n + 1) - 1 = n /\ n \in 0 .. len /\ n + 1 \in 0 .. len
        BY <2>0
      <3>2. after[n] \in X /\ after[n + 1] \in X /\ after[n + 1] = FindTurn(after[n], e, pat)
        BY <2>8, <2>9, <3>1
      <3>3. /\ after[n].pos \in Nat /\ after[n + 1].pos \in Nat
            /\ after[n].done \in BOOLEAN /\ after[n + 1].done \in BOOLEAN
        BY <3>2 DEF X, Finding
      <3>4. /\ after[n].done => after[n + 1].done
            /\ after[n + 1].done \/ after[n + 1].pos > after[n].pos
        BY <3>2, FindTurnFacts DEF X
      <3>5. after[n].done \/ after[n].pos >= b + n
        BY <2>11, <3>1
      <3>6. after[n].pos >= b + n /\ after[n + 1].pos > after[n].pos
            => after[n + 1].pos >= b + (n + 1)
        BY <3>3
      <3> QED BY <3>4, <3>5, <3>6
    <2> HIDE DEF S
    <2>12. len \in S
      BY <2>0, <2>10, <2>11, InductionOnSet
    <2>13. after[len] \in X
      <3>1. len \in 0 .. len
        BY <2>0
      <3> QED BY <2>9, <3>1
    <2>14. /\ after[len].seg \in Segs /\ after[len].pos \in Nat /\ after[len].done \in BOOLEAN
           /\ IF after[len].done THEN FirstPlace(after[len].val, b, e, pat)
              ELSE after[len].pos \in b .. e - 1
      BY <2>13 DEF X, Finding
    <2>15. after[len].done
      <3>1. after[len].done \/ after[len].pos >= b + len
        BY <2>0, <2>12 DEF S
      <3>2. after[len].pos >= b + len => after[len].pos \notin b .. e - 1
        BY <2>0, <2>14 DEF len
      <3> QED BY <2>14, <3>1, <3>2
    <2> QED BY <2>7, <2>14, <2>15
  <1> QED BY <1>a, <1>b

\* So do both storages.
LEMMA Finds ==
    ASSUME Shape, NEW m \in Segs, NEW b \in Nat, NEW e \in Nat, b <= e, e <= Size,
           NEW pat \in Patterns
    PROVE  LET f == Find(m, b, e, pat) IN f.seg \in Segs /\ FirstPlace(f.val, b, e, pat)
  <1>1. CASE kind = "file"
    BY <1>1, FileFinds DEF Find
  <1>2. CASE kind # "file"
    <2>1. Len(pat) \in Nat /\ Len(pat) > 0
      BY PatternFacts
    <2>2. CASE Len(pat) > e - b
      <3>1. Find(m, b, e, pat) = [seg |-> m, val |-> e]
        BY <1>2, <2>2 DEF Find, StringFind
      <3>2. NoneBefore(e, b, e, pat)
        BY <2>1, <2>2 DEF NoneBefore
      <3>3. FirstPlace(e, b, e, pat)
        BY <3>2 DEF FirstPlace
      <3> QED BY <3>1, <3>3
    <2>3. CASE ~(Len(pat) > e - b)
      <3> DEFINE s == SubSeq(data, b + 1, e)
                 k == RangeFind(s, pat)
      <3>1. data \in Seq(Chars) /\ e <= Len(data)
        BY DEF Shape, Size
      <3>2. s \in Seq(Chars) /\ Len(s) = e - b /\ \A i \in 1 .. e - b : s[i] = data[b + i]
        BY <3>1, PieceFacts
      <3>3. Find(m, b, e, pat) = [seg |-> m, val |-> b + k]
        BY <1>2, <2>3 DEF Find, StringFind
      <3> HIDE DEF s
      <3>4. e - b \in Nat /\ b + (e - b) = e
        OBVIOUS
      <3>5. k \in 0 .. e - b /\ FirstPlace(b + k, b, b + (e - b), pat)
        <4>1. StoredAt(s, b)
          BY <3>2 DEF StoredAt
        <4>2. s \in Seq(Chars) /\ Len(s) = e - b
          BY <3>2
        <4> QED BY <3>4, <4>1, <4>2, RangeFindFacts
      <3> QED BY <3>3, <3>4, <3>5
    <2> QED BY <2>2, <2>3
  <1> QED BY <1>1, <1>2

\* The views split() gives: the parts before and after the first delimiter, or
\* the whole and nothing.
LEMMA SplitFacts ==
    ASSUME BInv, NEW s \in Patterns
    PROVE  LET r == split(seg, This, s)
           IN  /\ r.seg \in Segs /\ r.ok \in BOOLEAN
               /\ ~r.ok => /\ r.first = This /\ r.second = Nil
                           /\ NoneBefore(end_, begin_, end_, s)
               /\ r.ok => \E p \in Nat :
                    /\ begin_ <= p /\ p + Len(s) <= end_ /\ Occurs(s, p)
                    /\ NoneBefore(p, begin_, end_, s)
                    /\ r.first = View(begin_, p) /\ r.second = View(p + Len(s), end_)
  <1> DEFINE f == Find(seg, begin_, end_, s)
             r == split(seg, This, s)
  <1>1. This.b = begin_ /\ This.e = end_ /\ Shape /\ seg \in Segs
    BY DEF BInv, This, View
  <1>2. begin_ \in Nat /\ end_ \in Nat /\ begin_ <= end_ /\ end_ <= Size
    BY DEF BInv
  <1>3. f.seg \in Segs /\ FirstPlace(f.val, begin_, end_, s)
    BY <1>1, <1>2, Finds
  <1>4. Len(s) \in Nat /\ Len(s) > 0
    BY PatternFacts
  <1> DEFINE p == f.val
  <1>5. p \in Nat /\ p \in begin_ .. end_ /\ NoneBefore(p, begin_, end_, s)
    BY <1>2, <1>3 DEF FirstPlace
  <1>6. r = IF begin_ = end_ \/ p - begin_ = end_ - begin_
            THEN [seg |-> IF begin_ = end_ THEN seg ELSE f.seg, ok |-> FALSE,
                  first |-> This, second |-> Nil]
            ELSE [seg |-> f.seg, ok |-> TRUE, first |-> View(begin_, begin_ + (p - begin_)),
                  second |-> View(begin_ + (p - begin_) + Len(s), end_)]
    BY <1>1 DEF split, empty
  <1>7. begin_ + (p - begin_) = p /\ (p - begin_ = end_ - begin_ <=> p = end_)
    BY <1>2, <1>5
  <1> HIDE DEF f, r, p
  <1>8. CASE begin_ = end_ \/ p = end_
    <2>1. r.ok = FALSE /\ r.first = This /\ r.second = Nil /\ r.seg \in Segs
      BY <1>1, <1>3, <1>6, <1>7, <1>8
    <2>2. NoneBefore(end_, begin_, end_, s)
      BY <1>2, <1>5, <1>8 DEF NoneBefore
    <2> QED BY <2>1, <2>2 DEF r
  <1>9. CASE ~(begin_ = end_ \/ p = end_)
    <2>1. /\ r.ok = TRUE /\ r.seg \in Segs
          /\ r.first = View(begin_, p) /\ r.second = View(p + Len(s), end_)
      BY <1>3, <1>6, <1>7, <1>9
    <2>2. p < end_
      BY <1>2, <1>5, <1>9
    <2>3. begin_ <= p /\ p + Len(s) <= end_ /\ Occurs(s, p)
      BY <1>3, <1>5, <2>2 DEF FirstPlace, p
    <2> QED BY <1>5, <2>1, <2>3 DEF r
  <1> QED BY <1>8, <1>9

\* A place of a delimiter in the string of the view.
LEMMA PlaceInside ==
    ASSUME BInv, NEW s \in Patterns, NEW k \in 0 .. (end_ - begin_) - Len(s)
    PROVE  SubSeq(Str(This), k + 1, k + Len(s)) = s <=> Occurs(s, begin_ + k)
  <1> DEFINE str == Str(This)
             n == end_ - begin_
             l == Len(s)
  <1>1. Inside(This) /\ This.b = begin_ /\ This.e = end_
    BY DEF BInv, This, View, Inside
  <1>2. /\ str \in Seq(Chars) /\ Len(str) = n /\ n \in Nat /\ begin_ \in Nat
        /\ \A i \in 1 .. n : str[i] = data[begin_ + i]
    BY <1>1, StrFacts DEF BInv
  <1>3. s \in Seq(Chars) /\ l \in Nat
    BY PatternFacts
  <1>4. k \in Nat /\ k + l <= n /\ k + l <= Len(str)
    BY <1>2, <1>3
  <1> HIDE DEF str, n
  <1>5. SubSeq(str, k + 1, k + l) = s <=> \A i \in 1 .. l : str[k + i] = s[i]
    <2>1. str \in Seq(Chars) /\ s \in Seq(Chars) /\ k \in Nat /\ k + Len(s) <= Len(str)
      BY <1>2, <1>3, <1>4
    <2>2. IsAt(str, s, k) <=> \A i \in 1 .. Len(s) : str[k + i] = s[i]
      BY <2>1, PlaceBy
    <2> QED BY <2>2 DEF IsAt
  <1> HIDE DEF l
  <1>6. ASSUME NEW i \in 1 .. l PROVE str[k + i] = data[(begin_ + k) + i]
    <2>1. k + i \in 1 .. n /\ begin_ + (k + i) = (begin_ + k) + i
      BY <1>2, <1>3, <1>4
    <2> QED BY <1>2, <2>1
  <1> QED BY <1>5, <1>6 DEF Occurs, l, str

\* split() cuts at the first delimiter.
LEMMA SplitIsRight == ASSUME BInv, NEW s \in Patterns PROVE SplitAgrees(s)
  <1> DEFINE str == Str(This)
             n == end_ - begin_
             l == Len(s)
             r == split(seg, This, s)
             places == {k \in 0 .. n - l : SubSeq(str, k + 1, k + l) = s}
  <1>1. Inside(This) /\ This.b = begin_ /\ This.e = end_ /\ Shape
    BY DEF BInv, This, View, Inside
  <1>2. /\ begin_ \in Nat /\ end_ \in Nat /\ begin_ <= end_ /\ end_ <= Size /\ Size \in Nat
    BY <1>1, LenProperties DEF BInv, Shape, Size
  <1>3. /\ str \in Seq(Chars) /\ Len(str) = n /\ n \in Nat
        /\ \A i \in 1 .. n : str[i] = data[begin_ + i]
    BY <1>1, StrFacts
  <1>4. s \in Seq(Chars) /\ l \in Nat /\ l > 0
    BY PatternFacts
  <1>5. /\ r.ok \in BOOLEAN
        /\ ~r.ok => /\ r.first = This /\ r.second = Nil
                    /\ NoneBefore(end_, begin_, end_, s)
        /\ r.ok => \E p \in Nat :
             /\ begin_ <= p /\ p + l <= end_ /\ Occurs(s, p)
             /\ NoneBefore(p, begin_, end_, s)
             /\ r.first = View(begin_, p) /\ r.second = View(p + l, end_)
    BY SplitFacts
  <1>6. \A k \in 0 .. n - l : k \in places <=> Occurs(s, begin_ + k)
    BY PlaceInside
  <1>7. places \in SUBSET Nat /\ \A k \in places : k \in 0 .. n - l
    BY <1>3, <1>4
  <1>8. SplitAgrees(s) <=>
          /\ r.ok <=> places # {}
          /\ r.ok => Str(r.first) \o s \o Str(r.second) = str /\ Len(Str(r.first)) = Min(places)
          /\ ~r.ok => Str(r.first) = str /\ Str(r.second) = <<>>
    BY <1>3, Zenon DEF SplitAgrees
  <1> HIDE DEF r, places, str
  <1>9. CASE ~r.ok
    <2>1. places = {}
      <3> SUFFICES ASSUME NEW k \in places PROVE FALSE
        OBVIOUS
      <3>1. k \in 0 .. n - l /\ Occurs(s, begin_ + k)
        BY <1>6, <1>7
      <3>2. begin_ + k \in begin_ .. end_ - 1 /\ (begin_ + k) + l <= end_
        BY <1>2, <1>3, <1>4, <3>1
      <3> QED BY <1>5, <1>9, <3>1, <3>2 DEF NoneBefore
    <2>2. Str(r.first) = str
      BY <1>5, <1>9 DEF str
    <2>3. Str(r.second) = <<>>
      <3>1. Inside(Nil) /\ Nil.b = 0 /\ Nil.e = 0
        BY <1>2 DEF Inside, Nil, View
      <3>2. Str(Nil) \in Seq(Chars) /\ Len(Str(Nil)) = 0
        BY <1>1, <3>1, StrFacts
      <3> QED BY <1>5, <1>9, <3>2, EmptySeq
    <2> QED BY <1>8, <1>9, <2>1, <2>2, <2>3
  <1>10. CASE r.ok
    <2>1. PICK p \in Nat :
             /\ begin_ <= p /\ p + l <= end_ /\ Occurs(s, p)
             /\ NoneBefore(p, begin_, end_, s)
             /\ r.first = View(begin_, p) /\ r.second = View(p + l, end_)
      BY <1>5, <1>10
    <2> DEFINE x == Str(r.first)
               y == Str(r.second)
               k0 == p - begin_
    <2> HIDE DEF l
    <2>2. k0 \in 0 .. n - l /\ begin_ + k0 = p /\ k0 \in Nat
      BY <1>2, <1>4, <2>1
    <2>3. k0 \in places
      BY <1>6, <2>1, <2>2
    <2>4. \A k \in places : k0 <= k
      <3> SUFFICES ASSUME NEW k \in places, k < k0 PROVE FALSE
        BY <1>7, <2>2
      <3>1. k \in 0 .. n - l /\ Occurs(s, begin_ + k)
        BY <1>6, <1>7
      <3>2. begin_ + k \in begin_ .. p - 1 /\ (begin_ + k) + l <= end_
        BY <1>2, <1>3, <1>4, <2>2, <3>1
      <3> QED BY <2>1, <3>1, <3>2 DEF NoneBefore, l
    <2>5. Min(places) = k0
      <3>1. Min(places) \in places /\ \A q \in places : Min(places) <= q
        BY <1>7, <2>3, MinSet
      <3>2. Min(places) <= k0 /\ k0 <= Min(places) /\ Min(places) \in Nat
        BY <1>7, <2>3, <2>4, <3>1
      <3> QED BY <2>2, <3>2
    <2>6. x \in Seq(Chars) /\ Len(x) = k0 /\ \A i \in 1 .. k0 : x[i] = data[begin_ + i]
      <3>1. Inside(r.first) /\ r.first.b = begin_ /\ r.first.e = p
        BY <1>2, <1>4, <2>1 DEF Inside, View
      <3> QED BY <1>1, <3>1, StrFacts
    <2>7. /\ y \in Seq(Chars) /\ Len(y) = n - l - k0
          /\ \A i \in 1 .. n - l - k0 : y[i] = data[(p + l) + i]
      <3>1. Inside(r.second) /\ r.second.b = p + l /\ r.second.e = end_
        BY <1>2, <1>4, <2>1 DEF Inside, View
      <3>2. end_ - (p + l) = n - l - k0
        BY <1>2, <1>4
      <3>3. /\ y \in Seq(Chars) /\ Len(y) = end_ - (p + l)
            /\ \A i \in 1 .. end_ - (p + l) : y[i] = data[(p + l) + i]
        BY <1>1, <3>1, StrFacts
      <3> QED BY <3>2, <3>3
    <2> HIDE DEF x, y, k0, n
    <2>8. x \o s \in Seq(Chars) /\ Len(x \o s) = k0 + l
      BY <1>4, <2>6, ConcatProperties DEF l
    <2> DEFINE z == (x \o s) \o y
    <2>9. z \in Seq(Chars) /\ Len(z) = n
      <3>1. z \in Seq(Chars) /\ Len(z) = Len(x \o s) + Len(y)
        BY <2>7, <2>8, ConcatProperties
      <3>2. Len(z) = (k0 + l) + (n - l - k0)
        BY <2>7, <2>8, <3>1
      <3> HIDE DEF z
      <3>3. n \in Nat /\ l \in Nat /\ k0 \in Nat
        BY <1>3, <1>4, <2>2
      <3>4. (k0 + l) + (n - l - k0) = n
        BY <3>3
      <3> QED BY <3>1, <3>2, <3>4
    <2>10. ASSUME NEW i \in 1 .. n PROVE z[i] = str[i]
      <3>1. str[i] = data[begin_ + i]
        BY <1>3
      <3>2. CASE i <= k0
        <4>1. i \in 1 .. k0 + l /\ i \in 1 .. k0
          BY <1>3, <1>4, <2>2, <3>2
        <4>2. z[i] = (x \o s)[i]
          BY <2>7, <2>8, <2>9, <4>1, ConcatProperties
        <4>3. (x \o s)[i] = x[i]
          BY <1>4, <2>6, <2>8, <4>1, ConcatProperties
        <4> QED BY <2>6, <3>1, <4>1, <4>2, <4>3
      <3>3. CASE k0 < i /\ i <= k0 + l
        <4>1. i \in 1 .. k0 + l /\ i - k0 \in 1 .. l /\ p + (i - k0) = begin_ + i
          BY <1>2, <1>3, <1>4, <2>2, <3>3
        <4>2. z[i] = (x \o s)[i]
          BY <2>7, <2>8, <2>9, <4>1, ConcatProperties
        <4>3. (x \o s)[i] = s[i - k0]
          BY <1>4, <2>2, <2>6, <2>8, <3>3, <4>1, ConcatProperties
        <4>4. data[p + (i - k0)] = s[i - k0]
          BY <2>1, <4>1 DEF Occurs, l
        <4> QED BY <3>1, <4>1, <4>2, <4>3, <4>4
      <3>4. CASE k0 + l < i
        <4>1. i - (k0 + l) \in 1 .. n - l - k0 /\ (p + l) + (i - (k0 + l)) = begin_ + i
          BY <1>2, <1>3, <1>4, <2>2, <3>4
        <4>2. z[i] = y[i - (k0 + l)]
          BY <1>3, <2>7, <2>8, <2>9, <3>4, ConcatProperties
        <4> QED BY <2>7, <3>1, <4>1, <4>2
      <3>5. i <= k0 \/ (k0 < i /\ i <= k0 + l) \/ k0 + l < i
        BY <1>3, <1>4, <2>2
      <3> QED BY <3>2, <3>3, <3>4, <3>5
    <2> HIDE DEF z
    <2>11. z = str
      BY <1>3, <2>9, <2>10, EqualBy
    <2> QED BY <1>8, <1>10, <2>3, <2>5, <2>6, <2>11 DEF x, y, z
  <1> QED BY <1>5, <1>9, <1>10

-----------------------------------------------------------------------------
(* trim. *)

\* The loop in front stops here.
Stops(x, e) == x < e => data[x + 1] \notin Spaces

\* What it has after some turns.
Trimming(b, e) ==
  {x \in [seg : Segs, val : b .. e] : \A i \in b .. x.val - 1 : data[i + 1] \in Spaces}

\* A turn takes one character of white space.
LEMMA TrimTurnFacts ==
    ASSUME Shape, NEW b \in Nat, NEW e \in Nat, e <= Size, NEW acc \in Trimming(b, e)
    PROVE  LET new == TrimTurn(acc, e)
           IN  /\ new \in Trimming(b, e) /\ acc.val \in b .. e
               /\ Stops(acc.val, e) => new.val = acc.val
               /\ ~Stops(acc.val, e) => new.val = acc.val + 1
  <1> DEFINE x == acc.val
             r == ImplAt(acc.seg, x)
             new == TrimTurn(acc, e)
  <1>1. acc.seg \in Segs /\ x \in b .. e /\ x \in Nat /\ \A i \in b .. x - 1 : data[i + 1] \in Spaces
    BY DEF Trimming
  <1>2. CASE x = e
    BY <1>1, <1>2 DEF TrimTurn, Stops
  <1>3. CASE x # e
    <2>1. x < e /\ x < Size /\ Size \in Nat
      BY <1>1, <1>3, LenProperties DEF Shape, Size
    <2>2. r.seg \in Segs /\ r.val = data[x + 1]
      BY <1>1, <2>1, AtAnswers
    <2>3. new = [seg |-> r.seg, val |-> IF r.val \in Spaces THEN x + 1 ELSE x]
      BY <1>3 DEF TrimTurn
    <2> HIDE DEF r, new
    <2>4. CASE data[x + 1] \in Spaces
      <3>1. new = [seg |-> r.seg, val |-> x + 1] /\ ~Stops(x, e)
        BY <2>1, <2>2, <2>3, <2>4 DEF Stops
      <3>2. x + 1 \in b .. e
        BY <1>1, <2>1
      <3>3. ASSUME NEW i \in b .. (x + 1) - 1 PROVE data[i + 1] \in Spaces
        <4>1. i \in b .. x - 1 \/ i = x
          BY <1>1
        <4> QED BY <1>1, <2>4, <4>1
      <3>4. new \in Trimming(b, e)
        BY <2>2, <3>1, <3>2, <3>3 DEF Trimming
      <3> QED BY <1>1, <3>1, <3>4 DEF new
    <2>5. CASE data[x + 1] \notin Spaces
      <3>1. new = [seg |-> r.seg, val |-> x] /\ Stops(x, e)
        BY <2>1, <2>2, <2>3, <2>5 DEF Stops
      <3>2. new \in Trimming(b, e)
        BY <1>1, <2>2, <3>1 DEF Trimming
      <3> QED BY <1>1, <3>1, <3>2 DEF new
    <2> QED BY <2>4, <2>5
  <1> QED BY <1>2, <1>3

\* The loop in front takes all the white space there is.
LEMMA TrimsFront ==
    ASSUME Shape, NEW m \in Segs, NEW b \in Nat, NEW e \in Nat, b <= e, e <= Size
    PROVE  LET f == TrimFront(m, b, e) IN f \in Trimming(b, e) /\ Stops(f.val, e)
  <1> DEFINE X == Trimming(b, e)
             len == e - b
             x0 == [seg |-> m, val |-> b]
             F == [n \in 1 .. len |-> [x \in X |-> TrimTurn(x, e)]]
             after[n \in 0 .. len] == IF n = 0 THEN [seg |-> m, val |-> b]
                                      ELSE TrimTurn(after[n - 1], e)
  <1>0. len \in Nat
    OBVIOUS
  <1>1. x0 \in X
    <2>1. b \in b .. e /\ \A i \in b .. b - 1 : FALSE
      OBVIOUS
    <2> QED BY <2>1 DEF Trimming
  <1>2. \A x \in X : TrimTurn(x, e) \in X
    BY TrimTurnFacts
  <1>7. TrimFront(m, b, e) = after[len]
    BY Zenon DEF TrimFront, after
  <1>s. after = CHOOSE f : f = [n \in 0 .. len |-> IF n = 0 THEN [seg |-> m, val |-> b] ELSE TrimTurn(f[n - 1], e)]
    BY Zenon DEF after
  <1> HIDE DEF X, len
  <1>3. F \in Steps(len, X)
    BY <1>2 DEF Steps
  <1>4. PICK g : Iterates(g, len, X, x0, F)
    <2> HIDE DEF F, x0
    <2> QED BY <1>0, <1>1, <1>3, Recursion
  <1>5. g = [n \in 0 .. len |-> IF n = 0 THEN [seg |-> m, val |-> b] ELSE TrimTurn(g[n - 1], e)]
    <2>1. g = [n \in 0 .. len |-> g[n]] /\ g[0] = x0
      BY <1>4 DEF Iterates
    <2>2. ASSUME NEW n \in 1 .. len PROVE g[n] = TrimTurn(g[n - 1], e)
      <3>1. n - 1 \in 0 .. len
        BY <1>0
      <3>2. g[n - 1] \in X /\ g[n] = F[n][g[n - 1]]
        BY <1>4, <3>1 DEF Iterates
      <3> QED BY <3>2
    <2>3. \A n \in 0 .. len : n = 0 \/ n \in 1 .. len
      BY <1>0
    <2>4. \A n \in 0 .. len : g[n] = IF n = 0 THEN x0 ELSE TrimTurn(g[n - 1], e)
      BY <2>1, <2>2, <2>3
    <2> QED BY <2>1, <2>4
  <1> HIDE DEF after
  <1>6. after = [n \in 0 .. len |-> IF n = 0 THEN [seg |-> m, val |-> b] ELSE TrimTurn(after[n - 1], e)]
    BY <1>5, <1>s, Zenon
  <1>8. after[0] = x0 /\ \A n \in 1 .. len : after[n] = TrimTurn(after[n - 1], e)
    <2>1. \A n \in 0 .. len : after[n] = IF n = 0 THEN x0 ELSE TrimTurn(after[n - 1], e)
      BY <1>6
    <2>2. 0 \in 0 .. len /\ \A n \in 1 .. len : n \in 0 .. len /\ n # 0
      BY <1>0
    <2> QED BY <2>1, <2>2
  <1>9. after \in [0 .. len -> X]
    <2>1. DOMAIN after = 0 .. len /\ after = [n \in 0 .. len |-> after[n]]
      BY <1>6
    <2>2. \A n \in 1 .. len : after[n - 1] \in X => after[n] \in X
      BY <1>2, <1>8
    <2>3. after[0] \in X
      BY <1>1, <1>8
    <2> QED BY <1>0, <2>1, <2>2, <2>3, RecursionType
  <1> DEFINE S == {n \in Nat : n <= len => Stops(after[n].val, e) \/ after[n].val >= b + n}
  <1>10. 0 \in S
    BY <1>8
  <1>11. ASSUME NEW n \in Nat, n \in S PROVE n + 1 \in S
    <2> SUFFICES ASSUME n + 1 <= len
                 PROVE  Stops(after[n + 1].val, e) \/ after[n + 1].val >= b + (n + 1)
      OBVIOUS
    <2>1. n + 1 \in 1 .. len /\ (n + 1) - 1 = n /\ n \in 0 .. len /\ n + 1 \in 0 .. len
      BY <1>0
    <2>2. after[n] \in X /\ after[n + 1] = TrimTurn(after[n], e)
      BY <1>8, <1>9, <2>1
    <2>3. /\ after[n].val \in b .. e
          /\ Stops(after[n].val, e) => after[n + 1].val = after[n].val
          /\ ~Stops(after[n].val, e) => after[n + 1].val = after[n].val + 1
      BY <2>2, TrimTurnFacts DEF X
    <2>4. Stops(after[n].val, e) \/ after[n].val >= b + n
      BY <1>11, <2>1
    <2>5. CASE Stops(after[n].val, e)
      BY <2>3, <2>5
    <2>6. CASE ~Stops(after[n].val, e)
      BY <2>3, <2>4, <2>6
    <2> QED BY <2>5, <2>6
  <1> HIDE DEF S
  <1>12. len \in S
    BY <1>0, <1>10, <1>11, InductionOnSet
  <1>13. after[len] \in X
    <2>1. len \in 0 .. len
      BY <1>0
    <2> QED BY <1>9, <2>1
  <1>14. Stops(after[len].val, e)
    <2>1. Stops(after[len].val, e) \/ after[len].val >= b + len
      BY <1>0, <1>12 DEF S
    <2>2. after[len].val \in b .. e
      BY <1>13, TrimTurnFacts DEF X
    <2>3. after[len].val >= b + len => after[len].val = e
      BY <2>2 DEF len
    <2> QED BY <2>1, <2>3 DEF Stops
  <1> QED BY <1>7, <1>13, <1>14 DEF X

\* The loop at the end goes back over what is white space, T.
Back(f, e, T) == Min({x \in f .. e : \A i \in x .. e - 1 : i \in T})

\* It stops behind what is not white space.
LEMMA TrimsBack ==
    ASSUME NEW f \in Nat, NEW e \in Nat, f <= e, NEW T
    PROVE  LET back == Back(f, e, T)
           IN  /\ back \in f .. e /\ \A i \in back .. e - 1 : i \in T
               /\ back > f => back - 1 \notin T
  <1> DEFINE M == {x \in f .. e : \A i \in x .. e - 1 : i \in T}
             back == Min(M)
  <1>1. e \in M /\ M \in SUBSET Nat
    OBVIOUS
  <1>2. back \in M /\ \A y \in M : back <= y
    <2> HIDE DEF M
    <2> QED BY <1>1, MinSet
  <1> HIDE DEF back
  <1>3. back \in f .. e /\ \A i \in back .. e - 1 : i \in T
    BY <1>2
  <1>4. ASSUME back > f, back - 1 \in T PROVE FALSE
    <2>1. back - 1 \in f .. e
      BY <1>3, <1>4
    <2>2. ASSUME NEW i \in (back - 1) .. e - 1 PROVE i \in T
      <3>1. i = back - 1 \/ i \in back .. e - 1
        BY <1>3
      <3> QED BY <1>3, <1>4, <3>1
    <2>3. back - 1 \in M
      BY <2>1, <2>2
    <2>4. back <= back - 1
      BY <1>2, <2>3
    <2> QED BY <1>3, <2>4
  <1> QED BY <1>3, <1>4 DEF back, Back

\* What trim() leaves of a view.
Trimmed(v) ==
  /\ v \in [b : Nat, e : Nat] /\ begin_ <= v.b /\ v.b <= v.e /\ v.e <= end_
  /\ \A i \in begin_ + 1 .. v.b : data[i] \in Spaces
  /\ v.b < v.e => data[v.b + 1] \notin Spaces
  /\ kind = "string" => /\ v.b < v.e => data[v.e] \notin Spaces
                        /\ \A i \in v.e + 1 .. end_ : data[i] \in Spaces

\* trim() does so, in every outcome.
LEMMA TrimFacts ==
    ASSUME BInv, NEW r \in trim(seg, This)
    PROVE  r.seg \in Segs /\ Trimmed(r.view)
  <1>1. This = [b |-> begin_, e |-> end_] /\ This.b = begin_ /\ This.e = end_ /\ Shape /\ seg \in Segs
    BY DEF BInv, This, View
  <1>2. begin_ \in Nat /\ end_ \in Nat /\ begin_ <= end_ /\ end_ <= Size /\ kind \in {"string", "file"}
    BY DEF BInv, Shape
  <1>3. CASE begin_ = end_
    <2>1. r = [seg |-> seg, view |-> This]
      BY <1>1, <1>3 DEF trim, empty
    <2>2. Trimmed(This)
      BY <1>1, <1>2, <1>3 DEF Trimmed
    <2> QED BY <1>1, <2>1, <2>2
  <1>4. CASE begin_ # end_
    <2> DEFINE front == TrimFront(seg, begin_, end_)
               f == front.val
    <2>1. front \in Trimming(begin_, end_) /\ Stops(f, end_)
      BY <1>1, <1>2, TrimsFront
    <2>2. /\ front.seg \in Segs /\ f \in begin_ .. end_ /\ f \in Nat
          /\ \A i \in begin_ .. f - 1 : data[i + 1] \in Spaces
      BY <1>2, <2>1 DEF Trimming
    <2>3. PICK t \in ImplTrim(seg, begin_, end_) :
            r = [seg |-> t.seg, view |-> [b |-> t.first, e |-> t.second]]
      BY <1>1, <1>4 DEF trim, empty, View
    <2>4. ASSUME NEW i \in begin_ + 1 .. f PROVE data[i] \in Spaces
      <3>1. i - 1 \in begin_ .. f - 1 /\ (i - 1) + 1 = i
        BY <1>2, <2>2
      <3> QED BY <2>2, <3>1
    <2>5. CASE kind = "file"
      <3>1. PICK x \in f .. end_ : t = [seg |-> front.seg, first |-> f, second |-> x]
        BY <2>3, <2>5 DEF FileTrim, ImplTrim
      <3> HIDE DEF f, front
      <3>3. f < x => data[f + 1] \notin Spaces
        BY <1>2, <2>1, <2>2 DEF Stops
      <3> DEFINE v == [b |-> f, e |-> x]
      <3>4. /\ v \in [b : Nat, e : Nat] /\ begin_ <= v.b /\ v.b <= v.e /\ v.e <= end_
            /\ v.b = f /\ v.e = x
        BY <1>2, <2>2
      <3>5. r = [seg |-> front.seg, view |-> v]
        BY <2>3, <3>1
      <3> HIDE DEF v
      <3>6. Trimmed(v)
        BY <2>4, <2>5, <3>3, <3>4 DEF Trimmed
      <3> QED BY <2>2, <3>5, <3>6
    <2>6. CASE kind = "string"
      <3> DEFINE T == {i \in Nat : data[i + 1] \in Spaces}
                 back == Min({x \in f .. end_ : \A i \in x .. end_ - 1 : data[i + 1] \in Spaces})
                 B == Back(f, end_, T)
      <3>1. t = [seg |-> seg, first |-> f, second |-> back]
        BY <2>3, <2>6 DEF StringTrim, ImplTrim
      <3> HIDE DEF f, front
      <3>a. \A x \in f .. end_ : \A i \in x .. end_ - 1 : i \in Nat
        BY <1>2, <2>2
      <3>b. {x \in f .. end_ : \A i \in x .. end_ - 1 : i \in T} =
              {x \in f .. end_ : \A i \in x .. end_ - 1 : data[i + 1] \in Spaces}
        BY <3>a
      <3>c. back = B
        BY <3>b, Zenon DEF Back
      <3> HIDE DEF back
      <3>2. B \in f .. end_ /\ (\A i \in B .. end_ - 1 : i \in T) /\ (B > f => B - 1 \notin T)
        <4> HIDE DEF T
        <4>1. f \in Nat /\ end_ \in Nat /\ f <= end_
          BY <1>2, <2>2
        <4> QED BY <4>1, TrimsBack
      <3> HIDE DEF B
      <3>d. back \in f .. end_ /\ (\A i \in back .. end_ - 1 : i \in T) /\ (back > f => back - 1 \notin T)
        BY <3>2, <3>c
      <3>3. f < back => data[f + 1] \notin Spaces
        BY <1>2, <2>1, <2>2, <3>d DEF Stops
      <3>4. f < back => data[back] \notin Spaces
        <4>1. f < back => back - 1 \in Nat /\ (back - 1) + 1 = back
          BY <1>2, <2>2, <3>d
        <4> QED BY <2>2, <3>d, <4>1
      <3>5. ASSUME NEW i \in back + 1 .. end_ PROVE data[i] \in Spaces
        <4>1. i - 1 \in back .. end_ - 1 /\ (i - 1) + 1 = i
          BY <1>2, <2>2, <3>d
        <4> QED BY <3>d, <4>1
      <3> HIDE DEF T
      <3> DEFINE v == [b |-> f, e |-> back]
      <3>6. /\ v \in [b : Nat, e : Nat] /\ begin_ <= v.b /\ v.b <= v.e /\ v.e <= end_
            /\ v.b = f /\ v.e = back
        BY <1>2, <2>2, <3>d
      <3>7. r = [seg |-> seg, view |-> v]
        BY <2>3, <3>1
      <3> HIDE DEF v
      <3>8. Trimmed(v)
        BY <2>4, <2>6, <3>3, <3>4, <3>5, <3>6 DEF Trimmed
      <3> QED BY <1>1, <3>7, <3>8
    <2> QED BY <1>2, <2>5, <2>6
  <1> QED BY <1>3, <1>4

\* What trim() leaves, of the string the view stands for.
LEMMA TrimIsRight == ASSUME BInv PROVE TrimStrips
  <1> DEFINE Stripped(v, str) ==
          /\ begin_ <= v.b /\ v.b <= v.e /\ v.e <= end_
          /\ \A i \in begin_ + 1 .. v.b : data[i] \in Spaces
          /\ str # <<>> => Head(str) \notin Spaces
          /\ kind = "string" => (str # <<>> => Last(str) \notin Spaces)
                                /\ \A i \in v.e + 1 .. end_ : data[i] \in Spaces
  <1> SUFFICES ASSUME NEW t \in trim(seg, This) PROVE Stripped(t.view, Str(t.view))
    BY Zenon DEF TrimStrips
  <1> DEFINE v == t.view
             str == Str(v)
  <1>1. Trimmed(v)
    BY TrimFacts
  <1> HIDE DEF v
  <1>3. Shape /\ begin_ \in Nat /\ end_ \in Nat /\ end_ <= Size /\ Size \in Nat
    BY LenProperties DEF BInv, Shape, Size
  <1>4. v \in [b : Nat, e : Nat] /\ begin_ <= v.b /\ v.b <= v.e /\ v.e <= end_
    BY <1>1 DEF Trimmed
  <1>5. Inside(v) /\ v.b \in Nat /\ v.e \in Nat
    BY <1>3, <1>4 DEF Inside
  <1>6. /\ str \in Seq(Chars) /\ Len(str) = v.e - v.b
        /\ \A i \in 1 .. v.e - v.b : str[i] = data[v.b + i]
    BY <1>3, <1>5, StrFacts
  <1> HIDE DEF str
  <1>7. ASSUME str # <<>>
        PROVE  v.b < v.e /\ Head(str) = data[v.b + 1] /\ Last(str) = data[v.e]
    <2>1. Len(str) # 0
      BY <1>6, <1>7, EmptySeq
    <2>2. /\ v.b < v.e /\ 1 \in 1 .. v.e - v.b /\ v.e - v.b \in 1 .. v.e - v.b
          /\ v.b + (v.e - v.b) = v.e
      BY <1>4, <1>5, <1>6, <2>1
    <2>3. Head(str) = str[1] /\ Last(str) = str[v.e - v.b]
      BY <1>6, <1>7 DEF Last
    <2> QED BY <1>6, <2>2, <2>3
  <1>8. Stripped(v, str)
    BY <1>1, <1>7 DEF Trimmed
  <1> QED BY <1>8 DEF v, str

-----------------------------------------------------------------------------
(* The inductive invariant. *)

\* What the operations change, and what has to be shown of it.
LEMMA StaysShaped ==
    ASSUME BInv, kind' = kind, page' = page, window' = window,
           data' \in Seq(Chars), Len(data') <= MaxSize, seg' \in Segs,
           begin_' \in Nat, end_' \in Nat, begin_' <= end_', end_' <= Len(data')
    PROVE  BInv'
  <1>1. Segs' = Segs
    BY DEF Segs
  <1> QED BY <1>1 DEF BInv, Shape, Size

\* checkWindow never gives an empty window.
LEMMA WindowFacts ==
    ASSUME NEW p \in Nat \ {0}, NEW w \in Nat
    PROVE  CheckWindow(p, w) \in Nat \ {0}
  <1>1. CASE w = 0
    BY <1>1 DEF CheckWindow
  <1>2. CASE w # 0
    <2> DEFINE k == w \div p + (IF w % p = 0 THEN 0 ELSE 1)
    <2>1. w \div p \in Nat /\ w % p \in Nat /\ w = p * (w \div p) + (w % p)
      OBVIOUS
    <2>2. k \in Nat /\ k # 0
      <3>1. w % p # 0 => k = w \div p + 1
        OBVIOUS
      <3>2. w % p = 0 => k = w \div p
        BY <2>1
      <3>3. w % p = 0 => w \div p # 0
        BY <1>2, <2>1
      <3> QED BY <2>1, <3>1, <3>2, <3>3
    <2>3. CheckWindow(p, w) = p * k
      BY <1>2 DEF CheckWindow
    <2> HIDE DEF k
    <2>4. p * k \in Nat /\ p * k # 0
      BY <2>2
    <2> QED BY <2>3, <2>4
  <1> QED BY <1>1, <1>2

\* A buffer as it is made.
LEMMA BInvInit == ASSUME Init PROVE BInv
  <1>1. page \in Nat \ {0}
    BY BuffersAssumption DEF Init
  <1>2. window \in Nat \ {0}
    <2>1. PICK w \in Windows : window = CheckWindow(page, w)
      BY DEF Init
    <2>2. w \in Nat
      BY BuffersAssumption
    <2> QED BY <1>1, <2>1, <2>2, WindowFacts
  <1>3. data \in Seq(Chars) /\ Len(data) <= MaxSize /\ Len(data) \in Nat
    <2>1. PICK n \in 0 .. MaxSize : data \in [1 .. n -> Chars]
      BY DEF Init, SeqOf
    <2>2. n \in Nat /\ n <= MaxSize
      BY <2>1, BuffersAssumption
    <2>3. data \in Seq(Chars)
      BY <2>1, <2>2, SeqDef
    <2>4. DOMAIN data = 1 .. n /\ DOMAIN data = 1 .. Len(data) /\ Len(data) \in Nat
      BY <2>1, <2>3, LenProperties
    <2>5. Len(data) = n
      BY <2>2, <2>4
    <2> QED BY <2>2, <2>3, <2>5
  <1>4. Shape
    BY <1>1, <1>2, <1>3 DEF Shape, Init
  <1>5. seg \in Segs
    BY <1>4, FreshMapping DEF Init
  <1> QED BY <1>3, <1>4, <1>5 DEF BInv, Init, Size

\* The facts of a state that the steps use.
LEMMA BInvFacts ==
    ASSUME BInv
    PROVE  /\ Shape /\ seg \in Segs /\ Inside(This) /\ This.b = begin_ /\ This.e = end_
           /\ begin_ \in Nat /\ end_ \in Nat /\ Size \in Nat /\ begin_ <= end_ /\ end_ <= Size
           /\ Size <= MaxSize /\ MaxSize \in Nat /\ Size = Len(data) /\ data \in Seq(Chars)
  BY BuffersAssumption, LenProperties DEF BInv, Shape, Size, This, View, Inside

\* at() moves at most the mapping.
LEMMA BInvAt == ASSUME BInv, DoAt PROVE BInv'
  <1>0. /\ Shape /\ seg \in Segs /\ Inside(This) /\ This.b = begin_ /\ This.e = end_
        /\ begin_ \in Nat /\ end_ \in Nat /\ Size \in Nat /\ begin_ <= end_ /\ end_ <= Size
        /\ Size <= MaxSize /\ MaxSize \in Nat /\ Size = Len(data) /\ data \in Seq(Chars)
    BY BInvFacts
  <1>1. PICK pos \in 0 .. MaxSize :
          Moves(at(seg, This, pos).seg) /\ UNCHANGED <<data, begin_, end_>>
    BY DEF DoAt
  <1>2. begin_ + pos \in Nat
    BY <1>0
  <1>3. ImplAt(seg, begin_ + pos).seg \in Segs
    BY <1>0, <1>2, AtAnswers
  <1>4. at(seg, This, pos).seg \in Segs
    BY <1>0, <1>3 DEF at
  <1> QED BY <1>0, <1>1, <1>4, StaysShaped DEF Moves

\* read() moves at most the mapping.
LEMMA BInvRead == ASSUME BInv, DoRead PROVE BInv'
  <1>0. /\ Shape /\ seg \in Segs /\ Inside(This) /\ This.b = begin_ /\ This.e = end_
        /\ begin_ \in Nat /\ end_ \in Nat /\ Size \in Nat /\ begin_ <= end_ /\ end_ <= Size
        /\ Size <= MaxSize /\ MaxSize \in Nat /\ Size = Len(data) /\ data \in Seq(Chars)
    BY BInvFacts
  <1>1. PICK pos \in 0 .. MaxSize, len \in 0 .. MaxSize :
          Moves(copy(seg, This, pos, len).seg) /\ UNCHANGED <<data, begin_, end_>>
    BY DEF DoRead
  <1>2. copy(seg, This, pos, len).seg \in Segs
    <2>1. pos \in Nat /\ len \in Nat
      BY <1>0
    <2> QED BY <1>0, <2>1, ViewCopies
  <1> QED BY <1>0, <1>1, <1>2, StaysShaped DEF Moves

\* write() stores characters, and as many as there were.
LEMMA BInvWrite == ASSUME BInv, DoWrite PROVE BInv'
  <1>0. /\ Shape /\ seg \in Segs /\ Inside(This) /\ This.b = begin_ /\ This.e = end_
        /\ begin_ \in Nat /\ end_ \in Nat /\ Size \in Nat /\ begin_ <= end_ /\ end_ <= Size
        /\ Size <= MaxSize /\ MaxSize \in Nat /\ Size = Len(data) /\ data \in Seq(Chars)
    BY BInvFacts
  <1>1. PICK pos \in 0 .. MaxSize, s \in Patterns :
          /\ data' = Stored(seg, This, pos, s)
          /\ Moves(copy(seg, This, pos, Len(s)).seg)
          /\ UNCHANGED <<begin_, end_>>
    BY DEF DoWrite
  <1>2. pos \in Nat /\ Len(s) \in Nat
    BY <1>0, PatternFacts
  <1>3. copy(seg, This, pos, Len(s)).seg \in Segs
    BY <1>0, <1>2, ViewCopies
  <1>4. data' \in Seq(Chars) /\ Len(data') = Len(data)
    BY <1>1, <1>2, StoredFacts
  <1> QED BY <1>0, <1>1, <1>3, <1>4, StaysShaped DEF Moves

\* Both parts that split() gives are views of the storage.
LEMMA BInvSplit == ASSUME BInv, DoSplit PROVE BInv'
  <1>0. /\ Shape /\ seg \in Segs /\ Inside(This) /\ This.b = begin_ /\ This.e = end_
        /\ begin_ \in Nat /\ end_ \in Nat /\ Size \in Nat /\ begin_ <= end_ /\ end_ <= Size
        /\ Size <= MaxSize /\ MaxSize \in Nat /\ Size = Len(data) /\ data \in Seq(Chars)
    BY BInvFacts
  <1>1. PICK s \in Patterns :
          LET r == split(seg, This, s)
          IN  Moves(r.seg) /\ (Becomes(r.first) \/ Becomes(r.second)) /\ UNCHANGED data
    BY DEF DoSplit
  <1> DEFINE r == split(seg, This, s)
  <1>2. /\ r.seg \in Segs /\ r.ok \in BOOLEAN
        /\ ~r.ok => r.first = This /\ r.second = Nil
        /\ r.ok => \E p \in Nat :
             /\ begin_ <= p /\ p + Len(s) <= end_
             /\ r.first = View(begin_, p) /\ r.second = View(p + Len(s), end_)
    BY SplitFacts
  <1>3. Moves(r.seg) /\ (Becomes(r.first) \/ Becomes(r.second)) /\ data' = data
    BY <1>1
  <1>4. Len(s) \in Nat
    BY PatternFacts
  <1> HIDE DEF r
  <1>5. Inside(r.first) /\ Inside(r.second)
    <2>1. CASE ~r.ok
      <3>1. Inside(Nil)
        BY <1>0 DEF Inside, Nil, View
      <3> QED BY <1>0, <1>2, <2>1, <3>1
    <2>2. CASE r.ok
      <3>1. PICK p \in Nat :
              /\ begin_ <= p /\ p + Len(s) <= end_
              /\ r.first = View(begin_, p) /\ r.second = View(p + Len(s), end_)
        BY <1>2, <2>2
      <3> QED BY <1>0, <1>4, <3>1 DEF Inside, View
    <2> QED BY <1>2, <2>1, <2>2
  <1>6. begin_' \in Nat /\ end_' \in Nat /\ begin_' <= end_' /\ end_' <= Len(data')
    BY <1>0, <1>3, <1>5 DEF Becomes, Inside
  <1> QED BY <1>0, <1>2, <1>3, <1>6, StaysShaped DEF Moves

\* So is what trim() leaves,
LEMMA BInvTrim == ASSUME BInv, DoTrim PROVE BInv'
  <1>0. /\ Shape /\ seg \in Segs /\ Inside(This) /\ This.b = begin_ /\ This.e = end_
        /\ begin_ \in Nat /\ end_ \in Nat /\ Size \in Nat /\ begin_ <= end_ /\ end_ <= Size
        /\ Size <= MaxSize /\ MaxSize \in Nat /\ Size = Len(data) /\ data \in Seq(Chars)
    BY BInvFacts
  <1>1. PICK r \in trim(seg, This) : Moves(r.seg) /\ Becomes(r.view) /\ data' = data
    BY DEF DoTrim
  <1>2. r.seg \in Segs /\ Trimmed(r.view)
    BY TrimFacts
  <1>3. begin_' \in Nat /\ end_' \in Nat /\ begin_' <= end_' /\ end_' <= Len(data')
    BY <1>0, <1>1, <1>2 DEF Becomes, Trimmed
  <1> QED BY <1>0, <1>1, <1>2, <1>3, StaysShaped DEF Moves

\* and what trim(begin, end) leaves: its unsigned subtraction does not wrap.
LEMMA BInvTrimn == ASSUME BInv, DoTrimn PROVE BInv'
  <1>0. /\ Shape /\ seg \in Segs /\ Inside(This) /\ This.b = begin_ /\ This.e = end_
        /\ begin_ \in Nat /\ end_ \in Nat /\ Size \in Nat /\ begin_ <= end_ /\ end_ <= Size
        /\ Size <= MaxSize /\ MaxSize \in Nat /\ Size = Len(data) /\ data \in Seq(Chars)
    BY BInvFacts
  <1>1. PICK b \in 0 .. 2, e \in 0 .. Min({2, end_}) :
          Becomes(trimn(This, b, e)) /\ Moves(seg) /\ UNCHANGED data
    BY DEF DoTrimn
  <1>2. e \in Nat /\ e <= end_
    <2>1. Min({2, end_}) = IF 2 <= end_ THEN 2 ELSE end_
      BY <1>0, MinTwo
    <2> QED BY <1>0, <2>1
  <1>3. (end_ - e) % Word = end_ - e /\ end_ - e \in Nat
    BY <1>0, <1>2, BuffersAssumption
  <1> DEFINE v == trimn(This, b, e)
             c == Max({end_ - e, begin_ + b})
  <1>4. c = IF end_ - e >= begin_ + b THEN end_ - e ELSE begin_ + b
    BY <1>0, <1>3, MaxTwo
  <1>5. v = IF begin_ = end_ THEN This
            ELSE IF begin_ + b >= end_ THEN View(end_, end_) ELSE View(begin_ + b, c)
    BY <1>0, <1>3 DEF trimn, empty
  <1> HIDE DEF c
  <1>6. Inside(v)
    <2>1. CASE begin_ = end_
      BY <1>0, <1>5, <2>1
    <2>2. CASE begin_ # end_ /\ begin_ + b >= end_
      BY <1>0, <1>5, <2>2 DEF Inside, View
    <2>3. CASE begin_ # end_ /\ ~(begin_ + b >= end_)
      <3>1. c \in Nat /\ begin_ + b <= c /\ c <= end_
        BY <1>0, <1>2, <1>3, <1>4, <2>3
      <3> QED BY <1>0, <1>5, <2>3, <3>1 DEF Inside, View
    <2> QED BY <2>1, <2>2, <2>3
  <1> HIDE DEF v
  <1>7. begin_' \in Nat /\ end_' \in Nat /\ begin_' <= end_' /\ end_' <= Len(data') /\ data' = data
    BY <1>0, <1>1, <1>6 DEF Becomes, Inside, v
  <1> QED BY <1>0, <1>1, <1>7, StaysShaped DEF Moves

\* resize() keeps the view in the new storage and maps its start.
LEMMA BInvResize == ASSUME BInv, DoResize PROVE BInv'
  <1>0. /\ Shape /\ seg \in Segs /\ Inside(This) /\ This.b = begin_ /\ This.e = end_
        /\ begin_ \in Nat /\ end_ \in Nat /\ Size \in Nat /\ begin_ <= end_ /\ end_ <= Size
        /\ Size <= MaxSize /\ MaxSize \in Nat /\ Size = Len(data) /\ data \in Seq(Chars)
    BY BInvFacts
  <1>1. PICK n \in 0 .. MaxSize - begin_ :
          /\ data' = [i \in 1 .. begin_ + n |-> IF i <= Size THEN data[i] ELSE 0]
          /\ Becomes(View(begin_, begin_ + n))
          /\ Moves(IF kind = "file" THEN Fresh ELSE seg)
    BY DEF DoResize
  <1> DEFINE k == begin_ + n
  <1>2. k \in Nat /\ begin_ <= k /\ k <= MaxSize
    BY <1>0
  <1>3. data' = [i \in 1 .. k |-> IF i <= Size THEN data[i] ELSE 0] /\ begin_' = begin_ /\ end_' = k
    BY <1>1 DEF Becomes, View
  <1> HIDE DEF k
  <1>4. \A i \in 1 .. k : (IF i <= Size THEN data[i] ELSE 0) \in Chars
    <2>1. \A i \in 1 .. Size : data[i] \in Chars
      BY <1>0, ElementOfSeq
    <2>2. 0 \in Chars
      BY BuffersAssumption
    <2> QED BY <1>0, <1>2, <2>1, <2>2
  <1>5. data' \in [1 .. k -> Chars] /\ DOMAIN data' = 1 .. k
    BY <1>3, <1>4
  <1>6. data' \in Seq(Chars)
    BY <1>2, <1>5, SeqDef
  <1>7. Len(data') = k
    <2>1. DOMAIN data' = 1 .. Len(data') /\ Len(data') \in Nat
      BY <1>6, LenProperties
    <2> QED BY <1>2, <1>5, <2>1
  <1>8. seg' \in Segs
    BY <1>0, <1>1, FreshMapping DEF Moves
  <1> QED BY <1>0, <1>1, <1>2, <1>3, <1>6, <1>7, <1>8, StaysShaped DEF Moves

\* Every step keeps the invariant.
LEMMA BInvStep == ASSUME BInv, [Next]_vars PROVE BInv'
  <1>1. CASE UNCHANGED vars
    BY <1>1 DEF vars, BInv, Shape, Segs, Size
  <1>2. CASE Next
    BY <1>2, BInvAt, BInvRead, BInvWrite, BInvSplit, BInvTrim, BInvTrimn, BInvResize DEF Next
  <1> QED BY <1>1, <1>2

\* DataBuffer, StringBuffer, FileBuffer and MMapFile keep the inductive
\* invariant: the view lies in the storage and the mapping is never empty.
THEOREM BInvariance == Spec => []BInv
  <1>1. Init => BInv
    BY BInvInit
  <1>2. BInv /\ [Next]_vars => BInv'
    BY BInvStep
  <1> QED BY <1>1, <1>2, PTL DEF Spec

\* Whatever was split, trimmed, cut, written or resized before, the view lies
\* in its storage and the file has its mapping, whatever isspace() answers of an
\* index, and trim() takes off the white space in front and, in memory, at the
\* end, and nothing else there, for every page size, window and content.
THEOREM BufferViews == Spec => []Views
  <1>1. ASSUME BInv PROVE Views
    <2>1. ViewInside
      BY <1>1 DEF ViewInside, BInv, Segs
    <2> QED BY <1>1, <2>1, TrimIsRight DEF Views
  <1> QED BY <1>1, BInvariance, PTL

\* at, read, toString, split, startsWith, endsWith and write answer as of a
\* plain string, wherever the operations before left the mapping, for every page
\* size, window and content.
THEOREM BufferAnswers == Spec => []AnswersAgree
  <1>1. ASSUME BInv PROVE AnswersAgree
    <2>1. AtAgrees /\ ReadAgrees /\ Fetch(toString(This)) = Str(This)
      BY <1>1, AtIsRight, ReadIsRight, ToStringIsRight
    <2>2. \A s \in Patterns : SplitAgrees(s) /\ AffixesAgree(s) /\ WriteAgrees(s)
      BY <1>1, SplitIsRight, AffixesAreRight, WriteIsRight
    <2> QED BY <2>1, <2>2 DEF AnswersAgree
  <1> QED BY <1>1, BInvariance, PTL

=============================================================================
