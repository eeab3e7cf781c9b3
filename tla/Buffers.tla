------------------------------ MODULE Buffers ------------------------------
(***************************************************************************)
(* Request bodies as buffers: DataBuffer (library/data_buffer.cpp), a view *)
(* [begin_, end_) of a shared storage that is either a vector              *)
(* (library/string_buffer.cpp) or a file seen through a sliding mapping    *)
(* (request-cache/file_buffer.cpp over request-cache/mmap_file.cpp).       *)
(*                                                                         *)
(* What an operation answers depends on where the mapping was left by the  *)
(* operations before it.  Operators take the mapping m and give the answer *)
(* and the mapping after it; the actions move the mapping, the contents    *)
(* and the view; AnswersAgree compares, in every state reached, what each  *)
(* operation would answer with the same question asked of a plain string.  *)
(* Characters are numbers, as isspace() is applied to indices in one place,*)
(* where it is undefined past MaxChar.                                     *)
(***************************************************************************)
EXTENDS Integers, SequencesExt, FiniteSetsExt

CONSTANTS PageSizes, Windows,  \* getpagesize() and the configured windows
          MaxSize,             \* bound on the size of the storage
          Chars, Spaces,       \* characters, and the codes isspace() accepts
          MaxChar,             \* 255, the greatest argument isspace() is defined for
          Word                 \* 2^64: indices are unsigned and wrap

ASSUME BuffersAssumption ==
  /\ PageSizes \subseteq Nat \ {0} /\ Windows \subseteq Nat
  /\ MaxChar \in Nat
  /\ Chars \subseteq 0 .. MaxChar /\ 0 \in Chars /\ Spaces \subseteq 0 .. MaxChar
  /\ MaxSize \in Nat /\ Word \in Nat /\ 2 * MaxSize < Word

VARIABLES kind,          \* "string" or "file", the class of the storage
          page, window,  \* page_size_ and window_
          data,          \* what is stored
          seg,           \* segment_start_ and segment_len_ of the mapping
          begin_, end_   \* the view

vars == <<kind, page, window, data, seg, begin_, end_>>

Throw == -1   \* an exception
Wild == -2    \* memory outside the mapping or the vector
Size == Len(data)
Patterns == SeqOf(Chars, 2) \ {<<>>}
lower == [c \in Chars |-> IF c = Max(Chars) THEN Max(Chars) - 1 ELSE c]
same == [c \in Chars |-> c]

-----------------------------------------------------------------------------
(* MMapFile *)

\* checkWindow: a whole number of pages, ten if none was asked for.
CheckWindow(p, w) ==
  IF w = 0 THEN 10 * p ELSE p * (w \div p + (IF w % p = 0 THEN 0 ELSE 1))

mapped(m, b, e) == b >= m.start /\ e <= m.start + m.len

\* Variant: only the start of the range is looked for in the mapping.
MapRangeNoCheck(m, b, e) ==
  IF b >= m.start /\ b < m.start + m.len THEN m
  ELSE LET base == page * (b \div page) IN [start |-> base, len |-> e - base]

\* map_range: unmap and mmap, unless the range is mapped already.
map_range(m, b, e) ==
  IF mapped(m, b, e) THEN m
  ELSE LET base == page * (b \div page) IN [start |-> base, len |-> e - base]

map_segment(m, n) == map_range(m, n * window, n * window + window)

\* The constructor and clone() map the first window, after unmap() resize() too.
Fresh == map_segment([start |-> 0, len |-> 0], 0)

\* The file offset behind pointer_ + (i - segment_start_), if it is there.
Behind(m, i) == IF mapped(m, i, i + 1) /\ i < Size THEN i ELSE Wild
Byte(m, i) == IF Behind(m, i) = Wild THEN Wild ELSE data[i + 1]

MMapAt(m, i) ==
  IF i >= Size THEN [seg |-> m, val |-> Throw]
  ELSE LET n == IF mapped(m, i, i + 1) THEN m ELSE map_segment(m, i \div window)
       IN  [seg |-> n, val |-> Byte(n, i)]

\* atRange: the mapping that holds it.
AtRange(m, i, len) == map_range(m, i, i + len)

\* atSegment: the mapping, and the offset at which the chunk from i ends.
AtSegment(m, i) ==
  LET pos == (i \div window) * window
  IN  [seg |-> map_range(m, pos, pos + window), upto |-> Min({pos + window, Size})]

-----------------------------------------------------------------------------
(* FileBuffer and StringBuffer *)

\* One turn of the loop of FileBuffer::read and write: the offsets memcpy
\* touches in the next chunk, if there is anything left to copy.
CopyTurn(acc, pos, len) ==
  LET from == pos + Len(acc.at)
      c == AtSegment(acc.seg, from)
      upto == Min({c.upto, pos + len})
  IN  IF from = pos + len THEN acc
      ELSE [seg |-> c.seg,
            at |-> acc.at \o [k \in 1 .. upto - from |-> Behind(c.seg, from + k - 1)]]

\* Every turn copies something, so that len turns are enough.
FileCopy(m, pos, len) ==
  LET after[n \in 0 .. len] == IF n = 0 THEN [seg |-> m, at |-> <<>>]
                               ELSE CopyTurn(after[n - 1], pos, len)
  IN  IF pos + len > Size THEN [seg |-> m, at |-> <<Throw>>] ELSE after[len]

\* StringBuffer::read and write: a bare memcpy.
StringCopy(m, pos, len) ==
  [seg |-> m, at |-> [k \in 1 .. len |-> IF pos + k > Size THEN Wild ELSE pos + k - 1]]

Copy(m, pos, len) == IF kind = "file" THEN FileCopy(m, pos, len)
                     ELSE StringCopy(m, pos, len)

ImplAt(m, i) == IF kind = "file" THEN MMapAt(m, i)
                ELSE [seg |-> m, val |-> IF i < Size THEN data[i + 1] ELSE Throw]

\* Range::find: the first place of pat, or the end.
RangeFind(s, pat) ==
  Min({k \in 0 .. Len(s) - Len(pat) : SubSeq(s, k + 1, k + Len(pat)) = pat} \union {Len(s)})

\* One turn of the loop of FileBuffer::find, from pos: the rest of the window is
\* searched with the Len(pat) bytes after it.
FindTurn(acc, e, pat) ==
  LET pos == acc.pos
      after == window * (pos \div window) + window
      finish == after + Len(pat) >= e
      len == (IF finish THEN e ELSE after + Len(pat)) - pos
      range == AtRange(acc.seg, pos, len)
      k == RangeFind([i \in 1 .. len |-> Byte(range, pos + i - 1)], pat)
  IN  IF acc.done THEN acc
      ELSE [seg |-> range, pos |-> after, val |-> IF k < len THEN pos + k ELSE e,
            done |-> k < len \/ finish]

\* Every turn goes to another window, so that there are at most e - b.
FileFind(m, b, e, pat) ==
  LET after[n \in 0 .. e - b] == IF n = 0 THEN [seg |-> m, pos |-> b, val |-> e, done |-> FALSE]
                                 ELSE FindTurn(after[n - 1], e, pat)
  IN  IF Len(pat) > e - b THEN [seg |-> m, val |-> e] ELSE after[e - b]

StringFind(m, b, e, pat) ==
  [seg |-> m, val |-> IF Len(pat) > e - b THEN e
                      ELSE b + RangeFind(SubSeq(data, b + 1, e), pat)]

Find(m, b, e, pat) == IF kind = "file" THEN FileFind(m, b, e, pat)
                      ELSE StringFind(m, b, e, pat)

\* The first loop of both trims, by at() in a file: one test of its condition,
\* and the whole of it.
TrimTurn(acc, e) ==
  LET r == ImplAt(acc.seg, acc.val)
  IN  IF acc.val = e THEN acc
      ELSE [seg |-> r.seg, val |-> IF r.val \in Spaces THEN acc.val + 1 ELSE acc.val]

TrimFront(m, b, e) ==
  LET after[n \in 0 .. e - b] == IF n = 0 THEN [seg |-> m, val |-> b]
                                 ELSE TrimTurn(after[n - 1], e)
  IN  after[e - b]

\* FileBuffer::trim: its second loop tests the index end - 1, not the character
\* there.  Past MaxChar isspace() may answer anything, so that there are several
\* outcomes: the loop stops at any x that it can reach and need not pass.
FileTrim(m, b, e) ==
  LET f == TrimFront(m, b, e)
      stops == {x \in f.val .. e :
                  /\ \A i \in x .. e - 1 : i \in Spaces \/ i > MaxChar
                  /\ x > f.val => x - 1 \notin Spaces}
  IN  {[seg |-> f.seg, first |-> f.val, second |-> x] : x \in stops}

\* StringBuffer::trim, Range::trim.
StringTrim(m, b, e) ==
  LET f == TrimFront(m, b, e)
      back == Min({x \in f.val .. e : \A i \in x .. e - 1 : data[i + 1] \in Spaces})
  IN  [seg |-> m, first |-> f.val, second |-> back]

\* segment(pos): where the piece that holds pos ends.
SegmentEnd(pos) == IF kind = "file" THEN window * (pos \div window) + window ELSE Size

-----------------------------------------------------------------------------
(* DataBuffer: operations on the view v of the storage. *)

View(b, e) == [b |-> b, e |-> e]
Nil == View(0, 0)
This == View(begin_, end_)
empty(v) == v.b = v.e

checkIndex(v, i) == (i = 0 /\ v = Nil) \/ (i >= v.b /\ i < v.e)

at(m, v, pos) == IF checkIndex(v, v.b + pos) THEN ImplAt(m, v.b + pos)
                 ELSE [seg |-> m, val |-> Throw]

\* read and write: nothing past the end, and no more than there is.
copy(m, v, pos, len) ==
  IF pos >= v.e - v.b THEN [seg |-> m, at |-> <<>>]
  ELSE Copy(m, pos + v.b, Min({v.e - v.b - pos, len}))

ImplTrim(m, b, e) == IF kind = "file" THEN FileTrim(m, b, e) ELSE {StringTrim(m, b, e)}

\* Variant: the length of what is left is stored in place of its end.
trimLength(m, v) ==
  IF empty(v) THEN {[seg |-> m, view |-> v]}
  ELSE {[seg |-> t.seg, view |-> View(t.first, t.second - t.first)] : t \in ImplTrim(m, v.b, v.e)}

\* The outcomes of trim().
trim(m, v) ==
  IF empty(v) THEN {[seg |-> m, view |-> v]}
  ELSE {[seg |-> t.seg, view |-> View(t.first, t.second)] : t \in ImplTrim(m, v.b, v.e)}

trimn(v, b, e) ==
  IF empty(v) THEN v
  ELSE IF v.b + b >= v.e THEN View(v.e, v.e)
  ELSE View(v.b + b, Max({(v.e - e) % Word, v.b + b}))

\* Both overloads of split.
split(m, v, delim) ==
  LET f == Find(m, v.b, v.e, delim)
      res == f.val - v.b
  IN  IF empty(v) \/ res = v.e - v.b
      THEN [seg |-> IF empty(v) THEN m ELSE f.seg, ok |-> FALSE, first |-> v, second |-> Nil]
      ELSE [seg |-> f.seg, ok |-> TRUE, first |-> View(v.b, v.b + res),
            second |-> View(v.b + res + Len(delim), v.e)]

\* startsWith and endsWith; the ...CI ones compare with norm = lower.
startsWith(m, v, s, norm) ==
  Len(s) <= v.e - v.b /\ \A i \in 1 .. Len(s) : norm[s[i]] = norm[at(m, v, i - 1).val]
endsWith(m, v, s, norm) ==
  Len(s) <= v.e - v.b
  /\ \A i \in 1 .. Len(s) :
       norm[s[Len(s) + 1 - i]] = norm[at(m, v, v.e - v.b - i).val]

\* SegmentIterator: the chunk it is at is appended, operator++ goes to the next;
\* one that has come to the end stays there.
SegmentTurn(m, v, acc) ==
  LET next == Min({SegmentEnd(acc.pos), v.e})
  IN  [pos |-> next, str |-> acc.str \o Copy(m, acc.pos, next - acc.pos).at]

\* All the chunks, through a copy of the storage with its own mapping.
toString(v) ==
  LET m == IF kind = "file" THEN Fresh ELSE seg
      after[n \in 0 .. v.e - v.b] == IF n = 0 THEN [pos |-> v.b, str |-> <<>>]
                                     ELSE SegmentTurn(m, v, after[n - 1])
  IN  after[v.e - v.b].str

-----------------------------------------------------------------------------
Init ==
  /\ kind \in {"string", "file"}
  /\ page \in PageSizes
  /\ \E w \in Windows : window = CheckWindow(page, w)
  /\ kind = "string" => page = Min(PageSizes) /\ window = CheckWindow(page, Min(Windows))
  /\ data \in SeqOf(Chars, MaxSize)
  /\ seg = Fresh
  /\ begin_ = 0 /\ end_ = Len(data)

Moves(m) == seg' = m /\ UNCHANGED <<kind, page, window>>
Becomes(v) == begin_' = v.b /\ end_' = v.e

DoAt == \E pos \in 0 .. MaxSize :
  Moves(at(seg, This, pos).seg) /\ UNCHANGED <<data, begin_, end_>>

DoRead == \E pos \in 0 .. MaxSize, len \in 0 .. MaxSize :
  Moves(copy(seg, This, pos, len).seg) /\ UNCHANGED <<data, begin_, end_>>

\* What memcpy stores when s is written at pos.
Stored(m, v, pos, s) ==
  LET at0 == copy(m, v, pos, Len(s)).at
  IN  [i \in DOMAIN data |->
         IF \E k \in DOMAIN at0 : at0[k] = i - 1
         THEN s[CHOOSE k \in DOMAIN at0 : at0[k] = i - 1] ELSE data[i]]

DoWrite == \E pos \in 0 .. MaxSize, s \in Patterns :
  /\ data' = Stored(seg, This, pos, s)
  /\ Moves(copy(seg, This, pos, Len(s)).seg)
  /\ UNCHANGED <<begin_, end_>>

DoSplit == \E delim \in Patterns :
  LET r == split(seg, This, delim)
  IN  /\ Moves(r.seg)
      /\ Becomes(r.first) \/ Becomes(r.second)
      /\ UNCHANGED data

DoTrim == \E r \in trim(seg, This) :
  Moves(r.seg) /\ Becomes(r.view) /\ UNCHANGED data

\* The callers cut at most what they have seen at the end.
DoTrimn == \E b \in 0 .. 2, e \in 0 .. Min({2, end_}) :
  Becomes(trimn(This, b, e)) /\ Moves(seg) /\ UNCHANGED data

\* resize: the file is unmapped and its start mapped again.
DoResize == \E n \in 0 .. MaxSize - begin_ :
  /\ data' = [i \in 1 .. begin_ + n |-> IF i <= Size THEN data[i] ELSE 0]
  /\ Becomes(View(begin_, begin_ + n))
  /\ Moves(IF kind = "file" THEN Fresh ELSE seg)

Next == DoAt \/ DoRead \/ DoWrite \/ DoSplit \/ DoTrim \/ DoTrimn \/ DoResize

Spec == Init /\ [][Next]_vars

-----------------------------------------------------------------------------
\* The string the view stands for.
Str(v) == SubSeq(data, v.b + 1, v.e)
Fetch(offsets) == [i \in DOMAIN offsets |->
                     IF offsets[i] < 0 THEN offsets[i] ELSE data[offsets[i] + 1]]

\* at() gives the byte asked for or throws.  (checkIndex lets at(0) pass on the
\* view [0, 0): it then reads the storage.)
AtAgrees ==
  \A pos \in 0 .. MaxSize :
    LET c == at(seg, This, pos).val
    IN  IF pos < Len(Str(This)) THEN c = Str(This)[pos + 1]
        ELSE c = Throw \/ (pos = 0 /\ This = Nil /\ c = data[1])

\* read() gives the bytes asked for, as far as there are any.
ReadAgrees ==
  \A pos, len \in 0 .. MaxSize :
    Fetch(copy(seg, This, pos, len).at) =
      SubSeq(Str(This), pos + 1, Min({pos + len, Len(Str(This))}))

\* split() cuts at the first delimiter, even one that lies across windows.
SplitAgrees(s) ==
  LET str == Str(This)
      r == split(seg, This, s)
      places == {k \in 0 .. Len(str) - Len(s) : SubSeq(str, k + 1, k + Len(s)) = s}
  IN  /\ r.ok <=> places # {}
      /\ r.ok => Str(r.first) \o s \o Str(r.second) = str
                 /\ Len(Str(r.first)) = Min(places)
      /\ ~r.ok => Str(r.first) = str /\ Str(r.second) = <<>>

\* startsWith() and endsWith() see prefixes and suffixes.
AffixesAgree(s) ==
  /\ startsWith(seg, This, s, same) <=> IsPrefix(s, Str(This))
  /\ endsWith(seg, This, s, same) <=> IsSuffix(s, Str(This))
  /\ IsPrefix(s, Str(This)) => startsWith(seg, This, s, lower)

\* write() stores what lies inside the view, in its place.
WriteAgrees(s) ==
  \A pos \in 0 .. Len(Str(This)) - 1, i \in DOMAIN data :
    Stored(seg, This, pos, s)[i] =
      IF i - begin_ - pos \in DOMAIN s /\ i <= end_ THEN s[i - begin_ - pos] ELSE data[i]

\* Every operation answers what it would of a plain string, wherever the
\* operations before left the mapping: at() and read() give the bytes asked
\* for and never one from outside the mapping, the segments put together are
\* the whole, split() finds the first delimiter, prefixes and suffixes are
\* seen, and write() stores in its place.
AnswersAgree ==
  /\ AtAgrees /\ ReadAgrees
  /\ Fetch(toString(This)) = Str(This)
  /\ \A s \in Patterns : SplitAgrees(s) /\ AffixesAgree(s) /\ WriteAgrees(s)

\* Whatever was split, trimmed, cut or resized before, a view is a piece of
\* the storage and a file has its mapping, never an empty one.
ViewInside ==
  /\ 0 <= begin_ /\ begin_ <= end_ /\ end_ <= Size
  /\ seg.start % page = 0 /\ seg.len > 0

\* trim() strips the white space in front and nothing else there, and at the end
\* of a buffer in memory.  Of the end of a file, which the code tests by position,
\* it keeps a part that lies in the view it had.
TrimStrips ==
  \A t \in trim(seg, This) :
    LET v == t.view
        str == Str(v)
    IN  /\ begin_ <= v.b /\ v.b <= v.e /\ v.e <= end_
        /\ \A i \in begin_ + 1 .. v.b : data[i] \in Spaces
        /\ str # <<>> => Head(str) \notin Spaces
        /\ kind = "string" => (str # <<>> => Last(str) \notin Spaces)
                              /\ \A i \in v.e + 1 .. end_ : data[i] \in Spaces

\* After any sequence of operations DataBuffer's view lies inside its storage
\* (ViewInside), whatever isspace() answers in FileBuffer::trim, and trim() takes
\* off white space and nothing else in front and, in memory, at the end (TrimStrips).
Views == ViewInside /\ TrimStrips

=============================================================================
