---------------------------- MODULE RequestText ----------------------------
(***************************************************************************)
(* What a request says, taken apart: the URL codec and form parser         *)
(* (library/util.cpp), the header, cookie and multipart parser             *)
(* (library/parser.cpp) and the string ranges under them                   *)
(* (include/details/range.h).                                              *)
(*                                                                         *)
(* Text is a sequence of character codes; a word that is only ever         *)
(* compared as a whole (name, filename, boundary, HTTP_ ...) is one code   *)
(* above 255.  Text in a request body is a Piece: its characters and the   *)
(* offset in the storage of the first one, as DataBuffer has it.           *)
(***************************************************************************)
EXTENDS Integers, SequencesExt, FiniteSetsExt

CONSTANT Window   \* window_ of a body in a file (module Buffers)

TAB == 9
LF == 10
CR == 13
SP == 32
QUOTE == 34
PERCENT == 37
AMP == 38
PLUS == 43
DASH == 45
SEMI == 59
EQ == 61
LOWLINE == 95
NAME == 301
FILENAME == 302
CONTENT_TYPE == 303
BOUNDARY == 304
HTTP_ == 305
COOKIE == 306

isspace(c) == c \in 9 .. 13 \union {SP}
isalnum(c) == c \in 48 .. 57 \union 65 .. 90 \union 97 .. 122

-----------------------------------------------------------------------------
(* Range *)

Piece(off, s) == [off |-> off, s |-> s]
Nil == Piece(0, <<>>)

\* split, at the first delimiter; DataBuffer::split gives [0, 0) as the second
\* part when there is none.
split(p, delim) ==
  LET at == {k \in 0 .. Len(p.s) - Len(delim) : SubSeq(p.s, k + 1, k + Len(delim)) = delim}
      k == Min(at)
      rest == k + Len(delim)
  IN  IF at = {} THEN [ok |-> FALSE, first |-> p, second |-> Nil]
      ELSE [ok |-> TRUE, first |-> Piece(p.off, SubSeq(p.s, 1, k)),
            second |-> Piece(p.off + rest, SubSeq(p.s, rest + 1, Len(p.s)))]

\* trimn(b, e), in the order of its loops.
trimn(p, b, e) ==
  LET n == Len(p.s)
      from == Min({b, n})
  IN  Piece(p.off + from, SubSeq(p.s, from + 1, Max({n - e, from})))

trim(p) ==
  LET text == {i \in DOMAIN p.s : ~isspace(p.s[i])}
  IN  IF text = {} THEN Piece(p.off + Len(p.s), <<>>)
      ELSE trimn(p, Min(text) - 1, Len(p.s) - Max(text))

InMemory == {-1}

\* trim of a body.  In a file the end is tested by its offset, past what isspace()
\* is defined for (Buffers!FileTrim): white are the offsets it says yes to.
trimBuffer(p, white) ==
  LET n == Len(p.s)
      text == {i \in DOMAIN p.s : ~isspace(p.s[i])}
      front == IF text = {} THEN n ELSE Min(text) - 1
      back == Min({x \in front .. n : \A i \in x .. n - 1 : p.off + i \in white})
  IN  IF white = InMemory THEN trim(p) ELSE trimn(p, front, n - back)

-----------------------------------------------------------------------------
(* StringUtils *)

HexDigit(n) == IF n > 9 THEN n + 55 ELSE n + 48

\* urlencode: - _ . ! ~ * ( ) and ' stay as they are.
urlencode(s) ==
  LET plain == {45, 95, 46, 33, 126, 42, 40, 41, 39}
      code(c) == IF isalnum(c) \/ c \in plain THEN <<c>>
                 ELSE <<PERCENT, HexDigit(c \div 16), HexDigit(c % 16)>>
  IN  FlattenSeq([i \in DOMAIN s |-> code(s[i])])

\* The value the code computes from a hexadecimal digit, whatever it is.
HexValue(c) == IF c \in 65 .. 127 THEN (c % 32) + 64 - 65 + 10 ELSE c - 48

\* Variant: an escape at the very end is not seen.
RECURSIVE urldecodeShort(_)
urldecodeShort(s) ==
  IF s = <<>> THEN <<>>
  ELSE IF Head(s) = PERCENT /\ Len(s) > 3
  THEN <<(HexValue(s[2]) * 16 + HexValue(s[3])) % 256>> \o urldecodeShort(SubSeq(s, 4, Len(s)))
  ELSE <<IF Head(s) = PLUS THEN SP ELSE Head(s)>> \o urldecodeShort(Tail(s))

RECURSIVE urldecode(_)
urldecode(s) ==
  IF s = <<>> THEN <<>>
  ELSE IF Head(s) = PERCENT /\ Len(s) > 2
  THEN <<(HexValue(s[2]) * 16 + HexValue(s[3])) % 256>> \o urldecode(SubSeq(s, 4, Len(s)))
  ELSE <<IF Head(s) = PLUS THEN SP ELSE Head(s)>> \o urldecode(Tail(s))

\* urldecode(DataBuffer): segment by segment, so an escape that lies across two
\* windows is not seen.  window = 0 stands for a buffer in memory.
RECURSIVE urldecodeBuffer(_, _)
urldecodeBuffer(p, window) ==
  LET len == IF window = 0 THEN Len(p.s) ELSE Min({window - (p.off % window), Len(p.s)})
  IN  IF p.s = <<>> THEN <<>>
      ELSE urldecode(SubSeq(p.s, 1, len)) \o urldecodeBuffer(trimn(p, len, 0), window)

\* parse: name=value pairs between ampersands; pairs without a name are skipped.
RECURSIVE parseForm(_, _)
parseForm(p, window) ==
  LET pair == split(p, <<AMP>>)
      kv == split(pair.first, <<EQ>>)
      here == IF kv.first.s = <<>> THEN <<>>
              ELSE <<<<urldecodeBuffer(kv.first, window), urldecodeBuffer(kv.second, window)>>>>
  IN  IF p.s = <<>> THEN <<>> ELSE here \o parseForm(pair.second, window)

-----------------------------------------------------------------------------
(* Parser *)

\* getBoundary: <<>> when there is none; ok is FALSE when it throws.
getBoundary(type) ==
  LET tail == trim(split(Piece(0, type), <<SEMI>>).second)
      value == trim(split(tail, <<EQ>>).second)
      quoted == value.s # <<>> /\ Head(value.s) = QUOTE
      bare == IF quoted THEN trimn(value, 1, 1) ELSE value
  IN  IF tail.s = <<>> \/ Head(tail.s) # BOUNDARY THEN [ok |-> TRUE, delim |-> <<>>]
      ELSE [ok |-> ~quoted \/ (Len(value.s) >= 2 /\ Last(value.s) = QUOTE),
            delim |-> <<DASH, DASH>> \o bare.s]

\* A map with one more or a new value, as operator[] makes it.
Assign(map, k, v) == [x \in DOMAIN map \union {k} |-> IF x = k THEN v ELSE map[x]]
\* std::map::insert: the value there stays.
Insert(map, k, v) == IF k \in DOMAIN map THEN map ELSE Assign(map, k, v)
EmptyMap == [x \in {} |-> <<>>]

addCookie(cookies, p) ==
  LET kv == split(trim(p), <<EQ>>)
  IN  IF kv.first.s = <<>> THEN cookies
      ELSE Assign(cookies, urldecode(kv.first.s), urldecode(kv.second.s))

RECURSIVE parseCookies(_, _)
parseCookies(cookies, p) ==
  LET cut == split(trim(p), <<SEMI, SP>>)
  IN  IF trim(p).s = <<>> THEN cookies
      ELSE parseCookies(addCookie(cookies, cut.first), cut.second)

normalizeInputHeaderName(s) == [i \in DOMAIN s |-> IF s[i] = LOWLINE THEN DASH ELSE s[i]]

addHeader(req, key, value) ==
  [req EXCEPT !.headers = Assign(@, normalizeInputHeaderName(key), trim(Piece(0, value)).s)]

\* One line of the environment in Parser::parse.
ParseEnvLine(req, line) ==
  LET key == line[1]
      value == line[2]
  IN  IF key = <<HTTP_, COOKIE>>
      THEN addHeader([req EXCEPT !.cookies = parseCookies(@, Piece(0, value))],
                     Tail(key), value)
      ELSE IF key = <<CONTENT_TYPE>> THEN addHeader(req, key, value)
      ELSE IF key # <<>> /\ Head(key) = HTTP_ THEN addHeader(req, Tail(key), value)
      ELSE [req EXCEPT !.vars = Assign(@, key, value)]

ParseEnv(req, env) == FoldLeft(ParseEnvLine, req, env)

\* parseLine: the attributes of one header line.
RECURSIVE parseLine(_, _, _)
parseLine(line, got, white) ==
  LET cut == split(line, <<SEMI>>)
      kv == split(cut.first, <<EQ>>)
      new == CASE kv.first.s = <<NAME>> -> [got EXCEPT !.name = trimn(kv.second, 1, 1)]
               [] kv.first.s = <<FILENAME>> -> [got EXCEPT !.filename = trimn(kv.second, 1, 1)]
               [] kv.first.s = <<CONTENT_TYPE>> -> [got EXCEPT !.type = trimBuffer(kv.second, white)]
               [] OTHER -> got
  IN  IF line.s = <<>> THEN got ELSE parseLine(trimBuffer(cut.second, white), new, white)

\* The next logical line: lines that start with white space are added to the
\* one before, as the stretch of the storage that holds both; a first line of
\* that kind is added to nothing, a stretch from offset 0.
RECURSIVE NextLine(_, _, _, _)
NextLine(store, line, tail, found) ==
  LET rn == split(tail, <<CR, LF>>)
      cut == IF rn.ok THEN rn ELSE split(tail, <<LF>>)
      sub == cut.first
      folded == sub.s # <<>> /\ Head(sub.s) \in {SP, TAB}
      both == Piece(line.off, SubSeq(store, line.off + 1, sub.off + Len(sub.s)))
  IN  IF tail.s = <<>> \/ (found /\ ~folded) THEN [line |-> line, tail |-> tail]
      ELSE NextLine(store, IF folded THEN both ELSE sub, cut.second, TRUE)

RECURSIVE ParseHeaders(_, _, _, _)
ParseHeaders(store, headers, got, white) ==
  LET next == NextLine(store, Nil, headers, FALSE)
  IN  IF headers.s = <<>> THEN got
      ELSE ParseHeaders(store, next.tail, parseLine(next.line, got, white), white)

\* A File: its name and type, and where its contents are in the storage.
File(name, type, b, e) == [name |-> name, type |-> type, b |-> b, e |-> e]

\* parsePart: a part with a file name is a file, another one an argument.
parsePart(req, part, white) ==
  LET rn == split(part, <<CR, LF, CR, LF>>)
      cut == IF rn.ok THEN rn ELSE split(part, <<LF, LF>>)
      got == ParseHeaders(req.store, cut.first, [name |-> Nil, filename |-> Nil, type |-> Nil], white)
      file == File(got.filename.s, got.type.s, cut.second.off, cut.second.off + Len(cut.second.s))
  IN  IF got.name.s = <<>> THEN req
      ELSE IF got.filename.s # <<>> THEN [req EXCEPT !.files = Insert(@, got.name.s, file)]
      ELSE [req EXCEPT !.args = Append(@, <<got.name.s, cut.second.s>>)]

\* Variant: without a delimiter the loop keeps what it had.
BehindDelimiterStuck(p, cut) == IF cut.ok THEN cut.second ELSE p

\* data = tail
BehindDelimiter(p, cut) == cut.second

\* One turn of the loop of parseMultipart: what is in front of the next
\* delimiter, with its line ends taken off; "again" is the continue that leaves
\* data as it was.
MultipartTurn(p, delim) ==
  LET cut == split(p, delim)
      head == cut.first
      tailed == CASE IsSuffix(<<CR, LF>>, head.s) -> trimn(head, 0, 2)
                  [] IsSuffix(<<LF>>, head.s) /\ ~IsSuffix(<<CR, LF>>, head.s) -> trimn(head, 0, 1)
                  [] OTHER -> Nil
      part == IF IsPrefix(<<CR, LF>>, tailed.s) THEN trimn(tailed, 2, 0) ELSE trimn(tailed, 1, 0)
  IN  IF ~cut.ok \/ head.s = <<>> THEN [verdict |-> "part", part |-> head, rest |-> BehindDelimiter(p, cut)]
      ELSE IF Last(head.s) # LF THEN [verdict |-> "throw", part |-> Nil, rest |-> p]
      ELSE IF tailed.s = <<DASH, DASH>> THEN [verdict |-> "again", part |-> Nil, rest |-> p]
      ELSE IF ~(IsPrefix(<<CR, LF>>, tailed.s) \/ IsPrefix(<<LF>>, tailed.s))
      THEN [verdict |-> "throw", part |-> Nil, rest |-> p]
      ELSE [verdict |-> "part", part |-> part, rest |-> BehindDelimiter(p, cut)]

=============================================================================
