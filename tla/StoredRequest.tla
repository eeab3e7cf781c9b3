--------------------------- MODULE StoredRequest ---------------------------
(***************************************************************************)
(* A request as the cache keeps it: the serializer and the parser of       *)
(* RequestImpl (library/requestimpl.cpp).  The layout is headers, cookies, *)
(* variables, body, files and arguments, each after its size.              *)
(*                                                                         *)
(* A buffer is a sequence of cells, one a character; an integer takes      *)
(* IntSize cells, the low one first, and arithmetic on it wraps.  What is  *)
(* written past the end of a buffer is dropped, as DataBuffer::write does. *)
(***************************************************************************)
EXTENDS RequestText

CONSTANT IntSize   \* sizeof(uint64_t)

ASSUME IntSizeAssumption == IntSize \in Nat \ {0}

Word == 256 ^ IntSize

\* The pairs of a map in the order of iteration.
Pairs(map) == LET keys == SetToSeq(DOMAIN map) IN [i \in DOMAIN keys |-> <<keys[i], map[keys[i]]>>]

-----------------------------------------------------------------------------
(* Writing: the cells in the order of the writes, fitted into the buffer the *)
(* sizes were added up for.                                                  *)

Resize(buf, n) == SubSeq(buf, 1, Min({n, Len(buf)})) \o [i \in 1 .. n - Len(buf) |-> 0]

serializeInt(v) == [i \in 1 .. IntSize |-> ((v % Word) \div 256 ^ (i - 1)) % 256]
serializeString(s) == serializeInt(Len(s)) \o s

\* What f makes of the elements of s, one after the other.
Each(s, f(_)) == FlattenSeq([i \in DOMAIN s |-> f(s[i])])

PairsSize(pairs) ==
  FoldLeft(LAMBDA n, p : n + Len(p[1]) + Len(p[2]) + 2 * IntSize, 0, pairs)
serializePairs(pairs) ==
  serializeInt(PairsSize(pairs))
  \o Each(pairs, LAMBDA p : serializeString(p[1]) \o serializeString(p[2]))

EnvMaps(req) == <<Pairs(req.headers), Pairs(req.cookies), Pairs(req.vars)>>

\* serializeEnv: the size of the part it writes, and the part.
EnvSize(req) == PairsSize(FlattenSeq(EnvMaps(req))) + 3 * IntSize
serializeEnv(req) == Each(EnvMaps(req), serializePairs)

\* serializeBuffer; its loop over the segments copies the whole of src.
serializeBuffer(src) == serializeInt(Len(src)) \o src

filesSerializedSize(req) ==
  FoldLeft(LAMBDA n, p : n + Len(p[1]) + Len(p[2].name) + Len(p[2].type) + 5 * IntSize,
           0, Pairs(req.files))
argsSerializedSize(req) == PairsSize(req.args)

SerializeFile(p, body) ==
  serializeString(p[1]) \o serializeString(p[2].name) \o serializeString(p[2].type)
  \o serializeInt(p[2].b - body) \o serializeInt(p[2].e - p[2].b)

\* Variant: the offset of a file is not taken relative to the body.
serializeFilesAbsolute(req) ==
  serializeInt(filesSerializedSize(req)) \o Each(Pairs(req.files), LAMBDA p : SerializeFile(p, 0))

\* serializeFiles: a file is a stretch of the body.
serializeFiles(req) ==
  serializeInt(filesSerializedSize(req))
  \o Each(Pairs(req.files), LAMBDA p : SerializeFile(p, req.body.b))

serializeArgs(req) == serializePairs(req.args)

Body(req) == SubSeq(req.store, req.body.b + 1, req.body.e)

serialize(req) ==
  Resize(serializeEnv(req) \o serializeBuffer(Body(req)) \o serializeFiles(req) \o serializeArgs(req),
         EnvSize(req) + 3 * IntSize + Len(Body(req))
         + filesSerializedSize(req) + argsSerializedSize(req))

-----------------------------------------------------------------------------
(* Reading at r.pos of buf; val is what was read, ok that nothing was thrown. *)

Get(buf, pos, n) == SubSeq(buf, pos + 1, Min({pos + n, Len(buf)}))

\* The number in cells, of which a read at the end gives fewer.
IntOf[cells \in Seq(Nat)] == IF cells = <<>> THEN 0 ELSE Head(cells) + 256 * IntOf[Tail(cells)]

parseInt(buf, pos) ==
  [pos |-> pos + Len(Get(buf, pos, IntSize)), val |-> IntOf[Get(buf, pos, IntSize)]]

\* The string behind its size n, padded if the buffer ends in it.
StringBehind(buf, n) ==
  [pos |-> n.pos + Len(Get(buf, n.pos, n.val)), val |-> Resize(Get(buf, n.pos, n.val), n.val)]
parseString(buf, pos) == StringBehind(buf, parseInt(buf, pos))

\* The loop of parseHeaders, parseCookies, parseVars and parseArgs.
RECURSIVE parsePairs(_, _, _)
parsePairs(buf, pos, upto) ==
  LET k == parseString(buf, pos)
      v == parseString(buf, k.pos)
      more == parsePairs(buf, v.pos, upto)
  IN  IF pos >= upto THEN [pos |-> pos, val |-> <<>>]
      ELSE [pos |-> more.pos, val |-> <<<<k.val, v.val>>>> \o more.val]

parseField(buf, pos) ==
  LET n == parseInt(buf, pos)
      field == parsePairs(buf, n.pos, n.pos + n.val)
  IN  IF n.pos + n.val > Len(buf) THEN [ok |-> FALSE, pos |-> pos, val |-> <<>>]
      ELSE [ok |-> TRUE, pos |-> field.pos, val |-> field.val]

\* std::map::insert in a loop: the first of a key stays.
AsMap(pairs) ==
  [k \in {pairs[i][1] : i \in DOMAIN pairs} |->
     pairs[Min({i \in DOMAIN pairs : pairs[i][1] = k})][2]]

\* A view that ends past the storage, and a file without a name, throw.
RECURSIVE parseFileList(_, _, _, _)
parseFileList(buf, body, pos, upto) ==
  LET key == parseString(buf, pos)
      name == parseString(buf, key.pos)
      type == parseString(buf, name.pos)
      off == parseInt(buf, type.pos)
      len == parseInt(buf, off.pos)
      file == File(name.val, type.val, (off.val + body.b) % Word,
                   (off.val + len.val + body.b) % Word)
      more == parseFileList(buf, body, len.pos, upto)
  IN  IF pos >= upto THEN [ok |-> TRUE, pos |-> pos, val |-> <<>>]
      ELSE IF file.e > Len(buf) \/ name.val = <<>> THEN [ok |-> FALSE, pos |-> pos, val |-> <<>>]
      ELSE [ok |-> more.ok, pos |-> more.pos, val |-> <<<<key.val, file>>>> \o more.val]

-----------------------------------------------------------------------------
(* RequestImpl::parse, as steps of a reader: the request so far, the place in *)
(* its storage, and that nothing was thrown.                                  *)

\* Reading goes on behind what was got, or ends.
Into(r, got, part, value) ==
  IF r.ok /\ got.ok THEN [r EXCEPT !.pos = got.pos, !.req[part] = value]
  ELSE [r EXCEPT !.ok = FALSE]

\* parseHeaders, parseCookies and parseVars
parseMap(r, part) == LET f == parseField(r.req.store, r.pos) IN Into(r, f, part, AsMap(f.val))

parseArgs(r) == LET f == parseField(r.req.store, r.pos) IN Into(r, f, "args", f.val)

parseBody(r) ==
  LET n == parseInt(r.req.store, r.pos)
      end == n.pos + n.val
  IN  Into(r, [ok |-> end <= Len(r.req.store), pos |-> end], "body",
           [b |-> n.pos, e |-> end, nil |-> FALSE])

parseFiles(r) ==
  LET n == parseInt(r.req.store, r.pos)
      end == n.pos + n.val
      got == IF end > Len(r.req.store) THEN [ok |-> FALSE]
             ELSE parseFileList(r.req.store, r.req.body, n.pos, end)
  IN  Into(r, got, "files", AsMap(got.val))

\* Into a new request.
parse(buf, new) ==
  LET env == parseMap(parseMap(parseMap([ok |-> TRUE, pos |-> 0, req |-> [new EXCEPT !.store = buf]],
                                        "headers"), "cookies"), "vars")
  IN  parseArgs(parseFiles(parseBody(env)))

=============================================================================
