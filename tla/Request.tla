------------------------------ MODULE Request ------------------------------
(***************************************************************************)
(* The life of a request's contents: attach() (library/requestimpl.cpp)    *)
(* takes them from the web server, save() of the request cache stores them *)
(* and parse() makes the request of a retry from what was stored.          *)
(*                                                                         *)
(* What the client means and how it says so is chosen in Init: forms are   *)
(* encoded with the project's own urlencode, multipart messages are any    *)
(* sequence of the chunks in Chunks, complete or not, in order or not.     *)
(***************************************************************************)
EXTENDS StoredRequest

CONSTANTS Inputs,        \* what clients send: see MCRequest
          MinPostSize,   \* min_post_size_
          MaxTurns       \* bound on the turns of the loop of parseMultipart

VARIABLES input, pc,
          req,       \* the RequestImpl
          rest,      \* data in parseMultipart
          turns,     \* history: the turns its loop has made
          stored,    \* the file in the cache directory
          first      \* history: what the request answered to the handlers

vars == <<input, pc, req, rest, turns, stored, first>>

HOST == 311
LENGTH == 312
METHOD == 321
QUERY == 322
PORT == 323
HTTPS == 324
SCRIPT == 325
PATH == 326
GET == 331
POST == 332   \* or PUT
FORM == 341
MULTIPART == 342
PLAIN == 343
Undefined == <<-1>>   \* what no program may ask for

-----------------------------------------------------------------------------
(* The client. *)

Encode(args, sep) ==
  LET one(i) == (IF i = 1 THEN <<>> ELSE sep) \o urlencode(args[i][1]) \o <<EQ>> \o urlencode(args[i][2])
  IN  FlattenSeq([i \in DOMAIN args |-> one(i)])

\* What a client means, and in text and env the message and the environment the
\* web server makes of it.  white is nobody's choice: the offsets of the file that
\* isspace() would take for white space.
Input(method, query, cookies, type, form, chunks, length, cache) ==
  LET text == IF type[1] = MULTIPART THEN FlattenSeq([i \in DOMAIN chunks |-> chunks[i].text])
              ELSE Encode(form, <<AMP>>)
      announced == CASE length = "none" -> <<>>
                     [] length = "long" -> <<<<<<HTTP_, LENGTH>>, <<Len(text) + 1>>>>>>
                     [] length = "short" -> <<<<<<HTTP_, LENGTH>>, <<Len(text) - 1>>>>>>
                     [] OTHER -> <<<<<<HTTP_, LENGTH>>, <<Len(text)>>>>>>
  IN  [method |-> method, query |-> query, cookies |-> cookies, type |-> type, form |-> form,
       chunks |-> chunks, length |-> length, cache |-> cache, text |-> text, white |-> {},
       env |-> <<<<<<METHOD>>, <<method>>>>, <<<<QUERY>>, Encode(query, <<AMP>>)>>,
                 <<<<HTTP_, COOKIE>>, Encode(cookies, <<SEMI, SP>>)>>, <<<<CONTENT_TYPE>>, type>>,
                 <<<<SCRIPT>>, <<65>>>>, <<<<PATH>>, <<67>>>>,
                 <<<<HTTP_, HOST, LOWLINE>>, <<SP, 66>>>>>>
               \o announced]

-----------------------------------------------------------------------------
(* RequestImpl and Request as handlers see them. *)

get(map, key) == IF key \in DOMAIN map THEN map[key] ELSE <<>>

getServerPort(r) == IF get(r.vars, <<PORT>>) = <<>> THEN 80 ELSE get(r.vars, <<PORT>>)[1]
isSecure(r) == get(r.vars, <<HTTPS>>) = <<111, 110>>

hasArg(r, name) == \E i \in DOMAIN r.args : r.args[i][1] = name
getArgs(r, name) == LET mine == SelectSeq(r.args, LAMBDA p : p[1] = name)
                    IN  [i \in DOMAIN mine |-> mine[i][2]]
getArg(r, name) == IF hasArg(r, name) THEN Head(getArgs(r, name)) ELSE <<>>
argNames(r) == {r.args[i][1] : i \in DOMAIN r.args}

\* remoteFile, remoteFileName and remoteFileType.  Without a file n they are
\* empty, but the empty view is made of the body: a request that has none
\* dereferences a null pointer there.
remoteFile(r, n) ==
  IF n \in DOMAIN r.files
  THEN LET f == r.files[n]
       IN  [name |-> f.name, type |-> f.type, data |-> SubSeq(r.store, f.b + 1, f.e)]
  ELSE [name |-> <<>>, type |-> <<>>, data |-> IF r.body.nil THEN Undefined ELSE <<>>]

getHost(r) == get(r.headers, <<HOST>>)
getQueryString(r) == get(r.vars, <<QUERY>>)

getURI(r) ==
  get(r.vars, <<SCRIPT>>) \o get(r.vars, <<PATH>>)
  \o (IF getQueryString(r) = <<>> THEN <<>> ELSE <<63>> \o getQueryString(r))
getUrl(r) == <<isSecure(r), getHost(r), getURI(r)>>

\* The getters of single variables, as one map; getHost and the length and type
\* of the contents are headers.
Environment(r) ==
  [port |-> getServerPort(r), host |-> getHost(r),
   vars |-> [k \in DOMAIN r.vars |-> get(r.vars, k)],
   length |-> get(r.headers, <<LENGTH>>), type |-> get(r.headers, <<CONTENT_TYPE>>)]

\* Headers, cookies, files and the body, with what counts and lists them.
Contents(r) ==
  [headers |-> [k \in DOMAIN r.headers |-> get(r.headers, k)],
   cookies |-> [k \in DOMAIN r.cookies |-> get(r.cookies, k)],
   files |-> [n \in DOMAIN r.files |-> remoteFile(r, n)], body |-> Body(r)]

\* Everything a handler can ask of a request, files by the names remoteFiles() lists.
Answers(r) ==
  [environment |-> Environment(r), url |-> getUrl(r), contents |-> Contents(r),
   args |-> [n \in argNames(r) |-> <<getArg(r, n), getArgs(r, n)>>], countArgs |-> Len(r.args)]

-----------------------------------------------------------------------------
(* attach *)

\* reset()
NewRequest == [headers |-> EmptyMap, cookies |-> EmptyMap, vars |-> EmptyMap,
               args |-> <<>>, files |-> EmptyMap, store |-> <<>>,
               body |-> [b |-> 0, e |-> 0, nil |-> TRUE]]

\* getContentLength(), without the exception if there is none.
ContentLength == LET n == get(req.headers, <<LENGTH>>) IN IF n = <<>> THEN 0 ELSE n[1]

Cached == input.cache /\ input.method = POST /\ ContentLength >= MinPostSize
BodyWindow == IF Cached THEN Window ELSE 0
White == IF Cached THEN input.white ELSE InMemory

\* The buffer for a body of size cells: in the cache behind the environment,
\* or in memory.
Prepare(r, size) ==
  LET head == serializeEnv(r) \o serializeInt(size)
      all == EnvSize(r) + IntSize + size
  IN  IF Cached THEN [r EXCEPT !.store = Resize(head, all), 
                                  !.body = [b |-> Len(head), e |-> all, nil |-> FALSE]]
      ELSE [r EXCEPT !.store = Resize(<<>>, size), !.body = [b |-> 0, e |-> size, nil |-> FALSE]]

\* The loop that reads the entity into the body.
Fill(r, text) ==
  [r EXCEPT !.store = SubSeq(@, 1, r.body.b) \o SubSeq(text, 1, r.body.e - r.body.b)]

BodyPiece(r) == Piece(r.body.b, Body(r))

QueryArgs(r) == parseForm(Piece(0, getQueryString(r)), 0)

\* attach: the environment is parsed; without an entity only the query is left.
Attach ==
  /\ pc = "new"
  /\ \E env \in {ParseEnv(req, input.env)} :
       \/ input.method = POST /\ pc' = "read" /\ req' = env
       \/ input.method # POST /\ pc' = "store" /\ req' = [env EXCEPT !.args = QueryArgs(env)]
  /\ UNCHANGED <<input, rest, turns, stored, first>>

\* The entity is read, as far as its announced length; one that is shorter than
\* that, or not announced, throws.
ReadBody ==
  /\ pc = "read"
  /\ \E announced \in {get(req.headers, <<LENGTH>>)} :
       \/ /\ ~(announced # <<>> /\ announced[1] <= Len(input.text))
          /\ pc' = "failed" /\ UNCHANGED req
       \/ /\ announced # <<>> /\ announced[1] <= Len(input.text)
          /\ req' = [Fill(Prepare(req, announced[1]), input.text) EXCEPT !.args = QueryArgs(req)]
          /\ pc' = "form"
  /\ UNCHANGED <<input, rest, turns, stored, first>>

\* The body is a multipart message, something the handlers look at, or a form.
ParseBody ==
  /\ pc = "form"
  /\ \E type \in {get(req.headers, <<CONTENT_TYPE>>)} :
       \/ /\ type[1] = MULTIPART
          /\ pc' = IF getBoundary(type).ok THEN "parts" ELSE "failed"
          /\ rest' = IF getBoundary(type).delim = <<>> THEN Nil ELSE BodyPiece(req)
          /\ UNCHANGED req
       \/ /\ type[1] = PLAIN
          /\ pc' = "store" /\ UNCHANGED <<req, rest>>
       \/ /\ type[1] \notin {MULTIPART, PLAIN}
          /\ req' = [req EXCEPT !.args = @ \o parseForm(BodyPiece(req), BodyWindow)]
          /\ pc' = "store" /\ UNCHANGED rest
  /\ UNCHANGED <<input, turns, stored, first>>

\* One turn of the loop of parseMultipart.
PartTurn ==
  /\ pc = "parts" /\ rest.s # <<>> /\ turns < MaxTurns
  /\ turns' = turns + 1
  /\ \E turn \in {MultipartTurn(rest, getBoundary(input.type).delim)} :
         /\ pc' = IF turn.verdict = "throw" THEN "failed" ELSE pc
         /\ rest' = turn.rest
         /\ req' = IF turn.part.s = <<>> THEN req ELSE parsePart(req, turn.part, White)
  /\ UNCHANGED <<input, stored, first>>

PartsDone ==
  /\ pc = "parts" /\ rest.s = <<>>
  /\ pc' = "store"
  /\ UNCHANGED <<input, req, rest, turns, stored, first>>

\* The end of attach: files and arguments go behind a body in the cache.
StoreTail(r) ==
  [r EXCEPT !.store =
     @ \o Resize(serializeFiles(r) \o serializeArgs(r),
                 2 * IntSize + filesSerializedSize(r) + argsSerializedSize(r))]

AttachDone ==
  /\ pc = "store"
  /\ req' = IF Cached THEN StoreTail(req) ELSE req
  /\ first' = Answers(req')
  /\ pc' = "attached"
  /\ UNCHANGED <<input, rest, turns, stored>>

-----------------------------------------------------------------------------
\* saveRequest: a request that is not in the cache yet is serialized.
Save ==
  /\ pc = "attached"
  /\ stored' = IF Cached THEN req.store ELSE serialize(req)
  /\ req' = NewRequest
  /\ pc' = "saved"
  /\ UNCHANGED <<input, rest, turns, first>>

\* handle() of the cache: the retry is made from the file.
Restore ==
  /\ pc = "saved"
  /\ \E p \in {parse(stored, NewRequest)} :
         /\ pc' = IF p.ok THEN "restored" ELSE "lost"
         /\ req' = IF p.ok THEN p.req ELSE req
  /\ UNCHANGED <<input, rest, turns, stored, first>>

Init ==
  /\ input \in Inputs
  /\ pc = "new"
  /\ req = NewRequest
  /\ rest = Nil
  /\ turns = 0
  /\ stored = <<>>
  /\ first = <<>>

Next == Attach \/ ReadBody \/ ParseBody \/ PartTurn \/ PartsDone \/ AttachDone \/ Save \/ Restore

Spec == Init /\ [][Next]_vars

-----------------------------------------------------------------------------
\* A handler cannot tell a retry from the first attempt: the file of a saved
\* request is read back to its last cell, and every question about the request
\* (arguments, headers, cookies, variables, uploaded files and their contents,
\* the body) is answered as it was, for small bodies serialized at the end as
\* for large ones laid out while they were received.
FaithfulRetry ==
  /\ pc # "lost"
  /\ pc = "restored" => Answers(req) = first /\ parse(stored, NewRequest).pos = Len(stored)

\* Cells of an escape lie on both sides of a window's end.
Straddled(b, text) ==
  \E i \in DOMAIN text : \E k \in 0 .. 1 :
     text[i] = PERCENT /\ (b + i + k) % Window = 0

\* The arguments and cookies the handlers see are the ones the client meant,
\* whatever characters are in them, query string first; in a body that was put
\* in the cache this holds if no escape lies across two windows.
FormMeaning ==
  pc \in {"attached", "restored"} /\ Head(input.type) # MULTIPART /\ input.length # "short"
  /\ ~(Cached /\ Straddled(req.body.b, input.text))
    => /\ req.args = input.query
                     \o (IF input.method = POST /\ input.type = <<FORM>> THEN input.form ELSE <<>>)
       /\ req.cookies = AsMap(Reverse(input.cookies))

\* Every other chunk is a delimiter, with a part in between and the closing
\* mark at the end.
Regular(chunks) ==
  /\ Len(chunks) > 2 /\ Len(chunks) % 2 = 0
  /\ \A i \in DOMAIN chunks :
       IF i % 2 = 1 THEN chunks[i].kind = "delimiter"
       ELSE IF i < Len(chunks) THEN chunks[i].kind \in {"field", "file"}
       ELSE chunks[i].kind = "close"

\* Of a regular message every part is taken, in order and whole: fields as
\* arguments, uploads as files, the first of each name.  In a body that was put in
\* the cache this holds if isspace() answers no where it is undefined.
MultipartMeaning ==
  pc = "attached" /\ input.type[1] = MULTIPART /\ getBoundary(input.type).delim # <<>>
  /\ Regular(input.chunks) /\ input.length # "short" /\ White \in {InMemory, {}}
    => LET of(k) == SelectSeq(input.chunks, LAMBDA c : c.kind = k)
           fields == of("field")
           uploads == of("file")
       IN  /\ req.args = input.query \o [i \in DOMAIN fields |-> <<fields[i].name, fields[i].value>>]
           /\ DOMAIN req.files = {uploads[i].name : i \in DOMAIN uploads}
           /\ \A i \in DOMAIN uploads :
                (\A j \in 1 .. i - 1 : uploads[j].name # uploads[i].name)
                  => remoteFile(req, uploads[i].name).data = uploads[i].value

\* attach() comes to an end: the loop makes at most one turn for a delimiter and
\* one for what is behind the last.  The exception is a closing mark that is all
\* there is in front of a delimiter: the continue for it leaves the loop where it was.
ParseEnds ==
  \/ \E i \in 1 .. Len(input.chunks) - 1 :
       /\ input.chunks[i].kind = "close" /\ input.chunks[i + 1].kind = "delimiter"
       /\ i > 1 => input.chunks[i - 1].kind = "delimiter"
  \/ turns <= 1 + Cardinality({i \in DOMAIN input.chunks : input.chunks[i].kind = "delimiter"})

=============================================================================
