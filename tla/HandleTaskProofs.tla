-------------------------- MODULE HandleTaskProofs --------------------------
(***************************************************************************)
(* The safety properties of HandleTask, for every number of handlers and   *)
(* of calls they make and every set of statuses and cookies.               *)
(***************************************************************************)
EXTENDS HandleTask, SequenceTheorems, TLAPS

Statuses == ErrorCodes \cup {200, 302, 500}
Pieces == [kind : {"head", "partial", "handler", "error", "what"},
           status : Statuses, cookies : SUBSET Cookies]

\* Where a response stands: without a stream nothing is ever sent; before the
\* headers are out nothing was sent, or a part of them on a connection that is
\* broken since; after that the wire begins with them.
Progress(r) ==
    /\ ~hasStream => r.wire = <<>> /\ ~r.broken
    /\ ~r.sent /\ ~r.broken => r.wire = <<>>
    /\ ~r.sent /\ r.broken => Len(r.wire) = 1 /\ r.wire[1].kind = "partial"
    /\ r.sent /\ hasStream => Len(r.wire) >= 1 /\ r.wire[1].kind = "head"

\* WellFormedAnswer of a response, for the bodies that follow the headers.
Bodies(r) ==
    \A i \in 2 .. Len(r.wire) :
        /\ r.wire[i].kind \in {"handler", "error", "what"}
        /\ r.wire[i].kind = "error" =>
              i = 2 /\ r.wire[1].status = r.wire[i].status /\ r.wire[1].cookies = {}

\* A response with these fields.
Fields(r, status, cookies, sent, broken, wire) ==
    /\ r \in Response
    /\ r.status = status /\ r.cookies = cookies
    /\ r.sent = sent /\ r.broken = broken /\ r.wire = wire

Sound(r) == r \in Response /\ Progress(r) /\ Bodies(r)

\* Where handleTask stands: it has answered when the task is good, and lets an
\* exception out, or ends the process, only with the response begun or broken.
Control ==
    /\ pc = "handler" => index <= Handlers
    /\ pc = "reply" => ~resp.sent
    /\ pc \in {"escape", "bad"} => resp.sent \/ resp.broken
    /\ pc = "good" => resp.sent
    /\ pc = "terminated" => resp.broken /\ ~resp.sent

\* After an exception left a handler that had sent nothing, nothing is sent until
\* the error page is, unless the connection breaks.
Early ==
    early =>
      /\ pc \notin {"loop", "handler", "finish"}
      /\ ~resp.broken =>
           /\ pc = "unwind" => ~buffered
           /\ pc \in {"unwind", "caught"} => ~resp.sent
           /\ pc \notin {"escape", "bad"}
           /\ pc = "good" /\ hasStream => resp.wire[1].status >= 400

\* The inductive invariant.
IInv == TypeOK /\ Sound(resp) /\ Control /\ Early

-----------------------------------------------------------------------------
(* What the operations of RequestImpl do to a response. *)

\* The wire of a response and its other fields, by type.
LEMMA ResponseType ==
    ASSUME NEW r \in Response
    PROVE  /\ r.wire \in Seq(Pieces) /\ Len(r.wire) \in Nat
           /\ DOMAIN r.wire = 1 .. Len(r.wire)
           /\ r.status \in Statuses /\ r.cookies \in SUBSET Cookies
           /\ r.sent \in BOOLEAN /\ r.broken \in BOOLEAN
           /\ r = [status |-> r.status, cookies |-> r.cookies, sent |-> r.sent,
                   broken |-> r.broken, wire |-> r.wire]
  <1>1. r.wire \in Seq(Pieces)
    BY DEF Response, Pieces, Statuses
  <1>2. Len(r.wire) \in Nat /\ DOMAIN r.wire = 1 .. Len(r.wire)
    BY <1>1, LenProperties
  <1>3. /\ r.status \in Statuses /\ r.cookies \in SUBSET Cookies
        /\ r.sent \in BOOLEAN /\ r.broken \in BOOLEAN
        /\ r = [status |-> r.status, cookies |-> r.cookies, sent |-> r.sent,
                broken |-> r.broken, wire |-> r.wire]
    BY DEF Response, Statuses
  <1> QED BY <1>1, <1>2, <1>3

\* What a call returns and whether it threw.
LEMMA Results ==
    ASSUME NEW r
    PROVE  /\ Done(r).resp = r /\ Done(r).threw = FALSE
           /\ Threw(r).resp = r /\ Threw(r).threw = TRUE
  BY DEF Done, Threw

\* The assignments to a response that the operations make.
LEMMA Updated ==
    ASSUME NEW r \in Response
    PROVE  /\ Fields([r EXCEPT !.sent = TRUE], r.status, r.cookies, TRUE, r.broken, r.wire)
           /\ \A w \in Seq(Pieces) :
                /\ Fields([r EXCEPT !.wire = w], r.status, r.cookies, r.sent, r.broken, w)
                /\ Fields([r EXCEPT !.broken = TRUE, !.wire = w],
                          r.status, r.cookies, r.sent, TRUE, w)
           /\ \A st \in Statuses :
                Fields([r EXCEPT !.status = st], st, r.cookies, r.sent, r.broken, r.wire)
           /\ \A ck \in SUBSET Cookies :
                Fields([r EXCEPT !.cookies = ck], r.status, ck, r.sent, r.broken, r.wire)
  <1>0. Response = [status : Statuses, cookies : SUBSET Cookies, sent : BOOLEAN,
                    broken : BOOLEAN, wire : Seq(Pieces)]
    BY DEF Response, Pieces, Statuses
  <1>1. Fields([r EXCEPT !.sent = TRUE], r.status, r.cookies, TRUE, r.broken, r.wire)
    BY <1>0 DEF Fields
  <1>2. ASSUME NEW w \in Seq(Pieces)
        PROVE  Fields([r EXCEPT !.wire = w], r.status, r.cookies, r.sent, r.broken, w)
    BY <1>0 DEF Fields
  <1>3. ASSUME NEW w \in Seq(Pieces)
        PROVE  Fields([r EXCEPT !.broken = TRUE, !.wire = w],
                      r.status, r.cookies, r.sent, TRUE, w)
    BY <1>0 DEF Fields
  <1>4. ASSUME NEW st \in Statuses
        PROVE  Fields([r EXCEPT !.status = st], st, r.cookies, r.sent, r.broken, r.wire)
    BY <1>0 DEF Fields
  <1>5. ASSUME NEW ck \in SUBSET Cookies
        PROVE  Fields([r EXCEPT !.cookies = ck], r.status, ck, r.sent, r.broken, r.wire)
    BY <1>0 DEF Fields
  <1> QED BY <1>1, <1>2, <1>3, <1>4, <1>5

\* What sendError does to the response before it sends the headers.
Clear(r, st) == [r EXCEPT !.status = st, !.cookies = {}]

\* It leaves the status of the page and none of the handlers' cookies.
LEMMA Cleared ==
    ASSUME NEW r \in Response, NEW st \in Statuses
    PROVE  Fields(Clear(r, st), st, {}, r.sent, r.broken, r.wire)
  <1> DEFINE u == [r EXCEPT !.status = st]
  <1>1. Clear(r, st) = [u EXCEPT !.cookies = {}]
    BY DEF Clear
  <1>2. Fields(u, st, r.cookies, r.sent, r.broken, r.wire)
    BY Updated
  <1> HIDE DEF u
  <1>3. u \in Response /\ u.status = st /\ u.sent = r.sent /\ u.broken = r.broken
        /\ u.wire = r.wire
    BY <1>2 DEF Fields
  <1>4. Fields([u EXCEPT !.cookies = {}], u.status, {}, u.sent, u.broken, u.wire)
    BY <1>3, Updated
  <1> QED BY <1>1, <1>3, <1>4

\* The results of FastcgiRequest::write: it fails, and the connection is broken
\* from then on, or the piece is sent.
LEMMA PutResult ==
    ASSUME NEW r \in Response, NEW p \in Pieces, NEW f \in Seq(Pieces), NEW x \in Put(r, p, f)
    PROVE  \/ /\ x.threw = TRUE
              /\ Fields(x.resp, r.status, r.cookies, r.sent, TRUE,
                        IF r.broken THEN r.wire ELSE r.wire \o f)
           \/ /\ x.threw = FALSE /\ ~r.broken
              /\ Fields(x.resp, r.status, r.cookies, r.sent, r.broken, Append(r.wire, p))
  <1> DEFINE w == IF r.broken THEN r.wire ELSE r.wire \o f
             v == Append(r.wire, p)
  <1>1. w \in Seq(Pieces) /\ v \in Seq(Pieces)
    BY ResponseType, ConcatProperties, AppendProperties
  <1>2. \/ x = Threw([r EXCEPT !.broken = TRUE, !.wire = w])
        \/ ~r.broken /\ x = Done([r EXCEPT !.wire = v])
    BY DEF Put
  <1> HIDE DEF w, v
  <1>3. CASE x = Threw([r EXCEPT !.broken = TRUE, !.wire = w])
    <2>1. Fields([r EXCEPT !.broken = TRUE, !.wire = w], r.status, r.cookies, r.sent, TRUE, w)
      BY <1>1, Updated
    <2> QED BY <1>3, <2>1, Results DEF w
  <1>4. CASE ~r.broken /\ x = Done([r EXCEPT !.wire = v])
    <2>1. Fields([r EXCEPT !.wire = v], r.status, r.cookies, r.sent, r.broken, v)
      BY <1>1, Updated
    <2> QED BY <1>4, <2>1, Results DEF v
  <1> QED BY <1>2, <1>3, <1>4

\* A response with the sent, broken and wire of a sound one is sound.
LEMMA SoundFrame ==
    ASSUME NEW r, Sound(r), NEW u, NEW st, NEW ck,
           Fields(u, st, ck, r.sent, r.broken, r.wire)
    PROVE  Sound(u)
  BY DEF Fields, Sound, Progress, Bodies

\* sendHeadersInternal: headers_sent_ after a success, a broken connection after
\* a failure.
HeadersOutcome(r, x) ==
    /\ Sound(x.resp) /\ x.threw \in BOOLEAN
    /\ x.resp.status = r.status
    /\ x.threw => x.resp.broken /\ ~x.resp.sent
    /\ ~x.threw => x.resp.sent /\ (x.resp.broken <=> r.broken)
    /\ r.sent => ~x.threw /\ x.resp = r
    /\ ~r.sent /\ ~x.threw /\ hasStream =>
          x.resp.wire = <<Piece("head", r.status, r.cookies)>>
    /\ r.broken /\ ~r.sent => x.threw

\* sendHeadersInternal has that outcome.
LEMMA HeadersResult ==
    ASSUME NEW r, Sound(r), NEW x \in SendHeaders(r)
    PROVE  HeadersOutcome(r, x)
  <1> USE DEF HeadersOutcome
  <1> DEFINE head == Piece("head", r.status, r.cookies)
             part == Piece("partial", r.status, r.cookies)
  <1>1. r \in Response /\ Progress(r) /\ Bodies(r)
    BY DEF Sound
  <1>2. head \in Pieces /\ part \in Pieces
    BY <1>1, ResponseType DEF Piece, Pieces
  <1>3. CASE r.sent
    <2>1. x = Done(r)
      BY <1>3 DEF SendHeaders
    <2> QED BY <2>1, <1>3, Results
  <1>4. CASE ~r.sent /\ ~hasStream
    <2>1. x = Done([r EXCEPT !.sent = TRUE])
      BY <1>4 DEF SendHeaders
    <2>2. x.threw = FALSE /\ Fields(x.resp, r.status, r.cookies, TRUE, r.broken, r.wire)
      BY <2>1, <1>1, Results, Updated
    <2>3. r.wire = <<>> /\ ~r.broken
      BY <1>1, <1>4 DEF Progress
    <2>4. \A i \in 2 .. Len(<<>>) : FALSE
      BY EmptySeq
    <2>5. Sound(x.resp)
      BY <2>2, <2>3, <2>4, <1>4 DEF Fields, Sound, Progress, Bodies
    <2> QED BY <2>2, <2>3, <2>5, <1>4 DEF Fields
  <1>5. CASE ~r.sent /\ hasStream
    <2>1. PICK y \in Put(r, head, <<part>>) :
             x = IF y.threw THEN y ELSE Done([y.resp EXCEPT !.sent = TRUE])
      BY <1>5 DEF SendHeaders
    <2>2. <<part>> \in Seq(Pieces) /\ <<head>> \in Seq(Pieces)
      BY <1>2
    <2>3. /\ Len(<<part>>) = 1 /\ <<part>>[1].kind = "partial"
          /\ Len(<<head>>) = 1 /\ <<head>>[1].kind = "head"
      BY DEF Piece
    <2>4. \A i \in 2 .. 1 : FALSE
      OBVIOUS
    <2>5. ~r.broken => r.wire = <<>>
      BY <1>1, <1>5 DEF Progress
    <2>6. <<>> \o <<part>> = <<part>> /\ Append(<<>>, head) = <<head>>
      BY <2>2, ConcatEmptySeq
    <2> HIDE DEF head, part
    <2>7. CASE /\ y.threw = TRUE
               /\ Fields(y.resp, r.status, r.cookies, r.sent, TRUE,
                         IF r.broken THEN r.wire ELSE r.wire \o <<part>>)
      <3>1. x = y
        BY <2>1, <2>7
      <3>2. Sound(x.resp)
        <4>1. CASE r.broken
          BY <4>1, <3>1, <2>7, SoundFrame
        <4>2. CASE ~r.broken
          <5>1. Fields(x.resp, r.status, r.cookies, r.sent, TRUE, <<part>>)
            BY <4>2, <3>1, <2>5, <2>6, <2>7
          <5> QED BY <5>1, <2>3, <2>4, <1>5 DEF Fields, Sound, Progress, Bodies
        <4> QED BY <4>1, <4>2
      <3> QED BY <3>1, <3>2, <2>7, <1>5 DEF Fields
    <2>8. CASE /\ y.threw = FALSE /\ ~r.broken
               /\ Fields(y.resp, r.status, r.cookies, r.sent, r.broken, Append(r.wire, head))
      <3>1. x = Done([y.resp EXCEPT !.sent = TRUE])
        BY <2>1, <2>8
      <3>2. /\ y.resp \in Response /\ y.resp.wire = <<head>> /\ y.resp.status = r.status
            /\ y.resp.cookies = r.cookies /\ y.resp.broken = r.broken
        BY <2>5, <2>6, <2>8 DEF Fields
      <3>3. x.threw = FALSE /\ Fields(x.resp, r.status, r.cookies, TRUE, r.broken, <<head>>)
        BY <3>1, <3>2, Results, Updated
      <3>4. Sound(x.resp)
        BY <3>3, <2>3, <2>4, <2>8, <1>5 DEF Fields, Sound, Progress, Bodies
      <3> QED BY <3>3, <3>4, <2>8, <1>5 DEF Fields, head
    <2> QED BY <2>2, <2>7, <2>8, <1>1, <1>2, PutResult
  <1>6. r.sent \in BOOLEAN
    BY <1>1, ResponseType
  <1> QED BY <1>3, <1>4, <1>5, <1>6

\* A piece of body, after the headers.
LEMMA BodyResult ==
    ASSUME NEW r, Sound(r), r.sent, hasStream,
           NEW p \in Pieces, p.kind \in {"handler", "error", "what"},
           p.kind = "error" =>
               Len(r.wire) = 1 /\ r.wire[1].status = p.status /\ r.wire[1].cookies = {},
           NEW x \in Put(r, p, <<>>)
    PROVE  /\ Sound(x.resp) /\ x.threw \in BOOLEAN
           /\ x.resp.sent /\ x.resp.status = r.status
           /\ r.broken => x.resp.broken
           /\ x.threw => x.resp.broken
           /\ x.resp.wire[1] = r.wire[1]
  <1>1. r \in Response /\ Progress(r) /\ Bodies(r)
    BY DEF Sound
  <1>2. /\ r.wire \in Seq(Pieces) /\ Len(r.wire) \in Nat \ {0} /\ r.wire[1].kind = "head"
        /\ r.wire \o <<>> = r.wire
    BY <1>1, ResponseType, ConcatEmptySeq DEF Progress
  <1>3. CASE /\ x.threw = TRUE
             /\ Fields(x.resp, r.status, r.cookies, r.sent, TRUE,
                       IF r.broken THEN r.wire ELSE r.wire \o <<>>)
    <2>1. Fields(x.resp, r.status, r.cookies, r.sent, TRUE, r.wire)
      BY <1>2, <1>3
    <2>2. Sound(x.resp)
      BY <2>1, <1>1, <1>2 DEF Fields, Sound, Progress, Bodies
    <2> QED BY <2>1, <2>2, <1>3 DEF Fields
  <1>4. CASE /\ x.threw = FALSE /\ ~r.broken
             /\ Fields(x.resp, r.status, r.cookies, r.sent, r.broken, Append(r.wire, p))
    <2> DEFINE w == Append(r.wire, p)
    <2>1. /\ w \in Seq(Pieces) /\ Len(w) = Len(r.wire) + 1
          /\ \A i \in 1 .. Len(r.wire) : w[i] = r.wire[i]
          /\ w[Len(r.wire) + 1] = p
      BY <1>2, AppendProperties
    <2> HIDE DEF w
    <2>2. Fields(x.resp, r.status, r.cookies, r.sent, r.broken, w)
      BY <1>4 DEF w
    <2>3. w[1] = r.wire[1] /\ Len(w) >= 1 /\ w[1].kind = "head"
      BY <2>1, <1>2
    <2>4. ASSUME NEW i \in 2 .. Len(w)
          PROVE  /\ w[i].kind \in {"handler", "error", "what"}
                 /\ w[i].kind = "error" =>
                      i = 2 /\ w[1].status = w[i].status /\ w[1].cookies = {}
      <3>1. CASE i \in 2 .. Len(r.wire)
        <4>1. w[i] = r.wire[i]
          BY <3>1, <2>1, <1>2
        <4> QED BY <3>1, <4>1, <2>3, <1>1 DEF Bodies
      <3>2. CASE i = Len(r.wire) + 1
        <4>1. w[i] = p
          BY <3>2, <2>1
        <4>2. ASSUME p.kind = "error" PROVE i = 2
          <5>1. Len(r.wire) = 1
            BY <4>2
          <5> QED BY <5>1, <3>2
        <4> QED BY <4>1, <4>2, <2>3
      <3> QED BY <3>1, <3>2, <2>1, <1>2
    <2>5. Sound(x.resp)
      BY <2>2, <2>3, <2>4, <1>4 DEF Fields, Sound, Progress, Bodies
    <2> QED BY <2>2, <2>3, <2>5, <1>4 DEF Fields
  <1>5. <<>> \in Seq(Pieces)
    BY EmptySeq
  <1> QED BY <1>1, <1>3, <1>4, <1>5, PutResult

\* Both overloads of write: an exception means a broken connection, and from the
\* one that takes a streambuf it means that the headers failed; what was sent
\* before stays in front.
WriteOutcome(r, x, from) ==
    /\ Sound(x.resp) /\ x.threw \in BOOLEAN
    /\ r.broken => x.resp.broken
    /\ x.threw => x.resp.broken /\ (from = "streambuf" => ~x.resp.sent)
    /\ ~x.threw => x.resp.sent
    /\ r.sent => x.resp.sent /\ (hasStream => x.resp.wire[1] = r.wire[1])

\* Both overloads of write have that outcome.
LEMMA WriteResult ==
    ASSUME NEW r, Sound(r), NEW by \in {"handler", "what"},
           NEW from \in {"chars", "streambuf"}, NEW x \in Write(r, by, from)
    PROVE  WriteOutcome(r, x, from)
  <1> USE DEF WriteOutcome
  <1>1. PICK y \in SendHeaders(r) :
           x \in IF y.threw \/ ~hasStream \/ isHead THEN {y}
                 ELSE IF from = "chars" THEN Put(y.resp, Piece(by, y.resp.status, {}), <<>>)
                 ELSE PutBuf(y.resp, Piece(by, y.resp.status, {}))
    BY DEF Write
  <1>2. /\ Sound(y.resp) /\ y.threw \in BOOLEAN
        /\ y.threw => y.resp.broken /\ ~y.resp.sent
        /\ ~y.threw => y.resp.sent /\ (y.resp.broken <=> r.broken)
        /\ r.sent => ~y.threw /\ y.resp = r
        /\ r.broken /\ ~r.sent => y.threw
    BY HeadersResult DEF HeadersOutcome
  <1>3. CASE y.threw \/ ~hasStream \/ isHead
    <2>1. x = y
      BY <1>1, <1>3
    <2> QED BY <2>1, <1>2
  <1>4. CASE ~y.threw /\ hasStream /\ ~isHead
    <2> DEFINE p == Piece(by, y.resp.status, {})
    <2>1. PICK z \in Put(y.resp, p, <<>>) :
             x = IF from = "chars" THEN z ELSE Done(z.resp)
      BY <1>1, <1>4 DEF PutBuf
    <2>2. p \in Pieces /\ p.kind \in {"handler", "error", "what"} /\ p.kind # "error"
      BY <1>2, ResponseType DEF Piece, Pieces, Sound
    <2> HIDE DEF p
    <2>3. /\ Sound(z.resp) /\ z.threw \in BOOLEAN /\ z.resp.sent
          /\ y.resp.broken => z.resp.broken
          /\ z.threw => z.resp.broken
          /\ z.resp.wire[1] = y.resp.wire[1]
      BY <2>2, <1>2, <1>4, BodyResult
    <2>4. x.resp = z.resp /\ x.threw = (from = "chars" /\ z.threw)
      <3>1. CASE from = "chars"
        BY <2>1, <2>3, <3>1
      <3>2. CASE from # "chars"
        BY <2>1, <3>2, Results
      <3> QED BY <3>1, <3>2
    <2> QED BY <2>3, <2>4, <1>2, <1>4
  <1> QED BY <1>3, <1>4, <1>2

\* sendError: refused once the headers are out; else a failure leaves a broken
\* connection and a success headers with the status of the page.
LEMMA SendErrorResult ==
    ASSUME NEW r, Sound(r), NEW st \in ErrorCodes \cup {500}, NEW x \in SendError(r, st)
    PROVE  /\ Sound(x.resp) /\ x.threw \in BOOLEAN
           /\ r.broken => x.resp.broken
           /\ r.sent => x.threw /\ x.resp = r
           /\ ~r.sent /\ x.threw => x.resp.broken
           /\ ~x.threw => x.resp.sent /\ (hasStream => x.resp.wire[1].status = st)
  <1>1. r \in Response /\ Progress(r) /\ Bodies(r)
    BY DEF Sound
  <1>2. CASE r.sent
    <2>1. x = Threw(r)
      BY <1>2, Zenon DEF SendError
    <2>2. x.resp = r /\ x.threw = TRUE
      BY <2>1 DEF Threw
    <2> QED BY <2>2, <1>2
  <1>3. CASE ~r.sent
    <2>1. st \in Statuses
      BY DEF Statuses
    <2> DEFINE c == Clear(r, st)
    <2>2. Fields(c, st, {}, r.sent, r.broken, r.wire)
      BY <2>1, <1>1, Cleared
    <2>3. PICK y \in SendHeaders(c) :
             x \in IF y.threw \/ ~hasStream THEN {y}
                   ELSE Put(y.resp, Piece("error", st, {}), <<>>)
      BY <1>3 DEF SendError, Clear
    <2> HIDE DEF c
    <2>4. Sound(c) /\ c.status = st /\ c.cookies = {} /\ c.sent = r.sent
          /\ c.broken = r.broken
      BY <2>2, SoundFrame DEF Fields
    <2>5. /\ Sound(y.resp) /\ y.threw \in BOOLEAN
          /\ y.threw => y.resp.broken
          /\ ~y.threw => y.resp.sent /\ (y.resp.broken <=> r.broken)
          /\ ~y.threw /\ hasStream => y.resp.wire = <<Piece("head", st, {})>>
      <3>1. HeadersOutcome(c, y)
        BY <2>4, HeadersResult
      <3> QED BY <3>1, <2>4, <1>3 DEF HeadersOutcome
    <2>6. CASE y.threw \/ ~hasStream
      <3>1. x = y
        BY <2>3, <2>6
      <3> QED BY <3>1, <2>5, <2>6, <1>3
    <2>7. CASE ~y.threw /\ hasStream
      <3> DEFINE p == Piece("error", st, {})
      <3>1. /\ Len(y.resp.wire) = 1 /\ y.resp.wire[1].status = st
            /\ y.resp.wire[1].cookies = {}
        BY <2>5, <2>7 DEF Piece
      <3>2. p \in Pieces /\ p.kind = "error" /\ p.status = st
        BY DEF Piece, Pieces, Statuses
      <3>3. x \in Put(y.resp, p, <<>>)
        BY <2>3, <2>7
      <3> HIDE DEF p
      <3>4. /\ Sound(x.resp) /\ x.threw \in BOOLEAN /\ x.resp.sent
            /\ y.resp.broken => x.resp.broken
            /\ x.threw => x.resp.broken
            /\ x.resp.wire[1] = y.resp.wire[1]
        BY <3>1, <3>2, <3>3, <2>5, <2>7, BodyResult
      <3> QED BY <3>1, <3>4, <2>5, <2>7, <1>3
    <2> QED BY <2>6, <2>7, <2>5
  <1> QED BY <1>2, <1>3, <1>1, ResponseType

\* setStatus: refused once the headers are out.
LEMMA SetStatusResult ==
    ASSUME NEW r, Sound(r), NEW st \in Statuses, NEW x \in SetStatus(r, st)
    PROVE  /\ Sound(x.resp) /\ x.threw \in BOOLEAN
           /\ x.threw <=> r.sent
           /\ x.resp.sent = r.sent /\ x.resp.broken = r.broken
  <1>1. r \in Response /\ r.sent \in BOOLEAN
    BY ResponseType DEF Sound
  <1>2. CASE r.sent
    <2>1. x = Threw(r)
      BY <1>2 DEF SetStatus
    <2> QED BY <2>1, <1>2, Results
  <1>3. CASE ~r.sent
    <2>1. x = Done([r EXCEPT !.status = st])
      BY <1>3 DEF SetStatus
    <2> DEFINE u == [r EXCEPT !.status = st]
    <2>2. Fields(u, st, r.cookies, r.sent, r.broken, r.wire)
      BY <1>1, Updated
    <2> HIDE DEF u
    <2>3. x.threw = FALSE /\ x.resp = u
      BY <2>1, Results DEF u
    <2> QED BY <2>2, <2>3, <1>3, SoundFrame DEF Fields
  <1> QED BY <1>1, <1>2, <1>3

\* setCookie and setHeader: refused once the headers are out.
LEMMA SetCookieResult ==
    ASSUME NEW r, Sound(r), NEW c \in Cookies, NEW x \in SetCookie(r, c)
    PROVE  /\ Sound(x.resp) /\ x.threw \in BOOLEAN
           /\ x.threw <=> r.sent
           /\ x.resp.sent = r.sent /\ x.resp.broken = r.broken
  <1>1. r \in Response /\ r.sent \in BOOLEAN
    BY ResponseType DEF Sound
  <1>2. CASE r.sent
    <2>1. x = Threw(r)
      BY <1>2 DEF SetCookie
    <2> QED BY <2>1, <1>2, Results
  <1>3. CASE ~r.sent
    <2>1. x = Done([r EXCEPT !.cookies = r.cookies \cup {c}])
      BY <1>3 DEF SetCookie
    <2>2. r.cookies \cup {c} \in SUBSET Cookies
      BY <1>1, ResponseType
    <2>3. /\ x.threw = FALSE
          /\ Fields(x.resp, r.status, r.cookies \cup {c}, r.sent, r.broken, r.wire)
      <3>1. x.threw = FALSE /\ x.resp = [r EXCEPT !.cookies = r.cookies \cup {c}]
        BY <2>1, Results
      <3> QED BY <3>1, <2>2, <1>1, Updated
    <2> QED BY <2>3, <1>3, SoundFrame DEF Fields
  <1> QED BY <1>1, <1>2, <1>3

-----------------------------------------------------------------------------
(* The steps of handleTask preserve the invariant. *)

\* A call of a handler whose results leave the response sound, fail only on a
\* response that had begun or on a broken connection, and never mend one.
LEMMA CallIInv ==
    ASSUME IInv, NEW results, Call(results),
           \A x \in results : /\ Sound(x.resp) /\ x.threw \in BOOLEAN
                              /\ x.threw => resp.sent \/ x.resp.broken
    PROVE  IInv'
  <1>1. PICK x \in results :
           /\ resp' = x.resp
           /\ IF x.threw THEN Raise("std") ELSE UNCHANGED <<exc, pc, early>>
    BY DEF Call
  <1>2. /\ pc = "handler" /\ calls < MaxCalls /\ calls' = calls + 1
        /\ UNCHANGED <<isHead, hasStream, processed, index, buffered, code>>
        /\ ~early
    BY DEF Call, IInv, Early
  <1>3. Sound(resp')
    BY <1>1
  <1>4. Sound(resp)'
    BY <1>2, <1>3 DEF Sound, Progress, Bodies
  <1>5. resp' \in Response /\ resp \in Response
    BY <1>3 DEF Sound, IInv
  <1>6. resp.sent \in BOOLEAN /\ resp.broken \in BOOLEAN
    BY <1>5, ResponseType
  <1>7. CASE ~x.threw
    <2>1. TypeOK'
      BY <1>1, <1>2, <1>5, <1>7, HandlersAssumption DEF IInv, TypeOK, Response
    <2>2. Control' /\ Early'
      BY <1>1, <1>2, <1>7 DEF IInv, Control, Early
    <2> QED BY <1>4, <2>1, <2>2 DEF IInv
  <1>8. CASE x.threw
    <2>1. /\ exc' = "std" /\ pc' = "unwind"
          /\ early' = (early \/ (~resp.sent /\ ~resp.broken /\ ~buffered))
      BY <1>1, <1>8 DEF Raise
    <2>2. TypeOK'
      <3>1. early' \in BOOLEAN
        BY <2>1
      <3>2. calls' \in 0 .. MaxCalls
        BY <1>2, HandlersAssumption DEF IInv, TypeOK
      <3> QED BY <1>2, <1>5, <2>1, <3>1, <3>2 DEF IInv, TypeOK, Response
    <2>3. Control'
      BY <2>1 DEF Control
    <2>4. Early'
      <3>1. early' => resp'.broken
        BY <1>1, <1>2, <1>8, <2>1
      <3> QED BY <2>1, <3>1 DEF Early
    <2> QED BY <1>4, <2>2, <2>3, <2>4 DEF IInv
  <1> QED BY <1>7, <1>8

\* The handler's own calls.
LEMMA HandlerCallsIInv ==
    ASSUME IInv,
           \/ HandlerSetStatus
           \/ \E c \in Cookies : HandlerSetCookie(c)
           \/ \E from \in {"chars", "streambuf"} : HandlerWrite(from)
           \/ \E status \in ErrorCodes : HandlerSendError(status)
    PROVE  IInv'
  <1>1. Sound(resp) /\ resp.sent \in BOOLEAN
    BY ResponseType DEF IInv, Sound
  <1>2. CASE HandlerSetStatus
    <2>1. 302 \in Statuses
      BY DEF Statuses
    <2>2. \A x \in SetStatus(resp, 302) :
             Sound(x.resp) /\ x.threw \in BOOLEAN /\ (x.threw => resp.sent \/ x.resp.broken)
      BY <1>1, <2>1, SetStatusResult
    <2> QED BY <1>2, <2>2, CallIInv DEF HandlerSetStatus
  <1>3. ASSUME NEW c \in Cookies, HandlerSetCookie(c) PROVE IInv'
    <2>1. \A x \in SetCookie(resp, c) :
             Sound(x.resp) /\ x.threw \in BOOLEAN /\ (x.threw => resp.sent \/ x.resp.broken)
      BY <1>1, SetCookieResult
    <2> QED BY <1>3, <2>1, CallIInv DEF HandlerSetCookie
  <1>4. ASSUME NEW from \in {"chars", "streambuf"}, HandlerWrite(from) PROVE IInv'
    <2>1. \A x \in Write(resp, "handler", from) :
             Sound(x.resp) /\ x.threw \in BOOLEAN /\ (x.threw => resp.sent \/ x.resp.broken)
      BY <1>1, WriteResult DEF WriteOutcome
    <2> QED BY <1>4, <2>1, CallIInv DEF HandlerWrite
  <1>5. ASSUME NEW status \in ErrorCodes, HandlerSendError(status) PROVE IInv'
    <2>1. \A x \in SendError(resp, status) :
             Sound(x.resp) /\ x.threw \in BOOLEAN /\ (x.threw => resp.sent \/ x.resp.broken)
      BY <1>1, SendErrorResult
    <2> QED BY <1>5, <2>1, CallIInv DEF HandlerSendError
  <1> QED BY <1>2, <1>3, <1>4, <1>5

\* The steps of a handler that leave the response alone.
LEMMA HandlerQuietIInv ==
    ASSUME IInv,
           \/ HandlerStream
           \/ HandlerMarkAsProcessed
           \/ \E kind \in {"http", "std", "unknown"}, status \in ErrorCodes :
                 HandlerThrow(kind, status)
    PROVE  IInv'
  <1>1. resp \in Response /\ resp.sent \in BOOLEAN /\ resp.broken \in BOOLEAN
    BY ResponseType DEF IInv, Sound
  <1>2. resp' = resp /\ hasStream' = hasStream /\ pc = "handler"
    BY DEF HandlerStream, HandlerMarkAsProcessed, HandlerThrow
  <1>3. ~early
    BY <1>2 DEF IInv, Early
  <1>4. Sound(resp)'
    BY <1>2 DEF IInv, Sound, Progress, Bodies, Response
  <1>5. CASE HandlerStream \/ HandlerMarkAsProcessed
    <2>1. TypeOK'
      <3>1. CASE HandlerStream
        <4>1. calls' \in 0 .. MaxCalls /\ buffered' \in BOOLEAN
          BY <3>1, HandlersAssumption DEF IInv, TypeOK, HandlerStream
        <4> QED BY <3>1, <4>1 DEF IInv, HandlerStream, TypeOK, Response
      <3>2. CASE HandlerMarkAsProcessed
        <4>1. processed' \in BOOLEAN
          BY <3>2 DEF HandlerMarkAsProcessed
        <4> QED BY <3>2, <4>1 DEF IInv, HandlerMarkAsProcessed, TypeOK, Response
      <3> QED BY <1>5, <3>1, <3>2
    <2>2. Control' /\ Early'
      BY <1>3, <1>5 DEF IInv, HandlerStream, HandlerMarkAsProcessed, Control, Early
    <2> QED BY <1>4, <2>1, <2>2 DEF IInv
  <1>6. ASSUME NEW kind \in {"http", "std", "unknown"}, NEW status \in ErrorCodes,
               HandlerThrow(kind, status)
        PROVE  IInv'
    <2>1. /\ exc' = kind /\ pc' = "unwind" /\ code' = status
          /\ early' = (early \/ (~resp.sent /\ ~resp.broken /\ ~buffered))
          /\ UNCHANGED <<isHead, hasStream, resp, processed, index, calls, buffered>>
      BY <1>6 DEF HandlerThrow, Raise
    <2>2. TypeOK'
      <3>1. early' \in BOOLEAN
        BY <2>1
      <3> QED BY <2>1, <3>1 DEF IInv, TypeOK, Response
    <2>3. Control'
      BY <2>1 DEF Control
    <2>4. Early'
      <3>1. early' => ~resp.sent /\ ~buffered
        BY <1>3, <2>1
      <3> QED BY <2>1, <3>1 DEF Early
    <2> QED BY <1>4, <2>2, <2>3, <2>4 DEF IInv
  <1> QED BY <1>5, <1>6

\* ~RequestStream writes what the handler streamed.
LEMMA FlushResult ==
    ASSUME IInv, NEW x \in IF buffered THEN Write(resp, "handler", "streambuf") ELSE {Done(resp)}
    PROVE  /\ Sound(x.resp) /\ x.threw \in BOOLEAN
           /\ x.threw => x.resp.broken /\ ~x.resp.sent
           /\ resp.broken => x.resp.broken
           /\ ~buffered => ~x.threw /\ x.resp = resp
  <1>1. Sound(resp) /\ buffered \in BOOLEAN
    BY DEF IInv, TypeOK
  <1>2. CASE buffered
    BY <1>1, <1>2, WriteResult DEF WriteOutcome
  <1>3. CASE ~buffered
    BY <1>1, <1>3, Results
  <1> QED BY <1>1, <1>2, <1>3

\* The end of a handler: ~RequestStream may throw, out of a handler that
\* returned or out of one that an exception leaves.
LEMMA HandlerEndIInv ==
    ASSUME IInv, HandlerReturn \/ Unwind
    PROVE  IInv'
  <1>1. CASE HandlerReturn
    <2>1. PICK x \in (IF buffered THEN Write(resp, "handler", "streambuf") ELSE {Done(resp)}) :
             /\ resp' = x.resp
             /\ IF x.threw THEN exc' = "std" /\ pc' = "caught"
                           ELSE exc' = "none" /\ pc' = "loop"
      BY <1>1 DEF HandlerReturn
    <2>2. /\ pc = "handler" /\ index' = index + 1 /\ buffered' = FALSE
          /\ UNCHANGED <<isHead, hasStream, processed, calls, code, early>>
      BY <1>1 DEF HandlerReturn
    <2>3. Sound(resp') /\ x.threw \in BOOLEAN
      BY <2>1, FlushResult
    <2>4. Sound(resp)' /\ resp' \in Response
      BY <2>2, <2>3 DEF Sound, Progress, Bodies
    <2>5. index' \in 1 .. Handlers + 1
      BY <2>2, HandlersAssumption DEF IInv, TypeOK, Control
    <2>6. TypeOK'
      <3>1. buffered' \in BOOLEAN
        BY <2>2
      <3>2. exc' \in {"std", "none"} /\ pc' \in {"caught", "loop"}
        BY <2>1, <2>3
      <3> QED BY <2>2, <2>4, <2>5, <3>1, <3>2 DEF IInv, TypeOK, Response
    <2>7. Control' /\ Early'
      <3>1. ~early'
        BY <2>2 DEF IInv, Early
      <3> QED BY <2>1, <2>3, <3>1 DEF Control, Early
    <2> QED BY <2>4, <2>6, <2>7 DEF IInv
  <1>2. CASE Unwind
    <2>1. PICK x \in (IF buffered THEN Write(resp, "handler", "streambuf") ELSE {Done(resp)}) :
             resp' = x.resp /\ pc' = IF x.threw THEN "terminated" ELSE "caught"
      BY <1>2 DEF Unwind
    <2>2. /\ pc = "unwind" /\ buffered' = FALSE
          /\ UNCHANGED <<isHead, hasStream, processed, index, calls, exc, code, early>>
      BY <1>2 DEF Unwind
    <2>3. /\ Sound(resp') /\ x.threw \in BOOLEAN
          /\ x.threw => resp'.broken /\ ~resp'.sent
          /\ resp.broken => resp'.broken
          /\ ~buffered => ~x.threw /\ resp' = resp
      BY <2>1, FlushResult
    <2>4. Sound(resp)' /\ resp' \in Response
      BY <2>2, <2>3 DEF Sound, Progress, Bodies
    <2>5. pc' \in {"terminated", "caught"}
      BY <2>1, <2>3
    <2>6. TypeOK'
      <3>1. buffered' \in BOOLEAN
        BY <2>2
      <3> QED BY <2>2, <2>4, <2>5, <3>1 DEF IInv, TypeOK, Response
    <2>7. Control'
      BY <2>1, <2>3, <2>5 DEF Control
    <2>8. Early'
      <3>1. ASSUME early', ~resp'.broken PROVE ~resp'.sent
        BY <3>1, <2>2, <2>3 DEF IInv, Early, TypeOK
      <3> QED BY <2>5, <3>1 DEF Early
    <2> QED BY <2>4, <2>6, <2>7, <2>8 DEF IInv
  <1> QED BY <1>1, <1>2

\* The loop over the handlers, and sendHeaders after the last.
LEMMA LoopIInv ==
    ASSUME IInv, NextHandler \/ Finish
    PROVE  IInv'
  <1>1. CASE NextHandler
    <2>1. /\ pc = "loop" /\ calls' = 0
          /\ pc' = IF index > Handlers \/ processed THEN "finish" ELSE "handler"
          /\ UNCHANGED <<isHead, hasStream, resp, processed, index, buffered, exc, code, early>>
      BY <1>1 DEF NextHandler
    <2>2. Sound(resp)' /\ resp \in Response
      BY <2>1 DEF IInv, Sound, Progress, Bodies, Response
    <2>3. TypeOK'
      BY <2>1, <2>2, HandlersAssumption DEF IInv, TypeOK, Response
    <2>4. Control'
      BY <2>1, HandlersAssumption DEF IInv, TypeOK, Control
    <2>5. Early'
      BY <2>1 DEF IInv, Early
    <2> QED BY <2>2, <2>3, <2>4, <2>5 DEF IInv
  <1>2. CASE Finish
    <2>1. PICK x \in SendHeaders(resp) :
             /\ resp' = x.resp
             /\ IF x.threw THEN exc' = "std" /\ pc' = "caught"
                           ELSE exc' = exc /\ pc' = "good"
      BY <1>2 DEF Finish
    <2>2. /\ pc = "finish"
          /\ UNCHANGED <<isHead, hasStream, processed, index, calls, buffered, code, early>>
      BY <1>2 DEF Finish
    <2>3. Sound(resp') /\ x.threw \in BOOLEAN /\ (~x.threw => resp'.sent)
      BY <2>1, HeadersResult DEF IInv, HeadersOutcome
    <2>4. Sound(resp)' /\ resp' \in Response
      BY <2>2, <2>3 DEF Sound, Progress, Bodies
    <2>5. TypeOK'
      BY <2>1, <2>2, <2>3, <2>4 DEF IInv, TypeOK, Response
    <2>6. Control'
      BY <2>1, <2>3 DEF Control
    <2>7. Early'
      BY <2>2 DEF IInv, Early
    <2> QED BY <2>4, <2>5, <2>6, <2>7 DEF IInv
  <1> QED BY <1>1, <1>2

\* A caught exception is answered, or goes on when the headers were sent.
LEMMA CatchIInv ==
    ASSUME IInv, Catch
    PROVE  IInv'
  <1>1. PICK x \in SetStatus(resp, 500) :
           resp' = x.resp /\ pc' = IF x.threw THEN "escape" ELSE "reply"
    BY DEF Catch
  <1>2. /\ pc = "caught"
        /\ UNCHANGED <<isHead, hasStream, processed, index, calls, buffered, exc, code, early>>
    BY DEF Catch
  <1>3. /\ Sound(resp') /\ x.threw \in BOOLEAN
        /\ x.threw <=> resp.sent
        /\ resp'.sent = resp.sent /\ resp'.broken = resp.broken
    <2>1. 500 \in Statuses /\ Sound(resp)
      BY DEF Statuses, IInv
    <2> QED BY <1>1, <2>1, SetStatusResult
  <1>4. Sound(resp)' /\ resp' \in Response
    BY <1>2, <1>3 DEF Sound, Progress, Bodies
  <1>5. TypeOK'
    BY <1>1, <1>2, <1>3, <1>4 DEF IInv, TypeOK, Response
  <1>6. Control'
    BY <1>1, <1>3 DEF Control
  <1>7. Early'
    BY <1>1, <1>2, <1>3 DEF IInv, Early
  <1> QED BY <1>4, <1>5, <1>6, <1>7 DEF IInv

\* sendError with the status of an HttpException.
LEMMA ReplyHttpIInv ==
    ASSUME IInv, ReplyHttp
    PROVE  IInv'
  <1>1. PICK x \in SendError(resp, code) :
           /\ resp' = x.resp
           /\ IF x.threw THEN exc' = "std" /\ pc' = "escape"
                         ELSE exc' = exc /\ pc' = "good"
    BY DEF ReplyHttp
  <1>2. /\ pc = "reply" /\ ~resp.sent
        /\ UNCHANGED <<isHead, hasStream, processed, index, calls, buffered, code, early>>
    BY DEF ReplyHttp, IInv, Control
  <1>3. /\ Sound(resp') /\ x.threw \in BOOLEAN
        /\ x.threw => resp'.broken
        /\ ~x.threw => resp'.sent /\ (hasStream => resp'.wire[1].status = code)
    BY <1>1, <1>2, SendErrorResult DEF IInv, TypeOK
  <1>4. Sound(resp)' /\ resp' \in Response
    BY <1>2, <1>3 DEF Sound, Progress, Bodies
  <1>5. TypeOK'
    BY <1>1, <1>2, <1>3, <1>4 DEF IInv, TypeOK, Response
  <1>6. Control'
    BY <1>1, <1>3 DEF Control
  <1>7. Early'
    <2>1. code >= 400
      BY ErrorCodesAssumption DEF IInv, TypeOK
    <2> QED BY <1>1, <1>2, <1>3, <2>1 DEF Early
  <1> QED BY <1>4, <1>5, <1>6, <1>7 DEF IInv

\* sendError(500) and the text of the exception, written by ~RequestStream.
LEMMA ReplyErrorIInv ==
    ASSUME IInv, ReplyError
    PROVE  IInv'
  <1>1. PICK x \in SendError(resp, 500) :
        \E y \in Write(x.resp, "what", "streambuf")
                  \cup (IF exc = "std" THEN {Done(x.resp)} ELSE {}) :
          /\ resp' = y.resp
          /\ IF x.threw
                THEN exc' = "std" /\ pc' = (IF y.threw THEN "terminated" ELSE "escape")
                ELSE IF y.threw THEN exc' = "std" /\ pc' = "escape"
                                ELSE exc' = exc /\ pc' = "good"
    BY DEF ReplyError
  <1>2. PICK y \in Write(x.resp, "what", "streambuf")
                  \cup (IF exc = "std" THEN {Done(x.resp)} ELSE {}) :
          /\ resp' = y.resp
          /\ IF x.threw
                THEN exc' = "std" /\ pc' = (IF y.threw THEN "terminated" ELSE "escape")
                ELSE IF y.threw THEN exc' = "std" /\ pc' = "escape"
                                ELSE exc' = exc /\ pc' = "good"
    BY <1>1
  <1>3. /\ pc = "reply" /\ ~resp.sent
        /\ UNCHANGED <<isHead, hasStream, processed, index, calls, buffered, code, early>>
    BY DEF ReplyError, IInv, Control
  <1>4. /\ Sound(x.resp) /\ x.threw \in BOOLEAN
        /\ x.threw => x.resp.broken
        /\ ~x.threw => x.resp.sent /\ (hasStream => x.resp.wire[1].status = 500)
    BY <1>3, SendErrorResult DEF IInv
  <1>5. /\ Sound(y.resp) /\ y.threw \in BOOLEAN
        /\ x.resp.broken => y.resp.broken
        /\ y.threw => y.resp.broken /\ ~y.resp.sent
        /\ x.resp.sent => y.resp.sent /\ (hasStream => y.resp.wire[1] = x.resp.wire[1])
    <2>1. CASE y \in Write(x.resp, "what", "streambuf")
      <3>1. Sound(x.resp)
        BY <1>4, Zenon
      <3>2. "what" \in {"handler", "what"}
        OBVIOUS
      <3>3. WriteOutcome(x.resp, y, "streambuf")
        BY <2>1, <3>1, <3>2, WriteResult
      <3> QED BY <3>3 DEF WriteOutcome
    <2>2. CASE y = Done(x.resp)
      <3>1. y.resp = x.resp /\ y.threw = FALSE
        BY <2>2 DEF Done
      <3>2. Sound(x.resp)
        BY <1>4, Zenon
      <3> QED BY <3>1, <3>2
    <2> QED BY <2>1, <2>2, <1>2
  <1>6. Sound(resp)' /\ resp' \in Response
    BY <1>2, <1>3, <1>5 DEF Sound, Progress, Bodies
  <1>7. TypeOK'
    BY <1>2, <1>3, <1>4, <1>5, <1>6 DEF IInv, TypeOK, Response
  <1>8. Control'
    BY <1>2, <1>4, <1>5 DEF Control
  <1>9. Early'
    BY <1>2, <1>3, <1>4, <1>5 DEF Early
  <1> QED BY <1>6, <1>7, <1>8, <1>9 DEF IInv

-----------------------------------------------------------------------------
(* The theorems. *)

\* A task that a worker takes up has an empty response.
LEMMA InitIInv == Init => IInv
  <1> SUFFICES ASSUME Init PROVE IInv
    OBVIOUS
  <1>1. <<>> \in Seq(Pieces) /\ Len(<<>>) = 0
    BY EmptySeq
  <1>2. Reset \in Response
    BY <1>1 DEF Reset, Response, Pieces, Statuses
  <1>3. /\ resp.sent = FALSE /\ resp.broken = FALSE /\ resp.wire = <<>>
        /\ resp \in Response
    BY <1>2 DEF Init, Reset
  <1>4. Sound(resp)
    BY <1>1, <1>3 DEF Sound, Progress, Bodies
  <1>5. TypeOK
    <2>1. processed \in BOOLEAN /\ buffered \in BOOLEAN /\ early \in BOOLEAN
      BY DEF Init
    <2>2. index \in 1 .. Handlers + 1 /\ calls \in 0 .. MaxCalls
      BY HandlersAssumption DEF Init
    <2>3. /\ isHead \in BOOLEAN /\ hasStream \in BOOLEAN
          /\ pc = "loop" /\ exc = "none" /\ code = 500
      BY DEF Init
    <2> QED BY <1>3, <2>1, <2>2, <2>3 DEF TypeOK
  <1>6. Control /\ Early
    BY DEF Init, Control, Early
  <1> QED BY <1>4, <1>5, <1>6 DEF IInv

\* Every step preserves the invariant.
LEMMA NextIInv == IInv /\ [Next]_vars => IInv'
  <1> SUFFICES ASSUME IInv, [Next]_vars PROVE IInv'
    OBVIOUS
  <1>1. CASE Handler
    BY <1>1, HandlerCallsIInv, HandlerQuietIInv, HandlerEndIInv DEF Handler
  <1>2. CASE NextHandler \/ Finish
    BY <1>2, LoopIInv
  <1>3. CASE Catch \/ ReplyHttp \/ ReplyError
    BY <1>3, CatchIInv, ReplyHttpIInv, ReplyErrorIInv
  <1>4. CASE Escape
    <2>1. /\ pc = "escape" /\ pc' = "bad"
          /\ UNCHANGED <<isHead, hasStream, resp, processed, index, calls, buffered, exc,
                         code, early>>
      BY <1>4 DEF Escape
    <2>2. Sound(resp)'
      BY <2>1 DEF IInv, Sound, Progress, Bodies, Response
    <2>3. TypeOK'
      BY <2>1 DEF IInv, TypeOK, Response
    <2>4. Control' /\ Early'
      BY <2>1 DEF IInv, Control, Early
    <2> QED BY <2>2, <2>3, <2>4 DEF IInv
  <1>5. CASE UNCHANGED vars
    <2>1. Sound(resp)' /\ TypeOK'
      BY <1>5 DEF IInv, Sound, Progress, Bodies, Response, TypeOK, vars
    <2>2. Control' /\ Early'
      BY <1>5 DEF IInv, Control, Early, vars
    <2> QED BY <2>1, <2>2 DEF IInv
  <1> QED BY <1>1, <1>2, <1>3, <1>4, <1>5 DEF Next, Over

\* The inductive invariant holds in every state of a task.
THEOREM Invariance == Spec => []IInv
  BY InitIInv, NextIInv, PTL DEF Spec

\* Type correctness of a task: it runs no more handlers than it has, and its
\* response keeps its shape.
THEOREM TypeCorrect == Spec => []TypeOK
  <1>1. IInv => TypeOK
    BY DEF IInv
  <1> QED BY <1>1, Invariance, PTL

\* Whatever handlers call, throw and stream, and wherever the connection breaks,
\* the client gets one header block in front and an error page only under its
\* own headers.
THEOREM OneAnswer == Spec => []WellFormedAnswer
  <1>1. IInv => WellFormedAnswer
    <2> SUFFICES ASSUME IInv PROVE WellFormedAnswer
      OBVIOUS
    <2>1. resp \in Response /\ Progress(resp) /\ Bodies(resp)
      BY DEF IInv, Sound
    <2>2. /\ Len(resp.wire) \in Nat /\ DOMAIN resp.wire = 1 .. Len(resp.wire)
          /\ resp.sent \in BOOLEAN /\ resp.broken \in BOOLEAN /\ hasStream \in BOOLEAN
      BY <2>1, ResponseType DEF IInv, TypeOK
    <2>3. Len(<<>>) = 0
      BY EmptySeq
    <2>4. ASSUME NEW i \in DOMAIN resp.wire
          PROVE  /\ i = 1 <=> resp.wire[i].kind \in {"head", "partial"}
                 /\ resp.wire[i].kind = "partial" => resp.broken /\ Len(resp.wire) = 1
                 /\ resp.wire[i].kind = "error" =>
                      /\ i = 2
                      /\ resp.wire[1].status = resp.wire[i].status
                      /\ resp.wire[1].cookies = {}
      <3>1. CASE i \in 2 .. Len(resp.wire)
        BY <3>1, <2>1 DEF Bodies
      <3>2. CASE i = 1
        <4>1. Len(resp.wire) >= 1 /\ resp.wire # <<>>
          BY <3>2, <2>2, <2>3
        <4>2. \/ resp.wire[1].kind = "head"
              \/ resp.wire[1].kind = "partial" /\ resp.broken /\ Len(resp.wire) = 1
          BY <4>1, <2>1, <2>2 DEF Progress
        <4> QED BY <3>2, <4>2
      <3> QED BY <3>1, <3>2, <2>2
    <2> QED BY <2>4 DEF WellFormedAnswer, OneHeaderBlock, ErrorPageClean
  <1> QED BY <1>1, Invariance, PTL

\* The counters agree with what the client saw: a good task has sent a whole
\* header block, and a bad one had begun to answer or lost its connection.
THEOREM CountsAnswers == Spec => []CountedAsAnswered
  <1>1. IInv => CountedAsAnswered
    BY DEF IInv, Sound, Progress, Control, CountedAsAnswered
  <1> QED BY <1>1, Invariance, PTL

\* An exception out of a handler that had sent nothing is answered with an error
\* status, whatever kind it is, as long as the connection holds.
THEOREM FailureSeen == Spec => []EarlyFailureVisible
  <1>1. IInv => EarlyFailureVisible
    BY DEF IInv, Early, EarlyFailureVisible
  <1> QED BY <1>1, Invariance, PTL

\* A destructor that throws during unwinding, which ends the process, has failed to
\* send the headers: a handler alone cannot bring the daemon down so, and neither
\* can a connection that breaks after them.
THEOREM TerminationCause == Spec => []TerminatedOnlyInHeaders
  <1>1. IInv => TerminatedOnlyInHeaders
    BY DEF IInv, Control, TerminatedOnlyInHeaders
  <1> QED BY <1>1, Invariance, PTL

=============================================================================
