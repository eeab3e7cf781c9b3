----------------------------- MODULE MCRequest -----------------------------
(* Requests of few short arguments, cookies and parts. *)
EXTENDS Request

N == <<CR, LF>>
Quoted(c) == <<QUOTE, c, QUOTE>>
Chunk(kind, name, value, text) == [kind |-> kind, name |-> name, value |-> value, text |-> text]
NameIs(c) == <<NAME, EQ>> \o Quoted(c)
FileIs(c) == <<FILENAME, EQ>> \o Quoted(c)

Delimiter == Chunk("delimiter", <<>>, <<>>, <<DASH, DASH, 98>>)
Close == Chunk("close", <<>>, <<>>, <<DASH, DASH>> \o N)
Chunks ==
  {Delimiter, Close,
   Chunk("field", <<65>>, <<120, LF, DASH>>, N \o NameIs(65) \o N \o N \o <<120, LF, DASH>> \o N),
   Chunk("file", <<65>>, <<CR, LF>>,
         N \o NameIs(65) \o <<SEMI, LF, TAB>> \o FileIs(70) \o N \o N \o N \o N),
   Chunk("headers", <<>>, <<>>, N \o NameIs(66) \o <<SEMI, SP>> \o FileIs(70) \o N),
   Chunk("folded", <<>>, <<>>, N \o <<SP>> \o NameIs(67) \o N \o N \o <<120>> \o N)}

LFField == Chunk("field", <<66>>, <<>>, <<LF>> \o NameIs(66) \o <<LF, LF, LF>>)
FilePart(v) == Chunk("file", <<66>>, v, N \o FileIs(71) \o <<SEMI>> \o NameIs(66) \o N \o N \o v \o N)

Messages ==
  SeqOf(Chunks, 4)
  \union {<<Delimiter, a, Delimiter, b, Delimiter, Close>> :
            a, b \in {c \in Chunks : c.kind \in {"field", "file"}}
                     \union {LFField, FilePart(<<>>), FilePart(<<SP, 120>>)}}

Bounded == <<MULTIPART, SEMI, SP, BOUNDARY, EQ, 98>>
Types == {<<MULTIPART>>, <<MULTIPART, SEMI, BOUNDARY, EQ, QUOTE, 98, QUOTE>>,
          <<MULTIPART, SEMI, BOUNDARY, EQ, QUOTE, 98>>, <<PLAIN>>, <<FORM>>}

Texts == {<<>>, <<65, SP>>, <<AMP, EQ>>, <<PERCENT, 52, 49>>}
Args == {<<n, v>> : n \in Texts \ {<<>>}, v \in Texts}
Forms == {<<>>} \union {<<a>> : a \in Args} \union {<<a, b>> : a, b \in Args}
         \union {<<<<<<65>>, <<c>>>>>> : c \in 0 .. 255}

\* Cookies a client can have: no two of one name.
Some == <<<<<<65>>, <<PLUS>>>>>>
Jar == <<<<<<65>>, <<SEMI, SP>>>>, <<<<66>>, <<>>>>>>
\* Offsets taken for white space: all, and some.
Whites == {0 .. 150, {i \in 0 .. 150 : i % 3 # 0}}

A1 == <<Delimiter, FilePart(<<120>>), Delimiter, Close>>

MCInputs ==
  {Input(m, q, Jar, <<FORM>>, f, <<>>, "right", TRUE) : m \in {GET, POST}, q \in {<<>>, Some}, f \in Forms}
  \union {Input(GET, f, <<>>, <<FORM>>, <<>>, <<>>, "none", c) : f \in Forms, c \in BOOLEAN}
  \union {Input(POST, <<>>, <<>>, Bounded, <<>>, m, "right", c) : m \in Messages, c \in BOOLEAN}
  \union {[Input(POST, <<>>, <<>>, Bounded, <<>>, m, "right", TRUE) EXCEPT !.white = w] :
            m \in Messages, w \in Whites}
  \union {Input(POST, Some, Some, t, Some, A1, l, c) :
            t \in Types, l \in {"right", "long", "short", "none"}, c \in BOOLEAN}

=============================================================================
