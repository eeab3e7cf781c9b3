----------------------------- MODULE MCStartup -----------------------------
(* A plain configuration, and all changes of one part of it. *)
EXTENDS Startup

Module(name, good) == [name |-> name, good |-> good, types |-> {"a"}]
Component(n, m, creates) == [name |-> n, type |-> <<m, "a">>, creates |-> creates]
Handler(pool, filters, comps) == [pool |-> pool, filters |-> filters, components |-> comps]
TheFilter(kind, name, text) == [kind |-> kind, name |-> name, text |-> text]
Pool(name, threads, queue) == [name |-> name, threads |-> threads, queue |-> queue]

Plain ==
  [readable |-> TRUE, variables |-> <<>>, modules |-> <<Module("m", TRUE)>>,
   components |-> [n \in Components |-> Component(n, "m", TRUE)],
   kinds |-> [n \in Components |-> IF n = 2 THEN "logger" ELSE IF n = 1 THEN "handler" ELSE "other"],
   handlers |-> <<Handler(<<"p">>, <<>>, <<1>>)>>, pools |-> <<Pool(<<"p">>, 1, 1)>>, logger |-> 2,
   needs |-> [n \in Components |-> {}], catches |-> {}, throws |-> {}]

\* Every dependency graph, with components that catch and one that throws.
Graphs ==
  {[Plain EXCEPT !.needs = n, !.catches = c, !.throws = t] :
     n \in [Components -> SUBSET Components], c \in SUBSET Components,
     t \in {{}} \union {{x} : x \in Components}}

Modules ==
  {[Plain EXCEPT !.modules = m, !.components = [@ EXCEPT ![2] = c] \o d] :
     m \in SeqOf({Module("m", TRUE), Module("n", TRUE), Module("n", FALSE)}, 2),
     c \in {Component(2, m, b) : m \in {"m", "n"}, b \in BOOLEAN},
     d \in {<<>>, <<Component(1, "n", TRUE)>>}}
  \union {[Plain EXCEPT !.logger = l, !.readable = r] : l \in 0 .. N, r \in BOOLEAN}

TwoPools == [Plain EXCEPT !.pools = <<Pool(<<"p">>, 1, 0), Pool(<<"q">>, 1, 1)>>,
                          !.variables = <<<<"$a", <<"x">>>>>>]

SomeFilters ==
  {TheFilter("url", "", <<"x">>), TheFilter("url", "", <<".*">>), TheFilter("host", "", <<"$a">>),
   TheFilter("port", "", <<"$b">>), TheFilter("address", "", <<"y">>), TheFilter("param", "k", <<"x">>),
   TheFilter("param", "", <<"x">>), TheFilter("param", "j", <<>>), TheFilter("url", "", <<"(">>)}
SomeHandlers ==
  {Handler(p, f, <<1>>) : p \in {<<"p">>, <<"q">>}, f \in SeqOf(SomeFilters, 2)}
  \union {Handler(<<"p">>, <<>>, c) : c \in {<<>>, <<1, 3>>, <<0>>}}
First == {Handler(<<"p">>, f, <<1>>) : f \in {<<>>, <<TheFilter("host", "", <<"x">>), TheFilter("url", "", <<"x">>)>>}}
Handlers == {[TwoPools EXCEPT !.handlers = <<f, h>>] : f \in First, h \in SomeHandlers}
            \union {[TwoPools EXCEPT !.handlers = <<h, f>>] : f \in First, h \in SomeHandlers}
            \union {[TwoPools EXCEPT !.handlers = <<>>]}

SomePools == {Pool(n, t, q) : n \in {<<"p">>, <<"q">>, <<"r">>}, t \in {-2, 2}, q \in {1}}
Pools == {[Plain EXCEPT !.pools = p, !.handlers = @ \o h] :
            p \in SeqOf(SomePools, 3), h \in {<<>>, <<Handler(<<"q">>, <<>>, <<1>>)>>}}

Definitions == {<<v, t>> : v \in Variables,
                           t \in {<<>>, <<"p">>, <<"$a">>, <<"$b", "$b">>, <<"p", "$b">>}}
Defined == {[Plain EXCEPT !.variables = v, !.handlers = <<Handler(h, <<TheFilter("url", "", f)>>, <<1>>)>>,
                          !.pools = <<Pool(<<"$b">>, 1, 1), Pool(<<"p">>, 1, 1)>>] :
              v \in SeqOf(Definitions, 2), h \in {<<"$a">>, <<"p">>},
              f \in {<<"$a", "$b">>, <<"$b">>}}

MCConfigs == {Graphs, Modules, Handlers, Pools, Defined}

MCRequests == [url : {"x", "y"}, host : {"x", "y"}, port : {"80"}, address : {"x", "y"},
               args : {<<>>, "k" :> "x", "k" :> "y"}]

=============================================================================
