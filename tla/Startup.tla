------------------------------ MODULE Startup ------------------------------
(***************************************************************************)
(* The start-up and the end of the daemon: the configuration and its       *)
(* variables (library/config.cpp), the modules (library/loader.cpp), the   *)
(* components (ComponentSet), the handlers and their filters               *)
(* (library/handlerset.cpp, library/request_filter.cpp) and the logger and *)
(* pools of Globals (library/globals.cpp).                                 *)
(*                                                                         *)
(* A text of the configuration is a sequence of words; a word in Variables *)
(* stands for ${word}.  The attributes that the properties are about are   *)
(* texts, the others are given as what is read from them.                  *)
(***************************************************************************)
EXTENDS ComponentSet, FiniteSetsExt

CONSTANTS Configs,       \* families of configurations: see MCStartup
          Requests,      \* the requests to dispatch
          Variables,     \* names of variables
          MaxTasks,      \* 65535
          Modulus,       \* unsigned int counts modulo this
          MaxTurns       \* bound on the turns of the loop of resolveVariables

\* No text has the word that stands for an exception.
Words == STRING \ {"throw"}
Text == Seq(Words)

ASSUME BoundsAssumption ==
  /\ Variables \subseteq Words /\ MaxTurns \in Nat
  /\ MaxTasks \in Nat /\ Modulus \in Nat /\ MaxTasks < Modulus \div 2

\* Lists are sequences, names and filters are texts, the components are those of
\* the set; the size of a pool is an int, half as wide as the counter.
ASSUME ConfigsAssumption ==
  \A family \in Configs : \A c \in family :
    /\ c.components \in Seq(ToSet(c.components)) /\ c.handlers \in Seq(ToSet(c.handlers))
    /\ c.pools \in Seq(ToSet(c.pools)) /\ c.variables \in Seq(ToSet(c.variables))
    /\ \A i \in DOMAIN c.variables : c.variables[i][2] \in Text
    /\ \A i \in DOMAIN c.handlers :
         /\ c.handlers[i].pool \in Text
         /\ c.handlers[i].filters \in Seq(ToSet(c.handlers[i].filters))
         /\ \A k \in DOMAIN c.handlers[i].filters : c.handlers[i].filters[k].text \in Text
    /\ \A i \in DOMAIN c.pools :
         /\ c.pools[i].name \in Text /\ c.pools[i].threads \in Int /\ c.pools[i].queue \in Int
         /\ c.pools[i].threads + c.pools[i].queue < Modulus \div 2
    /\ {c.components[i].name : i \in DOMAIN c.components} = Components
    /\ c.needs \in [Components -> SUBSET Components]
    /\ c.catches \in SUBSET Components /\ c.throws \in SUBSET Components

VARIABLES conf,
          phase,         \* how far the constructor of Globals is
          next,          \* the iterator of the loop it is in
          handles,       \* Loader::handles_
          factories,     \* Loader::factories_, <<module, type>>
          components_,   \* the type of every component created
          handlers_, logger_,
          pools_, counter,   \* Globals::pools_, maxTasksInProcessCounter
          running        \* per started pool, the handlers given to startUpFunc

loader == <<handles, factories>>
handling == <<handlers_, logger_>>
pooling == <<pools_, counter>>
own == <<loader, components_, handling, pooling, running>>
svars == <<vars, conf, phase, next, own>>

-----------------------------------------------------------------------------
(* XmlConfig *)

\* findVariables: the first definition of a name stays.
vars_ == [v \in {conf.variables[i][1] : i \in DOMAIN conf.variables} |->
            LET i == Min({j \in DOMAIN conf.variables : conf.variables[j][1] = v})
            IN  conf.variables[i][2]]

Refs(text) == ToSet(text) \intersect Variables

\* One turn of the loop of resolveVariables, at the first reference; the value
\* of a variable without a definition is the exception.
Throw == <<"throw">>
Turn[text \in Text \union {Throw}] ==
  LET i == Min({j \in DOMAIN text : text[j] \in Variables})
  IN  IF Refs(text) = {} THEN text
      ELSE IF text[i] \notin DOMAIN vars_ THEN Throw
      ELSE SubSeq(text, 1, i - 1) \o vars_[text[i]] \o SubSeq(text, i + 1, Len(text))

resolveVariables(text) ==
  LET after[n \in 0 .. MaxTurns] == IF n = 0 THEN text ELSE Turn[after[n - 1]]
  IN  after[MaxTurns]

\* asString(key, defval): the default also stands in for what cannot be resolved.
asStringOr(text, default) ==
  LET value == resolveVariables(text) IN IF value = Throw THEN default ELSE value

Endless(text) == Refs(resolveVariables(text)) # {}

-----------------------------------------------------------------------------
\* std::map::insert: a key that is there keeps its value.
insert(m, k, v) == [x \in DOMAIN m \union {k} |-> IF x \in DOMAIN m THEN m[x] ELSE v]

(* Steps of the loops. *)

Enter(p) == phase' = p /\ next' = 1
Step == next' = next + 1 /\ UNCHANGED phase
Fail == Enter("closing")
Hang == Enter("endless")

\* A file that is missing, no XML or has a bad variable is refused.
ReadConfig ==
  /\ phase = "config"
  /\ IF conf.readable THEN Enter("modules") ELSE Enter("exit")
  /\ UNCHANGED <<vars, conf, own>>

\* Loader::load; the handle of a module that cannot be used is not kept.
LoadModule ==
  /\ phase = "modules" /\ next <= Len(conf.modules)
  /\ LET m == conf.modules[next]
     IN  \/ ~m.good /\ Fail /\ UNCHANGED loader
         \/ /\ m.good /\ Step
            /\ handles' = Append(handles, m.name)
            /\ factories' = factories \union {<<m.name, t>> : t \in m.types}
  /\ UNCHANGED <<vars, conf, components_, handling, pooling, running>>

ModulesDone ==
  /\ phase = "modules" /\ next > Len(conf.modules)
  /\ Enter("components")
  /\ UNCHANGED <<vars, conf, own>>

\* ComponentSet::add; a second component of one name is created and forgotten.
add ==
  /\ phase = "components" /\ next <= Len(conf.components)
  /\ LET c == conf.components[next]
     IN  \/ (c.type \notin factories \/ ~c.creates) /\ Fail /\ UNCHANGED components_
         \/ /\ c.type \in factories /\ c.creates /\ Step
            /\ components_' = insert(components_, c.name, c.type)
  /\ UNCHANGED <<vars, conf, loader, handling, pooling, running>>

AllAdded ==
  /\ phase = "components" /\ next > Len(conf.components)
  /\ Enter("loading")
  /\ UNCHANGED <<vars, conf, own>>

\* sendOnLoadToComponents.
LoadComponents ==
  /\ phase = "loading"
  /\ \/ Calls /\ UNCHANGED <<phase, next>>
     \/ InitDone /\ Enter("handlers")
     \/ InitFails /\ Fail
  /\ UNCHANGED <<conf, own>>

\* find() and dynamic_cast of what it returned.
Implements(name, interface) == name \in Components /\ conf.kinds[name] = interface

-----------------------------------------------------------------------------
(* HandlerSet *)

BadRegex(text) == "(" \in ToSet(text)

\* A filter with its text as it was read.
Filter(f, text) == [kind |-> f.kind, name |-> f.name, text |-> text]

\* The filters of a handler, all of which a request has to pass: attributes that
\* are absent, empty or cannot be resolved make none, nor does a parameter
\* without a name.
Filters(h) ==
  LET value(i) == asStringOr(h.filters[i].text, <<>>)
      kept == {i \in DOMAIN h.filters :
                 value(i) # <<>> /\ (h.filters[i].kind = "param" => h.filters[i].name # "")}
  IN  {Filter(h.filters[i], value(i)) : i \in kept}

\* What reading a filter comes to.
Reading(f) ==
  CASE f.kind = "param" /\ f.name = "" -> "fine"
    [] Endless(f.text) -> "endless"
    [] BadRegex(asStringOr(f.text, <<>>)) -> "failed"
    [] OTHER -> "fine"

\* What reading a handler comes to: its pool, its filters in their order, its
\* components.
HandlerReading(h) ==
  LET pool == resolveVariables(h.pool)
      reading(i) == Reading(h.filters[i])
      firstBadEndless == \E i \in DOMAIN h.filters :
                           reading(i) = "endless" /\ \A j \in 1 .. i - 1 : reading(j) = "fine"
  IN  IF pool = Throw THEN "failed"
      ELSE IF Refs(pool) # {} \/ firstBadEndless THEN "endless"
      ELSE IF /\ \A i \in DOMAIN h.filters : reading(i) = "fine"
              /\ \A i \in DOMAIN h.components : Implements(h.components[i], "handler")
      THEN "fine" ELSE "failed"

\* One handler in HandlerSet::init.
AddHandler ==
  /\ phase = "handlers" /\ next <= Len(conf.handlers)
  /\ LET h == conf.handlers[next]
     IN  \/ HandlerReading(h) = "failed" /\ Fail /\ UNCHANGED handlers_
         \/ HandlerReading(h) = "endless" /\ Hang /\ UNCHANGED handlers_
         \/ /\ HandlerReading(h) = "fine" /\ Step
            /\ handlers_' = Append(handlers_, [pool |-> resolveVariables(h.pool),
                                               filters |-> Filters(h),
                                               handlers |-> ToSet(h.components)])
  /\ UNCHANGED <<vars, conf, loader, components_, logger_, pooling, running>>

HandlersDone ==
  /\ phase = "handlers" /\ next > Len(conf.handlers)
  /\ Enter("logger")
  /\ UNCHANGED <<vars, conf, own>>

\* boost::regex_match, for patterns that are one word or match all there is.
regex_match(value, text) == text \in {<<value>>, <<".*">>}

\* RequestFilter::check of the five kinds.
check(f, request) ==
  IF f.kind = "param"
  THEN f.name \in DOMAIN request.args /\ regex_match(request.args[f.name], f.text)
  ELSE regex_match(request[f.kind], f.text)

\* Variant: one filter that lets the request pass is enough.
matchingAny(request) ==
  {i \in DOMAIN handlers_ :
     handlers_[i].filters # {} => \E f \in handlers_[i].filters : check(f, request)}

\* The descriptions all of whose filters let a request pass; the first is taken.
matching(request) ==
  {i \in DOMAIN handlers_ : \A f \in handlers_[i].filters : check(f, request)}
findURIHandler(request) == IF matching(request) = {} THEN 0 ELSE Min(matching(request))

findPoolHandlers(pool) ==
  UNION {handlers_[i].handlers : i \in {j \in DOMAIN handlers_ : handlers_[j].pool = pool}}

getPoolsNeeded == {handlers_[i].pool : i \in DOMAIN handlers_}

-----------------------------------------------------------------------------
(* Globals *)

initLogger ==
  /\ phase = "logger"
  /\ \/ /\ Implements(conf.logger, "logger")
        /\ logger_' = conf.logger /\ Enter("pools")
     \/ /\ ~Implements(conf.logger, "logger")
        /\ Fail /\ UNCHANGED logger_
  /\ UNCHANGED <<vars, conf, loader, components_, handlers_, pooling, running>>

\* One pool in initPools.
initPool ==
  /\ phase = "pools" /\ next <= Len(conf.pools)
  /\ LET p == conf.pools[next]
         name == resolveVariables(p.name)
         sum == (counter + p.threads + p.queue) % Modulus
     IN  \/ name # Throw /\ Endless(p.name) /\ Hang /\ UNCHANGED pooling
         \/ name = Throw /\ Fail /\ UNCHANGED pooling
         \/ /\ ~Endless(p.name) /\ name # Throw
            /\ counter' = sum
            /\ \/ (sum > MaxTasks \/ name \in DOMAIN pools_) /\ Fail /\ UNCHANGED pools_
               \/ /\ sum <= MaxTasks /\ name \notin DOMAIN pools_ /\ Step
                  /\ pools_' = IF name \in getPoolsNeeded THEN insert(pools_, name, p) ELSE pools_
  /\ UNCHANGED <<vars, conf, loader, components_, handling, running>>

PoolsDone ==
  /\ phase = "pools" /\ next > Len(conf.pools)
  /\ IF getPoolsNeeded \subseteq DOMAIN pools_ THEN Enter("start") ELSE Fail
  /\ UNCHANGED <<vars, conf, own>>

\* startThreadPools: every thread of a pool runs startUpFunc with its handlers.
StartPool ==
  /\ phase = "start"
  /\ \E p \in DOMAIN pools_ \ DOMAIN running : running' = insert(running, p, findPoolHandlers(p))
  /\ UNCHANGED <<vars, conf, phase, next, loader, components_, handling, pooling>>

\* No thread can be created; the pools before this one run on.
StartFails ==
  /\ phase = "start" /\ DOMAIN running # DOMAIN pools_
  /\ Fail
  /\ UNCHANGED <<vars, conf, own>>

Up ==
  /\ phase = "start" /\ DOMAIN running = DOMAIN pools_
  /\ Enter("up")
  /\ UNCHANGED <<vars, conf, own>>

\* stopThreadPools and joinThreadPools, then the end of Globals.
Shutdown ==
  /\ phase = "up"
  /\ running' = <<>>
  /\ Enter("closing")
  /\ UNCHANGED <<vars, conf, loader, components_, handling, pooling>>

\* The members of Globals are destroyed in the reverse of their order: the
\* component set, the handler set, the loader.
DestroyComponents ==
  /\ phase = "closing"
  /\ \/ (Destroy \/ Unload) /\ UNCHANGED components_
     \/ Delete /\ components_' = <<>>
  /\ UNCHANGED <<conf, phase, next, loader, handling, pooling, running>>

\* Variant: the loader is the first to go.
CloseModuleFirst ==
  /\ phase = "closing" /\ handles # <<>>
  /\ handles' = Front(handles)
  /\ UNCHANGED <<vars, conf, phase, next, factories, components_, handling, pooling, running>>

\* ~Loader: dlclose, the last module first.
CloseModule ==
  /\ phase = "closing" /\ mode = "gone" /\ handles # <<>>
  /\ handles' = Front(handles)
  /\ UNCHANGED <<vars, conf, phase, next, factories, components_, handling, pooling, running>>

Exit ==
  /\ phase = "closing" /\ mode = "gone" /\ handles = <<>>
  /\ Enter("exit")
  /\ UNCHANGED <<vars, conf, own>>

-----------------------------------------------------------------------------
SInit ==
  /\ \E family \in Configs : conf \in family
  /\ needs = conf.needs /\ catches = conf.catches /\ throws = conf.throws
  /\ Fresh
  /\ phase = "config" /\ next = 1
  /\ handles = <<>> /\ factories = {} /\ components_ = <<>> /\ handlers_ = <<>>
  /\ logger_ = 0 /\ pools_ = <<>> /\ counter = 0 /\ running = <<>>

Starting == \/ ReadConfig \/ LoadModule \/ ModulesDone \/ add \/ AllAdded \/ LoadComponents
            \/ AddHandler \/ HandlersDone \/ initLogger \/ initPool \/ PoolsDone
            \/ StartPool \/ StartFails \/ Up
Closing == DestroyComponents \/ CloseModule \/ Exit

SNext == Starting \/ Shutdown \/ Closing

\* One thread starts the daemon, and ends it.
SSpec == SInit /\ [][SNext]_svars /\ WF_svars(Starting) /\ WF_svars(Closing)

-----------------------------------------------------------------------------
\* Every definition is free of references to itself, however long the way.
Acyclic ==
  \A S \in SUBSET DOMAIN vars_ : S # {} => \E v \in S : Refs(vars_[v]) \intersect S = {}

\* A text with meanings put in for the references that have one.
Pieces(text, meaning) ==
  [i \in DOMAIN text |-> IF text[i] \in DOMAIN meaning THEN meaning[text[i]] ELSE <<text[i]>>]
Expand(text, meaning) == FlattenSeq(Pieces(text, meaning))

\* The meanings of the variables whose definitions are at most n levels deep.
Meanings[n \in 0 .. MaxTurns] ==
  IF n = 0 THEN [v \in {} |-> <<>>]
  ELSE [v \in {w \in DOMAIN vars_ \intersect Variables : Refs(vars_[w]) \subseteq DOMAIN Meanings[n - 1]}
          |-> Expand(vars_[v], Meanings[n - 1])]

\* What a text means: every reference stands for the meaning of its definition.
Meaning(text) == Expand(text, Meanings[MaxTurns])

\* Every component is created and loaded, none lost to a cycle or to a failure
\* another one ignored; the logger is a Logger, what handles requests a Handler.
ComponentsUp ==
  phase = "up" =>
    /\ ToSet(loaded) = Components /\ DOMAIN components_ = Components
    /\ Implements(logger_, "logger")
    /\ \A p \in DOMAIN running : \A c \in running[p] : Implements(c, "handler")

\* The threads and the places of the first n pools of the configuration.
SizeOf(k) == conf.pools[k].threads + conf.pools[k].queue
Sizes[n \in 0 .. Len(conf.pools)] == IF n = 0 THEN 0 ELSE Sizes[n - 1] + SizeOf(n)

\* The pools that run are those the handlers name, each configured once and all
\* together within the limit (unless a negative size made room).
PoolsUp ==
  phase = "up" =>
    LET named == {Meaning(conf.handlers[i].pool) : i \in DOMAIN conf.handlers}
        places(n) == {i \in DOMAIN conf.pools : Meaning(conf.pools[i].name) = n}
    IN  /\ DOMAIN running = named
        /\ \A n \in named : Cardinality(places(n)) = 1
        /\ (\A i \in DOMAIN conf.pools : SizeOf(i) >= 0) => Sizes[Len(conf.pools)] <= MaxTasks

\* The pool a handler names and the name of a pool, as resolveVariables reads them.
PoolOf(i) == resolveVariables(conf.handlers[i].pool)
PoolName(k) == resolveVariables(conf.pools[k].name)

\* As the texts are read, the pools that run are those the handlers name; each
\* is in one place of the configuration and has the settings given there.
PoolsRead ==
  phase = "up" =>
    /\ DOMAIN running = {PoolOf(i) : i \in DOMAIN conf.handlers}
    /\ \A n \in DOMAIN running :
         \E k \in DOMAIN conf.pools :
           /\ PoolName(k) = n /\ pools_[n] = conf.pools[k]
           /\ \A j \in DOMAIN conf.pools : PoolName(j) = n => j = k

\* A daemon that is up has all of what was configured, its components, handlers
\* and logger as well as its pools.
UpComplete == ComponentsUp /\ PoolsRead /\ PoolsUp

\* A filter that says something, and a request that passes all such filters.
Sound(f) == /\ Refs(Meaning(f.text)) = {} /\ Meaning(f.text) # <<>>
            /\ f.kind = "param" => f.name # ""
Passes(h, request) ==
  \A i \in DOMAIN h.filters :
    Sound(h.filters[i]) => check(Filter(h.filters[i], Meaning(h.filters[i].text)), request)

\* A request goes to the first handler of the configuration all of whose
\* filters it passes, as they read with their variables replaced.  (A filter
\* that is empty or uses an undefined variable counts as none.)
FirstMatch ==
  phase = "up" =>
    \A r \in Requests :
      LET d == findURIHandler(r)
      IN  /\ d = 0 => \A i \in DOMAIN conf.handlers : ~Passes(conf.handlers[i], r)
          /\ d > 0 => /\ Passes(conf.handlers[d], r)
                      /\ \A i \in 1 .. d - 1 : ~Passes(conf.handlers[i], r)

\* Every handler of the configuration has its pool, and the threads of the pool
\* have called onThreadStart of its components.
HandlersServed ==
  phase = "up" =>
    /\ Len(handlers_) = Len(conf.handlers)
    /\ \A d \in DOMAIN handlers_ :
         /\ handlers_[d].pool \in DOMAIN running
         /\ ToSet(conf.handlers[d].components) \subseteq running[handlers_[d].pool]

\* Requests are dispatched as the configuration says, to a pool that runs and is
\* ready for them.
DispatchAsConfigured == FirstMatch /\ HandlersServed

\* No component outlives the module its code is in, also when the start-up
\* breaks off anywhere.
CodeMapped == \A c \in DOMAIN components_ : components_[c][1] \in ToSet(handles)

\* The start-up ends, whatever is wrong with modules, components, handlers and
\* pools, with a daemon that is up or a process that has ended; a variable
\* defined through itself is the one thing that keeps it from doing so.
StartEnds == Acyclic => <>(phase \in {"up", "exit"})

=============================================================================
