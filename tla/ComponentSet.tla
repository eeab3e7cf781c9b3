---------------------------- MODULE ComponentSet ----------------------------
(***************************************************************************)
(* Loading and unloading the configured components                         *)
(* (library/componentset.cpp).  onLoad of a component looks up the ones it *)
(* needs with find(), which loads them first; components are unloaded in   *)
(* the reverse of the order in which they were loaded.                     *)
(*                                                                         *)
(* Components are numbered in the order of their names, the order of       *)
(* components_.  What onLoad does is chosen in Init: the components it     *)
(* looks up (in any order), whether it lets an exception of find() pass,   *)
(* and whether it throws one of its own (a missing name, for which find    *)
(* returns NULL, is such a case).  onLoad is run as a stack of calls.      *)
(* Module Startup puts this into the start-up of the whole daemon.         *)
(***************************************************************************)
EXTENDS Integers, SequencesExt

CONSTANT N   \* the number of components

ASSUME NAssumption == N \in Nat

Components == 1 .. N

VARIABLES needs,     \* what each onLoad looks up
          catches,   \* components whose onLoad catches exceptions of find()
          throws,    \* components whose onLoad throws once its lookups are done
          started,   \* isLoadingStarted
          loaded,    \* loadingStack_
          stack,     \* the onLoad calls under way, innermost last
          cursor,    \* the iterator of sendOnLoadToComponents
          mode,      \* "load", "throw", "up", "failed", "unload", "gone"
          got,       \* the components whose pointer each onLoad received
          calls      \* history: how often onLoad of each was called

config == <<needs, catches, throws>>
vars == <<needs, catches, throws, started, loaded, stack, cursor, mode, got, calls>>

\* A set nothing was loaded into.
Fresh ==
  /\ started = {}
  /\ loaded = <<>>
  /\ stack = <<>>
  /\ cursor = 1
  /\ mode = "load"
  /\ got = [c \in Components |-> {}]
  /\ calls = [c \in Components |-> 0]

Init ==
  /\ needs \in [Components -> SUBSET Components]
  /\ catches \in SUBSET Components
  /\ throws \in SUBSET Components
  /\ Fresh

\* isComponentLoaded
Loaded(c) == c \in ToSet(loaded)

\* A frame: the component whose onLoad runs, and the lookups it has still to make.
Frame(c) == [comp |-> c, todo |-> needs[c]]

\* Variant: a component that is being loaded is loaded again.
SendOnLoadNoCycleCheck(c, frames) ==
  /\ started' = started \union {c}
  /\ calls' = [calls EXCEPT ![c] = @ + 1]
  /\ stack' = Append(frames, Frame(c))
  /\ UNCHANGED mode

\* Variant: a component whose loading has started is passed over.
SendOnLoadSkips(c, frames) ==
  /\ started' = started \union {c}
  /\ calls' = IF c \in started THEN calls ELSE [calls EXCEPT ![c] = @ + 1]
  /\ stack' = IF c \in started THEN frames ELSE Append(frames, Frame(c))
  /\ UNCHANGED mode

\* sendOnLoad of a component that is not loaded, called with the given frames
\* below it.
SendOnLoad(c, frames) ==
  IF c \in started
  THEN /\ mode' = "throw"
       /\ stack' = frames
       /\ UNCHANGED <<started, calls>>
  ELSE /\ started' = started \union {c}
       /\ calls' = [calls EXCEPT ![c] = @ + 1]
       /\ stack' = Append(frames, Frame(c))
       /\ UNCHANGED mode

\* Variant: the loop runs past the last component.
LoadNextPastEnd ==
  /\ mode = "load" /\ stack = <<>> /\ cursor <= N + 1
  /\ cursor' = cursor + 1
  /\ IF Loaded(cursor) \/ cursor > N
     THEN UNCHANGED <<started, stack, mode, calls>>
     ELSE SendOnLoad(cursor, <<>>)
  /\ UNCHANGED <<config, loaded, got>>

\* The loop of sendOnLoadToComponents reaches its next component.
LoadNext ==
  /\ mode = "load" /\ stack = <<>> /\ cursor <= N
  /\ cursor' = cursor + 1
  /\ IF Loaded(cursor)
     THEN UNCHANGED <<started, stack, mode, calls>>
     ELSE SendOnLoad(cursor, <<>>)
  /\ UNCHANGED <<config, loaded, got>>

\* find(d) by the innermost onLoad: the pointer is returned at once when d is
\* loaded, otherwise once d's own onLoad has returned (Return).
Find(d) ==
  /\ mode = "load" /\ stack # <<>>
  /\ d \in Last(stack).todo
  /\ LET caller == Last(stack).comp
         frames == [stack EXCEPT ![Len(stack)].todo = @ \ {d}]
     IN IF Loaded(d)
        THEN /\ stack' = frames
             /\ got' = [got EXCEPT ![caller] = @ \union {d}]
             /\ UNCHANGED <<started, mode, calls>>
        ELSE SendOnLoad(d, frames) /\ UNCHANGED got
  /\ UNCHANGED <<config, loaded, cursor>>

\* onLoad returns: the component is loaded and its caller, if it is find(),
\* receives the pointer.
Return ==
  /\ mode = "load" /\ stack # <<>>
  /\ Last(stack).todo = {}
  /\ Last(stack).comp \notin throws
  /\ loaded' = Append(loaded, Last(stack).comp)
  /\ stack' = Front(stack)
  /\ got' = IF Len(stack) = 1 THEN got
            ELSE [got EXCEPT ![stack[Len(stack) - 1].comp] = @ \union {Last(stack).comp}]
  /\ UNCHANGED <<config, started, cursor, mode, calls>>

\* onLoad throws; sendOnLoad passes the exception on to its caller.
OnLoadThrows ==
  /\ mode = "load" /\ stack # <<>>
  /\ Last(stack).todo = {}
  /\ Last(stack).comp \in throws
  /\ stack' = Front(stack)
  /\ mode' = "throw"
  /\ UNCHANGED <<config, started, loaded, cursor, got, calls>>

\* Variant: the caller of find() looks the component up again and again.
UnwindRetries ==
  /\ mode = "throw" /\ stack # <<>>
  /\ mode' = "load"
  /\ stack' = [stack EXCEPT ![Len(stack)].todo = needs[Last(stack).comp]]
  /\ UNCHANGED <<config, started, loaded, cursor, got, calls>>

\* An exception of find() in the innermost onLoad.
Unwind ==
  /\ mode = "throw" /\ stack # <<>>
  /\ IF Last(stack).comp \in catches
     THEN mode' = "load" /\ UNCHANGED stack
     ELSE stack' = Front(stack) /\ UNCHANGED mode
  /\ UNCHANGED <<config, started, loaded, cursor, got, calls>>

\* The exception leaves ComponentSet::init.
InitFails ==
  /\ mode = "throw" /\ stack = <<>>
  /\ mode' = "failed"
  /\ UNCHANGED <<config, started, loaded, stack, cursor, got, calls>>

InitDone ==
  /\ mode = "load" /\ stack = <<>> /\ cursor > N
  /\ mode' = "up"
  /\ UNCHANGED <<config, started, loaded, stack, cursor, got, calls>>

\* ~ComponentSet, at shutdown or as the failed Globals is destroyed, which may
\* be before init() comes to the loading.
Destroy ==
  /\ mode \in {"up", "failed"} \/ (mode = "load" /\ stack = <<>> /\ cursor = 1)
  /\ mode' = "unload"
  /\ UNCHANGED <<config, started, loaded, stack, cursor, got, calls>>

\* Variant: components are unloaded in the order they were loaded.
UnloadForward ==
  /\ mode = "unload" /\ loaded # <<>>
  /\ loaded' = Tail(loaded)
  /\ UNCHANGED <<config, started, stack, cursor, mode, got, calls>>

\* sendOnUnloadToComponents: the next onUnload; what it throws is swallowed.
Unload ==
  /\ mode = "unload" /\ loaded # <<>>
  /\ loaded' = Front(loaded)
  /\ UNCHANGED <<config, started, stack, cursor, mode, got, calls>>

\* The components are deleted, in the reverse order of their names.
Delete ==
  /\ mode = "unload" /\ loaded = <<>>
  /\ mode' = "gone"
  /\ UNCHANGED <<config, started, loaded, stack, cursor, got, calls>>

-----------------------------------------------------------------------------
Calls == LoadNext \/ (\E d \in Components : Find(d)) \/ Return \/ OnLoadThrows \/ Unwind

Next == Calls \/ InitFails \/ InitDone \/ Destroy \/ Unload \/ Delete

Spec == Init /\ [][Next]_vars

-----------------------------------------------------------------------------
\* The domain of every variable.
TypeOK ==
  /\ needs \in [Components -> SUBSET Components]
  /\ catches \subseteq Components /\ throws \subseteq Components
  /\ started \subseteq Components
  /\ loaded \in Seq(Components)
  /\ stack \in Seq([comp : Components, todo : SUBSET Components])
  /\ cursor \in 1 .. N + 1
  /\ mode \in {"load", "throw", "up", "failed", "unload", "gone"}
  /\ got \in [Components -> SUBSET Components]
  /\ calls \in [Components -> Nat]

\* A component never holds a pointer to one that is not loaded: from the
\* moment find() returned it, through all failures of other components and the
\* whole of the unloading, the one it depends on is loaded before it and
\* unloaded after it.
DependenciesAlive ==
  \A c \in Components :
    (Loaded(c) \/ (mode = "load" /\ \E i \in DOMAIN stack : stack[i].comp = c))
      => \A d \in got[c] :
           \E i \in DOMAIN loaded :
             loaded[i] = d /\ \A j \in DOMAIN loaded : loaded[j] = c => i < j

\* onLoad of a component is called at most once, however the lookups of the
\* components chase each other.
LoadedOnce == \A c \in Components : calls[c] <= 1

=============================================================================
