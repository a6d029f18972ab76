-------------------------------- MODULE Routes ---------------------------------
(***************************************************************************)
(* From the annotations of controllers to the table of routes: the library *)
(* modules server.annotations and server.router (lib/server), and what a   *)
(* class statement does with the routes of its methods.                    *)
(*                                                                         *)
(* An annotation with an argument is a closure: get("/a") returns the      *)
(* nested function `decorate`, which is to remember "/a".  A function      *)
(* literal captures an environment once, when it is first assigned         *)
(* (interpreter.c:1338), so every `decorate` remembers the first argument. *)
(***************************************************************************)
EXTENDS Naturals, Sequences, SequencesExt

CONSTANTS Controllers, Methods, Verbs,
          Paths,                \* paths other than "/", as one segment
          MaxAnnotations        \* bound on the annotations of a method or a class

VARIABLES meta,         \* __abl_server_meta__ of each function and class
          captured,     \* Function.env of decorate, of decorate in route, of bound
          target,       \* what is being annotated
          defined,      \* the classes that there are
          declared,     \* what the annotations of each target say
          routes,       \* what build_routes has returned
          expected      \* what it should have returned

vars == <<meta, captured, target, defined, declared, routes, expected>>

None == <<>>
Root == <<>>            \* "/"; other paths are sequences of segments
Class(c) == <<c>>
Method(c, m) == <<c, m>>
Targets == {Class(c) : c \in Controllers} \cup {Method(c, m) : c \in Controllers, m \in Methods}

\* The environment that a literal closes over when it is evaluated in `here`.
Closes(literal, here) == IF captured[literal] = None THEN here ELSE captured[literal]

\* _join_path
Join(base, path) == base \o path

-----------------------------------------------------------------------------
(* Annotations. *)

Annotating == target # None /\ Len(declared[target].entries) < MaxAnnotations

\* _append_route
AppendRoute(verb, path) ==
  meta' = [meta EXCEPT ![target].routes =
             Append(@, [verb |-> verb, path |-> path, handler |-> target])]

Declare(verb, path) ==
  declared' = [declared EXCEPT ![target].entries =
                 Append(@, [verb |-> verb, path |-> path, handler |-> target])]

\* @get and the like: _http_route of the function itself.
Plain(verb) ==
  /\ Annotating
  /\ AppendRoute(verb, Root) /\ Declare(verb, Root)
  /\ UNCHANGED <<captured, target, defined, routes, expected>>

\* @get(path): _http_route of the path, and then decorate of the function.
WithPath(verb, path) ==
  LET env == Closes("decorate", <<verb, path>>) IN
  /\ Annotating
  /\ captured' = [captured EXCEPT !["decorate"] = env]
  /\ AppendRoute(env[1], env[2]) /\ Declare(verb, path)
  /\ UNCHANGED <<target, defined, routes, expected>>

\* @route and @route(path), of a class.
Base(path) ==
  LET env == IF path = Root THEN <<path>> ELSE Closes("decorate base", <<path>>) IN
  /\ target \in {Class(c) : c \in Controllers} /\ declared[target].base = Root
  /\ meta' = [meta EXCEPT ![target].base = env[1]]
  /\ captured' = IF path = Root THEN captured ELSE [captured EXCEPT !["decorate base"] = env]
  /\ declared' = [declared EXCEPT ![target].base = path]
  /\ UNCHANGED <<target, defined, routes, expected>>

-----------------------------------------------------------------------------
(* Classes. *)

BeginMethod(c, m) ==
  /\ target = None /\ c \notin defined
  /\ declared[Method(c, m)].entries = <<>>
  /\ target' = Method(c, m)
  /\ UNCHANGED <<meta, captured, defined, declared, routes, expected>>

\* The end of a method: the class gets its routes.
EndMethod ==
  /\ target # None /\ Len(target) = 2
  /\ declared[target].entries # <<>>
  /\ LET c == Class(target[1]) IN
     /\ meta' = [meta EXCEPT ![c].routes = @ \o meta[target].routes]
     /\ declared' = [declared EXCEPT ![c].of = @ \o declared[target].entries]
  /\ target' = None
  /\ UNCHANGED <<captured, defined, routes, expected>>

\* The annotations of the class, which come last, and its name.
BeginClassAnnotations(c) ==
  /\ target = None /\ c \notin defined
  /\ target' = Class(c)
  /\ UNCHANGED <<meta, captured, defined, declared, routes, expected>>

EndClass ==
  /\ target # None /\ Len(target) = 1
  /\ target' = None /\ defined' = defined \cup {target[1]}
  /\ UNCHANGED <<meta, captured, declared, routes, expected>>

-----------------------------------------------------------------------------
(* build_routes of a list of classes. *)

\* A handler must be a function: routes of the class itself are left out.
IsHandler(entry) == Len(entry.handler) = 2

Record(entry, base, bound) ==
  [method |-> entry.verb, path |-> Join(base, entry.path), handler |-> bound]

\* _collect_route_records and _bind_handler: the literal `bound` is evaluated for
\* each entry, in an environment that has the instance and the function.
Collect(registry) ==
  LET bindings == FlattenSeq([i \in DOMAIN registry |->
                    LET c == registry[i] IN
                    [k \in DOMAIN SelectSeq(meta[Class(c)].routes, IsHandler) |->
                       LET entry == SelectSeq(meta[Class(c)].routes, IsHandler)[k] IN
                       [entry |-> entry, base |-> meta[Class(c)].base,
                        env |-> <<c, entry.handler[2]>>]]])
      first == IF bindings = <<>> THEN captured["bound"] ELSE Closes("bound", bindings[1].env)
  IN [routes |-> [k \in DOMAIN bindings |-> Record(bindings[k].entry, bindings[k].base, first)],
      bound |-> first]

\* What the annotations of the classes say.
Declared(registry) ==
  FlattenSeq([i \in DOMAIN registry |->
    LET c == registry[i]
        of == declared[Class(c)].of IN
    [k \in DOMAIN of |-> Record(of[k], declared[Class(c)].base, of[k].handler)]])

BuildRoutes(registry) ==
  /\ target = None /\ defined # {} /\ routes = <<>>
  /\ routes' = Collect(registry).routes
  /\ captured' = [captured EXCEPT !["bound"] = Collect(registry).bound]
  /\ expected' = Declared(registry)
  /\ UNCHANGED <<meta, target, defined, declared>>

Init ==
  /\ meta = [t \in Targets |-> [base |-> Root, routes |-> <<>>]]
  /\ captured = [literal \in {"decorate", "decorate base", "bound"} |-> None]
  /\ target = None /\ defined = {}
  /\ declared = [t \in Targets |-> [base |-> Root, entries |-> <<>>, of |-> <<>>]]
  /\ routes = <<>> /\ expected = <<>>

Next ==
  \/ \E verb \in Verbs : Plain(verb) \/ \E p \in Paths : WithPath(verb, <<p>>)
  \/ Base(Root) \/ \E p \in Paths : Base(<<p>>)
  \/ \E c \in Controllers : BeginClassAnnotations(c) \/ \E m \in Methods : BeginMethod(c, m)
  \/ EndMethod \/ EndClass
  \/ \E registry \in SetToSeqs(defined) : BuildRoutes(registry)

Spec == Init /\ [][Next]_vars

-----------------------------------------------------------------------------
(* Properties. *)

\* build_routes gives, for each annotation of a method, a route with its verb and
\* path that calls this method of an instance of its class; of annotations that
\* all say different things.
RoutesAsDeclared ==
  (\A i, j \in DOMAIN expected : i # j =>
     <<expected[i].method, expected[i].path>> # <<expected[j].method, expected[j].path>>)
  => routes = expected
================================================================================
