----------------------------- MODULE Definitions ------------------------------
(***************************************************************************)
(* Class statements and annotated definitions of the Able interpreter.     *)
(*                                                                         *)
(* A class statement makes a Type, then a Function for each method in      *)
(* turn, and binds the name at the end (src/src/interpreter/interpreter.c: *)
(* 1351-1453).  The annotations of a method, of the class or of an         *)
(* assignment are looked up in two tables (annotations.c), all of them     *)
(* before the first is applied; then the decorators replace the value,     *)
(* last one first, and the modifiers look at what has become of it, first  *)
(* one first (interpreter.c:1177-1320).                                    *)
(*                                                                         *)
(* Handlers are Able functions.  While one runs, any statement may be      *)
(* executed: another registration, or a whole definition, of the same      *)
(* statement too.  So definitions are nested, and `defining` is their      *)
(* stack.                                                                  *)
(***************************************************************************)
EXTENDS Naturals, Sequences, FiniteSets, FiniteSetsExt

CONSTANTS Source,       \* the definitions in the text of the program
          Literals,     \* how many Functions the parser has made of literals
          Handlers,     \* functions registered as handlers
          NoHandler,
          Registrations, \* <<kind, name, handler>> that scripts register
          Effects,      \* what each handler may do to its target
          FirstModifiers, \* the table of modifiers that builtins leaves
          MaxTypes,     \* bound on class statements begun
          MaxNesting    \* bound on definitions in progress at once

Statements == DOMAIN Source
Annotations == DOMAIN FirstModifiers
Methods == UNION {{<<s, k>> : k \in 1..Len(Source[s].methods)} : s \in Statements}
MethodNames == {Source[d[1]].methods[d[2]].name : d \in Methods}
Names == {Source[s].name : s \in Statements}

\* An entry `@name` or, with call, `@name(...)`.
Entries == [name : Annotations, call : BOOLEAN]

ASSUME DefinitionsAssumption ==
  /\ \A s \in Statements :
       /\ Source[s].kind \in {"class", "function"}
       /\ Source[s].annotations \in Seq(Entries)
       /\ Source[s].bases \in Seq(Names)
       /\ Len(Source[s].methods) \in Nat
       /\ \A k \in 1..Len(Source[s].methods) :
            Source[s].methods[k].annotations \in Seq(Entries)
       /\ Source[s].kind = "function" =>
            Source[s].methods = <<>> /\ Source[s].literal \in 1..Literals
  /\ Literals \in Nat /\ MaxTypes \in Nat /\ MaxNesting \in Nat \ {0}
  /\ NoHandler \notin Handlers
  /\ Registrations \subseteq {"decorator", "modifier"} \X Annotations \X Handlers
  /\ Effects \in [Handlers -> SUBSET {"static", "route", "private"}]
  /\ FirstModifiers \in [Annotations -> Handlers \cup {NoHandler}]

\* An entry of __abl_server_meta__ routes, by the definition that was being
\* annotated when it was made.
Routes == (0..MaxTypes) \X (Nat \ {0})

\* Values, as far as definitions tell them apart.
FunctionValue(f) == <<"function", f>>
TypeValue(t) == <<"type", t>>
Undefined == <<"undefined", 0>>
NoValue == <<"nothing", 0>>             \* a variable or an attribute not there
IsFunction(v) == v[1] = "function"
IsType(v) == v[1] = "type"

VARIABLES decorators, modifiers,        \* decorator_handlers, modifier_handlers
          taken,        \* methods whose body is no longer in the syntax tree
          functions,    \* the Functions: those of literals, then of methods
          types,        \* the Types of class statements
          variables,    \* what the names are bound to
          hidden,       \* names whose variable is_private
          defining,     \* definitions in progress, innermost last
          exited        \* which error has ended the process

definitionVars == <<decorators, modifiers, taken, functions, types, variables, hidden,
          defining, exited>>
heap == <<taken, functions, types>>
tables == <<decorators, modifiers>>
names == <<variables, hidden>>

Depth == Len(defining)
Top == defining[Depth]
Replace(a) == SubSeq(defining, 1, Depth - 1) \o <<a>>
Calling == {"factory", "decorate", "modify"}

\* Able code runs: outside every definition, or in a handler of the innermost.
Script == exited = "no" /\ (Depth > 0 => Top.doing \in Calling)

\* A definition goes through its methods, then the statement itself.
InMethod(a) == a.member <= Len(Source[a.of].methods)
Method(a) == Source[a.of].methods[a.member]
Noted(a) == IF InMethod(a) THEN Method(a).annotations ELSE Source[a.of].annotations

\* annotations_contain of the parser: entries with parentheses do not count.
Contains(entries, name) ==
  \E i \in 1..Len(entries) : entries[i] = [name |-> name, call |-> FALSE]

Values == {FunctionValue(f) : f \in 1..Len(functions)}
          \cup {TypeValue(t) : t \in 1..Len(types)} \cup {Undefined}

TypeOK ==
  /\ tables \in [Annotations -> Handlers \cup {NoHandler}] \X
                [Annotations -> Handlers \cup {NoHandler}]
  /\ taken \in SUBSET Methods
  /\ \A f \in 1..Len(functions) :
       functions[f] \in [of : Methods \cup {<<"literal", 0>>}, body : BOOLEAN,
                         static : BOOLEAN,
                         bind : {"unset", "yes", "no"},
                         routes : SUBSET Routes]
  /\ \A t \in 1..Len(types) :
       /\ types[t].of \in Statements
       /\ types[t].bases \in Seq(1..(t - 1))
       /\ types[t].attributes \in [MethodNames -> Values \cup {NoValue}]
       /\ types[t].routes \in SUBSET Routes
  /\ variables \in [Names -> Values \cup {NoValue}]
  /\ hidden \in SUBSET {x \in Names : variables[x] # NoValue}
  /\ \A i \in 1..Depth :
       LET a == defining[i] IN
       /\ a.of \in Statements /\ a.member \in 1..(Len(Source[a.of].methods) + 1)
       /\ a.doing \in Calling \cup {"member", "finish"}
       /\ a.type \in 0..Len(types) /\ (a.type = 0 <=> Source[a.of].kind = "function")
       /\ a.doing # "member" => a.value \in Values
       /\ a.doing \in Calling => a.at \in 1..Len(Noted(a))
       /\ i < Depth => a.doing \in Calling
  /\ exited \in {"no", "unknown base", "unknown annotation", "not callable"}

-----------------------------------------------------------------------------
\* Start-up has run builtins, which registers `static` and `private`.
Init ==
  /\ decorators = [x \in Annotations |-> NoHandler]
  /\ modifiers = FirstModifiers
  /\ taken = {}
  /\ functions = [f \in 1..Literals |->
                    [of |-> <<"literal", 0>>, body |-> TRUE, static |-> FALSE,
                     bind |-> "no", routes |-> {}]]
  /\ types = <<>>
  /\ variables = [x \in Names |-> NoValue]
  /\ hidden = {}
  /\ defining = <<>>
  /\ exited = "no"

\* register_decorator, register_modifier: a name has one handler of each kind.
RegisterDecorator(x, h) ==
  /\ Script /\ <<"decorator", x, h>> \in Registrations
  /\ decorators' = [decorators EXCEPT ![x] = h]
  /\ UNCHANGED <<modifiers, heap, names, defining, exited>>

RegisterModifier(x, h) ==
  /\ Script /\ <<"modifier", x, h>> \in Registrations
  /\ modifiers' = [modifiers EXCEPT ![x] = h]
  /\ UNCHANGED <<decorators, heap, names, defining, exited>>

\* A definition that begins, with the Type it makes (none for a function).
Begun(s, t) == [of |-> s, type |-> t, member |-> 1, doing |-> "member", at |-> 0,
                value |-> Undefined, decorators |-> <<>>, modifiers |-> <<>>,
                private |-> FALSE, known |-> <<>>, log |-> <<>>]

BeginFunction(s) ==
  /\ Script /\ Depth < MaxNesting
  /\ Source[s].kind = "function"
  /\ defining' = Append(defining, Begun(s, 0))
  /\ UNCHANGED <<tables, heap, names, exited>>

\* The Types that the names of the bases are bound to now.
BasesOf(s) == [i \in 1..Len(Source[s].bases) |-> variables[Source[s].bases[i]]]

NewType(s) ==
  [of |-> s, bases |-> [i \in 1..Len(BasesOf(s)) |-> BasesOf(s)[i][2]],
   attributes |-> [x \in MethodNames |-> NoValue], routes |-> {}]

\* Mutant of BeginClass: the name is bound before the methods are made.
BeginClass_BindsFirst(s) ==
  /\ Script /\ Depth < MaxNesting /\ Len(types) < MaxTypes
  /\ Source[s].kind = "class"
  /\ \A i \in 1..Len(BasesOf(s)) : IsType(BasesOf(s)[i])
  /\ types' = Append(types, NewType(s))
  /\ defining' = Append(defining, Begun(s, Len(types) + 1))
  /\ variables' = [variables EXCEPT ![Source[s].name] = TypeValue(Len(types) + 1)]
  /\ UNCHANGED <<tables, taken, functions, hidden, exited>>

\* NODE_CLASS_DEF up to its first method; a base that is no Type ends the
\* process.
BeginClass(s) ==
  /\ Script /\ Depth < MaxNesting /\ Len(types) < MaxTypes
  /\ Source[s].kind = "class"
  /\ IF \A i \in 1..Len(BasesOf(s)) : IsType(BasesOf(s)[i])
     THEN /\ types' = Append(types, NewType(s))
          /\ defining' = Append(defining, Begun(s, Len(types) + 1))
          /\ UNCHANGED exited
     ELSE exited' = "unknown base" /\ UNCHANGED <<types, defining>>
  /\ UNCHANGED <<tables, taken, functions, names>>

-----------------------------------------------------------------------------
\* apply_annotations, between two calls.  The loops skip entries that have no
\* handler of the kind.  The next modifier after the i-th entry:
ModifierAfter(a, i) ==
  LET rest == {j \in (i + 1)..Len(a.modifiers) : a.modifiers[j] # NoHandler} IN
  IF rest = {} THEN [a EXCEPT !.doing = "finish"]
  ELSE [a EXCEPT !.doing = "modify", !.at = Min(rest)]

\* Mutant of DecoratorBefore: the decorators are applied from the first on.
DecoratorBefore_Forward(a, i) ==
  LET from == IF a.doing = "member" THEN 0 ELSE i
      rest == {j \in (from + 1)..Len(a.decorators) : a.decorators[j] # NoHandler} IN
  IF rest = {} THEN ModifierAfter(a, 0)
  ELSE [a EXCEPT !.at = Min(rest),
                 !.doing = IF Noted(a)[Min(rest)].call THEN "factory" ELSE "decorate"]

\* The next decorator before the i-th entry, or else the first modifier.
DecoratorBefore(a, i) ==
  LET rest == {j \in 1..(i - 1) : a.decorators[j] # NoHandler} IN
  IF rest = {} THEN ModifierAfter(a, 0)
  ELSE [a EXCEPT !.at = Max(rest),
                 !.doing = IF Noted(a)[Max(rest)].call THEN "factory" ELSE "decorate"]

\* The value that a definition starts from, its handlers as the tables have
\* them now, and its first call.  `known` keeps the tables for the properties.
Annotated(a, value) ==
  LET entries == Noted(a) IN
  DecoratorBefore([a EXCEPT !.value = value, !.private = FALSE, !.log = <<>>,
      !.known = tables,
      !.decorators = [i \in 1..Len(entries) |-> decorators[entries[i].name]],
      !.modifiers = [i \in 1..Len(entries) |-> modifiers[entries[i].name]]],
    Len(entries) + 1)

\* The checks of interpreter.c:1196-1210, of all entries before any call.
Usable(entry) ==
  /\ decorators[entry.name] # NoHandler \/ modifiers[entry.name] # NoHandler
  /\ entry.call => decorators[entry.name] # NoHandler

Annotate(value) ==
  IF \A i \in 1..Len(Noted(Top)) : Usable(Noted(Top)[i])
  THEN defining' = Replace(Annotated(Top, value)) /\ UNCHANGED exited
  ELSE exited' = "unknown annotation" /\ UNCHANGED defining

\* Mutant of BeginMethod: the syntax tree keeps its nodes.
BeginMethod_Shares ==
  /\ exited = "no" /\ Depth > 0 /\ Top.doing = "member" /\ InMethod(Top)
  /\ functions' = Append(functions,
       [of |-> <<Top.of, Top.member>>, body |-> TRUE,
        static |-> FALSE, bind |-> "unset", routes |-> {}])
  /\ Annotate(FunctionValue(Len(functions) + 1))
  /\ UNCHANGED <<tables, taken, types, names>>

\* The Function of a method takes the body out of the syntax tree.
BeginMethod ==
  /\ exited = "no" /\ Depth > 0 /\ Top.doing = "member" /\ InMethod(Top)
  /\ LET method == <<Top.of, Top.member>> IN
     /\ functions' = Append(functions,
          [of |-> method, body |-> method \notin taken,
           static |-> FALSE, bind |-> "unset", routes |-> {}])
     /\ taken' = taken \cup {method}
  /\ Annotate(FunctionValue(Len(functions) + 1))
  /\ UNCHANGED <<tables, types, names>>

\* The statement itself: the Type, or the Function of the literal.
BeginStatement ==
  /\ exited = "no" /\ Depth > 0 /\ Top.doing = "member" /\ ~InMethod(Top)
  /\ Annotate(IF Top.type = 0 THEN FunctionValue(Source[Top.of].literal)
              ELSE TypeValue(Top.type))
  /\ UNCHANGED <<tables, heap, names>>

-----------------------------------------------------------------------------
\* Returns of handlers.
Logged(a, made) ==
  [a EXCEPT !.value = made,
            !.log = Append(@, [call |-> <<a.doing, a.at>>, given |-> a.value, made |-> made,
                               by |-> IF a.doing = "modify" THEN a.modifiers[a.at]
                                      ELSE a.decorators[a.at]])]

\* `@name(...)`: what the handler returns is called with the target, which
\* ends the process if it is no function.
FactoryReturns(callable) ==
  /\ exited = "no" /\ Depth > 0 /\ Top.doing = "factory"
  /\ IF callable
     THEN defining' = Replace([Logged(Top, Top.value) EXCEPT !.doing = "decorate"])
          /\ UNCHANGED exited
     ELSE exited' = "not callable" /\ UNCHANGED defining
  /\ UNCHANGED <<tables, heap, names>>

\* A decorator returns what it was given, a function of its own text, which is
\* the same one each time, or nothing at all.
Returned == {Undefined} \cup {FunctionValue(f) : f \in 1..Literals}
            \cup (IF Depth > 0 THEN {Top.value} ELSE {})

DecoratorReturns(v) ==
  /\ exited = "no" /\ Depth > 0 /\ Top.doing = "decorate"
  /\ defining' = Replace(DecoratorBefore(Logged(Top, v), Top.at))
  /\ UNCHANGED <<tables, heap, names, exited>>

ModifierReturns(private) ==
  /\ exited = "no" /\ Depth > 0 /\ Top.doing = "modify"
  /\ private => "private" \in Effects[Top.modifiers[Top.at]]
  /\ defining' = Replace(ModifierAfter(
        [Logged(Top, Top.value) EXCEPT !.private = @ \/ private], Top.at))
  /\ UNCHANGED <<tables, heap, names, exited>>

\* What handlers do to their target: `target.static = true`, and an entry for
\* the router, as lib/server/annotations.abl makes it.
SetStatic ==
  /\ exited = "no" /\ Depth > 0 /\ Top.doing = "modify" /\ IsFunction(Top.value)
  /\ "static" \in Effects[Top.modifiers[Top.at]]
  /\ functions' = [functions EXCEPT ![Top.value[2]].static = TRUE]
  /\ UNCHANGED <<tables, taken, types, names, defining, exited>>

AddRoute ==
  /\ exited = "no" /\ Depth > 0 /\ Top.doing = "decorate"
  /\ "route" \in Effects[Top.decorators[Top.at]]
  /\ LET route == <<Top.type, Top.member>> IN
     \/ /\ IsFunction(Top.value)
        /\ functions' = [functions EXCEPT ![Top.value[2]].routes = @ \cup {route}]
        /\ UNCHANGED types
     \/ /\ IsType(Top.value)
        /\ types' = [types EXCEPT ![Top.value[2]].routes = @ \cup {route}]
        /\ UNCHANGED functions
  /\ UNCHANGED <<tables, taken, names, defining, exited>>

-----------------------------------------------------------------------------
\* Ends of definitions.
\* The definition goes on to its next method, or to the statement.
NextMember(a) ==
  [a EXCEPT !.member = @ + 1, !.doing = "member", !.at = 0, !.value = Undefined,
            !.decorators = <<>>, !.modifiers = <<>>, !.private = FALSE,
            !.known = <<>>, !.log = <<>>]

\* bind_on_access: not for a target tagged static, or under @static itself.
Binds(f, method) ==
  IF functions[f].static \/ Contains(method.annotations, "static") THEN "no" ELSE "yes"

RoutesOf(v) == IF IsFunction(v) THEN functions[v[2]].routes
               ELSE IF IsType(v) THEN types[v[2]].routes ELSE {}

\* The value becomes an attribute of the class, which collects its routes.
FinishMethod ==
  /\ exited = "no" /\ Depth > 0 /\ Top.doing = "finish" /\ InMethod(Top)
  /\ functions' = IF IsFunction(Top.value)
                  THEN [functions EXCEPT ![Top.value[2]].bind =
                         Binds(Top.value[2], Method(Top))]
                  ELSE functions
  /\ types' = [types EXCEPT ![Top.type].attributes[Method(Top).name] = Top.value,
                            ![Top.type].routes = @ \cup RoutesOf(Top.value)]
  /\ defining' = Replace(NextMember(Top))
  /\ UNCHANGED <<tables, taken, names, exited>>

\* The name is bound; only a new variable becomes private.
FinishStatement ==
  /\ exited = "no" /\ Depth > 0 /\ Top.doing = "finish" /\ ~InMethod(Top)
  /\ LET x == Source[Top.of].name
         private == Top.private \/ Contains(Noted(Top), "private") IN
     /\ variables' = [variables EXCEPT ![x] = Top.value]
     /\ hidden' = IF private /\ variables[x] = NoValue THEN hidden \cup {x} ELSE hidden
  /\ defining' = SubSeq(defining, 1, Depth - 1)
  /\ UNCHANGED <<tables, heap, exited>>

Next ==
  \/ \E x \in Annotations, h \in Handlers : RegisterDecorator(x, h) \/ RegisterModifier(x, h)
  \/ \E s \in Statements : BeginFunction(s) \/ BeginClass(s)
  \/ BeginMethod \/ BeginStatement
  \/ \E b \in BOOLEAN : FactoryReturns(b) \/ ModifierReturns(b)
  \/ \E v \in Returned : DecoratorReturns(v)
  \/ SetStatic \/ AddRoute
  \/ FinishMethod \/ FinishStatement

Spec == Init /\ [][Next]_definitionVars

-----------------------------------------------------------------------------
\* Properties.

\* The calls that the annotations of a definition ask for, with the handlers
\* that were registered when it began: of a decorator and of its factory, if
\* the i-th entry is a call, and of a modifier.
HandlerOf(a, c) ==
  a.known[IF c[1] = "modify" THEN 2 ELSE 1][Noted(a)[c[2]].name]
Asked(a) ==
  {c \in Calling \X (1..Len(Noted(a))) :
     HandlerOf(a, c) # NoHandler /\ (c[1] = "factory" => Noted(a)[c[2]].call)}

\* Decorators come from the last entry to the first, each behind its factory,
\* then modifiers from the first to the last.
Precedes(c, d) ==
  IF c[1] = "modify" THEN d[1] = "modify" /\ c[2] < d[2]
  ELSE \/ d[1] = "modify"
       \/ c[2] > d[2]
       \/ c[2] = d[2] /\ c[1] = "factory" /\ d[1] = "decorate"

\* Every handler that a definition asks for is called once, in that order, on
\* what the one before made, whatever the handlers register or define
\* meanwhile; and none is called when one of the annotations is unknown.
AppliedInOrder ==
  \A i \in 1..Depth :
    LET a == defining[i]
        n == Len(a.log)
        called(j) == a.log[j].call IN
    a.doing # "member" =>
      /\ \A j \in 1..n : called(j) \in Asked(a) /\ a.log[j].by = HandlerOf(a, called(j))
      /\ \A j, k \in 1..n : j < k => Precedes(called(j), called(k))
      /\ \A c \in Asked(a) :
           a.doing = "finish" \/ (\E k \in 1..n : Precedes(c, called(k))) =>
             \E j \in 1..n : called(j) = c
      /\ \A j \in 2..n : a.log[j].given = a.log[j - 1].made
      /\ n # 0 => a.value = a.log[n].made

\* The body of a method belongs to the syntax tree until a class statement
\* takes it, then to one Function: who frees it is decided however often, and
\* however deep in itself, the statement is executed.
BodyHeldOnce ==
  \A d \in Methods :
    Cardinality({f \in 1..Len(functions) : functions[f].of = d /\ functions[f].body})
      = IF d \in taken THEN 1 ELSE 0

\* Types a script can get at: through variables, as attributes of such types,
\* as bases of them, and as targets of handlers that run.
Seen ==
  LET direct == {t \in 1..Len(types) :
                   \/ \E x \in Names : variables[x] = TypeValue(t)
                   \/ \E i \in 1..Depth : defining[i].doing \in Calling
                                        /\ defining[i].value = TypeValue(t)}
  IN direct \cup UNION {{types[t].bases[i] : i \in 1..Len(types[t].bases)} : t \in direct}

\* A class that a script can get at has all of its methods: its name, its
\* decorators and its subclasses come after the last of them.
SeenTypesAreComplete ==
  \A t \in Seen : LET methods == Source[types[t].of].methods IN
    \A k \in 1..Len(methods) : types[t].attributes[methods[k].name] # NoValue
===============================================================================
