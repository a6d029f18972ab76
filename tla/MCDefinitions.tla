---------------------------- MODULE MCDefinitions -----------------------------
(***************************************************************************)
(* The text of a program for Definitions: a class with two methods, one of *)
(* them annotated, an annotated class that derives from it, and an         *)
(* annotated function.                                                     *)
(***************************************************************************)
EXTENDS Definitions, TLC

CONSTANTS hs, hp,     \* what builtins registers for `static` and `private`
          h           \* a handler of the program

Plain(x) == [name |-> x, call |-> FALSE]
Call(x) == [name |-> x, call |-> TRUE]

Text ==
  "A" :> [kind |-> "class", name |-> "A", bases |-> <<>>, annotations |-> <<>>,
          methods |-> <<[name |-> "m", annotations |-> <<Plain("use"), Call("use"), Plain("static")>>],
                        [name |-> "n", annotations |-> <<>>]>>]
  @@ "B" :> [kind |-> "class", name |-> "B", bases |-> <<"A">>,
             annotations |-> <<Plain("use")>>,
             methods |-> <<[name |-> "m", annotations |-> <<>>]>>]
  @@ "f" :> [kind |-> "function", name |-> "f", bases |-> <<>>, literal |-> 1,
             annotations |-> <<Plain("private")>>, methods |-> <<>>]

Builtin == "static" :> hs @@ "private" :> hp @@ "use" :> NoHandler

Uses == {<<"decorator", "use", h>>, <<"modifier", "use", h>>}

Does == hs :> {"static"} @@ hp :> {"private"} @@ h :> {"route"}
===============================================================================
