------------------------------- MODULE MCCalls --------------------------------
(***************************************************************************)
(* Scopes and Control for TLC, in one run: what a call holds, and how it   *)
(* is left.  The two share no variable and no property reads both, so it   *)
(* is enough that either runs while the other is where it starts.          *)
(***************************************************************************)
EXTENDS Scopes, Control, TLC

CONSTANTS outer, inner, f, g, a, b

\* fun f(a): a function `outer` assigned to f, whose body assigns g and holds
\* the literal `inner` with a parameter of its own.  Every name has one role.
NestedWithin == (outer :> Main) @@ (inner :> outer)
DistinctParams == (outer :> <<a>>) @@ (inner :> <<b>>)
DistinctWrites == (Main :> {f}) @@ (outer :> {g}) @@ (inner :> {})

Interchangeable == Permutations(Envs \ {Global})

\* One of the two: the other has not begun.
ScopesRun == ControlInit /\ Next /\ UNCHANGED controlVars
ControlRuns == Init /\ ControlNext /\ UNCHANGED vars

CallsInit == Init /\ ControlInit
CallsSpec == CallsInit /\ [][ScopesRun \/ ControlRuns]_<<vars, controlVars>>
===============================================================================
