------------------------------- MODULE Scopes --------------------------------
(***************************************************************************)
(* Environments, calls and closures of the Able interpreter.               *)
(*                                                                         *)
(* An environment (src/src/types/env.c) is a table of variables with a     *)
(* parent and a reference count.  A call makes one, binds the parameters   *)
(* in it one by one while the arguments are evaluated, pushes a frame,     *)
(* runs the body and releases it (src/src/interpreter/interpreter.c,       *)
(* 1145-1157).  A child does not count as a reference to its parent; what  *)
(* keeps a parent alive is the function that captured it                   *)
(* (interpreter.c:1338-1342), which is never freed.                        *)
(*                                                                         *)
(* There is one Function per `fun` in the source text, shared by every     *)
(* value the literal is evaluated to (clone_value copies the pointer), and *)
(* it captures the environment in which it is first assigned to a name.    *)
(*                                                                         *)
(* The script is nondeterministic: the code of each function may assign,   *)
(* call, pass and return whatever is visible to it.                        *)
(***************************************************************************)
EXTENDS Naturals, Sequences, FiniteSets

CONSTANTS Envs,         \* environments a run may allocate (bounds the run)
          Global,       \* the environment main() creates
          Funs,         \* the function literals of the source text
          Main,         \* the code outside every function
          Names,        \* variable names
          Plain,        \* values that are not functions
          MaxDepth,     \* bound on calls in progress, the program included
          Within,       \* the code each literal stands in
          Params,       \* the parameter names of each literal
          Writes        \* the names that the code of each literal assigns

Code == Funs \cup {Main}

ASSUME ScopesAssumption ==
  /\ IsFiniteSet(Envs) /\ Global \in Envs
  /\ IsFiniteSet(Funs) /\ Main \notin Funs
  /\ MaxDepth \in Nat \ {0}
  /\ Within \in [Funs -> Code]
  /\ Params \in [Funs -> Seq(Names)]
  /\ Writes \in [Code -> SUBSET Names]

NoEnv == "NULL"
ASSUME NullAssumption == NoEnv \notin Envs

\* A function value is the pointer to its Function.
FunctionValues == [fn : Funs]
Values == FunctionValues \cup Plain

VARIABLES parent,       \* Env.parent
          refs,         \* Env.ref_count, 0 for memory that is not allocated
          bindings,     \* Env.vars
          fenv,         \* Function.env
          stack,        \* calls in progress: the frames of the call stack and
                        \* the calls whose arguments are being evaluated
          returned      \* the value of the call that has just returned, if any

vars == <<parent, refs, bindings, fenv, stack, returned>>

\* A call in progress.  It is on the interpreter's call stack once `entered`.
Calls == [env : Envs, code : Code, entered : BOOLEAN, passed : Nat]
Tables == UNION {[S -> Values] : S \in SUBSET Names}
EmptyTable == [x \in {} |-> x]

TypeOK ==
  /\ parent \in [Envs -> Envs \cup {NoEnv}]
  /\ refs \in [Envs -> Nat]
  /\ bindings \in [Envs -> Tables]
  /\ fenv \in [Funs -> Envs \cup {NoEnv}]
  /\ stack \in Seq(Calls)
  /\ returned \in SUBSET Values

-----------------------------------------------------------------------------
(* Reading and writing variables.                                          *)

Live(e) == refs[e] > 0

\* The environment of the chain from e on that has a variable named x.
Owner(e, x) ==
  LET found[d \in Envs \cup {NoEnv}] ==
        IF d = NoEnv THEN NoEnv
        ELSE IF x \in DOMAIN bindings[d] THEN d ELSE found[parent[d]]
  IN  found[e]

\* set_variable: an assignment goes to the variable of that name wherever on
\* the chain it is, and makes a new one only when there is none.
Set(table, x, v) == [y \in DOMAIN table \cup {x} |-> IF y = x THEN v ELSE table[y]]
SetVariable(e, x, v) ==
  LET owner == Owner(e, x)
      target == IF owner = NoEnv THEN e ELSE owner
  IN  bindings' = [bindings EXCEPT ![target] = Set(@, x, v)]

Depth == Len(stack)
Top == stack[Depth]
Push(call) == stack' = Append(stack, call)
Pop == stack' = SubSeq(stack, 1, Depth - 1)

\* current_frame: the innermost call that has been entered.  A call whose
\* arguments are being evaluated has its environment but no frame yet.
Frame == stack[CHOOSE i \in 1..Depth : stack[i].entered /\
                 \A j \in (i + 1)..Depth : ~stack[j].entered]
CurrentEnv == Frame.env
CurrentCode == Frame.code

\* What an expression of the running code can evaluate to: a variable, a
\* literal that stands in this code, a plain value, the call just finished.
VariableValues ==
  {bindings[Owner(CurrentEnv, x)][x] :
     x \in {y \in Names : Owner(CurrentEnv, y) # NoEnv}}
LiteralValues ==
  {[fn |-> f] : f \in {g \in Funs : Within[g] = CurrentCode}}
Visible ==
  Plain \cup VariableValues \cup LiteralValues \cup returned

-----------------------------------------------------------------------------
Init ==
  /\ parent = [e \in Envs |-> NoEnv]
  /\ refs = [e \in Envs |-> IF e = Global THEN 1 ELSE 0]
  /\ bindings = [e \in Envs |-> EmptyTable]
  /\ fenv = [f \in Funs |-> NoEnv]
  /\ stack = <<[env |-> Global, code |-> Main, entered |-> TRUE, passed |-> 0]>>
  /\ returned = {}

ScriptRuns == Depth > 0

\* Mutants of Assign: the environment is captured without env_retain, and it
\* is retained once more by every later assignment of the function.
Assign_NoRetain(x, v) ==
  /\ ScriptRuns
  /\ Top.entered
  /\ x \in Writes[CurrentCode]
  /\ v \in Visible
  /\ IF v \in FunctionValues /\ fenv[v.fn] = NoEnv
     THEN fenv' = [fenv EXCEPT ![v.fn] = CurrentEnv]
     ELSE UNCHANGED fenv
  /\ SetVariable(CurrentEnv, x, v)
  /\ returned' = {}
  /\ UNCHANGED <<parent, refs, stack>>

Assign_RetainsAgain(x, v) ==
  /\ ScriptRuns
  /\ Top.entered
  /\ x \in Writes[CurrentCode]
  /\ v \in Visible
  /\ IF v \in FunctionValues
     THEN /\ fenv' = [fenv EXCEPT ![v.fn] = IF @ = NoEnv THEN CurrentEnv ELSE @]
          /\ refs' = [refs EXCEPT ![CurrentEnv] = @ + 1]
     ELSE UNCHANGED <<fenv, refs>>
  /\ SetVariable(CurrentEnv, x, v)
  /\ returned' = {}
  /\ UNCHANGED <<parent, stack>>

\* `x = v`, and `fun x(...)`, which is the assignment of a literal.  A
\* function that has no environment yet captures the current one.
Assign(x, v) ==
  /\ ScriptRuns
  /\ Top.entered
  /\ x \in Writes[CurrentCode]
  /\ v \in Visible
  /\ IF v \in FunctionValues /\ fenv[v.fn] = NoEnv
     THEN /\ fenv' = [fenv EXCEPT ![v.fn] = CurrentEnv]
          /\ refs' = [refs EXCEPT ![CurrentEnv] = @ + 1]
     ELSE UNCHANGED <<fenv, refs>>
  /\ SetVariable(CurrentEnv, x, v)
  /\ returned' = {}
  /\ UNCHANGED <<parent, stack>>

\* Mutant of BeginCall: dynamic scope, the caller's environment as parent.
BeginCall_Dynamic(v, e) ==
  /\ ScriptRuns
  /\ Depth < MaxDepth
  /\ v \in VariableValues \cap FunctionValues
  /\ refs[e] = 0
  /\ parent' = [parent EXCEPT ![e] = CurrentEnv]
  /\ refs' = [refs EXCEPT ![e] = 1]
  /\ bindings' = [bindings EXCEPT ![e] = EmptyTable]
  /\ Push([env |-> e, code |-> v.fn, entered |-> FALSE, passed |-> 0])
  /\ returned' = {}
  /\ UNCHANGED fenv

\* A call of the function v: env_create, with the function's environment as
\* parent.  The frame comes later, when the arguments have been passed.
BeginCall(v, e) ==
  /\ ScriptRuns
  /\ Depth < MaxDepth
  /\ v \in VariableValues \cap FunctionValues
  /\ refs[e] = 0
  /\ parent' = [parent EXCEPT ![e] = fenv[v.fn]]
  /\ refs' = [refs EXCEPT ![e] = 1]
  /\ bindings' = [bindings EXCEPT ![e] = EmptyTable]
  /\ Push([env |-> e, code |-> v.fn, entered |-> FALSE, passed |-> 0])
  /\ returned' = {}
  /\ UNCHANGED fenv

\* The next argument has been evaluated, in the caller's frame, and is bound
\* to its parameter by set_variable on the call's environment.
PassArgument(v) ==
  /\ ScriptRuns
  /\ ~Top.entered
  /\ Top.passed < Len(Params[Top.code])
  /\ v \in Visible
  /\ SetVariable(Top.env, Params[Top.code][Top.passed + 1], v)
  /\ stack' = [stack EXCEPT ![Depth].passed = @ + 1]
  /\ returned' = {}
  /\ UNCHANGED <<parent, refs, fenv>>

\* push_frame, and the body runs.
EnterCall ==
  /\ ScriptRuns
  /\ ~Top.entered
  /\ Top.passed = Len(Params[Top.code])
  /\ stack' = [stack EXCEPT ![Depth].entered = TRUE]
  /\ returned' = {}
  /\ UNCHANGED <<parent, refs, bindings, fenv>>

\* env_release: the table is freed with its last reference.
Release(e) ==
  /\ refs' = [refs EXCEPT ![e] = @ - 1]
  /\ IF refs[e] = 1
     THEN /\ parent' = [parent EXCEPT ![e] = NoEnv]
          /\ bindings' = [bindings EXCEPT ![e] = EmptyTable]
     ELSE UNCHANGED <<parent, bindings>>

\* `return v`: the frame is popped, the value cloned, the environment released.
Return(v) ==
  /\ ScriptRuns
  /\ Depth > 1
  /\ Top.entered
  /\ v \in Visible
  /\ Pop
  /\ returned' = {v}
  /\ Release(Top.env)
  /\ UNCHANGED fenv

\* The end of main(): the global environment is released last of all.
Shutdown ==
  /\ Depth = 1
  /\ stack' = <<>>
  /\ returned' = {}
  /\ Release(Global)
  /\ UNCHANGED fenv

Next ==
  \/ \E x \in Names, v \in Values : Assign(x, v)
  \/ \E v \in Values, e \in Envs : BeginCall(v, e)
  \/ \E v \in Values : PassArgument(v)
  \/ EnterCall
  \/ \E v \in Values : Return(v)
  \/ Shutdown

Spec == Init /\ [][Next]_vars

-----------------------------------------------------------------------------
(* Properties.                                                             *)

\* No environment that can still be reached has been freed: not one of a call
\* in progress, not one a function has captured, and not the parent of a live
\* one, although children hold no reference to their parents.
NoDanglingEnv ==
  /\ \A i \in 1..Depth : Live(stack[i].env)
  /\ \A f \in Funs : fenv[f] # NoEnv => Live(fenv[f])
  /\ \A e \in Envs : Live(e) /\ parent[e] # NoEnv => Live(parent[e])

\* Reference counts are exact: one for the call the environment belongs to and
\* one for every function that captured it, so an environment nobody captured
\* is freed when its call returns.
RefsExact ==
  \A e \in Envs :
    refs[e] = Cardinality({i \in 1..Depth : stack[i].env = e})
              + Cardinality({f \in Funs : fenv[f] = e})

\* Passing an argument binds the parameter in the environment of the call and
\* touches no other: not a caller's variable, not that of an activation of the
\* same function further out, not a global.
ArgumentsBindLocally ==
  [][\A i \in 1..Depth :
        Len(stack') = Depth /\ stack'[i].passed > stack[i].passed =>
          \A e \in Envs \ {stack[i].env} : bindings'[e] = bindings[e]]_vars
=============================================================================
