------------------------------ MODULE CallsProofs ------------------------------
(***************************************************************************)
(* Proofs about the calls of functions: about their environments (module   *)
(* Scopes), for every source text, every number of environments and every  *)
(* bound on the calls in progress, and about how statements inside them    *)
(* are left (module Control), for every bound on the nesting.              *)
(***************************************************************************)
EXTENDS Scopes, Control, SequenceTheorems, FiniteSetTheorems, TLAPS

\* The environments of calls in progress, and those a function has captured.
InUse == {stack[i].env : i \in 1..Depth}
Captured == {fenv[f] : f \in Funs} \ {NoEnv}

\* What the invariant needs to know of types; no variable's value matters.
EnvTypes ==
  /\ parent \in [Envs -> Envs \cup {NoEnv}]
  /\ refs \in [Envs -> Nat]
  /\ fenv \in [Funs -> Envs \cup {NoEnv}]
  /\ stack \in Seq(Calls)

\* A call's environment is its own, and the program's is Global.
OneCallPerEnv ==
  /\ \A i, j \in 1..Depth : stack[i].env = stack[j].env => i = j
  /\ Depth > 0 => stack[1].env = Global

\* The count pays for the call and for the capture.
Paid(e) ==
  /\ e \in InUse => refs[e] >= 1
  /\ e \in Captured => refs[e] >= 1
  /\ e \in InUse /\ e \in Captured => refs[e] >= 2
ReferencesPaid == \A e \in Envs : Paid(e)

\* Nothing but a captured environment is ever a parent.
ParentsCaptured == \A e \in Envs : parent[e] \in Captured \cup {NoEnv}

ScopesIInv == EnvTypes /\ OneCallPerEnv /\ ReferencesPaid /\ ParentsCaptured

-----------------------------------------------------------------------------
(* The stack of calls.                                                     *)

LEMMA TopIsCall ==
  ASSUME EnvTypes, Depth > 0
  PROVE  /\ Depth \in Nat /\ Depth \in 1..Depth
         /\ \A i \in 1..Depth : stack[i] \in Calls /\ stack[i].env \in Envs
         /\ Top.env \in InUse
<1>1. stack \in Seq(Calls) /\ Depth \in Nat
  BY LenProperties DEF EnvTypes, Depth
<1>2. \A i \in 1..Depth : stack[i] \in Calls
  BY <1>1, ElementOfSeq DEF Depth
<1> QED
  BY <1>1, <1>2 DEF Calls, InUse, Top

LEMMA PushCall ==
  ASSUME EnvTypes, NEW c \in Calls, Push(c)
  PROVE  /\ stack' \in Seq(Calls)
         /\ Depth \in Nat /\ Depth' = Depth + 1
         /\ stack'[Depth + 1] = c
         /\ \A i \in 1..Depth : stack'[i] = stack[i]
<1>1. stack \in Seq(Calls) /\ stack' = Append(stack, c)
  BY DEF EnvTypes, Push
<1> QED
  BY <1>1 DEF Depth

LEMMA PopCall ==
  ASSUME EnvTypes, Depth > 0, Pop
  PROVE  /\ stack' \in Seq(Calls)
         /\ Depth \in Nat /\ Depth' = Depth - 1
         /\ \A i \in 1..(Depth - 1) : stack'[i] = stack[i]
<1>1. stack \in Seq(Calls) /\ Depth \in Nat \ {0}
  BY TopIsCall DEF EnvTypes
<1>2. \A i \in 1..(Depth - 1) : stack[i] \in Calls
  BY <1>1, TopIsCall
<1>3. /\ stack' \in Seq(Calls)
      /\ Len(stack') = IF 1 <= Depth - 1 THEN (Depth - 1) - 1 + 1 ELSE 0
      /\ \A i \in 1..((Depth - 1) - 1 + 1) : stack'[i] = stack[1 + i - 1]
  BY <1>1, <1>2, SubSeqProperties DEF Pop
<1>4. Len(stack') = Depth - 1
  BY <1>1, <1>3
<1>5. \A i \in 1..(Depth - 1) : stack'[i] = stack[i]
  <2> TAKE i \in 1..(Depth - 1)
  <2>1. i \in 1..((Depth - 1) - 1 + 1) /\ 1 + i - 1 = i
    BY <1>1
  <2> QED
    BY <1>3, <2>1
<1> QED
  BY <1>1, <1>3, <1>4, <1>5 DEF Depth

\* An argument that is passed and a call that is entered change no
\* environment and no number of calls.
LEMMA SameCalls ==
  ASSUME ScopesIInv, Depth > 0, NEW c \in Calls, c.env = Top.env,
         stack' = [stack EXCEPT ![Depth] = c],
         UNCHANGED <<parent, refs, fenv>>
  PROVE  ScopesIInv'
<1>1. stack \in Seq(Calls) /\ Depth \in 1..Len(stack)
  BY TopIsCall DEF ScopesIInv, EnvTypes, Depth
<1>2. /\ stack' \in Seq(Calls)
      /\ Len(stack') = Len(stack)
      /\ \A i \in 1..Len(stack) : stack'[i] = IF i = Depth THEN c ELSE stack[i]
  BY <1>1, ExceptSeq
<1>3. Depth' = Depth /\ \A i \in 1..Depth : stack'[i].env = stack[i].env
  BY <1>2 DEF Depth, Top
<1>4. InUse' = InUse /\ Captured' = Captured
  BY <1>3 DEF InUse, Captured
<1>5. OneCallPerEnv'
  <2>1. \A i, j \in 1..Depth' : stack'[i].env = stack'[j].env => i = j
    BY <1>3 DEF ScopesIInv, OneCallPerEnv
  <2>2. 1 \in 1..Depth
    BY TopIsCall DEF ScopesIInv
  <2>3. stack'[1].env = Global
    BY <1>3, <2>2 DEF ScopesIInv, OneCallPerEnv
  <2> QED
    BY <2>1, <2>3 DEF OneCallPerEnv
<1> QED
  BY <1>2, <1>4, <1>5
     DEF ScopesIInv, EnvTypes, ReferencesPaid, Paid, ParentsCaptured

-----------------------------------------------------------------------------
(* One lemma for every action that changes an environment or a count.      *)

LEMMA ScopesInit == Init => ScopesIInv
<1> SUFFICES ASSUME Init PROVE ScopesIInv
  OBVIOUS
<1> DEFINE main == [env |-> Global, code |-> Main, entered |-> TRUE, passed |-> 0]
<1>1. main \in Calls
  BY ScopesAssumption DEF Calls, Code
<1>2. stack = <<main>> /\ stack \in Seq(Calls) /\ Depth = 1 /\ stack[1].env = Global
  BY <1>1 DEF Init, Depth
<1>3. Captured = {}
  BY DEF Init, Captured
<1>4. InUse = {Global}
  BY <1>2 DEF InUse
<1> QED
  BY <1>2, <1>3, <1>4, ScopesAssumption
     DEF Init, ScopesIInv, EnvTypes, OneCallPerEnv, ReferencesPaid, Paid, ParentsCaptured

\* The environment that a function captures is that of a call in progress.
LEMMA CapturePays ==
  ASSUME ScopesIInv, NEW x \in Names, NEW v \in Values, Assign(x, v)
  PROVE  ScopesIInv'
<1> USE DEF ScopesIInv
<1>1. Depth > 0 /\ Top.entered /\ stack' = stack /\ parent' = parent
  BY DEF Assign, ScriptRuns
<1>2. Depth' = Depth /\ InUse' = InUse
  BY <1>1 DEF Depth, InUse
<1>3. OneCallPerEnv'
  BY <1>1, <1>2 DEF OneCallPerEnv
<1>4. PICK i \in 1..Depth : CurrentEnv = stack[i].env
  <2>1. Depth \in 1..Depth /\ stack[Depth].entered
        /\ \A j \in (Depth + 1)..Depth : ~stack[j].entered
    BY <1>1, TopIsCall DEF Top
  <2> QED
    BY <2>1 DEF CurrentEnv, Frame
<1>5. CurrentEnv \in Envs /\ CurrentEnv \in InUse
  BY <1>1, <1>4, TopIsCall DEF InUse
<1>6. CASE fenv' = fenv /\ refs' = refs
  <2>1. Captured' = Captured
    BY <1>6 DEF Captured
  <2> QED
    BY <1>1, <1>2, <1>3, <1>6, <2>1
       DEF EnvTypes, ReferencesPaid, Paid, ParentsCaptured
<1>7. CASE /\ v \in FunctionValues /\ fenv[v.fn] = NoEnv
           /\ fenv' = [fenv EXCEPT ![v.fn] = CurrentEnv]
           /\ refs' = [refs EXCEPT ![CurrentEnv] = @ + 1]
  <2>1. v.fn \in Funs
    BY <1>7 DEF FunctionValues
  <2>2. Captured' = Captured \cup {CurrentEnv}
    BY <1>5, <1>7, <2>1, NullAssumption DEF Captured, EnvTypes
  <2>3. EnvTypes'
    BY <1>1, <1>5, <1>7, <2>1 DEF EnvTypes
  <2>4. ReferencesPaid'
    BY <1>2, <1>5, <1>7, <2>2 DEF EnvTypes, ReferencesPaid, Paid
  <2> QED
    BY <1>1, <1>3, <2>2, <2>3, <2>4 DEF ParentsCaptured
<1> QED
  BY <1>6, <1>7 DEF Assign

\* The environment of a new call was free, so nobody else uses it.
LEMMA CallTakesFreeEnv ==
  ASSUME ScopesIInv, NEW v \in Values, NEW e \in Envs, BeginCall(v, e)
  PROVE  ScopesIInv'
<1> USE DEF ScopesIInv
<1> DEFINE c == [env |-> e, code |-> v.fn, entered |-> FALSE, passed |-> 0]
<1>1. /\ Depth > 0 /\ refs[e] = 0 /\ fenv' = fenv /\ Push(c)
      /\ parent' = [parent EXCEPT ![e] = fenv[v.fn]]
      /\ refs' = [refs EXCEPT ![e] = 1]
  BY DEF BeginCall, ScriptRuns
<1>2. v.fn \in Funs
  BY DEF BeginCall, FunctionValues
<1>3. c \in Calls
  BY <1>2 DEF Calls, Code
<1>4. /\ stack' \in Seq(Calls) /\ Depth \in Nat /\ Depth' = Depth + 1
      /\ stack'[Depth + 1] = c
      /\ \A i \in 1..Depth : stack'[i] = stack[i]
  BY <1>1, <1>3, PushCall
<1>5. e \notin InUse /\ e \notin Captured
  BY <1>1 DEF ReferencesPaid, Paid
<1>6. Captured' = Captured
  BY <1>1 DEF Captured
<1>7. InUse' = InUse \cup {e}
  <2>1. 1..(Depth + 1) = (1..Depth) \cup {Depth + 1}
    BY <1>4
  <2> QED
    BY <1>4, <2>1 DEF InUse
<1>8. EnvTypes'
  BY <1>1, <1>2, <1>4 DEF EnvTypes
<1>9. OneCallPerEnv'
  <2>1. \A i \in 1..Depth : stack[i].env # e
    BY <1>5 DEF InUse
  <2> QED
    BY <1>1, <1>4, <2>1 DEF OneCallPerEnv
<1>10. ReferencesPaid'
  BY <1>1, <1>5, <1>6, <1>7 DEF EnvTypes, ReferencesPaid, Paid
<1>11. ParentsCaptured'
  <2>1. fenv[v.fn] \in Captured \cup {NoEnv}
    BY <1>2 DEF Captured
  <2> QED
    BY <1>1, <1>6, <2>1 DEF EnvTypes, ParentsCaptured
<1> QED
  BY <1>8, <1>9, <1>10, <1>11

\* A call that ends gives back the reference it paid for, and that one only.
LEMMA ReleasePays ==
  ASSUME ScopesIInv, Depth > 0, Pop, Release(Top.env), UNCHANGED fenv
  PROVE  ScopesIInv'
<1> USE DEF ScopesIInv
<1>1. PICK e \in Envs : e = Top.env
  BY TopIsCall DEF Top
<1>2. /\ stack' \in Seq(Calls) /\ Depth \in Nat /\ Depth' = Depth - 1
      /\ \A i \in 1..(Depth - 1) : stack'[i] = stack[i]
  BY PopCall
<1>3. refs' = [refs EXCEPT ![e] = @ - 1]
  BY <1>1 DEF Release
<1>4. parent' = parent \/ parent' = [parent EXCEPT ![e] = NoEnv]
  BY <1>1 DEF Release
<1>5. Captured' = Captured
  BY DEF Captured
<1>6. e \in InUse /\ refs[e] >= 1
  BY <1>1, TopIsCall DEF ReferencesPaid, Paid
<1>7. InUse' = InUse \ {e}
  <2>1. 1..Depth = (1..(Depth - 1)) \cup {Depth} /\ Depth \notin 1..(Depth - 1)
    BY <1>2
  <2>2. \A i \in 1..(Depth - 1) : stack[i].env # e
    BY <1>1, <2>1 DEF OneCallPerEnv, Top
  <2> QED
    BY <1>1, <1>2, <2>1, <2>2 DEF InUse, Top
<1>8. EnvTypes'
  <2>1. refs[e] \in Nat
    BY DEF EnvTypes
  <2>2. refs' \in [Envs -> Nat]
    BY <1>3, <1>6, <2>1 DEF EnvTypes
  <2>3. parent' \in [Envs -> Envs \cup {NoEnv}]
    BY <1>4 DEF EnvTypes
  <2> QED
    BY <1>2, <2>2, <2>3 DEF EnvTypes
<1>9. OneCallPerEnv'
  BY <1>2, SMTT(30) DEF OneCallPerEnv
<1>10. ReferencesPaid'
  BY <1>3, <1>5, <1>6, <1>7 DEF EnvTypes, ReferencesPaid, Paid
<1>11. ParentsCaptured'
  BY <1>4, <1>5 DEF EnvTypes, ParentsCaptured
<1> QED
  BY <1>8, <1>9, <1>10, <1>11

-----------------------------------------------------------------------------
(* The invariant is preserved by every step.                               *)

LEMMA ScopesStep == ScopesIInv /\ [Next]_vars => ScopesIInv'
<1> SUFFICES ASSUME ScopesIInv, [Next]_vars PROVE ScopesIInv'
  OBVIOUS
<1>1. ASSUME NEW v \in Values, PassArgument(v) PROVE ScopesIInv'
  <2> DEFINE c == [Top EXCEPT !.passed = @ + 1]
  <2>1. Depth > 0 /\ stack' = [stack EXCEPT ![Depth] = c]
        /\ UNCHANGED <<parent, refs, fenv>>
    BY <1>1 DEF PassArgument, ScriptRuns, Top
  <2>2. Top \in Calls
    BY <2>1, TopIsCall DEF ScopesIInv, Top
  <2>3. c \in Calls /\ c.env = Top.env
    BY <2>2 DEF Calls
  <2> QED
    BY <2>1, <2>3, SameCalls
<1>2. CASE EnterCall
  <2> DEFINE c == [Top EXCEPT !.entered = TRUE]
  <2>1. Depth > 0 /\ stack' = [stack EXCEPT ![Depth] = c]
        /\ UNCHANGED <<parent, refs, fenv>>
    BY <1>2 DEF EnterCall, ScriptRuns, Top
  <2>2. Top \in Calls
    BY <2>1, TopIsCall DEF ScopesIInv, Top
  <2>3. c \in Calls /\ c.env = Top.env
    BY <2>2 DEF Calls
  <2> QED
    BY <2>1, <2>3, SameCalls
<1>3. ASSUME NEW v \in Values, Return(v) PROVE ScopesIInv'
  <2>1. Depth > 0 /\ Pop /\ Release(Top.env) /\ UNCHANGED fenv
    BY <1>3, LenProperties DEF Return, ScopesIInv, EnvTypes, Depth
  <2> QED
    BY <2>1, ReleasePays
<1>4. CASE Shutdown
  <2>1. Depth = 1 /\ Top.env = Global
    BY <1>4 DEF Shutdown, ScopesIInv, OneCallPerEnv, Top
  <2>2. Pop
    BY <1>4, <2>1 DEF Shutdown, Pop
  <2> QED
    BY <1>4, <2>1, <2>2, ReleasePays DEF Shutdown
<1>5. CASE UNCHANGED vars
  BY <1>5 DEF vars, ScopesIInv, EnvTypes, OneCallPerEnv, ReferencesPaid, Paid,
     ParentsCaptured, InUse, Captured, Depth
<1> QED
  BY <1>1, <1>2, <1>3, <1>4, <1>5, CapturePays, CallTakesFreeEnv DEF Next

THEOREM ScopesInvariantHolds == Spec => []ScopesIInv
<1> QED
  BY ScopesInit, ScopesStep, PTL DEF Spec

LEMMA InvariantImpliesNoDangling == ScopesIInv => NoDanglingEnv
<1> SUFFICES ASSUME ScopesIInv PROVE NoDanglingEnv
  OBVIOUS
<1> USE DEF ScopesIInv, Live
<1>1. \A e \in InUse \cup Captured : e \in Envs => refs[e] > 0
  BY DEF EnvTypes, ReferencesPaid, Paid
<1>2. ASSUME NEW i \in 1..Depth PROVE refs[stack[i].env] > 0
  <2>1. Depth > 0
    BY LenProperties DEF EnvTypes, Depth
  <2>2. stack[i].env \in Envs /\ stack[i].env \in InUse
    BY <2>1, TopIsCall DEF InUse
  <2> QED
    BY <1>1, <2>2
<1>3. ASSUME NEW f \in Funs, fenv[f] # NoEnv PROVE refs[fenv[f]] > 0
  BY <1>1, <1>3 DEF Captured, EnvTypes
<1>4. ASSUME NEW e \in Envs, parent[e] # NoEnv PROVE refs[parent[e]] > 0
  BY <1>1, <1>4 DEF ParentsCaptured, EnvTypes
<1> QED
  BY <1>2, <1>3, <1>4 DEF NoDanglingEnv

\* No environment that can still be reached has been freed, although a child
\* holds no reference to its parent (env_create, env.c:9-16): whatever is a
\* parent was captured by a function, and functions are never freed.
THEOREM NoDangling == Spec => []NoDanglingEnv
<1> QED
  BY ScopesInvariantHolds, InvariantImpliesNoDangling, PTL

-----------------------------------------------------------------------------
(* Reference counts are exact.                                             *)

\* The calls that an environment belongs to, and the functions that captured it.
Held(e) == {i \in 1..Depth : stack[i].env = e}
Closed(e) == {f \in Funs : fenv[f] = e}

LEMMA Countable ==
  ASSUME ScopesIInv, NEW e \in Envs
  PROVE  /\ IsFiniteSet(Held(e)) /\ IsFiniteSet(Closed(e))
         /\ Cardinality(Held(e)) \in Nat /\ Cardinality(Closed(e)) \in Nat
<1>1. Depth \in Nat
  BY LenProperties DEF ScopesIInv, EnvTypes, Depth
<1>2. IsFiniteSet(1..Depth)
  BY <1>1, FS_Interval
<1>3. Held(e) \in SUBSET (1..Depth) /\ Closed(e) \in SUBSET Funs
  BY DEF Held, Closed
<1>4. IsFiniteSet(Held(e)) /\ IsFiniteSet(Closed(e))
  BY <1>2, <1>3, FS_Subset, ScopesAssumption
<1> QED
  BY <1>4, FS_CardinalityType

\* As long as neither set of an environment changes, nor does its count.
LEMMA SameCounts ==
  ASSUME RefsExact, refs' = refs, \A e \in Envs : Held(e)' = Held(e) /\ Closed(e)' = Closed(e)
  PROVE  RefsExact'
BY DEF RefsExact, Held, Closed

LEMMA InitCounts == Init => RefsExact
<1> SUFFICES ASSUME Init, NEW e \in Envs
             PROVE  refs[e] = Cardinality(Held(e)) + Cardinality(Closed(e))
  BY DEF RefsExact, Held, Closed
<1>1. Depth = 1 /\ stack[1].env = Global
  BY DEF Init, Depth
<1>2. Closed(e) = {} /\ Held(e) = IF e = Global THEN {1} ELSE {}
  BY <1>1, NullAssumption DEF Init, Closed, Held
<1>3. Cardinality({}) = 0 /\ Cardinality({1}) = 1
  BY FS_EmptySet, FS_Singleton
<1> QED
  BY <1>2, <1>3 DEF Init

LEMMA CaptureCounts ==
  ASSUME ScopesIInv, RefsExact, NEW x \in Names, NEW v \in Values, Assign(x, v)
  PROVE  RefsExact'
<1>1. stack' = stack /\ \A e \in Envs : Held(e)' = Held(e)
  BY DEF Assign, Held, Depth
<1>2. CASE fenv' = fenv /\ refs' = refs
  BY <1>1, <1>2, SameCounts DEF Closed
<1>3. CASE /\ v \in FunctionValues /\ fenv[v.fn] = NoEnv
           /\ fenv' = [fenv EXCEPT ![v.fn] = CurrentEnv]
           /\ refs' = [refs EXCEPT ![CurrentEnv] = @ + 1]
  <2> SUFFICES ASSUME NEW e \in Envs
               PROVE  refs'[e] = Cardinality(Held(e)) + Cardinality(Closed(e)')
    BY <1>1 DEF RefsExact, Held, Closed
  <2>1. v.fn \in Funs /\ e # NoEnv
    BY <1>3, NullAssumption DEF FunctionValues
  <2>2. Closed(e)' = IF e = CurrentEnv THEN Closed(e) \cup {v.fn} ELSE Closed(e)
    BY <1>3, <2>1 DEF ScopesIInv, EnvTypes, Closed
  <2>3. v.fn \notin Closed(e)
    BY <1>3, <2>1 DEF Closed
  <2>4. Cardinality(Closed(e)') =
          IF e = CurrentEnv THEN Cardinality(Closed(e)) + 1 ELSE Cardinality(Closed(e))
    BY <2>2, <2>3, Countable, FS_AddElement
  <2>5. refs[e] = Cardinality(Held(e)) + Cardinality(Closed(e))
    BY DEF RefsExact, Held, Closed
  <2>6. refs'[e] = IF e = CurrentEnv THEN refs[e] + 1 ELSE refs[e]
    BY <1>3 DEF ScopesIInv, EnvTypes
  <2> QED
    BY <2>4, <2>5, <2>6, Countable
<1> QED
  BY <1>2, <1>3 DEF Assign

LEMMA CallCounts ==
  ASSUME ScopesIInv, RefsExact, NEW v \in Values, NEW d \in Envs, BeginCall(v, d)
  PROVE  RefsExact'
<1> DEFINE c == [env |-> d, code |-> v.fn, entered |-> FALSE, passed |-> 0]
<1>1. refs[d] = 0 /\ fenv' = fenv /\ Push(c) /\ refs' = [refs EXCEPT ![d] = 1]
  BY DEF BeginCall
<1>2. c \in Calls
  BY DEF BeginCall, FunctionValues, Calls, Code
<1>3. /\ Depth \in Nat /\ Depth' = Depth + 1
      /\ stack'[Depth + 1] = c
      /\ \A i \in 1..Depth : stack'[i] = stack[i]
  BY <1>1, <1>2, PushCall DEF ScopesIInv
<1> SUFFICES ASSUME NEW e \in Envs
             PROVE  refs'[e] = Cardinality(Held(e)') + Cardinality(Closed(e))
  BY <1>1 DEF RefsExact, Held, Closed
<1>4. Held(e)' = IF e = d THEN Held(e) \cup {Depth + 1} ELSE Held(e)
  <2>1. 1..(Depth + 1) = (1..Depth) \cup {Depth + 1}
    BY <1>3
  <2> QED
    BY <1>3, <2>1 DEF Held
<1>5. Depth + 1 \notin Held(e)
  BY <1>3 DEF Held
<1>6. Cardinality(Held(e)') =
        IF e = d THEN Cardinality(Held(e)) + 1 ELSE Cardinality(Held(e))
  BY <1>4, <1>5, Countable, FS_AddElement
<1>7. refs[e] = Cardinality(Held(e)) + Cardinality(Closed(e))
  BY DEF RefsExact, Held, Closed
<1>8. refs'[e] = IF e = d THEN refs[e] + 1 ELSE refs[e]
  BY <1>1 DEF ScopesIInv, EnvTypes
<1> QED
  BY <1>6, <1>7, <1>8, Countable

LEMMA ReleaseCounts ==
  ASSUME ScopesIInv, RefsExact, Depth > 0, Pop, Release(Top.env), UNCHANGED fenv
  PROVE  RefsExact'
<1>1. /\ Depth \in Nat /\ Depth' = Depth - 1
      /\ \A i \in 1..(Depth - 1) : stack'[i] = stack[i]
  BY PopCall DEF ScopesIInv
<1> SUFFICES ASSUME NEW e \in Envs
             PROVE  refs'[e] = Cardinality(Held(e)') + Cardinality(Closed(e))
  BY DEF RefsExact, Held, Closed
<1>2. Held(e)' = Held(e) \ {Depth}
  <2>1. 1..(Depth - 1) = (1..Depth) \ {Depth}
    BY <1>1
  <2> QED
    BY <1>1, <2>1 DEF Held
<1>3. Depth \in Held(e) <=> e = Top.env
  BY <1>1 DEF Held, Top
<1>4. Cardinality(Held(e)') =
        IF e = Top.env THEN Cardinality(Held(e)) - 1 ELSE Cardinality(Held(e))
  BY <1>2, <1>3, Countable, FS_RemoveElement
<1>5. refs[e] = Cardinality(Held(e)) + Cardinality(Closed(e))
  BY DEF RefsExact, Held, Closed
<1>6. refs'[e] = IF e = Top.env THEN refs[e] - 1 ELSE refs[e]
  BY DEF Release, ScopesIInv, EnvTypes
<1> QED
  BY <1>4, <1>5, <1>6, Countable

\* Passing an argument and entering a call change no count.
LEMMA CallsStay ==
  ASSUME ScopesIInv, RefsExact, Depth > 0, NEW c \in Calls, c.env = Top.env,
         stack' = [stack EXCEPT ![Depth] = c], UNCHANGED <<refs, fenv>>
  PROVE  RefsExact'
<1>1. stack \in Seq(Calls) /\ Depth \in 1..Len(stack)
  BY TopIsCall DEF ScopesIInv, EnvTypes, Depth
<1>2. /\ Len(stack') = Len(stack)
      /\ \A i \in 1..Len(stack) : stack'[i] = IF i = Depth THEN c ELSE stack[i]
  BY <1>1, ExceptSeq
<1>3. \A e \in Envs : Held(e)' = Held(e) /\ Closed(e)' = Closed(e)
  BY <1>2 DEF Held, Closed, Depth, Top
<1> QED
  BY <1>3, SameCounts

LEMMA StepCounts == ScopesIInv /\ RefsExact /\ [Next]_vars => RefsExact'
<1> SUFFICES ASSUME ScopesIInv, RefsExact, [Next]_vars PROVE RefsExact'
  OBVIOUS
<1>1. ASSUME NEW v \in Values, PassArgument(v) PROVE RefsExact'
  <2> DEFINE c == [Top EXCEPT !.passed = @ + 1]
  <2>1. Depth > 0 /\ stack' = [stack EXCEPT ![Depth] = c] /\ UNCHANGED <<refs, fenv>>
    BY <1>1 DEF PassArgument, ScriptRuns, Top
  <2>2. c \in Calls /\ c.env = Top.env
    BY <2>1, TopIsCall DEF ScopesIInv, Top, Calls
  <2> QED
    BY <2>1, <2>2, CallsStay
<1>2. CASE EnterCall
  <2> DEFINE c == [Top EXCEPT !.entered = TRUE]
  <2>1. Depth > 0 /\ stack' = [stack EXCEPT ![Depth] = c] /\ UNCHANGED <<refs, fenv>>
    BY <1>2 DEF EnterCall, ScriptRuns, Top
  <2>2. c \in Calls /\ c.env = Top.env
    BY <2>1, TopIsCall DEF ScopesIInv, Top, Calls
  <2> QED
    BY <2>1, <2>2, CallsStay
<1>3. ASSUME NEW v \in Values, Return(v) PROVE RefsExact'
  <2>1. Depth > 0 /\ Pop /\ Release(Top.env) /\ UNCHANGED fenv
    BY <1>3, LenProperties DEF Return, ScopesIInv, EnvTypes, Depth
  <2> QED
    BY <2>1, ReleaseCounts
<1>4. CASE Shutdown
  <2>1. Depth = 1 /\ Top.env = Global
    BY <1>4 DEF Shutdown, ScopesIInv, OneCallPerEnv, Top
  <2>2. Pop
    BY <1>4, <2>1 DEF Shutdown, Pop
  <2> QED
    BY <1>4, <2>1, <2>2, ReleaseCounts DEF Shutdown
<1>5. CASE UNCHANGED vars
  BY <1>5, SameCounts DEF vars, Held, Closed, Depth
<1> QED
  BY <1>1, <1>2, <1>3, <1>4, <1>5, CaptureCounts, CallCounts DEF Next

\* An environment has one reference for the call it belongs to and one for every
\* function that captured it, in every run: none is lost and none is freed early.
THEOREM CountsExact == Spec => []RefsExact
<1> QED
  BY InitCounts, StepCounts, ScopesInvariantHolds, PTL DEF Spec

-----------------------------------------------------------------------------
(* Activations, frames and flags: no state is shared with the above.       *)

Bodies == {i \in 1..Nesting : acts[i].kind = "body"}

\* The properties are inductive together: a pop under a flag lands on an
\* activation in phase `check` because activations are well nested, and there
\* is a frame to look at because frames are balanced.
ControlIInv == ControlTypes /\ FramesBalanced /\ ReturnUnwinds /\ EscapeReachesItsLoop

-----------------------------------------------------------------------------
(* The stack of activations.                                               *)

LEMMA TopIsActivation ==
  ASSUME ControlTypes, Nesting > 0
  PROVE  /\ Nesting \in Nat \ {0} /\ 1 \in 1..Nesting /\ Nesting \in 1..Nesting
         /\ \A i \in 1..Nesting : acts[i] \in Activations
         /\ Innermost \in Activations /\ Innermost = acts[Nesting]
         /\ acts[1].kind = "body"
         /\ Innermost.kind # "body" => Nesting > 1 /\ acts[Nesting - 1].phase = "check"
<1>1. acts \in Seq(Activations) /\ Nesting \in Nat \ {0}
  BY LenProperties DEF ControlTypes, Nesting
<1>2. \A i \in 1..Nesting : acts[i] \in Activations
  BY <1>1, ElementOfSeq DEF Nesting
<1>3. 1 \in 1..Nesting /\ Nesting \in 1..Nesting
  BY <1>1
<1>4. acts[1].kind = "body"
  BY <1>3 DEF ControlTypes, WellNested
<1>5. Innermost.kind # "body" => Nesting > 1
  BY <1>1, <1>4 DEF Innermost
<1>6. ASSUME Innermost.kind # "body" PROVE acts[Nesting - 1].phase = "check"
  <2>1. Nesting - 1 \in 1..Nesting /\ Nesting - 1 < Nesting /\ (Nesting - 1) + 1 = Nesting
    BY <1>1, <1>5, <1>6
  <2> QED
    BY <1>6, <2>1 DEF ControlTypes, WellNested, Innermost
<1> QED
  BY <1>1, <1>2, <1>3, <1>4, <1>5, <1>6 DEF Innermost

LEMMA PushOverTop ==
  ASSUME ControlTypes, Nesting > 0, NEW phase \in Phases, NEW new \in Activations,
         PushOver(phase, new),
         phase = IF new.kind = "body" THEN "mid" ELSE "check"
  PROVE  /\ acts' \in Seq(Activations) /\ WellNested'
         /\ Nesting' = Nesting + 1 /\ Innermost' = new
         /\ \A i \in 1..Nesting : acts'[i].kind = acts[i].kind
<1> DEFINE tagged == [acts EXCEPT ![Nesting].phase = phase]
<1>1. /\ acts \in Seq(Activations) /\ Nesting \in Nat \ {0} /\ Nesting \in 1..Len(acts)
      /\ acts[Nesting] \in Activations
  BY TopIsActivation DEF ControlTypes, Nesting
<1>2. tagged = [acts EXCEPT ![Nesting] = [acts[Nesting] EXCEPT !.phase = phase]]
  OBVIOUS
<1>3. [acts[Nesting] EXCEPT !.phase = phase] \in Activations
  BY <1>1 DEF Activations
<1>4. /\ tagged \in Seq(Activations) /\ Len(tagged) = Len(acts)
      /\ \A i \in 1..Len(acts) :
           tagged[i] = IF i = Nesting THEN [acts[Nesting] EXCEPT !.phase = phase] ELSE acts[i]
  BY <1>1, <1>2, <1>3, ExceptSeq
<1>5. acts' = Append(tagged, new)
  BY DEF PushOver
<1>6. /\ acts' \in Seq(Activations) /\ Len(acts') = Len(acts) + 1
      /\ \A i \in 1..Len(acts) : acts'[i] = tagged[i]
      /\ acts'[Len(acts) + 1] = new
  BY <1>4, <1>5
<1>7. /\ acts'[Nesting].kind = acts[Nesting].kind /\ acts'[Nesting].phase = phase
      /\ \A i \in 1..(Nesting - 1) : acts'[i] = acts[i]
      /\ acts'[Nesting + 1] = new /\ Nesting' = Nesting + 1
  BY <1>1, <1>3, <1>4, <1>6 DEF Nesting, Activations
<1>8. WellNested'
  <2> SUFFICES ASSUME NEW i \in 1..(Nesting + 1)
               PROVE  /\ i = 1 => acts'[i].kind = "body"
                      /\ i < Nesting + 1 => acts'[i].phase =
                           IF acts'[i + 1].kind = "body" THEN "mid" ELSE "check"
    BY <1>7 DEF WellNested
  <2>1. CASE i < Nesting
    <3>1. i \in 1..(Nesting - 1) /\ i \in 1..Nesting /\ i + 1 \in 1..Nesting
      BY <1>1, <2>1
    <3>2. acts'[i] = acts[i] /\ acts'[i + 1].kind = acts[i + 1].kind
      BY <1>1, <1>7, <3>1
    <3> QED
      BY <2>1, <3>1, <3>2 DEF ControlTypes, WellNested
  <2>2. CASE i = Nesting
    BY <1>1, <1>7, <2>2, TopIsActivation
  <2>3. CASE i = Nesting + 1
    BY <1>1, <2>3
  <2> QED
    BY <1>1, <2>1, <2>2, <2>3
<1> QED
  BY <1>1, <1>6, <1>7, <1>8 DEF Innermost, Nesting

LEMMA PopTop ==
  ASSUME ControlTypes, Nesting > 0, acts' = SubSeq(acts, 1, Nesting - 1)
  PROVE  /\ acts' \in Seq(Activations) /\ WellNested'
         /\ Nesting' = Nesting - 1
         /\ \A i \in 1..(Nesting - 1) : acts'[i] = acts[i]
         /\ Innermost.kind # "body" => Nesting' > 0 /\ Innermost'.phase = "check"
<1>1. acts \in Seq(Activations) /\ Nesting \in Nat \ {0}
  BY TopIsActivation DEF ControlTypes
<1>2. \A i \in 1..(Nesting - 1) : acts[i] \in Activations
  BY <1>1, TopIsActivation
<1>3. /\ acts' \in Seq(Activations)
      /\ Len(acts') = IF 1 <= Nesting - 1 THEN (Nesting - 1) - 1 + 1 ELSE 0
      /\ \A i \in 1..((Nesting - 1) - 1 + 1) : acts'[i] = acts[1 + i - 1]
  BY <1>1, <1>2, SubSeqProperties
<1>8. Len(acts') = Nesting - 1
  BY <1>1, <1>3
<1>4. Nesting' = Nesting - 1
  BY <1>8 DEF Nesting
<1>5. \A i \in 1..(Nesting - 1) : acts'[i] = acts[i]
  <2> TAKE i \in 1..(Nesting - 1)
  <2>1. i \in 1..((Nesting - 1) - 1 + 1) /\ 1 + i - 1 = i
    BY <1>1
  <2> QED
    BY <1>3, <2>1
<1>6. WellNested'
  <2> SUFFICES ASSUME NEW i \in 1..(Nesting - 1)
               PROVE  /\ i = 1 => acts'[i].kind = "body"
                      /\ i < Nesting - 1 => acts'[i].phase =
                           IF acts'[i + 1].kind = "body" THEN "mid" ELSE "check"
    BY <1>4 DEF WellNested
  <2>1. i \in 1..Nesting /\ i < Nesting
    BY <1>1
  <2>2. i < Nesting - 1 => i + 1 \in 1..(Nesting - 1)
    BY <1>1
  <2> QED
    BY <1>5, <2>1, <2>2 DEF ControlTypes, WellNested
<1>7. ASSUME Innermost.kind # "body" PROVE Nesting' > 0 /\ Innermost'.phase = "check"
  <2>1. Nesting > 1 /\ acts[Nesting - 1].phase = "check"
    BY <1>7, TopIsActivation
  <2>2. Innermost' = acts'[Nesting - 1] /\ Nesting - 1 \in 1..(Nesting - 1)
    BY <1>1, <1>4, <2>1 DEF Innermost
  <2> QED
    BY <1>1, <1>4, <1>5, <2>1, <2>2
<1> QED
  BY <1>3, <1>4, <1>5, <1>6, <1>7

LEMMA RetagTop ==
  ASSUME ControlTypes, Nesting > 0, NEW phase \in Phases, TopBecomes(phase)
  PROVE  /\ acts' \in Seq(Activations) /\ WellNested'
         /\ Nesting' = Nesting /\ Innermost'.phase = phase
         /\ \A i \in 1..Nesting : acts'[i].kind = acts[i].kind
<1>1. /\ acts \in Seq(Activations) /\ Nesting \in Nat \ {0} /\ Nesting \in 1..Len(acts)
      /\ acts[Nesting] \in Activations
  BY TopIsActivation DEF ControlTypes, Nesting
<1>2. acts' = [acts EXCEPT ![Nesting] = [acts[Nesting] EXCEPT !.phase = phase]]
  BY DEF TopBecomes
<1>3. [acts[Nesting] EXCEPT !.phase = phase] \in Activations
  BY <1>1 DEF Activations
<1>4. /\ acts' \in Seq(Activations) /\ Len(acts') = Len(acts)
      /\ \A i \in 1..Len(acts) :
           acts'[i] = IF i = Nesting THEN [acts[Nesting] EXCEPT !.phase = phase] ELSE acts[i]
  BY <1>1, <1>2, <1>3, ExceptSeq
<1>5. /\ Nesting' = Nesting /\ Innermost'.phase = phase
      /\ \A i \in 1..Nesting : acts'[i].kind = acts[i].kind
      /\ \A i \in 1..Nesting : i < Nesting => acts'[i] = acts[i]
  BY <1>1, <1>3, <1>4, SMTT(30) DEF Nesting, Innermost, Activations
<1>6. WellNested'
  <2> SUFFICES ASSUME NEW i \in 1..Nesting
               PROVE  /\ i = 1 => acts'[i].kind = "body"
                      /\ i < Nesting => acts'[i].phase =
                           IF acts'[i + 1].kind = "body" THEN "mid" ELSE "check"
    BY <1>5 DEF WellNested
  <2>1. i < Nesting => i + 1 \in 1..Nesting
    BY <1>1
  <2> QED
    BY <1>5, <2>1 DEF ControlTypes, WellNested
<1> QED
  BY <1>4, <1>5, <1>6

-----------------------------------------------------------------------------
(* Frames and bodies.                                                      *)

LEMMA BodiesFinite ==
  ASSUME ControlTypes
  PROVE  IsFiniteSet(Bodies) /\ Cardinality(Bodies) \in Nat
<1>1. Nesting \in Nat
  BY LenProperties DEF ControlTypes, Nesting
<1>2. IsFiniteSet(1..Nesting)
  BY <1>1, FS_Interval
<1>3. Bodies \subseteq 1..Nesting
  BY DEF Bodies
<1> QED
  BY <1>2, <1>3, FS_Subset, FS_CardinalityType

\* While anything runs there is a frame.
LEMMA SomeFrame ==
  ASSUME ControlTypes, FramesBalanced, Nesting > 0
  PROVE  Len(frames) \in Nat /\ Len(frames) \in 1..Len(frames)
<1>1. 1 \in Bodies
  BY TopIsActivation DEF Bodies
<1>2. Cardinality(Bodies) # 0
  BY <1>1, BodiesFinite, FS_EmptySet
<1>3. Len(frames) = Cardinality(Bodies)
  BY DEF FramesBalanced, Bodies
<1> QED
  BY <1>2, <1>3, BodiesFinite

\* The frame of a body is pushed and popped with it.
LEMMA PushBalanced ==
  ASSUME ControlTypes, FramesBalanced, Nesting > 0, Nesting' = Nesting + 1,
         \A i \in 1..Nesting : acts'[i].kind = acts[i].kind,
         frames' = IF Innermost'.kind = "body" THEN Append(frames, NewFrame) ELSE frames
  PROVE  FramesBalanced' /\ frames' \in Seq(CallFrames)
<1>1. Nesting \in Nat /\ frames \in Seq(CallFrames)
  BY TopIsActivation DEF ControlTypes
<1>2. 1..(Nesting + 1) = (1..Nesting) \cup {Nesting + 1} /\ Nesting + 1 \notin 1..Nesting
  BY <1>1
<1>3. Innermost' = acts'[Nesting + 1]
  BY DEF Innermost
<1>4. Len(frames) = Cardinality(Bodies)
  BY DEF FramesBalanced, Bodies
<1>5. CASE Innermost'.kind = "body"
  <2>1. Bodies' = Bodies \cup {Nesting + 1}
    BY <1>2, <1>3, <1>5 DEF Bodies
  <2>2. Nesting + 1 \notin Bodies
    BY <1>2 DEF Bodies
  <2>3. Cardinality(Bodies') = Cardinality(Bodies) + 1
    BY <2>1, <2>2, BodiesFinite, FS_AddElement
  <2>4. frames' = Append(frames, NewFrame) /\ NewFrame \in CallFrames
    BY <1>5 DEF NewFrame, CallFrames
  <2>5. frames' \in Seq(CallFrames) /\ Len(frames') = Len(frames) + 1
    BY <1>1, <2>4, AppendProperties
  <2> QED
    BY <1>4, <2>3, <2>5 DEF FramesBalanced, Bodies
<1>6. CASE Innermost'.kind # "body"
  <2>1. Bodies' = Bodies
    BY <1>2, <1>3, <1>6 DEF Bodies
  <2> QED
    BY <1>1, <1>4, <1>6, <2>1 DEF FramesBalanced, Bodies
<1> QED
  BY <1>5, <1>6

LEMMA PopBalanced ==
  ASSUME ControlTypes, FramesBalanced, Nesting > 0, acts' = SubSeq(acts, 1, Nesting - 1),
         frames' \in Seq(CallFrames),
         Len(frames') = IF Innermost.kind = "body" THEN Len(frames) - 1 ELSE Len(frames)
  PROVE  FramesBalanced'
<1>1. Nesting \in Nat \ {0}
  BY TopIsActivation
<1>2. 1..Nesting = (1..(Nesting - 1)) \cup {Nesting} /\ Nesting \notin 1..(Nesting - 1)
  BY <1>1
<1>3. Nesting' = Nesting - 1 /\ \A i \in 1..(Nesting - 1) : acts'[i] = acts[i]
  BY PopTop
<1>4. Bodies' = Bodies \ {Nesting}
  BY <1>2, <1>3 DEF Bodies
<1>5. Nesting \in Bodies <=> Innermost.kind = "body"
  BY <1>2 DEF Bodies, Innermost
<1>6. Cardinality(Bodies') =
        IF Innermost.kind = "body" THEN Cardinality(Bodies) - 1 ELSE Cardinality(Bodies)
  BY <1>4, <1>5, BodiesFinite, FS_RemoveElement
<1>7. Len(frames) = Cardinality(Bodies)
  BY DEF FramesBalanced, Bodies
<1>8. Len(frames') = Cardinality(Bodies')
  BY <1>6, <1>7
<1> QED
  BY <1>8 DEF FramesBalanced, Bodies

\* What Leave does to frames.
LEMMA PopFrame ==
  ASSUME ControlTypes, FramesBalanced, Nesting > 0,
         frames' = SubSeq(frames, 1, Len(frames) - 1)
  PROVE  /\ frames' \in Seq(CallFrames) /\ Len(frames') = Len(frames) - 1
         /\ \A i \in 1..Len(frames') : frames'[i] = frames[i]
<1>1. frames \in Seq(CallFrames) /\ Len(frames) \in Nat \ {0}
  BY SomeFrame DEF ControlTypes
<1>2. PICK n \in Nat \ {0} : n = Len(frames)
  BY <1>1
<1>3. \A i \in 1..(n - 1) : frames[i] \in CallFrames
  BY <1>1, <1>2, ElementOfSeq
<1>4. frames' = SubSeq(frames, 1, n - 1)
  BY <1>2
<1>5. /\ frames' \in Seq(CallFrames)
      /\ Len(frames') = IF 1 <= n - 1 THEN (n - 1) - 1 + 1 ELSE 0
      /\ \A i \in 1..((n - 1) - 1 + 1) : frames'[i] = frames[1 + i - 1]
  BY <1>2, <1>3, <1>4, SubSeqProperties
<1>6. Len(frames') = n - 1
  BY <1>2, <1>5
<1>7. \A i \in 1..(n - 1) : frames'[i] = frames[i]
  <2> TAKE i \in 1..(n - 1)
  <2>1. i \in 1..((n - 1) - 1 + 1) /\ 1 + i - 1 = i
    BY <1>2
  <2> QED
    BY <1>5, <2>1
<1> QED
  BY <1>2, <1>5, <1>6, <1>7

-----------------------------------------------------------------------------
(* Leaving and entering under the invariant.                               *)

\* Whatever is left, at most the innermost frame stays marked, and then what
\* is left next looks at it.
LEMMA LeaveKeeps ==
  ASSUME ControlIInv, Nesting > 0, Leave
  PROVE  /\ acts' \in Seq(Activations) /\ WellNested' /\ frames' \in Seq(CallFrames)
         /\ FramesBalanced' /\ ReturnUnwinds'
<1> USE DEF ControlIInv
<1>1. acts' = SubSeq(acts, 1, Nesting - 1)
  BY DEF Leave
<1>2. CASE Innermost.kind = "body"
  <2>1. frames' = SubSeq(frames, 1, Len(frames) - 1)
    BY <1>2 DEF Leave
  <2>2. /\ frames' \in Seq(CallFrames) /\ Len(frames') = Len(frames) - 1
        /\ \A i \in 1..Len(frames') : frames'[i] = frames[i]
    BY <2>1, PopFrame
  <2>3. Len(frames) \in Nat \ {0}
    BY SomeFrame
  <2>4. ReturnUnwinds'
    BY <2>2, <2>3 DEF ReturnUnwinds
  <2> QED
    BY <1>1, <1>2, <2>2, <2>4, PopTop, PopBalanced
<1>3. CASE Innermost.kind # "body"
  <2>1. frames' = frames
    BY <1>3 DEF Leave
  <2>2. frames' \in Seq(CallFrames)
    BY <2>1 DEF ControlTypes
  <2>3. Nesting' > 0 /\ Innermost'.phase = "check"
    BY <1>1, <1>3, PopTop
  <2>4. ReturnUnwinds'
    BY <2>1, <2>3 DEF ReturnUnwinds
  <2> QED
    BY <1>1, <1>3, <2>1, <2>2, <2>4, PopTop, PopBalanced
<1> QED
  BY <1>2, <1>3

\* While script code runs no flag that counts is set.
LEMMA NoFlagInScript ==
  ASSUME ControlIInv, Nesting > 0, Innermost.phase # "check"
  PROVE  /\ \A i \in 1..Len(frames) : ~frames[i].returning
         /\ stray \/ ~(break_flag \/ continue_flag)
BY DEF ControlIInv, ReturnUnwinds, EscapeReachesItsLoop

\* An activation is started by script code only.
LEMMA PushKeeps ==
  ASSUME ControlIInv, Nesting > 0, Innermost.phase # "check",
         NEW phase \in Phases, NEW new \in Activations, PushOver(phase, new),
         phase = IF new.kind = "body" THEN "mid" ELSE "check",
         frames' = IF new.kind = "body" THEN Append(frames, NewFrame) ELSE frames,
         UNCHANGED <<flags, ghosts>>
  PROVE  ControlIInv'
<1> USE DEF ControlIInv
<1>1. /\ acts' \in Seq(Activations) /\ WellNested' /\ Nesting' = Nesting + 1 /\ Innermost' = new
      /\ \A i \in 1..Nesting : acts'[i].kind = acts[i].kind
  BY PushOverTop
<1>2. FramesBalanced' /\ frames' \in Seq(CallFrames)
  BY <1>1, PushBalanced
<1>3. ReturnUnwinds'
  <2>1. frames \in Seq(CallFrames) /\ \A i \in 1..Len(frames) : ~frames[i].returning
    BY NoFlagInScript DEF ControlTypes
  <2>2. \A i \in 1..Len(frames') : ~frames'[i].returning
    BY <2>1 DEF CallFrames, NewFrame
  <2> QED
    BY <2>2 DEF ReturnUnwinds
<1>4. EscapeReachesItsLoop'
  BY NoFlagInScript DEF EscapeReachesItsLoop, flags, ghosts
<1> QED
  BY <1>1, <1>2, <1>3, <1>4 DEF ControlTypes, flags, ghosts

\* Leaving from script code, with no flag set.
LEMMA LeaveScriptKeeps ==
  ASSUME ControlIInv, Nesting > 0, Innermost.phase # "check", Leave, UNCHANGED <<flags, ghosts>>
  PROVE  ControlIInv'
<1>1. EscapeReachesItsLoop'
  BY NoFlagInScript DEF EscapeReachesItsLoop, flags, ghosts
<1> QED
  BY <1>1, LeaveKeeps DEF ControlIInv, ControlTypes, flags, ghosts

\* A block does not hide the loop it stands in.
LEMMA LoopAroundBlock ==
  ASSUME ControlTypes, Nesting > 0, Innermost.kind = "block", acts' = SubSeq(acts, 1, Nesting - 1)
  PROVE  LoopAround' = LoopAround
<1>1. Nesting \in Nat \ {0}
  BY TopIsActivation
<1>2. Nesting' = Nesting - 1 /\ \A i \in 1..(Nesting - 1) : acts'[i] = acts[i]
  BY PopTop
<1>3. \A i \in 1..Nesting : i \in 1..(Nesting - 1) \/ i = Nesting
  BY <1>1
<1>4. ASSUME NEW i \in 1..(Nesting - 1)
      PROVE  (\A j \in (i + 1)..Nesting : acts[j].kind = "block")
             <=> (\A j \in (i + 1)..(Nesting - 1) : acts'[j].kind = "block")
  <2>1. \A j \in (i + 1)..Nesting : j \in (i + 1)..(Nesting - 1) \/ j = Nesting
    BY <1>1
  <2>2. \A j \in (i + 1)..(Nesting - 1) : j \in (i + 1)..Nesting /\ acts'[j] = acts[j]
    BY <1>1, <1>2
  <2> QED
    BY <2>1, <2>2 DEF Innermost
<1>5. ASSUME NEW i \in 1..(Nesting - 1) PROVE i \in LoopAround' <=> i \in LoopAround
  BY <1>1, <1>2, <1>4, <1>5 DEF LoopAround
<1>6. Nesting \notin LoopAround
  BY DEF LoopAround, Innermost
<1>7. LoopAround \subseteq 1..Nesting /\ LoopAround' \subseteq 1..(Nesting - 1)
  BY <1>2 DEF LoopAround
<1> QED
  BY <1>3, <1>5, <1>6, <1>7

\* Inside a loop a run_ast that is left by break or continue is a block.
LEMMA InLoopIsBlock ==
  ASSUME ControlTypes, Nesting > 0, Innermost.kind # "loop", LoopAround # {}
  PROVE  Innermost.kind = "block"
<1>1. PICK i \in LoopAround : TRUE
  OBVIOUS
<1>2. i \in 1..Nesting /\ i # Nesting /\ Nesting \in Nat
  BY <1>1, TopIsActivation DEF LoopAround, Innermost
<1>3. Nesting \in (i + 1)..Nesting
  BY <1>2
<1> QED
  BY <1>1, <1>3 DEF LoopAround, Innermost

-----------------------------------------------------------------------------
(* The invariant is preserved by every step.                               *)

LEMMA ControlStart == ControlInit => ControlIInv
<1> SUFFICES ASSUME ControlInit PROVE ControlIInv
  OBVIOUS
<1>1. acts = <<New("body", "next")>> /\ frames = <<NewFrame>>
  BY DEF ControlInit
<1>2. New("body", "next") \in Activations /\ NewFrame \in CallFrames
  BY DEF New, Activations, Kinds, Phases, NewFrame, CallFrames
<1>3. /\ acts \in Seq(Activations) /\ Len(acts) = 1 /\ acts[1].kind = "body"
      /\ frames \in Seq(CallFrames) /\ Len(frames) = 1 /\ ~frames[1].returning
  BY <1>1, <1>2 DEF New, NewFrame
<1>4. ControlTypes
  <2>1. WellNested
    BY <1>3 DEF WellNested, Nesting
  <2>2. target \in SUBSET Nat /\ stray \in BOOLEAN
        /\ break_flag \in BOOLEAN /\ continue_flag \in BOOLEAN
    BY DEF ControlInit
  <2> QED
    BY <1>3, <2>1, <2>2 DEF ControlTypes
<1>5. FramesBalanced
  <2>1. {i \in 1..Nesting : acts[i].kind = "body"} = {1}
    BY <1>3 DEF Nesting
  <2> QED
    BY <1>3, <2>1, FS_Singleton DEF FramesBalanced
<1> QED
  BY <1>3, <1>4, <1>5 DEF ControlInit, ControlIInv, ReturnUnwinds, EscapeReachesItsLoop

\* break and continue: the loop around the statement is the target, and the
\* activation that the flag meets next is on the way to it.
LEMMA EscapeKeeps ==
  ASSUME ControlIInv, Break \/ Continue
  PROVE  ControlIInv'
<1> USE DEF ControlIInv
<1>1. /\ Nesting > 0 /\ Innermost.kind # "loop" /\ Innermost.phase = "next" /\ Leave
      /\ target' = LoopAround /\ stray' = (stray \/ LoopAround = {})
  BY DEF Break, Continue, Escape, BeforeStatement, InStatement
<1>2. /\ acts' \in Seq(Activations) /\ WellNested' /\ frames' \in Seq(CallFrames)
      /\ FramesBalanced' /\ ReturnUnwinds'
  BY <1>1, LeaveKeeps
<1>3. LoopAround \subseteq Nat
  BY DEF LoopAround
<1>4. ControlTypes'
  BY <1>1, <1>2, <1>3 DEF ControlTypes, Break, Continue
<1>5. ASSUME ~stray' PROVE EscapeReachesItsLoop'
  <2>1. ~stray /\ LoopAround # {}
    BY <1>1, <1>5 DEF ControlTypes
  <2>2. Innermost.kind = "block"
    BY <1>1, <2>1, InLoopIsBlock
  <2>3. acts' = SubSeq(acts, 1, Nesting - 1) /\ frames' = frames
    BY <1>1, <2>2 DEF Leave
  <2>4. LoopAround' = LoopAround
    BY <1>1, <2>2, <2>3, LoopAroundBlock
  <2>5. Innermost'.phase = "check"
    BY <1>1, <2>2, <2>3, PopTop
  <2>6. ~Returning /\ ~break_flag /\ ~continue_flag
    BY <1>1, <2>1, NoFlagInScript, SomeFrame DEF Returning
  <2>7. ~Returning'
    BY <2>3, <2>6 DEF Returning
  <2>8. ~(break_flag' /\ continue_flag')
    BY <2>6 DEF Break, Continue
  <2> QED
    BY <1>1, <2>1, <2>4, <2>5, <2>7, <2>8 DEF EscapeReachesItsLoop
<1>6. EscapeReachesItsLoop'
  BY <1>5 DEF EscapeReachesItsLoop
<1> QED
  BY <1>2, <1>4, <1>6

\* return: the frame is marked unless it goes away at once.
LEMMA ReturnKeeps ==
  ASSUME ControlIInv, ReturnStatement
  PROVE  ControlIInv'
<1> USE DEF ControlIInv
<1>1. /\ Nesting > 0 /\ Innermost.phase # "check" /\ acts' = SubSeq(acts, 1, Nesting - 1)
      /\ UNCHANGED <<flags, ghosts>>
  BY DEF ReturnStatement, InStatement
<1>2. CASE Innermost.kind = "body"
  <2>1. Leave
    BY <1>1, <1>2 DEF ReturnStatement, Leave
  <2> QED
    BY <1>1, <2>1, LeaveScriptKeeps
<1>3. CASE Innermost.kind # "body"
  <2>1. frames \in Seq(CallFrames) /\ Len(frames) \in 1..Len(frames)
    BY <1>1, SomeFrame DEF ControlTypes
  <2>2. /\ frames' = [frames EXCEPT ![Len(frames)] =
                        [frames[Len(frames)] EXCEPT !.returning = TRUE]]
        /\ [frames[Len(frames)] EXCEPT !.returning = TRUE] \in CallFrames
    <3>1. frames[Len(frames)] \in CallFrames
      BY <2>1, ElementOfSeq
    <3> QED
      BY <1>3, <3>1 DEF ReturnStatement, CallFrames
  <2>3. /\ frames' \in Seq(CallFrames) /\ Len(frames') = Len(frames)
        /\ \A i \in 1..Len(frames) : i # Len(frames) => frames'[i] = frames[i]
    BY <2>1, <2>2, ExceptSeq
  <2>4. /\ acts' \in Seq(Activations) /\ WellNested'
        /\ Nesting' > 0 /\ Innermost'.phase = "check"
    BY <1>1, <1>3, PopTop
  <2>5. FramesBalanced'
    BY <1>1, <1>3, <2>3, PopBalanced
  <2>6. ReturnUnwinds'
    BY <1>1, <2>3, <2>4, NoFlagInScript DEF ReturnUnwinds
  <2>7. EscapeReachesItsLoop'
    BY <1>1, NoFlagInScript DEF EscapeReachesItsLoop, flags, ghosts
  <2> QED
    BY <1>1, <2>3, <2>4, <2>5, <2>6, <2>7 DEF ControlTypes, flags, ghosts
<1> QED
  BY <1>2, <1>3

\* A statement is over: go on, or leave towards the one who set a flag.
LEMMA CheckStatementKeeps ==
  ASSUME ControlIInv, CheckStatement
  PROVE  ControlIInv'
<1> USE DEF ControlIInv
<1>1. /\ Nesting > 0 /\ Innermost.kind # "loop" /\ Innermost.phase = "check"
      /\ UNCHANGED <<flags, ghosts>>
  BY DEF CheckStatement
<1>2. CASE Returning \/ break_flag \/ continue_flag
  <2>1. Leave
    BY <1>2 DEF CheckStatement
  <2>2. /\ acts' \in Seq(Activations) /\ WellNested' /\ frames' \in Seq(CallFrames)
        /\ FramesBalanced' /\ ReturnUnwinds'
    BY <1>1, <2>1, LeaveKeeps
  <2>3. ASSUME ~stray, break_flag \/ continue_flag PROVE EscapeReachesItsLoop'
    <3>1. /\ ~(break_flag /\ continue_flag) /\ target # {}
          /\ target = LoopAround /\ ~Returning
      BY <2>3 DEF EscapeReachesItsLoop
    <3>2. Innermost.kind = "block"
      BY <1>1, <3>1, InLoopIsBlock
    <3>3. acts' = SubSeq(acts, 1, Nesting - 1) /\ frames' = frames
      BY <2>1, <3>2 DEF Leave
    <3>4. LoopAround' = LoopAround
      BY <1>1, <3>2, <3>3, LoopAroundBlock
    <3>5. Innermost'.phase = "check"
      BY <1>1, <3>2, <3>3, PopTop
    <3>6. ~Returning'
      BY <3>1, <3>3 DEF Returning
    <3> QED
      BY <1>1, <3>1, <3>4, <3>5, <3>6 DEF EscapeReachesItsLoop, flags, ghosts
  <2>4. EscapeReachesItsLoop'
    BY <1>1, <2>3 DEF EscapeReachesItsLoop, flags, ghosts
  <2> QED
    BY <1>1, <2>2, <2>4 DEF ControlTypes, flags, ghosts
<1>3. CASE ~(Returning \/ break_flag \/ continue_flag)
  <2>1. TopBecomes("next") /\ frames' = frames
    BY <1>3 DEF CheckStatement, TopBecomes
  <2>2. /\ acts' \in Seq(Activations) /\ WellNested' /\ Nesting' = Nesting
        /\ \A i \in 1..Nesting : acts'[i].kind = acts[i].kind
    BY <1>1, <2>1, RetagTop DEF Phases
  <2>3. FramesBalanced'
    BY <2>1, <2>2 DEF FramesBalanced
  <2>4. ReturnUnwinds'
    BY <1>3, <2>1 DEF ReturnUnwinds, Returning
  <2>5. EscapeReachesItsLoop'
    BY <1>1, <1>3 DEF EscapeReachesItsLoop, flags
  <2> QED
    BY <1>1, <2>1, <2>2, <2>3, <2>4, <2>5 DEF ControlTypes, flags, ghosts
<1> QED
  BY <1>2, <1>3

\* A turn is over: return passes, break and continue end here.
LEMMA CheckTurnKeeps ==
  ASSUME ControlIInv, CheckTurn
  PROVE  ControlIInv'
<1> USE DEF ControlIInv
<1>1. Nesting > 0 /\ UNCHANGED ghosts
  BY DEF CheckTurn
<1>2. break_flag' \in BOOLEAN /\ continue_flag' \in BOOLEAN
  BY DEF CheckTurn, ControlTypes
<1>3. EscapeReachesItsLoop'
  <2>1. ASSUME ~stray PROVE ~break_flag' /\ ~continue_flag'
    BY <2>1 DEF CheckTurn, EscapeReachesItsLoop
  <2> QED
    BY <1>1, <2>1 DEF EscapeReachesItsLoop, ghosts
<1>4. CASE Returning \/ break_flag
  <2>1. Leave
    BY <1>4 DEF CheckTurn
  <2> QED
    BY <1>1, <1>2, <1>3, <2>1, LeaveKeeps DEF ControlTypes, ghosts
<1>5. CASE ~(Returning \/ break_flag)
  <2>1. TopBecomes("mid") /\ frames' = frames
    BY <1>5 DEF CheckTurn, TopBecomes
  <2>2. /\ acts' \in Seq(Activations) /\ WellNested' /\ Nesting' = Nesting
        /\ \A i \in 1..Nesting : acts'[i].kind = acts[i].kind
    BY <1>1, <2>1, RetagTop DEF Phases
  <2>3. FramesBalanced'
    BY <2>1, <2>2 DEF FramesBalanced
  <2>4. ReturnUnwinds'
    BY <1>5, <2>1 DEF ReturnUnwinds, Returning
  <2> QED
    BY <1>1, <1>2, <1>3, <2>1, <2>2, <2>3, <2>4 DEF ControlTypes, ghosts
<1> QED
  BY <1>4, <1>5

LEMMA ControlStep == ControlIInv /\ [ControlNext]_controlVars => ControlIInv'
<1> SUFFICES ASSUME ControlIInv, [ControlNext]_controlVars PROVE ControlIInv'
  OBVIOUS
<1>1. CASE Call
  <2>1. /\ Nesting > 0 /\ Innermost.phase # "check" /\ UNCHANGED <<flags, ghosts>>
        /\ PushOver("mid", New("body", "next")) /\ frames' = Append(frames, NewFrame)
    BY <1>1 DEF Call, InStatement, BeforeTurn
  <2>2. New("body", "next") \in Activations /\ New("body", "next").kind = "body"
    BY DEF New, Activations, Kinds, Phases
  <2> QED
    BY <2>1, <2>2, PushKeeps DEF Phases
<1>2. CASE BeginBlock \/ BeginTurn
  <2>1. /\ Nesting > 0 /\ Innermost.phase # "check" /\ UNCHANGED <<flags, ghosts>>
        /\ PushOver("check", New("block", "next")) /\ frames' = frames
    BY <1>2 DEF BeginBlock, BeginTurn, InStatement, BeforeTurn
  <2>2. New("block", "next") \in Activations /\ New("block", "next").kind = "block"
    BY DEF New, Activations, Kinds, Phases
  <2> QED
    BY <2>1, <2>2, PushKeeps DEF Phases
<1>3. CASE BeginLoop
  <2>1. /\ Nesting > 0 /\ Innermost.phase # "check" /\ UNCHANGED <<flags, ghosts>>
        /\ PushOver("check", New("loop", "mid")) /\ frames' = frames
    BY <1>3 DEF BeginLoop, InStatement
  <2>2. New("loop", "mid") \in Activations /\ New("loop", "mid").kind = "loop"
    BY DEF New, Activations, Kinds, Phases
  <2> QED
    BY <2>1, <2>2, PushKeeps DEF Phases
<1>4. CASE EndLoop \/ EndOfStatements
  <2>1. Nesting > 0 /\ Innermost.phase # "check" /\ Leave /\ UNCHANGED <<flags, ghosts>>
    BY <1>4 DEF EndLoop, EndOfStatements, BeforeTurn, BeforeStatement, InStatement
  <2> QED
    BY <2>1, LeaveScriptKeeps
<1>5. CASE SimpleStatement
  <2>1. /\ Nesting > 0 /\ Innermost.phase # "check" /\ TopBecomes("check") /\ frames' = frames
        /\ UNCHANGED <<flags, ghosts>>
    BY <1>5 DEF SimpleStatement, InStatement, TopBecomes
  <2>2. /\ acts' \in Seq(Activations) /\ WellNested' /\ Nesting' = Nesting
        /\ \A i \in 1..Nesting : acts'[i].kind = acts[i].kind
    BY <2>1, RetagTop DEF ControlIInv, Phases
  <2>3. FramesBalanced'
    BY <2>1, <2>2 DEF ControlIInv, FramesBalanced
  <2>4. ReturnUnwinds' /\ EscapeReachesItsLoop'
    BY <2>1, NoFlagInScript DEF ReturnUnwinds, EscapeReachesItsLoop, flags, ghosts
  <2> QED
    BY <2>1, <2>2, <2>3, <2>4 DEF ControlIInv, ControlTypes, flags, ghosts
<1>6. CASE UNCHANGED controlVars
  <2>1. acts' = acts /\ frames' = frames /\ UNCHANGED <<flags, ghosts>>
    BY <1>6 DEF controlVars, flags, ghosts
  <2>2. /\ Nesting' = Nesting /\ Innermost' = Innermost /\ WellNested' = WellNested
        /\ LoopAround' = LoopAround /\ Returning' = Returning
    BY <2>1 DEF Nesting, Innermost, WellNested, LoopAround, Returning
  <2>3. ControlTypes' /\ FramesBalanced'
    BY <2>1, <2>2 DEF ControlIInv, ControlTypes, FramesBalanced, flags, ghosts
  <2>4. ReturnUnwinds' /\ EscapeReachesItsLoop'
    BY <2>1, <2>2 DEF ControlIInv, ReturnUnwinds, EscapeReachesItsLoop, flags, ghosts
  <2> QED
    BY <2>3, <2>4 DEF ControlIInv
<1> QED
  BY <1>1, <1>2, <1>3, <1>4, <1>5, <1>6,
     EscapeKeeps, ReturnKeeps, CheckStatementKeeps, CheckTurnKeeps DEF ControlNext, Script

\* The types, the nesting of activations and what the next three theorems say
\* hold together in every run.
THEOREM ControlInvariantHolds == ControlSpec => []ControlIInv
<1> QED
  BY ControlStart, ControlStep, PTL DEF ControlSpec

\* Every body has its frame for exactly as long as it runs, whichever way it is
\* left.
THEOREM Balanced == ControlSpec => []FramesBalanced
<1>1. ControlIInv => FramesBalanced
  BY DEF ControlIInv
<1> QED
  BY <1>1, ControlInvariantHolds, PTL

\* A return ends its own function, all of it, and no other.
THEOREM ReturnIsLocal == ControlSpec => []ReturnUnwinds
<1>1. ControlIInv => ReturnUnwinds
  BY DEF ControlIInv
<1> QED
  BY <1>1, ControlInvariantHolds, PTL

\* A break or continue that stands in a loop of its function reaches that loop
\* and none other, although one flag serves every function and every loop.
THEOREM EscapeIsLocal == ControlSpec => []EscapeReachesItsLoop
<1>1. ControlIInv => EscapeReachesItsLoop
  BY DEF ControlIInv
<1> QED
  BY <1>1, ControlInvariantHolds, PTL
=============================================================================
