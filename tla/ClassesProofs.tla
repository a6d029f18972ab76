---------------------------- MODULE ClassesProofs -----------------------------
(***************************************************************************)
(* Proofs about class statements and annotated definitions (module         *)
(* Definitions), for every text of a program, all handlers and every depth *)
(* of definitions inside definitions; and about what assignments do to     *)
(* memory (module Objects), for every number of variables, attributes,     *)
(* objects and instances, and that memory implements values (module        *)
(* ValueSpec).  Definitions and Objects share no state.                    *)
(***************************************************************************)
EXTENDS Definitions, Objects, SequenceTheorems, FiniteSetTheorems, WellFoundedInduction, TLAPS

IsSeq(s) == \E S : s \in Seq(S)

-----------------------------------------------------------------------------
(* Sequences of values that have no common type.                           *)

LEMMA SeqFacts ==
  ASSUME NEW s, IsSeq(s)
  PROVE  Len(s) \in Nat /\ DOMAIN s = 1..Len(s)
<1>1. PICK S : s \in Seq(S)
  BY DEF IsSeq
<1> QED
  BY <1>1, LenProperties

LEMMA FunctionIsSeq ==
  ASSUME NEW n \in Nat, NEW S, NEW s \in [1..n -> S]
  PROVE  IsSeq(s) /\ Len(s) = n
<1>1. s \in Seq(S)
  BY SeqDef
<1> QED
  BY <1>1, LenProperties DEF IsSeq

LEMMA AppendOne ==
  ASSUME NEW s, IsSeq(s), NEW e
  PROVE  /\ IsSeq(Append(s, e)) /\ Len(Append(s, e)) = Len(s) + 1
         /\ \A i \in 1..Len(s) : Append(s, e)[i] = s[i]
         /\ Append(s, e)[Len(s) + 1] = e
<1>1. PICK S : s \in Seq(S)
  BY DEF IsSeq
<1>2. s \in Seq(S \cup {e}) /\ e \in S \cup {e}
  BY <1>1, SeqMonotonic
<1> QED
  BY <1>2, AppendProperties DEF IsSeq

LEMMA AllButLast ==
  ASSUME NEW s, IsSeq(s), Len(s) > 0
  PROVE  /\ IsSeq(SubSeq(s, 1, Len(s) - 1)) /\ Len(SubSeq(s, 1, Len(s) - 1)) = Len(s) - 1
         /\ \A i \in 1..(Len(s) - 1) : SubSeq(s, 1, Len(s) - 1)[i] = s[i]
<1>1. PICK S : s \in Seq(S)
  BY DEF IsSeq
<1>2. PICK n \in Nat : n = Len(s) - 1
  BY <1>1, LenProperties
<1>3. \A i \in 1..n : s[i] \in S
  <2> TAKE i \in 1..n
  <2>1. i \in 1..Len(s)
    BY <1>1, <1>2, LenProperties
  <2> QED
    BY <1>1, <2>1, ElementOfSeq
<1>4. /\ SubSeq(s, 1, n) \in Seq(S)
      /\ Len(SubSeq(s, 1, n)) = IF 1 <= n THEN n - 1 + 1 ELSE 0
      /\ \A i \in 1..(n - 1 + 1) : SubSeq(s, 1, n)[i] = s[1 + i - 1]
  BY <1>3, SubSeqProperties
<1>5. Len(SubSeq(s, 1, n)) = n
  BY <1>4
<1>6. \A i \in 1..n : SubSeq(s, 1, n)[i] = s[i]
  <2> TAKE i \in 1..n
  <2>1. i \in 1..(n - 1 + 1) /\ 1 + i - 1 = i
    OBVIOUS
  <2> QED
    BY <1>4, <2>1
<1> QED
  BY <1>2, <1>4, <1>5, <1>6 DEF IsSeq

-----------------------------------------------------------------------------
(* Who holds the bodies of methods.                                        *)

Holders(d) == {f \in 1..Len(functions) : functions[f].of = d /\ functions[f].body}

FunctionShapes ==
  /\ IsSeq(functions)
  /\ \A f \in 1..Len(functions) : {"of", "body"} \subseteq DOMAIN functions[f]

\* A Function keeps its origin and its body, whatever is written to its other
\* fields.
LEMMA OtherFields ==
  ASSUME FunctionShapes, NEW k, NEW new,
         functions' = [functions EXCEPT ![k] = new],
         k \in 1..Len(functions) =>
           /\ {"of", "body"} \subseteq DOMAIN new
           /\ new.of = functions[k].of /\ new.body = functions[k].body
  PROVE  FunctionShapes' /\ \A d : Holders(d)' = Holders(d)
<1>1. /\ IsSeq(functions') /\ Len(functions') = Len(functions)
      /\ \A f \in 1..Len(functions) :
           functions'[f] = IF f = k THEN new ELSE functions[f]
  <2>1. PICK S : functions \in Seq(S)
    BY DEF FunctionShapes, IsSeq
  <2>2. Len(functions) \in Nat /\ functions \in [1..Len(functions) -> S]
    BY <2>1, LenProperties
  <2>3. /\ functions' \in [1..Len(functions) -> S \cup {new}]
        /\ \A f \in 1..Len(functions) :
             functions'[f] = IF f = k THEN new ELSE functions[f]
    BY <2>2
  <2> QED
    BY <2>2, <2>3, FunctionIsSeq
<1>2. \A f \in 1..Len(functions) :
        /\ {"of", "body"} \subseteq DOMAIN functions'[f]
        /\ functions'[f].of = functions[f].of /\ functions'[f].body = functions[f].body
  BY <1>1 DEF FunctionShapes
<1> QED
  BY <1>1, <1>2 DEF FunctionShapes, Holders

LEMMA InitHolds == Init => FunctionShapes /\ BodyHeldOnce
<1> SUFFICES ASSUME Init PROVE FunctionShapes /\ BodyHeldOnce
  OBVIOUS
<1> DEFINE literal == [of |-> <<"literal", 0>>, body |-> TRUE, static |-> FALSE,
                       bind |-> "no", routes |-> {}]
<1>1. Literals \in Nat /\ functions = [f \in 1..Literals |-> literal]
  BY DefinitionsAssumption DEF Init
<1>2. functions \in [1..Literals -> {literal}]
  BY <1>1
<1>3. IsSeq(functions) /\ Len(functions) = Literals
  BY <1>1, <1>2, FunctionIsSeq
<1>4. \A f \in 1..Literals :
        functions[f].of = <<"literal", 0>> /\ {"of", "body"} \subseteq DOMAIN functions[f]
  BY <1>1
<1>5. ASSUME NEW d \in Methods PROVE Cardinality(Holders(d)) = 0
  <2>1. d # <<"literal", 0>>
    <3>1. PICK s \in Statements : \E k \in 1..Len(Source[s].methods) : d = <<s, k>>
      BY DEF Methods
    <3>2. PICK k \in 1..Len(Source[s].methods) : d = <<s, k>>
      BY <3>1
    <3>3. k # 0
      BY <3>2, DefinitionsAssumption
    <3> QED
      BY <3>2, <3>3
  <2>2. Holders(d) = {}
    BY <1>3, <1>4, <2>1 DEF Holders
  <2> QED
    BY <2>2, FS_EmptySet
<1>6. taken = {}
  BY DEF Init
<1> QED
  BY <1>3, <1>4, <1>5, <1>6 DEF FunctionShapes, BodyHeldOnce, Holders

\* The Function of a method takes the body if the syntax tree still has it.
LEMMA BeginMethodHolds ==
  ASSUME FunctionShapes, BodyHeldOnce, BeginMethod
  PROVE  FunctionShapes' /\ BodyHeldOnce'
<1> DEFINE method == <<Top.of, Top.member>>
           new == [of |-> method, body |-> method \notin taken,
                   static |-> FALSE, bind |-> "unset", routes |-> {}]
<1>1. functions' = Append(functions, new) /\ taken' = taken \cup {method}
  BY DEF BeginMethod
<1>2. PICK n \in Nat : n = Len(functions)
  BY SeqFacts DEF FunctionShapes
<1>3. new.of = method /\ new.body = (method \notin taken) /\ {"of", "body"} \subseteq DOMAIN new
  OBVIOUS
<1> HIDE DEF new
<1>4. /\ IsSeq(functions') /\ Len(functions') = n + 1
      /\ \A f \in 1..n : functions'[f] = functions[f]
      /\ functions'[n + 1] = new
  BY <1>1, <1>2, AppendOne DEF FunctionShapes
<1>5. FunctionShapes'
  BY <1>2, <1>3, <1>4 DEF FunctionShapes
<1>6. ASSUME NEW d \in Methods
      PROVE  Cardinality(Holders(d)') = IF d \in taken' THEN 1 ELSE 0
  <2>1. Cardinality(Holders(d)) = IF d \in taken THEN 1 ELSE 0
    BY DEF BodyHeldOnce, Holders
  <2>2. CASE d # method \/ method \in taken
    <3>1. ~(new.of = d /\ new.body)
      BY <1>3, <2>2
    <3>2. Holders(d)' = Holders(d)
      BY <1>2, <1>4, <3>1 DEF Holders
    <3>3. d \in taken' <=> d \in taken
      BY <1>1, <2>2
    <3> QED
      BY <2>1, <3>2, <3>3
  <2>3. CASE d = method /\ method \notin taken
    <3>1. IsFiniteSet(Holders(d))
      <4>1. Holders(d) \subseteq 1..n /\ IsFiniteSet(1..n)
        BY <1>2, FS_Interval DEF Holders
      <4> QED
        BY <4>1, FS_Subset
    <3>2. Holders(d) = {}
      BY <2>1, <2>3, <3>1, FS_EmptySet
    <3>3. Holders(d)' = {n + 1}
      <4>1. \A f \in 1..n : ~(functions'[f].of = d /\ functions'[f].body)
        BY <1>2, <1>4, <3>2 DEF Holders
      <4>2. functions'[n + 1].of = d /\ functions'[n + 1].body
        BY <1>3, <1>4, <2>3
      <4>3. Holders(d)' = {f \in 1..(n + 1) : functions'[f].of = d /\ functions'[f].body}
        BY <1>4 DEF Holders
      <4> QED
        BY <4>1, <4>2, <4>3
    <3>4. d \in taken'
      BY <1>1, <2>3
    <3> QED
      BY <3>3, <3>4, FS_Singleton
  <2> QED
    BY <2>2, <2>3
<1> QED
  BY <1>5, <1>6 DEF BodyHeldOnce, Holders

LEMMA StepHolds ==
  ASSUME FunctionShapes, BodyHeldOnce, [Next]_definitionVars
  PROVE  FunctionShapes' /\ BodyHeldOnce'
<1>1. ASSUME UNCHANGED taken, FunctionShapes', \A d : Holders(d)' = Holders(d)
      PROVE  FunctionShapes' /\ BodyHeldOnce'
  BY <1>1 DEF BodyHeldOnce, Holders
<1>2. CASE UNCHANGED <<functions, taken>>
  BY <1>2 DEF FunctionShapes, BodyHeldOnce
<1>3. CASE SetStatic
  <2>1. functions' = [functions EXCEPT ![Top.value[2]] =
                        [functions[Top.value[2]] EXCEPT !.static = TRUE]]
    BY <1>3 DEF SetStatic
  <2>2. FunctionShapes' /\ \A d : Holders(d)' = Holders(d)
    BY <2>1, OtherFields DEF FunctionShapes
  <2> QED
    BY <1>1, <1>3, <2>2 DEF SetStatic
<1>4. CASE AddRoute /\ ~UNCHANGED functions
  <2>1. PICK route :
          functions' = [functions EXCEPT ![Top.value[2]] =
            [functions[Top.value[2]] EXCEPT !.routes = functions[Top.value[2]].routes \cup {route}]]
    BY <1>4 DEF AddRoute
  <2>2. FunctionShapes' /\ \A d : Holders(d)' = Holders(d)
    BY <2>1, OtherFields DEF FunctionShapes
  <2> QED
    BY <1>1, <1>4, <2>2 DEF AddRoute
<1>5. CASE FinishMethod /\ ~UNCHANGED functions
  <2>1. PICK bind :
          functions' = [functions EXCEPT ![Top.value[2]] =
                          [functions[Top.value[2]] EXCEPT !.bind = bind]]
    BY <1>5 DEF FinishMethod
  <2>2. FunctionShapes' /\ \A d : Holders(d)' = Holders(d)
    BY <2>1, OtherFields DEF FunctionShapes
  <2> QED
    BY <1>1, <1>5, <2>2 DEF FinishMethod
<1>6. UNCHANGED taken /\ ~UNCHANGED functions =>
        SetStatic \/ (AddRoute /\ ~UNCHANGED functions)
        \/ (FinishMethod /\ ~UNCHANGED functions) \/ BeginMethod
  BY DEF Next, definitionVars, heap, tables, names, RegisterDecorator, RegisterModifier,
         BeginFunction, BeginClass, BeginStatement, FactoryReturns, DecoratorReturns,
         ModifierReturns, FinishStatement
<1>7. ~UNCHANGED taken => BeginMethod
  BY DEF Next, definitionVars, heap, tables, names, RegisterDecorator, RegisterModifier,
         BeginFunction, BeginClass, BeginStatement, FactoryReturns, DecoratorReturns,
         ModifierReturns, FinishStatement, SetStatic, AddRoute, FinishMethod
<1> QED
  BY <1>2, <1>3, <1>4, <1>5, <1>6, <1>7, BeginMethodHolds

\* One Function, of all that a class statement has made of a method, holds the
\* method's body: it is freed once, whatever the program executes again.
THEOREM OneHolder == Spec => []BodyHeldOnce
<1>1. FunctionShapes /\ BodyHeldOnce /\ [Next]_definitionVars => (FunctionShapes /\ BodyHeldOnce)'
  BY StepHolds
<1> QED
  BY InitHolds, <1>1, PTL DEF Spec
-----------------------------------------------------------------------------
(* Which classes have all of their methods.  The Types are a parameter here, *)
(* so that one state's can be compared with the next one's.                  *)

TypeFields == {"of", "bases", "attributes", "routes"}
DefinitionFields ==
  {"of", "type", "member", "doing", "at", "value", "decorators", "modifiers",
   "private", "known", "log"}

MethodName(s, k) == Source[s].methods[k].name

Complete(ts, t) ==
  \A k \in 1..Len(Source[ts[t].of].methods) :
    ts[t].attributes[MethodName(ts[t].of, k)] # NoValue

\* A value that a script may have: no class that lacks a method.
Made(ts, v) == IsType(v) => v[2] \in 1..Len(ts) /\ Complete(ts, v[2])

WholeTypes(ts) ==
  /\ IsSeq(ts)
  /\ \A t \in 1..Len(ts) :
       /\ DOMAIN ts[t] = TypeFields /\ ts[t].of \in Statements
       /\ DOMAIN ts[t].attributes = MethodNames
       /\ \A i \in 1..Len(ts[t].bases) :
            ts[t].bases[i] \in 1..Len(ts) /\ Complete(ts, ts[t].bases[i])

\* A definition in progress has made the methods before its member.
InProgress(ts, a) ==
  /\ DOMAIN a = DefinitionFields
  /\ a.of \in Statements /\ a.member \in Nat
  /\ Made(ts, a.value) /\ a.value # NoValue
  /\ a.type # 0 =>
       /\ a.type \in 1..Len(ts) /\ ts[a.type].of = a.of
       /\ \A k \in 1..Len(Source[a.of].methods) :
            k < a.member => ts[a.type].attributes[MethodName(a.of, k)] # NoValue

Stack(ts, d) == IsSeq(d) /\ \A i \in 1..Len(d) : InProgress(ts, d[i])

Bound(ts, vs) == DOMAIN vs = Names /\ \A x \in Names : Made(ts, vs[x])

CInv == WholeTypes(types) /\ Bound(types, variables) /\ Stack(types, defining)

\* The Types only grow: in number, and in attributes.
Grown(ts, us) ==
  /\ Len(us) \in Nat /\ Len(ts) \in Nat /\ Len(us) >= Len(ts)
  /\ \A t \in 1..Len(ts) :
       /\ us[t].of = ts[t].of
       /\ \A x \in MethodNames :
            ts[t].attributes[x] # NoValue => us[t].attributes[x] # NoValue

LEMMA NamesOfMethods ==
  ASSUME NEW s \in Statements, NEW k \in 1..Len(Source[s].methods)
  PROVE  MethodName(s, k) \in MethodNames
<1>1. <<s, k>> \in Methods
  BY DEF Methods
<1>2. MethodName(s, k) = Source[<<s, k>>[1]].methods[<<s, k>>[2]].name
  BY DEF MethodName
<1> QED
  BY <1>1, <1>2 DEF MethodNames

LEMMA CompleteStays ==
  ASSUME NEW ts, WholeTypes(ts), NEW us, Grown(ts, us),
         NEW t \in 1..Len(ts), Complete(ts, t)
  PROVE  t \in 1..Len(us) /\ Complete(us, t)
<1>1. t \in 1..Len(us) /\ us[t].of = ts[t].of /\ ts[t].of \in Statements
  BY DEF Grown, WholeTypes
<1>2. ASSUME NEW k \in 1..Len(Source[ts[t].of].methods)
      PROVE  us[t].attributes[MethodName(ts[t].of, k)] # NoValue
  <2>1. MethodName(ts[t].of, k) \in MethodNames
    BY <1>1, NamesOfMethods
  <2>2. ts[t].attributes[MethodName(ts[t].of, k)] # NoValue
    BY DEF Complete
  <2> QED
    BY <2>1, <2>2 DEF Grown
<1> QED
  BY <1>1, <1>2 DEF Complete

LEMMA MadeStays ==
  ASSUME NEW ts, WholeTypes(ts), NEW us, Grown(ts, us), NEW v, Made(ts, v)
  PROVE  Made(us, v)
BY CompleteStays DEF Made

LEMMA ProgressStays ==
  ASSUME NEW ts, WholeTypes(ts), NEW us, Grown(ts, us), NEW a, InProgress(ts, a)
  PROVE  InProgress(us, a)
<1>1. Made(us, a.value)
  BY MadeStays DEF InProgress
<1>2. ASSUME a.type # 0
      PROVE  /\ a.type \in 1..Len(us) /\ us[a.type].of = a.of
             /\ \A k \in 1..Len(Source[a.of].methods) :
                  k < a.member => us[a.type].attributes[MethodName(a.of, k)] # NoValue
  <2>1. a.type \in 1..Len(ts) /\ ts[a.type].of = a.of /\ a.of \in Statements
    BY <1>2 DEF InProgress
  <2>2. a.type \in 1..Len(us) /\ us[a.type].of = a.of
    BY <2>1 DEF Grown
  <2>3. ASSUME NEW k \in 1..Len(Source[a.of].methods), k < a.member
        PROVE  us[a.type].attributes[MethodName(a.of, k)] # NoValue
    <3>1. MethodName(a.of, k) \in MethodNames
      BY <2>1, NamesOfMethods
    <3>2. ts[a.type].attributes[MethodName(a.of, k)] # NoValue
      BY <1>2, <2>3 DEF InProgress
    <3> QED
      BY <2>1, <3>1, <3>2 DEF Grown
  <2> QED
    BY <2>2, <2>3
<1> QED
  BY <1>1, <1>2 DEF InProgress

LEMMA StackStays ==
  ASSUME NEW ts, WholeTypes(ts), NEW us, Grown(ts, us), NEW d, Stack(ts, d)
  PROVE  Stack(us, d)
BY ProgressStays DEF Stack

LEMMA BoundStays ==
  ASSUME NEW ts, WholeTypes(ts), NEW us, Grown(ts, us), NEW vs, Bound(ts, vs)
  PROVE  Bound(us, vs)
BY MadeStays DEF Bound

LEMMA GrownSame ==
  ASSUME NEW ts, WholeTypes(ts)
  PROVE  Grown(ts, ts)
BY SeqFacts DEF WholeTypes, Grown

-----------------------------------------------------------------------------
(* The stack of definitions.                                               *)

LEMMA TopFacts ==
  ASSUME NEW ts, Stack(ts, defining), Depth > 0
  PROVE  InProgress(ts, Top) /\ Depth \in Nat \ {0}
<1>1. Depth \in Nat /\ Depth = Len(defining)
  BY SeqFacts DEF Stack, Depth
<1>2. Depth \in 1..Depth
  BY <1>1
<1> QED
  BY <1>1, <1>2 DEF Stack, Top

LEMMA PushKeeps ==
  ASSUME NEW ts, NEW d, Stack(ts, d), NEW b, InProgress(ts, b)
  PROVE  Stack(ts, Append(d, b))
<1>1. PICK n \in Nat : n = Len(d) /\ IsSeq(d)
  BY SeqFacts DEF Stack
<1>2. /\ IsSeq(Append(d, b)) /\ Len(Append(d, b)) = n + 1
      /\ \A i \in 1..n : Append(d, b)[i] = d[i]
      /\ Append(d, b)[n + 1] = b
  BY <1>1, AppendOne
<1>3. ASSUME NEW i \in 1..(n + 1) PROVE InProgress(ts, Append(d, b)[i])
  <2>1. CASE i = n + 1
    BY <1>2, <2>1
  <2>2. CASE i # n + 1
    <3>1. i \in 1..n
      BY <2>2
    <3> QED
      BY <1>1, <1>2, <3>1 DEF Stack
  <2> QED
    BY <2>1, <2>2
<1> QED
  BY <1>2, <1>3 DEF Stack

LEMMA PopKeeps ==
  ASSUME NEW ts, Stack(ts, defining), Depth > 0
  PROVE  Stack(ts, SubSeq(defining, 1, Depth - 1))
<1>1. PICK n \in Nat \ {0} : n = Depth /\ n = Len(defining)
  BY TopFacts DEF Depth
<1>2. IsSeq(defining)
  BY DEF Stack
<1>3. /\ IsSeq(SubSeq(defining, 1, n - 1)) /\ Len(SubSeq(defining, 1, n - 1)) = n - 1
      /\ \A i \in 1..(n - 1) : SubSeq(defining, 1, n - 1)[i] = defining[i]
  BY <1>1, <1>2, AllButLast
<1>4. 1..(n - 1) \subseteq 1..n
  BY <1>1
<1> QED
  BY <1>1, <1>3, <1>4 DEF Stack

LEMMA ReplaceKeeps ==
  ASSUME NEW ts, Stack(ts, defining), Depth > 0, NEW b, InProgress(ts, b)
  PROVE  Stack(ts, Replace(b))
<1> DEFINE front == SubSeq(defining, 1, Depth - 1)
<1>1. Stack(ts, front)
  BY PopKeeps
<1>2. Stack(ts, Append(front, b))
  BY <1>1, PushKeeps
<1>3. PICK S : front \in Seq(S)
  BY <1>1 DEF Stack, IsSeq
<1>4. front \in Seq(S \cup {b}) /\ b \in S \cup {b}
  BY <1>3, SeqMonotonic
<1>5. Append(front, b) = front \o <<b>>
  BY <1>4, AppendIsConcat
<1> QED
  BY <1>2, <1>5 DEF Replace

-----------------------------------------------------------------------------
(* What the steps of a definition leave of its record.                     *)

Same(a, b) ==
  DOMAIN b = DefinitionFields /\ b.of = a.of /\ b.type = a.type /\ b.member = a.member

LEMMA SameProgress ==
  ASSUME NEW ts, NEW a, InProgress(ts, a), NEW b, Same(a, b),
         Made(ts, b.value), b.value # NoValue
  PROVE  InProgress(ts, b)
BY DEF InProgress, Same

LEMMA ModifierAfterSame ==
  ASSUME NEW a, DOMAIN a = DefinitionFields, NEW i
  PROVE  Same(a, ModifierAfter(a, i)) /\ ModifierAfter(a, i).value = a.value
BY DEF ModifierAfter, Same, DefinitionFields

LEMMA DecoratorBeforeSame ==
  ASSUME NEW a, DOMAIN a = DefinitionFields, NEW i
  PROVE  Same(a, DecoratorBefore(a, i)) /\ DecoratorBefore(a, i).value = a.value
BY ModifierAfterSame DEF DecoratorBefore, Same, DefinitionFields

LEMMA LoggedSame ==
  ASSUME NEW a, DOMAIN a = DefinitionFields, NEW made
  PROVE  Same(a, Logged(a, made)) /\ Logged(a, made).value = made
BY DEF Logged, Same, DefinitionFields

LEMMA AnnotatedSame ==
  ASSUME NEW a, DOMAIN a = DefinitionFields, NEW value
  PROVE  Same(a, Annotated(a, value)) /\ Annotated(a, value).value = value
<1> DEFINE entries == Noted(a)
           start == [a EXCEPT !.value = value, !.private = FALSE, !.log = <<>>,
      !.known = tables,
      !.decorators = [i \in 1..Len(entries) |-> decorators[entries[i].name]],
      !.modifiers = [i \in 1..Len(entries) |-> modifiers[entries[i].name]]]
<1>1. Same(a, start) /\ start.value = value
  BY DEF Same, DefinitionFields
<1>2. Annotated(a, value) = DecoratorBefore(start, Len(entries) + 1)
  BY DEF Annotated
<1> HIDE DEF start
<1>3. DOMAIN start = DefinitionFields
  BY <1>1 DEF Same
<1>4. Same(start, DecoratorBefore(start, Len(entries) + 1))
      /\ DecoratorBefore(start, Len(entries) + 1).value = start.value
  BY <1>3, DecoratorBeforeSame
<1> QED
  BY <1>1, <1>2, <1>4 DEF Same

LEMMA TagMade ==
  ASSUME NEW ts, NEW v, v[1] \in {"function", "undefined"}
  PROVE  Made(ts, v) /\ v # NoValue
BY DEF Made, IsType, NoValue

LEMMA Tags ==
  /\ \A f : FunctionValue(f)[1] = "function" /\ FunctionValue(f) # NoValue
  /\ \A t : TypeValue(t)[1] = "type" /\ TypeValue(t)[2] = t /\ TypeValue(t) # NoValue
  /\ Undefined[1] = "undefined" /\ Undefined # NoValue
BY DEF FunctionValue, TypeValue, Undefined, NoValue

LEMMA AnnotateKeeps ==
  ASSUME NEW ts, Stack(ts, defining), Depth > 0,
         NEW value, Made(ts, value), value # NoValue, Annotate(value)
  PROVE  Stack(ts, defining')
<1>1. InProgress(ts, Top) /\ DOMAIN Top = DefinitionFields
  BY TopFacts DEF InProgress
<1>2. InProgress(ts, Annotated(Top, value))
  BY <1>1, AnnotatedSame, SameProgress
<1>3. Stack(ts, Replace(Annotated(Top, value)))
  BY <1>2, ReplaceKeeps
<1>4. defining' = Replace(Annotated(Top, value)) \/ defining' = defining
  BY DEF Annotate
<1> QED
  BY <1>3, <1>4

-----------------------------------------------------------------------------
(* The steps that make and change Types.                                   *)

LEMMA BegunProgress ==
  ASSUME NEW ts, NEW s \in Statements, NEW t,
         t # 0 => t \in 1..Len(ts) /\ ts[t].of = s
  PROVE  InProgress(ts, Begun(s, t))
<1> DEFINE a == Begun(s, t)
<1>1. /\ DOMAIN a = DefinitionFields /\ a.of = s /\ a.member = 1 /\ a.type = t
      /\ a.value = Undefined
  BY DEF Begun, DefinitionFields
<1>2. Made(ts, a.value) /\ a.value # NoValue
  BY <1>1, Tags, TagMade
<1>3. \A k \in 1..Len(Source[s].methods) : ~(k < 1)
  BY DefinitionsAssumption
<1>4. a.type # 0 =>
        /\ a.type \in 1..Len(ts) /\ ts[a.type].of = a.of
        /\ \A k \in 1..Len(Source[a.of].methods) : ~(k < a.member)
  <2> HIDE DEF a
  <2> QED
    BY <1>1, <1>3
<1>5. a.of \in Statements /\ a.member \in Nat
  <2> HIDE DEF a
  <2> QED
    BY <1>1
<1> HIDE DEF a
<1>6. InProgress(ts, a)
  BY <1>1, <1>2, <1>4, <1>5 DEF InProgress
<1> QED
  BY <1>6 DEF a

\* The Type at k is replaced by one with no fewer attributes.
LEMMA ChangeType ==
  ASSUME WholeTypes(types), NEW k, NEW new, types' = [types EXCEPT ![k] = new],
         k \in 1..Len(types) =>
           /\ DOMAIN new = TypeFields
           /\ new.of = types[k].of /\ new.bases = types[k].bases
           /\ DOMAIN new.attributes = MethodNames
           /\ \A x \in MethodNames :
                types[k].attributes[x] # NoValue => new.attributes[x] # NoValue
  PROVE  WholeTypes(types') /\ Grown(types, types')
<1>1. PICK n \in Nat : n = Len(types)
  BY SeqFacts DEF WholeTypes
<1>2. /\ IsSeq(types') /\ Len(types') = n
      /\ \A t \in 1..n : types'[t] = IF t = k THEN new ELSE types[t]
  <2>1. PICK S : types \in Seq(S)
    BY DEF WholeTypes, IsSeq
  <2>2. types \in [1..n -> S]
    BY <1>1, <2>1, LenProperties
  <2>3. /\ types' \in [1..n -> S \cup {new}]
        /\ \A t \in 1..n : types'[t] = IF t = k THEN new ELSE types[t]
    BY <2>2
  <2> QED
    BY <2>3, FunctionIsSeq
<1>3. \A t \in 1..n :
        /\ DOMAIN types'[t] = TypeFields
        /\ types'[t].of = types[t].of /\ types'[t].bases = types[t].bases
        /\ DOMAIN types'[t].attributes = MethodNames
        /\ \A x \in MethodNames :
             types[t].attributes[x] # NoValue => types'[t].attributes[x] # NoValue
  BY <1>1, <1>2 DEF WholeTypes
<1>4. Grown(types, types')
  BY <1>1, <1>2, <1>3 DEF Grown
<1>5. \A t \in 1..n : \A i \in 1..Len(types[t].bases) :
        types[t].bases[i] \in 1..n /\ Complete(types', types[t].bases[i])
  BY <1>1, <1>4, CompleteStays DEF WholeTypes
<1>6. \A t \in 1..n : types[t].of \in Statements
  BY <1>1 DEF WholeTypes
<1> QED
  BY <1>2, <1>3, <1>4, <1>5, <1>6 DEF WholeTypes

\* The bases that NewType takes from variables are Types that scripts have.
LEMMA NewTypeBases ==
  ASSUME Bound(types, variables), NEW s \in Statements,
         \A i \in 1..Len(BasesOf(s)) : IsType(BasesOf(s)[i]),
         NEW i \in 1..Len(NewType(s).bases)
  PROVE  NewType(s).bases[i] \in 1..Len(types) /\ Complete(types, NewType(s).bases[i])
<1>1. PICK n \in Nat : n = Len(Source[s].bases) /\ Source[s].bases \in [1..n -> Names]
  BY DefinitionsAssumption, LenProperties
<1>2. BasesOf(s) \in [1..n -> {variables[x] : x \in Names}]
  BY <1>1 DEF BasesOf
<1>3. Len(BasesOf(s)) = n
  BY <1>2, FunctionIsSeq
<1> DEFINE targets == [j \in 1..n |-> BasesOf(s)[j][2]]
<1>4. NewType(s).bases = targets
  BY <1>3 DEF NewType
<1>5. targets \in [1..n -> {BasesOf(s)[j][2] : j \in 1..n}]
  OBVIOUS
<1>6. Len(targets) = n
  BY <1>5, FunctionIsSeq
<1>7. i \in 1..n /\ NewType(s).bases[i] = BasesOf(s)[i][2]
  BY <1>4, <1>6
<1>8. IsType(BasesOf(s)[i])
  BY <1>3, <1>7
<1>9. Source[s].bases[i] \in Names /\ BasesOf(s)[i] = variables[Source[s].bases[i]]
  BY <1>1, <1>7 DEF BasesOf
<1>10. Made(types, BasesOf(s)[i])
  BY <1>9 DEF Bound
<1> QED
  BY <1>7, <1>8, <1>10 DEF Made

LEMMA BeginClassKeeps ==
  ASSUME CInv, NEW s \in Statements, BeginClass(s)
  PROVE  CInv'
<1>1. WholeTypes(types) /\ Bound(types, variables) /\ Stack(types, defining)
  BY DEF CInv
<1>2. UNCHANGED variables
  BY DEF BeginClass, names
<1>3. CASE UNCHANGED <<types, defining>>
  BY <1>1, <1>2, <1>3 DEF CInv
<1>4. CASE /\ \A i \in 1..Len(BasesOf(s)) : IsType(BasesOf(s)[i])
           /\ types' = Append(types, NewType(s))
           /\ defining' = Append(defining, Begun(s, Len(types) + 1))
  <2>1. PICK n \in Nat : n = Len(types)
    BY <1>1, SeqFacts DEF WholeTypes
  <2>2. PICK new : new = NewType(s)
    OBVIOUS
  <2>3. /\ DOMAIN new = TypeFields /\ new.of = s /\ DOMAIN new.attributes = MethodNames
        /\ \A i \in 1..Len(new.bases) :
             new.bases[i] \in 1..n /\ Complete(types, new.bases[i])
    <3>1. /\ DOMAIN new = TypeFields /\ new.of = s
          /\ DOMAIN new.attributes = MethodNames
      BY <2>2 DEF NewType, TypeFields
    <3>2. \A i \in 1..Len(new.bases) :
             new.bases[i] \in 1..n /\ Complete(types, new.bases[i])
      BY <1>1, <1>4, <2>1, <2>2, NewTypeBases
    <3> QED
      BY <3>1, <3>2
  <2>4. /\ IsSeq(types') /\ Len(types') = n + 1
        /\ \A t \in 1..n : types'[t] = types[t]
        /\ types'[n + 1] = new
    <3>1. types' = Append(types, new) /\ IsSeq(types)
      BY <1>1, <1>4, <2>2 DEF WholeTypes
    <3> QED
      BY <2>1, <3>1, AppendOne
  <2>5. Grown(types, types')
    BY <2>1, <2>4 DEF Grown
  <2>6. WholeTypes(types')
    <3>1. ASSUME NEW t \in 1..(n + 1)
          PROVE  /\ DOMAIN types'[t] = TypeFields /\ types'[t].of \in Statements
                 /\ DOMAIN types'[t].attributes = MethodNames
                 /\ \A i \in 1..Len(types'[t].bases) :
                      /\ types'[t].bases[i] \in 1..n
                      /\ Complete(types, types'[t].bases[i])
      <4>1. CASE t = n + 1
        BY <2>3, <2>4, <4>1
      <4>2. CASE t # n + 1
        <5>1. t \in 1..n
          BY <4>2
        <5> QED
          BY <1>1, <2>1, <2>4, <5>1 DEF WholeTypes
      <4> QED
        BY <4>1, <4>2
    <3>2. \A t \in 1..n : Complete(types, t) => Complete(types', t)
      BY <1>1, <2>1, <2>5, CompleteStays
    <3>3. 1..n \subseteq 1..(n + 1)
      OBVIOUS
    <3> QED
      BY <2>4, <3>1, <3>2, <3>3 DEF WholeTypes
  <2>7. Stack(types', defining')
    <3>1. Stack(types', defining)
      BY <1>1, <2>5, StackStays
    <3>2. n + 1 \in 1..Len(types') /\ types'[n + 1].of = s
      BY <2>3, <2>4
    <3>3. InProgress(types', Begun(s, n + 1))
      BY <3>2, BegunProgress
    <3>4. defining' = Append(defining, Begun(s, n + 1))
      BY <1>4, <2>1
    <3> QED
      BY <3>1, <3>3, <3>4, PushKeeps
  <2>8. Bound(types', variables')
    BY <1>1, <1>2, <2>5, BoundStays
  <2> QED
    BY <2>6, <2>7, <2>8 DEF CInv
<1> QED
  BY <1>3, <1>4 DEF BeginClass

\* Actions that leave the Types and the variables alone.
LEMMA OnlyStack ==
  ASSUME CInv, UNCHANGED <<types, variables>>, Stack(types, defining')
  PROVE  CInv'
BY DEF CInv

LEMMA BeginStatementKeeps ==
  ASSUME CInv, BeginStatement
  PROVE  CInv'
<1>1. Stack(types, defining) /\ Depth > 0 /\ ~InMethod(Top)
  BY DEF CInv, BeginStatement
<1> DEFINE value == IF Top.type = 0 THEN FunctionValue(Source[Top.of].literal)
                    ELSE TypeValue(Top.type)
<1>2. InProgress(types, Top)
  BY <1>1, TopFacts
<1>3. Made(types, value) /\ value # NoValue
  <2>1. CASE Top.type = 0
    BY <2>1, Tags, TagMade
  <2>2. CASE Top.type # 0
    <3>1. value = TypeValue(Top.type)
      BY <2>2
    <3>2. /\ Top.type \in 1..Len(types) /\ types[Top.type].of = Top.of
          /\ Top.member \in Nat /\ Len(Source[Top.of].methods) \in Nat
          /\ \A k \in 1..Len(Source[Top.of].methods) :
               k < Top.member =>
                 types[Top.type].attributes[MethodName(Top.of, k)] # NoValue
      BY <1>2, <2>2, DefinitionsAssumption DEF InProgress
    <3>3. \A k \in 1..Len(Source[Top.of].methods) : k < Top.member
      BY <1>1, <3>2 DEF InMethod
    <3>4. Complete(types, Top.type)
      BY <3>2, <3>3 DEF Complete
    <3> QED
      BY <3>1, <3>2, <3>4, Tags DEF Made
  <2> QED
    BY <2>1, <2>2
<1>4. Annotate(value) /\ UNCHANGED <<types, variables>>
  BY DEF BeginStatement, heap, names
<1> HIDE DEF value
<1> QED
  BY <1>1, <1>3, <1>4, AnnotateKeeps, OnlyStack

\* What a handler returns goes on with the same definition.
LEMMA ReturnsKeep ==
  ASSUME CInv, Depth > 0, UNCHANGED <<types, variables>>,
         NEW b, Same(Top, b), Made(types, b.value), b.value # NoValue,
         defining' = Replace(b)
  PROVE  CInv'
<1>1. Stack(types, defining) /\ InProgress(types, Top)
  BY TopFacts DEF CInv
<1>2. InProgress(types, b)
  BY <1>1, SameProgress
<1> QED
  BY <1>1, <1>2, ReplaceKeeps, OnlyStack

LEMMA HandlerReturnsKeeps ==
  ASSUME CInv,
         \/ \E b \in BOOLEAN : FactoryReturns(b) \/ ModifierReturns(b)
         \/ \E v \in Returned : DecoratorReturns(v)
  PROVE  CInv'
<1>1. /\ Depth > 0 /\ UNCHANGED <<types, variables>>
  BY DEF FactoryReturns, ModifierReturns, DecoratorReturns, heap, names
<1>2. Stack(types, defining)
  BY DEF CInv
<1>3. /\ DOMAIN Top = DefinitionFields
      /\ Made(types, Top.value) /\ Top.value # NoValue
  BY <1>1, <1>2, TopFacts DEF InProgress
<1>4. CASE \E b \in BOOLEAN : FactoryReturns(b)
  <2> DEFINE next == [Logged(Top, Top.value) EXCEPT !.doing = "decorate"]
  <2>1. Same(Top, next) /\ next.value = Top.value
    BY <1>3, LoggedSame DEF Same, DefinitionFields
  <2>2. defining' = Replace(next) \/ UNCHANGED defining
    BY <1>4 DEF FactoryReturns
  <2> HIDE DEF next
  <2> QED
    BY <1>1, <1>2, <1>3, <2>1, <2>2, ReturnsKeep, OnlyStack
<1>5. ASSUME NEW b \in BOOLEAN, ModifierReturns(b) PROVE CInv'
  <2> DEFINE seen == [Logged(Top, Top.value) EXCEPT !.private = @ \/ b]
  <2>1. Same(Top, seen) /\ seen.value = Top.value
    BY <1>3, LoggedSame DEF Same, DefinitionFields
  <2>2. defining' = Replace(ModifierAfter(seen, Top.at))
    BY <1>5 DEF ModifierReturns
  <2> HIDE DEF seen
  <2>3. /\ Same(Top, ModifierAfter(seen, Top.at))
        /\ ModifierAfter(seen, Top.at).value = Top.value
    BY <2>1, ModifierAfterSame DEF Same
  <2> QED
    BY <1>1, <1>3, <2>2, <2>3, ReturnsKeep
<1>6. ASSUME NEW v \in Returned, DecoratorReturns(v) PROVE CInv'
  <2>1. Made(types, v) /\ v # NoValue
    BY <1>3, Tags, TagMade DEF Returned
  <2>2. Same(Top, Logged(Top, v)) /\ Logged(Top, v).value = v
    BY <1>3, LoggedSame
  <2>3. defining' = Replace(DecoratorBefore(Logged(Top, v), Top.at))
    BY <1>6 DEF DecoratorReturns
  <2>4. /\ Same(Top, DecoratorBefore(Logged(Top, v), Top.at))
        /\ DecoratorBefore(Logged(Top, v), Top.at).value = v
    BY <2>2, DecoratorBeforeSame DEF Same
  <2> QED
    BY <1>1, <2>1, <2>3, <2>4, ReturnsKeep
<1> QED
  BY <1>4, <1>5, <1>6

LEMMA AddRouteKeeps ==
  ASSUME CInv, AddRoute
  PROVE  CInv'
<1>1. WholeTypes(types) /\ Bound(types, variables) /\ Stack(types, defining)
  BY DEF CInv
<1>2. UNCHANGED <<variables, defining>>
  BY DEF AddRoute, names
<1>3. CASE UNCHANGED types
  BY <1>1, <1>2, <1>3 DEF CInv
<1>4. CASE ~UNCHANGED types
  <2>1. PICK t, routes :
          types' = [types EXCEPT ![t] = [types[t] EXCEPT !.routes = routes]]
    BY <1>4 DEF AddRoute
  <2>2. PICK new : new = [types[t] EXCEPT !.routes = routes]
    OBVIOUS
  <2>3. t \in 1..Len(types) =>
          /\ DOMAIN new = TypeFields
          /\ new.of = types[t].of /\ new.bases = types[t].bases
          /\ new.attributes = types[t].attributes
          /\ DOMAIN types[t].attributes = MethodNames
    BY <1>1, <2>2 DEF WholeTypes, TypeFields
  <2>4. types' = [types EXCEPT ![t] = new]
    BY <2>1, <2>2
  <2>5. WholeTypes(types') /\ Grown(types, types')
    BY <1>1, <2>3, <2>4, ChangeType
  <2> QED
    BY <1>1, <1>2, <2>5, StackStays, BoundStays DEF CInv
<1> QED
  BY <1>3, <1>4

\* The class gets the attribute, and the definition goes on behind it.
LEMMA FinishMethodKeeps ==
  ASSUME CInv, FinishMethod
  PROVE  CInv'
<1>1. /\ WholeTypes(types) /\ Bound(types, variables) /\ Stack(types, defining)
      /\ Depth > 0 /\ InMethod(Top)
  BY DEF CInv, FinishMethod
<1>2. InProgress(types, Top)
  BY <1>1, TopFacts
<1>3. PICK a : a = Top
  OBVIOUS
<1>4. /\ DOMAIN a = DefinitionFields /\ a.of \in Statements /\ a.value # NoValue
      /\ a.member \in Nat /\ Len(Source[a.of].methods) \in Nat
      /\ Made(types, a.value)
      /\ a.type # 0 =>
           /\ a.type \in 1..Len(types) /\ types[a.type].of = a.of
           /\ \A k \in 1..Len(Source[a.of].methods) :
                k < a.member =>
                  types[a.type].attributes[MethodName(a.of, k)] # NoValue
  BY <1>2, <1>3, DefinitionsAssumption DEF InProgress
<1>5. PICK x, routes :
        /\ x = MethodName(a.of, a.member)
        /\ types' = [types EXCEPT ![a.type] =
             [types[a.type] EXCEPT
                !.attributes = [types[a.type].attributes EXCEPT ![x] = a.value],
                !.routes = routes]]
  BY <1>3 DEF FinishMethod, Method, MethodName
<1>6. PICK attributes : attributes = [types[a.type].attributes EXCEPT ![x] = a.value]
  OBVIOUS
<1>7. PICK new :
        new = [types[a.type] EXCEPT !.attributes = attributes, !.routes = routes]
  OBVIOUS
<1>8. a.type \in 1..Len(types) =>
        /\ DOMAIN attributes = MethodNames
        /\ \A y \in MethodNames :
             attributes[y] = IF y = x THEN a.value ELSE types[a.type].attributes[y]
  BY <1>1, <1>6 DEF WholeTypes
<1>9. a.type \in 1..Len(types) =>
        /\ DOMAIN new = TypeFields
        /\ new.of = types[a.type].of /\ new.bases = types[a.type].bases
        /\ new.attributes = attributes
  BY <1>1, <1>7 DEF WholeTypes, TypeFields
<1>10. types' = [types EXCEPT ![a.type] = new]
  BY <1>5, <1>6, <1>7
<1>11. WholeTypes(types') /\ Grown(types, types')
  BY <1>1, <1>4, <1>8, <1>9, <1>10, ChangeType
<1>12. Stack(types', defining) /\ Bound(types', variables)
  BY <1>1, <1>11, StackStays, BoundStays
<1>13. PICK next : next = NextMember(a)
  OBVIOUS
<1>14. /\ DOMAIN next = DefinitionFields /\ next.of = a.of /\ next.type = a.type
       /\ next.member = a.member + 1 /\ next.value = Undefined
  BY <1>4, <1>13 DEF NextMember, DefinitionFields
<1>15. InProgress(types', next)
  <2>1. Made(types', next.value) /\ next.value # NoValue
    BY <1>14, Tags, TagMade
  <2>2. ASSUME a.type # 0
        PROVE  /\ a.type \in 1..Len(types') /\ types'[a.type].of = a.of
               /\ \A k \in 1..Len(Source[a.of].methods) :
                    k < a.member + 1 =>
                      types'[a.type].attributes[MethodName(a.of, k)] # NoValue
    <3>1. a.type \in 1..Len(types)
      BY <1>4, <2>2
    <3>2. a.type \in 1..Len(types') /\ types'[a.type].of = a.of
      BY <1>4, <1>11, <3>1, <2>2 DEF Grown
    <3>3. types'[a.type] = new
      <4>1. PICK S : types \in Seq(S)
        BY <1>1 DEF WholeTypes, IsSeq
      <4>2. DOMAIN types = 1..Len(types)
        BY <4>1, LenProperties
      <4> QED
        BY <1>10, <3>1, <4>2
    <3>4. ASSUME NEW k \in 1..Len(Source[a.of].methods), k < a.member + 1
          PROVE  new.attributes[MethodName(a.of, k)] # NoValue
      <4>1. MethodName(a.of, k) \in MethodNames
        BY <1>4, NamesOfMethods
      <4>2. CASE k = a.member
        BY <1>4, <1>5, <1>8, <1>9, <3>1, <4>1, <4>2
      <4>3. CASE k # a.member
        <5>1. k < a.member
          BY <1>4, <3>4, <4>3
        <5>2. types[a.type].attributes[MethodName(a.of, k)] # NoValue
          BY <1>4, <2>2, <5>1
        <5> QED
          BY <1>4, <1>8, <1>9, <3>1, <4>1, <5>2
      <4> QED
        BY <4>2, <4>3
    <3> QED
      BY <3>2, <3>3, <3>4
  <2> QED
    BY <1>4, <1>14, <2>1, <2>2 DEF InProgress
<1>16. defining' = Replace(next) /\ UNCHANGED variables
  BY <1>3, <1>13 DEF FinishMethod, names
<1>17. Stack(types', defining')
  BY <1>1, <1>12, <1>15, <1>16, ReplaceKeeps
<1> QED
  BY <1>11, <1>12, <1>16, <1>17 DEF CInv

LEMMA FinishStatementKeeps ==
  ASSUME CInv, FinishStatement
  PROVE  CInv'
<1>1. /\ WholeTypes(types) /\ Bound(types, variables) /\ Stack(types, defining)
      /\ Depth > 0
  BY DEF CInv, FinishStatement
<1>2. Made(types, Top.value)
  BY <1>1, TopFacts DEF InProgress
<1>3. /\ variables' = [variables EXCEPT ![Source[Top.of].name] = Top.value]
      /\ defining' = SubSeq(defining, 1, Depth - 1) /\ UNCHANGED types
  BY DEF FinishStatement, heap
<1>4. Bound(types, variables')
  <2>1. DOMAIN variables' = Names
    BY <1>1, <1>3 DEF Bound
  <2>2. ASSUME NEW x \in Names PROVE Made(types, variables'[x])
    <3>1. variables'[x] = Top.value \/ variables'[x] = variables[x]
      BY <1>1, <1>3 DEF Bound
    <3> QED
      BY <1>1, <1>2, <3>1 DEF Bound
  <2> QED
    BY <2>1, <2>2 DEF Bound
<1> QED
  BY <1>1, <1>3, <1>4, PopKeeps DEF CInv

LEMMA InitWhole == Init => CInv
<1> SUFFICES ASSUME Init PROVE CInv
  OBVIOUS
<1>1. IsSeq(<<>>) /\ Len(<<>>) = 0
  BY EmptySeq DEF IsSeq
<1>2. types = <<>> /\ defining = <<>> /\ variables = [x \in Names |-> NoValue]
  BY DEF Init
<1>3. WholeTypes(types) /\ Stack(types, defining)
  BY <1>1, <1>2 DEF WholeTypes, Stack
<1>4. Bound(types, variables)
  BY <1>2 DEF Bound, Made, IsType, NoValue
<1> QED
  BY <1>3, <1>4 DEF CInv

LEMMA StepWhole ==
  ASSUME CInv, [Next]_definitionVars
  PROVE  CInv'
<1>1. CASE UNCHANGED <<types, variables, defining>>
  BY <1>1 DEF CInv
<1>2. ASSUME NEW s \in Statements, BeginFunction(s) PROVE CInv'
  <2>1. InProgress(types, Begun(s, 0)) /\ Stack(types, defining)
    BY BegunProgress DEF CInv
  <2>2. defining' = Append(defining, Begun(s, 0)) /\ UNCHANGED <<types, variables>>
    BY <1>2 DEF BeginFunction, heap, names
  <2> QED
    BY <2>1, <2>2, PushKeeps, OnlyStack
<1>3. CASE BeginMethod
  <2>1. /\ Stack(types, defining) /\ Depth > 0
        /\ Annotate(FunctionValue(Len(functions) + 1)) /\ UNCHANGED <<types, variables>>
    BY <1>3 DEF CInv, BeginMethod, names
  <2> QED
    BY <2>1, Tags, TagMade, AnnotateKeeps, OnlyStack
<1>4. SetStatic \/ (\E x \in Annotations, h \in Handlers :
                      RegisterDecorator(x, h) \/ RegisterModifier(x, h))
        => UNCHANGED <<types, variables, defining>>
  BY DEF SetStatic, RegisterDecorator, RegisterModifier, heap, names
<1>5. UNCHANGED definitionVars => UNCHANGED <<types, variables, defining>>
  BY DEF definitionVars
<1> QED
  BY <1>1, <1>2, <1>3, <1>4, <1>5, BeginClassKeeps, BeginStatementKeeps,
     HandlerReturnsKeeps, AddRouteKeeps, FinishMethodKeeps, FinishStatementKeeps
  DEF Next

\* No script ever gets at a class before its last method is there, not even
\* from the decorators of its own methods, and its bases are whole as well.
THEOREM WholeClasses == Spec => []SeenTypesAreComplete
<1>1. ASSUME CInv PROVE SeenTypesAreComplete
  <2> DEFINE direct ==
        {t \in 1..Len(types) :
           \/ \E x \in Names : variables[x] = TypeValue(t)
           \/ \E i \in 1..Depth : defining[i].doing \in Calling
                                  /\ defining[i].value = TypeValue(t)}
  <2>1. ASSUME NEW v, Made(types, v), NEW t, v = TypeValue(t)
        PROVE  t \in 1..Len(types) /\ Complete(types, t)
    BY <2>1, Tags DEF Made, IsType
  <2>2. ASSUME NEW t \in direct PROVE t \in 1..Len(types) /\ Complete(types, t)
    <3>1. \A x \in Names : Made(types, variables[x])
      BY <1>1 DEF CInv, Bound
    <3>2. \A i \in 1..Depth : Made(types, defining[i].value)
      BY <1>1 DEF CInv, Stack, InProgress, Depth
    <3> QED
      BY <2>1, <3>1, <3>2
  <2>3. ASSUME NEW t \in direct, NEW i \in 1..Len(types[t].bases)
        PROVE  Complete(types, types[t].bases[i])
    BY <1>1, <2>2 DEF CInv, WholeTypes
  <2>4. Seen = direct \cup UNION {{types[t].bases[i] : i \in 1..Len(types[t].bases)}
                                   : t \in direct}
    BY DEF Seen
  <2> HIDE DEF direct
  <2>5. \A t \in Seen : Complete(types, t)
    BY <2>2, <2>3, <2>4
  <2> QED
    BY <2>5 DEF SeenTypesAreComplete, Complete, MethodName
<1>2. CInv /\ [Next]_definitionVars => CInv'
  BY StepWhole
<1> QED
  BY InitWhole, <1>1, <1>2, PTL DEF Spec

-----------------------------------------------------------------------------
(* The order in which annotations are applied.                             *)

Less == {p \in Nat \X Nat : p[1] < p[2]}

LEMMA LessIsWellFounded == IsWellFoundedOn(Less, Nat)
<1>1. OpToRel(<, Nat) = Less
  BY DEF OpToRel, Less
<1> QED
  BY <1>1, NatLessThanWellFounded

LEMMA LeastNumber ==
  ASSUME NEW S \in SUBSET Nat, S # {}
  PROVE  Min(S) \in S /\ \A k \in S : Min(S) <= k
<1>1. PICK m \in S : \A k \in S : ~(<<k, m>> \in Less)
  BY LessIsWellFounded, WFMin
<1>2. ASSUME NEW k \in S PROVE m <= k
  <2>1. <<k, m>> \in Nat \X Nat /\ ~(<<k, m>> \in Less)
    BY <1>1
  <2> QED
    BY <2>1 DEF Less
<1> QED
  BY <1>2 DEF Min

LEMMA GreatestNumber ==
  ASSUME NEW n \in Nat, NEW S \in SUBSET (1..n), S # {}
  PROVE  Max(S) \in S /\ \A k \in S : Max(S) >= k
<1> DEFINE T == {n - k : k \in S}
<1>1. T \in SUBSET Nat /\ T # {}
  <2>1. ASSUME NEW k \in S PROVE n - k \in Nat
    <3>1. k \in 1..n
      OBVIOUS
    <3> QED
      BY <3>1
  <2> QED
    BY <2>1
<1>2. PICK t \in T : \A x \in T : t <= x
  BY <1>1, LeastNumber
<1>3. PICK m \in S : t = n - m
  BY <1>2
<1>4. ASSUME NEW k \in S PROVE m >= k
  <2>1. k \in 1..n /\ m \in 1..n /\ n - k \in T
    OBVIOUS
  <2>2. n - m <= n - k
    BY <1>2, <1>3, <2>1
  <2> QED
    BY <2>1, <2>2
<1> QED
  BY <1>4 DEF Max

\* A definition in progress that has annotations.
Annotates(a) ==
  DOMAIN a = DefinitionFields /\ a.of \in Statements /\ a.member \in Nat \ {0}

Calls(a) == {a.log[j].call : j \in 1..Len(a.log)}

\* What has been called so far was asked for, in order, each on what the one
\* before it made.
LogFits(a) ==
  /\ IsSeq(a.log)
  /\ \A j \in 1..Len(a.log) :
       a.log[j].call \in Asked(a) /\ a.log[j].by = HandlerOf(a, a.log[j].call)
  /\ \A j, k \in 1..Len(a.log) : j < k => Precedes(a.log[j].call, a.log[k].call)
  /\ \A j \in 2..Len(a.log) : a.log[j].given = a.log[j - 1].made
  /\ Len(a.log) # 0 => a.value = a.log[Len(a.log)].made

\* The handlers are those of the tables when the definition began.
HandlersFit(a) ==
  /\ a.decorators = [i \in 1..Len(Noted(a)) |-> a.known[1][Noted(a)[i].name]]
  /\ a.modifiers = [i \in 1..Len(Noted(a)) |-> a.known[2][Noted(a)[i].name]]

\* The call being made is the first of those asked for that is not in the log.
PlaceFits(a) ==
  /\ a.doing \in Calling \cup {"finish"}
  /\ a.doing = "finish" => Asked(a) \subseteq Calls(a)
  /\ a.doing \in Calling =>
       /\ <<a.doing, a.at>> \in Asked(a)
       /\ \A c \in Asked(a) : c \in Calls(a) <=> Precedes(c, <<a.doing, a.at>>)

InOrder(a) == a.doing # "member" => HandlersFit(a) /\ LogFits(a) /\ PlaceFits(a)

LEMMA NotedFacts ==
  ASSUME NEW a, Annotates(a)
  PROVE  Len(Noted(a)) \in Nat
<1>1. /\ a.of \in Statements /\ a.member \in Nat \ {0}
      /\ Source[a.of].annotations \in Seq(Entries) /\ Len(Source[a.of].methods) \in Nat
      /\ \A k \in 1..Len(Source[a.of].methods) :
           Source[a.of].methods[k].annotations \in Seq(Entries)
  BY DefinitionsAssumption DEF Annotates
<1>2. InMethod(a) => Method(a).annotations \in Seq(Entries)
  BY <1>1 DEF InMethod, Method
<1>3. Noted(a) \in Seq(Entries)
  BY <1>1, <1>2 DEF Noted
<1> QED
  BY <1>3, LenProperties

LEMMA AskedFacts ==
  ASSUME NEW a, Annotates(a), HandlersFit(a), NEW n \in Nat, n = Len(Noted(a))
  PROVE  /\ \A c \in Asked(a) :
              /\ c[1] \in Calling /\ c[2] \in 1..n /\ c = <<c[1], c[2]>>
              /\ c[1] = "modify" => a.modifiers[c[2]] # NoHandler
              /\ c[1] # "modify" => a.decorators[c[2]] # NoHandler
              /\ c[1] = "factory" => Noted(a)[c[2]].call
         /\ \A i \in 1..n :
              /\ a.modifiers[i] = HandlerOf(a, <<"modify", i>>)
              /\ a.decorators[i] = HandlerOf(a, <<"decorate", i>>)
              /\ a.decorators[i] = HandlerOf(a, <<"factory", i>>)
              /\ a.modifiers[i] # NoHandler => <<"modify", i>> \in Asked(a)
              /\ a.decorators[i] # NoHandler =>
                   /\ <<"decorate", i>> \in Asked(a)
                   /\ Noted(a)[i].call => <<"factory", i>> \in Asked(a)
<1>1. ASSUME NEW i \in 1..n
      PROVE  /\ a.modifiers[i] = HandlerOf(a, <<"modify", i>>)
             /\ a.decorators[i] = HandlerOf(a, <<"decorate", i>>)
             /\ a.decorators[i] = HandlerOf(a, <<"factory", i>>)
  BY DEF HandlersFit, HandlerOf
<1>2. ASSUME NEW i \in 1..n
      PROVE  /\ a.modifiers[i] # NoHandler => <<"modify", i>> \in Asked(a)
             /\ a.decorators[i] # NoHandler =>
                  /\ <<"decorate", i>> \in Asked(a)
                  /\ Noted(a)[i].call => <<"factory", i>> \in Asked(a)
  <2>1. \A doing \in Calling :
          /\ <<doing, i>> \in Calling \X (1..Len(Noted(a)))
          /\ <<doing, i>>[1] = doing /\ <<doing, i>>[2] = i
    OBVIOUS
  <2>2. \A doing \in Calling :
          HandlerOf(a, <<doing, i>>) # NoHandler /\ (doing = "factory" => Noted(a)[i].call)
            => <<doing, i>> \in Asked(a)
    BY <2>1 DEF Asked
  <2> QED
    BY <1>1, <2>2 DEF Calling
<1>3. ASSUME NEW c \in Asked(a)
      PROVE  /\ c[1] \in Calling /\ c[2] \in 1..n /\ c = <<c[1], c[2]>>
             /\ c[1] = "modify" => a.modifiers[c[2]] # NoHandler
             /\ c[1] # "modify" => a.decorators[c[2]] # NoHandler
             /\ c[1] = "factory" => Noted(a)[c[2]].call
  <2>1. /\ c \in Calling \X (1..n) /\ HandlerOf(a, c) # NoHandler
        /\ c[1] = "factory" => Noted(a)[c[2]].call
    BY DEF Asked
  <2>2. PICK doing \in Calling, i \in 1..n : c = <<doing, i>>
    BY <2>1
  <2> QED
    BY <1>1, <2>1, <2>2 DEF Calling
<1> QED
  BY <1>1, <1>2, <1>3

\* What is asked of a definition depends on the place and on the tables only.
Like(a, b) ==
  /\ DOMAIN b = DefinitionFields /\ b.of = a.of /\ b.member = a.member /\ b.known = a.known
  /\ b.decorators = a.decorators /\ b.modifiers = a.modifiers

LEMMA LikeAsks ==
  ASSUME NEW a, Annotates(a), NEW b, Like(a, b)
  PROVE  /\ Annotates(b) /\ Noted(b) = Noted(a) /\ Asked(b) = Asked(a)
         /\ \A c : HandlerOf(b, c) = HandlerOf(a, c)
         /\ HandlersFit(a) => HandlersFit(b)
<1>1. b.of = a.of /\ b.member = a.member /\ b.known = a.known
  BY DEF Like
<1>2. Annotates(b)
  BY <1>1 DEF Like, Annotates
<1>3. Noted(b) = Noted(a)
  BY <1>1 DEF Noted, InMethod, Method
<1>4. \A c : HandlerOf(b, c) = HandlerOf(a, c)
  BY <1>1, <1>3 DEF HandlerOf
<1>5. Asked(b) = Asked(a)
  BY <1>3, <1>4 DEF Asked
<1>6. HandlersFit(a) => HandlersFit(b)
  BY <1>1, <1>3 DEF HandlersFit, Like
<1> QED
  BY <1>2, <1>3, <1>4, <1>5, <1>6

\* The call that is made next has no part in what has been called.
LEMMA MovedFits ==
  ASSUME NEW a, Annotates(a), HandlersFit(a), LogFits(a),
         NEW b, Like(a, b), b.log = a.log, b.value = a.value
  PROVE  HandlersFit(b) /\ LogFits(b) /\ Asked(b) = Asked(a) /\ Calls(b) = Calls(a)
<1>1. /\ Asked(b) = Asked(a) /\ HandlersFit(b)
      /\ \A c : HandlerOf(b, c) = HandlerOf(a, c)
  BY LikeAsks
<1>2. Calls(b) = Calls(a)
  BY DEF Calls
<1>3. LogFits(b)
  BY <1>1 DEF LogFits
<1> QED
  BY <1>1, <1>2, <1>3

\* After the modifiers up to the i-th entry comes the next one.
LEMMA ModifierAfterFits ==
  ASSUME NEW a, Annotates(a), HandlersFit(a), LogFits(a), NEW i \in Nat,
         \A c \in Asked(a) : c \in Calls(a) <=> c[1] # "modify" \/ c[2] <= i
  PROVE  InOrder(ModifierAfter(a, i))
<1> DEFINE rest == {j \in (i + 1)..Len(a.modifiers) : a.modifiers[j] # NoHandler}
<1>1. PICK n \in Nat : n = Len(Noted(a))
  BY NotedFacts
<1>2. Len(a.modifiers) = n /\ DOMAIN a = DefinitionFields
  BY <1>1 DEF HandlersFit, Annotates
<1>3. CASE rest = {}
  <2>1. PICK b : b = [a EXCEPT !.doing = "finish"]
    OBVIOUS
  <2>2. ModifierAfter(a, i) = b
    BY <1>3, <2>1 DEF ModifierAfter
  <2>3. Like(a, b) /\ b.log = a.log /\ b.value = a.value /\ b.doing = "finish"
    BY <1>2, <2>1 DEF Like, DefinitionFields
  <2>4. HandlersFit(b) /\ LogFits(b) /\ Asked(b) = Asked(a) /\ Calls(b) = Calls(a)
    BY <2>3, MovedFits
  <2>5. ASSUME NEW c \in Asked(a) PROVE c \in Calls(a)
    <3>1. c[2] \in 1..n /\ (c[1] = "modify" => a.modifiers[c[2]] # NoHandler)
      BY <1>1, AskedFacts
    <3>2. c[1] = "modify" => c[2] \notin (i + 1)..n
      BY <1>2, <1>3, <3>1
    <3>3. c[1] = "modify" => c[2] <= i
      BY <3>1, <3>2
    <3> QED
      BY <3>3
  <2>6. PlaceFits(b)
    BY <2>3, <2>4, <2>5 DEF PlaceFits, Calling
  <2> QED
    BY <2>2, <2>4, <2>6 DEF InOrder
<1>4. CASE rest # {}
  <2>1. PICK m : m = Min(rest)
    OBVIOUS
  <2>2. m \in rest /\ \A k \in rest : m <= k
    <3>1. rest \in SUBSET Nat
      BY <1>2
    <3> HIDE DEF rest
    <3> QED
      BY <1>4, <2>1, <3>1, LeastNumber
  <2>3. PICK b : b = [a EXCEPT !.doing = "modify", !.at = m]
    OBVIOUS
  <2>4. ModifierAfter(a, i) = b
    BY <1>4, <2>1, <2>3 DEF ModifierAfter
  <2>5. /\ Like(a, b) /\ b.log = a.log /\ b.value = a.value
        /\ b.doing = "modify" /\ b.at = m
    BY <1>2, <2>3 DEF Like, DefinitionFields
  <2>6. HandlersFit(b) /\ LogFits(b) /\ Asked(b) = Asked(a) /\ Calls(b) = Calls(a)
    BY <2>5, MovedFits
  <2>7. m \in 1..n /\ m > i /\ a.modifiers[m] # NoHandler
    BY <1>2, <2>2
  <2>8. <<"modify", m>> \in Asked(a)
    BY <1>1, <2>7, AskedFacts
  <2>9. ASSUME NEW c \in Asked(a) PROVE c \in Calls(a) <=> Precedes(c, <<"modify", m>>)
    <3>1. c[2] \in 1..n /\ (c[1] = "modify" => a.modifiers[c[2]] # NoHandler)
      BY <1>1, AskedFacts
    <3>2. c[1] = "modify" /\ c[2] > i => c[2] \in rest
      BY <1>2, <3>1
    <3>3. c[1] = "modify" => (c[2] <= i <=> c[2] < m)
      BY <2>2, <2>7, <3>1, <3>2
    <3> QED
      BY <3>3 DEF Precedes
  <2>10. PlaceFits(b)
    BY <2>5, <2>6, <2>8, <2>9 DEF PlaceFits, Calling
  <2> QED
    BY <2>4, <2>6, <2>10 DEF InOrder
<1> QED
  BY <1>3, <1>4

\* After the decorators down to the i-th entry comes the one before it.
LEMMA DecoratorBeforeFits ==
  ASSUME NEW a, Annotates(a), HandlersFit(a), LogFits(a), NEW i \in 1..(Len(Noted(a)) + 1),
         \A c \in Asked(a) : c \in Calls(a) <=> c[1] # "modify" /\ c[2] >= i
  PROVE  InOrder(DecoratorBefore(a, i))
<1> DEFINE rest == {j \in 1..(i - 1) : a.decorators[j] # NoHandler}
<1>1. PICK n \in Nat : n = Len(Noted(a))
  BY NotedFacts
<1>2. i \in 1..(n + 1) /\ i - 1 \in 0..n /\ i \in Nat /\ DOMAIN a = DefinitionFields
  BY <1>1 DEF Annotates
<1>3. CASE rest = {}
  <2>1. DecoratorBefore(a, i) = ModifierAfter(a, 0)
    BY <1>3 DEF DecoratorBefore
  <2>2. ASSUME NEW c \in Asked(a)
        PROVE  c \in Calls(a) <=> c[1] # "modify" \/ c[2] <= 0
    <3>1. c[2] \in 1..n /\ (c[1] # "modify" => a.decorators[c[2]] # NoHandler)
      BY <1>1, AskedFacts
    <3>2. c[1] # "modify" => c[2] \notin 1..(i - 1)
      BY <1>3, <3>1
    <3>3. c[1] # "modify" => c[2] >= i
      BY <1>2, <3>1, <3>2
    <3> QED
      BY <3>1, <3>3
  <2> QED
    BY <2>1, <2>2, ModifierAfterFits
<1>4. CASE rest # {}
  <2>1. PICK m : m = Max(rest)
    OBVIOUS
  <2>2. m \in rest /\ \A k \in rest : m >= k
    <3>1. PICK h \in Nat : h = i - 1
      BY <1>2
    <3>2. rest \in SUBSET (1..h)
      BY <3>1
    <3> HIDE DEF rest
    <3> QED
      BY <1>4, <2>1, <3>2, GreatestNumber
  <2>3. PICK doing : doing = IF Noted(a)[m].call THEN "factory" ELSE "decorate"
    OBVIOUS
  <2>4. PICK b : b = [a EXCEPT !.at = m, !.doing = doing]
    OBVIOUS
  <2>5. DecoratorBefore(a, i) = b
    BY <1>4, <2>1, <2>3, <2>4 DEF DecoratorBefore
  <2>6. b = [a EXCEPT !.doing = doing, !.at = m]
    BY <1>2, <2>4 DEF DefinitionFields
  <2>7. /\ Like(a, b) /\ b.log = a.log /\ b.value = a.value
        /\ b.doing = doing /\ b.at = m
    BY <1>2, <2>6 DEF Like, DefinitionFields
  <2>8. HandlersFit(b) /\ LogFits(b) /\ Asked(b) = Asked(a) /\ Calls(b) = Calls(a)
    BY <2>7, MovedFits
  <2>9. m \in 1..n /\ m < i /\ a.decorators[m] # NoHandler
    BY <1>2, <2>2
  <2>10. <<doing, m>> \in Asked(a) /\ doing \in {"factory", "decorate"}
    BY <1>1, <2>3, <2>9, AskedFacts
  <2>11. ASSUME NEW c \in Asked(a) PROVE c \in Calls(a) <=> Precedes(c, <<doing, m>>)
    <3>1. /\ c[2] \in 1..n /\ (c[1] # "modify" => a.decorators[c[2]] # NoHandler)
          /\ c[1] = "factory" => Noted(a)[c[2]].call
      BY <1>1, AskedFacts
    <3>2. c[1] # "modify" /\ c[2] < i => c[2] \in rest
      BY <1>2, <3>1
    <3>3. c[1] # "modify" => (c[2] >= i <=> c[2] > m)
      BY <1>2, <2>2, <2>9, <3>1, <3>2
    <3>4. ~(c[2] = m /\ c[1] = "factory" /\ doing = "decorate")
      BY <2>3, <3>1
    <3>5. doing # "modify"
      BY <2>10
    <3> QED
      BY <3>3, <3>4, <3>5 DEF Precedes
  <2>12. PlaceFits(b)
    BY <2>7, <2>8, <2>10, <2>11 DEF PlaceFits, Calling
  <2> QED
    BY <2>5, <2>8, <2>12 DEF InOrder
<1> QED
  BY <1>3, <1>4

\* A call that returns has been made on what the one before it made.
LEMMA LoggedFits ==
  ASSUME NEW a, Annotates(a), InOrder(a), a.doing \in Calling, NEW made, NEW b, b = Logged(a, made)
  PROVE  /\ Like(a, b) /\ HandlersFit(b) /\ LogFits(b) /\ Asked(b) = Asked(a) /\ Noted(b) = Noted(a)
         /\ b.doing = a.doing /\ b.at = a.at /\ b.value = made
         /\ \A c : c \in Calls(b) <=> c \in Calls(a) \/ c = <<a.doing, a.at>>
<1>1. HandlersFit(a) /\ LogFits(a) /\ PlaceFits(a)
  BY DEF InOrder, Calling
<1>2. PICK p : p = <<a.doing, a.at>>
  OBVIOUS
<1>3. PICK e : e = [call |-> <<a.doing, a.at>>, given |-> a.value, made |-> made,
                    by |-> IF a.doing = "modify" THEN a.modifiers[a.at] ELSE a.decorators[a.at]]
  OBVIOUS
<1>4. b = [a EXCEPT !.value = made, !.log = Append(a.log, e)]
  BY <1>3 DEF Logged
<1>5. DOMAIN a = DefinitionFields
  BY DEF Annotates
<1>6. /\ Like(a, b) /\ b.log = Append(a.log, e) /\ b.value = made
      /\ b.doing = a.doing /\ b.at = a.at
  BY <1>4, <1>5 DEF Like, DefinitionFields
<1>7. /\ HandlersFit(b) /\ Asked(b) = Asked(a) /\ Noted(b) = Noted(a)
      /\ \A c : HandlerOf(b, c) = HandlerOf(a, c)
  BY <1>1, <1>6, LikeAsks
<1>8. p \in Asked(a) /\ \A c \in Asked(a) : c \in Calls(a) <=> Precedes(c, p)
  BY <1>1, <1>2 DEF PlaceFits
<1>9. e.call = p /\ e.given = a.value /\ e.made = made /\ e.by = HandlerOf(a, p)
  <2>1. PICK n \in Nat : n = Len(Noted(a))
    BY NotedFacts
  <2>2. p[1] = a.doing /\ p[2] = a.at
    BY <1>2
  <2>3. a.at \in 1..n
    BY <1>1, <1>8, <2>1, <2>2, AskedFacts
  <2>4. /\ a.modifiers[a.at] = HandlerOf(a, <<"modify", a.at>>)
        /\ a.decorators[a.at] = HandlerOf(a, <<"decorate", a.at>>)
        /\ a.decorators[a.at] = HandlerOf(a, <<"factory", a.at>>)
    BY <1>1, <2>1, <2>3, AskedFacts
  <2>5. a.doing = "factory" \/ a.doing = "decorate" \/ a.doing = "modify"
    BY DEF Calling
  <2>6. e.by = IF a.doing = "modify" THEN a.modifiers[a.at] ELSE a.decorators[a.at]
    BY <1>3
  <2>7. e.by = HandlerOf(a, <<a.doing, a.at>>)
    BY <2>4, <2>5, <2>6
  <2> QED
    BY <1>2, <1>3, <2>7
<1>10. PICK n \in Nat : n = Len(a.log)
  BY <1>1, SeqFacts DEF LogFits
<1>11. /\ IsSeq(b.log) /\ Len(b.log) = n + 1
       /\ \A j \in 1..n : b.log[j] = a.log[j]
       /\ b.log[n + 1] = e
  BY <1>1, <1>6, <1>10, AppendOne DEF LogFits
<1>12. \A j \in 1..(n + 1) : j \in 1..n \/ j = n + 1
  OBVIOUS
<1>13. \A c : c \in Calls(b) <=> c \in Calls(a) \/ c = p
  <2>1. ASSUME NEW j \in 1..n PROVE b.log[j].call \in Calls(a)
    BY <1>10, <1>11 DEF Calls
  <2>2. n + 1 \in 1..(n + 1) /\ \A j \in 1..n : j \in 1..(n + 1)
    OBVIOUS
  <2>3. p \in Calls(b)
    BY <1>9, <1>11, <2>2 DEF Calls
  <2>4. ASSUME NEW c \in Calls(a) PROVE c \in Calls(b)
    <3>1. PICK j \in 1..n : c = a.log[j].call
      BY <1>10 DEF Calls
    <3>2. c = b.log[j].call /\ j \in 1..Len(b.log)
      BY <1>11, <2>2, <3>1
    <3> QED
      BY <3>2 DEF Calls
  <2>5. ASSUME NEW c \in Calls(b) PROVE c \in Calls(a) \/ c = p
    <3>1. PICK j \in 1..(n + 1) : c = b.log[j].call
      BY <1>11 DEF Calls
    <3> QED
      BY <1>9, <1>11, <1>12, <2>1, <3>1
  <2> QED
    BY <2>3, <2>4, <2>5
<1>14. LogFits(b)
  <2>1. ASSUME NEW j \in 1..(n + 1)
        PROVE  b.log[j].call \in Asked(b) /\ b.log[j].by = HandlerOf(b, b.log[j].call)
    <3>1. CASE j \in 1..n
      BY <1>1, <1>7, <1>10, <1>11, <3>1 DEF LogFits
    <3>2. CASE j = n + 1
      BY <1>7, <1>8, <1>9, <1>11, <3>2
    <3> QED
      BY <1>12, <3>1, <3>2
  <2>2. ASSUME NEW j \in 1..(n + 1), NEW k \in 1..(n + 1), j < k
        PROVE  Precedes(b.log[j].call, b.log[k].call)
    <3>1. j \in 1..n
      BY <2>2
    <3>2. CASE k \in 1..n
      BY <1>1, <1>10, <1>11, <2>2, <3>1, <3>2 DEF LogFits
    <3>3. CASE k = n + 1
      <4>1. b.log[j].call \in Asked(a) /\ b.log[j].call \in Calls(a)
        BY <1>1, <1>10, <1>11, <3>1 DEF LogFits, Calls
      <4> QED
        BY <1>8, <1>9, <1>11, <3>3, <4>1
    <3> QED
      BY <1>12, <3>2, <3>3
  <2>3. ASSUME NEW j \in 2..(n + 1) PROVE b.log[j].given = b.log[j - 1].made
    <3>1. j - 1 \in 1..n /\ b.log[j - 1] = a.log[j - 1]
      BY <1>11
    <3>2. CASE j = n + 1
      <4>1. j - 1 = n /\ n # 0
        BY <3>1, <3>2
      <4> QED
        BY <1>1, <1>9, <1>10, <1>11, <3>1, <3>2, <4>1 DEF LogFits
    <3>3. CASE j # n + 1
      <4>1. j \in 2..n /\ j \in 1..n
        BY <3>3
      <4> QED
        BY <1>1, <1>10, <1>11, <3>1, <4>1 DEF LogFits
    <3> QED
      BY <3>2, <3>3
  <2>4. b.value = b.log[n + 1].made
    BY <1>6, <1>9, <1>11
  <2> QED
    BY <1>11, <2>1, <2>2, <2>3, <2>4 DEF LogFits
<1> QED
  BY <1>2, <1>6, <1>7, <1>13, <1>14

LEMMA FactoryFits ==
  ASSUME NEW a, Annotates(a), InOrder(a), a.doing = "factory",
         NEW b, b = [Logged(a, a.value) EXCEPT !.doing = "decorate"]
  PROVE  Annotates(b) /\ InOrder(b)
<1>1. PICK l : l = Logged(a, a.value)
  OBVIOUS
<1>2. HandlersFit(a) /\ LogFits(a) /\ PlaceFits(a) /\ a.doing \in Calling
  BY DEF InOrder, Calling
<1>3. /\ Like(a, l) /\ HandlersFit(l) /\ LogFits(l) /\ Asked(l) = Asked(a)
      /\ \A c : c \in Calls(l) <=> c \in Calls(a) \/ c = <<a.doing, a.at>>
  BY <1>1, <1>2, LoggedFits
<1>4. DOMAIN l = DefinitionFields /\ Annotates(l) /\ l.at = a.at
  BY <1>1, <1>2, <1>3, LikeAsks, LoggedFits DEF Like
<1>5. Like(l, b) /\ b.log = l.log /\ b.value = l.value /\ b.doing = "decorate" /\ b.at = a.at
  BY <1>1, <1>4 DEF Like, DefinitionFields
<1>6. /\ HandlersFit(b) /\ LogFits(b) /\ Asked(b) = Asked(a) /\ Calls(b) = Calls(l)
      /\ Annotates(b)
  BY <1>3, <1>4, <1>5, MovedFits, LikeAsks
<1>7. PICK n \in Nat : n = Len(Noted(a))
  BY NotedFacts
<1>8. PICK p : p = <<"factory", a.at>>
  OBVIOUS
<1>9. /\ p \in Asked(a) /\ p[1] = "factory" /\ p[2] = a.at
      /\ \A c \in Asked(a) : c \in Calls(a) <=> Precedes(c, p)
  BY <1>2, <1>8 DEF PlaceFits
<1>10. a.at \in 1..n /\ a.decorators[a.at] # NoHandler
  BY <1>2, <1>7, <1>9, AskedFacts
<1>11. <<"decorate", a.at>> \in Asked(a)
  BY <1>2, <1>7, <1>10, AskedFacts
<1>12. ASSUME NEW c \in Asked(a) PROVE c \in Calls(b) <=> Precedes(c, <<"decorate", a.at>>)
  <2>1. c \in Calls(b) <=> Precedes(c, p) \/ c = p
    BY <1>3, <1>6, <1>8, <1>9
  <2>2. c = <<c[1], c[2]>> /\ c[2] \in 1..n
    BY <1>2, <1>7, AskedFacts
  <2>3. c = p <=> c[1] = "factory" /\ c[2] = a.at
    BY <1>8, <1>9, <2>2
  <2> QED
    BY <1>9, <1>10, <2>1, <2>2, <2>3 DEF Precedes
<1>13. PlaceFits(b)
  BY <1>5, <1>6, <1>11, <1>12 DEF PlaceFits, Calling
<1> QED
  BY <1>6, <1>13 DEF InOrder

LEMMA DecoratorFits ==
  ASSUME NEW a, Annotates(a), InOrder(a), a.doing = "decorate", NEW made,
         NEW b, b = DecoratorBefore(Logged(a, made), a.at)
  PROVE  Annotates(b) /\ InOrder(b)
<1>1. PICK l : l = Logged(a, made)
  OBVIOUS
<1>2. HandlersFit(a) /\ LogFits(a) /\ PlaceFits(a) /\ a.doing \in Calling
  BY DEF InOrder, Calling
<1>3. /\ Like(a, l) /\ HandlersFit(l) /\ LogFits(l) /\ Asked(l) = Asked(a)
      /\ Noted(l) = Noted(a)
      /\ \A c : c \in Calls(l) <=> c \in Calls(a) \/ c = <<a.doing, a.at>>
  BY <1>1, <1>2, LoggedFits
<1>4. DOMAIN l = DefinitionFields /\ Annotates(l)
  BY <1>3, LikeAsks DEF Like
<1>5. PICK n \in Nat : n = Len(Noted(a))
  BY NotedFacts
<1>6. PICK p : p = <<"decorate", a.at>>
  OBVIOUS
<1>7. /\ p \in Asked(a) /\ p[1] = "decorate" /\ p[2] = a.at
      /\ \A c \in Asked(a) : c \in Calls(a) <=> Precedes(c, p)
  BY <1>2, <1>6 DEF PlaceFits
<1>8. a.at \in 1..n
  BY <1>2, <1>5, <1>7, AskedFacts
<1>9. ASSUME NEW c \in Asked(l) PROVE c \in Calls(l) <=> c[1] # "modify" /\ c[2] >= a.at
  <2>1. c \in Calls(l) <=> Precedes(c, p) \/ c = p
    BY <1>3, <1>6, <1>7
  <2>2. c = <<c[1], c[2]>> /\ c[2] \in 1..n /\ c[1] \in Calling
    BY <1>2, <1>3, <1>5, AskedFacts
  <2>3. c = p <=> c[1] = "decorate" /\ c[2] = a.at
    BY <1>6, <1>7, <2>2
  <2>4. c[1] = "factory" \/ c[1] = "decorate" \/ c[1] = "modify"
    BY <2>2 DEF Calling
  <2> QED
    BY <1>7, <1>8, <2>1, <2>2, <2>3, <2>4 DEF Precedes
<1>10. a.at \in 1..(Len(Noted(l)) + 1)
  BY <1>3, <1>5, <1>8
<1>11. InOrder(DecoratorBefore(l, a.at))
  BY <1>3, <1>4, <1>9, <1>10, DecoratorBeforeFits
<1>12. Same(l, b)
  BY <1>1, <1>4, DecoratorBeforeSame
<1> QED
  BY <1>1, <1>4, <1>11, <1>12 DEF Same, Annotates

LEMMA ModifierFits ==
  ASSUME NEW a, Annotates(a), InOrder(a), a.doing = "modify", NEW private,
         NEW b, b = ModifierAfter([Logged(a, a.value) EXCEPT !.private = @ \/ private], a.at)
  PROVE  Annotates(b) /\ InOrder(b)
<1>1. PICK k : k = Logged(a, a.value)
  OBVIOUS
<1>2. PICK l : l = [k EXCEPT !.private = @ \/ private]
  OBVIOUS
<1>3. HandlersFit(a) /\ LogFits(a) /\ PlaceFits(a) /\ a.doing \in Calling
  BY DEF InOrder, Calling
<1>4. /\ Like(a, k) /\ HandlersFit(k) /\ LogFits(k) /\ Asked(k) = Asked(a)
      /\ \A c : c \in Calls(k) <=> c \in Calls(a) \/ c = <<a.doing, a.at>>
  BY <1>1, <1>3, LoggedFits
<1>5. DOMAIN k = DefinitionFields /\ Annotates(k)
  BY <1>4, LikeAsks DEF Like
<1>6. Like(k, l) /\ l.log = k.log /\ l.value = k.value
  BY <1>2, <1>5 DEF Like, DefinitionFields
<1>7. /\ HandlersFit(l) /\ LogFits(l) /\ Asked(l) = Asked(a) /\ Calls(l) = Calls(k)
      /\ Annotates(l) /\ DOMAIN l = DefinitionFields
  BY <1>4, <1>5, <1>6, MovedFits, LikeAsks DEF Like
<1>8. PICK n \in Nat : n = Len(Noted(a))
  BY NotedFacts
<1>9. PICK p : p = <<"modify", a.at>>
  OBVIOUS
<1>10. /\ p \in Asked(a) /\ p[1] = "modify" /\ p[2] = a.at
       /\ \A c \in Asked(a) : c \in Calls(a) <=> Precedes(c, p)
  BY <1>3, <1>9 DEF PlaceFits
<1>11. a.at \in 1..n /\ a.at \in Nat
  BY <1>3, <1>8, <1>10, AskedFacts
<1>12. ASSUME NEW c \in Asked(l) PROVE c \in Calls(l) <=> c[1] # "modify" \/ c[2] <= a.at
  <2>1. c \in Calls(l) <=> Precedes(c, p) \/ c = p
    BY <1>4, <1>7, <1>9, <1>10
  <2>2. c = <<c[1], c[2]>> /\ c[2] \in 1..n
    BY <1>3, <1>7, <1>8, AskedFacts
  <2>3. c = p <=> c[1] = "modify" /\ c[2] = a.at
    BY <1>9, <1>10, <2>2
  <2> QED
    BY <1>10, <1>11, <2>1, <2>2, <2>3 DEF Precedes
<1>13. InOrder(ModifierAfter(l, a.at))
  BY <1>7, <1>11, <1>12, ModifierAfterFits
<1>14. Same(l, b)
  BY <1>1, <1>2, <1>7, ModifierAfterSame
<1> QED
  BY <1>1, <1>2, <1>7, <1>13, <1>14 DEF Same, Annotates

\* A definition whose annotations have just been looked up has made no call.
LEMMA AnnotatedFits ==
  ASSUME NEW a, Annotates(a), NEW value
  PROVE  Annotates(Annotated(a, value)) /\ InOrder(Annotated(a, value))
<1>1. PICK entries : entries = Noted(a)
  OBVIOUS
<1>2. PICK n \in Nat : n = Len(entries)
  BY <1>1, NotedFacts
<1>3. PICK l : l = [a EXCEPT !.value = value, !.private = FALSE, !.log = <<>>, !.known = tables,
      !.decorators = [i \in 1..Len(entries) |-> decorators[entries[i].name]],
      !.modifiers = [i \in 1..Len(entries) |-> modifiers[entries[i].name]]]
  OBVIOUS
<1>4. Annotated(a, value) = DecoratorBefore(l, n + 1)
  BY <1>1, <1>2, <1>3 DEF Annotated
<1>5. /\ DOMAIN l = DefinitionFields /\ l.of = a.of /\ l.member = a.member
      /\ l.log = <<>> /\ l.known = tables
      /\ l.decorators = [i \in 1..Len(entries) |-> decorators[entries[i].name]]
      /\ l.modifiers = [i \in 1..Len(entries) |-> modifiers[entries[i].name]]
  BY <1>3 DEF Annotates, DefinitionFields
<1>6. Annotates(l)
  BY <1>5 DEF Annotates
<1>7. Noted(l) = entries
  BY <1>1, <1>5 DEF Noted, InMethod, Method
<1>8. HandlersFit(l)
  BY <1>5, <1>7 DEF HandlersFit, tables
<1>9. IsSeq(l.log) /\ Len(l.log) = 0
  BY <1>5 DEF IsSeq
<1>10. LogFits(l) /\ Calls(l) = {}
  BY <1>9 DEF LogFits, Calls
<1>11. \A c \in Asked(l) : c[2] \in 1..n
  BY <1>2, <1>6, <1>7, <1>8, AskedFacts
<1>12. \A c \in Asked(l) : c \in Calls(l) <=> c[1] # "modify" /\ c[2] >= n + 1
  BY <1>10, <1>11
<1>13. n + 1 \in 1..(Len(Noted(l)) + 1)
  BY <1>2, <1>7
<1>14. InOrder(DecoratorBefore(l, n + 1))
  BY <1>6, <1>8, <1>10, <1>12, <1>13, DecoratorBeforeFits
<1>15. Same(l, DecoratorBefore(l, n + 1))
  BY <1>5, DecoratorBeforeSame
<1> QED
  BY <1>4, <1>6, <1>14, <1>15 DEF Same, Annotates

-----------------------------------------------------------------------------
(* The order of annotations: the stack of definitions, and the theorem.    *)

Ordered(d) == IsSeq(d) /\ \A i \in 1..Len(d) : Annotates(d[i]) /\ InOrder(d[i])

LEMMA OrderedTop ==
  ASSUME Ordered(defining), Depth > 0
  PROVE  /\ Annotates(Top) /\ InOrder(Top)
         /\ \E n \in Nat \ {0} : n = Depth /\ n = Len(defining)
<1>1. Depth \in Nat /\ Depth = Len(defining)
  BY SeqFacts DEF Ordered, Depth
<1>2. Depth \in 1..Depth
  BY <1>1
<1> QED
  BY <1>1, <1>2 DEF Ordered, Top

LEMMA PushOrdered ==
  ASSUME NEW d, Ordered(d), NEW b, Annotates(b), InOrder(b)
  PROVE  Ordered(Append(d, b))
<1>1. PICK n \in Nat : n = Len(d) /\ IsSeq(d)
  BY SeqFacts DEF Ordered
<1>2. /\ IsSeq(Append(d, b)) /\ Len(Append(d, b)) = n + 1
      /\ \A i \in 1..n : Append(d, b)[i] = d[i]
      /\ Append(d, b)[n + 1] = b
  BY <1>1, AppendOne
<1>3. ASSUME NEW i \in 1..(n + 1) PROVE Annotates(Append(d, b)[i]) /\ InOrder(Append(d, b)[i])
  <2>1. CASE i = n + 1
    BY <1>2, <2>1
  <2>2. CASE i # n + 1
    <3>1. i \in 1..n
      BY <2>2
    <3> QED
      BY <1>1, <1>2, <3>1 DEF Ordered
  <2> QED
    BY <2>1, <2>2
<1> QED
  BY <1>2, <1>3 DEF Ordered

LEMMA PopOrdered ==
  ASSUME Ordered(defining), Depth > 0
  PROVE  Ordered(SubSeq(defining, 1, Depth - 1))
<1>1. PICK n \in Nat \ {0} : n = Depth /\ n = Len(defining)
  BY OrderedTop
<1>2. IsSeq(defining)
  BY DEF Ordered
<1>3. /\ IsSeq(SubSeq(defining, 1, n - 1)) /\ Len(SubSeq(defining, 1, n - 1)) = n - 1
      /\ \A i \in 1..(n - 1) : SubSeq(defining, 1, n - 1)[i] = defining[i]
  BY <1>1, <1>2, AllButLast
<1>4. 1..(n - 1) \subseteq 1..n
  BY <1>1
<1> QED
  BY <1>1, <1>3, <1>4 DEF Ordered

LEMMA ReplaceOrdered ==
  ASSUME Ordered(defining), Depth > 0, NEW b, Annotates(b), InOrder(b)
  PROVE  Ordered(Replace(b))
<1> DEFINE front == SubSeq(defining, 1, Depth - 1)
<1>1. Ordered(front)
  BY PopOrdered
<1>2. Ordered(Append(front, b))
  BY <1>1, PushOrdered
<1>3. PICK S : front \in Seq(S)
  BY <1>1 DEF Ordered, IsSeq
<1>4. front \in Seq(S \cup {b}) /\ b \in S \cup {b}
  BY <1>3, SeqMonotonic
<1>5. Append(front, b) = front \o <<b>>
  BY <1>4, AppendIsConcat
<1> QED
  BY <1>2, <1>5 DEF Replace

LEMMA AnnotateOrdered ==
  ASSUME Ordered(defining), Depth > 0, NEW value, Annotate(value)
  PROVE  Ordered(defining')
<1>1. Annotates(Top)
  BY OrderedTop
<1>2. Annotates(Annotated(Top, value)) /\ InOrder(Annotated(Top, value))
  BY <1>1, AnnotatedFits
<1>3. Ordered(Replace(Annotated(Top, value)))
  BY <1>2, ReplaceOrdered
<1>4. defining' = Replace(Annotated(Top, value)) \/ defining' = defining
  BY DEF Annotate
<1> QED
  BY <1>3, <1>4

LEMMA StepOrdered ==
  ASSUME Ordered(defining), [Next]_definitionVars
  PROVE  Ordered(defining')
<1>1. \A s \in Statements : \A t : Annotates(Begun(s, t)) /\ InOrder(Begun(s, t))
  BY DEF Begun, Annotates, InOrder, DefinitionFields
<1>2. ASSUME NEW s \in Statements, BeginFunction(s) \/ BeginClass(s) PROVE Ordered(defining')
  <2>1. defining' = defining \/ \E t : defining' = Append(defining, Begun(s, t))
    BY <1>2 DEF BeginFunction, BeginClass
  <2> QED
    BY <1>1, <2>1, PushOrdered
<1>3. CASE BeginMethod \/ BeginStatement
  <2>1. Depth > 0 /\ \E value : Annotate(value)
    BY <1>3 DEF BeginMethod, BeginStatement
  <2> QED
    BY <2>1, AnnotateOrdered
<1>4. ASSUME NEW b \in BOOLEAN, FactoryReturns(b) PROVE Ordered(defining')
  <2>1. Depth > 0 /\ Top.doing = "factory"
    BY <1>4 DEF FactoryReturns
  <2>2. PICK a : a = [Logged(Top, Top.value) EXCEPT !.doing = "decorate"]
    OBVIOUS
  <2>3. Annotates(a) /\ InOrder(a)
    BY <2>1, <2>2, OrderedTop, FactoryFits
  <2>4. defining' = Replace(a) \/ defining' = defining
    BY <1>4, <2>2 DEF FactoryReturns
  <2> QED
    BY <2>1, <2>3, <2>4, ReplaceOrdered
<1>5. ASSUME NEW b \in BOOLEAN, ModifierReturns(b) PROVE Ordered(defining')
  <2>1. Depth > 0 /\ Top.doing = "modify"
    BY <1>5 DEF ModifierReturns
  <2>2. PICK a : a = ModifierAfter([Logged(Top, Top.value) EXCEPT !.private = @ \/ b], Top.at)
    OBVIOUS
  <2>3. Annotates(a) /\ InOrder(a)
    BY <2>1, <2>2, OrderedTop, ModifierFits
  <2>4. defining' = Replace(a)
    BY <1>5, <2>2 DEF ModifierReturns
  <2> QED
    BY <2>1, <2>3, <2>4, ReplaceOrdered
<1>6. ASSUME NEW v \in Returned, DecoratorReturns(v) PROVE Ordered(defining')
  <2>1. Depth > 0 /\ Top.doing = "decorate"
    BY <1>6 DEF DecoratorReturns
  <2>2. PICK a : a = DecoratorBefore(Logged(Top, v), Top.at)
    OBVIOUS
  <2>3. Annotates(a) /\ InOrder(a)
    BY <2>1, <2>2, OrderedTop, DecoratorFits
  <2>4. defining' = Replace(a)
    BY <1>6, <2>2 DEF DecoratorReturns
  <2> QED
    BY <2>1, <2>3, <2>4, ReplaceOrdered
<1>7. CASE FinishMethod
  <2>1. Depth > 0 /\ defining' = Replace(NextMember(Top))
    BY <1>7 DEF FinishMethod
  <2>2. Annotates(Top)
    BY <2>1, OrderedTop
  <2>3. Annotates(NextMember(Top)) /\ InOrder(NextMember(Top))
    <3>1. PICK a : a = Top
      OBVIOUS
    <3>2. DOMAIN a = DefinitionFields /\ a.of \in Statements /\ a.member \in Nat \ {0}
      BY <2>2, <3>1 DEF Annotates
    <3>3. PICK b : b = NextMember(a)
      OBVIOUS
    <3>4. /\ DOMAIN b = DefinitionFields /\ b.of = a.of /\ b.member = a.member + 1
          /\ b.doing = "member"
      BY <3>2, <3>3 DEF NextMember, DefinitionFields
    <3> QED
      BY <3>1, <3>2, <3>3, <3>4 DEF Annotates, InOrder
  <2> QED
    BY <2>1, <2>3, ReplaceOrdered
<1>8. CASE FinishStatement
  <2>1. Depth > 0 /\ defining' = SubSeq(defining, 1, Depth - 1)
    BY <1>8 DEF FinishStatement
  <2> QED
    BY <2>1, PopOrdered
<1>9. /\ SetStatic => UNCHANGED defining
      /\ AddRoute => UNCHANGED defining
      /\ UNCHANGED definitionVars => UNCHANGED defining
      /\ \A x \in Annotations, h \in Handlers :
           RegisterDecorator(x, h) \/ RegisterModifier(x, h) => UNCHANGED defining
  BY DEF SetStatic, AddRoute, definitionVars, RegisterDecorator, RegisterModifier
<1> QED
  BY <1>2, <1>3, <1>4, <1>5, <1>6, <1>7, <1>8, <1>9 DEF Next

\* The calls come in the order of the annotations.
LEMMA PrecedesIsTransitive ==
  ASSUME NEW c \in Calling \X Nat, NEW d \in Calling \X Nat, NEW e \in Calling \X Nat,
         Precedes(c, d), Precedes(d, e)
  PROVE  Precedes(c, e)
BY DEF Precedes

\* The handlers that are called on a definition are those that its annotations
\* named when it began, decorators last to first, each behind its factory, then
\* modifiers first to last, each on what the one before made, and none is left
\* out, whatever the handlers register or define meanwhile
\* (interpreter.c:1177-1320).
THEOREM AppliedAsAsked == Spec => []AppliedInOrder
<1>1. ASSUME Ordered(defining) PROVE AppliedInOrder
  <2>1. ASSUME NEW a, Annotates(a), InOrder(a), a.doing # "member",
               NEW c \in Asked(a),
               a.doing = "finish" \/ (\E k \in 1..Len(a.log) : Precedes(c, a.log[k].call))
        PROVE  \E j \in 1..Len(a.log) : a.log[j].call = c
    <3>1. HandlersFit(a) /\ LogFits(a) /\ PlaceFits(a)
      BY <2>1 DEF InOrder
    <3>2. PICK n \in Nat : n = Len(Noted(a))
      BY <2>1, NotedFacts
    <3>3. ASSUME NEW d \in Asked(a) PROVE d \in Calling \X Nat
      <4>1. d[1] \in Calling /\ d[2] \in 1..n /\ d = <<d[1], d[2]>>
        BY <2>1, <3>1, <3>2, AskedFacts
      <4> QED
        BY <4>1
    <3>4. c \in Calls(a)
      <4>1. CASE a.doing = "finish"
        BY <3>1, <4>1 DEF PlaceFits
      <4>2. CASE a.doing \in Calling
        <5>1. PICK p : p = <<a.doing, a.at>>
          OBVIOUS
        <5>2. p \in Asked(a) /\ \A d \in Asked(a) : d \in Calls(a) <=> Precedes(d, p)
          BY <3>1, <4>2, <5>1 DEF PlaceFits
        <5>3. a.doing # "finish"
          BY <4>2 DEF Calling
        <5>4. PICK k \in 1..Len(a.log) : Precedes(c, a.log[k].call)
          BY <2>1, <5>3
        <5>5. PICK d : d = a.log[k].call
          OBVIOUS
        <5>6. d \in Asked(a) /\ d \in Calls(a) /\ Precedes(c, d)
          BY <3>1, <5>4, <5>5 DEF LogFits, Calls
        <5>7. Precedes(d, p)
          BY <5>2, <5>6
        <5>8. Precedes(c, p)
          BY <3>3, <5>2, <5>6, <5>7, PrecedesIsTransitive
        <5> QED
          BY <5>2, <5>8
      <4> QED
        BY <3>1, <4>1, <4>2 DEF PlaceFits
    <3> QED
      BY <3>4 DEF Calls
  <2>2. ASSUME NEW i \in 1..Depth, defining[i].doing # "member"
        PROVE  /\ Annotates(defining[i]) /\ InOrder(defining[i])
               /\ LogFits(defining[i])
    BY <1>1, <2>2 DEF Ordered, Depth, InOrder
  <2> SUFFICES ASSUME NEW i \in 1..Depth, defining[i].doing # "member"
               PROVE  LET a == defining[i]
                          n == Len(a.log)
                          called(j) == a.log[j].call IN
                      /\ \A j \in 1..n : called(j) \in Asked(a) /\ a.log[j].by = HandlerOf(a, called(j))
                      /\ \A j, k \in 1..n : j < k => Precedes(called(j), called(k))
                      /\ \A c \in Asked(a) :
                           a.doing = "finish" \/ (\E k \in 1..n : Precedes(c, called(k))) =>
                             \E j \in 1..n : called(j) = c
                      /\ \A j \in 2..n : a.log[j].given = a.log[j - 1].made
                      /\ n # 0 => a.value = a.log[n].made
    BY DEF AppliedInOrder
  <2>3. PICK a : a = defining[i]
    OBVIOUS
  <2>4. Annotates(a) /\ InOrder(a) /\ LogFits(a) /\ a.doing # "member"
    BY <2>2, <2>3
  <2>5. \A c \in Asked(a) :
          a.doing = "finish" \/ (\E k \in 1..Len(a.log) : Precedes(c, a.log[k].call)) =>
            \E j \in 1..Len(a.log) : a.log[j].call = c
    BY <2>1, <2>4
  <2> QED
    BY <2>3, <2>4, <2>5 DEF LogFits
<1>2. Init => Ordered(defining)
  <2> SUFFICES ASSUME Init PROVE Ordered(defining)
    OBVIOUS
  <2>1. defining = <<>> /\ IsSeq(<<>>)
    BY DEF Init, IsSeq
  <2> QED
    BY <2>1 DEF Ordered
<1>3. Ordered(defining) /\ [Next]_definitionVars => Ordered(defining')
  BY StepOrdered
<1>4. Ordered(defining') <=> Ordered(defining)'
  OBVIOUS
<1> QED
  BY <1>1, <1>2, <1>3, <1>4, PTL DEF Spec

-----------------------------------------------------------------------------
(* Contents in memory.                                                       *)

\* No two places hold one object; an object that is held is in memory, and one
\* in memory is held.
Sole == \A o1, o2 \in Places : IsObject(Content(o1)) /\ Content(o1) = Content(o2) => o1 = o2
HeldAreInUse == \A o \in Places : IsObject(Content(o)) => object[Content(o)[2]] # Freed
NoneLost == \A b \in Blocks : object[b] # Freed => \E o \in Places : Content(o) = Object(b)

\* An instance is counted by all that hold it and once more.
AllCounted ==
  \A i \in Instances :
    Owners(Instance(i)) # {} => refs[i] > Cardinality(Owners(Instance(i)))

MemoryIInv == ObjectsTypes /\ Sole /\ HeldAreInUse /\ NoneLost /\ AllCounted
ObjectsIInv == MemoryIInv /\ broken # "dangling"

\* The names of places.
Var(x) == <<"variable", x>>
Slot(b, a) == <<"object", b, a>>
Field(i, a) == <<"instance", i, a>>

LEMMA ObjectFacts ==
  ASSUME NEW b
  PROVE  /\ IsObject(Object(b)) /\ ~IsInstance(Object(b)) /\ Object(b)[2] = b
         /\ \A c : Object(b) = Object(c) => b = c
         /\ \A i : Object(b) # Instance(i)
         /\ Object(b) # Nothing
  BY DEF IsObject, IsInstance, Object, Instance, Nothing

LEMMA InstanceFacts ==
  ASSUME NEW i
  PROVE  /\ IsInstance(Instance(i)) /\ ~IsObject(Instance(i)) /\ Instance(i)[2] = i
         /\ Instance(i) # Nothing
  BY DEF IsObject, IsInstance, Instance, Nothing

LEMMA ValueFacts ==
  ASSUME NEW v \in Contents
  PROVE  /\ IsObject(v) => v[2] \in Blocks /\ v = Object(v[2])
         /\ IsInstance(v) => v[2] \in Instances /\ v = Instance(v[2])
         /\ \A b : v = Object(b) => b \in Blocks
         /\ \A i : v = Instance(i) => i \in Instances
  BY DEF Contents, IsObject, IsInstance, Object, Instance, Nothing, Plain

LEMMA NothingIsValue ==
  /\ Nothing \in Contents /\ Plain \in Contents
  /\ ~IsObject(Nothing) /\ ~IsObject(Plain) /\ ~IsContainer(Nothing) /\ ~IsContainer(Plain)
  /\ Empty \in [Attributes -> Contents] /\ Empty # Freed
  /\ \A a \in Attributes : Empty[a] = Nothing
<1>1. Nothing \in Contents /\ Plain \in Contents
  BY DEF Contents
<1>2. ~IsContainer(Nothing) /\ ~IsContainer(Plain) /\ ~IsObject(Nothing) /\ ~IsObject(Plain)
  BY DEF IsContainer, IsObject, IsInstance, Nothing, Plain
<1>3. Empty \in [Attributes -> Contents] /\ \A a \in Attributes : Empty[a] = Nothing
  BY <1>1 DEF Empty
<1>4. DOMAIN Empty = Attributes /\ DOMAIN Freed = {}
  BY DEF Empty, Freed
<1> QED
  BY <1>1, <1>2, <1>3, <1>4, ObjectsAssumption

LEMMA PlaceKinds ==
  /\ \A x, b, a : Var(x) # Slot(b, a) /\ Var(x) # Field(b, a)
  /\ \A b, a, i, c : Slot(b, a) # Field(i, c)
  /\ \A x, y : Var(x) = Var(y) => x = y
  /\ \A b, a, c, d : Slot(b, a) = Slot(c, d) => b = c /\ a = d
  /\ \A b, a, c, d : Field(b, a) = Field(c, d) => b = c /\ a = d
  BY DEF Var, Slot, Field

LEMMA PlaceContents ==
  /\ \A x : Content(Var(x)) = vars[x]
  /\ \A b, a : Content(Slot(b, a)) = object[b][a]
  /\ \A i, a : Content(Field(i, a)) = instance[i][a]
  BY DEF Content, Var, Slot, Field

LEMMA PlaceFacts ==
  /\ \A x \in Variables : Var(x) \in Places
  /\ \A b \in Blocks, a \in Attributes : object[b] # Freed => Slot(b, a) \in Places
  /\ \A i \in Instances, a \in Attributes : Field(i, a) \in Places
  /\ \A b, a : Slot(b, a) \in Places => b \in Blocks /\ a \in Attributes /\ object[b] # Freed
  /\ \A o \in Places : \/ \E x \in Variables : o = Var(x)
                       \/ \E b \in Blocks, a \in Attributes : o = Slot(b, a) /\ object[b] # Freed
                       \/ \E i \in Instances, a \in Attributes : o = Field(i, a)
<1>1. \A x \in Variables : Var(x) \in Places
  BY DEF Places, Var
<1>2. \A b \in Blocks, a \in Attributes : object[b] # Freed => Slot(b, a) \in Places
  BY DEF Places, Slot
<1>3. \A i \in Instances, a \in Attributes : Field(i, a) \in Places
  BY DEF Places, Field
<1>4. \A o \in Places : \/ \E x \in Variables : o = Var(x)
                        \/ \E b \in Blocks, a \in Attributes : o = Slot(b, a) /\ object[b] # Freed
                        \/ \E i \in Instances, a \in Attributes : o = Field(i, a)
  BY DEF Places, Var, Slot, Field
<1>5. \A b, a : Slot(b, a) \in Places => b \in Blocks /\ a \in Attributes /\ object[b] # Freed
  BY <1>4, PlaceKinds
<1> QED
  BY <1>1, <1>2, <1>3, <1>4, <1>5

LEMMA ObjectsHoldValues ==
  ASSUME ObjectsTypes
  PROVE  /\ \A x \in Variables : vars[x] \in Contents
         /\ \A b \in Addresses : object[b] # Freed =>
              object[b] \in [Attributes -> Contents] /\ \A a \in Attributes : object[b][a] \in Contents
         /\ \A i \in Instances, a \in Attributes : instance[i][a] \in Contents
         /\ \A b \in Blocks : b \in Addresses /\ b # 0
         /\ 0 \in Addresses /\ object[0] = Empty
  BY ObjectsAssumption DEF ObjectsTypes, Addresses

LEMMA ContentsAreValues ==
  ASSUME ObjectsTypes, NEW o \in Places
  PROVE  Content(o) \in Contents
  BY PlaceFacts, PlaceContents, ObjectsHoldValues

-----------------------------------------------------------------------------
(* What is within a value.                                                 *)

LEMMA WithinFacts ==
  ASSUME ObjectsTypes, NEW v
  PROVE  /\ Within(v) \subseteq Addresses
         /\ ~IsObject(v) => Within(v) = {}
         /\ IsObject(v) /\ v[2] \in Addresses => v[2] \in Within(v)
         /\ \A b \in Within(v), a \in Attributes :
              object[b] # Freed /\ IsObject(object[b][a]) => object[b][a][2] \in Within(v)
<1>1. Within(v) \subseteq Addresses
  BY DEF Within
<1>2. ASSUME ~IsObject(v) PROVE Within(v) = {}
  <2>1. {} \in SUBSET Addresses /\ Closed({})
    BY DEF Closed
  <2> QED
    BY <1>2, <2>1 DEF Within
<1>3. IsObject(v) /\ v[2] \in Addresses => v[2] \in Within(v)
  BY DEF Within
<1>4. ASSUME NEW b \in Within(v), NEW a \in Attributes, object[b] # Freed, IsObject(object[b][a])
      PROVE  object[b][a][2] \in Within(v)
  <2>1. object[b][a][2] \in Addresses
    BY <1>1, <1>4, ObjectsHoldValues, ValueFacts
  <2>2. ASSUME NEW bs \in SUBSET Addresses, Closed(bs), IsObject(v) => v[2] \in bs
        PROVE  object[b][a][2] \in bs
    <3>1. b \in bs
      BY <1>4, <2>2 DEF Within
    <3> QED
      BY <1>4, <2>2, <3>1 DEF Closed
  <2> QED
    BY <2>1, <2>2 DEF Within
<1> QED
  BY <1>1, <1>2, <1>3, <1>4

\* What is within a value is the object itself or held by an object within.
LEMMA WithinHeld ==
  ASSUME ObjectsTypes, NEW v, IsObject(v) => v[2] \in Addresses, NEW b \in Within(v)
  PROVE  \/ IsObject(v) /\ v[2] = b
         \/ \E c \in Within(v), a \in Attributes :
              object[c] # Freed /\ IsObject(object[c][a]) /\ object[c][a][2] = b
<1> SUFFICES ASSUME ~(IsObject(v) /\ v[2] = b),
                    ~\E c \in Within(v), a \in Attributes :
                       object[c] # Freed /\ IsObject(object[c][a]) /\ object[c][a][2] = b
             PROVE  FALSE
  OBVIOUS
<1> DEFINE bs == Within(v) \ {b}
<1>1. bs \in SUBSET Addresses
  BY WithinFacts
<1>2. Closed(bs)
  BY WithinFacts DEF Closed
<1>3. IsObject(v) => v[2] \in bs
  BY WithinFacts
<1>4. b \in bs
  BY <1>1, <1>2, <1>3 DEF Within
<1> QED
  BY <1>4

\* Everything within a value that is held is in memory.
LEMMA WithinInUse ==
  ASSUME MemoryIInv, NEW v \in Contents, IsObject(v) => object[v[2]] # Freed
  PROVE  \A b \in Within(v) : b \in Blocks /\ object[b] # Freed
<1> DEFINE bs == {b \in Blocks : object[b] # Freed}
<1>1. ObjectsTypes /\ HeldAreInUse
  BY DEF MemoryIInv
<1>2. bs \in SUBSET Addresses
  BY <1>1, ObjectsHoldValues
<1>3. Closed(bs)
  <2> SUFFICES ASSUME NEW b \in bs, NEW a \in Attributes, IsObject(object[b][a])
               PROVE  object[b][a][2] \in bs
    BY DEF Closed
  <2>1. Slot(b, a) \in Places /\ Content(Slot(b, a)) = object[b][a]
    BY PlaceFacts, PlaceContents
  <2>2. object[b][a] \in Contents
    BY <1>1, <1>2, ObjectsHoldValues
  <2> QED
    BY <1>1, <2>1, <2>2, ValueFacts DEF HeldAreInUse
<1>4. IsObject(v) => v[2] \in bs
  BY ValueFacts
<1> QED
  BY <1>2, <1>3, <1>4 DEF Within

LEMMA WithinLiteral ==
  ASSUME ObjectsTypes
  PROVE  Within(Literal) = {0}
<1>1. IsObject(Literal) /\ Literal[2] = 0
  BY ObjectFacts DEF Literal
<1>2. 0 \in Within(Literal)
  BY <1>1, WithinFacts, ObjectsHoldValues
<1>3. Closed({0}) /\ {0} \in SUBSET Addresses
  BY ObjectsHoldValues, NothingIsValue DEF Closed
<1>4. Within(Literal) \subseteq {0}
  BY <1>1, <1>3 DEF Within
<1> QED
  BY <1>2, <1>4

-----------------------------------------------------------------------------
(* Paths, and the places they lead to.                                     *)

LastOf(p) == p[2][Len(p[2])]
PlaceOf(p) ==
  IF p[2] = <<>> THEN Var(p[1])
  ELSE IF IsObject(Holder(p)) THEN Slot(Holder(p)[2], LastOf(p)) ELSE Field(Holder(p)[2], LastOf(p))

LEMMA PathFacts ==
  ASSUME NEW p \in Paths
  PROVE  /\ p[1] \in Variables
         /\ p[2] # <<>> => p[2][1] \in Attributes /\ LastOf(p) \in Attributes
<1>1. /\ p[1] \in Variables
      /\ p[2] = <<>> \/ (\E a \in Attributes : p[2] = <<a>>) \/ p[2] \in Attributes \X Attributes
  BY DEF Paths
<1>2. CASE \E a \in Attributes : p[2] = <<a>>
  BY <1>1, <1>2 DEF LastOf
<1>3. CASE p[2] \in Attributes \X Attributes
  <2>1. PICK a \in Attributes, c \in Attributes : p[2] = <<a, c>>
    BY <1>3
  <2> QED
    BY <1>1, <2>1 DEF LastOf
<1> QED
  BY <1>1, <1>2, <1>3

LEMMA AttributeFacts ==
  ASSUME NEW v, NEW a
  PROVE  /\ IsObject(v) => Attribute(v, a) = object[v[2]][a]
         /\ IsInstance(v) => Attribute(v, a) = instance[v[2]][a]
  BY DEF Attribute, IsObject, IsInstance

\* The value that has the place among its attributes is held by the variable, or
\* by the container that the variable holds.
LEMMA HolderHeld ==
  ASSUME MemoryIInv, NEW p \in Paths, p[2] # <<>>, Reaches(p)
  PROVE  /\ Holder(p) \in Contents /\ IsContainer(Holder(p))
         /\ \/ Holder(p) = Content(Var(p[1]))
            \/ /\ vars[p[1]] \in Contents /\ IsObject(vars[p[1]])
               /\ Slot(vars[p[1]][2], p[2][1]) \in Places
               /\ Holder(p) = Content(Slot(vars[p[1]][2], p[2][1]))
            \/ /\ vars[p[1]] \in Contents /\ IsInstance(vars[p[1]])
               /\ Field(vars[p[1]][2], p[2][1]) \in Places
               /\ Holder(p) = Content(Field(vars[p[1]][2], p[2][1]))
<1>1. ObjectsTypes /\ HeldAreInUse
  BY DEF MemoryIInv
<1>2. p[1] \in Variables /\ p[2][1] \in Attributes /\ vars[p[1]] \in Contents
  BY <1>1, PathFacts, ObjectsHoldValues
<1>3. IsContainer(vars[p[1]]) /\ IsContainer(Holder(p))
  BY DEF Reaches
<1>4. CASE Len(p[2]) = 1
  BY <1>2, <1>3, <1>4, PlaceContents DEF Holder
<1>5. CASE Len(p[2]) # 1 /\ IsObject(vars[p[1]])
  <2>1. Holder(p) = object[vars[p[1]][2]][p[2][1]]
    BY <1>5, AttributeFacts DEF Holder
  <2>2. vars[p[1]][2] \in Blocks /\ object[vars[p[1]][2]] # Freed
    BY <1>1, <1>2, <1>5, PlaceFacts, PlaceContents, ValueFacts DEF HeldAreInUse
  <2>3. Slot(vars[p[1]][2], p[2][1]) \in Places
    BY <1>2, <2>2, PlaceFacts
  <2>4. Holder(p) \in Contents
    BY <1>1, <1>2, <2>1, <2>2, ObjectsHoldValues
  <2> QED
    BY <1>2, <1>3, <1>5, <2>1, <2>3, <2>4, PlaceContents
<1>6. CASE Len(p[2]) # 1 /\ ~IsObject(vars[p[1]])
  <2>1. IsInstance(vars[p[1]])
    BY <1>3, <1>6 DEF IsContainer
  <2>2. Holder(p) = instance[vars[p[1]][2]][p[2][1]]
    BY <1>6, <2>1, AttributeFacts DEF Holder
  <2>3. vars[p[1]][2] \in Instances
    BY <1>2, <2>1, ValueFacts
  <2>4. Field(vars[p[1]][2], p[2][1]) \in Places /\ Holder(p) \in Contents
    BY <1>1, <1>2, <2>2, <2>3, PlaceFacts, ObjectsHoldValues
  <2> QED
    BY <1>2, <1>3, <2>1, <2>2, <2>4, PlaceContents
<1> QED
  BY <1>4, <1>5, <1>6

\* What holds that value is a place.
LEMMA HolderPlace ==
  ASSUME MemoryIInv, NEW p \in Paths, p[2] # <<>>, Reaches(p)
  PROVE  \E o \in Places : Content(o) = Holder(p)
<1>1. Var(p[1]) \in Places
  BY PathFacts, PlaceFacts
<1> QED
  BY <1>1, HolderHeld

LEMMA PlaceIsThere ==
  ASSUME MemoryIInv, NEW p \in Paths, Reaches(p)
  PROVE  /\ PlaceOf(p) \in Places
         /\ Content(PlaceOf(p)) = ValueAt(p) /\ ValueAt(p) \in Contents
         /\ p[2] # <<>> /\ IsObject(Holder(p)) =>
              /\ Holder(p)[2] \in Blocks /\ object[Holder(p)[2]] # Freed
              /\ Holder(p) = Object(Holder(p)[2])
         /\ p[2] # <<>> /\ IsInstance(Holder(p)) =>
              Holder(p)[2] \in Instances /\ ~IsObject(Holder(p))
<1>1. ObjectsTypes /\ HeldAreInUse
  BY DEF MemoryIInv
<1>2. p[1] \in Variables /\ (p[2] # <<>> => LastOf(p) \in Attributes)
  BY PathFacts
<1>3. CASE p[2] = <<>>
  <2>1. PlaceOf(p) = Var(p[1]) /\ ValueAt(p) = vars[p[1]]
    BY <1>3 DEF PlaceOf, ValueAt
  <2> QED
    BY <1>1, <1>2, <1>3, <2>1, PlaceFacts, PlaceContents, ContentsAreValues
<1>4. CASE p[2] # <<>> /\ IsObject(Holder(p))
  <2>1. PlaceOf(p) = Slot(Holder(p)[2], LastOf(p)) /\ ValueAt(p) = object[Holder(p)[2]][LastOf(p)]
    BY <1>4, AttributeFacts DEF PlaceOf, ValueAt, LastOf
  <2>2. object[Holder(p)[2]] # Freed
    BY <1>1, <1>4, HolderPlace DEF HeldAreInUse
  <2>3. Holder(p)[2] \in Blocks /\ ~IsInstance(Holder(p)) /\ Holder(p) = Object(Holder(p)[2])
    BY <1>4, HolderHeld, ValueFacts, ObjectFacts
  <2>4. PlaceOf(p) \in Places /\ Content(PlaceOf(p)) = ValueAt(p)
    BY <1>2, <1>4, <2>1, <2>2, <2>3, PlaceFacts, PlaceContents
  <2> QED
    BY <1>1, <2>2, <2>3, <2>4, ContentsAreValues
<1>5. CASE p[2] # <<>> /\ ~IsObject(Holder(p))
  <2>1. IsInstance(Holder(p))
    BY <1>5, HolderHeld DEF IsContainer
  <2>2. PlaceOf(p) = Field(Holder(p)[2], LastOf(p)) /\ ValueAt(p) = instance[Holder(p)[2]][LastOf(p)]
    BY <1>5, <2>1, AttributeFacts DEF PlaceOf, ValueAt, LastOf
  <2>3. Holder(p)[2] \in Instances
    BY <1>5, <2>1, HolderHeld, ValueFacts
  <2>4. PlaceOf(p) \in Places /\ Content(PlaceOf(p)) = ValueAt(p)
    BY <1>2, <1>5, <2>2, <2>3, PlaceFacts, PlaceContents
  <2> QED
    BY <1>1, <1>5, <2>1, <2>3, <2>4, ContentsAreValues
<1> QED
  BY <1>3, <1>4, <1>5

\* What is within the content of a slot is held by that slot, or by a slot within.
LEMMA HeldInside ==
  ASSUME MemoryIInv, NEW c, NEW a, Slot(c, a) \in Places, NEW d \in Within(object[c][a])
  PROVE  \E e \in Blocks, k \in Attributes :
           /\ Slot(e, k) \in Places /\ Content(Slot(e, k)) = Object(d)
           /\ e \in Within(object[c][a]) \/ (e = c /\ k = a)
<1> DEFINE v == object[c][a]
<1>1. ObjectsTypes /\ HeldAreInUse
  BY DEF MemoryIInv
<1>2. Content(Slot(c, a)) = v /\ v \in Contents /\ c \in Blocks /\ a \in Attributes
  BY <1>1, PlaceContents, ContentsAreValues, PlaceFacts
<1>3. IsObject(v) => object[v[2]] # Freed /\ v[2] \in Addresses /\ v = Object(v[2])
  BY <1>1, <1>2, ValueFacts, ObjectsHoldValues DEF HeldAreInUse
<1>4. \A b \in Within(v) : b \in Blocks /\ object[b] # Freed
  BY <1>2, <1>3, WithinInUse
<1>5. CASE IsObject(v) /\ v[2] = d
  BY <1>2, <1>3, <1>5
<1>6. CASE ~(IsObject(v) /\ v[2] = d)
  <2>1. PICK e \in Within(v), k \in Attributes :
          object[e] # Freed /\ IsObject(object[e][k]) /\ object[e][k][2] = d
    BY <1>1, <1>3, <1>6, WithinHeld
  <2>2. Slot(e, k) \in Places /\ Content(Slot(e, k)) = object[e][k] /\ e \in Blocks
    BY <1>4, <2>1, PlaceFacts, PlaceContents
  <2>3. object[e][k] = Object(d)
    BY <1>1, <2>1, <2>2, ContentsAreValues, ValueFacts
  <2> QED
    BY <2>1, <2>2, <2>3
<1> QED
  BY <1>5, <1>6

\* The object that has a place among its attributes is not within what the place
\* holds: an assignment to the place neither frees nor copies it.
LEMMA NotWithinItself ==
  ASSUME MemoryIInv, NEW p \in Paths, p[2] # <<>>, Reaches(p), IsObject(Holder(p))
  PROVE  Holder(p)[2] \notin Within(ValueAt(p))
<1> DEFINE c == Holder(p)[2]
<1> DEFINE a == LastOf(p)
<1> SUFFICES ASSUME c \in Within(ValueAt(p)) PROVE FALSE
  OBVIOUS
<1>1. Sole /\ ObjectsTypes
  BY DEF MemoryIInv
<1>2. PlaceOf(p) = Slot(c, a) /\ Slot(c, a) \in Places /\ ValueAt(p) = object[c][a] /\ Holder(p) = Object(c)
  BY PlaceIsThere, PlaceContents DEF PlaceOf
<1>3. PICK e \in Blocks, k \in Attributes :
        /\ Slot(e, k) \in Places /\ Content(Slot(e, k)) = Object(c)
        /\ e \in Within(object[c][a]) \/ (e = c /\ k = a)
  BY <1>2, HeldInside
<1>4. e \in Within(object[c][a])
  BY <1>2, <1>3
<1>5. Var(p[1]) \in Places /\ vars[p[1]] = Content(Var(p[1])) /\ IsObject(Object(c))
  BY PathFacts, PlaceFacts, PlaceContents, ObjectFacts
<1>6. IsObject(vars[p[1]]) /\ vars[p[1]] \in Contents /\ vars[p[1]][2] = e
  BY <1>1, <1>2, <1>3, <1>5, HolderHeld, PlaceKinds DEF Sole
<1>7. vars[p[1]] = Object(e)
  BY <1>6, ValueFacts
<1>8. PICK d \in Blocks, m \in Attributes : Slot(d, m) \in Places /\ Content(Slot(d, m)) = Object(e)
  BY <1>2, <1>4, HeldInside
<1>9. Slot(d, m) = Var(p[1])
  BY <1>1, <1>5, <1>6, <1>7, <1>8 DEF Sole
<1> QED
  BY <1>9, PlaceKinds

-----------------------------------------------------------------------------
(* What is freed and copied.                                               *)

\* The addresses that the copy of v takes, and a value with them.
TargetsOf(old, v) == CHOOSE f \in Room(v, Within(old)) : TRUE
CopyOf(to, w) == IF IsObject(w) THEN Object(to[w[2]]) ELSE w
PairsOf(to, b) == [a \in Attributes |-> CopyOf(to, object[b][a])]

\* What is stored is in memory, and no part of it holds the whole.
Storable(v) ==
  /\ v \in Contents \cup {Literal}
  /\ IsObject(v) => v[2] \in Addresses /\ v = Object(v[2])
  /\ \A b \in Within(v) : object[b] # Freed
  /\ \A b \in Within(v), a \in Attributes : IsObject(v) => object[b][a] # v

LEMMA HeldIsStorable ==
  ASSUME MemoryIInv, NEW q \in Paths, Reaches(q)
  PROVE  Storable(ValueAt(q)) /\ ValueAt(q) \in Contents
<1> DEFINE v == ValueAt(q)
<1>1. ObjectsTypes /\ HeldAreInUse /\ Sole
  BY DEF MemoryIInv
<1>2. PlaceOf(q) \in Places /\ Content(PlaceOf(q)) = v /\ v \in Contents
  BY PlaceIsThere
<1>3. IsObject(v) => v[2] \in Addresses /\ v = Object(v[2]) /\ object[v[2]] # Freed
  BY <1>1, <1>2, ValueFacts, ObjectsHoldValues DEF HeldAreInUse
<1>4. \A b \in Within(v) : b \in Blocks /\ object[b] # Freed
  BY <1>2, <1>3, WithinInUse
<1>5. ASSUME NEW b \in Within(v), NEW a \in Attributes, IsObject(v), object[b][a] = v
      PROVE  FALSE
  <2>1. Slot(b, a) \in Places /\ Content(Slot(b, a)) = v
    BY <1>4, <1>5, PlaceFacts, PlaceContents
  <2>2. PlaceOf(q) = Slot(b, a)
    BY <1>1, <1>2, <1>5, <2>1 DEF Sole
  <2>3. q[2] # <<>> /\ IsObject(Holder(q)) /\ Holder(q)[2] = b
    BY <2>2, PlaceKinds DEF PlaceOf
  <2> QED
    BY <1>5, <2>3, NotWithinItself
<1> QED
  BY <1>2, <1>3, <1>4, <1>5 DEF Storable

LEMMA NewIsStorable ==
  ASSUME MemoryIInv
  PROVE  /\ Storable(Plain) /\ Storable(Literal)
         /\ \A i \in Instances : Storable(Instance(i))
<1>1. ObjectsTypes
  BY DEF MemoryIInv
<1>2. ASSUME NEW v \in Contents, ~IsObject(v) PROVE Storable(v)
  BY <1>1, <1>2, WithinFacts DEF Storable
<1>3. Storable(Plain)
  BY <1>2, NothingIsValue
<1>4. \A i \in Instances : Instance(i) \in Contents /\ ~IsObject(Instance(i))
  BY InstanceFacts DEF Contents
<1>5. Storable(Literal)
  <2>1. Within(Literal) = {0} /\ object[0] = Empty /\ 0 \in Addresses
    BY <1>1, WithinLiteral, ObjectsHoldValues
  <2>2. Literal[2] = 0 /\ Literal = Object(Literal[2]) /\ Literal # Nothing
    BY ObjectFacts DEF Literal
  <2>3. \A a \in Attributes : object[0][a] = Nothing
    BY <2>1, NothingIsValue
  <2> QED
    BY <2>1, <2>2, <2>3, NothingIsValue DEF Storable
<1> QED
  BY <1>2, <1>3, <1>4, <1>5

\* A copy takes addresses that are free, or are freed with the old value.
LEMMA TargetFacts ==
  ASSUME ObjectsTypes, NEW old, NEW v, Room(v, Within(old)) # {}, NEW t, t = TargetsOf(old, v)
  PROVE  /\ t \in [Within(v) -> {b \in Blocks : object[b] = Freed} \cup Within(old)]
         /\ \A b, c \in Within(v) : t[b] = t[c] => b = c
<1>1. t \in Room(v, Within(old))
  BY DEF TargetsOf
<1> QED
  BY <1>1 DEF Room

LEMMA StoredTable ==
  ASSUME NEW old, NEW v
  PROVE  Stored(old, v).object = [b \in Addresses |-> Stored(old, v).object[b]]
  BY DEF Stored

LEMMA StoredSound ==
  ASSUME NEW old, NEW v, Stored(old, v).sound
  PROVE  Within(v) \cap Within(old) = {} /\ \A b \in Within(v) \cup Within(old) : object[b] # Freed
  BY DEF Stored

LEMMA StoredRefs ==
  ASSUME NEW old, NEW v
  PROVE  Stored(old, v).refs = [i \in Instances |-> refs[i] - HeldBy(old, i) + HeldBy(v, i)]
  BY DEF Stored

LEMMA StoredValue ==
  ASSUME NEW old, NEW v
  PROVE  Stored(old, v).value = CopyOf(TargetsOf(old, v), v)
  BY DEF Stored, CopyOf, TargetsOf

LEMMA StoredFacts ==
  ASSUME ObjectsTypes, NEW old, NEW v, Room(v, Within(old)) # {}
  PROVE  /\ \A c \in Within(v) :
              Stored(old, v).object[TargetsOf(old, v)[c]] = PairsOf(TargetsOf(old, v), c)
         /\ \A b \in Addresses : (\A c \in Within(v) : b # TargetsOf(old, v)[c]) =>
              Stored(old, v).object[b] = IF b \in Within(old) THEN Freed ELSE object[b]
<1> DEFINE t == TargetsOf(old, v)
<1> DEFINE s == Stored(old, v)
<1> DEFINE from == Within(v)
<1> DEFINE gone == Within(old)
<1> DEFINE copied(w) == IF IsObject(w) THEN Object(t[w[2]]) ELSE w
<1> DEFINE sources(b) == {c \in from : t[c] = b}
<1> DEFINE m == [b \in Addresses |->
                  IF sources(b) # {}
                  THEN [a \in Attributes |-> copied(object[CHOOSE c \in sources(b) : TRUE][a])]
                  ELSE IF b \in gone THEN Freed ELSE object[b]]
<1>1. s.object = m
  BY DEF Stored, TargetsOf
<1>3. \A w : copied(w) = CopyOf(t, w)
  BY DEF CopyOf
<1> HIDE DEF copied, s
<1>4. ASSUME NEW c \in from
      PROVE  m[t[c]] = PairsOf(t, c)
  <2>1. t[c] \in Addresses
    BY TargetFacts, WithinFacts, ObjectsHoldValues
  <2>2. sources(t[c]) = {c}
    BY TargetFacts
  <2>3. (CHOOSE d \in sources(t[c]) : TRUE) = c
    BY <2>2
  <2> QED
    BY <1>3, <2>1, <2>2, <2>3 DEF PairsOf
<1>5. ASSUME NEW b \in Addresses, \A c \in from : b # t[c]
      PROVE  m[b] = IF b \in gone THEN Freed ELSE object[b]
  <2>1. sources(b) = {}
    BY <1>5
  <2> QED
    BY <2>1
<1> HIDE DEF m
<1> QED
  BY <1>1, <1>4, <1>5 DEF s

-----------------------------------------------------------------------------
(* What an assignment makes of the places.                                 *)

LEMMA PlacesNext ==
  /\ \A x : Content(Var(x))' = vars'[x]
  /\ \A b, a : Content(Slot(b, a))' = object'[b][a]
  /\ \A i, a : Content(Field(i, a))' = instance'[i][a]
  /\ \A x \in Variables : Var(x) \in Places'
  /\ \A b \in Blocks, a \in Attributes : object'[b] # Freed => Slot(b, a) \in Places'
  /\ \A i \in Instances, a \in Attributes : Field(i, a) \in Places'
  /\ \A o \in Places' : \/ \E x \in Variables : o = Var(x)
                        \/ \E b \in Blocks, a \in Attributes : o = Slot(b, a) /\ object'[b] # Freed
                        \/ \E i \in Instances, a \in Attributes : o = Field(i, a)
<1>1. /\ \A x : Content(Var(x))' = vars'[x]
      /\ \A b, a : Content(Slot(b, a))' = object'[b][a]
      /\ \A i, a : Content(Field(i, a))' = instance'[i][a]
  BY DEF Content, Var, Slot, Field
<1>2. /\ \A x \in Variables : Var(x) \in Places'
      /\ \A b \in Blocks, a \in Attributes : object'[b] # Freed => Slot(b, a) \in Places'
      /\ \A i \in Instances, a \in Attributes : Field(i, a) \in Places'
  BY DEF Places, Var, Slot, Field
<1>3. \A o \in Places' : \/ \E x \in Variables : o = Var(x)
                         \/ \E b \in Blocks, a \in Attributes : o = Slot(b, a) /\ object'[b] # Freed
                         \/ \E i \in Instances, a \in Attributes : o = Field(i, a)
  BY DEF Places, Var, Slot, Field
<1> QED
  BY <1>1, <1>2, <1>3

\* A value fits a place, and there is room for its copy.
Stores(p, v) ==
  /\ Reaches(p) /\ Storable(v) /\ Room(v, Within(ValueAt(p))) # {}
  /\ Stored(ValueAt(p), v).sound
  /\ Put(p, Stored(ValueAt(p), v))

\* Addresses taken by the copy are those of nothing that stays; the object that
\* has the place among its attributes is neither copied over nor freed.
LEMMA CopyFacts ==
  ASSUME MemoryIInv, NEW p \in Paths, NEW v, Stores(p, v),
         NEW from, from = Within(v), NEW gone, gone = Within(ValueAt(p)),
         NEW t, t = TargetsOf(ValueAt(p), v)
  PROVE  /\ \A b \in gone : b \in Blocks /\ object[b] # Freed
         /\ \A b \in from : b \in Addresses /\ object[b] # Freed /\ b \notin gone
         /\ \A c \in from : t[c] \in Blocks /\ (object[t[c]] = Freed \/ t[c] \in gone)
         /\ \A b, c \in from : t[b] = t[c] => b = c
         /\ CopyOf(t, v) \in Contents
         /\ \A c \in from, a \in Attributes :
              /\ CopyOf(t, object[c][a]) \in Contents
              /\ IsObject(object[c][a]) => object[c][a][2] \in from /\ object[c][a] # v
         /\ IsObject(v) => v[2] \in from
<1> DEFINE old == ValueAt(p)
<1>1. ObjectsTypes /\ HeldAreInUse
  BY DEF MemoryIInv
<1>2. PlaceOf(p) \in Places /\ Content(PlaceOf(p)) = old /\ old \in Contents
  BY PlaceIsThere DEF Stores
<1>3. IsObject(old) => object[old[2]] # Freed
  BY <1>1, <1>2 DEF HeldAreInUse
<1>4. \A b \in gone : b \in Blocks /\ object[b] # Freed
  BY <1>2, <1>3, WithinInUse
<1>5. /\ t \in [from -> {b \in Blocks : object[b] = Freed} \cup gone]
      /\ \A b, c \in from : t[b] = t[c] => b = c
  BY <1>1, TargetFacts DEF Stores
<1>6. from \cap gone = {} /\ \A b \in from \cup gone : object[b] # Freed
  BY StoredSound DEF Stores
<1>7. \A b \in from : b \in Addresses
  BY <1>1, WithinFacts
<1>8. \A c \in from : t[c] \in Blocks /\ (object[t[c]] = Freed \/ t[c] \in gone)
  BY <1>4, <1>5
<1>9. IsObject(v) => v[2] \in from
  BY <1>1, WithinFacts DEF Stores, Storable
<1>10. CopyOf(t, v) \in Contents
  <2>1. CASE IsObject(v)
    BY <1>8, <1>9, <2>1 DEF CopyOf, Contents
  <2>2. CASE ~IsObject(v)
    BY <2>2, ObjectFacts DEF Stores, Storable, CopyOf, Literal
  <2> QED
    BY <2>1, <2>2
<1>11. ASSUME NEW c \in from, NEW a \in Attributes
       PROVE  /\ CopyOf(t, object[c][a]) \in Contents
              /\ IsObject(object[c][a]) => object[c][a][2] \in from /\ object[c][a] # v
  <2>1. object[c] # Freed /\ c \in Addresses
    BY <1>6, <1>7
  <2>2. object[c][a] \in Contents
    BY <1>1, <2>1, ObjectsHoldValues
  <2>3. IsObject(object[c][a]) => object[c][a][2] \in from /\ object[c][a] # v
    BY <1>1, <2>1, WithinFacts DEF Stores, Storable
  <2>4. CASE IsObject(object[c][a])
    BY <1>8, <2>3, <2>4 DEF CopyOf, Contents
  <2>5. CASE ~IsObject(object[c][a])
    BY <2>2, <2>5 DEF CopyOf
  <2> QED
    BY <2>3, <2>4, <2>5
<1> QED
  BY <1>4, <1>5, <1>6, <1>7, <1>8, <1>9, <1>10, <1>11

LEMMA AfterStore ==
  ASSUME MemoryIInv, NEW p \in Paths, NEW v, Stores(p, v), NEW place, place = PlaceOf(p),
         NEW from, from = Within(v), NEW gone, gone = Within(ValueAt(p)),
         NEW t, t = TargetsOf(ValueAt(p), v)
  PROVE  /\ vars' \in [Variables -> Contents]
         /\ object' \in [Addresses -> [Attributes -> Contents] \cup {Freed}]
         /\ object'[0] = Empty
         /\ instance' \in [Instances -> [Attributes -> Contents]]
         /\ \A b \in Blocks : object'[b] # Freed <=>
              (\E c \in from : b = t[c]) \/ (object[b] # Freed /\ b \notin gone)
         /\ place \in Places' /\ Content(place)' = CopyOf(t, v)
         /\ \A c \in from, a \in Attributes :
              /\ Slot(t[c], a) # place /\ Slot(t[c], a) \in Places'
              /\ Content(Slot(t[c], a))' = CopyOf(t, object[c][a])
         /\ \A x \in Variables : Var(x) # place => Content(Var(x))' = Content(Var(x))
         /\ \A i \in Instances, a \in Attributes :
              Field(i, a) # place => Content(Field(i, a))' = Content(Field(i, a))
         /\ \A b \in Blocks, a \in Attributes :
              object[b] # Freed /\ b \notin gone /\ Slot(b, a) # place =>
                Content(Slot(b, a))' = Content(Slot(b, a))
<1> DEFINE old == ValueAt(p)
<1> DEFINE n == CopyOf(t, v)
<1> DEFINE s == Stored(old, v)
<1> DEFINE h == Holder(p)[2]
<1> DEFINE k == LastOf(p)
<1> DEFINE o == s.object
<1> DEFINE new(b) == \E c \in from : b = t[c]
<1>1. ObjectsTypes
  BY DEF MemoryIInv
<1>2. /\ \A b \in gone : b \in Blocks /\ object[b] # Freed
      /\ \A b \in from : b \in Addresses /\ object[b] # Freed /\ b \notin gone
      /\ \A c \in from : t[c] \in Blocks /\ (object[t[c]] = Freed \/ t[c] \in gone)
      /\ \A b, c \in from : t[b] = t[c] => b = c
      /\ n \in Contents
      /\ \A c \in from, a \in Attributes : CopyOf(t, object[c][a]) \in Contents
  BY CopyFacts
<1>3. /\ s.value = n /\ o = [b \in Addresses |-> o[b]]
      /\ \A c \in from : o[t[c]] = PairsOf(t, c)
      /\ \A b \in Addresses : ~new(b) => o[b] = IF b \in gone THEN Freed ELSE object[b]
  <2>1. Room(v, Within(old)) # {} /\ t = TargetsOf(old, v)
    BY DEF Stores
  <2>2. Stored(old, v).value = CopyOf(TargetsOf(old, v), v)
    BY StoredValue
  <2>3. o = [b \in Addresses |-> o[b]]
    BY StoredTable
  <2>4. \A c \in Within(v) : Stored(old, v).object[TargetsOf(old, v)[c]] = PairsOf(TargetsOf(old, v), c)
    BY <1>1, <2>1, StoredFacts
  <2>5. ASSUME NEW b \in Addresses, \A c \in Within(v) : b # TargetsOf(old, v)[c]
        PROVE  Stored(old, v).object[b] = IF b \in Within(old) THEN Freed ELSE object[b]
    BY <1>1, <2>1, <2>5, StoredFacts
  <2> QED
    BY <2>1, <2>2, <2>3, <2>4, <2>5
<1>4. /\ p[1] \in Variables /\ (p[2] # <<>> => k \in Attributes)
      /\ p[2] # <<>> /\ IsObject(Holder(p)) => h \in Blocks /\ object[h] # Freed /\ h \notin gone
      /\ p[2] # <<>> /\ IsInstance(Holder(p)) => h \in Instances /\ ~IsObject(Holder(p))
  BY PathFacts, PlaceIsThere, NotWithinItself DEF Stores
<1>5. \A b \in Blocks : b \in Addresses /\ b # 0
  BY <1>1, ObjectsHoldValues
<1>6. \A c \in from : o[t[c]] \in [Attributes -> Contents] /\ o[t[c]] # Freed
  <2> TAKE c \in from
  <2>1. o[t[c]] = PairsOf(t, c)
    BY <1>3
  <2>2. o[t[c]] \in [Attributes -> Contents]
    BY <1>2, <2>1 DEF PairsOf
  <2>3. DOMAIN o[t[c]] = Attributes /\ DOMAIN Freed = {}
    BY <2>1 DEF Freed, PairsOf
  <2> QED
    BY <2>2, <2>3, ObjectsAssumption
<1>7. \A b \in Addresses : o[b] \in [Attributes -> Contents] \cup {Freed}
  BY <1>1, <1>3, <1>6 DEF ObjectsTypes
<1>8. o[0] = Empty
  BY <1>1, <1>2, <1>3, <1>5, ObjectsHoldValues
<1>9. \A b \in Blocks : o[b] # Freed <=> new(b) \/ (object[b] # Freed /\ b \notin gone)
  BY <1>3, <1>5, <1>6
<1>10. p[2] # <<>> /\ IsObject(Holder(p)) =>
         ~new(h) /\ o[h] = object[h] /\ o[h] \in [Attributes -> Contents]
  BY <1>2, <1>3, <1>4, <1>5, <1>7
<1>11. Put(p, s)
  BY DEF Stores
<1> HIDE DEF s, n, o, new
<1>12. /\ \A x \in Variables : vars'[x] = IF Var(x) = place THEN n ELSE vars[x]
       /\ \A i \in Instances, a \in Attributes :
            instance'[i][a] = IF Field(i, a) = place THEN n ELSE instance[i][a]
       /\ \A b \in Addresses :
            /\ object'[b] # Freed <=> o[b] # Freed
            /\ \A a \in Attributes : o[b] # Freed =>
                 object'[b][a] = IF Slot(b, a) = place THEN n ELSE o[b][a]
       /\ vars' \in [Variables -> Contents] /\ instance' \in [Instances -> [Attributes -> Contents]]
       /\ object' \in [Addresses -> [Attributes -> Contents] \cup {Freed}]
       /\ object'[0] = o[0]
       /\ \/ \E x \in Variables : place = Var(x)
          \/ \E i \in Instances, a \in Attributes : place = Field(i, a)
          \/ \E b \in Blocks, a \in Attributes :
               place = Slot(b, a) /\ object[b] # Freed /\ b \notin gone /\ ~new(b)
  <2>1. CASE p[2] = <<>>
    <3>1. vars' = [vars EXCEPT ![p[1]] = n] /\ object' = o /\ instance' = instance
      BY <1>3, <1>11, <2>1 DEF Put, o
    <3>2. place = Var(p[1])
      BY <2>1 DEF PlaceOf
    <3>3. object' \in [Addresses -> [Attributes -> Contents] \cup {Freed}]
      BY <1>3, <1>7, <3>1
    <3>4. \A x \in Variables : Var(x) = place <=> x = p[1]
      BY <3>2, PlaceKinds
    <3>5. \A x \in Variables : vars'[x] = IF Var(x) = place THEN n ELSE vars[x]
      BY <1>1, <3>1, <3>4 DEF ObjectsTypes
    <3>6. vars' \in [Variables -> Contents] /\ instance' \in [Instances -> [Attributes -> Contents]]
      BY <1>1, <1>2, <3>1 DEF ObjectsTypes
    <3> QED
      BY <1>4, <3>1, <3>2, <3>3, <3>5, <3>6, PlaceKinds
  <2>2. CASE p[2] # <<>> /\ IsInstance(Holder(p))
    <3>1. vars' = vars /\ object' = o /\ instance' = [instance EXCEPT ![h][k] = n]
      BY <1>3, <1>4, <1>11, <2>2 DEF Put, LastOf, o
    <3>2. place = Field(h, k) /\ h \in Instances /\ k \in Attributes
      BY <1>4, <2>2 DEF PlaceOf
    <3>3. object' \in [Addresses -> [Attributes -> Contents] \cup {Freed}]
      BY <1>3, <1>7, <3>1
    <3>4. \A i \in Instances, a \in Attributes : Field(i, a) = place <=> i = h /\ a = k
      BY <3>2, PlaceKinds
    <3>5. /\ instance' = [instance EXCEPT ![h] = [instance[h] EXCEPT ![k] = n]]
          /\ instance[h] \in [Attributes -> Contents]
      BY <1>1, <3>1, <3>2 DEF ObjectsTypes
    <3>6. \A i \in Instances, a \in Attributes :
            instance'[i][a] = IF Field(i, a) = place THEN n ELSE instance[i][a]
      BY <1>1, <3>2, <3>4, <3>5 DEF ObjectsTypes
    <3>7. vars' \in [Variables -> Contents] /\ instance' \in [Instances -> [Attributes -> Contents]]
      BY <1>1, <1>2, <3>1, <3>2, <3>5 DEF ObjectsTypes
    <3> QED
      BY <3>1, <3>2, <3>3, <3>6, <3>7, PlaceKinds
  <2>3. CASE p[2] # <<>> /\ IsObject(Holder(p))
    <3>1. vars' = vars /\ instance' = instance /\ object' = [o EXCEPT ![h][k] = n]
      BY <1>3, <1>4, <1>11, <2>3 DEF Put, LastOf, o
    <3>2. place = Slot(h, k) /\ h \in Blocks /\ h \in Addresses /\ h # 0 /\ k \in Attributes
      BY <1>4, <1>5, <2>3 DEF PlaceOf
    <3>3. \A b \in Blocks, a \in Attributes : Slot(b, a) = place <=> b = h /\ a = k
      BY <3>2, PlaceKinds
    <3>4. o[h] \in [Attributes -> Contents] /\ o[h] # Freed /\ ~new(h) /\ object[h] # Freed /\ h \notin gone
      BY <1>4, <1>10, <2>3
    <3>5. object' = [o EXCEPT ![h] = [o[h] EXCEPT ![k] = n]]
      BY <3>1
    <3>6. object'[h] = [o[h] EXCEPT ![k] = n] /\ \A b \in Addresses : b # h => object'[b] = o[b]
      BY <1>3, <3>2, <3>5
    <3>7. object'[h] \in [Attributes -> Contents] /\ object'[h] # Freed
      <4>1. object'[h] \in [Attributes -> Contents]
        BY <1>2, <3>2, <3>4, <3>6
      <4>2. DOMAIN object'[h] = Attributes /\ DOMAIN Freed = {}
        BY <4>1 DEF Freed
      <4> QED
        BY <4>1, <4>2, ObjectsAssumption
    <3>8. object' \in [Addresses -> [Attributes -> Contents] \cup {Freed}]
      <4>1. object' = [b \in Addresses |-> object'[b]]
        BY <1>3, <3>5
      <4> QED
        BY <1>7, <3>6, <3>7, <4>1
    <3>9. \A b \in Addresses :
            /\ object'[b] # Freed <=> o[b] # Freed
            /\ \A a \in Attributes : o[b] # Freed =>
                 object'[b][a] = IF Slot(b, a) = place THEN n ELSE o[b][a]
      BY <3>2, <3>4, <3>6, <3>7, PlaceKinds
    <3>10. vars' \in [Variables -> Contents] /\ instance' \in [Instances -> [Attributes -> Contents]]
      BY <1>1, <3>1 DEF ObjectsTypes
    <3>11. (\A x \in Variables : Var(x) # place) /\ (\A i, a : Field(i, a) # place)
      BY <3>2, PlaceKinds
    <3>12. /\ \A x \in Variables : vars'[x] = IF Var(x) = place THEN n ELSE vars[x]
           /\ \A i \in Instances, a \in Attributes :
                instance'[i][a] = IF Field(i, a) = place THEN n ELSE instance[i][a]
      BY <3>1, <3>11
    <3>13. object'[0] = o[0]
      BY <1>1, <3>2, <3>6, ObjectsHoldValues
    <3> QED
      BY <3>2, <3>4, <3>8, <3>9, <3>10, <3>12, <3>13
  <2> QED
    BY <1>11, <2>1, <2>2, <2>3 DEF Put
<1>13. place \in Places' /\ Content(place)' = n
  <2>1. CASE \E x \in Variables : place = Var(x)
    BY <1>12, <2>1, PlacesNext
  <2>2. CASE \E i \in Instances, a \in Attributes : place = Field(i, a)
    BY <1>12, <2>2, PlacesNext
  <2>3. CASE \E b \in Blocks, a \in Attributes :
               place = Slot(b, a) /\ object[b] # Freed /\ b \notin gone /\ ~new(b)
    BY <1>5, <1>9, <1>12, <2>3, PlacesNext
  <2> QED
    BY <1>12, <2>1, <2>2, <2>3
<1>14. ASSUME NEW c \in from, NEW a \in Attributes
       PROVE  /\ Slot(t[c], a) # place /\ Slot(t[c], a) \in Places'
              /\ Content(Slot(t[c], a))' = CopyOf(t, object[c][a])
  <2>1. t[c] \in Blocks /\ t[c] \in Addresses /\ new(t[c]) /\ o[t[c]] # Freed
    BY <1>2, <1>5, <1>6 DEF new
  <2>2. Slot(t[c], a) # place
    <3> SUFFICES ASSUME Slot(t[c], a) = place PROVE FALSE
      OBVIOUS
    <3>1. \/ \E x \in Variables : place = Var(x)
          \/ \E i \in Instances, m \in Attributes : place = Field(i, m)
          \/ \E b \in Blocks, m \in Attributes : place = Slot(b, m) /\ ~new(b)
      BY <1>12
    <3> QED
      BY <2>1, <3>1, PlaceKinds
  <2>3. object'[t[c]] # Freed /\ object'[t[c]][a] = o[t[c]][a]
    BY <1>12, <2>1, <2>2
  <2>4. o[t[c]][a] = CopyOf(t, object[c][a])
    BY <1>3 DEF PairsOf
  <2> QED
    BY <2>1, <2>2, <2>3, <2>4, PlacesNext
<1>15. /\ \A x \in Variables : Var(x) # place => Content(Var(x))' = Content(Var(x))
       /\ \A i \in Instances, a \in Attributes :
            Field(i, a) # place => Content(Field(i, a))' = Content(Field(i, a))
  BY <1>12, PlacesNext, PlaceContents
<1>16. ASSUME NEW b \in Blocks, NEW a \in Attributes,
              object[b] # Freed, b \notin gone, Slot(b, a) # place
       PROVE  Content(Slot(b, a))' = Content(Slot(b, a))
  <2>1. ~new(b) /\ o[b] = object[b]
    BY <1>2, <1>3, <1>5, <1>16 DEF new
  <2> QED
    BY <1>5, <1>12, <1>16, <2>1, PlacesNext, PlaceContents
<1> QED
  BY <1>5, <1>8, <1>9, <1>12, <1>13, <1>14, <1>15, <1>16 DEF n, new

\* A place that is there afterwards is the one assigned to, in the copy, or as it was.
IsKept(o, place, gone) ==
  o \in Places /\ o # place /\ \A b \in gone, a \in Attributes : o # Slot(b, a)

LEMMA PlacesAfter ==
  ASSUME MemoryIInv, NEW p \in Paths, NEW v, Stores(p, v), NEW place, place = PlaceOf(p),
         NEW from, from = Within(v), NEW gone, gone = Within(ValueAt(p)),
         NEW t, t = TargetsOf(ValueAt(p), v)
  PROVE  /\ \A o \in Places' : \/ o = place
                               \/ \E c \in from, a \in Attributes : o = Slot(t[c], a)
                               \/ IsKept(o, place, gone)
         /\ \A o : IsKept(o, place, gone) => o \in Places' /\ Content(o)' = Content(o)
<1>1. \A o : IsKept(o, place, gone) => o \in Places' /\ Content(o)' = Content(o)
  <2> SUFFICES ASSUME NEW o, IsKept(o, place, gone) PROVE o \in Places' /\ Content(o)' = Content(o)
    OBVIOUS
  <2>1. o \in Places /\ o # place
    BY DEF IsKept
  <2>2. CASE \E x \in Variables : o = Var(x)
    BY <2>1, <2>2, AfterStore, PlacesNext
  <2>3. CASE \E i \in Instances, a \in Attributes : o = Field(i, a)
    BY <2>1, <2>3, AfterStore, PlacesNext
  <2>4. CASE \E b \in Blocks, a \in Attributes : o = Slot(b, a) /\ object[b] # Freed
    <3>1. PICK b \in Blocks, a \in Attributes : o = Slot(b, a) /\ object[b] # Freed
      BY <2>4
    <3>2. b \notin gone
      BY <3>1 DEF IsKept
    <3>3. Content(Slot(b, a))' = Content(Slot(b, a)) /\ object'[b] # Freed
      BY <2>1, <3>1, <3>2, AfterStore
    <3> QED
      BY <3>1, <3>3, PlacesNext
  <2> QED
    BY <2>1, <2>2, <2>3, <2>4, PlaceFacts
<1>2. ASSUME NEW o \in Places', o # place, ~\E c \in from, a \in Attributes : o = Slot(t[c], a)
      PROVE  IsKept(o, place, gone)
  <2>1. CASE \E x \in Variables : o = Var(x)
    BY <1>2, <2>1, PlaceFacts, PlaceKinds DEF IsKept
  <2>2. CASE \E i \in Instances, a \in Attributes : o = Field(i, a)
    BY <1>2, <2>2, PlaceFacts, PlaceKinds DEF IsKept
  <2>3. CASE \E b \in Blocks, a \in Attributes : o = Slot(b, a) /\ object'[b] # Freed
    <3>1. PICK b \in Blocks, a \in Attributes : o = Slot(b, a) /\ object'[b] # Freed
      BY <2>3
    <3>2. \A c \in from : b # t[c]
      BY <1>2, <3>1
    <3>3. object[b] # Freed /\ b \notin gone
      BY <3>1, <3>2, AfterStore
    <3> QED
      BY <1>2, <3>1, <3>3, PlaceFacts, PlaceKinds DEF IsKept
  <2> QED
    BY <2>1, <2>2, <2>3, PlacesNext
<1> QED
  BY <1>1, <1>2

\* What a place that is left alone holds is neither freed nor copied over.
LEMMA KeptObject ==
  ASSUME MemoryIInv, NEW p \in Paths, Reaches(p), NEW place, place = PlaceOf(p),
         NEW gone, gone = Within(ValueAt(p)),
         NEW o, IsKept(o, place, gone), IsObject(Content(o))
  PROVE  /\ Content(o) = Object(Content(o)[2]) /\ Content(o)[2] \in Blocks
         /\ Content(o)[2] \notin gone /\ object[Content(o)[2]] # Freed
<1> DEFINE w == Content(o)[2]
<1>1. ObjectsTypes /\ HeldAreInUse /\ Sole
  BY DEF MemoryIInv
<1>2. o \in Places /\ o # place
  BY DEF IsKept
<1>3. Content(o) = Object(w) /\ w \in Blocks /\ object[w] # Freed
  BY <1>1, <1>2, ContentsAreValues, ValueFacts DEF HeldAreInUse
<1>4. PlaceOf(p) \in Places /\ Content(PlaceOf(p)) = ValueAt(p) /\ ValueAt(p) \in Contents
  BY PlaceIsThere
<1>5. IsObject(ValueAt(p)) => object[ValueAt(p)[2]] # Freed /\ ValueAt(p)[2] \in Addresses
  BY <1>1, <1>4, ValueFacts, ObjectsHoldValues DEF HeldAreInUse
<1>6. ASSUME w \in gone PROVE FALSE
  <2>1. CASE IsObject(ValueAt(p)) /\ ValueAt(p)[2] = w
    <3>1. Content(PlaceOf(p)) = Content(o)
      BY <1>3, <1>4, <2>1, ValueFacts
    <3> QED
      BY <1>1, <1>2, <1>4, <3>1 DEF Sole
  <2>2. CASE ~(IsObject(ValueAt(p)) /\ ValueAt(p)[2] = w)
    <3>1. PICK c \in gone, a \in Attributes :
            object[c] # Freed /\ IsObject(object[c][a]) /\ object[c][a][2] = w
      BY <1>1, <1>5, <1>6, <2>2, WithinHeld
    <3>2. c \in Blocks
      BY <1>4, <1>5, WithinInUse
    <3>3. Slot(c, a) \in Places /\ Content(Slot(c, a)) = object[c][a]
      BY <3>1, <3>2, PlaceFacts, PlaceContents
    <3>4. object[c][a] = Object(w)
      BY <1>1, <3>1, <3>3, ContentsAreValues, ValueFacts
    <3>5. o = Slot(c, a)
      BY <1>1, <1>2, <1>3, <3>3, <3>4 DEF Sole
    <3> QED
      BY <3>5 DEF IsKept
  <2> QED
    BY <2>1, <2>2
<1> QED
  BY <1>3, <1>6

LEMMA MemoryAfter ==
  ASSUME MemoryIInv, NEW p \in Paths, NEW v, Stores(p, v)
  PROVE  Sole' /\ HeldAreInUse' /\ NoneLost'
<1> PICK place, from, gone, t :
      /\ place = PlaceOf(p) /\ from = Within(v) /\ gone = Within(ValueAt(p))
      /\ t = TargetsOf(ValueAt(p), v)
  OBVIOUS
<1>1. ObjectsTypes /\ Sole /\ HeldAreInUse /\ NoneLost /\ Reaches(p)
  BY DEF MemoryIInv, Stores
<1>2. /\ \A b \in gone : b \in Blocks /\ object[b] # Freed
      /\ \A b \in from : b \in Addresses /\ object[b] # Freed /\ b \notin gone
      /\ \A c \in from : t[c] \in Blocks /\ (object[t[c]] = Freed \/ t[c] \in gone)
      /\ \A b, c \in from : t[b] = t[c] => b = c
      /\ \A c \in from, a \in Attributes :
              IsObject(object[c][a]) => object[c][a][2] \in from /\ object[c][a] # v
      /\ IsObject(v) => v[2] \in from
  BY CopyFacts
<1>3. IsObject(v) => v = Object(v[2])
  BY DEF Stores, Storable
<1>4. /\ place \in Places' /\ Content(place)' = CopyOf(t, v)
      /\ \A c \in from, a \in Attributes :
           /\ Slot(t[c], a) # place /\ Slot(t[c], a) \in Places'
           /\ Content(Slot(t[c], a))' = CopyOf(t, object[c][a])
  BY AfterStore
<1>5. \A b \in Blocks : object'[b] # Freed <=>
        (\E c \in from : b = t[c]) \/ (object[b] # Freed /\ b \notin gone)
  BY AfterStore
<1>6. /\ \A o \in Places' : \/ o = place
                            \/ \E c \in from, a \in Attributes : o = Slot(t[c], a)
                            \/ IsKept(o, place, gone)
      /\ \A o : IsKept(o, place, gone) => o \in Places' /\ Content(o)' = Content(o)
  BY PlacesAfter
<1>7. \A c \in from, a \in Attributes : IsObject(object[c][a]) =>
        /\ object[c][a] = Object(object[c][a][2]) /\ Slot(c, a) \in Places
        /\ Content(Slot(c, a)) = object[c][a]
  <2> SUFFICES ASSUME NEW c \in from, NEW a \in Attributes, IsObject(object[c][a])
               PROVE  /\ object[c][a] = Object(object[c][a][2]) /\ Slot(c, a) \in Places
                      /\ Content(Slot(c, a)) = object[c][a]
    OBVIOUS
  <2>1. c \in Addresses /\ object[c] # Freed /\ object[c][a] \in Contents
    BY <1>1, <1>2, ObjectsHoldValues
  <2>2. c # 0
    BY <1>1, ObjectsHoldValues, NothingIsValue
  <2>3. c \in Blocks
    BY <2>1, <2>2 DEF Addresses
  <2> QED
    BY <2>1, <2>3, ValueFacts, PlaceFacts, PlaceContents
\* The object that a place holds afterwards: a copy, or one that nothing happened to.
<1> DEFINE IsNew(o) == \/ o = place
                       \/ \E c \in from, a \in Attributes : o = Slot(t[c], a)
<1>8. ASSUME NEW o \in Places', IsNew(o), IsObject(Content(o)')
      PROVE  \E w \in from : Content(o)' = Object(t[w])
  <2>1. CASE o = place
    BY <1>2, <1>4, <1>8, <2>1 DEF CopyOf
  <2>2. CASE \E c \in from, a \in Attributes : o = Slot(t[c], a)
    BY <1>2, <1>4, <1>8, <2>2 DEF CopyOf
  <2> QED
    BY <1>8, <2>1, <2>2
<1>9. ASSUME NEW o, IsKept(o, place, gone), IsObject(Content(o))
      PROVE  /\ Content(o) = Object(Content(o)[2]) /\ Content(o)[2] \in Blocks
             /\ Content(o)[2] \notin gone /\ object[Content(o)[2]] # Freed
  BY <1>1, <1>9, KeptObject
<1>10. HeldAreInUse'
  <2> SUFFICES ASSUME NEW o \in Places', IsObject(Content(o)')
               PROVE  object'[Content(o)'[2]] # Freed
    BY DEF HeldAreInUse, IsObject
  <2>1. CASE IsNew(o)
    <3>1. PICK w \in from : Content(o)' = Object(t[w])
      BY <1>8, <2>1
    <3> QED
      BY <1>2, <1>5, <3>1, ObjectFacts
  <2>2. CASE IsKept(o, place, gone)
    <3>1. Content(o)' = Content(o)
      BY <1>6, <2>2
    <3> QED
      BY <1>5, <1>9, <2>2, <3>1
  <2> QED
    BY <1>6, <2>1, <2>2
<1>11. Sole'
  <2> SUFFICES ASSUME NEW o1 \in Places', NEW o2 \in Places',
                      IsObject(Content(o1)'), Content(o1)' = Content(o2)'
               PROVE  o1 = o2
    BY DEF Sole, IsObject
  <2>1. CASE IsKept(o1, place, gone) /\ IsKept(o2, place, gone)
    BY <1>1, <1>6, <2>1 DEF Sole, IsKept
  <2>2. ASSUME NEW o, NEW u \in Places', IsKept(o, place, gone), IsNew(u),
               IsObject(Content(o)'), Content(o)' = Content(u)'
        PROVE  FALSE
    <3>1. PICK w \in from : Content(u)' = Object(t[w])
      BY <1>8, <2>2
    <3>2. Content(o) = Object(t[w]) /\ IsObject(Content(o))
      BY <1>6, <2>2, <3>1
    <3>3. t[w] \notin gone /\ object[t[w]] # Freed
      BY <1>9, <2>2, <3>2, ObjectFacts
    <3> QED
      BY <1>2, <3>3
  <2>3. ASSUME NEW c \in from, NEW a \in Attributes,
               IsObject(CopyOf(t, v)), CopyOf(t, v) = CopyOf(t, object[c][a])
        PROVE  FALSE
    <3>1. IsObject(v) /\ IsObject(object[c][a])
      BY <2>3 DEF CopyOf
    <3>2. t[v[2]] = t[object[c][a][2]]
      BY <2>3, <3>1, ObjectFacts DEF CopyOf
    <3>3. v[2] = object[c][a][2]
      BY <1>2, <3>1, <3>2
    <3>4. v = Object(v[2]) /\ object[c][a] = Object(object[c][a][2]) /\ object[c][a] # v
      BY <1>2, <1>3, <1>7, <3>1
    <3> QED
      BY <3>3, <3>4
  <2>4. ASSUME NEW c \in from, NEW a \in Attributes, NEW d \in from, NEW k \in Attributes,
               IsObject(CopyOf(t, object[c][a])), CopyOf(t, object[c][a]) = CopyOf(t, object[d][k])
        PROVE  c = d /\ a = k
    <3>1. IsObject(object[c][a]) /\ IsObject(object[d][k])
      BY <2>4 DEF CopyOf
    <3>2. t[object[c][a][2]] = t[object[d][k][2]]
      BY <2>4, <3>1, ObjectFacts DEF CopyOf
    <3>3. object[c][a][2] = object[d][k][2]
      BY <1>2, <3>1, <3>2
    <3>4. Slot(c, a) = Slot(d, k)
      BY <1>1, <1>7, <3>1, <3>3 DEF Sole
    <3> QED
      BY <3>4, PlaceKinds
  <2>5. CASE IsNew(o1) /\ IsNew(o2)
    <3>1. CASE o1 = place /\ o2 = place
      BY <3>1
    <3>2. CASE o1 = place /\ \E c \in from, a \in Attributes : o2 = Slot(t[c], a)
      BY <1>4, <2>3, <3>2
    <3>3. CASE o2 = place /\ \E c \in from, a \in Attributes : o1 = Slot(t[c], a)
      BY <1>4, <2>3, <3>3
    <3>4. CASE /\ \E c \in from, a \in Attributes : o1 = Slot(t[c], a)
               /\ \E c \in from, a \in Attributes : o2 = Slot(t[c], a)
      <4>1. PICK c \in from, a \in Attributes : o1 = Slot(t[c], a)
        BY <3>4
      <4>2. PICK d \in from, k \in Attributes : o2 = Slot(t[d], k)
        BY <3>4
      <4>3. IsObject(CopyOf(t, object[c][a])) /\ CopyOf(t, object[c][a]) = CopyOf(t, object[d][k])
        BY <1>4, <4>1, <4>2
      <4> QED
        BY <2>4, <4>1, <4>2, <4>3
    <3> QED
      BY <2>5, <3>1, <3>2, <3>3, <3>4
  <2> QED
    BY <1>6, <2>1, <2>2, <2>5
<1>12. NoneLost'
  <2> SUFFICES ASSUME NEW b \in Blocks, object'[b] # Freed
               PROVE  \E o \in Places' : Content(o)' = Object(b)
    BY DEF NoneLost, Object
  <2>1. CASE \E c \in from : b = t[c]
    <3>1. PICK c \in from : b = t[c]
      BY <2>1
    <3>2. CASE IsObject(v) /\ v[2] = c
      BY <1>4, <3>1, <3>2 DEF CopyOf
    <3>3. CASE ~(IsObject(v) /\ v[2] = c)
      <4>1. IsObject(v) => v[2] \in Addresses
        BY <1>2
      <4>2. PICK d \in from, a \in Attributes :
              object[d] # Freed /\ IsObject(object[d][a]) /\ object[d][a][2] = c
        BY <1>1, <3>3, <4>1, WithinHeld
      <4>3. Content(Slot(t[d], a))' = Object(b) /\ Slot(t[d], a) \in Places'
        BY <1>4, <3>1, <4>2 DEF CopyOf
      <4> QED
        BY <4>3
    <3> QED
      BY <3>2, <3>3
  <2>2. CASE object[b] # Freed /\ b \notin gone
    <3>1. PICK o \in Places : Content(o) = Object(b)
      BY <1>1, <2>2 DEF NoneLost
    <3>2. o # place
      <4> SUFFICES ASSUME o = place PROVE FALSE
        OBVIOUS
      <4>1. ValueAt(p) = Object(b)
        BY <1>1, <3>1, PlaceIsThere
      <4>2. b \in Within(ValueAt(p))
        BY <1>1, <4>1, ObjectFacts, ObjectsHoldValues, WithinFacts
      <4> QED
        BY <2>2, <4>2
    <3>3. ASSUME NEW d \in gone, NEW a \in Attributes, o = Slot(d, a) PROVE FALSE
      <4>1. object[d][a] = Object(b) /\ object[d] # Freed
        BY <1>2, <3>1, <3>3, PlaceContents
      <4> QED
        BY <1>1, <2>2, <4>1, ObjectFacts, WithinFacts
    <3> QED
      BY <1>6, <3>1, <3>2, <3>3 DEF IsKept
  <2> QED
    BY <1>5, <2>1, <2>2
<1> QED
  BY <1>10, <1>11, <1>12

-----------------------------------------------------------------------------
(* The counts of instances.                                                *)

LEMMA ImageSize ==
  ASSUME NEW S, IsFiniteSet(S), NEW f, f = [x \in S |-> f[x]],
         NEW T, T = {f[x] : x \in S}
  PROVE  /\ IsFiniteSet(T) /\ Cardinality(T) \in Nat /\ Cardinality(S) \in Nat
         /\ Cardinality(T) <= Cardinality(S)
         /\ (\A x, y \in S : f[x] = f[y] => x = y) => Cardinality(T) = Cardinality(S)
<1>1. f \in Surjection(S, T)
  BY DEF Surjection
<1>2. (\A x, y \in S : f[x] = f[y] => x = y) => f \in Injection(S, T)
  BY <1>1 DEF Surjection, Injection, IsInjective
<1> QED
  BY <1>1, <1>2, FS_Surjection, FS_CardinalityType

SlotTable == [q \in Blocks \X Attributes |-> Slot(q[1], q[2])]
FieldTable == [q \in Instances \X Attributes |-> Field(q[1], q[2])]
VarTable == [x \in Variables |-> Var(x)]

LEMMA PlacesFinite ==
  /\ IsFiniteSet(Places) /\ IsFiniteSet(Places')
  /\ \A v : IsFiniteSet(Owners(v)) /\ IsFiniteSet(Owners(v)')
  /\ \A v : Cardinality(Owners(v)) \in Nat /\ Cardinality(Owners(v)') \in Nat
<1> DEFINE vs == {VarTable[x] : x \in Variables}
<1> DEFINE ss == {SlotTable[q] : q \in Blocks \X Attributes}
<1> DEFINE fs == {FieldTable[q] : q \in Instances \X Attributes}
<1>1. IsFiniteSet(vs)
  BY ObjectsAssumption, ImageSize DEF ObjectsAssumption, VarTable
<1>2. IsFiniteSet(ss)
  <2> DEFINE S == Blocks \X Attributes
  <2>1. IsFiniteSet(S)
    BY ObjectsAssumption, FS_Product
  <2>2. SlotTable = [q \in S |-> SlotTable[q]]
    BY DEF SlotTable
  <2> HIDE DEF S
  <2>3. IsFiniteSet({SlotTable[q] : q \in S})
    BY <2>1, <2>2, ImageSize
  <2> QED
    BY <2>3 DEF S
<1>3. IsFiniteSet(fs)
  <2> DEFINE S == Instances \X Attributes
  <2>1. IsFiniteSet(S)
    BY ObjectsAssumption, FS_Product
  <2>2. FieldTable = [q \in S |-> FieldTable[q]]
    BY DEF FieldTable
  <2> HIDE DEF S
  <2>3. IsFiniteSet({FieldTable[q] : q \in S})
    BY <2>1, <2>2, ImageSize
  <2> QED
    BY <2>3 DEF S
<1>4. IsFiniteSet(vs \cup ss \cup fs)
  BY <1>1, <1>2, <1>3, FS_Union
<1>5. /\ \A x \in Variables : Var(x) \in vs
      /\ \A b \in Blocks, a \in Attributes : Slot(b, a) \in ss
      /\ \A i \in Instances, a \in Attributes : Field(i, a) \in fs
  <2>1. \A x \in Variables : Var(x) = VarTable[x]
    BY DEF VarTable
  <2>2. \A b \in Blocks, a \in Attributes :
          <<b, a>> \in Blocks \X Attributes /\ Slot(b, a) = SlotTable[<<b, a>>]
    BY DEF SlotTable
  <2>3. \A i \in Instances, a \in Attributes :
          <<i, a>> \in Instances \X Attributes /\ Field(i, a) = FieldTable[<<i, a>>]
    BY DEF FieldTable
  <2> QED
    BY <2>1, <2>2, <2>3
<1> HIDE DEF vs, ss, fs
<1>6. Places \in SUBSET (vs \cup ss \cup fs) /\ Places' \in SUBSET (vs \cup ss \cup fs)
  BY <1>5, PlaceFacts, PlacesNext
<1>7. IsFiniteSet(Places) /\ IsFiniteSet(Places')
  BY <1>4, <1>6, FS_Subset
<1>8. \A v : Owners(v) \in SUBSET Places /\ Owners(v)' \in SUBSET Places'
  BY DEF Owners
<1> QED
  BY <1>7, <1>8, FS_Subset, FS_CardinalityType

\* Where in a value the instance is held.
PairsWith(v, i) ==
  {q \in Within(v) \X Attributes : object[q[1]] # Freed /\ object[q[1]][q[2]] = Instance(i)}

LEMMA HeldByFacts ==
  ASSUME MemoryIInv, NEW v, NEW i, ~IsObject(v) \/ \A b \in Within(v) : b \in Addresses
  PROVE  /\ IsFiniteSet(PairsWith(v, i))
         /\ HeldBy(v, i) = IF v = Instance(i) THEN 1 ELSE Cardinality(PairsWith(v, i))
         /\ HeldBy(v, i) \in Nat
         /\ \A q \in PairsWith(v, i) :
              /\ q = <<q[1], q[2]>> /\ q[1] \in Within(v) /\ q[1] \in Blocks /\ q[2] \in Attributes
              /\ object[q[1]] # Freed /\ object[q[1]][q[2]] = Instance(i)
              /\ Slot(q[1], q[2]) \in Owners(Instance(i))
<1>1. ObjectsTypes
  BY DEF MemoryIInv
<1>2. Within(v) \in SUBSET Addresses
  BY <1>1, WithinFacts
<1>3. IsFiniteSet(Addresses)
  BY ObjectsAssumption, FS_AddElement DEF Addresses
<1>4. IsFiniteSet(Within(v) \X Attributes)
  BY <1>2, <1>3, FS_Subset, FS_Product, ObjectsAssumption
<1>5. PairsWith(v, i) \in SUBSET (Within(v) \X Attributes)
  BY DEF PairsWith
<1>6. IsFiniteSet(PairsWith(v, i)) /\ Cardinality(PairsWith(v, i)) \in Nat
  BY <1>4, <1>5, FS_Subset, FS_CardinalityType
<1>7. HeldBy(v, i) = IF v = Instance(i) THEN 1 ELSE Cardinality(PairsWith(v, i))
  BY DEF HeldBy, PairsWith
<1>8. ASSUME NEW q \in PairsWith(v, i)
      PROVE  /\ q = <<q[1], q[2]>> /\ q[1] \in Within(v) /\ q[1] \in Blocks /\ q[2] \in Attributes
             /\ object[q[1]] # Freed /\ object[q[1]][q[2]] = Instance(i)
             /\ Slot(q[1], q[2]) \in Owners(Instance(i))
  <2>1. /\ q = <<q[1], q[2]>> /\ q[1] \in Within(v) /\ q[2] \in Attributes
        /\ object[q[1]] # Freed /\ object[q[1]][q[2]] = Instance(i)
    BY DEF PairsWith
  <2>2. q[1] # 0
    BY <1>1, <2>1, ObjectsHoldValues, NothingIsValue, InstanceFacts
  <2>3. q[1] \in Blocks
    BY <1>2, <2>1, <2>2 DEF Addresses
  <2>4. Slot(q[1], q[2]) \in Places /\ Content(Slot(q[1], q[2])) = Instance(i)
    BY <2>1, <2>3, PlaceFacts, PlaceContents
  <2> QED
    BY <2>1, <2>3, <2>4 DEF Owners
<1> QED
  BY <1>6, <1>7, <1>8

LEMMA OwnersCount ==
  ASSUME MemoryIInv, NEW p \in Paths, NEW v, Stores(p, v), NEW i \in Instances
  PROVE  /\ HeldBy(v, i) \in Nat /\ HeldBy(ValueAt(p), i) \in Nat
         /\ HeldBy(ValueAt(p), i) <= Cardinality(Owners(Instance(i)))
         /\ Cardinality(Owners(Instance(i))') <=
              Cardinality(Owners(Instance(i))) - HeldBy(ValueAt(p), i) + HeldBy(v, i)
<1> PICK old, place, from, gone, t :
      /\ old = ValueAt(p) /\ place = PlaceOf(p) /\ from = Within(v) /\ gone = Within(ValueAt(p))
      /\ t = TargetsOf(ValueAt(p), v)
  OBVIOUS
<1> DEFINE I == Instance(i)
<1> DEFINE own == Owners(I)
<1> DEFINE kept == {o \in own : IsKept(o, place, gone)}
<1> DEFINE freed == [q \in PairsWith(old, i) |-> Slot(q[1], q[2])]
<1> DEFINE copied == [q \in PairsWith(v, i) |-> Slot(t[q[1]], q[2])]
<1> DEFINE leaving == IF old = I THEN {place} ELSE {freed[q] : q \in PairsWith(old, i)}
<1> DEFINE coming == IF v = I THEN {place} ELSE {copied[q] : q \in PairsWith(v, i)}
<1>1. ObjectsTypes /\ Reaches(p)
  BY DEF MemoryIInv, Stores
<1>2. /\ IsFiniteSet(PairsWith(v, i)) /\ HeldBy(v, i) \in Nat
      /\ HeldBy(v, i) = IF v = I THEN 1 ELSE Cardinality(PairsWith(v, i))
      /\ \A q \in PairsWith(v, i) : q[1] \in from /\ q[2] \in Attributes
  BY <1>1, HeldByFacts, WithinFacts
<1>3. /\ IsFiniteSet(PairsWith(old, i)) /\ HeldBy(old, i) \in Nat
      /\ HeldBy(old, i) = IF old = I THEN 1 ELSE Cardinality(PairsWith(old, i))
      /\ \A q \in PairsWith(old, i) :
           /\ q = <<q[1], q[2]>> /\ q[1] \in gone /\ q[2] \in Attributes
           /\ Slot(q[1], q[2]) \in own
  BY <1>1, HeldByFacts, WithinFacts
<1>4. IsFiniteSet(coming) /\ Cardinality(coming) \in Nat /\ Cardinality(coming) <= HeldBy(v, i)
  <2>1. CASE v = I
    <3>1. coming = {place} /\ HeldBy(v, i) = 1
      BY <1>2, <2>1
    <3>2. IsFiniteSet({place}) /\ Cardinality({place}) = 1
      BY FS_Singleton
    <3> HIDE DEF coming
    <3> QED
      BY <3>1, <3>2
  <2>2. CASE v # I
    <3>1. copied = [q \in PairsWith(v, i) |-> copied[q]]
      OBVIOUS
    <3>2. coming = {copied[q] : q \in PairsWith(v, i)} /\ HeldBy(v, i) = Cardinality(PairsWith(v, i))
      BY <1>2, <2>2
    <3> HIDE DEF copied, coming
    <3> QED
      BY <1>2, <3>1, <3>2, ImageSize
  <2> QED
    BY <2>1, <2>2
<1>5. IsFiniteSet(leaving) /\ Cardinality(leaving) = HeldBy(old, i)
  <2>1. CASE old = I
    BY <1>3, <2>1, FS_Singleton
  <2>2. CASE old # I
    <3>1. \A q, r \in PairsWith(old, i) : freed[q] = freed[r] => q = r
      BY <1>3, PlaceKinds
    <3>2. freed = [q \in PairsWith(old, i) |-> freed[q]]
      OBVIOUS
    <3>3. leaving = {freed[q] : q \in PairsWith(old, i)} /\ HeldBy(old, i) = Cardinality(PairsWith(old, i))
      BY <1>3, <2>2
    <3> HIDE DEF freed, leaving
    <3> QED
      BY <1>3, <3>1, <3>2, <3>3, ImageSize
  <2> QED
    BY <2>1, <2>2
<1>6. leaving \subseteq own
  <2>1. CASE old = I
    BY <1>1, <2>1, PlaceIsThere DEF Owners
  <2>2. CASE old # I
    BY <1>3, <2>2
  <2> QED
    BY <2>1, <2>2
<1>7. kept \cap leaving = {}
  <2> SUFFICES ASSUME NEW o \in kept, o \in leaving PROVE FALSE
    OBVIOUS
  <2>1. CASE old = I
    BY <2>1 DEF IsKept
  <2>2. CASE old # I
    <3>1. PICK q \in PairsWith(old, i) : o = Slot(q[1], q[2])
      BY <2>2
    <3> QED
      BY <1>3, <3>1 DEF IsKept
  <2> QED
    BY <2>1, <2>2
<1>8. Owners(I)' \subseteq kept \cup coming
  <2> SUFFICES ASSUME NEW o \in Places', Content(o)' = I PROVE o \in kept \cup coming
    BY DEF Owners, Instance
  <2>1. \A w : CopyOf(t, w) = I => w = I
    BY ObjectFacts DEF CopyOf
  <2>2. CASE o = place
    BY <2>1, <2>2, AfterStore
  <2>3. CASE \E c \in from, a \in Attributes : o = Slot(t[c], a)
    <3>1. PICK c \in from, a \in Attributes : o = Slot(t[c], a)
      BY <2>3
    <3>2. object[c][a] = I
      BY <2>1, <3>1, AfterStore
    <3>3. object[c] # Freed /\ (v = I => from = {})
      BY <1>1, CopyFacts, WithinFacts, InstanceFacts
    <3>4. <<c, a>> \in PairsWith(v, i) /\ copied[<<c, a>>] = o
      BY <3>1, <3>2, <3>3 DEF PairsWith
    <3> QED
      BY <3>3, <3>4
  <2>4. CASE IsKept(o, place, gone)
    BY <2>4, PlacesAfter DEF IsKept, Owners
  <2> QED
    BY <2>2, <2>3, <2>4, PlacesAfter
<1> HIDE DEF leaving, coming, kept
<1>9. IsFiniteSet(own) /\ Cardinality(own) \in Nat /\ kept \in SUBSET own
  BY PlacesFinite DEF kept
<1>10. IsFiniteSet(kept) /\ Cardinality(kept) \in Nat
  BY <1>9, FS_Subset, FS_CardinalityType
<1>11. Cardinality(kept \cup leaving) = Cardinality(kept) + Cardinality(leaving)
  <2>1. Cardinality(kept \cup leaving)
          = Cardinality(kept) + Cardinality(leaving) - Cardinality(kept \cap leaving)
    BY <1>5, <1>10, FS_Union
  <2>2. Cardinality(kept \cap leaving) = 0
    BY <1>7, FS_EmptySet
  <2> QED
    BY <1>3, <1>5, <1>10, <2>1, <2>2
<1>12. Cardinality(kept \cup leaving) <= Cardinality(own)
  BY <1>6, <1>9, FS_Subset
<1>13. /\ Cardinality(kept \cup coming) <= Cardinality(kept) + Cardinality(coming)
       /\ IsFiniteSet(kept \cup coming) /\ Cardinality(kept \cup coming) \in Nat
  <2>1. /\ IsFiniteSet(kept \cup coming)
        /\ Cardinality(kept \cup coming)
             = Cardinality(kept) + Cardinality(coming) - Cardinality(kept \cap coming)
    BY <1>4, <1>10, FS_Union
  <2>2. Cardinality(kept \cap coming) \in Nat
    BY <1>10, FS_Intersection, FS_CardinalityType
  <2> QED
    BY <1>4, <1>10, <2>1, <2>2, FS_CardinalityType
<1>14. Cardinality(Owners(I)') <= Cardinality(kept \cup coming) /\ Cardinality(Owners(I)') \in Nat
  BY <1>8, <1>13, PlacesFinite, FS_Subset
<1> QED
  BY <1>2, <1>3, <1>4, <1>5, <1>9, <1>10, <1>11, <1>12, <1>13, <1>14

\* An instance stays counted by all that hold it and once more; one that nothing
\* held has been made by this assignment, which counts it for itself.
LEMMA CountsAfter ==
  ASSUME MemoryIInv, NEW p \in Paths, NEW v, Stores(p, v), NEW i \in Instances, NEW extra \in Nat,
         v = Instance(i) => Owners(Instance(i)) # {} \/ extra > 0,
         refs'[i] = Stored(ValueAt(p), v).refs[i] + extra
  PROVE  /\ refs'[i] \in Nat
         /\ Owners(Instance(i))' # {} => refs'[i] > Cardinality(Owners(Instance(i))')
<1> PICK old : old = ValueAt(p)
  OBVIOUS
<1> DEFINE n == Cardinality(Owners(Instance(i)))
<1> DEFINE m == Cardinality(Owners(Instance(i))')
<1>1. /\ HeldBy(v, i) \in Nat /\ HeldBy(old, i) \in Nat /\ HeldBy(old, i) <= n
      /\ m <= n - HeldBy(old, i) + HeldBy(v, i)
  BY OwnersCount
<1>2. n \in Nat /\ m \in Nat /\ refs[i] \in Nat
  BY PlacesFinite DEF MemoryIInv, ObjectsTypes
<1>3. refs'[i] = refs[i] - HeldBy(old, i) + HeldBy(v, i) + extra
  <2>1. Stored(old, v).refs = [j \in Instances |-> refs[j] - HeldBy(old, j) + HeldBy(v, j)]
    BY StoredRefs
  <2>2. Stored(old, v).refs[i] = refs[i] - HeldBy(old, i) + HeldBy(v, i)
    BY <2>1
  <2> QED
    BY <2>2
<1>4. Owners(Instance(i)) # {} => refs[i] > n
  BY DEF MemoryIInv, AllCounted
<1>5. Owners(Instance(i)) = {} => n = 0
  BY FS_EmptySet
<1>6. Owners(Instance(i))' # {} => m # 0
  BY PlacesFinite, FS_EmptySet
<1>7. CASE Owners(Instance(i)) # {}
  BY <1>1, <1>2, <1>3, <1>4, <1>7
<1>8. CASE Owners(Instance(i)) = {} /\ v = Instance(i)
  BY <1>1, <1>2, <1>3, <1>5, <1>8
<1>9. CASE Owners(Instance(i)) = {} /\ v # Instance(i)
  <2>1. PairsWith(v, i) = {}
    <3>1. \A b \in Within(v) : b \in Addresses
      BY WithinFacts DEF MemoryIInv
    <3>2. \A q \in PairsWith(v, i) : Slot(q[1], q[2]) \in Owners(Instance(i))
      BY <3>1, HeldByFacts
    <3> QED
      BY <1>9, <3>2
  <2>2. HeldBy(v, i) = Cardinality(PairsWith(v, i))
    BY <1>9 DEF HeldBy, PairsWith
  <2>3. HeldBy(v, i) = 0
    BY <2>1, <2>2, FS_EmptySet
  <2>4. n = 0 /\ HeldBy(old, i) = 0 /\ m = 0
    BY <1>1, <1>2, <1>5, <1>9, <2>3
  <2>5. refs'[i] = refs[i] + extra /\ Owners(Instance(i))' = {}
    BY <1>2, <1>3, <1>6, <2>3, <2>4
  <2> QED
    BY <1>2, <2>5
<1> QED
  BY <1>7, <1>8, <1>9

-----------------------------------------------------------------------------
(* Objects: the invariant.                                                 *)

LEMMA MemoryStep ==
  ASSUME MemoryIInv, NEW p \in Paths, NEW v, Stores(p, v), NEW more \in [Instances -> Nat],
         \A i \in Instances : v = Instance(i) => Owners(Instance(i)) # {} \/ more[i] > 0,
         refs' = [i \in Instances |-> Stored(ValueAt(p), v).refs[i] + more[i]],
         broken' = broken
  PROVE  MemoryIInv'
<1>1. Sole' /\ HeldAreInUse' /\ NoneLost'
  BY MemoryAfter
<1>2. /\ vars' \in [Variables -> Contents]
      /\ object' \in [Addresses -> [Attributes -> Contents] \cup {Freed}]
      /\ object'[0] = Empty
      /\ instance' \in [Instances -> [Attributes -> Contents]]
  BY AfterStore
<1>3. \A i \in Instances :
        /\ refs'[i] \in Nat
        /\ Owners(Instance(i))' # {} => refs'[i] > Cardinality(Owners(Instance(i))')
  <2> TAKE i \in Instances
  <2>1. refs'[i] = Stored(ValueAt(p), v).refs[i] + more[i] /\ more[i] \in Nat
    OBVIOUS
  <2> QED
    BY <2>1, CountsAfter
<1>4. refs' \in [Instances -> Nat]
  BY <1>3
<1>5. ObjectsTypes'
  BY <1>2, <1>4 DEF MemoryIInv, ObjectsTypes, Contents, Addresses, Object, Instance, Nothing, Plain, Freed, Empty
<1>6. AllCounted'
  BY <1>3 DEF AllCounted, Instance
<1> QED
  BY <1>1, <1>5, <1>6 DEF MemoryIInv

\* What SetToValueAt and its like assign.
LEMMA AssignKeeps ==
  ASSUME ObjectsIInv, NEW p \in Paths, NEW v, Storable(v), NEW made \in Instances \cup {0},
         \A i \in Instances : v = Instance(i) => Owners(Instance(i)) # {} \/ made = i,
         Assign(p, v, made)
  PROVE  ObjectsIInv'
<1>1. MemoryIInv /\ ObjectsTypes /\ HeldAreInUse /\ broken = "no"
  BY DEF ObjectsIInv, MemoryIInv, Assign
<1>2. /\ Reaches(p) /\ Room(v, Within(ValueAt(p))) # {}
      /\ IF Stored(ValueAt(p), v).sound
         THEN /\ Put(p, Stored(ValueAt(p), v))
              /\ refs' = [i \in Instances |-> Stored(ValueAt(p), v).refs[i] + IF i = made THEN 1 ELSE 0]
              /\ UNCHANGED broken
         ELSE /\ broken' = IF Within(ValueAt(p)) \cap Within(v) # {} THEN "overlap" ELSE "dangling"
              /\ UNCHANGED <<vars, memory>>
  BY DEF Assign
<1>3. CASE Stored(ValueAt(p), v).sound
  <2> DEFINE more == [i \in Instances |-> IF i = made THEN 1 ELSE 0]
  <2>1. Stores(p, v)
    BY <1>2, <1>3 DEF Stores
  <2>2. more \in [Instances -> Nat] /\ \A i \in Instances : i = made => more[i] > 0
    OBVIOUS
  <2>3. refs' = [i \in Instances |-> Stored(ValueAt(p), v).refs[i] + more[i]] /\ broken' = broken
    BY <1>2, <1>3
  <2> HIDE DEF more
  <2>4. \A i \in Instances : v = Instance(i) => Owners(Instance(i)) # {} \/ more[i] > 0
    BY <2>2
  <2> QED
    BY <1>1, <2>1, <2>2, <2>3, <2>4, MemoryStep DEF ObjectsIInv
<1>4. CASE ~Stored(ValueAt(p), v).sound
  <2>1. /\ PlaceOf(p) \in Places /\ Content(PlaceOf(p)) = ValueAt(p) /\ ValueAt(p) \in Contents
    BY <1>1, <1>2, PlaceIsThere
  <2>2. IsObject(ValueAt(p)) => object[ValueAt(p)[2]] # Freed
    BY <1>1, <2>1 DEF HeldAreInUse
  <2>3. \A b \in Within(ValueAt(p)) : object[b] # Freed
    BY <1>1, <2>1, <2>2, WithinInUse
  <2>4. \A b \in Within(v) : object[b] # Freed
    BY DEF Storable
  <2>5. Within(ValueAt(p)) \cap Within(v) # {}
    <3> SUFFICES ASSUME Within(v) \cap Within(ValueAt(p)) = {} PROVE Stored(ValueAt(p), v).sound
      BY <1>4
    <3> QED
      BY <2>3, <2>4 DEF Stored
  <2>6. broken' = "overlap" /\ UNCHANGED <<vars, memory>>
    BY <1>2, <1>4, <2>5
  <2>7. MemoryIInv'
    <3>1. Places' = Places /\ \A o : Content(o)' = Content(o)
      BY <2>6 DEF memory, Places, Content
    <3>2. \A w : Owners(w)' = Owners(w)
      BY <3>1 DEF Owners
    <3>3. Sole' /\ HeldAreInUse' /\ NoneLost' /\ AllCounted'
      BY <1>1, <2>6, <3>1, <3>2 DEF memory, MemoryIInv, Sole, HeldAreInUse, NoneLost, AllCounted, IsObject, Object, Instance
    <3>4. ObjectsTypes'
      BY <1>1, <2>6 DEF memory, ObjectsTypes, Contents, Addresses, Object, Instance, Nothing, Plain, Freed, Empty
    <3> QED
      BY <3>3, <3>4 DEF MemoryIInv
  <2> QED
    BY <2>6, <2>7 DEF ObjectsIInv
<1> QED
  BY <1>3, <1>4

LEMMA MiddleFacts ==
  ASSUME NEW p \in Paths, Len(p[2]) = 2, NEW middle, middle = <<p[1], <<p[2][1]>>>>
  PROVE  /\ middle \in Paths /\ middle[2] # <<>>
         /\ Holder(middle) = vars[p[1]] /\ ValueAt(middle) = Attribute(vars[p[1]], p[2][1])
<1>1. PICK a \in Attributes, c \in Attributes : p[2] = <<a, c>>
  <2>1. p[2] = <<>> \/ (\E a \in Attributes : p[2] = <<a>>) \/ p[2] \in Attributes \X Attributes
    BY DEF Paths
  <2> QED
    BY <2>1
<1>2. p[1] \in Variables
  BY DEF Paths
<1>3. p[2][1] = a
  BY <1>1
<1>4. middle = <<p[1], <<a>>>> /\ p[2][1] = a
  BY <1>1, <1>3
<1>5. middle \in Paths
  BY <1>2, <1>4 DEF Paths
<1>6. Len(<<a>>) = 1 /\ <<a>> # <<>> /\ <<a>>[1] = a
  OBVIOUS
<1>7. Len(middle[2]) = 1 /\ middle[2] # <<>> /\ middle[2][1] = a /\ middle[1] = p[1]
  BY <1>4, <1>6
<1> QED
  BY <1>4, <1>5, <1>7 DEF Holder, ValueAt

LEMMA ThroughNothingKeeps ==
  ASSUME ObjectsIInv, NEW p \in Paths, NEW v, NEW made \in Instances \cup {0},
         AssignThroughNothing(p, v, made)
  PROVE  ObjectsIInv'
<1>1. MemoryIInv /\ ObjectsTypes
  BY DEF ObjectsIInv, MemoryIInv
<1>2. PICK middle : middle = <<p[1], <<p[2][1]>>>>
  OBVIOUS
<1>3. /\ Len(p[2]) = 2 /\ Attribute(vars[p[1]], p[2][1]) = Nothing
      /\ Room(Literal, {}) # {} /\ IsContainer(vars[p[1]])
      /\ Put(middle, Stored(Nothing, Literal))
      /\ refs' = [i \in Instances |->
                   Stored(Nothing, Literal).refs[i] + HeldBy(v, i) + IF i = made THEN 1 ELSE 0]
      /\ broken' = broken
  BY <1>2 DEF AssignThroughNothing, ThroughNothing
<1>4. middle \in Paths /\ ValueAt(middle) = Nothing /\ Reaches(middle)
  BY <1>2, <1>3, MiddleFacts DEF Reaches
<1>5. Within(Nothing) = {} /\ Within(Literal) = {0} /\ object[0] = Empty /\ Empty # Freed
  BY <1>1, WithinFacts, WithinLiteral, NothingIsValue, ObjectsHoldValues
<1>6. Stored(Nothing, Literal).sound
  BY <1>5 DEF Stored
<1>7. Stores(middle, Literal)
  BY <1>1, <1>3, <1>4, <1>5, <1>6, NewIsStorable DEF Stores
<1> DEFINE more == [i \in Instances |-> HeldBy(v, i) + IF i = made THEN 1 ELSE 0]
<1>8. \A i \in Instances : HeldBy(v, i) \in Nat
  <2>1. \A b \in Within(v) : b \in Addresses
    BY <1>1, WithinFacts
  <2> QED
    BY <1>1, <2>1, HeldByFacts
<1>9. more \in [Instances -> Nat]
  BY <1>8
<1>10. \A i \in Instances : Stored(Nothing, Literal).refs[i] \in Int
  <2>1. Stored(Nothing, Literal).refs =
          [i \in Instances |-> refs[i] - HeldBy(Nothing, i) + HeldBy(Literal, i)]
    BY StoredRefs
  <2>2. \A i \in Instances : HeldBy(Nothing, i) \in Nat /\ HeldBy(Literal, i) \in Nat
    BY <1>1, <1>5, HeldByFacts, WithinFacts
  <2>3. \A i \in Instances : refs[i] \in Nat
    BY <1>1 DEF ObjectsTypes
  <2> QED
    BY <2>1, <2>2, <2>3
<1>11. refs' = [i \in Instances |-> Stored(ValueAt(middle), Literal).refs[i] + more[i]]
  BY <1>3, <1>4, <1>8, <1>10
<1>12. \A i \in Instances : Literal # Instance(i)
  BY ObjectFacts DEF Literal
<1> HIDE DEF more
<1>13. MemoryIInv'
  BY <1>1, <1>3, <1>4, <1>7, <1>9, <1>11, <1>12, MemoryStep
<1> QED
  BY <1>3, <1>13 DEF ObjectsIInv

LEMMA SetKeeps ==
  ASSUME ObjectsIInv, NEW p \in Paths, NEW v, Storable(v), NEW made \in Instances \cup {0},
         \A i \in Instances : v = Instance(i) => Owners(Instance(i)) # {} \/ made = i,
         Set(p, v, made)
  PROVE  ObjectsIInv'
  BY AssignKeeps, ThroughNothingKeeps DEF Set

LEMMA ObjectsStart == ObjectsInit => ObjectsIInv
<1> SUFFICES ASSUME ObjectsInit PROVE ObjectsIInv
  OBVIOUS
<1>1. /\ \A x \in Variables : vars[x] = Nothing
      /\ \A b \in Blocks : object[b] = Freed
      /\ object[0] = Empty
      /\ \A i \in Instances, a \in Attributes : instance[i][a] = Nothing
      /\ broken = "no"
  BY ObjectsAssumption, NothingIsValue DEF ObjectsInit, Addresses
<1>2. ObjectsTypes
  <2>1. object \in [Addresses -> [Attributes -> Contents] \cup {Freed}]
    BY NothingIsValue DEF ObjectsInit
  <2>2. vars \in [Variables -> Contents] /\ instance \in [Instances -> [Attributes -> Contents]]
    BY NothingIsValue DEF ObjectsInit
  <2> QED
    BY <1>1, <2>1, <2>2 DEF ObjectsInit, ObjectsTypes
<1>3. \A o \in Places : Content(o) = Nothing
  BY <1>1, PlaceFacts, PlaceContents
<1>4. Sole /\ HeldAreInUse /\ NoneLost
  BY <1>1, <1>3, NothingIsValue DEF Sole, HeldAreInUse, NoneLost
<1>5. \A i \in Instances : Owners(Instance(i)) = {}
  BY <1>3, InstanceFacts DEF Owners
<1> QED
  BY <1>1, <1>2, <1>4, <1>5 DEF ObjectsIInv, MemoryIInv, AllCounted

LEMMA ObjectsStep == ObjectsIInv /\ [ObjectsNext]_allVars => ObjectsIInv'
<1> SUFFICES ASSUME ObjectsIInv, [ObjectsNext]_allVars PROVE ObjectsIInv'
  OBVIOUS
<1>1. MemoryIInv
  BY DEF ObjectsIInv
<1>2. ASSUME NEW p \in Paths, NEW q \in Paths, SetToValueAt(p, q) PROVE ObjectsIInv'
  <2>1. PICK v : v = ValueAt(q)
    OBVIOUS
  <2>2. Reaches(q) /\ Set(p, v, 0)
    BY <1>2, <2>1 DEF SetToValueAt
  <2>3. Storable(v) /\ PlaceOf(q) \in Places /\ Content(PlaceOf(q)) = v
    BY <1>1, <2>1, <2>2, HeldIsStorable, PlaceIsThere
  <2>4. \A i \in Instances : v = Instance(i) => Owners(Instance(i)) # {}
    BY <2>3 DEF Owners
  <2> QED
    BY <2>2, <2>3, <2>4, SetKeeps
<1>3. ASSUME NEW p \in Paths, SetToPlain(p) PROVE ObjectsIInv'
  <2>1. \A i \in Instances : Plain # Instance(i)
    BY DEF Plain, Instance
  <2> QED
    BY <1>1, <1>3, <2>1, NewIsStorable, SetKeeps DEF SetToPlain
<1>4. ASSUME NEW p \in Paths, SetToObject(p) PROVE ObjectsIInv'
  <2>1. \A i \in Instances : Literal # Instance(i)
    BY ObjectFacts DEF Literal
  <2> QED
    BY <1>1, <1>4, <2>1, NewIsStorable, SetKeeps DEF SetToObject
<1>5. ASSUME NEW p \in Paths, NEW i \in Instances, SetToInstance(p, i) PROVE ObjectsIInv'
  <2>1. \A j \in Instances : Instance(i) = Instance(j) => i = j
    BY DEF Instance
  <2> QED
    BY <1>1, <1>5, <2>1, NewIsStorable, SetKeeps DEF SetToInstance
<1>6. CASE UNCHANGED allVars
  <2>1. vars' = vars /\ object' = object /\ instance' = instance /\ refs' = refs /\ broken' = broken
    BY <1>6 DEF allVars
  <2>2. Places' = Places /\ \A o : Content(o)' = Content(o)
    BY <2>1 DEF Places, Content
  <2>3. \A w : Owners(w)' = Owners(w)
    BY <2>2 DEF Owners
  <2>4. Sole' /\ HeldAreInUse' /\ NoneLost' /\ AllCounted'
    BY <1>1, <2>1, <2>2, <2>3 DEF MemoryIInv, Sole, HeldAreInUse, NoneLost, AllCounted, IsObject, Object, Instance
  <2>5. ObjectsTypes'
    BY <1>1, <2>1 DEF MemoryIInv, ObjectsTypes, Contents, Addresses, Object, Instance, Nothing, Plain, Freed, Empty
  <2> QED
    BY <2>1, <2>4, <2>5 DEF ObjectsIInv, MemoryIInv
<1> QED
  BY <1>2, <1>3, <1>4, <1>5, <1>6 DEF ObjectsNext

\* The types, the ownership of objects and the counts of instances hold together in
\* every run, whatever is assigned to what along chains of attributes.
THEOREM ObjectsInvariantHolds == ObjectsSpec => []ObjectsIInv
<1> QED
  BY ObjectsStart, ObjectsStep, PTL DEF ObjectsSpec

\* Every object in memory has one owner, every instance is counted by all that hold
\* it, and nothing is used after it was freed but by an assignment to a place of
\* what it holds.
THEOREM OwnedOnce == ObjectsSpec => []OwnersExact
<1>1. ObjectsIInv => OwnersExact
  <2> SUFFICES ASSUME ObjectsIInv PROVE OwnersExact
    OBVIOUS
  <2>1. ObjectsTypes /\ Sole /\ HeldAreInUse /\ NoneLost /\ AllCounted /\ broken # "dangling"
    BY DEF ObjectsIInv, MemoryIInv
  <2>2. ASSUME NEW b \in Blocks
        PROVE  Cardinality(Owners(Object(b))) = IF object[b] = Freed THEN 0 ELSE 1
    <3>1. CASE object[b] = Freed
      <4>1. Owners(Object(b)) = {}
        BY <2>1, <3>1, ObjectFacts DEF Owners, HeldAreInUse
      <4> QED
        BY <3>1, <4>1, FS_EmptySet
    <3>2. CASE object[b] # Freed
      <4>1. PICK o \in Places : Content(o) = Object(b)
        BY <2>1, <3>2 DEF NoneLost
      <4>2. Owners(Object(b)) = {o}
        BY <2>1, <4>1, ObjectFacts DEF Owners, Sole
      <4> QED
        BY <3>2, <4>2, FS_Singleton
    <3> QED
      BY <3>1, <3>2
  <2>3. ASSUME NEW i \in Instances, refs[i] > 0
        PROVE  refs[i] >= Cardinality(Owners(Instance(i))) + 1
    <3>1. refs[i] \in Nat /\ Cardinality(Owners(Instance(i))) \in Nat
      BY <2>1, PlacesFinite DEF ObjectsTypes
    <3>2. CASE Owners(Instance(i)) = {}
      <4>1. Cardinality(Owners(Instance(i))) = 0
        BY <3>2, FS_EmptySet
      <4> QED
        BY <2>3, <3>1, <4>1
    <3>3. CASE Owners(Instance(i)) # {}
      BY <2>1, <3>1, <3>3 DEF AllCounted
    <3> QED
      BY <3>2, <3>3
  <2> QED
    BY <2>1, <2>2, <2>3 DEF OwnersExact
<1> QED
  BY <1>1, ObjectsInvariantHolds, PTL

-----------------------------------------------------------------------------
(* What a table of objects means.                                          *)

\* The attributes of the object at b, those of the objects in it being as f says.
Unfolded(o, f, b) ==
  IF o[b] = Freed THEN Empty
  ELSE [a \in Attributes |->
         IF IsObject(o[b][a]) THEN <<"object", f[o[b][a][2]]>> ELSE o[b][a]]

IsMeaning(o, f) == f = [b \in Addresses |-> Unfolded(o, f, b)]

\* No object is inside itself: every object has a higher rank than those it holds.
Falls(o, r) ==
  \A b \in Addresses, a \in Attributes :
    o[b] # Freed /\ IsObject(o[b][a]) =>
      o[b][a][2] \in Addresses /\ r[o[b][a][2]] < r[b]

GroundedTable(o) == \E n \in Nat : \E r \in [Addresses -> 0..n] : Falls(o, r)

LEMMA UnfoldedSame ==
  ASSUME NEW o, NEW f, NEW g, NEW b,
         \A a \in Attributes :
           o[b] # Freed /\ IsObject(o[b][a]) => f[o[b][a][2]] = g[o[b][a][2]]
  PROVE  Unfolded(o, f, b) = Unfolded(o, g, b)
<1> DEFINE in(e, a) == IF IsObject(o[b][a]) THEN <<"object", e[o[b][a][2]]>> ELSE o[b][a]
<1>1. CASE o[b] = Freed
  BY <1>1 DEF Unfolded
<1>2. CASE o[b] # Freed
  <2>1. \A a \in Attributes : in(f, a) = in(g, a)
    BY <1>2
  <2>2. \A e : Unfolded(o, e, b) = [a \in Attributes |-> in(e, a)]
    BY <1>2 DEF Unfolded
  <2> HIDE DEF in
  <2> QED
    BY <2>1, <2>2
<1> QED
  BY <1>1, <1>2

\* A table without cycles has a meaning: the attributes of the objects of rank less
\* than k are known from those of the objects of lower rank, for every k.
LEMMA MeaningExists ==
  ASSUME NEW o, GroundedTable(o)
  PROVE  \E f : IsMeaning(o, f)
<1>0. PICK n \in Nat : \E r \in [Addresses -> 0..n] : Falls(o, r)
  BY DEF GroundedTable
<1>1. PICK r \in [Addresses -> 0..n] : Falls(o, r)
  BY <1>0
<1> DEFINE Known(g, k) == \A b \in Addresses : r[b] < k => g[b] = Unfolded(o, g, b)
<1> DEFINE Unknown == {k \in Nat : ~\E g : Known(g, k)}
<1>2. \A b \in Addresses : r[b] \in Nat /\ r[b] <= n
  BY <1>1
<1>3. ASSUME NEW k \in Nat, NEW g, Known(g, k)
      PROVE  \E h : Known(h, k + 1)
  <2> DEFINE h == [b \in Addresses |-> Unfolded(o, g, b)]
  <2>1. \A b \in Addresses : h[b] = Unfolded(o, g, b)
    OBVIOUS
  <2> HIDE DEF h
  <2>2. ASSUME NEW b \in Addresses, r[b] < k + 1
        PROVE  h[b] = Unfolded(o, h, b)
    <3>1. ASSUME NEW a \in Attributes, o[b] # Freed, IsObject(o[b][a])
          PROVE  g[o[b][a][2]] = h[o[b][a][2]]
      <4>1. PICK c \in Addresses : c = o[b][a][2] /\ r[c] < r[b]
        BY <1>1, <3>1 DEF Falls
      <4>2. r[c] < k
        BY <1>2, <2>2, <4>1
      <4>3. g[c] = Unfolded(o, g, c)
        BY <1>3, <4>2
      <4> QED
        BY <2>1, <4>1, <4>3
    <3>2. Unfolded(o, g, b) = Unfolded(o, h, b)
      BY <3>1, UnfoldedSame
    <3> QED
      BY <2>1, <3>2
  <2> QED
    BY <2>2
<1>4. Unknown = {}
  <2> SUFFICES ASSUME Unknown # {} PROVE FALSE
    OBVIOUS
  <2>1. PICK k \in Nat : k \in Unknown /\ \A j \in Unknown : k <= j
    <3>1. Unknown \in SUBSET Nat
      OBVIOUS
    <3> HIDE DEF Unknown
    <3> QED
      BY <3>1, LeastNumber
  <2>2. k # 0
    <3>1. Known(o, 0)
      BY <1>2
    <3> QED
      BY <2>1, <3>1
  <2>3. k - 1 \in Nat /\ k - 1 \notin Unknown
    BY <2>1, <2>2
  <2>4. PICK g : Known(g, k - 1)
    BY <2>3
  <2>5. \E h : Known(h, (k - 1) + 1)
    <3> HIDE DEF Known, Unknown
    <3> QED
      BY <1>3, <2>3, <2>4
  <2>6. (k - 1) + 1 = k
    OBVIOUS
  <2>7. \E h : Known(h, k)
    <3> HIDE DEF Known
    <3> QED
      BY <2>5, <2>6
  <2> QED
    BY <2>1, <2>7
<1>5. PICK g : Known(g, n + 1)
  BY <1>4
<1> DEFINE f == [b \in Addresses |-> g[b]]
<1>6. ASSUME NEW b \in Addresses
      PROVE  g[b] = Unfolded(o, f, b)
  <2>1. g[b] = Unfolded(o, g, b)
    BY <1>2, <1>5
  <2>2. \A c \in Addresses : f[c] = g[c]
    OBVIOUS
  <2> HIDE DEF f
  <2>3. Unfolded(o, g, b) = Unfolded(o, f, b)
    BY <1>1, <2>2, UnfoldedSame DEF Falls
  <2> QED
    BY <2>1, <2>3
<1>7. IsMeaning(o, f)
  BY <1>6 DEF IsMeaning
<1> QED
  BY <1>7

LEMMA PairsMean ==
  ASSUME GroundedTable(object)
  PROVE  IsMeaning(object, Pairs)
<1>1. \E f : IsMeaning(object, f)
  BY MeaningExists
<1>2. Pairs = CHOOSE f : IsMeaning(object, f)
  BY DEF Pairs, IsMeaning, Unfolded
<1> QED
  BY <1>1, <1>2

LEMMA PairsMeanNext ==
  ASSUME GroundedTable(object')
  PROVE  IsMeaning(object', Pairs')
<1>1. \E f : IsMeaning(object', f)
  BY MeaningExists
<1>2. Pairs' = CHOOSE f : IsMeaning(object', f)
  BY DEF Pairs, IsMeaning, Unfolded, Empty, Freed, IsObject, Nothing
<1> QED
  BY <1>1, <1>2

\* Objects of one table that are copied or left alone in another: t says where to.
Moves(o, p, F, t) ==
  /\ F \in SUBSET Addresses /\ \A b \in F : t[b] \in Addresses
  /\ \A b \in F : o[b] # Freed /\ p[t[b]] # Freed
  /\ \A b \in F, a \in Attributes : IsObject(o[b][a]) =>
       o[b][a][2] \in F /\ p[t[b]][a] = Object(t[o[b][a][2]])
  /\ \A b \in F, a \in Attributes : ~IsObject(o[b][a]) => p[t[b]][a] = o[b][a]

\* They mean the same there.
LEMMA MeaningMoves ==
  ASSUME NEW o, NEW f, IsMeaning(o, f), GroundedTable(o),
         NEW p, NEW g, IsMeaning(p, g), NEW F, NEW t, Moves(o, p, F, t)
  PROVE  \A b \in F : g[t[b]] = f[b]
<1> USE DEF Moves
<1>0. PICK n \in Nat : \E r \in [Addresses -> 0..n] : Falls(o, r)
  BY DEF GroundedTable
<1>1. PICK r \in [Addresses -> 0..n] : Falls(o, r)
  BY <1>0
<1> DEFINE Other == {k \in Nat : \E b \in F : r[b] = k /\ g[t[b]] # f[b]}
<1>2. \A b \in Addresses : r[b] \in Nat
  BY <1>1
<1> SUFFICES ASSUME Other # {} PROVE FALSE
  BY <1>2
<1>3. PICK k \in Nat : k \in Other /\ \A j \in Other : k <= j
  <2>1. Other \in SUBSET Nat
    OBVIOUS
  <2> HIDE DEF Other
  <2> QED
    BY <2>1, LeastNumber
<1>4. PICK b \in F : r[b] = k /\ g[t[b]] # f[b]
  BY <1>3
<1>5. \A c \in F : r[c] < k => g[t[c]] = f[c]
  BY <1>2, <1>3
<1>6. b \in Addresses /\ t[b] \in Addresses /\ o[b] # Freed /\ p[t[b]] # Freed
  OBVIOUS
<1>7. f[b] = Unfolded(o, f, b) /\ g[t[b]] = Unfolded(p, g, t[b])
  BY <1>6 DEF IsMeaning
<1> DEFINE in(q, e, c, a) == IF IsObject(q[c][a]) THEN <<"object", e[q[c][a][2]]>> ELSE q[c][a]
<1>8. ASSUME NEW a \in Attributes
      PROVE  in(p, g, t[b], a) = in(o, f, b, a)
  <2>1. CASE IsObject(o[b][a])
    <3>1. PICK c \in F : c = o[b][a][2] /\ p[t[b]][a] = Object(t[c])
      BY <2>1
    <3>2. r[c] < k
      BY <1>1, <1>4, <1>6, <2>1, <3>1 DEF Falls
    <3>3. g[t[c]] = f[c]
      BY <1>5, <3>2
    <3>4. IsObject(Object(t[c])) /\ Object(t[c])[2] = t[c]
      BY ObjectFacts
    <3> QED
      BY <2>1, <3>1, <3>3, <3>4
  <2>2. CASE ~IsObject(o[b][a])
    BY <2>2
  <2> QED
    BY <2>1, <2>2
<1>9. /\ Unfolded(p, g, t[b]) = [a \in Attributes |-> in(p, g, t[b], a)]
      /\ Unfolded(o, f, b) = [a \in Attributes |-> in(o, f, b, a)]
  BY <1>6 DEF Unfolded
<1> HIDE DEF in
<1>10. g[t[b]] = f[b]
  BY <1>7, <1>8, <1>9
<1> QED
  BY <1>4, <1>10

-----------------------------------------------------------------------------
(* Assignments make no cycles.                                               *)

Grounded == GroundedTable(object)

\* A slot that is there after an assignment is the one assigned to, in the copy, or
\* kept, in an object that is neither freed nor copied over.
LEMMA SlotsAfter ==
  ASSUME MemoryIInv, NEW p \in Paths, NEW v, Stores(p, v), NEW place, place = PlaceOf(p),
         NEW from, from = Within(v), NEW gone, gone = Within(ValueAt(p)),
         NEW t, t = TargetsOf(ValueAt(p), v)
  PROVE  /\ \A c \in from, a \in Attributes :
              object'[t[c]] # Freed /\ object'[t[c]][a] = CopyOf(t, object[c][a])
         /\ \A b \in Blocks : object'[b] # Freed /\ (\A c \in from : b # t[c]) =>
              object[b] # Freed /\ b \notin gone
         /\ \A b \in Blocks : object[b] # Freed /\ b \notin gone =>
              object'[b] # Freed /\ \A c \in from : b # t[c]
         /\ \A b \in Blocks, a \in Attributes :
              object[b] # Freed /\ b \notin gone =>
                IF Slot(b, a) = place THEN object'[b][a] = CopyOf(t, v)
                ELSE object'[b][a] = object[b][a]
<1>1. /\ \A c \in from : t[c] \in Blocks /\ (object[t[c]] = Freed \/ t[c] \in gone)
  BY CopyFacts
<1>2. ASSUME NEW c \in from, NEW a \in Attributes
      PROVE  object'[t[c]] # Freed /\ object'[t[c]][a] = CopyOf(t, object[c][a])
  <2>1. Content(Slot(t[c], a))' = CopyOf(t, object[c][a])
    BY AfterStore
  <2>2. object'[t[c]] # Freed
    BY <1>1, AfterStore
  <2> QED
    BY <2>1, <2>2, PlacesNext
<1>3. \A b \in Blocks : object'[b] # Freed /\ (\A c \in from : b # t[c]) =>
        object[b] # Freed /\ b \notin gone
  BY AfterStore
<1>4. \A b \in Blocks : object[b] # Freed /\ b \notin gone =>
        object'[b] # Freed /\ \A c \in from : b # t[c]
  <2>1. \A b \in Blocks : object[b] # Freed /\ b \notin gone => object'[b] # Freed
    BY AfterStore
  <2> QED
    BY <1>1, <2>1
<1>5. ASSUME NEW b \in Blocks, NEW a \in Attributes, object[b] # Freed, b \notin gone
      PROVE  IF Slot(b, a) = place THEN object'[b][a] = CopyOf(t, v)
             ELSE object'[b][a] = object[b][a]
  <2>1. Content(place)' = CopyOf(t, v)
    BY AfterStore
  <2>2. CASE Slot(b, a) = place
    BY <2>1, <2>2, PlacesNext
  <2>3. CASE Slot(b, a) # place
    <3>1. Content(Slot(b, a))' = Content(Slot(b, a))
      BY <1>5, <2>3, AfterStore
    <3> QED
      BY <2>3, <3>1, PlacesNext, PlaceContents
  <2> QED
    BY <2>2, <2>3
<1> QED
  BY <1>2, <1>3, <1>4, <1>5

\* What a kept slot holds is kept.
LEMMA KeptInside ==
  ASSUME MemoryIInv, NEW p \in Paths, Reaches(p), NEW gone, gone = Within(ValueAt(p)),
         NEW b \in Blocks, NEW a \in Attributes, object[b] # Freed, b \notin gone,
         Slot(b, a) # PlaceOf(p), IsObject(object[b][a])
  PROVE  /\ object[b][a] = Object(object[b][a][2]) /\ object[b][a][2] \in Blocks
         /\ object[b][a][2] \notin gone /\ object[object[b][a][2]] # Freed
<1>1. PICK place : place = PlaceOf(p)
  OBVIOUS
<1>2. Slot(b, a) \in Places /\ Content(Slot(b, a)) = object[b][a]
  BY PlaceFacts, PlaceContents
<1>3. \A c \in gone, k \in Attributes : Slot(b, a) # Slot(c, k)
  BY PlaceKinds
<1>4. IsKept(Slot(b, a), place, gone)
  BY <1>1, <1>2, <1>3 DEF IsKept
<1> QED
  BY <1>1, <1>2, <1>4, KeptObject

\* The copy gets the ranks of what it was copied from, and all else ranks above these.
LEMMA GroundedAfter ==
  ASSUME MemoryIInv, Grounded, NEW p \in Paths, NEW v, Stores(p, v)
  PROVE  GroundedTable(object')
<1> PICK place, from, gone, t :
      /\ place = PlaceOf(p) /\ from = Within(v) /\ gone = Within(ValueAt(p))
      /\ t = TargetsOf(ValueAt(p), v)
  OBVIOUS
<1>0. ObjectsTypes /\ Reaches(p)
  BY DEF MemoryIInv, Stores
<1>1. PICK n \in Nat : \E r \in [Addresses -> 0..n] : Falls(object, r)
  BY DEF Grounded, GroundedTable
<1>2. PICK r \in [Addresses -> 0..n] : Falls(object, r)
  BY <1>1
<1>3. /\ \A c \in from : c \in Addresses /\ object[c] # Freed /\ t[c] \in Blocks
      /\ \A b, c \in from : t[b] = t[c] => b = c
      /\ \A c \in from, a \in Attributes :
           IsObject(object[c][a]) => object[c][a][2] \in from
      /\ IsObject(v) => v[2] \in from
  BY CopyFacts
<1>4. \A b \in Addresses : r[b] \in Nat /\ r[b] <= n
  BY <1>2
<1> DEFINE new(b) == \E c \in from : t[c] = b
<1> DEFINE s == [b \in Addresses |-> IF new(b) THEN r[CHOOSE c \in from : t[c] = b] ELSE r[b] + n + 1]
<1>5. \A c \in from : s[t[c]] = r[c]
  <2> TAKE c \in from
  <2>1. (CHOOSE d \in from : t[d] = t[c]) = c
    BY <1>3
  <2>2. t[c] \in Addresses /\ new(t[c])
    BY <1>3 DEF Addresses
  <2> QED
    BY <2>1, <2>2
<1>6. \A b \in Addresses : ~new(b) => s[b] = r[b] + n + 1
  OBVIOUS
<1>7. s \in [Addresses -> 0..(n + n + 1)]
  <2>1. ASSUME NEW b \in Addresses PROVE s[b] \in 0..(n + n + 1)
    <3>1. CASE new(b)
      <4>1. PICK c \in from : t[c] = b
        BY <3>1
      <4>2. s[b] = r[c] /\ r[c] \in Nat /\ r[c] <= n
        BY <1>3, <1>4, <1>5, <4>1
      <4> HIDE DEF s
      <4> QED
        BY <4>2
    <3>2. CASE ~new(b)
      BY <1>4, <1>6, <3>2
    <3> QED
      BY <3>1, <3>2
  <2> QED
    BY <2>1
<1> HIDE DEF s, new
<1>8. ASSUME NEW b \in Addresses, NEW a \in Attributes, object'[b] # Freed, IsObject(object'[b][a])
      PROVE  object'[b][a][2] \in Addresses /\ s[object'[b][a][2]] < s[b]
  <2>1. CASE new(b)
    <3>1. PICK c \in from : t[c] = b
      BY <2>1 DEF new
    <3>2. object'[b][a] = CopyOf(t, object[c][a])
      BY <3>1, SlotsAfter
    <3>3. IsObject(object[c][a])
      BY <1>8, <3>2 DEF CopyOf
    <3>4. PICK d \in from : d = object[c][a][2]
      BY <1>3, <3>3
    <3>5. object'[b][a] = Object(t[d])
      BY <3>2, <3>3, <3>4 DEF CopyOf
    <3>6. r[d] < r[c]
      BY <1>2, <1>3, <3>3, <3>4 DEF Falls
    <3>7. object'[b][a][2] = t[d] /\ t[d] \in Addresses
      BY <1>3, <3>5, ObjectFacts DEF Addresses
    <3> QED
      BY <1>5, <3>1, <3>6, <3>7
  <2>2. CASE ~new(b) /\ b = 0
    <3>1. object'[0] = Empty
      BY AfterStore
    <3> QED
      BY <1>8, <2>2, <3>1, NothingIsValue
  <2>3. CASE ~new(b) /\ b # 0
    <3>1. b \in Blocks /\ object[b] # Freed /\ b \notin gone
      BY <1>8, <2>3, SlotsAfter DEF new, Addresses
    <3>2. s[b] = r[b] + n + 1 /\ r[b] \in Nat
      BY <1>4, <1>6, <2>3
    <3>3. CASE Slot(b, a) = place
      <4>1. object'[b][a] = CopyOf(t, v)
        BY <3>1, <3>3, SlotsAfter
      <4>2. IsObject(v) /\ object'[b][a] = Object(t[v[2]])
        BY <1>8, <4>1 DEF CopyOf
      <4>3. object'[b][a][2] = t[v[2]] /\ v[2] \in from
        BY <1>3, <4>2, ObjectFacts
      <4>4. s[object'[b][a][2]] = r[v[2]] /\ r[v[2]] \in Nat /\ r[v[2]] <= n
        BY <1>3, <1>4, <1>5, <4>3
      <4>5. object'[b][a][2] \in Addresses
        BY <1>3, <4>3 DEF Addresses
      <4> QED
        BY <3>2, <4>4, <4>5
    <3>4. CASE Slot(b, a) # place
      <4>1. object'[b][a] = object[b][a]
        BY <3>1, <3>4, SlotsAfter
      <4>2. PICK d : d = object[b][a][2]
        OBVIOUS
      <4>3. d \in Blocks /\ d \notin gone /\ object[d] # Freed
        BY <1>0, <1>8, <3>1, <3>4, <4>1, <4>2, KeptInside
      <4>4. \A c \in from : d # t[c]
        BY <4>3, SlotsAfter
      <4>5. d \in Addresses /\ ~new(d)
        BY <4>3, <4>4 DEF Addresses, new
      <4>6. r[d] < r[b] /\ r[d] \in Nat
        BY <1>2, <1>4, <1>8, <3>1, <4>1, <4>2, <4>5 DEF Falls
      <4>7. s[d] = r[d] + n + 1
        BY <1>6, <4>5
      <4> QED
        BY <3>2, <4>1, <4>2, <4>5, <4>6, <4>7
    <3> QED
      BY <3>3, <3>4
  <2> QED
    BY <2>1, <2>2, <2>3
<1>9. Falls(object', s)
  BY <1>8 DEF Falls
<1>10. n + n + 1 \in Nat
  OBVIOUS
<1> QED
  BY <1>7, <1>9, <1>10 DEF GroundedTable

-----------------------------------------------------------------------------
(* What values mean after an assignment.                                       *)

\* A value, when the objects at all addresses mean what f says.
MeaningBy(f, v) == IF IsObject(v) THEN <<"object", f[v[2]]>> ELSE v

\* The objects that have the place of p inside.
OnTheWay(p) ==
  {b \in Blocks : /\ p[2] # <<>> /\ IsObject(Holder(p))
                  /\ Holder(p) = Object(b) \/ vars[p[1]] = Object(b)}

MiddleOf(p) == <<p[1], <<p[2][1]>>>>

LEMMA PathLengths ==
  ASSUME NEW p \in Paths
  PROVE  /\ p[2] = <<>> \/ (p[2] # <<>> /\ Len(p[2]) = 1) \/ (p[2] # <<>> /\ Len(p[2]) = 2)
         /\ Len(p[2]) = 1 => LastOf(p) = p[2][1]
         /\ Len(p[2]) = 2 => LastOf(p) = p[2][2]
         /\ p[2] = <<>> => Len(p[2]) = 0
<1>1. p[2] = <<>> \/ (\E a \in Attributes : p[2] = <<a>>) \/ p[2] \in Attributes \X Attributes
  BY DEF Paths
<1>2. CASE p[2] = <<>>
  BY <1>2
<1>3. CASE \E a \in Attributes : p[2] = <<a>>
  BY <1>3 DEF LastOf
<1>4. CASE p[2] \in Attributes \X Attributes
  <2>1. PICK a \in Attributes, c \in Attributes : p[2] = <<a, c>>
    BY <1>4
  <2> QED
    BY <2>1 DEF LastOf
<1> QED
  BY <1>1, <1>2, <1>3, <1>4

\* The places that hold the objects on the way.
LEMMA WayHeld ==
  ASSUME MemoryIInv, NEW p \in Paths, Reaches(p), p[2] # <<>>,
         NEW o \in Places, NEW b \in OnTheWay(p), Content(o) = Object(b)
  PROVE  \/ o = Var(p[1]) /\ vars[p[1]] = Object(b)
         \/ /\ Len(p[2]) = 2 /\ o = PlaceOf(MiddleOf(p)) /\ Holder(p) = Object(b)
            /\ vars[p[1]] # Object(b)
<1>1. Sole
  BY DEF MemoryIInv
<1>2. IsObject(Object(b))
  BY ObjectFacts
<1>3. Var(p[1]) \in Places /\ Content(Var(p[1])) = vars[p[1]]
  BY PathFacts, PlaceFacts, PlaceContents
<1>4. CASE vars[p[1]] = Object(b)
  BY <1>1, <1>2, <1>3, <1>4 DEF Sole
<1>5. CASE vars[p[1]] # Object(b)
  <2>1. Holder(p) = Object(b)
    BY <1>5 DEF OnTheWay
  <2>2. Len(p[2]) = 2
    BY <1>5, <2>1, PathLengths DEF Holder
  <2>3. PICK m : m = MiddleOf(p)
    OBVIOUS
  <2>4. m \in Paths /\ m[2] # <<>> /\ Holder(m) = vars[p[1]] /\ ValueAt(m) = Holder(p) /\ m[1] = p[1]
    BY <2>2, <2>3, MiddleFacts DEF MiddleOf, Holder
  <2>5. Reaches(m)
    BY <2>4 DEF Reaches
  <2>6. PlaceOf(m) \in Places /\ Content(PlaceOf(m)) = Object(b)
    BY <2>1, <2>4, <2>5, PlaceIsThere
  <2>7. o = PlaceOf(m)
    BY <1>1, <1>2, <2>6 DEF Sole
  <2> QED
    BY <1>5, <2>1, <2>2, <2>3, <2>7
<1> QED
  BY <1>4, <1>5

\* The middle of a chain of two is the slot or the field it is an attribute of.
LEMMA MiddlePlace ==
  ASSUME NEW p \in Paths, Len(p[2]) = 2
  PROVE  PlaceOf(MiddleOf(p)) =
           IF IsObject(vars[p[1]]) THEN Slot(vars[p[1]][2], p[2][1]) ELSE Field(vars[p[1]][2], p[2][1])
<1>1. PICK m : m = MiddleOf(p)
  OBVIOUS
<1>2. m \in Paths /\ m[2] # <<>> /\ Holder(m) = vars[p[1]]
  BY <1>1, MiddleFacts DEF MiddleOf
<1>3. m[2] = <<p[2][1]>>
  BY <1>1 DEF MiddleOf
<1>4. LastOf(m) = p[2][1]
  BY <1>3 DEF LastOf
<1> QED
  BY <1>1, <1>2, <1>4 DEF PlaceOf

\* An object that is off the way holds only objects that are.
LEMMA WayIsClosed ==
  ASSUME MemoryIInv, NEW p \in Paths, Reaches(p),
         NEW b \in Blocks, NEW a \in Attributes, object[b] # Freed, b \notin OnTheWay(p),
         NEW d \in Blocks, object[b][a] = Object(d)
  PROVE  d \notin OnTheWay(p) /\ Slot(b, a) # PlaceOf(p)
<1>1. Slot(b, a) \in Places /\ Content(Slot(b, a)) = Object(d)
  BY PlaceFacts, PlaceContents
<1>2. ASSUME d \in OnTheWay(p) PROVE FALSE
  <2>1. p[2] # <<>>
    BY <1>2 DEF OnTheWay
  <2>2. Len(p[2]) = 2 /\ Slot(b, a) = PlaceOf(MiddleOf(p)) /\ IsObject(Holder(p))
    BY <1>1, <1>2, <2>1, WayHeld, PlaceKinds, ObjectFacts
  <2>3. IsObject(vars[p[1]]) /\ vars[p[1]][2] = b
    BY <2>2, MiddlePlace, PlaceKinds
  <2>4. vars[p[1]] \in Contents
    BY PathFacts, ObjectsHoldValues DEF MemoryIInv
  <2>5. vars[p[1]] = Object(b)
    BY <2>3, <2>4, ValueFacts
  <2> QED
    BY <2>1, <2>2, <2>5 DEF OnTheWay
<1>3. ASSUME Slot(b, a) = PlaceOf(p) PROVE FALSE
  <2>1. p[2] # <<>> /\ IsObject(Holder(p)) /\ Holder(p)[2] = b
    BY <1>3, PlaceKinds DEF PlaceOf
  <2>2. Holder(p) = Object(b)
    BY <2>1, PlaceIsThere
  <2> QED
    BY <2>1, <2>2 DEF OnTheWay
<1> QED
  BY <1>2, <1>3

LEMMA MeaningsAfter ==
  ASSUME MemoryIInv, Grounded, NEW p \in Paths, NEW v, Stores(p, v),
         NEW from, from = Within(v), NEW gone, gone = Within(ValueAt(p)),
         NEW t, t = TargetsOf(ValueAt(p), v), NEW f, f = Pairs, NEW g, g = Pairs'
  PROVE  /\ \A c \in from : g[t[c]] = f[c]
         /\ \A b \in Blocks : object[b] # Freed /\ b \notin gone /\ b \notin OnTheWay(p) => g[b] = f[b]
         /\ MeaningBy(g, CopyOf(t, v)) = MeaningBy(f, v)
<1> PICK place : place = PlaceOf(p)
  OBVIOUS
<1>0. ObjectsTypes /\ Reaches(p)
  BY DEF MemoryIInv, Stores
<1>1. IsMeaning(object, f) /\ IsMeaning(object', g) /\ GroundedTable(object)
  BY PairsMean, PairsMeanNext, GroundedAfter DEF Grounded
<1>2. /\ \A c \in from : c \in Addresses /\ object[c] # Freed /\ t[c] \in Addresses
      /\ \A c \in from, a \in Attributes :
           IsObject(object[c][a]) => object[c][a][2] \in from
      /\ IsObject(v) => v[2] \in from
  BY CopyFacts DEF Addresses
<1>3. \A c \in from, a \in Attributes :
        object'[t[c]] # Freed /\ object'[t[c]][a] = CopyOf(t, object[c][a])
  BY SlotsAfter
<1>4. \A c \in from : g[t[c]] = f[c]
  <2>1. \A c \in from : object[c] # Freed /\ object'[t[c]] # Freed
    BY <1>2, <1>3, ObjectsAssumption
  <2>2. \A c \in from, a \in Attributes : IsObject(object[c][a]) =>
          object[c][a][2] \in from /\ object'[t[c]][a] = Object(t[object[c][a][2]])
    BY <1>2, <1>3 DEF CopyOf
  <2>3. \A c \in from, a \in Attributes : ~IsObject(object[c][a]) => object'[t[c]][a] = object[c][a]
    BY <1>3 DEF CopyOf
  <2>4. from \in SUBSET Addresses /\ \A c \in from : t[c] \in Addresses
    BY <1>2
  <2>5. Moves(object, object', from, t)
    BY <2>1, <2>2, <2>3, <2>4 DEF Moves
  <2> QED
    BY <1>1, <2>5, MeaningMoves
<1>5. ASSUME NEW b \in Blocks, object[b] # Freed, b \notin gone, b \notin OnTheWay(p)
      PROVE  g[b] = f[b]
  <2> DEFINE F == {c \in Blocks : object[c] # Freed /\ c \notin gone /\ c \notin OnTheWay(p)}
  <2> DEFINE same == [c \in F |-> c]
  <2>1. F \in SUBSET Addresses /\ \A c \in F : same[c] = c /\ same[c] \in Addresses
    BY DEF Addresses
  <2>2. \A c \in F : object[c] # Freed /\ object'[same[c]] # Freed
    BY <2>1, SlotsAfter
  <2>3. ASSUME NEW c \in F, NEW a \in Attributes, IsObject(object[c][a])
        PROVE  object[c][a][2] \in F /\ object'[same[c]][a] = Object(same[object[c][a][2]])
    <3>1. c \in Blocks /\ object[c] # Freed /\ c \notin gone /\ c \notin OnTheWay(p)
      OBVIOUS
    <3>2. object[c][a] \in Contents
      BY <1>0, <3>1, ObjectsHoldValues
    <3>3. PICK d \in Blocks : object[c][a] = Object(d) /\ d = object[c][a][2]
      BY <2>3, <3>2, ValueFacts
    <3>4. d \notin OnTheWay(p) /\ Slot(c, a) # PlaceOf(p)
      BY <1>0, <3>1, <3>3, WayIsClosed
    <3>5. d \notin gone /\ object[d] # Freed
      BY <1>0, <2>3, <3>1, <3>3, <3>4, KeptInside
    <3>6. object'[c][a] = object[c][a]
      BY <3>1, <3>4, SlotsAfter
    <3> QED
      BY <2>1, <3>3, <3>4, <3>5, <3>6
  <2>4. ASSUME NEW c \in F, NEW a \in Attributes, ~IsObject(object[c][a])
        PROVE  object'[same[c]][a] = object[c][a]
    <3>1. c \in Blocks /\ object[c] # Freed /\ c \notin gone /\ c \notin OnTheWay(p)
      OBVIOUS
    <3>2. Slot(c, a) # PlaceOf(p)
      <4> SUFFICES ASSUME Slot(c, a) = PlaceOf(p) PROVE FALSE
        OBVIOUS
      <4>1. p[2] # <<>> /\ IsObject(Holder(p)) /\ Holder(p)[2] = c
        BY PlaceKinds DEF PlaceOf
      <4>2. Holder(p) = Object(c)
        BY <1>0, <4>1, PlaceIsThere
      <4> QED
        BY <3>1, <4>1, <4>2 DEF OnTheWay
    <3>3. object'[c][a] = object[c][a]
      BY <3>1, <3>2, SlotsAfter
    <3> QED
      BY <2>1, <3>3
  <2>5. b \in F /\ same[b] = b
    BY <1>5
  <2> HIDE DEF F, same
  <2>6. Moves(object, object', F, same)
    BY <2>1, <2>2, <2>3, <2>4 DEF Moves
  <2>7. \A c \in F : g[same[c]] = f[c]
    BY <1>1, <2>6, MeaningMoves
  <2> QED
    BY <2>5, <2>7
<1>6. MeaningBy(g, CopyOf(t, v)) = MeaningBy(f, v)
  <2>1. CASE IsObject(v)
    <3>1. CopyOf(t, v) = Object(t[v[2]]) /\ g[t[v[2]]] = f[v[2]]
      BY <1>2, <1>4, <2>1 DEF CopyOf
    <3> QED
      BY <2>1, <3>1, ObjectFacts DEF MeaningBy
  <2>2. CASE ~IsObject(v)
    BY <2>2 DEF CopyOf, MeaningBy
  <2> QED
    BY <2>1, <2>2
<1> QED
  BY <1>4, <1>5, <1>6

\* What a kept place holds means what it did, unless that is on the way.
LEMMA OffTheWay ==
  ASSUME MemoryIInv, Grounded, NEW p \in Paths, NEW v, Stores(p, v),
         NEW place, place = PlaceOf(p), NEW gone, gone = Within(ValueAt(p)),
         NEW f, f = Pairs, NEW g, g = Pairs',
         NEW o, IsKept(o, place, gone), \A b \in OnTheWay(p) : Content(o) # Object(b)
  PROVE  MeaningBy(g, Content(o)) = MeaningBy(f, Content(o))
<1>1. CASE IsObject(Content(o))
  <2>1. PICK b : b = Content(o)[2]
    OBVIOUS
  <2>2. Content(o) = Object(b) /\ b \in Blocks /\ b \notin gone /\ object[b] # Freed
    BY <1>1, <2>1, KeptObject DEF Stores
  <2>3. b \notin OnTheWay(p)
    BY <2>2
  <2>4. g[b] = f[b]
    BY <2>2, <2>3, MeaningsAfter
  <2> QED
    BY <1>1, <2>1, <2>4 DEF MeaningBy
<1>2. CASE ~IsObject(Content(o))
  BY <1>2 DEF MeaningBy
<1> QED
  BY <1>1, <1>2

\* An object of which one attribute is another.
LEMMA OneChanged ==
  ASSUME NEW o, NEW f, IsMeaning(o, f), NEW p, NEW g, IsMeaning(p, g),
         NEW b \in Addresses, o[b] # Freed, p[b] # Freed, NEW k \in Attributes,
         \A c \in Attributes : c # k => MeaningBy(g, p[b][c]) = MeaningBy(f, o[b][c])
  PROVE  g[b] = [f[b] EXCEPT ![k] = MeaningBy(g, p[b][k])]
<1>1. ASSUME NEW q, NEW e, IsMeaning(q, e), q[b] # Freed
      PROVE  e[b] = [a \in Attributes |-> MeaningBy(e, q[b][a])]
  <2>1. e[b] = Unfolded(q, e, b)
    BY <1>1 DEF IsMeaning
  <2> QED
    BY <1>1, <2>1 DEF Unfolded, MeaningBy
<1>2. /\ f[b] = [a \in Attributes |-> MeaningBy(f, o[b][a])]
      /\ g[b] = [a \in Attributes |-> MeaningBy(g, p[b][a])]
  BY <1>1
<1> QED
  BY <1>2

LEMMA HolderAfter ==
  ASSUME MemoryIInv, Grounded, NEW p \in Paths, NEW v, Stores(p, v),
         p[2] # <<>>, IsObject(Holder(p)), NEW h, h = Holder(p)[2],
         NEW f, f = Pairs, NEW g, g = Pairs'
  PROVE  g[h] = [f[h] EXCEPT ![LastOf(p)] = MeaningBy(f, v)]
<1> PICK place, from, gone, t, k :
      /\ place = PlaceOf(p) /\ from = Within(v) /\ gone = Within(ValueAt(p))
      /\ t = TargetsOf(ValueAt(p), v) /\ k = LastOf(p)
  OBVIOUS
<1>0. Reaches(p) /\ k \in Attributes /\ place = Slot(h, k)
  BY PathFacts DEF Stores, PlaceOf
<1>1. h \in Blocks /\ h \in Addresses /\ object[h] # Freed /\ Holder(p) = Object(h) /\ h \notin gone
  BY <1>0, PlaceIsThere, NotWithinItself DEF Addresses
<1>2. object'[h] # Freed /\ object'[h][k] = CopyOf(t, v)
  <2>1. object'[h] # Freed
    BY <1>1, SlotsAfter
  <2>2. \A a \in Attributes : Slot(h, a) = place => object'[h][a] = CopyOf(t, v)
    BY <1>1, SlotsAfter
  <2>3. object'[h][k] = CopyOf(t, v)
    BY <1>0, <2>2
  <2> QED
    BY <2>1, <2>3
<1>3. ASSUME NEW c \in Attributes, c # k
      PROVE  MeaningBy(g, object'[h][c]) = MeaningBy(f, object[h][c])
  <2>1. Slot(h, c) # place /\ Slot(h, c) \in Places /\ Content(Slot(h, c)) = object[h][c]
    BY <1>0, <1>1, <1>3, PlaceKinds, PlaceFacts, PlaceContents
  <2>2. object'[h][c] = object[h][c]
    BY <1>1, <2>1, SlotsAfter
  <2>3. ASSUME NEW b \in OnTheWay(p), object[h][c] = Object(b) PROVE FALSE
    <3>1. /\ Len(p[2]) = 2 /\ Slot(h, c) = PlaceOf(MiddleOf(p)) /\ Holder(p) = Object(b)
          /\ vars[p[1]] # Object(b)
      BY <1>0, <2>1, <2>3, WayHeld, PlaceKinds
    <3>2. IsObject(vars[p[1]]) /\ vars[p[1]][2] = h
      BY <3>1, MiddlePlace, PlaceKinds
    <3>3. vars[p[1]] \in Contents
      BY PathFacts, ObjectsHoldValues DEF MemoryIInv
    <3>4. vars[p[1]] = Object(h) /\ b = h
      BY <1>1, <3>1, <3>2, <3>3, ValueFacts, ObjectFacts
    <3> QED
      BY <3>1, <3>4
  <2>4. \A e \in gone, a \in Attributes : Slot(h, c) # Slot(e, a)
    BY <1>1, PlaceKinds
  <2>5. IsKept(Slot(h, c), place, gone)
    BY <2>1, <2>4 DEF IsKept
  <2>6. MeaningBy(g, Content(Slot(h, c))) = MeaningBy(f, Content(Slot(h, c)))
    BY <2>1, <2>3, <2>5, OffTheWay
  <2> QED
    BY <2>1, <2>2, <2>6
<1>4. IsMeaning(object, f) /\ IsMeaning(object', g)
  BY PairsMean, PairsMeanNext, GroundedAfter DEF Grounded
<1>5. g[h] = [f[h] EXCEPT ![k] = MeaningBy(g, object'[h][k])]
  BY <1>0, <1>1, <1>2, <1>3, <1>4, OneChanged
<1>6. MeaningBy(g, CopyOf(t, v)) = MeaningBy(f, v)
  BY MeaningsAfter
<1> QED
  BY <1>2, <1>5, <1>6

LEMMA TopAfter ==
  ASSUME MemoryIInv, Grounded, NEW p \in Paths, NEW v, Stores(p, v),
         Len(p[2]) = 2, p[2] # <<>>, IsObject(Holder(p)), NEW h, h = Holder(p)[2],
         IsObject(vars[p[1]]), NEW b, b = vars[p[1]][2],
         NEW f, f = Pairs, NEW g, g = Pairs'
  PROVE  g[b] = [f[b] EXCEPT ![p[2][1]] = <<"object", g[h]>>]
<1> PICK place, from, gone, t, k :
      /\ place = PlaceOf(p) /\ from = Within(v) /\ gone = Within(ValueAt(p))
      /\ t = TargetsOf(ValueAt(p), v) /\ k = p[2][1]
  OBVIOUS
<1>0. Reaches(p) /\ k \in Attributes /\ Sole /\ ObjectsTypes /\ place = Slot(h, LastOf(p))
  BY PathFacts DEF Stores, MemoryIInv, PlaceOf
<1>1. Holder(p) = Object(h)
  BY <1>0, PlaceIsThere
<1>2. /\ Var(p[1]) \in Places /\ Content(Var(p[1])) = vars[p[1]] /\ Var(p[1]) # place
      /\ \A e \in gone, a \in Attributes : Var(p[1]) # Slot(e, a)
  <2>1. Var(p[1]) \in Places /\ Content(Var(p[1])) = vars[p[1]]
    BY PathFacts, PlaceFacts, PlaceContents
  <2>2. Var(p[1]) # Slot(h, LastOf(p))
    BY PlaceKinds
  <2>3. \A e \in gone, a \in Attributes : Var(p[1]) # Slot(e, a)
    BY PlaceKinds
  <2> QED
    BY <1>0, <2>1, <2>2, <2>3
<1>3. IsKept(Var(p[1]), place, gone)
  BY <1>2 DEF IsKept
<1>4. vars[p[1]] = Object(b) /\ b \in Blocks /\ b \notin gone /\ object[b] # Freed /\ b \in Addresses
  <2>1. IsObject(Content(Var(p[1])))
    BY <1>2
  <2>2. /\ Content(Var(p[1])) = Object(Content(Var(p[1]))[2]) /\ Content(Var(p[1]))[2] \in Blocks
        /\ Content(Var(p[1]))[2] \notin gone /\ object[Content(Var(p[1]))[2]] # Freed
    BY <1>0, <1>3, <2>1, KeptObject
  <2> QED
    BY <1>2, <2>2 DEF Addresses
<1>5. object[b][k] = Object(h) /\ Slot(b, k) \in Places /\ Content(Slot(b, k)) = Object(h)
  BY <1>0, <1>1, <1>4, AttributeFacts, PlaceFacts, PlaceContents DEF Holder
<1>6. b # h
  <2>1. b = h => Slot(b, k) = Var(p[1])
    BY <1>0, <1>2, <1>4, <1>5, ObjectFacts DEF Sole
  <2> QED
    BY <2>1, PlaceKinds
<1>7. \A c \in Attributes : Slot(b, c) # place /\ object'[b][c] = object[b][c]
  <2>1. \A c \in Attributes : Slot(b, c) # place
    BY <1>0, <1>6, PlaceKinds
  <2> QED
    BY <1>4, <2>1, SlotsAfter
<1>8. object'[b] # Freed
  BY <1>4, SlotsAfter
<1>9. ASSUME NEW c \in Attributes, c # k
      PROVE  MeaningBy(g, object'[b][c]) = MeaningBy(f, object[b][c])
  <2>1. Slot(b, c) # place /\ Slot(b, c) \in Places /\ Content(Slot(b, c)) = object[b][c]
    BY <1>4, <1>7, PlaceFacts, PlaceContents
  <2>2. ASSUME NEW d \in OnTheWay(p), object[b][c] = Object(d) PROVE FALSE
    <3>1. Slot(b, c) = PlaceOf(MiddleOf(p))
      BY <1>0, <2>1, <2>2, WayHeld, PlaceKinds
    <3> QED
      BY <1>9, <3>1, MiddlePlace, PlaceKinds
  <2>3. \A e \in gone, a \in Attributes : Slot(b, c) # Slot(e, a)
    BY <1>4, PlaceKinds
  <2>4. IsKept(Slot(b, c), place, gone)
    BY <2>1, <2>3 DEF IsKept
  <2>5. MeaningBy(g, Content(Slot(b, c))) = MeaningBy(f, Content(Slot(b, c)))
    BY <2>1, <2>2, <2>4, OffTheWay
  <2> QED
    BY <1>7, <2>1, <2>5
<1>10. IsMeaning(object, f) /\ IsMeaning(object', g)
  BY PairsMean, PairsMeanNext, GroundedAfter DEF Grounded
<1>11. g[b] = [f[b] EXCEPT ![k] = MeaningBy(g, object'[b][k])]
  <2>1. b \in Addresses /\ object[b] # Freed /\ k \in Attributes
    BY <1>0, <1>4
  <2> QED
    BY <1>8, <1>9, <1>10, <2>1, OneChanged
<1>12. MeaningBy(g, object'[b][k]) = <<"object", g[h]>>
  <2>1. object'[b][k] = Object(h)
    BY <1>0, <1>5, <1>7
  <2> QED
    BY <2>1, ObjectFacts DEF MeaningBy
<1> QED
  BY <1>11, <1>12

\* Every variable and every attribute of an instance means what it did, but the place
\* assigned to and the one that holds the objects on the way.
LEMMA OthersAfter ==
  ASSUME MemoryIInv, Grounded, NEW p \in Paths, NEW v, Stores(p, v),
         NEW f, f = Pairs, NEW g, g = Pairs'
  PROVE  /\ \A y \in Variables :
              \/ y # p[1]
              \/ p[2] # <<>> /\ (~IsObject(Holder(p)) \/ ~IsObject(vars[p[1]]))
              => MeaningBy(g, vars'[y]) = MeaningBy(f, vars[y])
         /\ \A i \in Instances, a \in Attributes :
              /\ Field(i, a) # PlaceOf(p)
              /\ ~(p[2] # <<>> /\ Len(p[2]) = 2 /\ IsObject(Holder(p)) /\ Field(i, a) = PlaceOf(MiddleOf(p)))
              => MeaningBy(g, instance'[i][a]) = MeaningBy(f, instance[i][a])
<1> PICK place, from, gone, t :
      /\ place = PlaceOf(p) /\ from = Within(v) /\ gone = Within(ValueAt(p))
      /\ t = TargetsOf(ValueAt(p), v)
  OBVIOUS
<1>0. Reaches(p)
  BY DEF Stores
<1>1. ASSUME NEW o, IsKept(o, place, gone),
             NEW b \in OnTheWay(p), Content(o) = Object(b)
      PROVE  \/ o = Var(p[1]) /\ vars[p[1]] = Object(b) /\ p[2] # <<>> /\ IsObject(Holder(p))
             \/ p[2] # <<>> /\ Len(p[2]) = 2 /\ IsObject(Holder(p)) /\ o = PlaceOf(MiddleOf(p))
  <2>1. o \in Places /\ p[2] # <<>> /\ IsObject(Holder(p))
    BY <1>1 DEF IsKept, OnTheWay
  <2> QED
    BY <1>0, <1>1, <2>1, WayHeld
<1>2. ASSUME NEW y \in Variables,
             \/ y # p[1]
             \/ p[2] # <<>> /\ (~IsObject(Holder(p)) \/ ~IsObject(vars[p[1]]))
      PROVE  MeaningBy(g, vars'[y]) = MeaningBy(f, vars[y])
  <2>1. Var(y) # place
    BY <1>2, PlaceKinds DEF PlaceOf
  <2>2. IsKept(Var(y), place, gone)
    BY <2>1, PlaceFacts, PlaceKinds DEF IsKept
  <2>3. Content(Var(y)) = vars[y] /\ vars'[y] = vars[y]
    BY <2>2, PlacesAfter, PlacesNext, PlaceContents
  <2>4. ASSUME NEW b \in OnTheWay(p), Content(Var(y)) = Object(b) PROVE FALSE
    <3>1. CASE Var(y) = Var(p[1]) /\ vars[p[1]] = Object(b) /\ p[2] # <<>> /\ IsObject(Holder(p))
      BY <1>2, <3>1, PlaceKinds, ObjectFacts
    <3>2. CASE Len(p[2]) = 2 /\ Var(y) = PlaceOf(MiddleOf(p))
      BY <3>2, MiddlePlace, PlaceKinds
    <3> QED
      BY <1>1, <2>2, <2>4, <3>1, <3>2
  <2> QED
    BY <2>2, <2>3, <2>4, OffTheWay
<1>3. ASSUME NEW i \in Instances, NEW a \in Attributes, Field(i, a) # PlaceOf(p),
             ~(p[2] # <<>> /\ Len(p[2]) = 2 /\ IsObject(Holder(p)) /\ Field(i, a) = PlaceOf(MiddleOf(p)))
      PROVE  MeaningBy(g, instance'[i][a]) = MeaningBy(f, instance[i][a])
  <2>2. IsKept(Field(i, a), place, gone)
    BY <1>3, PlaceFacts, PlaceKinds DEF IsKept
  <2>3. Content(Field(i, a)) = instance[i][a] /\ instance'[i][a] = instance[i][a]
    BY <2>2, PlacesAfter, PlacesNext, PlaceContents
  <2>4. ASSUME NEW b \in OnTheWay(p), Content(Field(i, a)) = Object(b) PROVE FALSE
    BY <1>1, <1>3, <2>2, <2>4, PlaceKinds
  <2> QED
    BY <2>2, <2>3, <2>4, OffTheWay
<1> QED
  BY <1>2, <1>3

-----------------------------------------------------------------------------
(* Objects implements ValueSpec.                                             *)

LEMMA MeaningFacts ==
  /\ \A v : Meaning(v) = MeaningBy(Pairs, v)
  /\ \A x : Meaning(vars[x])' = MeaningBy(Pairs', vars'[x])
  /\ \A i, a : Meaning(instance[i][a])' = MeaningBy(Pairs', instance'[i][a])
  BY DEF Meaning, MeaningBy, IsObject

\* What a value is is seen in its meaning.
LEMMA MeaningKinds ==
  ASSUME NEW v
  PROVE  /\ Promised!IsObject(Meaning(v)) <=> IsObject(v)
         /\ Promised!IsInstance(Meaning(v)) <=> IsInstance(v)
         /\ Promised!IsContainer(Meaning(v)) <=> IsContainer(v)
         /\ IsObject(v) => Meaning(v) = <<"object", Pairs[v[2]]>> /\ Meaning(v)[2] = Pairs[v[2]]
         /\ ~IsObject(v) => Meaning(v) = v
<1>1. CASE IsObject(v)
  BY <1>1 DEF Meaning, IsObject, IsInstance, IsContainer,
              Promised!IsObject, Promised!IsInstance, Promised!IsContainer
<1>2. CASE ~IsObject(v)
  BY <1>2 DEF Meaning, IsObject, IsInstance, IsContainer,
              Promised!IsObject, Promised!IsInstance, Promised!IsContainer
<1> QED
  BY <1>1, <1>2

LEMMA AttributeMeans ==
  ASSUME MemoryIInv, Grounded, NEW w \in Contents, IsObject(w) => object[w[2]] # Freed,
         NEW a \in Attributes
  PROVE  Promised!Attribute(Meaning(w), a) = Meaning(Attribute(w, a))
<1>1. CASE IsObject(w)
  <2>1. PICK b \in Addresses : b = w[2] /\ object[b] # Freed
    BY <1>1, ValueFacts DEF Addresses
  <2>2. Pairs[b] = Unfolded(object, Pairs, b)
    BY PairsMean DEF Grounded, IsMeaning
  <2>3. Pairs[b][a] = Meaning(object[b][a])
    BY <2>1, <2>2 DEF Unfolded, Meaning
  <2>4. Promised!Attribute(Meaning(w), a) = Meaning(w)[2][a]
    <3>1. ~IsInstance(w)
      BY <1>1 DEF IsObject, IsInstance
    <3> QED
      BY <1>1, <3>1, MeaningKinds DEF Promised!Attribute
  <2> QED
    BY <1>1, <2>1, <2>3, <2>4, MeaningKinds, AttributeFacts
<1>2. CASE IsInstance(w)
  <2>1. w[2] \in Instances /\ ~IsObject(w)
    BY <1>2, ValueFacts, InstanceFacts
  <2>2. Promised!Attribute(w, a) = Meaning(instance[w[2]][a])
    BY <1>2, <2>1 DEF Promised!Attribute, Promised!IsObject, Promised!IsInstance, IsObject, IsInstance
  <2> QED
    BY <1>2, <2>1, <2>2, MeaningKinds, AttributeFacts
<1>3. CASE ~IsObject(w) /\ ~IsInstance(w)
  <2>1. Promised!Attribute(w, a) = Nothing /\ Attribute(w, a) = Nothing
    BY <1>3 DEF Promised!Attribute, Promised!IsObject, Promised!IsInstance, IsObject, IsInstance,
                Attribute, Promised!Nothing, Nothing
  <2> QED
    BY <1>3, <2>1, MeaningKinds, NothingIsValue
<1> QED
  BY <1>1, <1>2, <1>3

LEMMA VariableMeans ==
  ASSUME MemoryIInv, Grounded, NEW p \in Paths
  PROVE  /\ vars[p[1]] \in Contents
         /\ IsObject(vars[p[1]]) => object[vars[p[1]][2]] # Freed
         /\ [x \in Variables |-> Meaning(vars[x])][p[1]] = Meaning(vars[p[1]])
         /\ p[2] # <<>> => Promised!Holder(p) = Meaning(Holder(p))
<1>1. p[1] \in Variables /\ (p[2] # <<>> => p[2][1] \in Attributes)
  BY PathFacts
<1>2. /\ vars[p[1]] \in Contents
      /\ IsObject(vars[p[1]]) => object[vars[p[1]][2]] # Freed
  BY <1>1, PlaceFacts, PlaceContents, ObjectsHoldValues DEF MemoryIInv, HeldAreInUse
<1>3. [x \in Variables |-> Meaning(vars[x])][p[1]] = Meaning(vars[p[1]])
  BY <1>1
<1>4. ASSUME p[2] # <<>> PROVE Promised!Holder(p) = Meaning(Holder(p))
  <2>1. Promised!Attribute(Meaning(vars[p[1]]), p[2][1]) = Meaning(Attribute(vars[p[1]], p[2][1]))
    BY <1>1, <1>2, <1>4, AttributeMeans
  <2> QED
    BY <1>3, <2>1 DEF Promised!Holder, Holder
<1> QED
  BY <1>2, <1>3, <1>4

LEMMA PathMeans ==
  ASSUME MemoryIInv, Grounded, NEW p \in Paths, Reaches(p)
  PROVE  Promised!ValueAt(p) = Meaning(ValueAt(p)) /\ Promised!Reaches(p)
<1>1. CASE p[2] = <<>>
  BY <1>1, VariableMeans DEF Promised!ValueAt, ValueAt, Promised!Reaches
<1>2. CASE p[2] # <<>>
  <2>1. LastOf(p) \in Attributes /\ Holder(p) \in Contents
    BY <1>2, PathFacts, HolderHeld
  <2>2. IsObject(Holder(p)) => object[Holder(p)[2]] # Freed
    BY <1>2, PlaceIsThere
  <2>3. Promised!Attribute(Meaning(Holder(p)), LastOf(p)) = Meaning(Attribute(Holder(p), LastOf(p)))
    BY <2>1, <2>2, AttributeMeans
  <2>4. Promised!Holder(p) = Meaning(Holder(p))
    BY <1>2, VariableMeans
  <2>5. Promised!ValueAt(p) = Meaning(ValueAt(p))
    BY <1>2, <2>3, <2>4 DEF Promised!ValueAt, ValueAt, LastOf
  <2>6. Promised!Reaches(p)
    BY <1>2, <2>4, VariableMeans, MeaningKinds DEF Promised!Reaches, Reaches
  <2> QED
    BY <2>5, <2>6
<1> QED
  BY <1>1, <1>2

\* An assignment in memory is a write of the meaning.
LEMMA StoreMeans ==
  ASSUME MemoryIInv, Grounded, NEW p \in Paths, NEW v, Stores(p, v)
  PROVE  Promised!Write(p, Meaning(v))
<1> PICK f, g, w, x, t, place :
      /\ f = Pairs /\ g = Pairs' /\ w = Meaning(v)
      /\ x = p[1] /\ t = TargetsOf(ValueAt(p), v) /\ place = PlaceOf(p)
  OBVIOUS
<1> DEFINE env == [y \in Variables |-> Meaning(vars[y])]
<1> DEFINE fields == [i \in Instances |-> [a \in Attributes |-> Meaning(instance[i][a])]]
<1>0. Reaches(p) /\ x \in Variables /\ ObjectsTypes
  BY PathFacts DEF Stores, MemoryIInv
<1>1. /\ \A y \in Variables : env[y] = MeaningBy(f, vars[y]) /\ env'[y] = MeaningBy(g, vars'[y])
      /\ \A i \in Instances, a \in Attributes :
           fields[i][a] = MeaningBy(f, instance[i][a]) /\ fields'[i][a] = MeaningBy(g, instance'[i][a])
  BY MeaningFacts
<1>2. /\ env = [y \in Variables |-> env[y]] /\ env' = [y \in Variables |-> env'[y]]
      /\ fields = [i \in Instances |-> [a \in Attributes |-> fields[i][a]]]
      /\ fields' = [i \in Instances |-> [a \in Attributes |-> fields'[i][a]]]
  OBVIOUS
<1>3. /\ \A i, a, u : Promised!WriteField(i, a, u) <=>
           fields' = [fields EXCEPT ![i][a] = u] /\ env' = env
      /\ \A y, u : Promised!WriteVariable(y, u) <=> env' = [env EXCEPT ![y] = u] /\ fields' = fields
  BY DEF Promised!WriteField, Promised!WriteVariable
<1>4. /\ Promised!IsInstance(env[x]) <=> IsInstance(vars[x])
      /\ Promised!IsObject(env[x]) <=> IsObject(vars[x])
      /\ IsObject(vars[x]) => env[x] = <<"object", f[vars[x][2]]>>
      /\ ~IsObject(vars[x]) => env[x] = vars[x]
  BY <1>0, MeaningKinds
<1>5. /\ \A a, u : Promised!WriteAttribute(x, a, u) <=>
           \/ IsInstance(vars[x]) /\ Promised!WriteField(vars[x][2], a, u)
           \/ IsObject(vars[x]) /\ Promised!WriteVariable(x, <<"object", [f[vars[x][2]] EXCEPT ![a] = u]>>)
  <2>1. \A a, u : IsObject(vars[x]) =>
          Promised!With(env[x], a, u) = <<"object", [f[vars[x][2]] EXCEPT ![a] = u]>>
    BY <1>4 DEF Promised!With, Promised!Object
  <2>2. IsInstance(vars[x]) => ~IsObject(vars[x])
    BY DEF IsObject, IsInstance
  <2> QED
    BY <1>4, <2>1, <2>2 DEF Promised!WriteAttribute
<1> HIDE DEF env, fields
<1>6. \A y \in Variables : y # x => env'[y] = env[y]
  BY <1>1, OthersAfter
<1>7. p[2] # <<>> /\ (~IsObject(Holder(p)) \/ ~IsObject(vars[x])) => env' = env
  <2>1. p[2] # <<>> /\ (~IsObject(Holder(p)) \/ ~IsObject(vars[x])) => env'[x] = env[x]
    BY <1>0, <1>1, OthersAfter
  <2> QED
    BY <1>2, <1>6, <2>1
<1>8. ASSUME NEW u, env'[x] = u PROVE env' = [env EXCEPT ![x] = u]
  BY <1>2, <1>6, <1>8
<1>9. ASSUME \A i \in Instances, a \in Attributes : fields'[i][a] = fields[i][a]
      PROVE  fields' = fields
  BY <1>2, <1>9
<1>10. ASSUME NEW i \in Instances, NEW a \in Attributes, NEW u, fields'[i][a] = u,
              \A j \in Instances, c \in Attributes : j # i \/ c # a => fields'[j][c] = fields[j][c]
       PROVE  fields' = [fields EXCEPT ![i][a] = u]
  <2> DEFINE e == [fields EXCEPT ![i][a] = u]
  <2>1. \A j \in Instances : fields[j] = [c \in Attributes |-> fields[j][c]]
    BY <1>2
  <2>2. e = [j \in Instances |-> IF j = i THEN [fields[i] EXCEPT ![a] = u] ELSE fields[j]]
    BY <1>2
  <2>3. \A j \in Instances : fields'[j] = [c \in Attributes |-> fields'[j][c]]
    BY <1>2
  <2>4. fields'[i] = [fields[i] EXCEPT ![a] = u]
    BY <1>10, <2>1, <2>3
  <2>5. \A j \in Instances : j # i => fields'[j] = fields[j]
    BY <1>10, <2>1, <2>3
  <2>6. fields' = [j \in Instances |-> fields'[j]]
    BY <1>2
  <2> QED
    BY <2>2, <2>4, <2>5, <2>6
<1>11. MeaningBy(g, CopyOf(t, v)) = w /\ MeaningBy(f, v) = w
  BY MeaningsAfter, MeaningFacts
<1>12. Content(place)' = CopyOf(t, v)
  BY AfterStore
<1>13. p[2] = <<>> \/ (p[2] # <<>> /\ Len(p[2]) = 1) \/ (p[2] # <<>> /\ Len(p[2]) = 2)
  BY PathLengths
<1>14. CASE p[2] = <<>>
  <2>1. place = Var(x)
    BY <1>14 DEF PlaceOf
  <2>2. env'[x] = w
    BY <1>0, <1>1, <1>11, <1>12, <2>1, PlacesNext
  <2>3. fields' = fields
    <3>1. \A i, a : Field(i, a) # place
      BY <2>1, PlaceKinds
    <3>2. \A i \in Instances, a \in Attributes :
            MeaningBy(g, instance'[i][a]) = MeaningBy(f, instance[i][a])
      BY <1>14, <3>1, OthersAfter
    <3> QED
      BY <1>1, <1>9, <3>2
  <2>4. Promised!WriteVariable(x, w)
    BY <1>3, <1>8, <2>2, <2>3
  <2> QED
    BY <1>14, <2>4 DEF Promised!Write
<1>15. ASSUME p[2] # <<>>, NEW i, NEW a, Field(i, a) = place, ~IsObject(Holder(p))
       PROVE  Promised!WriteField(i, a, w)
  <2>1. i \in Instances /\ a \in Attributes /\ i = Holder(p)[2] /\ a = LastOf(p)
    BY <1>0, <1>15, PlaceKinds, PathFacts, PlaceIsThere, HolderHeld DEF PlaceOf, IsContainer
  <2>2. fields'[i][a] = w
    BY <1>1, <1>11, <1>12, <1>15, <2>1, PlacesNext
  <2>3. \A j \in Instances, c \in Attributes : j # i \/ c # a => fields'[j][c] = fields[j][c]
    BY <1>1, <1>15, OthersAfter, PlaceKinds
  <2>4. env' = env
    BY <1>7, <1>15
  <2> QED
    BY <1>3, <1>10, <2>1, <2>2, <2>3, <2>4
<1>16. CASE p[2] # <<>> /\ IsInstance(Holder(p))
  <2>1. ~IsObject(Holder(p))
    BY <1>16 DEF IsObject, IsInstance
  <2>2. place = Field(Holder(p)[2], LastOf(p))
    BY <1>16, <2>1 DEF PlaceOf
  <2>3. Promised!WriteField(Holder(p)[2], LastOf(p), w)
    BY <1>15, <1>16, <2>1, <2>2
  <2>4. CASE Len(p[2]) = 1
    <3>1. Holder(p) = vars[x] /\ LastOf(p) = p[2][1]
      BY <2>4, PathLengths DEF Holder
    <3>2. Promised!WriteAttribute(x, p[2][1], w)
      BY <1>5, <1>16, <2>3, <3>1
    <3> QED
      BY <2>4, <3>2 DEF Promised!Write
  <2>5. CASE Len(p[2]) = 2
    <3>1. LastOf(p) = p[2][2]
      BY <2>5, PathLengths
    <3>2. Promised!Holder(p) = Meaning(Holder(p))
      BY <1>16, VariableMeans
    <3>3. Promised!IsInstance(Promised!Holder(p)) /\ Promised!Holder(p)[2] = Holder(p)[2]
      BY <1>16, <2>1, <3>2, MeaningKinds
    <3> QED
      BY <2>3, <2>5, <3>1, <3>3 DEF Promised!Write
  <2> QED
    BY <1>13, <1>16, <2>4, <2>5
<1>17. CASE p[2] # <<>> /\ IsObject(Holder(p))
  <2>1. PICK h : h = Holder(p)[2]
    OBVIOUS
  <2>2. g[h] = [f[h] EXCEPT ![LastOf(p)] = w]
    BY <1>11, <1>17, <2>1, HolderAfter
  <2>3. place = Slot(h, LastOf(p)) /\ Holder(p) = Object(h)
    BY <1>0, <1>17, <2>1, PlaceIsThere DEF PlaceOf
  <2>4. \A i, a : Field(i, a) # place
    BY <2>3, PlaceKinds
  <2>5. p[2] # <<>> /\ Var(x) # place
    BY <1>17, <2>3, PlaceKinds
  <2>6. vars'[x] = vars[x]
    <3>1. PICK gone, from : gone = Within(ValueAt(p)) /\ from = Within(v)
      OBVIOUS
    <3>2. Content(Var(x))' = Content(Var(x))
      BY <1>0, <2>5, <3>1, AfterStore
    <3> QED
      BY <3>2, PlacesNext, PlaceContents
  <2>7. CASE Len(p[2]) = 1
    <3>1. Holder(p) = vars[x] /\ LastOf(p) = p[2][1]
      BY <2>7, PathLengths DEF Holder
    <3>2. env'[x] = <<"object", g[h]>>
      <4>1. env'[x] = MeaningBy(g, vars'[x])
        BY <1>0, <1>1
      <4>2. IsObject(vars'[x]) /\ vars'[x][2] = h
        BY <1>17, <2>1, <2>6, <3>1
      <4>3. MeaningBy(g, vars'[x]) = <<"object", g[h]>>
        BY <4>2 DEF MeaningBy
      <4> QED
        BY <4>1, <4>3
    <3>3. fields' = fields
      BY <1>1, <1>9, <2>4, <2>7, OthersAfter
    <3>4. Promised!WriteVariable(x, <<"object", g[h]>>)
      BY <1>3, <1>8, <3>2, <3>3
    <3>5. Promised!WriteAttribute(x, p[2][1], w)
      BY <1>5, <1>17, <2>1, <2>2, <3>1, <3>4
    <3> QED
      BY <2>7, <3>5 DEF Promised!Write
  <2>8. CASE Len(p[2]) = 2
    <3>1. LastOf(p) = p[2][2]
      BY <2>8, PathLengths
    <3>2. Promised!Holder(p) = Meaning(Holder(p))
      BY <1>17, VariableMeans
    <3>3. Promised!IsObject(Promised!Holder(p)) /\ Promised!Holder(p)[2] = f[h]
      BY <1>17, <2>1, <3>2, MeaningKinds
    <3>4. Promised!With(Promised!Holder(p), p[2][2], w) = <<"object", g[h]>>
      BY <2>2, <3>1, <3>3 DEF Promised!With, Promised!Object
    <3>5. Promised!WriteAttribute(x, p[2][1], <<"object", g[h]>>)
      <4>1. CASE IsObject(vars[x])
        <5>1. PICK b : b = vars[x][2]
          OBVIOUS
        <5>2. g[b] = [f[b] EXCEPT ![p[2][1]] = <<"object", g[h]>>]
          BY <1>17, <2>1, <2>8, <4>1, <5>1, TopAfter
        <5>3. env'[x] = <<"object", g[b]>>
          <6>1. env'[x] = MeaningBy(g, vars'[x])
            BY <1>0, <1>1
          <6>2. IsObject(vars'[x]) /\ vars'[x][2] = b
            BY <2>6, <4>1, <5>1
          <6>3. MeaningBy(g, vars'[x]) = <<"object", g[b]>>
            BY <6>2 DEF MeaningBy
          <6> QED
            BY <6>1, <6>3
        <5>4. \A i, a : Field(i, a) # PlaceOf(MiddleOf(p))
          BY <2>8, <4>1, MiddlePlace, PlaceKinds
        <5>5. fields' = fields
          BY <1>1, <1>9, <2>4, <5>4, OthersAfter
        <5>6. Promised!WriteVariable(x, <<"object", g[b]>>)
          BY <1>3, <1>8, <5>3, <5>5
        <5> QED
          BY <1>5, <4>1, <5>1, <5>2, <5>6
      <4>2. CASE ~IsObject(vars[x])
        <5>1. IsInstance(vars[x])
          BY <1>0, <2>5, <4>2 DEF Reaches, IsContainer
        <5>2. PICK i, a : i = vars[x][2] /\ a = p[2][1]
          OBVIOUS
        <5>3. i \in Instances /\ a \in Attributes
          BY <1>0, <2>5, <5>1, <5>2, PathFacts, VariableMeans, ValueFacts
        <5>4. PlaceOf(MiddleOf(p)) = Field(i, a)
          BY <2>8, <4>2, <5>2, MiddlePlace
        <5>5. instance[i][a] = Object(h)
          BY <2>3, <2>8, <5>1, <5>2, AttributeFacts DEF Holder
        <5>6. instance'[i][a] = instance[i][a]
          <6>1. PICK gone, from : gone = Within(ValueAt(p)) /\ from = Within(v)
            OBVIOUS
          <6>2. Content(Field(i, a))' = Content(Field(i, a))
            BY <2>4, <5>3, <6>1, AfterStore
          <6> QED
            BY <6>2, PlacesNext, PlaceContents
        <5>7. fields'[i][a] = <<"object", g[h]>>
          <6>1. instance'[i][a] = Object(h)
            BY <5>5, <5>6
          <6>2. MeaningBy(g, instance'[i][a]) = <<"object", g[h]>>
            BY <6>1, ObjectFacts DEF MeaningBy
          <6> QED
            BY <1>1, <5>3, <6>2
        <5>8. \A j \in Instances, c \in Attributes : j # i \/ c # a => fields'[j][c] = fields[j][c]
          BY <1>1, <2>4, <5>4, OthersAfter, PlaceKinds
        <5>9. env' = env
          BY <1>7, <2>5, <4>2
        <5>10. Promised!WriteField(i, a, <<"object", g[h]>>)
          BY <1>3, <1>10, <5>3, <5>7, <5>8, <5>9
        <5> QED
          BY <1>5, <5>1, <5>2, <5>10
      <4> QED
        BY <4>1, <4>2
    <3> QED
      BY <2>8, <3>3, <3>4, <3>5 DEF Promised!Write
  <2> QED
    BY <1>13, <1>17, <2>7, <2>8
<1> QED
  BY <1>0, <1>14, <1>16, <1>17 DEF Reaches, IsContainer

LEMMA LiteralMeans ==
  ASSUME ObjectsTypes, Grounded
  PROVE  Meaning(Literal) = Promised!Object(Promised!Empty)
<1>1. object[0] = Empty /\ Empty # Freed /\ 0 \in Addresses
  BY ObjectsHoldValues, NothingIsValue
<1>2. Pairs[0] = Unfolded(object, Pairs, 0)
  BY <1>1, PairsMean DEF Grounded, IsMeaning
<1>3. \A a \in Attributes : Empty[a] = Nothing /\ ~IsObject(Nothing)
  BY NothingIsValue
<1>4. Pairs[0] = [a \in Attributes |-> Nothing]
  BY <1>1, <1>2, <1>3 DEF Unfolded
<1>5. Promised!Empty = [a \in Attributes |-> Nothing]
  BY DEF Promised!Empty, Promised!Nothing, Nothing
<1>6. IsObject(Literal) /\ Literal[2] = 0
  BY ObjectFacts DEF Literal
<1> QED
  BY <1>4, <1>5, <1>6, MeaningKinds DEF Promised!Object

Born == {i \in Instances : refs[i] > 0}

\* What a value holds has been made.
LEMMA HeldIsMade ==
  ASSUME MemoryIInv, NEW v, ~IsObject(v) \/ \A b \in Within(v) : b \in Addresses,
         NEW i \in Instances, HeldBy(v, i) # 0, v = Instance(i) => Owners(Instance(i)) # {}
  PROVE  refs[i] > 0
<1>1. Owners(Instance(i)) # {}
  <2>1. CASE v = Instance(i)
    BY <2>1
  <2>2. CASE v # Instance(i)
    <3>1. HeldBy(v, i) = Cardinality(PairsWith(v, i))
      BY <2>2, HeldByFacts
    <3>2. PairsWith(v, i) # {}
      BY <3>1, FS_EmptySet
    <3>3. PICK q \in PairsWith(v, i) : TRUE
      BY <3>2
    <3> QED
      BY <3>3, HeldByFacts
  <2> QED
    BY <2>1, <2>2
<1>2. refs[i] > Cardinality(Owners(Instance(i))) /\ Cardinality(Owners(Instance(i))) \in Nat
  BY <1>1, PlacesFinite DEF MemoryIInv, AllCounted
<1>3. refs[i] \in Nat
  BY DEF MemoryIInv, ObjectsTypes
<1> QED
  BY <1>2, <1>3

\* An assignment unmakes no instance, and makes none by itself.
LEMMA MadeAfter ==
  ASSUME MemoryIInv, NEW p \in Paths, NEW v, Stores(p, v), NEW i \in Instances, NEW extra \in Nat,
         v = Instance(i) => Owners(Instance(i)) # {} \/ extra > 0,
         refs'[i] = Stored(ValueAt(p), v).refs[i] + extra
  PROVE  refs'[i] > 0 <=> refs[i] > 0 \/ extra > 0
<1> PICK old : old = ValueAt(p)
  OBVIOUS
<1> PICK n, k, c, m : /\ n = refs[i] /\ k = HeldBy(old, i) /\ c = HeldBy(v, i)
                      /\ m = Cardinality(Owners(Instance(i)))
  OBVIOUS
<1>1. c \in Nat /\ k \in Nat /\ k <= m /\ n \in Nat /\ m \in Nat
  BY OwnersCount, PlacesFinite DEF MemoryIInv, ObjectsTypes
<1>2. n > m \/ m = 0
  <2>1. CASE Owners(Instance(i)) = {}
    BY <2>1, FS_EmptySet
  <2>2. CASE Owners(Instance(i)) # {}
    BY <2>2 DEF MemoryIInv, AllCounted
  <2> QED
    BY <2>1, <2>2
<1>3. refs'[i] = n - k + c + extra
  <2>1. Stored(old, v).refs = [j \in Instances |-> refs[j] - HeldBy(old, j) + HeldBy(v, j)]
    BY StoredRefs
  <2>2. Stored(old, v).refs[i] = refs[i] - HeldBy(old, i) + HeldBy(v, i)
    BY <2>1
  <2> QED
    BY <2>2
<1>4. c # 0 => n > 0 \/ extra > 0
  <2> SUFFICES ASSUME c # 0, ~(extra > 0) PROVE n > 0
    OBVIOUS
  <2>1. \A b \in Within(v) : b \in Addresses
    BY WithinFacts DEF MemoryIInv
  <2> QED
    BY <2>1, HeldIsMade
<1>5. n - k + c + extra > 0 <=> n > 0 \/ extra > 0
  BY <1>1, <1>2, <1>4
<1> QED
  BY <1>3, <1>5

\* A write that is stored: what it means, and which instances there are then.
LEMMA StoreRefines ==
  ASSUME MemoryIInv, Grounded, NEW p \in Paths, NEW v, Stores(p, v),
         NEW more \in [Instances -> Nat],
         \A i \in Instances : v = Instance(i) => Owners(Instance(i)) # {} \/ more[i] > 0,
         refs' = [i \in Instances |-> Stored(ValueAt(p), v).refs[i] + more[i]]
  PROVE  /\ Grounded'
         /\ Promised!Write(p, Meaning(v)) /\ Promised!Reaches(p)
         /\ Born' = Born \cup {i \in Instances : more[i] > 0}
<1>1. Grounded'
  <2>1. GroundedTable(object')
    BY GroundedAfter
  <2> QED
    BY <2>1 DEF Grounded, GroundedTable, Falls, IsObject, Freed
<1>2. Promised!Write(p, Meaning(v)) /\ Promised!Reaches(p)
  BY StoreMeans, PathMeans DEF Stores
<1>3. \A i \in Instances : refs'[i] > 0 <=> refs[i] > 0 \/ more[i] > 0
  <2> TAKE i \in Instances
  <2>1. refs'[i] = Stored(ValueAt(p), v).refs[i] + more[i] /\ more[i] \in Nat
    OBVIOUS
  <2> QED
    BY <2>1, MadeAfter
<1>4. Born' = Born \cup {i \in Instances : more[i] > 0}
  BY <1>3 DEF Born
<1> QED
  BY <1>1, <1>2, <1>4

\* An unchanged memory means what it did.
LEMMA SameMeans ==
  ASSUME vars' = vars, object' = object, instance' = instance, refs' = refs
  PROVE  UNCHANGED Promised!specVars /\ (Grounded => Grounded')
<1>1. Pairs = (CHOOSE f : IsMeaning(object, f)) /\ Pairs' = (CHOOSE f : IsMeaning(object', f))
  BY DEF Pairs, IsMeaning, Unfolded, Empty, Freed, IsObject, Nothing
<1>2. Pairs' = Pairs
  BY <1>1
<1>3. /\ \A x : Meaning(vars[x])' = Meaning(vars[x])
      /\ \A i, a : Meaning(instance[i][a])' = Meaning(instance[i][a])
  BY <1>2, MeaningFacts
<1>4. UNCHANGED Promised!specVars
  BY <1>3 DEF Promised!specVars
<1>5. Grounded => Grounded'
  BY DEF Grounded, GroundedTable, Falls, IsObject, Freed
<1> QED
  BY <1>4, <1>5

LEMMA AssignRefines ==
  ASSUME ObjectsIInv, Grounded, NEW p \in Paths, NEW v, Storable(v), NEW made \in Instances \cup {0},
         \A i \in Instances : v = Instance(i) => Owners(Instance(i)) # {} \/ made = i,
         Assign(p, v, made)
  PROVE  /\ Grounded'
         /\ \/ UNCHANGED Promised!specVars
            \/ /\ Promised!Write(p, Meaning(v)) /\ Promised!Reaches(p)
               /\ Born' = Born \cup ({made} \cap Instances)
<1>1. MemoryIInv
  BY DEF ObjectsIInv
<1>2. /\ Reaches(p) /\ Room(v, Within(ValueAt(p))) # {}
      /\ IF Stored(ValueAt(p), v).sound
         THEN /\ Put(p, Stored(ValueAt(p), v))
              /\ refs' = [i \in Instances |-> Stored(ValueAt(p), v).refs[i] + IF i = made THEN 1 ELSE 0]
         ELSE UNCHANGED <<vars, memory>>
  BY DEF Assign
<1>3. CASE Stored(ValueAt(p), v).sound
  <2> DEFINE more == [i \in Instances |-> IF i = made THEN 1 ELSE 0]
  <2>1. Stores(p, v)
    BY <1>2, <1>3 DEF Stores
  <2>2. more \in [Instances -> Nat] /\ \A i \in Instances : i = made <=> more[i] > 0
    OBVIOUS
  <2>3. refs' = [i \in Instances |-> Stored(ValueAt(p), v).refs[i] + more[i]]
    BY <1>2, <1>3
  <2> HIDE DEF more
  <2>4. \A i \in Instances : v = Instance(i) => Owners(Instance(i)) # {} \/ more[i] > 0
    BY <2>2
  <2>5. {i \in Instances : more[i] > 0} = {made} \cap Instances
    BY <2>2
  <2>6. /\ Grounded'
        /\ Promised!Write(p, Meaning(v)) /\ Promised!Reaches(p)
        /\ Born' = Born \cup {i \in Instances : more[i] > 0}
    BY <1>1, <2>1, <2>2, <2>3, <2>4, StoreRefines
  <2> QED
    BY <2>5, <2>6
<1>4. CASE ~Stored(ValueAt(p), v).sound
  BY <1>2, <1>4, SameMeans DEF memory
<1> QED
  BY <1>3, <1>4

\* `x.a.b = e` where x.a is not there.
LEMMA ThroughNothingRefines ==
  ASSUME ObjectsIInv, Grounded, NEW p \in Paths, NEW v, NEW made \in Instances \cup {0},
         \A i \in Instances : v = Instance(i) => Owners(Instance(i)) # {} \/ made = i,
         made # 0 => refs[made] = 0,
         AssignThroughNothing(p, v, made)
  PROVE  Grounded' /\ Promised!AssignThroughNothing(p)
<1>1. MemoryIInv /\ ObjectsTypes
  BY DEF ObjectsIInv, MemoryIInv
<1>2. PICK middle : middle = MiddleOf(p)
  OBVIOUS
<1>3. /\ Len(p[2]) = 2 /\ Attribute(vars[p[1]], p[2][1]) = Nothing
      /\ Room(Literal, {}) # {} /\ IsContainer(vars[p[1]])
      /\ Put(middle, Stored(Nothing, Literal))
      /\ refs' = [i \in Instances |->
                   Stored(Nothing, Literal).refs[i] + HeldBy(v, i) + IF i = made THEN 1 ELSE 0]
  BY <1>2 DEF AssignThroughNothing, ThroughNothing, MiddleOf
<1>4. middle \in Paths /\ ValueAt(middle) = Nothing /\ Reaches(middle)
  BY <1>2, <1>3, MiddleFacts DEF Reaches, MiddleOf
<1>5. Within(Nothing) = {} /\ Within(Literal) = {0} /\ object[0] = Empty /\ Empty # Freed
  BY <1>1, WithinFacts, WithinLiteral, NothingIsValue, ObjectsHoldValues
<1>6. Stored(Nothing, Literal).sound
  BY <1>5 DEF Stored
<1>7. Stores(middle, Literal)
  BY <1>1, <1>3, <1>4, <1>5, <1>6, NewIsStorable DEF Stores
<1> DEFINE more == [i \in Instances |-> HeldBy(v, i) + IF i = made THEN 1 ELSE 0]
<1>8. \A b \in Within(v) : b \in Addresses
  BY <1>1, WithinFacts
<1>9. \A i \in Instances : HeldBy(v, i) \in Nat
  BY <1>1, <1>8, HeldByFacts
<1>10. \A i \in Instances : more[i] \in Nat /\ (more[i] > 0 <=> HeldBy(v, i) # 0 \/ i = made)
  BY <1>9
<1>11. more \in [Instances -> Nat]
  BY <1>10
<1>12. \A i \in Instances : Stored(Nothing, Literal).refs[i] \in Int
  <2>1. Stored(Nothing, Literal).refs =
          [i \in Instances |-> refs[i] - HeldBy(Nothing, i) + HeldBy(Literal, i)]
    BY StoredRefs
  <2>2. \A i \in Instances : HeldBy(Nothing, i) \in Nat /\ HeldBy(Literal, i) \in Nat
    BY <1>1, <1>5, HeldByFacts, WithinFacts
  <2>3. \A i \in Instances : refs[i] \in Nat
    BY <1>1 DEF ObjectsTypes
  <2> QED
    BY <2>1, <2>2, <2>3
<1>13. refs' = [i \in Instances |-> Stored(ValueAt(middle), Literal).refs[i] + more[i]]
  BY <1>3, <1>4, <1>9, <1>12
<1>14. \A i \in Instances : Literal # Instance(i)
  BY ObjectFacts DEF Literal
<1> HIDE DEF more
<1>15. /\ Grounded'
       /\ Promised!Write(middle, Meaning(Literal))
       /\ Born' = Born \cup {i \in Instances : more[i] > 0}
  BY <1>1, <1>4, <1>7, <1>11, <1>13, <1>14, StoreRefines
<1>16. \A i \in Instances : more[i] > 0 => i \in Born \/ i = made
  <2> TAKE i \in Instances
  <2>1. HeldBy(v, i) # 0 /\ i # made => refs[i] > 0
    BY <1>1, <1>8, HeldIsMade
  <2> QED
    BY <1>10, <2>1 DEF Born
<1>17. UNCHANGED Born \/ \E i \in Instances \ Born : Born' = Born \cup {i}
  <2>1. CASE made \in Instances
    <3>1. made \notin Born /\ more[made] > 0
      BY <1>10, <2>1, ObjectsAssumption DEF Born
    <3>2. Born' = Born \cup {made}
      BY <1>15, <1>16, <2>1, <3>1
    <3> QED
      BY <2>1, <3>1, <3>2
  <2>2. CASE made \notin Instances
    BY <1>15, <1>16, <2>2
  <2> QED
    BY <2>1, <2>2
<1>18. middle[1] = p[1] /\ middle[2] = <<p[2][1]>> /\ p[2] # <<>>
  BY <1>2, <1>3, PathLengths DEF MiddleOf
<1>19. Promised!WriteAttribute(p[1], p[2][1], Meaning(Literal))
  <2>1. middle[2] # <<>> /\ Len(middle[2]) = 1 /\ middle[2][1] = p[2][1]
    BY <1>18
  <2> QED
    BY <1>15, <1>18, <2>1 DEF Promised!Write
<1>20. Meaning(Literal) = Promised!Object(Promised!Empty)
  BY <1>1, LiteralMeans
<1>21. Holder(p) = Nothing
  BY <1>3 DEF Holder
<1>22. Promised!Holder(p) = Promised!Nothing
  BY <1>1, <1>18, <1>21, VariableMeans, MeaningKinds, NothingIsValue DEF Promised!Nothing, Nothing
<1>23. Promised!IsContainer(Meaning(vars[p[1]]))
  BY <1>3, MeaningKinds
<1> QED
  BY <1>1, <1>3, <1>15, <1>17, <1>19, <1>20, <1>22, <1>23, VariableMeans
     DEF Promised!AssignThroughNothing, Born

RefinementIInv == ObjectsIInv /\ Grounded

LEMMA RefinementStart == ObjectsInit => RefinementIInv /\ Promised!Init
<1> SUFFICES ASSUME ObjectsInit PROVE RefinementIInv /\ Promised!Init
  OBVIOUS
<1>1. ObjectsIInv
  BY ObjectsStart
<1>2. \A b \in Addresses : object[b] = Freed \/ object[b] = Empty
  BY DEF ObjectsInit
<1>3. Grounded
  <2> DEFINE r == [b \in Addresses |-> 0]
  <2>1. r \in [Addresses -> 0..0]
    OBVIOUS
  <2>2. Falls(object, r)
    BY <1>2, NothingIsValue DEF Falls
  <2> QED
    BY <2>1, <2>2 DEF Grounded, GroundedTable
<1>4. Meaning(Nothing) = Promised!Nothing /\ Promised!Nothing = Nothing
  BY MeaningKinds, NothingIsValue DEF Promised!Nothing, Nothing
<1>5. /\ \A x \in Variables : vars[x] = Nothing
      /\ \A i \in Instances, a \in Attributes : instance[i][a] = Nothing
      /\ \A i \in Instances : refs[i] = 0
  BY NothingIsValue DEF ObjectsInit
<1>6. [x \in Variables |-> Meaning(vars[x])] = [x \in Variables |-> Promised!Nothing]
  BY <1>4, <1>5
<1>7. {i \in Instances : refs[i] > 0} = {}
  BY <1>5
<1>8. [i \in Instances |-> [a \in Attributes |-> Meaning(instance[i][a])]]
        = [i \in Instances |-> Promised!Empty]
  BY <1>4, <1>5 DEF Promised!Empty
<1>9. Promised!Init
  BY <1>6, <1>7, <1>8 DEF Promised!Init
<1> QED
  BY <1>1, <1>3, <1>9 DEF RefinementIInv

\* `p = q`, `p = 1` and the like, from what is assigned.
LEMMA SetRefines ==
  ASSUME RefinementIInv, NEW p \in Paths, NEW v, Storable(v), NEW made \in Instances \cup {0},
         \A i \in Instances : v = Instance(i) => Owners(Instance(i)) # {} \/ made = i,
         made # 0 => refs[made] = 0,
         Set(p, v, made)
  PROVE  /\ Grounded'
         /\ \/ UNCHANGED Promised!specVars
            \/ Promised!AssignThroughNothing(p)
            \/ /\ Promised!Write(p, Meaning(v)) /\ Promised!Reaches(p)
               /\ Born' = Born \cup ({made} \cap Instances)
<1>1. CASE Assign(p, v, made)
  BY <1>1, AssignRefines DEF RefinementIInv
<1>2. CASE AssignThroughNothing(p, v, made)
  BY <1>2, ThroughNothingRefines DEF RefinementIInv
<1> QED
  BY <1>1, <1>2 DEF Set

LEMMA SpecSteps ==
  ASSUME NEW p \in Paths
  PROVE  /\ Promised!AssignThroughNothing(p) => Promised!Next
         /\ Promised!AssignNew(p) => Promised!Next
         /\ \A q \in Paths : Promised!Assign(p, q) => Promised!Next
<1>1. Promised!Paths = Paths
  BY DEF Promised!Paths, Paths
<1> QED
  BY <1>1 DEF Promised!Next

LEMMA RefinementStep ==
  RefinementIInv /\ [ObjectsNext]_allVars => RefinementIInv' /\ [Promised!Next]_Promised!specVars
<1> SUFFICES ASSUME RefinementIInv, [ObjectsNext]_allVars
             PROVE  Grounded' /\ [Promised!Next]_Promised!specVars
  BY ObjectsStep DEF RefinementIInv
<1>0. MemoryIInv /\ ObjectsTypes /\ Grounded
  BY DEF RefinementIInv, ObjectsIInv, MemoryIInv
<1>1. {0} \cap Instances = {} /\ Born \cup {} = Born
  BY ObjectsAssumption
<1>2. ASSUME NEW p \in Paths, NEW q \in Paths, SetToValueAt(p, q)
      PROVE  Grounded' /\ [Promised!Next]_Promised!specVars
  <2>1. PICK v : v = ValueAt(q)
    OBVIOUS
  <2>2. Reaches(q) /\ Set(p, v, 0)
    BY <1>2, <2>1 DEF SetToValueAt
  <2>3. Storable(v) /\ PlaceOf(q) \in Places /\ Content(PlaceOf(q)) = v
    BY <1>0, <2>1, <2>2, HeldIsStorable, PlaceIsThere
  <2>4. \A i \in Instances : v = Instance(i) => Owners(Instance(i)) # {}
    BY <2>3 DEF Owners
  <2>5. /\ Grounded'
        /\ \/ UNCHANGED Promised!specVars
           \/ Promised!AssignThroughNothing(p)
           \/ /\ Promised!Write(p, Meaning(v)) /\ Promised!Reaches(p)
              /\ Born' = Born \cup ({0} \cap Instances)
    BY <2>2, <2>3, <2>4, SetRefines
  <2>6. Promised!ValueAt(q) = Meaning(v) /\ Promised!Reaches(q)
    BY <1>0, <2>1, <2>2, PathMeans
  <2>7. Promised!Write(p, Meaning(v)) /\ Promised!Reaches(p) /\ Born' = Born => Promised!Assign(p, q)
    BY <2>6 DEF Promised!Assign, Born
  <2> QED
    BY <1>1, <2>5, <2>7, SpecSteps
<1>3. ASSUME NEW p \in Paths, NEW v, Storable(v), \A i \in Instances : v # Instance(i), Set(p, v, 0),
             Meaning(v) \in {Promised!Plain, Promised!Object(Promised!Empty)}
      PROVE  Grounded' /\ [Promised!Next]_Promised!specVars
  <2>1. /\ Grounded'
        /\ \/ UNCHANGED Promised!specVars
           \/ Promised!AssignThroughNothing(p)
           \/ /\ Promised!Write(p, Meaning(v)) /\ Promised!Reaches(p)
              /\ Born' = Born \cup ({0} \cap Instances)
    BY <1>3, SetRefines
  <2>2. Promised!Write(p, Meaning(v)) /\ Promised!Reaches(p) /\ Born' = Born => Promised!AssignNew(p)
    BY <1>3 DEF Promised!AssignNew, Born
  <2> QED
    BY <1>1, <2>1, <2>2, SpecSteps
<1>4. ASSUME NEW p \in Paths, SetToPlain(p)
      PROVE  Grounded' /\ [Promised!Next]_Promised!specVars
  <2>1. \A i \in Instances : Plain # Instance(i)
    BY DEF Plain, Instance
  <2>2. Meaning(Plain) = Promised!Plain
    BY MeaningKinds, NothingIsValue DEF Promised!Plain, Plain
  <2> QED
    BY <1>0, <1>3, <1>4, <2>1, <2>2, NewIsStorable DEF SetToPlain
<1>5. ASSUME NEW p \in Paths, SetToObject(p)
      PROVE  Grounded' /\ [Promised!Next]_Promised!specVars
  <2>1. \A i \in Instances : Literal # Instance(i)
    BY ObjectFacts DEF Literal
  <2>2. Meaning(Literal) = Promised!Object(Promised!Empty)
    BY <1>0, LiteralMeans
  <2> QED
    BY <1>0, <1>3, <1>5, <2>1, <2>2, NewIsStorable DEF SetToObject
<1>6. ASSUME NEW p \in Paths, NEW i \in Instances, SetToInstance(p, i)
      PROVE  Grounded' /\ [Promised!Next]_Promised!specVars
  <2>1. PICK v : v = Instance(i)
    OBVIOUS
  <2>2. Storable(v) /\ refs[i] = 0 /\ Set(p, v, i) /\ i # 0
    BY <1>0, <1>6, <2>1, NewIsStorable, ObjectsAssumption DEF SetToInstance
  <2>3. \A j \in Instances : v = Instance(j) => Owners(Instance(j)) # {} \/ i = j
    BY <2>1 DEF Instance
  <2>4. /\ Grounded'
        /\ \/ UNCHANGED Promised!specVars
           \/ Promised!AssignThroughNothing(p)
           \/ /\ Promised!Write(p, Meaning(v)) /\ Promised!Reaches(p)
              /\ Born' = Born \cup ({i} \cap Instances)
    BY <2>2, <2>3, SetRefines
  <2>5. Meaning(v) = Promised!Instance(i)
    BY <2>1, InstanceFacts, MeaningKinds DEF Promised!Instance, Instance
  <2>6. i \in Instances \ Born /\ {i} \cap Instances = {i}
    BY <2>2 DEF Born
  <2>7. Promised!Write(p, Meaning(v)) /\ Promised!Reaches(p) /\ Born' = Born \cup {i} => Promised!AssignNew(p)
    BY <2>5, <2>6 DEF Promised!AssignNew, Born
  <2> QED
    BY <2>4, <2>6, <2>7, SpecSteps
<1>7. CASE UNCHANGED allVars
  BY <1>0, <1>7, SameMeans DEF allVars
<1> QED
  BY <1>2, <1>4, <1>5, <1>6, <1>7 DEF ObjectsNext

\* The interpreter implements ValueSpec: whatever is copied, freed and counted, a
\* program sees objects as values and instances as shared, as long as it does not
\* assign to a place a part of what the place holds.
THEOREM ObjectsImplementValues == ObjectsSpec => ObjectsAreValues
<1> QED
  BY RefinementStart, RefinementStep, PTL DEF ObjectsSpec, ObjectsAreValues, Promised!Spec
===============================================================================
