------------------------------- MODULE Objects --------------------------------
(***************************************************************************)
(* Variables, objects and instances of the Able interpreter in memory.     *)
(*                                                                         *)
(* A Value points to what it is made of.  Evaluating a variable or a chain *)
(* of attributes gives the pointer that is stored there (src/src/types/    *)
(* env.c:83, object.c:53, src/src/interpreter/resolve.c:18); set_variable  *)
(* and object_set free the old value of their place and store a copy of    *)
(* the new one (env.c:60, object.c:74).  A copy of an object is a new      *)
(* object; a copy of an instance is the same one, counted once more        *)
(* (value.c:73).                                                           *)
(*                                                                         *)
(* Strings and lists are copied and freed as an object without attributes  *)
(* is; "plain" stands for what owns no memory: numbers, functions, types.  *)
(* An error of the script (an unbound variable, a chain through a number)  *)
(* ends the process and is left out.                                       *)
(***************************************************************************)
EXTENDS Naturals, Sequences, FiniteSets

CONSTANTS Variables, Attributes,
          Blocks,       \* addresses of objects
          Instances,    \* addresses of instances, of which 0 is none
          MaxRefs       \* bound on the count of an instance

ASSUME ObjectsAssumption ==
  /\ IsFiniteSet(Variables) /\ IsFiniteSet(Attributes) /\ Attributes # {}
  /\ IsFiniteSet(Blocks) /\ IsFiniteSet(Instances)
  /\ 0 \notin Blocks /\ 0 \notin Instances
  /\ MaxRefs \in Nat

Nothing == <<"nothing">>        \* not there, null or undefined
Plain == <<"plain">>
Object(b) == <<"object", b>>
Instance(i) == <<"instance", i>>
Contents == {Nothing, Plain} \cup {Object(b) : b \in Blocks}
                           \cup {Instance(i) : i \in Instances}
Empty == [a \in Attributes |-> Nothing]
Freed == <<>>                   \* the content of an address not in use

\* `{}` in an expression makes an object that nobody frees; all of them are
\* the same here.
Addresses == Blocks \cup {0}
Literal == Object(0)

VARIABLES vars,         \* Env.vars of the environment
          object,       \* Object.pairs at each address
          instance,     \* Instance.attributes, and
          refs,         \* Instance.ref_count (0: not made yet)
          broken        \* how memory has been used after it was freed, if it has

memory == <<object, instance, refs>>
allVars == <<vars, object, instance, refs, broken>>

ObjectsTypes ==
  /\ vars \in [Variables -> Contents]
  /\ object \in [Addresses -> [Attributes -> Contents] \cup {Freed}]
  /\ object[0] = Empty
  /\ instance \in [Instances -> [Attributes -> Contents]]
  /\ refs \in [Instances -> Nat]
  /\ broken \in {"no", "overlap", "dangling"}

IsObject(v) == v[1] = "object"
IsInstance(v) == v[1] = "instance"
IsContainer(v) == IsObject(v) \/ IsInstance(v)

\* value_get_attr, of what is no container: nothing.
Attribute(v, a) ==
  CASE IsObject(v) -> object[v[2]][a]
    [] IsInstance(v) -> instance[v[2]][a]
    [] OTHER -> Nothing

\* A variable with up to two attributes.
Paths == Variables \X ({<<>>} \cup {<<a>> : a \in Attributes}
                       \cup (Attributes \X Attributes))

\* The value that has the place of a path among its attributes.
Holder(p) == IF Len(p[2]) = 1 THEN vars[p[1]] ELSE Attribute(vars[p[1]], p[2][1])

ValueAt(p) == IF p[2] = <<>> THEN vars[p[1]] ELSE Attribute(Holder(p), p[2][Len(p[2])])

\* The addresses an object takes up: its own and those of the objects in it.
Closed(bs) ==
  \A b \in bs, a \in Attributes :
    object[b] # Freed /\ IsObject(object[b][a]) => object[b][a][2] \in bs

Within(v) ==
  {b \in Addresses : \A bs \in SUBSET Addresses :
                       (IsObject(v) => v[2] \in bs) /\ Closed(bs) => b \in bs}

\* Mutant of HeldBy: instances inside objects are not counted.
HeldBy_TopOnly(v, i) == IF v = Instance(i) THEN 1 ELSE 0

\* How many of the counts of the instance i a value holds.
HeldBy(v, i) ==
  IF v = Instance(i) THEN 1
  ELSE Cardinality({p \in Within(v) \X Attributes :
                     object[p[1]] # Freed /\ object[p[1]][p[2]] = Instance(i)})

-----------------------------------------------------------------------------
\* Addresses for a copy of v, once `gone` has been freed; none if memory, which
\* is bounded here, is full.
Room(v, gone) ==
  {f \in [Within(v) -> {b \in Blocks : object[b] = Freed} \cup gone] :
     \A b, c \in Within(v) : f[b] = f[c] => b = c}

\* What set_variable and object_set do to memory: they free the value `old` of
\* the place and then copy v.  (An instance is freed when its count comes to 0,
\* which OwnersExact excludes.)
Stored(old, v) ==
  LET gone == Within(old)
      from == Within(v)
      to == CHOOSE f \in Room(v, gone) : TRUE
      copied(w) == IF IsObject(w) THEN Object(to[w[2]]) ELSE w
      sources(b) == {c \in from : to[c] = b} IN
  [sound |-> from \cap gone = {} /\ \A b \in from \cup gone : object[b] # Freed,
   value |-> copied(v),
   object |-> [b \in Addresses |->
                IF sources(b) # {}
                THEN LET pairs == object[CHOOSE c \in sources(b) : TRUE] IN
                     [a \in Attributes |-> copied(pairs[a])]
                ELSE IF b \in gone THEN Freed ELSE object[b]],
   refs |-> [i \in Instances |-> refs[i] - HeldBy(old, i) + HeldBy(v, i)]]

\* The places on the way to the place of p hold containers.
Reaches(p) == p[2] # <<>> => IsContainer(vars[p[1]]) /\ IsContainer(Holder(p))

\* The place p gets the value that `stored` has made for it.
Put(p, stored) ==
  LET a == p[2][Len(p[2])]
      holder == Holder(p)[2] IN
  \/ /\ p[2] = <<>>
     /\ vars' = [vars EXCEPT ![p[1]] = stored.value]
     /\ object' = stored.object
     /\ UNCHANGED instance
  \/ /\ p[2] # <<>> /\ IsObject(Holder(p))
     /\ object' = [stored.object EXCEPT ![holder][a] = stored.value]
     /\ UNCHANGED <<vars, instance>>
  \/ /\ p[2] # <<>> /\ IsInstance(Holder(p))
     /\ instance' = [instance EXCEPT ![holder][a] = stored.value]
     /\ object' = stored.object
     /\ UNCHANGED vars

\* The assignment of v to the place p, with `made` the instance that the
\* expression has just made: its first count is nobody's, and stays.
Assign(p, v, made) ==
  LET old == ValueAt(p)
      stored == Stored(old, v) IN
  /\ broken = "no" /\ Reaches(p)
  /\ Room(v, Within(old)) # {}
  /\ \A i \in Instances : stored.refs[i] < MaxRefs
  /\ IF stored.sound
     THEN /\ Put(p, stored)
          /\ refs' = [i \in Instances |-> stored.refs[i] + IF i = made THEN 1 ELSE 0]
          /\ UNCHANGED broken
     ELSE /\ broken' = IF Within(old) \cap Within(v) # {} THEN "overlap" ELSE "dangling"
          /\ UNCHANGED <<vars, memory>>

\* The part of assign_attribute_chain for `x.a.b = v` where x.a is not there:
\* a copy of a new object becomes x.a, and v is set in the object copied from,
\* which nobody has; the counts in the copy of v stay.
ThroughNothing(p, v, made) ==
  LET middle == <<p[1], <<p[2][1]>>>>
      stored == Stored(Nothing, Literal) IN
  /\ broken = "no" /\ Room(Literal, {}) # {}
  /\ Len(p[2]) = 2 /\ IsContainer(vars[p[1]])
  /\ Put(middle, stored)
  /\ refs' = [i \in Instances |->
               stored.refs[i] + HeldBy(v, i) + IF i = made THEN 1 ELSE 0]
  /\ \A i \in Instances : refs'[i] <= MaxRefs
  /\ UNCHANGED broken

\* Mutant of AssignThroughNothing: what is no object is replaced.
AssignThroughNothing_Replaces(p, v, made) ==
  /\ Len(p[2]) = 2 /\ ~IsObject(Attribute(vars[p[1]], p[2][1]))
  /\ ThroughNothing(p, v, made)

AssignThroughNothing(p, v, made) ==
  /\ Len(p[2]) = 2 /\ Attribute(vars[p[1]], p[2][1]) = Nothing
  /\ ThroughNothing(p, v, made)

Set(p, v, made) == Assign(p, v, made) \/ AssignThroughNothing(p, v, made)

\* NODE_SET, with each kind of expression: what a variable or a chain holds,
\* a number, an object literal, a call of a class.
SetToValueAt(p, q) ==
  /\ vars[q[1]] # Nothing
  /\ Reaches(q)
  /\ Set(p, ValueAt(q), 0)

SetToPlain(p) == Set(p, Plain, 0)
SetToObject(p) == Set(p, Literal, 0)

SetToInstance(p, i) ==
  /\ refs[i] = 0
  /\ Set(p, Instance(i), i)

ObjectsInit ==
  /\ vars = [x \in Variables |-> Nothing]
  /\ object = [b \in Addresses |-> IF b = 0 THEN Empty ELSE Freed]
  /\ instance = [i \in Instances |-> Empty]
  /\ refs = [i \in Instances |-> 0]
  /\ broken = "no"

ObjectsNext ==
  \E p \in Paths :
    \/ \E q \in Paths : SetToValueAt(p, q)
    \/ SetToPlain(p) \/ SetToObject(p)
    \/ \E i \in Instances : SetToInstance(p, i)

ObjectsSpec == ObjectsInit /\ [][ObjectsNext]_allVars

-----------------------------------------------------------------------------
\* Properties.

\* The values that variables and instances, and objects in use, hold.
Places == {<<"variable", x>> : x \in Variables}
          \cup {<<"object", b, a>> : b \in {c \in Blocks : object[c] # Freed}, a \in Attributes}
          \cup {<<"instance", i, a>> : i \in Instances, a \in Attributes}

Content(place) == CASE place[1] = "variable" -> vars[place[2]]
                    [] place[1] = "object" -> object[place[2]][place[3]]
                    [] OTHER -> instance[place[2]][place[3]]

Owners(v) == {place \in Places : Content(place) = v}

\* Every object in use has one owner, so it is freed once and seen in one
\* place; every instance is counted by all that hold it, and once more, for the
\* value of the call that made it, which nobody frees.  Nothing that has been freed
\* is used, except by the assignment to a place of what it holds, or a part of that.
OwnersExact ==
  /\ broken # "dangling"
  /\ \A b \in Blocks : Cardinality(Owners(Object(b))) = IF object[b] = Freed THEN 0 ELSE 1
  /\ \A i \in Instances : refs[i] > 0 => refs[i] >= Cardinality(Owners(Instance(i))) + 1

\* What is in memory stands for nested values.
Pairs[b \in Addresses] ==
  IF object[b] = Freed THEN Empty
  ELSE [a \in Attributes |->
         IF IsObject(object[b][a]) THEN <<"object", Pairs[object[b][a][2]]>> ELSE object[b][a]]

Meaning(v) == IF IsObject(v) THEN <<"object", Pairs[v[2]]>> ELSE v

Promised == INSTANCE ValueSpec
  WITH env <- [x \in Variables |-> Meaning(vars[x])],
       born <- {i \in Instances : refs[i] > 0},
       attributes <- [i \in Instances |->
                       [a \in Attributes |-> Meaning(instance[i][a])]]

\* Programs that do not assign to a place a part of its own value see objects
\* as values and instances as shared: every assignment in memory is one of
\* ValueSpec.
ObjectsAreValues == Promised!Spec
===============================================================================
