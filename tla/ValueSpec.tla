------------------------------ MODULE ValueSpec -------------------------------
(***************************************************************************)
(* What assignments mean to a program in Able: an object is a value.  A    *)
(* variable or an attribute holds an object of its own, an assignment      *)
(* copies, and a write changes the one place that it names.  Instances of  *)
(* classes are shared: a write through one is seen wherever it is held.    *)
(*                                                                         *)
(* One surprise is part of the promise: a write through something that is  *)
(* not there makes an empty object of it, and the written value is lost.   *)
(***************************************************************************)
EXTENDS Naturals, Sequences

CONSTANTS Variables, Attributes, Instances

VARIABLES env,          \* the value of each variable
          born,         \* the instances there are
          attributes    \* the value of each attribute of each instance

specVars == <<env, born, attributes>>

\* Values are nested: an object is a function from attributes to values.
Nothing == <<"nothing">>        \* not there, null or undefined
Plain == <<"plain">>
Object(f) == <<"object", f>>
Instance(i) == <<"instance", i>>
Empty == [a \in Attributes |-> Nothing]

Paths == Variables \X ({<<>>} \cup {<<a>> : a \in Attributes}
                       \cup (Attributes \X Attributes))

IsObject(v) == v[1] = "object"
IsInstance(v) == v[1] = "instance"
IsContainer(v) == IsObject(v) \/ IsInstance(v)

Attribute(v, a) ==
  CASE IsObject(v) -> v[2][a]
    [] IsInstance(v) -> attributes[v[2]][a]
    [] OTHER -> Nothing

\* The value with the place of a path among its attributes, and the value there.
Holder(p) == IF Len(p[2]) = 1 THEN env[p[1]] ELSE Attribute(env[p[1]], p[2][1])

ValueAt(p) == IF p[2] = <<>> THEN env[p[1]] ELSE Attribute(Holder(p), p[2][Len(p[2])])

\* The object v with w for its attribute a.
With(v, a, w) == Object([v[2] EXCEPT ![a] = w])

\* A write to an attribute of an instance changes the instance, for all that hold
\* it; one to an attribute of an object gives the holder of the object another.
WriteField(i, a, w) ==
  /\ attributes' = [attributes EXCEPT ![i][a] = w]
  /\ UNCHANGED env

WriteVariable(x, w) ==
  /\ env' = [env EXCEPT ![x] = w]
  /\ UNCHANGED attributes

WriteAttribute(x, a, w) ==
  \/ IsInstance(env[x]) /\ WriteField(env[x][2], a, w)
  \/ IsObject(env[x]) /\ WriteVariable(x, With(env[x], a, w))

Write(p, w) ==
  LET x == p[1]
      as == p[2] IN
  \/ as = <<>> /\ WriteVariable(x, w)
  \/ Len(as) = 1 /\ WriteAttribute(x, as[1], w)
  \/ Len(as) = 2 /\ IsInstance(Holder(p)) /\ WriteField(Holder(p)[2], as[2], w)
  \/ Len(as) = 2 /\ IsObject(Holder(p)) /\ WriteAttribute(x, as[1], With(Holder(p), as[2], w))

\* The places on the way hold objects and instances.
Reaches(p) == p[2] # <<>> => IsContainer(env[p[1]]) /\ IsContainer(Holder(p))

Init ==
  /\ env = [x \in Variables |-> Nothing]
  /\ born = {}
  /\ attributes = [i \in Instances |-> Empty]

\* `p = q`: the value at q is now at p, too.
Assign(p, q) ==
  /\ Reaches(p) /\ Reaches(q) /\ Write(p, ValueAt(q))
  /\ UNCHANGED born

\* `p = 1`, `p = {}`, `p = C()`.
AssignNew(p) ==
  /\ Reaches(p)
  /\ \/ \E w \in {Plain, Object(Empty)} : Write(p, w) /\ UNCHANGED born
     \/ \E i \in Instances \ born : Write(p, Instance(i)) /\ born' = born \cup {i}

\* `x.a.b = e` where x.a is not there.
AssignThroughNothing(p) ==
  /\ Len(p[2]) = 2 /\ IsContainer(env[p[1]])
  /\ Holder(p) = Nothing
  /\ WriteAttribute(p[1], p[2][1], Object(Empty))
  /\ \/ UNCHANGED born
     \/ \E i \in Instances \ born : born' = born \cup {i}

Next ==
  \/ \E p, q \in Paths : Assign(p, q)
  \/ \E p \in Paths : AssignNew(p)
  \/ \E p \in Paths : AssignThroughNothing(p)

Spec == Init /\ [][Next]_specVars
===============================================================================
