---------------------------- MODULE LendingProofs ----------------------------
(***************************************************************************)
(* Proofs about module Lending, for any number of variables, addresses and *)
(* promises, lists of any length and calls and loops nested to any depth.  *)
(***************************************************************************)
EXTENDS Lending, SequenceTheorems, FiniteSetTheorems, TLAPS

-----------------------------------------------------------------------------
(* What states are made of. *)

Variables == Globals \cup {Param}
Lists == {List(b) : b \in Blocks} \cup {Own(n) : n \in Nat}
Values == {Plain} \cup Lists \cup {Promise(p) : p \in Promises}
AllUses == {<<"drop">>} \cup {<<"assign", v>> : v \in Variables}
           \cup {<<"append", b>> : b \in Blocks}

ProgramFrames == {Program}
CallFrames == [kind : {"call"}, task : Promises \cup {NoTask}, param : Values, use : AllUses]
LoopFrames == [kind : {"for"}, call : Nat, var : Variables \cup {"i"}, list : Lists,
               index : Nat, shifted : Nat, visited : Seq(BOOLEAN)]
Frames == ProgramFrames \cup CallFrames \cup LoopFrames

Life == {"none", "pending", "running", "fulfilled"}
Heaps == [Blocks -> Nat \cup {Freed}]
PromiseTables == [Promises -> [state : Life, value : {Plain} \cup Lists, refs : Int]]

States == [heap : Heaps, vars : [Globals -> Values], stack : Seq(Frames),
           promise : PromiseTables, end : {"well", "freed", "full"}]

-----------------------------------------------------------------------------
(* The invariant.  It speaks of a state, and of an account f of who owns what,
   which in the middle of a statement may differ from what the state holds. *)

\* No two own one list, a list that is owned is in memory, and each one in memory
\* is owned.
Exact(heap_, f) ==
  /\ \A o1, o2 \in DOMAIN f : IsLent(f[o1]) /\ f[o1] = f[o2] => o1 = o2
  /\ \A o \in DOMAIN f : IsLent(f[o]) => heap_[f[o][2]] # Freed
  /\ \A b \in Blocks : heap_[b] # Freed => \E o \in DOMAIN f : f[o] = List(b)

\* A promise is counted by all that hold it and once more, for the call that made it.
Counted(promise_, f) ==
  \A p \in Promises :
    IF promise_[p].state = "none" THEN \A o \in DOMAIN f : f[o] # Promise(p)
    ELSE promise_[p].refs > Cardinality({o \in DOMAIN f : f[o] = Promise(p)})

\* A promise that no call has made yet holds nothing.
Idle(promise_) == \A p \in Promises : promise_[p].state = "none" => promise_[p].value = Plain

\* What is lent to a frame is owned by a variable, or by a parameter further out.
Lends(o, k) == o[1] = "variable" \/ (o[1] = "param" /\ o[2] < k)
Secured(stack_, f) ==
  \A k \in DOMAIN stack_ : \A b \in LentTo(stack_[k]) :
    \E o \in DOMAIN f : f[o] = List(b) /\ Lends(o, k)

\* Calls and loops are nested, and name variables that can be seen there.
LoopNested(stack_, k) ==
  LET call == stack_[k].call IN
  /\ call \in 1..(k - 1) /\ stack_[call].kind # "for"
  /\ \A j \in (call + 1)..k : stack_[j].kind = "for" /\ stack_[j].call = call
  /\ stack_[k].var \in VisibleIn(call) \cup {"i"}

CallNested(stack_, k) ==
  \A v \in Variables :
    stack_[k].use = <<"assign", v>> => v \in VisibleIn(CallAt(stack_, k - 1))

Nested(stack_) ==
  /\ stack_ # <<>> /\ stack_[1] = Program
  /\ \A k \in 2..Len(stack_) : stack_[k].kind \in {"call", "for"}
  /\ \A k \in DOMAIN stack_ : stack_[k].kind = "for" => LoopNested(stack_, k)
  /\ \A k \in DOMAIN stack_ : stack_[k].kind = "call" => CallNested(stack_, k)

\* The items a loop has left behind, those included that the list no longer has.
Missed(loop) == {i \in 1..loop.index : i \in DOMAIN loop.visited => ~loop.visited[i]}

LengthIn(heap_, v) == IF IsLent(v) THEN heap_[v[2]] ELSE v[2]

Marked(heap_, loop) ==
  /\ Len(loop.visited) = LengthIn(heap_, loop.list)
  /\ \A i \in DOMAIN loop.visited : loop.visited[i] => i <= loop.index
  /\ Cardinality(Missed(loop)) <= loop.shifted

AllMarked(heap_, stack_) ==
  \A k \in DOMAIN stack_ : stack_[k].kind = "for" => Marked(heap_, stack_[k])

Account(f) == IsFiniteSet(DOMAIN f) /\ f = [o \in DOMAIN f |-> f[o]]
              /\ \A o \in DOMAIN f : f[o] \in Values

Good(s, f) ==
  /\ s \in States /\ s.end = "well" /\ Account(f)
  /\ Exact(s.heap, f) /\ Counted(s.promise, f) /\ Idle(s.promise)
  /\ Secured(s.stack, f)
  /\ Nested(s.stack) /\ AllMarked(s.heap, s.stack)

\* What a state holds is its account.
Holdings(s) == [o \in Owners(s) |-> Owned(s, o)]

Typed == broken \in BOOLEAN /\ lapse \in {"none", "itself", "held", "argument", "result"}
Accounted(s) == Good(s, Holdings(s))

IInv == Accounted(Here) /\ Typed /\ (lapse = "none" => ~broken)

-----------------------------------------------------------------------------
(* Values, and the names of who owns them. *)

LEMMA ListFacts ==
  ASSUME NEW b
  PROVE  /\ IsLent(List(b)) /\ IsList(List(b)) /\ ~IsPromise(List(b))
         /\ List(b)[2] = b /\ List(b) # Plain
         /\ \A c : List(b) = List(c) <=> b = c
         /\ \A n : List(b) # Own(n)
         /\ \A p : List(b) # Promise(p)
BY DEF List, IsLent, IsList, IsPromise, Plain, Own, Promise

LEMMA OwnFacts ==
  ASSUME NEW n
  PROVE  /\ ~IsLent(Own(n)) /\ IsList(Own(n)) /\ ~IsPromise(Own(n)) /\ Own(n)[2] = n
         /\ \A p : Own(n) # Promise(p)
BY DEF IsLent, IsList, IsPromise, Own, Promise

LEMMA PromiseFacts ==
  ASSUME NEW p
  PROVE  /\ IsPromise(Promise(p)) /\ ~IsLent(Promise(p)) /\ ~IsList(Promise(p))
         /\ Promise(p)[2] = p
         /\ \A q : Promise(p) = Promise(q) <=> p = q
BY DEF IsLent, IsList, IsPromise, Promise

LEMMA PlainFacts ==
  /\ ~IsLent(Plain) /\ ~IsList(Plain) /\ ~IsPromise(Plain)
  /\ \A p : Plain # Promise(p)
BY DEF IsLent, IsList, IsPromise, Plain, Promise

LEMMA ValueKinds ==
  ASSUME NEW v \in Values
  PROVE  /\ IsLent(v) => v[2] \in Blocks /\ v = List(v[2])
         /\ IsPromise(v) => v[2] \in Promises /\ v = Promise(v[2])
         /\ IsList(v) => v \in Lists
         /\ IsList(v) /\ ~IsLent(v) => v[2] \in Nat /\ v = Own(v[2])
         /\ IsLent(v) => IsList(v) /\ ~IsPromise(v)
         /\ ~IsPromise(v) => v \in {Plain} \cup Lists
<1>1. CASE v = Plain
  BY <1>1, PlainFacts
<1>2. CASE \E b \in Blocks : v = List(b)
  BY <1>2, ListFacts DEF Lists
<1>3. CASE \E n \in Nat : v = Own(n)
  BY <1>3, OwnFacts DEF Lists
<1>4. CASE \E p \in Promises : v = Promise(p)
  BY <1>4, PromiseFacts
<1> QED
  BY <1>1, <1>2, <1>3, <1>4 DEF Values, Lists

LEMMA KeyFacts ==
  /\ \A v, w : OfVariable(v) = OfVariable(w) <=> v = w
  /\ \A v, w : OfParam(v) = OfParam(w) <=> v = w
  /\ \A v, w : OfPromise(v) = OfPromise(w) <=> v = w
  /\ \A v, w : OfAwait(v) = OfAwait(w) <=> v = w
  /\ \A v, w : /\ OfVariable(v) # OfParam(w) /\ OfVariable(v) # OfPromise(w)
               /\ OfVariable(v) # OfAwait(w) /\ OfParam(v) # OfPromise(w)
               /\ OfParam(v) # OfAwait(w) /\ OfPromise(v) # OfAwait(w)
  /\ \A v, k : /\ Lends(OfVariable(v), k) /\ (Lends(OfParam(v), k) <=> v < k)
               /\ ~Lends(OfPromise(v), k) /\ ~Lends(OfAwait(v), k)
BY DEF OfVariable, OfParam, OfPromise, OfAwait, Lends

LEMMA OwnedFacts ==
  ASSUME NEW s
  PROVE  /\ \A v : Owned(s, OfVariable(v)) = s.vars[v]
         /\ \A k : Owned(s, OfParam(k)) = s.stack[k].param
         /\ \A p : Owned(s, OfPromise(p)) = s.promise[p].value
         /\ \A k : Owned(s, OfAwait(k)) = Promise(s.stack[k].task)
BY DEF Owned, OfVariable, OfParam, OfPromise, OfAwait

-----------------------------------------------------------------------------
(* Accounts: one owner less, one owner more. *)

Drop(f, o) == [x \in DOMAIN f \ {o} |-> f[x]]
With(f, o, v) == [x \in DOMAIN f \cup {o} |-> IF x = o THEN v ELSE f[x]]
Holding(f, p) == {o \in DOMAIN f : f[o] = Promise(p)}

LEMMA HoldingFinite ==
  ASSUME NEW f, Account(f), NEW p
  PROVE  IsFiniteSet(Holding(f, p)) /\ Cardinality(Holding(f, p)) \in Nat
BY FS_Subset, FS_CardinalityType DEF Holding, Account

LEMMA DropAccount ==
  ASSUME NEW f, Account(f), NEW o
  PROVE  Account(Drop(f, o))
<1>1. DOMAIN Drop(f, o) = DOMAIN f \ {o}
  BY DEF Drop
<1>2. IsFiniteSet(DOMAIN f \ {o})
  BY FS_Subset DEF Account
<1> QED
  BY <1>1, <1>2 DEF Account, Drop

LEMMA WithAccount ==
  ASSUME NEW f, Account(f), NEW o, NEW v \in Values
  PROVE  Account(With(f, o, v))
<1>1. DOMAIN With(f, o, v) = DOMAIN f \cup {o}
  BY DEF With
<1>2. IsFiniteSet(DOMAIN f \cup {o})
  BY FS_AddElement DEF Account
<1> QED
  BY <1>1, <1>2 DEF Account, With

LEMMA DropCounted ==
  ASSUME NEW f, Account(f), NEW o \in DOMAIN f,
         NEW p1 \in PromiseTables, NEW p2 \in PromiseTables, Counted(p1, f),
         \A p \in Promises :
           /\ p2[p].state = p1[p].state
           /\ p2[p].refs = p1[p].refs - IF f[o] = Promise(p) THEN 1 ELSE 0
  PROVE  Counted(p2, Drop(f, o))
<1> SUFFICES ASSUME NEW p \in Promises
             PROVE  IF p2[p].state = "none" THEN \A x \in DOMAIN Drop(f, o) : Drop(f, o)[x] # Promise(p)
                    ELSE p2[p].refs > Cardinality(Holding(Drop(f, o), p))
  BY DEF Counted, Holding
<1>1. CASE p2[p].state = "none"
  BY <1>1 DEF Counted, Drop
<1>2. CASE p2[p].state # "none"
  <2>1. p1[p].refs > Cardinality(Holding(f, p)) /\ p1[p].refs \in Int
    BY <1>2 DEF Counted, Holding, PromiseTables
  <2>2. CASE f[o] = Promise(p)
    <3>1. Holding(Drop(f, o), p) = Holding(f, p) \ {o} /\ o \in Holding(f, p)
      BY <2>2 DEF Holding, Drop
    <3>2. Cardinality(Holding(Drop(f, o), p)) = Cardinality(Holding(f, p)) - 1
      BY <3>1, HoldingFinite, FS_RemoveElement
    <3> QED
      BY <1>2, <2>1, <2>2, <3>2, HoldingFinite
  <2>3. CASE f[o] # Promise(p)
    <3>1. Holding(Drop(f, o), p) = Holding(f, p)
      BY <2>3 DEF Holding, Drop
    <3> QED
      BY <1>2, <2>1, <2>3, <3>1
  <2> QED
    BY <2>2, <2>3
<1> QED
  BY <1>1, <1>2

LEMMA WithCounted ==
  ASSUME NEW f, Account(f), NEW o, o \notin DOMAIN f, NEW v,
         NEW p1 \in PromiseTables, NEW p2 \in PromiseTables, Counted(p1, f),
         \A p \in Promises :
           /\ p2[p].state = p1[p].state
           /\ p2[p].refs = p1[p].refs + IF v = Promise(p) THEN 1 ELSE 0
           /\ v = Promise(p) => p1[p].state # "none"
  PROVE  Counted(p2, With(f, o, v))
<1> SUFFICES ASSUME NEW p \in Promises
             PROVE  IF p2[p].state = "none"
                    THEN \A x \in DOMAIN With(f, o, v) : With(f, o, v)[x] # Promise(p)
                    ELSE p2[p].refs > Cardinality(Holding(With(f, o, v), p))
  BY DEF Counted, Holding
<1>1. CASE p2[p].state = "none"
  BY <1>1 DEF Counted, With
<1>2. CASE p2[p].state # "none"
  <2>1. p1[p].refs > Cardinality(Holding(f, p)) /\ p1[p].refs \in Int
    BY <1>2 DEF Counted, Holding, PromiseTables
  <2>2. CASE v = Promise(p)
    <3>1. Holding(With(f, o, v), p) = Holding(f, p) \cup {o} /\ o \notin Holding(f, p)
      BY <2>2 DEF Holding, With
    <3>2. Cardinality(Holding(With(f, o, v), p)) = Cardinality(Holding(f, p)) + 1
      BY <3>1, HoldingFinite, FS_AddElement
    <3> QED
      BY <1>2, <2>1, <2>2, <3>2, HoldingFinite
  <2>3. CASE v # Promise(p)
    <3>1. Holding(With(f, o, v), p) = Holding(f, p)
      BY <2>3 DEF Holding, With
    <3> QED
      BY <1>2, <2>1, <2>3, <3>1
  <2> QED
    BY <2>2, <2>3
<1> QED
  BY <1>1, <1>2

LEMMA DropExact ==
  ASSUME NEW f, Account(f), NEW o \in DOMAIN f, NEW h1 \in Heaps, NEW h2 \in Heaps, Exact(h1, f),
         \A b \in Blocks : h2[b] = IF f[o] = List(b) THEN Freed ELSE h1[b]
  PROVE  Exact(h2, Drop(f, o))
<1> DEFINE g == Drop(f, o)
<1>1. DOMAIN g = DOMAIN f \ {o} /\ \A x \in DOMAIN g : g[x] = f[x] /\ g[x] \in Values
  BY DEF Drop, Account
<1>2. \A x, y \in DOMAIN g : IsLent(g[x]) /\ g[x] = g[y] => x = y
  BY <1>1 DEF Exact
<1>3. \A x \in DOMAIN g : IsLent(g[x]) => h2[g[x][2]] # Freed
  <2> SUFFICES ASSUME NEW x \in DOMAIN g, IsLent(g[x]) PROVE h2[g[x][2]] # Freed
    OBVIOUS
  <2>1. f[x] = g[x] /\ g[x][2] \in Blocks /\ f[x] = List(g[x][2]) /\ x # o
    BY <1>1, ValueKinds
  <2>2. f[o] # List(g[x][2])
    BY <1>1, <2>1 DEF Exact
  <2>3. h1[g[x][2]] # Freed
    BY <1>1, <2>1 DEF Exact
  <2> QED
    BY <2>1, <2>2, <2>3
<1>4. ASSUME NEW b \in Blocks, h2[b] # Freed
      PROVE  \E x \in DOMAIN g : g[x] = List(b)
  <2>1. f[o] # List(b) /\ h1[b] # Freed
    BY <1>4
  <2> QED
    BY <1>1, <2>1 DEF Exact
<1> QED
  BY <1>2, <1>3, <1>4 DEF Exact

LEMMA WithExact ==
  ASSUME NEW f, Account(f), NEW o, o \notin DOMAIN f, NEW v \in Values,
         NEW h1 \in Heaps, NEW h2 \in Heaps, Exact(h1, f),
         \A b \in Blocks : IF v = List(b) THEN h1[b] = Freed /\ h2[b] # Freed ELSE h2[b] = h1[b]
  PROVE  Exact(h2, With(f, o, v))
<1> DEFINE g == With(f, o, v)
<1>1. DOMAIN g = DOMAIN f \cup {o} /\ g[o] = v /\ \A x \in DOMAIN f : g[x] = f[x] /\ f[x] \in Values
  BY DEF With, Account
<1>2. \A x \in DOMAIN f : IsLent(f[x]) => f[x] # v
  <2> SUFFICES ASSUME NEW x \in DOMAIN f, IsLent(f[x]), f[x] = v PROVE FALSE
    OBVIOUS
  <2>1. v[2] \in Blocks /\ v = List(v[2])
    BY ValueKinds
  <2>2. h1[v[2]] # Freed
    BY DEF Exact
  <2> QED
    BY <2>1, <2>2
<1>3. \A x, y \in DOMAIN g : IsLent(g[x]) /\ g[x] = g[y] => x = y
  BY <1>1, <1>2 DEF Exact
<1>4. \A x \in DOMAIN g : IsLent(g[x]) => h2[g[x][2]] # Freed
  <2> SUFFICES ASSUME NEW x \in DOMAIN g, IsLent(g[x]) PROVE h2[g[x][2]] # Freed
    OBVIOUS
  <2>1. g[x] \in Values
    BY <1>1
  <2>2. g[x][2] \in Blocks /\ g[x] = List(g[x][2])
    BY <2>1, ValueKinds
  <2>3. CASE g[x] = v
    BY <2>2, <2>3
  <2>4. CASE g[x] # v
    <3>1. x \in DOMAIN f /\ f[x] = g[x]
      BY <1>1, <2>4
    <3>2. h1[g[x][2]] # Freed
      BY <3>1 DEF Exact
    <3> QED
      BY <2>2, <2>4, <3>2
  <2> QED
    BY <2>3, <2>4
<1>5. ASSUME NEW b \in Blocks, h2[b] # Freed
      PROVE  \E x \in DOMAIN g : g[x] = List(b)
  <2>1. CASE v = List(b)
    BY <1>1, <2>1
  <2>2. CASE v # List(b)
    BY <1>1, <1>5, <2>2 DEF Exact
  <2> QED
    BY <2>1, <2>2
<1> QED
  BY <1>3, <1>4, <1>5 DEF Exact

-----------------------------------------------------------------------------
(* free_value and clone_value. *)

LEMMA LessOneFacts ==
  ASSUME NEW s \in States, NEW p \in Promises
  PROVE  LET t == LessOne(s, p) IN
         /\ t \in States
         /\ t.end = s.end /\ t.heap = s.heap /\ t.vars = s.vars /\ t.stack = s.stack
         /\ \A q \in Promises :
              /\ t.promise[q].state = s.promise[q].state
              /\ t.promise[q].value = s.promise[q].value
              /\ t.promise[q].refs = s.promise[q].refs - IF p = q THEN 1 ELSE 0
<1> DEFINE t == LessOne(s, p)
<1>1. s.promise \in PromiseTables
  BY DEF States
<1>2. /\ t.end = s.end /\ t.heap = s.heap /\ t.vars = s.vars /\ t.stack = s.stack
      /\ t.promise = [s.promise EXCEPT ![p].refs = @ - 1]
      /\ t = [heap |-> t.heap, vars |-> t.vars, stack |-> t.stack, promise |-> t.promise,
              end |-> t.end]
  BY DEF LessOne, States
<1> HIDE DEF t
<1>3. t.promise \in PromiseTables
  BY <1>1, <1>2 DEF PromiseTables
<1>4. t \in States
  BY <1>2, <1>3 DEF States
<1>5. ASSUME NEW q \in Promises
      PROVE  /\ t.promise[q].state = s.promise[q].state
             /\ t.promise[q].value = s.promise[q].value
             /\ t.promise[q].refs = s.promise[q].refs - IF p = q THEN 1 ELSE 0
  BY <1>1, <1>2 DEF PromiseTables
<1> QED
  BY <1>2, <1>4, <1>5 DEF t

LEMMA OneMoreFacts ==
  ASSUME NEW s \in States, NEW p \in Promises
  PROVE  LET t == OneMore(s, p) IN
         /\ t \in States
         /\ t.end = s.end /\ t.heap = s.heap /\ t.vars = s.vars /\ t.stack = s.stack
         /\ \A q \in Promises :
              /\ t.promise[q].state = s.promise[q].state
              /\ t.promise[q].value = s.promise[q].value
              /\ t.promise[q].refs = s.promise[q].refs + IF p = q THEN 1 ELSE 0
<1> DEFINE t == OneMore(s, p)
<1>1. s.promise \in PromiseTables
  BY DEF States
<1>2. /\ t.end = s.end /\ t.heap = s.heap /\ t.vars = s.vars /\ t.stack = s.stack
      /\ t.promise = [s.promise EXCEPT ![p].refs = @ + 1]
      /\ t = [heap |-> t.heap, vars |-> t.vars, stack |-> t.stack, promise |-> t.promise,
              end |-> t.end]
  BY DEF OneMore, States
<1> HIDE DEF t
<1>3. t.promise \in PromiseTables
  BY <1>1, <1>2 DEF PromiseTables
<1>4. t \in States
  BY <1>2, <1>3 DEF States
<1>5. ASSUME NEW q \in Promises
      PROVE  /\ t.promise[q].state = s.promise[q].state
             /\ t.promise[q].value = s.promise[q].value
             /\ t.promise[q].refs = s.promise[q].refs + IF p = q THEN 1 ELSE 0
  BY <1>1, <1>2 DEF PromiseTables
<1> QED
  BY <1>2, <1>4, <1>5 DEF t

LEMMA HeapFacts ==
  ASSUME NEW s \in States, NEW b \in Blocks, NEW n \in Nat \cup {Freed}
  PROVE  LET t == [s EXCEPT !.heap[b] = n] IN
         /\ t \in States
         /\ t.end = s.end /\ t.vars = s.vars /\ t.stack = s.stack /\ t.promise = s.promise
         /\ \A c \in Blocks : t.heap[c] = IF b = c THEN n ELSE s.heap[c]
<1> DEFINE t == [s EXCEPT !.heap[b] = n]
<1>1. s.heap \in Heaps
  BY DEF States
<1>2. /\ t.end = s.end /\ t.vars = s.vars /\ t.stack = s.stack /\ t.promise = s.promise
      /\ t.heap = [s.heap EXCEPT ![b] = n]
      /\ t = [heap |-> t.heap, vars |-> t.vars, stack |-> t.stack, promise |-> t.promise,
              end |-> t.end]
  BY DEF States
<1> HIDE DEF t
<1>3. t.heap \in Heaps
  BY <1>1, <1>2 DEF Heaps
<1>4. t \in States
  BY <1>2, <1>3 DEF States
<1>5. \A c \in Blocks : t.heap[c] = IF b = c THEN n ELSE s.heap[c]
  BY <1>1, <1>2 DEF Heaps
<1> QED
  BY <1>2, <1>4, <1>5 DEF t

LEMMA ReleaseFacts ==
  ASSUME NEW s \in States, s.end = "well", NEW v \in Values, Valid(s, v),
         \A p \in Promises : v = Promise(p) => s.promise[p].refs > 1
  PROVE  LET t == Release(s, v) IN
         /\ t \in States /\ t.end = "well" /\ t.vars = s.vars /\ t.stack = s.stack
         /\ \A b \in Blocks : t.heap[b] = IF v = List(b) THEN Freed ELSE s.heap[b]
         /\ \A p \in Promises :
              /\ t.promise[p].state = s.promise[p].state
              /\ t.promise[p].value = s.promise[p].value
              /\ t.promise[p].refs = s.promise[p].refs - IF v = Promise(p) THEN 1 ELSE 0
<1> DEFINE t == Release(s, v)
<1>1. CASE IsPromise(v)
  <2>1. v[2] \in Promises /\ v = Promise(v[2]) /\ \A b \in Blocks : v # List(b)
    BY <1>1, ValueKinds, ListFacts
  <2>2. t = LessOne(s, v[2])
    BY <1>1, <2>1 DEF Release
  <2>3. \A p \in Promises : v = Promise(p) <=> v[2] = p
    BY <2>1, PromiseFacts
  <2> HIDE DEF t
  <2> QED
    BY <2>1, <2>2, <2>3, LessOneFacts DEF t
<1>2. CASE IsLent(v)
  <2>1. v[2] \in Blocks /\ v = List(v[2]) /\ ~IsPromise(v) /\ \A p \in Promises : v # Promise(p)
    BY <1>2, ValueKinds, PromiseFacts
  <2>2. t = [s EXCEPT !.heap[v[2]] = Freed]
    <3>1. Release(s, v) = FreeList(s, v)
      BY <2>1, Zenon DEF Release
    <3>2. FreeList(s, v) = [s EXCEPT !.heap[v[2]] = Freed]
      BY <1>2, Zenon DEF FreeList
    <3> QED
      BY <3>1, <3>2
  <2>3. \A b \in Blocks : v = List(b) <=> v[2] = b
    BY <2>1, ListFacts
  <2>4. \A p \in Promises : s.promise[p].refs \in Int
    BY DEF States, PromiseTables
  <2> HIDE DEF t
  <2> QED
    BY <2>1, <2>2, <2>3, <2>4, HeapFacts DEF t
<1>3. CASE ~IsPromise(v) /\ ~IsLent(v)
  <2>1. t = s
    <3>1. Release(s, v) = FreeList(s, v)
      BY <1>3, Zenon DEF Release
    <3>2. FreeList(s, v) = s
      BY <1>3, Zenon DEF FreeList
    <3> QED
      BY <3>1, <3>2
  <2>2. (\A b \in Blocks : v # List(b)) /\ (\A p \in Promises : v # Promise(p))
    BY <1>3, ListFacts, PromiseFacts
  <2> QED
    BY <2>1, <2>2 DEF States, PromiseTables
<1> QED
  BY <1>1, <1>2, <1>3

\* What an owner has can be looked at, and of a promise it is not the last reference.
LEMMA OwnedIsValid ==
  ASSUME NEW s, NEW f, Good(s, f), NEW o \in DOMAIN f
  PROVE  /\ f[o] \in Values /\ Valid(s, f[o])
         /\ \A p \in Promises : f[o] = Promise(p) => s.promise[p].refs > 1
<1>1. f[o] \in Values
  BY DEF Good, Account
<1>2. ASSUME NEW p \in Promises, f[o] = Promise(p)
      PROVE  s.promise[p].refs > 1
  <2>1. o \in Holding(f, p)
    BY <1>2 DEF Holding
  <2>2. Cardinality(Holding(f, p)) # 0 /\ Cardinality(Holding(f, p)) \in Nat
    BY <2>1, HoldingFinite, FS_EmptySet DEF Good
  <2>3. s.promise[p].refs > Cardinality(Holding(f, p))
    BY <1>2 DEF Good, Counted, Holding
  <2> QED
    BY <2>2, <2>3 DEF Good, States, PromiseTables
<1>3. IsPromise(f[o]) => s.promise[f[o][2]].refs > 0
  <2> SUFFICES ASSUME IsPromise(f[o]) PROVE s.promise[f[o][2]].refs > 0
    OBVIOUS
  <2>1. f[o][2] \in Promises /\ f[o] = Promise(f[o][2])
    BY <1>1, ValueKinds
  <2> QED
    BY <1>2, <2>1 DEF Good, States, PromiseTables
<1>4. IsLent(f[o]) => ~IsNew(f[o][2], s.heap)
  BY DEF Good, Exact, IsNew
<1> QED
  BY <1>1, <1>2, <1>3, <1>4 DEF Valid

LEMMA SameMarks ==
  ASSUME NEW stack_ \in Seq(Frames), NEW h1, NEW h2, AllMarked(h1, stack_),
         \A b \in Lent(stack_) : h2[b] = h1[b]
  PROVE  AllMarked(h2, stack_)
<1> SUFFICES ASSUME NEW k \in DOMAIN stack_, stack_[k].kind = "for"
             PROVE  Marked(h2, stack_[k])
  BY DEF AllMarked
<1>1. Marked(h1, stack_[k])
  BY DEF AllMarked
<1>2. LengthIn(h2, stack_[k].list) = LengthIn(h1, stack_[k].list)
  <2>1. CASE IsLent(stack_[k].list)
    <3>1. stack_[k].list[2] \in LentTo(stack_[k])
      BY <2>1 DEF LentTo
    <3>2. stack_[k].list[2] \in Lent(stack_)
      BY <3>1 DEF Lent
    <3> QED
      BY <2>1, <3>2 DEF LengthIn
  <2>2. CASE ~IsLent(stack_[k].list)
    BY <2>2 DEF LengthIn
  <2> QED
    BY <2>1, <2>2
<1> QED
  BY <1>1, <1>2 DEF Marked

\* What is lent is in memory.
LEMMA LentIsLive ==
  ASSUME NEW s, NEW f, Good(s, f), NEW b \in Lent(s.stack)
  PROVE  b \in Blocks /\ s.heap[b] # Freed /\ s.heap[b] \in Nat
<1>1. PICK k \in DOMAIN s.stack : b \in LentTo(s.stack[k])
  BY DEF Lent
<1>2. s.stack[k] \in Frames
  BY ElementOfSeq, LenProperties DEF Good, States
<1>3. b \in Blocks
  <2>1. CASE s.stack[k].kind = "for" /\ IsLent(s.stack[k].list)
    <3>1. s.stack[k] \in LoopFrames
      BY <1>2, <2>1 DEF Frames, ProgramFrames, Program, CallFrames
    <3>2. s.stack[k].list \in Values
      BY <3>1 DEF LoopFrames, Values
    <3> QED
      BY <1>1, <2>1, <3>2, ValueKinds DEF LentTo
  <2>2. CASE s.stack[k].kind = "call" /\ s.stack[k].use[1] = "append"
    <3>1. s.stack[k] \in CallFrames
      BY <1>2, <2>2 DEF Frames, ProgramFrames, Program, LoopFrames
    <3>2. s.stack[k].use \in AllUses
      BY <3>1 DEF CallFrames
    <3>3. s.stack[k].use[2] \in Blocks
      BY <2>2, <3>2 DEF AllUses
    <3> QED
      BY <1>1, <2>2, <3>3 DEF LentTo
  <2> QED
    BY <1>1, <2>1, <2>2 DEF LentTo
<1>4. PICK o \in DOMAIN f : f[o] = List(b)
  BY <1>1 DEF Good, Secured
<1>5. s.heap[b] # Freed
  BY <1>4, ListFacts DEF Good, Exact
<1> QED
  BY <1>3, <1>5 DEF Good, States, Heaps

LEMMA GiveUp ==
  ASSUME NEW s, NEW f, Good(s, f), NEW o \in DOMAIN f,
         \A b \in Lent(s.stack) : f[o] # List(b)
  PROVE  LET t == Release(s, f[o]) IN
         /\ Good(t, Drop(f, o))
         /\ t.vars = s.vars /\ t.stack = s.stack
         /\ \A p \in Promises : /\ t.promise[p].state = s.promise[p].state
                                /\ t.promise[p].value = s.promise[p].value
<1> DEFINE t == Release(s, f[o])
           g == Drop(f, o)
<1>1. /\ t \in States /\ t.end = "well" /\ t.vars = s.vars /\ t.stack = s.stack
      /\ \A b \in Blocks : t.heap[b] = IF f[o] = List(b) THEN Freed ELSE s.heap[b]
      /\ \A p \in Promises :
           /\ t.promise[p].state = s.promise[p].state
           /\ t.promise[p].value = s.promise[p].value
           /\ t.promise[p].refs = s.promise[p].refs - IF f[o] = Promise(p) THEN 1 ELSE 0
  <2>1. s \in States /\ s.end = "well"
    BY DEF Good
  <2>2. \A p \in Promises : f[o] = Promise(p) => s.promise[p].refs > 1
    BY OwnedIsValid
  <2> HIDE DEF t
  <2> QED
    BY <2>1, <2>2, OwnedIsValid, ReleaseFacts DEF t
<1> HIDE DEF t
<1>2. Account(g)
  BY DropAccount DEF Good
<1>3. Exact(t.heap, g)
  BY <1>1, DropExact DEF Good, States
<1>4. Counted(t.promise, g)
  BY <1>1, DropCounted DEF Good, States
<1>5. Secured(t.stack, g)
  <2> SUFFICES ASSUME NEW k \in DOMAIN s.stack, NEW b \in LentTo(s.stack[k])
               PROVE  \E x \in DOMAIN g : g[x] = List(b) /\ Lends(x, k)
    BY <1>1 DEF Secured
  <2>1. PICK x \in DOMAIN f : f[x] = List(b) /\ Lends(x, k)
    BY DEF Good, Secured
  <2>2. b \in Lent(s.stack)
    BY DEF Lent
  <2>3. x # o
    BY <2>1, <2>2
  <2> QED
    BY <2>1, <2>3 DEF Drop
<1>6. AllMarked(t.heap, t.stack)
  <2>1. \A b \in Lent(s.stack) : t.heap[b] = s.heap[b]
    BY <1>1, LentIsLive
  <2> QED
    BY <1>1, <2>1, SameMarks DEF Good, States
<1>7. Nested(t.stack)
  BY <1>1 DEF Good
<1>8. Good(t, g)
  BY <1>1, <1>2, <1>3, <1>4, <1>5, <1>6, <1>7 DEF Good, Idle
<1> QED
  BY <1>1, <1>8 DEF t

\* A value that can be looked at and copied.
Usable(s, v) == /\ IsLent(v) => s.heap[v[2]] # Freed
                /\ \A p \in Promises : v = Promise(p) => s.promise[p].state # "none"

LEMMA UsableIsValid ==
  ASSUME NEW s, NEW f, Good(s, f), NEW v \in Values, Usable(s, v)
  PROVE  Valid(s, v)
<1>1. IsPromise(v) => s.promise[v[2]].refs > 0
  <2> SUFFICES ASSUME IsPromise(v) PROVE s.promise[v[2]].refs > 0
    OBVIOUS
  <2>1. v[2] \in Promises /\ v = Promise(v[2])
    BY ValueKinds
  <2>2. s.promise[v[2]].refs > Cardinality(Holding(f, v[2]))
    BY <2>1 DEF Usable, Good, Counted, Holding
  <2>3. Cardinality(Holding(f, v[2])) \in Nat
    BY HoldingFinite DEF Good
  <2> QED
    BY <2>1, <2>2, <2>3 DEF Good, States, PromiseTables
<1> QED
  BY <1>1 DEF Valid, Usable, IsNew

LEMMA CloneFacts ==
  ASSUME NEW s \in States, s.end = "well", NEW v \in Values, Valid(s, v)
  PROVE  LET t == Clone(s, v)
             c == Copy(s, v) IN
         /\ t \in States /\ t.vars = s.vars /\ t.stack = s.stack /\ c \in Values
         /\ IF IsPromise(v) THEN c = v ELSE c \in {Plain} \cup Lists
         /\ t.end # "full" =>
              /\ t.end = "well"
              /\ \A b \in Blocks : IF c = List(b) THEN s.heap[b] = Freed /\ t.heap[b] # Freed
                                   ELSE t.heap[b] = s.heap[b]
              /\ \A p \in Promises :
                   /\ t.promise[p].state = s.promise[p].state
                   /\ t.promise[p].value = s.promise[p].value
                   /\ t.promise[p].refs = s.promise[p].refs + IF c = Promise(p) THEN 1 ELSE 0
<1> DEFINE t == Clone(s, v)
           c == Copy(s, v)
<1>0. \A p \in Promises : s.promise[p].refs \in Int
  BY DEF States, PromiseTables
<1>1. CASE IsPromise(v)
  <2>1. v[2] \in Promises /\ v = Promise(v[2]) /\ (\A b \in Blocks : v # List(b)) /\ ~IsList(v)
    BY <1>1, ValueKinds, ListFacts, PromiseFacts
  <2>2. t = OneMore(s, v[2])
    BY <1>1, Zenon DEF Clone
  <2>3. c = v
    BY <2>1, Zenon DEF Copy
  <2>4. \A p \in Promises : v = Promise(p) <=> v[2] = p
    BY <2>1, PromiseFacts
  <2> HIDE DEF t, c
  <2> QED
    BY <1>1, <2>1, <2>2, <2>3, <2>4, OneMoreFacts DEF t, c
<1>2. CASE IsList(v) /\ HasRoom(s)
  <2> DEFINE b0 == NewBlock(s)
             n == Length(s, v)
  <2>1. b0 \in Blocks /\ s.heap[b0] = Freed
    BY <1>2 DEF HasRoom, NewBlock, IsNew
  <2>2. n \in Nat
    <3>1. CASE IsLent(v)
      BY <3>1, ValueKinds DEF Length, Valid, IsNew, States, Heaps
    <3>2. CASE ~IsLent(v)
      BY <1>2, <3>2, ValueKinds DEF Length
    <3> QED
      BY <3>1, <3>2
  <2>3. ~IsPromise(v)
    BY <1>2, ValueKinds, OwnFacts
  <2>4. t = [s EXCEPT !.heap[b0] = n]
    <3>1. Clone(s, v) = CloneList(s, v)
      BY <1>2, <2>3, Zenon DEF Clone
    <3>2. CloneList(s, v) = [s EXCEPT !.heap[b0] = n]
      BY <1>2, Zenon DEF CloneList
    <3> QED
      BY <3>1, <3>2
  <2>5. c = List(b0)
    BY <1>2, Zenon DEF Copy
  <2> HIDE DEF t, c, b0, n
  <2>6. c \in Lists /\ c \in Values /\ (\A b \in Blocks : c = List(b) <=> b0 = b)
        /\ (\A p \in Promises : c # Promise(p))
    BY <2>1, <2>5, ListFacts DEF Lists, Values
  <2>7. n # Freed
    BY <2>2 DEF Freed
  <2>8. /\ t \in States
        /\ t.end = s.end /\ t.vars = s.vars /\ t.stack = s.stack /\ t.promise = s.promise
        /\ \A b \in Blocks : t.heap[b] = IF b0 = b THEN n ELSE s.heap[b]
    BY <2>1, <2>2, <2>4, HeapFacts
  <2> QED
    BY <1>0, <2>1, <2>3, <2>6, <2>7, <2>8 DEF t, c
<1>3. CASE IsList(v) /\ ~HasRoom(s)
  <2>1. ~IsPromise(v) /\ c = v
    BY <1>3, ValueKinds, OwnFacts, Zenon DEF Copy
  <2>2. t = [s EXCEPT !.end = "full"]
    <3>1. Clone(s, v) = CloneList(s, v)
      BY <1>3, <2>1, Zenon DEF Clone
    <3>2. CloneList(s, v) = Ends(s, "full")
      BY <1>3, Zenon DEF CloneList
    <3> QED
      BY <3>1, <3>2 DEF Ends
  <2>3. t \in States /\ t.vars = s.vars /\ t.stack = s.stack /\ t.end = "full"
    BY <2>2 DEF States
  <2> QED
    BY <1>3, <2>1, <2>3, ValueKinds
<1>4. CASE ~IsPromise(v) /\ ~IsList(v)
  <2>1. t = s
    BY <1>4, Zenon DEF Clone
  <2>2. c = v
    BY <1>4, Zenon DEF Copy
  <2>3. (\A b \in Blocks : v # List(b)) /\ (\A p \in Promises : v # Promise(p))
    BY <1>4, ListFacts, PromiseFacts
  <2>4. v \in {Plain} \cup Lists
    BY <1>4, ValueKinds
  <2> HIDE DEF t, c
  <2> QED
    BY <1>0, <1>4, <2>1, <2>2, <2>3, <2>4 DEF t, c
<1> QED
  BY <1>1, <1>2, <1>3, <1>4, ValueKinds

\* A new owner is given a copy.
LEMMA TakeOn ==
  ASSUME NEW s, NEW f, Good(s, f), NEW o, o \notin DOMAIN f, NEW v \in Values, Usable(s, v)
  PROVE  LET t == Clone(s, v)
             c == Copy(s, v) IN
         /\ t \in States /\ t.vars = s.vars /\ t.stack = s.stack /\ c \in Values
         /\ IF IsPromise(v) THEN c = v ELSE c \in {Plain} \cup Lists
         /\ t.end # "full" =>
              /\ Good(t, With(f, o, c))
              /\ \A p \in Promises : /\ t.promise[p].state = s.promise[p].state
                                     /\ t.promise[p].value = s.promise[p].value
<1> DEFINE t == Clone(s, v)
           c == Copy(s, v)
           g == With(f, o, c)
<1>1. /\ t \in States /\ t.vars = s.vars /\ t.stack = s.stack /\ c \in Values
      /\ IF IsPromise(v) THEN c = v ELSE c \in {Plain} \cup Lists
      /\ t.end # "full" =>
           /\ t.end = "well"
           /\ \A b \in Blocks : IF c = List(b) THEN s.heap[b] = Freed /\ t.heap[b] # Freed
                                ELSE t.heap[b] = s.heap[b]
           /\ \A p \in Promises :
                /\ t.promise[p].state = s.promise[p].state
                /\ t.promise[p].value = s.promise[p].value
                /\ t.promise[p].refs = s.promise[p].refs + IF c = Promise(p) THEN 1 ELSE 0
  <2>1. s \in States /\ s.end = "well" /\ Valid(s, v)
    BY UsableIsValid DEF Good
  <2> HIDE DEF t, c
  <2> QED
    BY <2>1, CloneFacts DEF t, c
<1> HIDE DEF t, c
<1> SUFFICES ASSUME t.end # "full" PROVE Good(t, g)
  BY <1>1 DEF t, c
<1>2. Account(g)
  BY <1>1, WithAccount DEF Good
<1>3. Exact(t.heap, g)
  BY <1>1, WithExact DEF Good, States
<1>4. Counted(t.promise, g)
  <2>1. \A p \in Promises : c = Promise(p) => s.promise[p].state # "none"
    <3> SUFFICES ASSUME NEW p \in Promises, c = Promise(p) PROVE s.promise[p].state # "none"
      OBVIOUS
    <3>1. IsPromise(v)
      BY <1>1, PlainFacts, ListFacts, OwnFacts DEF Lists
    <3> QED
      BY <1>1, <3>1 DEF Usable
  <2> QED
    BY <1>1, <2>1, WithCounted DEF Good, States
<1>5. Secured(t.stack, g)
  <2> SUFFICES ASSUME NEW k \in DOMAIN s.stack, NEW b \in LentTo(s.stack[k])
               PROVE  \E x \in DOMAIN g : g[x] = List(b) /\ Lends(x, k)
    BY <1>1 DEF Secured
  <2>1. PICK x \in DOMAIN f : f[x] = List(b) /\ Lends(x, k)
    BY DEF Good, Secured
  <2> QED
    BY <2>1 DEF With
<1>6. AllMarked(t.heap, t.stack)
  <2>1. \A b \in Lent(s.stack) : t.heap[b] = s.heap[b]
    BY <1>1, LentIsLive
  <2> QED
    BY <1>1, <2>1, SameMarks DEF Good, States
<1>7. Nested(t.stack) /\ Idle(t.promise)
  BY <1>1 DEF Good, Idle
<1> QED
  BY <1>1, <1>2, <1>3, <1>4, <1>5, <1>6, <1>7 DEF Good

\* An owner that has no list stops being one.
LEMMA Forget ==
  ASSUME NEW s, NEW f, Good(s, f), NEW o \in DOMAIN f, ~IsLent(f[o])
  PROVE  Good(s, Drop(f, o))
<1> DEFINE g == Drop(f, o)
<1>1. Account(g)
  BY DropAccount DEF Good
<1>2. DOMAIN g = DOMAIN f \ {o} /\ \A x \in DOMAIN g : g[x] = f[x]
  BY DEF Drop
<1>3. \A b : f[o] # List(b)
  BY ListFacts
<1>4. Exact(s.heap, g)
  <2>1. \A b \in Blocks : s.heap[b] # Freed => \E x \in DOMAIN g : g[x] = List(b)
    BY <1>2, <1>3 DEF Good, Exact
  <2> QED
    BY <1>2, <2>1 DEF Good, Exact
<1>5. Counted(s.promise, g)
  <2> SUFFICES ASSUME NEW p \in Promises
               PROVE  IF s.promise[p].state = "none" THEN \A x \in DOMAIN g : g[x] # Promise(p)
                      ELSE s.promise[p].refs > Cardinality(Holding(g, p))
    BY DEF Counted, Holding
  <2>1. CASE s.promise[p].state = "none"
    BY <1>2, <2>1 DEF Good, Counted
  <2>2. CASE s.promise[p].state # "none"
    <3>1. Holding(g, p) \subseteq Holding(f, p)
      BY <1>2 DEF Holding
    <3>2. Cardinality(Holding(g, p)) <= Cardinality(Holding(f, p))
      BY <3>1, HoldingFinite, FS_Subset DEF Good
    <3>3. s.promise[p].refs > Cardinality(Holding(f, p))
      BY <2>2 DEF Good, Counted, Holding
    <3>4. Cardinality(Holding(g, p)) \in Nat /\ Cardinality(Holding(f, p)) \in Nat
      BY <1>1, HoldingFinite DEF Good
    <3> QED
      BY <2>2, <3>2, <3>3, <3>4 DEF Good, States, PromiseTables
  <2> QED
    BY <2>1, <2>2
<1>6. Secured(s.stack, g)
  <2> SUFFICES ASSUME NEW k \in DOMAIN s.stack, NEW b \in LentTo(s.stack[k])
               PROVE  \E x \in DOMAIN g : g[x] = List(b) /\ Lends(x, k)
    BY DEF Secured
  <2>1. PICK x \in DOMAIN f : f[x] = List(b) /\ Lends(x, k)
    BY DEF Good, Secured
  <2> QED
    BY <1>2, <1>3, <2>1
<1> QED
  BY <1>1, <1>4, <1>5, <1>6 DEF Good

\* One more reference that nobody gives back.
LEMMA MoreRefs ==
  ASSUME NEW s, NEW f, Good(s, f), NEW p \in Promises
  PROVE  LET t == OneMore(s, p) IN
         /\ Good(t, f) /\ t.vars = s.vars /\ t.stack = s.stack
         /\ \A q \in Promises : /\ t.promise[q].state = s.promise[q].state
                                /\ t.promise[q].value = s.promise[q].value
<1> DEFINE t == OneMore(s, p)
<1>1. /\ t \in States
      /\ t.end = s.end /\ t.heap = s.heap /\ t.vars = s.vars /\ t.stack = s.stack
      /\ \A q \in Promises :
           /\ t.promise[q].state = s.promise[q].state
           /\ t.promise[q].value = s.promise[q].value
           /\ t.promise[q].refs = s.promise[q].refs + IF p = q THEN 1 ELSE 0
  BY OneMoreFacts DEF Good
<1> HIDE DEF t
<1>2. Counted(t.promise, f)
  <2> SUFFICES ASSUME NEW q \in Promises
               PROVE  IF t.promise[q].state = "none" THEN \A x \in DOMAIN f : f[x] # Promise(q)
                      ELSE t.promise[q].refs > Cardinality(Holding(f, q))
    BY DEF Counted, Holding
  <2>1. CASE t.promise[q].state = "none"
    BY <1>1, <2>1 DEF Good, Counted
  <2>2. CASE t.promise[q].state # "none"
    <3>1. s.promise[q].refs > Cardinality(Holding(f, q))
      BY <1>1, <2>2 DEF Good, Counted, Holding
    <3>2. Cardinality(Holding(f, q)) \in Nat
      BY HoldingFinite DEF Good
    <3>3. s.promise[q].refs \in Int
      BY DEF Good, States, PromiseTables
    <3> QED
      BY <1>1, <2>2, <3>1, <3>2, <3>3
  <2> QED
    BY <2>1, <2>2
<1>3. Idle(t.promise)
  BY <1>1 DEF Good, Idle
<1> QED
  BY <1>1, <1>2, <1>3 DEF Good, t

\* What one owner has goes to another one.
LEMMA Rename ==
  ASSUME NEW s, NEW f, Good(s, f), NEW o \in DOMAIN f, NEW n, n \notin DOMAIN f,
         \A b \in Lent(s.stack) : f[o] # List(b)
  PROVE  Good(s, With(Drop(f, o), n, f[o]))
<1> DEFINE v == f[o]
           d == Drop(f, o)
           g == With(d, n, v)
           h == [b \in Blocks |-> IF v = List(b) THEN Freed ELSE s.heap[b]]
           r == [p \in Promises |->
                   [state |-> s.promise[p].state, value |-> s.promise[p].value,
                    refs |-> s.promise[p].refs - IF v = Promise(p) THEN 1 ELSE 0]]
<1>1. v \in Values /\ Account(f) /\ Account(d)
  BY DropAccount DEF Good, Account
<1>2. DOMAIN d = DOMAIN f \ {o} /\ n \notin DOMAIN d /\ \A x \in DOMAIN d : d[x] = f[x]
  BY DEF Drop
<1>3. s.heap \in Heaps /\ s.promise \in PromiseTables
  BY DEF Good, States
<1>4. h \in Heaps /\ \A b \in Blocks : h[b] = IF v = List(b) THEN Freed ELSE s.heap[b]
  BY <1>3 DEF Heaps
<1>5. /\ r \in PromiseTables
      /\ \A p \in Promises :
           /\ r[p].state = s.promise[p].state
           /\ r[p].refs = s.promise[p].refs - IF v = Promise(p) THEN 1 ELSE 0
           /\ s.promise[p].refs = r[p].refs + IF v = Promise(p) THEN 1 ELSE 0
  <2>1. \A p \in Promises : /\ s.promise[p].refs \in Int /\ s.promise[p].state \in Life
                            /\ s.promise[p].value \in {Plain} \cup Lists
    BY <1>3 DEF PromiseTables
  <2>2. \A p \in Promises : s.promise[p].refs - (IF v = Promise(p) THEN 1 ELSE 0) \in Int
    BY <2>1
  <2>3. r \in PromiseTables
    BY <2>1, <2>2 DEF PromiseTables
  <2> QED
    BY <2>1, <2>3
<1> HIDE DEF h, r
<1>6. Exact(h, d)
  BY <1>1, <1>3, <1>4, DropExact DEF Good
<1>7. Counted(r, d)
  BY <1>1, <1>3, <1>5, DropCounted DEF Good
<1>8. Exact(s.heap, g)
  <2>1. \A b \in Blocks : v = List(b) => s.heap[b] # Freed
    BY ListFacts DEF Good, Exact
  <2>2. \A b \in Blocks : IF v = List(b) THEN h[b] = Freed /\ s.heap[b] # Freed
                          ELSE s.heap[b] = h[b]
    BY <1>4, <2>1
  <2> HIDE DEF d, v
  <2> QED
    BY <1>1, <1>2, <1>3, <1>4, <1>6, <2>2, WithExact
<1>9. Counted(s.promise, g)
  <2>1. \A p \in Promises : v = Promise(p) => s.promise[p].state # "none"
    BY DEF Good, Counted
  <2> HIDE DEF d, v
  <2> QED
    BY <1>1, <1>2, <1>3, <1>5, <1>7, <2>1, WithCounted
<1>10. Account(g)
  <2> HIDE DEF d, v
  <2> QED
    BY <1>1, WithAccount
<1>11. Secured(s.stack, g)
  <2> SUFFICES ASSUME NEW k \in DOMAIN s.stack, NEW b \in LentTo(s.stack[k])
               PROVE  \E x \in DOMAIN g : g[x] = List(b) /\ Lends(x, k)
    BY DEF Secured
  <2>1. PICK x \in DOMAIN f : f[x] = List(b) /\ Lends(x, k)
    BY DEF Good, Secured
  <2>2. b \in Lent(s.stack)
    BY DEF Lent
  <2>3. x # o
    BY <2>1, <2>2
  <2>4. x \in DOMAIN g /\ g[x] = f[x]
    BY <1>2, <2>1, <2>3 DEF With
  <2> QED
    BY <2>1, <2>4
<1> QED
  BY <1>8, <1>9, <1>10, <1>11 DEF Good

-----------------------------------------------------------------------------
(* The stack. *)

\* Stacks that differ in parameters and tasks, and in how far loops are.
SameShape(stack1, stack2) ==
  /\ Len(stack1) = Len(stack2)
  /\ \A k \in DOMAIN stack1 :
       /\ stack2[k].kind = stack1[k].kind
       /\ stack1[k].kind = "for" => /\ stack2[k].call = stack1[k].call
                                   /\ stack2[k].var = stack1[k].var
                                   /\ stack2[k].list = stack1[k].list
       /\ stack1[k].kind = "call" => stack2[k].use = stack1[k].use
       /\ k = 1 => stack2[k] = stack1[k]

LEMMA FrameKinds ==
  ASSUME NEW fr \in Frames
  PROVE  /\ fr.kind \in {"program", "call", "for"}
         /\ fr.kind = "for" => fr \in LoopFrames
         /\ fr.kind = "call" => fr \in CallFrames
         /\ fr.kind = "program" => fr = Program
BY DEF Frames, ProgramFrames, Program, CallFrames, LoopFrames

LEMMA SameLent ==
  ASSUME NEW fr1, NEW fr2, fr2.kind = fr1.kind,
         fr1.kind = "for" => fr2.list = fr1.list, fr1.kind = "call" => fr2.use = fr1.use
  PROVE  LentTo(fr2) = LentTo(fr1)
BY DEF LentTo

LEMMA SameNested ==
  ASSUME NEW s1 \in Seq(Frames), NEW s2 \in Seq(Frames), SameShape(s1, s2), Nested(s1)
  PROVE  Nested(s2)
<1>1. DOMAIN s1 = 1..Len(s1) /\ DOMAIN s2 = 1..Len(s1) /\ Len(s2) = Len(s1) /\ Len(s1) \in Nat
  BY LenProperties DEF SameShape
<1>2. \A k \in 1..Len(s1) : /\ s2[k].kind = s1[k].kind
                            /\ s1[k].kind = "for" => /\ s2[k].call = s1[k].call
                                                     /\ s2[k].var = s1[k].var
                                                     /\ s2[k].list = s1[k].list
                            /\ s1[k].kind = "call" => s2[k].use = s1[k].use
                            /\ k = 1 => s2[k] = s1[k]
  BY <1>1 DEF SameShape
<1>3. s2 # <<>> /\ s2[1] = Program
  <2>1. Len(s1) # 0
    BY EmptySeq DEF Nested
  <2> QED
    BY <1>1, <1>2, <2>1, EmptySeq DEF Nested
<1>4. \A k \in 2..Len(s2) : s2[k].kind \in {"call", "for"}
  BY <1>1, <1>2 DEF Nested
<1>5. ASSUME NEW k \in DOMAIN s2, s2[k].kind = "for"
      PROVE  LoopNested(s2, k)
  <2>1. /\ s1[k].call = s2[k].call /\ s1[k].var = s2[k].var /\ LoopNested(s1, k)
        /\ k \in 1..Len(s1)
    BY <1>1, <1>2, <1>5 DEF Nested
  <2> DEFINE call == s1[k].call
  <2>2. /\ call \in 1..(k - 1) /\ s1[call].kind # "for"
        /\ \A j \in (call + 1)..k : s1[j].kind = "for" /\ s1[j].call = call
        /\ s1[k].var \in VisibleIn(call) \cup {"i"}
    BY <2>1 DEF LoopNested
  <2>3. call \in 1..Len(s1) /\ \A j \in (call + 1)..k : j \in 1..Len(s1)
    BY <1>1, <2>1, <2>2
  <2>4. s2[call].kind # "for" /\ \A j \in (call + 1)..k : s2[j].kind = "for" /\ s2[j].call = call
    BY <1>2, <2>2, <2>3
  <2> QED
    BY <2>1, <2>2, <2>4 DEF LoopNested
<1>6. ASSUME NEW k \in DOMAIN s2, s2[k].kind = "call"
      PROVE  CallNested(s2, k)
  <2>1. s1[k].kind = "call" /\ s1[k].use = s2[k].use /\ CallNested(s1, k) /\ k \in 1..Len(s1) /\ k # 1
    BY <1>1, <1>2, <1>3, <1>6 DEF Nested, Program
  <2>2. k - 1 \in 1..Len(s1)
    BY <1>1, <2>1
  <2>3. CallAt(s2, k - 1) = CallAt(s1, k - 1)
    BY <1>2, <2>2 DEF CallAt
  <2> QED
    BY <2>1, <2>3 DEF CallNested
<1> QED
  BY <1>3, <1>4, <1>5, <1>6 DEF Nested

\* What the invariant says of a state speaks neither of what variables, parameters
\* and promises hold nor of what tasks calls run.
LEMMA Reshaped ==
  ASSUME NEW s, NEW f, Good(s, f), NEW t \in States, t.end = "well",
         Exact(t.heap, f), AllMarked(t.heap, t.stack), SameShape(s.stack, t.stack),
         \A p \in Promises : /\ t.promise[p].state = "none" <=> s.promise[p].state = "none"
                             /\ t.promise[p].refs = s.promise[p].refs
                             /\ t.promise[p].state = "none" => t.promise[p].value = Plain
  PROVE  Good(t, f)
<1>1. s.stack \in Seq(Frames) /\ t.stack \in Seq(Frames)
  BY DEF Good, States
<1>2. DOMAIN s.stack = DOMAIN t.stack
  BY <1>1, LenProperties DEF SameShape
<1>3. \A k \in DOMAIN s.stack : LentTo(t.stack[k]) = LentTo(s.stack[k])
  BY SameLent DEF SameShape
<1>4. Counted(t.promise, f)
  BY DEF Good, Counted
<1>5. Idle(t.promise)
  BY DEF Idle
<1>6. Secured(t.stack, f)
  BY <1>2, <1>3 DEF Good, Secured
<1>7. Nested(t.stack)
  BY <1>1, SameNested DEF Good
<1> QED
  BY <1>4, <1>5, <1>6, <1>7 DEF Good

\* The step that stores values where variables, parameters and promises have them.
LEMMA Stored ==
  ASSUME NEW s, NEW f, Good(s, f), NEW t \in States, t.end = "well", t.heap = s.heap,
         \A p \in Promises : /\ t.promise[p].state = "none" <=> s.promise[p].state = "none"
                             /\ t.promise[p].refs = s.promise[p].refs
                             /\ t.promise[p].state = "none" => t.promise[p].value = Plain,
         SameShape(s.stack, t.stack),
         \A k \in DOMAIN s.stack : s.stack[k].kind = "for" => t.stack[k] = s.stack[k]
  PROVE  Good(t, f)
<1>1. DOMAIN s.stack = DOMAIN t.stack
  BY LenProperties DEF SameShape, Good, States
<1>2. Exact(t.heap, f) /\ AllMarked(t.heap, t.stack)
  BY <1>1 DEF Good, AllMarked, SameShape
<1> QED
  BY <1>2, Reshaped

\* The call around a frame, and that all frames further in are loops of it.
LEMMA CallAround ==
  ASSUME NEW st \in Seq(Frames), Nested(st), NEW k \in 1..Len(st)
  PROVE  LET c == CallAt(st, k) IN
         /\ c \in 1..k /\ st[c] \in Frames /\ st[c].kind # "for"
         /\ \A j \in (c + 1)..k : st[j].kind = "for" /\ st[j].call = c
         /\ c # 1 => st[c].kind = "call" /\ st[c] \in CallFrames
<1> DEFINE c == CallAt(st, k)
<1>1. Len(st) \in Nat /\ DOMAIN st = 1..Len(st)
  BY LenProperties
<1>2. /\ c \in 1..k /\ st[c].kind # "for"
      /\ \A j \in (c + 1)..k : st[j].kind = "for" /\ st[j].call = c
  <2>1. CASE st[k].kind = "for"
    <3>1. c = st[k].call
      BY <2>1 DEF CallAt
    <3>2. LoopNested(st, k)
      BY <1>1, <2>1 DEF Nested
    <3> QED
      BY <3>1, <3>2 DEF LoopNested
  <2>2. CASE st[k].kind # "for"
    <3>1. c = k
      BY <2>2 DEF CallAt
    <3> QED
      BY <2>2, <3>1
  <2> QED
    BY <2>1, <2>2
<1> HIDE DEF c
<1>3. c \in 1..Len(st)
  BY <1>1, <1>2
<1>4. st[c] \in Frames
  BY <1>3, ElementOfSeq
<1>5. c # 1 => st[c].kind = "call"
  BY <1>1, <1>2, <1>3 DEF Nested
<1> QED
  BY <1>2, <1>4, <1>5, FrameKinds DEF c

LEMMA LoopNestedSame ==
  ASSUME NEW st1, NEW st2, NEW k \in Nat, \A j \in 1..k : st2[j] = st1[j],
         k >= 1, LoopNested(st1, k)
  PROVE  LoopNested(st2, k)
<1>1. st2[k] = st1[k] /\ st1[k].call \in 1..(k - 1)
  BY DEF LoopNested
<1> DEFINE call == st1[k].call
<1> HIDE DEF call
<1>2. call \in 1..k /\ \A j \in (call + 1)..k : j \in 1..k
  BY <1>1 DEF call
<1> QED
  BY <1>1, <1>2 DEF LoopNested, call

LEMMA CallNestedSame ==
  ASSUME NEW st1, NEW st2, NEW k \in Nat, k >= 2, \A j \in 1..k : st2[j] = st1[j],
         CallNested(st1, k)
  PROVE  CallNested(st2, k)
<1>1. k - 1 \in 1..k /\ k \in 1..k
  OBVIOUS
<1>2. CallAt(st2, k - 1) = CallAt(st1, k - 1)
  BY <1>1 DEF CallAt
<1> QED
  BY <1>1, <1>2 DEF CallNested

LEMMA PrefixFacts ==
  ASSUME NEW S, NEW seq \in Seq(S), NEW n \in 1..Len(seq)
  PROVE  /\ SubSeq(seq, 1, n) \in Seq(S) /\ Len(SubSeq(seq, 1, n)) = n
         /\ \A k \in 1..n : SubSeq(seq, 1, n)[k] = seq[k]
<1>1. Len(seq) \in Nat /\ \A i \in 1..n : seq[i] \in S
  BY LenProperties, ElementOfSeq
<1> QED
  BY <1>1

\* The innermost frames end.
LEMMA PopGood ==
  ASSUME NEW s, NEW f, Good(s, f), NEW n \in 1..Len(s.stack)
  PROVE  LET t == PopTo(s, n) IN
         /\ Good(t, f)
         /\ t.heap = s.heap /\ t.vars = s.vars /\ t.promise = s.promise
         /\ Len(t.stack) = n /\ \A k \in 1..n : t.stack[k] = s.stack[k]
<1> DEFINE t == PopTo(s, n)
<1>1. s \in States /\ s.stack \in Seq(Frames) /\ s.end = "well"
  BY DEF Good, States
<1> DEFINE q == SubSeq(s.stack, 1, n)
<1>2. /\ t.heap = s.heap /\ t.vars = s.vars /\ t.promise = s.promise /\ t.end = "well"
      /\ t.stack = q
      /\ t = [heap |-> t.heap, vars |-> t.vars, stack |-> t.stack, promise |-> t.promise,
              end |-> t.end]
  <2>1. t = [s EXCEPT !.stack = q]
    BY DEF PopTo
  <2> HIDE DEF t, q
  <2> QED
    BY <1>1, <2>1 DEF States
<1> HIDE DEF t
<1>3. Len(s.stack) \in Nat /\ DOMAIN s.stack = 1..Len(s.stack)
  BY <1>1, LenProperties
<1>4. \A k \in 1..n : s.stack[k] \in Frames
  BY <1>1, <1>3, ElementOfSeq
<1>5. /\ t.stack \in Seq(Frames) /\ Len(t.stack) = n
      /\ \A k \in 1..n : t.stack[k] = s.stack[k]
  BY <1>1, <1>2, PrefixFacts
<1>6. DOMAIN t.stack = 1..n /\ 1..n \subseteq DOMAIN s.stack
  BY <1>3, <1>5, LenProperties
<1>7. t \in States
  BY <1>1, <1>2, <1>5 DEF States
<1>8. Secured(t.stack, f)
  BY <1>5, <1>6 DEF Good, Secured
<1>9. AllMarked(t.heap, t.stack)
  BY <1>2, <1>5, <1>6 DEF Good, AllMarked
<1>10. Nested(t.stack)
  <2>1. t.stack # <<>> /\ t.stack[1] = Program
    BY <1>3, <1>5, EmptySeq DEF Good, Nested
  <2>2. \A k \in 2..Len(t.stack) : t.stack[k].kind \in {"call", "for"}
    BY <1>3, <1>5 DEF Good, Nested
  <2>3. ASSUME NEW k \in DOMAIN t.stack, t.stack[k].kind = "for"
        PROVE  LoopNested(t.stack, k)
    <3>1. LoopNested(s.stack, k)
      BY <1>5, <1>6, <2>3 DEF Good, Nested
    <3>2. \A j \in 1..k : t.stack[j] = s.stack[j]
      BY <1>5, <1>6
    <3> QED
      BY <1>6, <3>1, <3>2, LoopNestedSame
  <2>4. ASSUME NEW k \in DOMAIN t.stack, t.stack[k].kind = "call"
        PROVE  CallNested(t.stack, k)
    <3>1. CallNested(s.stack, k) /\ k # 1
      BY <1>5, <1>6, <2>1, <2>4 DEF Good, Nested, Program
    <3>2. \A j \in 1..k : t.stack[j] = s.stack[j]
      BY <1>5, <1>6
    <3> QED
      BY <1>6, <3>1, <3>2, CallNestedSame
  <2> QED
    BY <2>1, <2>2, <2>3, <2>4 DEF Nested
<1> QED
  BY <1>2, <1>5, <1>7, <1>8, <1>9, <1>10 DEF Good, t

-----------------------------------------------------------------------------
(* The account of a state as it is. *)

LEMMA HoldingsFacts ==
  ASSUME NEW s
  PROVE  LET f == Holdings(s) IN
         /\ DOMAIN f = Owners(s) /\ f = [o \in DOMAIN f |-> f[o]]
         /\ \A v \in Globals : OfVariable(v) \in DOMAIN f /\ f[OfVariable(v)] = s.vars[v]
         /\ \A k \in CallsOf(s) : OfParam(k) \in DOMAIN f /\ f[OfParam(k)] = s.stack[k].param
         /\ \A p \in Promises : OfPromise(p) \in DOMAIN f /\ f[OfPromise(p)] = s.promise[p].value
         /\ \A k \in AwaitsOf(s) : /\ OfAwait(k) \in DOMAIN f
                                   /\ f[OfAwait(k)] = Promise(s.stack[k].task)
         /\ \A k : k \notin CallsOf(s) => OfParam(k) \notin DOMAIN f
         /\ \A k : k \notin AwaitsOf(s) => OfAwait(k) \notin DOMAIN f
<1>1. DOMAIN Holdings(s) = Owners(s) /\ \A o \in Owners(s) : Holdings(s)[o] = Owned(s, o)
  BY DEF Holdings
<1>2. Holdings(s) = [o \in DOMAIN Holdings(s) |-> Holdings(s)[o]]
  BY <1>1 DEF Holdings
<1>3. \A v \in Globals : OfVariable(v) \in Owners(s)
  BY DEF Owners
<1>4. \A k \in CallsOf(s) : OfParam(k) \in Owners(s)
  BY DEF Owners
<1>5. \A p \in Promises : OfPromise(p) \in Owners(s)
  BY DEF Owners
<1>6. \A k \in AwaitsOf(s) : OfAwait(k) \in Owners(s)
  BY DEF Owners
<1>7. \A k : k \notin CallsOf(s) => OfParam(k) \notin Owners(s)
  BY KeyFacts DEF Owners
<1>8. \A k : k \notin AwaitsOf(s) => OfAwait(k) \notin Owners(s)
  BY KeyFacts DEF Owners
<1> QED
  BY <1>1, <1>2, <1>3, <1>4, <1>5, <1>6, <1>7, <1>8, OwnedFacts

LEMMA HoldingsAre ==
  ASSUME NEW t, NEW f, f = [o \in DOMAIN f |-> f[o]],
         \A o : o \in DOMAIN f <=> \/ \E v \in Globals : o = OfVariable(v)
                                   \/ \E k \in CallsOf(t) : o = OfParam(k)
                                   \/ \E p \in Promises : o = OfPromise(p)
                                   \/ \E k \in AwaitsOf(t) : o = OfAwait(k),
         \A v \in Globals : f[OfVariable(v)] = t.vars[v],
         \A k \in CallsOf(t) : f[OfParam(k)] = t.stack[k].param,
         \A p \in Promises : f[OfPromise(p)] = t.promise[p].value,
         \A k \in AwaitsOf(t) : f[OfAwait(k)] = Promise(t.stack[k].task)
  PROVE  Holdings(t) = f
<1>1. DOMAIN f = Owners(t)
  BY DEF Owners
<1>2. ASSUME NEW o \in DOMAIN f PROVE f[o] = Owned(t, o)
  BY OwnedFacts
<1> QED
  BY <1>1, <1>2 DEF Holdings

\* Who an owner of a state is.
LEMMA OwnerKinds ==
  ASSUME NEW s, NEW o
  PROVE  o \in DOMAIN Holdings(s) <=>
           \/ \E v \in Globals : o = OfVariable(v)
           \/ \E k \in CallsOf(s) : o = OfParam(k)
           \/ \E p \in Promises : o = OfPromise(p)
           \/ \E k \in AwaitsOf(s) : o = OfAwait(k)
BY DEF Holdings, Owners

LEMMA SameHoldings ==
  ASSUME NEW s, NEW t, t.vars = s.vars, CallsOf(t) = CallsOf(s),
         \A k \in CallsOf(s) : /\ t.stack[k].param = s.stack[k].param
                               /\ t.stack[k].task = s.stack[k].task,
         \A p \in Promises : t.promise[p].value = s.promise[p].value
  PROVE  Holdings(t) = Holdings(s)
<1> DEFINE f == Holdings(s)
<1>1. AwaitsOf(t) = AwaitsOf(s)
  BY DEF AwaitsOf
<1>2. f = [o \in DOMAIN f |-> f[o]]
  BY HoldingsFacts
<1>3. \A o : o \in DOMAIN f <=> \/ \E v \in Globals : o = OfVariable(v)
                                \/ \E k \in CallsOf(t) : o = OfParam(k)
                                \/ \E p \in Promises : o = OfPromise(p)
                                \/ \E k \in AwaitsOf(t) : o = OfAwait(k)
  BY <1>1, OwnerKinds
<1>4. /\ \A v \in Globals : f[OfVariable(v)] = t.vars[v]
      /\ \A k \in CallsOf(t) : f[OfParam(k)] = t.stack[k].param
      /\ \A p \in Promises : f[OfPromise(p)] = t.promise[p].value
  BY HoldingsFacts
<1>5. \A k \in AwaitsOf(t) : f[OfAwait(k)] = Promise(t.stack[k].task)
  BY <1>1, HoldingsFacts DEF AwaitsOf
<1> HIDE DEF f
<1>6. Holdings(t) = f
  BY <1>2, <1>3, <1>4, <1>5, HoldingsAre
<1> QED
  BY <1>6 DEF f

-----------------------------------------------------------------------------
(* set_variable. *)

KeyOf(s, v) == IF v = Param THEN OfParam(CallOf(s.stack)) ELSE OfVariable(v)

\* The names that can be seen stand for owners.
LEMMA VisibleOwns ==
  ASSUME NEW s, Accounted(s), NEW v \in VisibleIn(CallOf(s.stack))
  PROVE  /\ KeyOf(s, v) \in DOMAIN Holdings(s) /\ Holdings(s)[KeyOf(s, v)] = Holds(s, v)
         /\ v # Param => v \in Globals
         /\ v = Param => /\ CallOf(s.stack) \in CallsOf(s)
                         /\ CallOf(s.stack) \in 2..Len(s.stack)
                         /\ s.stack[CallOf(s.stack)] \in CallFrames
<1>1. s.stack \in Seq(Frames) /\ Nested(s.stack)
  BY DEF Accounted, Good, States
<1>2. DOMAIN s.stack = 1..Len(s.stack) /\ Len(s.stack) \in Nat \ {0}
  BY <1>1, LenProperties, EmptySeq DEF Nested
<1> DEFINE c == CallOf(s.stack)
<1>3. c \in 1..Len(s.stack) /\ (c # 1 => s.stack[c].kind = "call" /\ s.stack[c] \in CallFrames)
  BY <1>1, <1>2, CallAround DEF CallOf
<1> HIDE DEF c
<1>4. CASE v = Param
  <2>1. c # 1
    BY <1>4, LendingAssumption DEF VisibleIn, c
  <2>2. c \in CallsOf(s)
    BY <1>2, <1>3, <2>1 DEF CallsOf
  <2> QED
    BY <1>2, <1>3, <1>4, <2>1, <2>2, HoldingsFacts DEF KeyOf, Holds, c
<1>5. CASE v # Param
  <2>1. v \in Globals
    BY <1>5 DEF VisibleIn
  <2> QED
    BY <1>5, <2>1, HoldingsFacts DEF KeyOf, Holds
<1> QED
  BY <1>4, <1>5

\* The step of an assignment that stores the copy.
Stores(s, v, c) == IF v = Param THEN [s EXCEPT !.stack[CallOf(s.stack)].param = c]
                   ELSE [s EXCEPT !.vars[v] = c]

LEMMA StoresFacts ==
  ASSUME NEW s \in States, NEW v, NEW c \in Values,
         IF v = Param THEN /\ CallOf(s.stack) \in 1..Len(s.stack)
                           /\ s.stack[CallOf(s.stack)] \in CallFrames
         ELSE v \in Globals
  PROVE  LET t == Stores(s, v, c) IN
         /\ t \in States /\ t.end = s.end /\ t.heap = s.heap /\ t.promise = s.promise
         /\ Len(t.stack) = Len(s.stack) /\ DOMAIN t.stack = DOMAIN s.stack
         /\ \A w \in Globals : t.vars[w] = IF w = v /\ v # Param THEN c ELSE s.vars[w]
         /\ \A k \in 1..Len(s.stack) :
              IF v = Param /\ k = CallOf(s.stack)
              THEN /\ t.stack[k] \in CallFrames /\ t.stack[k].param = c
                   /\ t.stack[k].use = s.stack[k].use /\ t.stack[k].task = s.stack[k].task
                   /\ t.stack[k].kind = s.stack[k].kind
              ELSE t.stack[k] = s.stack[k]
<1> DEFINE t == Stores(s, v, c)
<1>1. s.stack \in Seq(Frames) /\ s.vars \in [Globals -> Values]
  BY DEF States
<1>2. CASE v = Param
  <2> DEFINE k0 == CallOf(s.stack)
             fr == [s.stack[k0] EXCEPT !.param = c]
             q == [s.stack EXCEPT ![k0] = fr]
  <2>1. k0 \in 1..Len(s.stack) /\ s.stack[k0] \in CallFrames
    BY <1>2
  <2>2. /\ fr \in CallFrames /\ fr \in Frames /\ fr.param = c
        /\ fr.use = s.stack[k0].use /\ fr.task = s.stack[k0].task /\ fr.kind = s.stack[k0].kind
    BY <2>1 DEF CallFrames, Frames
  <2>3. t = [s EXCEPT !.stack = q]
    BY <1>2 DEF Stores
  <2> HIDE DEF k0, fr
  <2>4. /\ q \in Seq(Frames) /\ Len(q) = Len(s.stack)
        /\ \A j \in 1..Len(s.stack) : q[j] = IF j = k0 THEN fr ELSE s.stack[j]
    BY <1>1, <2>1, <2>2, ExceptSeq
  <2> HIDE DEF t, q
  <2>5. /\ t \in States /\ t.end = s.end /\ t.heap = s.heap /\ t.promise = s.promise
        /\ t.vars = s.vars /\ t.stack = q
    BY <2>3, <2>4 DEF States
  <2>6. DOMAIN t.stack = DOMAIN s.stack
    BY <1>1, <2>4, <2>5, LenProperties
  <2> QED
    BY <1>2, <2>1, <2>2, <2>4, <2>5, <2>6 DEF t, k0
<1>3. CASE v # Param
  <2> DEFINE q == [s.vars EXCEPT ![v] = c]
  <2>1. q \in [Globals -> Values] /\ \A w \in Globals : q[w] = IF w = v THEN c ELSE s.vars[w]
    BY <1>1, <1>3
  <2>2. t = [s EXCEPT !.vars = q]
    BY <1>3 DEF Stores
  <2> HIDE DEF t, q
  <2>3. /\ t \in States /\ t.end = s.end /\ t.heap = s.heap /\ t.promise = s.promise
        /\ t.stack = s.stack /\ t.vars = q
    BY <2>1, <2>2 DEF States
  <2> QED
    BY <1>3, <2>1, <2>3 DEF t
<1> QED
  BY <1>2, <1>3

LEMMA SetVariableGood ==
  ASSUME NEW s, Accounted(s), NEW v \in VisibleIn(CallOf(s.stack)), NEW value \in Values,
         Usable(s, value),
         IsLent(Holds(s, v)) => Holds(s, v) # value /\ Holds(s, v)[2] \notin Lent(s.stack)
  PROVE  LET t == SetVariable(s, v, value) IN
         t.end # "full" =>
           /\ Accounted(t) /\ Len(t.stack) = Len(s.stack)
           /\ \A p \in Promises : /\ t.promise[p].state = s.promise[p].state
                                  /\ t.promise[p].value = s.promise[p].value
<1> DEFINE f == Holdings(s)
           o == KeyOf(s, v)
           d == Drop(f, o)
           old == Release(s, Holds(s, v))
           new == Clone(old, value)
           c == Copy(old, value)
           g == With(d, o, c)
           t == SetVariable(s, v, value)
<1>1. /\ o \in DOMAIN f /\ f[o] = Holds(s, v)
      /\ v # Param => v \in Globals
      /\ v = Param => /\ CallOf(s.stack) \in CallsOf(s)
                      /\ CallOf(s.stack) \in 2..Len(s.stack)
                      /\ s.stack[CallOf(s.stack)] \in CallFrames
  BY VisibleOwns
<1>2. Good(s, f)
  BY DEF Accounted
<1>3. \A b \in Lent(s.stack) : f[o] # List(b)
  BY <1>1, ListFacts
<1>4. /\ Good(old, d) /\ old.vars = s.vars /\ old.stack = s.stack
      /\ \A p \in Promises : /\ old.promise[p].state = s.promise[p].state
                             /\ old.promise[p].value = s.promise[p].value
  <2> HIDE DEF f, o
  <2> QED
    BY <1>1, <1>2, <1>3, GiveUp
<1>5. DOMAIN d = DOMAIN f \ {o} /\ \A x \in DOMAIN d : d[x] = f[x]
  BY DEF Drop
<1>6. Usable(old, value)
  <2>1. ASSUME IsLent(value) PROVE old.heap[value[2]] # Freed
    <3>1. value[2] \in Blocks /\ value = List(value[2]) /\ s.heap[value[2]] # Freed
      BY <2>1, ValueKinds DEF Usable
    <3>2. PICK x \in DOMAIN f : f[x] = value
      BY <1>2, <3>1 DEF Good, Exact
    <3>3. x # o
      BY <1>1, <2>1, <3>2
    <3>4. x \in DOMAIN d /\ d[x] = value
      BY <1>5, <3>2, <3>3
    <3> HIDE DEF d, old
    <3> QED
      BY <1>4, <2>1, <3>4 DEF Good, Exact
  <2>2. \A p \in Promises : value = Promise(p) => old.promise[p].state # "none"
    BY <1>4 DEF Usable
  <2> QED
    BY <2>1, <2>2 DEF Usable
<1>7. /\ new \in States /\ new.vars = old.vars /\ new.stack = old.stack /\ c \in Values
      /\ new.end # "full" =>
           /\ Good(new, g)
           /\ \A p \in Promises : /\ new.promise[p].state = old.promise[p].state
                                  /\ new.promise[p].value = old.promise[p].value
  <2> HIDE DEF d, old, o
  <2> QED
    BY <1>4, <1>5, <1>6, TakeOn
<1>8. t = Stores(new, v, c)
  BY <1>4, <1>7 DEF SetVariable, Stores
<1> HIDE DEF t, new, c, old
<1>9. /\ t \in States /\ t.end = new.end /\ t.heap = new.heap /\ t.promise = new.promise
      /\ Len(t.stack) = Len(s.stack) /\ DOMAIN t.stack = DOMAIN s.stack
      /\ \A w \in Globals : t.vars[w] = IF w = v /\ v # Param THEN c ELSE s.vars[w]
      /\ \A k \in 1..Len(s.stack) :
           IF v = Param /\ k = CallOf(s.stack)
           THEN /\ t.stack[k] \in CallFrames /\ t.stack[k].param = c
                /\ t.stack[k].use = s.stack[k].use /\ t.stack[k].task = s.stack[k].task
                /\ t.stack[k].kind = s.stack[k].kind
           ELSE t.stack[k] = s.stack[k]
  BY <1>1, <1>4, <1>7, <1>8, StoresFacts
<1> SUFFICES ASSUME t.end # "full"
             PROVE  Accounted(t) /\ \A p \in Promises : /\ t.promise[p].state = s.promise[p].state
                                                       /\ t.promise[p].value = s.promise[p].value
  BY <1>9 DEF t
<1>10. /\ Good(new, g)
       /\ \A p \in Promises : /\ t.promise[p].state = s.promise[p].state
                              /\ t.promise[p].value = s.promise[p].value
  BY <1>4, <1>7, <1>9
<1>11. DOMAIN s.stack = 1..Len(s.stack) /\ Len(s.stack) \in Nat
  BY <1>2, LenProperties DEF Good, States
<1>12. /\ SameShape(new.stack, t.stack)
       /\ \A k \in DOMAIN new.stack : new.stack[k].kind = "for" => t.stack[k] = new.stack[k]
  <2>1. \A k \in 1..Len(s.stack) :
          /\ t.stack[k].kind = s.stack[k].kind
          /\ s.stack[k].kind = "for" => t.stack[k] = s.stack[k]
          /\ t.stack[k].kind = "call" => t.stack[k].use = s.stack[k].use
          /\ k = 1 => t.stack[k] = s.stack[k]
    BY <1>1, <1>9 DEF CallsOf
  <2> QED
    BY <1>4, <1>7, <1>9, <1>11, <2>1 DEF SameShape
<1>13. Good(t, g)
  <2>1. \A p \in Promises : t.promise[p].state = "none" => t.promise[p].value = Plain
    BY <1>9, <1>10 DEF Good, Idle
  <2>2. t.end = "well"
    BY <1>9, <1>10 DEF Good
  <2> HIDE DEF g
  <2> QED
    BY <1>9, <1>10, <1>12, <2>1, <2>2, Stored
<1>14. Holdings(t) = g
  <2>1. DOMAIN g = DOMAIN f /\ \A x \in DOMAIN f : g[x] = IF x = o THEN c ELSE f[x]
    BY <1>1, <1>5 DEF With
  <2>2. g = [x \in DOMAIN g |-> g[x]]
    BY DEF With
  <2>3. CallsOf(t) = CallsOf(s) /\ AwaitsOf(t) = AwaitsOf(s)
        /\ \A k \in CallsOf(s) : t.stack[k].task = s.stack[k].task
    <3>1. CallsOf(t) = CallsOf(s) /\ \A k \in CallsOf(s) : t.stack[k].task = s.stack[k].task
      BY <1>9, <1>11 DEF CallsOf
    <3> QED
      BY <3>1 DEF AwaitsOf
  <2> HIDE DEF g
  <2>4. \A x : x \in DOMAIN g <=> \/ \E w \in Globals : x = OfVariable(w)
                                  \/ \E k \in CallsOf(t) : x = OfParam(k)
                                  \/ \E p \in Promises : x = OfPromise(p)
                                  \/ \E k \in AwaitsOf(t) : x = OfAwait(k)
    BY <2>1, <2>3, OwnerKinds
  <2>5. \A w \in Globals : g[OfVariable(w)] = t.vars[w]
    BY <1>1, <1>9, <2>1, HoldingsFacts, KeyFacts DEF KeyOf
  <2>6. \A k \in CallsOf(t) : g[OfParam(k)] = t.stack[k].param
    <3> SUFFICES ASSUME NEW k \in CallsOf(s) PROVE g[OfParam(k)] = t.stack[k].param
      BY <2>3
    <3>1. OfParam(k) \in DOMAIN f /\ f[OfParam(k)] = s.stack[k].param /\ k \in 1..Len(s.stack)
      BY <1>11, HoldingsFacts DEF CallsOf
    <3>2. OfParam(k) = o <=> v = Param /\ k = CallOf(s.stack)
      BY KeyFacts DEF KeyOf
    <3> QED
      BY <1>9, <2>1, <3>1, <3>2
  <2>7. \A p \in Promises : g[OfPromise(p)] = t.promise[p].value
    <3> SUFFICES ASSUME NEW p \in Promises PROVE g[OfPromise(p)] = t.promise[p].value
      OBVIOUS
    <3>1. OfPromise(p) \in DOMAIN f /\ f[OfPromise(p)] = s.promise[p].value
      BY HoldingsFacts
    <3>2. OfPromise(p) # o
      BY KeyFacts DEF KeyOf
    <3> QED
      BY <1>10, <2>1, <3>1, <3>2
  <2>8. \A k \in AwaitsOf(t) : g[OfAwait(k)] = Promise(t.stack[k].task)
    <3> SUFFICES ASSUME NEW k \in AwaitsOf(s) PROVE g[OfAwait(k)] = Promise(s.stack[k].task)
      BY <2>3 DEF AwaitsOf
    <3>1. OfAwait(k) \in DOMAIN f /\ f[OfAwait(k)] = Promise(s.stack[k].task)
      BY HoldingsFacts
    <3>2. OfAwait(k) # o
      BY KeyFacts DEF KeyOf
    <3> QED
      BY <2>1, <3>1, <3>2
  <2> QED
    BY <2>2, <2>4, <2>5, <2>6, <2>7, <2>8, HoldingsAre
<1> QED
  BY <1>10, <1>13, <1>14 DEF Accounted

-----------------------------------------------------------------------------
(* Calls and loops begin. *)

LEMMA PushGood ==
  ASSUME NEW s, NEW f, Good(s, f), NEW fr \in CallFrames \cup LoopFrames,
         \A b \in LentTo(fr) : \E o \in DOMAIN f : f[o] = List(b) /\ Lends(o, Len(s.stack) + 1),
         fr.kind = "for" => /\ fr.call = CallOf(s.stack) /\ Marked(s.heap, fr)
                            /\ fr.var \in VisibleIn(CallOf(s.stack)) \cup {"i"},
         \A v \in Variables : fr.kind = "call" /\ fr.use = <<"assign", v>> =>
                                v \in VisibleIn(CallOf(s.stack))
  PROVE  LET t == Push(s, fr) IN
         /\ Good(t, f)
         /\ t.heap = s.heap /\ t.vars = s.vars /\ t.promise = s.promise
         /\ Len(t.stack) = Len(s.stack) + 1 /\ t.stack[Len(s.stack) + 1] = fr
         /\ \A k \in 1..Len(s.stack) : t.stack[k] = s.stack[k]
<1> DEFINE t == Push(s, fr)
           q == Append(s.stack, fr)
           n == Len(s.stack)
<1>1. s \in States /\ s.stack \in Seq(Frames) /\ s.end = "well" /\ Nested(s.stack)
  BY DEF Good, States
<1>2. n \in Nat \ {0} /\ DOMAIN s.stack = 1..n
  BY <1>1, LenProperties, EmptySeq DEF Nested
<1>3. fr \in Frames /\ fr.kind \in {"call", "for"}
  BY DEF Frames, CallFrames, LoopFrames
<1>4. /\ q \in Seq(Frames) /\ q # <<>> /\ Len(q) = n + 1 /\ q[n + 1] = fr
      /\ \A k \in 1..n : q[k] = s.stack[k]
  BY <1>1, <1>2, <1>3, AppendProperties
<1>5. DOMAIN q = 1..(n + 1)
  BY <1>4, LenProperties
<1>6. t = [s EXCEPT !.stack = q]
  BY DEF Push
<1> HIDE DEF t, q
<1>7. /\ t.heap = s.heap /\ t.vars = s.vars /\ t.promise = s.promise /\ t.end = "well"
      /\ t.stack = q /\ t \in States
  BY <1>1, <1>4, <1>6 DEF States
<1>8. CallAt(s.stack, n) = CallOf(s.stack)
  BY DEF CallOf
<1>9. Secured(q, f)
  <2> SUFFICES ASSUME NEW k \in 1..(n + 1), NEW b \in LentTo(q[k])
               PROVE  \E o \in DOMAIN f : f[o] = List(b) /\ Lends(o, k)
    BY <1>5 DEF Secured
  <2>1. CASE k = n + 1
    BY <1>4, <2>1
  <2>2. CASE k # n + 1
    <3>1. k \in 1..n /\ k \in DOMAIN s.stack
      BY <1>2, <2>2
    <3> QED
      BY <1>4, <3>1 DEF Good, Secured
  <2> QED
    BY <2>1, <2>2
<1>10. AllMarked(s.heap, q)
  <2> SUFFICES ASSUME NEW k \in 1..(n + 1), q[k].kind = "for" PROVE Marked(s.heap, q[k])
    BY <1>5 DEF AllMarked
  <2>1. CASE k = n + 1
    BY <1>4, <2>1
  <2>2. CASE k # n + 1
    <3>1. k \in 1..n /\ k \in DOMAIN s.stack
      BY <1>2, <2>2
    <3> QED
      BY <1>4, <3>1 DEF Good, AllMarked
  <2> QED
    BY <2>1, <2>2
<1>11. Nested(q)
  <2>1. q[1] = Program
    BY <1>1, <1>2, <1>4 DEF Nested
  <2>2. ASSUME NEW k \in 2..(n + 1) PROVE q[k].kind \in {"call", "for"}
    <3>1. CASE k = n + 1
      BY <1>3, <1>4, <3>1
    <3>2. CASE k # n + 1
      <4>1. k \in 1..n /\ k \in 2..n
        BY <1>2, <3>2
      <4> QED
        BY <1>1, <1>4, <4>1 DEF Nested
    <3> QED
      BY <3>1, <3>2
  <2>3. ASSUME NEW k \in 1..(n + 1), q[k].kind = "for" PROVE LoopNested(q, k)
    <3>1. CASE k = n + 1
      <4> DEFINE c == CallOf(s.stack)
      <4>1. /\ c \in 1..n /\ s.stack[c].kind # "for"
            /\ \A j \in (c + 1)..n : s.stack[j].kind = "for" /\ s.stack[j].call = c
        BY <1>1, <1>2, <1>8, CallAround
      <4>2. fr.kind = "for" /\ fr.call = c /\ fr.var \in VisibleIn(c) \cup {"i"}
        BY <1>4, <2>3, <3>1
      <4> HIDE DEF c
      <4>3. \A j \in (c + 1)..k : q[j].kind = "for" /\ q[j].call = c
        BY <1>2, <1>4, <3>1, <4>1, <4>2
      <4> QED
        BY <1>2, <1>4, <3>1, <4>1, <4>2, <4>3 DEF LoopNested
    <3>2. CASE k # n + 1
      <4>1. k \in 1..n /\ k \in DOMAIN s.stack /\ \A j \in 1..k : j \in 1..n
        BY <1>2, <3>2
      <4>2. LoopNested(s.stack, k)
        BY <1>1, <1>4, <2>3, <4>1 DEF Nested
      <4> QED
        BY <1>4, <4>1, <4>2, LoopNestedSame
    <3> QED
      BY <3>1, <3>2
  <2>4. ASSUME NEW k \in 1..(n + 1), q[k].kind = "call" PROVE CallNested(q, k)
    <3>1. CASE k = n + 1
      <4>1. k - 1 = n /\ q[n] = s.stack[n]
        BY <1>2, <1>4, <3>1
      <4>2. CallAt(q, k - 1) = CallOf(s.stack)
        BY <1>8, <4>1 DEF CallAt
      <4> QED
        BY <1>4, <2>4, <3>1, <4>2 DEF CallNested
    <3>2. CASE k # n + 1
      <4>1. k \in 1..n /\ k \in DOMAIN s.stack /\ \A j \in 1..k : j \in 1..n
        BY <1>2, <3>2
      <4>2. CallNested(s.stack, k) /\ k # 1
        BY <1>1, <1>4, <2>1, <2>4, <4>1 DEF Nested, Program
      <4> QED
        BY <1>4, <4>1, <4>2, CallNestedSame
    <3> QED
      BY <3>1, <3>2
  <2> QED
    BY <1>4, <1>5, <2>1, <2>2, <2>3, <2>4 DEF Nested
<1>12. Good(t, f)
  BY <1>7, <1>9, <1>10, <1>11 DEF Good
<1> QED
  BY <1>4, <1>7, <1>12 DEF t

\* A call under way adds its parameter to the owners, and an await its promise.
WithCall(f, k, task, param) ==
  With(IF task = NoTask THEN f ELSE With(f, OfAwait(k), Promise(task)), OfParam(k), param)

LEMMA PushHoldings ==
  ASSUME NEW s, NEW t, NEW n \in Nat, DOMAIN s.stack = 1..n, DOMAIN t.stack = 1..(n + 1),
         \A k \in 1..n : t.stack[k] = s.stack[k],
         t.vars = s.vars, \A p \in Promises : t.promise[p].value = s.promise[p].value
  PROVE  /\ t.stack[n + 1].kind # "call" => Holdings(t) = Holdings(s)
         /\ t.stack[n + 1].kind = "call" =>
              Holdings(t) = WithCall(Holdings(s), n + 1, t.stack[n + 1].task, t.stack[n + 1].param)
<1> DEFINE f == Holdings(s)
           fr == t.stack[n + 1]
<1>1. CASE fr.kind # "call"
  <2>1. CallsOf(t) = CallsOf(s) /\ \A k \in CallsOf(s) : t.stack[k] = s.stack[k]
    BY <1>1 DEF CallsOf
  <2> QED
    BY <1>1, <2>1, SameHoldings
<1>2. CASE fr.kind = "call"
  <2> DEFINE g == WithCall(f, n + 1, fr.task, fr.param)
  <2>1. CallsOf(t) = CallsOf(s) \cup {n + 1} /\ \A k \in CallsOf(s) : t.stack[k] = s.stack[k] /\ k # n + 1
    BY <1>2 DEF CallsOf
  <2>2. AwaitsOf(t) = IF fr.task = NoTask THEN AwaitsOf(s) ELSE AwaitsOf(s) \cup {n + 1}
    BY <2>1 DEF AwaitsOf
  <2>3. \A k \in AwaitsOf(s) : t.stack[k].task = s.stack[k].task /\ k # n + 1
    BY <2>1 DEF AwaitsOf
  <2>4. OfParam(n + 1) \notin DOMAIN f /\ OfAwait(n + 1) \notin DOMAIN f
    BY <2>1, <2>3, HoldingsFacts
  <2>5. DOMAIN g = DOMAIN f \cup {OfParam(n + 1)}
                   \cup IF fr.task = NoTask THEN {} ELSE {OfAwait(n + 1)}
    BY DEF WithCall, With
  <2>6. /\ g[OfParam(n + 1)] = fr.param
        /\ fr.task # NoTask => g[OfAwait(n + 1)] = Promise(fr.task)
        /\ \A x \in DOMAIN f : g[x] = f[x]
    BY <2>4, KeyFacts DEF WithCall, With
  <2>7. g = [x \in DOMAIN g |-> g[x]]
    BY DEF WithCall, With
  <2>8. /\ \A w \in Globals : OfVariable(w) \in DOMAIN f /\ f[OfVariable(w)] = t.vars[w]
        /\ \A k \in CallsOf(s) : OfParam(k) \in DOMAIN f /\ f[OfParam(k)] = t.stack[k].param
        /\ \A p \in Promises : OfPromise(p) \in DOMAIN f /\ f[OfPromise(p)] = t.promise[p].value
        /\ \A k \in AwaitsOf(s) : OfAwait(k) \in DOMAIN f /\ f[OfAwait(k)] = Promise(t.stack[k].task)
    BY <2>1, <2>3, HoldingsFacts
  <2>9. \A o : o \in DOMAIN f <=> \/ \E v \in Globals : o = OfVariable(v)
                                  \/ \E k \in CallsOf(s) : o = OfParam(k)
                                  \/ \E p \in Promises : o = OfPromise(p)
                                  \/ \E k \in AwaitsOf(s) : o = OfAwait(k)
    BY OwnerKinds
  <2> HIDE DEF g, f, fr
  <2>10. \A o : o \in DOMAIN g <=> \/ \E v \in Globals : o = OfVariable(v)
                                   \/ \E k \in CallsOf(t) : o = OfParam(k)
                                   \/ \E p \in Promises : o = OfPromise(p)
                                   \/ \E k \in AwaitsOf(t) : o = OfAwait(k)
    BY <2>1, <2>2, <2>5, <2>9
  <2>11. \A w \in Globals : g[OfVariable(w)] = t.vars[w]
    BY <2>6, <2>8
  <2>12. \A k \in CallsOf(t) : g[OfParam(k)] = t.stack[k].param
    BY <2>1, <2>6, <2>8 DEF fr
  <2>13. \A p \in Promises : g[OfPromise(p)] = t.promise[p].value
    BY <2>6, <2>8
  <2>14. \A k \in AwaitsOf(t) : g[OfAwait(k)] = Promise(t.stack[k].task)
    BY <2>2, <2>6, <2>8 DEF fr
  <2>15. Holdings(t) = g
    BY <2>7, <2>10, <2>11, <2>12, <2>13, <2>14, HoldingsAre
  <2> QED
    BY <1>2, <2>15 DEF g, f, fr
<1> QED
  BY <1>1, <1>2

\* How a call may use what the called function gives: it assigns to a variable that
\* can be seen, or appends to a list that is owned further out.
UseOk(s, use) ==
  /\ use \in AllUses
  /\ \A v \in Variables : use = <<"assign", v>> => v \in VisibleIn(CallOf(s.stack))
  /\ \A b \in Blocks : use = <<"append", b>> =>
       \E o \in DOMAIN Holdings(s) : Holdings(s)[o] = List(b) /\ Lends(o, Len(s.stack) + 1)

LEMMA CallFrameFacts ==
  ASSUME NEW task \in Promises \cup {NoTask}, NEW param \in Values, NEW use \in AllUses
  PROVE  LET fr == Call(task, param, use) IN
         /\ fr \in CallFrames /\ fr.kind = "call" /\ fr.task = task /\ fr.param = param
         /\ fr.use = use
         /\ \A b \in LentTo(fr) : b \in Blocks /\ use = <<"append", b>>
<1> DEFINE fr == Call(task, param, use)
<1>1. fr \in CallFrames /\ fr.kind = "call" /\ fr.task = task /\ fr.param = param /\ fr.use = use
  BY DEF Call, CallFrames
<1> HIDE DEF fr
<1>2. ASSUME NEW b \in LentTo(fr) PROVE b \in Blocks /\ use = <<"append", b>>
  <2>1. use[1] = "append" /\ b = use[2]
    BY <1>1, <1>2 DEF LentTo
  <2> QED
    BY <2>1 DEF AllUses
<1> QED
  BY <1>1, <1>2 DEF fr

\* The owners that a state does not have yet are those of the frames to come.
LEMMA NoOwnerYet ==
  ASSUME NEW s, s \in States
  PROVE  /\ Len(s.stack) \in Nat /\ DOMAIN s.stack = 1..Len(s.stack)
         /\ OfParam(Len(s.stack) + 1) \notin DOMAIN Holdings(s)
         /\ OfAwait(Len(s.stack) + 1) \notin DOMAIN Holdings(s)
<1>1. Len(s.stack) \in Nat /\ DOMAIN s.stack = 1..Len(s.stack)
  BY LenProperties DEF States
<1>2. Len(s.stack) + 1 \notin CallsOf(s) /\ Len(s.stack) + 1 \notin AwaitsOf(s)
  BY <1>1 DEF AwaitsOf, CallsOf
<1> QED
  BY <1>1, <1>2, HoldingsFacts

LEMMA BeginCallGood ==
  ASSUME NEW s, Accounted(s), NEW v \in Values, Usable(s, v), NEW use, UseOk(s, use)
  PROVE  LET t == Push(Clone(s, v), Call(NoTask, Copy(s, v), use)) IN
         t.end # "full" => Accounted(t)
<1> DEFINE f == Holdings(s)
           n == Len(s.stack)
           c == Copy(s, v)
           new == Clone(s, v)
           fr == Call(NoTask, c, use)
           t == Push(new, fr)
           g == With(f, OfParam(n + 1), c)
<1>1. Good(s, f) /\ s \in States
  BY DEF Accounted, Good
<1>2. n \in Nat /\ DOMAIN s.stack = 1..n /\ OfParam(n + 1) \notin DOMAIN f
  BY <1>1, NoOwnerYet
<1>3. /\ new \in States /\ new.vars = s.vars /\ new.stack = s.stack /\ c \in Values
      /\ new.end # "full" =>
           /\ Good(new, g)
           /\ \A p \in Promises : /\ new.promise[p].state = s.promise[p].state
                                  /\ new.promise[p].value = s.promise[p].value
  <2> HIDE DEF f
  <2> QED
    BY <1>1, <1>2, TakeOn
<1>4. /\ fr \in CallFrames /\ fr.kind = "call" /\ fr.task = NoTask /\ fr.param = c
      /\ fr.use = use
      /\ \A b \in LentTo(fr) : b \in Blocks /\ use = <<"append", b>>
  <2>1. c \in Values /\ use \in AllUses /\ NoTask \in Promises \cup {NoTask}
    BY <1>3 DEF UseOk
  <2> HIDE DEF c
  <2> QED
    BY <2>1, CallFrameFacts
<1> HIDE DEF new, c, fr
<1>5. t.end = new.end
  BY <1>3 DEF Push, States
<1> HIDE DEF t
<1> SUFFICES ASSUME t.end # "full" PROVE Accounted(t)
  BY DEF t, new, fr, c
<1>6. Good(new, g) /\ \A p \in Promises : new.promise[p].value = s.promise[p].value
  BY <1>3, <1>5
<1>7. \A b \in LentTo(fr) : \E o \in DOMAIN g : g[o] = List(b) /\ Lends(o, Len(new.stack) + 1)
  <2> SUFFICES ASSUME NEW b \in LentTo(fr)
               PROVE  \E o \in DOMAIN g : g[o] = List(b) /\ Lends(o, n + 1)
    BY <1>3
  <2>1. PICK o \in DOMAIN f : f[o] = List(b) /\ Lends(o, n + 1)
    BY <1>4 DEF UseOk
  <2> QED
    BY <1>2, <2>1 DEF With
<1>8. \A w \in Variables : fr.use = <<"assign", w>> => w \in VisibleIn(CallOf(new.stack))
  BY <1>3, <1>4 DEF UseOk
<1>9. /\ Good(t, g)
      /\ t.heap = new.heap /\ t.vars = new.vars /\ t.promise = new.promise
      /\ Len(t.stack) = n + 1 /\ t.stack[n + 1] = fr
      /\ \A k \in 1..n : t.stack[k] = s.stack[k]
  <2>1. fr \in CallFrames \cup LoopFrames /\ fr.kind # "for"
    BY <1>4
  <2> HIDE DEF g
  <2>2. /\ Good(t, g)
        /\ t.heap = new.heap /\ t.vars = new.vars /\ t.promise = new.promise
        /\ Len(t.stack) = Len(new.stack) + 1 /\ t.stack[Len(new.stack) + 1] = fr
        /\ \A k \in 1..Len(new.stack) : t.stack[k] = new.stack[k]
    BY <1>6, <1>7, <1>8, <2>1, PushGood DEF t
  <2> QED
    BY <1>3, <2>2
<1>10. DOMAIN t.stack = 1..(n + 1)
  BY <1>9, LenProperties DEF Good, States
<1>11. Holdings(t) = WithCall(f, n + 1, NoTask, c)
  <2>1. t.vars = s.vars /\ \A p \in Promises : t.promise[p].value = s.promise[p].value
    BY <1>3, <1>6, <1>9
  <2>2. t.stack[n + 1].kind = "call" /\ t.stack[n + 1].task = NoTask /\ t.stack[n + 1].param = c
    BY <1>4, <1>9
  <2> HIDE DEF n, f
  <2>3. Holdings(t) = WithCall(Holdings(s), n + 1, t.stack[n + 1].task, t.stack[n + 1].param)
    BY <1>2, <1>9, <1>10, <2>1, <2>2, PushHoldings
  <2> QED
    BY <2>2, <2>3 DEF f
<1>12. WithCall(f, n + 1, NoTask, c) = g
  BY DEF WithCall
<1> QED
  BY <1>9, <1>11, <1>12 DEF Accounted

\* A promise is given another state, value and count.
LEMMA PromiseUpdate ==
  ASSUME NEW s \in States, NEW p \in Promises, NEW t,
         NEW state \in Life, NEW value \in {Plain} \cup Lists, NEW refs \in Int,
         t = [s EXCEPT !.promise = [s.promise EXCEPT
                ![p] = [state |-> state, value |-> value, refs |-> refs]]]
  PROVE  /\ t \in States
         /\ t.end = s.end /\ t.heap = s.heap /\ t.vars = s.vars /\ t.stack = s.stack
         /\ t.promise[p].state = state /\ t.promise[p].value = value /\ t.promise[p].refs = refs
         /\ \A q \in Promises : q # p => t.promise[q] = s.promise[q]
<1> DEFINE r == [s.promise EXCEPT ![p] = [state |-> state, value |-> value, refs |-> refs]]
<1>1. s.promise \in PromiseTables
  BY DEF States
<1>2. /\ r \in PromiseTables
      /\ r[p].state = state /\ r[p].value = value /\ r[p].refs = refs
      /\ \A q \in Promises : q # p => r[q] = s.promise[q]
  BY <1>1 DEF PromiseTables
<1> HIDE DEF r
<1>3. /\ t \in States /\ t.promise = r
      /\ t.end = s.end /\ t.heap = s.heap /\ t.vars = s.vars /\ t.stack = s.stack
  <2>1. t = [s EXCEPT !.promise = r]
    BY DEF r
  <2> QED
    BY <1>2, <2>1 DEF States
<1> QED
  BY <1>2, <1>3

LEMMA PromiseRecords ==
  ASSUME NEW s \in States, NEW p \in Promises
  PROVE  /\ s.promise[p] \in [state : Life, value : {Plain} \cup Lists, refs : Int]
         /\ s.promise[p].refs \in Int /\ s.promise[p].value \in {Plain} \cup Lists
         /\ s.promise[p].state \in Life
BY DEF States, PromiseTables

LEMMA NewState ==
  ASSUME NEW s \in States, NEW p \in Promises, NEW state
  PROVE  [s EXCEPT !.promise[p].state = state]
           = [s EXCEPT !.promise = [s.promise EXCEPT
                ![p] = [state |-> state, value |-> s.promise[p].value,
                        refs |-> s.promise[p].refs]]]
<1> DEFINE r == s.promise[p]
<1>1. [r EXCEPT !.state = state] = [state |-> state, value |-> r.value, refs |-> r.refs]
  <2>1. r \in [state : Life, value : {Plain} \cup Lists, refs : Int]
    BY PromiseRecords
  <2> HIDE DEF r
  <2> QED
    BY <2>1
<1> QED
  BY <1>1

LEMMA StateChange ==
  ASSUME NEW s \in States, NEW p \in Promises, NEW state \in Life
  PROVE  LET t == [s EXCEPT !.promise[p].state = state] IN
         /\ t \in States
         /\ t.end = s.end /\ t.heap = s.heap /\ t.vars = s.vars /\ t.stack = s.stack
         /\ t.promise[p].state = state /\ t.promise[p].value = s.promise[p].value
         /\ t.promise[p].refs = s.promise[p].refs
         /\ \A q \in Promises : q # p => t.promise[q] = s.promise[q]
<1> DEFINE t == [s EXCEPT !.promise[p].state = state]
           value == s.promise[p].value
           refs == s.promise[p].refs
<1>1. t = [s EXCEPT !.promise = [s.promise EXCEPT
             ![p] = [state |-> state, value |-> value, refs |-> refs]]]
  BY NewState
<1>2. value \in {Plain} \cup Lists /\ refs \in Int
  BY PromiseRecords
<1> HIDE DEF t, value, refs
<1>3. /\ t \in States
      /\ t.end = s.end /\ t.heap = s.heap /\ t.vars = s.vars /\ t.stack = s.stack
      /\ t.promise[p].state = state /\ t.promise[p].value = value /\ t.promise[p].refs = refs
      /\ \A q \in Promises : q # p => t.promise[q] = s.promise[q]
  BY <1>1, <1>2, PromiseUpdate
<1> QED
  BY <1>3 DEF t, value, refs

Resolved(s, p, value) ==
  [s EXCEPT !.promise[p].state = "fulfilled", !.promise[p].value = value]

LEMMA StateAndValueChange ==
  ASSUME NEW s \in States, NEW p \in Promises, NEW value \in {Plain} \cup Lists
  PROVE  LET t == Resolved(s, p, value) IN
         /\ t \in States
         /\ t.end = s.end /\ t.heap = s.heap /\ t.vars = s.vars /\ t.stack = s.stack
         /\ t.promise[p].state = "fulfilled" /\ t.promise[p].value = value
         /\ t.promise[p].refs = s.promise[p].refs
         /\ \A q \in Promises : q # p => t.promise[q] = s.promise[q]
<1> DEFINE state == "fulfilled"
           t == Resolved(s, p, value)
           r == s.promise[p]
           q1 == [r EXCEPT !.state = state]
           m == [s.promise EXCEPT ![p].state = state]
<1>0. state \in Life
  BY DEF Life
<1> HIDE DEF state
<1>1. q1 = [state |-> state, value |-> r.value, refs |-> r.refs] /\ r.refs \in Int
  <2>1. r \in [state : Life, value : {Plain} \cup Lists, refs : Int]
    BY PromiseRecords
  <2> HIDE DEF r
  <2> QED
    BY <2>1
<1>2. [q1 EXCEPT !.value = value] = [state |-> state, value |-> value, refs |-> r.refs]
  <2> HIDE DEF q1, r
  <2> QED
    BY <1>1
<1>3. s.promise \in PromiseTables /\ s = [heap |-> s.heap, vars |-> s.vars, stack |-> s.stack,
                                       promise |-> s.promise, end |-> s.end]
  BY DEF States
<1>4. [m EXCEPT ![p].value = value] = [s.promise EXCEPT ![p] = [q1 EXCEPT !.value = value]]
  BY <1>3 DEF PromiseTables
<1>5. t = [s EXCEPT !.promise = [m EXCEPT ![p].value = value]]
  BY <1>3 DEF Resolved, state
<1>6. t = [s EXCEPT !.promise = [s.promise EXCEPT
             ![p] = [state |-> state, value |-> value, refs |-> r.refs]]]
  BY <1>2, <1>4, <1>5
<1> HIDE DEF t, r
<1>7. /\ t \in States
      /\ t.end = s.end /\ t.heap = s.heap /\ t.vars = s.vars /\ t.stack = s.stack
      /\ t.promise[p].state = state /\ t.promise[p].value = value /\ t.promise[p].refs = r.refs
      /\ \A q \in Promises : q # p => t.promise[q] = s.promise[q]
  BY <1>0, <1>1, <1>6, PromiseUpdate
<1> QED
  BY <1>7 DEF t, r, state

LEMMA RecordChange ==
  ASSUME NEW s \in States, NEW p \in Promises, NEW state \in Life,
         NEW value \in {Plain} \cup Lists, NEW refs \in Int
  PROVE  LET t == [s EXCEPT !.promise[p] = [state |-> state, value |-> value, refs |-> refs]] IN
         /\ t \in States
         /\ t.end = s.end /\ t.heap = s.heap /\ t.vars = s.vars /\ t.stack = s.stack
         /\ t.promise[p].state = state /\ t.promise[p].value = value
         /\ t.promise[p].refs = refs
         /\ \A q \in Promises : q # p => t.promise[q] = s.promise[q]
<1> DEFINE t == [s EXCEPT !.promise[p] = [state |-> state, value |-> value, refs |-> refs]]
<1>1. t = [s EXCEPT !.promise = [s.promise EXCEPT
             ![p] = [state |-> state, value |-> value, refs |-> refs]]]
  OBVIOUS
<1> HIDE DEF t
<1>2. /\ t \in States
      /\ t.end = s.end /\ t.heap = s.heap /\ t.vars = s.vars /\ t.stack = s.stack
      /\ t.promise[p].state = state /\ t.promise[p].value = value /\ t.promise[p].refs = refs
      /\ \A q \in Promises : q # p => t.promise[q] = s.promise[q]
  BY <1>1, PromiseUpdate
<1> QED
  BY <1>2 DEF t

\* A task begins: the await counts its promise, and the parameter has a copy of
\* the argument.
LEMMA RunTaskGood ==
  ASSUME NEW s, Accounted(s), NEW p \in Promises, s.promise[p].state # "none",
         NEW use, UseOk(s, use)
  PROVE  LET t == RunTask(s, p, use) IN
         t.end # "full" => Accounted(t)
<1> DEFINE f == Holdings(s)
           n == Len(s.stack)
           current == Clone(s, Promise(p))
           g1 == With(f, OfAwait(n + 1), Promise(p))
           argument == s.promise[p].value
           c == Copy(current, argument)
           new == Clone(current, argument)
           g2 == With(g1, OfParam(n + 1), c)
           runs == [new EXCEPT !.promise[p].state = "running"]
           fr == Call(p, c, use)
           t == RunTask(s, p, use)
<1>1. Good(s, f) /\ s \in States
  BY DEF Accounted, Good
<1>2. /\ n \in Nat /\ DOMAIN s.stack = 1..n
      /\ OfParam(n + 1) \notin DOMAIN f /\ OfAwait(n + 1) \notin DOMAIN f
  BY <1>1, NoOwnerYet
<1>3. Promise(p) \in Values /\ Usable(s, Promise(p)) /\ IsPromise(Promise(p))
  BY PromiseFacts DEF Values, Usable
<1>4. current.end # "full"
  <2>1. Valid(s, Promise(p))
    BY <1>1, <1>3, UsableIsValid
  <2>2. current = OneMore(s, p)
    BY <1>3, <2>1, PromiseFacts DEF Clone
  <2> QED
    BY <1>1, <2>2, OneMoreFacts DEF Good
<1>5. /\ Good(current, g1) /\ current.vars = s.vars /\ current.stack = s.stack
      /\ \A q \in Promises : /\ current.promise[q].state = s.promise[q].state
                             /\ current.promise[q].value = s.promise[q].value
  <2>1. Copy(s, Promise(p)) = Promise(p)
    BY <1>3, PromiseFacts DEF Copy
  <2> HIDE DEF f, n
  <2> QED
    BY <1>1, <1>2, <1>3, <1>4, <2>1, TakeOn
<1> HIDE DEF current
<1>6. argument \in {Plain} \cup Lists /\ argument \in Values /\ OfPromise(p) \in DOMAIN f
      /\ f[OfPromise(p)] = argument
  BY <1>1, HoldingsFacts DEF States, PromiseTables, Values
<1>7. Usable(current, argument)
  <2>1. OfPromise(p) \in DOMAIN g1 /\ g1[OfPromise(p)] = argument
    BY <1>6, KeyFacts DEF With
  <2>2. \A q \in Promises : argument # Promise(q)
    BY <1>6, PlainFacts, ListFacts, OwnFacts DEF Lists
  <2> HIDE DEF g1, argument
  <2> QED
    BY <1>5, <2>1, <2>2 DEF Usable, Good, Exact
<1>8. /\ new \in States /\ new.vars = s.vars /\ new.stack = s.stack /\ c \in Values
      /\ new.end # "full" =>
           /\ Good(new, g2)
           /\ \A q \in Promises : /\ new.promise[q].state = s.promise[q].state
                                  /\ new.promise[q].value = s.promise[q].value
  <2>1. OfParam(n + 1) \notin DOMAIN g1
    BY <1>2, KeyFacts DEF With
  <2> HIDE DEF g1, argument
  <2> QED
    BY <1>5, <1>6, <1>7, <2>1, TakeOn
<1> HIDE DEF new, c
<1>9. /\ fr \in CallFrames /\ fr.kind = "call" /\ fr.task = p /\ fr.param = c /\ fr.use = use
      /\ \A b \in LentTo(fr) : b \in Blocks /\ use = <<"append", b>>
  <2>1. use \in AllUses
    BY DEF UseOk
  <2> QED
    BY <1>8, <2>1, CallFrameFacts
<1> HIDE DEF fr
<1>10. /\ runs \in States /\ runs.end = new.end /\ runs.heap = new.heap
       /\ runs.vars = s.vars /\ runs.stack = s.stack
       /\ \A q \in Promises : /\ runs.promise[q].refs = new.promise[q].refs
                              /\ runs.promise[q].value = new.promise[q].value
                              /\ q # p => runs.promise[q].state = new.promise[q].state
       /\ runs.promise[p].state = "running"
  <2>1. new \in States
    BY <1>8
  <2>2. "running" \in Life
    BY DEF Life
  <2>3. /\ runs \in States
        /\ runs.end = new.end /\ runs.heap = new.heap /\ runs.vars = new.vars
        /\ runs.stack = new.stack
        /\ runs.promise[p].state = "running" /\ runs.promise[p].value = new.promise[p].value
        /\ runs.promise[p].refs = new.promise[p].refs
        /\ \A q \in Promises : q # p => runs.promise[q] = new.promise[q]
    BY <2>1, <2>2, StateChange
  <2> HIDE DEF runs
  <2>4. \A q \in Promises : /\ runs.promise[q].refs = new.promise[q].refs
                            /\ runs.promise[q].value = new.promise[q].value
    BY <2>3
  <2> QED
    BY <1>8, <2>3, <2>4
<1>11. t = Push(runs, fr)
  BY DEF RunTask, current, new, c, fr
<1> HIDE DEF runs, t
<1>12. t.end = runs.end
  BY <1>10, <1>11 DEF Push, States
<1> SUFFICES ASSUME t.end # "full" PROVE Accounted(t)
  BY DEF t
<1>13. /\ Good(new, g2)
       /\ \A q \in Promises : /\ new.promise[q].state = s.promise[q].state
                              /\ new.promise[q].value = s.promise[q].value
  BY <1>8, <1>10, <1>12
<1>14. Good(runs, g2)
  <2>1. /\ SameShape(new.stack, runs.stack)
        /\ \A k \in DOMAIN new.stack : new.stack[k].kind = "for" => runs.stack[k] = new.stack[k]
    BY <1>8, <1>10 DEF SameShape
  <2>2. \A q \in Promises : /\ runs.promise[q].state = "none" <=> new.promise[q].state = "none"
                            /\ runs.promise[q].refs = new.promise[q].refs
                            /\ runs.promise[q].state = "none" => runs.promise[q].value = Plain
    BY <1>10, <1>13 DEF Good, Idle
  <2>3. runs.end = "well"
    BY <1>10, <1>13 DEF Good
  <2> HIDE DEF g2
  <2> QED
    BY <1>10, <1>13, <2>1, <2>2, <2>3, Stored
<1>15. \A b \in LentTo(fr) : \E o \in DOMAIN g2 : g2[o] = List(b) /\ Lends(o, Len(runs.stack) + 1)
  <2> SUFFICES ASSUME NEW b \in LentTo(fr)
               PROVE  \E o \in DOMAIN g2 : g2[o] = List(b) /\ Lends(o, n + 1)
    BY <1>10
  <2>1. PICK o \in DOMAIN f : f[o] = List(b) /\ Lends(o, n + 1)
    BY <1>9 DEF UseOk
  <2>2. o # OfParam(n + 1) /\ o # OfAwait(n + 1)
    BY <1>2, <2>1
  <2> QED
    BY <2>1, <2>2 DEF With
<1>16. \A w \in Variables : fr.use = <<"assign", w>> => w \in VisibleIn(CallOf(runs.stack))
  BY <1>9, <1>10 DEF UseOk
<1>17. /\ Good(t, g2)
       /\ t.vars = runs.vars /\ t.promise = runs.promise
       /\ Len(t.stack) = Len(runs.stack) + 1 /\ t.stack[Len(runs.stack) + 1] = fr
       /\ \A k \in 1..Len(runs.stack) : t.stack[k] = runs.stack[k]
  <2>1. fr \in CallFrames \cup LoopFrames /\ fr.kind # "for"
    BY <1>9
  <2> HIDE DEF g2
  <2> QED
    BY <1>11, <1>14, <1>15, <1>16, <2>1, PushGood
<1>18. /\ t.vars = s.vars /\ \A q \in Promises : t.promise[q].value = s.promise[q].value
       /\ Len(t.stack) = n + 1 /\ t.stack[n + 1] = fr
       /\ \A k \in 1..n : t.stack[k] = s.stack[k]
  BY <1>10, <1>13, <1>17
<1>19. DOMAIN t.stack = 1..(n + 1)
  BY <1>17, <1>18, LenProperties DEF Good, States
<1>20. Holdings(t) = WithCall(f, n + 1, p, c)
  <2>1. t.stack[n + 1].kind = "call" /\ t.stack[n + 1].task = p /\ t.stack[n + 1].param = c
    BY <1>9, <1>18
  <2> HIDE DEF n, f
  <2>2. Holdings(t) = WithCall(Holdings(s), n + 1, t.stack[n + 1].task, t.stack[n + 1].param)
    BY <1>2, <1>18, <1>19, <2>1, PushHoldings
  <2> QED
    BY <2>1, <2>2 DEF f
<1>21. WithCall(f, n + 1, p, c) = g2
  <2>1. p # NoTask
    BY LendingAssumption
  <2> QED
    BY <2>1 DEF WithCall
<1> QED
  BY <1>17, <1>20, <1>21 DEF Accounted

-----------------------------------------------------------------------------
(* Calls and loops end. *)

\* A call ends, with the loops in it: its parameter is given up.
LEMMA LeaveGood ==
  ASSUME NEW s, Accounted(s), NEW k, k = CallOf(s.stack), k > 1
  PROVE  LET t == Release(PopTo(s, k - 1), s.stack[k].param) IN
         /\ Good(t, Drop(Holdings(s), OfParam(k)))
         /\ t.vars = s.vars
         /\ Len(t.stack) = k - 1 /\ \A j \in 1..(k - 1) : t.stack[j] = s.stack[j]
         /\ \A p \in Promises : /\ t.promise[p].state = s.promise[p].state
                                /\ t.promise[p].value = s.promise[p].value
         /\ CallsOf(t) = CallsOf(s) \ {k} /\ k \in CallsOf(s)
         /\ CallOf(t.stack) = CallAt(s.stack, k - 1)
<1> DEFINE f == Holdings(s)
           popped == PopTo(s, k - 1)
           v == s.stack[k].param
           t == Release(popped, v)
<1>1. Good(s, f) /\ s.stack \in Seq(Frames) /\ Nested(s.stack)
  BY DEF Accounted, Good, States
<1>2. DOMAIN s.stack = 1..Len(s.stack) /\ Len(s.stack) \in Nat \ {0}
  BY <1>1, LenProperties, EmptySeq DEF Nested
<1>3. /\ k \in 2..Len(s.stack) /\ s.stack[k].kind = "call" /\ s.stack[k] \in CallFrames
      /\ \A j \in (k + 1)..Len(s.stack) : s.stack[j].kind = "for"
  BY <1>1, <1>2, CallAround DEF CallOf
<1>4. k \in CallsOf(s)
  BY <1>2, <1>3 DEF CallsOf
<1>5. OfParam(k) \in DOMAIN f /\ f[OfParam(k)] = v
  BY <1>4, HoldingsFacts
<1>6. /\ Good(popped, f)
      /\ popped.heap = s.heap /\ popped.vars = s.vars /\ popped.promise = s.promise
      /\ Len(popped.stack) = k - 1 /\ \A j \in 1..(k - 1) : popped.stack[j] = s.stack[j]
  <2>1. k - 1 \in 1..Len(s.stack)
    BY <1>2, <1>3
  <2> HIDE DEF f
  <2> QED
    BY <1>1, <2>1, PopGood
<1> HIDE DEF popped
<1>7. DOMAIN popped.stack = 1..(k - 1)
  BY <1>6, LenProperties DEF Good, States
<1>8. \A b \in Lent(popped.stack) : f[OfParam(k)] # List(b)
  <2> SUFFICES ASSUME NEW b \in Lent(popped.stack), f[OfParam(k)] = List(b) PROVE FALSE
    OBVIOUS
  <2>1. PICK j \in 1..(k - 1) : b \in LentTo(popped.stack[j])
    BY <1>7 DEF Lent
  <2>2. PICK x \in DOMAIN f : f[x] = List(b) /\ Lends(x, j)
    BY <1>6, <1>7, <2>1 DEF Good, Secured
  <2>3. x = OfParam(k)
    <3>1. \A o1, o2 \in DOMAIN f : IsLent(f[o1]) /\ f[o1] = f[o2] => o1 = o2
      BY <1>1 DEF Good, Exact
    <3>2. IsLent(f[x]) /\ f[x] = f[OfParam(k)]
      BY <2>2, ListFacts
    <3> HIDE DEF f
    <3> QED
      BY <1>5, <2>2, <3>1, <3>2
  <2> QED
    BY <1>3, <2>1, <2>2, <2>3, KeyFacts
<1>9. /\ Good(t, Drop(f, OfParam(k))) /\ t.vars = popped.vars /\ t.stack = popped.stack
      /\ \A p \in Promises : /\ t.promise[p].state = popped.promise[p].state
                             /\ t.promise[p].value = popped.promise[p].value
  <2> HIDE DEF f
  <2> QED
    BY <1>5, <1>6, <1>8, GiveUp
<1> HIDE DEF t
<1>10. CallsOf(t) = CallsOf(s) \ {k}
  <2>1. \A j : j \in CallsOf(s) <=> j \in 1..Len(s.stack) /\ s.stack[j].kind = "call"
    BY <1>2 DEF CallsOf
  <2>2. \A j : j \in CallsOf(t) <=> j \in 1..(k - 1) /\ s.stack[j].kind = "call"
    BY <1>6, <1>7, <1>9 DEF CallsOf
  <2>3. \A j \in 1..Len(s.stack) : s.stack[j].kind = "call" => j \in 1..k
    BY <1>2, <1>3
  <2>4. \A j \in CallsOf(s) : j # k => j \in 1..(k - 1)
    BY <1>2, <1>3, <2>1, <2>3
  <2>5. \A j \in 1..(k - 1) : j \in 1..Len(s.stack) /\ j # k
    BY <1>2, <1>3
  <2> QED
    BY <2>1, <2>2, <2>4, <2>5
<1>11. CallOf(t.stack) = CallAt(s.stack, k - 1)
  <2>1. CallOf(t.stack) = CallAt(t.stack, k - 1)
    BY <1>6, <1>9 DEF CallOf
  <2>2. k - 1 \in 1..(k - 1)
    BY <1>3
  <2>3. t.stack[k - 1] = s.stack[k - 1]
    BY <1>6, <1>9, <2>2
  <2> QED
    BY <2>1, <2>3 DEF CallAt
<1> QED
  BY <1>4, <1>6, <1>9, <1>10, <1>11 DEF t, popped

\* Loops end.
LEMMA PopLoops ==
  ASSUME NEW s, Accounted(s), NEW n \in 1..Len(s.stack),
         \A k \in (n + 1)..Len(s.stack) : s.stack[k].kind = "for"
  PROVE  LET t == PopTo(s, n) IN
         /\ Accounted(t) /\ t.heap = s.heap /\ t.promise = s.promise
         /\ Len(t.stack) = n /\ \A k \in 1..n : t.stack[k] = s.stack[k]
<1> DEFINE t == PopTo(s, n)
<1>1. /\ Good(t, Holdings(s))
      /\ t.heap = s.heap /\ t.vars = s.vars /\ t.promise = s.promise
      /\ Len(t.stack) = n /\ \A k \in 1..n : t.stack[k] = s.stack[k]
  BY PopGood DEF Accounted
<1> HIDE DEF t
<1>2. DOMAIN t.stack = 1..n
  BY <1>1, LenProperties DEF Good, States
<1>3. DOMAIN s.stack = 1..Len(s.stack) /\ Len(s.stack) \in Nat
  BY LenProperties DEF Accounted, Good, States
<1>4. CallsOf(t) = CallsOf(s)
  <2>1. \A j : j \in CallsOf(s) <=> j \in 1..Len(s.stack) /\ s.stack[j].kind = "call"
    BY <1>3 DEF CallsOf
  <2>2. \A j : j \in CallsOf(t) <=> j \in 1..n /\ s.stack[j].kind = "call"
    BY <1>1, <1>2 DEF CallsOf
  <2>3. \A j \in 1..Len(s.stack) : s.stack[j].kind = "call" => j \in 1..n
    BY <1>3
  <2>4. \A j \in 1..n : j \in 1..Len(s.stack)
    BY <1>3
  <2> QED
    BY <2>1, <2>2, <2>3, <2>4
<1>5. \A k \in CallsOf(s) : t.stack[k] = s.stack[k]
  BY <1>1, <1>2, <1>4 DEF CallsOf
<1>6. Holdings(t) = Holdings(s)
  BY <1>1, <1>4, <1>5, SameHoldings
<1> QED
  BY <1>1, <1>6 DEF Accounted, t

-----------------------------------------------------------------------------
(* The marks of loops. *)

LEMMA MissedFinite ==
  ASSUME NEW loop \in LoopFrames
  PROVE  IsFiniteSet(Missed(loop)) /\ Cardinality(Missed(loop)) \in Nat
<1>1. IsFiniteSet(1..loop.index)
  BY FS_Interval DEF LoopFrames
<1>2. Missed(loop) \subseteq 1..loop.index
  BY DEF Missed
<1> QED
  BY <1>1, <1>2, FS_Subset, FS_CardinalityType

LEMMA WithoutFacts ==
  ASSUME NEW S, NEW seq \in Seq(S), NEW i \in 1..Len(seq)
  PROVE  /\ Without(seq, i) \in Seq(S) /\ Len(Without(seq, i)) = Len(seq) - 1
         /\ \A j \in 1..(Len(seq) - 1) :
              Without(seq, i)[j] = IF j < i THEN seq[j] ELSE seq[j + 1]
<1> DEFINE n == Len(seq)
           front == SubSeq(seq, 1, i - 1)
           back == SubSeq(seq, i + 1, n)
<1>1. n \in Nat /\ \A j \in 1..n : seq[j] \in S
  BY LenProperties, ElementOfSeq
<1>2. /\ front \in Seq(S) /\ Len(front) = i - 1 /\ \A j \in 1..(i - 1) : front[j] = seq[j]
  BY <1>1
<1>3. /\ back \in Seq(S) /\ Len(back) = n - i
      /\ \A j \in 1..(n - i) : back[j] = seq[i + j]
  BY <1>1
<1> HIDE DEF front, back
<1>4. /\ front \o back \in Seq(S) /\ Len(front \o back) = n - 1
      /\ \A j \in 1..(n - 1) : (front \o back)[j] = IF j <= i - 1 THEN front[j] ELSE back[j - (i - 1)]
  <2>1. /\ front \o back \in Seq(S) /\ Len(front \o back) = Len(front) + Len(back)
        /\ \A j \in 1..(Len(front) + Len(back)) :
             (front \o back)[j] = IF j <= Len(front) THEN front[j] ELSE back[j - Len(front)]
    BY <1>2, <1>3, ConcatProperties
  <2>2. Len(front) + Len(back) = n - 1
    BY <1>1, <1>2, <1>3
  <2> QED
    BY <1>2, <2>1, <2>2
<1>5. \A j \in 1..(n - 1) : (front \o back)[j] = IF j < i THEN seq[j] ELSE seq[j + 1]
  <2> SUFFICES ASSUME NEW j \in 1..(n - 1)
               PROVE  (front \o back)[j] = IF j < i THEN seq[j] ELSE seq[j + 1]
    OBVIOUS
  <2>1. CASE j < i
    BY <1>1, <1>2, <1>4, <2>1
  <2>2. CASE ~(j < i)
    <3>1. j - (i - 1) \in 1..(n - i) /\ i + (j - (i - 1)) = j + 1
      BY <1>1, <2>2
    <3> QED
      BY <1>1, <1>3, <1>4, <2>2, <3>1
  <2> QED
    BY <2>1, <2>2
<1> QED
  BY <1>4, <1>5 DEF Without, front, back

LEMMA GrowFacts ==
  ASSUME NEW fr \in Frames, NEW b \in Blocks, NEW n \in Nat, NEW h1 \in Heaps, NEW h2 \in Heaps,
         \A c \in Blocks : h2[c] = IF b = c THEN h1[c] + n ELSE h1[c],
         fr.kind = "for" => Marked(h1, fr), h1[b] # Freed
  PROVE  LET g == GrowLoop(fr, b, n) IN
         /\ g \in Frames /\ g.kind = fr.kind
         /\ fr.kind # "for" => g = fr
         /\ fr.kind = "for" => /\ Marked(h2, g)
                               /\ g.call = fr.call /\ g.var = fr.var /\ g.list = fr.list
<1>1. CASE fr.kind # "for"
  BY <1>1 DEF GrowLoop
<1>2. CASE fr.kind = "for" /\ fr.list # List(b)
  <2>1. GrowLoop(fr, b, n) = fr
    BY <1>2 DEF GrowLoop
  <2>2. fr \in LoopFrames
    BY <1>2, FrameKinds
  <2>3. fr.list \in Values
    BY <2>2 DEF LoopFrames, Values
  <2>4. LengthIn(h2, fr.list) = LengthIn(h1, fr.list)
    BY <1>2, <2>3, ValueKinds DEF LengthIn
  <2> QED
    BY <1>2, <2>1, <2>4 DEF Marked
<1>3. CASE fr.kind = "for" /\ fr.list = List(b)
  <2> DEFINE more == [i \in 1..n |-> FALSE]
             v == fr.visited \o more
             g == [fr EXCEPT !.visited = v]
  <2>1. fr \in LoopFrames /\ fr.visited \in Seq(BOOLEAN) /\ fr.index \in Nat
    BY <1>3, FrameKinds DEF LoopFrames
  <2>2. more \in Seq(BOOLEAN) /\ Len(more) = n /\ \A i \in 1..n : more[i] = FALSE
    OBVIOUS
  <2> HIDE DEF more
  <2>3. /\ v \in Seq(BOOLEAN) /\ Len(v) = Len(fr.visited) + n
        /\ \A i \in 1..(Len(fr.visited) + n) :
             v[i] = IF i <= Len(fr.visited) THEN fr.visited[i] ELSE more[i - Len(fr.visited)]
    BY <2>1, <2>2, ConcatProperties
  <2>4. Len(fr.visited) \in Nat /\ DOMAIN fr.visited = 1..Len(fr.visited) /\ DOMAIN v = 1..Len(v)
    BY <2>1, <2>3, LenProperties
  <2> HIDE DEF v
  <2>5. /\ g \in LoopFrames /\ g.kind = "for" /\ g.visited = v /\ g.index = fr.index
        /\ g.shifted = fr.shifted /\ g.list = fr.list /\ g.call = fr.call /\ g.var = fr.var
    BY <1>3, <2>1, <2>3 DEF LoopFrames
  <2>6. GrowLoop(fr, b, n) = g
    BY <1>3 DEF GrowLoop, v, more
  <2> HIDE DEF g
  <2>7. \A i \in 1..Len(v) : (i <= Len(fr.visited) /\ v[i] = fr.visited[i]) \/ v[i] = FALSE
    <3> SUFFICES ASSUME NEW i \in 1..Len(v), ~(i <= Len(fr.visited)) PROVE v[i] = FALSE
      BY <2>3
    <3>1. i - Len(fr.visited) \in 1..n
      BY <2>3, <2>4
    <3> QED
      BY <2>2, <2>3, <3>1
  <2>8. Marked(h1, fr)
    BY <1>3
  <2>9. Len(g.visited) = LengthIn(h2, g.list)
    BY <1>3, <2>3, <2>4, <2>5, <2>8, ListFacts DEF Marked, LengthIn, Heaps
  <2>10. \A i \in DOMAIN g.visited : g.visited[i] => i <= g.index
    BY <2>4, <2>5, <2>7, <2>8 DEF Marked
  <2>11. Missed(g) = Missed(fr)
    <3>1. ASSUME NEW i \in 1..fr.index
          PROVE  (i \in DOMAIN v => ~v[i]) <=> (i \in DOMAIN fr.visited => ~fr.visited[i])
      <4>1. CASE i <= Len(fr.visited)
        BY <2>1, <2>3, <2>4, <4>1
      <4>2. CASE ~(i <= Len(fr.visited))
        BY <2>1, <2>4, <2>7, <4>2
      <4> QED
        BY <4>1, <4>2
    <3> QED
      BY <2>5, <3>1 DEF Missed
  <2>12. Marked(h2, g)
    BY <2>5, <2>8, <2>9, <2>10, <2>11 DEF Marked
  <2> QED
    BY <1>3, <2>5, <2>6, <2>12 DEF Frames
<1> QED
  BY <1>1, <1>2, <1>3

LEMMA ShrinkFacts ==
  ASSUME NEW fr \in Frames, NEW b \in Blocks, NEW h1 \in Heaps, NEW h2 \in Heaps,
         NEW i \in 1..h1[b], h1[b] # Freed,
         \A c \in Blocks : h2[c] = IF b = c THEN h1[c] - 1 ELSE h1[c],
         fr.kind = "for" => Marked(h1, fr)
  PROVE  LET g == ShrinkLoop(fr, b, i) IN
         /\ g \in Frames /\ g.kind = fr.kind
         /\ fr.kind # "for" => g = fr
         /\ fr.kind = "for" => /\ Marked(h2, g)
                               /\ g.call = fr.call /\ g.var = fr.var /\ g.list = fr.list
<1>1. CASE fr.kind # "for"
  BY <1>1 DEF ShrinkLoop
<1>2. CASE fr.kind = "for" /\ fr.list # List(b)
  <2>1. ShrinkLoop(fr, b, i) = fr
    BY <1>2 DEF ShrinkLoop
  <2>2. fr \in LoopFrames
    BY <1>2, FrameKinds
  <2>3. fr.list \in Values
    BY <2>2 DEF LoopFrames, Values
  <2>4. LengthIn(h2, fr.list) = LengthIn(h1, fr.list)
    BY <1>2, <2>3, ValueKinds DEF LengthIn
  <2> QED
    BY <1>2, <2>1, <2>4 DEF Marked
<1>3. CASE fr.kind = "for" /\ fr.list = List(b)
  <2> DEFINE u == fr.visited
             n == Len(fr.visited)
             v == Without(u, i)
             shift == fr.shifted + IF i <= fr.index THEN 1 ELSE 0
             g == [fr EXCEPT !.visited = v, !.shifted = shift]
  <2>1. /\ fr \in LoopFrames /\ u \in Seq(BOOLEAN) /\ fr.index \in Nat /\ fr.shifted \in Nat
        /\ shift \in Nat
    BY <1>3, FrameKinds DEF LoopFrames
  <2>2. /\ n = h1[b] /\ n \in Nat /\ DOMAIN u = 1..n
        /\ \A j \in DOMAIN u : u[j] => j <= fr.index
        /\ Cardinality(Missed(fr)) <= fr.shifted
    BY <1>3, <2>1, ListFacts, LenProperties DEF Marked, LengthIn
  <2>3. /\ v \in Seq(BOOLEAN) /\ Len(v) = n - 1
        /\ \A j \in 1..(n - 1) : v[j] = IF j < i THEN u[j] ELSE u[j + 1]
    <3>1. i \in 1..Len(u) /\ n = Len(u)
      BY <2>2
    <3> HIDE DEF u, n
    <3> QED
      BY <2>1, <3>1, WithoutFacts
  <2>4. DOMAIN v = 1..(n - 1)
    BY <2>3, LenProperties
  <2> HIDE DEF v, shift
  <2>5. /\ g \in LoopFrames /\ g.kind = "for" /\ g.visited = v /\ g.index = fr.index
        /\ g.shifted = shift /\ g.list = fr.list /\ g.call = fr.call /\ g.var = fr.var
    BY <1>3, <2>1, <2>3 DEF LoopFrames
  <2>6. ShrinkLoop(fr, b, i) = g
    BY <1>3 DEF ShrinkLoop, v, shift
  <2> HIDE DEF g
  <2>7. Len(g.visited) = LengthIn(h2, g.list)
    BY <1>3, <2>2, <2>3, <2>5, ListFacts DEF LengthIn
  <2>8. \A j \in DOMAIN g.visited : g.visited[j] => j <= g.index
    <3> SUFFICES ASSUME NEW j \in 1..(n - 1), v[j] PROVE j <= fr.index
      BY <2>4, <2>5
    <3>1. CASE j < i
      <4>1. j \in 1..n /\ u[j]
        BY <2>2, <2>3, <3>1
      <4> QED
        BY <2>2, <4>1
    <3>2. CASE ~(j < i)
      <4>1. j + 1 \in 1..n /\ u[j + 1]
        BY <2>2, <2>3, <3>2
      <4>2. j + 1 <= fr.index
        BY <2>2, <4>1
      <4> QED
        BY <2>1, <2>2, <4>2
    <3> QED
      BY <3>1, <3>2
  <2>9. Cardinality(Missed(g)) <= g.shifted
    <3>0. IsFiniteSet(Missed(fr)) /\ Cardinality(Missed(fr)) \in Nat
      BY <2>1, MissedFinite
    <3>1. CASE ~(i <= fr.index)
      <4>1. ASSUME NEW j \in 1..fr.index
            PROVE  (j \in DOMAIN v => ~v[j]) <=> (j \in DOMAIN u => ~u[j])
        <5>1. j < i /\ j \in 1..(n - 1) /\ j \in 1..n
          BY <2>1, <2>2, <3>1
        <5> QED
          BY <2>2, <2>3, <2>4, <5>1
      <4>2. Missed(g) = Missed(fr)
        BY <2>5, <4>1 DEF Missed
      <4>3. shift = fr.shifted
        BY <2>1, <3>1 DEF shift
      <4> QED
        BY <2>2, <2>5, <4>2, <4>3
    <3>2. CASE i <= fr.index
      <4> DEFINE T == Missed(fr) \cup {fr.index + 1}
                 m == [j \in Missed(g) |-> IF j < i THEN j ELSE j + 1]
      <4>1. ASSUME NEW j \in Missed(g) PROVE m[j] \in T
        <5>1. j \in 1..fr.index /\ (j \in 1..(n - 1) => ~v[j])
          BY <2>4, <2>5 DEF Missed
        <5>2. CASE j < i
          <6>1. j \in 1..(n - 1) /\ ~u[j]
            BY <2>2, <2>3, <5>1, <5>2
          <6> QED
            BY <5>1, <5>2, <6>1 DEF Missed
        <5>3. CASE ~(j < i) /\ j = fr.index
          BY <5>3
        <5>4. CASE ~(j < i) /\ j # fr.index
          <6>1. j + 1 \in 1..fr.index
            BY <2>1, <5>1, <5>4
          <6>2. j + 1 \in DOMAIN u => ~u[j + 1]
            BY <2>2, <2>3, <5>1, <5>4
          <6> QED
            BY <5>4, <6>1, <6>2 DEF Missed
        <5> QED
          BY <5>2, <5>3, <5>4
      <4>2. \A j1, j2 \in Missed(g) : m[j1] = m[j2] => j1 = j2
        <5>1. \A j \in Missed(g) : j \in Nat
          BY <2>1, <2>5 DEF Missed
        <5> QED
          BY <2>2, <5>1
      <4>3. m \in Injection(Missed(g), T)
        BY <4>1, <4>2, Zenon DEF Injection, IsInjective
      <4>4. fr.index + 1 \notin Missed(fr)
        BY <2>1 DEF Missed
      <4>5. IsFiniteSet(T) /\ Cardinality(T) = Cardinality(Missed(fr)) + 1
        BY <3>0, <4>4, FS_AddElement
      <4> HIDE DEF m, T
      <4>6. Cardinality(Missed(g)) <= Cardinality(T)
        BY <4>3, <4>5, FS_Injection
      <4>7. Cardinality(Missed(g)) \in Nat
        BY <2>5, MissedFinite
      <4>8. shift = fr.shifted + 1
        BY <3>2 DEF shift
      <4> QED
        BY <2>1, <2>2, <2>5, <3>0, <4>5, <4>6, <4>7, <4>8
    <3> QED
      BY <3>1, <3>2
  <2>10. Marked(h2, g)
    BY <2>7, <2>8, <2>9 DEF Marked
  <2> QED
    BY <1>3, <2>5, <2>6, <2>10 DEF Frames
<1> QED
  BY <1>1, <1>2, <1>3

\* The lengths of lists and the marks of loops change, nothing else.
LEMMA Resized ==
  ASSUME NEW s, Accounted(s), NEW t \in States, t.end = "well",
         t.vars = s.vars, t.promise = s.promise,
         \A b \in Blocks : t.heap[b] = Freed <=> s.heap[b] = Freed,
         Len(t.stack) = Len(s.stack),
         \A k \in 1..Len(s.stack) :
           /\ t.stack[k].kind = s.stack[k].kind
           /\ s.stack[k].kind # "for" => t.stack[k] = s.stack[k]
           /\ s.stack[k].kind = "for" => /\ Marked(t.heap, t.stack[k])
                                         /\ t.stack[k].call = s.stack[k].call
                                         /\ t.stack[k].var = s.stack[k].var
                                         /\ t.stack[k].list = s.stack[k].list
  PROVE  Accounted(t)
<1> DEFINE f == Holdings(s)
<1>1. Good(s, f) /\ s \in States
  BY DEF Accounted, Good
<1>2. DOMAIN s.stack = 1..Len(s.stack) /\ DOMAIN t.stack = 1..Len(s.stack) /\ Len(s.stack) \in Nat
  BY <1>1, LenProperties DEF States
<1>3. s.stack[1].kind # "for" /\ Len(s.stack) # 0
  BY <1>1, EmptySeq DEF Good, Nested, Program, States
<1>4. SameShape(s.stack, t.stack)
  BY <1>2, <1>3 DEF SameShape
<1>5. AllMarked(t.heap, t.stack)
  BY <1>2 DEF AllMarked
<1>6. Exact(t.heap, f)
  <2>1. Exact(s.heap, f) /\ Account(f)
    BY <1>1 DEF Good
  <2> HIDE DEF f
  <2>2. \A o \in DOMAIN f : IsLent(f[o]) => f[o][2] \in Blocks
    BY <2>1, ValueKinds DEF Account
  <2> QED
    BY <2>1, <2>2 DEF Exact
<1>7. \A p \in Promises : t.promise[p].state = "none" => t.promise[p].value = Plain
  BY <1>1 DEF Good, Idle
<1>8. Good(t, f)
  BY <1>1, <1>4, <1>5, <1>6, <1>7, Reshaped
<1>9. CallsOf(t) = CallsOf(s) /\ \A k \in CallsOf(s) : t.stack[k] = s.stack[k]
  BY <1>2 DEF CallsOf
<1>10. Holdings(t) = f
  BY <1>9, SameHoldings
<1> QED
  BY <1>8, <1>10 DEF Accounted

LEMMA SeqOf ==
  ASSUME NEW S, NEW n \in Nat, NEW q, q = [k \in 1..n |-> q[k]], \A k \in 1..n : q[k] \in S
  PROVE  q \in Seq(S) /\ Len(q) = n
OBVIOUS

LEMMA MarkOne ==
  ASSUME NEW u \in Seq(BOOLEAN), NEW i \in 1..Len(u)
  PROVE  LET v == [u EXCEPT ![i] = TRUE] IN
         /\ v \in Seq(BOOLEAN) /\ Len(v) = Len(u) /\ v[i]
         /\ \A j \in 1..Len(u) : j # i => (v[j] <=> u[j])
<1> DEFINE e == TRUE
           S == BOOLEAN
           v == [u EXCEPT ![i] = e]
<1>1. e \in S /\ u \in Seq(S)
  OBVIOUS
<1> HIDE DEF e, S
<1>2. v \in Seq(S) /\ Len(v) = Len(u) /\ \A j \in 1..Len(u) : v[j] = IF j = i THEN e ELSE u[j]
  BY <1>1, ExceptSeq
<1> HIDE DEF v
<1>3. v[i] = e /\ \A j \in 1..Len(u) : j # i => v[j] = u[j]
  BY <1>2
<1>4. v[i] /\ \A j \in 1..Len(u) : j # i => (v[j] <=> u[j])
  BY <1>3, Zenon DEF e
<1>5. v \in Seq(BOOLEAN)
  BY <1>2 DEF S
<1> QED
  BY <1>2, <1>4, <1>5 DEF v, e

\* list_append and list_extend.
LEMMA AppendToGood ==
  ASSUME NEW s, Accounted(s), NEW b \in Blocks, s.heap[b] # Freed, NEW n \in Nat
  PROVE  LET t == AppendTo(s, b, n) IN Accounted(t) /\ Len(t.stack) = Len(s.stack)
<1> DEFINE t == AppendTo(s, b, n)
           q == [k \in DOMAIN s.stack |-> GrowLoop(s.stack[k], b, n)]
           h == [s.heap EXCEPT ![b] = @ + n]
<1>1. /\ s \in States /\ s.end = "well" /\ s.stack \in Seq(Frames) /\ s.heap \in Heaps
      /\ AllMarked(s.heap, s.stack)
  BY DEF Accounted, Good, States
<1>2. DOMAIN s.stack = 1..Len(s.stack) /\ Len(s.stack) \in Nat
  BY <1>1, LenProperties
<1>3. s.heap[b] \in Nat
  BY <1>1 DEF Heaps
<1>4. h \in Heaps /\ \A c \in Blocks : h[c] = IF b = c THEN s.heap[c] + n ELSE s.heap[c]
  BY <1>1, <1>3 DEF Heaps
<1>5. t = [s EXCEPT !.heap = h, !.stack = q]
  BY DEF AppendTo, IsNew
<1> HIDE DEF t, h
<1>6. ASSUME NEW k \in 1..Len(s.stack)
      PROVE  /\ q[k] \in Frames /\ q[k].kind = s.stack[k].kind
             /\ s.stack[k].kind # "for" => q[k] = s.stack[k]
             /\ s.stack[k].kind = "for" => /\ Marked(h, q[k])
                                           /\ q[k].call = s.stack[k].call
                                           /\ q[k].var = s.stack[k].var
                                           /\ q[k].list = s.stack[k].list
  <2>1. s.stack[k] \in Frames /\ (s.stack[k].kind = "for" => Marked(s.heap, s.stack[k]))
    BY <1>1, <1>2, ElementOfSeq DEF AllMarked
  <2>2. q[k] = GrowLoop(s.stack[k], b, n)
    BY <1>2
  <2> HIDE DEF q
  <2> QED
    BY <1>1, <1>4, <2>1, <2>2, GrowFacts
<1>7. q \in Seq(Frames) /\ Len(q) = Len(s.stack)
  <2>1. q = [k \in 1..Len(s.stack) |-> q[k]]
    BY <1>2
  <2>2. \A k \in 1..Len(s.stack) : q[k] \in Frames
    BY <1>6
  <2> HIDE DEF q
  <2> QED
    BY <1>2, <2>1, <2>2, SeqOf
<1> HIDE DEF q
<1>8. /\ t \in States /\ t.end = "well" /\ t.vars = s.vars /\ t.promise = s.promise
      /\ t.heap = h /\ t.stack = q
  BY <1>1, <1>4, <1>5, <1>7 DEF States
<1>9. \A c \in Blocks : t.heap[c] = Freed <=> s.heap[c] = Freed
  BY <1>3, <1>4, <1>8 DEF Freed
<1>10. Accounted(t)
  BY <1>6, <1>7, <1>8, <1>9, Resized
<1> QED
  BY <1>7, <1>8, <1>10 DEF t

\* list_remove of item i.
Removes(s, b, i) == [s EXCEPT !.heap[b] = @ - 1,
                              !.stack = [k \in DOMAIN s.stack |-> ShrinkLoop(s.stack[k], b, i)]]

LEMMA RemovesGood ==
  ASSUME NEW s, Accounted(s), NEW b \in Blocks, s.heap[b] # Freed, NEW i \in 1..s.heap[b]
  PROVE  LET t == Removes(s, b, i) IN Accounted(t) /\ Len(t.stack) = Len(s.stack)
<1> DEFINE t == Removes(s, b, i)
           q == [k \in DOMAIN s.stack |-> ShrinkLoop(s.stack[k], b, i)]
           h == [s.heap EXCEPT ![b] = @ - 1]
<1>1. /\ s \in States /\ s.end = "well" /\ s.stack \in Seq(Frames) /\ s.heap \in Heaps
      /\ AllMarked(s.heap, s.stack)
  BY DEF Accounted, Good, States
<1>2. DOMAIN s.stack = 1..Len(s.stack) /\ Len(s.stack) \in Nat
  BY <1>1, LenProperties
<1>3. s.heap[b] \in Nat /\ s.heap[b] - 1 \in Nat
  BY <1>1 DEF Heaps
<1>4. h \in Heaps /\ \A c \in Blocks : h[c] = IF b = c THEN s.heap[c] - 1 ELSE s.heap[c]
  BY <1>1, <1>3 DEF Heaps
<1>5. t = [s EXCEPT !.heap = h, !.stack = q]
  BY DEF Removes
<1> HIDE DEF t, h
<1>6. ASSUME NEW k \in 1..Len(s.stack)
      PROVE  /\ q[k] \in Frames /\ q[k].kind = s.stack[k].kind
             /\ s.stack[k].kind # "for" => q[k] = s.stack[k]
             /\ s.stack[k].kind = "for" => /\ Marked(h, q[k])
                                           /\ q[k].call = s.stack[k].call
                                           /\ q[k].var = s.stack[k].var
                                           /\ q[k].list = s.stack[k].list
  <2>1. s.stack[k] \in Frames /\ (s.stack[k].kind = "for" => Marked(s.heap, s.stack[k]))
    BY <1>1, <1>2, ElementOfSeq DEF AllMarked
  <2>2. q[k] = ShrinkLoop(s.stack[k], b, i)
    BY <1>2
  <2> HIDE DEF q
  <2> QED
    BY <1>1, <1>4, <2>1, <2>2, ShrinkFacts
<1>7. q \in Seq(Frames) /\ Len(q) = Len(s.stack)
  <2>1. q = [k \in 1..Len(s.stack) |-> q[k]]
    BY <1>2
  <2>2. \A k \in 1..Len(s.stack) : q[k] \in Frames
    BY <1>6
  <2> HIDE DEF q
  <2> QED
    BY <1>2, <2>1, <2>2, SeqOf
<1> HIDE DEF q
<1>8. /\ t \in States /\ t.end = "well" /\ t.vars = s.vars /\ t.promise = s.promise
      /\ t.heap = h /\ t.stack = q
  BY <1>1, <1>4, <1>5, <1>7 DEF States
<1>9. \A c \in Blocks : t.heap[c] = Freed <=> s.heap[c] = Freed
  BY <1>3, <1>4, <1>8 DEF Freed
<1>10. Accounted(t)
  BY <1>6, <1>7, <1>8, <1>9, Resized
<1> QED
  BY <1>7, <1>8, <1>10 DEF t

\* A loop goes on with item i.
Turned(s, i) == [s EXCEPT !.stack[Len(s.stack)] = [@ EXCEPT !.index = i, !.visited[i] = TRUE]]

LEMMA TurnedGood ==
  ASSUME NEW s, Accounted(s), NEW i, s.stack[Len(s.stack)].kind = "for",
         i = s.stack[Len(s.stack)].index + 1,
         i <= LengthIn(s.heap, s.stack[Len(s.stack)].list)
  PROVE  LET t == Turned(s, i) IN
         /\ Accounted(t) /\ t.heap = s.heap /\ t.vars = s.vars /\ t.promise = s.promise
         /\ Len(t.stack) = Len(s.stack) /\ CallOf(t.stack) = CallOf(s.stack)
         /\ Lent(t.stack) = Lent(s.stack)
         /\ \A k \in CallsOf(s) : t.stack[k] = s.stack[k]
         /\ Holdings(t) = Holdings(s)
<1> DEFINE t == Turned(s, i)
           n == Len(s.stack)
           fr == s.stack[n]
           v == [fr.visited EXCEPT ![i] = TRUE]
           g == [fr EXCEPT !.index = i, !.visited = v]
           q == [s.stack EXCEPT ![n] = g]
<1>1. /\ s \in States /\ s.end = "well" /\ s.stack \in Seq(Frames) /\ Nested(s.stack)
      /\ AllMarked(s.heap, s.stack)
  BY DEF Accounted, Good, States
<1>2. DOMAIN s.stack = 1..n /\ n \in Nat \ {0}
  BY <1>1, LenProperties, EmptySeq DEF Nested
<1>3. fr \in LoopFrames /\ Marked(s.heap, fr)
  BY <1>1, <1>2, ElementOfSeq, FrameKinds DEF AllMarked
<1>4. /\ fr.visited \in Seq(BOOLEAN) /\ fr.index \in Nat /\ i = fr.index + 1
      /\ i \in 1..Len(fr.visited)
  <2>1. fr.visited \in Seq(BOOLEAN) /\ fr.index \in Nat /\ i = fr.index + 1
    BY <1>3 DEF LoopFrames
  <2>2. i <= Len(fr.visited)
    BY <1>3 DEF Marked
  <2>3. Len(fr.visited) \in Nat
    BY <2>1, LenProperties
  <2> QED
    BY <2>1, <2>2, <2>3
<1>5. /\ v \in Seq(BOOLEAN) /\ Len(v) = Len(fr.visited)
      /\ v[i] /\ \A j \in 1..Len(fr.visited) : j # i => (v[j] <=> fr.visited[j])
  BY <1>4, MarkOne
<1>6. DOMAIN v = 1..Len(fr.visited) /\ DOMAIN fr.visited = 1..Len(fr.visited)
  BY <1>4, <1>5, LenProperties
<1> HIDE DEF v
<1>7. /\ g \in LoopFrames /\ g \in Frames /\ g.kind = "for" /\ g.visited = v /\ g.index = i
      /\ g.shifted = fr.shifted /\ g.list = fr.list /\ g.call = fr.call /\ g.var = fr.var
  <2>1. i \in Nat /\ v \in Seq(BOOLEAN) /\ fr \in LoopFrames
    BY <1>3, <1>4, <1>5
  <2> HIDE DEF fr
  <2> DEFINE g1 == [fr EXCEPT !.index = i]
  <2>2. /\ g1 \in LoopFrames /\ g1.kind = "for" /\ g1.index = i
        /\ g1.shifted = fr.shifted /\ g1.list = fr.list /\ g1.call = fr.call /\ g1.var = fr.var
    BY <2>1 DEF LoopFrames
  <2>3. g = [g1 EXCEPT !.visited = v]
    OBVIOUS
  <2> HIDE DEF g, g1
  <2>4. /\ g \in LoopFrames /\ g.kind = "for" /\ g.visited = v /\ g.index = i
        /\ g.shifted = g1.shifted /\ g.list = g1.list /\ g.call = g1.call /\ g.var = g1.var
    BY <2>1, <2>2, <2>3 DEF LoopFrames
  <2>5. g \in Frames
    BY <2>4 DEF Frames
  <2> QED
    BY <2>2, <2>4, <2>5
<1>8. t = [s EXCEPT !.stack = q]
  BY DEF Turned, v
<1> HIDE DEF g
<1>9. Marked(s.heap, g)
  <2>1. \A j \in DOMAIN v : v[j] => j <= i
    <3> SUFFICES ASSUME NEW j \in 1..Len(fr.visited), v[j] PROVE j <= i
      BY <1>6
    <3>1. j # i => j <= fr.index
      BY <1>3, <1>5, <1>6 DEF Marked
    <3> QED
      BY <1>4, <3>1
  <2>2. Missed(g) = Missed(fr)
    <3>1. ASSUME NEW j \in 1..i
          PROVE  (j \in DOMAIN v => ~v[j]) <=>
                 (j \in 1..fr.index /\ (j \in DOMAIN fr.visited => ~fr.visited[j]))
      <4>1. CASE j = i
        BY <1>4, <1>5, <1>6, <4>1
      <4>2. CASE j # i
        <5>1. j \in 1..fr.index
          BY <1>4, <4>2
        <5>2. j \in 1..Len(fr.visited) => (v[j] <=> fr.visited[j])
          BY <1>5, <4>2
        <5> QED
          BY <1>6, <5>1, <5>2
      <4> QED
        BY <4>1, <4>2
    <3>2. 1..fr.index \subseteq 1..i
      BY <1>4
    <3> QED
      BY <1>7, <3>1, <3>2 DEF Missed
  <2> QED
    BY <1>3, <1>5, <1>7, <2>1, <2>2 DEF Marked
<1>10. /\ q \in Seq(Frames) /\ Len(q) = n
       /\ \A k \in 1..n : q[k] = IF k = n THEN g ELSE s.stack[k]
  BY <1>1, <1>2, <1>7, ExceptSeq
<1> HIDE DEF q, t
<1>11. /\ t \in States /\ t.end = "well" /\ t.vars = s.vars /\ t.promise = s.promise
       /\ t.heap = s.heap /\ t.stack = q
  BY <1>1, <1>8, <1>10 DEF States
<1>12. \A k \in 1..n : /\ t.stack[k].kind = s.stack[k].kind
                       /\ s.stack[k].kind # "for" => t.stack[k] = s.stack[k]
                       /\ s.stack[k].kind = "for" => /\ Marked(t.heap, t.stack[k])
                                                     /\ t.stack[k].call = s.stack[k].call
                                                     /\ t.stack[k].var = s.stack[k].var
                                                     /\ t.stack[k].list = s.stack[k].list
  BY <1>1, <1>2, <1>7, <1>9, <1>10, <1>11 DEF AllMarked
<1>13. Accounted(t)
  <2> HIDE DEF n
  <2> QED
    BY <1>10, <1>11, <1>12, Resized DEF n
<1>14. CallOf(t.stack) = CallOf(s.stack)
  BY <1>2, <1>10, <1>11, <1>12 DEF CallOf, CallAt
<1>15. DOMAIN t.stack = 1..n
  BY <1>10, <1>11, LenProperties
<1>16. Lent(t.stack) = Lent(s.stack)
  <2>1. \A k \in 1..n : LentTo(t.stack[k]) = LentTo(s.stack[k])
    BY <1>12, SameLent
  <2> QED
    BY <1>2, <1>15, <2>1 DEF Lent
<1>17. CallsOf(t) = CallsOf(s) /\ \A k \in CallsOf(s) : t.stack[k] = s.stack[k]
  BY <1>2, <1>12, <1>15 DEF CallsOf
<1>18. Holdings(t) = Holdings(s)
  BY <1>11, <1>17, SameHoldings
<1> QED
  BY <1>10, <1>11, <1>13, <1>14, <1>16, <1>17, <1>18 DEF t

-----------------------------------------------------------------------------
(* What there is no memory for does not come about. *)

Stuck(s) == "end" \in DOMAIN s /\ s.end = "full"

LEMMA StuckStays ==
  ASSUME NEW s, Stuck(s), NEW x
  PROVE  /\ Stuck([s EXCEPT !.heap = x]) /\ Stuck([s EXCEPT !.vars = x])
         /\ Stuck([s EXCEPT !.stack = x]) /\ Stuck([s EXCEPT !.promise = x])
BY DEF Stuck

LEMMA StuckFree ==
  ASSUME NEW s, Stuck(s), NEW v
  PROVE  Stuck(FreeList(s, v))
<1>1. Stuck([s EXCEPT !.heap[v[2]] = Freed])
  BY StuckStays
<1>2. Ends(s, "freed") = s
  BY DEF Ends, Stuck
<1> QED
  BY <1>1, <1>2 DEF FreeList

LEMMA StuckRelease ==
  ASSUME NEW s, Stuck(s), NEW v
  PROVE  Stuck(Release(s, v))
<1>1. Stuck(LessOne(s, v[2]))
  BY StuckStays DEF LessOne
<1>2. Ends(s, "freed") = s
  BY DEF Ends, Stuck
<1>3. Stuck(FreeList(s, v)) /\ Stuck(FreeList(LessOne(s, v[2]), s.promise[v[2]].value))
  BY <1>1, StuckFree
<1> QED
  BY <1>1, <1>2, <1>3 DEF Release

LEMMA StuckClone ==
  ASSUME NEW s, Stuck(s), NEW v
  PROVE  Stuck(Clone(s, v))
<1>1. Stuck(OneMore(s, v[2]))
  BY StuckStays DEF OneMore
<1>2. Ends(s, "freed") = s /\ Ends(s, "full") = s
  BY DEF Ends, Stuck
<1>3. Stuck([s EXCEPT !.heap[NewBlock(s)] = Length(s, v)])
  BY StuckStays
<1>4. Stuck(CloneList(s, v))
  BY <1>2, <1>3 DEF CloneList
<1> QED
  BY <1>1, <1>2, <1>4 DEF Clone

LEMMA StuckSetVariable ==
  ASSUME NEW s, Stuck(s), NEW v, NEW value
  PROVE  Stuck(SetVariable(s, v, value))
<1> DEFINE old == Release(s, Holds(s, v))
           new == Clone(old, value)
<1>1. Stuck(new)
  BY StuckRelease, StuckClone
<1> HIDE DEF new
<1>2. /\ Stuck([new EXCEPT !.stack[CallOf(s.stack)].param = Copy(old, value)])
      /\ Stuck([new EXCEPT !.vars[v] = Copy(old, value)])
  BY <1>1, StuckStays
<1> QED
  BY <1>2 DEF SetVariable, new

LEMMA StuckConsume ==
  ASSUME NEW s, Stuck(s), NEW value, NEW use \in AllUses
  PROVE  Stuck(Consume(s, value, use))
<1>1. CASE use[1] = "drop"
  BY <1>1 DEF Consume
<1>2. CASE use[1] = "assign"
  BY <1>2, StuckSetVariable DEF Consume
<1>3. CASE use[1] = "append"
  <2> DEFINE b == use[2]
             m == [s EXCEPT !.heap[b] = @ + 1]
  <2>1. Ends(s, "freed") = s
    BY DEF Ends, Stuck
  <2>2. Stuck(m)
    BY StuckStays
  <2>3. Stuck([s EXCEPT !.heap[b] = @ + 1,
                        !.stack = [k \in DOMAIN s.stack |-> GrowLoop(s.stack[k], b, 1)]])
    BY DEF Stuck
  <2>4. Stuck(AppendTo(s, b, 1))
    BY <2>1, <2>3 DEF AppendTo
  <2> QED
    BY <1>3, <2>4 DEF Consume
<1> QED
  BY <1>1, <1>2, <1>3 DEF AllUses

LEMMA StuckRunTask ==
  ASSUME NEW s, Stuck(s), NEW p, NEW use
  PROVE  Stuck(RunTask(s, p, use))
<1> DEFINE new == Clone(Clone(s, Promise(p)), s.promise[p].value)
           runs == [new EXCEPT !.promise[p].state = "running"]
<1>1. Stuck(new)
  BY StuckClone
<1> HIDE DEF new
<1>2. Stuck(runs)
  BY <1>1, StuckStays
<1> HIDE DEF runs
<1>3. \A x : Stuck(Push(runs, x))
  BY <1>2, StuckStays DEF Push
<1> QED
  BY <1>3 DEF RunTask, runs, new

-----------------------------------------------------------------------------
(* What expressions give, and what is made of it. *)

LEMMA OwnedIsUsable ==
  ASSUME NEW s, NEW f, Good(s, f), NEW o \in DOMAIN f
  PROVE  f[o] \in Values /\ Usable(s, f[o])
BY DEF Good, Account, Usable, Exact, Counted

LEMMA LengthFacts ==
  ASSUME NEW s, s \in States, NEW v \in Values, Usable(s, v), IsList(v)
  PROVE  Length(s, v) \in Nat /\ Own(Length(s, v)) \in Values /\ Own(Length(s, v)) \in Lists
<1>1. Length(s, v) \in Nat
  <2>1. CASE IsLent(v)
    BY <2>1, ValueKinds DEF Length, Usable, States, Heaps
  <2>2. CASE ~IsLent(v)
    BY <2>2, ValueKinds DEF Length
  <2> QED
    BY <2>1, <2>2
<1> QED
  BY <1>1 DEF Values, Lists

\* A copy of a value's own can be used in any state where promises are as they were.
LEMMA OwnCopyFacts ==
  ASSUME NEW s, s \in States, NEW v \in Values, Usable(s, v)
  PROVE  /\ OwnCopy(s, v) \in Values /\ Usable(s, OwnCopy(s, v)) /\ ~IsLent(OwnCopy(s, v))
         /\ \A p : OwnCopy(s, v) = Promise(p) => v = Promise(p)
<1>1. CASE IsList(v)
  BY <1>1, LengthFacts, OwnFacts DEF OwnCopy, Usable
<1>2. CASE ~IsList(v)
  BY <1>2, ValueKinds DEF OwnCopy
<1> QED
  BY <1>1, <1>2

LEMMA HereFacts ==
  /\ Here.heap = heap /\ Here.vars = vars /\ Here.stack = stack /\ Here.promise = promise
  /\ Here.end = "well"
  /\ \A v : ValueOf(v) = Holds(Here, v)
BY DEF Here, ValueOf, Holds

LEMMA HeldFacts ==
  ASSUME NEW s, Accounted(s), NEW v \in VisibleIn(CallOf(s.stack))
  PROVE  Holds(s, v) \in Values /\ Usable(s, Holds(s, v))
BY VisibleOwns, OwnedIsUsable DEF Accounted

\* An expression gives a value that can be used; the only lists in memory that one
\* gives are those of variables.
LEMMA ExpressionFacts ==
  ASSUME Accounted(Here), NEW e \in Expressions
  PROVE  /\ Value(e) \in Values /\ Usable(Here, Value(e)) /\ Evaluated(e) = Here
         /\ IsLent(Value(e)) =>
              \E v \in Visible : e = <<"variable", v>> /\ Value(e) = Holds(Here, v)
<1>0. Good(Here, Holdings(Here)) /\ Here \in States
  BY DEF Accounted, Good
<1>1. \A v \in Visible : Holds(Here, v) \in Values /\ Usable(Here, Holds(Here, v))
  BY HeldFacts, HereFacts DEF Visible
<1>2. CASE \E v \in Visible : e = <<"variable", v>>
  BY <1>1, <1>2, HereFacts DEF Value, Evaluated
<1>3. CASE e = <<"number">>
  BY <1>3, PlainFacts DEF Value, Evaluated, Values, Usable
<1>4. CASE e \in Copies
  <2>1. PICK v \in Visible : e = <<"copy", v>> /\ IsList(ValueOf(v))
    BY <1>4 DEF Copies
  <2> DEFINE w == ValueOf(v)
  <2>2. w \in Values /\ Usable(Here, w)
    BY <1>1, HereFacts
  <2>3. Value(e) = OwnCopy(Here, w) /\ Evaluated(e) = Reads(Here, w)
    BY <2>1 DEF Value, Evaluated
  <2> HIDE DEF w
  <2>4. Reads(Here, w) = Here
    BY <1>0, <2>2, UsableIsValid DEF Reads
  <2> QED
    BY <1>0, <2>2, <2>3, <2>4, OwnCopyFacts
<1>5. CASE e \in NewLists
  <2>1. PICK n \in Literals : e = <<"literal", n>>
    BY <1>5 DEF NewLists
  <2>2. n \in Nat
    BY LendingAssumption
  <2>3. Value(e) = Own(n) /\ Evaluated(e) = Here
    BY <2>1 DEF Value, Evaluated
  <2> QED
    BY <2>2, <2>3, OwnFacts DEF Values, Lists, Usable
<1> QED
  BY <1>2, <1>3, <1>4, <1>5 DEF Expressions

LEMMA LapseFacts ==
  ASSUME NEW s, NEW v, NEW e
  PROVE  /\ AssignmentLapses(s, v, e) \subseteq {"itself", "held"}
         /\ AssignmentLapses(s, v, e) = {} /\ IsLent(Holds(s, v)) =>
              e # <<"variable", v>> /\ Holds(s, v)[2] \notin Lent(s.stack)
<1>1. AssignmentLapses(s, v, e) \subseteq {"itself", "held"}
  BY DEF AssignmentLapses
<1>2. ASSUME AssignmentLapses(s, v, e) = {}, IsLent(Holds(s, v)), e = <<"variable", v>>
      PROVE  FALSE
  <2>1. "itself" \in AssignmentLapses(s, v, e)
    BY <1>2 DEF AssignmentLapses
  <2> QED
    BY <1>2, <2>1
<1>3. ASSUME AssignmentLapses(s, v, e) = {}, IsLent(Holds(s, v)), Holds(s, v)[2] \in Lent(s.stack)
      PROVE  FALSE
  <2>1. "held" \in AssignmentLapses(s, v, e)
    BY <1>3 DEF AssignmentLapses
  <2> QED
    BY <1>3, <2>1
<1> QED
  BY <1>1, <1>2, <1>3

\* What is not lent can be assigned where it breaks no rule.
LEMMA AssignGood ==
  ASSUME NEW s, Accounted(s), NEW v \in VisibleIn(CallOf(s.stack)), NEW value \in Values,
         Usable(s, value), ~IsLent(value), NEW e, AssignmentLapses(s, v, e) = {}
  PROVE  LET t == SetVariable(s, v, value) IN
         t.end # "full" => Accounted(t) /\ Len(t.stack) = Len(s.stack)
BY LapseFacts, SetVariableGood

LEMMA ConsumeGood ==
  ASSUME NEW s, Accounted(s), NEW value \in Values, Usable(s, value), ~IsLent(value),
         NEW use \in AllUses, UseLapses(s, use) = {},
         \A v \in Variables : use = <<"assign", v>> => v \in VisibleIn(CallOf(s.stack)),
         \A b \in Blocks : use = <<"append", b>> => s.heap[b] # Freed
  PROVE  LET t == Consume(s, value, use) IN
         t.end # "full" => Accounted(t)
<1>1. CASE use = <<"drop">>
  BY <1>1 DEF Consume
<1>2. CASE \E v \in Variables : use = <<"assign", v>>
  <2>1. PICK v \in Variables : use = <<"assign", v>>
    BY <1>2
  <2>2. Consume(s, value, use) = SetVariable(s, v, value)
    BY <2>1 DEF Consume
  <2>3. AssignmentLapses(s, v, <<"result">>) = {}
    BY <2>1 DEF UseLapses
  <2>4. v \in VisibleIn(CallOf(s.stack))
    BY <2>1
  <2> QED
    BY <2>2, <2>3, <2>4, AssignGood
<1>3. CASE \E b \in Blocks : use = <<"append", b>>
  <2>1. PICK b \in Blocks : use = <<"append", b>>
    BY <1>3
  <2>2. Consume(s, value, use) = AppendTo(s, b, 1)
    BY <2>1 DEF Consume
  <2>3. s.heap[b] # Freed
    BY <2>1
  <2> QED
    BY <2>2, <2>3, AppendToGood
<1> QED
  BY <1>1, <1>2, <1>3 DEF AllUses

-----------------------------------------------------------------------------
(* Statements. *)

Rules == {"itself", "held", "argument", "result"}

\* A statement that breaks no rule need only lead to a state as the invariant has it.
LEMMA GoesGood ==
  ASSUME IInv, Sound, NEW s, NEW lapses \in SUBSET Rules, Goes(s, lapses),
         lapses = {} /\ s.end # "full" => Accounted(s)
  PROVE  IInv'
<1>1. s.end # "full"
  BY DEF Goes
<1>2. CASE lapses = {}
  <2>1. Accounted(s) /\ s.end = "well" /\ s \in States
    BY <1>1, <1>2 DEF Accounted, Good
  <2>2. /\ heap' = s.heap /\ vars' = s.vars /\ stack' = s.stack /\ promise' = s.promise
        /\ broken' = broken /\ lapse' = "none"
    BY <1>2, <2>1 DEF Goes
  <2>3. Here' = s
    BY <2>1, <2>2 DEF Here, States
  <2>4. ~broken'
    BY <2>2 DEF Sound
  <2>5. Accounted(Here')
    BY <2>1, <2>3
  <2>6. Typed'
    BY <2>2 DEF Typed, IInv
  <2> QED
    BY <2>4, <2>5, <2>6 DEF IInv
<1>3. CASE lapses # {}
  <2>1. /\ heap' = heap /\ vars' = vars /\ stack' = stack /\ promise' = promise
        /\ broken' = (s.end = "freed") /\ lapse' \in lapses
    BY <1>3 DEF Goes
  <2>2. Here' = Here
    BY <2>1 DEF Here
  <2>3. Accounted(Here')
    BY <2>2 DEF IInv
  <2>4. lapse' \in Rules
    BY <2>1
  <2>5. Typed' /\ lapse' # "none"
    BY <2>1, <2>4, Zenon DEF Typed, Rules
  <2> QED
    BY <2>3, <2>5 DEF IInv
<1> QED
  BY <1>2, <1>3

LEMMA RuleFacts ==
  /\ {} \in SUBSET Rules
  /\ \A s, v, e : AssignmentLapses(s, v, e) \in SUBSET Rules
  /\ \A s, use : UseLapses(s, use) \in SUBSET Rules
  /\ \A e : ArgumentLapses(e) \in SUBSET Rules
  /\ \A e : ArgumentLapses(e) = {} <=> ~IsBorrowed(Value(e))
<1>1. \A s, v, e : AssignmentLapses(s, v, e) \in SUBSET Rules
  BY LapseFacts DEF Rules
<1> QED
  BY <1>1 DEF Rules, UseLapses, ArgumentLapses

\* Where the state of IInv is, and what is in the way of the innermost frame.
LEMMA HereGood ==
  ASSUME IInv
  PROVE  /\ Accounted(Here) /\ Good(Here, Holdings(Here)) /\ Here \in States
         /\ stack \in Seq(Frames) /\ Nested(stack)
         /\ Len(stack) \in Nat \ {0} /\ DOMAIN stack = 1..Len(stack)
         /\ Visible = VisibleIn(CallOf(Here.stack)) /\ Visible \subseteq Variables
         /\ CallOf(stack) \in 1..Len(stack)
<1>1. Accounted(Here) /\ Good(Here, Holdings(Here)) /\ Here \in States
  BY DEF IInv, Accounted, Good
<1>2. stack \in Seq(Frames) /\ Nested(stack)
  BY <1>1, HereFacts DEF Good, States
<1>3. Len(stack) \in Nat \ {0} /\ DOMAIN stack = 1..Len(stack)
  BY <1>2, LenProperties, EmptySeq DEF Nested
<1>4. Visible = VisibleIn(CallOf(Here.stack)) /\ Visible \subseteq Variables
  BY HereFacts DEF Visible, VisibleIn, Variables
<1>5. CallOf(stack) \in 1..Len(stack)
  BY <1>2, <1>3, CallAround DEF CallOf
<1> QED
  BY <1>1, <1>2, <1>3, <1>4, <1>5

LEMMA AssignStep ==
  ASSUME IInv, Sound, NEW e \in Expressions, NEW v \in Visible, Assign(v, e)
  PROVE  IInv'
<1> DEFINE t == SetVariable(Evaluated(e), v, Value(e))
           lapses == AssignmentLapses(Here, v, e)
<1>1. Goes(t, lapses) /\ lapses \in SUBSET Rules
  BY RuleFacts DEF Assign
<1>2. /\ Value(e) \in Values /\ Usable(Here, Value(e)) /\ Evaluated(e) = Here
      /\ IsLent(Value(e)) =>
           \E w \in Visible : e = <<"variable", w>> /\ Value(e) = Holds(Here, w)
  BY HereGood, ExpressionFacts
<1>3. ASSUME lapses = {}, t.end # "full" PROVE Accounted(t)
  <2>1. IsLent(Holds(Here, v)) => /\ e # <<"variable", v>>
                                  /\ Holds(Here, v)[2] \notin Lent(Here.stack)
    BY <1>3, LapseFacts
  <2>2. ASSUME IsLent(Holds(Here, v)), Holds(Here, v) = Value(e) PROVE FALSE
    <3>1. PICK w \in Visible : e = <<"variable", w>> /\ Value(e) = Holds(Here, w)
      BY <1>2, <2>2
    <3>2. w # v
      BY <2>1, <2>2, <3>1
    <3> DEFINE f == Holdings(Here)
    <3>3. /\ KeyOf(Here, v) \in DOMAIN f /\ f[KeyOf(Here, v)] = Holds(Here, v)
          /\ KeyOf(Here, w) \in DOMAIN f /\ f[KeyOf(Here, w)] = Holds(Here, w)
      BY HereGood, VisibleOwns
    <3>4. \A o1, o2 \in DOMAIN f : IsLent(f[o1]) /\ f[o1] = f[o2] => o1 = o2
      BY HereGood DEF Good, Exact
    <3> HIDE DEF f
    <3>5. KeyOf(Here, v) = KeyOf(Here, w)
      BY <2>2, <3>1, <3>3, <3>4
    <3> QED
      BY <3>2, <3>5, KeyFacts DEF KeyOf
  <2>3. v \in VisibleIn(CallOf(Here.stack))
    BY HereGood
  <2>4. t = SetVariable(Here, v, Value(e))
    BY <1>2
  <2> QED
    BY <1>2, <1>3, <2>1, <2>2, <2>3, <2>4, HereGood, SetVariableGood
<1> QED
  BY <1>1, <1>3, GoesGood

\* A variable that holds a list in memory: who owns it.
LEMMA LentVariable ==
  ASSUME IInv, NEW v \in Visible, IsLent(ValueOf(v))
  PROVE  /\ ValueOf(v)[2] \in Blocks /\ ValueOf(v) = List(ValueOf(v)[2])
         /\ heap[ValueOf(v)[2]] # Freed /\ heap[ValueOf(v)[2]] \in Nat
         /\ \E o \in DOMAIN Holdings(Here) :
              Holdings(Here)[o] = ValueOf(v) /\ Lends(o, Len(stack) + 1)
<1>1. Accounted(Here) /\ v \in VisibleIn(CallOf(Here.stack)) /\ ValueOf(v) = Holds(Here, v)
  BY HereGood, HereFacts
<1>2. ValueOf(v) \in Values /\ Usable(Here, ValueOf(v))
  BY <1>1, HeldFacts
<1>3. ValueOf(v)[2] \in Blocks /\ ValueOf(v) = List(ValueOf(v)[2]) /\ heap[ValueOf(v)[2]] # Freed
  BY <1>2, HereFacts, ValueKinds DEF Usable
<1>4. heap \in Heaps
  BY HereGood, HereFacts DEF States
<1>5. KeyOf(Here, v) \in DOMAIN Holdings(Here) /\ Holdings(Here)[KeyOf(Here, v)] = ValueOf(v)
  BY <1>1, VisibleOwns
<1>6. Lends(KeyOf(Here, v), Len(stack) + 1)
  BY HereGood, HereFacts, KeyFacts DEF KeyOf
<1> QED
  BY <1>3, <1>4, <1>5, <1>6 DEF Heaps

LEMMA UsesFacts ==
  ASSUME IInv, NEW use \in Uses
  PROVE  UseOk(Here, use) /\ \A b \in Blocks : use = <<"append", b>> => heap[b] # Freed
<1>1. use \in AllUses
  BY HereGood, LentVariable DEF Uses, AllUses
<1>2. \A v \in Variables : use = <<"assign", v>> => v \in VisibleIn(CallOf(Here.stack))
  BY HereGood DEF Uses
<1>3. ASSUME NEW b \in Blocks, use = <<"append", b>>
      PROVE  /\ heap[b] # Freed
             /\ \E o \in DOMAIN Holdings(Here) :
                  Holdings(Here)[o] = List(b) /\ Lends(o, Len(Here.stack) + 1)
  <2>1. PICK v \in Visible : IsLent(ValueOf(v)) /\ b = ValueOf(v)[2]
    BY <1>3 DEF Uses
  <2> QED
    BY <2>1, LentVariable, HereFacts
<1> QED
  BY <1>1, <1>2, <1>3 DEF UseOk

LEMMA BeginCallStep ==
  ASSUME IInv, Sound, NEW e \in Expressions, NEW use \in Uses, BeginCall(e, use)
  PROVE  IInv'
<1> DEFINE t == Push(Clone(Here, Value(e)), Call(NoTask, Copy(Here, Value(e)), use))
<1>1. Value(e) \in Values /\ Usable(Here, Value(e)) /\ Evaluated(e) = Here
  BY HereGood, ExpressionFacts
<1>2. Goes(t, {})
  BY <1>1 DEF BeginCall
<1>3. t.end # "full" => Accounted(t)
  BY <1>1, HereGood, UsesFacts, BeginCallGood
<1> HIDE DEF t
<1> QED
  BY <1>2, <1>3, RuleFacts, GoesGood

LEMMA ReleaseNothing ==
  ASSUME NEW s, NEW v, ~IsLent(v), ~IsPromise(v)
  PROVE  Release(s, v) = s
<1>1. Release(s, v) = FreeList(s, v)
  BY Zenon DEF Release
<1>2. FreeList(s, v) = s
  BY Zenon DEF FreeList
<1> QED
  BY <1>1, <1>2

LEMMA CallNativeStep ==
  ASSUME IInv, Sound, NEW e \in Expressions, CallNative(e)
  PROVE  IInv'
<1> DEFINE t == Release(Evaluated(e), Value(e))
<1>1. Value(e) \in Values /\ Usable(Here, Value(e)) /\ Evaluated(e) = Here
  BY HereGood, ExpressionFacts
<1>2. Goes(t, ArgumentLapses(e))
  BY DEF CallNative
<1>3. ASSUME ArgumentLapses(e) = {} PROVE Accounted(t)
  <2>1. ~IsLent(Value(e)) /\ ~IsPromise(Value(e))
    BY <1>3, RuleFacts DEF IsBorrowed
  <2>2. t = Here
    BY <1>1, <2>1, ReleaseNothing
  <2> QED
    BY <2>2, HereGood
<1> HIDE DEF t
<1> QED
  BY <1>2, <1>3, RuleFacts, GoesGood

LEMMA ListAppendStep ==
  ASSUME IInv, Sound, NEW e \in Expressions, NEW v \in Visible, ListAppend(v, e)
  PROVE  IInv'
<1> DEFINE same == Value(e) = ValueOf(v)
           t == IF same THEN Ends(Here, "freed") ELSE AppendTo(Evaluated(e), ValueOf(v)[2], 1)
           lapses == IF same THEN {"itself"} ELSE {}
<1>1. IsLent(ValueOf(v)) /\ Goes(t, lapses) /\ lapses \in SUBSET Rules
  BY DEF ListAppend, Rules
<1>2. ASSUME lapses = {} PROVE Accounted(t)
  <2>1. ~same
    BY <1>2
  <2>2. t = AppendTo(Here, ValueOf(v)[2], 1)
    BY <2>1, HereGood, ExpressionFacts
  <2>3. ValueOf(v)[2] \in Blocks /\ Here.heap[ValueOf(v)[2]] # Freed
    BY <1>1, LentVariable, HereFacts
  <2> QED
    BY <2>2, <2>3, HereGood, AppendToGood
<1> HIDE DEF t, lapses
<1> QED
  BY <1>1, <1>2, GoesGood

LEMMA ListExtendStep ==
  ASSUME IInv, Sound, NEW e \in Expressions, NEW v \in Visible, ListExtend(v, e)
  PROVE  IInv'
<1> DEFINE same == Value(e) = ValueOf(v)
           b == ValueOf(v)[2]
           t == ExtendBy(Evaluated(e), b, Value(e))
           lapses == IF same THEN {"itself"} ELSE {}
<1>1. IsLent(ValueOf(v)) /\ IsList(Value(e)) /\ Goes(t, lapses) /\ lapses \in SUBSET Rules
  BY DEF ListExtend, Rules
<1>2. Value(e) \in Values /\ Usable(Here, Value(e)) /\ Evaluated(e) = Here
  BY HereGood, ExpressionFacts
<1>3. b \in Blocks /\ Here.heap[b] # Freed /\ ValueOf(v) = List(b)
  BY <1>1, LentVariable, HereFacts
<1>4. ASSUME lapses = {} PROVE Accounted(t)
  <2>1. Value(e) # List(b)
    BY <1>3, <1>4
  <2>2. Valid(Here, Value(e))
    BY <1>2, HereGood, UsableIsValid
  <2>3. t = AppendTo(Here, b, Length(Here, Value(e)))
    BY <1>2, <2>1, <2>2 DEF ExtendBy
  <2>4. Length(Here, Value(e)) \in Nat
    BY <1>1, <1>2, HereGood, LengthFacts
  <2> QED
    BY <1>3, <2>3, <2>4, HereGood, AppendToGood
<1> HIDE DEF t, lapses
<1> QED
  BY <1>1, <1>4, GoesGood

LEMMA ListRemoveStep ==
  ASSUME IInv, Sound, NEW v \in Visible, NEW i \in 1..MaxLength, ListRemove(v, i)
  PROVE  IInv'
<1> DEFINE b == ValueOf(v)[2]
           t == Removes(Here, b, i)
<1>1. IsLent(ValueOf(v)) /\ i <= heap[b] /\ Goes(t, {})
  BY HereFacts DEF ListRemove, Removes
<1>2. b \in Blocks /\ Here.heap[b] # Freed /\ Here.heap[b] \in Nat
  BY <1>1, LentVariable, HereFacts
<1>3. i \in 1..Here.heap[b]
  BY <1>1, <1>2, HereFacts
<1>4. Accounted(t)
  BY <1>2, <1>3, HereGood, RemovesGood
<1> HIDE DEF t
<1> QED
  BY <1>1, <1>4, RuleFacts, GoesGood

-----------------------------------------------------------------------------
(* Promises. *)

LEMMA MadeGood ==
  ASSUME IInv, NEW e \in Expressions, NEW p \in Promises, promise[p].state = "none",
         NEW state \in Life \ {"none"}, ~IsBorrowed(Value(e))
  PROVE  LET t == Made(e, p, state) IN
         /\ ~Stuck(t) => /\ Accounted(t) /\ t.stack = stack /\ t.vars = vars
                         /\ t.promise[p].state # "none"
                         /\ \A o \in DOMAIN Holdings(Here) : o # OfPromise(p) =>
                              o \in DOMAIN Holdings(t) /\ Holdings(t)[o] = Holdings(Here)[o]
<1> DEFINE f == Holdings(Here)
           o == OfPromise(p)
           v == Value(e)
           d == Drop(f, o)
           c == Copy(Here, v)
           new == Clone(Here, v)
           g == With(d, o, c)
           m == [new EXCEPT !.promise[p] = [state |-> state, value |-> c, refs |-> 1]]
           t == Made(e, p, state)
<1>1. /\ Good(Here, f) /\ Here.promise = promise /\ Here.stack = stack /\ Here.vars = vars
      /\ Here.end = "well" /\ v \in Values /\ Usable(Here, v) /\ Evaluated(e) = Here
  BY HereGood, HereFacts, ExpressionFacts
<1>2. ~IsLent(v) /\ ~IsPromise(v)
  BY DEF IsBorrowed
<1>3. o \in DOMAIN f /\ ~IsLent(f[o])
  BY <1>1, HoldingsFacts, PlainFacts DEF Good, Idle
<1>4. Good(Here, d)
  <2> HIDE DEF f, o
  <2> QED
    BY <1>1, <1>3, Forget
<1>5. o \notin DOMAIN d
  BY DEF Drop
<1>6. /\ new \in States /\ new.vars = vars /\ new.stack = stack /\ c \in {Plain} \cup Lists
      /\ new.end # "full" =>
           /\ Good(new, g)
           /\ \A q \in Promises : /\ new.promise[q].state = promise[q].state
                                  /\ new.promise[q].value = promise[q].value
  <2> HIDE DEF d, o, v
  <2> QED
    BY <1>1, <1>2, <1>4, <1>5, TakeOn
<1> HIDE DEF c, new
<1>7. /\ m \in States /\ m.end = new.end /\ m.heap = new.heap /\ m.vars = vars /\ m.stack = stack
      /\ m.promise[p].state = state /\ m.promise[p].value = c /\ m.promise[p].refs = 1
      /\ \A q \in Promises : q # p => m.promise[q] = new.promise[q]
  BY <1>6, RecordChange
<1>8. t = m
  <2>1. t = Release(m, v)
    BY <1>1 DEF Made, c, new
  <2> HIDE DEF m, v, t
  <2> QED
    BY <1>2, <2>1, ReleaseNothing
<1> HIDE DEF m, t
<1> SUFFICES ASSUME ~Stuck(t)
             PROVE  /\ Accounted(t) /\ t.stack = stack /\ t.vars = vars
                    /\ t.promise[p].state # "none"
                    /\ \A x \in DOMAIN f : x # o => x \in DOMAIN Holdings(t) /\ Holdings(t)[x] = f[x]
  BY DEF t
<1>9. new.end # "full"
  BY <1>7, <1>8 DEF Stuck, States
<1>10. Counted(m.promise, g)
  <2> SUFFICES ASSUME NEW q \in Promises
               PROVE  IF m.promise[q].state = "none" THEN \A x \in DOMAIN g : g[x] # Promise(q)
                      ELSE m.promise[q].refs > Cardinality(Holding(g, q))
    BY DEF Counted, Holding
  <2>1. Counted(new.promise, g)
    BY <1>6, <1>9 DEF Good
  <2>2. CASE q = p
    <3>1. \A x \in DOMAIN g : g[x] # Promise(p)
      BY <1>6, <1>9, <2>1 DEF Counted
    <3>2. Holding(g, p) = {}
      BY <3>1 DEF Holding
    <3>3. Cardinality(Holding(g, p)) = 0
      BY <3>2, FS_EmptySet
    <3> QED
      BY <1>7, <2>2, <3>3
  <2>3. CASE q # p
    BY <1>7, <2>1, <2>3 DEF Counted, Holding
  <2> QED
    BY <2>2, <2>3
<1>11. Good(m, g)
  BY <1>6, <1>7, <1>9, <1>10 DEF Good, Idle
<1>12. Holdings(m) = g
  <2>1. DOMAIN g = DOMAIN f /\ g = [x \in DOMAIN g |-> g[x]]
        /\ \A x \in DOMAIN f : g[x] = IF x = o THEN c ELSE f[x]
    BY <1>3 DEF With, Drop
  <2>2. CallsOf(m) = CallsOf(Here) /\ AwaitsOf(m) = AwaitsOf(Here)
    BY <1>1, <1>7 DEF CallsOf, AwaitsOf
  <2> HIDE DEF g
  <2>3. \A x : x \in DOMAIN g <=> \/ \E w \in Globals : x = OfVariable(w)
                                  \/ \E k \in CallsOf(m) : x = OfParam(k)
                                  \/ \E q \in Promises : x = OfPromise(q)
                                  \/ \E k \in AwaitsOf(m) : x = OfAwait(k)
    BY <2>1, <2>2, OwnerKinds
  <2>4. \A w \in Globals : g[OfVariable(w)] = m.vars[w]
    BY <1>1, <1>7, <2>1, HoldingsFacts, KeyFacts
  <2>5. ASSUME NEW k \in CallsOf(m) PROVE g[OfParam(k)] = m.stack[k].param
    <3>1. OfParam(k) \in DOMAIN f /\ f[OfParam(k)] = stack[k].param
      BY <1>1, <2>2, HoldingsFacts
    <3>2. OfParam(k) # o
      BY KeyFacts
    <3> QED
      BY <1>7, <2>1, <3>1, <3>2
  <2>6. ASSUME NEW q \in Promises PROVE g[OfPromise(q)] = m.promise[q].value
    <3>1. OfPromise(q) \in DOMAIN f /\ f[OfPromise(q)] = promise[q].value
      BY <1>1, HoldingsFacts
    <3>2. OfPromise(q) = o <=> q = p
      BY KeyFacts
    <3> QED
      BY <1>6, <1>7, <1>9, <2>1, <3>1, <3>2
  <2>7. ASSUME NEW k \in AwaitsOf(m) PROVE g[OfAwait(k)] = Promise(m.stack[k].task)
    <3>1. OfAwait(k) \in DOMAIN f /\ f[OfAwait(k)] = Promise(stack[k].task)
      BY <1>1, <2>2, HoldingsFacts
    <3>2. OfAwait(k) # o
      BY KeyFacts
    <3> QED
      BY <1>7, <2>1, <3>1, <3>2
  <2> QED
    BY <2>1, <2>3, <2>4, <2>5, <2>6, <2>7, HoldingsAre
<1>13. \A x \in DOMAIN f : x # o => x \in DOMAIN g /\ g[x] = f[x]
  BY DEF With, Drop
<1> QED
  BY <1>7, <1>8, <1>11, <1>12, <1>13 DEF Accounted

LEMMA MakePromiseStep ==
  ASSUME IInv, Sound, NEW e \in Expressions, NEW v \in Visible, NEW p \in Promises,
         NEW state \in Life \ {"none"}, MakePromise(v, e, p, state)
  PROVE  IInv'
<1> DEFINE s == Made(e, p, state)
           t == SetVariable(s, v, Promise(p))
           lapses == ArgumentLapses(e) \cup AssignmentLapses(Here, v, <<"result">>)
<1>1. Goes(t, lapses) /\ promise[p].state = "none" /\ lapses \in SUBSET Rules
  BY RuleFacts DEF MakePromise
<1>2. ASSUME lapses = {}, t.end # "full" PROVE Accounted(t)
  <2>1. ~IsBorrowed(Value(e)) /\ AssignmentLapses(Here, v, <<"result">>) = {}
    BY <1>2, RuleFacts
  <2>2. ~Stuck(s)
    <3>1. Stuck(s) => Stuck(t)
      BY StuckSetVariable
    <3> QED
      BY <1>2, <3>1 DEF Stuck
  <2> HIDE DEF s
  <2>3. /\ Accounted(s) /\ s.stack = stack /\ s.vars = vars /\ s.promise[p].state # "none"
    BY <1>1, <2>1, <2>2, MadeGood DEF s
  <2>4. AssignmentLapses(s, v, <<"result">>) = {}
    BY <2>1, <2>3, HereFacts DEF AssignmentLapses, Holds
  <2>5. Promise(p) \in Values /\ Usable(s, Promise(p)) /\ ~IsLent(Promise(p))
    BY <2>3, PromiseFacts DEF Values, Usable
  <2>6. v \in VisibleIn(CallOf(s.stack))
    BY <2>3, HereGood, HereFacts
  <2> QED
    BY <1>2, <2>3, <2>4, <2>5, <2>6, AssignGood
<1> HIDE DEF t, lapses
<1> QED
  BY <1>1, <1>2, GoesGood

LEMMA AwaitPendingStep ==
  ASSUME IInv, Sound, NEW v \in Visible, NEW use \in Uses, AwaitPending(v, use)
  PROVE  IInv'
<1> DEFINE p == ValueOf(v)[2]
           t == RunTask(Here, p, use)
<1>1. IsPromise(ValueOf(v)) /\ promise[p].state = "pending" /\ Goes(t, {})
  BY DEF AwaitPending
<1>2. p \in Promises
  BY <1>1, HereGood, HereFacts, HeldFacts, ValueKinds
<1>3. t.end # "full" => Accounted(t)
  BY <1>1, <1>2, HereGood, HereFacts, UsesFacts, RunTaskGood
<1> HIDE DEF t
<1> QED
  BY <1>1, <1>3, RuleFacts, GoesGood

LEMMA AwaitCallStep ==
  ASSUME IInv, Sound, NEW e \in Expressions, NEW p \in Promises, NEW use \in Uses,
         AwaitCall(e, p, use)
  PROVE  IInv'
<1> DEFINE s == Made(e, p, "pending")
           t == RunTask(s, p, use)
<1>1. promise[p].state = "none" /\ Goes(t, ArgumentLapses(e))
  BY DEF AwaitCall
<1>2. ASSUME ArgumentLapses(e) = {}, t.end # "full" PROVE Accounted(t)
  <2>1. ~IsBorrowed(Value(e)) /\ "pending" \in Life \ {"none"}
    BY <1>2, RuleFacts DEF Life
  <2>2. ~Stuck(s)
    <3>1. Stuck(s) => Stuck(t)
      BY StuckRunTask
    <3> QED
      BY <1>2, <3>1 DEF Stuck
  <2> HIDE DEF s
  <2>3. /\ Accounted(s) /\ s.stack = stack /\ s.promise[p].state # "none"
        /\ \A o \in DOMAIN Holdings(Here) : o # OfPromise(p) =>
             o \in DOMAIN Holdings(s) /\ Holdings(s)[o] = Holdings(Here)[o]
    BY <1>1, <2>1, <2>2, MadeGood DEF s
  <2>4. UseOk(s, use)
    <3>1. UseOk(Here, use)
      BY UsesFacts
    <3>2. ASSUME NEW b \in Blocks, use = <<"append", b>>
          PROVE  \E o \in DOMAIN Holdings(s) : Holdings(s)[o] = List(b) /\ Lends(o, Len(s.stack) + 1)
      <4>1. PICK o \in DOMAIN Holdings(Here) :
              Holdings(Here)[o] = List(b) /\ Lends(o, Len(Here.stack) + 1)
        BY <3>1, <3>2 DEF UseOk
      <4>2. o # OfPromise(p)
        BY <4>1, KeyFacts
      <4> QED
        BY <2>3, <4>1, <4>2, HereFacts
    <3> QED
      BY <2>3, <3>1, <3>2, HereFacts DEF UseOk
  <2> QED
    BY <1>2, <2>3, <2>4, RunTaskGood
<1> HIDE DEF t
<1> QED
  BY <1>1, <1>2, RuleFacts, GoesGood

LEMMA AwaitFulfilledStep ==
  ASSUME IInv, Sound, NEW v \in Visible, NEW use \in Uses, AwaitFulfilled(v, use)
  PROVE  IInv'
<1> DEFINE p == ValueOf(v)[2]
           w == promise[p].value
           t == Consume(CloneOwn(Here, w), OwnCopy(Here, w), use)
<1>1. IsPromise(ValueOf(v)) /\ Goes(t, UseLapses(Here, use))
  BY DEF AwaitFulfilled
<1>2. p \in Promises
  BY <1>1, HereGood, HereFacts, HeldFacts, ValueKinds
<1>3. w \in {Plain} \cup Lists /\ w \in Values /\ Usable(Here, w)
  <2>1. OfPromise(p) \in DOMAIN Holdings(Here) /\ Holdings(Here)[OfPromise(p)] = w
    BY <1>2, HoldingsFacts, HereFacts
  <2>2. w \in {Plain} \cup Lists
    BY <1>2, HereGood, HereFacts, PromiseRecords
  <2> QED
    BY <2>1, <2>2, HereGood, OwnedIsUsable DEF Values
<1>4. CloneOwn(Here, w) = Here
  <2> HIDE DEF w
  <2>1. Valid(Here, w)
    BY <1>3, HereGood, UsableIsValid
  <2>2. ~IsPromise(w)
    BY <1>3, PlainFacts, ListFacts, OwnFacts DEF Lists
  <2>3. Reads(Here, w) = Here
    BY <2>1 DEF Reads
  <2>4. ~IsList(w) => Clone(Here, w) = Here
    BY <2>1, <2>2 DEF Clone
  <2> QED
    BY <2>3, <2>4 DEF CloneOwn
<1>5. OwnCopy(Here, w) \in Values /\ Usable(Here, OwnCopy(Here, w)) /\ ~IsLent(OwnCopy(Here, w))
  <2> HIDE DEF w
  <2> QED
    BY <1>3, HereGood, OwnCopyFacts
<1>6. /\ use \in AllUses
      /\ \A x \in Variables : use = <<"assign", x>> => x \in VisibleIn(CallOf(Here.stack))
      /\ \A b \in Blocks : use = <<"append", b>> => Here.heap[b] # Freed
  BY UsesFacts, HereFacts DEF UseOk
<1>7. ASSUME UseLapses(Here, use) = {}, t.end # "full" PROVE Accounted(t)
  <2> HIDE DEF w
  <2> QED
    BY <1>4, <1>5, <1>6, <1>7, HereGood, ConsumeGood
<1> HIDE DEF t
<1> QED
  BY <1>1, <1>7, RuleFacts, GoesGood

-----------------------------------------------------------------------------
(* The ends of calls and tasks. *)

\* What the frame of a call says of the use of its result, when the call ends.
LEMMA UseAtEnd ==
  ASSUME NEW s, Accounted(s), NEW k, k = CallOf(s.stack), k > 1
  PROVE  LET use == s.stack[k].use IN
         /\ use \in AllUses /\ s.stack[k] \in CallFrames
         /\ \A v \in Variables : use = <<"assign", v>> => v \in VisibleIn(CallAt(s.stack, k - 1))
         /\ \A b \in Blocks : use = <<"append", b>> =>
              \E o \in DOMAIN Holdings(s) : Holdings(s)[o] = List(b) /\ Lends(o, k)
<1> DEFINE use == s.stack[k].use
<1>1. Good(s, Holdings(s)) /\ s.stack \in Seq(Frames) /\ Nested(s.stack)
  BY DEF Accounted, Good, States
<1>2. DOMAIN s.stack = 1..Len(s.stack) /\ Len(s.stack) \in Nat \ {0}
  BY <1>1, LenProperties, EmptySeq DEF Nested
<1>3. k \in DOMAIN s.stack /\ s.stack[k].kind = "call" /\ s.stack[k] \in CallFrames
  BY <1>1, <1>2, CallAround DEF CallOf
<1>4. use \in AllUses
  BY <1>3 DEF CallFrames
<1>5. CallNested(s.stack, k)
  BY <1>1, <1>3 DEF Nested
<1>6. ASSUME NEW b \in Blocks, use = <<"append", b>>
      PROVE  \E o \in DOMAIN Holdings(s) : Holdings(s)[o] = List(b) /\ Lends(o, k)
  <2>1. b \in LentTo(s.stack[k])
    BY <1>3, <1>6 DEF LentTo
  <2> QED
    BY <1>1, <1>3, <2>1 DEF Good, Secured
<1> QED
  BY <1>3, <1>4, <1>5, <1>6 DEF CallNested

\* A list of an owner that is still one is in memory.
LEMMA StillThere ==
  ASSUME NEW s, NEW f, Good(s, f), NEW o \in DOMAIN f, NEW b \in Blocks, f[o] = List(b)
  PROVE  s.heap[b] # Freed
BY ListFacts DEF Good, Exact

LEMMA CloneOwnGood ==
  ASSUME NEW s, Accounted(s), NEW v \in Values, Usable(s, v)
  PROVE  LET t == CloneOwn(s, v) IN
         /\ Accounted(t) /\ t.vars = s.vars /\ t.stack = s.stack /\ Holdings(t) = Holdings(s)
         /\ \A p \in Promises : /\ t.promise[p].state = s.promise[p].state
                                /\ t.promise[p].value = s.promise[p].value
<1> DEFINE t == CloneOwn(s, v)
<1>1. Valid(s, v) /\ Good(s, Holdings(s))
  BY UsableIsValid DEF Accounted
<1>2. CASE IsPromise(v)
  <2>1. v[2] \in Promises /\ ~IsList(v)
    BY <1>2, ValueKinds, PromiseFacts
  <2>2. t = OneMore(s, v[2])
    BY <1>1, <1>2, <2>1, Zenon DEF CloneOwn, Clone
  <2>3. /\ Good(OneMore(s, v[2]), Holdings(s))
        /\ OneMore(s, v[2]).vars = s.vars /\ OneMore(s, v[2]).stack = s.stack
        /\ \A p \in Promises : /\ OneMore(s, v[2]).promise[p].state = s.promise[p].state
                               /\ OneMore(s, v[2]).promise[p].value = s.promise[p].value
    BY <1>1, <2>1, MoreRefs
  <2> HIDE DEF t
  <2>4. /\ Good(t, Holdings(s)) /\ t.vars = s.vars /\ t.stack = s.stack
        /\ \A p \in Promises : /\ t.promise[p].state = s.promise[p].state
                               /\ t.promise[p].value = s.promise[p].value
    BY <2>2, <2>3
  <2>5. Holdings(t) = Holdings(s)
    <3>1. CallsOf(t) = CallsOf(s)
      BY <2>4 DEF CallsOf
    <3> QED
      BY <2>4, <3>1, SameHoldings
  <2> QED
    BY <2>4, <2>5 DEF Accounted, t
<1>3. CASE ~IsPromise(v)
  <2>1. Reads(s, v) = s
    BY <1>1 DEF Reads
  <2>2. ~IsList(v) => Clone(s, v) = s
    BY <1>1, <1>3, Zenon DEF Clone
  <2>3. t = s
    BY <2>1, <2>2, Zenon DEF CloneOwn
  <2> QED
    BY <2>3
<1> QED
  BY <1>2, <1>3

\* Who holds something when a call has left: those that did before it, without
\* its parameter and its await.
LEMMA LeftHoldings ==
  ASSUME NEW s, NEW t, NEW k \in CallsOf(s), CallsOf(t) = CallsOf(s) \ {k},
         \A j \in CallsOf(t) : t.stack[j] = s.stack[j], t.vars = s.vars
  PROVE  LET f == Holdings(s)
             g == Holdings(t) IN
         /\ \A x : x \in DOMAIN g <=> x \in DOMAIN f \ {OfParam(k), OfAwait(k)}
         /\ \A x \in DOMAIN g : (\A p \in Promises : x # OfPromise(p)) => g[x] = f[x]
<1> DEFINE f == Holdings(s)
           g == Holdings(t)
<1>1. \A j : j \in AwaitsOf(t) <=> j \in AwaitsOf(s) /\ j # k
  BY DEF AwaitsOf
<1>2. ASSUME NEW x PROVE x \in DOMAIN g <=> x \in DOMAIN f \ {OfParam(k), OfAwait(k)}
  <2>1. \/ \E v \in Globals : x = OfVariable(v)
        \/ \E j \in CallsOf(s) : x = OfParam(j)
        \/ \E p \in Promises : x = OfPromise(p)
        \/ \E j \in AwaitsOf(s) : x = OfAwait(j)
        <=> x \in DOMAIN f
    BY OwnerKinds
  <2>2. \/ \E v \in Globals : x = OfVariable(v)
        \/ \E j \in CallsOf(t) : x = OfParam(j)
        \/ \E p \in Promises : x = OfPromise(p)
        \/ \E j \in AwaitsOf(t) : x = OfAwait(j)
        <=> x \in DOMAIN g
    BY OwnerKinds
  <2> HIDE DEF f, g
  <2>3. CASE \E v \in Globals : x = OfVariable(v)
    BY <2>1, <2>2, <2>3, KeyFacts
  <2>4. CASE \E p \in Promises : x = OfPromise(p)
    BY <2>1, <2>2, <2>4, KeyFacts
  <2>5. CASE \E j : x = OfParam(j)
    BY <2>1, <2>2, <2>5, KeyFacts
  <2>6. CASE \E j : x = OfAwait(j)
    BY <1>1, <2>1, <2>2, <2>6, KeyFacts
  <2> QED
    BY <2>1, <2>2, <2>3, <2>4, <2>5, <2>6
<1>3. ASSUME NEW x \in DOMAIN g, \A p \in Promises : x # OfPromise(p)
      PROVE  g[x] = f[x]
  <2>1. CASE \E v \in Globals : x = OfVariable(v)
    BY <2>1, HoldingsFacts
  <2>2. CASE \E j \in CallsOf(t) : x = OfParam(j)
    <3>1. PICK j \in CallsOf(t) : x = OfParam(j)
      BY <2>2
    <3>2. g[x] = t.stack[j].param
      BY <3>1, HoldingsFacts
    <3>3. j \in CallsOf(s)
      BY <3>1
    <3>4. f[x] = s.stack[j].param
      BY <3>1, <3>3, HoldingsFacts
    <3> QED
      BY <3>1, <3>2, <3>4
  <2>3. CASE \E j \in AwaitsOf(t) : x = OfAwait(j)
    <3>1. PICK j \in AwaitsOf(t) : x = OfAwait(j)
      BY <2>3
    <3>2. g[x] = Promise(t.stack[j].task)
      BY <3>1, HoldingsFacts
    <3>3. j \in AwaitsOf(s) /\ j \in CallsOf(t)
      BY <1>1, <3>1 DEF AwaitsOf
    <3>4. f[x] = Promise(s.stack[j].task)
      BY <3>1, <3>3, HoldingsFacts
    <3> QED
      BY <3>1, <3>2, <3>3, <3>4
  <2> QED
    BY <1>3, <2>1, <2>2, <2>3, OwnerKinds
<1> QED
  BY <1>2, <1>3

LEMMA ReturnStep ==
  ASSUME IInv, Sound, NEW e \in Expressions, Return(e)
  PROVE  IInv'
<1> DEFINE k == CallOf(stack)
           call == stack[k]
           v == Value(e)
           own == OwnCopy(Here, v)
           copied == CloneOwn(Here, v)
           after == Release(PopTo(copied, k - 1), call.param)
           t == Consume(after, own, call.use)
<1>1. v \in Values /\ Usable(Here, v) /\ Evaluated(e) = Here
  BY HereGood, ExpressionFacts
<1>2. k > 1 /\ call.task = NoTask /\ Goes(t, UseLapses(after, call.use))
  BY <1>1 DEF Return
<1>3. /\ Accounted(copied) /\ copied.vars = vars /\ copied.stack = stack
      /\ Holdings(copied) = Holdings(Here)
      /\ \A p \in Promises : /\ copied.promise[p].state = promise[p].state
                             /\ copied.promise[p].value = promise[p].value
  <2> HIDE DEF v
  <2> QED
    BY <1>1, HereGood, HereFacts, CloneOwnGood
<1>4. own \in Values /\ Usable(Here, own) /\ ~IsLent(own)
  <2> HIDE DEF v
  <2> QED
    BY <1>1, HereGood, OwnCopyFacts
<1> HIDE DEF copied, own
<1> DEFINE f == Holdings(copied)
           d == Drop(f, OfParam(k))
<1>5. /\ Good(after, d) /\ after.vars = vars
      /\ Len(after.stack) = k - 1 /\ \A j \in 1..(k - 1) : after.stack[j] = stack[j]
      /\ \A p \in Promises : /\ after.promise[p].state = promise[p].state
                             /\ after.promise[p].value = promise[p].value
      /\ CallsOf(after) = CallsOf(copied) \ {k} /\ k \in CallsOf(copied)
      /\ CallOf(after.stack) = CallAt(stack, k - 1)
  BY <1>2, <1>3, LeaveGood
<1> HIDE DEF after
<1>6. \A j \in CallsOf(after) : j \in 1..(k - 1) /\ after.stack[j] = stack[j]
  <2>1. DOMAIN after.stack = 1..(k - 1)
    BY <1>5, LenProperties DEF Good, States
  <2> QED
    BY <1>5, <2>1 DEF CallsOf
<1>7. Holdings(after) = d
  <2>1. k \notin AwaitsOf(copied)
    BY <1>2, <1>3 DEF AwaitsOf
  <2>2. \A j \in CallsOf(after) : after.stack[j] = copied.stack[j]
    BY <1>3, <1>6
  <2>3. OfAwait(k) \notin DOMAIN f
    BY <2>1, HoldingsFacts
  <2>4. /\ \A x : x \in DOMAIN Holdings(after) <=> x \in DOMAIN f \ {OfParam(k), OfAwait(k)}
        /\ \A x \in DOMAIN Holdings(after) :
             (\A q \in Promises : x # OfPromise(q)) => Holdings(after)[x] = f[x]
    BY <1>3, <1>5, <2>2, LeftHoldings
  <2>5. \A q \in Promises : Holdings(after)[OfPromise(q)] = f[OfPromise(q)]
    BY <1>3, <1>5, HoldingsFacts
  <2>6. Holdings(after) = [x \in DOMAIN Holdings(after) |-> Holdings(after)[x]]
    BY HoldingsFacts
  <2> HIDE DEF f
  <2>7. DOMAIN Holdings(after) = DOMAIN f \ {OfParam(k)}
    BY <2>3, <2>4
  <2>8. \A x \in DOMAIN Holdings(after) : Holdings(after)[x] = f[x]
    BY <2>4, <2>5
  <2> QED
    BY <2>6, <2>7, <2>8 DEF Drop
<1>8. Accounted(after)
  BY <1>5, <1>7 DEF Accounted
<1>9. /\ call.use \in AllUses
      /\ \A w \in Variables : call.use = <<"assign", w>> => w \in VisibleIn(CallOf(after.stack))
      /\ \A b \in Blocks : call.use = <<"append", b>> => after.heap[b] # Freed
  <2>1. /\ call.use \in AllUses
        /\ \A w \in Variables : call.use = <<"assign", w>> => w \in VisibleIn(CallAt(stack, k - 1))
        /\ \A b \in Blocks : call.use = <<"append", b>> =>
             \E o \in DOMAIN f : f[o] = List(b) /\ Lends(o, k)
    BY <1>2, <1>3, UseAtEnd
  <2>2. ASSUME NEW b \in Blocks, call.use = <<"append", b>> PROVE after.heap[b] # Freed
    <3>1. PICK o \in DOMAIN f : f[o] = List(b) /\ Lends(o, k)
      BY <2>1, <2>2
    <3>2. o # OfParam(k)
      BY <1>5, <1>6, <3>1, HereGood, KeyFacts
    <3>3. o \in DOMAIN d /\ d[o] = List(b)
      BY <3>1, <3>2 DEF Drop
    <3> HIDE DEF d
    <3> QED
      BY <1>5, <3>3, StillThere
  <2> QED
    BY <1>5, <2>1, <2>2
<1>10. Usable(after, own)
  BY <1>4, <1>5, HereFacts DEF Usable
<1>11. ASSUME UseLapses(after, call.use) = {}, t.end # "full" PROVE Accounted(t)
  <2> HIDE DEF call
  <2> QED
    BY <1>4, <1>8, <1>9, <1>10, <1>11, ConsumeGood
<1> HIDE DEF t, call
<1> QED
  BY <1>2, <1>11, RuleFacts, GoesGood

\* What a promise or an await owns is lent to nobody.
LEMMA NotLent ==
  ASSUME NEW s, NEW f, Good(s, f), NEW o \in DOMAIN f, \A k : ~Lends(o, k)
  PROVE  \A b \in Lent(s.stack) : f[o] # List(b)
<1> SUFFICES ASSUME NEW b \in Lent(s.stack), f[o] = List(b) PROVE FALSE
  OBVIOUS
<1>1. PICK k \in DOMAIN s.stack : b \in LentTo(s.stack[k])
  BY DEF Lent
<1>2. PICK x \in DOMAIN f : f[x] = List(b) /\ Lends(x, k)
  BY <1>1 DEF Good, Secured
<1>3. x = o
  BY <1>2, ListFacts DEF Good, Exact
<1> QED
  BY <1>2, <1>3

Released(s, k) == Release(PopTo(s, k - 1), s.stack[k].param)
Finished(s, k, v) ==
  LET p == s.stack[k].task
      released == Released(s, k)
      resolved == Resolved(Clone(released, v), p, Copy(released, v)) IN
  Release(Release(Release(resolved, v), s.promise[p].value), Promise(p))

\* What promise_resolve writes does not count.
LEMMA ResolvedGood ==
  ASSUME NEW s, NEW f, Good(s, f), NEW p \in Promises, NEW o \in DOMAIN f, f[o] = Promise(p),
         NEW value \in {Plain} \cup Lists
  PROVE  LET t == Resolved(s, p, value) IN
         /\ Good(t, f) /\ t.vars = s.vars /\ t.stack = s.stack
         /\ \A q \in Promises : /\ t.promise[q].state = "none" <=> s.promise[q].state = "none"
                                /\ t.promise[q].value = IF q = p THEN value ELSE s.promise[q].value
<1> DEFINE t == Resolved(s, p, value)
<1>1. s \in States /\ s.end = "well" /\ Idle(s.promise)
  BY DEF Good
<1>3. /\ t \in States
      /\ t.end = s.end /\ t.heap = s.heap /\ t.vars = s.vars /\ t.stack = s.stack
      /\ t.promise[p].state = "fulfilled" /\ t.promise[p].value = value
      /\ t.promise[p].refs = s.promise[p].refs
      /\ \A q \in Promises : q # p => t.promise[q] = s.promise[q]
  BY <1>1, StateAndValueChange
<1> HIDE DEF t
<1>4. s.promise[p].state # "none"
  BY DEF Good, Counted
<1>5. \A q \in Promises : /\ t.promise[q].state = "none" <=> s.promise[q].state = "none"
                          /\ t.promise[q].refs = s.promise[q].refs
                          /\ t.promise[q].state = "none" => t.promise[q].value = Plain
                          /\ t.promise[q].value = IF q = p THEN value ELSE s.promise[q].value
  BY <1>1, <1>3, <1>4 DEF Idle
<1>6. SameShape(s.stack, t.stack)
  BY <1>3 DEF SameShape
<1>7. Good(t, f)
  BY <1>1, <1>3, <1>5, <1>6, Stored
<1> QED
  BY <1>3, <1>5, <1>7 DEF t

\* The state after the task of a call has ended, before its result is used.
LEMMA FinishedGood ==
  ASSUME NEW s, Accounted(s), NEW k, k = CallOf(s.stack), k > 1,
         NEW p, p = s.stack[k].task, p # NoTask,
         NEW v \in Values, Usable(s, v), ~IsBorrowed(v)
  PROVE  LET released == Released(s, k)
             after == Finished(s, k, v) IN
         /\ released \in States /\ Usable(released, v)
         /\ ~Stuck(after) =>
              /\ Accounted(after) /\ after.vars = s.vars
              /\ CallOf(after.stack) = CallAt(s.stack, k - 1)
              /\ \A q \in Promises : s.promise[q].state # "none" => after.promise[q].state # "none"
              /\ \A o \in DOMAIN Holdings(s) : Lends(o, k) =>
                   o \in DOMAIN Holdings(after) /\ Holdings(after)[o] = Holdings(s)[o]
<1> DEFINE released == Released(s, k)
           cloned == Clone(released, v)
           c == Copy(released, v)
           resolved == Resolved(cloned, p, c)
           freed == Release(resolved, s.promise[p].value)
           after == Release(freed, Promise(p))
           f == Holdings(s)
           d1 == Drop(f, OfParam(k))
           d2 == With(d1, OfParam(k), c)
           d3 == Drop(d2, OfPromise(p))
           d4 == Drop(d3, OfAwait(k))
           d5 == With(Drop(d4, OfParam(k)), OfPromise(p), c)
<1>0. after = Finished(s, k, v)
  <2>1. ~IsLent(v) /\ ~IsPromise(v)
    BY DEF IsBorrowed
  <2> HIDE DEF resolved
  <2>2. Release(resolved, v) = resolved
    BY <2>1, ReleaseNothing
  <2> QED
    BY <2>2 DEF Finished, resolved
<1>1. /\ Good(released, d1) /\ released.vars = s.vars
      /\ Len(released.stack) = k - 1 /\ \A j \in 1..(k - 1) : released.stack[j] = s.stack[j]
      /\ \A q \in Promises : /\ released.promise[q].state = s.promise[q].state
                             /\ released.promise[q].value = s.promise[q].value
      /\ CallsOf(released) = CallsOf(s) \ {k} /\ k \in CallsOf(s)
      /\ CallOf(released.stack) = CallAt(s.stack, k - 1)
  BY LeaveGood DEF Released
<1> HIDE DEF released
<1>2. released \in States /\ Usable(released, v) /\ ~IsLent(v) /\ ~IsPromise(v)
  BY <1>1 DEF Good, Usable, IsBorrowed
<1>3. p \in Promises /\ k \in AwaitsOf(s) /\ k \in Nat
  <2>1. s.stack \in Seq(Frames) /\ Nested(s.stack)
    BY DEF Accounted, Good, States
  <2>2. DOMAIN s.stack = 1..Len(s.stack) /\ Len(s.stack) \in Nat \ {0}
    BY <2>1, LenProperties, EmptySeq DEF Nested
  <2>3. s.stack[k] \in CallFrames /\ k \in Nat
    BY <2>1, <2>2, CallAround DEF CallOf
  <2> QED
    BY <1>1, <2>3 DEF CallFrames, AwaitsOf
<1>4. /\ OfParam(k) \in DOMAIN f
      /\ OfAwait(k) \in DOMAIN f /\ f[OfAwait(k)] = Promise(p)
      /\ OfPromise(p) \in DOMAIN f /\ f[OfPromise(p)] = s.promise[p].value
  BY <1>1, <1>3, HoldingsFacts
<1>5. OfParam(k) \notin DOMAIN d1
  BY DEF Drop
<1>6. /\ cloned \in States /\ cloned.vars = s.vars /\ cloned.stack = released.stack
      /\ c \in {Plain} \cup Lists
      /\ cloned.end # "full" =>
           /\ Good(cloned, d2)
           /\ \A q \in Promises : /\ cloned.promise[q].state = s.promise[q].state
                                  /\ cloned.promise[q].value = s.promise[q].value
  <2> HIDE DEF d1
  <2> QED
    BY <1>1, <1>2, <1>5, TakeOn
<1> HIDE DEF cloned, c
<1> SUFFICES ASSUME ~Stuck(after)
             PROVE  /\ Accounted(after) /\ after.vars = s.vars
                    /\ CallOf(after.stack) = CallAt(s.stack, k - 1)
                    /\ \A q \in Promises : s.promise[q].state # "none" => after.promise[q].state # "none"
                    /\ \A o \in DOMAIN f : Lends(o, k) =>
                         o \in DOMAIN Holdings(after) /\ Holdings(after)[o] = f[o]
  BY <1>0, <1>2 DEF released
<1>8. cloned.end # "full"
  <2>1. SUFFICES ASSUME cloned.end = "full" PROVE FALSE
    OBVIOUS
  <2>2. cloned.end = "full" /\ "end" \in DOMAIN cloned
    BY <1>6, <2>1 DEF States
  <2>3. Stuck(resolved)
    BY <2>2 DEF Stuck, Resolved
  <2> HIDE DEF resolved
  <2>4. Stuck(freed)
    BY <2>3, StuckRelease
  <2> HIDE DEF freed
  <2>5. Stuck(after)
    BY <2>4, StuckRelease
  <2> QED
    BY <2>5
<1>9. /\ OfAwait(k) \in DOMAIN d2 /\ d2[OfAwait(k)] = Promise(p)
      /\ OfPromise(p) \in DOMAIN d2 /\ d2[OfPromise(p)] = s.promise[p].value
      /\ OfParam(k) \in DOMAIN d2 /\ d2[OfParam(k)] = c
  <2>1. OfParam(k) # OfAwait(k) /\ OfParam(k) # OfPromise(p)
    BY KeyFacts
  <2> HIDE DEF f
  <2> QED
    BY <1>4, <2>1 DEF With, Drop
<1> HIDE DEF d2
<1>10. /\ Good(resolved, d2) /\ resolved.vars = s.vars /\ resolved.stack = released.stack
       /\ \A q \in Promises :
            /\ resolved.promise[q].state = "none" <=> s.promise[q].state = "none"
            /\ resolved.promise[q].value = IF q = p THEN c ELSE s.promise[q].value
  <2>1. /\ Good(resolved, d2) /\ resolved.vars = cloned.vars /\ resolved.stack = cloned.stack
        /\ \A q \in Promises :
             /\ resolved.promise[q].state = "none" <=> cloned.promise[q].state = "none"
             /\ resolved.promise[q].value = IF q = p THEN c ELSE cloned.promise[q].value
    <3>1. Good(cloned, d2) /\ p \in Promises /\ c \in {Plain} \cup Lists
      BY <1>3, <1>6, <1>8
    <3> DEFINE o == OfAwait(k)
    <3>2. o \in DOMAIN d2 /\ d2[o] = Promise(p)
      BY <1>9
    <3> HIDE DEF o
    <3> QED
      BY <3>1, <3>2, ResolvedGood
  <2> HIDE DEF resolved
  <2> QED
    BY <1>6, <1>8, <2>1
<1> HIDE DEF resolved
<1>11. /\ Good(freed, d3) /\ freed.vars = s.vars /\ freed.stack = released.stack
       /\ \A q \in Promises : /\ freed.promise[q].state = resolved.promise[q].state
                              /\ freed.promise[q].value = resolved.promise[q].value
  <2>1. \A j : ~Lends(OfPromise(p), j)
    BY KeyFacts
  <2>2. \A b \in Lent(resolved.stack) : d2[OfPromise(p)] # List(b)
    BY <1>9, <1>10, <2>1, NotLent
  <2>3. freed = Release(resolved, d2[OfPromise(p)])
    BY <1>9
  <2>4. /\ Good(Release(resolved, d2[OfPromise(p)]), d3)
        /\ Release(resolved, d2[OfPromise(p)]).vars = resolved.vars
        /\ Release(resolved, d2[OfPromise(p)]).stack = resolved.stack
        /\ \A q \in Promises :
             /\ Release(resolved, d2[OfPromise(p)]).promise[q].state = resolved.promise[q].state
             /\ Release(resolved, d2[OfPromise(p)]).promise[q].value = resolved.promise[q].value
    <3> DEFINE o == OfPromise(p)
    <3>1. Good(resolved, d2) /\ o \in DOMAIN d2 /\ \A b \in Lent(resolved.stack) : d2[o] # List(b)
      BY <1>9, <1>10, <2>2
    <3> HIDE DEF o
    <3>2. /\ Good(Release(resolved, d2[o]), Drop(d2, o))
          /\ Release(resolved, d2[o]).vars = resolved.vars
          /\ Release(resolved, d2[o]).stack = resolved.stack
          /\ \A q \in Promises :
               /\ Release(resolved, d2[o]).promise[q].state = resolved.promise[q].state
               /\ Release(resolved, d2[o]).promise[q].value = resolved.promise[q].value
      BY <3>1, GiveUp
    <3> QED
      BY <3>2 DEF o
  <2> HIDE DEF freed, d3
  <2> QED
    BY <1>10, <2>3, <2>4
<1> HIDE DEF freed
<1>12. /\ OfAwait(k) \in DOMAIN d3 /\ d3[OfAwait(k)] = Promise(p)
       /\ OfParam(k) \in DOMAIN d3 /\ d3[OfParam(k)] = c
  <2>1. OfPromise(p) # OfAwait(k) /\ OfPromise(p) # OfParam(k)
    BY KeyFacts
  <2> QED
    BY <1>9, <2>1 DEF Drop
<1>13. /\ Good(after, d4) /\ after.vars = s.vars /\ after.stack = released.stack
       /\ \A q \in Promises : /\ after.promise[q].state = resolved.promise[q].state
                              /\ after.promise[q].value = resolved.promise[q].value
  <2> HIDE DEF d3
  <2>1. \A b \in Lent(freed.stack) : d3[OfAwait(k)] # List(b)
    BY <1>12, ListFacts
  <2> QED
    BY <1>11, <1>12, <2>1, GiveUp
<1> HIDE DEF after
<1>14. OfParam(k) \in DOMAIN d4 /\ d4[OfParam(k)] = c /\ OfPromise(p) \notin DOMAIN d4
  <2>1. OfAwait(k) # OfParam(k)
    BY KeyFacts
  <2>2. OfPromise(p) \notin DOMAIN d3
    BY DEF Drop
  <2> HIDE DEF d3
  <2> QED
    BY <1>12, <2>1, <2>2 DEF Drop
<1>15. Good(after, d5)
  <2> HIDE DEF d4
  <2>1. \A b \in Lent(after.stack) : d4[OfParam(k)] # List(b)
    <3> SUFFICES ASSUME NEW b \in Lent(after.stack), d4[OfParam(k)] = List(b) PROVE FALSE
      OBVIOUS
    <3>1. PICK j \in DOMAIN after.stack : b \in LentTo(after.stack[j])
      BY DEF Lent
    <3>2. PICK x \in DOMAIN d4 : d4[x] = List(b) /\ Lends(x, j)
      BY <1>13, <3>1 DEF Good, Secured
    <3>3. x = OfParam(k)
      BY <1>13, <1>14, <3>2, ListFacts DEF Good, Exact
    <3>4. j \in 1..(k - 1) /\ k \in Nat
      BY <1>1, <1>3, <1>13, LenProperties DEF Good, States
    <3>5. k < j
      BY <3>2, <3>3, KeyFacts
    <3> QED
      BY <3>4, <3>5
  <2> QED
    BY <1>13, <1>14, <2>1, Rename
<1>16. /\ \A x : x \in DOMAIN d5 <=> x \in DOMAIN f \ {OfParam(k), OfAwait(k)}
       /\ \A x \in DOMAIN d5 : d5[x] = IF x = OfPromise(p) THEN c ELSE f[x]
       /\ d5 = [x \in DOMAIN d5 |-> d5[x]]
  <2>1. OfPromise(p) # OfAwait(k) /\ OfPromise(p) # OfParam(k) /\ OfParam(k) # OfAwait(k)
    BY KeyFacts
  <2> HIDE DEF f
  <2>2. /\ DOMAIN d2 = DOMAIN f
        /\ \A x \in DOMAIN f : x # OfParam(k) => d2[x] = f[x]
    BY <1>4 DEF d2, With, Drop
  <2>3. /\ DOMAIN d4 = DOMAIN f \ {OfPromise(p), OfAwait(k)}
        /\ \A x \in DOMAIN d4 : d4[x] = d2[x]
    BY <2>2 DEF Drop
  <2> HIDE DEF d4
  <2>4. /\ DOMAIN d5 = (DOMAIN d4 \ {OfParam(k)}) \cup {OfPromise(p)}
        /\ \A x \in DOMAIN d5 : d5[x] = IF x = OfPromise(p) THEN c ELSE d4[x]
        /\ d5 = [x \in DOMAIN d5 |-> d5[x]]
    BY DEF With, Drop
  <2> HIDE DEF d5
  <2> QED
    BY <1>4, <2>1, <2>2, <2>3, <2>4
<1> HIDE DEF d5
<1>17. Holdings(after) = d5
  <2>1. CallsOf(after) = CallsOf(s) \ {k}
    BY <1>1, <1>13 DEF CallsOf
  <2>2. \A j \in CallsOf(after) : after.stack[j] = s.stack[j]
    <3>1. DOMAIN after.stack = 1..(k - 1)
      BY <1>1, <1>13, LenProperties DEF Good, States
    <3> QED
      BY <1>1, <1>13, <3>1 DEF CallsOf
  <2>3. /\ \A x : x \in DOMAIN Holdings(after) <=> x \in DOMAIN f \ {OfParam(k), OfAwait(k)}
        /\ \A x \in DOMAIN Holdings(after) :
             (\A q \in Promises : x # OfPromise(q)) => Holdings(after)[x] = f[x]
    BY <1>1, <1>13, <2>1, <2>2, LeftHoldings
  <2>4. \A q \in Promises : Holdings(after)[OfPromise(q)] = IF q = p THEN c ELSE f[OfPromise(q)]
    BY <1>10, <1>13, HoldingsFacts
  <2>5. Holdings(after) = [x \in DOMAIN Holdings(after) |-> Holdings(after)[x]]
    BY HoldingsFacts
  <2>6. \A q : OfPromise(q) = OfPromise(p) <=> q = p
    BY KeyFacts
  <2> HIDE DEF f
  <2>7. DOMAIN Holdings(after) = DOMAIN d5
    BY <1>16, <2>3
  <2>8. ASSUME NEW x \in DOMAIN d5 PROVE Holdings(after)[x] = d5[x]
    <3>1. CASE \E q \in Promises : x = OfPromise(q)
      <4>1. PICK q \in Promises : x = OfPromise(q)
        BY <3>1
      <4> QED
        BY <1>16, <2>4, <2>6, <4>1
    <3>2. CASE \A q \in Promises : x # OfPromise(q)
      BY <1>3, <1>16, <2>3, <2>7, <3>2
    <3> QED
      BY <3>1, <3>2
  <2> QED
    BY <1>16, <2>5, <2>7, <2>8
<1>18. ASSUME NEW o \in DOMAIN f, Lends(o, k)
       PROVE  o \in DOMAIN d5 /\ d5[o] = f[o]
  <2>1. k \in Nat
    BY <1>3
  <2>2. o # OfParam(k) /\ o # OfAwait(k) /\ o # OfPromise(p)
    BY <1>18, <2>1, KeyFacts
  <2> HIDE DEF f
  <2> QED
    BY <1>16, <2>2
<1>19. CallOf(after.stack) = CallAt(s.stack, k - 1)
  BY <1>1, <1>13
<1>20. \A q \in Promises : s.promise[q].state # "none" => after.promise[q].state # "none"
  BY <1>10, <1>13
<1> QED
  BY <1>13, <1>15, <1>17, <1>18, <1>19, <1>20 DEF Accounted

LEMMA FinishTaskStep ==
  ASSUME IInv, Sound, NEW e \in Expressions, FinishTask(e)
  PROVE  IInv'
<1> DEFINE k == CallOf(stack)
           call == stack[k]
           p == call.task
           v == Value(e)
           released == Released(Here, k)
           after == Finished(Here, k, v)
           own == OwnCopy(released, v)
           t == Consume(after, own, call.use)
           lapses == UseLapses(after, call.use) \cup IF IsBorrowed(v) THEN {"result"} ELSE {}
<1>1. v \in Values /\ Usable(Here, v) /\ Evaluated(e) = Here
  BY HereGood, ExpressionFacts
<1>2. k > 1 /\ p # NoTask /\ Goes(t, lapses)
  BY <1>1, HereFacts DEF FinishTask, Finished, Released, Resolved
<1>3. lapses \in SUBSET Rules
  BY RuleFacts DEF Rules
<1>4. /\ call.use \in AllUses
      /\ \A w \in Variables : call.use = <<"assign", w>> => w \in VisibleIn(CallAt(stack, k - 1))
      /\ \A b \in Blocks : call.use = <<"append", b>> =>
           \E o \in DOMAIN Holdings(Here) : Holdings(Here)[o] = List(b) /\ Lends(o, k)
  BY <1>2, HereGood, HereFacts, UseAtEnd
<1>5. ASSUME lapses = {}, t.end # "full" PROVE Accounted(t)
  <2>1. UseLapses(after, call.use) = {} /\ ~IsBorrowed(v)
    BY <1>5
  <2> HIDE DEF v
  <2>2. /\ released \in States /\ Usable(released, v)
        /\ ~Stuck(after) =>
             /\ Accounted(after) /\ after.vars = vars
             /\ CallOf(after.stack) = CallAt(stack, k - 1)
             /\ \A q \in Promises : promise[q].state # "none" => after.promise[q].state # "none"
             /\ \A o \in DOMAIN Holdings(Here) : Lends(o, k) =>
                  o \in DOMAIN Holdings(after) /\ Holdings(after)[o] = Holdings(Here)[o]
    <3>1. k = CallOf(Here.stack) /\ p = Here.stack[k].task
      BY HereFacts
    <3> HIDE DEF k, p
    <3>2. /\ released \in States /\ Usable(released, v)
          /\ ~Stuck(after) =>
               /\ Accounted(after) /\ after.vars = Here.vars
               /\ CallOf(after.stack) = CallAt(Here.stack, k - 1)
               /\ \A q \in Promises : Here.promise[q].state # "none" => after.promise[q].state # "none"
               /\ \A o \in DOMAIN Holdings(Here) : Lends(o, k) =>
                    o \in DOMAIN Holdings(after) /\ Holdings(after)[o] = Holdings(Here)[o]
      BY <1>1, <1>2, <2>1, <3>1, HereGood, FinishedGood
    <3> HIDE DEF released, after
    <3> QED
      BY <3>2, HereFacts
  <2> HIDE DEF released, after, call
  <2>3. ~Stuck(after)
    <3>1. Stuck(after) => Stuck(t)
      BY <1>4, StuckConsume
    <3> QED
      BY <1>5, <3>1 DEF Stuck
  <2>4. own \in Values /\ Usable(released, own) /\ ~IsLent(own)
        /\ \A q : own = Promise(q) => v = Promise(q)
    BY <1>1, <2>2, OwnCopyFacts
  <2>5. Usable(after, own)
    BY <2>1, <2>4, PromiseFacts DEF Usable, IsBorrowed
  <2>6. ASSUME NEW b \in Blocks, call.use = <<"append", b>> PROVE after.heap[b] # Freed
    <3>1. PICK o \in DOMAIN Holdings(Here) : Holdings(Here)[o] = List(b) /\ Lends(o, k)
      BY <1>4, <2>6
    <3>2. o \in DOMAIN Holdings(after) /\ Holdings(after)[o] = List(b)
      BY <2>2, <2>3, <3>1
    <3> QED
      BY <2>2, <2>3, <3>2, StillThere DEF Accounted
  <2>7. \A w \in Variables : call.use = <<"assign", w>> => w \in VisibleIn(CallOf(after.stack))
    BY <1>4, <2>2, <2>3
  <2> HIDE DEF own
  <2> QED
    BY <1>4, <1>5, <2>1, <2>2, <2>3, <2>4, <2>5, <2>6, <2>7, ConsumeGood
<1> HIDE DEF t, lapses
<1> QED
  BY <1>2, <1>3, <1>5, GoesGood

-----------------------------------------------------------------------------
(* Loops. *)

LEMMA NewLoop ==
  ASSUME NEW list \in Lists, NEW v \in Variables \cup {"i"}, Length(Here, list) \in Nat,
         CallOf(stack) \in Nat
  PROVE  LET fr == Loop(v, list) IN
         /\ fr \in LoopFrames /\ fr.kind = "for" /\ fr.call = CallOf(stack) /\ fr.var = v
         /\ fr.list = list /\ Marked(heap, fr)
<1> DEFINE n == Length(Here, list)
           u == [i \in 1..n |-> FALSE]
           fr == Loop(v, list)
<1>1. u \in Seq(BOOLEAN) /\ Len(u) = n /\ DOMAIN u = 1..n /\ \A i \in 1..n : ~u[i]
  <2>1. u = [i \in 1..n |-> u[i]] /\ \A i \in 1..n : u[i] \in BOOLEAN
    OBVIOUS
  <2> HIDE DEF u
  <2> QED
    BY <2>1, SeqOf DEF u
<1>2. fr = [kind |-> "for", call |-> CallOf(stack), var |-> v, list |-> list,
            index |-> 0, shifted |-> 0, visited |-> u]
  BY DEF Loop
<1> HIDE DEF u
<1>3. /\ fr \in LoopFrames /\ fr.kind = "for" /\ fr.call = CallOf(stack) /\ fr.var = v
      /\ fr.list = list /\ fr.index = 0 /\ fr.shifted = 0 /\ fr.visited = u
  BY <1>1, <1>2 DEF LoopFrames
<1> HIDE DEF fr
<1>4. LengthIn(heap, list) = n
  BY HereFacts DEF LengthIn, Length
<1>5. Missed(fr) = {}
  BY <1>3 DEF Missed
<1>6. Cardinality(Missed(fr)) = 0
  BY <1>5, FS_EmptySet
<1>7. Marked(heap, fr)
  BY <1>1, <1>3, <1>4, <1>6 DEF Marked
<1> QED
  BY <1>3, <1>7 DEF fr

LEMMA BeginForStep ==
  ASSUME IInv, Sound, NEW e \in Expressions, NEW v \in Visible \cup {"i"}, BeginFor(v, e)
  PROVE  IInv'
<1> DEFINE list == Value(e)
           fr == Loop(v, list)
           n == Len(stack)
           t == Push(Here, fr)
<1>1. list \in Values /\ Usable(Here, list) /\ Evaluated(e) = Here
  BY HereGood, ExpressionFacts
<1>2. IsList(list) /\ Goes(t, {})
  BY <1>1 DEF BeginFor
<1>3. \A b \in LentTo(fr) : \E o \in DOMAIN Holdings(Here) :
        Holdings(Here)[o] = List(b) /\ Lends(o, n + 1)
  <2> SUFFICES ASSUME NEW b \in LentTo(fr)
               PROVE  \E o \in DOMAIN Holdings(Here) :
                        Holdings(Here)[o] = List(b) /\ Lends(o, n + 1)
    OBVIOUS
  <2>1. IsLent(list) /\ b = list[2]
    BY DEF LentTo, Loop
  <2>2. PICK w \in Visible : list = Holds(Here, w)
    BY <2>1, HereGood, ExpressionFacts
  <2>3. ValueOf(w) = list
    BY <2>2, HereFacts
  <2> HIDE DEF list
  <2> QED
    BY <2>1, <2>3, LentVariable
<1> HIDE DEF list
<1>4. list \in Lists /\ Length(Here, list) \in Nat
  BY <1>1, <1>2, HereGood, ValueKinds, LengthFacts
<1>5. v \in Variables \cup {"i"} /\ CallOf(stack) \in Nat
  BY HereGood
<1>6. /\ fr \in LoopFrames /\ fr.kind = "for" /\ fr.call = CallOf(stack) /\ fr.var = v
      /\ fr.list = list /\ Marked(heap, fr)
  BY <1>4, <1>5, NewLoop
<1> HIDE DEF fr
<1>7. fr \in CallFrames \cup LoopFrames
  BY <1>6
<1>8. v \in VisibleIn(CallOf(Here.stack)) \cup {"i"}
  BY HereGood
<1>9. /\ Good(t, Holdings(Here))
      /\ t.heap = heap /\ t.vars = vars /\ t.promise = promise
      /\ Len(t.stack) = n + 1 /\ t.stack[n + 1] = fr
      /\ \A k \in 1..n : t.stack[k] = stack[k]
  <2>1. fr.kind = "for" => /\ fr.call = CallOf(Here.stack) /\ Marked(Here.heap, fr)
                           /\ fr.var \in VisibleIn(CallOf(Here.stack)) \cup {"i"}
    BY <1>6, <1>8, HereFacts
  <2>2. \A w \in Variables : fr.kind = "call" /\ fr.use = <<"assign", w>> =>
                               w \in VisibleIn(CallOf(Here.stack))
    BY <1>6
  <2>3. \A b \in LentTo(fr) : \E o \in DOMAIN Holdings(Here) :
          Holdings(Here)[o] = List(b) /\ Lends(o, Len(Here.stack) + 1)
    BY <1>3, HereFacts
  <2>4. /\ Good(t, Holdings(Here))
        /\ t.heap = Here.heap /\ t.vars = Here.vars /\ t.promise = Here.promise
        /\ Len(t.stack) = Len(Here.stack) + 1 /\ t.stack[Len(Here.stack) + 1] = fr
        /\ \A k \in 1..Len(Here.stack) : t.stack[k] = Here.stack[k]
    BY <1>7, <2>1, <2>2, <2>3, HereGood, PushGood
  <2> HIDE DEF t
  <2> QED
    BY <2>4, HereFacts
<1> HIDE DEF t
<1>10. Holdings(t) = Holdings(Here)
  <2>1. n \in Nat /\ DOMAIN Here.stack = 1..n
    BY HereGood, HereFacts
  <2>2. DOMAIN t.stack = 1..(n + 1)
    BY <1>9, LenProperties DEF Good, States
  <2>3. /\ \A k \in 1..n : t.stack[k] = Here.stack[k]
        /\ t.vars = Here.vars /\ \A p \in Promises : t.promise[p].value = Here.promise[p].value
        /\ t.stack[n + 1].kind # "call"
    BY <1>6, <1>9, HereFacts
  <2> HIDE DEF n
  <2> QED
    BY <2>1, <2>2, <2>3, PushHoldings
<1>11. Accounted(t)
  BY <1>9, <1>10 DEF Accounted
<1> QED
  BY <1>2, <1>11, RuleFacts, GoesGood

\* The innermost loop.
LEMMA TopLoop ==
  ASSUME IInv, Top.kind = "for"
  PROVE  /\ Top \in LoopFrames /\ Len(stack) \in 2..Len(stack) /\ Top.index \in Nat
         /\ Top.list \in Lists /\ Valid(Here, Top.list)
         /\ Top.var \in VisibleIn(CallOf(stack)) \cup {"i"}
         /\ Length(Here, Top.list) = LengthIn(heap, Top.list)
         /\ Marked(heap, Top)
<1>1. /\ stack \in Seq(Frames) /\ Nested(stack) /\ Len(stack) \in Nat \ {0}
      /\ DOMAIN stack = 1..Len(stack) /\ AllMarked(heap, stack)
  BY HereGood, HereFacts DEF Good
<1>2. Top = stack[Len(stack)] /\ Len(stack) \in DOMAIN stack
  BY <1>1 DEF Top
<1>3. Top \in LoopFrames
  BY <1>1, <1>2, ElementOfSeq, FrameKinds
<1>4. Len(stack) # 1
  BY <1>1, <1>2 DEF Nested, Program
<1>5. LoopNested(stack, Len(stack)) /\ CallOf(stack) = Top.call
  BY <1>1, <1>2 DEF Nested, CallOf, CallAt
<1>6. Valid(Here, Top.list)
  <2>1. ~IsPromise(Top.list)
    BY <1>3, ListFacts, OwnFacts DEF LoopFrames, Lists
  <2>2. IsLent(Top.list) => Top.list[2] \in LentTo(stack[Len(stack)])
    BY <1>2 DEF LentTo
  <2>3. IsLent(Top.list) => Top.list[2] \in Lent(Here.stack)
    BY <1>2, <2>2, HereFacts DEF Lent
  <2>4. IsLent(Top.list) => Here.heap[Top.list[2]] # Freed
    BY <2>3, HereGood, LentIsLive
  <2> QED
    BY <2>1, <2>4 DEF Valid, IsNew
<1>7. Length(Here, Top.list) = LengthIn(heap, Top.list)
  BY HereFacts DEF Length, LengthIn
<1>8. Marked(heap, Top)
  BY <1>1, <1>2 DEF AllMarked
<1> QED
  BY <1>1, <1>2, <1>3, <1>4, <1>5, <1>6, <1>7, <1>8 DEF LoopFrames, LoopNested

LEMMA LoopEnd ==
  ASSUME IInv, Top.kind = "for"
  PROVE  LET t == PopTo(Here, Len(stack) - 1) IN
         Accounted(t) /\ Len(t.stack) = Len(stack) - 1
<1> DEFINE n == Len(stack) - 1
<1>1. Len(stack) \in Nat /\ n \in 1..Len(stack)
  BY TopLoop, HereGood
<1>2. \A k \in (n + 1)..Len(Here.stack) : Here.stack[k].kind = "for"
  BY <1>1, HereFacts DEF Top
<1>3. n \in 1..Len(Here.stack)
  BY <1>1, HereFacts
<1> HIDE DEF n
<1>4. Accounted(PopTo(Here, n)) /\ Len(PopTo(Here, n).stack) = n
  BY <1>2, <1>3, HereGood, PopLoops
<1> QED
  BY <1>4 DEF n

LEMMA BreakStep ==
  ASSUME IInv, Sound, Break
  PROVE  IInv'
<1> DEFINE t == PopTo(Here, Len(stack) - 1)
<1>1. Top.kind = "for" /\ Goes(t, {})
  BY DEF Break
<1>2. Accounted(t)
  BY <1>1, LoopEnd
<1> HIDE DEF t
<1> QED
  BY <1>1, <1>2, RuleFacts, GoesGood

\* The two ways in which a turn goes on, and what is assigned in it.
Turning(i) == IF Top.var = "i" THEN Turn(i) ELSE SetVariable(Turn(i), Top.var, Plain)
TurnLapses == IF Top.var = "i" THEN {} ELSE AssignmentLapses(Here, Top.var, <<"item">>)

LEMMA TurnGood ==
  ASSUME IInv, Top.kind = "for", Top.index + 1 <= Length(Here, Top.list), TurnLapses = {}
  PROVE  LET t == Turning(Top.index + 1) IN
         t.end # "full" => Accounted(t) /\ Len(t.stack) = Len(stack)
<1> DEFINE i == Top.index + 1
           s == Turn(i)
           t == Turning(i)
<1>1. Accounted(Here) /\ Here.stack = stack /\ Here.heap = heap /\ Top = stack[Len(stack)]
  BY HereGood, HereFacts DEF Top
<1>2. s = Turned(Here, i)
  BY HereFacts DEF Turn, Turned
<1>3. i <= LengthIn(heap, Top.list)
  BY TopLoop
<1> HIDE DEF s
<1>4. /\ Accounted(s) /\ s.vars = Here.vars
      /\ Len(s.stack) = Len(stack) /\ CallOf(s.stack) = CallOf(Here.stack)
      /\ Lent(s.stack) = Lent(Here.stack) /\ Holdings(s) = Holdings(Here)
  BY <1>1, <1>2, <1>3, TurnedGood
<1>5. CASE Top.var = "i"
  BY <1>4, <1>5 DEF Turning, s
<1>6. CASE Top.var # "i"
  <2> DEFINE v == Top.var
  <2>1. v \in VisibleIn(CallOf(Here.stack)) /\ v \in VisibleIn(CallOf(s.stack))
    BY <1>1, <1>4, <1>6, TopLoop
  <2>2. t = SetVariable(s, v, Plain) /\ AssignmentLapses(Here, v, <<"item">>) = {}
    BY <1>6 DEF Turning, TurnLapses, s
  <2> HIDE DEF v
  <2>3. Holds(s, v) = Holds(Here, v)
    <3>1. KeyOf(s, v) = KeyOf(Here, v)
      BY <1>4 DEF KeyOf
    <3> QED
      BY <1>1, <1>4, <2>1, <3>1, VisibleOwns
  <2>4. AssignmentLapses(s, v, <<"item">>) = {}
    BY <1>4, <2>2, <2>3 DEF AssignmentLapses
  <2>5. Plain \in Values /\ Usable(s, Plain) /\ ~IsLent(Plain)
    BY PlainFacts DEF Values, Usable
  <2> HIDE DEF t
  <2> QED
    BY <1>4, <2>1, <2>2, <2>4, <2>5, AssignGood DEF t
<1> QED
  BY <1>5, <1>6

LEMMA NextTurnStep ==
  ASSUME IInv, Sound, NextTurn
  PROVE  IInv'
<1> DEFINE i == Top.index + 1
<1>1. Top.kind = "for"
  BY DEF NextTurn
<1>2. CASE i <= Length(Here, Top.list)
  <2> DEFINE t == Turning(i)
  <2>1. Goes(t, TurnLapses)
    BY <1>2 DEF NextTurn, Turning, TurnLapses
  <2>2. ASSUME TurnLapses = {}, t.end # "full" PROVE Accounted(t)
    BY <1>1, <1>2, <2>2, TurnGood
  <2>3. TurnLapses \in SUBSET Rules
    BY RuleFacts DEF TurnLapses
  <2> HIDE DEF t
  <2> QED
    BY <2>1, <2>2, <2>3, GoesGood
<1>3. CASE ~(i <= Length(Here, Top.list))
  <2> DEFINE t == PopTo(Here, Len(stack) - 1)
  <2>1. Reads(Here, Top.list) = Here
    BY <1>1, TopLoop DEF Reads
  <2>2. Goes(t, {})
    BY <1>3, <2>1 DEF NextTurn
  <2>3. Accounted(t)
    BY <1>1, LoopEnd
  <2> HIDE DEF t
  <2> QED
    BY <2>2, <2>3, RuleFacts, GoesGood
<1> QED
  BY <1>2, <1>3

-----------------------------------------------------------------------------
(* The invariant. *)

LEMMA NamesFinite ==
  ASSUME NEW S, IsFiniteSet(S)
  PROVE  IsFiniteSet({OfVariable(x) : x \in S}) /\ IsFiniteSet({OfPromise(x) : x \in S})
<1>1. [x \in S |-> OfVariable(x)] \in Surjection(S, {OfVariable(x) : x \in S})
  BY DEF Surjection
<1>2. [x \in S |-> OfPromise(x)] \in Surjection(S, {OfPromise(x) : x \in S})
  BY DEF Surjection
<1> QED
  BY <1>1, <1>2, FS_Surjection

LEMMA InitGood ==
  Init => IInv
<1> SUFFICES ASSUME Init PROVE IInv
  OBVIOUS
<1> DEFINE f == Holdings(Here)
<1>1. /\ Here.heap = [b \in Blocks |-> Freed] /\ Here.vars = [v \in Globals |-> Plain]
      /\ Here.stack = <<Program>> /\ Here.end = "well"
      /\ Here.promise = [p \in Promises |-> [state |-> "none", value |-> Plain, refs |-> 0]]
  BY HereFacts DEF Init
<1>2. Here \in States
  <2>1. Here.stack \in Seq(Frames)
    BY <1>1 DEF Frames, ProgramFrames
  <2>2. Here.heap \in Heaps
    BY <1>1 DEF Heaps
  <2>3. Here.vars \in [Globals -> Values]
    BY <1>1 DEF Values
  <2>4. Here.promise \in PromiseTables
    BY <1>1 DEF PromiseTables, Life
  <2>5. Here = [heap |-> Here.heap, vars |-> Here.vars, stack |-> Here.stack,
                promise |-> Here.promise, end |-> Here.end]
    BY HereFacts DEF Here
  <2> QED
    BY <1>1, <2>1, <2>2, <2>3, <2>4, <2>5 DEF States
<1>3. CallsOf(Here) = {} /\ AwaitsOf(Here) = {} /\ DOMAIN Here.stack = {1} /\ Len(Here.stack) = 1
  BY <1>1 DEF CallsOf, AwaitsOf, Program
<1>4. \A o : o \in DOMAIN f <=> \/ \E v \in Globals : o = OfVariable(v)
                               \/ \E p \in Promises : o = OfPromise(p)
  BY <1>3, OwnerKinds
<1>5. \A o \in DOMAIN f : f[o] = Plain
  <2>1. \A v \in Globals : f[OfVariable(v)] = Plain
    BY <1>1, HoldingsFacts
  <2>2. \A p \in Promises : f[OfPromise(p)] = Plain
    BY <1>1, HoldingsFacts
  <2> HIDE DEF f
  <2> QED
    BY <1>4, <2>1, <2>2
<1>6. Account(f)
  <2>1. DOMAIN f = {OfVariable(v) : v \in Globals} \cup {OfPromise(p) : p \in Promises}
    <3> HIDE DEF f
    <3> QED
      BY <1>4
  <2>2. IsFiniteSet(DOMAIN f)
    BY <2>1, NamesFinite, FS_Union, LendingAssumption
  <2>3. f = [o \in DOMAIN f |-> f[o]]
    BY HoldingsFacts
  <2> QED
    BY <1>5, <2>2, <2>3 DEF Account, Values
<1> HIDE DEF f
<1>7. Exact(Here.heap, f)
  <2>1. \A o \in DOMAIN f : ~IsLent(f[o])
    BY <1>5, PlainFacts
  <2> QED
    BY <1>1, <2>1 DEF Exact
<1>8. Counted(Here.promise, f) /\ Idle(Here.promise)
  BY <1>1, <1>5, PlainFacts DEF Counted, Idle
<1>9. Secured(Here.stack, f)
  <2>1. LentTo(Program) = {}
    BY DEF LentTo, Program
  <2> QED
    BY <1>1, <1>3, <2>1 DEF Secured
<1>10. Nested(Here.stack) /\ AllMarked(Here.heap, Here.stack)
  BY <1>1, <1>3 DEF Nested, AllMarked, Program
<1>11. Typed /\ ~broken
  BY DEF Init, Typed
<1> QED
  BY <1>1, <1>2, <1>6, <1>7, <1>8, <1>9, <1>10, <1>11 DEF IInv, Accounted, Good, f

LEMMA NextStep ==
  IInv /\ [Next]_allVars => IInv'
<1> SUFFICES ASSUME IInv, [Next]_allVars PROVE IInv'
  OBVIOUS
<1>1. CASE UNCHANGED allVars
  <2>1. Here' = Here
    BY <1>1 DEF allVars, Here
  <2>2. Accounted(Here')
    BY <2>1 DEF IInv
  <2>3. Typed' /\ (lapse' = "none" => ~broken')
    BY <1>1 DEF allVars, IInv, Typed
  <2> QED
    BY <2>2, <2>3 DEF IInv
<1>2. CASE Next
  <2>1. Sound
    BY <1>2 DEF Next
  <2>2. ASSUME NEW e \in Expressions, NEW v \in Visible, Assign(v, e) PROVE IInv'
    BY <2>1, <2>2, AssignStep
  <2>3. ASSUME NEW e \in Expressions, NEW v \in Visible, ListAppend(v, e) PROVE IInv'
    BY <2>1, <2>3, ListAppendStep
  <2>4. ASSUME NEW e \in Expressions, NEW v \in Visible, ListExtend(v, e) PROVE IInv'
    BY <2>1, <2>4, ListExtendStep
  <2>5. ASSUME NEW e \in Expressions, NEW v \in Visible \cup {"i"}, BeginFor(v, e) PROVE IInv'
    BY <2>1, <2>5, BeginForStep
  <2>6. ASSUME NEW e \in Expressions, NEW use \in Uses, BeginCall(e, use) PROVE IInv'
    BY <2>1, <2>6, BeginCallStep
  <2>7. ASSUME NEW e \in Expressions, NEW use \in Uses, NEW p \in Promises, AwaitCall(e, p, use)
        PROVE  IInv'
    BY <2>1, <2>7, AwaitCallStep
  <2>8. ASSUME NEW e \in Expressions, NEW v \in Visible, NEW p \in Promises,
               AsyncCall(v, e, p) \/ PromiseResolve(v, e, p)
        PROVE  IInv'
    <3>1. "pending" \in Life \ {"none"} /\ "fulfilled" \in Life \ {"none"}
      BY DEF Life
    <3>2. MakePromise(v, e, p, "pending") \/ MakePromise(v, e, p, "fulfilled")
      BY <2>8 DEF AsyncCall, PromiseResolve
    <3> QED
      BY <2>1, <3>1, <3>2, MakePromiseStep
  <2>9. ASSUME NEW e \in Expressions, CallNative(e) PROVE IInv'
    BY <2>1, <2>9, CallNativeStep
  <2>10. ASSUME NEW e \in Expressions, Return(e) PROVE IInv'
    BY <2>1, <2>10, ReturnStep
  <2>11. ASSUME NEW e \in Expressions, FinishTask(e) PROVE IInv'
    BY <2>1, <2>11, FinishTaskStep
  <2>12. ASSUME NEW v \in Visible, NEW use \in Uses, AwaitPending(v, use) PROVE IInv'
    BY <2>1, <2>12, AwaitPendingStep
  <2>13. ASSUME NEW v \in Visible, NEW use \in Uses, AwaitFulfilled(v, use) PROVE IInv'
    BY <2>1, <2>13, AwaitFulfilledStep
  <2>14. ASSUME NEW v \in Visible, NEW i \in 1..MaxLength, ListRemove(v, i) PROVE IInv'
    BY <2>1, <2>14, ListRemoveStep
  <2>15. CASE NextTurn
    BY <2>1, <2>15, NextTurnStep
  <2>16. CASE Break
    BY <2>1, <2>16, BreakStep
  <2> QED
    BY <1>2, <2>2, <2>3, <2>4, <2>5, <2>6, <2>7, <2>8, <2>9, <2>10, <2>11, <2>12, <2>13,
       <2>14, <2>15, <2>16 DEF Next
<1> QED
  BY <1>1, <1>2

\* Whatever a program does, what its state holds is its account: every list in
\* memory has one owner, promises are counted, what is lent is owned outside the
\* frame that it is lent to, frames are nested, and loops keep count of what they
\* have visited.
THEOREM InvariantHolds == Spec => []IInv
<1>1. Init => IInv
  BY InitGood
<1>2. IInv /\ [Next]_allVars => IInv'
  BY NextStep
<1> QED
  BY <1>1, <1>2, PTL DEF Spec

-----------------------------------------------------------------------------
(* What follows from it. *)

LEMMA OneHolder ==
  ASSUME IInv, NEW b \in Blocks
  PROVE  Cardinality(HoldersOf(List(b))) = IF heap[b] = Freed THEN 0 ELSE 1
<1> DEFINE f == Holdings(Here)
           holders == {o \in DOMAIN f : f[o] = List(b)}
<1>1. Exact(heap, f)
  BY HereGood, HereFacts DEF Good
<1>2. HoldersOf(List(b)) = holders
  BY DEF HoldersOf, Holdings
<1>3. IsLent(List(b)) /\ List(b)[2] = b
  BY ListFacts
<1> HIDE DEF f
<1>4. CASE heap[b] = Freed
  <2>1. holders = {}
    BY <1>1, <1>3, <1>4 DEF Exact
  <2> QED
    BY <1>2, <1>4, <2>1, FS_EmptySet
<1>5. CASE heap[b] # Freed
  <2>1. PICK o \in DOMAIN f : f[o] = List(b)
    BY <1>1, <1>5 DEF Exact
  <2>2. holders = {o}
    BY <1>1, <1>3, <2>1 DEF Exact
  <2> QED
    BY <1>2, <1>5, <2>2, FS_Singleton
<1> QED
  BY <1>4, <1>5

\* Who uses and who frees a list agree: in a program that keeps to the rules each
\* list in memory has one owner, nothing that is lent has been freed, each promise
\* is counted by all that hold it and once more, and freed memory is not used.
THEOREM ListsHaveOneOwner == Spec => []SoundUnlessLapse
<1>1. IInv => SoundUnlessLapse
  <2> SUFFICES ASSUME IInv, lapse = "none"
               PROVE  /\ ~broken
                      /\ \A b \in Blocks :
                           Cardinality(HoldersOf(List(b))) = IF heap[b] = Freed THEN 0 ELSE 1
                      /\ \A b \in Lent(stack) : heap[b] # Freed
                      /\ \A p \in Promises : promise[p].state # "none" =>
                           promise[p].refs > Cardinality(HoldersOf(Promise(p)))
    BY DEF SoundUnlessLapse
  <2>1. ~broken
    BY DEF IInv
  <2>2. \A b \in Lent(stack) : heap[b] # Freed
    BY HereGood, HereFacts, LentIsLive
  <2>3. ASSUME NEW p \in Promises, promise[p].state # "none"
        PROVE  promise[p].refs > Cardinality(HoldersOf(Promise(p)))
    <3>1. HoldersOf(Promise(p)) = {o \in DOMAIN Holdings(Here) : Holdings(Here)[o] = Promise(p)}
      BY DEF HoldersOf, Holdings
    <3>2. Counted(promise, Holdings(Here))
      BY HereGood, HereFacts DEF Good
    <3> QED
      BY <2>3, <3>1, <3>2 DEF Counted
  <2> QED
    BY <2>1, <2>2, <2>3, OneHolder
<1> QED
  BY <1>1, InvariantHolds, PTL

\* A loop visits each item once, whatever its body appends, removes or assigns:
\* its marks are those of the list, it has visited nothing that it is still to
\* come to, and it has left out no more than one item for each removal behind it.
THEOREM LoopsVisitOnce == Spec => []VisitsEachOnce
<1>1. IInv => VisitsEachOnce
  <2> SUFFICES ASSUME IInv, NEW k \in DOMAIN stack, stack[k].kind = "for"
               PROVE  /\ Len(stack[k].visited) = Length(Here, stack[k].list)
                      /\ \A i \in DOMAIN stack[k].visited :
                           stack[k].visited[i] => i <= stack[k].index
                      /\ Cardinality(LeftOut(stack[k])) <= stack[k].shifted
    BY DEF VisitsEachOnce
  <2> DEFINE fr == stack[k]
  <2>1. Marked(heap, fr) /\ fr \in LoopFrames
    BY HereGood, HereFacts, ElementOfSeq, FrameKinds DEF Good, AllMarked
  <2>2. LengthIn(heap, fr.list) = Length(Here, fr.list)
    BY HereFacts DEF Length, LengthIn
  <2> HIDE DEF fr
  <2>3. fr.visited \in Seq(BOOLEAN) /\ fr.index \in Nat /\ fr.shifted \in Nat
    BY <2>1 DEF LoopFrames
  <2>4. LeftOut(fr) \in SUBSET Missed(fr)
    <3>1. DOMAIN fr.visited = 1..Len(fr.visited) /\ Len(fr.visited) \in Nat
      BY <2>3, LenProperties
    <3> QED
      BY <2>3, <3>1 DEF LeftOut, Missed
  <2>5. IsFiniteSet(Missed(fr)) /\ Cardinality(Missed(fr)) \in Nat
    BY <2>1, MissedFinite
  <2>6. Cardinality(LeftOut(fr)) <= Cardinality(Missed(fr)) /\ Cardinality(LeftOut(fr)) \in Nat
    BY <2>4, <2>5, FS_Subset, FS_CardinalityType
  <2>7. Cardinality(LeftOut(fr)) <= fr.shifted
    BY <2>1, <2>3, <2>5, <2>6 DEF Marked
  <2> QED
    BY <2>1, <2>2, <2>7 DEF Marked, fr
<1> QED
  BY <1>1, InvariantHolds, PTL

\* A step of `for` that takes a loop off the stack is its end.
LEMMA LastTurn ==
  ASSUME IInv, Top.kind = "for", Len(stack') < Len(stack), NextTurn
  PROVE  Cardinality({i \in DOMAIN Top.visited : ~Top.visited[i]}) <= Top.shifted
<1> DEFINE t == Turning(Top.index + 1)
           unvisited == {i \in DOMAIN Top.visited : ~Top.visited[i]}
<1>1. Top \in LoopFrames /\ Marked(heap, Top) /\ Length(Here, Top.list) = LengthIn(heap, Top.list)
  BY TopLoop
<1>2. Len(stack) \in Nat
  BY HereGood
<1>3. ~(Top.index + 1 <= Length(Here, Top.list))
  <2> SUFFICES ASSUME Top.index + 1 <= Length(Here, Top.list) PROVE FALSE
    OBVIOUS
  <2>1. Goes(t, TurnLapses)
    BY DEF NextTurn, Turning, TurnLapses
  <2>2. TurnLapses = {} /\ t.end # "full" => Len(t.stack) = Len(stack)
    BY TurnGood
  <2> HIDE DEF t
  <2>3. stack' = stack \/ (stack' = t.stack /\ TurnLapses = {} /\ t.end # "full")
    BY <2>1 DEF Goes
  <2> QED
    BY <1>2, <2>2, <2>3
<1>4. /\ Top.visited \in Seq(BOOLEAN) /\ Top.index \in Nat /\ Top.shifted \in Nat
      /\ DOMAIN Top.visited = 1..Len(Top.visited) /\ Len(Top.visited) \in Nat
  BY <1>1, LenProperties DEF LoopFrames
<1>5. Len(Top.visited) <= Top.index
  BY <1>1, <1>3, <1>4 DEF Marked
<1>6. unvisited \in SUBSET Missed(Top)
  BY <1>4, <1>5 DEF Missed
<1>7. IsFiniteSet(Missed(Top)) /\ Cardinality(Missed(Top)) \in Nat
  BY <1>1, MissedFinite
<1> HIDE DEF unvisited
<1>8. Cardinality(unvisited) <= Cardinality(Missed(Top)) /\ Cardinality(unvisited) \in Nat
  BY <1>6, <1>7, FS_Subset, FS_CardinalityType
<1>9. Cardinality(unvisited) <= Top.shifted
  BY <1>1, <1>4, <1>7, <1>8 DEF Marked
<1> QED
  BY <1>9 DEF unvisited

\* A loop that comes to its end has visited all that the list then has, but one
\* item for each removal behind its index.
THEOREM LoopsEndWithAll == Spec => EndsWithAll
<1>1. IInv => [Top.kind = "for" /\ Len(stack') < Len(stack) /\ NextTurn =>
                 Cardinality({i \in DOMAIN Top.visited : ~Top.visited[i]}) <= Top.shifted]_allVars
  BY LastTurn
<1> QED
  BY <1>1, InvariantHolds, PTL DEF EndsWithAll
=============================================================================
