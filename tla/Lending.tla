-------------------------------- MODULE Lending --------------------------------
(***************************************************************************)
(* Who may use, and who frees, a list that a variable holds, while calls,  *)
(* awaits and loops are under way.                                         *)
(*                                                                         *)
(* eval_node gives a variable's list as the pointer that the variable      *)
(* holds: the list is lent.  What an expression makes, and what a call or  *)
(* an await comes back with, nobody else has: it is a value of its own,    *)
(* which nobody frees if it is not consumed.  Nothing in a Value tells one *)
(* from the other, so every user of eval_node has to do what is right for  *)
(* both.  The module follows the lists through assignments, arguments,     *)
(* results, promises, methods of lists and loops.                          *)
(*                                                                         *)
(* Promises themselves are counted: a copy of one is the same promise with *)
(* one more reference.                                                     *)
(*                                                                         *)
(* Of a list only the length is kept; its items are copied and freed with  *)
(* it, and a loop over it keeps a mark for each item that it has visited.  *)
(* Items are no promises.  Strings and objects are lent in the same way as *)
(* lists.  A function has one parameter.                                   *)
(***************************************************************************)
EXTENDS Integers, Sequences, FiniteSets

CONSTANTS Globals,      \* variables of the program
          Param,        \* the parameter of each function
          Blocks,       \* addresses of lists
          Promises,     \* promises that async calls make
          Literals,     \* lengths of new lists
          MaxLength,    \* bound on the items of a list, and on removals in a loop
          MaxRefs,      \* bound on the references of a promise
          MaxStack      \* bound on calls and loops under way

NoTask == <<"no task">>         \* what a call runs that is not an await

ASSUME LendingAssumption ==
  /\ IsFiniteSet(Globals) /\ Param \notin Globals
  /\ IsFiniteSet(Blocks) /\ IsFiniteSet(Promises) /\ NoTask \notin Promises
  /\ Literals \subseteq 0..MaxLength
  /\ MaxLength \in Nat /\ MaxRefs \in Nat /\ MaxStack \in Nat \ {0}

Plain == <<"plain">>            \* owns no memory
List(b) == <<"list", b>>        \* the list at an address
Own(n) == <<"own", n>>          \* a list that only this value leads to
Promise(p) == <<"promise", p>>
Freed == -1                     \* the length at an address not in use

VARIABLES heap,         \* the length of the list at each address
          vars,         \* Env.vars of the program
          stack,        \* calls and loops under way, innermost last
          promise,      \* Promise.state, .ref_count, and the task's argument or the result
          lapse,        \* the first misuse by the program, if any
          broken        \* has memory been used after it was freed

allVars == <<heap, vars, stack, promise, lapse, broken>>

IsLent(v) == v[1] = "list"
IsList(v) == v[1] \in {"list", "own"}
IsPromise(v) == v[1] = "promise"

\* As eval_node gives it, a variable's list or promise is the variable's own.
IsBorrowed(v) == IsLent(v) \/ IsPromise(v)
IsNew(b, h) == h[b] = Freed

Top == stack[Len(stack)]

\* The place of the call around a frame, whose environment is the current one.
CallAt(s, k) == IF s[k].kind = "for" THEN s[k].call ELSE k
CallOf(s) == CallAt(s, Len(s))

\* The variables a statement can name, and get_variable.
VisibleIn(call) == Globals \cup (IF call = 1 THEN {} ELSE {Param})
Visible == VisibleIn(CallOf(stack))
ValueOf(v) == IF v = Param THEN stack[CallOf(stack)].param ELSE vars[v]

-----------------------------------------------------------------------------
(* Memory.  What a statement does is composed of the following steps, which
   go from one record of the state to the next. *)

\* How it ends: well, with freed memory used, or with all addresses in use (a bound).
Here == [heap |-> heap, vars |-> vars, stack |-> stack, promise |-> promise, end |-> "well"]

Ends(s, how) == IF s.end = "well" THEN [s EXCEPT !.end = how] ELSE s

Length(s, v) == IF IsLent(v) THEN s.heap[v[2]] ELSE v[2]

\* Is it sound to look at v.
Valid(s, v) == /\ IsLent(v) => ~IsNew(v[2], s.heap)
               /\ IsPromise(v) => s.promise[v[2]].refs > 0
Reads(s, v) == IF Valid(s, v) THEN s ELSE Ends(s, "freed")

\* malloc
HasRoom(s) == \E b \in Blocks : IsNew(b, s.heap)
NewBlock(s) == CHOOSE b \in Blocks : IsNew(b, s.heap)

\* free_value.  With the last reference of a promise what it holds is freed, which
\* is no promise.  (To give a promise to a promise breaks a rule.)
FreeList(s, v) ==
  IF ~IsLent(v) THEN s
  ELSE IF Valid(s, v) THEN [s EXCEPT !.heap[v[2]] = Freed] ELSE Ends(s, "freed")

LessOne(s, p) == [s EXCEPT !.promise[p].refs = @ - 1]
OneMore(s, p) == [s EXCEPT !.promise[p].refs = @ + 1]

Release(s, v) ==
  IF ~IsPromise(v) THEN FreeList(s, v)
  ELSE IF ~Valid(s, v) THEN Ends(s, "freed")
  ELSE IF s.promise[v[2]].refs > 1 THEN LessOne(s, v[2])
  ELSE FreeList(LessOne(s, v[2]), s.promise[v[2]].value)

\* clone_value: what memory and the copy are then.
CloneList(s, v) ==
  IF HasRoom(s) THEN [s EXCEPT !.heap[NewBlock(s)] = Length(s, v)] ELSE Ends(s, "full")

Clone(s, v) ==
  IF ~Valid(s, v) THEN Ends(s, "freed")
  ELSE IF IsPromise(v) THEN OneMore(s, v[2])
  ELSE IF IsList(v) THEN CloneList(s, v) ELSE s

Copy(s, v) == IF IsList(v) /\ HasRoom(s) THEN List(NewBlock(s)) ELSE v

\* A clone that is nobody else's and that nobody frees: of a list it is forgotten
\* with the value, of a promise the reference stays.
OwnCopy(s, v) == IF IsList(v) THEN Own(Length(s, v)) ELSE v
CloneOwn(s, v) == IF IsList(v) THEN Reads(s, v) ELSE Clone(s, v)

\* set_variable of a variable that can be seen, in the current environment.
Holds(s, v) == IF v = Param THEN s.stack[CallOf(s.stack)].param ELSE s.vars[v]

SetVariable(s, v, value) ==
  LET old == Release(s, Holds(s, v))
      new == Clone(old, value) IN
  IF v = Param
  THEN [new EXCEPT !.stack[CallOf(s.stack)].param = Copy(old, value)]
  ELSE [new EXCEPT !.vars[v] = Copy(old, value)]

\* list_append and list_extend: n more items, which no loop has visited.
GrowLoop(frame, b, n) ==
  IF frame.kind = "for" /\ frame.list = List(b)
  THEN [frame EXCEPT !.visited = @ \o [i \in 1..n |-> FALSE]] ELSE frame

AppendTo(s, b, n) ==
  IF IsNew(b, s.heap) THEN Ends(s, "freed")
  ELSE [s EXCEPT !.heap[b] = @ + n,
                 !.stack = [k \in DOMAIN s.stack |-> GrowLoop(s.stack[k], b, n)]]

\* The lists that loops and operations under way have been lent.
LentTo(frame) ==
  CASE frame.kind = "for" /\ IsLent(frame.list) -> {frame.list[2]}
    [] frame.kind = "call" /\ frame.use[1] = "append" -> {frame.use[2]}
    [] OTHER -> {}
Lent(s) == UNION {LentTo(s[k]) : k \in DOMAIN s}

\* The bounds on lists, references, and removals that a loop counts.
Bounded(s) ==
  /\ \A p \in Promises : s.promise[p].refs <= MaxRefs
  /\ \A b \in Blocks : s.heap[b] <= MaxLength
  /\ \A k \in DOMAIN s.stack : s.stack[k].kind = "for" => s.stack[k].shifted <= MaxLength

\* The statement ends in the state s; `lapses` are the rules it has broken.  A
\* program that has broken one, or used freed memory, is not followed.
Goes(s, lapses) ==
  /\ s.end # "full"
  /\ IF s.end = "well" /\ lapses = {}
     THEN /\ Bounded(s)
          /\ heap' = s.heap /\ vars' = s.vars /\ stack' = s.stack /\ promise' = s.promise
          /\ UNCHANGED broken
     ELSE broken' = (s.end = "freed") /\ UNCHANGED <<heap, vars, stack, promise>>
  /\ lapse' = IF lapses = {} THEN "none" ELSE CHOOSE l \in lapses : TRUE

\* The rules of assignment: a variable is not assigned to itself, nor while
\* its list is lent.
AssignmentLapses(s, v, e) ==
  {l \in {"itself", "held"} :
     /\ IsLent(Holds(s, v))
     /\ l = "itself" => e = <<"variable", v>>
     /\ l = "held" => Holds(s, v)[2] \in Lent(s.stack)}

-----------------------------------------------------------------------------
(* Expressions. *)

\* What makes a new list of a variable (list(x), x[0:2], x + []), and what makes
\* one of nothing (a literal, range).
Copies == {<<"copy", v>> : v \in {w \in Visible : IsList(ValueOf(w))}}
NewLists == {<<"literal", n>> : n \in Literals}

Expressions == {<<"variable", v>> : v \in Visible} \cup {<<"number">>} \cup Copies \cup NewLists

\* eval_node
Value(e) ==
  CASE e[1] = "variable" -> ValueOf(e[2])
    [] e[1] = "copy" -> OwnCopy(Here, ValueOf(e[2]))
    [] e[1] = "number" -> Plain
    [] e[1] = "literal" -> Own(e[2])

Evaluated(e) == IF e[1] = "copy" THEN Reads(Here, ValueOf(e[2])) ELSE Here

\* What is done with the result of a call or an await: nothing, an assignment, or
\* an operation on a list that has been evaluated first (x.append(f()), x[f()]).
Uses == {<<"drop">>} \cup {<<"assign", v>> : v \in Visible}
        \cup {<<"append", ValueOf(v)[2]>> : v \in {w \in Visible : IsLent(ValueOf(w))}}

Suits(value, use) == IsPromise(value) => use[1] # "append"

Consume(s, value, use) ==
  CASE use[1] = "drop" -> s
    [] use[1] = "assign" -> SetVariable(s, use[2], value)
    [] use[1] = "append" -> AppendTo(s, use[2], 1)

UseLapses(s, use) ==
  IF use[1] = "assign" THEN AssignmentLapses(s, use[2], <<"result">>) ELSE {}

-----------------------------------------------------------------------------
(* Statements. *)

Program == [kind |-> "program", use |-> <<"drop">>]
Call(task, param, use) == [kind |-> "call", task |-> task, param |-> param, use |-> use]
Loop(v, list) == [kind |-> "for", call |-> CallOf(stack), var |-> v, list |-> list,
                  index |-> 0, shifted |-> 0,
                  visited |-> [i \in 1..Length(Here, list) |-> FALSE]]

Push(s, frame) == [s EXCEPT !.stack = Append(@, frame)]
PopTo(s, k) == [s EXCEPT !.stack = SubSeq(@, 1, k)]

\* A program that has broken a rule is not followed: what it reads then is up to
\* the allocator.
Sound == ~broken /\ lapse = "none"

\* The next statement of the innermost body runs.
Runs == Top.kind = "for" => Top.index > 0

\* NODE_SET
Assign(v, e) ==
  /\ Runs
  /\ Goes(SetVariable(Evaluated(e), v, Value(e)), AssignmentLapses(Here, v, e))

\* A call of a function, with an argument.
BeginCall(e, use) ==
  LET s == Evaluated(e) IN
  /\ Runs /\ Len(stack) < MaxStack
  /\ Goes(Push(Clone(s, Value(e)), Call(NoTask, Copy(s, Value(e)), use)), {})

\* A call of an async function and Promise.resolve: both copy the argument to
\* the promise and free what they have evaluated.  The promise has a reference
\* for the value of the call, which nobody gives back.  (One that no variable is
\* assigned to cannot be used.)
Made(e, p, state) ==
  LET s == Evaluated(e) IN
  Release([Clone(s, Value(e)) EXCEPT
             !.promise[p] = [state |-> state, value |-> Copy(s, Value(e)), refs |-> 1]],
          Value(e))

ArgumentLapses(e) == IF IsBorrowed(Value(e)) THEN {"argument"} ELSE {}

MakePromise(v, e, p, state) ==
  /\ Runs /\ promise[p].state = "none"
  /\ Goes(SetVariable(Made(e, p, state), v, Promise(p)),
          ArgumentLapses(e) \cup AssignmentLapses(Here, v, <<"result">>))

AsyncCall(v, e, p) == MakePromise(v, e, p, "pending")
PromiseResolve(v, e, p) == ~IsPromise(Value(e)) /\ MakePromise(v, e, p, "fulfilled")

\* The natives that free their arguments: HTTP methods, server_listen.
CallNative(e) ==
  /\ Runs
  /\ Goes(Release(Evaluated(e), Value(e)), ArgumentLapses(e))

\* interpreter_await of a pending promise: run_async_task up to the body.  The
\* local `current` has a reference meanwhile.
RunTask(s, p, use) ==
  LET current == Clone(s, Promise(p))
      argument == s.promise[p].value IN
  Push([Clone(current, argument) EXCEPT !.promise[p].state = "running"],
       Call(p, Copy(current, argument), use))

AwaitPending(v, use) ==
  LET p == ValueOf(v)[2] IN
  /\ Runs /\ IsPromise(ValueOf(v)) /\ promise[p].state = "pending"
  /\ Len(stack) < MaxStack
  /\ Goes(RunTask(Here, p, use), {})

\* await f(e)
AwaitCall(e, p, use) ==
  /\ Runs /\ promise[p].state = "none" /\ Len(stack) < MaxStack
  /\ Goes(RunTask(Made(e, p, "pending"), p, use), ArgumentLapses(e))

\* ... of a fulfilled one: promise_clone_result.  (A promise whose result is a
\* promise has broken a rule before.)
AwaitFulfilled(v, use) ==
  LET p == ValueOf(v)[2] IN
  /\ Runs /\ IsPromise(ValueOf(v)) /\ promise[p].state = "fulfilled"
  /\ Goes(Consume(CloneOwn(Here, promise[p].value), OwnCopy(Here, promise[p].value), use),
          UseLapses(Here, use))

\* Mutant of Return: the environment is released before the result is copied.
Return_ReleasesFirst(e) ==
  LET k == CallOf(stack)
      call == stack[k]
      released == Release(PopTo(Evaluated(e), k - 1), call.param)
      after == CloneOwn(released, Value(e)) IN
  /\ Runs /\ k > 1 /\ call.task = NoTask /\ Suits(Value(e), call.use)
  /\ Goes(Consume(after, OwnCopy(Here, Value(e)), call.use), UseLapses(after, call.use))

\* The end of a call: the result is copied, and the environment released.
Return(e) ==
  LET k == CallOf(stack)
      call == stack[k]
      copied == CloneOwn(Evaluated(e), Value(e))
      after == Release(PopTo(copied, k - 1), call.param) IN
  /\ Runs /\ k > 1 /\ call.task = NoTask /\ Suits(Value(e), call.use)
  /\ Goes(Consume(after, OwnCopy(Here, Value(e)), call.use), UseLapses(after, call.use))

\* The end of a task: the environment is released, promise_resolve copies the
\* result, and the result, the task and `current` are freed.
FinishTask(e) ==
  LET k == CallOf(stack)
      call == stack[k]
      p == call.task
      released == Release(PopTo(Evaluated(e), k - 1), call.param)
      resolved == [Clone(released, Value(e)) EXCEPT
                     !.promise[p].state = "fulfilled",
                     !.promise[p].value = Copy(released, Value(e))]
      after == Release(Release(Release(resolved, Value(e)), promise[p].value), Promise(p)) IN
  /\ Runs /\ k > 1 /\ call.task # NoTask /\ Suits(Value(e), call.use)
  /\ Goes(Consume(after, OwnCopy(released, Value(e)), call.use),
          UseLapses(after, call.use) \cup IF IsBorrowed(Value(e)) THEN {"result"} ELSE {})

\* x.append(1) and x.append(y); y may be x.
ListAppend(v, e) ==
  /\ Runs /\ IsLent(ValueOf(v)) /\ ~IsPromise(Value(e))
  /\ Goes(IF Value(e) = ValueOf(v) THEN Ends(Here, "freed")
          ELSE AppendTo(Evaluated(e), ValueOf(v)[2], 1),
          IF Value(e) = ValueOf(v) THEN {"itself"} ELSE {})

\* list_extend: the length of the other list is read again in each turn.
ExtendBy(s, b, value) ==
  IF ~Valid(s, value) \/ (value = List(b) /\ Length(s, value) > 0)
  THEN Ends(s, "freed")
  ELSE AppendTo(s, b, Length(s, value))

\* x.extend(y)
ListExtend(v, e) ==
  /\ Runs /\ IsLent(ValueOf(v)) /\ IsList(Value(e))
  /\ Goes(ExtendBy(Evaluated(e), ValueOf(v)[2], Value(e)),
          IF Value(e) = ValueOf(v) THEN {"itself"} ELSE {})

\* x.remove(i - 1): the items behind it move up.
Without(seq, i) == SubSeq(seq, 1, i - 1) \o SubSeq(seq, i + 1, Len(seq))

ShrinkLoop(frame, b, i) ==
  IF frame.kind = "for" /\ frame.list = List(b)
  THEN [frame EXCEPT !.visited = Without(@, i),
                     !.shifted = @ + IF i <= frame.index THEN 1 ELSE 0]
  ELSE frame

ListRemove(v, i) ==
  LET b == ValueOf(v)[2] IN
  /\ Runs /\ IsLent(ValueOf(v)) /\ i <= heap[b]
  /\ Goes([Here EXCEPT !.heap[b] = @ - 1,
                       !.stack = [k \in DOMAIN stack |-> ShrinkLoop(stack[k], b, i)]], {})

\* NODE_FOR over a list.  (Over a number it holds nothing; i is a variable that
\* holds no list.)
BeginFor(v, e) ==
  /\ Runs /\ Len(stack) < MaxStack /\ IsList(Value(e))
  /\ Goes(Push(Evaluated(e), Loop(v, Value(e))), {})

\* The loop goes on with item i.
Turn(i) ==
  [Here EXCEPT !.stack[Len(stack)] = [@ EXCEPT !.index = i, !.visited[i] = TRUE]]

\* Mutant of NextTurn: the last item is not reached.
NextTurn_StopsShort ==
  LET i == Top.index + 1 IN
  /\ Top.kind = "for" /\ Valid(Here, Top.list)
  /\ IF i < Length(Here, Top.list) THEN Goes(Turn(i), {})
     ELSE Goes(PopTo(Here, Len(stack) - 1), {})

\* Mutant of NextTurn: `continue` counts the index up, and the loop once more.
NextTurn_CountsTwice ==
  LET i == Top.index + 2 IN
  /\ Top.kind = "for" /\ Valid(Here, Top.list) /\ i <= Length(Here, Top.list)
  /\ Goes(Turn(i), {})

\* The end of a turn, or `continue`, and the next turn or the end of the loop.
NextTurn ==
  LET i == Top.index + 1 IN
  /\ Top.kind = "for"
  /\ IF i <= Length(Here, Top.list)
     THEN Goes(IF Top.var = "i" THEN Turn(i) ELSE SetVariable(Turn(i), Top.var, Plain),
               IF Top.var = "i" THEN {} ELSE AssignmentLapses(Here, Top.var, <<"item">>))
     ELSE Goes(PopTo(Reads(Here, Top.list), Len(stack) - 1), {})

Break ==
  /\ Runs /\ Top.kind = "for"
  /\ Goes(PopTo(Here, Len(stack) - 1), {})

Init ==
  /\ heap = [b \in Blocks |-> Freed]
  /\ vars = [v \in Globals |-> Plain]
  /\ stack = <<Program>>
  /\ promise = [p \in Promises |-> [state |-> "none", value |-> Plain, refs |-> 0]]
  /\ lapse = "none" /\ broken = FALSE

Next ==
  /\ Sound
  /\ \/ \E e \in Expressions :
          \/ \E v \in Visible : Assign(v, e) \/ ListAppend(v, e) \/ ListExtend(v, e)
          \/ \E v \in Visible \cup {"i"} : BeginFor(v, e)
          \/ \E use \in Uses :
               BeginCall(e, use) \/ \E p \in Promises : AwaitCall(e, p, use)
          \/ \E v \in Visible, p \in Promises : AsyncCall(v, e, p) \/ PromiseResolve(v, e, p)
          \/ CallNative(e) \/ Return(e) \/ FinishTask(e)
     \/ \E v \in Visible, use \in Uses : AwaitPending(v, use) \/ AwaitFulfilled(v, use)
     \/ \E v \in Visible, i \in 1..MaxLength : ListRemove(v, i)
     \/ NextTurn \/ Break

Spec == Init /\ [][Next]_allVars

-----------------------------------------------------------------------------
(* Properties. *)

\* Who holds a value that is to be freed: variables, parameters, promises, and for
\* the promise whose task it runs an await.
OfVariable(v) == <<"variable", v>>
OfParam(k) == <<"param", k>>
OfPromise(p) == <<"promise", p>>
OfAwait(k) == <<"await", k>>

CallsOf(s) == {k \in DOMAIN s.stack : s.stack[k].kind = "call"}
AwaitsOf(s) == {k \in CallsOf(s) : s.stack[k].task # NoTask}

Owners(s) == {OfVariable(v) : v \in Globals} \cup {OfParam(k) : k \in CallsOf(s)}
             \cup {OfPromise(p) : p \in Promises} \cup {OfAwait(k) : k \in AwaitsOf(s)}

Owned(s, o) == CASE o[1] = "variable" -> s.vars[o[2]]
                 [] o[1] = "param" -> s.stack[o[2]].param
                 [] o[1] = "promise" -> s.promise[o[2]].value
                 [] o[1] = "await" -> Promise(s.stack[o[2]].task)

HoldersOf(v) == {o \in Owners(Here) : Owned(Here, o) = v}

\* As long as a program assigns no variable to itself or while its list is lent,
\* gives no variable to an async call, to Promise.resolve or to a native that
\* frees its arguments, and returns no variable from an async function, each
\* list in memory has one owner, each promise is counted by all that hold it, the
\* awaits under way included, and once more for the value of its call, and nothing
\* that has been freed is used, whatever calls, awaits and loops are under way.
SoundUnlessLapse ==
  lapse = "none" =>
    /\ ~broken
    /\ \A b \in Blocks : Cardinality(HoldersOf(List(b))) = IF heap[b] = Freed THEN 0 ELSE 1
    /\ \A b \in Lent(stack) : heap[b] # Freed
    /\ \A p \in Promises : promise[p].state # "none" =>
                             promise[p].refs > Cardinality(HoldersOf(Promise(p)))

\* A loop visits no item twice: it has visited none of those it is still to come
\* to, and of the others all but one for each removal at or before its index.
LeftOut(loop) == {i \in DOMAIN loop.visited : i <= loop.index /\ ~loop.visited[i]}

VisitsEachOnce ==
  \A k \in DOMAIN stack : stack[k].kind = "for" /\ lapse = "none" =>
    /\ Len(stack[k].visited) = Length(Here, stack[k].list)
    /\ \A i \in DOMAIN stack[k].visited : stack[k].visited[i] => i <= stack[k].index
    /\ Cardinality(LeftOut(stack[k])) <= stack[k].shifted

\* A loop that comes to its end has visited every item that the list then has,
\* the ones appended meanwhile included, but one for each such removal.
EndsWithAll ==
  [][Top.kind = "for" /\ Len(stack') < Len(stack) /\ NextTurn =>
       Cardinality({i \in DOMAIN Top.visited : ~Top.visited[i]}) <= Top.shifted]_allVars
===============================================================================
