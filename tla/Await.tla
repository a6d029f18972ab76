------------------------------- MODULE Await ---------------------------------
(***************************************************************************)
(* Promises, async calls and await in the Able interpreter.                *)
(*                                                                         *)
(* An async call runs nothing: it makes a pending promise that holds a     *)
(* task (src/src/interpreter/call.c:36-42).  The first await takes the     *)
(* task off the promise, runs the function's body to its end on the C      *)
(* stack of interpreter_await, settles the promise with what the body      *)
(* returned, and then follows results that are promises themselves         *)
(* (call.c:44-102).  There is no event loop and no second thread, so the   *)
(* only concurrency is nesting: the body that an await runs may create     *)
(* promises, settle them and await any promise it can reach, the one being *)
(* run below it included.                                                  *)
(*                                                                         *)
(* The script is whatever it likes to be: at every point where script code *)
(* runs it may take any of the script actions.  `awaiting` is the C stack  *)
(* of activations of interpreter_await; script code runs when that stack   *)
(* is empty (the main program) or its top is running a task.               *)
(***************************************************************************)
EXTENDS Naturals, Sequences, FiniteSets

CONSTANTS Promises,     \* the promises a run may create (bounds the run)
          Plain,        \* values that are not promises: numbers, strings, ...
          MaxDepth      \* bound on nested activations of interpreter_await

ASSUME AwaitAssumption ==
  /\ Promises # {}
  /\ Plain # {}
  /\ Promises \cap Plain = {}
  /\ MaxDepth \in Nat \ {0}

Values == Promises \cup Plain
NoValue == "undefined"          \* VAL_UNDEFINED
ASSUME NoValueAssumption == NoValue \notin Values

VARIABLES state,        \* Promise.state, or "unborn" before promise_create
          task,         \* does Promise.task hold a task
          result,       \* Promise.result or .reason
          awaiting,     \* the activations of interpreter_await, innermost last
          exited,       \* why the process has stopped, "no" while it runs
          answer        \* what the last await to return was given and returned

vars == <<state, task, result, awaiting, exited, answer>>

States == {"unborn", "pending", "fulfilled", "rejected"}
ExitReasons == {"no", "pending", "itself", "rejected"}

\* One activation: the promise awaited, the promise `current` of the loop, and
\* whether it has called run_async_task and not yet come back from it.
Activations == [origin : Promises, current : Promises, running : BOOLEAN]

\* The answer of an await before any has returned.
NoAnswer == [origin |-> NoValue, value |-> NoValue]
Answers == [origin : Promises, value : Plain]

TypeOK ==
  /\ state \in [Promises -> States]
  /\ task \in [Promises -> BOOLEAN]
  /\ result \in [Promises -> Values \cup {NoValue}]
  /\ awaiting \in Seq(Activations)
  /\ exited \in ExitReasons
  /\ answer \in Answers \cup {NoAnswer}

-----------------------------------------------------------------------------
Init ==
  /\ state = [p \in Promises |-> "unborn"]
  /\ task = [p \in Promises |-> FALSE]
  /\ result = [p \in Promises |-> NoValue]
  /\ awaiting = <<>>
  /\ exited = "no"
  /\ answer = NoAnswer

Depth == Len(awaiting)
Top == awaiting[Depth]
Born == {p \in Promises : state[p] # "unborn"}
Reachable == Born \cup Plain    \* what the script can name

ScriptRuns == exited = "no" /\ (Depth > 0 => Top.running)
AwaitRuns == exited = "no" /\ Depth > 0 /\ ~Top.running

-----------------------------------------------------------------------------
(* What script code may do.                                                *)

\* A call of an async function: a pending promise with a task, and no more.
CreateAsyncPromise(p) ==
  /\ ScriptRuns
  /\ state[p] = "unborn"
  /\ state' = [state EXCEPT ![p] = "pending"]
  /\ task' = [task EXCEPT ![p] = TRUE]
  /\ UNCHANGED <<result, awaiting, exited, answer>>

\* Promise.resolve(v): a promise is handed back as it is (no step of the
\* model), any other value becomes a promise fulfilled at birth.
PromiseResolve(p, v) ==
  /\ ScriptRuns
  /\ state[p] = "unborn"
  /\ v \in Plain
  /\ state' = [state EXCEPT ![p] = "fulfilled"]
  /\ result' = [result EXCEPT ![p] = v]
  /\ UNCHANGED <<task, awaiting, exited, answer>>

\* Promise.reject(v): any value may be the reason, a promise included.
PromiseReject(p, v) ==
  /\ ScriptRuns
  /\ state[p] = "unborn"
  /\ v \in Reachable
  /\ state' = [state EXCEPT ![p] = "rejected"]
  /\ result' = [result EXCEPT ![p] = v]
  /\ UNCHANGED <<task, awaiting, exited, answer>>

\* `await p` in the script, or interpreter_call_and_await: enter the loop.
\* (Awaiting a plain value returns it at once and changes nothing.)
BeginAwait(p) ==
  /\ ScriptRuns
  /\ Depth < MaxDepth
  /\ p \in Born
  /\ awaiting' = Append(awaiting, [origin |-> p, current |-> p, running |-> FALSE])
  /\ UNCHANGED <<state, task, result, exited, answer>>

\* The body of the task that the innermost await runs returns v: back in
\* interpreter_await, which resolves the promise and frees the task.
FinishTask(v) ==
  /\ exited = "no" /\ Depth > 0 /\ Top.running
  /\ v \in Reachable
  /\ state' = [state EXCEPT ![Top.current] = "fulfilled"]
  /\ result' = [result EXCEPT ![Top.current] = v]
  /\ awaiting' = [awaiting EXCEPT ![Depth].running = FALSE]
  /\ UNCHANGED <<task, exited, answer>>

-----------------------------------------------------------------------------
(* The loop of interpreter_await, one action per way through it.           *)

\* Mutant of StartTask: promise_take_task leaves the task where it is.
StartTask_KeepsTask ==
  /\ AwaitRuns
  /\ state[Top.current] = "pending"
  /\ task[Top.current]
  /\ awaiting' = [awaiting EXCEPT ![Depth].running = TRUE]
  /\ UNCHANGED <<state, task, result, exited, answer>>

\* Pending with a task: take the task and run it.
StartTask ==
  /\ AwaitRuns
  /\ state[Top.current] = "pending"
  /\ task[Top.current]
  /\ task' = [task EXCEPT ![Top.current] = FALSE]
  /\ awaiting' = [awaiting EXCEPT ![Depth].running = TRUE]
  /\ UNCHANGED <<state, result, exited, answer>>

\* Mutant of StillPending: the task is not looked at.
StillPending_IgnoresTask ==
  /\ AwaitRuns
  /\ state[Top.current] = "pending"
  /\ exited' = "pending"
  /\ UNCHANGED <<state, task, result, awaiting, answer>>

\* Pending without one: "Promise is still pending".
StillPending ==
  /\ AwaitRuns
  /\ state[Top.current] = "pending"
  /\ ~task[Top.current]
  /\ exited' = "pending"
  /\ UNCHANGED <<state, task, result, awaiting, answer>>

\* Fulfilled with another promise: that one is awaited next.
FollowResult ==
  /\ AwaitRuns
  /\ state[Top.current] = "fulfilled"
  /\ result[Top.current] \in Promises \ {Top.current}
  /\ awaiting' = [awaiting EXCEPT ![Depth].current = result[Top.current]]
  /\ UNCHANGED <<state, task, result, exited, answer>>

\* Mutant of ResolvedWithItself: without the test the loop goes round.
ResolvedWithItself_Unchecked ==
  /\ AwaitRuns
  /\ state[Top.current] = "fulfilled"
  /\ result[Top.current] = Top.current
  /\ UNCHANGED vars

\* Fulfilled with itself: "Promise resolved with itself".
ResolvedWithItself ==
  /\ AwaitRuns
  /\ state[Top.current] = "fulfilled"
  /\ result[Top.current] = Top.current
  /\ exited' = "itself"
  /\ UNCHANGED <<state, task, result, awaiting, answer>>

\* Rejected: the process stops, there is nothing to catch it with.
Rejected ==
  /\ AwaitRuns
  /\ state[Top.current] = "rejected"
  /\ exited' = "rejected"
  /\ UNCHANGED <<state, task, result, awaiting, answer>>

\* Mutant of EndAwait: one level only, whatever the promise is fulfilled with.
EndAwait_OneLevel ==
  /\ AwaitRuns
  /\ state[Top.current] = "fulfilled"
  /\ answer' = [origin |-> Top.origin, value |-> result[Top.current]]
  /\ awaiting' = SubSeq(awaiting, 1, Depth - 1)
  /\ UNCHANGED <<state, task, result, exited>>

\* Fulfilled with a plain value: the await returns a clone of it.
EndAwait ==
  /\ AwaitRuns
  /\ state[Top.current] = "fulfilled"
  /\ result[Top.current] \in Plain
  /\ answer' = [origin |-> Top.origin, value |-> result[Top.current]]
  /\ awaiting' = SubSeq(awaiting, 1, Depth - 1)
  /\ UNCHANGED <<state, task, result, exited>>

InterpreterAwait ==
  \/ StartTask
  \/ StillPending
  \/ FollowResult
  \/ ResolvedWithItself
  \/ Rejected
  \/ EndAwait

Script ==
  \/ \E p \in Promises : CreateAsyncPromise(p)
  \/ \E p \in Promises, v \in Values : PromiseResolve(p, v)
  \/ \E p \in Promises, v \in Values : PromiseReject(p, v)
  \/ \E p \in Promises : BeginAwait(p)

Next == Script \/ (\E v \in Values : FinishTask(v)) \/ InterpreterAwait

Spec == Init /\ [][Next]_vars

\* The interpreter never pauses in its own loop.  A body may await promises
\* that are already settled as often as it likes before it returns, so what
\* is assumed of scripts is strong: a body whose turn keeps coming returns.
Fairness ==
  /\ WF_vars(InterpreterAwait)
  /\ SF_vars(\E v \in Values : FinishTask(v))

FairSpec == Spec /\ Fairness

-----------------------------------------------------------------------------
(* Safety.                                                                 *)

IsRunning(i) == awaiting[i].running
RunnerOf(p) == {i \in 1..Depth : IsRunning(i) /\ awaiting[i].current = p}

\* A promise whose task has been taken and which has not settled is being run
\* by exactly one activation, and every activation that runs a task runs that
\* of a pending promise: no body is ever run twice or forgotten, however the
\* awaits nest (promise_take_task, call.c:54-62).
OneRunnerPerTakenTask ==
  /\ \A i \in 1..Depth : IsRunning(i) =>
       state[awaiting[i].current] = "pending" /\ ~task[awaiting[i].current]
  /\ \A i, j \in 1..Depth :
       IsRunning(i) /\ IsRunning(j) /\ awaiting[i].current = awaiting[j].current
         => i = j
  /\ \A p \in Promises :
       state[p] = "pending" /\ ~task[p] => RunnerOf(p) # {}

\* The error "Promise is still pending" (call.c:63-68) has one cause: a body
\* that awaits, directly or through other bodies, the promise it has to
\* settle.  Nothing else leaves a promise without task and result.
StillPendingOnlyIfReentrant ==
  exited = "pending" => RunnerOf(Top.current) \ {Depth} # {}

\* Sets of promises that the results of their members do not lead out of; the
\* least one with p in it is where the results of p lead.
Closed(C) ==
  \A q \in C : state[q] = "fulfilled" /\ result[q] \in Promises => result[q] \in C
LedTo(p, q) == \A C \in SUBSET Promises : p \in C /\ Closed(C) => q \in C

\* What an await returned is what the results of the awaited promise lead to,
\* then and at every later time: awaiting it again gives the same value.  (A
\* promise fulfilled with a plain value leads nowhere else, so that there is
\* only one such end.)
AnswerIsEndOfChain ==
  answer # NoAnswer =>
    \E last \in Promises :
      /\ LedTo(answer.origin, last)
      /\ state[last] = "fulfilled" /\ result[last] = answer.value
      /\ answer.value \in Plain

-----------------------------------------------------------------------------
(* Refinement and liveness.                                                *)

Settled == {p \in Promises : state[p] \in {"fulfilled", "rejected"}}

Abstract == INSTANCE PromiseSpec WITH
  status <- [p \in Promises |->
               IF state[p] = "pending" /\ ~task[p] THEN "running" ELSE state[p]],
  outcome <- [p \in Promises |->
               IF p \in Settled THEN result[p] ELSE "no outcome"]

\* However awaits nest, every body starts at most once, only a started body
\* settles its promise, and no settled promise changes (promise_resolve and
\* promise_reject overwrite whatever is there, promise.c:80-108: nothing but
\* the order of the calls keeps this).
KeepsPromises == Abstract!ASpec

\* Where the results of p lead after n hops; a promise that has not been
\* fulfilled, or was fulfilled with a plain value, leads nowhere else.
MaxHops == Cardinality(Promises)
Hops(p) ==
  LET hop[n \in 0..MaxHops] ==
        IF n = 0 THEN p
        ELSE LET q == hop[n - 1]
             IN  IF state[q] = "fulfilled" /\ result[q] \in Promises
                 THEN result[q] ELSE q
  IN  hop

\* Promises fulfilled with one another in a ring: interpreter_await tests only
\* for a promise fulfilled with itself (call.c:74), so it goes round for ever.
InRing(p) ==
  /\ state[p] = "fulfilled" /\ result[p] \in Promises \ {p}
  /\ \E n \in 1..MaxHops : Hops(p)[n] = p
ChasesRing == AwaitRuns /\ InRing(Top.current)

\* Every await comes back or stops the process, unless it goes round a ring
\* of promises fulfilled with one another; there is no other way to hang.
AwaitComesBack ==
  Depth > 0 ~> (Depth = 0 \/ exited # "no" \/ ChasesRing)
=============================================================================
