----------------------------- MODULE AwaitProofs ------------------------------
(***************************************************************************)
(* Proofs about module Await, for every set of promises, every set of      *)
(* plain values and every bound on the nesting of awaits.                  *)
(***************************************************************************)
EXTENDS Await, SequenceTheorems, TLAPS

\* Only the innermost activation can be between two turns of its loop.
LowerActivationsRun == \A i \in 1..(Depth - 1) : awaiting[i].running

\* A task hangs on a pending promise or not at all.
TaskOnlyWhilePending == \A p \in Promises : task[p] => state[p] = "pending"

\* A fulfilled or rejected promise has a result.
SettledHasResult == \A p \in Settled : result[p] \in Values

\* The process stopped with "still pending" inside the loop of an await.
ExitInsideAwait == exited = "pending" => Depth > 0 /\ ~Top.running

IInv ==
  /\ TypeOK
  /\ LowerActivationsRun
  /\ TaskOnlyWhilePending
  /\ SettledHasResult
  /\ OneRunnerPerTakenTask
  /\ ExitInsideAwait
  /\ StillPendingOnlyIfReentrant

-----------------------------------------------------------------------------
(* What the three ways of changing the stack of activations do to it.      *)

LEMMA TopIsActivation ==
  ASSUME TypeOK, Depth > 0
  PROVE  /\ Depth \in 1..Depth
         /\ Depth \in Nat
         /\ Top \in Activations
         /\ Top.current \in Promises
         /\ Top.origin \in Promises
         /\ Top.running \in BOOLEAN
<1>1. awaiting \in Seq(Activations)
  BY DEF TypeOK
<1>2. Depth \in Nat
  BY <1>1, LenProperties DEF Depth
<1>3. Top \in Activations
  BY <1>1, <1>2, ElementOfSeq DEF Depth, Top
<1> QED
  BY <1>2, <1>3 DEF Activations

LEMMA ReplaceTop ==
  ASSUME TypeOK, Depth > 0, NEW a \in Activations,
         awaiting' = [awaiting EXCEPT ![Depth] = a]
  PROVE  /\ awaiting' \in Seq(Activations)
         /\ Depth' = Depth
         /\ Top' = a
         /\ \A i \in 1..Depth : awaiting'[i] = IF i = Depth THEN a ELSE awaiting[i]
<1>1. awaiting \in Seq(Activations) /\ Depth \in 1..Len(awaiting)
  BY TopIsActivation DEF TypeOK, Depth
<1>2. /\ awaiting' \in Seq(Activations)
      /\ Len(awaiting') = Len(awaiting)
      /\ \A i \in 1..Len(awaiting) :
           awaiting'[i] = IF i = Depth THEN a ELSE awaiting[i]
  BY <1>1, ExceptSeq
<1> QED
  BY <1>1, <1>2 DEF Depth, Top

LEMMA PushActivation ==
  ASSUME TypeOK, NEW a \in Activations, awaiting' = Append(awaiting, a)
  PROVE  /\ awaiting' \in Seq(Activations)
         /\ Depth \in Nat
         /\ Depth' = Depth + 1
         /\ Top' = a
         /\ \A i \in 1..Depth : awaiting'[i] = awaiting[i]
<1>1. awaiting \in Seq(Activations)
  BY DEF TypeOK
<1> QED
  BY <1>1 DEF Depth, Top

LEMMA PopActivation ==
  ASSUME TypeOK, Depth > 0, awaiting' = SubSeq(awaiting, 1, Depth - 1)
  PROVE  /\ awaiting' \in Seq(Activations)
         /\ Depth \in Nat
         /\ Depth' = Depth - 1
         /\ \A i \in 1..(Depth - 1) : awaiting'[i] = awaiting[i]
<1>1. awaiting \in Seq(Activations) /\ Depth \in Nat \ {0}
  BY TopIsActivation DEF TypeOK
<1>2. \A i \in 1..(Depth - 1) : awaiting[i] \in Activations
  BY <1>1, ElementOfSeq DEF Depth
<1>3. /\ awaiting' \in Seq(Activations)
      /\ Len(awaiting') = IF 1 <= Depth - 1 THEN (Depth - 1) - 1 + 1 ELSE 0
      /\ \A i \in 1..((Depth - 1) - 1 + 1) : awaiting'[i] = awaiting[1 + i - 1]
  BY <1>1, <1>2, SubSeqProperties
<1>4. Len(awaiting') = Depth - 1
  BY <1>1, <1>3
<1>5. \A i \in 1..(Depth - 1) : awaiting'[i] = awaiting[i]
  <2> TAKE i \in 1..(Depth - 1)
  <2>1. i \in 1..((Depth - 1) - 1 + 1) /\ 1 + i - 1 = i
    BY <1>1
  <2> QED
    BY <1>3, <2>1
<1> QED
  BY <1>1, <1>3, <1>4, <1>5 DEF Depth

-----------------------------------------------------------------------------
(* The inductive invariant.                                                *)

LEMMA InitInvariant == Init => IInv
<1> SUFFICES ASSUME Init PROVE IInv
  OBVIOUS
<1>1. awaiting \in Seq(Activations) /\ Depth = 0
  BY EmptySeq DEF Init, Depth
<1>2. TypeOK
  BY <1>1 DEF Init, TypeOK, States, ExitReasons
<1> QED
  BY <1>1, <1>2 DEF Init, IInv, LowerActivationsRun, TaskOnlyWhilePending, Settled,
     SettledHasResult, OneRunnerPerTakenTask, ExitInsideAwait, StillPendingOnlyIfReentrant

\* Script code only adds to the world, so promises that are being run keep
\* their state: a birth of p disturbs nothing that concerns other promises.
LEMMA BirthKeepsInvariant ==
  ASSUME IInv, NEW p \in Promises,
         CreateAsyncPromise(p) \/ \E v \in Values : PromiseResolve(p, v) \/ PromiseReject(p, v)
  PROVE  IInv'
<1> USE DEF IInv
<1>1. /\ state[p] = "unborn" /\ exited = "no"
      /\ UNCHANGED <<awaiting, exited, answer>>
  BY DEF CreateAsyncPromise, PromiseResolve, PromiseReject, ScriptRuns
<1>2. /\ \/ state' = [state EXCEPT ![p] = "pending"] /\ task' = [task EXCEPT ![p] = TRUE]
            /\ UNCHANGED result
         \/ /\ task' = task
            /\ \E how \in {"fulfilled", "rejected"} : state' = [state EXCEPT ![p] = how]
            /\ \E v \in Values : result' = [result EXCEPT ![p] = v]
  BY DEF CreateAsyncPromise, PromiseResolve, PromiseReject
<1>3. TypeOK'
  BY <1>1, <1>2 DEF TypeOK, States
<1>4. Depth' = Depth /\ Top' = Top
  BY <1>1 DEF Depth, Top
<1>5. LowerActivationsRun' /\ ExitInsideAwait'
  BY <1>1, <1>4 DEF LowerActivationsRun, ExitInsideAwait
<1>6. TaskOnlyWhilePending' /\ SettledHasResult'
  BY <1>1, <1>2 DEF TypeOK, TaskOnlyWhilePending, SettledHasResult, Settled
<1>7. \A i \in 1..Depth : IsRunning(i) => awaiting[i].current # p
  BY <1>1 DEF OneRunnerPerTakenTask
<1>8. \A i \in 1..Depth : awaiting[i].current \in Promises
  <2> TAKE i \in 1..Depth
  <2>1. awaiting[i] \in Activations
    BY ElementOfSeq DEF TypeOK, Depth
  <2> QED
    BY <2>1 DEF Activations
<1>9. \A q \in Promises \ {p} : state'[q] = state[q] /\ task'[q] = task[q]
  BY <1>2 DEF TypeOK
<1>10. ~(state'[p] = "pending" /\ ~task'[p])
  BY <1>2 DEF TypeOK
<1>11. OneRunnerPerTakenTask'
  <2>1. \A q \in Promises : RunnerOf(q)' = RunnerOf(q)
    BY <1>1, <1>4 DEF RunnerOf, IsRunning
  <2> QED
    BY <1>1, <1>4, <1>7, <1>8, <1>9, <1>10, <2>1 DEF OneRunnerPerTakenTask, IsRunning
<1> QED
  BY <1>1, <1>3, <1>5, <1>6, <1>11 DEF StillPendingOnlyIfReentrant

\* The steps that leave promises alone and move the stack: entering an await,
\* following a result and leaving an await.
LEMMA StackStepKeepsInvariant ==
  ASSUME IInv,
         (\E p \in Promises : BeginAwait(p)) \/ FollowResult \/ EndAwait
  PROVE  IInv'
<1> USE DEF IInv
<1>1. UNCHANGED <<state, task, result, exited>> /\ exited = "no"
  BY DEF BeginAwait, FollowResult, EndAwait, ScriptRuns, AwaitRuns
<1>2. TaskOnlyWhilePending' /\ SettledHasResult'
  BY <1>1 DEF TaskOnlyWhilePending, SettledHasResult, Settled
<1>3. ExitInsideAwait' /\ StillPendingOnlyIfReentrant'
  BY <1>1 DEF ExitInsideAwait, StillPendingOnlyIfReentrant
<1>4. ASSUME awaiting' \in Seq(Activations), answer' \in Answers \cup {NoAnswer},
             Depth' \in Nat, Depth \in Nat,
             \A i \in 1..Depth' : awaiting'[i].running => i \in 1..Depth /\ awaiting'[i] = awaiting[i],
             \A i \in 1..Depth : awaiting[i].running => i \in 1..Depth' /\ awaiting'[i] = awaiting[i],
             LowerActivationsRun'
      PROVE  IInv'
  <2>1. TypeOK'
    BY <1>1, <1>4 DEF TypeOK
  <2>2. \A q \in Promises : RunnerOf(q)' = RunnerOf(q)
    BY <1>4 DEF RunnerOf, IsRunning
  <2>3. OneRunnerPerTakenTask'
    BY <1>1, <1>4, <2>2 DEF OneRunnerPerTakenTask, IsRunning
  <2> QED
    BY <1>2, <1>3, <1>4, <2>1, <2>3
<1>5. CASE \E p \in Promises : BeginAwait(p)
  <2>1. PICK p \in Promises : BeginAwait(p)
    BY <1>5
  <2> DEFINE a == [origin |-> p, current |-> p, running |-> FALSE]
  <2>2. a \in Activations /\ awaiting' = Append(awaiting, a) /\ answer' = answer
    BY <2>1 DEF BeginAwait, Activations
  <2>3. Depth > 0 => Top.running
    BY <2>1 DEF BeginAwait, ScriptRuns
  <2> HIDE DEF a
  <2>4. /\ awaiting' \in Seq(Activations) /\ Depth \in Nat /\ Depth' = Depth + 1
        /\ Top' = a /\ \A i \in 1..Depth : awaiting'[i] = awaiting[i]
    BY <2>2, PushActivation
  <2>5. awaiting'[Depth + 1] = a /\ ~a.running
    BY <2>4 DEF Top, a
  <2>6. LowerActivationsRun'
    BY <2>3, <2>4 DEF LowerActivationsRun, Top
  <2>7. answer' \in Answers \cup {NoAnswer}
    BY <2>2 DEF TypeOK
  <2>8. \A i \in 1..Depth' : awaiting'[i].running => i \in 1..Depth /\ awaiting'[i] = awaiting[i]
    BY <2>4, <2>5
  <2> QED
    BY <1>4, <2>4, <2>6, <2>7, <2>8
<1>6. CASE FollowResult
  <2> DEFINE a == [Top EXCEPT !.current = result[Top.current]]
  <2>1. Depth > 0 /\ ~Top.running
    BY <1>6 DEF FollowResult, AwaitRuns
  <2>2. a \in Activations /\ ~a.running
    BY <1>6, <2>1, TopIsActivation DEF FollowResult, Activations
  <2>3. awaiting' = [awaiting EXCEPT ![Depth] = a] /\ answer' = answer
    BY <1>6 DEF FollowResult, Top
  <2> HIDE DEF a
  <2>4. /\ awaiting' \in Seq(Activations) /\ Depth' = Depth
        /\ \A i \in 1..Depth : awaiting'[i] = IF i = Depth THEN a ELSE awaiting[i]
    BY <2>1, <2>2, <2>3, ReplaceTop
  <2>5. Depth \in Nat /\ LowerActivationsRun'
    BY <2>1, <2>4, TopIsActivation DEF LowerActivationsRun
  <2> QED
    BY <1>4, <2>1, <2>2, <2>3, <2>4, <2>5 DEF TypeOK, Top
<1>7. CASE EndAwait
  <2>1. Depth > 0 /\ ~Top.running /\ awaiting' = SubSeq(awaiting, 1, Depth - 1)
    BY <1>7 DEF EndAwait, AwaitRuns
  <2>2. /\ awaiting' \in Seq(Activations) /\ Depth \in Nat /\ Depth' = Depth - 1
        /\ \A i \in 1..(Depth - 1) : awaiting'[i] = awaiting[i]
    BY <2>1, PopActivation
  <2>3. answer' \in Answers
    BY <1>7, <2>1, TopIsActivation DEF EndAwait, Answers
  <2>4. LowerActivationsRun'
    BY <2>1, <2>2 DEF LowerActivationsRun
  <2> QED
    BY <1>4, <2>1, <2>2, <2>3, <2>4 DEF Top
<1> QED
  BY <1>5, <1>6, <1>7

\* Taking the task off a pending promise: its activation becomes its runner.
LEMMA StartTaskKeepsInvariant ==
  ASSUME IInv, StartTask
  PROVE  IInv'
<1> USE DEF IInv
<1> DEFINE p == Top.current
           a == [Top EXCEPT !.running = TRUE]
<1>1. /\ Depth > 0 /\ ~Top.running /\ exited = "no"
      /\ state[p] = "pending" /\ task[p]
      /\ task' = [task EXCEPT ![p] = FALSE]
      /\ awaiting' = [awaiting EXCEPT ![Depth] = a]
      /\ UNCHANGED <<state, result, exited, answer>>
  BY DEF StartTask, AwaitRuns, Top
<1>2. /\ Depth \in Nat /\ Depth \in 1..Depth /\ p \in Promises
      /\ a \in Activations /\ a.running /\ a.current = p
  BY <1>1, TopIsActivation DEF Activations
<1>3. Top = awaiting[Depth]
  BY DEF Top
<1> HIDE DEF p, a
<1>4. /\ awaiting' \in Seq(Activations) /\ Depth' = Depth
      /\ \A i \in 1..Depth : awaiting'[i] = IF i = Depth THEN a ELSE awaiting[i]
  BY <1>1, <1>2, ReplaceTop
<1>5. TypeOK'
  BY <1>1, <1>4 DEF TypeOK
<1>6. /\ LowerActivationsRun' /\ TaskOnlyWhilePending' /\ SettledHasResult'
      /\ ExitInsideAwait' /\ StillPendingOnlyIfReentrant'
  BY <1>1, <1>2, <1>4 DEF TypeOK, LowerActivationsRun, TaskOnlyWhilePending, SettledHasResult,
     Settled, ExitInsideAwait, StillPendingOnlyIfReentrant
<1>7. \A i \in 1..Depth : awaiting[i].running => awaiting[i].current # p
  BY <1>1 DEF OneRunnerPerTakenTask, IsRunning
<1>8. \A i \in 1..Depth' : IsRunning(i)' =>
        state'[awaiting'[i].current] = "pending" /\ ~task'[awaiting'[i].current]
  <2> SUFFICES ASSUME NEW i \in 1..Depth, awaiting'[i].running
               PROVE  state'[awaiting'[i].current] = "pending" /\ ~task'[awaiting'[i].current]
    BY <1>4 DEF IsRunning
  <2>1. CASE i = Depth
    BY <1>1, <1>2, <1>4, <2>1 DEF TypeOK
  <2>2. CASE i # Depth
    <3>1. awaiting'[i] = awaiting[i] /\ awaiting[i].running
      BY <1>4, <2>2
    <3>2. state[awaiting[i].current] = "pending" /\ ~task[awaiting[i].current]
      BY <3>1 DEF OneRunnerPerTakenTask, IsRunning
    <3> QED
      BY <1>1, <1>2, <1>7, <3>1, <3>2 DEF TypeOK
  <2> QED
    BY <2>1, <2>2
<1>9. \A i, j \in 1..Depth' :
        IsRunning(i)' /\ IsRunning(j)' /\ awaiting'[i].current = awaiting'[j].current => i = j
  BY <1>2, <1>4, <1>7 DEF OneRunnerPerTakenTask, IsRunning
<1>10. ASSUME NEW q \in Promises, state'[q] = "pending", ~task'[q]
       PROVE  RunnerOf(q)' # {}
  <2>1. CASE q = p
    BY <1>2, <1>4, <2>1 DEF RunnerOf, IsRunning
  <2>2. CASE q # p
    <3>1. state[q] = "pending" /\ ~task[q]
      BY <1>1, <1>2, <1>10, <2>2 DEF TypeOK
    <3>2. PICK i \in 1..Depth : awaiting[i].running /\ awaiting[i].current = q
      BY <3>1 DEF OneRunnerPerTakenTask, RunnerOf, IsRunning
    <3>3. awaiting'[i] = awaiting[i]
      BY <1>1, <1>3, <1>4, <3>2
    <3> QED
      BY <1>4, <3>2, <3>3 DEF RunnerOf, IsRunning
  <2> QED
    BY <2>1, <2>2
<1> QED
  BY <1>5, <1>6, <1>8, <1>9, <1>10 DEF OneRunnerPerTakenTask

\* The end of a body settles the one promise it was run for.
LEMMA FinishTaskKeepsInvariant ==
  ASSUME IInv, NEW v \in Values, FinishTask(v)
  PROVE  IInv'
<1> USE DEF IInv
<1> DEFINE p == Top.current
           a == [Top EXCEPT !.running = FALSE]
<1>1. /\ Depth > 0 /\ Top.running /\ exited = "no"
      /\ state' = [state EXCEPT ![p] = "fulfilled"]
      /\ result' = [result EXCEPT ![p] = v]
      /\ awaiting' = [awaiting EXCEPT ![Depth] = a]
      /\ UNCHANGED <<task, exited, answer>>
  BY DEF FinishTask, Top
<1>2. /\ Depth \in Nat /\ Depth \in 1..Depth /\ p \in Promises
      /\ a \in Activations /\ ~a.running
  BY <1>1, TopIsActivation DEF Activations
<1>3. awaiting[Depth].running /\ awaiting[Depth].current = p
  BY <1>1 DEF Top
<1> HIDE DEF p, a
<1>4. /\ awaiting' \in Seq(Activations) /\ Depth' = Depth
      /\ \A i \in 1..Depth : awaiting'[i] = IF i = Depth THEN a ELSE awaiting[i]
  BY <1>1, <1>2, ReplaceTop
<1>5. TypeOK'
  BY <1>1, <1>4 DEF TypeOK, States
<1>6. ~task[p] /\ \A i \in 1..Depth : awaiting[i].running /\ i # Depth => awaiting[i].current # p
  BY <1>2, <1>3 DEF OneRunnerPerTakenTask, IsRunning
<1>7. /\ LowerActivationsRun' /\ TaskOnlyWhilePending' /\ SettledHasResult'
      /\ ExitInsideAwait' /\ StillPendingOnlyIfReentrant'
  BY <1>1, <1>2, <1>4, <1>6 DEF TypeOK, LowerActivationsRun, TaskOnlyWhilePending,
     SettledHasResult, Settled, ExitInsideAwait, StillPendingOnlyIfReentrant
<1>8. \A i \in 1..Depth' : IsRunning(i)' =>
        state'[awaiting'[i].current] = "pending" /\ ~task'[awaiting'[i].current]
  BY <1>1, <1>2, <1>4, <1>6 DEF TypeOK, OneRunnerPerTakenTask, IsRunning
<1>9. \A i, j \in 1..Depth' :
        IsRunning(i)' /\ IsRunning(j)' /\ awaiting'[i].current = awaiting'[j].current => i = j
  BY <1>2, <1>4 DEF OneRunnerPerTakenTask, IsRunning
<1>10. ASSUME NEW q \in Promises, state'[q] = "pending", ~task'[q]
       PROVE  RunnerOf(q)' # {}
  <2>1. q # p /\ state[q] = "pending" /\ ~task[q]
    BY <1>1, <1>2, <1>10 DEF TypeOK
  <2>2. PICK i \in 1..Depth : awaiting[i].running /\ awaiting[i].current = q
    BY <2>1 DEF OneRunnerPerTakenTask, RunnerOf, IsRunning
  <2>3. awaiting'[i] = awaiting[i]
    BY <1>3, <1>4, <2>1, <2>2
  <2> QED
    BY <1>4, <2>2, <2>3 DEF RunnerOf, IsRunning
<1> QED
  BY <1>5, <1>7, <1>8, <1>9, <1>10 DEF OneRunnerPerTakenTask

\* The steps that stop the process.  Stopping with "still pending" is the one
\* with something to show: the promise has a runner, which is not the
\* activation that gives up, because that one is not running.
LEMMA ExitKeepsInvariant ==
  ASSUME IInv, StillPending \/ ResolvedWithItself \/ Rejected
  PROVE  IInv'
<1> USE DEF IInv
<1>1. /\ Depth > 0 /\ ~Top.running
      /\ exited' \in ExitReasons
      /\ UNCHANGED <<state, task, result, awaiting, answer>>
  BY DEF StillPending, ResolvedWithItself, Rejected, AwaitRuns, ExitReasons
<1>2. Depth' = Depth /\ Top' = Top
  BY <1>1 DEF Depth, Top
<1>3. \A q \in Promises : RunnerOf(q)' = RunnerOf(q)
  BY <1>1, <1>2 DEF RunnerOf, IsRunning
<1>4. /\ TypeOK' /\ LowerActivationsRun' /\ TaskOnlyWhilePending' /\ SettledHasResult'
      /\ ExitInsideAwait'
  BY <1>1, <1>2 DEF TypeOK, LowerActivationsRun, TaskOnlyWhilePending, SettledHasResult,
     Settled, ExitInsideAwait
<1>5. OneRunnerPerTakenTask'
  BY <1>1, <1>2, <1>3 DEF OneRunnerPerTakenTask, IsRunning
<1>6. Top.current \in Promises
  BY <1>1, TopIsActivation
<1>7. StillPendingOnlyIfReentrant'
  <2> SUFFICES ASSUME exited' = "pending"
               PROVE  RunnerOf(Top.current) \ {Depth} # {}
    BY <1>1, <1>2 DEF StillPendingOnlyIfReentrant, RunnerOf, IsRunning
  <2>1. state[Top.current] = "pending" /\ ~task[Top.current]
    BY DEF StillPending, ResolvedWithItself, Rejected
  <2>2. PICK i \in 1..Depth : awaiting[i].running /\ awaiting[i].current = Top.current
    BY <1>6, <2>1 DEF OneRunnerPerTakenTask, RunnerOf, IsRunning
  <2>3. i # Depth
    BY <1>1, <2>2 DEF Top
  <2> QED
    BY <2>2, <2>3 DEF RunnerOf, IsRunning
<1> QED
  BY <1>4, <1>5, <1>7

LEMMA StepKeepsInvariant == IInv /\ [Next]_vars => IInv'
<1> SUFFICES ASSUME IInv, [Next]_vars
             PROVE  IInv'
  OBVIOUS
<1>1. CASE UNCHANGED vars
  <2>1. Depth' = Depth /\ Top' = Top /\ \A q : RunnerOf(q)' = RunnerOf(q)
    BY <1>1 DEF vars, Depth, Top, RunnerOf, IsRunning
  <2> QED
    BY <1>1, <2>1 DEF vars, IInv, TypeOK, LowerActivationsRun, TaskOnlyWhilePending,
       SettledHasResult, Settled, OneRunnerPerTakenTask, IsRunning, ExitInsideAwait,
       StillPendingOnlyIfReentrant
<1>2. CASE Script
  BY <1>2, BirthKeepsInvariant, StackStepKeepsInvariant DEF Script
<1>3. CASE \E v \in Values : FinishTask(v)
  BY <1>3, FinishTaskKeepsInvariant
<1>4. CASE InterpreterAwait
  BY <1>4, StartTaskKeepsInvariant, StackStepKeepsInvariant, ExitKeepsInvariant
     DEF InterpreterAwait
<1> QED
  BY <1>1, <1>2, <1>3, <1>4 DEF Next

THEOREM InvariantHolds == Spec => []IInv
<1> QED
  BY InitInvariant, StepKeepsInvariant, PTL DEF Spec

-----------------------------------------------------------------------------
(* The theorems.                                                           *)

\* Every variable of the await machine keeps its type: the fields of Promise
\* (promise.h) and the loop state of interpreter_await.
THEOREM TypeCorrect == Spec => []TypeOK
<1>1. IInv => TypeOK
  BY DEF IInv
<1> QED
  BY <1>1, InvariantHolds, PTL

\* No body of an async call is run twice or lost: promise_take_task and the
\* loop of interpreter_await keep one runner for every promise whose task has
\* been taken and which has not settled.
THEOREM OneRunner == Spec => []OneRunnerPerTakenTask
<1>1. IInv => OneRunnerPerTakenTask
  BY DEF IInv
<1> QED
  BY <1>1, InvariantHolds, PTL

\* "Promise is still pending" is only ever raised by a body that awaits the
\* promise it has to settle, through whatever chain of awaits.
THEOREM ReentrantAwait == Spec => []StillPendingOnlyIfReentrant
<1>1. IInv => StillPendingOnlyIfReentrant
  BY DEF IInv
<1> QED
  BY <1>1, InvariantHolds, PTL

-----------------------------------------------------------------------------
(* Where the results of promises lead.                                     *)

\* The loop of an activation has followed results, from the promise it was
\* given to where it is.
ChainsFollowed == \A i \in 1..Depth : LedTo(awaiting[i].origin, awaiting[i].current)

\* Fulfilled promises keep their results.
Kept ==
  \A q \in Promises :
    state[q] = "fulfilled" => state'[q] = "fulfilled" /\ result'[q] = result[q]

LEMMA StepKeepsResults ==
  ASSUME IInv, [Next]_vars
  PROVE  Kept
<1> USE DEF IInv
<1>1. CASE UNCHANGED <<state, result>>
  BY <1>1 DEF Kept
<1>2. ASSUME NEW p \in Promises,
             CreateAsyncPromise(p) \/ \E v \in Values : PromiseResolve(p, v) \/ PromiseReject(p, v)
      PROVE  Kept
  <2>1. state[p] = "unborn"
    BY <1>2 DEF CreateAsyncPromise, PromiseResolve, PromiseReject
  <2>2. \A q \in Promises \ {p} : state'[q] = state[q] /\ result'[q] = result[q]
    BY <1>2 DEF CreateAsyncPromise, PromiseResolve, PromiseReject, TypeOK
  <2> QED
    BY <2>1, <2>2 DEF Kept
<1>3. ASSUME NEW v \in Values, FinishTask(v) PROVE Kept
  <2>1. Depth \in 1..Depth /\ Top.current \in Promises /\ Top.running
    BY <1>3, TopIsActivation DEF FinishTask
  <2>2. state[Top.current] = "pending"
    BY <2>1 DEF OneRunnerPerTakenTask, IsRunning, Top
  <2>3. \A q \in Promises \ {Top.current} : state'[q] = state[q] /\ result'[q] = result[q]
    BY <1>3 DEF FinishTask, TypeOK
  <2> QED
    BY <2>2, <2>3 DEF Kept
<1>4. (\E p \in Promises : BeginAwait(p)) \/ InterpreterAwait \/ UNCHANGED vars
        => UNCHANGED <<state, result>>
  BY DEF BeginAwait, InterpreterAwait, StartTask, StillPending, FollowResult,
         ResolvedWithItself, Rejected, EndAwait, vars
<1> QED
  BY <1>1, <1>2, <1>3, <1>4 DEF Next, Script

\* So what results lead to once, they lead to for ever.
LEMMA LedForEver ==
  ASSUME Kept, NEW p \in Promises, NEW q \in Promises, LedTo(p, q)
  PROVE  LedTo(p, q)'
<1> SUFFICES ASSUME NEW C \in SUBSET Promises, p \in C, Closed(C)' PROVE q \in C
  BY DEF LedTo
<1>1. Closed(C)
  BY DEF Closed, Kept
<1> QED
  BY <1>1 DEF LedTo

LEMMA StackFollows ==
  ASSUME IInv, ChainsFollowed, Kept, [Next]_vars
  PROVE  ChainsFollowed'
<1> USE DEF IInv
<1>1. /\ Depth \in Nat /\ \A i \in 1..Depth : awaiting[i] \in Activations
  BY LenProperties, ElementOfSeq DEF TypeOK, Depth
<1>2. \A i \in 1..Depth :
        /\ awaiting[i].origin \in Promises /\ awaiting[i].current \in Promises
        /\ LedTo(awaiting[i].origin, awaiting[i].current)
  BY <1>1 DEF ChainsFollowed, Activations
<1>3. ASSUME NEW i \in 1..Depth, NEW a, a.origin = awaiting[i].origin,
             a.current = awaiting[i].current
      PROVE  LedTo(a.origin, a.current)'
  BY <1>2, <1>3, LedForEver
<1>4. CASE UNCHANGED awaiting
  BY <1>3, <1>4 DEF ChainsFollowed, Depth
<1>5. ASSUME NEW p \in Promises, BeginAwait(p) PROVE ChainsFollowed'
  <2> DEFINE new == [origin |-> p, current |-> p, running |-> FALSE]
  <2>1. new \in Activations /\ awaiting' = Append(awaiting, new)
    BY <1>5 DEF BeginAwait, Activations
  <2>2. /\ Depth' = Depth + 1 /\ Top' = new
        /\ \A i \in 1..Depth : awaiting'[i] = awaiting[i]
    BY <2>1, PushActivation
  <2>3. LedTo(p, p)'
    BY DEF LedTo
  <2>4. ASSUME NEW i \in 1..(Depth + 1)
        PROVE  LedTo(awaiting[i].origin, awaiting[i].current)'
    <3>1. CASE i = Depth + 1
      BY <2>2, <2>3, <3>1 DEF Top
    <3>2. CASE i # Depth + 1
      <4>1. i \in 1..Depth
        BY <1>1, <3>2
      <4> QED
        BY <1>3, <2>2, <4>1
    <3> QED
      BY <3>1, <3>2
  <2> QED
    BY <2>2, <2>4 DEF ChainsFollowed
<1>6. ASSUME NEW running \in BOOLEAN, Depth > 0,
             awaiting' = [awaiting EXCEPT ![Depth].running = running]
      PROVE  ChainsFollowed'
  <2> DEFINE top == [Top EXCEPT !.running = running]
  <2>1. /\ Top \in Activations /\ top \in Activations
        /\ top.origin = Top.origin /\ top.current = Top.current
    BY <1>6, TopIsActivation DEF Activations
  <2>2. awaiting' = [awaiting EXCEPT ![Depth] = top]
    BY <1>6 DEF Top
  <2>3. /\ Depth' = Depth
        /\ \A i \in 1..Depth : awaiting'[i] = IF i = Depth THEN top ELSE awaiting[i]
    BY <1>6, <2>1, <2>2, ReplaceTop
  <2>4. \A i \in 1..Depth :
          awaiting'[i].origin = awaiting[i].origin /\ awaiting'[i].current = awaiting[i].current
    BY <2>1, <2>3 DEF Top
  <2> QED
    BY <1>3, <2>3, <2>4 DEF ChainsFollowed
<1>7. CASE FollowResult
  <2>1. PICK p \in Promises, c \in Promises : p = Top.origin /\ c = Top.current
    BY <1>7, TopIsActivation DEF FollowResult, AwaitRuns
  <2>2. PICK q \in Promises : q = result[c]
    BY <1>7, <2>1 DEF FollowResult
  <2>3. /\ Depth > 0 /\ state[c] = "fulfilled" /\ UNCHANGED <<state, result>>
    BY <1>7, <2>1 DEF FollowResult, AwaitRuns
  <2>4. PICK top \in Activations :
          /\ top = [Top EXCEPT !.current = q] /\ top.origin = p /\ top.current = q
    <3>1. PICK a \in Activations : a = Top
      BY <2>3, TopIsActivation
    <3>2. /\ [a EXCEPT !.current = q] \in Activations
          /\ [a EXCEPT !.current = q].origin = a.origin
          /\ [a EXCEPT !.current = q].current = q
      BY DEF Activations
    <3> QED
      BY <2>1, <3>1, <3>2
  <2>5. awaiting' = [awaiting EXCEPT ![Depth] = top]
    BY <1>7, <2>1, <2>2, <2>4 DEF FollowResult, Top
  <2>6. /\ Depth' = Depth
        /\ \A i \in 1..Depth : awaiting'[i] = IF i = Depth THEN top ELSE awaiting[i]
    BY <2>3, <2>5, ReplaceTop
  <2>7. LedTo(p, q)'
    <3> SUFFICES ASSUME NEW C \in SUBSET Promises, p \in C, Closed(C)'
                 PROVE  q \in C
      BY DEF LedTo
    <3>1. Closed(C)
      BY <2>3 DEF Closed
    <3>2. LedTo(p, c)
      BY <1>2, <2>1, <2>3, TopIsActivation DEF Top
    <3>3. c \in C
      BY <3>1, <3>2 DEF LedTo
    <3> QED
      BY <2>2, <2>3, <3>1, <3>3 DEF Closed
  <2>8. ASSUME NEW i \in 1..Depth PROVE LedTo(awaiting[i].origin, awaiting[i].current)'
    <3>1. CASE i = Depth
      <4>1. awaiting'[i] = top
        BY <2>6, <3>1
      <4>2. LedTo(top.origin, top.current)'
        BY <2>4, <2>7
      <4> QED
        BY <4>1, <4>2
    <3>2. CASE i # Depth
      BY <1>3, <2>6, <3>2
    <3> QED
      BY <3>1, <3>2
  <2> QED
    BY <2>6, <2>8 DEF ChainsFollowed
<1>8. CASE EndAwait
  <2>1. Depth > 0 /\ awaiting' = SubSeq(awaiting, 1, Depth - 1)
    BY <1>8 DEF EndAwait, AwaitRuns
  <2>2. Depth' = Depth - 1 /\ \A i \in 1..(Depth - 1) : awaiting'[i] = awaiting[i]
    BY <2>1, PopActivation
  <2>3. 1..(Depth - 1) \subseteq 1..Depth
    BY <1>1
  <2> QED
    BY <1>3, <2>2, <2>3 DEF ChainsFollowed
<1>9. CASE StartTask \/ \E v \in Values : FinishTask(v)
  BY <1>6, <1>9 DEF StartTask, FinishTask, AwaitRuns
<1>10. \/ UNCHANGED awaiting \/ (\E p \in Promises : BeginAwait(p)) \/ FollowResult
       \/ EndAwait \/ StartTask \/ \E v \in Values : FinishTask(v)
  BY DEF Next, Script, CreateAsyncPromise, PromiseResolve, PromiseReject,
         InterpreterAwait, StillPending, ResolvedWithItself, Rejected, vars
<1> QED
  BY <1>4, <1>5, <1>7, <1>8, <1>9, <1>10

LEMMA AnswerStays ==
  ASSUME IInv, ChainsFollowed, AnswerIsEndOfChain, Kept, [Next]_vars
  PROVE  AnswerIsEndOfChain'
<1>1. CASE EndAwait
  <2>1. PICK q \in Promises, p \in Promises : q = Top.current /\ p = Top.origin
    BY <1>1, TopIsActivation DEF IInv, EndAwait, AwaitRuns
  <2>2. /\ Depth > 0 /\ state[q] = "fulfilled" /\ result[q] \in Plain
        /\ answer' = [origin |-> p, value |-> result[q]]
        /\ UNCHANGED <<state, result>>
    BY <1>1, <2>1 DEF EndAwait, AwaitRuns
  <2>3. LedTo(p, q)
    <3>1. Depth \in 1..Depth
      BY <2>2, TopIsActivation DEF IInv
    <3> QED
      BY <2>1, <3>1 DEF ChainsFollowed, Top
  <2>4. LedTo(p, q)'
    BY <2>3, LedForEver
  <2>5. answer'.origin = p /\ answer'.value = result[q]
    BY <2>2
  <2> QED
    BY <2>2, <2>4, <2>5 DEF AnswerIsEndOfChain
<1>2. CASE UNCHANGED answer /\ answer # NoAnswer
  <2>1. answer.origin \in Promises
    BY <1>2 DEF IInv, TypeOK, Answers
  <2>2. PICK p \in Promises, q \in Promises :
          /\ p = answer.origin /\ LedTo(p, q)
          /\ state[q] = "fulfilled" /\ result[q] = answer.value /\ answer.value \in Plain
    BY <1>2, <2>1 DEF AnswerIsEndOfChain
  <2>3. LedTo(p, q)' /\ state'[q] = "fulfilled" /\ result'[q] = answer.value
    BY <2>2, LedForEver DEF Kept
  <2> QED
    BY <1>2, <2>2, <2>3 DEF AnswerIsEndOfChain
<1>3. CASE UNCHANGED answer /\ answer = NoAnswer
  BY <1>3 DEF AnswerIsEndOfChain
<1>4. EndAwait \/ UNCHANGED answer
  BY DEF Next, Script, CreateAsyncPromise, PromiseResolve, PromiseReject, BeginAwait,
         FinishTask, InterpreterAwait, StartTask, StillPending, FollowResult,
         ResolvedWithItself, Rejected, vars
<1> QED
  BY <1>1, <1>2, <1>3, <1>4

\* An await answers with the end of the chain of results, however long, and
\* that answer stays true.
THEOREM AnswersEndOfChain == Spec => []AnswerIsEndOfChain
<1>1. Init => ChainsFollowed /\ AnswerIsEndOfChain
  <2> SUFFICES ASSUME Init PROVE Depth = 0 /\ answer = NoAnswer
    BY DEF ChainsFollowed, AnswerIsEndOfChain
  <2> QED
    BY EmptySeq DEF Init, Depth
<1>2. IInv /\ ChainsFollowed /\ AnswerIsEndOfChain /\ [Next]_vars
        => (ChainsFollowed /\ AnswerIsEndOfChain)'
  BY StepKeepsResults, StackFollows, AnswerStays
<1> QED
  BY InvariantHolds, <1>1, <1>2, PTL DEF Spec

-----------------------------------------------------------------------------
(* The refinement.                                                         *)

LEMMA InitRefines == Init => Abstract!AInit
BY DEF Init, Abstract!AInit, Settled, Abstract!NoOutcome

LEMMA StepRefines == IInv /\ [Next]_vars => [Abstract!ANext]_(Abstract!avars)
<1> SUFFICES ASSUME IInv, [Next]_vars
             PROVE  [Abstract!ANext]_(Abstract!avars)
  OBVIOUS
<1> USE DEF IInv
<1>1. TypeOK
  OBVIOUS
<1>2. ASSUME UNCHANGED <<state, task, result>>
      PROVE  UNCHANGED Abstract!avars
  BY <1>2 DEF Abstract!avars, Settled
<1> DEFINE Allowed(p) ==
      \/ Abstract!Create(p) \/ Abstract!Begin(p)
      \/ \E v \in Values : \/ Abstract!Born(p, "fulfilled", v)
                         \/ Abstract!Born(p, "rejected", v)
                         \/ Abstract!Fulfil(p, v)
<1>0. ASSUME NEW p \in Promises, Allowed(p)
      PROVE  Abstract!ANext
  BY <1>0 DEF Abstract!ANext, Abstract!Values, Values
<1>3. ASSUME NEW p \in Promises, CreateAsyncPromise(p)
      PROVE  Abstract!Create(p)
  BY <1>3, <1>1 DEF CreateAsyncPromise, Abstract!Create, Abstract!Move, TypeOK, Settled
<1>4. ASSUME NEW p \in Promises, NEW v \in Values, PromiseResolve(p, v)
      PROVE  Abstract!Born(p, "fulfilled", v)
  BY <1>4, <1>1 DEF PromiseResolve, Abstract!Born, Abstract!Move, TypeOK, Settled
<1>5. ASSUME NEW p \in Promises, NEW v \in Values, PromiseReject(p, v)
      PROVE  Abstract!Born(p, "rejected", v)
  BY <1>5, <1>1 DEF PromiseReject, Abstract!Born, Abstract!Move, TypeOK, Settled
<1>6. ASSUME NEW v \in Values, FinishTask(v)
      PROVE  \E p \in Promises : Abstract!Fulfil(p, v)
  <2>1. Depth > 0 /\ Top.running
    BY <1>6 DEF FinishTask
  <2>2. PICK p \in Promises : p = Top.current
    BY <2>1, TopIsActivation
  <2>3. state[p] = "pending" /\ ~task[p]
    BY <2>1, <2>2, TopIsActivation DEF OneRunnerPerTakenTask, IsRunning, Top
  <2>4. Abstract!Fulfil(p, v)
    BY <1>1, <1>6, <2>2, <2>3 DEF FinishTask, Abstract!Fulfil, Abstract!Move, TypeOK, Settled
  <2> QED
    BY <2>4
<1>7. ASSUME StartTask
      PROVE  \E p \in Promises : Abstract!Begin(p)
  <2>1. PICK p \in Promises : p = Top.current
    BY <1>7, TopIsActivation DEF StartTask, AwaitRuns
  <2>2. Abstract!Begin(p)
    BY <1>1, <1>7, <2>1 DEF StartTask, Abstract!Begin, Abstract!Move, TypeOK, Settled
  <2> QED
    BY <2>2
<1>8. CASE UNCHANGED vars
  BY <1>2, <1>8 DEF vars
<1>9. CASE Script
  <2>1. ASSUME NEW p \in Promises, BeginAwait(p)
        PROVE  UNCHANGED <<state, task, result>>
    BY <2>1 DEF BeginAwait
  <2> QED
    BY <1>2, <1>3, <1>4, <1>5, <1>9, <1>0, <2>1 DEF Script
<1>10. CASE \E v \in Values : FinishTask(v)
  BY <1>6, <1>10, <1>0
<1>11. CASE InterpreterAwait
  <2>1. CASE StartTask
    BY <1>7, <1>0, <2>1
  <2>2. CASE ~StartTask
    BY <1>2, <1>11, <2>2
       DEF InterpreterAwait, StillPending, FollowResult, ResolvedWithItself, Rejected, EndAwait
  <2> QED
    BY <2>1, <2>2
<1> QED
  BY <1>8, <1>9, <1>10, <1>11 DEF Next

\* The interpreter implements PromiseSpec: every body starts at most once,
\* only a started body settles its promise, and what a promise settled with
\* never changes, although promise_resolve and promise_reject check nothing.
THEOREM Refinement == Spec => KeepsPromises
<1> QED
  BY InitRefines, StepRefines, InvariantHolds, PTL DEF Spec, KeepsPromises, Abstract!ASpec
=============================================================================
