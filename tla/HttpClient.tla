----------------------------- MODULE HttpClient -------------------------------
(***************************************************************************)
(* One request of the HTTP client: http_client_perform                     *)
(* (src/src/utils/http_client.c:786) with its attempts                     *)
(* (http_client_perform_once, 637), each of which runs a curl process that *)
(* writes to two pipes and to a temporary file.                            *)
(*                                                                         *)
(* The interpreter reads the first pipe to its end, then the second, then  *)
(* waits for the process.  curl is free to write to both in any order, to  *)
(* fail, to be killed, and, as it is given no time limit, never to answer. *)
(* Memory is taken not to run out, except where the code reports that a    *)
(* pipe could not be read.                                                 *)
(***************************************************************************)
EXTENDS Integers, Sequences, SequencesExt

CONSTANTS Capacity,     \* units a pipe holds
          MaxOutput,    \* bound on the units curl writes to one pipe
          Attempts      \* HTTP_RETRY_ATTEMPTS

ASSUME HttpClientAssumption ==
  /\ Capacity \in Nat \ {0} /\ MaxOutput \in Nat /\ Attempts \in Nat \ {0}

Pipes == {"out", "err"}

\* What curl is going to do once its request is answered.  garbled: its output
\* has no metadata, or its header file cannot be read.
Plans == [left : [Pipes -> 0..MaxOutput], exit : {"zero", "other"},
          kind : {"plain", "5xx", "garbled"}]
NoPlan == [left |-> [p \in Pipes |-> 0], exit |-> "other", kind |-> "garbled"]

NoResponse == [from |-> "nowhere", attempt |-> 0]
Fixture == [from |-> "fixture", attempt |-> 0]
Responses == [from : {"nowhere", "fixture", "plain", "5xx"}, attempt : 0..Attempts]

VARIABLES requested,    \* ABLE_HTTP_FIXTURES is set
          known,        \* there is a fixture for this method and URL
          pc,
          attempt,      \* counted from 1
          child,        \* the curl process
          plan,
          pipe,         \* units in each pipe
          unread,       \* units of the plan that the interpreter has not read
          fds,          \* descriptors of pipes the interpreter has open
          file,         \* the temporary file exists
          read_ok,
          response,
          error,        \* the attempt that *error_message is about, or
                        \* NoFixture; 0: NULL
          outcomes,     \* of the attempts so far
          lost          \* attempts that got one pipe and no second

settings == <<requested, known>>
process == <<child, plan, pipe, unread>>
vars == <<settings, pc, attempt, process, fds, file, read_ok, response, error,
          outcomes, lost>>

NoFixture == Attempts + 1       \* "No HTTP fixture for" the request

TypeOK ==
  /\ requested \in BOOLEAN /\ known \in BOOLEAN
  /\ pc \in {"start", "prepare", "pipes", "fork", "out", "err", "wait",
             "decide", "fallback", "true", "false"}
  /\ attempt \in 0..Attempts
  /\ child \in {"none", "asking", "writing", "exited", "reaped"}
  /\ plan \in Plans
  /\ pipe \in [Pipes -> 0..Capacity]
  /\ unread \in [Pipes -> 0..MaxOutput]
  /\ fds \in 0..(2 * Attempts + 4)
  /\ file \in BOOLEAN /\ read_ok \in BOOLEAN
  /\ response \in Responses
  /\ error \in 0..NoFixture
  /\ outcomes \in Seq({"failed", "plain", "5xx"})
  /\ lost \in 0..Attempts

Init ==
  /\ requested \in BOOLEAN /\ known \in BOOLEAN
  /\ pc = "start" /\ attempt = 0
  /\ child = "none" /\ plan = NoPlan
  /\ pipe = [p \in Pipes |-> 0] /\ unread = [p \in Pipes |-> 0]
  /\ fds = 0 /\ file = FALSE /\ read_ok = TRUE
  /\ response = NoResponse /\ error = 0
  /\ outcomes = <<>> /\ lost = 0

-----------------------------------------------------------------------------
(* http_client_perform.                                                    *)

Return(value) == pc' = value

\* http_fixtures_try_get
TryFixture ==
  IF known THEN response' = Fixture /\ Return("true")
           ELSE UNCHANGED response /\ Return("false")

\* With fixtures requested nothing is sent, and a missing one is an error.
Start ==
  /\ pc = "start"
  /\ IF requested
     THEN TryFixture /\ error' = (IF known THEN 0 ELSE NoFixture) /\ UNCHANGED attempt
     ELSE pc' = "prepare" /\ attempt' = 1 /\ UNCHANGED <<response, error>>
  /\ UNCHANGED <<settings, process, fds, file, read_ok, outcomes, lost>>

\* The error is freed, or the response cleaned up, before the next attempt.
TryAgain ==
  /\ pc' = "prepare" /\ attempt' = attempt + 1
  /\ error' = 0 /\ response' = NoResponse

\* Mutant of Decide: one attempt too many.
Decide_OneMore ==
  /\ pc = "decide"
  /\ IF Last(outcomes) = "plain" THEN Return("true") /\ UNCHANGED <<attempt, error, response>>
     ELSE IF attempt <= Attempts THEN TryAgain
     ELSE pc' = "fallback" /\ UNCHANGED <<attempt, error, response>>
  /\ UNCHANGED <<settings, process, fds, file, read_ok, outcomes, lost>>

\* What the loop does with the outcome of an attempt, and its condition.
Decide ==
  /\ pc = "decide"
  /\ LET outcome == Last(outcomes) IN
     IF outcome = "plain" THEN Return("true") /\ UNCHANGED <<attempt, error, response>>
     ELSE IF attempt < Attempts THEN TryAgain
     ELSE /\ IF outcome = "5xx" THEN Return("true") ELSE pc' = "fallback"
          /\ UNCHANGED <<attempt, error, response>>
  /\ UNCHANGED <<settings, process, fds, file, read_ok, outcomes, lost>>

\* After a failure of the last attempt a fixture may still answer.
Fallback ==
  /\ pc = "fallback"
  /\ TryFixture
  /\ error' = IF known THEN 0 ELSE error
  /\ UNCHANGED <<settings, attempt, process, fds, file, read_ok, outcomes, lost>>

-----------------------------------------------------------------------------
(* http_client_perform_once.                                               *)

\* The way out of a failed attempt: the file is removed, the response cleaned.
Cleanup ==
  /\ pc' = "decide"
  /\ outcomes' = Append(outcomes, "failed")
  /\ file' = FALSE /\ response' = NoResponse /\ error' = attempt

CreateFile ==
  /\ pc = "prepare"
  /\ pc' = "pipes" /\ file' = TRUE
  /\ response' = NoResponse /\ error' = 0 /\ read_ok' = TRUE
  /\ UNCHANGED <<settings, attempt, process, fds, outcomes, lost>>

CreateFileFails ==
  /\ pc = "prepare"
  /\ Cleanup
  /\ UNCHANGED <<settings, attempt, process, fds, read_ok, lost>>

CreatePipes ==
  /\ pc = "pipes"
  /\ pc' = "fork" /\ fds' = fds + 4
  /\ UNCHANGED <<settings, attempt, process, file, read_ok, response, error,
                 outcomes, lost>>

\* When only the second pipe fails, the first is not closed.
CreatePipesFails ==
  /\ pc = "pipes"
  /\ \/ UNCHANGED <<fds, lost>>
     \/ fds' = fds + 2 /\ lost' = lost + 1
  /\ Cleanup
  /\ UNCHANGED <<settings, attempt, process, read_ok>>

\* Mutant of Fork: the process is waited for before its output is read.
Fork_WaitsFirst ==
  /\ pc = "fork"
  /\ pc' = "wait" /\ fds' = fds - 2
  /\ child' = "asking" /\ plan' = NoPlan
  /\ pipe' = [p \in Pipes |-> 0] /\ unread' = [p \in Pipes |-> 0]
  /\ UNCHANGED <<settings, attempt, file, read_ok, response, error, outcomes, lost>>

\* The interpreter closes the ends it does not use.
Fork ==
  /\ pc = "fork"
  /\ pc' = "out" /\ fds' = fds - 2
  /\ child' = "asking" /\ plan' = NoPlan
  /\ pipe' = [p \in Pipes |-> 0] /\ unread' = [p \in Pipes |-> 0]
  /\ UNCHANGED <<settings, attempt, file, read_ok, response, error, outcomes, lost>>

ForkFails ==
  /\ pc = "fork"
  /\ fds' = fds - 4
  /\ Cleanup
  /\ UNCHANGED <<settings, attempt, process, read_ok, lost>>

\* read_fd_into_buffer takes what there is ...
Read(p) ==
  /\ pc = p /\ pipe[p] > 0
  /\ pipe' = [pipe EXCEPT ![p] = 0]
  /\ unread' = [unread EXCEPT ![p] = @ - pipe[p]]
  /\ UNCHANGED <<settings, pc, attempt, child, plan, fds, file, read_ok, response,
                 error, outcomes, lost>>

\* Mutant of ReadEnd: a pipe that is empty is taken for one that has ended.
ReadEnd_WhenEmpty(p) ==
  /\ pc = p /\ pipe[p] = 0 /\ child # "asking"
  /\ IF p = "out" THEN pc' = "err" /\ UNCHANGED fds
                  ELSE pc' = "wait" /\ fds' = fds - 2
  /\ UNCHANGED <<settings, attempt, process, file, read_ok, response, error,
                 outcomes, lost>>

\* ... until curl, which has the only writing end, has ended.
ReadEnd(p) ==
  /\ pc = p /\ pipe[p] = 0 /\ child = "exited"
  /\ IF p = "out" THEN pc' = "err" /\ UNCHANGED fds
                  ELSE pc' = "wait" /\ fds' = fds - 2
  /\ UNCHANGED <<settings, attempt, process, file, read_ok, response, error,
                 outcomes, lost>>

\* Mutant of ReadFails: the process is not waited for.
ReadFails_NoWait ==
  /\ pc \in Pipes
  /\ fds' = fds - 2 /\ read_ok' = FALSE
  /\ Cleanup
  /\ UNCHANGED <<settings, attempt, process, lost>>

\* An error in either pipe ends the reading; both are closed.
ReadFails ==
  /\ pc \in Pipes
  /\ pc' = "wait" /\ fds' = fds - 2 /\ read_ok' = FALSE
  /\ UNCHANGED <<settings, attempt, process, file, response, error, outcomes, lost>>

\* waitpid, and what the attempt has come to: curl's status, the metadata at
\* the end of its output, the headers in the file, which is then removed.
Wait ==
  /\ pc = "wait" /\ child = "exited"
  /\ child' = "reaped"
  /\ IF read_ok /\ plan.exit = "zero" /\ plan.kind # "garbled"
     THEN /\ response' = [from |-> plan.kind, attempt |-> attempt]
          /\ outcomes' = Append(outcomes, plan.kind)
          /\ file' = FALSE /\ pc' = "decide" /\ UNCHANGED error
     ELSE Cleanup
  /\ UNCHANGED <<settings, attempt, plan, pipe, unread, fds, read_ok, lost>>

\* waitpid returns an error when SIGCHLD is ignored and curl has ended.
WaitFails ==
  /\ pc = "wait" /\ child = "exited"
  /\ child' = "reaped"
  /\ Cleanup
  /\ UNCHANGED <<settings, attempt, plan, pipe, unread, fds, read_ok, lost>>

-----------------------------------------------------------------------------
(* The curl process.                                                       *)

mine == <<settings, pc, attempt, fds, read_ok, response, error, outcomes, lost>>

\* Its request is answered, or has failed: it writes the headers to the file.
CurlAnswers ==
  /\ child = "asking"
  /\ child' = "writing" /\ file' = TRUE
  /\ plan' \in Plans
  /\ unread' = plan'.left
  /\ UNCHANGED <<mine, pipe>>

\* write blocks while the pipe is full, and fails when the interpreter has
\* closed the reading ends, the only descriptors it has of the two pipes.
CurlWrites(p) ==
  /\ child = "writing" /\ plan.left[p] > 0
  /\ IF fds > 2 * lost
     THEN /\ pipe[p] < Capacity
          /\ pipe' = [pipe EXCEPT ![p] = @ + 1]
          /\ plan' = [plan EXCEPT !.left[p] = @ - 1]
          /\ UNCHANGED child
     ELSE /\ child' = "exited" /\ plan' = [plan EXCEPT !.exit = "other"]
          /\ UNCHANGED pipe
  /\ UNCHANGED <<mine, file, unread>>

CurlExits ==
  /\ child = "writing" /\ \A p \in Pipes : plan.left[p] = 0
  /\ child' = "exited"
  /\ UNCHANGED <<mine, file, plan, pipe, unread>>

\* curl cannot be run at all, or is killed by a signal.
CurlKilled ==
  /\ child \in {"asking", "writing"}
  /\ child' = "exited" /\ plan' = [plan EXCEPT !.exit = "other"]
  /\ UNCHANGED <<mine, file, pipe, unread>>

Step ==
  \/ Start \/ Decide \/ Fallback \/ CreateFile \/ CreatePipes \/ Fork
  \/ \E p \in Pipes : Read(p) \/ ReadEnd(p)
  \/ Wait
Failure ==
  CreateFileFails \/ CreatePipesFails \/ ForkFails \/ ReadFails \/ WaitFails
CurlRuns == CurlExits \/ \E p \in Pipes : CurlWrites(p)

Next == Step \/ Failure \/ CurlAnswers \/ CurlRuns \/ CurlKilled

Spec == Init /\ [][Next]_vars

\* The interpreter and a curl that has its answer go on when nothing blocks
\* them.  Whether an answer comes is not up to them.
FairSpec == Spec /\ WF_vars(Step) /\ WF_vars(CurlRuns)
-----------------------------------------------------------------------------
(* Properties.                                                             *)

Done == pc \in {"true", "false"}

\* After every attempt, and so when the call returns, no process is left, no
\* temporary file (which a curl that is still running would write again), and
\* no descriptor but those of a first pipe that got no second.
NothingLeftBehind ==
  pc \in {"prepare", "decide", "fallback", "true", "false"} =>
    child \in {"none", "reaped"} /\ ~file /\ fds = 2 * lost

\* What the call returns is decided by the outcomes of its attempts: at most
\* Attempts of them, each but the last a failure or a 5xx answer; the answer
\* of the last one, complete, or else a fixture, or else its error, or, when
\* nothing is sent, the error that there is no fixture.
ResultFollowsOutcomes ==
  /\ Len(outcomes) <= Attempts
  /\ \A i \in 1..(Len(outcomes) - 1) : outcomes[i] # "plain"
  /\ pc = "decide" /\ Last(outcomes) # "failed" => \A p \in Pipes : unread[p] = 0
  /\ Done /\ outcomes = <<>> =>
       /\ requested
       /\ IF known THEN pc = "true" /\ response = Fixture /\ error = 0
          ELSE pc = "false" /\ response = NoResponse /\ error = NoFixture
  /\ Done /\ outcomes # <<>> =>
       /\ ~requested
       /\ IF Last(outcomes) # "failed"
          THEN /\ pc = "true" /\ error = 0
               /\ response = [from |-> Last(outcomes), attempt |-> Len(outcomes)]
               /\ Last(outcomes) = "5xx" => Len(outcomes) = Attempts
          ELSE /\ Len(outcomes) = Attempts
               /\ IF known THEN pc = "true" /\ response = Fixture /\ error = 0
                  ELSE pc = "false" /\ response = NoResponse /\ error = Attempts

\* The interpreter reads the first pipe, curl fills the second: neither goes on.
MutualWait ==
  /\ pc = "out" /\ pipe["out"] = 0
  /\ child = "writing" /\ plan.left["err"] > 0 /\ pipe["err"] = Capacity

\* The call returns in the end, unless curl never gets an answer, or writes
\* more errors than a pipe holds.
CallComesBack ==
  \/ <>Done
  \/ <>[](child = "asking")
  \/ <>[]MutualWait
=============================================================================
