-------------------------- MODULE HttpClientProofs ----------------------------
(***************************************************************************)
(* Proofs about HttpClient, for any number of attempts, any capacity of    *)
(* the pipes and any output of curl.                                       *)
(***************************************************************************)
EXTENDS HttpClient, SequenceTheorems, TLAPS

Running == {"out", "err", "wait"}
Attempting == {"prepare", "pipes", "fork"} \cup Running
Outcomes == {"failed", "plain", "5xx"}

\* One outcome for each attempt that has ended.
Counted ==
  /\ pc = "start" => attempt = 0 /\ Len(outcomes) = 0
  /\ pc \in Attempting => attempt >= 1 /\ Len(outcomes) = attempt - 1
  /\ pc \in {"decide", "fallback"} => attempt >= 1
  /\ pc \in {"decide", "fallback"} \/ Done => Len(outcomes) = attempt
  /\ pc # "start" => (requested <=> attempt = 0)
  /\ lost <= Len(outcomes)

\* What is open, running and on disk, at each place.
Held ==
  /\ fds = 2 * lost + (IF pc = "fork" THEN 4 ELSE IF pc \in Pipes THEN 2 ELSE 0)
  /\ pc \in Running => child \in {"asking", "writing", "exited"}
  /\ pc \notin Running => child \in {"none", "reaped"}
  /\ file => pc \in {"pipes", "fork"} \cup Running

\* Nothing is lost between curl and the interpreter, and a pipe whose end has
\* been read is empty.
Output ==
  pc \in Running =>
    /\ \A p \in Pipes : unread[p] = pipe[p] + plan.left[p]
    /\ child = "exited" /\ plan.exit = "zero" => \A p \in Pipes : plan.left[p] = 0
    /\ child = "asking" => \A p \in Pipes : pipe[p] = 0
    /\ pc = "err" => child = "exited" /\ pipe["out"] = 0
    /\ pc = "wait" /\ read_ok => child = "exited" /\ \A p \in Pipes : pipe[p] = 0

\* No plain answer was followed by another attempt.
Repeated ==
  \A i \in 1..Len(outcomes) : outcomes[i] = "plain" => i = attempt /\ pc \notin Attempting

\* The response and the error are those of the last attempt.
Results ==
  /\ pc = "start" \/ pc \in Attempting => response = NoResponse /\ error = 0
  /\ pc \in {"decide", "fallback"} =>
       IF outcomes[attempt] = "failed"
       THEN response = NoResponse /\ error = attempt
       ELSE /\ response = [from |-> outcomes[attempt], attempt |-> attempt]
            /\ error = 0 /\ \A p \in Pipes : unread[p] = 0
  /\ pc = "fallback" => outcomes[attempt] = "failed" /\ attempt = Attempts
  /\ Done => ResultFollowsOutcomes

IInv == TypeOK /\ Counted /\ Held /\ Output /\ Repeated /\ Results

LEMMA Numbers ==
  /\ Capacity \in Nat \ {0} /\ MaxOutput \in Nat /\ Attempts \in Nat \ {0}
  /\ Attempts - 1 \in Nat /\ NoFixture = Attempts + 1
  BY HttpClientAssumption DEF NoFixture

LEMMA CleanupType ==
  ASSUME TypeOK, Cleanup
  PROVE  /\ pc' = "decide" /\ outcomes' \in Seq(Outcomes)
         /\ file' \in BOOLEAN /\ response' \in Responses /\ error' \in 0..NoFixture
<1>1. outcomes \in Seq(Outcomes) /\ "failed" \in Outcomes
  BY DEF TypeOK, Outcomes
<1>2. outcomes' \in Seq(Outcomes)
  BY <1>1, AppendProperties DEF Cleanup
<1>3. file' \in BOOLEAN
  BY Zenon DEF Cleanup
<1>4. response' \in Responses
  BY Numbers DEF Cleanup, NoResponse, Responses
<1>5. error' \in 0..NoFixture
  BY Numbers DEF Cleanup, TypeOK
<1> QED BY <1>2, <1>3, <1>4, <1>5 DEF Cleanup

LEMMA InitIInv == Init => IInv
<1> SUFFICES ASSUME Init PROVE IInv
  OBVIOUS
<1>1. TypeOK
  <2>1. requested \in BOOLEAN /\ known \in BOOLEAN /\ file \in BOOLEAN /\ read_ok \in BOOLEAN
    BY Zenon DEF Init
  <2>2. plan \in Plans
    BY Numbers DEF Init, Plans, NoPlan
  <2>3. response \in Responses
    BY Numbers DEF Init, Responses, NoResponse
  <2> QED BY <2>1, <2>2, <2>3, Numbers, EmptySeq DEF Init, TypeOK
<1>2. Counted /\ Held /\ Output /\ Repeated /\ Results
  BY Numbers, EmptySeq DEF Init, Counted, Held, Output, Repeated, Results, Running,
     Attempting, Done, Pipes
<1> QED BY <1>1, <1>2 DEF IInv

LEMMA StartKeeps ==
  ASSUME IInv, Start
  PROVE  IInv'
<1>1. TypeOK'
  BY Numbers DEF IInv, TypeOK, Start, settings, process, TryFixture, Return,
     Fixture, Responses
<1>2. Counted'
  BY DEF IInv, Counted, Running, Attempting, Done, Start, settings, TryFixture,
     Return
<1>3. Held'
  BY DEF IInv, Held, Running, Pipes, Start, process, TryFixture, Return
<1>4. Output'
  BY DEF IInv, Output, Running, Start, TryFixture, Return
<1>5. Repeated'
  BY DEF IInv, Counted, Repeated, Start
<1>6. Results'
  BY DEF IInv, TypeOK, Counted, Results, Attempting, Running, Done,
     ResultFollowsOutcomes, Start, settings, TryFixture, Return
<1> QED BY <1>1, <1>2, <1>3, <1>4, <1>5, <1>6 DEF IInv

LEMMA DecideKeeps ==
  ASSUME IInv, Decide
  PROVE  IInv'
<1>1. TypeOK'
  BY Numbers DEF IInv, TypeOK, Decide, settings, process, TryAgain, Return,
     NoResponse, Responses
<1>2. Counted'
  BY Numbers DEF IInv, Counted, Running, Attempting, Done, Decide, settings,
     TryAgain, Return
<1>3. Held'
  BY DEF IInv, Held, Running, Pipes, Decide, process, TryAgain, Return
<1>4. Output'
  BY DEF IInv, Output, Running, Decide, TryAgain, Return
<1>5. Repeated'
  BY DEF IInv, Counted, Repeated, Attempting, Running, Decide, Return, Last
<1>6. Results'
  <2>1. /\ pc = "decide" /\ attempt \in 1..Attempts /\ Len(outcomes) = attempt
        /\ Last(outcomes) = outcomes[attempt] /\ outcomes # <<>> /\ ~requested
        /\ UNCHANGED <<settings, process, outcomes>>
    BY EmptySeq DEF IInv, TypeOK, Counted, Decide, Last
  <2>2. \A i \in 1..(attempt - 1) : outcomes[i] # "plain"
    BY <2>1 DEF IInv, Repeated
  <2>3. outcomes[attempt] \in Outcomes
    BY <2>1, ElementOfSeq DEF IInv, TypeOK, Outcomes
  <2>a. IF outcomes[attempt] = "plain"
        THEN Return("true") /\ UNCHANGED <<attempt, error, response>>
        ELSE IF attempt < Attempts THEN TryAgain
        ELSE /\ IF outcomes[attempt] = "5xx" THEN Return("true") ELSE pc' = "fallback"
             /\ UNCHANGED <<attempt, error, response>>
    BY <2>1 DEF Decide
  <2>b. attempt < Attempts \/ attempt = Attempts
    BY <2>1, Numbers
  <2>4. CASE pc' = "prepare"
    BY <2>1, <2>4 DEF Results, Attempting, Done, Decide, TryAgain, Return
  <2>5. CASE pc' = "fallback"
    <3>1. /\ outcomes[attempt] = "failed" /\ attempt = Attempts
          /\ UNCHANGED <<attempt, error, response>>
      BY <2>a, <2>b, <2>3, <2>5 DEF Outcomes, TryAgain, Return
    <3>2. response = NoResponse /\ error = attempt
      BY <2>1, <3>1 DEF IInv, Results
    <3> QED BY <2>1, <2>5, <3>1, <3>2 DEF Results, Attempting, Running, Done
  <2>6. CASE pc' = "true"
    <3>1. /\ outcomes[attempt] # "failed" /\ UNCHANGED <<attempt, error, response>>
          /\ outcomes[attempt] = "5xx" => attempt = Attempts
      BY <2>a, <2>b, <2>3, <2>6 DEF Outcomes, TryAgain, Return
    <3>2. response = [from |-> outcomes[attempt], attempt |-> attempt] /\ error = 0
      BY <2>1, <3>1 DEF IInv, Results
    <3>3. ResultFollowsOutcomes'
      BY <2>1, <2>2, <2>6, <3>1, <3>2 DEF ResultFollowsOutcomes, Done, settings
    <3> QED BY <2>6, <3>3 DEF Results, Attempting, Running
  <2> QED BY <2>1, <2>4, <2>5, <2>6 DEF Decide, TryAgain, Return
<1> QED BY <1>1, <1>2, <1>3, <1>4, <1>5, <1>6 DEF IInv

LEMMA FallbackKeeps ==
  ASSUME IInv, Fallback
  PROVE  IInv'
<1>1. TypeOK'
  BY Numbers DEF IInv, TypeOK, Fallback, settings, process, TryFixture, Return,
     Fixture, Responses
<1>2. Counted'
  BY DEF IInv, Counted, Running, Attempting, Fallback, settings, TryFixture, Return
<1>3. Held'
  BY DEF IInv, Held, Running, Pipes, Fallback, process, TryFixture, Return
<1>4. Output'
  BY DEF IInv, Output, Running, Fallback, TryFixture, Return
<1>5. Repeated'
  BY DEF IInv, Repeated, Attempting, Running, Fallback, TryFixture, Return
<1>6. Results'
  <2>1. /\ pc = "fallback" /\ attempt = Attempts /\ Len(outcomes) = attempt
        /\ Last(outcomes) = "failed" /\ outcomes # <<>> /\ ~requested
        /\ response = NoResponse /\ error = Attempts
        /\ UNCHANGED <<settings, attempt, outcomes>>
    BY Numbers, EmptySeq DEF IInv, TypeOK, Counted, Results, Fallback, Last
  <2>2. \A i \in 1..(attempt - 1) : outcomes[i] # "plain"
    BY <2>1, Numbers DEF IInv, Repeated
  <2>3. /\ known => pc' = "true" /\ response' = Fixture /\ error' = 0
        /\ ~known => pc' = "false" /\ response' = NoResponse /\ error' = Attempts
    BY <2>1 DEF Fallback, TryFixture, Return
  <2>4. pc' \in {"true", "false"}
    BY <2>3
  <2>5. ResultFollowsOutcomes'
    BY <2>1, <2>2, <2>3, <2>4 DEF ResultFollowsOutcomes, Done, settings
  <2> QED BY <2>4, <2>5 DEF Results, Attempting, Running
<1> QED BY <1>1, <1>2, <1>3, <1>4, <1>5, <1>6 DEF IInv

LEMMA CreateFileKeeps ==
  ASSUME IInv, CreateFile
  PROVE  IInv'
<1>1. TypeOK'
  BY Numbers DEF IInv, TypeOK, CreateFile, settings, process, NoResponse, Responses
<1>2. Counted'
  BY DEF IInv, Counted, Attempting, Done, CreateFile, settings
<1>3. Held'
  BY DEF IInv, Held, Running, Pipes, CreateFile, process
<1>4. Output'
  BY DEF IInv, Output, Running, CreateFile
<1>5. Repeated'
  BY DEF IInv, Repeated, Attempting, CreateFile
<1>6. Results'
  BY DEF IInv, Results, Done, CreateFile
<1> QED BY <1>1, <1>2, <1>3, <1>4, <1>5, <1>6 DEF IInv

LEMMA CreateFileFailsKeeps ==
  ASSUME IInv, CreateFileFails
  PROVE  IInv'
<1>1. TypeOK'
  <2>1. /\ pc' = "decide" /\ outcomes' \in Seq(Outcomes)
        /\ file' \in BOOLEAN /\ response' \in Responses /\ error' \in 0..NoFixture
    BY CleanupType DEF IInv, CreateFileFails
  <2>2. fds' \in 0..(2 * Attempts + 4) /\ lost' \in 0..Attempts
    BY Numbers DEF IInv, TypeOK, Counted, Held, Attempting, Running, Pipes,
       CreateFileFails
  <2> QED BY <2>1, <2>2 DEF IInv, TypeOK, Outcomes, CreateFileFails, settings,
             process
<1>2. Counted'
  BY DEF IInv, TypeOK, Counted, Running, Attempting, CreateFileFails, settings,
     Cleanup
<1>3. Held'
  BY DEF IInv, Held, Running, Pipes, CreateFileFails, process, Cleanup
<1>4. Output'
  BY DEF IInv, Output, Running, CreateFileFails, Cleanup
<1>5. Repeated'
  BY DEF IInv, Repeated, Attempting, CreateFileFails, Cleanup
<1>6. Results'
  BY DEF IInv, TypeOK, Counted, Results, Attempting, Running, Done, CreateFileFails,
     Cleanup
<1> QED BY <1>1, <1>2, <1>3, <1>4, <1>5, <1>6 DEF IInv

LEMMA CreatePipesKeeps ==
  ASSUME IInv, CreatePipes
  PROVE  IInv'
<1>1. TypeOK'
  BY Numbers DEF IInv, TypeOK, Counted, Held, Attempting, CreatePipes, settings,
     process
<1>2. Counted'
  BY DEF IInv, Counted, Attempting, Done, CreatePipes, settings
<1>3. Held'
  BY DEF IInv, TypeOK, Held, Running, Pipes, CreatePipes, process
<1>4. Output'
  BY DEF IInv, Output, Running, CreatePipes
<1>5. Repeated'
  BY DEF IInv, Repeated, Attempting, CreatePipes
<1>6. Results'
  BY DEF IInv, Results, Attempting, Done, CreatePipes
<1> QED BY <1>1, <1>2, <1>3, <1>4, <1>5, <1>6 DEF IInv

LEMMA CreatePipesFailsKeeps ==
  ASSUME IInv, CreatePipesFails
  PROVE  IInv'
<1>1. TypeOK'
  <2>1. /\ pc' = "decide" /\ outcomes' \in Seq(Outcomes)
        /\ file' \in BOOLEAN /\ response' \in Responses /\ error' \in 0..NoFixture
    BY CleanupType DEF IInv, CreatePipesFails
  <2>2. fds' \in 0..(2 * Attempts + 4) /\ lost' \in 0..Attempts
    BY Numbers, SMTT(30) DEF IInv, TypeOK, Counted, Held, Attempting, Running,
       Pipes,
       CreatePipesFails
  <2> QED BY <2>1, <2>2 DEF IInv, TypeOK, Outcomes, CreatePipesFails, settings,
             process
<1>2. Counted'
  BY DEF IInv, TypeOK, Counted, Running, Attempting, CreatePipesFails, settings,
     Cleanup
<1>3. Held'
  BY DEF IInv, TypeOK, Held, Running, Pipes, CreatePipesFails, process, Cleanup
<1>4. Output'
  BY DEF IInv, Output, Running, CreatePipesFails, Cleanup
<1>5. Repeated'
  BY DEF IInv, Repeated, Attempting, CreatePipesFails, Cleanup
<1>6. Results'
  BY DEF IInv, TypeOK, Counted, Results, Attempting, Running, Done,
     CreatePipesFails, Cleanup
<1> QED BY <1>1, <1>2, <1>3, <1>4, <1>5, <1>6 DEF IInv

LEMMA ForkKeeps ==
  ASSUME IInv, Fork
  PROVE  IInv'
<1>1. TypeOK'
  BY Numbers DEF IInv, TypeOK, Held, Fork, settings, NoPlan, Plans
<1>2. Counted'
  BY DEF IInv, Counted, Attempting, Done, Fork, settings
<1>3. Held'
  BY DEF IInv, TypeOK, Held, Running, Pipes, Fork
<1>4. Output'
  BY DEF IInv, Output, Fork, NoPlan
<1>5. Repeated'
  BY DEF IInv, Repeated, Attempting, Fork
<1>6. Results'
  BY DEF IInv, Results, Attempting, Done, Fork
<1> QED BY <1>1, <1>2, <1>3, <1>4, <1>5, <1>6 DEF IInv

LEMMA ForkFailsKeeps ==
  ASSUME IInv, ForkFails
  PROVE  IInv'
<1>1. TypeOK'
  <2>1. /\ pc' = "decide" /\ outcomes' \in Seq(Outcomes)
        /\ file' \in BOOLEAN /\ response' \in Responses /\ error' \in 0..NoFixture
    BY CleanupType DEF IInv, ForkFails
  <2>2. fds' \in 0..(2 * Attempts + 4) /\ lost' \in 0..Attempts
    BY Numbers DEF IInv, TypeOK, Counted, Held, Attempting, Running, Pipes,
       ForkFails
  <2> QED BY <2>1, <2>2 DEF IInv, TypeOK, Outcomes, ForkFails, settings, process
<1>2. Counted'
  BY DEF IInv, TypeOK, Counted, Running, Attempting, ForkFails, settings, Cleanup
<1>3. Held'
  BY DEF IInv, TypeOK, Held, Running, Pipes, ForkFails, process, Cleanup
<1>4. Output'
  BY DEF IInv, Output, Running, ForkFails, Cleanup
<1>5. Repeated'
  BY DEF IInv, Repeated, Attempting, ForkFails, Cleanup
<1>6. Results'
  BY DEF IInv, TypeOK, Counted, Results, Attempting, Running, Done, ForkFails,
     Cleanup
<1> QED BY <1>1, <1>2, <1>3, <1>4, <1>5, <1>6 DEF IInv

LEMMA ReadKeeps ==
  ASSUME IInv, NEW p \in Pipes, Read(p)
  PROVE  IInv'
<1>a. /\ pc = p /\ pc \in Running
      /\ pipe \in [Pipes -> 0..Capacity] /\ unread \in [Pipes -> 0..MaxOutput]
      /\ plan.left \in [Pipes -> 0..MaxOutput]
      /\ pipe' = [pipe EXCEPT ![p] = 0]
      /\ unread' = [unread EXCEPT ![p] = @ - pipe[p]]
      /\ UNCHANGED <<settings, pc, attempt, child, plan, fds, file, read_ok, response,
                     error, outcomes, lost>>
  BY DEF IInv, TypeOK, Plans, Running, Pipes, Read
<1>b. \A q \in Pipes : unread[q] = pipe[q] + plan.left[q]
  BY <1>a DEF IInv, Output
<1>c. /\ pipe' \in [Pipes -> 0..Capacity] /\ unread' \in [Pipes -> 0..MaxOutput]
      /\ pipe'[p] = 0 /\ unread'[p] = plan.left[p]
      /\ \A q \in Pipes : q # p => pipe'[q] = pipe[q] /\ unread'[q] = unread[q]
  BY <1>a, <1>b, Numbers
<1>1. TypeOK'
  BY <1>a, <1>c DEF IInv, TypeOK, settings
<1>2. Counted'
  BY DEF IInv, Counted, Done, Read, settings
<1>3. Held'
  BY DEF IInv, Held, Read
<1>4. Output'
  <2>1. \A q \in Pipes : unread'[q] = pipe'[q] + plan'.left[q]
    BY <1>a, <1>b, <1>c
  <2>2. \A q \in Pipes : pipe[q] = 0 => pipe'[q] = 0
    BY <1>c
  <2> QED BY <1>a, <2>1, <2>2 DEF IInv, Output, Pipes
<1>5. Repeated'
  BY DEF IInv, Repeated, Read
<1>6. Results'
  BY DEF IInv, Results, Done, Pipes, Read
<1> QED BY <1>1, <1>2, <1>3, <1>4, <1>5, <1>6 DEF IInv

LEMMA ReadEndKeeps ==
  ASSUME IInv, NEW p \in Pipes, ReadEnd(p)
  PROVE  IInv'
<1>1. TypeOK'
  BY Numbers DEF IInv, TypeOK, Held, ReadEnd, settings, process
<1>2. Counted'
  BY DEF IInv, Counted, Running, Attempting, Done, Pipes, ReadEnd, settings
<1>3. Held'
  BY SMTT(30) DEF IInv, TypeOK, Counted, Held, Running, Pipes, ReadEnd, process
<1>4. Output'
  BY DEF IInv, Output, Running, Pipes, ReadEnd, process
<1>5. Repeated'
  BY DEF IInv, Repeated, Attempting, Held, ReadEnd
<1>6. Results'
  BY DEF IInv, Results, Attempting, Held, Done, ReadEnd
<1> QED BY <1>1, <1>2, <1>3, <1>4, <1>5, <1>6 DEF IInv

LEMMA ReadFailsKeeps ==
  ASSUME IInv, ReadFails
  PROVE  IInv'
<1>1. TypeOK'
  <2>1. read_ok' \in BOOLEAN
    BY Zenon DEF ReadFails
  <2>2. fds' \in 0..(2 * Attempts + 4)
    BY Numbers DEF IInv, TypeOK, Held, Pipes, ReadFails
  <2> QED BY <2>1, <2>2 DEF IInv, TypeOK, ReadFails, settings, process
<1>2. Counted'
  BY DEF IInv, Counted, Running, Attempting, Done, Pipes, ReadFails, settings
<1>3. Held'
  BY DEF IInv, TypeOK, Held, Running, Pipes, ReadFails, process
<1>4. Output'
  BY DEF IInv, Output, Running, Pipes, ReadFails, process
<1>5. Repeated'
  BY DEF IInv, Repeated, Attempting, Running, Pipes, ReadFails
<1>6. Results'
  BY DEF IInv, Results, Attempting, Running, Done, Pipes, ReadFails
<1> QED BY <1>1, <1>2, <1>3, <1>4, <1>5, <1>6 DEF IInv

LEMMA WaitKeeps ==
  ASSUME IInv, Wait
  PROVE  IInv'
<1> DEFINE answered == read_ok /\ plan.exit = "zero" /\ plan.kind # "garbled"
<1>a. /\ pc = "wait" /\ child = "exited" /\ child' = "reaped" /\ pc' = "decide"
      /\ UNCHANGED <<settings, attempt, plan, pipe, unread, fds, read_ok, lost>>
  BY DEF Wait, Cleanup
<1>b. /\ attempt \in 1..Attempts /\ Len(outcomes) = attempt - 1
      /\ outcomes \in Seq(Outcomes) /\ error = 0
  BY <1>a DEF IInv, TypeOK, Outcomes, Counted, Attempting, Running, Results
<1>c. answered => /\ response' = [from |-> plan.kind, attempt |-> attempt]
                  /\ outcomes' = Append(outcomes, plan.kind)
                  /\ plan.kind \in {"plain", "5xx"} /\ file' = FALSE /\ error' = 0
                  /\ \A p \in Pipes : unread[p] = 0
  <2> SUFFICES ASSUME answered
               PROVE  /\ response' = [from |-> plan.kind, attempt |-> attempt]
                      /\ outcomes' = Append(outcomes, plan.kind)
                      /\ plan.kind \in {"plain", "5xx"} /\ file' = FALSE /\ error' = 0
                      /\ \A p \in Pipes : unread[p] = 0
    OBVIOUS
  <2>1. plan.kind \in {"plain", "5xx"}
    BY DEF IInv, TypeOK, Plans
  <2>2. \A p \in Pipes : unread[p] = 0
    BY <1>a DEF IInv, Output, Running
  <2> QED BY <1>b, <2>1, <2>2 DEF Wait
<1>d. ~answered => Cleanup
  BY DEF Wait
<1>e. PICK outcome \in Outcomes :
        /\ outcomes' = Append(outcomes, outcome)
        /\ outcome = IF answered THEN plan.kind ELSE "failed"
  BY <1>c, <1>d DEF Outcomes, Cleanup
<1>f. /\ outcomes' \in Seq(Outcomes) /\ Len(outcomes') = attempt
      /\ outcomes'[attempt] = outcome
      /\ \A i \in 1..(attempt - 1) : outcomes'[i] = outcomes[i]
  BY <1>b, <1>e, AppendProperties
<1>1. TypeOK'
  <2>1. CASE answered
    <3>1. response' \in Responses
      BY <1>b, <1>c, <2>1 DEF Responses
    <3>2. file' \in BOOLEAN
      BY <1>c, <2>1, Zenon
    <3>3. error' \in 0..NoFixture
      BY <1>c, <2>1, Numbers
    <3> QED BY <1>a, <1>f, <3>1, <3>2, <3>3 DEF IInv, TypeOK, Outcomes, settings
  <2>2. CASE ~answered
    BY <1>a, <1>d, <2>2, CleanupType DEF IInv, TypeOK, Outcomes, settings
  <2> QED BY <2>1, <2>2
<1>2. Counted'
  BY <1>a, <1>b, <1>f DEF IInv, TypeOK, Counted, Attempting, Running, Done, settings
<1>3. Held'
  BY <1>a, <1>c, <1>d DEF IInv, Held, Cleanup, Running, Pipes
<1>4. Output'
  BY <1>a DEF Output, Running
<1>5. Repeated'
  <2>1. \A i \in 1..(attempt - 1) : outcomes[i] # "plain"
    BY <1>a, <1>b DEF IInv, Repeated, Attempting, Running
  <2> QED BY <1>a, <1>b, <1>f, <2>1 DEF Repeated, Attempting, Running
<1>6. Results'
  <2>1. CASE answered
    BY <1>a, <1>c, <1>e, <1>f, <2>1 DEF Results, Attempting, Running, Done
  <2>2. CASE ~answered
    BY <1>a, <1>d, <1>e, <1>f, <2>2 DEF Results, Attempting, Running, Done, Cleanup
  <2> QED BY <2>1, <2>2
<1> QED BY <1>1, <1>2, <1>3, <1>4, <1>5, <1>6 DEF IInv

LEMMA WaitFailsKeeps ==
  ASSUME IInv, WaitFails
  PROVE  IInv'
<1>1. TypeOK'
  <2>1. /\ pc' = "decide" /\ outcomes' \in Seq(Outcomes)
        /\ file' \in BOOLEAN /\ response' \in Responses /\ error' \in 0..NoFixture
    BY CleanupType DEF IInv, WaitFails
  <2>2. fds' \in 0..(2 * Attempts + 4) /\ lost' \in 0..Attempts
    BY Numbers DEF IInv, TypeOK, Counted, Held, Attempting, Running, Pipes,
       WaitFails
  <2> QED BY <2>1, <2>2 DEF IInv, TypeOK, Outcomes, WaitFails, settings, process
<1>2. Counted'
  BY DEF IInv, TypeOK, Counted, Running, Attempting, WaitFails, settings, Cleanup
<1>3. Held'
  BY DEF IInv, Held, Running, Pipes, WaitFails, Cleanup
<1>4. Output'
  BY DEF IInv, Output, Running, WaitFails, Cleanup
<1>5. Repeated'
  BY DEF IInv, Repeated, Attempting, Held, WaitFails, Cleanup
<1>6. Results'
  BY DEF IInv, TypeOK, Counted, Results, Attempting, Running, Done, WaitFails,
     Cleanup
<1> QED BY <1>1, <1>2, <1>3, <1>4, <1>5, <1>6 DEF IInv

LEMMA CurlAnswersKeeps ==
  ASSUME IInv, CurlAnswers
  PROVE  IInv'
<1>1. TypeOK'
  BY DEF IInv, TypeOK, CurlAnswers, settings, mine, Plans
<1>2. Counted'
  BY DEF IInv, Counted, Done, CurlAnswers, settings, mine
<1>3. Held'
  BY DEF IInv, Held, CurlAnswers, mine
<1>4. Output'
  <2>1. pc' = pc /\ child = "asking"
    BY DEF CurlAnswers, mine
  <2>2. pipe' = pipe /\ unread' = plan'.left /\ child' = "writing" /\ read_ok' = read_ok
    BY DEF CurlAnswers, mine
  <2>3. /\ \A p \in Pipes : plan'.left[p] \in 0..MaxOutput
        /\ pc \in Running => \A p \in Pipes : pipe[p] = 0
    BY <2>1 DEF CurlAnswers, Plans, IInv, Output
  <2>4. pc \in Running => \A p \in Pipes : unread'[p] = pipe'[p] + plan'.left[p]
    <3> SUFFICES ASSUME pc \in Running, NEW p \in Pipes
                 PROVE  unread'[p] = pipe'[p] + plan'.left[p]
      OBVIOUS
    <3>1. PICK n \in 0..MaxOutput : n = plan'.left[p]
      BY <2>3
    <3>2. unread'[p] = n /\ pipe'[p] = 0
      BY <2>2, <2>3, <3>1
    <3> QED BY <3>1, <3>2, Numbers
  <2> QED BY <2>1, <2>2, <2>4 DEF IInv, Output
<1>5. Repeated'
  BY DEF IInv, Repeated, CurlAnswers, mine
<1>6. Results'
  BY DEF IInv, Results, Running, Held, Done, CurlAnswers, mine
<1> QED BY <1>1, <1>2, <1>3, <1>4, <1>5, <1>6 DEF IInv

LEMMA CurlWritesKeeps ==
  ASSUME IInv, NEW p \in Pipes, CurlWrites(p)
  PROVE  IInv'
<1>a. /\ child = "writing" /\ plan.left[p] > 0
      /\ UNCHANGED <<mine, file, unread>> /\ plan \in Plans
      /\ pipe \in [Pipes -> 0..Capacity] /\ plan.left \in [Pipes -> 0..MaxOutput]
  BY DEF IInv, TypeOK, Plans, CurlWrites
<1>b. pc \in Running
  BY <1>a DEF IInv, Held
<1>c. ASSUME fds > 2 * lost
      PROVE  TypeOK' /\ Output'
  <2>1. /\ pipe[p] < Capacity /\ pc \in Pipes
        /\ pipe' = [pipe EXCEPT ![p] = @ + 1] /\ child' = child
        /\ plan' = [plan EXCEPT !.left[p] = @ - 1]
    BY <1>b, <1>c DEF CurlWrites, IInv, TypeOK, Held, Running, Pipes
  <2>2. /\ plan'.left[p] = plan.left[p] - 1 /\ plan'.exit = plan.exit
        /\ \A q \in Pipes : q # p => plan'.left[q] = plan.left[q]
    BY <1>a, <2>1 DEF Plans
  <2>a. plan' \in Plans
    <3>1. plan'.left = [plan.left EXCEPT ![p] = @ - 1]
      BY <1>a, <2>1 DEF Plans
    <3>2. plan.left[p] - 1 \in 0..MaxOutput
      BY <1>a, Numbers
    <3>3. plan'.left \in [Pipes -> 0..MaxOutput]
      BY <1>a, <3>1, <3>2
    <3>4. plan' = [left |-> plan'.left, exit |-> plan.exit, kind |-> plan.kind]
      BY <1>a, <2>1 DEF Plans
    <3> QED BY <1>a, <3>3, <3>4 DEF Plans
  <2>3. /\ pipe'[p] = pipe[p] + 1 /\ pipe' \in [Pipes -> 0..Capacity]
        /\ \A q \in Pipes : q # p => pipe'[q] = pipe[q]
    BY <1>a, <2>1, Numbers
  <2>4. TypeOK'
    BY <1>a, <2>a, <2>1, <2>3 DEF IInv, TypeOK, mine, settings
  <2>5. Output'
    <3>1. \A q \in Pipes : unread'[q] = pipe'[q] + plan'.left[q]
      BY <1>a, <1>b, <2>2, <2>3 DEF IInv, Output
    <3>2. pc' = pc /\ pc = "out" /\ child' = "writing"
      BY <1>a, <1>b, <2>1 DEF IInv, Output, Pipes, mine
    <3> QED BY <3>1, <3>2 DEF Output
  <2> QED BY <2>4, <2>5
<1>d. ASSUME ~(fds > 2 * lost)
      PROVE  TypeOK' /\ Output'
  <2>1. /\ pc = "wait" /\ ~read_ok /\ child' = "exited" /\ pipe' = pipe
        /\ plan' = [plan EXCEPT !.exit = "other"]
    BY <1>a, <1>b, <1>d, SMTT(30) DEF CurlWrites, IInv, TypeOK, Held, Output,
       Running, Pipes
  <2>2. plan'.left = plan.left /\ plan'.exit = "other" /\ plan' \in Plans
    BY <1>a, <2>1 DEF Plans
  <2>3. TypeOK'
    BY <1>a, <2>1, <2>2 DEF IInv, TypeOK, mine, settings
  <2>4. Output'
    BY <1>a, <1>b, <2>1, <2>2 DEF IInv, Output, mine
  <2> QED BY <2>3, <2>4
<1>1. TypeOK'
  BY <1>c, <1>d
<1>2. Counted'
  BY DEF IInv, Counted, Done, CurlWrites, settings, mine
<1>3. Held'
  BY DEF IInv, Held, CurlWrites, mine
<1>4. Output'
  BY <1>c, <1>d
<1>5. Repeated'
  BY DEF IInv, Repeated, CurlWrites, mine
<1>6. Results'
  BY DEF IInv, Results, Done, ResultFollowsOutcomes, CurlWrites, settings, mine
<1> QED BY <1>1, <1>2, <1>3, <1>4, <1>5, <1>6 DEF IInv

LEMMA CurlExitsKeeps ==
  ASSUME IInv, CurlExits
  PROVE  IInv'
<1>1. TypeOK'
  BY DEF IInv, TypeOK, CurlExits, settings, mine
<1>2. Counted'
  BY DEF IInv, Counted, Done, CurlExits, settings, mine
<1>3. Held'
  BY DEF IInv, Held, CurlExits, mine
<1>4. Output'
  BY DEF IInv, Output, CurlExits, mine
<1>5. Repeated'
  BY DEF IInv, Repeated, CurlExits, mine
<1>6. Results'
  BY DEF IInv, Results, Done, ResultFollowsOutcomes, CurlExits, settings, mine
<1> QED BY <1>1, <1>2, <1>3, <1>4, <1>5, <1>6 DEF IInv

LEMMA CurlKilledKeeps ==
  ASSUME IInv, CurlKilled
  PROVE  IInv'
<1>1. TypeOK'
  BY DEF IInv, TypeOK, CurlKilled, settings, mine, Plans
<1>2. Counted'
  BY DEF IInv, Counted, Done, CurlKilled, settings, mine
<1>3. Held'
  BY DEF IInv, Held, CurlKilled, mine
<1>4. Output'
  BY DEF IInv, Output, CurlKilled, mine
<1>5. Repeated'
  BY DEF IInv, Repeated, CurlKilled, mine
<1>6. Results'
  BY DEF IInv, Results, Done, ResultFollowsOutcomes, CurlKilled, settings, mine
<1> QED BY <1>1, <1>2, <1>3, <1>4, <1>5, <1>6 DEF IInv

LEMMA NextKeeps ==
  ASSUME IInv, [Next]_vars
  PROVE  IInv'
<1>1. CASE Step
  BY <1>1, StartKeeps, DecideKeeps, FallbackKeeps, CreateFileKeeps,
     CreatePipesKeeps,
     ForkKeeps, ReadKeeps, ReadEndKeeps, WaitKeeps
  DEF Step
<1>2. CASE Failure
  BY <1>2, CreateFileFailsKeeps, CreatePipesFailsKeeps, ForkFailsKeeps,
     ReadFailsKeeps,
     WaitFailsKeeps
  DEF Failure
<1>3. CASE CurlAnswers \/ CurlRuns \/ CurlKilled
  BY <1>3, CurlAnswersKeeps, CurlExitsKeeps, CurlWritesKeeps,
     CurlKilledKeeps DEF CurlRuns
<1>4. CASE UNCHANGED vars
  BY <1>4 DEF vars, settings, process, IInv, TypeOK, Counted, Held, Output,
     Repeated,
              Results, ResultFollowsOutcomes, Done
<1> QED BY <1>1, <1>2, <1>3, <1>4 DEF Next

\* The invariant holds in every state of a request.
THEOREM InvariantHolds == Spec => []IInv
<1>1. Init => IInv
  BY InitIInv
<1>2. IInv /\ [Next]_vars => IInv'
  BY NextKeeps
<1> QED BY <1>1, <1>2, PTL DEF Spec

\* The state of the client and of curl keeps its types
\* (http_client.c:637-784, 786-858).
THEOREM TypeCorrect == Spec => []TypeOK
<1>1. IInv => TypeOK
  BY DEF IInv
<1> QED BY <1>1, InvariantHolds, PTL

\* After every attempt, however it ended, there is no process, no temporary
\* file and no descriptor left but those of a first pipe without a second
\* (http_client.c:672-784).
THEOREM CleansUp == Spec => []NothingLeftBehind
<1>1. IInv => NothingLeftBehind
  <2> SUFFICES ASSUME IInv, pc \in {"prepare", "decide", "fallback", "true", "false"}
               PROVE  child \in {"none", "reaped"} /\ ~file /\ fds = 2 * lost
    BY DEF NothingLeftBehind
  <2>1. pc \notin Running /\ pc \notin Pipes /\ pc # "fork" /\ pc # "pipes"
    BY DEF Running, Pipes
  <2>2. child \in {"none", "reaped"} /\ ~file
    BY <2>1 DEF IInv, Held
  <2>3. fds = 2 * lost + 0
    BY <2>1 DEF IInv, Held
  <2> QED BY <2>2, <2>3 DEF IInv, TypeOK
<1> QED BY <1>1, InvariantHolds, PTL

\* What a request returns is decided by the outcomes of its attempts
\* (http_client.c:797-857).
THEOREM ReturnsLastOutcome == Spec => []ResultFollowsOutcomes
<1>1. IInv => ResultFollowsOutcomes
  <2> SUFFICES ASSUME IInv, ~Done PROVE ResultFollowsOutcomes
    BY DEF IInv, Results
  <2>1. /\ Len(outcomes) \in Nat /\ attempt \in 0..Attempts
        /\ Len(outcomes) = attempt \/ Len(outcomes) = attempt - 1 \/ Len(outcomes) = 0
    BY LenProperties DEF IInv, TypeOK, Counted, Attempting, Running, Done
  <2>2. Len(outcomes) <= Attempts
    BY <2>1, Numbers
  <2>3. ASSUME NEW i \in 1..(Len(outcomes) - 1) PROVE outcomes[i] # "plain"
    <3>1. i \in 1..Len(outcomes) /\ i # attempt
      BY <2>1
    <3> QED BY <3>1 DEF IInv, Repeated
  <2>4. pc = "decide" /\ Last(outcomes) # "failed" => \A p \in Pipes : unread[p] = 0
    <3>1. pc = "decide" => Last(outcomes) = outcomes[attempt]
      BY DEF IInv, Counted, Last
    <3> QED BY <3>1 DEF IInv, Results
  <2> QED BY <2>2, <2>3, <2>4 DEF ResultFollowsOutcomes
<1> QED BY <1>1, InvariantHolds, PTL
=============================================================================
