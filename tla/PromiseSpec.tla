----------------------------- MODULE PromiseSpec -----------------------------
(***************************************************************************)
(* What a promise of the Able runtime promises, whatever awaits it and in  *)
(* whatever order: it is created at most once, the body of an async call   *)
(* starts at most once, only a body that has started settles the promise,  *)
(* and what a promise settled with never changes again.                    *)
(*                                                                         *)
(* src/src/interpreter/call.c and src/src/types/promise.c are the code     *)
(* that has to keep these promises; module Await models them and is shown  *)
(* to implement this module.                                               *)
(***************************************************************************)
CONSTANTS Promises,     \* the promises a run may create
          Plain         \* the values that are not promises

Values == Promises \cup Plain

VARIABLES status,       \* where each promise is in its life
          outcome       \* what it settled with, NoOutcome before that

Statuses == {"unborn", "pending", "running", "fulfilled", "rejected"}
NoOutcome == "no outcome"

avars == <<status, outcome>>

AInit ==
  /\ status = [p \in Promises |-> "unborn"]
  /\ outcome = [p \in Promises |-> NoOutcome]

Move(p, from, to) ==
  /\ status[p] = from
  /\ status' = [status EXCEPT ![p] = to]

\* An async call makes a promise and runs nothing.
Create(p) == Move(p, "unborn", "pending") /\ UNCHANGED outcome

\* Promise.resolve and Promise.reject make a promise that is settled at birth.
Born(p, how, v) ==
  /\ Move(p, "unborn", how)
  /\ outcome' = [outcome EXCEPT ![p] = v]

\* The first await of a pending promise starts its body.
Begin(p) == Move(p, "pending", "running") /\ UNCHANGED outcome

\* The body ends, and what it returned is what the promise is fulfilled with.
Fulfil(p, v) ==
  /\ Move(p, "running", "fulfilled")
  /\ outcome' = [outcome EXCEPT ![p] = v]

ANext ==
  \E p \in Promises :
     \/ Create(p)
     \/ Begin(p)
     \/ \E v \in Values :
           \/ Born(p, "fulfilled", v)
           \/ Born(p, "rejected", v)
           \/ Fulfil(p, v)

ASpec == AInit /\ [][ANext]_avars
==============================================================================
