----------------------------- MODULE ServerSpec -------------------------------
(***************************************************************************)
(* What the accept loop of the HTTP server promises                        *)
(* (src/src/utils/http_server.c:661-703): connections are served one after *)
(* the other, in the order in which they arrived, and each of them gets    *)
(* one answer or, when its peer has gone away, none.                       *)
(***************************************************************************)
EXTENDS Sequences

CONSTANT Conns

VARIABLES waiting,      \* connections that have arrived, in that order
          phase         \* of each connection

vars == <<waiting, phase>>

Init ==
  /\ waiting = <<>>
  /\ phase = [c \in Conns |-> "absent"]

Arrive(c) ==
  /\ phase[c] = "absent"
  /\ phase' = [phase EXCEPT ![c] = "waiting"]
  /\ waiting' = Append(waiting, c)

\* The oldest connection is taken when none is being served.
Take ==
  /\ waiting # <<>>
  /\ \A c \in Conns : phase[c] # "served"
  /\ phase' = [phase EXCEPT ![Head(waiting)] = "served"]
  /\ waiting' = Tail(waiting)

End(c) ==
  /\ phase[c] = "served"
  /\ \E outcome \in {"answered", "dropped"} : phase' = [phase EXCEPT ![c] = outcome]
  /\ UNCHANGED waiting

Next == Take \/ \E c \in Conns : Arrive(c) \/ End(c)

Spec == Init /\ [][Next]_vars
=============================================================================
