----------------------------- MODULE HttpServer -------------------------------
(***************************************************************************)
(* The HTTP server: http_server_listen (src/src/utils/http_server.c:601)   *)
(* and the handler it calls (src/src/interpreter/server.c:544).            *)
(*                                                                         *)
(* One thread accepts a connection, receives a request in pieces, parses   *)
(* it, runs the Able function of its route, writes the response and closes *)
(* the connection, and only then accepts the next.  No call has a timeout. *)
(* Clients are free to send in pieces, to send too little or too much, to  *)
(* end their side, to vanish, or to do nothing.                            *)
(*                                                                         *)
(* Bytes are counted in units; a request has a header of HeaderSize units. *)
(***************************************************************************)
EXTENDS Integers, Sequences, FiniteSets

CONSTANTS Conns, NoConn,
          HeaderSize,   \* units up to the blank line
          Requests,     \* what clients may ask for
          Chunk,        \* units that one recv returns at most
          Modulus,      \* of size_t: 2^64 in the build
          MaxSent       \* bound on the units of a client

\* announced: the Content-Length, 0 if there is none; text: units behind the
\* header before the first NUL, if the client sends that many; target: what
\* parse_request and find_route will make of the request; drains: does the
\* client read its response while the server writes it.
AllRequests ==
  [announced : 0..(Modulus - 1), text : Nat,
   target : {"malformed", "unknown", "routed"}, drains : BOOLEAN]

ASSUME HttpServerAssumption ==
  /\ NoConn \notin Conns
  /\ HeaderSize \in Nat \ {0} /\ Chunk \in Nat \ {0} /\ MaxSent \in Nat
  /\ Modulus \in Nat \ {0} /\ HeaderSize < Modulus
  /\ Requests \subseteq AllRequests

Nothing == [announced |-> 0, text |-> 0, target |-> "malformed", drains |-> TRUE]

\* "function": what the function of the route returned.
Statuses == {"200", "400", "404", "function"}

VARIABLES client,         \* per connection: what its peer has done
          request,        \* per connection: what it asks for
          sent,           \* per connection: units sent so far
          wire,           \* per connection: units not yet received
          queue,          \* the backlog of the listening socket
          pc,
          conn,           \* client_fd
          size,           \* buffer->size
          headers_parsed,
          status,         \* response.status_code
          handed,         \* per connection: length of the body of each call of a function
          answers,        \* per connection: the answers written to it
          closed          \* connections the server has closed

network == <<client, request, sent>>
vars == <<network, wire, queue, pc, conn, size, headers_parsed, status, handed,
          answers, closed>>

TypeOK ==
  /\ client \in [Conns -> {"absent", "open", "finished", "gone"}]
  /\ request \in [Conns -> Requests \cup {Nothing}]
  /\ sent \in [Conns -> Nat] /\ wire \in [Conns -> Nat]
  /\ queue \in Seq(Conns)
  /\ pc \in {"accepting", "reading", "handling", "writing", "down"}
  /\ conn \in Conns \cup {NoConn}
  /\ pc = "accepting" => conn = NoConn
  /\ pc \in {"reading", "handling", "writing"} => conn \in Conns /\ conn \notin closed
  /\ size \in Nat /\ headers_parsed \in BOOLEAN
  /\ status \in Statuses
  /\ handed \in [Conns -> Seq(Nat)]
  /\ answers \in [Conns -> Seq(Statuses)]
  /\ closed \subseteq Conns

Init ==
  /\ client = [c \in Conns |-> "absent"]
  /\ request = [c \in Conns |-> Nothing]
  /\ sent = [c \in Conns |-> 0] /\ wire = [c \in Conns |-> 0]
  /\ queue = <<>>
  /\ pc = "accepting" /\ conn = NoConn
  /\ size = 0 /\ headers_parsed = FALSE /\ status = "200"
  /\ handed = [c \in Conns |-> <<>>]
  /\ answers = [c \in Conns |-> <<>>]
  /\ closed = {}

-----------------------------------------------------------------------------
(* The clients.                                                            *)

server == <<pc, conn, size, headers_parsed, status, handed, answers, closed>>

Connect(c) ==
  /\ client[c] = "absent"
  /\ client' = [client EXCEPT ![c] = "open"]
  /\ \E r \in Requests : request' = [request EXCEPT ![c] = r]
  /\ queue' = Append(queue, c)
  /\ UNCHANGED <<sent, wire, server>>

ClientSends(c) ==
  /\ client[c] = "open" /\ c \notin closed
  /\ sent[c] < MaxSent
  /\ sent' = [sent EXCEPT ![c] = @ + 1]
  /\ wire' = [wire EXCEPT ![c] = @ + 1]
  /\ UNCHANGED <<client, request, queue, server>>

\* shutdown of the sending side: recv returns 0 when all has been received.
ClientFinishes(c) ==
  /\ client[c] = "open" /\ c \notin closed
  /\ client' = [client EXCEPT ![c] = "finished"]
  /\ UNCHANGED <<request, sent, wire, queue, server>>

\* A reset: what was not received yet is lost.
ClientVanishes(c) ==
  /\ client[c] \in {"open", "finished"} /\ c \notin closed
  /\ client' = [client EXCEPT ![c] = "gone"]
  /\ wire' = [wire EXCEPT ![c] = 0]
  /\ UNCHANGED <<request, sent, queue, server>>

-----------------------------------------------------------------------------
(* The accept loop.                                                        *)

Accept ==
  /\ pc = "accepting" /\ queue # <<>>
  /\ conn' = Head(queue) /\ queue' = Tail(queue)
  /\ pc' = "reading"
  /\ size' = 0 /\ headers_parsed' = FALSE /\ status' = "200"
  /\ UNCHANGED <<network, wire, handed, answers, closed>>

\* An error of accept other than EINTR ends the loop and, in
\* interpreter_server_listen, the process.
AcceptFails ==
  /\ pc = "accepting"
  /\ pc' = "down"
  /\ UNCHANGED <<network, wire, queue, conn, size, headers_parsed, status,
                 handed, answers, closed>>

\* Mutant of Complete: the header is not counted.
Complete_HeaderUncounted(received) == received >= request[conn].announced

\* Has all that was announced arrived?  The sum is one of size_t.
Complete(received) ==
  received >= (HeaderSize + request[conn].announced) % Modulus

Reply(code) == status' = code /\ pc' = "writing"

\* Of n units behind the header a function gets a string that is copied up to
\* its first NUL; what body_length says is not used.
Text(c, n) == IF n <= request[c].text THEN n ELSE request[c].text

\* What happens to a request that has been read: a malformed one is answered
\* at once, one for no route by server_handle_request, any other is handed to
\* the function of its route with the text of all that came behind the header.
Dispatch(received) ==
  \/ /\ request[conn].target = "malformed"
     /\ Reply("400") /\ UNCHANGED handed
  \/ /\ request[conn].target = "unknown"
     /\ Reply("404") /\ UNCHANGED handed
  \/ /\ request[conn].target = "routed"
     /\ pc' = "handling"
     /\ handed' = [handed EXCEPT ![conn] = Append(@, Text(conn, received - HeaderSize))]
     /\ UNCHANGED status

\* recv returns what has arrived, up to the size of the chunk.
Recv ==
  /\ pc = "reading"
  /\ \E n \in 1..Chunk :
       /\ n <= wire[conn]
       /\ wire' = [wire EXCEPT ![conn] = @ - n]
       /\ size' = size + n
       /\ headers_parsed' = (headers_parsed \/ size + n >= HeaderSize)
       /\ IF headers_parsed' /\ Complete(size + n)
          THEN Dispatch(size + n)
          ELSE UNCHANGED <<pc, status, handed>>
  /\ UNCHANGED <<network, queue, conn, answers, closed>>

\* Mutant of RecvEnd: a request that ends inside its header is dispatched.
RecvEnd_Dispatches ==
  /\ pc = "reading" /\ client[conn] = "finished" /\ wire[conn] = 0
  /\ Dispatch(size)
  /\ UNCHANGED <<network, wire, queue, conn, size, headers_parsed, answers, closed>>

\* recv returns 0: the body is what has arrived, if the header has.
RecvEnd ==
  /\ pc = "reading" /\ client[conn] = "finished" /\ wire[conn] = 0
  /\ IF headers_parsed THEN Dispatch(size) ELSE Reply("400") /\ UNCHANGED handed
  /\ UNCHANGED <<network, wire, queue, conn, size, headers_parsed, answers, closed>>

\* Mutant of RecvFails: every error is taken for an interrupted call.
RecvFails_Retries ==
  /\ pc = "reading" /\ client[conn] = "gone"
  /\ UNCHANGED vars

\* recv returns an error, even when all of the header has been received.
RecvFails ==
  /\ pc = "reading" /\ client[conn] = "gone"
  /\ Reply("400")
  /\ UNCHANGED <<network, wire, queue, conn, size, headers_parsed, handed,
                 answers, closed>>

\* The function of the route comes back with a value.
HandlerReturns ==
  /\ pc = "handling"
  /\ Reply("function")
  /\ UNCHANGED <<network, wire, queue, conn, size, headers_parsed, handed,
                 answers, closed>>

\* A script error in it, or a value that is no response, ends the process.
HandlerFails ==
  /\ pc = "handling"
  /\ pc' = "down"
  /\ UNCHANGED <<network, wire, queue, conn, size, headers_parsed, status,
                 handed, answers, closed>>

Close ==
  /\ closed' = closed \cup {conn}
  /\ pc' = "accepting" /\ conn' = NoConn
  /\ UNCHANGED <<network, wire, queue, size, headers_parsed, status, handed>>

\* Mutant of WriteResponse: the connection is kept for another request.
WriteResponse_KeepsOpen ==
  /\ pc = "writing" /\ client[conn] # "gone" /\ request[conn].drains
  /\ answers' = [answers EXCEPT ![conn] = Append(@, status)]
  /\ pc' = "reading" /\ size' = 0 /\ headers_parsed' = FALSE
  /\ UNCHANGED <<network, wire, queue, conn, status, handed, closed>>

\* send goes on until the client has taken the whole response.
WriteResponse ==
  /\ pc = "writing" /\ client[conn] # "gone" /\ request[conn].drains
  /\ answers' = [answers EXCEPT ![conn] = Append(@, status)]
  /\ Close

\* Mutant of WriteFails: the connection is left open.
WriteFails_NoClose ==
  /\ pc = "writing" /\ client[conn] = "gone"
  /\ pc' = "accepting" /\ conn' = conn
  /\ UNCHANGED <<network, wire, queue, size, headers_parsed, status, handed,
                 answers, closed>>

\* send to a client that is gone returns an error, which the loop ignores ...
WriteFails ==
  /\ pc = "writing" /\ client[conn] = "gone"
  /\ UNCHANGED answers
  /\ Close

\* ... or raises SIGPIPE, which nobody handles (there is no MSG_NOSIGNAL).
WriteKills ==
  /\ pc = "writing" /\ client[conn] = "gone"
  /\ pc' = "down"
  /\ UNCHANGED <<network, wire, queue, conn, size, headers_parsed, status,
                 handed, answers, closed>>

ClientStep ==
  \E c \in Conns :
    Connect(c) \/ ClientSends(c) \/ ClientFinishes(c) \/ ClientVanishes(c)
ServerStep ==
  \/ Accept \/ Recv \/ RecvEnd \/ RecvFails
  \/ HandlerReturns \/ WriteResponse \/ WriteFails
Failure == AcceptFails \/ HandlerFails \/ WriteKills

Next == ClientStep \/ ServerStep \/ Failure

Spec == Init /\ [][Next]_vars

\* The process takes its next step when no call of it blocks, and handlers
\* come back.  Clients owe nothing.
FairSpec == Spec /\ WF_vars(ServerStep)
-----------------------------------------------------------------------------
(* Properties.                                                             *)

\* The whole announced request fits into a size_t.
Fits(c) == HeaderSize + request[c].announced < Modulus

\* A function is called at most once for a connection, and its body is the text
\* of what the client has sent behind its header: no less than was announced of
\* it, unless the client ended its side or the sum of the lengths overflows, and
\* more than was announced by less than one piece, the one that completed it.
BodyIsWhatWasSent ==
  \A c \in Conns :
    /\ Len(handed[c]) <= 1
    /\ \A i \in 1..Len(handed[c]) :
         LET n == handed[c][i] IN
         /\ n >= Text(c, request[c].announced) \/ client[c] \in {"finished", "gone"}
            \/ ~Fits(c)
         /\ n <= Text(c, sent[c] - HeaderSize)
         /\ n < request[c].announced + Chunk

\* An answer says what became of the request: the value of a function if and
\* only if one was called, 404 only for a request with its whole header, 400
\* only for a malformed header or one whose end never came, and never the 200
\* that every response starts with.
RightAnswer ==
  \A c \in Conns : \A i \in 1..Len(answers[c]) :
    /\ answers[c][i] # "200"
    /\ answers[c][i] = "function" <=> handed[c] # <<>>
    /\ answers[c][i] = "404" => request[c].target = "unknown" /\ sent[c] >= HeaderSize
    /\ answers[c][i] = "400" =>
         request[c].target = "malformed"
         \/ (sent[c] < HeaderSize /\ client[c] = "finished")

\* The loop serves connections as ServerSpec says: one after the other, in the
\* order of arrival, with one answer or, if the client is gone, none.
Unanswered(c) == c \notin closed /\ answers[c] = <<>>
Phase(c) ==
  CASE c \in closed /\ Len(answers[c]) = 1 -> "answered"
    [] c \in closed /\ answers[c] = <<>> /\ client[c] = "gone" -> "dropped"
    [] Unanswered(c) /\ client[c] # "absent" /\ conn = c -> "served"
    [] Unanswered(c) /\ client[c] # "absent" /\ conn # c -> "waiting"
    [] Unanswered(c) /\ client[c] = "absent" /\ conn # c -> "absent"
    [] OTHER -> "broken"
Promise == INSTANCE ServerSpec WITH waiting <- queue, phase <- [c \in Conns |-> Phase(c)]
ServesInTurn == Promise!Spec

\* A client on whom the server waits: nothing limits how long.
Blocked ==
  /\ conn \in Conns /\ client[conn] # "gone"
  /\ \/ pc = "reading" /\ client[conn] = "open" /\ wire[conn] = 0
     \/ pc = "writing" /\ ~request[conn].drains

\* Every connection is answered and closed in the end, unless the process has
\* ended or one client keeps it waiting for ever.
Served ==
  \/ <>[]Blocked
  \/ \A c \in Conns : (client[c] # "absent") ~> (c \in closed \/ pc = "down")
=============================================================================
