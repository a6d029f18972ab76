-------------------------- MODULE HttpServerProofs ----------------------------
(***************************************************************************)
(* Proofs about HttpServer, for any connections, requests, sizes and any   *)
(* width of size_t.                                                        *)
(***************************************************************************)
EXTENDS HttpServer, SequenceTheorems, TLAPS

\* The backlog holds every connection once, and none that is or was served.
Backlog ==
  \A i \in 1..Len(queue) :
    /\ client[queue[i]] # "absent"
    /\ queue[i] # conn /\ queue[i] \notin closed
    /\ \A j \in 1..Len(queue) : queue[i] = queue[j] => i = j

\* All that a peer has sent is on the wire or in the buffer, unless lost in a
\* reset.
Arrived(c, received) ==
  /\ received + wire[c] <= sent[c]
  /\ client[c] # "gone" => received + wire[c] = sent[c]

Unserved ==
  \A c \in Conns :
    /\ client[c] = "absent" => c # conn /\ c \notin closed
    /\ c \notin closed => answers[c] = <<>>
    /\ c \notin closed /\ c # conn => handed[c] = <<>> /\ Arrived(c, 0)

\* RightAnswer for one answer.
Right(c, answer) ==
  /\ answer # "200"
  /\ answer = "function" <=> handed[c] # <<>>
  /\ answer = "404" => request[c].target = "unknown" /\ sent[c] >= HeaderSize
  /\ answer = "400" =>
       request[c].target = "malformed"
       \/ (sent[c] < HeaderSize /\ client[c] = "finished")

ClosedRight ==
  \A c \in closed :
    \/ answers[c] = <<>> /\ client[c] = "gone"
    \/ Len(answers[c]) = 1 /\ Right(c, answers[c][1])

\* Where the connection being served stands.
Serving ==
  /\ pc = "reading" =>
       /\ handed[conn] = <<>> /\ Arrived(conn, size)
       /\ headers_parsed <=> size >= HeaderSize
       /\ size < HeaderSize + request[conn].announced
  /\ pc = "handling" => handed[conn] # <<>>
  /\ pc = "writing" => Right(conn, status) \/ client[conn] = "gone"

\* How many units there may be behind the header when a request is complete.
Behind(c, n) ==
  /\ n \in 0..(sent[c] - HeaderSize)
  /\ n >= request[c].announced \/ client[c] \in {"finished", "gone"} \/ ~Fits(c)
  /\ n < request[c].announced + Chunk

\* What BodyIsWhatWasSent says of one body.
Body(c, n) ==
  /\ n >= Text(c, request[c].announced) \/ client[c] \in {"finished", "gone"}
     \/ ~Fits(c)
  /\ n <= Text(c, sent[c] - HeaderSize)
  /\ n < request[c].announced + Chunk

Bodies ==
  \A c \in Conns :
    /\ Len(handed[c]) <= 1
    /\ \A i \in 1..Len(handed[c]) : Body(c, handed[c][i])

IInv == TypeOK /\ Backlog /\ Unserved /\ ClosedRight /\ Serving /\ Bodies

LEMMA Numbers ==
  /\ HeaderSize \in Nat \ {0} /\ Modulus \in Nat \ {0} /\ Chunk \in Nat \ {0}
  /\ HeaderSize < Modulus /\ NoConn \notin Conns
  BY HttpServerAssumption

LEMMA RequestType ==
  ASSUME NEW r \in Requests \cup {Nothing}
  PROVE  r.announced \in Nat /\ r.text \in Nat /\ r.target \in {"malformed", "unknown", "routed"}
  BY HttpServerAssumption DEF AllRequests, Nothing

\* A request whose sum does not wrap is complete when all of it is there.
LEMMA CompleteRequest ==
  ASSUME TypeOK, conn \in Conns, NEW n \in Nat, Complete(n), Fits(conn)
  PROVE  n - HeaderSize >= request[conn].announced
<1> DEFINE total == HeaderSize + request[conn].announced
<1>1. request[conn].announced \in Nat
  BY RequestType DEF TypeOK
<1>2. total \in Nat /\ total < Modulus
  BY <1>1, Numbers DEF Fits
<1>3. total % Modulus = total
  <2> HIDE DEF total
  <2> QED BY <1>2, Numbers
<1> QED BY <1>1, <1>3, Numbers DEF Complete

\* One that is not complete has room for a unit more.
LEMMA IncompleteRequest ==
  ASSUME TypeOK, conn \in Conns, NEW n \in Nat, ~Complete(n)
  PROVE  n < HeaderSize + request[conn].announced
<1> DEFINE total == HeaderSize + request[conn].announced
<1>0. request[conn].announced \in Nat
  BY RequestType DEF TypeOK
<1>1. total \in Nat
  BY <1>0, Numbers
<1>2. total % Modulus \in Nat /\ total % Modulus <= total
  <2> HIDE DEF total
  <2>1. CASE total < Modulus
    <3>1. total % Modulus = total
      BY <1>1, <2>1, Numbers
    <3> QED BY <1>1, <3>1
  <2>2. CASE total >= Modulus
    <3>1. total % Modulus \in 0..(Modulus - 1)
      BY <1>1, Numbers
    <3> QED BY <1>1, <2>2, <3>1, Numbers
  <2> QED BY <1>1, <2>1, <2>2, Numbers
<1>3. n < total % Modulus
  BY <1>1, <1>2, Numbers DEF Complete
<1> QED BY <1>1, <1>2, <1>3

\* The text of what is behind the header makes a body.
LEMMA TextIsBody ==
  ASSUME TypeOK, NEW c \in Conns, NEW n, Behind(c, n)
  PROVE  Text(c, n) \in Nat /\ Body(c, Text(c, n))
<1>1. /\ request[c].announced \in Nat /\ request[c].text \in Nat
      /\ sent[c] \in Nat /\ n \in Nat
  BY RequestType, Numbers DEF TypeOK, Behind
<1> QED BY <1>1, Numbers DEF Behind, Body, Text

LEMMA QueueType ==
  ASSUME TypeOK
  PROVE  \A i \in 1..Len(queue) : queue[i] \in Conns
  BY ElementOfSeq DEF TypeOK

\* The backlog keeps its property in a step that takes nothing from it: no
\* connection in it is the one that is served, or closed with it.
LEMMA BacklogKept ==
  ASSUME TypeOK, Backlog, queue' = queue, conn' \in {conn, NoConn},
         closed' \in {closed, closed \cup {conn}},
         \A c \in Conns : client[c] # "absent" => client'[c] # "absent"
  PROVE  Backlog'
<1> SUFFICES ASSUME NEW i \in 1..Len(queue)
             PROVE  /\ client'[queue[i]] # "absent"
                    /\ queue[i] # conn' /\ queue[i] \notin closed'
                    /\ \A j \in 1..Len(queue) : queue[i] = queue[j] => i = j
  BY DEF Backlog
<1>1. queue[i] \in Conns /\ queue[i] # NoConn
  BY QueueType, Numbers
<1> QED BY <1>1 DEF Backlog

LEMMA InitIInv == Init => IInv
<1> SUFFICES ASSUME Init PROVE IInv
  OBVIOUS
<1>1. TypeOK
  <2>1. headers_parsed \in BOOLEAN
    BY Zenon DEF Init
  <2>2. answers \in [Conns -> Seq(Statuses)] /\ queue \in Seq(Conns)
    BY EmptySeq DEF Init
  <2>3. request \in [Conns -> Requests \cup {Nothing}]
    BY DEF Init
  <2>4. client \in [Conns -> {"absent", "open", "finished", "gone"}]
    BY DEF Init
  <2>5. sent \in [Conns -> Nat] /\ wire \in [Conns -> Nat]
    BY DEF Init
  <2>6. handed \in [Conns -> Seq(Nat)]
    BY DEF Init
  <2> QED
    BY <2>1, <2>2, <2>3, <2>4, <2>5, <2>6 DEF Init, TypeOK, Statuses
<1>2. Backlog /\ Unserved /\ ClosedRight /\ Serving /\ Bodies
  BY Numbers DEF Init, Backlog, Unserved, Arrived, ClosedRight, Serving, Bodies
<1> QED BY <1>1, <1>2 DEF IInv

LEMMA ConnectKeeps ==
  ASSUME IInv, NEW c \in Conns, Connect(c)
  PROVE  IInv'
<1>1. TypeOK'
  BY Numbers DEF IInv, TypeOK, Serving, Statuses, Connect, network, server
<1>2. Backlog'
  <2>1. /\ Len(queue') = Len(queue) + 1
        /\ queue'[Len(queue) + 1] = c
        /\ \A i \in 1..Len(queue) : queue'[i] = queue[i]
    BY AppendProperties DEF IInv, TypeOK, Connect
  <2>2. Len(queue) \in Nat
    BY LenProperties DEF IInv, TypeOK
  <2>3. \A i \in 1..Len(queue) : queue[i] \in Conns /\ queue[i] # c
    BY QueueType DEF IInv, Backlog, Connect
  <2>4. c # conn /\ c \notin closed /\ conn' = conn /\ closed' = closed
    BY DEF IInv, Unserved, Connect, server
  <2>5. client' = [client EXCEPT ![c] = "open"] /\ client \in [Conns -> {"absent", "open", "finished", "gone"}]
    BY DEF Connect, IInv, TypeOK
  <2>6. ASSUME NEW i \in 1..Len(queue')
        PROVE  /\ client'[queue'[i]] # "absent"
               /\ queue'[i] # conn' /\ queue'[i] \notin closed'
               /\ \A j \in 1..Len(queue') : queue'[i] = queue'[j] => i = j
    <3>1. CASE i \in 1..Len(queue)
      <4>1. queue'[i] = queue[i] /\ queue[i] \in Conns /\ queue[i] # c
        BY <2>1, <2>3, <3>1
      <4>2. /\ client[queue[i]] # "absent"
            /\ queue[i] # conn /\ queue[i] \notin closed
            /\ \A j \in 1..Len(queue) : queue[i] = queue[j] => i = j
        BY <3>1 DEF IInv, Backlog
      <4> QED BY <2>1, <2>2, <2>4, <2>5, <4>1, <4>2
    <3>2. CASE i = Len(queue) + 1
      BY <2>1, <2>2, <2>3, <2>4, <2>5, <3>2
    <3> QED BY <2>1, <2>2, <3>1, <3>2
  <2> QED BY <2>6 DEF Backlog
<1>3. Unserved'
  BY Numbers DEF IInv, TypeOK, Backlog, Unserved, Serving, Arrived, Connect,
     network, server
<1>4. ClosedRight'
  BY Numbers DEF IInv, TypeOK, ClosedRight, Right, Unserved, Serving, Connect,
     network, server
<1>5. Serving'
  BY Numbers DEF IInv, TypeOK, Serving, Arrived, Right, Unserved, Connect, network,
     server
<1>6. Bodies'
  <2>1. handed[c] = <<>> /\ handed' = handed
    BY DEF IInv, Unserved, Connect, server
  <2>2. \A d \in Conns \ {c} :
          client'[d] = client[d] /\ request'[d] = request[d] /\ sent' = sent
    BY DEF IInv, TypeOK, Connect
  <2> QED BY <2>1, <2>2, EmptySeq DEF IInv, Bodies, Body, Text, Fits
<1> QED BY <1>1, <1>2, <1>3, <1>4, <1>5, <1>6 DEF IInv

LEMMA ClientSendsKeeps ==
  ASSUME IInv, NEW c \in Conns, ClientSends(c)
  PROVE  IInv'
<1>1. TypeOK'
  BY Numbers, SMTT(30) DEF IInv, TypeOK, Serving, Statuses, ClientSends, network,
     server
<1>2. Backlog'
  BY BacklogKept DEF IInv, ClientSends, network, server
<1>3. Unserved'
  BY DEF IInv, TypeOK, Unserved, Arrived, ClientSends, server
<1>4. ClosedRight'
  BY DEF IInv, ClosedRight, Right, ClientSends, server
<1>5. Serving'
  BY Numbers DEF IInv, TypeOK, Serving, Arrived, Right, Unserved, ClientSends,
     network, server
<1>6. Bodies'
  <2>1. UNCHANGED <<client, request, handed>>
    BY DEF ClientSends, server
  <2>2. ASSUME NEW d \in Conns, NEW n \in Nat, Body(d, n)
        PROVE  Body(d, n)'
    <3>1. /\ request[d].announced \in Nat /\ request[d].text \in Nat
          /\ sent[d] \in Nat /\ sent'[d] \in {sent[d], sent[d] + 1}
      BY RequestType DEF IInv, TypeOK, ClientSends
    <3>2. Text(d, sent[d] - HeaderSize) <= Text(d, sent'[d] - HeaderSize)
      BY <3>1, Numbers DEF Text
    <3>3. n <= Text(d, sent[d] - HeaderSize)
      BY <2>2 DEF Body
    <3>4. n <= Text(d, sent'[d] - HeaderSize)
      <4>1. Text(d, sent[d] - HeaderSize) \in Int /\ Text(d, sent'[d] - HeaderSize) \in Int
        BY <3>1, Numbers DEF Text
      <4>2. sent[d] - HeaderSize \in Int
        BY <3>1, Numbers
      <4> QED BY <3>1, <3>3, Numbers DEF Text
    <3>5. Text(d, sent[d] - HeaderSize)' = Text(d, sent'[d] - HeaderSize)
          /\ Text(d, request[d].announced)' = Text(d, request[d].announced)
      BY <2>1 DEF Text
    <3>6. Fits(d)' = Fits(d)
      BY <2>1 DEF Fits
    <3> QED BY <2>1, <2>2, <3>4, <3>5, <3>6 DEF Body
  <2>3. \A d \in Conns : \A i \in 1..Len(handed[d]) : handed[d][i] \in Nat
    BY ElementOfSeq DEF IInv, TypeOK
  <2> QED BY <2>1, <2>2, <2>3 DEF IInv, Bodies
<1> QED BY <1>1, <1>2, <1>3, <1>4, <1>5, <1>6 DEF IInv

LEMMA ClientFinishesKeeps ==
  ASSUME IInv, NEW c \in Conns, ClientFinishes(c)
  PROVE  IInv'
<1>1. TypeOK'
  BY Numbers DEF IInv, TypeOK, Serving, Statuses, ClientFinishes, network, server
<1>2. Backlog'
  BY BacklogKept DEF IInv, ClientFinishes, network, server
<1>3. Unserved'
  BY DEF IInv, Unserved, Arrived, ClientFinishes, server
<1>4. ClosedRight'
  BY DEF IInv, ClosedRight, Right, ClientFinishes, server
<1>5. Serving'
  BY DEF IInv, Serving, Arrived, Right, ClientFinishes, server
<1>6. Bodies'
  BY DEF IInv, Bodies, Body, Text, Fits, ClientFinishes, server
<1> QED BY <1>1, <1>2, <1>3, <1>4, <1>5, <1>6 DEF IInv

LEMMA ClientVanishesKeeps ==
  ASSUME IInv, NEW c \in Conns, ClientVanishes(c)
  PROVE  IInv'
<1>1. TypeOK'
  BY Numbers DEF IInv, TypeOK, Serving, Statuses, ClientVanishes, network, server
<1>2. Backlog'
  BY QueueType DEF IInv, TypeOK, Backlog, ClientVanishes, network, server
<1>3. Unserved'
  BY DEF IInv, TypeOK, Unserved, Arrived, ClientVanishes, server
<1>4. ClosedRight'
  BY DEF IInv, ClosedRight, Right, ClientVanishes, server
<1>5. Serving'
  BY DEF IInv, TypeOK, Serving, Arrived, Right, ClientVanishes, server
<1>6. Bodies'
  BY DEF IInv, Bodies, Body, Text, Fits, ClientVanishes, server
<1> QED BY <1>1, <1>2, <1>3, <1>4, <1>5, <1>6 DEF IInv

LEMMA AcceptKeeps ==
  ASSUME IInv, Accept
  PROVE  IInv'
<1> DEFINE c == Head(queue)
<1>a. /\ c = queue[1] /\ Len(queue) \in Nat /\ Len(queue) >= 1
      /\ queue' \in Seq(Conns) /\ Len(queue') = Len(queue) - 1
      /\ \A i \in 1..Len(queue') : queue'[i] = queue[i + 1]
  BY HeadTailProperties, LenProperties, EmptySeq DEF IInv, TypeOK, Accept
<1>b. c \in Conns /\ client[c] # "absent" /\ c \notin closed
  BY <1>a, QueueType DEF IInv, Backlog
<1>1. TypeOK'
  <2>1. headers_parsed' \in BOOLEAN
    BY Zenon DEF Accept
  <2> HIDE DEF c
  <2>2. conn' = c /\ pc' = "reading"
    BY DEF Accept, c
  <2> QED BY <1>a, <1>b, <2>1, <2>2 DEF IInv, TypeOK, Statuses, Accept, network
<1>2. Backlog'
  <2>1. conn' = queue[1] /\ closed' = closed /\ client' = client
    BY <1>a DEF Accept, network
  <2>2. \A i \in 1..Len(queue') : i + 1 \in 1..Len(queue) /\ i + 1 # 1
    BY <1>a
  <2>3. ASSUME NEW i \in 1..Len(queue')
        PROVE  /\ client'[queue'[i]] # "absent"
               /\ queue'[i] # conn' /\ queue'[i] \notin closed'
    BY <1>a, <2>1, <2>2 DEF IInv, Backlog
  <2>4. ASSUME NEW i \in 1..Len(queue'), NEW j \in 1..Len(queue'), queue'[i] = queue'[j]
        PROVE  i = j
    <3>1. queue[i + 1] = queue[j + 1] /\ i + 1 \in 1..Len(queue) /\ j + 1 \in 1..Len(queue)
      BY <1>a, <2>2, <2>4
    <3>2. i + 1 = j + 1
      BY <3>1 DEF IInv, Backlog
    <3> QED BY <3>2
  <2> QED BY <2>3, <2>4 DEF Backlog
<1>3. Unserved'
  <2>1. conn' = c /\ conn = NoConn
    BY DEF IInv, TypeOK, Accept
  <2> QED BY <1>b, <2>1, Numbers DEF IInv, Unserved, Arrived, Accept, network
<1>4. ClosedRight'
  BY Numbers DEF IInv, TypeOK, ClosedRight, Right, Unserved, Serving, Accept,
     network, server
<1>5. Serving'
  <2>1. conn' = c /\ conn = NoConn /\ pc' = "reading" /\ size' = 0
    BY DEF IInv, TypeOK, Accept
  <2>2. handed[c] = <<>> /\ Arrived(c, 0)
    BY <1>b, <2>1, Numbers DEF IInv, Unserved
  <2>3. headers_parsed' <=> size' >= HeaderSize
    BY <2>1, Numbers DEF Accept
  <2>4. size' < HeaderSize + request[c].announced
    <3>1. request[c].announced \in Nat
      BY <1>b, RequestType DEF IInv, TypeOK
    <3> QED BY <2>1, <3>1, Numbers
  <2> QED BY <2>1, <2>2, <2>3, <2>4 DEF Serving, Arrived, Accept, network
<1>6. Bodies'
  BY Numbers DEF IInv, TypeOK, Bodies, Body, Text, Fits, Unserved, Serving, Accept,
     network, server
<1> QED BY <1>1, <1>2, <1>3, <1>4, <1>5, <1>6 DEF IInv

LEMMA AcceptFailsKeeps ==
  ASSUME IInv, AcceptFails
  PROVE  IInv'
<1>1. TypeOK'
  BY Numbers DEF IInv, TypeOK, Serving, Statuses, AcceptFails, network, server
<1>2. Backlog'
  BY BacklogKept DEF IInv, AcceptFails, network, server
<1>3. Unserved'
  BY DEF IInv, Unserved, Arrived, AcceptFails, network
<1>4. ClosedRight'
  BY DEF IInv, ClosedRight, Right, AcceptFails, network
<1>5. Serving'
  BY Numbers DEF IInv, TypeOK, Serving, Arrived, Right, Unserved, AcceptFails,
     network, server
<1>6. Bodies'
  BY DEF IInv, Bodies, Body, Text, Fits, AcceptFails, network
<1> QED BY <1>1, <1>2, <1>3, <1>4, <1>5, <1>6 DEF IInv

\* What Dispatch does when the body it may hand on is one of Body.
LEMMA DispatchKeeps ==
  ASSUME IInv, pc = "reading", NEW received \in Nat, Dispatch(received),
         received >= HeaderSize, Behind(conn, received - HeaderSize),
         UNCHANGED <<network, conn, answers, closed>>
  PROVE  /\ pc' \in {"handling", "writing"} /\ status' \in Statuses
         /\ handed' \in [Conns -> Seq(Nat)]
         /\ \A c \in Conns : c # conn => handed'[c] = handed[c]
         /\ Serving' /\ Bodies'
<1>1. /\ conn \in Conns /\ conn \notin closed /\ handed[conn] = <<>>
      /\ handed \in [Conns -> Seq(Nat)] /\ status \in Statuses
  BY DEF IInv, TypeOK, Serving
<1>2. received - HeaderSize \in Nat /\ sent[conn] >= HeaderSize
  <2>1. sent[conn] \in Nat
    BY <1>1 DEF IInv, TypeOK
  <2> QED BY <2>1, Numbers DEF Behind
<1>3. CASE pc' = "handling"
  <2> DEFINE n == Text(conn, received - HeaderSize)
  <2>1. n \in Nat /\ Body(conn, n)
    BY <1>1, TextIsBody DEF IInv
  <2>2. handed' = [handed EXCEPT ![conn] = Append(@, n)] /\ status' = status
    BY <1>3 DEF Dispatch, Reply
  <2> HIDE DEF n
  <2>3. handed'[conn] = <<n>> /\ \A c \in Conns : c # conn => handed'[c] = handed[c]
    BY <1>1, <2>2
  <2>4. handed'[conn] \in Seq(Nat) /\ handed' \in [Conns -> Seq(Nat)] /\ handed'[conn] # <<>>
    BY <1>1, <2>1, <2>2, <2>3
  <2>5. Serving'
    BY <1>1, <1>3, <2>4 DEF Serving
  <2>6. Bodies'
    <3>1. Len(handed'[conn]) = 1 /\ handed'[conn][1] = n
      BY <2>3
    <3>2. UNCHANGED <<client, request, sent>>
      BY DEF network
    <3>3. ASSUME NEW c \in Conns
          PROVE  /\ Len(handed'[c]) <= 1
                 /\ \A i \in 1..Len(handed'[c]) : Body(c, handed[c][i])'
      <4>1. CASE c = conn
        <5>1. \A i \in 1..Len(handed'[c]) : handed'[c][i] = n
          BY <3>1, <4>1
        <5>2. Len(handed'[c]) <= 1
          <6>1. Len(handed'[c]) = 1
            BY <3>1, <4>1
          <6> QED BY <6>1
        <5>3. Body(c, n)
          BY <2>1, <4>1
        <5> QED BY <3>2, <5>1, <5>2, <5>3 DEF Body, Text, Fits
      <4>2. CASE c # conn
        BY <2>3, <3>2, <4>2 DEF IInv, Bodies, Body, Text, Fits
      <4> QED BY <4>1, <4>2
    <3> QED BY <3>3 DEF Bodies
  <2> QED BY <1>1, <1>3, <2>2, <2>3, <2>4, <2>5, <2>6
<1>4. CASE pc' = "writing"
  <2>1. /\ handed' = handed
        /\ \/ status' = "400" /\ request[conn].target = "malformed"
           \/ status' = "404" /\ request[conn].target = "unknown"
    BY <1>4 DEF Dispatch, Reply
  <2>2. Serving'
    BY <1>1, <1>2, <1>4, <2>1 DEF Serving, Right, network
  <2>3. Bodies'
    BY <2>1 DEF IInv, Bodies, Body, Text, Fits, network
  <2> QED BY <1>1, <1>4, <2>1, <2>2, <2>3 DEF Statuses
<1> QED BY <1>3, <1>4 DEF Dispatch, Reply

LEMMA RecvKeeps ==
  ASSUME IInv, Recv
  PROVE  IInv'
<1>1. PICK n \in 1..Chunk :
        /\ n <= wire[conn]
        /\ wire' = [wire EXCEPT ![conn] = @ - n]
        /\ size' = size + n
        /\ headers_parsed' = (headers_parsed \/ size + n >= HeaderSize)
        /\ IF headers_parsed' /\ Complete(size + n)
           THEN Dispatch(size + n)
           ELSE UNCHANGED <<pc, status, handed>>
  BY DEF Recv
<1>2. pc = "reading" /\ UNCHANGED <<network, queue, conn, answers, closed>>
  BY DEF Recv
<1>3. /\ conn \in Conns /\ conn \notin closed
      /\ size \in Nat /\ wire[conn] \in Nat /\ sent[conn] \in Nat /\ n \in Nat
  BY <1>2, Numbers DEF IInv, TypeOK
<1>4. /\ handed[conn] = <<>> /\ Arrived(conn, size)
      /\ headers_parsed <=> size >= HeaderSize
  BY <1>2 DEF IInv, Serving
<1>5. headers_parsed' <=> size' >= HeaderSize
  <2>1. headers_parsed' <=> (headers_parsed \/ size + n >= HeaderSize)
    BY <1>1, Zenon
  <2> QED BY <1>1, <1>3, <1>4, <2>1, Numbers
<1>6. wire' \in [Conns -> Nat] /\ \A c \in Conns : c # conn => wire'[c] = wire[c]
  BY <1>1, <1>3 DEF IInv, TypeOK
<1>7. Arrived(conn, size)' /\ size' \in Nat /\ headers_parsed' \in BOOLEAN
  <2>1. wire'[conn] = wire[conn] - n
    BY <1>1, <1>3 DEF IInv, TypeOK
  <2>2. headers_parsed' \in BOOLEAN
    BY <1>1, Zenon
  <2> QED BY <1>1, <1>2, <1>3, <1>4, <2>1, <2>2 DEF Arrived, network
<1>8. /\ pc' \in {"reading", "handling", "writing"} /\ status' \in Statuses
      /\ handed' \in [Conns -> Seq(Nat)]
      /\ \A c \in Conns : c # conn => handed'[c] = handed[c]
      /\ Serving' /\ Bodies'
  <2>1. CASE headers_parsed' /\ Complete(size + n)
    <3>1. PICK received \in Nat : received = size + n
      BY <1>3
    <3>2. received >= HeaderSize /\ Dispatch(received) /\ Complete(received)
      BY <1>1, <1>5, <2>1, <3>1
    <3>3. Behind(conn, received - HeaderSize)
      <4>1. received - HeaderSize \in 0..(sent[conn] - HeaderSize)
        BY <1>1, <1>3, <1>4, <3>1, <3>2, Numbers DEF Arrived
      <4>2. Fits(conn) => received - HeaderSize >= request[conn].announced
        BY <1>3, <3>2, CompleteRequest DEF IInv
      <4>3. received - HeaderSize < request[conn].announced + Chunk
        <5>1. request[conn].announced \in Nat /\ size < HeaderSize + request[conn].announced
          BY <1>2, <1>3, RequestType DEF IInv, TypeOK, Serving
        <5> QED BY <1>3, <3>1, <5>1, Numbers
      <4> QED BY <4>1, <4>2, <4>3 DEF Behind
    <3> QED BY <1>2, <1>3, <3>2, <3>3, DispatchKeeps
  <2>2. CASE ~(headers_parsed' /\ Complete(size + n))
    <3>1. UNCHANGED <<pc, status, handed>>
      BY <1>1, <2>2
    <3>2. size' < HeaderSize + request[conn].announced
      <4>1. request[conn].announced \in Nat
        BY <1>3, RequestType DEF IInv, TypeOK
      <4>2. CASE headers_parsed'
        <5>1. ~Complete(size') /\ size' \in Nat
          BY <1>1, <1>7, <2>2, <4>2
        <5> QED BY <1>3, <5>1, IncompleteRequest DEF IInv
      <4>3. CASE ~headers_parsed'
        BY <1>5, <1>7, <4>1, <4>3, Numbers
      <4> QED BY <4>2, <4>3
    <3>3. Serving'
      BY <1>2, <1>4, <1>5, <1>7, <3>1, <3>2 DEF Serving, network
    <3>4. Bodies'
      BY <1>2, <3>1 DEF IInv, Bodies, Body, Text, Fits, network
    <3> QED BY <1>2, <3>1, <3>3, <3>4 DEF IInv, TypeOK
  <2> QED BY <2>1, <2>2
<1>9. TypeOK'
  BY <1>2, <1>3, <1>6, <1>7, <1>8 DEF IInv, TypeOK, network
<1>10. Backlog'
  BY <1>2 DEF IInv, Backlog, network
<1>11. Unserved'
  BY <1>2, <1>6, <1>8 DEF IInv, Unserved, Arrived, network
<1>12. ClosedRight'
  BY <1>2, <1>3, <1>8, ZenonT(40) DEF IInv, TypeOK, ClosedRight, Right, network
<1> QED BY <1>8, <1>9, <1>10, <1>11, <1>12 DEF IInv

LEMMA RecvEndKeeps ==
  ASSUME IInv, RecvEnd
  PROVE  IInv'
<1>1. /\ pc = "reading" /\ client[conn] = "finished" /\ wire[conn] = 0
      /\ UNCHANGED <<network, wire, queue, conn, size, headers_parsed, answers, closed>>
  BY DEF RecvEnd
<1>2. /\ conn \in Conns /\ conn \notin closed
      /\ size \in Nat /\ sent[conn] \in Nat
      /\ handed \in [Conns -> Seq(Nat)]
  BY <1>1 DEF IInv, TypeOK
<1>3. /\ handed[conn] = <<>> /\ size = sent[conn]
      /\ headers_parsed <=> size >= HeaderSize
  BY <1>1, <1>2 DEF IInv, Serving, Arrived
<1>4. /\ pc' \in {"handling", "writing"} /\ status' \in Statuses
      /\ handed' \in [Conns -> Seq(Nat)]
      /\ \A c \in Conns : c # conn => handed'[c] = handed[c]
      /\ Serving' /\ Bodies'
  <2>1. CASE headers_parsed
    <3>1. Dispatch(size) /\ size >= HeaderSize
      BY <1>3, <2>1 DEF RecvEnd
    <3>2. Behind(conn, size - HeaderSize)
      <4>1. request[conn].announced \in Nat /\ size < HeaderSize + request[conn].announced
        BY <1>1, <1>2, RequestType DEF IInv, TypeOK, Serving
      <4> QED BY <1>1, <1>2, <1>3, <3>1, <4>1, Numbers DEF Behind
    <3> QED BY <1>1, <1>2, <3>1, <3>2, DispatchKeeps
  <2>2. CASE ~headers_parsed
    <3>1. pc' = "writing" /\ status' = "400" /\ handed' = handed
      BY <2>2 DEF RecvEnd, Reply
    <3>2. sent[conn] < HeaderSize
      BY <1>2, <1>3, <2>2, Numbers
    <3>3. Serving'
      BY <1>1, <1>3, <3>1, <3>2 DEF Serving, Right, network
    <3>4. Bodies'
      BY <1>1, <3>1 DEF IInv, Bodies, Body, Text, Fits, network
    <3> QED BY <1>2, <3>1, <3>3, <3>4 DEF Statuses
  <2> QED BY <2>1, <2>2
<1>5. TypeOK'
  BY <1>1, <1>2, <1>4 DEF IInv, TypeOK, network
<1>6. Backlog'
  BY <1>1 DEF IInv, Backlog, network
<1>7. Unserved'
  BY <1>1, <1>4 DEF IInv, Unserved, Arrived, network
<1>8. ClosedRight'
  <2>1. \A c \in closed : c \in Conns /\ c # conn
    BY <1>2 DEF IInv, TypeOK
  <2> QED BY <1>1, <1>4, <2>1 DEF IInv, ClosedRight, Right, network
<1> QED BY <1>4, <1>5, <1>6, <1>7, <1>8 DEF IInv

LEMMA RecvFailsKeeps ==
  ASSUME IInv, RecvFails
  PROVE  IInv'
<1>1. TypeOK'
  BY Numbers DEF IInv, TypeOK, Serving, Statuses, RecvFails, network, server, Reply
<1>2. Backlog'
  BY BacklogKept DEF IInv, RecvFails, network, server, Reply
<1>3. Unserved'
  BY DEF IInv, Unserved, Arrived, RecvFails, network
<1>4. ClosedRight'
  BY DEF IInv, ClosedRight, Right, RecvFails, network
<1>5. Serving'
  BY DEF IInv, Serving, RecvFails, network, Reply
<1>6. Bodies'
  BY DEF IInv, Bodies, Body, Text, Fits, RecvFails, network
<1> QED BY <1>1, <1>2, <1>3, <1>4, <1>5, <1>6 DEF IInv

LEMMA HandlerReturnsKeeps ==
  ASSUME IInv, HandlerReturns
  PROVE  IInv'
<1>1. TypeOK'
  BY Numbers DEF IInv, TypeOK, Serving, Statuses, HandlerReturns, network, server,
     Reply
<1>2. Backlog'
  BY BacklogKept DEF IInv, HandlerReturns, network, server, Reply
<1>3. Unserved'
  BY DEF IInv, Unserved, Arrived, HandlerReturns, network
<1>4. ClosedRight'
  BY DEF IInv, ClosedRight, Right, HandlerReturns, network
<1>5. Serving'
  BY DEF IInv, Serving, Right, HandlerReturns, Reply
<1>6. Bodies'
  BY DEF IInv, Bodies, Body, Text, Fits, HandlerReturns, network
<1> QED BY <1>1, <1>2, <1>3, <1>4, <1>5, <1>6 DEF IInv

LEMMA HandlerFailsKeeps ==
  ASSUME IInv, HandlerFails
  PROVE  IInv'
<1>1. TypeOK'
  BY Numbers DEF IInv, TypeOK, Serving, Statuses, HandlerFails, network, server
<1>2. Backlog'
  BY BacklogKept DEF IInv, HandlerFails, network, server
<1>3. Unserved'
  BY DEF IInv, Unserved, Arrived, HandlerFails, network
<1>4. ClosedRight'
  BY DEF IInv, ClosedRight, Right, HandlerFails, network
<1>5. Serving'
  BY Numbers DEF IInv, TypeOK, Serving, Arrived, Right, Unserved, HandlerFails,
     network, server
<1>6. Bodies'
  BY DEF IInv, Bodies, Body, Text, Fits, HandlerFails, network
<1> QED BY <1>1, <1>2, <1>3, <1>4, <1>5, <1>6 DEF IInv

LEMMA WriteResponseKeeps ==
  ASSUME IInv, WriteResponse
  PROVE  IInv'
<1>1. TypeOK'
  BY Numbers DEF IInv, TypeOK, Serving, Statuses, WriteResponse, network, server,
     Close
<1>2. Backlog'
  BY BacklogKept DEF IInv, WriteResponse, network, server, Close
<1>3. Unserved'
  BY Numbers DEF IInv, Unserved, Arrived, WriteResponse, network, Close
<1>4. ClosedRight'
  BY DEF IInv, TypeOK, ClosedRight, Right, Unserved, Serving, WriteResponse,
     network, Close
<1>5. Serving'
  BY DEF IInv, Serving, WriteResponse, Close
<1>6. Bodies'
  BY DEF IInv, Bodies, Body, Text, Fits, WriteResponse, network, Close
<1> QED BY <1>1, <1>2, <1>3, <1>4, <1>5, <1>6 DEF IInv

LEMMA WriteFailsKeeps ==
  ASSUME IInv, WriteFails
  PROVE  IInv'
<1>1. TypeOK'
  BY Numbers DEF IInv, TypeOK, Serving, Statuses, WriteFails, network, server, Close
<1>2. Backlog'
  BY BacklogKept DEF IInv, WriteFails, network, server, Close
<1>3. Unserved'
  BY Numbers DEF IInv, Unserved, Arrived, WriteFails, network, Close
<1>4. ClosedRight'
  BY DEF IInv, TypeOK, ClosedRight, Right, Unserved, WriteFails, network, Close
<1>5. Serving'
  BY DEF IInv, Serving, WriteFails, Close
<1>6. Bodies'
  BY DEF IInv, Bodies, Body, Text, Fits, WriteFails, network, Close
<1> QED BY <1>1, <1>2, <1>3, <1>4, <1>5, <1>6 DEF IInv

LEMMA WriteKillsKeeps ==
  ASSUME IInv, WriteKills
  PROVE  IInv'
<1>1. TypeOK'
  BY Numbers DEF IInv, TypeOK, Serving, Statuses, WriteKills, network, server
<1>2. Backlog'
  BY BacklogKept DEF IInv, WriteKills, network, server
<1>3. Unserved'
  BY Numbers DEF IInv, TypeOK, Backlog, Unserved, Serving, Arrived, WriteKills,
     network, server
<1>4. ClosedRight'
  BY DEF IInv, ClosedRight, Right, WriteKills, network
<1>5. Serving'
  BY Numbers DEF IInv, TypeOK, Serving, Arrived, Right, Unserved, WriteKills,
     network, server
<1>6. Bodies'
  BY DEF IInv, Bodies, Body, Text, Fits, WriteKills, network
<1> QED BY <1>1, <1>2, <1>3, <1>4, <1>5, <1>6 DEF IInv

LEMMA NextKeeps ==
  ASSUME IInv, [Next]_vars
  PROVE  IInv'
<1>1. CASE ClientStep
  BY <1>1, ConnectKeeps, ClientSendsKeeps, ClientFinishesKeeps, ClientVanishesKeeps
  DEF ClientStep
<1>2. CASE ServerStep
  BY <1>2, AcceptKeeps, RecvKeeps, RecvEndKeeps, RecvFailsKeeps,
     HandlerReturnsKeeps, WriteResponseKeeps, WriteFailsKeeps
  DEF ServerStep
<1>3. CASE Failure
  BY <1>3, AcceptFailsKeeps, HandlerFailsKeeps, WriteKillsKeeps DEF Failure
<1>4. CASE UNCHANGED vars
  BY <1>4 DEF vars, network, IInv, TypeOK, Backlog, Unserved, Arrived, ClosedRight,
              Right, Serving, Bodies, Body, Text, Fits
<1> QED BY <1>1, <1>2, <1>3, <1>4 DEF Next

\* The invariant holds in every state the server can reach.
THEOREM InvariantHolds == Spec => []IInv
<1>1. Init => IInv
  BY InitIInv
<1>2. IInv /\ [Next]_vars => IInv'
  BY NextKeeps
<1> QED BY <1>1, <1>2, PTL DEF Spec

\* The server's state keeps its types (http_server.c:198-271, 661-703).
THEOREM TypeCorrect == Spec => []TypeOK
<1>1. IInv => TypeOK
  BY DEF IInv
<1> QED BY <1>1, InvariantHolds, PTL

\* A function is called once at most for a connection, with the text of what was
\* sent behind the header: all that was announced of it, unless its client stopped
\* or the sum of the lengths overflows, and less than one piece more
\* (http_server.c:259-270, 365-374, server.c:303-305).
THEOREM BodyAsSent == Spec => []BodyIsWhatWasSent
<1>1. IInv => BodyIsWhatWasSent
  BY DEF IInv, Bodies, Body, BodyIsWhatWasSent
<1> QED BY <1>1, InvariantHolds, PTL

\* Every answer that is written says what became of its request
\* (http_server.c:687-698, server.c:544-569).
THEOREM AnswersRight == Spec => []RightAnswer
<1>1. IInv => RightAnswer
  <2> SUFFICES ASSUME IInv, NEW c \in Conns, NEW i \in 1..Len(answers[c])
               PROVE  Right(c, answers[c][i])
    BY DEF RightAnswer, Right
  <2>1. answers[c] # <<>> /\ c \in closed
    BY DEF IInv, Unserved
  <2>2. Len(answers[c]) = 1 /\ Right(c, answers[c][1])
    BY <2>1 DEF IInv, ClosedRight
  <2>3. i = 1
    BY <2>2
  <2> QED BY <2>2, <2>3
<1> QED BY <1>1, InvariantHolds, PTL

-----------------------------------------------------------------------------
(* The server implements ServerSpec.                                       *)

\* Under the invariant a phase is decided by what is closed and served.
PhaseFrom(c) ==
  IF c \in closed THEN IF Len(answers[c]) = 1 THEN "answered" ELSE "dropped"
  ELSE IF conn = c THEN "served"
  ELSE IF client[c] # "absent" THEN "waiting" ELSE "absent"

PhasesFrom == \A c \in Conns : Phase(c) = PhaseFrom(c)

LEMMA PhaseIs == IInv => PhasesFrom
<1> SUFFICES ASSUME IInv, NEW c \in Conns PROVE Phase(c) = PhaseFrom(c)
  BY DEF PhasesFrom
<1>1. CASE c \in closed
  <2>1. CASE Len(answers[c]) = 1
    <3>1. answers[c] # <<>>
      BY <2>1, EmptySeq
    <3> QED BY <1>1, <2>1, <3>1 DEF Phase, PhaseFrom, Unanswered
  <2>2. CASE Len(answers[c]) # 1
    <3>1. answers[c] = <<>> /\ client[c] = "gone"
      BY <1>1, <2>2 DEF IInv, ClosedRight
    <3> QED BY <1>1, <2>2, <3>1 DEF Phase, PhaseFrom, Unanswered
  <2> QED BY <2>1, <2>2
<1>2. CASE c \notin closed
  <2>1. answers[c] = <<>> /\ (client[c] = "absent" => c # conn)
    BY <1>2 DEF IInv, Unserved
  <2> QED BY <1>2, <2>1 DEF Phase, PhaseFrom, Unanswered
<1> QED BY <1>1, <1>2

LEMMA PhaseIsNext == IInv' => PhasesFrom'
  BY PhaseIs, PTL

\* A step that leaves the backlog and all that decides phases alone.
LEMMA Stutters ==
  ASSUME IInv, IInv', UNCHANGED <<queue, conn, answers, closed>>,
         \A c \in Conns : client'[c] = "absent" <=> client[c] = "absent"
  PROVE  UNCHANGED Promise!vars
<1>1. ASSUME NEW c \in Conns
      PROVE  Phase(c)' = Phase(c)
  BY PhaseIs, PhaseIsNext DEF PhasesFrom, PhaseFrom
<1> QED BY <1>1 DEF Promise!vars

LEMMA ConnectArrives ==
  ASSUME IInv, IInv', NEW c \in Conns, Connect(c)
  PROVE  Promise!Arrive(c)
<1>1. UNCHANGED <<conn, answers, closed>> /\ c # conn /\ c \notin closed
  BY DEF Connect, server, IInv, Unserved
<1>2. client' = [client EXCEPT ![c] = "open"] /\ client[c] = "absent"
      /\ client \in [Conns -> {"absent", "open", "finished", "gone"}]
  BY DEF Connect, IInv, TypeOK
<1>3. Phase(c) = "absent" /\ Phase(c)' = "waiting"
  BY <1>1, <1>2, PhaseIs, PhaseIsNext DEF PhasesFrom, PhaseFrom
<1>4. ASSUME NEW d \in Conns, d # c
      PROVE  Phase(d)' = Phase(d)
  BY <1>1, <1>2, <1>4, PhaseIs, PhaseIsNext DEF PhasesFrom, PhaseFrom
<1> QED BY <1>3, <1>4 DEF Promise!Arrive, Connect

LEMMA AcceptTakes ==
  ASSUME IInv, IInv', Accept
  PROVE  Promise!Take
<1>1. /\ queue # <<>> /\ queue' = Tail(queue) /\ conn' = Head(queue)
      /\ conn = NoConn /\ UNCHANGED <<client, answers, closed>>
  BY DEF Accept, network, IInv, TypeOK
<1>2. Head(queue) = queue[1] /\ 1 \in 1..Len(queue)
  BY <1>1, HeadTailProperties, LenProperties, EmptySeq DEF IInv, TypeOK
<1>3. PICK c \in Conns : c = Head(queue) /\ c \notin closed /\ client[c] # "absent"
  BY <1>2, QueueType DEF IInv, Backlog
<1>4. Phase(c)' = "served"
  <2>1. Phase(c)' = PhaseFrom(c)'
    BY <1>3, PhaseIsNext DEF PhasesFrom
  <2>2. PhaseFrom(c)' = "served"
    BY <1>1, <1>3 DEF PhaseFrom
  <2> QED BY <2>1, <2>2
<1>5. ASSUME NEW d \in Conns
      PROVE  Phase(d) # "served" /\ (d # c => Phase(d)' = Phase(d))
  <2>1. d # conn /\ (d # c => d # conn')
    BY <1>1, <1>3, Numbers
  <2>2. Phase(d) = PhaseFrom(d) /\ Phase(d)' = PhaseFrom(d)'
    BY PhaseIs, PhaseIsNext DEF PhasesFrom
  <2>3. PhaseFrom(d) # "served"
    BY <2>1 DEF PhaseFrom
  <2>4. d # c => PhaseFrom(d)' = PhaseFrom(d)
    BY <1>1, <2>1 DEF PhaseFrom
  <2> QED BY <2>2, <2>3, <2>4
<1> QED BY <1>1, <1>3, <1>4, <1>5 DEF Promise!Take

LEMMA CloseEnds ==
  ASSUME IInv, IInv', pc = "writing", Close, client' = client,
         \A d \in Conns : d # conn => answers'[d] = answers[d]
  PROVE  Promise!End(conn)
<1>1. conn \in Conns /\ conn \notin closed
  BY DEF IInv, TypeOK
<1>2. closed' = closed \cup {conn} /\ conn' = NoConn /\ queue' = queue
  BY DEF Close
<1>3. Phase(conn) = "served"
  BY <1>1, PhaseIs DEF PhasesFrom, PhaseFrom
<1>4. PICK c \in Conns : c = conn
  BY <1>1
<1>5. Phase(c)' \in {"answered", "dropped"}
  BY <1>2, <1>4, PhaseIsNext DEF PhasesFrom, PhaseFrom
<1>6. ASSUME NEW d \in Conns, d # c
      PROVE  Phase(d)' = Phase(d)
  BY <1>1, <1>2, <1>4, <1>6, Numbers, PhaseIs, PhaseIsNext DEF PhasesFrom, PhaseFrom
<1> QED BY <1>1, <1>2, <1>3, <1>4, <1>5, <1>6 DEF Promise!End

LEMMA NextImplements ==
  ASSUME IInv, IInv', [Next]_vars
  PROVE  [Promise!Next]_(Promise!vars)
<1>1. CASE \E c \in Conns : Connect(c)
  BY <1>1, ConnectArrives DEF Promise!Next
<1>2. CASE \E c \in Conns : ClientSends(c) \/ ClientFinishes(c) \/ ClientVanishes(c)
  <2>1. UNCHANGED <<queue, conn, answers, closed>>
    BY <1>2 DEF ClientSends, ClientFinishes, ClientVanishes, server
  <2>2. \A c \in Conns : client'[c] = "absent" <=> client[c] = "absent"
    BY <1>2 DEF ClientSends, ClientFinishes, ClientVanishes, IInv, TypeOK
  <2> QED BY <2>1, <2>2, Stutters
<1>3. CASE Accept
  BY <1>3, AcceptTakes DEF Promise!Next
<1>4. CASE WriteResponse \/ WriteFails
  <2>1. pc = "writing" /\ Close /\ client' = client
    BY <1>4 DEF WriteResponse, WriteFails, Close, network
  <2>2. \A d \in Conns : d # conn => answers'[d] = answers[d]
    BY <1>4 DEF WriteResponse, WriteFails, IInv, TypeOK
  <2>3. conn \in Conns
    BY <2>1 DEF IInv, TypeOK
  <2> QED BY <2>1, <2>2, <2>3, CloseEnds DEF Promise!Next
<1>5. CASE \/ Recv \/ RecvEnd \/ RecvFails \/ HandlerReturns \/ Failure
           \/ UNCHANGED vars
  <2>1. UNCHANGED <<client, queue, conn, answers, closed>>
    BY <1>5 DEF Recv, RecvEnd, RecvFails, HandlerReturns, Failure, AcceptFails,
                HandlerFails, WriteKills, network, vars
  <2> QED BY <2>1, Stutters
<1> QED BY <1>1, <1>2, <1>3, <1>4, <1>5 DEF Next, ClientStep, ServerStep

\* The accept loop (http_server.c:661-703) serves connections one after the
\* other, in the order of their arrival, and each gets one answer or, when it
\* is gone, none.
THEOREM Refinement == Spec => ServesInTurn
<1>1. Init => Promise!Init
  <2> SUFFICES ASSUME Init PROVE Promise!Init
    OBVIOUS
  <2>1. ASSUME NEW c \in Conns
        PROVE  Phase(c) = "absent"
    BY InitIInv, PhaseIs, Numbers DEF Init, PhasesFrom, PhaseFrom
  <2> QED BY <2>1 DEF Promise!Init, Init
<1>2. IInv /\ IInv' /\ [Next]_vars => [Promise!Next]_(Promise!vars)
  BY NextImplements
<1> QED BY <1>1, <1>2, InvariantHolds, PTL DEF Spec, ServesInTurn, Promise!Spec
=============================================================================
