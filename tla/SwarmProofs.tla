----------------------------- MODULE SwarmProofs -----------------------------
(***************************************************************************)
(* What Swarm guarantees for any migrations, parallel statements,          *)
(* connections and faults: replies match requests and nothing served twice.  *)
(***************************************************************************)
EXTENDS Swarm, TLAPS

\* A job that uses its connection, one that has sent nothing yet, and a task
\* of the peer that has a request in its hands.
Using  == {"writing", "rewriting", "awaiting", "saving"}
Unsent == {"idle", "ready", "connecting", "writing", "reconnecting", "rewriting"}
Busy   == {"checking", "inserting", "executing", "replying"}

\* Connections are numbered in the order they are made.
MadeInOrder ==
    /\ \A c \in Conns : srv[c] # "none" <=> c <= opened
    /\ \A c \in up : c <= opened
    /\ \A j \in Jobs : conn[j] <= opened
    /\ pool <= opened

\* A connection is with one dispatch or in the pool.
Exclusive ==
    /\ \A j \in Jobs : step[j] \in Using => conn[j] \in Conns /\ conn[j] # pool
    /\ \A i, j \in Jobs :
          i # j /\ step[i] \in Using /\ step[j] \in Using => conn[i] # conn[j]

\* What is on its way to the peer is the only thing on its connection, and the
\* request of a dispatch that waits there.
Requests ==
    \A c \in Conns : \A i \in DOMAIN toServer[c] :
        LET packet == toServer[c][i] IN
        /\ c \in up /\ srv[c] = "reading" /\ toClient[c] = <<>>
        /\ step[packet.job] = "awaiting" /\ conn[packet.job] = c
        /\ served[packet.job] = 0
        /\ packet.part = "whole" => Len(toServer[c]) = 1

\* So is what the peer has in its hands, unless the connection was reset and
\* the dispatch has given up.
InHands ==
    \A c \in Conns : srv[c] \in Busy =>
        LET j == srvJob[c] IN
        /\ j \in Jobs /\ conn[j] = c
        /\ toServer[c] = <<>> /\ toClient[c] = <<>>
        /\ pool # c
        /\ \A i \in Jobs : step[i] \in Using /\ conn[i] = c => i = j
        /\ \/ step[j] = "awaiting"
           \/ step[j] \in {"failed", "local"} /\ c \notin up
        /\ srv[c] # "replying" => served[j] = 0
        /\ srv[c] = "replying" /\ srvAck[c] = "ACK" => served[j] = 1
        /\ srv[c] \in {"checking", "inserting"} => j \in Teleports
        /\ srv[c] = "replying" /\ srvAck[c] # "ACK" => j \in Teleports

\* And so is what is on its way back.
Replies ==
    \A c \in Conns : \A i \in DOMAIN toClient[c] :
        LET reply == toClient[c][i] IN
        /\ i = 1 /\ c \in up
        /\ step[reply.job] = "awaiting" /\ conn[reply.job] = c
        /\ reply.ack = "ACK" => served[reply.job] = 1
        /\ reply.ack # "ACK" => reply.job \in Teleports

\* What a dispatch can tell of what became of its job; a job that could not be
\* read was acknowledged.
Outcomes ==
    \A j \in Jobs :
        /\ step[j] \in Unsent => served[j] = 0 /\ answer[j] = NoAnswer
        /\ step[j] \in {"saving", "done"} /\ j \in Parallel => served[j] = 1
        /\ step[j] = "awaiting" /\ served[j] = 1 /\ conn[j] \in up =>
              srv[conn[j]] = "replying" \/ toClient[conn[j]] # <<>>
        /\ j \in unread => served[j] = 1

IInv == /\ TypeOK
        /\ MadeInOrder
        /\ Exclusive
        /\ Requests
        /\ InHands
        /\ Replies
        /\ Outcomes
        /\ AtMostOnce
        /\ ErrMeansNotRun
        /\ ResponsesMatch

-----------------------------------------------------------------------------
(* Facts about the operators the actions are built from.                    *)

\* An element of a sequence.
LEMMA Element ==
    ASSUME NEW S, NEW s \in Seq(S), NEW i \in DOMAIN s
    PROVE  s[i] \in S /\ i \in 1..Len(s)
OBVIOUS

\* A sequence without elements is empty.
LEMMA NoElement ==
    ASSUME NEW S, NEW s \in Seq(S), DOMAIN s = {}
    PROVE  s = <<>>
<1>1. Len(s) \in Nat /\ DOMAIN s = 1..Len(s)
  OBVIOUS
<1>2. Len(s) = 0
  <2>1. 1 \notin 1..Len(s)
    BY <1>1
  <2> QED BY <1>1, <2>1
<1> QED BY <1>2

\* The first element of a sequence is taken off.
LEMMA TakenOff ==
    ASSUME NEW S, NEW s \in Seq(S), s # <<>>
    PROVE  /\ 1 \in DOMAIN s /\ Head(s) = s[1]
           /\ Tail(s) \in Seq(S)
           /\ \A i \in DOMAIN Tail(s) : i + 1 \in DOMAIN s /\ Tail(s)[i] = s[i + 1]
           /\ Len(s) = 1 => Tail(s) = <<>>
<1>1. Len(s) \in Nat \ {0} /\ Tail(s) \in Seq(S) /\ Len(Tail(s)) = Len(s) - 1
  OBVIOUS
<1>2. 1 \in DOMAIN s /\ Head(s) = s[1]
  BY <1>1
<1>3. DOMAIN Tail(s) = 1..(Len(s) - 1)
  BY <1>1
<1>4. \A i \in DOMAIN Tail(s) : i + 1 \in DOMAIN s /\ Tail(s)[i] = s[i + 1]
  BY <1>1, <1>3
<1>5. Len(s) = 1 => Tail(s) = <<>>
  <2>1. Len(s) = 1 => DOMAIN Tail(s) = {}
    BY <1>3
  <2> QED BY <1>1, <2>1, NoElement
<1> QED BY <1>1, <1>2, <1>4, <1>5

\* Packets and replies name jobs.
LEMMA NamedJobs ==
    ASSUME TypeOK, NEW c \in Conns
    PROVE  /\ toServer[c] \in Seq(Packets) /\ toClient[c] \in Seq(Responses)
           /\ \A i \in DOMAIN toServer[c] :
                 toServer[c][i] \in Packets /\ toServer[c][i].job \in Jobs
           /\ \A i \in DOMAIN toClient[c] :
                 toClient[c][i] \in Responses /\ toClient[c][i].job \in Jobs
<1>1. toServer[c] \in Seq(Packets) /\ toClient[c] \in Seq(Responses)
  BY DEF TypeOK
<1>2. \A i \in DOMAIN toServer[c] : toServer[c][i] \in Packets
  BY <1>1, Element
<1>3. \A i \in DOMAIN toClient[c] : toClient[c][i] \in Responses
  BY <1>1, Element
<1> QED BY <1>1, <1>2, <1>3 DEF Packets, Responses

\* A job that does not await a reply has nothing on its way.
LEMMA NothingSent ==
    ASSUME IInv, NEW j \in Jobs, step[j] # "awaiting"
    PROVE  /\ \A c \in Conns : \A i \in DOMAIN toServer[c] : toServer[c][i].job # j
           /\ \A c \in Conns : \A i \in DOMAIN toClient[c] : toClient[c][i].job # j
BY DEF IInv, Requests, Replies

\* A step of job j alone leaves what is on its way for the others.
LEMMA OthersOnTheWay ==
    ASSUME IInv, NEW j \in Jobs,
           UNCHANGED <<up, toServer, toClient, srv, served, unread>>,
           \A i \in Jobs : i # j => step'[i] = step[i] /\ conn'[i] = conn[i],
           \A c \in Conns : \A i \in DOMAIN toServer[c] : toServer[c][i].job # j,
           \A c \in Conns : \A i \in DOMAIN toClient[c] : toClient[c][i].job # j
    PROVE  Requests' /\ Replies'
<1>1. Requests'
  <2> SUFFICES ASSUME NEW c \in Conns, NEW i \in DOMAIN toServer[c]
               PROVE  LET packet == toServer[c][i] IN
                        /\ c \in up /\ srv[c] = "reading" /\ toClient[c] = <<>>
                        /\ step'[packet.job] = "awaiting" /\ conn'[packet.job] = c
                        /\ served[packet.job] = 0
                        /\ packet.part = "whole" => Len(toServer[c]) = 1
    BY DEF Requests
  <2>1. toServer[c][i].job \in Jobs /\ toServer[c][i].job # j
    BY NamedJobs DEF IInv
  <2> QED BY <2>1 DEF IInv, Requests
<1>2. Replies'
  <2> SUFFICES ASSUME NEW c \in Conns, NEW i \in DOMAIN toClient[c]
               PROVE  LET reply == toClient[c][i] IN
                        /\ i = 1 /\ c \in up
                        /\ step'[reply.job] = "awaiting" /\ conn'[reply.job] = c
                        /\ reply.ack = "ACK" => served[reply.job] = 1
                        /\ reply.ack # "ACK" => reply.job \in Teleports
    BY DEF Replies
  <2>1. toClient[c][i].job \in Jobs /\ toClient[c][i].job # j
    BY NamedJobs DEF IInv
  <2> QED BY <2>1 DEF IInv, Replies
<1> QED BY <1>1, <1>2

\* A step of job j alone, which neither waits nor has given up, leaves what the
\* peer has in its hands.
LEMMA OthersInHands ==
    ASSUME IInv, NEW j \in Jobs,
           UNCHANGED <<up, toServer, toClient, srv, srvJob, srvAck, served, unread>>,
           \A i \in Jobs : i # j => step'[i] = step[i] /\ conn'[i] = conn[i],
           step[j] \notin {"awaiting", "failed", "local"},
           \A c \in Conns : srv[c] \in Busy =>
               pool' # c /\ (step'[j] \in Using => conn'[j] # c)
    PROVE  InHands'
<1> SUFFICES ASSUME NEW c \in Conns, srv[c] \in Busy
             PROVE  LET k == srvJob[c] IN
                      /\ k \in Jobs /\ conn'[k] = c
                      /\ toServer[c] = <<>> /\ toClient[c] = <<>>
                      /\ pool' # c
                      /\ \A i \in Jobs : step'[i] \in Using /\ conn'[i] = c => i = k
                      /\ \/ step'[k] = "awaiting"
                         \/ step'[k] \in {"failed", "local"} /\ c \notin up
                      /\ srv[c] # "replying" => served[k] = 0
                      /\ srv[c] = "replying" /\ srvAck[c] = "ACK" => served[k] = 1
                      /\ srv[c] \in {"checking", "inserting"} => k \in Teleports
                      /\ srv[c] = "replying" /\ srvAck[c] # "ACK" => k \in Teleports
  BY DEF InHands
<1>1. srvJob[c] \in Jobs /\ srvJob[c] # j
  BY DEF IInv, InHands
<1> QED BY <1>1 DEF IInv, InHands

\* The peer has nothing of a connection in its hands that is in the pool or
\* with a dispatch that does not wait for a reply.
LEMMA NotInHands ==
    ASSUME IInv, NEW c \in Conns, srv[c] \in Busy
    PROVE  /\ pool # c
           /\ \A j \in Jobs : step[j] \in Using \ {"awaiting"} => conn[j] # c
BY DEF IInv, InHands, Using

-----------------------------------------------------------------------------
(* Steps of a dispatch that put nothing on a connection and take nothing off. *)

\* A continuation is stamped, or a statement serialized.
LEMMA PrepareSafe ==
    ASSUME IInv, NEW j \in Jobs, Prepare(j)
    PROVE  IInv'
<1>0. /\ step[j] = "idle" /\ step' = [step EXCEPT ![j] = "ready"]
      /\ UNCHANGED <<conn, answer, pool, srv, srvJob, srvAck, lastSeen, served, unread,
                     opened, up, toServer, toClient, faults>>
      /\ step \in [Jobs -> Steps]
  BY DEF Prepare, Goto, server, wires, IInv, TypeOK
<1>1. TypeOK'
  <2>1. clock' \in Nat /\ stamp' \in [Jobs -> Nat]
    <3>1. clock \in Nat /\ stamp \in [Jobs -> Nat]
      BY DEF IInv, TypeOK
    <3>2. CASE j \in Teleports
      BY <3>1, <3>2 DEF Prepare
    <3>3. CASE j \notin Teleports
      BY <3>1, <3>3 DEF Prepare
    <3> QED BY <3>2, <3>3
  <2>2. step' \in [Jobs -> Steps]
    BY <1>0 DEF Steps
  <2> QED BY <1>0, <2>1, <2>2 DEF IInv, TypeOK
<1>2. MadeInOrder'
  BY <1>0 DEF IInv, MadeInOrder
<1>3. Exclusive'
  BY <1>0 DEF IInv, Exclusive, Using
<1>4. Requests' /\ Replies'
  BY <1>0, NothingSent, OthersOnTheWay
<1>5. InHands'
  BY <1>0, NotInHands, OthersInHands DEF Using
<1>6. Outcomes' /\ AtMostOnce' /\ ErrMeansNotRun' /\ ResponsesMatch'
  BY <1>0 DEF IInv, Outcomes, Unsent, AtMostOnce, ErrMeansNotRun, ResponsesMatch
<1> QED BY <1>1, <1>2, <1>3, <1>4, <1>5, <1>6 DEF IInv

\* A job whose request was never on a connection is given up.
LEMMA GivenUpSafe ==
    ASSUME IInv, NEW j \in Jobs, step[j] \in Unsent, Fail(j),
           faults' \in 0..MaxFaults,
           UNCHANGED <<conn, stamp, answer, clock, pool, server,
                       opened, up, toServer, toClient>>
    PROVE  IInv'
<1>0. /\ \E s \in {"failed", "local"} : step' = [step EXCEPT ![j] = s]
      /\ UNCHANGED <<srv, srvJob, srvAck, lastSeen, served, unread>>
      /\ step \in [Jobs -> Steps]
  BY DEF Fail, Goto, server, IInv, TypeOK
<1>1. PICK s \in {"failed", "local"} : step' = [step EXCEPT ![j] = s]
  BY <1>0
<1>2. TypeOK'
  <2>1. step' \in [Jobs -> Steps]
    BY <1>0, <1>1 DEF Steps
  <2> QED BY <1>0, <2>1 DEF IInv, TypeOK
<1>3. MadeInOrder'
  BY <1>0 DEF IInv, MadeInOrder
<1>4. Exclusive'
  BY <1>0, <1>1 DEF IInv, Exclusive, Using
<1>5. Requests' /\ Replies'
  BY <1>0, <1>1, NothingSent, OthersOnTheWay DEF Unsent
<1>6. InHands'
  BY <1>0, <1>1, NotInHands, OthersInHands DEF Using, Unsent
<1>7. Outcomes' /\ AtMostOnce' /\ ErrMeansNotRun' /\ ResponsesMatch'
  BY <1>0, <1>1 DEF IInv, Outcomes, Unsent, AtMostOnce, ErrMeansNotRun, ResponsesMatch
<1> QED BY <1>2, <1>3, <1>4, <1>5, <1>6, <1>7 DEF IInv

\* No dispatch at all.
LEMMA NotSentSafe ==
    ASSUME IInv, NEW j \in Jobs, NotSent(j)
    PROVE  IInv'
<1>1. faults' \in 0..MaxFaults
  BY DEF NotSent, wires, IInv, TypeOK
<1> QED BY <1>1, GivenUpSafe DEF NotSent, wires, Unsent

\* A connection that cannot be made ends the dispatch.
LEMMA ConnectFailsSafe ==
    ASSUME IInv, NEW j \in Jobs, ConnectFails(j)
    PROVE  IInv'
<1>1. faults' \in 0..MaxFaults
  BY SwarmAssumption DEF ConnectFails, Fault, IInv, TypeOK
<1> QED BY <1>1, GivenUpSafe DEF ConnectFails, Unsent

\* A failed write goes on to the second connection, or gives up.
LEMMA WriteFailsSafe ==
    ASSUME IInv, NEW j \in Jobs, WriteFails(j)
    PROVE  IInv'
<1>1. CASE step[j] = "rewriting"
  <2>1. faults' \in 0..MaxFaults
    BY DEF WriteFails, wires, IInv, TypeOK
  <2> QED BY <1>1, <2>1, GivenUpSafe DEF WriteFails, wires, Unsent
<1>2. CASE step[j] = "writing"
  <2>0. /\ step' = [step EXCEPT ![j] = "reconnecting"]
        /\ UNCHANGED <<conn, stamp, answer, clock, pool, srv, srvJob, srvAck, lastSeen,
                       served, unread, opened, up, toServer, toClient, faults>>
        /\ step \in [Jobs -> Steps]
    BY <1>2 DEF WriteFails, Goto, server, wires, IInv, TypeOK
  <2>1. TypeOK'
    <3>1. step' \in [Jobs -> Steps]
      BY <2>0 DEF Steps
    <3> QED BY <2>0, <3>1 DEF IInv, TypeOK
  <2>2. MadeInOrder'
    BY <2>0 DEF IInv, MadeInOrder
  <2>3. Exclusive'
    BY <2>0 DEF IInv, Exclusive, Using
  <2>4. Requests' /\ Replies'
    BY <1>2, <2>0, NothingSent, OthersOnTheWay
  <2>5. InHands'
    BY <1>2, <2>0, NotInHands, OthersInHands DEF Using
  <2>6. Outcomes' /\ AtMostOnce' /\ ErrMeansNotRun' /\ ResponsesMatch'
    BY <1>2, <2>0 DEF IInv, Outcomes, Unsent, AtMostOnce, ErrMeansNotRun, ResponsesMatch
  <2> QED BY <2>1, <2>2, <2>3, <2>4, <2>5, <2>6 DEF IInv
<1> QED BY <1>1, <1>2 DEF WriteFails

\* The pool is empty.
LEMMA PoolEmptySafe ==
    ASSUME IInv, NEW j \in Jobs, PoolEmpty(j)
    PROVE  IInv'
<1>0. /\ step[j] = "ready" /\ step' = [step EXCEPT ![j] = "connecting"]
      /\ UNCHANGED <<conn, stamp, answer, clock, pool, srv, srvJob, srvAck, lastSeen,
                     served, unread, opened, up, toServer, toClient, faults>>
      /\ step \in [Jobs -> Steps]
  BY DEF PoolEmpty, Goto, server, wires, IInv, TypeOK
<1>1. TypeOK'
  <2>1. step' \in [Jobs -> Steps]
    BY <1>0 DEF Steps
  <2> QED BY <1>0, <2>1 DEF IInv, TypeOK
<1>2. MadeInOrder'
  BY <1>0 DEF IInv, MadeInOrder
<1>3. Exclusive'
  BY <1>0 DEF IInv, Exclusive, Using
<1>4. Requests' /\ Replies'
  BY <1>0, NothingSent, OthersOnTheWay
<1>5. InHands'
  BY <1>0, NotInHands, OthersInHands DEF Using
<1>6. Outcomes' /\ AtMostOnce' /\ ErrMeansNotRun' /\ ResponsesMatch'
  BY <1>0 DEF IInv, Outcomes, Unsent, AtMostOnce, ErrMeansNotRun, ResponsesMatch
<1> QED BY <1>1, <1>2, <1>3, <1>4, <1>5, <1>6 DEF IInv

\* A pooled connection passes to a dispatch.
LEMMA TakePooledSafe ==
    ASSUME IInv, NEW j \in Jobs, TakePooled(j)
    PROVE  IInv'
<1>0. /\ step[j] = "ready" /\ step' = [step EXCEPT ![j] = "writing"]
      /\ conn' = [conn EXCEPT ![j] = pool] /\ pool' = None
      /\ pool \in Conns
      /\ UNCHANGED <<stamp, answer, clock, srv, srvJob, srvAck, lastSeen,
                     served, unread, opened, up, toServer, toClient, faults>>
      /\ step \in [Jobs -> Steps] /\ conn \in [Jobs -> Conns \union {None}]
  BY DEF TakePooled, Goto, server, wires, IInv, TypeOK
<1>1. TypeOK'
  <2>1. step' \in [Jobs -> Steps]
    BY <1>0 DEF Steps
  <2>2. conn' \in [Jobs -> Conns \union {None}]
    BY <1>0
  <2> QED BY <1>0, <2>1, <2>2 DEF IInv, TypeOK
<1>2. MadeInOrder'
  BY <1>0 DEF IInv, MadeInOrder, TypeOK, None, Conns
<1>3. Exclusive'
  BY <1>0 DEF IInv, Exclusive, Using, None, Conns
<1>4. Requests' /\ Replies'
  BY <1>0, NothingSent, OthersOnTheWay
<1>5. InHands'
  <2>1. \A c \in Conns : srv[c] \in Busy => pool' # c /\ conn'[j] # c
    BY <1>0, NotInHands DEF None, Conns
  <2> QED BY <1>0, <2>1, OthersInHands
<1>6. Outcomes' /\ AtMostOnce' /\ ErrMeansNotRun' /\ ResponsesMatch'
  BY <1>0 DEF IInv, Outcomes, Unsent, AtMostOnce, ErrMeansNotRun, ResponsesMatch
<1> QED BY <1>1, <1>2, <1>3, <1>4, <1>5, <1>6 DEF IInv

\* A connection whose reply has been read goes to the pool.
LEMMA SaveSafe ==
    ASSUME IInv, NEW j \in Jobs, Save(j)
    PROVE  IInv'
<1>0. /\ step[j] = "saving" /\ step' = [step EXCEPT ![j] = "done"]
      /\ pool' = conn[j] /\ conn[j] \in Conns
      /\ UNCHANGED <<conn, stamp, answer, clock, srv, srvJob, srvAck, lastSeen,
                     served, unread, opened, up, toServer, toClient, faults>>
      /\ step \in [Jobs -> Steps]
  BY DEF Save, Goto, server, wires, IInv, TypeOK, Exclusive, Using
<1>1. TypeOK'
  <2>1. step' \in [Jobs -> Steps]
    BY <1>0 DEF Steps
  <2> QED BY <1>0, <2>1 DEF IInv, TypeOK
<1>2. MadeInOrder'
  BY <1>0 DEF IInv, MadeInOrder
<1>3. Exclusive'
  BY <1>0 DEF IInv, Exclusive, Using
<1>4. Requests' /\ Replies'
  BY <1>0, NothingSent, OthersOnTheWay
<1>5. InHands'
  <2>1. \A c \in Conns : srv[c] \in Busy => pool' # c
    BY <1>0, NotInHands DEF Using
  <2> QED BY <1>0, <2>1, OthersInHands DEF Using
<1>6. Outcomes' /\ AtMostOnce' /\ ErrMeansNotRun' /\ ResponsesMatch'
  BY <1>0 DEF IInv, Outcomes, Unsent, AtMostOnce, ErrMeansNotRun, ResponsesMatch
<1> QED BY <1>1, <1>2, <1>3, <1>4, <1>5, <1>6 DEF IInv

-----------------------------------------------------------------------------
(* Steps of a dispatch that use its connection.                             *)

\* The connection a dispatch is about to write on is quiet.
LEMMA QuietConnection ==
    ASSUME IInv, NEW j \in Jobs, step[j] \in {"writing", "rewriting"}
    PROVE  /\ conn[j] \in Conns
           /\ toServer[conn[j]] = <<>> /\ toClient[conn[j]] = <<>>
           /\ srv[conn[j]] \in {"reading", "closed"}
<1>1. conn[j] \in Conns /\ step[j] \in Using \ {"awaiting"}
  BY DEF IInv, Exclusive, Using
<1>2. \A k \in Jobs : step[k] = "awaiting" => conn[k] # conn[j]
  BY <1>1 DEF IInv, Exclusive, Using
<1>3. toServer[conn[j]] = <<>>
  <2>1. DOMAIN toServer[conn[j]] = {}
    BY <1>1, <1>2, NamedJobs DEF IInv, Requests
  <2>2. toServer[conn[j]] \in Seq(Packets)
    BY <1>1 DEF IInv, TypeOK
  <2> QED BY <2>1, <2>2, NoElement
<1>4. toClient[conn[j]] = <<>>
  <2>1. DOMAIN toClient[conn[j]] = {}
    BY <1>1, <1>2, NamedJobs DEF IInv, Replies
  <2>2. toClient[conn[j]] \in Seq(Responses)
    BY <1>1 DEF IInv, TypeOK
  <2> QED BY <2>1, <2>2, NoElement
<1>5. srv[conn[j]] \in {"reading", "closed"}
  <2>1. srv[conn[j]] \notin Busy
    BY <1>1, NotInHands
  <2>2. srv[conn[j]] # "none" /\ srv[conn[j]] \in Serving
    BY <1>1 DEF IInv, MadeInOrder, TypeOK
  <2> QED BY <2>1, <2>2 DEF Busy, Serving
<1> QED BY <1>1, <1>3, <1>4, <1>5

\* A request is put on a quiet connection, whole or in parts, or lost.
LEMMA SentSafe ==
    ASSUME IInv, NEW j \in Jobs, step[j] \in {"writing", "rewriting"},
           NEW packets \in Seq(Packets),
           \A i \in DOMAIN packets :
               /\ packets[i].job = j
               /\ packets[i].part = "whole" => Len(packets) = 1,
           Sent(j, packets), Goto(j, "awaiting"), faults' \in 0..MaxFaults,
           UNCHANGED <<conn, stamp, answer, clock, pool, server, opened, up, toClient>>
    PROVE  IInv'
<1> DEFINE c == conn[j]
<1>0. /\ step' = [step EXCEPT ![j] = "awaiting"]
      /\ UNCHANGED <<conn, stamp, answer, clock, pool, srv, srvJob, srvAck, lastSeen,
                     served, unread, opened, up, toClient>>
      /\ step \in [Jobs -> Steps] /\ toServer \in [Conns -> Seq(Packets)]
  BY DEF Goto, server, IInv, TypeOK
<1>1. /\ c \in Conns /\ toServer[c] = <<>> /\ toClient[c] = <<>>
      /\ srv[c] \in {"reading", "closed"}
  BY QuietConnection
<1>2. \/ toServer' = toServer
      \/ /\ c \in up /\ srv[c] = "reading"
         /\ toServer' = [toServer EXCEPT ![c] = packets]
  <2>1. CASE Dead(c)
    BY <2>1 DEF Sent
  <2>2. CASE ~Dead(c)
    <3>1. toServer' = [toServer EXCEPT ![c] = toServer[c] \o packets]
      BY <2>2 DEF Sent
    <3>2. toServer[c] \o packets = packets
      BY <1>1
    <3>3. c \in up /\ srv[c] = "reading"
      BY <1>1, <2>2 DEF Dead
    <3> QED BY <3>1, <3>2, <3>3
  <2> QED BY <2>1, <2>2
<1>3. TypeOK'
  <2>1. step' \in [Jobs -> Steps]
    BY <1>0 DEF Steps
  <2>2. toServer' \in [Conns -> Seq(Packets)]
    BY <1>0, <1>1, <1>2
  <2> QED BY <1>0, <2>1, <2>2 DEF IInv, TypeOK
<1>4. MadeInOrder'
  BY <1>0 DEF IInv, MadeInOrder
<1>5. Exclusive'
  BY <1>0 DEF IInv, Exclusive, Using
<1>6. served[j] = 0 /\ step[j] # "awaiting"
  BY DEF IInv, Outcomes, Unsent
<1>7. Requests'
  <2> SUFFICES ASSUME NEW d \in Conns, NEW i \in DOMAIN toServer'[d]
               PROVE  LET packet == toServer'[d][i] IN
                        /\ d \in up /\ srv[d] = "reading" /\ toClient[d] = <<>>
                        /\ step'[packet.job] = "awaiting" /\ conn[packet.job] = d
                        /\ served[packet.job] = 0
                        /\ packet.part = "whole" => Len(toServer'[d]) = 1
    BY <1>0 DEF Requests
  <2>1. CASE toServer'[d] = toServer[d]
    <3>1. toServer[d][i].job \in Jobs /\ toServer[d][i].job # j
      BY <1>6, <2>1, NamedJobs, NothingSent DEF IInv
    <3> QED BY <1>0, <2>1, <3>1 DEF IInv, Requests
  <2>2. CASE toServer'[d] # toServer[d]
    <3>1. d = c /\ toServer'[d] = packets /\ c \in up /\ srv[c] = "reading"
      BY <1>0, <1>2, <2>2
    <3> QED BY <1>0, <1>1, <1>6, <3>1
  <2> QED BY <2>1, <2>2
<1>8. Replies'
  <2> SUFFICES ASSUME NEW d \in Conns, NEW i \in DOMAIN toClient[d]
               PROVE  LET reply == toClient[d][i] IN
                        /\ i = 1 /\ d \in up
                        /\ step'[reply.job] = "awaiting" /\ conn[reply.job] = d
                        /\ reply.ack = "ACK" => served[reply.job] = 1
                        /\ reply.ack # "ACK" => reply.job \in Teleports
    BY <1>0 DEF Replies
  <2>1. toClient[d][i].job \in Jobs /\ toClient[d][i].job # j
    BY <1>6, NamedJobs, NothingSent DEF IInv
  <2> QED BY <1>0, <2>1 DEF IInv, Replies
<1>9. InHands'
  <2> SUFFICES ASSUME NEW d \in Conns, srv[d] \in Busy
               PROVE  LET k == srvJob[d] IN
                        /\ k \in Jobs /\ conn[k] = d
                        /\ toServer'[d] = <<>> /\ toClient[d] = <<>>
                        /\ pool # d
                        /\ \A i \in Jobs : step'[i] \in Using /\ conn[i] = d => i = k
                        /\ \/ step'[k] = "awaiting"
                           \/ step'[k] \in {"failed", "local"} /\ d \notin up
                        /\ srv[d] # "replying" => served[k] = 0
                        /\ srv[d] = "replying" /\ srvAck[d] = "ACK" => served[k] = 1
                        /\ srv[d] \in {"checking", "inserting"} => k \in Teleports
                        /\ srv[d] = "replying" /\ srvAck[d] # "ACK" => k \in Teleports
    BY <1>0 DEF InHands
  <2>1. d # c /\ toServer'[d] = toServer[d]
    BY <1>0, <1>1, <1>2 DEF Busy
  <2>2. srvJob[d] \in Jobs /\ srvJob[d] # j
    BY <1>6, <2>1 DEF IInv, InHands
  <2> QED BY <1>0, <2>1, <2>2 DEF IInv, InHands
<1>10. Outcomes' /\ AtMostOnce' /\ ErrMeansNotRun' /\ ResponsesMatch'
  BY <1>0, <1>6 DEF IInv, Outcomes, Unsent, AtMostOnce, ErrMeansNotRun, ResponsesMatch
<1> QED BY <1>3, <1>4, <1>5, <1>7, <1>8, <1>9, <1>10 DEF IInv

\* The whole packet is written.
LEMMA WriteSafe ==
    ASSUME IInv, NEW j \in Jobs, Write(j)
    PROVE  IInv'
<1> DEFINE packets == <<[job |-> j, part |-> "whole"]>>
<1>1. packets \in Seq(Packets)
  BY DEF Packets
<1>2. \A i \in DOMAIN packets :
         packets[i].job = j /\ (packets[i].part = "whole" => Len(packets) = 1)
  OBVIOUS
<1>3. faults' \in 0..MaxFaults
  BY DEF Write, IInv, TypeOK
<1>4. step[j] \in {"writing", "rewriting"} /\ Sent(j, packets) /\ Goto(j, "awaiting")
      /\ UNCHANGED <<conn, stamp, answer, clock, pool, server, opened, up, toClient>>
  BY DEF Write
<1> QED BY <1>1, <1>2, <1>3, <1>4, SentSafe

\* The peer's read gets the packet in two parts.
LEMMA WriteSplitSafe ==
    ASSUME IInv, NEW j \in Jobs, WriteSplit(j)
    PROVE  IInv'
<1> DEFINE packets == <<[job |-> j, part |-> "head"], [job |-> j, part |-> "tail"]>>
<1>1. packets \in Seq(Packets)
  BY DEF Packets
<1>2. \A i \in DOMAIN packets :
         packets[i].job = j /\ (packets[i].part = "whole" => Len(packets) = 1)
  OBVIOUS
<1>3. faults' \in 0..MaxFaults
  BY SwarmAssumption DEF WriteSplit, Fault, IInv, TypeOK
<1>4. step[j] \in {"writing", "rewriting"} /\ Sent(j, packets) /\ Goto(j, "awaiting")
      /\ UNCHANGED <<conn, stamp, answer, clock, pool, server, opened, up, toClient>>
  BY DEF WriteSplit
<1> QED BY <1>1, <1>2, <1>3, <1>4, SentSafe

\* A new connection has a number nothing uses yet.
LEMMA ConnectedSafe ==
    ASSUME IInv, NEW j \in Jobs, Connected(j)
    PROVE  IInv'
<1> DEFINE c == opened + 1
<1>0. /\ \E s \in {"writing", "rewriting"} : step' = [step EXCEPT ![j] = s]
      /\ step[j] \in {"connecting", "reconnecting"}
      /\ conn' = [conn EXCEPT ![j] = c] /\ opened' = c /\ up' = up \union {c}
      /\ srv' = [srv EXCEPT ![c] = "reading"]
      /\ UNCHANGED <<stamp, answer, clock, pool, toServer, toClient, srvJob, srvAck,
                     lastSeen, served, unread, faults>>
  BY DEF Connected, Goto, Serve
<1>1. PICK s \in {"writing", "rewriting"} : step' = [step EXCEPT ![j] = s]
  BY <1>0
<1>2. /\ step \in [Jobs -> Steps] /\ conn \in [Jobs -> Conns \union {None}]
      /\ srv \in [Conns -> Serving] /\ up \subseteq Conns
      /\ opened \in Nat /\ pool \in Conns \union {None} /\ opened < MaxConns
  BY SwarmAssumption DEF Connected, IInv, TypeOK, Conns, None
<1>3. c \in Conns /\ c # None /\ ~(c <= opened)
  BY <1>2, SwarmAssumption DEF Conns, None
<1>4. /\ srv[c] = "none" /\ c \notin up /\ pool # c
      /\ \A i \in Jobs : conn[i] # c
  BY <1>3 DEF IInv, MadeInOrder
<1>5. TypeOK'
  <2>1. step' \in [Jobs -> Steps]
    BY <1>1, <1>2 DEF Steps
  <2>2. srv' \in [Conns -> Serving]
    BY <1>0, <1>2, <1>3 DEF Serving
  <2>3. conn' \in [Jobs -> Conns \union {None}] /\ up' \subseteq Conns
        /\ opened' \in Conns \union {None}
    BY <1>0, <1>2, <1>3
  <2> QED BY <1>0, <2>1, <2>2, <2>3 DEF IInv, TypeOK
<1>6. MadeInOrder'
  <2>1. \A d \in Conns : d <= opened + 1 <=> d <= opened \/ d = c
    BY <1>2 DEF Conns
  <2>2. \A d \in Conns : srv'[d] # "none" <=> d <= opened'
    BY <1>0, <1>2, <1>3, <2>1 DEF IInv, MadeInOrder
  <2>3. \A d \in up' : d <= opened'
    BY <1>0, <1>2, <1>3, <2>1 DEF IInv, MadeInOrder
  <2>4. None <= opened'
    BY <1>0, <1>2 DEF None
  <2>5. \A i \in Jobs : conn'[i] <= opened'
    BY <1>0, <1>2, <1>3, <2>1, <2>4 DEF IInv, MadeInOrder
  <2>6. pool' <= opened'
    BY <1>0, <1>2, <2>1, <2>4 DEF IInv, MadeInOrder
  <2> QED BY <2>2, <2>3, <2>5, <2>6 DEF MadeInOrder
<1>7. Exclusive'
  BY <1>0, <1>1, <1>2, <1>3, <1>4 DEF IInv, Exclusive, Using
<1>8. Requests'
  <2> SUFFICES ASSUME NEW d \in Conns, NEW i \in DOMAIN toServer[d]
               PROVE  LET packet == toServer[d][i] IN
                        /\ d \in up' /\ srv'[d] = "reading" /\ toClient[d] = <<>>
                        /\ step'[packet.job] = "awaiting" /\ conn'[packet.job] = d
                        /\ served[packet.job] = 0
                        /\ packet.part = "whole" => Len(toServer[d]) = 1
    BY <1>0 DEF Requests
  <2>1. toServer[d][i].job \in Jobs /\ toServer[d][i].job # j
    BY <1>0, NamedJobs, NothingSent DEF IInv
  <2> QED BY <1>0, <1>1, <1>2, <2>1 DEF IInv, Requests
<1>9. Replies'
  <2> SUFFICES ASSUME NEW d \in Conns, NEW i \in DOMAIN toClient[d]
               PROVE  LET reply == toClient[d][i] IN
                        /\ i = 1 /\ d \in up'
                        /\ step'[reply.job] = "awaiting" /\ conn'[reply.job] = d
                        /\ reply.ack = "ACK" => served[reply.job] = 1
                        /\ reply.ack # "ACK" => reply.job \in Teleports
    BY <1>0 DEF Replies
  <2>1. toClient[d][i].job \in Jobs /\ toClient[d][i].job # j
    BY <1>0, NamedJobs, NothingSent DEF IInv
  <2> QED BY <1>0, <1>1, <1>2, <2>1 DEF IInv, Replies
<1>10. InHands'
  <2> SUFFICES ASSUME NEW d \in Conns, srv'[d] \in Busy
               PROVE  LET k == srvJob[d] IN
                        /\ k \in Jobs /\ conn'[k] = d
                        /\ toServer[d] = <<>> /\ toClient[d] = <<>>
                        /\ pool # d
                        /\ \A i \in Jobs : step'[i] \in Using /\ conn'[i] = d => i = k
                        /\ \/ step'[k] = "awaiting"
                           \/ step'[k] \in {"failed", "local"} /\ d \notin up'
                        /\ srv'[d] # "replying" => served[k] = 0
                        /\ srv'[d] = "replying" /\ srvAck[d] = "ACK" => served[k] = 1
                        /\ srv'[d] \in {"checking", "inserting"} => k \in Teleports
                        /\ srv'[d] = "replying" /\ srvAck[d] # "ACK" => k \in Teleports
    BY <1>0 DEF InHands
  <2>1. d # c /\ srv'[d] = srv[d]
    BY <1>0, <1>2 DEF Busy
  <2>2. srvJob[d] \in Jobs /\ srvJob[d] # j
    BY <1>0, <2>1 DEF IInv, InHands
  <2> QED BY <1>0, <1>1, <1>2, <2>1, <2>2 DEF IInv, InHands
<1>11. Outcomes'
  BY <1>0, <1>1, <1>2, <1>4 DEF IInv, Outcomes, Unsent
<1>12. AtMostOnce' /\ ErrMeansNotRun' /\ ResponsesMatch'
  BY <1>0, <1>1, <1>2, <1>4 DEF IInv, AtMostOnce, ErrMeansNotRun, ResponsesMatch
<1> QED BY <1>5, <1>6, <1>7, <1>8, <1>9, <1>10, <1>11, <1>12 DEF IInv

\* The one reply on a connection answers the dispatch that waits there.
LEMMA GetResponseSafe ==
    ASSUME IInv, NEW j \in Jobs, GetResponse(j)
    PROVE  IInv'
<1> DEFINE c == conn[j]
           reply == toClient[c][1]
<1>0. /\ step[j] = "awaiting" /\ step' = [step EXCEPT ![j] = "saving"]
      /\ toClient[c] # <<>>
      /\ answer' = [answer EXCEPT ![j] = Head(toClient[c])]
      /\ toClient' = [toClient EXCEPT ![c] = Tail(toClient[c])]
      /\ UNCHANGED <<conn, stamp, clock, pool, srv, srvJob, srvAck, lastSeen, served, unread,
                     opened, up, toServer, faults>>
  BY DEF GetResponse, Goto, server
<1>1. /\ step \in [Jobs -> Steps] /\ answer \in [Jobs -> Responses \union {NoAnswer}]
      /\ toClient \in [Conns -> Seq(Responses)]
  BY DEF IInv, TypeOK
<1>2. c \in Conns
  BY <1>0 DEF IInv, Exclusive, Using
<1>3. toClient[c] \in Seq(Responses) /\ 1 \in DOMAIN toClient[c]
  BY <1>0, <1>1, <1>2
<1>4. Len(toClient[c]) = 1
  <2>1. \A i \in DOMAIN toClient[c] : i = 1
    BY <1>2 DEF IInv, Replies
  <2>2. Len(toClient[c]) \in Nat /\ DOMAIN toClient[c] = 1..Len(toClient[c])
    BY <1>3
  <2>3. Len(toClient[c]) \in DOMAIN toClient[c]
    BY <1>3, <2>2
  <2> QED BY <2>1, <2>3
<1>5. Head(toClient[c]) = reply /\ Tail(toClient[c]) = <<>>
  BY <1>0, <1>3, <1>4, TakenOff
<1>6. reply \in Responses /\ reply.job = j
  <2>1. reply \in Responses /\ reply.job \in Jobs
    BY <1>2, <1>3, NamedJobs DEF IInv
  <2>2. step[reply.job] = "awaiting" /\ conn[reply.job] = c
    BY <1>2, <1>3 DEF IInv, Replies
  <2> QED BY <1>0, <2>1, <2>2 DEF IInv, Exclusive, Using
<1>7. j \in Parallel => served[j] = 1
  <2>1. /\ reply.ack = "ACK" => served[j] = 1
        /\ reply.ack # "ACK" => j \in Teleports
    BY <1>2, <1>3, <1>6 DEF IInv, Replies
  <2>2. reply.ack \in Acks
    BY <1>6 DEF Responses
  <2> QED BY <2>1, <2>2, SwarmAssumption
<1>8. TypeOK'
  <2>1. step' \in [Jobs -> Steps]
    BY <1>0, <1>1 DEF Steps
  <2>2. answer' \in [Jobs -> Responses \union {NoAnswer}]
    BY <1>0, <1>1, <1>5, <1>6
  <2>3. toClient' \in [Conns -> Seq(Responses)]
    BY <1>0, <1>1, <1>2, <1>5
  <2> QED BY <1>0, <2>1, <2>2, <2>3 DEF IInv, TypeOK
<1>9. MadeInOrder'
  BY <1>0 DEF IInv, MadeInOrder
<1>10. Exclusive'
  BY <1>0, <1>1 DEF IInv, Exclusive, Using
<1>11. \A d \in Conns : d # c => toClient'[d] = toClient[d]
  BY <1>0, <1>1
<1>12. Requests'
  <2> SUFFICES ASSUME NEW d \in Conns, NEW i \in DOMAIN toServer[d]
               PROVE  LET packet == toServer[d][i] IN
                        /\ d \in up /\ srv[d] = "reading" /\ toClient'[d] = <<>>
                        /\ step'[packet.job] = "awaiting" /\ conn[packet.job] = d
                        /\ served[packet.job] = 0
                        /\ packet.part = "whole" => Len(toServer[d]) = 1
    BY <1>0 DEF Requests
  <2>1. d # c
    BY <1>0 DEF IInv, Requests
  <2>2. toServer[d][i].job \in Jobs /\ toServer[d][i].job # j
    BY <2>1, NamedJobs DEF IInv, Requests
  <2> QED BY <1>0, <1>1, <1>11, <2>1, <2>2 DEF IInv, Requests
<1>13. Replies'
  <2> SUFFICES ASSUME NEW d \in Conns, NEW i \in DOMAIN toClient'[d]
               PROVE  LET r == toClient'[d][i] IN
                        /\ i = 1 /\ d \in up
                        /\ step'[r.job] = "awaiting" /\ conn[r.job] = d
                        /\ r.ack = "ACK" => served[r.job] = 1
                        /\ r.ack # "ACK" => r.job \in Teleports
    BY <1>0 DEF Replies
  <2>1. d # c /\ toClient'[d] = toClient[d]
    BY <1>0, <1>1, <1>2, <1>5, <1>11
  <2>2. toClient[d][i].job \in Jobs /\ toClient[d][i].job # j
    BY <2>1, NamedJobs DEF IInv, Replies
  <2> QED BY <1>0, <1>1, <2>1, <2>2 DEF IInv, Replies
<1>14. InHands'
  <2> SUFFICES ASSUME NEW d \in Conns, srv[d] \in Busy
               PROVE  LET k == srvJob[d] IN
                        /\ k \in Jobs /\ conn[k] = d
                        /\ toServer[d] = <<>> /\ toClient'[d] = <<>>
                        /\ pool # d
                        /\ \A i \in Jobs : step'[i] \in Using /\ conn[i] = d => i = k
                        /\ \/ step'[k] = "awaiting"
                           \/ step'[k] \in {"failed", "local"} /\ d \notin up
                        /\ srv[d] # "replying" => served[k] = 0
                        /\ srv[d] = "replying" /\ srvAck[d] = "ACK" => served[k] = 1
                        /\ srv[d] \in {"checking", "inserting"} => k \in Teleports
                        /\ srv[d] = "replying" /\ srvAck[d] # "ACK" => k \in Teleports
    BY <1>0 DEF InHands
  <2>1. d # c
    BY <1>0 DEF IInv, InHands
  <2>2. srvJob[d] \in Jobs /\ srvJob[d] # j
    BY <2>1 DEF IInv, InHands
  <2> QED BY <1>0, <1>1, <1>11, <2>1, <2>2 DEF IInv, InHands
<1>15. Outcomes'
  <2>1. \A i \in Jobs : i # j /\ step[i] = "awaiting" => conn[i] # c
    BY <1>0 DEF IInv, Exclusive, Using
  <2>2. up \subseteq Conns
    BY DEF IInv, TypeOK
  <2> QED BY <1>0, <1>1, <1>7, <1>11, <2>1, <2>2 DEF IInv, Outcomes, Unsent
<1>16. AtMostOnce' /\ ErrMeansNotRun' /\ ResponsesMatch'
  BY <1>0, <1>1, <1>5, <1>6 DEF IInv, AtMostOnce, ErrMeansNotRun, ResponsesMatch
<1> QED BY <1>8, <1>9, <1>10, <1>12, <1>13, <1>14, <1>15, <1>16 DEF IInv

\* The end of a stream tells a dispatch that its request was not read, unless
\* the connection was reset.
LEMMA GetEofSafe ==
    ASSUME IInv, NEW j \in Jobs, GetEof(j)
    PROVE  IInv'
<1> DEFINE c == conn[j]
<1>0. /\ step[j] = "awaiting" /\ toClient[c] = <<>> /\ Dead(c)
      /\ \E s \in {"failed", "local"} : step' = [step EXCEPT ![j] = s]
      /\ UNCHANGED <<conn, stamp, answer, clock, pool, srv, srvJob, srvAck, lastSeen,
                     served, unread, opened, up, toServer, toClient, faults>>
  BY DEF GetEof, Fail, Goto, server, wires
<1>1. PICK s \in {"failed", "local"} : step' = [step EXCEPT ![j] = s]
  BY <1>0
<1>2. step \in [Jobs -> Steps]
  BY DEF IInv, TypeOK
<1>3. TypeOK'
  <2>1. step' \in [Jobs -> Steps]
    BY <1>1, <1>2 DEF Steps
  <2> QED BY <1>0, <2>1 DEF IInv, TypeOK
<1>4. MadeInOrder'
  BY <1>0 DEF IInv, MadeInOrder
<1>5. Exclusive'
  BY <1>0, <1>1, <1>2 DEF IInv, Exclusive, Using
<1>6. Requests' /\ Replies'
  <2>1. \A d \in Conns : \A i \in DOMAIN toServer[d] : toServer[d][i].job # j
    BY <1>0 DEF IInv, Requests, Dead
  <2>2. \A d \in Conns : \A i \in DOMAIN toClient[d] : toClient[d][i].job # j
    BY <1>0 DEF IInv, Replies
  <2> QED BY <1>0, <1>1, <1>2, <2>1, <2>2, OthersOnTheWay
<1>7. InHands'
  <2> SUFFICES ASSUME NEW d \in Conns, srv[d] \in Busy
               PROVE  LET k == srvJob[d] IN
                        /\ k \in Jobs /\ conn[k] = d
                        /\ toServer[d] = <<>> /\ toClient[d] = <<>>
                        /\ pool # d
                        /\ \A i \in Jobs : step'[i] \in Using /\ conn[i] = d => i = k
                        /\ \/ step'[k] = "awaiting"
                           \/ step'[k] \in {"failed", "local"} /\ d \notin up
                        /\ srv[d] # "replying" => served[k] = 0
                        /\ srv[d] = "replying" /\ srvAck[d] = "ACK" => served[k] = 1
                        /\ srv[d] \in {"checking", "inserting"} => k \in Teleports
                        /\ srv[d] = "replying" /\ srvAck[d] # "ACK" => k \in Teleports
    BY <1>0 DEF InHands
  <2>1. \A i \in Jobs : step'[i] \in Using => step[i] \in Using
    BY <1>1, <1>2 DEF Using
  <2>2. CASE srvJob[d] = j
    <3>1. d = c /\ d \notin up
      BY <1>0, <2>2 DEF IInv, InHands, Dead, Busy
    <3> QED BY <1>0, <1>1, <1>2, <2>1, <2>2, <3>1 DEF IInv, InHands
  <2>3. CASE srvJob[d] # j
    BY <1>0, <1>1, <1>2, <2>1, <2>3 DEF IInv, InHands
  <2> QED BY <2>2, <2>3
<1>8. Outcomes'
  BY <1>0, <1>1, <1>2 DEF IInv, Outcomes, Unsent
<1>9. ErrMeansNotRun'
  <2>1. served[j] > 0 => served[j] = 1
    BY DEF IInv, AtMostOnce, TypeOK
  <2>2. served[j] > 0 => c \notin up
    BY <1>0, <2>1 DEF IInv, Outcomes, Dead
  <2> QED BY <1>0, <1>1, <1>2, <2>2 DEF IInv, ErrMeansNotRun
<1>10. AtMostOnce' /\ ResponsesMatch'
  BY <1>0 DEF IInv, AtMostOnce, ResponsesMatch
<1> QED BY <1>3, <1>4, <1>5, <1>6, <1>7, <1>8, <1>9, <1>10 DEF IInv

-----------------------------------------------------------------------------
(* Steps of the peer.                                                       *)

\* The peer takes what is on a connection: only the dispatch that waits there
\* can have put it there.
LEMMA ServerReadSafe ==
    ASSUME IInv, NEW c \in Conns, ServerRead(c)
    PROVE  IInv'
<1> DEFINE packet == toServer[c][1]
           k == packet.job
<1>0. /\ srv[c] = "reading" /\ toServer[c] # <<>>
      /\ toServer' = [toServer EXCEPT ![c] = Tail(toServer[c])]
      /\ UNCHANGED <<step, conn, stamp, answer, clock, pool, opened, up, toClient,
                     srvAck, lastSeen, served, unread, faults>>
      /\ toServer \in [Conns -> Seq(Packets)] /\ srv \in [Conns -> Serving]
      /\ srvJob \in [Conns -> Jobs \union {None}]
  BY DEF ServerRead, client, IInv, TypeOK
<1>1. /\ toServer[c] \in Seq(Packets) /\ 1 \in DOMAIN toServer[c]
      /\ Head(toServer[c]) = packet /\ Tail(toServer[c]) \in Seq(Packets)
  BY <1>0, TakenOff
<1>2. /\ packet \in Packets /\ k \in Jobs
      /\ c \in up /\ toClient[c] = <<>>
      /\ step[k] = "awaiting" /\ conn[k] = c /\ served[k] = 0
      /\ packet.part = "whole" => Len(toServer[c]) = 1
  BY <1>1, NamedJobs DEF IInv, Requests
<1>3. \/ /\ packet.part = "whole" /\ toServer'[c] = <<>>
         /\ srvJob' = [srvJob EXCEPT ![c] = k]
         /\ \E s \in {"checking", "executing"} :
               /\ s = "checking" => k \in Teleports
               /\ srv' = [srv EXCEPT ![c] = s]
      \/ UNCHANGED <<srvJob, srv>>
  <2>1. packet.part = "whole" => Tail(toServer[c]) = <<>>
    BY <1>0, <1>1, <1>2, TakenOff
  <2> QED BY <1>0, <1>1, <2>1 DEF ServerRead, Serve
<1>4. \A d \in Conns : d # c => /\ toServer'[d] = toServer[d]
                                /\ srv'[d] = srv[d] /\ srvJob'[d] = srvJob[d]
  BY <1>0, <1>3
<1>5. TypeOK'
  <2>1. toServer' \in [Conns -> Seq(Packets)]
    BY <1>0, <1>1
  <2>2. srv' \in [Conns -> Serving] /\ srvJob' \in [Conns -> Jobs \union {None}]
    BY <1>0, <1>2, <1>3 DEF Serving
  <2> QED BY <1>0, <2>1, <2>2 DEF IInv, TypeOK
<1>6. MadeInOrder'
  <2>1. \A d \in Conns : srv'[d] # "none" <=> srv[d] # "none"
    BY <1>0, <1>3
  <2> QED BY <1>0, <2>1 DEF IInv, MadeInOrder
<1>7. Exclusive'
  BY <1>0 DEF IInv, Exclusive
<1>8. Requests'
  <2> SUFFICES ASSUME NEW d \in Conns, NEW i \in DOMAIN toServer'[d]
               PROVE  LET p == toServer'[d][i] IN
                        /\ d \in up /\ srv'[d] = "reading" /\ toClient[d] = <<>>
                        /\ step[p.job] = "awaiting" /\ conn[p.job] = d
                        /\ served[p.job] = 0
                        /\ p.part = "whole" => Len(toServer'[d]) = 1
    BY <1>0 DEF Requests
  <2>1. CASE d # c
    BY <1>4, <2>1 DEF IInv, Requests
  <2>2. CASE d = c
    <3>1. toServer'[c] = Tail(toServer[c]) /\ i \in DOMAIN Tail(toServer[c])
      BY <1>0, <2>2
    <3>2. i + 1 \in DOMAIN toServer[c] /\ toServer'[c][i] = toServer[c][i + 1]
      BY <1>0, <1>1, <3>1, TakenOff
    <3>3. UNCHANGED <<srvJob, srv>>
      BY <1>3, <2>2
    <3>4. Len(toServer[c]) # 1
      BY <1>0, <1>1, <3>1, TakenOff
    <3> QED BY <1>0, <2>2, <3>2, <3>3, <3>4 DEF IInv, Requests
  <2> QED BY <2>1, <2>2
<1>9. Replies'
  BY <1>0 DEF IInv, Replies
<1>10. InHands'
  <2> SUFFICES ASSUME NEW d \in Conns, srv'[d] \in Busy
               PROVE  LET h == srvJob'[d] IN
                        /\ h \in Jobs /\ conn[h] = d
                        /\ toServer'[d] = <<>> /\ toClient[d] = <<>>
                        /\ pool # d
                        /\ \A i \in Jobs : step[i] \in Using /\ conn[i] = d => i = h
                        /\ \/ step[h] = "awaiting"
                           \/ step[h] \in {"failed", "local"} /\ d \notin up
                        /\ srv'[d] # "replying" => served[h] = 0
                        /\ srv'[d] = "replying" /\ srvAck[d] = "ACK" => served[h] = 1
                        /\ srv'[d] \in {"checking", "inserting"} => h \in Teleports
                        /\ srv'[d] = "replying" /\ srvAck[d] # "ACK" => h \in Teleports
    BY <1>0 DEF InHands
  <2>1. CASE d # c
    BY <1>4, <2>1 DEF IInv, InHands
  <2>2. CASE d = c
    <3>1. /\ srvJob'[c] = k /\ toServer'[c] = <<>>
          /\ srv'[c] \in {"checking", "executing"}
          /\ srv'[c] = "checking" => k \in Teleports
      BY <1>0, <1>3, <2>2 DEF Busy
    <3>2. pool # c /\ \A i \in Jobs : step[i] \in Using /\ conn[i] = c => i = k
      BY <1>2 DEF IInv, Exclusive, Using
    <3> QED BY <1>2, <2>2, <3>1, <3>2
  <2> QED BY <2>1, <2>2
<1>11. Outcomes'
  <2> SUFFICES ASSUME NEW i \in Jobs, step[i] = "awaiting", served[i] = 1, conn[i] \in up
               PROVE  srv'[conn[i]] = "replying" \/ toClient[conn[i]] # <<>>
    BY <1>0 DEF IInv, Outcomes
  <2>1. srv[conn[i]] = "replying" \/ toClient[conn[i]] # <<>>
    BY DEF IInv, Outcomes
  <2>2. conn[i] \in Conns /\ conn[i] # c
    BY <1>0, <1>2, <2>1 DEF IInv, TypeOK
  <2> QED BY <1>4, <2>1, <2>2
<1>12. AtMostOnce' /\ ErrMeansNotRun' /\ ResponsesMatch'
  BY <1>0 DEF IInv, AtMostOnce, ErrMeansNotRun, ResponsesMatch
<1> QED BY <1>5, <1>6, <1>7, <1>8, <1>9, <1>10, <1>11, <1>12 DEF IInv

\* The peer stops serving a connection on which it has nothing in its hands:
\* what was on its way is gone.
LEMMA ClosedSafe ==
    ASSUME IInv, NEW c \in Conns, srv[c] = "reading", Serve(c, "closed"),
           toServer' = [toServer EXCEPT ![c] = <<>>],
           UNCHANGED <<client, opened, up, toClient, srvJob, srvAck, lastSeen, served, unread, faults>>
    PROVE  IInv'
<1>0. /\ srv' = [srv EXCEPT ![c] = "closed"]
      /\ UNCHANGED <<step, conn, stamp, answer, clock, pool>>
      /\ toServer \in [Conns -> Seq(Packets)] /\ srv \in [Conns -> Serving]
  BY DEF Serve, client, IInv, TypeOK
<1>1. \A d \in Conns : d # c => toServer'[d] = toServer[d] /\ srv'[d] = srv[d]
  BY <1>0
<1>2. TypeOK'
  <2>1. toServer' \in [Conns -> Seq(Packets)] /\ srv' \in [Conns -> Serving]
    BY <1>0 DEF Serving
  <2> QED BY <1>0, <2>1 DEF IInv, TypeOK
<1>3. MadeInOrder'
  <2>1. \A d \in Conns : srv'[d] # "none" <=> srv[d] # "none"
    BY <1>0
  <2> QED BY <1>0, <2>1 DEF IInv, MadeInOrder
<1>4. Exclusive'
  BY <1>0 DEF IInv, Exclusive
<1>5. Requests'
  <2> SUFFICES ASSUME NEW d \in Conns, NEW i \in DOMAIN toServer'[d]
               PROVE  LET p == toServer'[d][i] IN
                        /\ d \in up /\ srv'[d] = "reading" /\ toClient[d] = <<>>
                        /\ step[p.job] = "awaiting" /\ conn[p.job] = d
                        /\ served[p.job] = 0
                        /\ p.part = "whole" => Len(toServer'[d]) = 1
    BY <1>0 DEF Requests
  <2>1. d # c
    BY <1>0
  <2> QED BY <1>1, <2>1 DEF IInv, Requests
<1>6. Replies'
  BY <1>0 DEF IInv, Replies
<1>7. InHands'
  <2> SUFFICES ASSUME NEW d \in Conns, srv'[d] \in Busy
               PROVE  LET h == srvJob[d] IN
                        /\ h \in Jobs /\ conn[h] = d
                        /\ toServer'[d] = <<>> /\ toClient[d] = <<>>
                        /\ pool # d
                        /\ \A i \in Jobs : step[i] \in Using /\ conn[i] = d => i = h
                        /\ \/ step[h] = "awaiting"
                           \/ step[h] \in {"failed", "local"} /\ d \notin up
                        /\ srv'[d] # "replying" => served[h] = 0
                        /\ srv'[d] = "replying" /\ srvAck[d] = "ACK" => served[h] = 1
                        /\ srv'[d] \in {"checking", "inserting"} => h \in Teleports
                        /\ srv'[d] = "replying" /\ srvAck[d] # "ACK" => h \in Teleports
    BY <1>0 DEF InHands
  <2>1. d # c
    BY <1>0 DEF Busy
  <2> QED BY <1>1, <2>1 DEF IInv, InHands
<1>8. Outcomes'
  <2> SUFFICES ASSUME NEW i \in Jobs, step[i] = "awaiting", served[i] = 1, conn[i] \in up
               PROVE  srv'[conn[i]] = "replying" \/ toClient[conn[i]] # <<>>
    BY <1>0 DEF IInv, Outcomes
  <2>1. srv[conn[i]] = "replying" \/ toClient[conn[i]] # <<>>
    BY DEF IInv, Outcomes
  <2>2. conn[i] \in Conns
    BY DEF IInv, TypeOK
  <2> QED BY <1>1, <2>1, <2>2
<1>9. AtMostOnce' /\ ErrMeansNotRun' /\ ResponsesMatch'
  BY <1>0 DEF IInv, AtMostOnce, ErrMeansNotRun, ResponsesMatch
<1> QED BY <1>2, <1>3, <1>4, <1>5, <1>6, <1>7, <1>8, <1>9 DEF IInv

\* The peer's 30 s are over.
LEMMA ServerIdleSafe ==
    ASSUME IInv, NEW c \in Conns, ServerIdle(c)
    PROVE  IInv'
BY ClosedSafe DEF ServerIdle

\* The peer reads the end of a stream, on which nothing can be left.
LEMMA ServerEofSafe ==
    ASSUME IInv, NEW c \in Conns, ServerEof(c)
    PROVE  IInv'
<1>1. toServer[c] = <<>>
  <2>1. CASE c \notin up
    <3>1. DOMAIN toServer[c] = {}
      BY <2>1 DEF IInv, Requests
    <3> QED BY <3>1, NoElement DEF IInv, TypeOK
  <2> QED BY <2>1 DEF ServerEof
<1>2. toServer' = [toServer EXCEPT ![c] = <<>>]
  BY <1>1 DEF ServerEof, wires, IInv, TypeOK
<1> QED BY <1>2, ClosedSafe DEF ServerEof, wires

\* A continuation goes on to be compared, executed or refused; it stays in the
\* peer's hands.
LEMMA ComparedSafe ==
    ASSUME IInv, NEW c \in Conns, srv[c] \in {"checking", "inserting", "executing"},
           srvJob[c] \in Teleports,
           NEW s \in {"inserting", "executing", "replying"}, Serve(c, s),
           srvAck' \in [Conns -> Acks],
           \A d \in Conns : d # c => srvAck'[d] = srvAck[d],
           s = "replying" => srvAck'[c] # "ACK",
           lastSeen' \in Nat,
           UNCHANGED <<client, wires, srvJob, served, unread>>
    PROVE  IInv'
<1> DEFINE k == srvJob[c]
<1>0. /\ srv' = [srv EXCEPT ![c] = s]
      /\ UNCHANGED <<step, conn, stamp, answer, clock, pool, opened, up, toServer,
                     toClient, faults>>
      /\ srv \in [Conns -> Serving]
  BY DEF Serve, client, wires, IInv, TypeOK
<1>1. /\ k \in Teleports /\ k \in Jobs /\ conn[k] = c /\ served[k] = 0
      /\ toServer[c] = <<>> /\ toClient[c] = <<>>
      /\ \A i \in Jobs : step[i] \in Using /\ conn[i] = c => i = k
  BY DEF IInv, InHands, Busy
<1>2. \A d \in Conns : d # c => srv'[d] = srv[d]
  BY <1>0
<1>3. TypeOK'
  <2>1. srv' \in [Conns -> Serving]
    BY <1>0 DEF Serving
  <2> QED BY <1>0, <2>1 DEF IInv, TypeOK
<1>4. MadeInOrder'
  <2>1. \A d \in Conns : srv'[d] # "none" <=> srv[d] # "none"
    BY <1>0
  <2> QED BY <1>0, <2>1 DEF IInv, MadeInOrder
<1>5. Exclusive'
  BY <1>0 DEF IInv, Exclusive
<1>6. Requests'
  <2> SUFFICES ASSUME NEW d \in Conns, NEW i \in DOMAIN toServer[d]
               PROVE  LET p == toServer[d][i] IN
                        /\ d \in up /\ srv'[d] = "reading" /\ toClient[d] = <<>>
                        /\ step[p.job] = "awaiting" /\ conn[p.job] = d
                        /\ served[p.job] = 0
                        /\ p.part = "whole" => Len(toServer[d]) = 1
    BY <1>0 DEF Requests
  <2>1. d # c
    BY <1>1
  <2> QED BY <1>2, <2>1 DEF IInv, Requests
<1>7. Replies'
  BY <1>0 DEF IInv, Replies
<1>8. InHands'
  <2> SUFFICES ASSUME NEW d \in Conns, srv'[d] \in Busy
               PROVE  LET h == srvJob[d] IN
                        /\ h \in Jobs /\ conn[h] = d
                        /\ toServer[d] = <<>> /\ toClient[d] = <<>>
                        /\ pool # d
                        /\ \A i \in Jobs : step[i] \in Using /\ conn[i] = d => i = h
                        /\ \/ step[h] = "awaiting"
                           \/ step[h] \in {"failed", "local"} /\ d \notin up
                        /\ srv'[d] # "replying" => served[h] = 0
                        /\ srv'[d] = "replying" /\ srvAck'[d] = "ACK" => served[h] = 1
                        /\ srv'[d] \in {"checking", "inserting"} => h \in Teleports
                        /\ srv'[d] = "replying" /\ srvAck'[d] # "ACK" => h \in Teleports
    BY <1>0 DEF InHands
  <2>1. CASE d # c
    BY <1>2, <2>1 DEF IInv, InHands
  <2>2. CASE d = c
    <3>1. srv'[c] = s /\ srv[c] \in Busy
      BY <1>0 DEF Busy
    <3> QED BY <1>1, <2>2, <3>1 DEF IInv, InHands
  <2> QED BY <2>1, <2>2
<1>9. Outcomes'
  <2> SUFFICES ASSUME NEW i \in Jobs, step[i] = "awaiting", served[i] = 1, conn[i] \in up
               PROVE  srv'[conn[i]] = "replying" \/ toClient[conn[i]] # <<>>
    BY <1>0 DEF IInv, Outcomes
  <2>1. srv[conn[i]] = "replying" \/ toClient[conn[i]] # <<>>
    BY DEF IInv, Outcomes
  <2>2. conn[i] \in Conns /\ conn[i] # c
    BY <1>1 DEF IInv, TypeOK, Using
  <2> QED BY <1>2, <2>1, <2>2
<1>10. AtMostOnce' /\ ErrMeansNotRun' /\ ResponsesMatch'
  BY <1>0 DEF IInv, AtMostOnce, ErrMeansNotRun, ResponsesMatch
<1> QED BY <1>3, <1>4, <1>5, <1>6, <1>7, <1>8, <1>9, <1>10 DEF IInv

\* The three outcomes of the comparison under the shard lock.
LEMMA CheckSeenSafe ==
    ASSUME IInv, NEW c \in Conns, CheckSeen(c)
    PROVE  IInv'
<1>0. /\ srv[c] = "checking" /\ UNCHANGED <<client, wires, srvJob, served, unread>>
      /\ srvAck \in [Conns -> Acks] /\ lastSeen \in Nat
      /\ stamp \in [Jobs -> Nat] /\ srvJob[c] \in Jobs
      /\ srvJob[c] \in Teleports
  BY DEF CheckSeen, IInv, TypeOK, InHands, Busy
<1>1. CASE Serve(c, "inserting") /\ UNCHANGED <<srvAck, lastSeen>>
  BY <1>0, <1>1, ComparedSafe
<1>2. CASE Answer(c, "REPLAY") /\ UNCHANGED lastSeen
  BY <1>0, <1>2, ComparedSafe DEF Answer, Acks
<1>3. CASE /\ lastSeen' = stamp[srvJob[c]]
           /\ Serve(c, "executing") /\ UNCHANGED srvAck
  BY <1>0, <1>3, ComparedSafe
<1> QED BY <1>1, <1>2, <1>3 DEF CheckSeen

\* The first contact is stored, whatever was stored meanwhile.
LEMMA InsertSeenSafe ==
    ASSUME IInv, NEW c \in Conns, InsertSeen(c)
    PROVE  IInv'
<1>1. /\ srv[c] = "inserting" /\ Serve(c, "executing")
      /\ UNCHANGED <<client, wires, srvJob, srvAck, served, unread>>
      /\ srvAck \in [Conns -> Acks]
      /\ lastSeen' \in Nat /\ srvJob[c] \in Teleports
  BY DEF InsertSeen, IInv, TypeOK, InHands, Busy
<1> QED BY <1>1, ComparedSafe

\* A continuation is refused because it does not read as it was written.
LEMMA RejectSafe ==
    ASSUME IInv, NEW c \in Conns, RejectSig(c) \/ RejectInternal(c)
    PROVE  IInv'
<1>1. /\ srv[c] \in {"checking", "executing"} /\ Serve(c, "replying")
      /\ srvAck' = [srvAck EXCEPT ![c] = "ERR"]
      /\ UNCHANGED <<client, wires, srvJob, lastSeen, served, unread>>
      /\ srvJob[c] \in Teleports
      /\ srvAck \in [Conns -> Acks] /\ lastSeen' \in Nat
  BY DEF RejectSig, RejectInternal, Answer, IInv, TypeOK, InHands, Busy
<1> QED BY <1>1, ComparedSafe DEF Acks

\* The peer acknowledges what it has in its hands, for the first time.
LEMMA AcknowledgedSafe ==
    ASSUME IInv, NEW c \in Conns, srv[c] \in {"checking", "executing"},
           served' = [served EXCEPT ![srvJob[c]] = @ + 1],
           Answer(c, "ACK"), unread' \in {unread, unread \union {srvJob[c]}},
           unread' \subseteq Garbled,
           UNCHANGED <<client, wires, srvJob, lastSeen>>
    PROVE  IInv'
<1> DEFINE k == srvJob[c]
<1>0. /\ srv[c] \in {"checking", "executing"} /\ srv' = [srv EXCEPT ![c] = "replying"]
      /\ served' = [served EXCEPT ![k] = served[k] + 1]
      /\ srvAck' = [srvAck EXCEPT ![c] = "ACK"]
      /\ UNCHANGED <<step, conn, stamp, answer, clock, pool, opened, up, toServer,
                     toClient, faults, srvJob, lastSeen>>
      /\ srv \in [Conns -> Serving] /\ srvAck \in [Conns -> Acks]
      /\ served \in [Jobs -> Nat]
  BY DEF Answer, Serve, client, wires, IInv, TypeOK
<1>1. /\ k \in Jobs /\ conn[k] = c /\ served[k] = 0
      /\ toServer[c] = <<>> /\ toClient[c] = <<>> /\ pool # c
      /\ \A i \in Jobs : step[i] \in Using /\ conn[i] = c => i = k
      /\ \/ step[k] = "awaiting"
         \/ step[k] \in {"failed", "local"} /\ c \notin up
  BY <1>0 DEF IInv, InHands, Busy
<1>2. /\ \A d \in Conns : d # c => srv'[d] = srv[d] /\ srvAck'[d] = srvAck[d]
      /\ \A i \in Jobs : i # k => served'[i] = served[i]
      /\ served'[k] = 1 /\ srv'[c] = "replying" /\ srvAck'[c] = "ACK"
  BY <1>0, <1>1
<1>3. TypeOK'
  <2>1. srv' \in [Conns -> Serving] /\ srvAck' \in [Conns -> Acks]
    BY <1>0 DEF Serving, Acks
  <2>2. served' \in [Jobs -> Nat]
    BY <1>0, <1>1
  <2> QED BY <1>0, <2>1, <2>2 DEF IInv, TypeOK
<1>4. MadeInOrder'
  <2>1. \A d \in Conns : srv'[d] # "none" <=> srv[d] # "none"
    BY <1>0
  <2> QED BY <1>0, <2>1 DEF IInv, MadeInOrder
<1>5. Exclusive'
  BY <1>0 DEF IInv, Exclusive
<1>6. Requests'
  <2> SUFFICES ASSUME NEW d \in Conns, NEW i \in DOMAIN toServer[d]
               PROVE  LET p == toServer[d][i] IN
                        /\ d \in up /\ srv'[d] = "reading" /\ toClient[d] = <<>>
                        /\ step[p.job] = "awaiting" /\ conn[p.job] = d
                        /\ served'[p.job] = 0
                        /\ p.part = "whole" => Len(toServer[d]) = 1
    BY <1>0 DEF Requests
  <2>1. d # c
    BY <1>1
  <2>2. toServer[d][i].job \in Jobs /\ toServer[d][i].job # k
    BY <1>1, <2>1, NamedJobs DEF IInv, Requests
  <2> QED BY <1>2, <2>1, <2>2 DEF IInv, Requests
<1>7. Replies'
  <2> SUFFICES ASSUME NEW d \in Conns, NEW i \in DOMAIN toClient[d]
               PROVE  LET r == toClient[d][i] IN
                        /\ i = 1 /\ d \in up
                        /\ step[r.job] = "awaiting" /\ conn[r.job] = d
                        /\ r.ack = "ACK" => served'[r.job] = 1
                        /\ r.ack # "ACK" => r.job \in Teleports
    BY <1>0 DEF Replies
  <2>1. d # c
    BY <1>1
  <2>2. toClient[d][i].job \in Jobs /\ toClient[d][i].job # k
    BY <1>1, <2>1, NamedJobs DEF IInv, Replies
  <2> QED BY <1>2, <2>2 DEF IInv, Replies
<1>8. InHands'
  <2> SUFFICES ASSUME NEW d \in Conns, srv'[d] \in Busy
               PROVE  LET h == srvJob[d] IN
                        /\ h \in Jobs /\ conn[h] = d
                        /\ toServer[d] = <<>> /\ toClient[d] = <<>>
                        /\ pool # d
                        /\ \A i \in Jobs : step[i] \in Using /\ conn[i] = d => i = h
                        /\ \/ step[h] = "awaiting"
                           \/ step[h] \in {"failed", "local"} /\ d \notin up
                        /\ srv'[d] # "replying" => served'[h] = 0
                        /\ srv'[d] = "replying" /\ srvAck'[d] = "ACK" => served'[h] = 1
                        /\ srv'[d] \in {"checking", "inserting"} => h \in Teleports
                        /\ srv'[d] = "replying" /\ srvAck'[d] # "ACK" => h \in Teleports
    BY <1>0 DEF InHands
  <2>1. CASE d # c
    <3>1. srvJob[d] \in Jobs /\ srvJob[d] # k
      BY <1>1, <1>2, <2>1 DEF IInv, InHands
    <3> QED BY <1>2, <2>1, <3>1 DEF IInv, InHands
  <2>2. CASE d = c
    BY <1>1, <1>2, <2>2
  <2> QED BY <2>1, <2>2
<1>9. Outcomes'
  <2> SUFFICES ASSUME NEW i \in Jobs
               PROVE  /\ step[i] \in Unsent => served'[i] = 0 /\ answer[i] = NoAnswer
                      /\ step[i] \in {"saving", "done"} /\ i \in Parallel => served'[i] = 1
                      /\ step[i] = "awaiting" /\ served'[i] = 1 /\ conn[i] \in up =>
                            srv'[conn[i]] = "replying" \/ toClient[conn[i]] # <<>>
                      /\ i \in unread' => served'[i] = 1
    BY <1>0 DEF Outcomes
  <2>1. CASE i = k
    BY <1>1, <1>2, <2>1 DEF Unsent
  <2>2. CASE i # k
    <3>1. step[i] = "awaiting" /\ conn[i] \in up => conn[i] \in Conns /\ conn[i] # c
      BY <1>1, <2>2 DEF IInv, TypeOK, Using
    <3> QED BY <1>2, <2>2, <3>1 DEF IInv, Outcomes
  <2> QED BY <2>1, <2>2
<1>10. AtMostOnce' /\ ErrMeansNotRun'
  BY <1>0, <1>1, <1>2 DEF IInv, AtMostOnce, ErrMeansNotRun
<1>11. ResponsesMatch'
  BY <1>0 DEF IInv, ResponsesMatch
<1> QED BY <1>3, <1>4, <1>5, <1>6, <1>7, <1>8, <1>9, <1>10, <1>11 DEF IInv

\* It has executed the job,
LEMMA ExecuteSafe ==
    ASSUME IInv, NEW c \in Conns, Execute(c)
    PROVE  IInv'
<1>1. srv[c] = "executing" /\ unread' = unread /\ unread \subseteq Garbled
  BY DEF Execute, IInv, TypeOK
<1> QED BY <1>1, AcknowledgedSafe DEF Execute

\* or cannot read it.
LEMMA MisreadSafe ==
    ASSUME IInv, NEW c \in Conns, Misread(c)
    PROVE  IInv'
<1>1. srv[c] \in {"checking", "executing"} /\ unread' \subseteq Garbled
  BY DEF Misread, IInv, TypeOK
<1> QED BY <1>1, AcknowledgedSafe DEF Misread

\* The answer goes to the dispatch that waits for it.
LEMMA ReplySafe ==
    ASSUME IInv, NEW c \in Conns, Reply(c)
    PROVE  IInv'
<1> DEFINE k == srvJob[c]
           reply == [job |-> k, ack |-> srvAck[c]]
<1>0. /\ srv[c] = "replying" /\ srv' = [srv EXCEPT ![c] = "reading"]
      /\ UNCHANGED <<step, conn, stamp, answer, clock, pool, opened, up, toServer,
                     srvJob, srvAck, lastSeen, served, unread, faults>>
      /\ srv \in [Conns -> Serving] /\ srvAck \in [Conns -> Acks]
      /\ toClient \in [Conns -> Seq(Responses)]
  BY DEF Reply, Serve, client, IInv, TypeOK
<1>1. /\ k \in Jobs /\ conn[k] = c /\ toServer[c] = <<>> /\ toClient[c] = <<>>
      /\ \A i \in Jobs : step[i] \in Using /\ conn[i] = c => i = k
      /\ \/ step[k] = "awaiting"
         \/ step[k] \in {"failed", "local"} /\ c \notin up
      /\ srvAck[c] = "ACK" => served[k] = 1
      /\ srvAck[c] # "ACK" => k \in Teleports
  BY <1>0 DEF IInv, InHands, Busy
<1>2. \/ /\ c \in up /\ step[k] = "awaiting"
         /\ toClient' = [toClient EXCEPT ![c] = <<reply>>]
      \/ c \notin up /\ toClient' = toClient
  <2>1. CASE c \in up
    <3>1. step[k] = "awaiting"
      BY <1>1, <2>1
    <3>2. Held(c)
      BY <1>1, <3>1 DEF Held
    <3>3. toClient' = [toClient EXCEPT ![c] = Append(toClient[c], reply)]
      BY <2>1, <3>2 DEF Reply
    <3>4. Append(toClient[c], reply) = <<reply>>
      BY <1>1
    <3> QED BY <2>1, <3>1, <3>3, <3>4
  <2>2. CASE c \notin up
    BY <2>2 DEF Reply
  <2> QED BY <2>1, <2>2
<1>3. \A d \in Conns : d # c => srv'[d] = srv[d] /\ toClient'[d] = toClient[d]
  BY <1>0, <1>2
<1>4. TypeOK'
  <2>1. srv' \in [Conns -> Serving]
    BY <1>0 DEF Serving
  <2>2. reply \in Responses
    BY <1>0, <1>1 DEF Responses
  <2>3. <<reply>> \in Seq(Responses)
    BY <2>2
  <2> HIDE DEF reply
  <2>4. toClient' \in [Conns -> Seq(Responses)]
    BY <1>0, <1>2, <2>3
  <2> QED BY <1>0, <2>1, <2>4 DEF IInv, TypeOK
<1>5. MadeInOrder'
  <2>1. \A d \in Conns : srv'[d] # "none" <=> srv[d] # "none"
    BY <1>0
  <2> QED BY <1>0, <2>1 DEF IInv, MadeInOrder
<1>6. Exclusive'
  BY <1>0 DEF IInv, Exclusive
<1>7. Requests'
  <2> SUFFICES ASSUME NEW d \in Conns, NEW i \in DOMAIN toServer[d]
               PROVE  LET p == toServer[d][i] IN
                        /\ d \in up /\ srv'[d] = "reading" /\ toClient'[d] = <<>>
                        /\ step[p.job] = "awaiting" /\ conn[p.job] = d
                        /\ served[p.job] = 0
                        /\ p.part = "whole" => Len(toServer[d]) = 1
    BY <1>0 DEF Requests
  <2>1. d # c
    BY <1>1
  <2> QED BY <1>3, <2>1 DEF IInv, Requests
<1>8. Replies'
  <2> SUFFICES ASSUME NEW d \in Conns, NEW i \in DOMAIN toClient'[d]
               PROVE  LET r == toClient'[d][i] IN
                        /\ i = 1 /\ d \in up
                        /\ step[r.job] = "awaiting" /\ conn[r.job] = d
                        /\ r.ack = "ACK" => served[r.job] = 1
                        /\ r.ack # "ACK" => r.job \in Teleports
    BY <1>0 DEF Replies
  <2>1. CASE toClient'[d] = toClient[d]
    BY <2>1 DEF IInv, Replies
  <2>2. CASE toClient'[d] # toClient[d]
    <3>1. d = c /\ toClient'[d] = <<reply>> /\ c \in up /\ step[k] = "awaiting"
      BY <1>0, <1>2, <2>2
    <3>2. i = 1 /\ toClient'[d][i] = reply
      BY <3>1
    <3> QED BY <1>1, <3>1, <3>2
  <2> QED BY <2>1, <2>2
<1>9. InHands'
  <2> SUFFICES ASSUME NEW d \in Conns, srv'[d] \in Busy
               PROVE  LET h == srvJob[d] IN
                        /\ h \in Jobs /\ conn[h] = d
                        /\ toServer[d] = <<>> /\ toClient'[d] = <<>>
                        /\ pool # d
                        /\ \A i \in Jobs : step[i] \in Using /\ conn[i] = d => i = h
                        /\ \/ step[h] = "awaiting"
                           \/ step[h] \in {"failed", "local"} /\ d \notin up
                        /\ srv'[d] # "replying" => served[h] = 0
                        /\ srv'[d] = "replying" /\ srvAck[d] = "ACK" => served[h] = 1
                        /\ srv'[d] \in {"checking", "inserting"} => h \in Teleports
                        /\ srv'[d] = "replying" /\ srvAck[d] # "ACK" => h \in Teleports
    BY <1>0 DEF InHands
  <2>1. d # c
    BY <1>0 DEF Busy
  <2> QED BY <1>3, <2>1 DEF IInv, InHands
<1>10. Outcomes'
  <2> SUFFICES ASSUME NEW i \in Jobs, step[i] = "awaiting", served[i] = 1, conn[i] \in up
               PROVE  srv'[conn[i]] = "replying" \/ toClient'[conn[i]] # <<>>
    BY <1>0 DEF IInv, Outcomes
  <2>1. srv[conn[i]] = "replying" \/ toClient[conn[i]] # <<>>
    BY DEF IInv, Outcomes
  <2>2. conn[i] \in Conns
    BY DEF IInv, TypeOK
  <2>3. CASE conn[i] = c
    <3>1. toClient'[c] = <<reply>>
      BY <1>0, <1>2, <2>3
    <3> QED BY <2>3, <3>1
  <2>4. CASE conn[i] # c
    BY <1>3, <2>1, <2>2, <2>4
  <2> QED BY <2>3, <2>4
<1>11. AtMostOnce' /\ ErrMeansNotRun' /\ ResponsesMatch'
  BY <1>0 DEF IInv, AtMostOnce, ErrMeansNotRun, ResponsesMatch
<1> QED BY <1>4, <1>5, <1>6, <1>7, <1>8, <1>9, <1>10, <1>11 DEF IInv

-----------------------------------------------------------------------------
(* Faults.                                                                  *)

\* A reset takes what was on its way; what the peer has in its hands stays.
LEMMA ResetSafe ==
    ASSUME IInv, NEW c \in Conns, Reset(c)
    PROVE  IInv'
<1>0. /\ up' = up \ {c}
      /\ toServer' = [toServer EXCEPT ![c] = <<>>]
      /\ toClient' = [toClient EXCEPT ![c] = <<>>]
      /\ UNCHANGED <<step, conn, stamp, answer, clock, pool, srv, srvJob, srvAck,
                     lastSeen, served, unread, opened>>
      /\ toServer \in [Conns -> Seq(Packets)] /\ toClient \in [Conns -> Seq(Responses)]
      /\ faults' \in 0..MaxFaults
  BY SwarmAssumption DEF Reset, Fault, client, server, IInv, TypeOK
<1>1. /\ \A d \in Conns : d # c => toServer'[d] = toServer[d] /\ toClient'[d] = toClient[d]
      /\ toServer'[c] = <<>> /\ toClient'[c] = <<>>
  BY <1>0
<1>2. TypeOK'
  <2>1. toServer' \in [Conns -> Seq(Packets)] /\ toClient' \in [Conns -> Seq(Responses)]
    BY <1>0
  <2> QED BY <1>0, <2>1 DEF IInv, TypeOK
<1>3. MadeInOrder'
  BY <1>0 DEF IInv, MadeInOrder
<1>4. Exclusive'
  BY <1>0 DEF IInv, Exclusive
<1>5. Requests'
  <2> SUFFICES ASSUME NEW d \in Conns, NEW i \in DOMAIN toServer'[d]
               PROVE  LET p == toServer'[d][i] IN
                        /\ d \in up' /\ srv[d] = "reading" /\ toClient'[d] = <<>>
                        /\ step[p.job] = "awaiting" /\ conn[p.job] = d
                        /\ served[p.job] = 0
                        /\ p.part = "whole" => Len(toServer'[d]) = 1
    BY <1>0 DEF Requests
  <2>1. d # c
    BY <1>1
  <2> QED BY <1>0, <1>1, <2>1 DEF IInv, Requests
<1>6. Replies'
  <2> SUFFICES ASSUME NEW d \in Conns, NEW i \in DOMAIN toClient'[d]
               PROVE  LET r == toClient'[d][i] IN
                        /\ i = 1 /\ d \in up'
                        /\ step[r.job] = "awaiting" /\ conn[r.job] = d
                        /\ r.ack = "ACK" => served[r.job] = 1
                        /\ r.ack # "ACK" => r.job \in Teleports
    BY <1>0 DEF Replies
  <2>1. d # c
    BY <1>1
  <2> QED BY <1>0, <1>1, <2>1 DEF IInv, Replies
<1>7. InHands'
  BY <1>0, <1>1 DEF IInv, InHands
<1>8. Outcomes'
  <2>1. up \subseteq Conns
    BY DEF IInv, TypeOK
  <2> QED BY <1>0, <1>1, <2>1 DEF IInv, Outcomes
<1>9. AtMostOnce' /\ ErrMeansNotRun' /\ ResponsesMatch'
  BY <1>0 DEF IInv, AtMostOnce, ErrMeansNotRun, ResponsesMatch
<1> QED BY <1>2, <1>3, <1>4, <1>5, <1>6, <1>7, <1>8, <1>9 DEF IInv

\* A restart of the peer resets every connection and forgets the stamps.
LEMMA RestartSafe ==
    ASSUME IInv, Restart
    PROVE  IInv'
<1>0. /\ up' = {} /\ lastSeen' = None
      /\ \A c \in Conns : toServer'[c] = <<>> /\ toClient'[c] = <<>>
      /\ UNCHANGED <<step, conn, stamp, answer, clock, pool, opened, srvJob, srvAck, served, unread>>
      /\ faults' \in 0..MaxFaults
      /\ srv \in [Conns -> Serving]
  BY SwarmAssumption DEF Restart, Fault, client, IInv, TypeOK
<1>1. \A c \in Conns : srv'[c] \notin Busy /\ (srv'[c] # "none" <=> srv[c] # "none")
  BY DEF Restart, Busy
<1>2. TypeOK'
  <2>1. toServer' \in [Conns -> Seq(Packets)] /\ toClient' \in [Conns -> Seq(Responses)]
    BY DEF Restart
  <2>2. srv' \in [Conns -> Serving]
    BY <1>0 DEF Restart, Serving
  <2>3. lastSeen' \in Nat
    BY <1>0 DEF None
  <2> QED BY <1>0, <2>1, <2>2, <2>3 DEF IInv, TypeOK
<1>3. MadeInOrder' /\ Exclusive'
  BY <1>0, <1>1 DEF IInv, MadeInOrder, Exclusive
<1>4. Requests' /\ Replies'
  BY <1>0 DEF Requests, Replies
<1>5. InHands'
  BY <1>1 DEF InHands
<1>6. Outcomes' /\ AtMostOnce' /\ ErrMeansNotRun' /\ ResponsesMatch'
  BY <1>0 DEF IInv, Outcomes, AtMostOnce, ErrMeansNotRun, ResponsesMatch
<1> QED BY <1>2, <1>3, <1>4, <1>5, <1>6 DEF IInv

-----------------------------------------------------------------------------
\* Nothing is connected at the start.
LEMMA InitInvariant == Init => IInv
<1> SUFFICES ASSUME Init PROVE IInv
  OBVIOUS
<1>1. TypeOK
  BY SwarmAssumption DEF Init, TypeOK, Steps, Serving, Acks, Conns, None
<1>2. MadeInOrder
  BY SwarmAssumption DEF Init, MadeInOrder, Conns, None
<1>3. Exclusive
  BY DEF Init, Exclusive, Using
<1>4. Requests /\ Replies /\ InHands
  BY DEF Init, Requests, Replies, InHands, Busy
<1>5. Outcomes /\ AtMostOnce /\ ErrMeansNotRun /\ ResponsesMatch
  BY DEF Init, Outcomes, AtMostOnce, ErrMeansNotRun, ResponsesMatch
<1> QED BY <1>1, <1>2, <1>3, <1>4, <1>5 DEF IInv

\* Every step of a dispatch, a session or the environment keeps the invariant.
LEMMA NextInvariant == IInv /\ [Next]_vars => IInv'
<1> SUFFICES ASSUME IInv, [Next]_vars PROVE IInv'
  OBVIOUS
<1>1. ASSUME NEW j \in Jobs, Dispatch(j) PROVE IInv'
  BY <1>1, PrepareSafe, NotSentSafe, TakePooledSafe, PoolEmptySafe, ConnectedSafe,
     ConnectFailsSafe, WriteSafe, WriteSplitSafe, WriteFailsSafe, GetResponseSafe,
     GetEofSafe, SaveSafe DEF Dispatch
<1>2. ASSUME NEW c \in Conns, Session(c) PROVE IInv'
  BY <1>2, ServerReadSafe, ServerEofSafe, ServerIdleSafe, CheckSeenSafe, InsertSeenSafe,
     RejectSafe, MisreadSafe, ExecuteSafe, ReplySafe DEF Session
<1>3. CASE UNCHANGED vars
  BY <1>3 DEF vars, IInv, TypeOK, MadeInOrder, Exclusive, Requests, InHands, Replies,
     Outcomes, AtMostOnce, ErrMeansNotRun, ResponsesMatch
<1> QED BY <1>1, <1>2, <1>3, ResetSafe, RestartSafe DEF Next

-----------------------------------------------------------------------------
(* What the callers are promised: Swarm implements RemoteCalls.             *)

\* The peer is about to answer job j with a, or its answer is on the way.
Answering(j, a) ==
    \/ \E c \in Conns : srv[c] = "replying" /\ srvAck[c] = a /\ srvJob[c] = j
    \/ \E c \in Conns : \E i \in DOMAIN toClient[c] :
          toClient[c][i].ack = a /\ toClient[c][i].job = j

Errors == {"REPLAY", "ERR"}

\* A peer that refuses has not executed, and so it stays until the answer has
\* been read.
Refusals == \A j \in Jobs : \A a \in Errors : Answering(j, a) => served[j] = 0

\* The comparison with LAST_SEEN_LAMPORT under which job j is refused.
FoundReplayed(j) ==
    \E c \in Conns : /\ CheckSeen(c) /\ srv[c] = "checking" /\ srvJob[c] = j
                     /\ lastSeen # None /\ stamp[j] <= lastSeen

\* A payload that does not read as it was written, for which it is refused.
FoundGarbled(j) == \E c \in Conns : (RejectSig(c) \/ RejectInternal(c)) /\ srvJob[c] = j

\* Nothing else makes the peer refuse.
LEMMA AnsweringNext ==
    ASSUME IInv, [Next]_vars, NEW j \in Jobs, NEW a \in Errors, Answering(j, a)'
    PROVE  \/ Answering(j, a)
           \/ a = "REPLAY" /\ FoundReplayed(j)
           \/ a = "ERR" /\ FoundGarbled(j)
<1>1. ASSUME UNCHANGED <<srv, srvJob, srvAck>>,
             \A c \in Conns : \A i \in DOMAIN toClient'[c] :
                 i \in DOMAIN toClient[c] /\ toClient'[c][i] = toClient[c][i]
      PROVE  Answering(j, a)
  BY <1>1 DEF Answering
<1>2. ASSUME NEW c \in Conns, NEW s, Serve(c, s), s # "replying", toClient' = toClient,
             \A d \in Conns : d # c => srvJob'[d] = srvJob[d] /\ srvAck'[d] = srvAck[d]
      PROVE  Answering(j, a)
  <2>1. srv' = [srv EXCEPT ![c] = s] /\ srv \in [Conns -> Serving]
    BY <1>2 DEF Serve, IInv, TypeOK
  <2>2. ASSUME NEW d \in Conns, srv'[d] = "replying", srvAck'[d] = a, srvJob'[d] = j
        PROVE  srv[d] = "replying" /\ srvAck[d] = a /\ srvJob[d] = j
    BY <1>2, <2>1, <2>2
  <2> QED BY <1>2, <2>2 DEF Answering
<1>3. ASSUME NEW c \in Conns, NEW b \in Acks, Answer(c, b), UNCHANGED <<toClient, srvJob>>,
              srvJob[c] # j \/ a # b
       PROVE  Answering(j, a)
  <2>1. /\ srv' = [srv EXCEPT ![c] = "replying"] /\ srvAck' = [srvAck EXCEPT ![c] = b]
        /\ srv \in [Conns -> Serving] /\ srvAck \in [Conns -> Acks]
    BY <1>3 DEF Answer, Serve, IInv, TypeOK
  <2>2. ASSUME NEW d \in Conns, srv'[d] = "replying", srvAck'[d] = a, srvJob[d] = j
        PROVE  srv[d] = "replying" /\ srvAck[d] = a
    BY <1>3, <2>1, <2>2
  <2> QED BY <1>3, <2>2 DEF Answering
<1>4. ASSUME NEW k \in Jobs, GetResponse(k) PROVE Answering(j, a)
  <2> DEFINE c == conn[k]
  <2>1. /\ UNCHANGED <<srv, srvJob, srvAck>>
        /\ toClient' = [toClient EXCEPT ![c] = Tail(toClient[c])]
        /\ toClient[c] # <<>> /\ c \in Conns /\ toClient \in [Conns -> Seq(Responses)]
    BY <1>4 DEF GetResponse, server, IInv, TypeOK, Exclusive, Using
  <2>2. \A i \in DOMAIN Tail(toClient[c]) :
           i + 1 \in DOMAIN toClient[c] /\ Tail(toClient[c])[i] = toClient[c][i + 1]
    BY <2>1, TakenOff
  <2>3. ASSUME NEW d \in Conns, NEW i \in DOMAIN toClient'[d],
               toClient'[d][i].ack = a, toClient'[d][i].job = j
        PROVE  Answering(j, a)
    <3>1. CASE d = c
      <4>1. toClient'[d] = Tail(toClient[c])
        BY <2>1, <3>1
      <4> QED BY <2>1, <2>2, <2>3, <4>1 DEF Answering
    <3>2. CASE d # c
      BY <2>1, <2>3, <3>2 DEF Answering
    <3> QED BY <3>1, <3>2
  <2> QED BY <2>1, <2>3 DEF Answering
<1>5. ASSUME NEW k \in Jobs, Connected(k) PROVE Answering(j, a)
  <2>1. /\ srv' = [srv EXCEPT ![opened + 1] = "reading"] /\ srv \in [Conns -> Serving]
        /\ UNCHANGED <<toClient, srvJob, srvAck>>
    BY <1>5 DEF Connected, Serve, IInv, TypeOK
  <2>2. \A d \in Conns : srv'[d] = "replying" => srv[d] = "replying"
    BY <2>1
  <2> QED BY <2>1, <2>2 DEF Answering
<1>6. ASSUME NEW k \in Jobs, Dispatch(k) PROVE Answering(j, a)
  <2>1. CASE ~GetResponse(k) /\ ~Connected(k)
    BY <1>1, <1>6, <2>1 DEF Dispatch, Prepare, NotSent, TakePooled, PoolEmpty, ConnectFails, Write,
       WriteSplit, WriteFails, GetEof, Save, server, wires
  <2> QED BY <1>4, <1>5, <1>6, <2>1
<1>7. ASSUME NEW c \in Conns, ServerRead(c) PROVE Answering(j, a)
  <2>1. \E s : Serve(c, s) /\ s # "replying"
    <3>1. srv[c] = "reading" /\ srv \in [Conns -> Serving]
      BY <1>7 DEF ServerRead, IInv, TypeOK
    <3>2. srv' = srv => Serve(c, "reading")
      BY <3>1 DEF Serve
    <3> QED BY <1>7, <3>2 DEF ServerRead
  <2>2. /\ UNCHANGED <<toClient, srvAck>>
        /\ \A d \in Conns : d # c => srvJob'[d] = srvJob[d]
    BY <1>7 DEF ServerRead, client, IInv, TypeOK
  <2> QED BY <1>2, <2>1, <2>2
<1>8. ASSUME NEW c \in Conns, ServerEof(c) \/ ServerIdle(c) \/ InsertSeen(c)
      PROVE  Answering(j, a)
  <2>1. \E s : Serve(c, s) /\ s # "replying"
    BY <1>8 DEF ServerEof, ServerIdle, InsertSeen
  <2>2. UNCHANGED <<toClient, srvJob, srvAck>>
    BY <1>8 DEF ServerEof, ServerIdle, InsertSeen, wires
  <2> QED BY <1>2, <2>1, <2>2
<1>9. ASSUME NEW c \in Conns, CheckSeen(c)
      PROVE  Answering(j, a) \/ (a = "REPLAY" /\ FoundReplayed(j))
  <2>1. /\ UNCHANGED <<toClient, srvJob>> /\ srv[c] = "checking"
        /\ \A d \in Conns : d # c => srvAck'[d] = srvAck[d]
    BY <1>9 DEF CheckSeen, Answer, wires, IInv, TypeOK
  <2>2. CASE \E s \in {"inserting", "executing"} : Serve(c, s)
    BY <1>2, <2>1, <2>2
  <2>3. CASE Answer(c, "REPLAY") /\ lastSeen # None /\ stamp[srvJob[c]] <= lastSeen
    <3>1. CASE srvJob[c] = j /\ a = "REPLAY"
      BY <1>9, <2>1, <2>3, <3>1 DEF FoundReplayed
    <3>2. CASE srvJob[c] # j \/ a # "REPLAY"
      BY <1>3, <2>1, <2>3, <3>2 DEF Acks
    <3> QED BY <3>1, <3>2
  <2> QED BY <1>9, <2>2, <2>3 DEF CheckSeen
<1>10. ASSUME NEW c \in Conns, Execute(c) \/ Misread(c) PROVE Answering(j, a)
  BY <1>10, <1>3 DEF Execute, Misread, wires, Errors, Acks
<1>11. ASSUME NEW c \in Conns, RejectSig(c) \/ RejectInternal(c)
       PROVE  Answering(j, a) \/ (a = "ERR" /\ FoundGarbled(j))
  <2>1. CASE srvJob[c] = j /\ a = "ERR"
    BY <1>11, <2>1 DEF FoundGarbled
  <2>2. CASE srvJob[c] # j \/ a # "ERR"
    BY <1>3, <1>11, <2>2 DEF RejectSig, RejectInternal, wires, Acks
  <2> QED BY <2>1, <2>2
<1>12. ASSUME NEW c \in Conns, Reply(c) PROVE Answering(j, a)
  <2> DEFINE reply == [job |-> srvJob[c], ack |-> srvAck[c]]
  <2>1. /\ srv[c] = "replying" /\ srv' = [srv EXCEPT ![c] = "reading"]
        /\ UNCHANGED <<srvJob, srvAck>>
        /\ srv \in [Conns -> Serving] /\ toClient \in [Conns -> Seq(Responses)]
    BY <1>12 DEF Reply, Serve, client, IInv, TypeOK
  <2>2. toClient[c] = <<>> /\ (reply.ack = a /\ reply.job = j => Answering(j, a))
    BY <2>1 DEF IInv, InHands, Busy, Answering
  <2>3. toClient' = toClient \/ toClient' = [toClient EXCEPT ![c] = <<reply>>]
    <3>1. Append(toClient[c], reply) = <<reply>>
      BY <2>2
    <3> QED BY <1>12, <3>1 DEF Reply
  <2> HIDE DEF reply
  <2>4. ASSUME NEW d \in Conns, NEW i \in DOMAIN toClient'[d],
               toClient'[d][i].ack = a, toClient'[d][i].job = j
        PROVE  Answering(j, a)
    <3>1. CASE toClient'[d] = toClient[d]
      BY <2>4, <3>1 DEF Answering
    <3>2. CASE toClient'[d] = <<reply>>
      BY <2>2, <2>4, <3>2
    <3> QED BY <2>1, <2>3, <3>1, <3>2
  <2>5. ASSUME NEW d \in Conns, srv'[d] = "replying" PROVE srv[d] = "replying"
    BY <2>1, <2>5
  <2> QED BY <2>1, <2>4, <2>5 DEF Answering
<1>13. ASSUME NEW c \in Conns, Reset(c) PROVE Answering(j, a)
  <2>1. /\ UNCHANGED <<srv, srvJob, srvAck>> /\ toClient \in [Conns -> Seq(Responses)]
        /\ toClient' = [toClient EXCEPT ![c] = <<>>]
    BY <1>13 DEF Reset, server, IInv, TypeOK
  <2>2. \A d \in Conns : toClient'[d] \in {toClient[d], <<>>}
    BY <2>1
  <2> QED BY <1>1, <2>1, <2>2
<1>14. CASE Restart
  <2>1. \A c \in Conns : srv'[c] # "replying" /\ toClient'[c] = <<>>
    BY <1>14 DEF Restart
  <2> QED BY <2>1 DEF Answering
<1>15. CASE UNCHANGED vars
  BY <1>15 DEF vars, Answering
<1> QED BY <1>6, <1>7, <1>8, <1>9, <1>10, <1>11, <1>12, <1>13, <1>14, <1>15 DEF Next, Session

\* The peer acknowledges only what a session has in its hands, once.
LEMMA ServedNext ==
    ASSUME IInv, [Next]_vars, NEW j \in Jobs
    PROVE  \/ served'[j] = served[j] /\ (j \in unread <=> j \in unread')
           \/ \E c \in Conns : /\ Execute(c) \/ Misread(c)
                              /\ srvJob[c] = j /\ srv[c] \in {"checking", "executing"}
<1>1. CASE \E k \in Jobs : Dispatch(k)
  BY <1>1 DEF Dispatch, Prepare, NotSent, TakePooled, PoolEmpty, Connected, ConnectFails,
     Write, WriteSplit, WriteFails, GetResponse, GetEof, Save, server
<1>2. ASSUME NEW c \in Conns, Session(c)
      PROVE  \/ served' = served /\ unread' = unread
             \/ Execute(c) \/ Misread(c)
  BY <1>2 DEF Session, ServerRead, ServerEof, ServerIdle, RejectSig, CheckSeen, InsertSeen,
     RejectInternal, Reply
<1>3. ASSUME NEW c \in Conns, Execute(c) \/ Misread(c), srvJob[c] # j
      PROVE  served'[j] = served[j] /\ (j \in unread <=> j \in unread')
  <2>1. served' = [served EXCEPT ![srvJob[c]] = served[srvJob[c]] + 1] /\ served \in [Jobs -> Nat]
    BY <1>3 DEF Execute, Misread, IInv, TypeOK
  <2>2. unread' \in {unread, unread \union {srvJob[c]}}
    BY <1>3 DEF Execute, Misread
  <2> QED BY <1>3, <2>1, <2>2
<1>4. ASSUME NEW c \in Conns, Execute(c) \/ Misread(c)
      PROVE  srv[c] \in {"checking", "executing"}
  BY <1>4 DEF Execute, Misread
<1>5. CASE (\E c \in Conns : Reset(c)) \/ Restart \/ UNCHANGED vars
  BY <1>5 DEF Reset, Restart, server, vars
<1> QED BY <1>1, <1>2, <1>3, <1>4, <1>5 DEF Next

\* A refused job is in no session's hands, or leaves them with the refusal.
LEMMA RefusalsNext ==
    ASSUME IInv, Refusals, [Next]_vars
    PROVE  Refusals'
<1> SUFFICES ASSUME NEW j \in Jobs, NEW a \in Errors, Answering(j, a)' PROVE served'[j] = 0
  BY DEF Refusals
<1>1. Answering(j, a) \/ FoundReplayed(j) \/ FoundGarbled(j)
  BY AnsweringNext
<1>2. served[j] = 0
  <2>1. CASE Answering(j, a)
    BY <2>1 DEF Refusals
  <2>2. CASE FoundReplayed(j)
    BY <2>2 DEF FoundReplayed, IInv, InHands, Busy
  <2>3. CASE FoundGarbled(j)
    BY <2>3 DEF FoundGarbled, RejectSig, RejectInternal, IInv, InHands, Busy
  <2> QED BY <1>1, <2>1, <2>2, <2>3
<1>3. ASSUME NEW c \in Conns, Execute(c) \/ Misread(c), srvJob[c] = j,
             srv[c] \in {"checking", "executing"}
      PROVE  FALSE
  <2>1. /\ srv' = [srv EXCEPT ![c] = "replying"] /\ srvAck' = [srvAck EXCEPT ![c] = "ACK"]
        /\ UNCHANGED <<srvJob, toClient>>
        /\ srv \in [Conns -> Serving] /\ srvAck \in [Conns -> Acks]
    BY <1>3 DEF Execute, Misread, Answer, Serve, wires, IInv, TypeOK
  <2>2. conn[j] = c /\ toClient[c] = <<>>
    BY <1>3 DEF IInv, InHands, Busy
  <2>3. ASSUME NEW d \in Conns, srv'[d] = "replying", srvAck'[d] = a, srvJob'[d] = j
        PROVE  FALSE
    <3>1. d # c /\ srv[d] = "replying" /\ srvJob[d] = j
      BY <2>1, <2>3 DEF Errors
    <3> QED BY <2>2, <3>1 DEF IInv, InHands, Busy
  <2>4. ASSUME NEW d \in Conns, NEW i \in DOMAIN toClient[d], toClient[d][i].job = j
        PROVE  FALSE
    BY <2>2, <2>4, NamedJobs DEF IInv, Replies
  <2> QED BY <2>1, <2>3, <2>4 DEF Answering
<1> QED BY <1>2, <1>3, ServedNext

\* What the refinement tells apart of a job's steps.
LEMMA OutcomeOf ==
    ASSUME TypeOK, NEW j \in Jobs
    PROVE  /\ step[j] = "idle" => Outcome(j) = "idle"
           /\ step[j] \in {"failed", "local"} => Outcome(j) = "err"
           /\ step[j] \in {"saving", "done"} =>
                 Outcome(j) = IF answer[j].ack = "ACK" THEN "acked" ELSE "refused"
           /\ step[j] \notin {"idle", "failed", "local", "saving", "done"} => Outcome(j) = "open"
           /\ Outcome(j) = "open" <=> step[j] \notin {"idle", "failed", "local", "saving", "done"}
BY DEF Outcome

\* What the peer has in its hands is a request that its dispatch waits for, or
\* has given up when the connection broke, and has not been executed.
LEMMA HandsAre ==
    ASSUME IInv, NEW j \in Jobs
    PROVE  /\ j \in InPeersHands =>
                 /\ conn[j] \in Conns /\ srvJob[conn[j]] = j
                 /\ srv[conn[j]] \in {"checking", "inserting", "executing"}
                 /\ step[j] = "awaiting" \/ step[j] \in {"failed", "local"}
                 /\ served[j] = 0 /\ toClient[conn[j]] = <<>>
           /\ \A c \in Conns : srv[c] \in {"checking", "inserting", "executing"} /\ srvJob[c] = j =>
                 j \in InPeersHands /\ conn[j] = c
BY DEF InPeersHands, IInv, InHands, Busy

\* What the peer has acknowledged it has executed or could not read.
LEMMA ServedAre ==
    ASSUME IInv, NEW j \in Jobs
    PROVE  j \in Executed \union unread <=> served[j] # 0
<1>1. served[j] \in Nat /\ (j \in unread => served[j] = 1)
  BY DEF IInv, TypeOK, Outcomes
<1> QED BY <1>1 DEF Executed, Ran, Ran

\* A dispatch moves its own call only, unless a connection breaks.
LEMMA OriginMoves ==
    ASSUME IInv, NEW j \in Jobs, UNCHANGED <<up, srv, srvJob, served, unread>>,
           \A i \in Jobs : i # j => /\ step'[i] = step[i] /\ conn'[i] = conn[i]
                                    /\ answer'[i] = answer[i]
    PROVE  /\ [i \in Jobs |-> Outcome(i)]' = [[i \in Jobs |-> Outcome(i)] EXCEPT ![j] = Outcome(j)']
           /\ InPeersHands' = InPeersHands /\ Executed' = Executed /\ unread' = unread
           /\ Lost' \ {j} = Lost \ {j}
<1>1. \A i \in Jobs : i # j => Outcome(i)' = Outcome(i)
  BY DEF Outcome
<1>2. [i \in Jobs |-> Outcome(i)]' = [[i \in Jobs |-> Outcome(i)] EXCEPT ![j] = Outcome(j)']
  BY <1>1
<1>3. InPeersHands' = InPeersHands /\ Executed' = Executed /\ unread' = unread
  BY DEF InPeersHands, Executed, Ran
<1>4. Lost' \ {j} = Lost \ {j}
  BY DEF Lost
<1> QED BY <1>2, <1>3, <1>4

\* A step that moves no call is a stutter, or breaks connections.
LEMMA BreakStep ==
    ASSUME \A i \in Jobs : Outcome(i)' = Outcome(i),
           Executed' = Executed /\ unread' = unread, InPeersHands' \subseteq InPeersHands,
           Lost \subseteq Lost', \A i \in Lost' : Outcome(i) = "open",
           \A i \in InPeersHands \ InPeersHands' : Outcome(i) = "open" => i \in Lost'
    PROVE  Remote!Next
<1> DEFINE dropped == InPeersHands \ InPeersHands'
<1>1. [i \in Jobs |-> Outcome(i)]' = [i \in Jobs |-> Outcome(i)]
  OBVIOUS
<1>2. Lost' \in SUBSET Remote!Open /\ dropped \in SUBSET InPeersHands
  BY DEF Remote!Open, Lost
<1>3. Lost' = Lost \union Lost' /\ InPeersHands' = InPeersHands \ dropped
  OBVIOUS
<1>4. dropped \intersect Remote!Open \subseteq Lost'
  BY DEF Remote!Open
<1> HIDE DEF dropped
<1>5. Remote!Break(Lost', dropped)
  BY <1>1, <1>3, <1>4 DEF Remote!Break
<1> QED BY <1>2, <1>5 DEF Remote!Next

\* A dispatch starts, goes on, fails or returns with an answer.
LEMMA DispatchCalls ==
    ASSUME IInv, IInv', Refusals, NEW j \in Jobs, Dispatch(j)
    PROVE  Remote!Next \/ UNCHANGED Remote!vars
<1> DEFINE view == [i \in Jobs |-> Outcome(i)]
<1>0. TypeOK /\ TypeOK' /\ step \in [Jobs -> Steps] /\ step' \in [Jobs -> Steps]
      /\ view[j] = Outcome(j)
  BY DEF IInv, TypeOK
<1>1. ASSUME NEW s \in Steps, Goto(j, s), UNCHANGED <<up, srv, srvJob, served, unread>>,
             \A i \in Jobs : i # j => conn'[i] = conn[i] /\ answer'[i] = answer[i]
      PROVE  /\ view' = [view EXCEPT ![j] = Outcome(j)'] /\ step'[j] = s
             /\ InPeersHands' = InPeersHands /\ Executed' = Executed /\ unread' = unread
             /\ Lost' \ {j} = Lost \ {j}
             /\ s # "awaiting" => j \notin Lost'
             /\ step[j] # "awaiting" => j \notin Lost
  <2>1. step'[j] = s /\ \A i \in Jobs : i # j => step'[i] = step[i]
    BY <1>0, <1>1 DEF Goto
  <2> QED BY <1>1, <2>1, OriginMoves DEF Lost
<1>2. ASSUME step[j] # "awaiting" PROVE j \notin InPeersHands \/ step[j] \in {"failed", "local"}
  BY <1>2, HandsAre
<1>3. ASSUME Outcome(j) = "open", NEW s \in {"failed", "local"}, Goto(j, s),
             UNCHANGED <<up, srv, srvJob, served, unread, conn, answer>>,
             j \in Lost \/ (j \notin InPeersHands /\ served[j] = 0)
      PROVE  Remote!Next
  <2>1. Outcome(j)' = "err"
    BY <1>1, <1>3 DEF Outcome, Steps
  <2>2. /\ view' = [view EXCEPT ![j] = "err"]
        /\ InPeersHands' = InPeersHands /\ Executed' = Executed /\ unread' = unread /\ Lost' = Lost \ {j}
    BY <1>1, <1>3, <2>1 DEF Steps
  <2>3. j \in Remote!Open
    BY <1>3 DEF Remote!Open
  <2>4. j \in Lost \/ j \notin Remote!Seen
    BY <1>3, ServedAre DEF Remote!Seen
  <2>5. Remote!Fail(j)
    BY <2>2, <2>3, <2>4 DEF Remote!Fail, Remote!Becomes
  <2> QED BY <2>5 DEF Remote!Next
<1>4. CASE Prepare(j)
  <2>1. step[j] = "idle" /\ Goto(j, "ready") /\ UNCHANGED <<up, srv, srvJob, served, unread, conn, answer>>
    BY <1>4 DEF Prepare, server, wires
  <2>2. Outcome(j) = "idle" /\ Outcome(j)' = "open"
    BY <1>0, <2>1, OutcomeOf DEF Goto, Outcome
  <2>3. /\ view' = [view EXCEPT ![j] = "open"]
        /\ InPeersHands' = InPeersHands /\ Executed' = Executed /\ unread' = unread /\ Lost' = Lost
    BY <1>1, <2>1, <2>2 DEF Steps
  <2>4. Remote!Call(j)
    BY <1>0, <2>2, <2>3 DEF Remote!Call, Remote!Becomes
  <2> QED BY <2>4 DEF Remote!Next
<1>5. CASE NotSent(j)
  <2>1. PICK s \in {"failed", "local"} : Goto(j, s)
    BY <1>5 DEF NotSent, Fail
  <2>2. step[j] = "idle" /\ UNCHANGED <<up, srv, srvJob, served, unread, conn, answer>>
    BY <1>5 DEF NotSent, server, wires
  <2>3. Outcome(j) = "idle" /\ Outcome(j)' = "err"
    BY <1>0, <2>1, <2>2, OutcomeOf DEF Goto, Outcome
  <2>4. /\ view' = [view EXCEPT ![j] = "err"]
        /\ InPeersHands' = InPeersHands /\ Executed' = Executed /\ unread' = unread /\ Lost' = Lost
    BY <1>1, <2>1, <2>2, <2>3 DEF Steps
  <2>5. Remote!Decline(j)
    BY <1>0, <2>3, <2>4 DEF Remote!Decline, Remote!Becomes
  <2> QED BY <2>5 DEF Remote!Next
<1>6. CASE TakePooled(j) \/ PoolEmpty(j) \/ (WriteFails(j) /\ step[j] = "writing")
  <2>1. /\ step[j] \in {"ready", "writing"}
        /\ \E s \in {"writing", "connecting", "reconnecting"} : Goto(j, s)
        /\ UNCHANGED <<up, srv, srvJob, served, unread, answer>>
        /\ \A i \in Jobs : i # j => conn'[i] = conn[i]
    BY <1>6 DEF TakePooled, PoolEmpty, WriteFails, server, wires, IInv, TypeOK
  <2>2. PICK s \in {"writing", "connecting", "reconnecting"} : Goto(j, s)
    BY <2>1
  <2>3. Outcome(j) = "open" /\ Outcome(j)' = "open"
    BY <1>0, <2>1, <2>2, OutcomeOf DEF Goto, Outcome
  <2>4. /\ view' = [view EXCEPT ![j] = Outcome(j)]
        /\ InPeersHands' = InPeersHands /\ Executed' = Executed /\ unread' = unread /\ Lost' = Lost
    BY <1>1, <2>1, <2>2, <2>3 DEF Steps
  <2>5. [view EXCEPT ![j] = Outcome(j)] = view
    OBVIOUS
  <2> QED BY <2>4, <2>5 DEF Remote!vars
<1>7. CASE ConnectFails(j) \/ (WriteFails(j) /\ step[j] # "writing")
  <2>1. /\ step[j] \in {"connecting", "reconnecting", "rewriting"} /\ Fail(j)
        /\ UNCHANGED <<up, srv, srvJob, served, unread, conn, answer>>
    BY <1>7 DEF ConnectFails, WriteFails, server, wires
  <2>2. PICK s \in {"failed", "local"} : Goto(j, s)
    BY <2>1 DEF Fail
  <2>3. Outcome(j) = "open" /\ j \notin InPeersHands /\ served[j] = 0
    BY <1>0, <1>2, <2>1, OutcomeOf DEF IInv, Outcomes, Unsent
  <2> QED BY <1>3, <2>1, <2>2, <2>3
<1>8. CASE GetEof(j)
  <2>1. /\ step[j] = "awaiting" /\ Fail(j) /\ toClient[conn[j]] = <<>> /\ Dead(conn[j])
        /\ UNCHANGED <<up, srv, srvJob, served, unread, conn, answer>>
    BY <1>8 DEF GetEof, server, wires
  <2>2. PICK s \in {"failed", "local"} : Goto(j, s)
    BY <2>1 DEF Fail
  <2>3. Outcome(j) = "open"
    BY <1>0, <2>1, OutcomeOf
  <2>4. CASE conn[j] \notin up
    BY <1>3, <2>1, <2>2, <2>3, <2>4 DEF Lost
  <2>5. CASE conn[j] \in up
    <3>1. srv[conn[j]] = "closed"
      BY <2>1, <2>5 DEF Dead
    <3>2. j \notin InPeersHands
      BY <3>1, HandsAre
    <3>3. served[j] = 0
      <4>1. served[j] # 1
        BY <2>1, <2>5, <3>1 DEF IInv, Outcomes
      <4>2. served[j] \in Nat /\ served[j] <= 1
        BY DEF IInv, TypeOK, AtMostOnce
      <4> QED BY <4>1, <4>2
    <3> QED BY <1>3, <2>1, <2>2, <2>3, <3>2, <3>3
  <2> QED BY <2>4, <2>5
<1>9. CASE Write(j) \/ WriteSplit(j)
  <2>1. /\ step[j] \in {"writing", "rewriting"} /\ Goto(j, "awaiting")
        /\ UNCHANGED <<up, srv, srvJob, served, unread, conn, answer>>
    BY <1>9 DEF Write, WriteSplit, server
  <2>2. Outcome(j) = "open" /\ Outcome(j)' = "open"
    BY <1>0, <2>1, OutcomeOf DEF Goto, Outcome
  <2>3. /\ view' = [view EXCEPT ![j] = Outcome(j)]
        /\ InPeersHands' = InPeersHands /\ Executed' = Executed /\ unread' = unread
        /\ Lost' \ {j} = Lost \ {j} /\ j \notin Lost
    BY <1>1, <2>1, <2>2 DEF Steps
  <2>4. \A i \in Jobs : Outcome(i)' = Outcome(i)
    <3>1. \A i \in Jobs : i # j => step'[i] = step[i] /\ answer'[i] = answer[i]
      BY <1>0, <2>1 DEF Goto
    <3> QED BY <2>2, <3>1 DEF Outcome
  <2>5. \A i \in Lost' : Outcome(i) = "open"
    <3>1. \A i \in Lost : Outcome(i) = "open"
      BY <1>0, OutcomeOf DEF Lost
    <3> QED BY <2>2, <2>3, <3>1
  <2> QED BY <2>3, <2>4, <2>5, BreakStep
<1>10. CASE Connected(j)
  <2> DEFINE c == opened + 1
  <2>1. /\ step[j] \in {"connecting", "reconnecting"}
        /\ \E s \in {"writing", "rewriting"} : Goto(j, s)
        /\ conn' = [conn EXCEPT ![j] = c] /\ up' = up \union {c}
        /\ srv' = [srv EXCEPT ![c] = "reading"] /\ UNCHANGED <<answer, srvJob, served, unread>>
    BY <1>10 DEF Connected, Serve
  <2>2. PICK s \in {"writing", "rewriting"} : Goto(j, s)
    BY <2>1
  <2>3. /\ conn \in [Jobs -> Conns \union {None}] /\ srv \in [Conns -> Serving]
        /\ c \in Conns /\ ~(c <= opened)
    BY <1>10, SwarmAssumption DEF Connected, IInv, TypeOK, Conns, None
  <2>4. srv[c] = "none" /\ \A i \in Jobs : conn[i] # c
    BY <2>3 DEF IInv, MadeInOrder
  <2>5. \A i \in Jobs : i # j => step'[i] = step[i] /\ conn'[i] = conn[i]
    BY <1>0, <2>1, <2>2, <2>3 DEF Goto
  <2>6. Outcome(j)' = Outcome(j)
    BY <1>0, <2>1, <2>2 DEF Goto, Outcome
  <2>7. \A i \in Jobs : Outcome(i)' = Outcome(i)
    BY <2>1, <2>5, <2>6 DEF Outcome
  <2>8. view' = view
    BY <2>7
  <2>9. InPeersHands' = InPeersHands
    <3>1. \A d \in Conns : \/ srv'[d] = srv[d]
                           \/ srv[d] = "none" /\ srv'[d] = "reading"
      BY <2>1, <2>3, <2>4
    <3> QED BY <2>1, <3>1 DEF InPeersHands
  <2>10. Executed' = Executed /\ unread' = unread
    BY <2>1 DEF Executed, Ran
  <2>11. Lost' = Lost
    <3>1. step[j] # "awaiting" /\ step'[j] # "awaiting"
      BY <1>0, <2>1, <2>2 DEF Goto
    <3> QED BY <2>1, <2>4, <2>5, <3>1 DEF Lost
  <2> QED BY <2>8, <2>9, <2>10, <2>11 DEF Remote!vars
<1>11. CASE GetResponse(j)
  <2> DEFINE c == conn[j]
             reply == toClient[c][1]
  <2>1. /\ step[j] = "awaiting" /\ Goto(j, "saving") /\ toClient[c] # <<>>
        /\ answer' = [answer EXCEPT ![j] = Head(toClient[c])]
        /\ UNCHANGED <<up, srv, srvJob, served, unread, conn>>
    BY <1>11 DEF GetResponse, server
  <2>2. c \in Conns /\ toClient[c] \in Seq(Responses) /\ answer \in [Jobs -> Responses \union {NoAnswer}]
    BY <2>1 DEF IInv, TypeOK, Exclusive, Using
  <2>3. 1 \in DOMAIN toClient[c] /\ Head(toClient[c]) = reply
    BY <2>1, <2>2, TakenOff
  <2>4. reply \in Responses /\ reply.job \in Jobs
    BY <2>2, <2>3, NamedJobs DEF IInv
  <2>5. /\ c \in up /\ step[reply.job] = "awaiting" /\ conn[reply.job] = c
        /\ reply.ack = "ACK" => served[reply.job] = 1
        /\ reply.ack # "ACK" => reply.job \in Teleports /\ served[reply.job] = 0
    <3>1. reply.ack \in Acks
      BY <2>4 DEF Responses
    <3> QED BY <2>2, <2>3, <2>4, <3>1 DEF IInv, Replies, Refusals, Answering, Errors, Acks
  <2>6. reply.job = j
    BY <2>1, <2>4, <2>5 DEF IInv, Exclusive, Using
  <2> HIDE DEF reply
  <2>8. answer'[j] = reply /\ \A i \in Jobs : i # j => answer'[i] = answer[i]
    BY <2>1, <2>2, <2>3
  <2>9. Outcome(j)' = IF reply.ack = "ACK" THEN "acked" ELSE "refused"
    BY <1>0, <2>1, <2>8 DEF Goto, Outcome
  <2>10. j \in Remote!Open \ (InPeersHands \union Lost)
    <3>1. Outcome(j) = "open"
      BY <1>0, <2>1, OutcomeOf
    <3>2. j \notin InPeersHands
      BY <2>1, HandsAre
    <3>3. j \notin Lost
      BY <2>5 DEF Lost
    <3> QED BY <3>1, <3>2, <3>3 DEF Remote!Open
  <2>11. /\ view' = [view EXCEPT ![j] = Outcome(j)']
         /\ InPeersHands' = InPeersHands /\ Executed' = Executed /\ unread' = unread /\ Lost' = Lost
    <3>1. /\ view' = [view EXCEPT ![j] = Outcome(j)']
          /\ InPeersHands' = InPeersHands /\ Executed' = Executed /\ unread' = unread
          /\ Lost' \ {j} = Lost \ {j} /\ j \notin Lost'
      BY <1>1, <2>1, <2>8 DEF Steps
    <3> QED BY <2>10, <3>1
  <2>12. j \in Executed \union unread <=> served[j] # 0
    BY <1>0, ServedAre
  <2>13. \/ j \in Executed \union unread /\ Remote!Becomes(j, "acked")
         \/ j \in Teleports \ (Executed \union unread) /\ Remote!Becomes(j, "refused")
    <3>1. CASE reply.ack = "ACK"
      <4>1. Outcome(j)' = "acked" /\ j \in Executed \union unread
        BY <2>5, <2>6, <2>9, <2>12, <3>1
      <4> QED BY <2>11, <4>1 DEF Remote!Becomes
    <3>2. CASE reply.ack # "ACK"
      <4>1. Outcome(j)' = "refused" /\ j \in Teleports \ (Executed \union unread)
        BY <2>5, <2>6, <2>9, <2>12, <3>2
      <4> QED BY <2>11, <4>1 DEF Remote!Becomes
    <3> QED BY <3>1, <3>2
  <2>14. Remote!Answer(j)
    BY <2>10, <2>11, <2>13 DEF Remote!Answer
  <2> QED BY <2>14 DEF Remote!Next
<1>12. CASE Save(j)
  <2>1. step[j] = "saving" /\ Goto(j, "done") /\ UNCHANGED <<up, srv, srvJob, served, unread, conn, answer>>
    BY <1>12 DEF Save, server, wires
  <2>2. Outcome(j)' = Outcome(j)
    BY <1>0, <2>1, OutcomeOf DEF Goto, Outcome
  <2>3. /\ view' = [view EXCEPT ![j] = Outcome(j)]
        /\ InPeersHands' = InPeersHands /\ Executed' = Executed /\ unread' = unread /\ Lost' = Lost
    BY <1>1, <2>1, <2>2 DEF Steps
  <2>4. [view EXCEPT ![j] = Outcome(j)] = view
    OBVIOUS
  <2> QED BY <2>3, <2>4 DEF Remote!vars
<1> QED BY <1>4, <1>5, <1>6, <1>7, <1>8, <1>9, <1>10, <1>11, <1>12 DEF Dispatch

\* A session takes a call, decides about it or does neither.
LEMMA SessionCalls ==
    ASSUME IInv, NEW c \in Conns, Session(c)
    PROVE  Remote!Next \/ UNCHANGED Remote!vars
<1> DEFINE view == [i \in Jobs |-> Outcome(i)]
           k == srvJob[c]
           Deciding == {"checking", "inserting", "executing"}
<1>0. /\ TypeOK /\ srv \in [Conns -> Serving] /\ srvJob \in [Conns -> Jobs \union {None}]
      /\ served \in [Jobs -> Nat]
  BY DEF IInv, TypeOK
<1>1. view' = view /\ Lost' = Lost /\ UNCHANGED <<step, conn, answer>>
  <2>1. UNCHANGED <<step, conn, answer, up>>
    BY DEF Session, ServerRead, ServerEof, ServerIdle, RejectSig, CheckSeen, InsertSeen,
     RejectInternal, Misread, Answer, Execute, Reply, client, wires
  <2>2. \A i \in Jobs : Outcome(i)' = Outcome(i)
    BY <2>1 DEF Outcome
  <2>3. Lost' = Lost
    BY <2>1 DEF Lost
  <2> QED BY <2>1, <2>2, <2>3
<1>2. srv[c] \in Deciding =>
         /\ k \in Jobs /\ k \in InPeersHands
         /\ \A d \in Conns : d # c /\ srv[d] \in Deciding => srvJob[d] # k
  <2>1. srv[c] \in Deciding => k \in Jobs /\ conn[k] = c
    BY DEF IInv, InHands, Busy
  <2> QED BY <2>1, HandsAre
<1>3. ASSUME NEW s, Serve(c, s), srvJob' = srvJob, UNCHANGED <<served, unread>>,
             srv[c] \in Deciding <=> s \in Deciding
      PROVE  UNCHANGED Remote!vars
  <2>1. \A d \in Conns : srv'[d] \in Deciding <=> srv[d] \in Deciding
    BY <1>0, <1>3 DEF Serve
  <2>2. InPeersHands' = InPeersHands /\ Executed' = Executed /\ unread' = unread
    BY <1>3, <2>1 DEF InPeersHands, Executed, Ran
  <2> QED BY <1>1, <2>2 DEF Remote!vars
<1>4. ASSUME srv[c] \in Deciding, Serve(c, "replying"), srvJob' = srvJob
      PROVE  InPeersHands' = InPeersHands \ {k}
  <2>1. srv'[c] = "replying" /\ \A d \in Conns : d # c => srv'[d] = srv[d]
    BY <1>0, <1>4 DEF Serve
  <2>2. ASSUME NEW i \in Jobs PROVE i \in InPeersHands' <=> i \in InPeersHands \ {k}
    <3>1. CASE i = k
      BY <1>2, <1>4, <2>1, <3>1 DEF InPeersHands
    <3>2. CASE i # k
      BY <1>4, <2>1, <3>2 DEF InPeersHands
    <3> QED BY <3>1, <3>2
  <2>3. InPeersHands \subseteq Jobs /\ InPeersHands' \subseteq Jobs
    BY DEF InPeersHands
  <2> QED BY <2>2, <2>3
<1>5. CASE ServerRead(c)
  <2> DEFINE packet == toServer[c][1]
  <2>1. srv[c] = "reading" /\ toServer[c] # <<>> /\ toServer[c] \in Seq(Packets) /\ UNCHANGED <<served, unread>>
    BY <1>5 DEF ServerRead, IInv, TypeOK
  <2>2. 1 \in DOMAIN toServer[c] /\ Head(toServer[c]) = packet
    BY <2>1, TakenOff
  <2>3. packet.job \in Jobs /\ step[packet.job] = "awaiting" /\ conn[packet.job] = c
        /\ served[packet.job] = 0 /\ c \in up
    BY <2>2, NamedJobs DEF IInv, Requests
  <2>4. CASE srv' = srv /\ srvJob' = srvJob
    BY <1>3, <2>1, <2>4, <1>0 DEF Serve
  <2>5. CASE /\ srvJob' = [srvJob EXCEPT ![c] = packet.job]
             /\ \E s \in {"checking", "executing"} : Serve(c, s)
    <3> DEFINE j == packet.job
    <3>1. /\ srv'[c] \in Deciding /\ srvJob'[c] = j
          /\ \A d \in Conns : d # c => srv'[d] = srv[d] /\ srvJob'[d] = srvJob[d]
      BY <1>0, <2>5 DEF Serve
    <3> HIDE DEF j
    <3>2. InPeersHands' = InPeersHands \union {j}
      <4>1. \A i \in Jobs : i \in InPeersHands' <=> i \in InPeersHands \union {j}
        BY <2>1, <3>1 DEF InPeersHands
      <4>2. InPeersHands \subseteq Jobs /\ InPeersHands' \subseteq Jobs /\ j \in Jobs
        BY <2>3 DEF InPeersHands, j
      <4> QED BY <4>1, <4>2
    <3>3. j \in Remote!Open \ (Remote!Seen \union Lost)
      <4>1. Outcome(j) = "open" /\ j \in Jobs
        BY <1>0, <2>3, OutcomeOf DEF j
      <4>2. j \notin InPeersHands
        BY <2>1, <2>3, <4>1, HandsAre DEF j
      <4>3. j \notin Executed \union unread /\ j \notin Lost
        BY <1>0, <2>3, <4>1, ServedAre DEF Lost, j
      <4> QED BY <4>1, <4>2, <4>3 DEF Remote!Open, Remote!Seen
    <3>4. Executed' = Executed /\ unread' = unread
      BY <2>1 DEF Executed, Ran
    <3>5. Remote!Take(j)
      BY <1>1, <3>2, <3>3, <3>4 DEF Remote!Take
    <3> QED BY <2>3, <3>5 DEF Remote!Next, j
  <2>6. \/ srv' = srv /\ srvJob' = srvJob
        \/ /\ srvJob' = [srvJob EXCEPT ![c] = packet.job]
           /\ \E s \in {"checking", "executing"} : Serve(c, s)
    BY <1>5, <2>2 DEF ServerRead
  <2> QED BY <2>4, <2>5, <2>6
<1>6. CASE ServerEof(c) \/ ServerIdle(c) \/ InsertSeen(c) \/ Reply(c)
  <2>1. \E s : /\ Serve(c, s) /\ (srv[c] \in Deciding <=> s \in Deciding)
               /\ srvJob' = srvJob /\ UNCHANGED <<served, unread>>
    BY <1>6 DEF ServerEof, ServerIdle, InsertSeen, Reply
  <2> QED BY <1>3, <2>1
<1>7. CASE CheckSeen(c)
  <2>1. srv[c] = "checking" /\ srvJob' = srvJob /\ UNCHANGED <<served, unread>>
    BY <1>7 DEF CheckSeen
  <2>2. CASE \E s \in {"inserting", "executing"} : Serve(c, s)
    BY <1>3, <2>1, <2>2
  <2>3. CASE Serve(c, "replying")
    <3>1. k \in Teleports /\ k \in InPeersHands
      BY <1>2, <2>1 DEF IInv, InHands, Busy
    <3>2. Executed' = Executed /\ unread' = unread
      BY <2>1 DEF Executed, Ran
    <3>3. Remote!Refuse(k)
      BY <1>1, <1>4, <2>1, <2>3, <3>1, <3>2 DEF Remote!Refuse
    <3> QED BY <1>2, <2>1, <3>3 DEF Remote!Next
  <2>4. Serve(c, "inserting") \/ Serve(c, "executing") \/ Serve(c, "replying")
    BY <1>7 DEF CheckSeen, Answer
  <2> QED BY <2>2, <2>3, <2>4
<1>8. CASE RejectSig(c) \/ RejectInternal(c)
  <2>1. /\ srv[c] \in {"checking", "executing"} /\ srvJob' = srvJob /\ UNCHANGED <<served, unread>>
        /\ Serve(c, "replying")
    BY <1>8 DEF RejectSig, RejectInternal, Answer
  <2>2. k \in Teleports /\ k \in InPeersHands
    BY <1>2, <1>8, <2>1 DEF RejectSig, RejectInternal, IInv, InHands, Busy
  <2>3. Remote!Refuse(k)
    BY <1>1, <1>4, <2>1, <2>2 DEF Remote!Refuse, Executed, Ran
  <2> QED BY <1>2, <2>1, <2>3 DEF Remote!Next
<1>9. CASE Misread(c)
  <2>1. /\ srv[c] \in {"checking", "executing"} /\ Serve(c, "replying") /\ srvJob' = srvJob
        /\ served' = [served EXCEPT ![k] = served[k] + 1]
        /\ unread' = unread \union {k} /\ k \in Garbled
    BY <1>9 DEF Misread, Answer
  <2>2. k \in Jobs /\ k \in InPeersHands
    BY <1>2, <2>1
  <2>3. Executed' = Executed
    <3>1. served[k] = 0 /\ \A i \in Jobs : i # k => served'[i] = served[i]
      BY <1>0, <2>1, <2>2, HandsAre
    <3> QED BY <2>1, <2>2, <3>1 DEF Executed, Ran
  <2>4. Remote!Discard(k)
    BY <1>1, <1>4, <2>1, <2>2, <2>3 DEF Remote!Discard
  <2> QED BY <2>2, <2>4 DEF Remote!Next
<1>10. CASE Execute(c)
  <2>1. /\ srv[c] = "executing" /\ Serve(c, "replying") /\ srvJob' = srvJob
        /\ served' = [served EXCEPT ![k] = served[k] + 1] /\ unread' = unread
    BY <1>10 DEF Execute, Answer
  <2>2. k \in Jobs /\ k \in InPeersHands
    BY <1>2, <2>1
  <2>3. Executed' = Executed \union {k}
    <3>1. served'[k] > 0 /\ \A i \in Jobs : i # k => served'[i] = served[i]
      BY <1>0, <2>1, <2>2
    <3>2. k \notin unread
      BY <2>2, HandsAre, ServedAre
    <3> QED BY <2>1, <2>2, <3>1, <3>2 DEF Executed, Ran
  <2>4. Remote!Execute(k)
    BY <1>1, <1>4, <2>1, <2>2, <2>3 DEF Remote!Execute
  <2> QED BY <2>2, <2>4 DEF Remote!Next
<1> QED BY <1>5, <1>6, <1>7, <1>8, <1>9, <1>10 DEF Session

\* Connections break under the calls that wait on them, and a peer that dies
\* drops what it has in its hands.
LEMMA FaultCalls ==
    ASSUME IInv, (\E c \in Conns : Reset(c)) \/ Restart
    PROVE  Remote!Next
<1>1. UNCHANGED <<step, conn, answer, served, unread, srvJob>> /\ up' \subseteq up
  BY DEF Reset, Restart, client, server
<1>2. (\A i \in Jobs : Outcome(i)' = Outcome(i)) /\ Executed' = Executed /\ unread' = unread
  BY <1>1 DEF Outcome, Executed, Ran
<1>3. Lost \subseteq Lost'
  BY <1>1 DEF Lost
<1>4. \A i \in Lost' : Outcome(i) = "open"
  <2>1. \A i \in Lost' : i \in Jobs /\ step[i] = "awaiting"
    BY <1>1 DEF Lost
  <2> QED BY <2>1, OutcomeOf DEF IInv
<1>5. CASE \E c \in Conns : Reset(c)
  <2>1. InPeersHands' = InPeersHands
    BY <1>1, <1>5 DEF Reset, server, InPeersHands
  <2> QED BY <1>2, <1>3, <1>4, <2>1, BreakStep
<1>6. CASE Restart
  <2>1. InPeersHands' = {}
    <3>1. \A c \in Conns : srv'[c] \in {"none", "closed"}
      BY <1>6 DEF Restart
    <3> QED BY <3>1 DEF InPeersHands
  <2>2. \A i \in InPeersHands : Outcome(i) = "open" => i \in Lost'
    <3>1. up' = {}
      BY <1>6 DEF Restart
    <3>2. ASSUME NEW i \in InPeersHands, Outcome(i) = "open" PROVE i \in Lost'
      <4>1. i \in Jobs
        BY DEF InPeersHands
      <4>2. step[i] = "awaiting"
        BY <3>2, <4>1, HandsAre, OutcomeOf DEF IInv
      <4> QED BY <1>1, <3>1, <4>1, <4>2 DEF Lost
    <3> QED BY <3>2
  <2> QED BY <1>2, <1>3, <1>4, <2>1, <2>2, BreakStep
<1> QED BY <1>5, <1>6

-----------------------------------------------------------------------------
(* Why a migration is refused: a later one of its node was there first.      *)

\* A migration that was written to a connection and does not go back, and one that
\* the peer will not compare any more.
Past(i) == /\ i \in Teleports /\ conn[i] # None
           /\ step[i] \in {"awaiting", "saving", "done", "failed"}

Decided(i) ==
    /\ Past(i)
    /\ \A c \in Conns : \A n \in DOMAIN toServer[c] : toServer[c][n].job # i
    /\ \A c \in Conns : srv[c] \in {"checking", "inserting"} => srvJob[c] # i

\* The clock of the origin gives every migration a stamp of its own.
Stamps ==
    /\ \A j \in Jobs : stamp[j] <= clock
    /\ \A i, j \in Jobs : i # j /\ stamp[i] = stamp[j] => stamp[i] = 0
    /\ \A j \in Jobs : step[j] = "idle" => stamp[j] = 0
    /\ \A j \in Teleports : step[j] # "local"

\* What LAST_SEEN_LAMPORT holds is the stamp of a migration that was decided.
SeenFrom == lastSeen # None => \E i \in Jobs : stamp[i] = lastSeen /\ Decided(i)

\* A migration refused as a replay was overtaken, and one refused otherwise could not
\* be read; a dispatch that has its answer has been told so.
Told(j) ==
    /\ answer[j].ack = "ACK" => served[j] = 1
    /\ answer[j].ack = "REPLAY" => served[j] = 0 /\ Overtaken(j)
    /\ answer[j].ack = "ERR" => served[j] = 0 /\ j \in Garbled \intersect Teleports

Overtakings ==
    /\ \A j \in Jobs : Answering(j, "REPLAY") => Overtaken(j)
    /\ \A j \in Jobs : Answering(j, "ERR") => j \in Garbled \intersect Teleports
    /\ \A j \in Jobs : step[j] \in {"saving", "done"} => Told(j)

HInv == Stamps /\ SeenFrom /\ Refusals /\ Overtakings

\* What a step does to the jobs: only Prepare stamps, and only a job that has nothing
\* on its way changes its connection.
LEMMA JobSteps ==
    ASSUME IInv, [Next]_vars, NEW i \in Jobs
    PROVE  /\ step[i] # "idle" => stamp'[i] = stamp[i] /\ step'[i] # "idle"
           /\ step[i] = "awaiting" =>
                 /\ conn'[i] = conn[i]
                 /\ step'[i] \in {"awaiting", "saving", IF i \in Teleports THEN "failed" ELSE "local"}
           /\ step[i] = "saving" => conn'[i] = conn[i] /\ step'[i] \in {"saving", "done"}
           /\ step[i] \in {"done", "failed", "local"} => conn'[i] = conn[i] /\ step'[i] = step[i]
           /\ i \in Teleports /\ step[i] # "local" => step'[i] # "local"
<1>0. /\ step \in [Jobs -> Steps] /\ conn \in [Jobs -> Conns \union {None}]
      /\ stamp \in [Jobs -> Nat]
  BY DEF IInv, TypeOK
<1>1. ASSUME UNCHANGED <<step, conn, stamp>>
      PROVE  /\ stamp'[i] = stamp[i] /\ conn'[i] = conn[i] /\ step'[i] = step[i]
  BY <1>1
<1>2. CASE \E c \in Conns : Session(c) \/ Reset(c)
  BY <1>1, <1>2 DEF Session, ServerRead, ServerEof, ServerIdle, RejectSig, CheckSeen, InsertSeen,
     RejectInternal, Misread, Answer, Execute, Reply, Reset, client
<1>3. CASE Restart \/ UNCHANGED vars
  BY <1>1, <1>3 DEF Restart, client, vars
<1>4. ASSUME NEW j \in Jobs, Dispatch(j), j # i
      PROVE  stamp'[i] = stamp[i] /\ conn'[i] = conn[i] /\ step'[i] = step[i]
  BY <1>0, <1>4 DEF Dispatch, Prepare, NotSent, TakePooled, PoolEmpty, Connected, ConnectFails,
     Write, WriteSplit, WriteFails, GetResponse, GetEof, Save, Fail, Goto
<1>5. ASSUME Dispatch(i)
      PROVE  /\ step[i] # "idle" => stamp'[i] = stamp[i]
             /\ step[i] \in {"awaiting", "saving"} => conn'[i] = conn[i]
             /\ step'[i] # "idle"
             /\ step[i] = "awaiting" =>
                   step'[i] \in {"saving", IF i \in Teleports THEN "failed" ELSE "local"}
             /\ step[i] = "saving" => step'[i] = "done"
             /\ step[i] \notin {"done", "failed", "local"}
             /\ i \in Teleports => step'[i] # "local"
  BY <1>0, <1>5 DEF Dispatch, Prepare, NotSent, TakePooled, PoolEmpty, Connected, ConnectFails,
     Write, WriteSplit, WriteFails, GetResponse, GetEof, Save, Fail, Goto
<1>6. CASE \E j \in Jobs : Dispatch(j)
  BY <1>4, <1>5, <1>6
<1> QED BY <1>1, <1>2, <1>3, <1>6 DEF Next

\* A migration that is past the wire stays there, with the stamp it has.
LEMMA PastStays ==
    ASSUME IInv, [Next]_vars, NEW i \in Jobs, Past(i)
    PROVE  Past(i)' /\ stamp'[i] = stamp[i]
BY JobSteps DEF Past

\* One that was overtaken stays so.
LEMMA OvertakenStays ==
    ASSUME IInv, [Next]_vars, NEW j \in Jobs, Overtaken(j), step[j] # "idle"
    PROVE  Overtaken(j)'
<1>1. PICK i \in Teleports : stamp[i] > stamp[j] /\ Past(i)
  BY DEF Overtaken, Past
<1>2. Past(i)' /\ stamp'[i] = stamp[i] /\ stamp'[j] = stamp[j]
  BY <1>1, PastStays, JobSteps DEF Jobs
<1> QED BY <1>1, <1>2 DEF Overtaken, Past

\* The stamps stay different, and none is ahead of the clock.
LEMMA StampsNext ==
    ASSUME IInv, Stamps, [Next]_vars
    PROVE  Stamps'
<1>0. /\ stamp \in [Jobs -> Nat] /\ clock \in Nat
  BY DEF IInv, TypeOK
<1>1. \A j \in Jobs : step'[j] = "idle" => step[j] = "idle"
  BY JobSteps
<1>2. \A j \in Teleports : step'[j] # "local"
  BY JobSteps DEF Stamps, Jobs
<1>3. ASSUME UNCHANGED <<stamp, clock>> PROVE Stamps'
  BY <1>1, <1>2, <1>3 DEF Stamps
<1>4. ASSUME NEW k \in Jobs, Prepare(k) PROVE Stamps'
  <2>1. CASE k \notin Teleports
    BY <1>3, <1>4, <2>1 DEF Prepare
  <2>2. CASE k \in Teleports
    <3>1. /\ clock' = clock + 1 /\ stamp' = [stamp EXCEPT ![k] = clock + 1]
          /\ step' = [step EXCEPT ![k] = "ready"] /\ step \in [Jobs -> Steps]
      BY <1>4, <2>2 DEF Prepare, Goto, IInv, TypeOK
    <3>2. \A j \in Jobs : stamp'[j] <= clock'
      BY <1>0, <3>1 DEF Stamps
    <3>3. \A i, j \in Jobs : i # j /\ stamp'[i] = stamp'[j] => stamp'[i] = 0
      BY <1>0, <3>1 DEF Stamps
    <3>4. \A j \in Jobs : step'[j] = "idle" => stamp'[j] = 0
      BY <1>0, <3>1 DEF Stamps
    <3> QED BY <1>2, <3>2, <3>3, <3>4 DEF Stamps
  <2> QED BY <2>1, <2>2
<1>5. CASE \E k \in Jobs : Dispatch(k) /\ ~Prepare(k)
  BY <1>3, <1>5 DEF Dispatch, NotSent, TakePooled, PoolEmpty, Connected, ConnectFails,
     Write, WriteSplit, WriteFails, GetResponse, GetEof, Save
<1>6. CASE \E c \in Conns : Session(c) \/ Reset(c)
  BY <1>3, <1>6 DEF Session, ServerRead, ServerEof, ServerIdle, RejectSig, CheckSeen, InsertSeen,
     RejectInternal, Misread, Answer, Execute, Reply, Reset, client
<1>7. CASE Restart \/ UNCHANGED vars
  BY <1>3, <1>7 DEF Restart, client, vars
<1> QED BY <1>4, <1>5, <1>6, <1>7 DEF Next

\* Only a dispatch that writes puts its request on a connection.
LEMMA OnlyWritten ==
    ASSUME IInv, [Next]_vars, NEW i \in Jobs, Past(i),
           \A c \in Conns : \A n \in DOMAIN toServer[c] : toServer[c][n].job # i
    PROVE  \A c \in Conns : \A n \in DOMAIN toServer'[c] : toServer'[c][n].job # i
<1>0. toServer \in [Conns -> Seq(Packets)] /\ conn \in [Jobs -> Conns \union {None}]
  BY DEF IInv, TypeOK
<1>1. ASSUME toServer' = toServer
      PROVE  \A c \in Conns : \A n \in DOMAIN toServer'[c] : toServer'[c][n].job # i
  BY <1>1
<1>2. ASSUME NEW j \in Jobs, NEW packets \in Seq(Packets), j # i,
             \A n \in DOMAIN packets : packets[n].job = j, Sent(j, packets)
      PROVE  \A c \in Conns : \A n \in DOMAIN toServer'[c] : toServer'[c][n].job # i
  <2> SUFFICES ASSUME NEW c \in Conns, NEW n \in DOMAIN toServer'[c]
               PROVE  toServer'[c][n].job # i
    OBVIOUS
  <2>1. CASE toServer'[c] = toServer[c]
    BY <2>1
  <2>2. CASE toServer'[c] = toServer[c] \o packets
    <3>1. toServer[c] \in Seq(Packets) /\ Len(toServer[c]) \in Nat /\ Len(packets) \in Nat
      BY <1>0
    <3>2. n \in 1..(Len(toServer[c]) + Len(packets))
      BY <2>2, <3>1
    <3>3. CASE n <= Len(toServer[c])
      <4>1. n \in DOMAIN toServer[c] /\ toServer'[c][n] = toServer[c][n]
        BY <2>2, <3>1, <3>2, <3>3
      <4> QED BY <4>1
    <3>4. CASE n > Len(toServer[c])
      <4>1. n - Len(toServer[c]) \in DOMAIN packets /\ toServer'[c][n] = packets[n - Len(toServer[c])]
        BY <2>2, <3>1, <3>2, <3>4
      <4> QED BY <1>2, <4>1
    <3> QED BY <3>1, <3>2, <3>3, <3>4
  <2> QED BY <1>0, <1>2, <2>1, <2>2 DEF Sent
<1>3. ASSUME NEW j \in Jobs, Write(j)
      PROVE  \A c \in Conns : \A n \in DOMAIN toServer'[c] : toServer'[c][n].job # i
  <2> DEFINE whole == [job |-> j, part |-> "whole"]
  <2>1. j # i /\ Sent(j, <<whole>>)
    BY <1>3 DEF Write, Past
  <2>2. whole \in Packets /\ whole.job = j
    BY DEF Packets
  <2> HIDE DEF whole
  <2>3. <<whole>> \in Seq(Packets) /\ \A n \in DOMAIN <<whole>> : <<whole>>[n].job = j
    BY <2>2
  <2> QED BY <1>2, <2>1, <2>3
<1>4. ASSUME NEW j \in Jobs, WriteSplit(j)
      PROVE  \A c \in Conns : \A n \in DOMAIN toServer'[c] : toServer'[c][n].job # i
  <2> DEFINE head == [job |-> j, part |-> "head"]
             tail == [job |-> j, part |-> "tail"]
  <2>1. j # i /\ Sent(j, <<head, tail>>)
    BY <1>4 DEF WriteSplit, Past
  <2>2. head \in Packets /\ head.job = j /\ tail \in Packets /\ tail.job = j
    BY DEF Packets
  <2> HIDE DEF head, tail
  <2>3. <<head, tail>> \in Seq(Packets) /\ \A n \in DOMAIN <<head, tail>> : <<head, tail>>[n].job = j
    BY <2>2
  <2> QED BY <1>2, <2>1, <2>3
<1>5. ASSUME NEW c \in Conns, ServerRead(c)
      PROVE  \A d \in Conns : \A n \in DOMAIN toServer'[d] : toServer'[d][n].job # i
  <2>1. /\ toServer' = [toServer EXCEPT ![c] = Tail(toServer[c])] /\ toServer[c] # <<>>
        /\ toServer[c] \in Seq(Packets)
    BY <1>0, <1>5 DEF ServerRead
  <2>2. \A n \in DOMAIN Tail(toServer[c]) :
           n + 1 \in DOMAIN toServer[c] /\ Tail(toServer[c])[n] = toServer[c][n + 1]
    BY <2>1, TakenOff
  <2> SUFFICES ASSUME NEW d \in Conns, NEW n \in DOMAIN toServer'[d]
               PROVE  toServer'[d][n].job # i
    OBVIOUS
  <2>3. CASE d = c
    <3>1. toServer'[d] = Tail(toServer[c])
      BY <1>0, <2>1, <2>3
    <3> QED BY <2>2, <3>1
  <2>4. CASE d # c
    BY <1>0, <2>1, <2>4
  <2> QED BY <2>3, <2>4
<1>6. ASSUME NEW c \in Conns, ServerIdle(c) \/ Reset(c)
      PROVE  \A d \in Conns : \A n \in DOMAIN toServer'[d] : toServer'[d][n].job # i
  <2>1. toServer' = [toServer EXCEPT ![c] = <<>>]
    BY <1>6 DEF ServerIdle, Reset
  <2>2. \A d \in Conns : toServer'[d] \in {toServer[d], <<>>}
    BY <1>0, <2>1
  <2> QED BY <2>2
<1>7. ASSUME Restart
      PROVE  \A c \in Conns : \A n \in DOMAIN toServer'[c] : toServer'[c][n].job # i
  BY <1>7 DEF Restart
<1>8. CASE \E j \in Jobs : Dispatch(j) /\ ~Write(j) /\ ~WriteSplit(j)
  BY <1>1, <1>8 DEF Dispatch, Prepare, NotSent, TakePooled, PoolEmpty, Connected, ConnectFails,
     WriteFails, GetResponse, GetEof, Save, wires
<1>9. CASE \E c \in Conns : \/ ServerEof(c) \/ RejectSig(c) \/ CheckSeen(c) \/ InsertSeen(c)
                            \/ RejectInternal(c) \/ Misread(c) \/ Execute(c) \/ Reply(c)
  BY <1>1, <1>9 DEF ServerEof, RejectSig, CheckSeen, InsertSeen,
     RejectInternal, Misread, Answer, Execute, Reply, wires
<1>10. CASE UNCHANGED vars
  BY <1>1, <1>10 DEF vars
<1> QED BY <1>3, <1>4, <1>5, <1>6, <1>7, <1>8, <1>9, <1>10 DEF Next, Session

\* Only a session that has read its request compares a migration, and one that has
\* raised or inserted the stamp does not compare again.
LEMMA OnlyRead ==
    ASSUME IInv, [Next]_vars, NEW c \in Conns, srv'[c] \in {"checking", "inserting"}
    PROVE  \/ srv[c] \in {"checking", "inserting"} /\ srvJob'[c] = srvJob[c]
           \/ \E n \in DOMAIN toServer[c] : toServer[c][n].job = srvJob'[c]
<1>0. srv \in [Conns -> Serving] /\ srvJob \in [Conns -> Jobs \union {None}]
  BY DEF IInv, TypeOK
<1>1. ASSUME NEW d \in Conns, Session(d), d # c PROVE srv'[c] = srv[c] /\ srvJob'[c] = srvJob[c]
  BY <1>0, <1>1 DEF Session, ServerRead, ServerEof, ServerIdle, RejectSig, CheckSeen, InsertSeen,
     RejectInternal, Misread, Answer, Execute, Reply, Serve
<1>2. ASSUME ServerRead(c)
      PROVE  \E n \in DOMAIN toServer[c] : toServer[c][n].job = srvJob'[c]
  <2> DEFINE packet == toServer[c][1]
  <2>1. toServer[c] # <<>> /\ toServer[c] \in Seq(Packets) /\ srv[c] = "reading"
    BY <1>2 DEF ServerRead, IInv, TypeOK
  <2>2. 1 \in DOMAIN toServer[c] /\ Head(toServer[c]) = packet
    BY <2>1, TakenOff
  <2> HIDE DEF packet
  <2>3. srvJob' = [srvJob EXCEPT ![c] = packet.job]
    BY <1>2, <2>1, <2>2 DEF ServerRead
  <2> QED BY <1>0, <2>2, <2>3 DEF packet
<1>3. ASSUME Session(c), ~ServerRead(c)
      PROVE  srv[c] \in {"checking", "inserting"} /\ srvJob'[c] = srvJob[c]
  BY <1>0, <1>3 DEF Session, ServerEof, ServerIdle, RejectSig, CheckSeen, InsertSeen,
     RejectInternal, Misread, Answer, Execute, Reply, Serve
<1>4. CASE \E j \in Jobs : Dispatch(j)
  BY <1>0, <1>4 DEF Dispatch, Prepare, NotSent, TakePooled, PoolEmpty, Connected, ConnectFails,
     Write, WriteSplit, WriteFails, GetResponse, GetEof, Save, server, Serve
<1>5. CASE (\E d \in Conns : Reset(d)) \/ UNCHANGED vars
  BY <1>5 DEF Reset, server, vars
<1>6. CASE Restart
  BY <1>0, <1>6 DEF Restart
<1> QED BY <1>1, <1>2, <1>3, <1>4, <1>5, <1>6 DEF Next

\* A migration that is decided stays so.
LEMMA DecidedStays ==
    ASSUME IInv, [Next]_vars, NEW i \in Jobs, Decided(i)
    PROVE  Decided(i)' /\ stamp'[i] = stamp[i]
<1>1. Past(i)' /\ stamp'[i] = stamp[i]
  BY PastStays DEF Decided
<1>2. \A c \in Conns : \A n \in DOMAIN toServer'[c] : toServer'[c][n].job # i
  BY OnlyWritten DEF Decided
<1>3. \A c \in Conns : srv'[c] \in {"checking", "inserting"} => srvJob'[c] # i
  BY OnlyRead DEF Decided
<1> QED BY <1>1, <1>2, <1>3 DEF Decided

\* LAST_SEEN_LAMPORT takes its value from the migration in a session's hands, and
\* that session does not compare it again.
LEMMA SeenFromNext ==
    ASSUME IInv, Stamps, SeenFrom, [Next]_vars
    PROVE  SeenFrom'
<1>1. ASSUME lastSeen' = lastSeen PROVE SeenFrom'
  <2>1. CASE lastSeen = None
    BY <1>1, <2>1 DEF SeenFrom
  <2>2. CASE lastSeen # None
    <3>1. PICK i \in Jobs : stamp[i] = lastSeen /\ Decided(i)
      BY <2>2 DEF SeenFrom
    <3>2. Decided(i)' /\ stamp'[i] = lastSeen'
      BY <1>1, <3>1, DecidedStays
    <3> QED BY <3>2 DEF SeenFrom
  <2> QED BY <2>1, <2>2
<1>2. ASSUME NEW c \in Conns, CheckSeen(c) \/ InsertSeen(c), lastSeen' = stamp[srvJob[c]],
             Serve(c, "executing")
      PROVE  SeenFrom'
  <2> DEFINE k == srvJob[c]
  <2>1. /\ srv[c] \in {"checking", "inserting"} /\ UNCHANGED <<step, conn, stamp, toServer, srvJob>>
        /\ srv' = [srv EXCEPT ![c] = "executing"] /\ srv \in [Conns -> Serving]
    BY <1>2 DEF CheckSeen, InsertSeen, Serve, client, wires, IInv, TypeOK
  <2>2. /\ k \in Teleports /\ conn[k] = c /\ toServer[c] = <<>>
        /\ step[k] \in {"awaiting", "failed", "local"}
    BY <2>1 DEF IInv, InHands, Busy
  <2>3. Past(k)'
    BY <2>1, <2>2 DEF Past, Stamps, Conns, None
  <2>4. \A d \in Conns : \A n \in DOMAIN toServer[d] : toServer[d][n].job # k
    BY <2>2 DEF IInv, Requests
  <2>5. \A d \in Conns : srv'[d] \in {"checking", "inserting"} => srvJob[d] # k
    <3>1. \A d \in Conns : srv[d] \in {"checking", "inserting"} /\ srvJob[d] = k => d = c
      BY <2>2 DEF IInv, InHands, Busy
    <3> QED BY <2>1, <3>1
  <2>6. Decided(k)'
    BY <2>1, <2>3, <2>4, <2>5 DEF Decided
  <2> QED BY <1>2, <2>1, <2>2, <2>6 DEF SeenFrom, Jobs
<1>3. CASE \E j \in Jobs : Dispatch(j)
  BY <1>1, <1>3 DEF Dispatch, Prepare, NotSent, TakePooled, PoolEmpty, Connected, ConnectFails,
     Write, WriteSplit, WriteFails, GetResponse, GetEof, Save, server
<1>4. CASE \E c \in Conns : Session(c)
  BY <1>1, <1>2, <1>4 DEF Session, ServerRead, ServerEof, ServerIdle, RejectSig, CheckSeen, InsertSeen,
     RejectInternal, Misread, Answer, Execute, Reply
<1>5. CASE (\E c \in Conns : Reset(c)) \/ UNCHANGED vars
  BY <1>1, <1>5 DEF Reset, server, vars
<1>6. CASE Restart
  BY <1>6 DEF Restart, SeenFrom
<1> QED BY <1>3, <1>4, <1>5, <1>6 DEF Next

\* A migration that finds its stamp seen was overtaken by the one that left it there:
\* it has not left its own, for it is not decided.
LEMMA ReplayedIsOvertaken ==
    ASSUME IInv, Stamps, SeenFrom, NEW j \in Jobs, FoundReplayed(j)
    PROVE  Overtaken(j) /\ step[j] # "idle"
<1>1. PICK c \in Conns : /\ srv[c] = "checking" /\ srvJob[c] = j
                         /\ lastSeen # None /\ stamp[j] <= lastSeen
  BY DEF FoundReplayed
<1>2. PICK i \in Jobs : stamp[i] = lastSeen /\ Decided(i)
  BY <1>1 DEF SeenFrom
<1>3. i # j
  BY <1>1, <1>2 DEF Decided
<1>4. stamp[i] > stamp[j]
  <2>1. stamp[i] \in Nat /\ stamp[j] \in Nat
    BY DEF IInv, TypeOK
  <2> QED BY <1>1, <1>2, <1>3, <2>1 DEF Stamps, None
<1>5. j \in Teleports /\ step[j] # "idle"
  BY <1>1 DEF IInv, InHands, Busy
<1> QED BY <1>2, <1>4, <1>5 DEF Decided, Past, Overtaken

\* A job that the peer answers was sent.
LEMMA AnsweredWasSent ==
    ASSUME IInv, NEW j \in Jobs, NEW a \in Errors, Answering(j, a)
    PROVE  step[j] # "idle"
BY DEF Answering, IInv, InHands, Busy, Replies

\* The peer has no more to do with a job whose dispatch has its answer.
LEMMA ServedStays ==
    ASSUME IInv, [Next]_vars, NEW j \in Jobs, step[j] \in {"saving", "done"}
    PROVE  served'[j] = served[j]
<1>1. ASSUME NEW c \in Conns, srvJob[c] = j, srv[c] \in {"checking", "executing"}
      PROVE  FALSE
  BY <1>1 DEF IInv, InHands, Busy
<1> QED BY <1>1, ServedNext

\* A dispatch has its answer only by reading it.
LEMMA OnlyAnswered ==
    ASSUME IInv, [Next]_vars, NEW j \in Jobs,
           step'[j] \in {"saving", "done"}, step[j] \notin {"saving", "done"}
    PROVE  GetResponse(j)
<1>0. step \in [Jobs -> Steps]
  BY DEF IInv, TypeOK
<1>1. PICK k \in Jobs : Dispatch(k)
  BY DEF Next, Session, ServerRead, ServerEof, ServerIdle, RejectSig, CheckSeen, InsertSeen,
     RejectInternal, Misread, Answer, Execute, Reply,
     Reset, Restart, client, vars
<1>2. k = j
  BY <1>0, <1>1 DEF Dispatch, Prepare, NotSent, TakePooled, PoolEmpty, Connected, ConnectFails,
     Write, WriteSplit, WriteFails, GetResponse, GetEof, Save, Fail, Goto
<1> QED BY <1>0, <1>1, <1>2 DEF Dispatch, Prepare, NotSent, TakePooled, PoolEmpty, Connected,
     ConnectFails, Write, WriteSplit, WriteFails, GetEof, Save, Fail, Goto

\* It keeps the answer.
LEMMA AnswerStays ==
    ASSUME IInv, [Next]_vars, NEW j \in Jobs, step[j] \in {"saving", "done"}
    PROVE  answer'[j] = answer[j]
<1>0. answer \in [Jobs -> Responses \union {NoAnswer}]
  BY DEF IInv, TypeOK
<1>1. CASE \E k \in Jobs : GetResponse(k)
  BY <1>0, <1>1 DEF GetResponse
<1>2. CASE \A k \in Jobs : ~GetResponse(k)
  BY <1>2 DEF Next, Dispatch, Prepare, NotSent, TakePooled, PoolEmpty, Connected, ConnectFails,
     Write, WriteSplit, WriteFails, GetEof, Save, Session, ServerRead, ServerEof, ServerIdle,
     RejectSig, CheckSeen, InsertSeen, RejectInternal, Misread, Execute, Reply, Reset, Restart,
     client, vars
<1> QED BY <1>1, <1>2

\* And what it reads is about its own job.
LEMMA AnswerIs ==
    ASSUME IInv, NEW j \in Jobs, GetResponse(j)
    PROVE  /\ answer'[j].ack \in Acks /\ UNCHANGED served
           /\ answer'[j].ack = "ACK" => served[j] = 1
           /\ answer'[j].ack \in Errors => Answering(j, answer'[j].ack)
<1> DEFINE c == conn[j]
           reply == toClient[c][1]
<1>1. /\ step[j] = "awaiting" /\ toClient[c] # <<>> /\ UNCHANGED served
      /\ answer' = [answer EXCEPT ![j] = Head(toClient[c])]
      /\ answer \in [Jobs -> Responses \union {NoAnswer}]
  BY DEF GetResponse, server, IInv, TypeOK
<1>2. c \in Conns /\ toClient[c] \in Seq(Responses)
  BY <1>1 DEF IInv, TypeOK, Exclusive, Using
<1>3. 1 \in DOMAIN toClient[c] /\ Head(toClient[c]) = reply
  BY <1>1, <1>2, TakenOff
<1>4. reply \in Responses /\ reply.job \in Jobs
  BY <1>2, <1>3, NamedJobs DEF IInv
<1>5. /\ step[reply.job] = "awaiting" /\ conn[reply.job] = c
      /\ reply.ack = "ACK" => served[reply.job] = 1
  BY <1>2, <1>3 DEF IInv, Replies
<1>6. reply.job = j
  BY <1>1, <1>4, <1>5 DEF IInv, Exclusive, Using
<1>7. answer'[j] = reply
  BY <1>1, <1>3
<1>8. reply.ack \in Acks
  BY <1>4 DEF Responses
<1> QED BY <1>1, <1>2, <1>3, <1>5, <1>6, <1>7, <1>8 DEF Answering

\* The refusal that is on its way to a migration has its reason.
LEMMA RefusedFor ==
    ASSUME IInv, Stamps, SeenFrom, Overtakings, [Next]_vars, NEW j \in Jobs
    PROVE  /\ Answering(j, "REPLAY")' => Overtaken(j)'
           /\ Answering(j, "ERR")' => j \in Garbled \intersect Teleports
<1>1. ASSUME Answering(j, "REPLAY")' PROVE Overtaken(j)'
  <2>1. Answering(j, "REPLAY") \/ FoundReplayed(j)
    BY <1>1, AnsweringNext DEF Errors
  <2>2. Overtaken(j) /\ step[j] # "idle"
    BY <2>1, ReplayedIsOvertaken, AnsweredWasSent DEF Overtakings, Errors
  <2> QED BY <2>2, OvertakenStays
<1>2. ASSUME Answering(j, "ERR")' PROVE j \in Garbled \intersect Teleports
  <2>1. Answering(j, "ERR") \/ FoundGarbled(j)
    BY <1>2, AnsweringNext DEF Errors
  <2>2. FoundGarbled(j) => j \in Garbled \intersect Teleports
    BY DEF FoundGarbled, RejectSig, RejectInternal, IInv, InHands, Busy
  <2> QED BY <2>1, <2>2 DEF Overtakings
<1> QED BY <1>1, <1>2

\* An answer says what the peer did, and stays true.
LEMMA OvertakingsNext ==
    ASSUME IInv, Stamps, SeenFrom, Refusals, Overtakings, [Next]_vars
    PROVE  Overtakings'
<1>1. ASSUME NEW j \in Jobs, step'[j] \in {"saving", "done"} PROVE Told(j)'
  <2>1. CASE step[j] \in {"saving", "done"}
    <3>1. served'[j] = served[j] /\ Told(j)
      BY <2>1, ServedStays DEF Overtakings
    <3>2. Overtaken(j) => Overtaken(j)'
      BY <2>1, OvertakenStays
    <3>3. answer'[j] = answer[j]
      BY <2>1, AnswerStays
    <3> QED BY <3>1, <3>2, <3>3 DEF Told
  <2>2. CASE step[j] \notin {"saving", "done"}
    <3>1. GetResponse(j)
      BY <1>1, <2>2, OnlyAnswered
    <3> DEFINE a == answer'[j].ack
    <3>2. /\ a \in Acks /\ served' = served
          /\ a = "ACK" => served[j] = 1
          /\ a \in Errors => Answering(j, a)
      BY <3>1, AnswerIs
    <3> HIDE DEF a
    <3>3. a \in Errors => served[j] = 0
      BY <3>2 DEF Refusals
    <3>4. a = "REPLAY" => Overtaken(j)'
      <4>1. ASSUME a = "REPLAY" PROVE Overtaken(j) /\ step[j] # "idle"
        BY <3>2, <4>1, AnsweredWasSent DEF Overtakings, Errors
      <4> QED BY <4>1, OvertakenStays
    <3>5. a = "ERR" => j \in Garbled \intersect Teleports
      BY <3>2 DEF Overtakings, Errors
    <3> QED BY <3>2, <3>3, <3>4, <3>5 DEF Told, Errors, a
  <2> QED BY <2>1, <2>2
<1> QED BY <1>1, RefusedFor DEF Overtakings

-----------------------------------------------------------------------------
(* The theorems.                                                            *)

\* The invariant holds of every behaviour, for any jobs, connections and faults.
THEOREM Invariance == Spec => []IInv
<1>1. Init => IInv
  BY InitInvariant
<1>2. IInv /\ [Next]_vars => IInv'
  BY NextInvariant
<1> QED BY <1>1, <1>2, PTL DEF Spec

\* Type correctness of the dispatches, the pool and the peer's connection tasks.
THEOREM TypeCorrect == Spec => []TypeOK
<1>1. IInv => TypeOK
  BY DEF IInv
<1> QED BY <1>1, Invariance, PTL

\* However many dispatches share the pool and whatever faults occur, the reply
\* SwarmEngine::dispatch returns answers its own payload.
THEOREM RepliesAreOwn == Spec => []ResponsesMatch
<1>1. IInv => ResponsesMatch
  BY DEF IInv
<1> QED BY <1>1, Invariance, PTL

\* A connection serves one dispatch at a time, and one in the pool is quiet at
\* both ends.
THEOREM ConnectionsAreExclusive == Spec => []OneAtATime
<1>1. IInv => OneAtATime
  <2> SUFFICES ASSUME IInv PROVE OneAtATime
    OBVIOUS
  <2>1. /\ \A i, j \in Jobs :
             i # j /\ {step[i], step[j]} \subseteq Using => conn[i] # conn[j]
        /\ \A j \in Jobs : step[j] \in Using => conn[j] # pool
    BY DEF IInv, Exclusive
  <2>2. ASSUME pool # None
        PROVE  /\ toServer[pool] = <<>> /\ toClient[pool] = <<>>
               /\ srv[pool] \in {"reading", "closed"}
    <3>1. pool \in Conns
      BY <2>2 DEF IInv, TypeOK
    <3>2. DOMAIN toServer[pool] = {} /\ DOMAIN toClient[pool] = {}
      BY <2>1, <3>1, NamedJobs DEF IInv, Requests, Replies, Using
    <3>3. toServer[pool] = <<>> /\ toClient[pool] = <<>>
      BY <3>1, <3>2, NamedJobs, NoElement DEF IInv
    <3>4. srv[pool] \in Serving \ (Busy \union {"none"})
      BY <3>1, NotInHands DEF IInv, TypeOK, MadeInOrder
    <3> QED BY <3>3, <3>4 DEF Serving, Busy
  <2> QED BY <2>1, <2>2 DEF OneAtATime, Using
<1> QED BY <1>1, Invariance, PTL

\* Neither the reconnect after a failed write nor a restart of the peer makes it
\* execute a job twice.
THEOREM ExecutedAtMostOnce == Spec => []AtMostOnce
<1>1. IInv => AtMostOnce
  BY DEF IInv
<1> QED BY <1>1, Invariance, PTL

\* An Ok of dispatch means what its answer says: an acknowledged job was executed or
\* its payload could not be decoded, a job refused as a replay was not executed and a
\* later migration of the node was compared first, and any other refusal is of a
\* payload that does not read as it was written.  A retry, a restart of the peer or the
\* window between get_mut and insert never lose a statement or an only migration.
THEOREM AnswersAreTrue == Spec => []AnswersTell
<1>1. Init => HInv
  <2> SUFFICES ASSUME Init PROVE HInv
    OBVIOUS
  <2>1. Stamps
    BY DEF Init, Stamps, Jobs
  <2>2. SeenFrom
    BY DEF Init, SeenFrom
  <2>3. Overtakings /\ Refusals
    BY DEF Init, Overtakings, Refusals, Answering
  <2> QED BY <2>1, <2>2, <2>3 DEF HInv
<1>2. IInv /\ HInv /\ [Next]_vars => HInv'
  BY StampsNext, SeenFromNext, RefusalsNext, OvertakingsNext DEF HInv
<1>3. IInv /\ HInv => AnswersTell
  BY DEF HInv, Overtakings, Told, AnswersTell, Ran
<1> QED BY <1>1, <1>2, <1>3, Invariance, PTL DEF Spec

\* Without a reset of its connection, a job whose dispatch failed was not
\* executed by the peer.
THEOREM ErrIsTrue == Spec => []ErrMeansNotRun
<1>1. IInv => ErrMeansNotRun
  BY DEF IInv
<1> QED BY <1>1, Invariance, PTL

\* Swarm implements RemoteCalls: a job is taken at most once, an answer says what
\* the peer did with it and stays true, and an Err leaves the job with the peer only
\* if the connection broke while dispatch waited.
THEOREM ImplementsCalls == Spec => CallsHold
<1>1. Init => Remote!Init
  <2> SUFFICES ASSUME Init PROVE Remote!Init
    OBVIOUS
  <2>1. \A j \in Jobs : Outcome(j) = "idle"
    BY DEF Init, Outcome
  <2>2. InPeersHands = {} /\ Executed = {} /\ unread = {} /\ Lost = {}
    BY DEF Init, InPeersHands, Executed, Ran, Lost
  <2> QED BY <2>1, <2>2 DEF Remote!Init
<1>2. Init => Refusals
  BY DEF Init, Refusals, Answering
<1>3. IInv /\ IInv' /\ Refusals /\ [Next]_vars => [Remote!Next]_(Remote!vars)
  <2> SUFFICES ASSUME IInv, IInv', Refusals, [Next]_vars PROVE Remote!Next \/ UNCHANGED Remote!vars
    OBVIOUS
  <2>1. CASE UNCHANGED vars
    <3>1. UNCHANGED <<step, conn, answer, up, srv, srvJob, served, unread>>
      BY <2>1 DEF vars
    <3>2. \A j \in Jobs : Outcome(j)' = Outcome(j)
      BY <3>1 DEF Outcome
    <3>3. InPeersHands' = InPeersHands /\ Executed' = Executed /\ Lost' = Lost
      BY <3>1 DEF InPeersHands, Executed, Ran, Lost
    <3> QED BY <3>1, <3>2, <3>3 DEF Remote!vars
  <2> QED BY <2>1, DispatchCalls, SessionCalls, FaultCalls DEF Next
<1> QED BY <1>1, <1>2, <1>3, RefusalsNext, Invariance, PTL DEF Spec, CallsHold, Remote!Spec
=============================================================================
