-------------------------------- MODULE Swarm --------------------------------
(***************************************************************************)
(* One node dispatching work to a peer: SwarmEngine::dispatch and the       *)
(* connection loop of SwarmEngine::ignite (network/hsp_node.rs), with the   *)
(* two callers that depend on the answer, Swarm.migrate and the statements  *)
(* of a Concurrent block (orchestra/executor.rs).                           *)
(*                                                                         *)
(* Each job is a task of the origin that calls dispatch once; the peer      *)
(* serves each connection in a task of its own.  Every await is a step      *)
(* boundary.  Encryption is a fact about packets: one that arrives whole    *)
(* decrypts, a part of one does not.                                        *)
(***************************************************************************)
EXTENDS Naturals, Sequences

CONSTANTS Teleports, \* Swarm.migrate calls
          Parallel,  \* statements of Concurrent blocks
          Garbled,   \* those whose payload the peer may not read as it was written: a
                     \* float that prints otherwise the second time, too deep a nesting
          MaxConns,  \* bound on the connections ever made
          MaxFaults  \* bound on resets, crashes, refusals and split packets

Jobs  == Teleports \union Parallel
Conns == 1..MaxConns
None  == 0

ASSUME SwarmAssumption ==
    /\ Teleports \intersect Parallel = {}
    /\ Garbled \subseteq Jobs
    /\ MaxConns \in Nat
    /\ MaxFaults \in Nat

Packets   == [job : Jobs, part : {"whole", "head", "tail"}]
\* SWARM_ACK_TELEPORT, _SUCCESS and _ERROR are ACK; SWARM_ERR_SIG and _INTERNAL
\* are ERR.
Acks      == {"ACK", "REPLAY", "ERR"}
Responses == [job : Jobs, ack : Acks]
NoAnswer  == [job |-> None, ack |-> "ACK"]

Steps == {"idle",
          "ready",        \* payload built, CONNECTIONS.remove not reached
          "connecting",   \* connect_and_handshake, no pooled connection
          "writing",      \* write_all on the first connection
          "reconnecting", \* it failed: connect_and_handshake again
          "rewriting",    \* write_all on the second connection
          "awaiting",     \* read of the response
          "saving",       \* before CONNECTIONS.insert
          "done",         \* dispatch returned Ok: nothing more happens here
          "failed",       \* no dispatch, or Err: the migrating program gets an error
          "local"}        \* no dispatch, or Err: the statement was executed here

Serving == {"none",
            "reading",
            "checking",   \* at LAST_SEEN_LAMPORT.get_mut
            "inserting",  \* get_mut found nothing: before insert
            "executing",
            "replying",
            "closed"}

VARIABLES step,     \* where each job is
          conn,     \* the connection it works on
          stamp,    \* the lamport of a captured continuation
          answer,   \* the response it read
          clock,    \* DistributedMemory.clock of the origin
          pool,     \* CONNECTIONS at the peer's address
          opened,   \* connections made so far
          up,       \* connections that have not been reset
          toServer, toClient, \* what is on its way on each connection
          srv,      \* the task that serves each connection
          srvJob,   \* the job it works on
          srvAck,   \* the acknowledgement it will send
          lastSeen, \* LAST_SEEN_LAMPORT for the origin's key, None if absent
          served,   \* how often the peer acknowledged each job as taken
          unread,   \* those it acknowledged and could not decode: nothing was run
          faults

vars == <<step, conn, stamp, answer, clock, pool, opened, up, toServer, toClient,
          srv, srvJob, srvAck, lastSeen, served, unread, faults>>

client == <<step, conn, stamp, answer, clock, pool>>
server == <<srv, srvJob, srvAck, lastSeen, served, unread>>
wires  == <<opened, up, toServer, toClient, faults>>

TypeOK ==
    /\ step \in [Jobs -> Steps]
    /\ conn \in [Jobs -> Conns \union {None}]
    /\ stamp \in [Jobs -> Nat]
    /\ answer \in [Jobs -> Responses \union {NoAnswer}]
    /\ clock \in Nat
    /\ pool \in Conns \union {None}
    /\ opened \in Conns \union {None}
    /\ up \subseteq Conns
    /\ toServer \in [Conns -> Seq(Packets)]
    /\ toClient \in [Conns -> Seq(Responses)]
    /\ srv \in [Conns -> Serving]
    /\ srvJob \in [Conns -> Jobs \union {None}]
    /\ srvAck \in [Conns -> Acks]
    /\ lastSeen \in Nat
    /\ served \in [Jobs -> Nat]
    /\ unread \subseteq Garbled
    /\ faults \in 0..MaxFaults

-----------------------------------------------------------------------------
\* The origin still has its end of connection c.
Held(c) == \/ c = pool
           \/ \E j \in Jobs : /\ conn[j] = c
                              /\ step[j] \in {"writing", "rewriting", "awaiting", "saving"}

\* The peer will not take anything from connection c any more.
Dead(c) == c \notin up \/ srv[c] = "closed"

Goto(j, s) == step' = [step EXCEPT ![j] = s]

\* What the caller does with an Err of dispatch.
Fail(j) == Goto(j, IF j \in Teleports THEN "failed" ELSE "local")

Fault == /\ faults < MaxFaults
         /\ faults' = faults + 1

Serve(c, s) == srv' = [srv EXCEPT ![c] = s]

-----------------------------------------------------------------------------
(* Steps with a fault, no part of Next: each breaks a property below, which *)
(* shows that the property depends on how the code takes the step.          *)

\* insert(peer_id, peer_id): the stamp is not what is stored.
InsertKey(c) ==
    /\ srv[c] = "inserting"
    /\ lastSeen' = srvJob[c]
    /\ Serve(c, "executing")
    /\ UNCHANGED <<client, wires, srvJob, srvAck, served, unread>>

\* The connection is put back before its response has been read.
WriteAndSave(j) ==
    /\ step[j] \in {"writing", "rewriting"}
    /\ toServer' = [toServer EXCEPT ![conn[j]] = Append(@, [job |-> j, part |-> "whole"])]
    /\ pool' = conn[j]
    /\ Goto(j, "awaiting")
    /\ UNCHANGED <<conn, stamp, answer, clock, server, opened, up, toClient, faults>>

\* A failed read reconnects once, as a failed write does.
EofReconnects(j) ==
    /\ step[j] = "awaiting"
    /\ toClient[conn[j]] = <<>>
    /\ Dead(conn[j])
    /\ Goto(j, "reconnecting")
    /\ UNCHANGED <<conn, stamp, answer, clock, pool, server, wires>>

\* The check for n == 0 is missing.
EofIsOk(j) ==
    /\ step[j] = "awaiting"
    /\ toClient[conn[j]] = <<>>
    /\ Dead(conn[j])
    /\ Goto(j, "saving")
    /\ UNCHANGED <<conn, stamp, answer, clock, pool, server, wires>>

\* The read gives up while the peer still works.
EofTimeout(j) ==
    /\ step[j] = "awaiting"
    /\ toClient[conn[j]] = <<>>
    /\ Fail(j)
    /\ UNCHANGED <<conn, stamp, answer, clock, pool, server, wires>>

\* The refusal of a replay is not told apart from an execution.
ReplayAcked(c) ==
    /\ srv[c] = "checking"
    /\ LET lamport == stamp[srvJob[c]]
           seen == lastSeen # None /\ lamport <= lastSeen IN
       /\ Serve(c, IF seen THEN "replying" ELSE "executing")
       /\ srvAck' = [srvAck EXCEPT ![c] = "ACK"]
       /\ lastSeen' = IF seen THEN lastSeen ELSE lamport
    /\ UNCHANGED <<client, wires, srvJob, served, unread>>

\* The server's read has no timeout.
ServerPatient(c) == srv[c] = "reading" /\ UNCHANGED vars

-----------------------------------------------------------------------------
Init ==
    /\ step = [j \in Jobs |-> "idle"]
    /\ conn = [j \in Jobs |-> None]
    /\ stamp = [j \in Jobs |-> 0]
    /\ answer = [j \in Jobs |-> NoAnswer]
    /\ clock = 0
    /\ pool = None
    /\ opened = 0
    /\ up = {}
    /\ toServer = [c \in Conns |-> <<>>]
    /\ toClient = [c \in Conns |-> <<>>]
    /\ srv = [c \in Conns |-> "none"]
    /\ srvJob = [c \in Conns |-> None]
    /\ srvAck = [c \in Conns |-> "ACK"]
    /\ lastSeen = None
    /\ served = [j \in Jobs |-> 0]
    /\ unread = {}
    /\ faults = 0

-----------------------------------------------------------------------------
(* The origin.                                                              *)

\* capture_continuation stamps a continuation; a parallel statement is only
\* serialized.
Prepare(j) ==
    /\ step[j] = "idle"
    /\ IF j \in Teleports
         THEN /\ clock' = clock + 1
              /\ stamp' = [stamp EXCEPT ![j] = clock + 1]
         ELSE UNCHANGED <<clock, stamp>>
    /\ Goto(j, "ready")
    /\ UNCHANGED <<conn, answer, pool, server, wires>>

\* No dispatch: an open handle of any task stops a migration, and without a
\* peer a statement is executed here.
NotSent(j) ==
    /\ step[j] = "idle"
    /\ Fail(j)
    /\ UNCHANGED <<conn, stamp, answer, clock, pool, server, wires>>

TakePooled(j) ==
    /\ step[j] = "ready"
    /\ pool # None
    /\ conn' = [conn EXCEPT ![j] = pool]
    /\ pool' = None
    /\ Goto(j, "writing")
    /\ UNCHANGED <<stamp, answer, clock, server, wires>>

PoolEmpty(j) ==
    /\ step[j] = "ready"
    /\ pool = None
    /\ Goto(j, "connecting")
    /\ UNCHANGED <<conn, stamp, answer, clock, pool, server, wires>>

\* connect, accept and both halves of the key exchange.
Connected(j) ==
    /\ step[j] \in {"connecting", "reconnecting"}
    /\ opened < MaxConns
    /\ opened' = opened + 1
    /\ conn' = [conn EXCEPT ![j] = opened + 1]
    /\ up' = up \union {opened + 1}
    /\ Serve(opened + 1, "reading")
    /\ Goto(j, IF step[j] = "connecting" THEN "writing" ELSE "rewriting")
    /\ UNCHANGED <<stamp, answer, clock, pool, toServer, toClient, srvJob, srvAck,
                   lastSeen, served, unread, faults>>

\* Refused, timed out, or reset during the key exchange.
ConnectFails(j) ==
    /\ step[j] \in {"connecting", "reconnecting"}
    /\ Fault
    /\ Fail(j)
    /\ UNCHANGED <<conn, stamp, answer, clock, pool, server, opened, up, toServer, toClient>>

\* What a write_all that succeeds puts on the wire: nothing if the peer is gone
\* and the origin has not noticed.
Sent(j, packets) ==
    toServer' = IF Dead(conn[j]) THEN toServer
                ELSE [toServer EXCEPT ![conn[j]] = @ \o packets]

Write(j) ==
    /\ step[j] \in {"writing", "rewriting"}
    /\ Sent(j, <<[job |-> j, part |-> "whole"]>>)
    /\ Goto(j, "awaiting")
    /\ UNCHANGED <<conn, stamp, answer, clock, pool, server, opened, up, toClient, faults>>

\* The peer's single read gets only the first segments of the packet.
WriteSplit(j) ==
    /\ step[j] \in {"writing", "rewriting"}
    /\ Fault
    /\ Sent(j, <<[job |-> j, part |-> "head"], [job |-> j, part |-> "tail"]>>)
    /\ Goto(j, "awaiting")
    /\ UNCHANGED <<conn, stamp, answer, clock, pool, server, opened, up, toClient>>

\* The origin has noticed: write_all did not hand over the whole packet.
WriteFails(j) ==
    /\ step[j] \in {"writing", "rewriting"}
    /\ Dead(conn[j])
    /\ IF step[j] = "writing" THEN Goto(j, "reconnecting") ELSE Fail(j)
    /\ UNCHANGED <<conn, stamp, answer, clock, pool, server, wires>>

GetResponse(j) ==
    /\ step[j] = "awaiting"
    /\ toClient[conn[j]] # <<>>
    /\ answer' = [answer EXCEPT ![j] = Head(toClient[conn[j]])]
    /\ toClient' = [toClient EXCEPT ![conn[j]] = Tail(@)]
    /\ Goto(j, "saving")
    /\ UNCHANGED <<conn, stamp, clock, pool, server, opened, up, toServer, faults>>

\* n == 0: "Connection closed by peer during dispatch".
GetEof(j) ==
    /\ step[j] = "awaiting"
    /\ toClient[conn[j]] = <<>>
    /\ Dead(conn[j])
    /\ Fail(j)
    /\ UNCHANGED <<conn, stamp, answer, clock, pool, server, wires>>

\* CONNECTIONS.insert drops the connection another dispatch saved before;
\* whatever the response says, dispatch returns Ok.
Save(j) ==
    /\ step[j] = "saving"
    /\ pool' = conn[j]
    /\ Goto(j, "done")
    /\ UNCHANGED <<conn, stamp, answer, clock, server, wires>>

-----------------------------------------------------------------------------
(* The peer.                                                                *)

\* A part of a packet does not decrypt: it is logged and not answered.
ServerRead(c) ==
    /\ srv[c] = "reading"
    /\ toServer[c] # <<>>
    /\ toServer' = [toServer EXCEPT ![c] = Tail(@)]
    /\ LET packet == Head(toServer[c]) IN
         IF packet.part = "whole"
           THEN /\ srvJob' = [srvJob EXCEPT ![c] = packet.job]
                /\ Serve(c, IF packet.job \in Teleports THEN "checking" ELSE "executing")
           ELSE UNCHANGED <<srvJob, srv>>
    /\ UNCHANGED <<client, opened, up, toClient, srvAck, lastSeen, served, unread, faults>>

\* read returned 0 or an error.
ServerEof(c) ==
    /\ srv[c] = "reading"
    /\ c \notin up \/ (~Held(c) /\ toServer[c] = <<>>)
    /\ Serve(c, "closed")
    /\ UNCHANGED <<client, wires, srvJob, srvAck, lastSeen, served, unread>>

\* The 30 s of an iteration are over; a packet may be on its way.
ServerIdle(c) ==
    /\ srv[c] = "reading"
    /\ Serve(c, "closed")
    /\ toServer' = [toServer EXCEPT ![c] = <<>>]
    /\ UNCHANGED <<client, opened, up, toClient, srvJob, srvAck, lastSeen, served, unread, faults>>

\* What the session is to send next.
Answer(c, ack) == /\ srvAck' = [srvAck EXCEPT ![c] = ack]
                  /\ Serve(c, "replying")

\* SWARM_ERR_SIG: the signature is checked against the payload written again,
\* before LAST_SEEN_LAMPORT is looked at.
RejectSig(c) ==
    /\ srv[c] = "checking" /\ srvJob[c] \in Garbled
    /\ Answer(c, "ERR")
    /\ UNCHANGED <<client, wires, srvJob, lastSeen, served, unread>>

\* LAST_SEEN_LAMPORT.get_mut: compared and raised under the shard lock.
CheckSeen(c) ==
    /\ srv[c] = "checking"
    /\ LET lamport == stamp[srvJob[c]] IN
         \/ /\ lastSeen = None
            /\ Serve(c, "inserting")
            /\ UNCHANGED <<srvAck, lastSeen>>
         \/ /\ lastSeen # None /\ lamport <= lastSeen
            /\ Answer(c, "REPLAY")
            /\ UNCHANGED lastSeen
         \/ /\ lastSeen # None /\ lamport > lastSeen
            /\ lastSeen' = lamport
            /\ Serve(c, "executing")
            /\ UNCHANGED srvAck
    /\ UNCHANGED <<client, wires, srvJob, served, unread>>

\* The first contact of a key: insert, whatever has been inserted meanwhile.
InsertSeen(c) ==
    /\ srv[c] = "inserting"
    /\ lastSeen' = stamp[srvJob[c]]
    /\ Serve(c, "executing")
    /\ UNCHANGED <<client, wires, srvJob, srvAck, served, unread>>

\* SWARM_ERR_INTERNAL: the continuation cannot be written again for its executor;
\* its stamp stays in LAST_SEEN_LAMPORT.
RejectInternal(c) ==
    /\ srv[c] = "executing" /\ srvJob[c] \in Garbled \intersect Teleports
    /\ Answer(c, "ERR")
    /\ UNCHANGED <<client, wires, srvJob, lastSeen, served, unread>>

\* A payload that does not parse: a continuation is taken for a command, or its
\* statements are lost when it is resumed, an ast_json is not executed; each is
\* acknowledged.
Misread(c) ==
    /\ srv[c] \in {"checking", "executing"} /\ srvJob[c] \in Garbled
    /\ served' = [served EXCEPT ![srvJob[c]] = @ + 1]
    /\ unread' = unread \union {srvJob[c]}
    /\ Answer(c, "ACK")
    /\ UNCHANGED <<client, wires, srvJob, lastSeen>>

\* An isolated executor resumes the continuation, or process_command executes
\* the ast_json; its errors are discarded.
Execute(c) ==
    /\ srv[c] = "executing"
    /\ served' = [served EXCEPT ![srvJob[c]] = @ + 1]
    /\ Answer(c, "ACK")
    /\ UNCHANGED <<client, wires, srvJob, lastSeen, unread>>

\* `let _ = write_all`.
Reply(c) ==
    /\ srv[c] = "replying"
    /\ toClient' = IF c \in up /\ Held(c)
                     THEN [toClient EXCEPT ![c] =
                             Append(@, [job |-> srvJob[c], ack |-> srvAck[c]])]
                     ELSE toClient
    /\ Serve(c, "reading")
    /\ UNCHANGED <<client, opened, up, toServer, srvJob, srvAck, lastSeen, served, unread, faults>>

-----------------------------------------------------------------------------
(* The environment.                                                         *)

\* A connection is reset; what was on its way is lost.
Reset(c) ==
    /\ c \in up
    /\ Fault
    /\ up' = up \ {c}
    /\ toServer' = [toServer EXCEPT ![c] = <<>>]
    /\ toClient' = [toClient EXCEPT ![c] = <<>>]
    /\ UNCHANGED <<client, server, opened>>

\* The peer's process dies and is started again: LAST_SEEN_LAMPORT is empty.
Restart ==
    /\ up # {}
    /\ Fault
    /\ up' = {}
    /\ toServer' = [c \in Conns |-> <<>>]
    /\ toClient' = [c \in Conns |-> <<>>]
    /\ srv' = [c \in Conns |-> IF srv[c] = "none" THEN "none" ELSE "closed"]
    /\ lastSeen' = None
    /\ UNCHANGED <<client, opened, srvJob, srvAck, served, unread>>

-----------------------------------------------------------------------------
Dispatch(j) ==
    \/ Prepare(j) \/ NotSent(j) \/ TakePooled(j) \/ PoolEmpty(j)
    \/ Connected(j) \/ ConnectFails(j)
    \/ Write(j) \/ WriteSplit(j) \/ WriteFails(j)
    \/ GetResponse(j) \/ GetEof(j) \/ Save(j)

Session(c) ==
    \/ ServerRead(c) \/ ServerEof(c) \/ ServerIdle(c)
    \/ RejectSig(c) \/ CheckSeen(c) \/ InsertSeen(c)
    \/ RejectInternal(c) \/ Misread(c) \/ Execute(c) \/ Reply(c)

Next == \/ \E j \in Jobs : Dispatch(j)
        \/ \E c \in Conns : Session(c) \/ Reset(c)
        \/ Restart

Spec == Init /\ [][Next]_vars

(***************************************************************************)
(* tokio polls every task that can run; connect and a server's read have    *)
(* timers, and the other awaits end when the peer answers or a connection   *)
(* is reset.  The work a peer is sent is taken to end.                      *)
(***************************************************************************)
Fairness == /\ \A j \in Jobs : WF_vars(Dispatch(j))
            /\ \A c \in Conns : WF_vars(Session(c))

FairSpec == Spec /\ Fairness

-----------------------------------------------------------------------------
(* Properties.                                                              *)

\* The reply a dispatch returns is the reply to its own payload, although
\* connections pass from one dispatch to another through the pool and nothing
\* in a packet says which request it answers.
ResponsesMatch == \A j \in Jobs : answer[j] # NoAnswer => answer[j].job = j

\* What the reply rests on: a connection serves one dispatch at a time, and in
\* the pool there is nothing on its way and no request in the peer's hands.
OneAtATime ==
    /\ \A i, j \in Jobs :
          i # j /\ {step[i], step[j]} \subseteq {"writing", "rewriting", "awaiting", "saving"}
             => conn[i] # conn[j]
    /\ pool # None =>
          /\ toServer[pool] = <<>> /\ toClient[pool] = <<>>
          /\ srv[pool] \in {"reading", "closed"}
          /\ \A j \in Jobs :
                step[j] \in {"writing", "rewriting", "awaiting", "saving"} => conn[j] # pool

\* Sending again after a failed write never makes the peer take a job twice:
\* neither does a restart of the peer, or a continuation it has not seen.
AtMostOnce == \A j \in Jobs : served[j] <= 1

\* A continuation that its node captured before another one that it has put on a
\* connection.
Overtaken(j) ==
    /\ j \in Teleports
    /\ \E i \in Teleports : /\ stamp[i] > stamp[j] /\ conn[i] # None
                           /\ step[i] \in {"awaiting", "saving", "done", "failed"}

\* The peer executed the job.
Ran(j) == served[j] > 0 /\ j \notin unread

\* An Ok of dispatch by the answer it rests on.  An acknowledged job was executed,
\* unless its payload could not be decoded; a job refused as a replay was not, and a
\* later migration of its node was there first: none is refused as a replay of itself,
\* although it may be sent twice, nor after a restart; the other refusals are of
\* payloads that the peer could not read as they were written.
AnswersTell ==
    \A j \in Jobs : step[j] = "done" =>
        /\ answer[j].ack = "ACK" => Ran(j) \/ j \in unread
        /\ answer[j].ack = "REPLAY" => served[j] = 0 /\ Overtaken(j)
        /\ answer[j].ack = "ERR" => served[j] = 0 /\ j \in Garbled \intersect Teleports

\* An origin that takes a job for not executed is wrong only if a reset took
\* the answer away; idle connections and failed writes never make a statement
\* run on both nodes or a migration fail that has arrived.
ErrMeansNotRun ==
    \A j \in Jobs : step[j] \in {"failed", "local"} /\ served[j] > 0 => conn[j] \notin up

\* executor.rs: "Teleport success, abort local execution", and blueprint: the
\* continuation is considered migrated after a successful ack.
TeleportArrives == \A j \in Teleports : step[j] = "done" => Ran(j)

\* hsp_node.rs: "Pool socket died, reconnect once": with no fault of the
\* network or the peer, a dispatch that got its connection from the pool does
\* not fail because the connection had gone idle.
PoolReconnects ==
    faults = 0 =>
        \A i, j \in Jobs : /\ i # j /\ step[i] = "done"
                          /\ conn[i] = conn[j]
                          => step[j] \notin {"failed", "local"}

\* What the callers of dispatch are promised: however connections are shared, made
\* again and lost, the peer takes a job at most once, an answer says what it did and
\* stays true, and after an Err it can still execute the job only if the connection
\* broke while the dispatch waited for the answer.
Outcome(j) ==
    CASE step[j] = "idle" -> "idle"
      [] step[j] \in {"failed", "local"} -> "err"
      [] step[j] \in {"saving", "done"} -> IF answer[j].ack = "ACK" THEN "acked" ELSE "refused"
      [] OTHER -> "open"

InPeersHands ==
    {j \in Jobs : \E c \in Conns : srv[c] \in {"checking", "inserting", "executing"} /\ srvJob[c] = j}

Executed == {j \in Jobs : Ran(j)}
Lost     == {j \in Jobs : step[j] = "awaiting" /\ conn[j] \notin up}

Remote == INSTANCE RemoteCalls WITH
             Calls <- Jobs, Refusable <- Teleports, Illegible <- Garbled,
             outcome <- [j \in Jobs |-> Outcome(j)],
             hands <- InPeersHands, executed <- Executed, discarded <- unread,
             lost <- Lost

CallsHold == Remote!Spec

\* Every dispatch returns, also when the peer cannot decrypt what it read and
\* does not answer: the peer's 30 s end the origin's read, which has no timeout.
DispatchesEnd ==
    \A j \in Jobs : step[j] = "ready" ~> step[j] \in {"done", "failed", "local"}
=============================================================================
