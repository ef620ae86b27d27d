----------------------------- MODULE ActorSystem -----------------------------
(***************************************************************************)
(* The local actor runtime: helheim-core/src/orchestra/actor.rs and the    *)
(* Spawn, SendMessage and Receive statements of executor.rs.               *)
(*                                                                         *)
(* Task 0 is the main executor, task a \in Ids the tokio task that runs    *)
(* run_actor for actor a.  A task walks the statements of its body; a      *)
(* statement that awaits, and every access to a structure shared with      *)
(* other tasks (the registry's two maps, the global variable "self", a     *)
(* mailbox), is a step of its own, so the tasks interleave there.          *)
(***************************************************************************)
EXTENDS Naturals, Sequences

CONSTANTS MaxActors, \* bound on the ids next_id hands out
          Capacity,  \* mpsc::channel(1024)
          Names,     \* names a Spawn may register
          NoName,    \* Spawn { name: None, .. }
          Texts,     \* what a SendMessage may carry
          Crash,     \* the "ESCALATION_ERROR van .." message
          Bodies,    \* the bodies a program defines
          Main,      \* the body of the main executor
          Programs   \* the programs explored: body -> statements

Ids   == 1..MaxActors
Tasks == 0..MaxActors
None  == 0
Keys  == Ids \union Names
Strategies == {"Stop", "Restart", "Escalate"}

(***************************************************************************)
(* Statements.  "work" is any statement that neither awaits a mailbox nor  *)
(* touches the registry: it succeeds or raises.  "again" closes a Loop     *)
(* whose condition holds and whose body is everything before it.           *)
(***************************************************************************)
Statements ==
    [op : {"recv", "work", "again"}]
      \union [op : {"send"}, to : Keys, text : Texts]
      \union [op : {"spawn"}, body : Bodies, name : Names \union {NoName},
              strategy : Strategies]

ASSUME ActorAssumption ==
    /\ MaxActors \in Nat
    /\ Capacity \in Nat \ {0}
    /\ NoName \notin Names
    /\ Crash \notin Texts
    /\ Names \intersect Tasks = {}
    /\ Main \in Bodies
    /\ Programs \subseteq [Bodies -> Seq(Statements)]

Phases == {"none",       \* id not handed out
           "new",        \* in the registry, tokio::spawn not reached
           "start",      \* at the head of run_actor's loop
           "run",        \* about to execute statement at[t]
           "parented",   \* Spawn has read "self", not yet registered
           "registered", \* Spawn's register has inserted in actors only
           "sending",    \* in sender.send().await of a SendMessage
           "receiving",  \* in timeout(.., rx.recv())
           "escalating", \* in sender.send().await of an escalation
           "leaving",    \* out of the loop, before actors.remove
           "unnaming",   \* before name_map.retain
           "gone"}       \* returned, the receiver dropped

VARIABLES prog,    \* the program that runs
          nextId,  \* ActorRegistry.next_id
          actors,  \* keys of ActorRegistry.actors
          nameMap, \* ActorRegistry.name_map, None where absent
          self,    \* the variable "self" in the shared globals
          mailbox, \* the queue behind each actor's channel
          meta,    \* name, ActorMetadata and body each actor was spawned with
          phase,   \* where each task is
          at,      \* the statement each task executes
          reg      \* local: parent read, id registered, or target of a send

vars == <<prog, nextId, actors, nameMap, self, mailbox, meta, phase, at, reg>>

Metadata == [body : Bodies, name : Names \union {NoName}, parent : Tasks,
             strategy : Strategies,
             creator : Tasks] \* history: the task that executed the Spawn

Messages == [from : Tasks, text : Texts \union {Crash}]

NoMeta == [body |-> Main, name |-> NoName, parent |-> None,
           strategy |-> "Stop", creator |-> None]

TypeOK ==
    /\ prog \in Programs
    /\ nextId \in 1..(MaxActors + 1)
    /\ actors \subseteq Ids
    /\ nameMap \in [Names -> Tasks]
    /\ self \in Tasks
    /\ mailbox \in [Ids -> Seq(Messages)]
    /\ meta \in [Ids -> Metadata]
    /\ phase \in [Tasks -> Phases]
    /\ at \in [Tasks -> Nat \ {0}]
    /\ reg \in [Tasks -> Tasks]

-----------------------------------------------------------------------------
Body(t) == prog[IF t = None THEN Main ELSE meta[t].body]

AtEnd(t) == at[t] > Len(Body(t))

\* Task t is about to execute a statement of kind op.
Executes(t, op) == /\ phase[t] = "run"
                   /\ ~AtEnd(t)
                   /\ Body(t)[at[t]].op = op

Stmt(t) == Body(t)[at[t]]

\* With a fault: a key that is neither an id nor a name resolves to itself.
ResolveToKey(key) ==
    IF key \in Names /\ nameMap[key] \in actors THEN nameMap[key] ELSE key

\* ActorRegistry::resolve_sender: as an id first, then as a name whose
\* actor is still in the map.
Resolve(key) ==
    IF key \in actors THEN key
    ELSE IF key \in Names /\ nameMap[key] \in actors THEN nameMap[key]
    ELSE None

Goto(t, p) == phase' = [phase EXCEPT ![t] = p]

Advance(t) == at' = [at EXCEPT ![t] = @ + 1]

-----------------------------------------------------------------------------
(* Steps with a fault, no part of Next: each breaks a property below, which *)
(* shows that the property depends on how the code takes the step.          *)

\* The parent is read after next_id has been taken and announced as "self".
SpawnReadOwnId(t) ==
    /\ Executes(t, "spawn")
    /\ reg' = [reg EXCEPT ![t] = nextId]
    /\ Goto(t, "parented")
    /\ UNCHANGED <<prog, nextId, actors, nameMap, self, mailbox, meta, at>>

\* Escalate goes on as Restart does instead of leaving the loop.
AfterSendRestart(t) ==
    \/ phase[t] = "sending" /\ Goto(t, "run") /\ Advance(t)
    \/ phase[t] = "escalating" /\ Goto(t, "start") /\ UNCHANGED at

\* The queue outlives its receiver.
DeliverAnyway(t) ==
    /\ phase[t] = "sending"
    /\ Len(mailbox[reg[t]]) < Capacity
    /\ mailbox' = [mailbox EXCEPT ![reg[t]] =
                     Append(@, [from |-> t, text |-> Stmt(t).text])]
    /\ Goto(t, "run")
    /\ Advance(t)
    /\ UNCHANGED <<prog, nextId, actors, nameMap, self, meta, reg>>

\* A sender that finds the channel closed tries for ever.
SendClosedRetry(t) ==
    /\ phase[t] \in {"sending", "escalating"}
    /\ phase[reg[t]] = "gone"
    /\ UNCHANGED vars

\* A Receive without a timeout does not fall back to 30 s.
ReceiveNoFallback(a) == phase[a] = "receiving" /\ UNCHANGED vars

\* The task returns without unregister.
FinishRegistered(t) ==
    /\ phase[t] = "run"
    /\ AtEnd(t)
    /\ Goto(t, "gone")
    /\ UNCHANGED <<prog, nextId, actors, nameMap, self, mailbox, meta, at, reg>>

\* A restart makes a new channel.
FailRestartFresh(a) ==
    /\ a # None
    /\ Executes(a, "work")
    /\ meta[a].strategy = "Restart"
    /\ mailbox' = [mailbox EXCEPT ![a] = <<>>]
    /\ Goto(a, "start")
    /\ UNCHANGED <<prog, nextId, actors, nameMap, self, meta, at, reg>>

\* unregister removes from one map only.
RetainAllNames(a) ==
    /\ phase[a] = "unnaming"
    /\ mailbox' = [mailbox EXCEPT ![a] = <<>>]
    /\ Goto(a, "gone")
    /\ UNCHANGED <<prog, nextId, actors, nameMap, self, meta, at, reg>>

-----------------------------------------------------------------------------
Init ==
    /\ prog \in Programs
    /\ nextId = 1
    /\ actors = {}
    /\ nameMap = [n \in Names |-> None]
    /\ self = None
    /\ mailbox = [a \in Ids |-> <<>>]
    /\ meta = [a \in Ids |-> NoMeta]
    /\ phase = [t \in Tasks |-> IF t = None THEN "run" ELSE "none"]
    /\ at = [t \in Tasks |-> 1]
    /\ reg = [t \in Tasks |-> None]

-----------------------------------------------------------------------------
(* CodeTaal::Spawn.  The parent is whatever "self" holds in the globals.    *)

SpawnReadParent(t) ==
    /\ Executes(t, "spawn")
    /\ reg' = [reg EXCEPT ![t] = self]
    /\ Goto(t, "parented")
    /\ UNCHANGED <<prog, nextId, actors, nameMap, self, mailbox, meta, at>>

\* register: next_id.fetch_add and actors.insert.
SpawnRegister(t) ==
    /\ phase[t] = "parented"
    /\ nextId <= MaxActors
    /\ nextId' = nextId + 1
    /\ actors' = actors \union {nextId}
    /\ meta' = [meta EXCEPT ![nextId] =
                  [body |-> Stmt(t).body, name |-> Stmt(t).name,
                   parent |-> reg[t], strategy |-> Stmt(t).strategy,
                   creator |-> t]]
    /\ reg' = [reg EXCEPT ![t] = nextId]
    /\ phase' = [phase EXCEPT ![t] = "registered", ![nextId] = "new"]
    /\ UNCHANGED <<prog, nameMap, self, mailbox, at>>

\* register: name_map.insert, which takes a name over; then tokio::spawn.
SpawnStart(t) ==
    /\ phase[t] = "registered"
    /\ nameMap' = [n \in Names |-> IF n = meta[reg[t]].name THEN reg[t]
                                                            ELSE nameMap[n]]
    /\ phase' = [phase EXCEPT ![t] = "run", ![reg[t]] = "start"]
    /\ Advance(t)
    /\ UNCHANGED <<prog, nextId, actors, self, mailbox, meta, reg>>

-----------------------------------------------------------------------------
(* run_actor: the loop head.  spawn_daemon_memory shares the globals and    *)
(* has no scope yet, so set_var_native("self") writes the shared variable.  *)

StartBody(a) ==
    /\ phase[a] = "start"
    /\ self' = a
    /\ at' = [at EXCEPT ![a] = 1]
    /\ Goto(a, "run")
    /\ UNCHANGED <<prog, nextId, actors, nameMap, mailbox, meta, reg>>

\* A statement that succeeds without touching anything shared here.
Work(t) ==
    /\ Executes(t, "work")
    /\ Advance(t)
    /\ UNCHANGED <<prog, nextId, actors, nameMap, self, mailbox, meta, phase, reg>>

Again(t) ==
    /\ Executes(t, "again")
    /\ at' = [at EXCEPT ![t] = 1]
    /\ UNCHANGED <<prog, nextId, actors, nameMap, self, mailbox, meta, phase, reg>>

-----------------------------------------------------------------------------
(* CodeTaal::SendMessage and send_message.                                  *)

\* The target resolves: the sender is cloned and send().await entered.
SendResolve(t) ==
    /\ Executes(t, "send")
    /\ Resolve(Stmt(t).to) # None
    /\ reg' = [reg EXCEPT ![t] = Resolve(Stmt(t).to)]
    /\ Goto(t, "sending")
    /\ UNCHANGED <<prog, nextId, actors, nameMap, self, mailbox, meta, at>>

\* It does not: SendMessage logs the error and the body goes on.
SendUnknown(t) ==
    /\ Executes(t, "send")
    /\ Resolve(Stmt(t).to) = None
    /\ Advance(t)
    /\ UNCHANGED <<prog, nextId, actors, nameMap, self, mailbox, meta, phase, reg>>

\* What follows a send().await, whatever it returned.
AfterSend(t) ==
    \/ /\ phase[t] = "sending"
       /\ Goto(t, "run")
       /\ Advance(t)
    \/ /\ phase[t] = "escalating"
       /\ Goto(t, "leaving")
       /\ UNCHANGED at

\* A permit is free and the receiver exists.
Deliver(t) ==
    /\ phase[t] \in {"sending", "escalating"}
    /\ phase[reg[t]] # "gone"
    /\ Len(mailbox[reg[t]]) < Capacity
    /\ mailbox' = [mailbox EXCEPT ![reg[t]] =
                     Append(@, [from |-> t,
                                text |-> IF phase[t] = "escalating"
                                           THEN Crash ELSE Stmt(t).text])]
    /\ AfterSend(t)
    /\ UNCHANGED <<prog, nextId, actors, nameMap, self, meta, reg>>

\* The receiver was dropped: Err, thrown away by `let _ =`.
SendClosed(t) ==
    /\ phase[t] \in {"sending", "escalating"}
    /\ phase[reg[t]] = "gone"
    /\ AfterSend(t)
    /\ UNCHANGED <<prog, nextId, actors, nameMap, self, mailbox, meta, reg>>

-----------------------------------------------------------------------------
(* CodeTaal::Receive.                                                       *)

ReceiveWait(a) ==
    /\ a # None
    /\ Executes(a, "recv")
    /\ Goto(a, "receiving")
    /\ UNCHANGED <<prog, nextId, actors, nameMap, self, mailbox, meta, at, reg>>

ReceiveMessage(a) ==
    /\ phase[a] = "receiving"
    /\ mailbox[a] # <<>>
    /\ mailbox' = [mailbox EXCEPT ![a] = Tail(@)]
    /\ Goto(a, "run")
    /\ Advance(a)
    /\ UNCHANGED <<prog, nextId, actors, nameMap, self, meta, reg>>

\* The given timeout or the 30 s fallback: the variable becomes Null.
ReceiveTimeout(a) ==
    /\ phase[a] = "receiving"
    /\ mailbox[a] = <<>>
    /\ Goto(a, "run")
    /\ Advance(a)
    /\ UNCHANGED <<prog, nextId, actors, nameMap, self, mailbox, meta, reg>>

-----------------------------------------------------------------------------
(* How a body ends: at its last statement, or with an error that the        *)
(* actor's SupervisionStrategy decides about.                               *)

Finish(t) ==
    /\ phase[t] = "run"
    /\ AtEnd(t)
    /\ Goto(t, IF t = None THEN "gone" ELSE "leaving")
    /\ UNCHANGED <<prog, nextId, actors, nameMap, self, mailbox, meta, at, reg>>

\* execute_ast of the main executor returns Err; there is no supervisor, and
\* a Receive outside an actor is always an error.
MainFails ==
    /\ Executes(None, "work") \/ Executes(None, "recv")
    /\ Goto(None, "gone")
    /\ UNCHANGED <<prog, nextId, actors, nameMap, self, mailbox, meta, at, reg>>

FailStop(a) ==
    /\ a # None
    /\ Executes(a, "work")
    /\ meta[a].strategy = "Stop"
    /\ Goto(a, "leaving")
    /\ UNCHANGED <<prog, nextId, actors, nameMap, self, mailbox, meta, at, reg>>

\* `continue`: same id, same receiver, a body that starts over.
FailRestart(a) ==
    /\ a # None
    /\ Executes(a, "work")
    /\ meta[a].strategy = "Restart"
    /\ Goto(a, "start")
    /\ UNCHANGED <<prog, nextId, actors, nameMap, self, mailbox, meta, at, reg>>

\* The parent is looked up by its id; if it is found the task awaits room in
\* its mailbox before it leaves, otherwise it leaves at once.
FailEscalate(a) ==
    /\ a # None
    /\ Executes(a, "work")
    /\ meta[a].strategy = "Escalate"
    /\ IF meta[a].parent # None /\ Resolve(meta[a].parent) # None
         THEN /\ reg' = [reg EXCEPT ![a] = Resolve(meta[a].parent)]
              /\ Goto(a, "escalating")
         ELSE /\ Goto(a, "leaving")
              /\ UNCHANGED reg
    /\ UNCHANGED <<prog, nextId, actors, nameMap, self, mailbox, meta, at>>

-----------------------------------------------------------------------------
(* ActorRegistry::unregister, and the drop of the receiver after it.        *)

Unregister(a) ==
    /\ phase[a] = "leaving"
    /\ actors' = actors \ {a}
    /\ Goto(a, "unnaming")
    /\ UNCHANGED <<prog, nextId, nameMap, self, mailbox, meta, at, reg>>

RetainNames(a) ==
    /\ phase[a] = "unnaming"
    /\ nameMap' = [n \in Names |-> IF nameMap[n] = a THEN None ELSE nameMap[n]]
    /\ mailbox' = [mailbox EXCEPT ![a] = <<>>]
    /\ Goto(a, "gone")
    /\ UNCHANGED <<prog, nextId, actors, self, meta, at, reg>>

-----------------------------------------------------------------------------
TaskStep(t) ==
    \/ SpawnReadParent(t) \/ SpawnRegister(t) \/ SpawnStart(t)
    \/ Work(t) \/ Again(t)
    \/ SendResolve(t) \/ SendUnknown(t) \/ Deliver(t) \/ SendClosed(t)
    \/ Finish(t)

ActorStep(a) ==
    \/ StartBody(a)
    \/ ReceiveWait(a) \/ ReceiveMessage(a) \/ ReceiveTimeout(a)
    \/ FailStop(a) \/ FailRestart(a) \/ FailEscalate(a)
    \/ Unregister(a) \/ RetainNames(a)

Next == \/ \E t \in Tasks : TaskStep(t)
        \/ \E a \in Ids : ActorStep(a)
        \/ MainFails

Spec == Init /\ [][Next]_vars

(***************************************************************************)
(* tokio polls every task that can run, and a receive's timer always fires. *)
(* The semaphore behind mpsc::channel also serves waiting senders in order; *)
(* the programs checked for liveness send finitely often, so that is not    *)
(* needed.                                                                  *)
(***************************************************************************)
Fairness ==
    /\ WF_vars(TaskStep(None) \/ MainFails)
    /\ \A a \in Ids : WF_vars(TaskStep(a) \/ ActorStep(a))

FairSpec == Spec /\ Fairness

-----------------------------------------------------------------------------
(* Properties.                                                              *)

Registered(a) == phase[a] \notin {"none", "unnaming", "gone"}

\* actors holds exactly the actors between register and unregister: every
\* way a body can end passes through unregister, none leaves an entry that
\* no task serves, and no task is still served after its entry is gone.
RegistryExact == \A a \in Ids : a \in actors <=> Registered(a)

\* A name leads to an actor that was spawned under it and has been started;
\* the only entries that do not resolve belong to an actor whose unregister
\* is between actors.remove and name_map.retain.  In particular a name taken
\* over by a second Spawn survives the first actor's unregister.
NamesLead ==
    \A n \in Names : LET a == nameMap[n] IN
        a # None => /\ meta[a].name = n
                    /\ phase[a] \notin {"none", "new", "gone"}
                    /\ a \notin actors => phase[a] = "unnaming"

\* Although the parent is read from a shared variable, a parent is always an
\* older actor: supervision is a forest, and a chain of actors that all wait
\* to escalate goes strictly down in ids, so escalations alone cannot
\* deadlock.
SupervisionForest ==
    /\ \A a \in Ids : meta[a].parent < a
    /\ \A a \in Ids : phase[a] = "escalating" => reg[a] < a

\* An actor's failure is escalated at most once, to its recorded parent, only
\* under the Escalate strategy, and only by an actor that will not run again:
\* nobody can be told of the crash of an actor that is still working.
EscalatesOnce ==
    \A p \in Ids : \A i \in DOMAIN mailbox[p] :
        LET a == mailbox[p][i].from IN
        mailbox[p][i].text = Crash =>
            /\ a # None
            /\ meta[a].strategy = "Escalate"
            /\ meta[a].parent = p
            /\ phase[a] \in {"leaving", "unnaming", "gone"}
            /\ \A j \in DOMAIN mailbox[p] : mailbox[p][j] = mailbox[p][i] => j = i

\* No step brings an actor back: an id that has left the registry never
\* returns to it, its name is not restored, and nothing is queued for it once
\* the receiver is dropped.
GoneForGood ==
    [][\A a \in Ids :
         /\ phase[a] \in {"unnaming", "gone"} =>
              /\ a \notin actors'
              /\ phase'[a] \in {"unnaming", "gone"}
              /\ \A n \in Names : nameMap'[n] = a => nameMap[n] = a
         /\ phase[a] = "gone" => mailbox'[a] = <<>>]_vars

\* The mailboxes are bounded FIFO queues that a restart neither loses nor
\* reorders: what was queued before a crash is what the restarted body gets.
Mail == INSTANCE Mailboxes WITH
            Owners <- Ids, Bound <- Capacity,
            queue <- mailbox, open <- {a \in Ids : phase[a] # "gone"}

MailboxesHold == Mail!Spec

\* LANGUAGE_SPEC section 3.12: an escalation goes to the mailbox of the parent
\* actor that started the child.
ParentIsCreator ==
    \A a \in Ids : meta[a].creator # None => meta[a].parent = meta[a].creator

\* Nobody waits for room in a mailbox for ever: the owner takes messages, or
\* goes and its dropped receiver releases the sender.
SendsReturn ==
    \A t \in Tasks : phase[t] \in {"sending", "escalating"}
                        ~> phase[t] \notin {"sending", "escalating"}

\* A program in which no body loops and no actor restarts.
Finite ==
    \A b \in Bodies : \A i \in 1..Len(prog[b]) :
        /\ prog[b][i].op # "again"
        /\ prog[b][i].op = "spawn" => prog[b][i].strategy # "Restart"

\* Every task of such a program ends, with every actor unregistered, even the
\* ones that wait for a message nobody sends.
AllEnd ==
    Finite => <>[](actors = {} /\ \A t \in Tasks : phase[t] \in {"none", "gone"})
=============================================================================
