# Helheim: models, checks and proofs

Helheim executes CodeTaal programs: an interpreter for an AST (`helheim-lang`,
`helheim-core/src/orchestra`), actors with supervision, globals replicated between nodes,
algebraic effects whose continuations can migrate to another node, and an encrypted
node-to-node protocol (`helheim-core/src/network`). This directory holds TLA+ modules of
its core, the TLC runs that check them on small instances, and TLAPS proofs for
all instances. Paths below are relative to `src/`; `O/` stands for
`helheim-core/src/orchestra/`.

## 1. Inventory

| Component | State | Operations | What is hard, and what makes it correct |
|---|---|---|---|
| Actor runtime (`O/actor.rs`; Spawn, SendMessage, Receive of `O/executor.rs`) | `next_id`, maps `actors` and `name_map`, an mpsc channel per actor, variable `self` in the shared globals | register, resolve_sender, unregister, send_message, run_actor, receive | Every actor is a tokio task. Two maps are changed in separate steps; names are taken over; a send blocks on a full mailbox; a body ends by finishing, failing, restarting or escalating. Registry and tasks must agree, names must lead to the right actor, mailboxes must keep order over a restart, nobody may wait for ever. |
| Replicated globals (`O/distributed.rs`) | map name → (value, Lamport), clock, outbound queue | set_global, apply_delta, flush_deltas, broadcast after a Concurrent block | Writers and incoming deltas interleave between two atomic accesses; deltas are reordered and may be lost. Stamps must be unique, entries must be real writes, replicas must converge. |
| Swarm node (`helheim-core/src/network/hsp_node.rs`) | connection pool, last seen Lamport per key | ignite (a task per connection), dispatch | Idle timeouts, resets, restarts, split packets, pooled connections that died. An answer must belong to its request; nothing may run twice; a dispatch must return. |
| Continuations (`O/continuation.rs`, `O/effects.rs`) | remainder of the AST under a per-task key, a signed snapshot | capture, resume, migrate | Captured at the origin while other tasks run; resumed here over other scopes, or there in an isolated memory. What stands behind a perform must run as often as somebody asked for it. |
| Executor (`O/executor.rs`, `O/trampoline.rs`) | frames per activation, one stack of scopes for all tasks, gas | a branch per statement | Recursion is unrolled on a bounded stack; scopes must balance on every path out, errors included, and a sandbox must end. |
| Memory (`helheim-lang/src/memory.rs`, `persistence.rs`) | globals, scope stack, functions, history of 100 snapshots | set, get, snapshot, rollback, persist, recall | Shared maps are read key by key, cleared and refilled while other tasks use them. |
| Commands (`O/mod.rs`, `O/system.rs`, `helheim-cli`, `helheim-gateway`) | REPL buffer and brace depth, requests and packets in progress | lines, rollback, process_command, execute_handler | One memory for the REPL, the swarm and the gateway; some errors are returned and others swallowed. An error must mean that nothing has run. |
| TCP resources (`O/tcp_resources.rs`) | table of handles | listen, accept, connect, send, receive, close | The table's shard guards are held across awaits and around a remove or an insert. |
| Tensor store (`helheim-core/src/gpu/mod.rs`, cuda builds) | tensors by id, the next id | allocate, operate, CPU fallback | Operands leave the store while a kernel runs; every `?` in between drops them. |
| Packages (`O/package_manager.rs`, `O/stdlib_manager.rs`, `helheim-core/src/ffi.rs`) | verified cache, loader table | bootstrap, import, verify, load, reload | A cache filled before the load it vouches for; a file that changes after it was verified. |
| Linker and analyser (`helheim-lang/src/resolver.rs`, `semantic.rs`) | set of expanded files, symbol scopes | expand, visit, rewrite a call | Imports under two aliases and in rings; names that are resolved when linked and again when called. |
| Flight recorder (`O/flight_recorder.rs`), discovery (`helheim-core/src/network/mod.rs`) | bounded queue; peer table | record, drain; listen, broadcast | A full queue; peers that never leave the table. |
| Parser, AST, PTX synthesis, GPU kernels, shield, plugins | – | – | Sequential, numerical, cryptographic or pure I/O: see "not modelled". |

Interaction: the executor spawns actor tasks, which run bodies through it and share its
registry and globals. A Concurrent block dispatches statements to peers, falls back to
executing them locally and then broadcasts the deltas. A migration captures a continuation,
stamps it with the clock of the replicated globals, and dispatches it through the same pool.
A peer's connection task runs commands through its orchestrator and applies deltas.

`PROJECT.json` lists every component with its status, and every hazard at its line.

## 2. Plan

Done: all modules of section 3, each checked and, but for `Mailboxes`, `RemoteCalls` and
`Linker`, with proofs; the two abstract ones are what `ActorSystem` and `Swarm` are proved to
implement.

Left, the most useful first:

1. A run on the order in which the evaluator fills its context from the scopes
   (`O/executor.rs:2555`), with a name that two scopes have.
2. The key under which `schedule_statement` and the branches of a Concurrent block keep the
   remainder of a program (`O/continuation.rs:27`), with tasks that change worker threads.
3. Remote sends and effects inside actor bodies in `ActorSystem`.
4. `Swarm` composed with `DistributedMemory`: the clock that stamps continuations is the one
   deltas raise. `CaptureBump` there and `Prepare` in `Swarm` are the two sides of that
   interface today.

## 3. Modules

**`Mailboxes`** is the abstract specification: a bounded FIFO queue per owner with Put, Take
and Close. It knows nothing of tasks or names.

**`ActorSystem`** has a program counter (`phase`, `at`) for the main executor (task 0) and
for every actor. A statement that awaits or touches something shared is split at exactly
those points: Spawn is `SpawnReadParent` (reads `self`), `SpawnRegister` (`fetch_add`,
`actors.insert`) and `SpawnStart` (`name_map.insert`, `tokio::spawn`); a send is
`SendResolve` or `SendUnknown`, then `Deliver` or `SendClosed`; the end of a task is
`Unregister` (`actors.remove`) and `RetainNames` (`name_map.retain`, receiver dropped).
`Work` and the `Fail…` actions stand for every other statement, which succeeds or raises.
Programs are a constant: sequences of statements per body; `again` closes a loop.
`is_local` and `resolve_sender` look the target up twice; both outcomes of a change in
between are those of one lookup, so `Resolve` is one step.

**`DistributedMemory`** has several nodes, each with several writers. `set_global` is
`SetStamp` (bump), `SetInsert`, `SetPush`; `apply_delta` is `ApplyEntry` and `ApplyClock`.
The compare-exchange loop of `apply_delta` is one step: it ends with the larger value
whatever happened before. `Flush` empties the queue into a set of dispatches in flight,
which are delivered in any order or lost (`Lose`). `perfect` and `raced` are history
variables that only properties read.

**`Swarm`** has one origin and one peer. A job is a migration or a statement of a Concurrent
block; `Dispatch(j)` goes through pool, connect, write, a second connect and write, read,
pool. `Session(c)` is the peer's task for a connection: read, signature check (`RejectSig`),
replay check (two steps for a key's first contact, as in the code), execution, reply. The
peer parses a payload into a JSON value and writes it again before it verifies or resumes it.
A payload in `Garbled` is one that this need not survive: the signature does not match
(`SWARM_ERR_SIG`), the rest of the continuation does not serialise (`SWARM_ERR_INTERNAL`,
`RejectInternal`), or a field does not parse, and then the peer acknowledges it with nothing
run (`Misread`, `unread`). Each is possible for such a job and none is certain. `Reset`, `Restart`, `ConnectFails`
and `WriteSplit` are the faults. A write to a connection that the other end has closed may
succeed and vanish (`Write` with a `Dead` connection) or fail (`WriteFails`). A reply is one
write of some 60 bytes and is taken to be read whole.

**`RemoteCalls`** is the abstract specification of a dispatch, without connections, pool,
packets and stamps: a call is open, the peer takes it, executes, refuses or discards it
(`discarded`: acknowledged and unreadable), and the caller gets an answer or an error. `CallsHold` maps `Swarm` to it: a job is open from the
start of its dispatch to the answer (`Outcome`), in the peer's hands while a session checks or
executes it (`InPeersHands`), and lost when the connection it waits on broke (`Lost`). What
`RemoteCalls` adds to the invariants is time: an answer stays true, for the peer that refused a
job will not run it later, and neither will one whose origin got an error, unless the job was
lost. The mapping has no history variables.

**`Executor`** is `execute_ast` with the trampoline. A call of `execute_ast` is an
activation: a stack of frames, each a place in a block, and what the caller will do with its
result (`use`) and whether a `ScopeGuard` of the caller covers it (`guard`). `Begin` is the
head of the loop (gas, then the statement); the statements that push frames (`If`, `Block`,
`Loop`) differ from those that start an activation (`Call`, `Handle`, `Nested`, `ForEach`,
`Perform`, `Resume`), as in the code. Results travel by `GoOn`, `PassOn`, `Catch`,
`NextItem`, `Arrived` and `Departed`, by the use and the result of the activation that ended.
There is one stack of scopes for all tasks, and `DropGuard` pops its top, whoever pushed it.
A `perform` captures the rest of its own list with the scopes, runs the handler, and then
goes on by itself unless its value is bound (`HandlerUse`); a `resume` puts the captured
scopes back and runs the rest. What it resumes is an expression: the handler's own `resume_k`
("resume"), or any continuation that the program has kept, whose handler and guards may have
ended long ago ("revive"); the value it passes is evaluated first and may fail. Programs are a constant: statements per block. What
conditions and expressions evaluate to, and which statements fail, is left open.

**`Resources`** is the TCP table and, for builds with cuda, the tensor store (without cuda
every tensor operation is `NoDevice`). A DashMap guard is a read lock of a shard: `Readers`
lists the tasks that keep a writer away, and a task that waits for a shard blocks its worker
thread (`Pinned`, `Runs`). `guard` is held over the awaits exactly as long as the Rust value
lives. Each operation has the three forms the executor gives it: statement, primitive of
`perform Tcp`, expression; they differ in privilege, in what a failure does to the program,
and in whether they remove a failed handle. A tensor operation is allocation, compilation
(`Compile`), removal of the operands in the order of the code (`Take`), the kernel
(`Kernel`), and for products and sums the CPU fallback in two steps.

**`Linker`** is what becomes of a program before it runs. `Expand` is the linker: an import
becomes the statements of its file, in a module when it has an alias, and a file is expanded
once. `Visit` is the analyser: scopes of symbols, and the rewriting of a call that only the
current module's name resolves. `Linking` is both.

**`Modules`** is the way of code into a program. The linker is its constant `Link`, so that
the proofs hold for any; `MCModules` gives it `Linking`. `Names` are the names of modules and
functions, `Statements` those that programs, files and packages consist of. `Link` is
applied by `Submit`, to tasks in `Linked` only. After that
the modules' bodies, definitions, imports and calls are executed: `Def` stores under the
context's module, `Call` tries the global functions and then the caller's module and runs the
body in the context of the *caller*. An import of a signed package is the cache lookup
(`Import`), `Verified` or `Rejected`, and `LoadImported`; `Change` rewrites a file on disk at
any time.

**`Session`** is what a node is told. The REPL has its line buffer and brace depth; each
command is preceded by a snapshot (`SnapshotKey` per global, `SnapshotDone` with the scopes,
the limit of the history and the command). `Rollback` is `Clear`, `Fill` per key, `Restack`.
`Start` gives each command of `process_command` one route and what is decided before a
statement runs; `Ended` what an error of running code becomes on that route. Another task
handles packets (always in the sandbox: a signature in one is ignored) and gateway requests (`Admission`,
`Answer`) on the same memory. A `hel` block is as in the default build, without the feature
`cuda`. `before`, `want` and `quiet` are history variables.

Each module also has a section of "steps with a fault", outside `Next`: variants of the
actions as a plausible mistake would have them. Substituting one for the original breaks
the property it is listed with in `PROJECT.json` ("mutants"), so no property holds
vacuously.

## 4. Runs

| Run | Module, bounds | What it shows |
|---|---|---|
| `ActorSafety` | `MCActorSystem`: 3 actors, 1 name, mailboxes of 2, 12 programs | `RegistryExact`, `NamesLead`, `SupervisionForest`, `EscalatesOnce`, `GoneForGood`, and that `ActorSystem` implements `Mailboxes` |
| `ActorLive` | 3 actors, mailboxes of 1, 3 programs without circular sends | `SendsReturn`, `AllEnd` |
| `ActorParent` (violated) | an actor that spawns two children | the parent is not the actor that spawned the child |
| `Distributed` | 2 nodes, 2 + 1 writers, 1 name, 2 values, clocks to 3 | `StampsUnique`, `EntriesAreWrites`, `ClockCovers`, `OnlyRacesRegress`, `ReplicasConverge` |
| `Swarm` | 2 migrations whose payloads may be unreadable, 1 statement, 3 connections, 1 fault | `ResponsesMatch`, `AtMostOnce`, `AnswersTell`, `ErrMeansNotRun`, and that `Swarm` implements `RemoteCalls` |
| `SwarmLive` | 1 migration, 1 statement, 4 connections, 2 faults | `DispatchesEnd` |
| `TeleportLost` (violated) | 2 migrations, no faults | a refused migration counts as a success |
| `PoolStale` (violated) | 2 statements, no faults | a stale pooled connection fails the dispatch |
| `Executor` | some 200 programs of 4 blocks, 3 tasks, gas 12, 3 frames, lists of 2 | `ScopesMatchGuards`, `LocalsStayLocal`, `RunsAfterPerform`, `SandboxEnds` |
| `Resources` | 5 programs, 3 tasks on 2 worker threads, 3 handles in 2 shards, 1 outside connection, 5 tensors | `UsedEntriesStay`, `FailedHandleNeverCloses`, `ProgramsEnd`, `TensorsAccounted`, `FallbackOnlyAfterCompile` |
| `Modules` | a command of the REPL, one of the swarm, a gateway program (17 in all); 2 native packages, 3 builds, 1 change on disk, depth 5 | `LoadedWasVerified`, `ImportsLoad`, `NamesReached` |
| `Session` | REPL with 3 commands of up to 3 lines, 1 packet or request, 2 globals, 2 scopes, history of 2 | `UndoExact`, `ErrMeansNothingRan` |

*Bounds.* With three actors a parent, two children and a name that changes hands fit at
once, and a grandparent. A mailbox of two places is the least in which messages have an
order; one of one place (`ActorLive`) blocks a sender at its second message.
Two writers on one node and one on another are the least that race, tie and cross; the clock
bound allows three writes on a node or a mixture with incoming deltas. Three connections let
a pooled one be replaced and a reconnect fail; four in `SwarmLive`, so that the bound never
stops a dispatch that may reconnect once per job. `Swarm` has one fault and `SwarmLive` two.
A statement with an unreadable payload is in `SwarmLive` only, and in the proofs, which hold
for any `Garbled`. In `Executor` three frames overflow with two nested blocks, twelve units of gas let a loop or a recursion go
round several times and leave a handler that resumes twice its end, and three tasks are the
main program with two branches; further branches only repeat what two do to one stack. The
programs are families in which each statement that changes scopes or activations is put below
each of the others. In `Resources` two shards are enough for a guard and a writer to meet or
to miss, two workers for one blocked thread and for all of them, and three tasks for two
clients of one server; an operation that would need a fourth handle fails, as it may anyway.
In `Modules` the three builds are one that is signed and loads, one that is signed and has
another ABI version, and one that loads and is not signed; the files of the run import each
other in a ring, under several aliases, and use names before they are defined. In `Session` a
history of two instead of 100 is overrun by the third command. The bounds on commands, asks,
handles, dials, tensors, changes and depth are in the guards of the actions that count them.
The cfgs give `CHECK_DEADLOCK FALSE`
because programs, jobs and clocks end, and because tasks of `Resources` may wait for
themselves, which `ProgramsEnd` is about. `Distributed` and `Swarm` use symmetry under safety
properties only.

*Fairness.* Weak fairness per task: tokio polls every task that can run. In `ActorSystem`
the timer of a receive is part of a task's steps (the code gives every receive a 30 s
fallback). In `Swarm` the peer's read timeout is part of its session's steps, and the work a
peer is sent is taken to end. Faults have no fairness.
`Executor` has weak fairness per task; that a sandbox ends rests on the gas, which all
copies of a context share, and on nothing else. `Resources` assumes in addition that the
other end of a stream writes or hangs up and that somebody connects to a listener: otherwise
a read or an accept waits for ever by intent. `Modules` and `Session` are checked for safety.
The environment is not made fair to a
waiting sender beyond that; `ActorLive`'s programs send finitely often or to an actor that
receives for ever.

`SendsReturn` is claimed for programs that do not send in circles only: with circular sends
and full mailboxes the code has a genuine deadlock (a blocking send has no timeout).

### Findings

* `ActorParent`: `Spawn` reads the parent from the variable `self`, which every starting
  actor writes into the globals all actors share (`O/actor.rs:189`, `O/executor.rs:1255`).
  `docs/LANGUAGE_SPEC.md:248` says the error goes to the actor that started the child. After
  its first child has started, an actor's second child has the first as parent.
* `TeleportLost`: `migrate` takes every `Ok` of dispatch for success (`O/executor.rs:507-509`).
  A peer that refuses a continuation (`SWARM_ERR_REPLAY`) also answers `Ok`. Two migrations
  from one node that overtake each other leave one program on neither node. That is one way;
  `SWARM_ERR_SIG`, `SWARM_ERR_INTERNAL` and the acknowledgement of a payload that the peer could
  not parse are `Ok` as well, with nothing run. `AnswersTell` says what each kind of answer
  means, and `AnswersAreTrue` (§5) proves it: behind a replay refusal there is always an
  overtaking migration, never a retry, a restart of the peer or the window between `get_mut`
  and `insert`; every other refusal is of an unreadable payload.
* `PoolStale`: the comment "Pool socket died, reconnect once" holds for a write that fails;
  a connection the peer closed on its idle timeout accepts the write and ends the read, and
  that is not retried.

Two things the properties make precise without being violated: a raced `set_global` can
bring back an older entry (`OnlyRacesRegress` says it is the only way), and equal stamps of
two nodes leave them with different values (`ReplicasConverge` names the exception).

More that the properties make precise. Each is what the code does, checked as such:

* `FailedHandleNeverCloses`, `ProgramsEnd`: `tcp_stuur` and `tcp_ontvang` announce that they
  close a handle that failed ("Handle gesloten"); they remove it under their own table guard
  and wait for themselves for ever. The other way to get stuck is that every worker thread
  waits for a shard.
* `RunsAfterPerform`: behind a `perform` with a handler the statements run once for the
  perform itself and once more per resumption; behind a definition bound to a perform, for
  the resumptions alone; a qualified perform's continuation is of no form that resume knows.
  A loop in that place is left out, since it is counted at each of its rounds.
* `ScopesMatchGuards`, `LocalsStayLocal`: without a resumption there is one scope per guard,
  however many tasks share the stack; without a second task either, what a call assigns stays
  in its scope. With resumptions of `resume_k` there are never more scopes than guards, so none
  is left behind. A kept continuation that is resumed after the guards of its capture have
  dropped puts back scopes that no guard pops (`memory.rs:463-471`), although the guards are
  there so that a scope is always popped ("altijd wordt gepopt", `memory.rs:493`).
* `LoadedWasVerified`: a reload of a native module asks for no verification, and the loader
  reads a file by its name, not the bytes that were verified. `ImportsLoad`: the cache answers
  for a package whose load has failed.
* `NamesReached`: a rewritten call runs only below its own module's body, for a function body
  runs in its caller's module; the functions of the pure library are stored under a key that
  no qualified call has. An import within a block is left to the executor, which reads the
  file into the module it is in and does not know that the linker has put it into another:
  such a file's functions have two homes, and `NamesReached` speaks of the others (`placed`).
  The comment at `resolver.rs:43` promises more ("all `Gebruik` nodes replaced by their
  contents"); `resolver.rs:101` leaves those within blocks and bodies as they are.
* `UndoExact`, `ErrMeansNothingRan`: a rollback is exact unless another task wrote in
  between; errors of running code are swallowed by process_command, except for scripts and
  intents, whose errors do not say that nothing has run.
* `FallbackOnlyAfterCompile`: after any device failure later than compilation the CPU
  fallback finds no result tensor to write to, though the expression still names it.

## 5. Proofs

**`ActorSystemProofs`** (for every number of actors, capacity, names and programs, from
`ActorAssumption`). The inductive invariant `IInv` adds to the properties where each task is
in the middle of which statement (`MidStatement`), that ids are handed out in order and only
one task knows an actor that has not started (`IdsInOrder`), and the phases the main executor
can be in. `RegistryExact` is not inductive alone: `SpawnRegister` needs that the next id is
unused, `SpawnStart` that its actor has not been started by anybody else. Theorems:
`TypeCorrect`, `RegistryIsExact`, `NamesAlwaysLead`, `SupervisionIsForest` follow from it;
`ImplementsMailboxes` maps every step to Put, Take, Close or a stutter; `GoneStaysGone` is an
action property from the same invariant; `EscalatesAtMostOnce` needs one more: a crash
message's sender is past its loop, and a task that is about to send one has not sent one.

**`DistributedMemoryProofs`** (for every set of nodes, writers, names and values and every
clock bound, from `MemoryAssumption`). `Safe` adds `DeltasKnown` (every delta anywhere is a
write, and no write is ahead of its node's clock) and `UnracedIsNewer` (a stamped write that
nothing overtook is newer than what it will replace). From it: `StampsAreUnique`,
`EntriesAreAlwaysWrites`, `ClockAlwaysCovers`, and `OnlyRacesEverRegress`.
`ReplicasAlwaysConverge` needs a second invariant, `NothingForgotten`: for every write and
node, the write is still on its way there, or the node has seen it, or a raced writer has
disturbed the node; when everything is delivered only "seen" is left, so both nodes hold the
greatest stamp.

**`SwarmProofs`** (for every set of migrations and statements, any number of connections
and faults, from `SwarmAssumption`). No packet names the request it answers, so that the
reply is the right one rests on where things are. `IInv` says it for each connection: it is
with one dispatch or in the pool (`Exclusive`); what is on its way to the peer, in the
peer's hands or on its way back is the request or the reply of the dispatch that waits there,
and at most one of the three places is taken (`Requests`, `InHands`, `Replies`), except that
the peer may still work for a dispatch that gave up because the connection was reset. With
`Outcomes` (what a dispatch's step says about the execution of its job) this is inductive.
Theorems: `TypeCorrect`, `RepliesAreOwn`, `ConnectionsAreExclusive` (of `OneAtATime`, which no
run repeats: it is the invariant's `Exclusive` seen from the pool), `ExecutedAtMostOnce`,
`ErrIsTrue`.

`AnswersAreTrue` needs the history of an answer, `HInv`. `LAST_SEEN_LAMPORT` is compared,
raised, inserted and emptied by a restart, and of the migration that left its value only the
stamp remains. `Stamps`: no two migrations have one stamp. `SeenFrom`: the value is the stamp
of a migration that is past the wire and in no session that will compare it again (`Decided`),
also when an `insert` has lowered it. So a migration that finds a stamp not below its own was
overtaken by another one, never by its own first copy. `AnsweringNext` shows which step of the
peer begins which answer, and `Overtakings` carries the reason of a refusal, the overtaking or
the unreadable payload, to the dispatch that reads the answer.

`ImplementsCalls`: every step of `Swarm` is a step of `RemoteCalls` or a stutter. Pool, connect
and reconnect are stutters; a write on a connection that is gone, a reset and a restart are
`Break`; an end of the stream is `Fail`, and it has to be shown that the peer has not had the
request when the connection is not broken (its session was closed before it read). That a
refusal is true needs `Refusals` besides `IInv`: where a refusal is being sent or is on its way
its job has not been executed, and nobody else can execute it.

**`ResourcesProofs`** (for every set of tasks, programs, handles, shards and worker threads,
from `ResourcesAssumption`). Two invariants. `TcpInv`: an insert or a remove happens only
while nobody has a guard of the shard, so that no entry under a guard changes, whichever
shard it is in; and a statement that is to remove its failed stream holds the guard of that
very entry (`Closing`), so that its own guard is among those it waits for. From it
`EntriesInUseStay` and, as an action property, `FailedHandlesNeverClose`. `TensorInv`: the
result of an operation is known to no program and no other operation until it is over
(`OwnResult`), only kernels hold tensors, their own operands (`Held`), and where the result
is follows from the phase (`Results`). `TensorsAccounted` is not inductive without `Held`:
what a failing kernel drops must be among the operands it is blamed for; and
`FallbackOnlyAfterCompile` not without `OwnResult`: another operation could take or put back
the result. From it `TensorsAreAccounted` and `FallbackAfterCompileOnly`.

**`ExecutorProofs`** (for every program, set of blocks and tasks, and for every gas, frame and
item limit, from `ExecutorAssumption`). Each of the some thirty actions has one of seven
shapes (`Shapes`): the activations of a task stay, one starts with or without a scope, the
top one leaves or is swapped, a resume puts other scopes under them, or tasks are spawned.
The invariants are then proved per shape. `ScopesInv` is the inductive one. `Based` says what
an activation needs when it ends (a handler of `try` is a block, a task's first activation
has no guard); `KnownScopes` that the continuation a scope knows was captured when the stack
was lower than that scope is now, in the stack and in every captured one. That makes a resume
of `resume_k` shorten the stack, so that `ScopesMatchGuards` holds across it; one of a kept
continuation may lengthen it (`Resumable` tells the two apart). The count of guards itself is
kept finite step by step (`Matched`). For `LocalsStayLocal` numbers are not enough: until a
resume or a second task, the scopes belong to the guards of the main task one by one and in
their order (`Aligned`), so the top scope is that of the innermost guard (`OwnedTop`).
Theorems: `TypeCorrect`, `ScopesAlwaysMatch`, `LocalsAlwaysStay`.

**`RunsProofs`** (for the same, on top of `ScopesInv`) is about `RunsAfterPerform`, which is
far from inductive: the number of runs says nothing of the frames that are still to reach the
statement. `RunsInv` counts the frames that wait for it, wherever they are in the stacks of
all tasks, with its runs (`Waits`, `Paid`). A perform that goes on by itself pays for its
own frame; a resume pays for the frame it starts. Two more things make it inductive. An
activation below one whose use is "tail" or "depart" does not come back to its frames
(`Live`): that is how a perform with a bound value and a migrate hand over, and why a bound
perform may be charged for each of its continuations. And a resume that runs `na_aankomst`
first has a frame that does not exist yet, counted as frame 0 of that handler's activation.
The actions are taken together by what they do to the frames: a statement executed
(`Executes`), a resume (`ResumesAt`), an end (`Ceases`, `Returns`), a swap (`Replaces`). For
each it is shown how the set of frames that wait changes, by at most one element exchanged or
added, and then that its size stays paid for. Theorem: `RunsAlwaysPaid`.

**`ModulesProofs`** (for every linker, set of statements and names, packages and builds, from
`ModulesAssumption`). `StackInv`: each context on a task's stack is typed, the module it runs
in is that of the nearest module body below it (`Grounded`, `Housed`), and a call was made
from there (`AtHome`). A call's context is its caller's, so the three go together. From it
`CallsAlwaysStayHome`, one half of `NamesReached`. `PackageInv` adds that a task that waits
for the loader is at its import (`AtImport`) with the package in the cache (`Cached`), that
what was read from a file that has not changed is still in it (`FileBuilds`), that what is
loaded and not reloaded is cached (`LoadedCached`), and that a cached native package is
loaded, has failed to, or is about to be (`NativesLoad`). From it `LoadedAreVerified` and
`ImportsAlwaysLoad`, and `TypeCorrect` from `StackInv`.

`NamesAlwaysReached` is the whole of `NamesReached`: a key that a command defines has one
module, although definitions run one by one between other tasks' definitions, returns,
errors that cut the stack and functions that run in their caller's module. Its hypothesis
`OneNamespace` is about the linked program alone: `places` gives its statements and those
below them the module they stand in, and no key is defined in two. Files that define
different names give it, and the linker puts each file in one place; that it does is what
the RECURSIVE operators of `Linker` compute, so TLC evaluates it for every program of the
runs (`MCOneNamespace` in `MCModules`) and the theorem assumes it. `HomesInv` says that
what is left of a task's program stands where `places` says (`Standing`), in every context
that no call and no file has opened, and that what the task has defined stands there too
(`DefinedIn`). The rest of a list is a tail of it (`Fewer`), so only pushed bodies need
`OneNamespace`.

**`SessionProofs`** (for every set of keys and values, commands, tasks and limit of the
history, from the module's assumption). `ErrorsMeanNothingRan` rests on what the routes decide
before the first statement. `UndoIsExact`, an action property, needs `UndoInv`: the history
lines up with the last commands that were told (`Recorded`), a snapshot that is being read
agrees with the memory in the keys it has and nobody disturbed (`Snapping`), and a rollback
that is under way with the snapshot in the keys it has filled (`Restoring`).

Only model-checked: everything about liveness (`SendsReturn`, `AllEnd`, `DispatchesEnd`,
`SandboxEnds`, `ProgramsEnd`), since fairness is beyond the prover; and what the RECURSIVE
operators of `Linker` compute, `OneNamespace` among it. The violated runs are
counterexamples and need no proof.

## 6. Not modelled, and why

* Parser, AST, PTX synthesis: sequential functions over trees and texts, tested by examples;
  no state that outlives a call.
* GPU kernels, plugins, Wasmtime: numerical or foreign code.
* Shield: cryptography. `Swarm` assumes that a packet that arrives whole decrypts and that a
  part of one does not.
* Flight recorder: a bounded queue that drops events; only what is recorded depends on it.
* Code without a caller: `MemoryState::save` and `load` and so `persist` and `recall`,
  `DiscoveryService::start_listening`, `NodeRelay::send`, and every write to `func_store`
  (`Session` gives stored commands as a constant).
* Within the modelled components: remote sends to `name@ip:port` (a `dispatch` like the ones
  in `Swarm`) and effects inside actor bodies; the NEXUS and SIGNED commands; the key of a
  continuation's remainder; the values of expressions and the effects of native ones;
  functions and models in snapshots, which are handled as globals are; the types that the
  analyser knows, but for undefined variables; the search for the path of an import; what
  the later items of a `voor elke` assign (the first is enough for `LocalsStayLocal`).
* Planned and not yet modelled: see section 2.
