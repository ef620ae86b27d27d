------------------------------ MODULE Resources ------------------------------
(***************************************************************************)
(* Two tables that the tasks of one process share: RESOURCE_TABLE, a        *)
(* DashMap of TCP listeners and streams (tcp_resources.rs), and             *)
(* TENSOR_STORE, the device tensors of a build with the cuda feature        *)
(* (gpu/mod.rs), with the statements and expressions of executor.rs that    *)
(* use them.                                                                *)
(*                                                                          *)
(* A DashMap is a set of shards, each under a reader-writer lock that a     *)
(* thread blocks on.  The guard that `get` returns is a read lock: it stays *)
(* held over every await below it.  `insert` and `remove` want the shard    *)
(* for themselves, and readers do not queue behind a waiting writer.        *)
(*                                                                          *)
(* An operation comes in three forms: a statement ("stmt", its failures are *)
(* logged), a primitive of `perform Tcp` ("prim", its error is dropped) and *)
(* an expression ("expr", its error ends the program).                      *)
(***************************************************************************)
EXTENDS Naturals, Sequences, FiniteSets

CONSTANTS Tasks,       \* tokio tasks that run a program
          Privileged,  \* the tasks whose context is_privileged
          Workers,     \* number of worker threads of the runtime
          MaxHandles,  \* bound on next_handle_id
          Shards,
          ShardOf,     \* the shard of each handle
          MaxDials,    \* bound on connections made by other processes
          MaxTensors,  \* bound on NEXT_TENSOR_ID
          Programs     \* assignments of a sequence of operations to each task

Handles == 1 .. MaxHandles
Tensors == 1 .. MaxTensors
Forms == {"stmt", "prim", "expr"}
TcpOps == {"listen", "connect", "accept", "send", "receive", "close"}
TensorOps == {"tensor", "mul", "add", "relu", "matmul"}
Operations == [op : TcpOps \union TensorOps, form : Forms]

ASSUME ResourcesAssumption ==
    /\ Privileged \subseteq Tasks
    /\ Workers \in Nat \ {0}
    /\ MaxHandles \in Nat /\ MaxDials \in Nat /\ MaxTensors \in Nat
    /\ ShardOf \in [Handles -> Shards]
    /\ Programs \subseteq [Tasks -> Seq(Operations)]

VARIABLES todo,    \* the operations each task has still to run
          pc,      \* where a task is in the first of them
          table,   \* RESOURCE_TABLE: the kind under each handle, or "none"
          nextId,  \* next_handle_id
          guard,   \* the handle whose table guard a task holds, or 0
          target,  \* the entry a task inserts or removes
          backlog, \* connections a listener has not accepted
          peer,    \* the other end of a stream: "quiet", "data" or "closed"
          dials,   \* connections made from outside
          store,   \* TENSOR_STORE: the ids in the map
          nextTensor,
          work,    \* operands and result of a tensor operation, how it failed
          taken,   \* tensors an operation has removed from the store
          named,   \* tensors whose description a program has been given
          blamed   \* history: tensors of operations that failed

tcpVars    == <<table, nextId, guard, target, backlog, peer, dials>>
tensorVars == <<store, nextTensor, work, taken, named, blamed>>
vars == <<todo, pc, tcpVars, tensorVars>>

NoEntry == [id |-> 0, kind |-> "none"]
NoWork  == [a |-> 0, b |-> 0, c |-> 0, failed |-> "no"]

TypeOK ==
    /\ todo \in [Tasks -> Seq(Operations)]
    /\ pc \in [Tasks -> {"next", "lock", "io", "insert", "remove",
                         "compile", "take", "kernel", "fallback", "host"}]
    /\ table \in [Handles -> {"none", "tcp_listener", "tcp"}]
    /\ nextId \in 1 .. MaxHandles + 1
    /\ guard \in [Tasks -> Handles \union {0}]
    /\ target \in [Tasks -> [id : Handles \union {0}, kind : {"none", "tcp_listener", "tcp"}]]
    /\ backlog \in [Handles -> Nat]
    /\ peer \in [Handles -> {"quiet", "data", "closed"}]
    /\ dials \in 0 .. MaxDials
    /\ store \subseteq Tensors
    /\ nextTensor \in 1 .. MaxTensors + 1
    /\ work \in [Tasks -> [a : Tensors \union {0}, b : Tensors \union {0},
                           c : Tensors \union {0},
                           failed : {"no", "compile", "take", "kernel"}]]
    /\ taken \in [Tasks -> SUBSET Tensors]
    /\ named \subseteq Tensors
    /\ blamed \subseteq Tensors

Init ==
    /\ todo \in Programs
    /\ pc = [t \in Tasks |-> "next"]
    /\ table = [h \in Handles |-> "none"]
    /\ nextId = 1
    /\ guard = [t \in Tasks |-> 0]
    /\ target = [t \in Tasks |-> NoEntry]
    /\ backlog = [h \in Handles |-> 0]
    /\ peer = [h \in Handles |-> "quiet"]
    /\ dials = 0
    /\ store = {}
    /\ nextTensor = 1
    /\ work = [t \in Tasks |-> NoWork]
    /\ taken = [t \in Tasks |-> {}]
    /\ named = {}
    /\ blamed = {}

-----------------------------------------------------------------------------
Now(t) == Head(todo[t])

\* A task that waits for a shard keeps its worker thread.
Pinned == {t \in Tasks : pc[t] \in {"insert", "remove"}}

\* A task that is not on a thread needs a free one to go on.
Runs(t, at) ==
    /\ todo[t] # <<>>
    /\ pc[t] = at
    /\ t \in Pinned \/ Cardinality(Pinned) < Workers

\* The guards that keep a writer away from the shard of h.
Readers(h) == {t \in Tasks : guard[t] # 0 /\ ShardOf[guard[t]] = ShardOf[h]}

\* The tokio Mutex around the listener or the stream.
Locked(h) == \E t \in Tasks : guard[t] = h /\ pc[t] \in {"io", "insert"}

Allowed(t) ==
    \/ t \in Privileged
    \/ Now(t).form = "expr"
    \/ Now(t).form = "prim" /\ Now(t).op \notin {"listen", "connect"}

\* The operation is over; its guards are dropped.
Finish(t) ==
    /\ todo' = [todo EXCEPT ![t] = Tail(@)]
    /\ pc' = [pc EXCEPT ![t] = "next"]
    /\ guard' = [guard EXCEPT ![t] = 0]
    /\ target' = [target EXCEPT ![t] = NoEntry]

\* The operation failed: an expression's error ends the program.
Fail(t) ==
    /\ todo' = [todo EXCEPT ![t] = IF Now(t).form = "expr" THEN <<>> ELSE Tail(@)]
    /\ pc' = [pc EXCEPT ![t] = "next"]
    /\ guard' = [guard EXCEPT ![t] = 0]
    /\ target' = [target EXCEPT ![t] = NoEntry]

\* An expression on tensors returns the description of its result.
Named(t) == named' = IF Now(t).op = "matmul" THEN named ELSE named \union {work[t].c}

Becomes(t, at) ==
    /\ pc' = [pc EXCEPT ![t] = at]
    /\ UNCHANGED todo

-----------------------------------------------------------------------------
(* Steps with a fault, no part of Next: each breaks a property below.       *)

\* The table entry is cloned and its guard dropped before the await.
TakeCloned(t, h, kind) ==
    /\ table[h] = kind
    /\ Becomes(t, "lock")
    /\ target' = [target EXCEPT ![t] = [id |-> h, kind |-> kind]]
    /\ UNCHANGED <<table, nextId, guard, backlog, peer, dials, tensorVars>>

\* A write that fails drops the guard of the table before it removes.
WriteDropsGuard(t) ==
    /\ Runs(t, "io") /\ Now(t).op = "send"
    /\ \/ Finish(t)
       \/ /\ peer[guard[t]] = "closed"
          /\ IF Now(t).form = "stmt"
                THEN /\ Becomes(t, "remove")
                     /\ target' = [target EXCEPT ![t] = [id |-> guard[t], kind |-> "tcp"]]
                     /\ guard' = [guard EXCEPT ![t] = 0]
                ELSE Fail(t)
    /\ UNCHANGED <<table, nextId, backlog, peer, dials, tensorVars>>

\* accept returns although nobody has connected.
AcceptNobody(t) == LET l == guard[t] IN
    /\ Runs(t, "io") /\ Now(t).op = "accept"
    /\ backlog' = [backlog EXCEPT ![l] = @ - 1]
    /\ Finish(t)
    /\ UNCHANGED <<table, nextId, peer, dials, tensorVars>>

\* A read that meets the end of the stream tries again.
ReadRetries(t) == LET h == guard[t] IN
    /\ Runs(t, "io") /\ Now(t).op = "receive"
    /\ peer[h] = "data"
    /\ peer' = [peer EXCEPT ![h] = "quiet"]
    /\ Finish(t)
    /\ UNCHANGED <<table, nextId, backlog, dials, tensorVars>>

\* Only the result goes back into the store.
PutBackResult(t) ==
    /\ Runs(t, "kernel")
    /\ store' = store \union {work[t].c}
    /\ taken' = [taken EXCEPT ![t] = {}]
    /\ work' = [work EXCEPT ![t] = NoWork]
    /\ Finish(t)
    /\ Named(t)
    /\ UNCHANGED <<table, nextId, backlog, peer, dials, nextTensor, blamed>>

\* All operands are looked up before the first is removed.
TakeAllOrNone(t) == LET w == work[t]
                        asked == {w.a, w.b, w.c} \ {0} IN
    /\ Runs(t, "take")
    /\ IF asked \subseteq store
          THEN /\ store' = store \ asked
               /\ taken' = [taken EXCEPT ![t] = asked]
               /\ Becomes(t, "kernel")
               /\ UNCHANGED <<tcpVars, nextTensor, work, named, blamed>>
          ELSE /\ work' = [work EXCEPT ![t].failed = "take"]
               /\ blamed' = blamed \union asked
               /\ Becomes(t, "fallback")
               /\ UNCHANGED <<tcpVars, store, nextTensor, taken, named>>

-----------------------------------------------------------------------------
(* TCP.                                                                     *)

\* A statement without the privilege is skipped; a primitive fails.
Refused(t) ==
    /\ Runs(t, "next") /\ Now(t).op \in TcpOps
    /\ ~Allowed(t)
    /\ Fail(t)
    /\ UNCHANGED <<table, nextId, backlog, peer, dials, tensorVars>>

\* bind: the new handle is numbered first and inserted next.
Listen(t) ==
    /\ Runs(t, "next") /\ Now(t).op = "listen" /\ Allowed(t)
    /\ \/ /\ nextId <= MaxHandles
          /\ nextId' = nextId + 1
          /\ target' = [target EXCEPT ![t] = [id |-> nextId, kind |-> "tcp_listener"]]
          /\ Becomes(t, "insert")
          /\ UNCHANGED guard
       \/ Fail(t) /\ UNCHANGED nextId
    /\ UNCHANGED <<table, backlog, peer, dials, tensorVars>>

\* connect: to a listener of this process, whose queue grows, or elsewhere.
Connect(t) ==
    /\ Runs(t, "next") /\ Now(t).op = "connect" /\ Allowed(t)
    /\ \/ /\ nextId <= MaxHandles
          /\ nextId' = nextId + 1
          /\ target' = [target EXCEPT ![t] = [id |-> nextId, kind |-> "tcp"]]
          /\ Becomes(t, "insert")
          /\ \/ \E l \in Handles :
                   /\ table[l] = "tcp_listener"
                   /\ backlog' = [backlog EXCEPT ![l] = @ + 1]
             \/ UNCHANGED backlog
          /\ UNCHANGED guard
       \/ Fail(t) /\ UNCHANGED <<nextId, backlog>>
    /\ UNCHANGED <<table, peer, dials, tensorVars>>

\* RESOURCE_TABLE.insert, under the listener's guard after an accept.
Insert(t) ==
    /\ Runs(t, "insert")
    /\ Readers(target[t].id) = {}
    /\ table' = [table EXCEPT ![target[t].id] = target[t].kind]
    /\ Finish(t)
    /\ UNCHANGED <<nextId, backlog, peer, dials, tensorVars>>

\* RESOURCE_TABLE.get: the guard stays until the operation is over.
TakeGuard(t, h, kind) ==
    /\ table[h] = kind
    /\ Becomes(t, "lock")
    /\ guard' = [guard EXCEPT ![t] = h]
    /\ UNCHANGED <<table, nextId, target, backlog, peer, dials, tensorVars>>

\* accept, send and receive look their handle up.  A handle of another kind
\* has another prefix, and one that is gone is not found.
Get(t) == LET kind == IF Now(t).op = "accept" THEN "tcp_listener" ELSE "tcp" IN
    /\ Runs(t, "next") /\ Now(t).op \in {"accept", "send", "receive"} /\ Allowed(t)
    /\ \/ \E h \in Handles : TakeGuard(t, h, kind)
       \/ /\ Fail(t)
          /\ UNCHANGED <<table, nextId, backlog, peer, dials, tensorVars>>

\* listener_arc.lock().await and stream.lock().await.
Lock(t) ==
    /\ Runs(t, "lock")
    /\ ~Locked(guard[t])
    /\ Becomes(t, "io")
    /\ UNCHANGED <<tcpVars, tensorVars>>

\* accept().await, then the insert of the stream under the listener's guard.
Accept(t) == LET l == guard[t] IN
    /\ Runs(t, "io") /\ Now(t).op = "accept"
    /\ backlog[l] > 0
    /\ backlog' = [backlog EXCEPT ![l] = @ - 1]
    /\ \/ /\ nextId <= MaxHandles
          /\ nextId' = nextId + 1
          /\ target' = [target EXCEPT ![t] = [id |-> nextId, kind |-> "tcp"]]
          /\ Becomes(t, "insert")
          /\ UNCHANGED guard
       \/ Fail(t) /\ UNCHANGED nextId
    /\ UNCHANGED <<table, peer, dials, tensorVars>>

\* The statements drop the stream's lock, not the table's guard, and remove.
RemoveUnderGuard(t) ==
    /\ Becomes(t, "remove")
    /\ target' = [target EXCEPT ![t] = [id |-> guard[t], kind |-> "tcp"]]
    /\ UNCHANGED guard

\* write_all: a peer that has closed may still be written to.
Write(t) ==
    /\ Runs(t, "io") /\ Now(t).op = "send"
    /\ \/ Finish(t)
       \/ /\ peer[guard[t]] = "closed"
          /\ IF Now(t).form = "stmt" THEN RemoveUnderGuard(t) ELSE Fail(t)
    /\ UNCHANGED <<table, nextId, backlog, peer, dials, tensorVars>>

\* read: bytes, or the end of the stream, or an error.
Read(t) == LET h == guard[t] IN
    /\ Runs(t, "io") /\ Now(t).op = "receive"
    /\ \/ peer[h] = "data" /\ peer' = [peer EXCEPT ![h] = "quiet"] /\ Finish(t)
       \/ /\ peer[h] = "closed"
          /\ \/ Now(t).form = "stmt" /\ RemoveUnderGuard(t)
             \/ Now(t).form # "stmt" /\ (Finish(t) \/ Fail(t))
          /\ UNCHANGED peer
    /\ UNCHANGED <<table, nextId, backlog, dials, tensorVars>>

\* sluit takes handles with the prefix of a stream only.
CloseStream(t, h) ==
    /\ Runs(t, "next") /\ Now(t).op = "close" /\ Allowed(t)
    /\ h < nextId
    /\ table[h] # "tcp_listener"
    /\ \A u \in Tasks : pc[u] = "insert" => target[u].id # h
    /\ Becomes(t, "remove")
    /\ target' = [target EXCEPT ![t] = [id |-> h, kind |-> "tcp"]]
    /\ UNCHANGED <<table, nextId, guard, backlog, peer, dials, tensorVars>>

\* sluit of a handle with another format.
CloseMalformed(t) ==
    /\ Runs(t, "next") /\ Now(t).op = "close" /\ Allowed(t)
    /\ Fail(t)
    /\ UNCHANGED <<table, nextId, backlog, peer, dials, tensorVars>>

\* RESOURCE_TABLE.remove: nothing to remove is an error of the expression.
Remove(t) == LET h == target[t].id IN
    /\ Runs(t, "remove")
    /\ Readers(h) = {}
    /\ table' = [table EXCEPT ![h] = "none"]
    /\ IF table[h] = "none" THEN Fail(t) ELSE Finish(t)
    /\ UNCHANGED <<nextId, backlog, peer, dials, tensorVars>>

\* Another process connects to a listener.
Dial(l) ==
    /\ table[l] = "tcp_listener"
    /\ dials < MaxDials
    /\ dials' = dials + 1
    /\ backlog' = [backlog EXCEPT ![l] = @ + 1]
    /\ UNCHANGED <<todo, pc, table, nextId, guard, target, peer, tensorVars>>

\* The other end of a stream writes or goes away.
PeerActs(h) ==
    /\ table[h] = "tcp"
    /\ peer[h] = "quiet"
    /\ \E s \in {"data", "closed"} : peer' = [peer EXCEPT ![h] = s]
    /\ UNCHANGED <<todo, pc, table, nextId, guard, target, backlog, dials, tensorVars>>

-----------------------------------------------------------------------------
(* Tensors.                                                                 *)

\* NEXT_TENSOR_ID and TENSOR_STORE are locked together: one step.
Allocate(n) ==
    /\ nextTensor + n <= MaxTensors + 1
    /\ nextTensor' = nextTensor + n
    /\ store' = store \union (nextTensor .. nextTensor + n - 1)

NoDevice(t) == Finish(t) /\ UNCHANGED <<store, nextTensor, work, named>>

\* tensor(m, n): a new tensor, or a text that says there is no memory.
NewTensor(t) ==
    /\ Runs(t, "next") /\ Now(t).op = "tensor"
    /\ \/ Allocate(1) /\ Finish(t) /\ named' = named \union {nextTensor} /\ UNCHANGED work
       \/ NoDevice(t)
    /\ UNCHANGED <<table, nextId, backlog, peer, dials, taken, blamed>>

\* a * b, a + b and relu(a): the result is allocated before anything is
\* compiled, and it is what the expression returns whatever happens next.
StartOperation(t) ==
    /\ Runs(t, "next") /\ Now(t).op \in {"mul", "add", "relu"}
    /\ \E a, b \in named :
         \/ /\ Allocate(1)
            /\ work' = [work EXCEPT ![t] =
                           [a |-> a, b |-> IF Now(t).op = "relu" THEN 0 ELSE b,
                            c |-> nextTensor, failed |-> "no"]]
            /\ Becomes(t, "compile")
            /\ UNCHANGED <<guard, target, named>>
         \/ NoDevice(t)
    /\ UNCHANGED <<table, nextId, backlog, peer, dials, taken, blamed>>

\* The operands are texts, not tensors: the intercept does not apply.
NoOperands(t) ==
    /\ Runs(t, "next") /\ Now(t).op \in {"mul", "add", "relu"}
    /\ named = {}
    /\ Finish(t)
    /\ UNCHANGED <<table, nextId, backlog, peer, dials, tensorVars>>

\* The statement MatMul allocates all three; a failure leaves the first ones.
StartMatMul(t) ==
    /\ Runs(t, "next") /\ Now(t).op = "matmul"
    /\ \/ /\ Allocate(3)
          /\ work' = [work EXCEPT ![t] = [a |-> nextTensor, b |-> nextTensor + 1,
                                          c |-> nextTensor + 2, failed |-> "no"]]
          /\ Becomes(t, "compile")
          /\ UNCHANGED <<guard, target>>
       \/ /\ \E n \in 0 .. 2 : Allocate(n)
          /\ todo' = [todo EXCEPT ![t] = <<>>]
          /\ UNCHANGED <<pc, guard, target, work>>
    /\ UNCHANGED <<table, nextId, backlog, peer, dials, taken, named, blamed>>

Operands(t) == {work[t].a, work[t].b, work[t].c} \ {0}

\* The operation on the device failed.  A product or a sum is tried again on
\* the CPU; ReLU and the MatMul statement log the error and go on.
DeviceFails(t, how) ==
    /\ blamed' = blamed \union Operands(t)
    /\ IF Now(t).op \in {"mul", "add"}
          THEN /\ work' = [work EXCEPT ![t].failed = how]
               /\ Becomes(t, "fallback")
               /\ UNCHANGED <<guard, target, named>>
          ELSE /\ work' = [work EXCEPT ![t] = NoWork]
               /\ Named(t)
               /\ Finish(t)

\* NVRTC, load_module and load_function come before the store is touched.
Compile(t) ==
    /\ Runs(t, "compile")
    /\ \/ Becomes(t, "take") /\ UNCHANGED <<guard, target, work, named, blamed>>
       \/ DeviceFails(t, "compile")
    /\ UNCHANGED <<table, nextId, backlog, peer, dials, store, nextTensor, taken>>

\* The order of the removals: the result, then the operands.
TakeOrder(t) == IF work[t].b = 0 THEN <<work[t].c, work[t].a>>
                                 ELSE <<work[t].c, work[t].a, work[t].b>>

\* The removals that succeed before the first that finds nothing.
Removed(t) == LET o == TakeOrder(t) IN
    {o[i] : i \in {j \in DOMAIN o :
                     \A k \in 1 .. j : o[k] \in store /\ \A l \in 1 .. k - 1 : o[l] # o[k]}}

\* The three removals under one lock; a `?` drops what is already removed.
Take(t) ==
    /\ Runs(t, "take")
    /\ store' = store \ Removed(t)
    /\ IF Cardinality(Removed(t)) = Len(TakeOrder(t))
          THEN /\ taken' = [taken EXCEPT ![t] = Removed(t)]
               /\ Becomes(t, "kernel")
               /\ UNCHANGED <<guard, target, work, named, blamed>>
          ELSE DeviceFails(t, "take") /\ UNCHANGED taken
    /\ UNCHANGED <<table, nextId, backlog, peer, dials, nextTensor>>

\* The kernel runs and everything goes back; a failed launch or synchronize
\* returns early, and the removed tensors are freed.
Kernel(t) ==
    /\ Runs(t, "kernel")
    /\ taken' = [taken EXCEPT ![t] = {}]
    /\ \/ /\ store' = store \union taken[t]
          /\ work' = [work EXCEPT ![t] = NoWork]
          /\ Named(t)
          /\ Finish(t)
          /\ UNCHANGED blamed
       \/ DeviceFails(t, "kernel") /\ UNCHANGED store
    /\ UNCHANGED <<table, nextId, backlog, peer, dials, nextTensor>>

\* cpu_execute_*: the operands are copied to the host under the lock.
FallbackReads(t) ==
    /\ Runs(t, "fallback")
    /\ IF {work[t].a, work[t].b} \subseteq store
          THEN Becomes(t, "host") /\ UNCHANGED <<guard, target, work, named>>
          ELSE Finish(t) /\ Named(t) /\ work' = [work EXCEPT ![t] = NoWork]
    /\ UNCHANGED <<table, nextId, backlog, peer, dials, store, nextTensor, taken, blamed>>

\* The result is removed, filled and put back; a failed copy frees it.
FallbackWrites(t) ==
    /\ Runs(t, "host")
    /\ work' = [work EXCEPT ![t] = NoWork]
    /\ Named(t)
    /\ Finish(t)
    /\ \/ UNCHANGED store
       \/ store' = store \ {work[t].c}
    /\ UNCHANGED <<table, nextId, backlog, peer, dials, nextTensor, taken, blamed>>

-----------------------------------------------------------------------------
Step(t) ==
    \/ Refused(t) \/ Listen(t) \/ Connect(t) \/ Insert(t) \/ Get(t) \/ Lock(t)
    \/ Accept(t) \/ Write(t) \/ Read(t)
    \/ \E h \in Handles : CloseStream(t, h)
    \/ CloseMalformed(t) \/ Remove(t)
    \/ NewTensor(t) \/ StartOperation(t) \/ NoOperands(t) \/ StartMatMul(t)
    \/ Compile(t) \/ Take(t) \/ Kernel(t) \/ FallbackReads(t) \/ FallbackWrites(t)

Next ==
    \/ \E t \in Tasks : Step(t)
    \/ \E h \in Handles : Dial(h) \/ PeerActs(h)

\* Tokio polls every task that can go on; of the other ends it is assumed
\* that they write or hang up, and that somebody connects to a listener.
Fairness ==
    /\ \A t \in Tasks : WF_vars(Step(t))
    /\ \A h \in Handles : WF_vars(PeerActs(h)) /\ WF_vars(Dial(h))

Spec == Init /\ [][Next]_vars /\ Fairness

-----------------------------------------------------------------------------
(* Properties.                                                              *)

\* An entry that a task uses stays in the table, of the kind it looked up,
\* until the task lets go of it: whatever other tasks close meanwhile.
UsedEntriesStay ==
    \A t \in Tasks : pc[t] \in {"lock", "io"} =>
        /\ guard[t] # 0
        /\ table[guard[t]] = IF Now(t).op = "accept" THEN "tcp_listener" ELSE "tcp"

\* tcp_stuur and tcp_ontvang promise to close a handle that fails ("Handle
\* gesloten").  They never get there: the task waits for its own guard, and
\* the entry and the guard stay for ever.
FailedHandleNeverCloses ==
    [][\A t \in Tasks : pc[t] = "remove" /\ Now(t).op \in {"send", "receive"} =>
          /\ pc'[t] = "remove" /\ guard'[t] = guard[t]
          /\ guard[t] # 0 /\ table'[guard[t]] = "tcp"]_vars

\* A task that waits for a shard of which it holds a guard itself.
WaitsForItself(t) == t \in Pinned /\ t \in Readers(target[t].id)

\* Every program ends, unless some task waits for its own guard for ever or
\* every worker thread waits for a shard for ever: the task that holds the
\* guard they wait for, in an accept or a read, then has no thread to run on.
ProgramsEnd ==
    \/ <>(\A t \in Tasks : todo[t] = <<>>)
    \/ <>[](\E t \in Tasks : WaitsForItself(t))
    \/ <>[](Cardinality(Pinned) >= Workers)

\* A tensor is in the store or in the hands of one operation, and the ones
\* that are in neither were operands of an operation that failed.
TensorsAccounted ==
    /\ \A t \in Tasks : taken[t] \intersect store = {}
    /\ \A t, u \in Tasks : t # u => taken[t] \intersect taken[u] = {}
    /\ 1 .. nextTensor - 1 \subseteq store \union blamed \union UNION {taken[t] : t \in Tasks}

\* The CPU fallback has a tensor to write to only when the device failed
\* before the store was touched: after any later failure the result tensor
\* is gone, although the expression still returns it.
FallbackOnlyAfterCompile ==
    \A t \in Tasks : pc[t] \in {"fallback", "host"} =>
        (work[t].c \in store <=> work[t].failed = "compile")
=============================================================================
