--------------------------- MODULE ResourcesProofs ---------------------------
(***************************************************************************)
(* Proofs about Resources, for any tasks, programs, handles, shards, worker *)
(* threads and tensors.                                                     *)
(***************************************************************************)
EXTENDS Resources, TLAPS

TensorPhases == {"compile", "take", "kernel", "fallback", "host"}

\* A task works on a tensor operation, with a result, exactly in its phases.
Working ==
    \A t \in Tasks : IF pc[t] \in TensorPhases THEN work[t].c # 0 ELSE work[t] = NoWork

\* A statement that removes a failed stream holds the guard of that entry.
Closing ==
    \A t \in Tasks : pc[t] = "remove" /\ Now(t).op \in {"send", "receive"} =>
        guard[t] # 0 /\ target[t].id = guard[t] /\ table[guard[t]] = "tcp"

TcpInv == TypeOK /\ Working /\ UsedEntriesStay /\ Closing

-----------------------------------------------------------------------------
\* The first operation of a program, and what is left behind it.
LEMMA Programmed ==
  ASSUME TypeOK, NEW t \in Tasks, todo[t] # <<>>
  PROVE  Now(t) \in Operations /\ Tail(todo[t]) \in Seq(Operations)
  <1>1. todo[t] \in Seq(Operations)
    BY DEF TypeOK
  <1> QED
    BY <1>1 DEF Now

\* The types of what the end of an operation assigns.
LEMMA FinishTypes ==
  ASSUME TypeOK, NEW t \in Tasks, todo[t] # <<>>, Finish(t) \/ Fail(t)
  PROVE  /\ todo' \in [Tasks -> Seq(Operations)]
         /\ pc' = [pc EXCEPT ![t] = "next"]
         /\ guard' = [guard EXCEPT ![t] = 0]
         /\ target' = [target EXCEPT ![t] = NoEntry]
         /\ \A u \in Tasks \ {t} : todo'[u] = todo[u]
  <1>1. Tail(todo[t]) \in Seq(Operations)
    BY Programmed
  <1>2. <<>> \in Seq(Operations)
    OBVIOUS
  <1>3. todo \in [Tasks -> Seq(Operations)]
    BY DEF TypeOK
  <1>4. todo' \in [Tasks -> Seq(Operations)] /\ \A u \in Tasks \ {t} : todo'[u] = todo[u]
    <2>1. CASE Finish(t)
      BY <2>1, <1>1, <1>3 DEF Finish
    <2>2. CASE Fail(t)
      BY <2>2, <1>1, <1>2, <1>3 DEF Fail
    <2> QED
      BY <2>1, <2>2
  <1> QED
    BY <1>4 DEF Finish, Fail

\* Between operations, types and tensor operations stay as they should.
LEMMA EndOfTcp ==
  ASSUME TypeOK, Working, NEW t \in Tasks, todo[t] # <<>>, Finish(t) \/ Fail(t),
         pc[t] \notin TensorPhases, UNCHANGED tensorVars
  PROVE  /\ Working'
         /\ todo' \in [Tasks -> Seq(Operations)]
         /\ pc' \in [Tasks -> {"next", "lock", "io", "insert", "remove"} \union TensorPhases]
         /\ guard' \in [Tasks -> Handles \union {0}]
         /\ target' \in [Tasks -> [id : Handles \union {0}, kind : {"none", "tcp_listener", "tcp"}]]
  <1>1. /\ pc' = [pc EXCEPT ![t] = "next"] /\ guard' = [guard EXCEPT ![t] = 0]
        /\ target' = [target EXCEPT ![t] = NoEntry] /\ todo' \in [Tasks -> Seq(Operations)]
    BY FinishTypes
  <1>2. Working'
    BY <1>1 DEF Working, TypeOK, tensorVars, TensorPhases
  <1> QED
    BY <1>1, <1>2 DEF TypeOK, NoEntry, TensorPhases

\* A change of the table of handles or of a task's place in a TCP operation.
LEMMA TcpTypes ==
  ASSUME TypeOK, Working, UNCHANGED tensorVars, NEW t \in Tasks, todo[t] # <<>>,
         pc[t] \notin TensorPhases,
         \/ Finish(t) \/ Fail(t)
         \/ /\ UNCHANGED todo
            /\ \E at \in {"lock", "io", "insert", "remove"} : pc' = [pc EXCEPT ![t] = at]
            /\ \E h \in Handles \union {0} : guard' = [guard EXCEPT ![t] = h]
            /\ \E x \in [id : Handles \union {0}, kind : {"none", "tcp_listener", "tcp"}] :
                  target' = [target EXCEPT ![t] = x],
         table' \in [Handles -> {"none", "tcp_listener", "tcp"}],
         nextId' \in 1 .. MaxHandles + 1,
         backlog' \in [Handles -> Nat],
         peer' \in [Handles -> {"quiet", "data", "closed"}],
         dials' \in 0 .. MaxDials
  PROVE  TypeOK' /\ Working'
  <1>1. Working' /\ todo' \in [Tasks -> Seq(Operations)]
        /\ pc' \in [Tasks -> {"next", "lock", "io", "insert", "remove"} \union TensorPhases]
        /\ guard' \in [Tasks -> Handles \union {0}]
        /\ target' \in [Tasks -> [id : Handles \union {0}, kind : {"none", "tcp_listener", "tcp"}]]
    <2>1. CASE Finish(t) \/ Fail(t)
      BY <2>1, EndOfTcp
    <2>2. CASE /\ UNCHANGED todo
               /\ \E at \in {"lock", "io", "insert", "remove"} : pc' = [pc EXCEPT ![t] = at]
               /\ \E h \in Handles \union {0} : guard' = [guard EXCEPT ![t] = h]
               /\ \E x \in [id : Handles \union {0}, kind : {"none", "tcp_listener", "tcp"}] :
                     target' = [target EXCEPT ![t] = x]
      <3>1. PICK at \in {"lock", "io", "insert", "remove"} : pc' = [pc EXCEPT ![t] = at]
        BY <2>2
      <3>2. Working'
        BY <3>1 DEF Working, TypeOK, tensorVars, TensorPhases
      <3>3. pc' \in [Tasks -> {"next", "lock", "io", "insert", "remove"} \union TensorPhases]
        BY <3>1 DEF TypeOK, TensorPhases
      <3>4. guard' \in [Tasks -> Handles \union {0}]
        BY <2>2 DEF TypeOK
      <3>5. target' \in [Tasks -> [id : Handles \union {0}, kind : {"none", "tcp_listener", "tcp"}]]
        BY <2>2 DEF TypeOK
      <3> QED
        BY <2>2, <3>2, <3>3, <3>4, <3>5 DEF TypeOK
    <2> QED
      BY <2>1, <2>2
  <1>2. (/\ store \subseteq Tensors
         /\ nextTensor \in 1 .. MaxTensors + 1
         /\ work \in [Tasks -> [a : Tensors \union {0}, b : Tensors \union {0}, c : Tensors \union {0},
                                failed : {"no", "compile", "take", "kernel"}]]
         /\ taken \in [Tasks -> SUBSET Tensors]
         /\ named \subseteq Tensors
         /\ blamed \subseteq Tensors)'
    BY DEF TypeOK, tensorVars
  <1> QED
    BY <1>1, <1>2 DEF TypeOK, TensorPhases

\* Every TCP operation keeps the types, and leaves tensor operations alone.
LEMMA TcpStepTypes ==
  ASSUME TypeOK, Working, NEW t \in Tasks,
         \/ Refused(t) \/ Listen(t) \/ Connect(t) \/ Insert(t) \/ Get(t) \/ Lock(t)
         \/ Accept(t) \/ Write(t) \/ Read(t)
         \/ \E h \in Handles : CloseStream(t, h)
         \/ CloseMalformed(t) \/ Remove(t)
  PROVE  TypeOK' /\ Working'
  <1> USE ResourcesAssumption
  <1> DEFINE Kinds == {"none", "tcp_listener", "tcp"}
             Entries == [id : Handles \union {0}, kind : Kinds]
  <1>0. /\ table \in [Handles -> Kinds] /\ nextId \in 1 .. MaxHandles + 1
        /\ backlog \in [Handles -> Nat] /\ peer \in [Handles -> {"quiet", "data", "closed"}]
        /\ dials \in 0 .. MaxDials /\ guard \in [Tasks -> Handles \union {0}]
        /\ target \in [Tasks -> Entries] /\ pc[t] = pc[t]
        /\ guard = [guard EXCEPT ![t] = guard[t]] /\ target = [target EXCEPT ![t] = target[t]]
    BY DEF TypeOK
  <1>1. CASE Refused(t)
    BY <1>1, <1>0, TcpTypes DEF Refused, Runs, TensorPhases
  <1>2. CASE Listen(t)
    <2>1. CASE Fail(t) /\ UNCHANGED nextId
      BY <1>2, <2>1, <1>0, TcpTypes DEF Listen, Runs, TensorPhases
    <2>2. CASE /\ nextId <= MaxHandles /\ nextId' = nextId + 1
               /\ target' = [target EXCEPT ![t] = [id |-> nextId, kind |-> "tcp_listener"]]
               /\ Becomes(t, "insert") /\ UNCHANGED guard
      <3>1. nextId \in Handles /\ nextId' \in 1 .. MaxHandles + 1
        BY <2>2, <1>0 DEF Handles
      <3>2. [id |-> nextId, kind |-> "tcp_listener"] \in Entries
        BY <3>1
      <3> QED
        BY <1>2, <2>2, <3>1, <3>2, <1>0, TcpTypes DEF Listen, Runs, Becomes, TensorPhases
    <2> QED
      BY <1>2, <2>1, <2>2 DEF Listen
  <1>3. CASE Connect(t)
    <2>0. backlog' \in [Handles -> Nat]
      BY <1>3, <1>0 DEF Connect
    <2>1. CASE Fail(t) /\ UNCHANGED <<nextId, backlog>>
      BY <1>3, <2>1, <1>0, TcpTypes DEF Connect, Runs, TensorPhases
    <2>2. CASE /\ nextId <= MaxHandles /\ nextId' = nextId + 1
               /\ target' = [target EXCEPT ![t] = [id |-> nextId, kind |-> "tcp"]]
               /\ Becomes(t, "insert") /\ UNCHANGED guard
      <3>1. nextId \in Handles /\ nextId' \in 1 .. MaxHandles + 1
        BY <2>2, <1>0 DEF Handles
      <3>2. [id |-> nextId, kind |-> "tcp"] \in Entries
        BY <3>1
      <3> QED
        BY <1>3, <2>0, <2>2, <3>1, <3>2, <1>0, TcpTypes DEF Connect, Runs, Becomes, TensorPhases
    <2> QED
      BY <1>3, <2>1, <2>2 DEF Connect
  <1>4. CASE Insert(t)
    <2>1. table' \in [Handles -> Kinds]
      BY <1>4, <1>0 DEF Insert
    <2> QED
      BY <1>4, <2>1, <1>0, TcpTypes DEF Insert, Runs, TensorPhases
  <1>5. CASE Get(t)
    <2>1. CASE Fail(t) /\ UNCHANGED <<table, nextId, backlog, peer, dials, tensorVars>>
      BY <1>5, <2>1, <1>0, TcpTypes DEF Get, Runs, TensorPhases
    <2>2. ASSUME NEW h \in Handles, NEW kind, TakeGuard(t, h, kind) PROVE TypeOK' /\ Working'
      BY <1>5, <2>2, <1>0, TcpTypes DEF Get, TakeGuard, Runs, Becomes, TensorPhases
    <2> QED
      BY <1>5, <2>1, <2>2 DEF Get
  <1>6. CASE Lock(t)
    BY <1>6, <1>0, TcpTypes DEF Lock, Runs, Becomes, TensorPhases, tcpVars
  <1>7. CASE Accept(t)
    <2>0. backlog' \in [Handles -> Nat]
      <3>1. backlog' = [backlog EXCEPT ![guard[t]] = @ - 1] /\ backlog[guard[t]] > 0
        BY <1>7 DEF Accept
      <3>2. ASSUME NEW h \in Handles PROVE backlog'[h] \in Nat
        <4>1. backlog[h] \in Nat
          BY <1>0
        <4> QED
          BY <4>1, <3>1, <1>0
      <3> QED
        BY <3>1, <3>2, <1>0
    <2>1. CASE Fail(t) /\ UNCHANGED nextId
      BY <1>7, <2>0, <2>1, <1>0, TcpTypes DEF Accept, Runs, TensorPhases
    <2>2. CASE /\ nextId <= MaxHandles /\ nextId' = nextId + 1
               /\ target' = [target EXCEPT ![t] = [id |-> nextId, kind |-> "tcp"]]
               /\ Becomes(t, "insert") /\ UNCHANGED guard
      <3>1. nextId \in Handles /\ nextId' \in 1 .. MaxHandles + 1
        BY <2>2, <1>0 DEF Handles
      <3>2. [id |-> nextId, kind |-> "tcp"] \in Entries
        BY <3>1
      <3> QED
        BY <1>7, <2>0, <2>2, <3>1, <3>2, <1>0, TcpTypes DEF Accept, Runs, Becomes, TensorPhases
    <2> QED
      BY <1>7, <2>1, <2>2 DEF Accept
  <1>8. CASE Write(t)
    <2>1. CASE Finish(t) \/ Fail(t)
      BY <1>8, <2>1, <1>0, TcpTypes DEF Write, Runs, TensorPhases
    <2>2. CASE RemoveUnderGuard(t)
      <3>1. [id |-> guard[t], kind |-> "tcp"] \in Entries
        BY <1>0
      <3> QED
        BY <1>8, <2>2, <3>1, <1>0, TcpTypes DEF Write, RemoveUnderGuard, Runs, Becomes, TensorPhases
    <2> QED
      BY <1>8, <2>1, <2>2 DEF Write
  <1>9. CASE Read(t)
    <2>0. peer' \in [Handles -> {"quiet", "data", "closed"}]
      <3>1. peer' = [peer EXCEPT ![guard[t]] = "quiet"] \/ UNCHANGED peer
        BY <1>9 DEF Read
      <3> QED
        BY <3>1, <1>0
    <2>1. CASE Finish(t) \/ Fail(t)
      BY <1>9, <2>0, <2>1, <1>0, TcpTypes DEF Read, Runs, TensorPhases
    <2>2. CASE RemoveUnderGuard(t)
      <3>1. [id |-> guard[t], kind |-> "tcp"] \in Entries
        BY <1>0
      <3> QED
        BY <1>9, <2>0, <2>2, <3>1, <1>0, TcpTypes DEF Read, RemoveUnderGuard, Runs, Becomes, TensorPhases
    <2> QED
      BY <1>9, <2>1, <2>2 DEF Read
  <1>10. ASSUME NEW h \in Handles, CloseStream(t, h) PROVE TypeOK' /\ Working'
    <2>1. [id |-> h, kind |-> "tcp"] \in Entries
      OBVIOUS
    <2> QED
      BY <1>10, <2>1, <1>0, TcpTypes DEF CloseStream, Runs, Becomes, TensorPhases
  <1>11. CASE CloseMalformed(t)
    BY <1>11, <1>0, TcpTypes DEF CloseMalformed, Runs, TensorPhases
  <1>12. CASE Remove(t)
    <2>1. table' \in [Handles -> Kinds]
      BY <1>12, <1>0 DEF Remove
    <2> QED
      BY <1>12, <2>1, <1>0, TcpTypes DEF Remove, Runs, TensorPhases
  <1> QED
    BY <1>1, <1>2, <1>3, <1>4, <1>5, <1>6, <1>7, <1>8, <1>9, <1>10, <1>11, <1>12

-----------------------------------------------------------------------------
Jobs == [a : Tensors \union {0}, b : Tensors \union {0}, c : Tensors \union {0},
         failed : {"no", "compile", "take", "kernel"}]

\* A tensor operation that goes on, or ends.
LEMMA TensorTypes ==
  ASSUME TypeOK, Working, UNCHANGED <<table, nextId, backlog, peer, dials>>,
         NEW t \in Tasks, todo[t] # <<>>,
         \/ Finish(t) /\ work' = [work EXCEPT ![t] = NoWork]
         \/ /\ UNCHANGED <<todo, guard, target>>
            /\ \E at \in TensorPhases : pc' = [pc EXCEPT ![t] = at]
            /\ \E w \in Jobs : w.c # 0 /\ work' = [work EXCEPT ![t] = w],
         store' \subseteq Tensors, nextTensor' \in 1 .. MaxTensors + 1,
         taken' \in [Tasks -> SUBSET Tensors], named' \subseteq Tensors, blamed' \subseteq Tensors
  PROVE  TypeOK' /\ Working'
  <1>0. NoWork \in Jobs /\ work \in [Tasks -> Jobs] /\ pc \in [Tasks -> {"next", "lock", "io", "insert", "remove"} \union TensorPhases]
    BY DEF NoWork, Jobs, TypeOK, TensorPhases
  <1>1. /\ todo' \in [Tasks -> Seq(Operations)]
        /\ guard' \in [Tasks -> Handles \union {0}]
        /\ target' \in [Tasks -> [id : Handles \union {0}, kind : {"none", "tcp_listener", "tcp"}]]
        /\ pc' \in [Tasks -> {"next", "lock", "io", "insert", "remove"} \union TensorPhases]
        /\ work' \in [Tasks -> Jobs]
        /\ Working'
    <2>1. CASE Finish(t) /\ work' = [work EXCEPT ![t] = NoWork]
      <3>1. /\ todo' \in [Tasks -> Seq(Operations)]
            /\ pc' = [pc EXCEPT ![t] = "next"]
            /\ guard' = [guard EXCEPT ![t] = 0]
            /\ target' = [target EXCEPT ![t] = NoEntry]
        BY <2>1, FinishTypes
      <3>2. Working'
        BY <2>1, <3>1, <1>0 DEF Working, TensorPhases
      <3> QED
        BY <2>1, <3>1, <3>2, <1>0 DEF TypeOK, NoEntry
    <2>2. CASE /\ UNCHANGED <<todo, guard, target>>
               /\ \E at \in TensorPhases : pc' = [pc EXCEPT ![t] = at]
               /\ \E w \in Jobs : w.c # 0 /\ work' = [work EXCEPT ![t] = w]
      <3>1. PICK at \in TensorPhases, w \in Jobs :
              pc' = [pc EXCEPT ![t] = at] /\ w.c # 0 /\ work' = [work EXCEPT ![t] = w]
        BY <2>2
      <3>2. Working'
        BY <3>1, <1>0 DEF Working
      <3> QED
        BY <2>2, <3>1, <3>2, <1>0 DEF TypeOK
    <2> QED
      BY <2>1, <2>2
  <1> QED
    BY <1>1 DEF TypeOK, Jobs, TensorPhases

\* What an operation removes was in the store and is an operand of it; the
\* result is the first to go.
LEMMA RemovedFacts ==
  ASSUME TypeOK, NEW t \in Tasks
  PROVE  /\ Removed(t) \subseteq store /\ Removed(t) \subseteq Operands(t)
         /\ work[t].c \in store => work[t].c \in Removed(t)
  <1> USE ResourcesAssumption
  <1> DEFINE o == TakeOrder(t)
  <1>0. /\ \/ o = <<work[t].c, work[t].a>>
           \/ o = <<work[t].c, work[t].a, work[t].b>>
        /\ 0 \notin store
    BY DEF TakeOrder, TypeOK, Tensors
  <1>1. /\ DOMAIN o \subseteq Nat \ {0} /\ 1 \in DOMAIN o /\ o[1] = work[t].c
        /\ \A i \in DOMAIN o : o[i] \in {work[t].a, work[t].b, work[t].c}
    BY <1>0
  <1>2. Removed(t) = {o[i] : i \in {j \in DOMAIN o :
                        \A k \in 1 .. j : o[k] \in store /\ \A l \in 1 .. k - 1 : o[l] # o[k]}}
    BY DEF Removed
  <1> HIDE DEF o
  <1>3. ASSUME NEW x \in Removed(t) PROVE x \in store /\ x \in Operands(t)
    <2>1. PICK i \in DOMAIN o : x = o[i] /\ \A k \in 1 .. i : o[k] \in store
      BY <1>2
    <2>2. i \in 1 .. i
      BY <1>1
    <2> QED
      BY <2>1, <2>2, <1>0, <1>1 DEF Operands
  <1>4. ASSUME work[t].c \in store PROVE work[t].c \in Removed(t)
    <2>1. \A k \in 1 .. 1 : o[k] \in store /\ \A l \in 1 .. k - 1 : o[l] # o[k]
      BY <1>4, <1>1
    <2> QED
      BY <2>1, <1>1, <1>2
  <1> QED
    BY <1>3, <1>4

\* Every step of a tensor operation keeps the types.
LEMMA TensorStepTypes ==
  ASSUME TypeOK, Working, NEW t \in Tasks,
         \/ NewTensor(t) \/ StartOperation(t) \/ NoOperands(t) \/ StartMatMul(t)
         \/ Compile(t) \/ Take(t) \/ Kernel(t) \/ FallbackReads(t) \/ FallbackWrites(t)
  PROVE  TypeOK' /\ Working'
  <1> USE ResourcesAssumption
  <1>0. /\ store \subseteq Tensors /\ nextTensor \in 1 .. MaxTensors + 1
        /\ taken \in [Tasks -> SUBSET Tensors] /\ named \subseteq Tensors /\ blamed \subseteq Tensors
        /\ work \in [Tasks -> Jobs] /\ work = [work EXCEPT ![t] = work[t]]
        /\ taken = [taken EXCEPT ![t] = taken[t]]
    BY DEF TypeOK, Jobs
  <1>1. ASSUME NEW n \in Nat, Allocate(n)
        PROVE  /\ store' \subseteq Tensors /\ nextTensor' \in 1 .. MaxTensors + 1
               /\ nextTensor .. nextTensor + n - 1 \subseteq Tensors
    BY <1>1, <1>0 DEF Allocate, Tensors
  <1>2. pc[t] = "next" => work[t] = NoWork
    BY DEF Working, TensorPhases
  <1>3. ASSUME pc[t] \in TensorPhases
        PROVE  /\ work[t] \in Jobs /\ work[t].c \in Tensors /\ Operands(t) \subseteq Tensors
               /\ (Named(t) => named' \subseteq Tensors)
    <2>1. work[t] \in Jobs /\ work[t].c # 0
      BY <1>3, <1>0 DEF Working
    <2>2. work[t].c \in Tensors /\ Operands(t) \subseteq Tensors
      BY <2>1 DEF Jobs, Operands
    <2> QED
      BY <2>1, <2>2, <1>0 DEF Named
  <1>4. ASSUME pc[t] \in TensorPhases, todo[t] # <<>>, NEW how \in {"compile", "take", "kernel"},
               DeviceFails(t, how), UNCHANGED <<table, nextId, backlog, peer, dials, nextTensor>>,
               store' \subseteq Tensors, taken' \in [Tasks -> SUBSET Tensors]
        PROVE  TypeOK' /\ Working'
    <2>1. blamed' \subseteq Tensors /\ nextTensor' \in 1 .. MaxTensors + 1
      BY <1>4, <1>3, <1>0 DEF DeviceFails
    <2>2. CASE Now(t).op \in {"mul", "add"}
      <3>1. [work[t] EXCEPT !.failed = how] \in Jobs /\ [work[t] EXCEPT !.failed = how].c # 0
        BY <1>4, <1>3 DEF Jobs, Tensors
      <3>2. work' = [work EXCEPT ![t] = [work[t] EXCEPT !.failed = how]]
        BY <2>2, <1>4 DEF DeviceFails
      <3> QED
        BY <2>1, <2>2, <3>1, <3>2, <1>4, <1>0, TensorTypes DEF DeviceFails, Becomes, TensorPhases
    <2>3. CASE Now(t).op \notin {"mul", "add"}
      BY <2>1, <2>3, <1>3, <1>4, <1>0, TensorTypes DEF DeviceFails
    <2> QED
      BY <2>2, <2>3
  <1>5. CASE NewTensor(t)
    <2>1. pc[t] = "next" /\ todo[t] # <<>>
      BY <1>5 DEF NewTensor, Runs
    <2>2. CASE Allocate(1) /\ Finish(t) /\ named' = named \union {nextTensor} /\ UNCHANGED work
      <3>1. store' \subseteq Tensors /\ nextTensor' \in 1 .. MaxTensors + 1 /\ nextTensor \in Tensors
        BY <2>2, <1>1, <1>0 DEF Tensors
      <3> QED
        BY <1>5, <2>1, <2>2, <3>1, <1>0, <1>2, TensorTypes DEF NewTensor
    <2>3. CASE NoDevice(t)
      BY <1>5, <2>1, <2>3, <1>0, <1>2, TensorTypes DEF NewTensor, NoDevice
    <2> QED
      BY <1>5, <2>2, <2>3 DEF NewTensor
  <1>6. CASE StartOperation(t)
    <2>1. pc[t] = "next" /\ todo[t] # <<>>
      BY <1>6 DEF StartOperation, Runs
    <2>2. PICK a \in named, b \in named :
            \/ /\ Allocate(1)
               /\ work' = [work EXCEPT ![t] =
                              [a |-> a, b |-> IF Now(t).op = "relu" THEN 0 ELSE b,
                               c |-> nextTensor, failed |-> "no"]]
               /\ Becomes(t, "compile")
               /\ UNCHANGED <<guard, target, named>>
            \/ NoDevice(t)
      BY <1>6 DEF StartOperation
    <2>3. CASE NoDevice(t)
      BY <1>6, <2>1, <2>3, <1>0, <1>2, TensorTypes DEF StartOperation, NoDevice
    <2>4. CASE ~NoDevice(t)
      <3> DEFINE w == [a |-> a, b |-> IF Now(t).op = "relu" THEN 0 ELSE b,
                       c |-> nextTensor, failed |-> "no"]
      <3>1. store' \subseteq Tensors /\ nextTensor' \in 1 .. MaxTensors + 1 /\ nextTensor \in Tensors
        BY <2>2, <2>4, <1>1, <1>0 DEF Tensors
      <3>2. w \in Jobs /\ w.c # 0
        <4>1. a \in Tensors /\ b \in Tensors /\ nextTensor # 0
          BY <3>1, <1>0 DEF Tensors
        <4> QED
          BY <4>1, <3>1 DEF Jobs
      <3>3. /\ work' = [work EXCEPT ![t] = w] /\ UNCHANGED <<todo, guard, target, named>>
            /\ pc' = [pc EXCEPT ![t] = "compile"]
            /\ UNCHANGED <<table, nextId, backlog, peer, dials, taken, blamed>>
        BY <1>6, <2>2, <2>4 DEF StartOperation, Becomes
      <3> HIDE DEF w
      <3> QED
        BY <2>1, <3>1, <3>2, <3>3, <1>0, TensorTypes DEF TensorPhases
    <2> QED
      BY <2>3, <2>4
  <1>7. CASE NoOperands(t)
    BY <1>7, <1>0, <1>2, TensorTypes DEF NoOperands, Runs, tensorVars
  <1>8. CASE StartMatMul(t)
    <2>1. pc[t] = "next" /\ todo[t] # <<>> /\ UNCHANGED <<table, nextId, backlog, peer, dials, taken, named, blamed>>
      BY <1>8 DEF StartMatMul, Runs
    <2>2. CASE /\ Allocate(3)
               /\ work' = [work EXCEPT ![t] = [a |-> nextTensor, b |-> nextTensor + 1,
                                               c |-> nextTensor + 2, failed |-> "no"]]
               /\ Becomes(t, "compile")
               /\ UNCHANGED <<guard, target>>
      <3> DEFINE w == [a |-> nextTensor, b |-> nextTensor + 1, c |-> nextTensor + 2, failed |-> "no"]
      <3>1. store' \subseteq Tensors /\ nextTensor' \in 1 .. MaxTensors + 1
            /\ nextTensor .. nextTensor + 3 - 1 \subseteq Tensors
        BY <2>2, <1>1
      <3>2. w \in Jobs /\ w.c # 0
        <4>1. nextTensor \in Tensors /\ nextTensor + 1 \in Tensors /\ nextTensor + 2 \in Tensors /\ nextTensor + 2 # 0
          BY <3>1, <1>0
        <4> QED
          BY <4>1 DEF Jobs
      <3>3. work' = [work EXCEPT ![t] = w] /\ UNCHANGED todo /\ pc' = [pc EXCEPT ![t] = "compile"]
        BY <2>2 DEF Becomes
      <3> HIDE DEF w
      <3> QED
        BY <2>1, <2>2, <3>1, <3>2, <3>3, <1>0, TensorTypes DEF TensorPhases
    <2>3. CASE /\ \E n \in 0 .. 2 : Allocate(n)
               /\ todo' = [todo EXCEPT ![t] = <<>>]
               /\ UNCHANGED <<pc, guard, target, work>>
      <3>1. store' \subseteq Tensors /\ nextTensor' \in 1 .. MaxTensors + 1
        BY <2>3, <1>1
      <3>2. Working'
        BY <2>3 DEF Working
      <3>3. todo' \in [Tasks -> Seq(Operations)]
        BY <2>3 DEF TypeOK
      <3> QED
        BY <2>1, <2>3, <3>1, <3>2, <3>3 DEF TypeOK
    <2> QED
      BY <1>8, <2>2, <2>3 DEF StartMatMul
  <1>9. CASE Compile(t)
    <2>1. pc[t] \in TensorPhases /\ todo[t] # <<>>
          /\ UNCHANGED <<table, nextId, backlog, peer, dials, store, nextTensor, taken>>
      BY <1>9 DEF Compile, Runs, TensorPhases
    <2>2. CASE Becomes(t, "take") /\ UNCHANGED <<guard, target, work, named, blamed>>
      <3>1. work[t] \in Jobs /\ work[t].c # 0
        BY <2>1, <1>3 DEF Tensors
      <3> QED
        BY <2>1, <2>2, <3>1, <1>0, TensorTypes DEF Becomes, TensorPhases
    <2>3. CASE DeviceFails(t, "compile")
      BY <2>1, <2>3, <1>4, <1>0
    <2> QED
      BY <1>9, <2>2, <2>3 DEF Compile
  <1>10. CASE Take(t)
    <2>1. /\ pc[t] \in TensorPhases /\ todo[t] # <<>> /\ store' = store \ Removed(t)
          /\ UNCHANGED <<table, nextId, backlog, peer, dials, nextTensor>>
      BY <1>10 DEF Take, Runs, TensorPhases
    <2>2. Removed(t) \subseteq store
      BY RemovedFacts
    <2>3. CASE /\ taken' = [taken EXCEPT ![t] = Removed(t)]
               /\ Becomes(t, "kernel")
               /\ UNCHANGED <<guard, target, work, named, blamed>>
      <3>1. work[t] \in Jobs /\ work[t].c # 0
        BY <2>1, <1>3 DEF Tensors
      <3>2. taken' \in [Tasks -> SUBSET Tensors] /\ store' \subseteq Tensors
        BY <2>1, <2>2, <2>3, <1>0
      <3> QED
        BY <2>1, <2>3, <3>1, <3>2, <1>0, TensorTypes DEF Becomes, TensorPhases
    <2>4. CASE DeviceFails(t, "take") /\ UNCHANGED taken
      BY <2>1, <2>4, <1>4, <1>0
    <2> QED
      BY <1>10, <2>3, <2>4 DEF Take
  <1>11. CASE Kernel(t)
    <2>1. /\ pc[t] \in TensorPhases /\ todo[t] # <<>> /\ taken' = [taken EXCEPT ![t] = {}]
          /\ UNCHANGED <<table, nextId, backlog, peer, dials, nextTensor>>
      BY <1>11 DEF Kernel, Runs, TensorPhases
    <2>2. taken' \in [Tasks -> SUBSET Tensors]
      BY <2>1, <1>0
    <2>3. CASE /\ store' = store \union taken[t]
               /\ work' = [work EXCEPT ![t] = NoWork]
               /\ Named(t) /\ Finish(t) /\ UNCHANGED blamed
      <3>1. store' \subseteq Tensors
        BY <2>3, <1>0
      <3> QED
        BY <2>1, <2>2, <2>3, <3>1, <1>0, <1>3, TensorTypes
    <2>4. CASE DeviceFails(t, "kernel") /\ UNCHANGED store
      BY <2>1, <2>2, <2>4, <1>4, <1>0
    <2> QED
      BY <1>11, <2>3, <2>4 DEF Kernel
  <1>12. CASE FallbackReads(t)
    <2>1. /\ pc[t] \in TensorPhases /\ todo[t] # <<>>
          /\ UNCHANGED <<table, nextId, backlog, peer, dials, store, nextTensor, taken, blamed>>
      BY <1>12 DEF FallbackReads, Runs, TensorPhases
    <2>2. CASE Becomes(t, "host") /\ UNCHANGED <<guard, target, work, named>>
      <3>1. work[t] \in Jobs /\ work[t].c # 0
        BY <2>1, <1>3 DEF Tensors
      <3> QED
        BY <2>1, <2>2, <3>1, <1>0, TensorTypes DEF Becomes, TensorPhases
    <2>3. CASE Finish(t) /\ Named(t) /\ work' = [work EXCEPT ![t] = NoWork]
      BY <2>1, <2>3, <1>0, <1>3, TensorTypes
    <2> QED
      BY <1>12, <2>2, <2>3 DEF FallbackReads
  <1>13. CASE FallbackWrites(t)
    <2>1. /\ pc[t] \in TensorPhases /\ todo[t] # <<>> /\ Finish(t) /\ Named(t)
          /\ work' = [work EXCEPT ![t] = NoWork] /\ store' \subseteq store
          /\ UNCHANGED <<table, nextId, backlog, peer, dials, nextTensor, taken, blamed>>
      BY <1>13 DEF FallbackWrites, Runs, TensorPhases
    <2> QED
      BY <2>1, <1>0, <1>3, TensorTypes
  <1> QED
    BY <1>5, <1>6, <1>7, <1>8, <1>9, <1>10, <1>11, <1>12, <1>13

-----------------------------------------------------------------------------
\* Who waits for the environment changes no task and no tensor.
LEMMA EnvironmentTypes ==
  ASSUME TypeOK, Working, NEW h \in Handles, Dial(h) \/ PeerActs(h)
  PROVE  TypeOK' /\ Working'
  <1> USE ResourcesAssumption
  <1>1. Working'
    BY DEF Dial, PeerActs, tensorVars, Working
  <1>2. CASE Dial(h)
    <2>1. (backlog \in [Handles -> Nat])' /\ (dials \in 0 .. MaxDials)'
      BY <1>2 DEF Dial, TypeOK
    <2> QED
      BY <1>1, <1>2, <2>1 DEF Dial, TypeOK, tensorVars
  <1>3. CASE PeerActs(h)
    <2>1. (peer \in [Handles -> {"quiet", "data", "closed"}])'
      BY <1>3 DEF PeerActs, TypeOK
    <2> QED
      BY <1>1, <1>3, <2>1 DEF PeerActs, TypeOK, tensorVars
  <1> QED
    BY <1>2, <1>3

\* A step that leaves the table alone, after which its task waits neither for
\* a stream nor to remove anything.
LEMMA Leaves ==
  ASSUME TcpInv, NEW t \in Tasks, UNCHANGED table,
         \A u \in Tasks \ {t} : /\ todo'[u] = todo[u] /\ pc'[u] = pc[u]
                                /\ guard'[u] = guard[u] /\ target'[u] = target[u],
         pc'[t] \notin {"lock", "io", "remove"}
  PROVE  UsedEntriesStay' /\ Closing'
  BY DEF TcpInv, UsedEntriesStay, Closing, Now

\* The end of an operation, with or without an error.
LEMMA EndLeaves ==
  ASSUME TcpInv, NEW t \in Tasks, todo[t] # <<>>, Finish(t) \/ Fail(t), UNCHANGED table
  PROVE  UsedEntriesStay' /\ Closing'
  <1>1. /\ \A u \in Tasks \ {t} : todo'[u] = todo[u]
        /\ pc' = [pc EXCEPT ![t] = "next"] /\ guard' = [guard EXCEPT ![t] = 0]
        /\ target' = [target EXCEPT ![t] = NoEntry]
    BY FinishTypes DEF TcpInv
  <1> QED
    BY <1>1, Leaves DEF TcpInv, TypeOK

\* An entry is only inserted or removed while nobody has a guard of its shard:
\* not the entry that any task uses, or is to remove itself.
LEMMA OthersEntriesStay ==
  ASSUME TcpInv, NEW t \in Tasks, todo[t] # <<>>, Finish(t) \/ Fail(t),
         pc[t] \notin {"lock", "io"}, Readers(target[t].id) = {},
         \E kind \in {"none", "tcp_listener", "tcp"} :
            table' = [table EXCEPT ![target[t].id] = kind]
  PROVE  UsedEntriesStay' /\ Closing'
  <1>1. /\ \A u \in Tasks \ {t} : todo'[u] = todo[u]
        /\ pc' = [pc EXCEPT ![t] = "next"] /\ guard' = [guard EXCEPT ![t] = 0]
        /\ target' = [target EXCEPT ![t] = NoEntry]
    BY FinishTypes DEF TcpInv
  <1>2. ASSUME NEW u \in Tasks, guard[u] # 0 PROVE table'[guard[u]] = table[guard[u]]
    <2>1. guard[u] # target[t].id
      BY <1>2 DEF Readers
    <2>2. guard[u] \in Handles /\ table \in [Handles -> {"none", "tcp_listener", "tcp"}]
      BY <1>2 DEF TcpInv, TypeOK
    <2> QED
      BY <2>1, <2>2
  <1> QED
    BY <1>1, <1>2 DEF TcpInv, TypeOK, UsedEntriesStay, Closing, Now

\* The guards keep what they are for, step by step.
LEMMA TcpStepGuards ==
  ASSUME TcpInv, NEW t \in Tasks,
         \/ Refused(t) \/ Listen(t) \/ Connect(t) \/ Insert(t) \/ Get(t) \/ Lock(t)
         \/ Accept(t) \/ Write(t) \/ Read(t)
         \/ \E h \in Handles : CloseStream(t, h)
         \/ CloseMalformed(t) \/ Remove(t)
  PROVE  UsedEntriesStay' /\ Closing'
  <1>0. todo[t] # <<>>
    BY DEF Refused, Listen, Connect, Insert, Get, Lock, Accept, Write, Read, CloseStream,
           CloseMalformed, Remove, Runs
  <1>1. ASSUME Becomes(t, "insert"), UNCHANGED <<table, guard>>,
               \E x : target' = [target EXCEPT ![t] = x]
        PROVE  UsedEntriesStay' /\ Closing'
    BY <1>1, Leaves DEF Becomes, TcpInv, TypeOK
  <1>2. ASSUME Now(t).op \in {"send", "receive"}, pc[t] = "io", RemoveUnderGuard(t), UNCHANGED table
        PROVE  UsedEntriesStay' /\ Closing'
    <2>1. guard[t] # 0 /\ table[guard[t]] = "tcp"
      BY <1>2 DEF TcpInv, UsedEntriesStay
    <2> QED
      BY <1>2, <2>1 DEF RemoveUnderGuard, Becomes, TcpInv, TypeOK, UsedEntriesStay, Closing, Now
  <1>3. CASE Refused(t) \/ CloseMalformed(t)
    BY <1>3, <1>0, EndLeaves DEF Refused, CloseMalformed
  <1>4. CASE Listen(t)
    BY <1>4, <1>0, <1>1, EndLeaves DEF Listen
  <1>5. CASE Connect(t)
    BY <1>5, <1>0, <1>1, EndLeaves DEF Connect
  <1>6. CASE Insert(t)
    <2>1. target[t].kind \in {"none", "tcp_listener", "tcp"}
      BY DEF TcpInv, TypeOK
    <2> QED
      BY <1>6, <2>1, <1>0, OthersEntriesStay DEF Insert, Runs
  <1>7. CASE Get(t)
    <2>1. ASSUME NEW h \in Handles,
                 TakeGuard(t, h, IF Now(t).op = "accept" THEN "tcp_listener" ELSE "tcp")
          PROVE  UsedEntriesStay' /\ Closing'
      <3>1. h # 0
        BY DEF Handles
      <3> QED
        BY <2>1, <3>1 DEF TakeGuard, Becomes, TcpInv, TypeOK, UsedEntriesStay, Closing, Now
    <2> QED
      BY <1>7, <2>1, <1>0, EndLeaves DEF Get
  <1>8. CASE Lock(t)
    BY <1>8 DEF Lock, Runs, Becomes, tcpVars, TcpInv, TypeOK, UsedEntriesStay, Closing, Now
  <1>9. CASE Accept(t)
    BY <1>9, <1>0, <1>1, EndLeaves DEF Accept
  <1>10. CASE Write(t)
    BY <1>10, <1>0, <1>2, EndLeaves DEF Write, Runs
  <1>11. CASE Read(t)
    BY <1>11, <1>0, <1>2, EndLeaves DEF Read, Runs
  <1>12. ASSUME NEW h \in Handles, CloseStream(t, h) PROVE UsedEntriesStay' /\ Closing'
    BY <1>12 DEF CloseStream, Becomes, TcpInv, TypeOK, UsedEntriesStay, Closing, Now
  <1>13. CASE Remove(t)
    BY <1>13, <1>0, OthersEntriesStay DEF Remove, Runs
  <1> QED
    BY <1>3, <1>4, <1>5, <1>6, <1>7, <1>8, <1>9, <1>10, <1>11, <1>12, <1>13

\* Tensor operations hold no guards.
LEMMA TensorStepGuards ==
  ASSUME TcpInv, NEW t \in Tasks,
         \/ NewTensor(t) \/ StartOperation(t) \/ NoOperands(t) \/ StartMatMul(t)
         \/ Compile(t) \/ Take(t) \/ Kernel(t) \/ FallbackReads(t) \/ FallbackWrites(t)
  PROVE  UsedEntriesStay' /\ Closing'
  <1>0. todo[t] # <<>> /\ pc[t] \in {"next"} \union TensorPhases /\ UNCHANGED table
    BY DEF NewTensor, StartOperation, NoOperands, StartMatMul, Compile, Take, Kernel,
           FallbackReads, FallbackWrites, Runs, TensorPhases
  <1>1. \/ Finish(t)
        \/ /\ UNCHANGED <<todo, guard, target>>
           /\ \E at \in TensorPhases : pc' = [pc EXCEPT ![t] = at]
        \/ UNCHANGED <<pc, guard, target>> /\ todo' = [todo EXCEPT ![t] = <<>>]
    BY DEF NewTensor, StartOperation, NoOperands, StartMatMul, Compile, Take, Kernel,
           FallbackReads, FallbackWrites, NoDevice, DeviceFails, Becomes, TensorPhases
  <1>2. CASE Finish(t)
    BY <1>0, <1>2, EndLeaves
  <1>3. CASE /\ UNCHANGED <<todo, guard, target>>
             /\ \E at \in TensorPhases : pc' = [pc EXCEPT ![t] = at]
    BY <1>0, <1>3, Leaves DEF TcpInv, TypeOK, TensorPhases
  <1>4. CASE UNCHANGED <<pc, guard, target>> /\ todo' = [todo EXCEPT ![t] = <<>>]
    BY <1>0, <1>4, Leaves DEF TcpInv, TypeOK, TensorPhases
  <1> QED
    BY <1>1, <1>2, <1>3, <1>4

\* The invariant of the table.
THEOREM GuardsHold == Spec => []TcpInv
  <1>1. Init => TcpInv
    <2> SUFFICES ASSUME Init PROVE TcpInv
      OBVIOUS
    <2>1. TypeOK
      BY ResourcesAssumption DEF Init, TypeOK, NoEntry, NoWork, Handles, Tensors
    <2> QED
      BY <2>1 DEF Init, TcpInv, Working, UsedEntriesStay, Closing, TensorPhases
  <1>2. TcpInv /\ [Next]_vars => TcpInv'
    <2> SUFFICES ASSUME TcpInv, [Next]_vars PROVE TcpInv'
      OBVIOUS
    <2>1. ASSUME NEW t \in Tasks, Step(t) PROVE TcpInv'
      BY <2>1, TcpStepTypes, TensorStepTypes, TcpStepGuards, TensorStepGuards DEF Step, TcpInv
    <2>2. ASSUME NEW h \in Handles, Dial(h) \/ PeerActs(h) PROVE TcpInv'
      <3>1. UsedEntriesStay' /\ Closing'
        BY <2>2 DEF Dial, PeerActs, TcpInv, UsedEntriesStay, Closing, Now
      <3> QED
        BY <2>2, <3>1, EnvironmentTypes DEF TcpInv
    <2>3. CASE UNCHANGED vars
      BY <2>3 DEF vars, tcpVars, tensorVars, TcpInv, TypeOK, Working, UsedEntriesStay, Closing, Now
    <2> QED
      BY <2>1, <2>2, <2>3 DEF Next
  <1> QED
    BY <1>1, <1>2, PTL DEF Spec

\* The variables keep their types.
THEOREM TypeCorrect == Spec => []TypeOK
  BY GuardsHold, PTL DEF TcpInv

\* An entry that a task uses stays in the table, of the kind it looked up.
THEOREM EntriesInUseStay == Spec => []UsedEntriesStay
  BY GuardsHold, PTL DEF TcpInv

\* A step of one task does not move another.
LEMMA OthersStayPut ==
  ASSUME TcpInv, NEW t \in Tasks, NEW u \in Tasks \ {t}, Step(t)
  PROVE  todo'[u] = todo[u] /\ pc'[u] = pc[u] /\ guard'[u] = guard[u]
  <1>1. /\ todo[t] # <<>>
        /\ \/ Finish(t) \/ Fail(t)
           \/ /\ \E at : pc' = [pc EXCEPT ![t] = at]
              /\ \E x : todo' = [todo EXCEPT ![t] = x]
              /\ \E g : guard' = [guard EXCEPT ![t] = g]
    <2>1. /\ pc = [pc EXCEPT ![t] = pc[t]] /\ todo = [todo EXCEPT ![t] = todo[t]]
          /\ guard = [guard EXCEPT ![t] = guard[t]]
      BY DEF TcpInv, TypeOK
    <2>2. CASE \/ Refused(t) \/ Listen(t) \/ Connect(t) \/ Insert(t) \/ Get(t) \/ Lock(t)
               \/ Accept(t) \/ Write(t) \/ Read(t)
               \/ \E h \in Handles : CloseStream(t, h)
               \/ CloseMalformed(t) \/ Remove(t)
      BY <2>1, <2>2 DEF Refused, Listen, Connect, Insert, Get, Lock, Accept, Write, Read,
         CloseStream, CloseMalformed, Remove, TakeGuard, RemoveUnderGuard, Becomes, Runs, tcpVars
    <2>3. CASE \/ NewTensor(t) \/ StartOperation(t) \/ NoOperands(t) \/ StartMatMul(t)
               \/ Compile(t) \/ Take(t) \/ Kernel(t) \/ FallbackReads(t) \/ FallbackWrites(t)
      BY <2>1, <2>3 DEF NewTensor, StartOperation, NoOperands, StartMatMul, Compile, Take,
         Kernel, FallbackReads, FallbackWrites, NoDevice, DeviceFails, Becomes, Runs
    <2> QED
      BY <2>2, <2>3 DEF Step
  <1>2. CASE Finish(t) \/ Fail(t)
    BY <1>1, <1>2, FinishTypes DEF TcpInv, TypeOK
  <1>3. CASE /\ \E at : pc' = [pc EXCEPT ![t] = at]
             /\ \E x : todo' = [todo EXCEPT ![t] = x]
             /\ \E g : guard' = [guard EXCEPT ![t] = g]
    BY <1>3 DEF TcpInv, TypeOK
  <1> QED
    BY <1>1, <1>2, <1>3

\* A task that is to remove the entry of its own guard cannot move.
LEMMA ClosersAreStuck ==
  ASSUME TcpInv, NEW t \in Tasks, pc[t] = "remove", Now(t).op \in {"send", "receive"}
  PROVE  ~Step(t)
  <1>1. ~Remove(t)
    <2>1. t \in Readers(target[t].id)
      BY DEF TcpInv, Closing, Readers
    <2> QED
      BY <2>1 DEF Remove
  <1> QED
    BY <1>1 DEF Step, Refused, Listen, Connect, Insert, Get, Lock, Accept, Write, Read,
       CloseStream, CloseMalformed, NewTensor, StartOperation, NoOperands, StartMatMul,
       Compile, Take, Kernel, FallbackReads, FallbackWrites, Runs

\* A statement that wants to remove the stream it failed on waits for ever.
THEOREM FailedHandlesNeverClose == Spec => FailedHandleNeverCloses
  <1>1. TcpInv /\ TcpInv' /\ [Next]_vars =>
          [\A t \in Tasks : pc[t] = "remove" /\ Now(t).op \in {"send", "receive"} =>
              /\ pc'[t] = "remove" /\ guard'[t] = guard[t]
              /\ guard[t] # 0 /\ table'[guard[t]] = "tcp"]_vars
    <2> SUFFICES ASSUME TcpInv, TcpInv', Next, NEW t \in Tasks, pc[t] = "remove",
                        Now(t).op \in {"send", "receive"}
                 PROVE  /\ pc'[t] = "remove" /\ guard'[t] = guard[t]
                        /\ guard[t] # 0 /\ table'[guard[t]] = "tcp"
      OBVIOUS
    <2>1. todo'[t] = todo[t] /\ pc'[t] = pc[t] /\ guard'[t] = guard[t]
      <3>1. ASSUME NEW u \in Tasks, Step(u) PROVE todo'[t] = todo[t] /\ pc'[t] = pc[t] /\ guard'[t] = guard[t]
        <4>1. t # u
          BY <3>1, ClosersAreStuck
        <4> QED
          BY <3>1, <4>1, OthersStayPut
      <3>2. ASSUME NEW h \in Handles, Dial(h) \/ PeerActs(h)
            PROVE  todo'[t] = todo[t] /\ pc'[t] = pc[t] /\ guard'[t] = guard[t]
        BY <3>2 DEF Dial, PeerActs
      <3> QED
        BY <3>1, <3>2 DEF Next
    <2> QED
      BY <2>1 DEF TcpInv, Closing, Now
  <1> QED
    BY <1>1, GuardsHold, PTL DEF Spec, FailedHandleNeverCloses

-----------------------------------------------------------------------------
(* Tensors.                                                                 *)

Ids == 1 .. nextTensor - 1

\* Every id that anybody knows has been given out.
GivenOut == store \subseteq Ids /\ named \subseteq Ids /\ \A t \in Tasks : Operands(t) \subseteq Ids

\* No program and no other operation knows the result of an operation before
\* it is over.
OwnResult ==
    \A t \in Tasks : work[t].c # 0 =>
        /\ work[t].c \notin named
        /\ \A u \in Tasks \ {t} : work[t].c \notin Operands(u)

\* Only a kernel holds tensors, all of them its operation's.
Held == \A t \in Tasks : taken[t] \subseteq Operands(t) /\ (pc[t] # "kernel" => taken[t] = {})

\* Where the result is, by the phase of the operation.
Results ==
    \A t \in Tasks :
        /\ pc[t] \in {"compile", "take"} => work[t].c \in store
        /\ pc[t] = "kernel" => work[t].c \notin store
        /\ pc[t] \in {"fallback", "host"} => Operands(t) \subseteq blamed

TensorInv == /\ TypeOK /\ Working /\ GivenOut /\ OwnResult /\ Held /\ Results
             /\ TensorsAccounted /\ FallbackOnlyAfterCompile

TensorParts == /\ GivenOut /\ OwnResult /\ Held /\ Results
               /\ TensorsAccounted /\ FallbackOnlyAfterCompile

\* The other tasks' operations are where they were.
OthersKeep(t) ==
    \A u \in Tasks \ {t} : pc'[u] = pc[u] /\ work'[u] = work[u] /\ taken'[u] = taken[u]

\* Allocation hands out ids that nobody has.
LEMMA AllocateFacts ==
  ASSUME TensorInv, NEW n \in Nat, Allocate(n)
  PROVE  /\ Ids' = Ids \union (nextTensor .. nextTensor + n - 1)
         /\ store' = store \union (nextTensor .. nextTensor + n - 1)
         /\ Ids \cap (nextTensor .. nextTensor + n - 1) = {}
         /\ 0 \notin Ids'
  <1>1. nextTensor \in Nat \ {0}
    BY DEF TensorInv, TypeOK
  <1> QED
    BY <1>1 DEF Allocate, Ids

\* A task outside of tensor operations may allocate, and name what it allocates.
LEMMA IdleStep ==
  ASSUME TensorInv, NEW t \in Tasks, OthersKeep(t), NEW n \in Nat, Allocate(n),
         pc[t] \notin TensorPhases, pc'[t] \notin TensorPhases,
         UNCHANGED <<work, taken, blamed>>,
         named' \subseteq named \union (nextTensor .. nextTensor + n - 1)
  PROVE  TensorParts'
  <1> DEFINE New == nextTensor .. nextTensor + n - 1
  <1>0. /\ Ids' = Ids \union New /\ store' = store \union New /\ Ids \cap New = {}
        /\ named' \subseteq named \union New
    BY AllocateFacts
  <1> HIDE DEF New
  <1>1. \A u \in Tasks : Operands(u)' = Operands(u) /\ Operands(u) \subseteq Ids
    BY DEF Operands, TensorInv, GivenOut
  <1>2. GivenOut'
    BY <1>0, <1>1 DEF TensorInv, GivenOut
  <1>3. OwnResult'
    <2>1. \A u \in Tasks : work[u].c # 0 => work[u].c \in Ids
      BY <1>1 DEF Operands
    <2> QED
      BY <1>0, <1>1, <2>1 DEF TensorInv, OwnResult
  <1>4. Held'
    BY <1>1 DEF TensorInv, Held, OthersKeep, TensorPhases
  <1>5. Results' /\ FallbackOnlyAfterCompile'
    <2>1. \A u \in Tasks : pc[u] \in TensorPhases => work[u].c \in Ids
      BY <1>1 DEF Operands, TensorInv, Working
    <2> QED
      BY <1>0, <1>1, <2>1 DEF TensorInv, Results, FallbackOnlyAfterCompile, OthersKeep, TensorPhases
  <1>6. TensorsAccounted'
    <2>1. \A u \in Tasks : taken[u] \subseteq Ids
      BY <1>1 DEF TensorInv, Held
    <2> QED
      BY <1>0, <2>1 DEF TensorInv, TensorsAccounted, Ids
  <1> QED
    BY <1>2, <1>3, <1>4, <1>5, <1>6 DEF TensorParts

\* An operation starts with a result that it has just allocated.
LEMMA StartStep ==
  ASSUME TensorInv, NEW t \in Tasks, OthersKeep(t), NEW n \in Nat, Allocate(n),
         pc[t] = "next", pc'[t] = "compile", UNCHANGED <<taken, named, blamed>>,
         NEW w \in Jobs, work' = [work EXCEPT ![t] = w],
         w.c \in nextTensor .. nextTensor + n - 1,
         {w.a, w.b} \ {0} \subseteq named \union (nextTensor .. nextTensor + n - 1)
  PROVE  TensorParts'
  <1> DEFINE New == nextTensor .. nextTensor + n - 1
  <1>0. /\ Ids' = Ids \union New /\ store' = store \union New /\ Ids \cap New = {}
        /\ w.c \in New /\ {w.a, w.b} \ {0} \subseteq named \union New /\ 0 \notin New
    BY AllocateFacts
  <1> HIDE DEF New
  <1>1. /\ \A u \in Tasks \ {t} : Operands(u)' = Operands(u) /\ work'[u] = work[u]
        /\ \A u \in Tasks : Operands(u) \subseteq Ids
        /\ work'[t] = w /\ Operands(t)' = {w.a, w.b, w.c} \ {0}
        /\ taken[t] = {} /\ named \subseteq Ids
    BY DEF Operands, TensorInv, TypeOK, GivenOut, OthersKeep, Held
  <1>2. GivenOut'
    BY <1>0, <1>1 DEF TensorInv, GivenOut
  <1>3. OwnResult'
    <2>1. \A u \in Tasks : work[u].c # 0 => work[u].c \in Ids
      BY <1>1 DEF Operands
    <2>2. \A u \in Tasks \ {t} : work[u].c # 0 => work[u].c \notin Operands(t)'
      BY <1>0, <1>1, <2>1 DEF TensorInv, OwnResult
    <2> QED
      BY <1>0, <1>1, <2>1, <2>2 DEF TensorInv, OwnResult
  <1>4. Held'
    BY <1>1 DEF TensorInv, Held, OthersKeep
  <1>5. Results' /\ FallbackOnlyAfterCompile'
    <2>1. \A u \in Tasks : pc[u] \in TensorPhases => work[u].c \in Ids
      BY <1>1 DEF Operands, TensorInv, Working
    <2> QED
      BY <1>0, <1>1, <2>1 DEF TensorInv, Results, FallbackOnlyAfterCompile, OthersKeep, TensorPhases
  <1>6. TensorsAccounted'
    <2>1. \A u \in Tasks : taken[u] \subseteq Ids
      BY <1>1 DEF TensorInv, Held
    <2> QED
      BY <1>0, <2>1 DEF TensorInv, TensorsAccounted, Ids
  <1> QED
    BY <1>2, <1>3, <1>4, <1>5, <1>6 DEF TensorParts

\* What an operation takes from the store it holds.
LEMMA TakeStep ==
  ASSUME TensorInv, NEW t \in Tasks, OthersKeep(t), pc[t] = "take", pc'[t] = "kernel",
         UNCHANGED <<nextTensor, work, named, blamed>>,
         store' = store \ Removed(t), taken' = [taken EXCEPT ![t] = Removed(t)]
  PROVE  TensorParts'
  <1>0. /\ Removed(t) \subseteq store /\ Removed(t) \subseteq Operands(t)
        /\ work[t].c \in store => work[t].c \in Removed(t)
    BY RemovedFacts DEF TensorInv
  <1>1. /\ \A u \in Tasks : Operands(u)' = Operands(u)
        /\ taken'[t] = Removed(t) /\ taken[t] = {} /\ Ids' = Ids
    BY DEF Operands, TensorInv, TypeOK, Held, Ids
  <1>2. GivenOut' /\ OwnResult' /\ Held'
    BY <1>0, <1>1 DEF TensorInv, GivenOut, OwnResult, Held, OthersKeep
  <1>3. Results' /\ FallbackOnlyAfterCompile'
    <2>1. \A u \in Tasks \ {t} : pc[u] \in TensorPhases => work[u].c \notin Removed(t)
      BY <1>0 DEF TensorInv, Working, OwnResult
    <2> QED
      BY <1>0, <1>1, <2>1 DEF TensorInv, Results, FallbackOnlyAfterCompile, OthersKeep, TensorPhases
  <1>4. TensorsAccounted'
    <2>1. \A u \in Tasks \ {t} : taken'[u] = taken[u]
      BY DEF OthersKeep
    <2>2. \A u \in Tasks : taken[u] \intersect store = {}
      BY DEF TensorInv, TensorsAccounted
    <2>3. (\A u \in Tasks : taken[u] \intersect store = {})'
      BY <1>0, <1>1, <2>1, <2>2
    <2>4. (\A u, v \in Tasks : u # v => taken[u] \intersect taken[v] = {})'
      <3>1. \A u, v \in Tasks : u # v => taken[u] \intersect taken[v] = {}
        BY DEF TensorInv, TensorsAccounted
      <3> QED
        BY <3>1, <1>0, <1>1, <2>1, <2>2
    <2>5. (Ids \subseteq store \union blamed \union UNION {taken[u] : u \in Tasks})'
      <3>1. Ids \subseteq store \union blamed \union UNION {taken[u] : u \in Tasks}
        BY DEF TensorInv, TensorsAccounted, Ids
      <3> SUFFICES ASSUME NEW x \in Ids, x \notin store', x \notin blamed
                   PROVE  \E u \in Tasks : x \in taken'[u]
        BY <1>1
      <3>2. CASE x \in Removed(t)
        BY <3>2, <1>1
      <3>3. CASE x \notin Removed(t)
        <4>1. PICK u \in Tasks : x \in taken[u]
          BY <3>1, <3>3
        <4>2. u # t
          BY <4>1, <1>1
        <4> QED
          BY <4>1, <4>2, <2>1
      <3> QED
        BY <3>2, <3>3
    <2> QED
      BY <2>3, <2>4, <2>5 DEF TensorsAccounted, Ids
  <1> QED
    BY <1>2, <1>3, <1>4 DEF TensorParts

\* What an operation gives back or loses are its own operands, and it is
\* blamed for the ones it loses.
LEMMA AccountsClose ==
  ASSUME TensorInv, NEW t \in Tasks, OthersKeep(t), UNCHANGED nextTensor,
         store' \subseteq store \union taken[t],
         \A x \in (store \union taken[t]) \ store' : x \in blamed' /\ x \in Operands(t),
         blamed \subseteq blamed', taken'[t] = {}
  PROVE  /\ TensorsAccounted' /\ Ids' = Ids
         /\ \A u \in Tasks \ {t} : pc[u] \in TensorPhases => (work[u].c \in store' <=> work[u].c \in store)
  <1>1. Ids' = Ids
    BY DEF Ids
  <1>2. \A u \in Tasks \ {t} : taken'[u] = taken[u]
    BY DEF OthersKeep
  <1>3. /\ \A u \in Tasks : taken[u] \intersect store = {}
        /\ \A u, v \in Tasks : u # v => taken[u] \intersect taken[v] = {}
        /\ Ids \subseteq store \union blamed \union UNION {taken[u] : u \in Tasks}
    BY DEF TensorInv, TensorsAccounted, Ids
  <1>4. (\A u \in Tasks : taken[u] \intersect store = {})'
    BY <1>2, <1>3
  <1>5. (\A u, v \in Tasks : u # v => taken[u] \intersect taken[v] = {})'
    BY <1>2, <1>3
  <1>6. (Ids \subseteq store \union blamed \union UNION {taken[u] : u \in Tasks})'
    <2> SUFFICES ASSUME NEW x \in Ids, x \notin store', x \notin blamed'
                 PROVE  \E u \in Tasks : x \in taken'[u]
      BY <1>1
    <2>1. x \notin store /\ x \notin taken[t] /\ x \notin blamed
      OBVIOUS
    <2>2. PICK u \in Tasks : x \in taken[u]
      BY <2>1, <1>3
    <2> QED
      BY <2>1, <2>2, <1>2
  <1>7. ASSUME NEW u \in Tasks \ {t}, pc[u] \in TensorPhases
        PROVE  work[u].c \in store' <=> work[u].c \in store
    <2>1. work[u].c \notin Operands(t) /\ taken[t] \subseteq Operands(t)
      BY <1>7 DEF TensorInv, Working, OwnResult, Held
    <2> QED
      BY <2>1
  <1> QED
    BY <1>1, <1>4, <1>5, <1>6, <1>7 DEF TensorsAccounted, Ids

\* An operation ends; its result has now a name.
LEMMA EndStep ==
  ASSUME TensorInv, NEW t \in Tasks, OthersKeep(t), UNCHANGED nextTensor,
         pc[t] \in TensorPhases, pc'[t] = "next", work' = [work EXCEPT ![t] = NoWork],
         named' \subseteq named \union {work[t].c},
         store' \subseteq store \union taken[t],
         \A x \in (store \union taken[t]) \ store' : x \in blamed' /\ x \in Operands(t),
         blamed \subseteq blamed', taken'[t] = {}
  PROVE  TensorParts'
  <1>0. /\ TensorsAccounted' /\ Ids' = Ids
        /\ \A u \in Tasks \ {t} : pc[u] \in TensorPhases => (work[u].c \in store' <=> work[u].c \in store)
    BY AccountsClose
  <1>1. /\ \A u \in Tasks \ {t} : Operands(u)' = Operands(u) /\ work'[u] = work[u]
        /\ work'[t] = NoWork /\ Operands(t)' = {}
        /\ work[t].c # 0 /\ work[t].c \in Operands(t)
    BY DEF Operands, NoWork, TensorInv, TypeOK, Working
  <1>2. GivenOut'
    <2>1. Operands(t) \subseteq Ids /\ taken[t] \subseteq Operands(t)
      BY DEF TensorInv, GivenOut, Held
    <2> QED
      BY <1>0, <1>1, <2>1 DEF TensorInv, GivenOut
  <1>3. OwnResult'
    <2>1. \A u \in Tasks \ {t} : work[u].c # 0 => work[u].c # work[t].c
      BY <1>1 DEF TensorInv, OwnResult
    <2> QED
      BY <1>1, <2>1 DEF TensorInv, OwnResult, NoWork
  <1>4. Held'
    BY <1>1 DEF TensorInv, Held, OthersKeep
  <1>5. Results' /\ FallbackOnlyAfterCompile'
    BY <1>0, <1>1 DEF TensorInv, Results, FallbackOnlyAfterCompile, OthersKeep, TensorPhases
  <1> QED
    BY <1>0, <1>2, <1>3, <1>4, <1>5 DEF TensorParts

\* A product or a sum failed on the device and is to be tried on the CPU.
LEMMA FallbackStep ==
  ASSUME TensorInv, NEW t \in Tasks, OthersKeep(t), UNCHANGED <<nextTensor, named>>,
         pc[t] \in TensorPhases, pc'[t] = "fallback", NEW how,
         work' = [work EXCEPT ![t].failed = how], blamed' = blamed \union Operands(t),
         store' \subseteq store, store \ store' \subseteq Operands(t), taken'[t] = {},
         work[t].c \in store' <=> how = "compile"
  PROVE  TensorParts'
  <1>0. /\ TensorsAccounted' /\ Ids' = Ids
        /\ \A u \in Tasks \ {t} : pc[u] \in TensorPhases => (work[u].c \in store' <=> work[u].c \in store)
    <2>1. taken[t] \subseteq Operands(t)
      BY DEF TensorInv, Held
    <2> QED
      BY <2>1, AccountsClose
  <1>1. /\ \A u \in Tasks \ {t} : work'[u] = work[u]
        /\ \A u \in Tasks : Operands(u)' = Operands(u) /\ work'[u].c = work[u].c
        /\ work'[t].failed = how
    BY DEF Operands, TensorInv, TypeOK
  <1>2. GivenOut' /\ OwnResult' /\ Held'
    BY <1>0, <1>1 DEF TensorInv, GivenOut, OwnResult, Held, OthersKeep
  <1>3. Results' /\ FallbackOnlyAfterCompile'
    BY <1>0, <1>1 DEF TensorInv, Results, FallbackOnlyAfterCompile, OthersKeep, TensorPhases
  <1> QED
    BY <1>0, <1>2, <1>3 DEF TensorParts

\* The device failed, before or after the store was touched.
LEMMA DeviceFailsStep ==
  ASSUME TensorInv, NEW t \in Tasks, todo[t] # <<>>, UNCHANGED nextTensor,
         pc[t] \in TensorPhases, NEW how, DeviceFails(t, how),
         store' \subseteq store, store \ store' \subseteq Operands(t),
         taken' = [taken EXCEPT ![t] = {}],
         work[t].c \in store' <=> how = "compile"
  PROVE  TensorParts'
  <1>0. taken'[t] = {} /\ taken[t] \subseteq Operands(t) /\ blamed' = blamed \union Operands(t)
    BY DEF TensorInv, TypeOK, Held, DeviceFails
  <1>1. CASE Now(t).op \in {"mul", "add"}
    <2>1. /\ work' = [work EXCEPT ![t].failed = how] /\ pc' = [pc EXCEPT ![t] = "fallback"]
          /\ UNCHANGED named
      BY <1>1 DEF DeviceFails, Becomes
    <2>2. OthersKeep(t) /\ pc'[t] = "fallback"
      BY <2>1 DEF OthersKeep, TensorInv, TypeOK
    <2> QED
      BY <1>0, <2>1, <2>2, FallbackStep
  <1>2. CASE Now(t).op \notin {"mul", "add"}
    <2>1. /\ work' = [work EXCEPT ![t] = NoWork] /\ Named(t) /\ Finish(t)
      BY <1>2 DEF DeviceFails
    <2>2. pc' = [pc EXCEPT ![t] = "next"]
      BY <2>1 DEF Finish
    <2>3. OthersKeep(t) /\ pc'[t] = "next"
      BY <2>1, <2>2 DEF OthersKeep, TensorInv, TypeOK
    <2>4. named' \subseteq named \union {work[t].c}
      BY <2>1 DEF Named
    <2> QED
      BY <1>0, <2>1, <2>3, <2>4, EndStep
  <1> QED
    BY <1>1, <1>2

\* A step without tensors.
LEMMA ElsewhereStep ==
  ASSUME TensorInv, NEW t \in Tasks, UNCHANGED tensorVars, pc[t] \notin TensorPhases, Working',
         \A u \in Tasks \ {t} : pc'[u] = pc[u]
  PROVE  TensorParts'
  <1>1. Allocate(0)
    BY DEF Allocate, tensorVars, TensorInv, TypeOK
  <1>2. pc'[t] \notin TensorPhases
    BY DEF TensorInv, Working, tensorVars, NoWork
  <1>3. OthersKeep(t)
    BY DEF OthersKeep, tensorVars
  <1> QED
    BY <1>1, <1>2, <1>3, IdleStep DEF tensorVars

\* Every step of a tensor operation keeps the accounts.
LEMMA TensorStepAccounts ==
  ASSUME TensorInv, NEW t \in Tasks,
         \/ NewTensor(t) \/ StartOperation(t) \/ NoOperands(t) \/ StartMatMul(t)
         \/ Compile(t) \/ Take(t) \/ Kernel(t) \/ FallbackReads(t) \/ FallbackWrites(t)
  PROVE  TensorParts'
  <1>0. /\ taken = [taken EXCEPT ![t] = taken[t]]
        /\ work = [work EXCEPT ![t] = work[t]]
        /\ pc[t] \in TensorPhases => work[t].c # 0 /\ work[t].c \in Operands(t)
        /\ pc[t] # "kernel" => taken[t] = {}
    BY DEF TensorInv, TypeOK, Working, Operands, Held
  <1>1. ASSUME Finish(t) PROVE pc'[t] = "next" /\ \A u \in Tasks \ {t} : pc'[u] = pc[u]
    BY <1>1 DEF Finish, TensorInv, TypeOK
  <1>2. ASSUME NEW at, Becomes(t, at) PROVE pc'[t] = at /\ \A u \in Tasks \ {t} : pc'[u] = pc[u]
    BY <1>2 DEF Becomes, TensorInv, TypeOK
  <1>3. ASSUME NoDevice(t), pc[t] = "next", UNCHANGED <<taken, blamed>> PROVE TensorParts'
    <2>1. Allocate(0)
      BY <1>3 DEF NoDevice, Allocate, TensorInv, TypeOK
    <2> QED
      BY <1>3, <1>1, <2>1, IdleStep DEF NoDevice, OthersKeep, TensorPhases
  <1>4. CASE NewTensor(t)
    <2>1. pc[t] = "next" /\ UNCHANGED <<taken, blamed>>
      BY <1>4 DEF NewTensor, Runs
    <2>2. CASE Allocate(1) /\ Finish(t) /\ named' = named \union {nextTensor} /\ UNCHANGED work
      <3>1. nextTensor \in nextTensor .. nextTensor + 1 - 1
        BY DEF TensorInv, TypeOK
      <3> QED
        BY <2>1, <2>2, <3>1, <1>1, IdleStep DEF OthersKeep, TensorPhases
    <2> QED
      BY <1>4, <2>1, <2>2, <1>3 DEF NewTensor
  <1>5. CASE StartOperation(t)
    <2>1. pc[t] = "next" /\ UNCHANGED <<taken, blamed>>
      BY <1>5 DEF StartOperation, Runs
    <2>2. PICK a \in named, b \in named :
            \/ /\ Allocate(1)
               /\ work' = [work EXCEPT ![t] =
                              [a |-> a, b |-> IF Now(t).op = "relu" THEN 0 ELSE b,
                               c |-> nextTensor, failed |-> "no"]]
               /\ Becomes(t, "compile")
               /\ UNCHANGED <<guard, target, named>>
            \/ NoDevice(t)
      BY <1>5 DEF StartOperation
    <2>3. CASE ~NoDevice(t)
      <3> DEFINE w == [a |-> a, b |-> IF Now(t).op = "relu" THEN 0 ELSE b,
                       c |-> nextTensor, failed |-> "no"]
      <3>1. /\ Allocate(1) /\ work' = [work EXCEPT ![t] = w] /\ Becomes(t, "compile") /\ UNCHANGED named
        BY <2>2, <2>3
      <3>2. nextTensor \in Tensors /\ a \in Tensors /\ b \in Tensors
            /\ nextTensor \in nextTensor .. nextTensor + 1 - 1
        BY <3>1, ResourcesAssumption DEF Allocate, TensorInv, TypeOK, Tensors
      <3>3. w \in Jobs /\ w.c = nextTensor /\ {w.a, w.b} \ {0} \subseteq named
        BY <3>2 DEF Jobs
      <3> HIDE DEF w
      <3>4. OthersKeep(t) /\ pc'[t] = "compile"
        BY <2>1, <3>1, <1>2 DEF OthersKeep, TensorInv, TypeOK
      <3> QED
        BY <2>1, <3>1, <3>2, <3>3, <3>4, StartStep
    <2> QED
      BY <2>1, <2>3, <1>3
  <1>6. CASE NoOperands(t)
    <2>1. pc[t] = "next" /\ UNCHANGED tensorVars /\ Finish(t)
      BY <1>6 DEF NoOperands, Runs
    <2>2. Working'
      BY <1>6, TensorStepTypes DEF TensorInv
    <2> QED
      BY <2>1, <2>2, <1>1, ElsewhereStep DEF TensorPhases
  <1>7. CASE StartMatMul(t)
    <2>1. pc[t] = "next" /\ UNCHANGED <<taken, named, blamed>>
      BY <1>7 DEF StartMatMul, Runs
    <2>2. CASE /\ Allocate(3)
               /\ work' = [work EXCEPT ![t] = [a |-> nextTensor, b |-> nextTensor + 1,
                                               c |-> nextTensor + 2, failed |-> "no"]]
               /\ Becomes(t, "compile")
      <3> DEFINE w == [a |-> nextTensor, b |-> nextTensor + 1, c |-> nextTensor + 2, failed |-> "no"]
                 New == nextTensor .. nextTensor + 3 - 1
      <3>1. /\ nextTensor \in Tensors /\ nextTensor + 1 \in Tensors /\ nextTensor + 2 \in Tensors
            /\ nextTensor \in New /\ nextTensor + 1 \in New /\ nextTensor + 2 \in New
        BY <2>2, ResourcesAssumption DEF Allocate, TensorInv, TypeOK, Tensors
      <3>2. w \in Jobs /\ w.c \in New /\ {w.a, w.b} \ {0} \subseteq New
        BY <3>1 DEF Jobs
      <3>3. work' = [work EXCEPT ![t] = w]
        BY <2>2
      <3> HIDE DEF w
      <3>4. OthersKeep(t) /\ pc'[t] = "compile"
        BY <2>1, <2>2, <3>3, <1>2 DEF OthersKeep, TensorInv, TypeOK
      <3> QED
        BY <2>1, <2>2, <3>2, <3>3, <3>4, StartStep
    <2>3. CASE /\ \E n \in 0 .. 2 : Allocate(n)
               /\ UNCHANGED <<pc, work>>
      BY <2>1, <2>3, IdleStep DEF OthersKeep, TensorPhases
    <2> QED
      BY <1>7, <2>2, <2>3 DEF StartMatMul
  <1>8. CASE Compile(t)
    <2>1. pc[t] = "compile" /\ todo[t] # <<>> /\ UNCHANGED <<store, nextTensor, taken>>
      BY <1>8 DEF Compile, Runs
    <2>2. CASE Becomes(t, "take") /\ UNCHANGED <<work, named, blamed>>
      <3>1. \A u \in Tasks : Operands(u)' = Operands(u)
        BY <2>2 DEF Operands
      <3> QED
        BY <2>1, <2>2, <3>1, <1>2 DEF TensorInv, TensorParts, GivenOut, OwnResult, Held, Results,
           TensorsAccounted, FallbackOnlyAfterCompile, Ids
    <2>3. CASE DeviceFails(t, "compile")
      <3>1. work[t].c \in store
        BY <2>1 DEF TensorInv, Results
      <3> QED
        BY <2>1, <2>3, <3>1, <1>0, DeviceFailsStep DEF TensorPhases
    <2> QED
      BY <1>8, <2>2, <2>3 DEF Compile
  <1>9. CASE Take(t)
    <2>1. pc[t] = "take" /\ todo[t] # <<>> /\ store' = store \ Removed(t) /\ UNCHANGED nextTensor
      BY <1>9 DEF Take, Runs
    <2>2. CASE /\ taken' = [taken EXCEPT ![t] = Removed(t)]
               /\ Becomes(t, "kernel")
               /\ UNCHANGED <<work, named, blamed>>
      <3>1. OthersKeep(t) /\ pc'[t] = "kernel"
        BY <2>2, <1>2 DEF OthersKeep, TensorInv, TypeOK
      <3> QED
        BY <2>1, <2>2, <3>1, TakeStep
    <2>3. CASE DeviceFails(t, "take") /\ UNCHANGED taken
      <3>1. /\ Removed(t) \subseteq Operands(t)
            /\ work[t].c \in store => work[t].c \in Removed(t)
        BY RemovedFacts DEF TensorInv
      <3>2. work[t].c \in store
        BY <2>1 DEF TensorInv, Results
      <3> QED
        BY <2>1, <2>3, <3>1, <3>2, <1>0, DeviceFailsStep DEF TensorPhases
    <2> QED
      BY <1>9, <2>2, <2>3 DEF Take
  <1>10. CASE Kernel(t)
    <2>1. /\ pc[t] = "kernel" /\ todo[t] # <<>> /\ taken' = [taken EXCEPT ![t] = {}]
          /\ UNCHANGED nextTensor
      BY <1>10 DEF Kernel, Runs
    <2>2. CASE /\ store' = store \union taken[t]
               /\ work' = [work EXCEPT ![t] = NoWork]
               /\ Named(t) /\ Finish(t) /\ UNCHANGED blamed
      <3>1. OthersKeep(t) /\ pc'[t] = "next" /\ taken'[t] = {}
        BY <2>1, <2>2, <1>1 DEF OthersKeep, TensorInv, TypeOK
      <3>2. named' \subseteq named \union {work[t].c}
        BY <2>2 DEF Named
      <3> QED
        BY <2>1, <2>2, <3>1, <3>2, EndStep DEF TensorPhases
    <2>3. CASE DeviceFails(t, "kernel") /\ UNCHANGED store
      <3>1. work[t].c \notin store
        BY <2>1 DEF TensorInv, Results
      <3> QED
        BY <2>1, <2>3, <3>1, DeviceFailsStep DEF TensorPhases
    <2> QED
      BY <1>10, <2>2, <2>3 DEF Kernel
  <1>11. CASE FallbackReads(t)
    <2>1. pc[t] = "fallback" /\ UNCHANGED <<store, nextTensor, taken, blamed>>
      BY <1>11 DEF FallbackReads, Runs
    <2>2. CASE Becomes(t, "host") /\ UNCHANGED <<work, named>>
      <3>1. \A u \in Tasks : Operands(u)' = Operands(u)
        BY <2>2 DEF Operands
      <3> QED
        BY <2>1, <2>2, <3>1, <1>2 DEF TensorInv, TensorParts, GivenOut, OwnResult, Held, Results,
           TensorsAccounted, FallbackOnlyAfterCompile, Ids
    <2>3. CASE Finish(t) /\ Named(t) /\ work' = [work EXCEPT ![t] = NoWork]
      <3>1. OthersKeep(t) /\ pc'[t] = "next" /\ taken'[t] = {} /\ taken[t] = {}
        BY <2>1, <2>3, <1>0, <1>1 DEF OthersKeep, TensorInv, TypeOK
      <3>2. named' \subseteq named \union {work[t].c}
        BY <2>3 DEF Named
      <3> QED
        BY <2>1, <2>3, <3>1, <3>2, EndStep DEF TensorPhases
    <2> QED
      BY <1>11, <2>2, <2>3 DEF FallbackReads
  <1>12. CASE FallbackWrites(t)
    <2>1. /\ pc[t] = "host" /\ Finish(t) /\ Named(t) /\ work' = [work EXCEPT ![t] = NoWork]
          /\ UNCHANGED <<nextTensor, taken, blamed>>
          /\ UNCHANGED store \/ store' = store \ {work[t].c}
      BY <1>12 DEF FallbackWrites, Runs
    <2>2. OthersKeep(t) /\ pc'[t] = "next" /\ taken'[t] = {} /\ taken[t] = {}
      BY <2>1, <1>0, <1>1 DEF OthersKeep, TensorInv, TypeOK
    <2>3. named' \subseteq named \union {work[t].c}
      BY <2>1 DEF Named
    <2>4. work[t].c \in Operands(t) /\ Operands(t) \subseteq blamed
      BY <2>1, <1>0 DEF TensorInv, Results, TensorPhases
    <2> QED
      BY <2>1, <2>2, <2>3, <2>4, EndStep DEF TensorPhases
  <1> QED
    BY <1>4, <1>5, <1>6, <1>7, <1>8, <1>9, <1>10, <1>11, <1>12

\* The invariant of the tensor store.
THEOREM TensorsHold == Spec => []TensorInv
  <1>1. Init => TensorInv
    <2> SUFFICES ASSUME Init PROVE TensorInv
      OBVIOUS
    <2>1. TypeOK
      BY ResourcesAssumption DEF Init, TypeOK, NoEntry, NoWork, Handles, Tensors
    <2> QED
      BY <2>1 DEF Init, TensorInv, Working, TensorPhases, GivenOut, OwnResult, Held, Results,
         TensorsAccounted, FallbackOnlyAfterCompile, Operands, NoWork, Ids
  <1>2. TcpInv /\ TensorInv /\ TcpInv' /\ [Next]_vars => TensorInv'
    <2> SUFFICES ASSUME TcpInv, TensorInv, TcpInv', [Next]_vars PROVE TensorInv'
      OBVIOUS
    <2>0. TensorParts' => TensorInv'
      BY DEF TensorInv, TensorParts, TcpInv
    <2>1. ASSUME NEW t \in Tasks, Step(t) PROVE TensorParts'
      <3>1. CASE \/ Refused(t) \/ Listen(t) \/ Connect(t) \/ Insert(t) \/ Get(t) \/ Lock(t)
                 \/ Accept(t) \/ Write(t) \/ Read(t)
                 \/ \E h \in Handles : CloseStream(t, h)
                 \/ CloseMalformed(t) \/ Remove(t)
        <4>1. UNCHANGED tensorVars /\ pc[t] \notin TensorPhases
          BY <3>1 DEF Refused, Listen, Connect, Insert, Get, Lock, Accept, Write, Read,
             CloseStream, CloseMalformed, Remove, TakeGuard, Runs, TensorPhases
        <4>2. \A u \in Tasks \ {t} : pc'[u] = pc[u]
          BY <2>1, OthersStayPut
        <4> QED
          BY <4>1, <4>2, ElsewhereStep DEF TcpInv
      <3>2. CASE \/ NewTensor(t) \/ StartOperation(t) \/ NoOperands(t) \/ StartMatMul(t)
                 \/ Compile(t) \/ Take(t) \/ Kernel(t) \/ FallbackReads(t) \/ FallbackWrites(t)
        BY <3>2, TensorStepAccounts
      <3> QED
        BY <2>1, <3>1, <3>2 DEF Step
    <2>2. ASSUME UNCHANGED tensorVars, UNCHANGED pc PROVE TensorParts'
      BY <2>2 DEF tensorVars, TensorInv, TensorParts, GivenOut, OwnResult, Held, Results,
         TensorsAccounted, FallbackOnlyAfterCompile, Operands, Ids
    <2>3. ASSUME NEW h \in Handles, Dial(h) \/ PeerActs(h) PROVE TensorParts'
      BY <2>2, <2>3 DEF Dial, PeerActs
    <2>4. CASE UNCHANGED vars
      <3>1. UNCHANGED tensorVars /\ UNCHANGED pc
        BY <2>4 DEF vars, tensorVars
      <3>2. TensorParts'
        BY <3>1, <2>2
      <3> QED
        BY <3>2, <2>0
    <2> QED
      BY <2>0, <2>1, <2>3, <2>4 DEF Next
  <1> QED
    BY <1>1, <1>2, GuardsHold, PTL DEF Spec

\* A tensor is in the store, with one operation, or was lost with a failure.
THEOREM TensorsAreAccounted == Spec => []TensorsAccounted
  BY TensorsHold, PTL DEF TensorInv

\* The CPU fallback finds its result only if nothing but compiling failed.
THEOREM FallbackAfterCompileOnly == Spec => []FallbackOnlyAfterCompile
  BY TensorsHold, PTL DEF TensorInv
=============================================================================
