------------------------------ MODULE Executor ------------------------------
(***************************************************************************)
(* The interpreter of helheim-core/src/orchestra/executor.rs: execute_ast   *)
(* runs a list of statements on a trampoline of frames, and calls itself    *)
(* for the bodies of calls, handlers, try blocks and the like.  One such    *)
(* call is an activation here; `use` says what the caller does with its     *)
(* result, and `guard` whether the caller holds a ScopeGuard over it.       *)
(*                                                                          *)
(* The scopes are one stack (memory.rs) that all tasks of the process use:  *)
(* branches of Concurrent, daemons and the main program push and pop it     *)
(* between each other's statements.  A `perform` captures the rest of its   *)
(* own statement list and a snapshot of that stack (continuation.rs), and a *)
(* `resume` puts the snapshot back whatever guards are alive.               *)
(*                                                                          *)
(* Code gives a sequence of statements to each block; a frame is a place in *)
(* a block.  The values of expressions and conditions are left open, and a  *)
(* block is never taken over by a device (the build has no cuda feature).   *)
(***************************************************************************)
EXTENDS Naturals, Sequences, FiniteSets, SequencesExt

CONSTANTS Blocks,
          NoBlock,
          Programs,   \* assignments of statements to the blocks
          Main,       \* the block that process_command executes
          Threads,    \* the main task, branches and daemons that may exist at once
          First,      \* the main task
          GasLimit,   \* gas_limit of the sandbox
          MaxFrames,  \* the trampoline's limit (50 000)
          MaxItems,   \* bound on the length of an iterated list
          HasPeers    \* whether discovery knows a peer

Effects == {"user", "depart", "arrive"}
Statements ==
    [op : {"work", "send", "assign", "throw", "return", "install", "migrate", "resume", "revive"}]
    \union [op : {"perform", "bind", "qualified"}]
    \union [op : {"block", "loop", "each", "call", "apart", "inline", "daemon"}, body : Blocks]
    \union [op : {"if"}, body : Blocks, other : Blocks \union {NoBlock}]
    \union [op : {"try"}, body : Blocks, other : Blocks]
    \union [op : {"handle"}, effect : Effects, body : Blocks, other : Blocks]
    \union [op : {"concurrent"}, body : Blocks, other : Blocks]

ASSUME ExecutorAssumption ==
    /\ NoBlock \notin Blocks
    /\ Main \in Blocks
    /\ First \in Threads
    /\ Programs \subseteq [Blocks -> Seq(Statements)]
    /\ GasLimit \in Nat /\ MaxFrames \in Nat \ {0} /\ MaxItems \in Nat
    /\ HasPeers \in BOOLEAN

VARIABLES Code,        \* the program, chosen once
          acts,        \* the activations of each thread, innermost last
          out,         \* "run", or the result of the innermost activation
          parent,      \* the thread that joins a branch
          scopes,      \* local_stack
          conts,       \* the continuations that exist
          gas,         \* gas_consumed, shared by every copy of the context
          ran,         \* history: how often each statement was executed
          restored,    \* history: the statements that have replaced the scopes
          concurrent,  \* history: two threads have shared the scopes
          spilled      \* history: a variable of a call left the call's scope

vars == <<Code, acts, out, parent, scopes, conts, gas, ran, restored, concurrent, spilled>>

NoThread == "none"
Nobody == [e \in Effects |-> NoBlock]
Frames == [block : Blocks, at : Nat \ {0}]
Uses == {"top", "call", "handle", "try", "catch", "each", "drop", "inline",
         "tail", "depart", "arrive"}
Activations == [frames : Seq(Frames), use : Uses, guard : BOOLEAN,
                other : Blocks \union {NoBlock}, left : 0 .. MaxItems, k : Nat]
Scopes == [owner : Threads \X Nat, handler : [Effects -> Blocks \union {NoBlock}], k : Nat]
Continuations == [block : Blocks, at : Nat, how : {"perform", "bind", "qualified"},
                  scopes : Seq(Scopes), resumed : Nat]

TypeOK ==
    /\ Code \in Programs
    /\ acts \in [Threads -> Seq(Activations)]
    /\ out \in [Threads -> {"run", "none", "some", "err"}]
    /\ parent \in [Threads -> Threads \union {NoThread}]
    /\ scopes \in Seq(Scopes)
    /\ conts \in Seq(Continuations)
    /\ gas \in 0 .. GasLimit
    /\ ran \in [Blocks -> Seq(Nat)] /\ \A b \in Blocks : Len(ran[b]) = Len(Code[b])
    /\ restored \subseteq {"resume", "revive"}
    /\ {concurrent, spilled} \subseteq BOOLEAN

Activation(b, i, use, guard) ==
    [frames |-> <<[block |-> b, at |-> i]>>, use |-> use, guard |-> guard,
     other |-> NoBlock, left |-> 0, k |-> 0]

\* One item of a list; n items are left.
Item(b, n) ==
    [frames |-> <<[block |-> b, at |-> 1]>>, use |-> "each", guard |-> FALSE,
     other |-> b, left |-> n, k |-> 0]

Init ==
    /\ Code \in Programs
    /\ acts = [t \in Threads |-> IF t = First THEN <<Activation(Main, 1, "top", FALSE)>> ELSE <<>>]
    /\ out = [t \in Threads |-> "run"]
    /\ parent = [t \in Threads |-> NoThread]
    /\ scopes = <<>>
    /\ conts = <<>>
    /\ gas = 0
    /\ ran = [b \in Blocks |-> [i \in DOMAIN Code[b] |-> 0]]
    /\ restored = {} /\ concurrent = FALSE /\ spilled = FALSE

-----------------------------------------------------------------------------
Inner(t) == Last(acts[t])
Here(t)  == Last(Inner(t).frames)
Stmt(t)  == Code[Here(t).block][Here(t).at]

\* Thread t can take a step of its own: its branches have been joined.
Active(t) == /\ acts[t] # <<>> /\ out[t] = "run"
             /\ \A u \in Threads : parent[u] # t

\* Thread t is at a statement, and not at the end of its frame.
AtStatement(t) == /\ Active(t)
                  /\ Inner(t).frames # <<>>
                  /\ Here(t).at <= Len(Code[Here(t).block])

\* The innermost activation, once the statement is behind it.
Past(t) == [Inner(t) EXCEPT !.frames[Len(Inner(t).frames)].at = @ + 1]

\* The frames of the innermost activation, the current one replaced by fs.
Jump(t, fs) == [Inner(t) EXCEPT !.frames = Front(@) \o fs]

Count(t) == ran' = [ran EXCEPT ![Here(t).block][Here(t).at] = @ + 1]

\* The handler of an effect: the one in the highest scope that has one.
Handler(s, e) == LET found == {i \in DOMAIN s : s[i].handler[e] # NoBlock} IN
    IF found = {} THEN NoBlock ELSE s[Max(found)].handler[e]

\* resume_k: the highest scope that has one.
ResumeK == LET found == {i \in DOMAIN scopes : scopes[i].k # 0} IN
    IF found = {} THEN 0 ELSE scopes[Max(found)].k

\* ScopeGuard::new, for an activation that thread t is about to start.
NewScope(t, s, handler, k) == Append(s, [owner |-> <<t, Len(acts[t]) + 1>>, handler |-> handler, k |-> k])

\* The live ScopeGuards, and those of thread t.
Held(t) == {i \in DOMAIN acts[t] : acts[t][i].guard}
Guards  == UNION {{t} \X Held(t) : t \in Threads}

\* The frames and the result of thread t change, nothing else of the state.
Goes(t, inner) == /\ acts' = [acts EXCEPT ![t][Len(acts[t])] = inner]
                  /\ UNCHANGED <<out, parent, scopes, conts, restored, concurrent>>

Ends(t, r) == /\ out' = [out EXCEPT ![t] = r]
              /\ UNCHANGED <<acts, parent, scopes, conts, restored, concurrent>>

\* The caller goes past its statement and waits for activation a.
Calls(t, a) == acts' = [acts EXCEPT ![t] = Front(@) \o <<Past(t), a>>]

-----------------------------------------------------------------------------
(* Steps with a fault, no part of Next: each breaks a property below.       *)

\* A statement is executed before the gas is looked at.
BeginUnchecked(t, op) ==
    /\ AtStatement(t) /\ Stmt(t).op = op
    /\ gas' = gas + 1
    /\ Count(t)
    /\ UNCHANGED Code

\* A loop evaluates its condition again without a statement.
LoopFree(t) ==
    /\ AtStatement(t) /\ Stmt(t).op = "loop"
    /\ UNCHANGED <<Code, gas, ran, spilled>>
    /\ \/ Goes(t, Jump(t, <<Here(t), [block |-> Stmt(t).body, at |-> 1]>>))
       \/ Goes(t, Past(t))

\* pop_scope is called after the body, so an early return skips it.
PopOnSuccess(t) == scopes' = IF Inner(t).guard /\ scopes # <<>> /\ out[t] # "err"
                                THEN Front(scopes) ELSE scopes

\* The oldest scope goes instead of the newest.
PopOldest(t) == scopes' = IF Inner(t).guard /\ scopes # <<>> THEN Tail(scopes) ELSE scopes

\* zet x = perform goes on by itself after its handler.
BindUse(how) == "drop"

-----------------------------------------------------------------------------
(* Statements.                                                              *)

\* The head of the loop: consume_gas, then the statement.
Begin(t, op) ==
    /\ AtStatement(t) /\ Stmt(t).op = op
    /\ gas < GasLimit
    /\ gas' = gas + 1
    /\ Count(t)
    /\ UNCHANGED Code

\* consume_gas or check_timeout fails: the activation ends with an error.
Exhausted(t) ==
    /\ AtStatement(t)
    /\ gas = GasLimit
    /\ Ends(t, "err")
    /\ UNCHANGED <<Code, gas, ran, spilled>>

\* Print, File, Http, SysOp, the definition of a function and the others that
\* neither branch nor bind: they succeed, are skipped, or fail.
Work(t) ==
    /\ Begin(t, "work")
    /\ Goes(t, Past(t)) \/ Ends(t, "err")
    /\ UNCHANGED spilled

\* Send: whatever the peers answer, and whether there are any.
SendOut(t) == Begin(t, "send") /\ Goes(t, Past(t)) /\ UNCHANGED spilled

\* set_var_native: into the top scope, or the globals when there is none.
SetVar(t) ==
    spilled' = \/ spilled
               \/ /\ Held(t) # {}
                  /\ \/ scopes = <<>>
                     \/ Last(scopes).owner # <<t, Max(Held(t))>>

\* A value that cannot be computed assigns nothing.
Assign(t) ==
    /\ Begin(t, "assign")
    /\ \/ Goes(t, Past(t)) /\ SetVar(t)
       \/ Ends(t, "err") /\ UNCHANGED spilled

Throw(t)  == Begin(t, "throw")  /\ Ends(t, "err")  /\ UNCHANGED spilled
Return(t) == Begin(t, "return") /\ Ends(t, "some") /\ UNCHANGED spilled

\* installeer_ondertekend returns from execute_ast as soon as it is done.
Install(t) ==
    /\ Begin(t, "install")
    /\ \E r \in {"none", "err"} : Ends(t, r)
    /\ UNCHANGED spilled

\* TrampolineStack::push, for as many frames as fs adds.
Pushes(t, fs) == IF Len(Inner(t).frames) - 1 + Len(fs) > MaxFrames
                    THEN Ends(t, "err") ELSE Goes(t, Jump(t, fs))

\* The rest of the list goes back first, then the chosen branch.
If(t) == LET rest == [Here(t) EXCEPT !.at = @ + 1]
             branch(b) == IF b = NoBlock THEN <<rest>> ELSE <<rest, [block |-> b, at |-> 1]>> IN
    /\ Begin(t, "if")
    /\ \/ \E b \in {Stmt(t).body, Stmt(t).other} : Pushes(t, branch(b))
       \/ Ends(t, "err")
    /\ UNCHANGED spilled

\* A block has frames of its own and no scope.
Block(t) ==
    /\ Begin(t, "block")
    /\ Pushes(t, <<[Here(t) EXCEPT !.at = @ + 1], [block |-> Stmt(t).body, at |-> 1]>>)
    /\ UNCHANGED spilled

\* The rest that a loop leaves behind starts with the loop itself.
Loop(t) ==
    /\ Begin(t, "loop")
    /\ \/ Pushes(t, <<Here(t), [block |-> Stmt(t).body, at |-> 1]>>)
       \/ Goes(t, Past(t))
       \/ Ends(t, "err")
    /\ UNCHANGED spilled

\* A body that runs in an activation of its own, without a scope: that of
\* try, of the inline assembly's fallback, and the ones whose result nobody
\* looks at: a module's, a block in a definition, an imported file's.
Nested(t, op, use) ==
    /\ Begin(t, op)
    /\ Calls(t, [Activation(Stmt(t).body, 1, use, FALSE) EXCEPT
                   !.other = IF op = "try" THEN Stmt(t).other ELSE NoBlock])
    /\ UNCHANGED <<out, parent, scopes, conts, restored, concurrent, spilled>>

\* voor elke: a list of some length, one activation per item, which is assigned
\* first; what is no list is logged, and what cannot be computed is an error.
ForEach(t) ==
    /\ Begin(t, "each")
    /\ \/ \E n \in 1 .. MaxItems :
            /\ Calls(t, Item(Stmt(t).body, n - 1))
            /\ SetVar(t)
            /\ UNCHANGED <<out, parent, scopes, conts, restored, concurrent>>
       \/ Goes(t, Past(t)) /\ UNCHANGED spilled
       \/ Ends(t, "err") /\ UNCHANGED spilled

\* A function call: the parameters live in a scope that the guard pops.
Call(t) ==
    /\ Begin(t, "call")
    /\ Calls(t, Activation(Stmt(t).body, 1, "call", TRUE))
    /\ scopes' = NewScope(t, scopes, Nobody, 0)
    /\ UNCHANGED <<out, parent, conts, restored, concurrent, spilled>>

\* handle: the handlers are variables of the guarded scope.
Handle(t) ==
    /\ Begin(t, "handle")
    /\ Calls(t, Activation(Stmt(t).body, 1, "handle", TRUE))
    /\ scopes' = NewScope(t, scopes, [Nobody EXCEPT ![Stmt(t).effect] = Stmt(t).other], 0)
    /\ UNCHANGED <<out, parent, conts, restored, concurrent, spilled>>

\* What follows the handler: `perform` goes on, `zet x = perform` does not,
\* for the resumption runs the rest.
HandlerUse(how) == IF how = "bind" THEN "tail" ELSE "drop"

\* Without a handler an effect of the library runs, such as Tcp, Asm or
\* Swarm.dispatch, and its result is dropped: only a call with the wrong
\* arguments is an error.  A definition gets an empty value instead.
NativeEffect(t, how) ==
    \/ Goes(t, Past(t))
    \/ how # "bind" /\ Ends(t, "err")

\* perform, as a statement, in a definition, or with a qualified name: the
\* statement and the rest of its list are captured with the scopes.  An open
\* handle anywhere in the process refuses that.
Perform(t, how) == LET h == Handler(scopes, "user") IN
    /\ Begin(t, how)
    /\ \/ h = NoBlock /\ NativeEffect(t, how)
       \/ h # NoBlock /\ Ends(t, "err")
       \/ /\ h # NoBlock
          /\ conts' = Append(conts, [block |-> Here(t).block, at |-> Here(t).at, how |-> how,
                                     scopes |-> scopes, resumed |-> 0])
          /\ scopes' = NewScope(t, scopes, Nobody, Len(conts) + 1)
          /\ Calls(t, Activation(h, 1, HandlerUse(how), TRUE))
          /\ UNCHANGED <<out, parent, restored, concurrent>>
    /\ UNCHANGED spilled

\* The rest of a captured list, run for its effects.  The continuation of a
\* qualified perform is of no form that resume knows.
Continuation(k) == Activation(conts[k].block, conts[k].at + 1, "drop", FALSE)

\* What a resume finds: "resume" names resume_k; "revive" is a resume of any
\* other expression, such as a continuation that a handler has returned or a
\* variable has kept.  0 is a value that is no continuation.
Resumable(op) == IF op = "resume" THEN {ResumeK} ELSE 0 .. Len(conts)

\* The value for the perform is computed first, and may fail.  Then the scopes
\* of the capture replace the present ones, however many they are; then the
\* na_aankomst handler of the restored scopes runs, then the rest.
Resume(t, op) ==
    /\ Begin(t, op)
    /\ \/ 0 \in Resumable(op) /\ Goes(t, Past(t))
       \/ Resumable(op) # {0} /\ Ends(t, "err")
       \/ \E k \in Resumable(op) \ {0} :
            LET s == conts[k].scopes
                h == Handler(s, "arrive")
            IN
            /\ conts' = [conts EXCEPT ![k].resumed = @ + 1]
            /\ restored' = restored \union {op}
            /\ scopes' = IF h = NoBlock THEN s ELSE NewScope(t, s, Nobody, 0)
            /\ IF h # NoBlock
                  THEN Calls(t, [Activation(h, 1, "arrive", TRUE) EXCEPT !.k = k])
                  ELSE IF conts[k].how = "qualified"
                  THEN acts' = [acts EXCEPT ![t][Len(acts[t])] = Past(t)]
                  ELSE Calls(t, Continuation(k))
            /\ UNCHANGED <<out, parent, concurrent>>
    /\ UNCHANGED spilled

\* Swarm.migrate: the voor_vertrek handler first; then the capture and the
\* dispatch, after which the activation ends, with an error unless the peer
\* has answered.
Migrate(t) == LET h == Handler(scopes, "depart") IN
    /\ Begin(t, "migrate")
    /\ \/ h = NoBlock /\ \E r \in {"none", "err"} : Ends(t, r)
       \/ /\ h # NoBlock
          /\ Calls(t, Activation(h, 1, "depart", TRUE))
          /\ scopes' = NewScope(t, scopes, Nobody, 0)
          /\ UNCHANGED <<out, parent, conts, restored, concurrent>>
    /\ UNCHANGED spilled

Idle == {u \in Threads : acts[u] = <<>>}

\* schedule_statement gives a statement to a peer, if any is known.
Elsewhere(branches) == IF HasPeers THEN SUBSET branches ELSE {{}}

\* gelijktijdig: branches on the same memory; with peers a branch may have
\* been executed elsewhere.  The statement waits for all of them.
Concurrent(t) ==
    /\ Begin(t, "concurrent")
    /\ \E u, v \in Idle : \E away \in Elsewhere({u, v}) :
         /\ u # v
         /\ acts' = [x \in Threads |->
                       CASE x = t -> Front(acts[t]) \o <<Past(t)>>
                         [] x = u /\ x \notin away -> <<Activation(Stmt(t).body, 1, "top", FALSE)>>
                         [] x = v /\ x \notin away -> <<Activation(Stmt(t).other, 1, "top", FALSE)>>
                         [] OTHER -> acts[x]]
         /\ parent' = [x \in Threads |-> IF x \in {u, v} \ away THEN t ELSE parent[x]]
    /\ concurrent' = TRUE
    /\ UNCHANGED <<out, scopes, conts, restored, spilled>>

\* daemon: a task of its own that nobody joins.
Daemon(t) ==
    /\ Begin(t, "daemon")
    /\ \E u \in Idle :
         acts' = [acts EXCEPT ![t] = Front(@) \o <<Past(t)>>,
                              ![u] = <<Activation(Stmt(t).body, 1, "top", FALSE)>>]
    /\ concurrent' = TRUE
    /\ UNCHANGED <<out, parent, scopes, conts, restored, spilled>>

-----------------------------------------------------------------------------
(* The end of frames and of activations.                                    *)

\* A frame at its end is popped; an activation without frames is Ok(None).
EndFrame(t) ==
    /\ Active(t)
    /\ IF Inner(t).frames = <<>>
          THEN Ends(t, "none")
          ELSE /\ Here(t).at > Len(Code[Here(t).block])
               /\ Goes(t, [Inner(t) EXCEPT !.frames = Front(@)])
    /\ UNCHANGED <<Code, gas, ran, spilled>>

\* ScopeGuard::drop pops the top scope, whoever pushed it.
DropGuard(t) == scopes' = IF Inner(t).guard /\ scopes # <<>> THEN Front(scopes) ELSE scopes

Deliver(t, uses, results) ==
    /\ acts[t] # <<>> /\ out[t] \in results /\ Inner(t).use \in uses
    /\ DropGuard(t)
    /\ UNCHANGED <<Code, conts, gas, ran, restored, concurrent, spilled>>

\* The caller goes on behind the statement.
GoOn(t) ==
    /\ \/ Deliver(t, {"drop"}, {"none", "some", "err"})
       \/ Deliver(t, {"call", "inline"}, {"none", "some"})
       \/ Deliver(t, {"handle", "try", "catch"}, {"none"})
       \/ Deliver(t, {"each"}, {"none"}) /\ Inner(t).left = 0
    /\ acts' = [acts EXCEPT ![t] = Front(@)]
    /\ out' = [out EXCEPT ![t] = "run"]
    /\ UNCHANGED parent

\* The caller's activation ends too, with the same result.
PassOn(t) ==
    /\ \/ Deliver(t, {"tail"}, {"none", "some", "err"})
       \/ Deliver(t, {"handle", "try", "catch", "each"}, {"some"})
       \/ Deliver(t, {"call", "inline", "handle", "catch", "each", "depart", "arrive"}, {"err"})
    /\ acts' = [acts EXCEPT ![t] = Front(@)]
    /\ UNCHANGED <<out, parent>>

\* Another activation takes the place of the one that ended.
Follow(t, a) ==
    /\ acts' = [acts EXCEPT ![t] = Front(@) \o <<a>>]
    /\ out' = [out EXCEPT ![t] = "run"]
    /\ UNCHANGED parent

Catch(t) ==
    /\ Deliver(t, {"try"}, {"err"})
    /\ Follow(t, Activation(Inner(t).other, 1, "catch", FALSE))

NextItem(t) ==
    /\ Deliver(t, {"each"}, {"none"}) /\ Inner(t).left > 0
    /\ Follow(t, Item(Inner(t).other, Inner(t).left - 1))

Arrived(t) ==
    /\ Deliver(t, {"arrive"}, {"none", "some"})
    /\ Follow(t, IF conts[Inner(t).k].how = "qualified"
                    THEN [Activation(Main, 1, "drop", FALSE) EXCEPT !.frames = <<>>]
                    ELSE Continuation(Inner(t).k))

Departed(t) ==
    /\ Deliver(t, {"depart"}, {"none", "some"})
    /\ acts' = [acts EXCEPT ![t] = Front(@)]
    /\ \E r \in {"none", "err"} : out' = [out EXCEPT ![t] = r]
    /\ UNCHANGED parent

\* The errors of branches and daemons are logged.
ThreadEnds(t) ==
    /\ Deliver(t, {"top"}, {"none", "some", "err"})
    /\ acts' = [acts EXCEPT ![t] = <<>>]
    /\ out' = [out EXCEPT ![t] = "run"]
    /\ parent' = [parent EXCEPT ![t] = NoThread]

-----------------------------------------------------------------------------
Step(t) ==
    \/ Exhausted(t) \/ Work(t) \/ SendOut(t) \/ Assign(t) \/ Throw(t) \/ Return(t) \/ Install(t)
    \/ If(t) \/ Block(t) \/ Loop(t) \/ ForEach(t) \/ Call(t) \/ Handle(t)
    \/ Nested(t, "try", "try") \/ Nested(t, "apart", "drop") \/ Nested(t, "inline", "inline")
    \/ \E how \in {"perform", "bind", "qualified"} : Perform(t, how)
    \/ \E op \in {"resume", "revive"} : Resume(t, op)
    \/ Migrate(t) \/ Concurrent(t) \/ Daemon(t)
    \/ EndFrame(t) \/ GoOn(t) \/ PassOn(t) \/ Catch(t) \/ NextItem(t)
    \/ Arrived(t) \/ Departed(t) \/ ThreadEnds(t)

Next == \E t \in Threads : Step(t)

\* Tokio polls every task that can go on.
Spec == Init /\ [][Next]_vars /\ \A t \in Threads : WF_vars(Step(t))

-----------------------------------------------------------------------------
(* Properties.                                                              *)

\* As long as no resume has replaced the stack there is one scope per live
\* ScopeGuard, however the calls of several tasks return or fail.  A resume
\* inside the handler only ever shortens it: nothing is left when the guards
\* go.  A kept continuation, resumed once the guards of its capture are gone,
\* does put back scopes that no guard will pop.
ScopesMatchGuards ==
    /\ restored = {} => Len(scopes) = Cardinality(Guards)
    /\ "revive" \notin restored => Len(scopes) <= Cardinality(Guards)

\* What a call or a handler assigns goes to its own scope, and not to that of
\* a caller or to the globals, unless a resume has put other scopes under
\* the live guards or another task pushes and pops on the same stack.
LocalsStayLocal == spilled => restored # {} \/ concurrent

\* The continuations of a statement, and each resumption of one.
Captured(b, i) == {k \in DOMAIN conts : conts[k].block = b /\ conts[k].at = i}
Resumptions(b, i) == UNION {{k} \X (1 .. conts[k].resumed) : k \in Captured(b, i)}

\* The statement behind a perform runs once for each resumption and, although
\* a handler has taken over, once more for the perform itself; behind
\* `zet x = perform` it runs for the resumptions alone, and behind a
\* qualified one for the perform alone, unless it is a loop, which runs again
\* by itself.  Behind a migrate, and behind the installation of a package,
\* nothing ever runs.
RunsAfterPerform ==
    \A b \in Blocks : \A i \in 1 .. Len(Code[b]) - 1 :
        LET op == Code[b][i].op
            resumed == Cardinality(Resumptions(b, i))
        IN
        /\ op \in {"migrate", "install"} => ran[b][i + 1] = 0
        /\ Code[b][i + 1].op # "loop" =>
             /\ op = "perform" => ran[b][i + 1] <= ran[b][i] + resumed
             /\ op = "qualified" => ran[b][i + 1] <= ran[b][i]
             /\ op = "bind" => ran[b][i + 1] + Cardinality(Captured(b, i)) <= ran[b][i] + resumed

\* Every program of the sandbox ends, whatever it loops over, calls itself,
\* catches or leaves to daemons: they all spend the same gas.
SandboxEnds == <>(\A t \in Threads : acts[t] = <<>>)
=============================================================================
