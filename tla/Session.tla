------------------------------ MODULE Session ------------------------------
(***************************************************************************)
(* What a node is told and how it is undone: the REPL of helheim-cli, the   *)
(* commands of process_command (orchestra/mod.rs), the requests of          *)
(* helheim-gateway, and the snapshots of memory.rs on which they all work.  *)
(*                                                                          *)
(* The REPL collects lines, takes a snapshot before each command, and can   *)
(* put a snapshot back.  Meanwhile packets of the swarm and requests of the *)
(* gateway run on the same memory.  A snapshot reads the globals one by one,*)
(* and a rollback clears and refills them, so others come in between.       *)
(*                                                                          *)
(* The text of a line is its kind: what it adds to the depth of braces.     *)
(* Functions and models of a snapshot are handled as its globals are, and   *)
(* are left out; so is the input and output that commands do.               *)
(***************************************************************************)
EXTENDS Integers, Sequences, FiniteSets, SequencesExt

CONSTANTS Keys, Values,
          Undefined,   \* the value of a key that the globals do not have
          Repl,        \* the task of the REPL
          Others,      \* tasks that handle a packet or a request
          Commands,    \* what the REPL may be told
          Packets,     \* commands that the swarm may ask for
          Requests,    \* what the gateway may be asked: [kind, flaw, body]
          Functions,   \* func_store: from name to command
          MaxLines, MaxCommands, MaxScopes, MaxAsks,
          MaxHistory   \* the limit of the history (100)

Tasks == {Repl} \union Others
Statements == [op : {"set"}, key : Keys, val : Values] \union [op : {"enter", "leave", "fail", "shell", "file", "http", "value"}]
Flaws == {"none", "parse", "link", "analysis", "outside"}
Routes == {"empty", "ast", "delta", "hel", "script", "code", "guarded", "reach", "shared", "logged", "intent"}

Codes == [route : Routes, flaw : Flaws, body : Seq(Statements)]

ASSUME SessionAssumption ==
    /\ Undefined \notin Values /\ Repl \notin Others
    /\ MaxHistory \in Nat \ {0} /\ MaxLines \in Nat /\ MaxCommands \in Nat /\ MaxScopes \in Nat /\ MaxAsks \in Nat
    /\ \A c \in Commands \union Packets :
         c \in Codes \/ (c.route = "function" /\ c.name \in DOMAIN Functions)
    /\ \A n \in DOMAIN Functions : Functions[n] \in Codes
    /\ \A r \in Requests : r.body \in Seq(Statements)

VARIABLES globals,    \* the globals
          scopes,     \* local_stack
          history,    \* the snapshots, newest last
          phase,      \* of the REPL: "prompt", "snap", "run", "clear", "fill", "stack" or "exit"
          buffer,     \* repl_buffer: what each line adds to the depth
          depth,      \* brace_depth
          todo,       \* keys that a snapshot or a rollback has still to handle
          copy,       \* the snapshot that is being taken or put back
          told,       \* the command that waits for its snapshot
          job,        \* what each task executes
          outcome,    \* how the last command or request of each task ended
          asks,       \* how many packets and requests have come, for the bound
          before,     \* history: the memory at the start of each snapshot
          want,       \* history: the entry of `before` that a rollback is to restore
          quiet       \* history: nobody else has changed the memory since the phase began

vars == <<globals, scopes, history, phase, buffer, depth, todo, copy, told, job, outcome, asks, before, want, quiet>>

Maps == [Keys -> Values \union {Undefined}]
NoValues == [k \in Keys |-> Undefined]
Memory == [globals : Maps, scopes : Seq(Maps)]
Blank == [globals |-> NoValues, scopes |-> <<>>]
Job(route, rest, privileged) ==
    [route |-> route, rest |-> rest, privileged |-> privileged, pushed |-> 0, ran |-> FALSE, failed |-> FALSE]
Idle == Job("none", <<>>, FALSE)
Jobs == [route : Routes \union {"none", "told", "request"}, rest : Seq(Statements),
         privileged : BOOLEAN, pushed : Nat, ran : BOOLEAN, failed : BOOLEAN]
NoCommand == [route |-> "empty", flaw |-> "none", body |-> <<>>]
Lines(lines, net) == Cardinality({i \in DOMAIN lines : lines[i] = net})
Balance(lines) == Lines(lines, 1) - Lines(lines, -1)

Shortest(m, n) == IF m < n THEN m ELSE n

\* The depth of the braces is that of the lines in the buffer, and the history
\* holds the last commands that are not undone.
TypeOK ==
    /\ globals \in Maps /\ scopes \in Seq(Maps)
    /\ history \in Seq(Memory) /\ Len(history) <= Shortest(Len(before), MaxHistory)
    /\ phase \in {"prompt", "snap", "run", "clear", "fill", "stack", "exit"}
    /\ buffer \in Seq({-1, 0, 1}) /\ depth = Balance(buffer) /\ told \in Commands \union {NoCommand}
    /\ todo \subseteq Keys /\ copy \in Memory
    /\ job \in [Tasks -> Jobs]
    /\ outcome \in [Tasks -> {"none", "ok", "err", "200", "400", "401", "500"}]
    /\ before \in Seq([memory : Memory, exact : BOOLEAN]) /\ want \in Memory
    /\ quiet \in BOOLEAN

Init ==
    /\ globals = NoValues   \* load_sync finds no file that this program wrote
    /\ scopes = <<>> /\ history = <<>> /\ phase = "prompt"
    /\ buffer = <<>> /\ depth = 0
    /\ todo = {} /\ copy = Blank /\ told = NoCommand
    /\ job = [t \in Tasks |-> Idle]
    /\ outcome = [t \in Tasks |-> "none"]
    /\ asks = 0 /\ before = <<>> /\ want = Blank /\ quiet = TRUE

memory == <<globals, scopes>>
repl == <<phase, buffer, depth, told>>
undo == <<history, todo, copy, before, want>>

-----------------------------------------------------------------------------
(* Routing.  The order of the tests in process_command gives each command   *)
(* one route; what it decides before a statement runs is "ok" or "err".     *)

\* A command of the parser: only the analyser's refusal is an error.
StartCode(cmd) ==
    CASE cmd.flaw = "analysis" -> "err"
      [] cmd.flaw \in {"parse", "link"} -> "ok"
      [] OTHER -> "run"

\* Statements of another node: what cannot be read is acknowledged.
StartStatements(cmd) == IF cmd.flaw = "parse" THEN "ok" ELSE "run"

\* rune, heavy_work and voer uit are not for a sandbox.
StartGuarded(privileged) == IF privileged THEN "ok" ELSE "err"

\* lees, schrijf and haal are, where they stay inside it.  Errors are logged.
StartReach(cmd, privileged) == IF cmd.flaw = "outside" THEN StartGuarded(privileged) ELSE "ok"

\* Everything else is acknowledged, and logged where it fails.
StartLogged == "ok"

\* swarm_work sends parts of heavy_work to peers and tells itself the rest:
\* what it refuses itself is logged, as what a peer answers.
StartShared(privileged) == IF StartGuarded(privileged) = "err" THEN StartLogged ELSE StartGuarded(privileged)

\* Bare metal blocks need the feature cuda, which no default build has.
StartHel == "err"

Start(cmd, privileged) ==
    CASE cmd.route \in {"code", "script"} -> StartCode(cmd)
      [] cmd.route = "ast" -> StartStatements(cmd)
      [] cmd.route = "hel" -> StartHel
      [] cmd.route = "guarded" -> StartGuarded(privileged)
      [] cmd.route = "reach" -> StartReach(cmd, privileged)
      [] cmd.route = "shared" -> StartShared(privileged)
      [] cmd.route = "intent" -> "run"
      [] OTHER -> StartLogged

\* fault: every error is returned
EndedLoudly(route, failed) == IF failed THEN "err" ELSE "ok"

\* Errors of running code are logged, of a script or an intent returned.
Ended(route, failed) == IF failed /\ route \in {"script", "intent"} THEN "err" ELSE "ok"

\* An unknown command may be the name of a stored one.
Resolved(cmd) == IF cmd.route = "function" THEN Functions[cmd.name] ELSE cmd

Command(t, cmd, privileged) ==
    LET c == Resolved(cmd)
        s == Start(c, privileged) IN
    /\ outcome' = [outcome EXCEPT ![t] = IF s = "run" THEN "none" ELSE s]
    /\ job' = [job EXCEPT ![t] =
                 IF s = "run" THEN Job(c.route, c.body, privileged)
                 ELSE Job(IF t = Repl THEN "told" ELSE "none", <<>>, FALSE)]

-----------------------------------------------------------------------------
(* The REPL *)

\* A line is put in the buffer.  One line is executed at once; a block of
\* several waits for an empty line.
Line(net) ==
    /\ phase = "prompt" /\ Len(buffer) < MaxLines
    /\ buffer' = Append(buffer, net) /\ depth' = depth + net
    /\ ~(depth' <= 0 /\ Len(buffer') = 1)
    /\ UNCHANGED <<memory, undo, phase, told, job, outcome, quiet, asks>>

\* An empty line does nothing inside a block, nor where it has too many braces.
EmptyLine ==
    /\ phase = "prompt" /\ buffer # <<>> /\ depth = 0

Entered(net) == phase = "prompt" /\ buffer = <<>> /\ net <= 0

Taken == buffer' = <<>> /\ depth' = 0

\* A command other than exit, clear, help and rollback: first a snapshot.
Tell ==
    /\ EmptyLine \/ \E net \in {-1, 0} : Entered(net)
    /\ Taken
    /\ Len(before) < MaxCommands
    /\ \E c \in Commands : told' = c
    /\ phase' = "snap" /\ todo' = Keys /\ copy' = Blank /\ quiet' = TRUE
    /\ want' = [globals |-> globals, scopes |-> scopes]
    /\ UNCHANGED <<memory, history, before, job, outcome, asks>>

SnapshotKey(k) ==
    /\ phase = "snap" /\ k \in todo
    /\ todo' = todo \ {k}
    /\ copy' = [copy EXCEPT !.globals[k] = globals[k]]
    /\ UNCHANGED <<memory, history, phase, buffer, depth, told, job, outcome, before, want, quiet, asks>>

\* The scopes come last, the oldest snapshot goes, and the command runs.
SnapshotDone ==
    /\ phase = "snap" /\ todo = {}
    /\ LET all == Append(history, [copy EXCEPT !.scopes = scopes]) IN
       history' = IF Len(all) > MaxHistory THEN Tail(all) ELSE all
    /\ before' = Append(before, [memory |-> want, exact |-> quiet])
    /\ phase' = "run"
    /\ Command(Repl, told, TRUE)
    /\ UNCHANGED <<memory, buffer, depth, told, todo, copy, want, quiet, asks>>

Prompt ==
    /\ phase = "run" /\ outcome[Repl] # "none"
    /\ phase' = "prompt" /\ told' = NoCommand
    /\ job' = [job EXCEPT ![Repl] = Idle] /\ outcome' = [outcome EXCEPT ![Repl] = "none"]
    /\ UNCHANGED <<memory, undo, buffer, depth, quiet, asks>>

\* fault: the depth survives
InterruptInside ==
    /\ phase = "prompt" /\ buffer # <<>>
    /\ buffer' = <<>> /\ depth' = depth
    /\ UNCHANGED <<memory, undo, phase, told, job, outcome, quiet, asks>>

Interrupt ==
    /\ phase = "prompt" /\ buffer # <<>>
    /\ Taken
    /\ UNCHANGED <<memory, undo, phase, told, job, outcome, quiet, asks>>

\* exit or quit; or the end of the input, or an error of the terminal.
Exit ==
    /\ phase = "prompt"
    /\ phase' = "exit"
    /\ \/ Entered(0) /\ Taken
       \/ UNCHANGED <<buffer, depth>>
    /\ UNCHANGED <<memory, undo, told, job, outcome, quiet, asks>>

\* rollback, terug and undo take no snapshot; too many steps do nothing.
Rollback ==
    /\ EmptyLine \/ Entered(0)
    /\ Taken
    /\ \E steps \in 0 .. MaxHistory + 1 :
         IF steps = 0 \/ steps > Len(history) THEN UNCHANGED <<phase, undo, quiet>>
         ELSE /\ copy' = history[Len(history) - steps + 1]
              /\ history' = SubSeq(history, 1, Len(history) - steps)
              /\ want' = before[Len(before) - steps + 1].memory
              /\ quiet' = before[Len(before) - steps + 1].exact
              /\ before' = SubSeq(before, 1, Len(before) - steps)
              /\ phase' = "clear" /\ todo' = Keys
    /\ UNCHANGED <<memory, told, job, outcome, asks>>

\* fault: what a snapshot does not have is left alone
KeepNew ==
    /\ phase = "clear"
    /\ phase' = "fill"
    /\ UNCHANGED <<memory, history, buffer, depth, told, todo, copy, job, outcome, before, want, quiet, asks>>

Clear ==
    /\ phase = "clear"
    /\ globals' = NoValues
    /\ phase' = "fill"
    /\ UNCHANGED <<scopes, history, buffer, depth, told, todo, copy, job, outcome, before, want, quiet, asks>>

\* A key that the snapshot does not have is not touched.
Fill(k) ==
    /\ phase = "fill" /\ k \in todo
    /\ todo' = todo \ {k}
    /\ globals' = IF copy.globals[k] = Undefined THEN globals ELSE [globals EXCEPT ![k] = copy.globals[k]]
    /\ UNCHANGED <<scopes, history, phase, buffer, depth, told, copy, job, outcome, before, want, quiet, asks>>

\* The scopes are replaced whatever calls are in progress.
Restack ==
    /\ phase = "fill" /\ todo = {}
    /\ scopes' = copy.scopes
    /\ phase' = "prompt"
    /\ UNCHANGED <<globals, history, buffer, depth, told, todo, copy, job, outcome, before, want, quiet, asks>>

-----------------------------------------------------------------------------
(* What others ask *)

\* A packet is a command for the sandbox: a signature in it is ignored.
Packet(t) ==
    /\ job[t] = Idle /\ outcome[t] = "none"
    /\ asks < MaxAsks /\ asks' = asks + 1
    /\ \E c \in Packets : Command(t, c, FALSE)
    /\ UNCHANGED <<memory, repl, undo, quiet>>

\* A request is a script, which is executed as it is parsed.  With a prefix
\* SIGNED and no separator it stays in the sandbox, and is parsed with the prefix.
Admission(r) ==
    CASE r.kind = "forged" -> "401"
      [] r.kind \in {"garbled", "blank"} \/ r.flaw = "parse" -> "400"
      [] OTHER -> "none"

Request(t) ==
    /\ job[t] = Idle /\ outcome[t] = "none"
    /\ asks < MaxAsks /\ asks' = asks + 1
    /\ \E r \in Requests :
         /\ outcome' = [outcome EXCEPT ![t] = Admission(r)]
         /\ job' = [job EXCEPT ![t] =
                      IF Admission(r) # "none" THEN Idle
                      ELSE Job("request", r.body, r.kind = "signed")]
    /\ UNCHANGED <<memory, repl, undo, quiet>>

Answer(t) ==
    /\ t # Repl /\ outcome[t] # "none"
    /\ outcome' = [outcome EXCEPT ![t] = "none"] /\ job' = [job EXCEPT ![t] = Idle]
    /\ UNCHANGED <<memory, repl, undo, quiet, asks>>

-----------------------------------------------------------------------------
(* Execution, on one memory *)

Executing(t) == job[t].route # "none" /\ outcome[t] = "none"
Statement(t) == Head(job[t].rest)
Disturb(t) == quiet' = (quiet /\ t = Repl)
Done(t, pushed) == job' = [job EXCEPT ![t].rest = Tail(@), ![t].pushed = pushed, ![t].ran = TRUE]

Set(t) ==
    /\ Executing(t) /\ job[t].rest # <<>> /\ Statement(t).op = "set"
    /\ LET s == Statement(t) IN
       IF scopes = <<>> THEN globals' = [globals EXCEPT ![s.key] = s.val] /\ scopes' = scopes
       ELSE globals' = globals /\ scopes' = [scopes EXCEPT ![Len(scopes)][s.key] = s.val]
    /\ Done(t, job[t].pushed) /\ Disturb(t)
    /\ UNCHANGED <<repl, undo, outcome, asks>>

Enter(t) ==
    /\ Executing(t) /\ job[t].rest # <<>> /\ Statement(t).op = "enter" /\ Len(scopes) < MaxScopes
    /\ scopes' = Append(scopes, NoValues)
    /\ Done(t, job[t].pushed + 1) /\ Disturb(t)
    /\ UNCHANGED <<globals, repl, undo, outcome, asks>>

\* A call returns; or what ended has guards left.  The top scope goes, whose ever.
Popped == IF scopes = <<>> THEN scopes ELSE Front(scopes)

Leave(t) ==
    /\ Executing(t) /\ job[t].rest # <<>> /\ Statement(t).op = "leave" /\ job[t].pushed > 0
    /\ scopes' = Popped
    /\ Done(t, job[t].pushed - 1) /\ Disturb(t)
    /\ UNCHANGED <<globals, repl, undo, outcome, asks>>

Unwind(t) ==
    /\ Executing(t) /\ job[t].rest = <<>> /\ job[t].pushed > 0
    /\ scopes' = Popped
    /\ job' = [job EXCEPT ![t].pushed = @ - 1] /\ Disturb(t)
    /\ UNCHANGED <<globals, repl, undo, outcome, asks>>

\* The library's functions that a sandbox may not call: systeem.shell and env;
\* a file outside the sandbox; a local address.
ShellRefused(t) == Statement(t).op = "shell" /\ ~job[t].privileged
FileRefused(t) == Statement(t).op = "file" /\ ~job[t].privileged
HttpRefused(t) == Statement(t).op = "http" /\ ~job[t].privileged
Refused(t) == ShellRefused(t) \/ FileRefused(t) \/ HttpRefused(t)

\* What is not refused gives a value, "null" where the system says no.
Builtin(t) ==
    /\ Executing(t) /\ job[t].rest # <<>> /\ Statement(t).op \in {"shell", "file", "http", "value"}
    /\ ~Refused(t)
    /\ Done(t, job[t].pushed)
    /\ UNCHANGED <<memory, repl, undo, outcome, quiet, asks>>

\* A statement fails, and with it what is executed.
Fail(t) ==
    /\ Executing(t) /\ job[t].rest # <<>>
    /\ Statement(t).op = "fail" \/ Refused(t)
    /\ job' = [job EXCEPT ![t].rest = <<>>, ![t].failed = TRUE, ![t].ran = TRUE]
    /\ UNCHANGED <<memory, repl, undo, outcome, quiet, asks>>

End(t) ==
    /\ Executing(t) /\ job[t].rest = <<>> /\ job[t].pushed = 0
    /\ outcome' = [outcome EXCEPT ![t] =
                     IF job[t].route # "request" THEN Ended(job[t].route, job[t].failed)
                     ELSE IF job[t].failed THEN "500" ELSE "200"]
    /\ UNCHANGED <<memory, repl, undo, job, quiet, asks>>

Next ==
    \/ \E net \in {-1, 0, 1} : Line(net)
    \/ Tell \/ SnapshotDone \/ Prompt \/ Interrupt \/ Exit \/ Rollback \/ Clear \/ Restack
    \/ \E k \in Keys : SnapshotKey(k) \/ Fill(k)
    \/ \E t \in Others : Packet(t) \/ Request(t) \/ Answer(t)
    \/ \E t \in Tasks : Set(t) \/ Enter(t) \/ Leave(t) \/ Unwind(t) \/ Builtin(t) \/ Fail(t) \/ End(t)

Spec == Init /\ [][Next]_vars

-----------------------------------------------------------------------------
(* Properties *)

\* A rollback of N steps gives the globals and the scopes as they were when the
\* N-th last command was told, the undone commands left out of the count, and the
\* oldest forgotten: unless another task changed the memory while that snapshot
\* was read or while it is put back.  (main.rs: repl; memory.rs: snapshot, rollback.)
UndoExact ==
    [][phase = "fill" /\ phase' = "prompt" /\ quiet =>
         globals' = want.globals /\ scopes' = want.scopes]_vars

\* An error of process_command, but for a script, an intent, or a stored command
\* that is one, and a refusal of the gateway say that no statement has run: the
\* sender may try elsewhere.  (mod.rs: process_command; main.rs: execute_handler.)
ErrMeansNothingRan ==
    \A t \in Tasks :
        outcome[t] \in {"err", "400", "401"} => ~job[t].ran \/ job[t].route \in {"script", "intent"}
=============================================================================
