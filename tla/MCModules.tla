----------------------------- MODULE MCModules -----------------------------
(***************************************************************************)
(* Instances of Modules: one command of the REPL, one command of the swarm  *)
(* and one signed program of the gateway, in any order and interleaving.    *)
(***************************************************************************)
EXTENDS Modules

CONSTANTS repl, peer, gateway,
          Broken

L == INSTANCE Linker
MCLink(program) == L!Linking(program)

Use(p, m) == [op |-> "use", path |-> p, alias |-> m]
Fn(q, f, public, b) == [op |-> "def", key |-> <<q, f>>, pub |-> public, body |-> b]
Plain(f) == [op |-> "call", ns |-> "", key |-> <<"", f>>]
Named(m, f) == [op |-> "call", ns |-> "", key |-> <<m, f>>]
Qualified(m, f) == [op |-> "call", ns |-> m, key |-> <<"", f>>]
Var(o) == [op |-> o, name |-> "v"]
Install(n, s) == [op |-> "import", name |-> n, from |-> s]
Hot(n) == [op |-> "reload", name |-> n]
Fails == [op |-> "fail"]
In(b) == [op |-> "block", body |-> b]

\* lib uses late, which is defined after it, and early, which it rewrites; it
\* imports itself through ring.  twice has a function of the library's name.
MCFiles ==
    [p \in {"lib", "ring", "twice"} |->
       CASE p = "lib"  -> <<Fn("", "early", FALSE, <<>>),
                            Fn("", "open", TRUE, <<Plain("late"), Plain("early")>>),
                            Use("ring", "r"), Fn("", "late", FALSE, <<Var("set")>>),
                            Qualified("m", "open"), Plain("early")>>
         [] p = "ring" -> <<Use("lib", "n"), Fn("", "turn", TRUE, <<Plain("late")>>), Plain("turn")>>
         [] OTHER      -> <<Fn("", "ping", TRUE, <<Plain("pong")>>), Fn("", "fn", TRUE, <<Fails>>), Plain("fn"),
                            Fn("", "pong", FALSE, <<Fails>>), Qualified("m", "ping"), Plain("pong")>>]

Repl == {<<Use("lib", "m"), Use("lib", "n"), Qualified("m", "open"), Qualified("n", "open"), Plain("late")>>,
         <<Use("twice", "m"), Use("twice", ""), Named("m", "ping"), Qualified("s", "fn")>>,
         <<Use("ring", ""), Use("twice", "s"), Named("s", "fn"), Qualified("s", "ping")>>,
         <<Var("set"), In(<<Var("get"), Install("x", "file")>>), Qualified("x", "g")>>,
         <<Use("x", "q"), Hot("x"), Use("x", ""), Qualified("x", "g")>>,
         <<Fn("s", "fn", TRUE, <<>>), Use("twice", "s"), Use("broken", "")>>,
         <<Fn("s", "fn", TRUE, <<>>), Use("twice", "s"), Qualified("s", "fn")>>,
         <<Use("twice", "m"), In(<<Use("twice", "s")>>), Qualified("m", "ping")>>}
Peer == {<<Use("twice", "s"), Install("x", "registry")>>,
         <<Use("x", ""), Install("x", "file")>>,
         <<Hot("x")>>,
         <<Qualified("m", "late"), In(<<Install("x", "file"), Fails>>), Qualified("x", "g")>>,
         <<In(<<Var("set")>>), Var("get")>>}
Gateway == {<<Use("ring", "m"), Plain("turn"), Qualified("m", "turn")>>,
            <<Use("x", ""), Use("missing", ""), Install("x", "elsewhere"), Plain("late")>>,
            <<Install("y", "registry"), Hot("y")>>,
            <<Use("y", ""), Use("broken", ""), Qualified("y", "g"), Plain("fn")>>}

MCPrograms == [t \in Tasks |-> CASE t = repl -> Repl [] t = peer -> Peer [] OTHER -> Gateway]
\* Every statement there is, however deep.
RECURSIVE Within(_)
Within(statements) ==
    UNION {{statements[i]} \union (IF "body" \in DOMAIN statements[i] THEN Within(statements[i].body) ELSE {}) :
             i \in DOMAIN statements}
MCStatements == LET all == Repl \union Peer \union Gateway IN
    UNION {Within(p) \union Within(MCLink(p).ast) : p \in all} \union UNION {Within(MCFiles[f]) : f \in DOMAIN MCFiles}
\* The statements and the modules they stand in, bodies of functions left out.
RECURSIVE Places(_, _)
Places(statements, m) ==
    UNION {LET s == statements[i] IN
           {<<s, m>>} \union (CASE s.op = "module" -> Places(s.body, s.ns)
                              [] s.op = "block" -> Places(s.body, m)
                              [] OTHER -> {}) : i \in DOMAIN statements}
ASSUME MCOneNamespace ==
    OneNamespace([p \in Repl \union Peer |-> Places(MCLink(p).ast, Global)])
MCDisks == {[n \in Natives |-> IF n = "x" THEN d[1] ELSE d[2]] : d \in {<<1, 0>>, <<2, 3>>, <<3, 1>>}}
MCNames == STRING
MCLibraries == <<"y">>
MCPureLibrary == {<<"s", "fn">>}
=============================================================================
