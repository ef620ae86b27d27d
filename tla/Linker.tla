------------------------------- MODULE Linker -------------------------------
(***************************************************************************)
(* What becomes of a program before it runs: the linker (resolver.rs) puts  *)
(* imported files in place of their imports, the analyser (semantic.rs)     *)
(* resolves names and rewrites calls.  Files do not change meanwhile.       *)
(* Types, values and arguments are left out of the analysis.                *)
(***************************************************************************)
EXTENDS Naturals, Sequences, SequencesExt

CONSTANTS Files,    \* the .hel files: a function from path to statements
          Broken    \* paths, not in Files, of files that cannot be read or parsed

Global == ""

(* The linker: `use` of a file becomes the statements of the file, in a     *)
(* module when it has an alias.  `seen` holds the files already expanded.   *)

RECURSIVE Expand(_, _)
Expand(statements, seen) ==
    LET Add(acc, s) ==
          IF s.op # "use" \/ (s.path \notin Broken /\ s.path \notin DOMAIN Files)
          THEN [acc EXCEPT !.ast = Append(@, s)]
          ELSE IF s.path \in acc.seen THEN acc
          ELSE IF s.path \in Broken THEN [acc EXCEPT !.ok = FALSE]
          ELSE LET inner == Expand(Files[s.path], acc.seen \union {s.path}) IN
               [ast  |-> IF s.alias = Global THEN acc.ast \o inner.ast
                         ELSE Append(acc.ast, [op |-> "module", ns |-> s.alias, body |-> inner.ast]),
                seen |-> inner.seen,
                ok   |-> acc.ok /\ inner.ok]
    IN FoldLeft(Add, [ast |-> <<>>, seen |-> seen, ok |-> TRUE], statements)

(* The analyser: a stack of scopes of symbols, of which the first is global.*)
(* A call that only the current module's name resolves is rewritten to the  *)
(* symbol <<module, name>>, the text "module::name".  A definition outside  *)
(* of modules may have such a name too, and so has the call m::f(x): it is  *)
(* plain, where roep_aan m::f is qualified.                                 *)

Symbol(ns, name) == <<ns, name>>
Define(scopes, symbol) == [scopes EXCEPT ![Len(scopes)] = @ \union {symbol}]
RegisterQualified(scopes, symbol) == [scopes EXCEPT ![1] = @ \union {symbol}]
Resolves(scopes, symbol) == \E i \in DOMAIN scopes : symbol \in scopes[i]

Rewritten(s, ns, scopes) ==
    IF /\ ~Resolves(scopes, s.key)
       /\ ns # Global /\ s.key[1] = Global
       /\ Resolves(scopes, Symbol(ns, s.key[2]))
    THEN [s EXCEPT !.key = Symbol(ns, s.key[2])]
    ELSE s

RECURSIVE Visit(_, _, _)
Visit(statements, ns, scopes) ==
    LET In(body, m, outer) ==
          LET r == Visit(body, m, Append(outer, {})) IN [r EXCEPT !.scopes = Front(@)]
        Extended(acc, s, r) ==
          [ast |-> Append(acc.ast, [s EXCEPT !.body = r.ast]), scopes |-> r.scopes, ok |-> acc.ok /\ r.ok]
        Add(acc, s) ==
          CASE s.op = "module" -> Extended(acc, s, Visit(s.body, s.ns, acc.scopes))
            [] s.op = "block"  -> Extended(acc, s, In(s.body, ns, acc.scopes))
            [] s.op = "def" ->
                 LET known == IF ns = Global THEN Define(acc.scopes, s.key)
                              ELSE RegisterQualified(acc.scopes, Symbol(ns, s.key[2]))
                 IN Extended(acc, s, In(s.body, ns, known))
            [] s.op = "set" -> [acc EXCEPT !.ast = Append(@, s),
                                           !.scopes = Define(@, Symbol(Global, s.name))]
            [] s.op = "get" -> [acc EXCEPT !.ast = Append(@, s),
                                           !.ok = @ /\ Resolves(acc.scopes, Symbol(Global, s.name))]
            [] s.op = "call" /\ s.ns = Global -> [acc EXCEPT !.ast = Append(@, Rewritten(s, ns, acc.scopes))]
            [] OTHER -> [acc EXCEPT !.ast = Append(@, s)]
    IN FoldLeft(Add, [ast |-> <<>>, scopes |-> scopes, ok |-> TRUE], statements)

\* Both, as a command of the REPL or of the swarm meets them.
Linking(program) ==
    LET linked == Expand(program, {})
        checked == Visit(linked.ast, Global, <<{}>>) IN
    [ok |-> linked.ok /\ checked.ok, ast |-> checked.ast]
=============================================================================
