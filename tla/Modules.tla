------------------------------ MODULE Modules ------------------------------
(***************************************************************************)
(* How code reaches a running program: the packages (package_manager.rs,    *)
(* ffi.rs), the standard library (stdlib_manager.rs), and the statements of *)
(* executor.rs that define, import and call functions.                      *)
(*                                                                          *)
(* A command of the REPL or of the swarm is linked and analysed before it   *)
(* runs; what the gateway executes is not.  Link is what Linker makes of a  *)
(* program, and a constant here.  Tasks share the functions, the cache of   *)
(* verified packages and the loader.  A wasm file is a build: a number, or  *)
(* 0 where there is no file.                                                *)
(***************************************************************************)
EXTENDS Naturals, Sequences, FiniteSets, SequencesExt, FiniteSetsExt

CONSTANTS Tasks,
          Privileged,   \* tasks that run outside the sandbox
          Linked,       \* tasks whose program is linked and analysed
          Names,        \* of modules and functions; Global is that of no module
          Natives,      \* names of native packages
          Statements,   \* what programs, files and bodies consist of
          Files,        \* the .hel files: a function from path to statements
          Link(_),      \* linked and analysed: [ok, ast]
          Programs,     \* what each task may run: a function from Tasks
          Disks,        \* what may be on the search paths at first: functions from Natives
          Libraries,    \* stdlib/lib: the names that read_dir's files give, in order
          PureLibrary,  \* stdlib/pure: set of <<module, function>>
          MaxBuild,     \* builds are 1 .. MaxBuild
          Signed,       \* builds with a valid signature
          Loadable,     \* builds that instantiate with the host's ABI version
          MaxChanges,   \* bound on the changes of files on disk
          MaxDepth      \* bound on the nesting of imports at run time

Global == ""
NoTask == "boot"

ASSUME ModulesAssumption ==
    /\ Privileged \subseteq Tasks /\ Linked \subseteq Tasks
    /\ NoTask \notin Tasks /\ Global \in Names
    /\ \A s \in Statements :
         /\ s.op \in {"module", "block", "def"} => s.body \in Seq(Statements)
         /\ s.op = "module" => s.ns \in Names
         /\ s.op = "def" => s.pub \in BOOLEAN
         /\ s.op \in {"import", "reload"} => s.name \in Natives
         /\ s.op = "call" => s.ns \in Names /\ s.key \in Names \X Names
         /\ s.op = "call" /\ s.ns # Global => s.key[1] = Global
    /\ \A p \in DOMAIN Files : Files[p] \in Seq(Statements)
    /\ \A t \in Tasks : \A p \in Programs[t] : p \in Seq(Statements) /\ Link(p).ast \in Seq(Statements)
    /\ PureLibrary \subseteq Names \X Names
    /\ Signed \subseteq 1 .. MaxBuild /\ Loadable \subseteq 1 .. MaxBuild
    /\ MaxBuild \in Nat /\ MaxChanges \in Nat /\ MaxDepth \in Nat
    /\ Libraries \in Seq(Natives)
    /\ Disks \subseteq [Natives -> 0 .. MaxBuild]

VARIABLES booting,   \* libraries that the bootstrap has still to import
          funcs,     \* ast_funcs: from <<namespace, key>> to a definition
          disk,      \* the build of each native package on the search paths
          cache,     \* verified_cache
          loaded,    \* the loader's modules: the build of each, or 0
          stack,     \* the frames of each task
          stage,     \* "new", "run", "fetch", "load" or "end"
          changed,   \* history: packages whose file changed
          reloaded,  \* history: packages the loader has from a reload
          failed,    \* history: packages that once failed to load
          imported   \* history: native packages with an import that succeeded

vars == <<booting, funcs, disk, cache, loaded, stack, stage, changed, reloaded, failed, imported>>

NoPackage == [build |-> 0, from |-> "none", native |-> FALSE]
Packages == [build : 0 .. MaxBuild, from : {"trusted", "file", "registry"}, native : BOOLEAN]
NoCall == [op |-> "none"]
Definitions == [pub : BOOLEAN, body : Seq(Statements), by : Tasks \union {NoTask},
                placed : BOOLEAN]  \* history: it stood where the linker has put it
Frames == [kind : {"top", "module", "file", "call", "block"}, rest : Seq(Statements), mod : Names,
           home : Names, asked : Statements \union {NoCall}, pub : BOOLEAN, by : Tasks \union {NoTask}]

TypeOK ==
    /\ booting \in 0 .. Len(Libraries) + 1
    /\ \A f \in DOMAIN funcs : funcs[f] \in Definitions
    /\ disk \in [Natives -> 0 .. MaxBuild]
    /\ cache \in [Natives -> Packages \union {NoPackage}]
    /\ loaded \in [Natives -> 0 .. MaxBuild]
    /\ stack \in [Tasks -> Seq(Frames)]
    /\ stage \in [Tasks -> {"new", "run", "fetch", "load", "end"}]
    /\ \A t \in Tasks : stage[t] \in {"new", "end"} <=> stack[t] = <<>>
    /\ \A n \in Natives : loaded[n] # 0 => loaded[n] \in Loadable
    /\ changed \union reloaded \union failed \union imported \subseteq Natives

-----------------------------------------------------------------------------
Frame(kind, body, ns) ==
    [kind |-> kind, rest |-> body, mod |-> ns, home |-> Global, asked |-> NoCall, pub |-> TRUE, by |-> NoTask]
CallFrame(def, ns, call, home) ==
    [kind |-> "call", rest |-> def.body, mod |-> ns, home |-> home, asked |-> call, pub |-> def.pub, by |-> def.by]

Init ==
    /\ booting = 1
    /\ funcs = << >>
    /\ disk \in Disks
    /\ cache = [n \in Natives |-> NoPackage]
    /\ loaded = [n \in Natives |-> 0]
    /\ stack = [t \in Tasks |-> <<>>]
    /\ stage = [t \in Tasks |-> "new"]
    /\ changed = {} /\ reloaded = {} /\ failed = {} /\ imported = {}

\* fault: a file that is there is a module that runs
LoadedUnchecked(n) == IF loaded[n] # 0 THEN loaded[n] ELSE disk[n]

\* The loader keeps what it has; else it instantiates the file it finds.
LoadedBuild(n) == IF loaded[n] # 0 THEN loaded[n] ELSE IF disk[n] \in Loadable THEN disk[n] ELSE 0

Load(n) ==
    /\ loaded' = [loaded EXCEPT ![n] = LoadedBuild(n)]
    /\ failed' = IF LoadedBuild(n) = 0 THEN failed \union {n} ELSE failed

\* A hot reload drops the instance first and asks for no verified package.
Reload(n) ==
    /\ loaded' = [loaded EXCEPT ![n] = IF disk[n] \in Loadable THEN disk[n] ELSE 0]
    /\ failed' = IF disk[n] \in Loadable THEN failed ELSE failed \union {n}
    /\ reloaded' = reloaded \union {n}

(* The bootstrap: each library is cached and then loaded by its name.  The  *)
(* loader finds none for a file libhelheim_<name>.wasm.  Nothing reads the  *)
(* bytes that are cached: their build is 0 here.                            *)
BootNative ==
    /\ booting \in DOMAIN Libraries
    /\ booting' = booting + 1
    /\ cache' = [cache EXCEPT ![Libraries[booting]] = [build |-> 0, from |-> "trusted", native |-> TRUE]]
    /\ Load(Libraries[booting])
    /\ UNCHANGED <<funcs, disk, stack, stage, changed, reloaded, imported>>

\* Pure functions are stored under their module with a key that names it again.
BootPure ==
    /\ booting = Len(Libraries) + 1
    /\ funcs = << >> /\ \A t \in Tasks : stage[t] = "new"
    /\ funcs' = [f \in {<<p[1], p>> : p \in PureLibrary} |-> [pub |-> TRUE, body |-> <<>>, by |-> NoTask, placed |-> FALSE]]
    /\ booting' = 0
    /\ UNCHANGED <<disk, cache, loaded, stack, stage, changed, reloaded, failed, imported>>

\* Somebody builds a package anew, or removes it, while the node runs.
Change(n) ==
    /\ booting = 0 /\ Cardinality(changed) < MaxChanges
    /\ \E b \in 0 .. MaxBuild \ {disk[n]} : disk' = [disk EXCEPT ![n] = b]
    /\ changed' = changed \union {n}
    /\ UNCHANGED <<booting, funcs, cache, loaded, stack, stage, reloaded, failed, imported>>

\* A command: what the linker or the analyser refuses is not run.
Submit(t) ==
    /\ booting = 0 /\ stage[t] = "new"
    /\ \E p \in Programs[t] :
         LET runs == t \notin Linked \/ Link(p).ok
             ast == IF t \in Linked THEN Link(p).ast ELSE p IN
         /\ stage' = [stage EXCEPT ![t] = IF runs THEN "run" ELSE "end"]
         /\ stack' = [stack EXCEPT ![t] = IF runs THEN <<Frame("top", ast, Global)>> ELSE <<>>]
    /\ UNCHANGED <<booting, funcs, disk, cache, loaded, changed, reloaded, failed, imported>>

-----------------------------------------------------------------------------
Top(t) == Last(stack[t])
Running(t) == stage[t] = "run" /\ Top(t).rest # <<>>
Statement(t) == Head(Top(t).rest)
Current(t) == Top(t).mod
Advanced(t) == [stack[t] EXCEPT ![Len(stack[t])].rest = Tail(@)]

Continue(t, s) ==
    /\ stack' = [stack EXCEPT ![t] = s]
    /\ stage' = [stage EXCEPT ![t] = IF s = <<>> THEN "end" ELSE "run"]

\* An error is dropped by the body of a module and by a file read at run time.
Unwound(s) ==
    LET catchers == {i \in DOMAIN s : s[i].kind \in {"module", "file"}} IN
    IF catchers = {} THEN <<>>
    ELSE LET i == Max(catchers) IN SubSeq(s, 1, IF s[i].kind = "file" THEN i ELSE i - 1)

\* Ok(None) ends the innermost execute_ast; a file's statements have one each.
Returned(s) ==
    LET base == Max({i \in DOMAIN s : s[i].kind # "block"}) IN
    SubSeq(s, 1, IF s[base].kind = "file" THEN base ELSE base - 1)

Return(t) ==
    /\ stage[t] = "run" /\ Top(t).rest = <<>>
    /\ Continue(t, Front(stack[t]))
    /\ UNCHANGED <<booting, funcs, disk, cache, loaded, changed, reloaded, failed, imported>>

Block(t) ==
    /\ Running(t) /\ Statement(t).op = "block"
    /\ Continue(t, Append(Advanced(t), Frame("block", Statement(t).body, Current(t))))
    /\ UNCHANGED <<booting, funcs, disk, cache, loaded, changed, reloaded, failed, imported>>

\* A variable, which matters to the analyser only, or a statement that fails.
Work(t) ==
    /\ Running(t) /\ Statement(t).op \in {"set", "get", "fail"}
    /\ Continue(t, IF Statement(t).op = "fail" THEN Unwound(Advanced(t)) ELSE Advanced(t))
    /\ UNCHANGED <<booting, funcs, disk, cache, loaded, changed, reloaded, failed, imported>>

Module(t) ==
    /\ Running(t) /\ Statement(t).op = "module"
    /\ Continue(t, Append(Advanced(t), Frame("module", Statement(t).body, Statement(t).ns)))
    /\ UNCHANGED <<booting, funcs, disk, cache, loaded, changed, reloaded, failed, imported>>

\* Not below a call or a file that was read at run time.
InProgram(s) == \A i \in DOMAIN s : s[i].kind \notin {"call", "file"}

\* A definition takes its namespace from the context that executes it.
Def(t) ==
    /\ Running(t) /\ Statement(t).op = "def"
    /\ LET s == Statement(t)
           id == <<Current(t), s.key>> IN
       funcs' = [f \in DOMAIN funcs \union {id} |->
                   IF f = id
                     THEN [pub |-> s.pub, body |-> s.body, by |-> t,
                           placed |-> t \in Linked /\ InProgram(stack[t])]
                     ELSE funcs[f]]
    /\ Continue(t, Advanced(t))
    /\ UNCHANGED <<booting, disk, cache, loaded, changed, reloaded, failed, imported>>

\* `use` of a .hel file that the linker has not seen: no alias, no record of
\* files already read, and a file that cannot be read is only logged.
UseFile(t) ==
    /\ Running(t) /\ Statement(t).op = "use" /\ Statement(t).path \notin Natives
    /\ IF Statement(t).path \in DOMAIN Files
       THEN /\ Len(stack[t]) < MaxDepth
            /\ Continue(t, Append(Advanced(t), Frame("file", Files[Statement(t).path], Current(t))))
       ELSE Continue(t, Advanced(t))
    /\ UNCHANGED <<booting, funcs, disk, cache, loaded, changed, reloaded, failed, imported>>

\* fault: any file on the search paths will do
UseUnverified(t) ==
    /\ Running(t) /\ Statement(t).op = "use" /\ Statement(t).path \in Natives
    /\ Load(Statement(t).path) /\ Continue(t, Advanced(t))
    /\ UNCHANGED <<booting, funcs, disk, cache, changed, reloaded, imported>>

\* `use` of a native package: only one that is in the cache is loaded, and a
\* failure is only logged.
UseNative(t) ==
    /\ Running(t) /\ Statement(t).op = "use" /\ Statement(t).path \in Natives
    /\ IF t \notin Privileged
       THEN Continue(t, Unwound(Advanced(t))) /\ UNCHANGED <<loaded, failed>>
       ELSE /\ Continue(t, Advanced(t))
            /\ IF cache[Statement(t).path] = NoPackage THEN UNCHANGED <<loaded, failed>>
               ELSE Load(Statement(t).path)
    /\ UNCHANGED <<booting, funcs, disk, cache, changed, reloaded, imported>>

HotReload(t) ==
    /\ Running(t) /\ Statement(t).op = "reload"
    /\ IF t \notin Privileged
       THEN Continue(t, Unwound(Advanced(t))) /\ UNCHANGED <<loaded, failed, reloaded>>
       ELSE Reload(Statement(t).name) /\ Continue(t, Advanced(t))
    /\ UNCHANGED <<booting, funcs, disk, cache, changed, imported>>

-----------------------------------------------------------------------------
(* installeer_ondertekend: look in the cache; fetch, verify and cache; then *)
(* wait for the loader.  Whatever ends well ends the activation.            *)

\* What a source gives that passes the signature and the name.  A file's kind
\* is its extension; the answer of a registry is any signed package.
Fetched(n, source) ==
    CASE source = "file" -> [build : {disk[n]} \cap Signed, from : {"file"}, native : {TRUE}]
      [] source = "registry" -> [build : Signed, from : {"registry"}, native : BOOLEAN]
      [] OTHER -> {}

\* The cache is asked for the name alone, not whether the package was loaded.
Import(t) ==
    /\ Running(t) /\ Statement(t).op = "import"
    /\ LET n == Statement(t).name IN
       IF cache[n] # NoPackage
       THEN /\ Continue(t, Returned(stack[t]))
            /\ imported' = IF cache[n].native THEN imported \union {n} ELSE imported
       ELSE stage' = [stage EXCEPT ![t] = "fetch"] /\ UNCHANGED <<stack, imported>>
    /\ UNCHANGED <<booting, funcs, disk, cache, loaded, changed, reloaded, failed>>

Rejected(t) ==
    /\ stage[t] = "fetch"
    /\ Statement(t).from # "file" \/ disk[Statement(t).name] \notin Signed
    /\ Continue(t, Unwound(Advanced(t)))
    /\ UNCHANGED <<booting, funcs, disk, cache, loaded, changed, reloaded, failed, imported>>

\* fault: a native package waits for its first `use`
VerifiedLazily(t) ==
    /\ stage[t] = "fetch"
    /\ \E p \in Fetched(Statement(t).name, Statement(t).from) :
         cache' = [cache EXCEPT ![Statement(t).name] = p]
    /\ Continue(t, Returned(Advanced(t)))
    /\ UNCHANGED <<booting, funcs, disk, loaded, changed, reloaded, failed, imported>>

Verified(t) ==
    /\ stage[t] = "fetch"
    /\ \E p \in Fetched(Statement(t).name, Statement(t).from) :
         /\ cache' = [cache EXCEPT ![Statement(t).name] = p]
         /\ IF p.native THEN stage' = [stage EXCEPT ![t] = "load"] /\ stack' = stack
            ELSE Continue(t, Returned(Advanced(t)))
    /\ UNCHANGED <<booting, funcs, disk, loaded, changed, reloaded, failed, imported>>

\* The loader reads a file of the package's name, not the bytes verified.
LoadImported(t) ==
    /\ stage[t] = "load"
    /\ LET n == Statement(t).name IN
       /\ Load(n)
       /\ IF LoadedBuild(n) = 0
          THEN Continue(t, Unwound(Advanced(t))) /\ imported' = imported
          ELSE Continue(t, Returned(Advanced(t))) /\ imported' = imported \union {n}
    /\ UNCHANGED <<booting, funcs, disk, cache, changed, reloaded>>

-----------------------------------------------------------------------------
\* The name that the native dispatch takes from a call.
NativeName(s) == IF s.ns # Global THEN s.ns ELSE s.key[1]

CallNative(t) ==
    /\ Running(t) /\ Statement(t).op = "call"
    /\ NativeName(Statement(t)) \in Natives /\ loaded[NativeName(Statement(t))] # 0
    /\ \/ Continue(t, Advanced(t))
       \/ Continue(t, Unwound(Advanced(t)))
    /\ UNCHANGED <<booting, funcs, disk, cache, loaded, changed, reloaded, failed, imported>>

\* A plain call tries the global functions, then those of the caller's module.
Home(s, current) ==
    IF s.ns # Global THEN s.ns
    ELSE IF <<Global, s.key>> \in DOMAIN funcs THEN Global ELSE current

Private(s, current) ==
    LET home == Home(s, current) IN
    home # Global /\ ~funcs[<<home, s.key>>].pub /\ current # home

\* fault: the body runs in the module of the function
CallInCallee(t) ==
    /\ Running(t) /\ Statement(t).op = "call"
    /\ NativeName(Statement(t)) \in Natives => loaded[NativeName(Statement(t))] = 0
    /\ LET s == Statement(t)
           f == <<Home(s, Current(t)), s.key>> IN
       IF f \notin DOMAIN funcs THEN Continue(t, Advanced(t))
       ELSE IF Private(s, Current(t)) THEN Continue(t, Unwound(Advanced(t)))
       ELSE /\ Len(stack[t]) < MaxDepth
            /\ Continue(t, Append(Advanced(t),
                 CallFrame(funcs[f], f[1], s, f[1])))
    /\ UNCHANGED <<booting, funcs, disk, cache, loaded, changed, reloaded, failed, imported>>

\* A call whose function is missing succeeds with the empty text.  The body
\* runs in the context of the caller.
Call(t) ==
    /\ Running(t) /\ Statement(t).op = "call"
    /\ NativeName(Statement(t)) \in Natives => loaded[NativeName(Statement(t))] = 0
    /\ LET s == Statement(t)
           f == <<Home(s, Current(t)), s.key>> IN
       IF f \notin DOMAIN funcs THEN Continue(t, Advanced(t))
       ELSE IF Private(s, Current(t)) THEN Continue(t, Unwound(Advanced(t)))
       ELSE /\ Len(stack[t]) < MaxDepth
            /\ Continue(t, Append(Advanced(t),
                 CallFrame(funcs[f], Current(t), s, f[1])))
    /\ UNCHANGED <<booting, funcs, disk, cache, loaded, changed, reloaded, failed, imported>>

Next ==
    \/ BootNative \/ BootPure
    \/ \E n \in Natives : Change(n)
    \/ \E t \in Tasks :
         \/ Submit(t) \/ Return(t) \/ Block(t) \/ Work(t) \/ Module(t) \/ Def(t)
         \/ UseFile(t) \/ UseNative(t) \/ HotReload(t)
         \/ Import(t) \/ Rejected(t) \/ Verified(t) \/ LoadImported(t)
         \/ CallNative(t) \/ Call(t)

Spec == Init /\ [][Next]_vars

-----------------------------------------------------------------------------
(* Properties *)

\* What the loader runs was verified or trusted under its name before, or came
\* by a hot reload, which asks for neither; and it is the build that was verified
\* if that was a local file that has not changed.  (package_manager.rs:
\* import_signed, load_verified_native, reload_native; ffi.rs: load.)
LoadedWasVerified ==
    \A n \in Natives \ reloaded : loaded[n] # 0 =>
        /\ cache[n] # NoPackage
        /\ cache[n].from = "file" /\ n \notin changed => loaded[n] = cache[n].build

\* A native package with an import that succeeded is loaded, unless a load of it
\* has failed or another task has cached it and still waits for the loader: the
\* cache answers before the package is there.  (package_manager.rs: import_signed.)
ImportsLoad ==
    \A n \in imported :
        \/ loaded[n] # 0
        \/ n \in failed
        \/ \E t \in Tasks : stage[t] = "load" /\ Statement(t).name = n

Enclosing(s, i) ==
    LET inside == {j \in 1 .. i : s[j].kind = "module"} IN
    IF inside = {} THEN Global ELSE s[Max(inside)].mod

\* A private function of a module, and a function of it that a plain call reached,
\* run only below the body of that module; a function of the bootstrapped library
\* only for a plain call there that has the module's name in its own (the analyser
\* has put it there, or m::f(x) was written), and never for a qualified one.
\* (executor.rs: execute_function_call; semantic.rs: FunctionCall; mod.rs: bootstrap.)
CallsStayHome ==
    \A t \in Tasks : \A i \in DOMAIN stack[t] :
        LET f == stack[t][i] IN
        f.kind = "call" /\ f.home # Global =>
            /\ ~f.pub \/ f.asked.ns = Global => Enclosing(stack[t], i) = f.home
            /\ f.by = NoTask => f.asked.ns = Global /\ f.asked.key[1] = f.home

\* One program puts a function that one file defines into one namespace, however
\* often and under whatever aliases its imports lead to the file; not so where a
\* block or a body imports it, which the linker leaves to run time, or a body
\* defines it.  (resolver.rs: expand; executor.rs: Gebruik, FunctionDef.)
OneHome ==
    \A f, g \in DOMAIN funcs :
        /\ funcs[f].placed /\ funcs[g].placed /\ funcs[f].by = funcs[g].by
        /\ f[2] = g[2]
        => f[1] = g[1]

NamesReached == CallsStayHome /\ OneHome

\* What OneHome rests on: places has for each linked program its statements and
\* the modules they stand in, and no key is defined in two of them.  So it is if
\* the files a program imports define different names.
OneNamespace(places) ==
    \A t \in Linked : \A p \in Programs[t] :
        LET R == places[p] IN
        /\ \A i \in DOMAIN Link(p).ast : <<Link(p).ast[i], Global>> \in R
        /\ \A r \in R :
             r[1].op \in {"module", "block"} =>
               \A i \in DOMAIN r[1].body :
                 <<r[1].body[i], IF r[1].op = "module" THEN r[1].ns ELSE r[2]>> \in R
        /\ \A q, r \in R :
             q[1].op = "def" /\ r[1].op = "def" /\ q[1].key = r[1].key => q[2] = r[2]
=============================================================================
