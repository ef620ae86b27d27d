---------------------------- MODULE ModulesProofs ----------------------------
(***************************************************************************)
(* Proofs about Modules, for any tasks, programs, files, packages and       *)
(* builds, and whatever the linker and the analyser make of a program.      *)
(***************************************************************************)
EXTENDS Modules, FiniteSetTheorems, SequenceTheorems, WellFoundedInduction, TLAPS

\* A program is the bottom of its stack.
Grounded(s) == s # <<>> => s[1].kind = "top"

\* Each frame runs in the module whose body it is in.
Housed(s) == \A i \in DOMAIN s : s[i].mod = Enclosing(s, i)

\* A frame of a call to a function of a module is where CallsStayHome says.
AtHome(s, i) ==
    s[i].kind = "call" /\ s[i].home # Global =>
        /\ ~s[i].pub \/ s[i].asked.ns = Global => Enclosing(s, i) = s[i].home
        /\ s[i].by = NoTask => s[i].asked.ns = Global /\ s[i].asked.key[1] = s[i].home

Sound(s) == s \in Seq(Frames) /\ Grounded(s) /\ Housed(s) /\ \A i \in DOMAIN s : AtHome(s, i)

\* A task that waits for a package is at its import.
AtImport ==
    \A t \in Tasks : stage[t] \in {"fetch", "load"} => Top(t).rest # <<>> /\ Statement(t).op = "import"

\* One that waits for the loader has the package in the cache.
Cached == \A t \in Tasks : stage[t] = "load" => cache[Statement(t).name] # NoPackage

\* What was read from a file that has not changed is still in it.
FileBuilds ==
    \A n \in Natives \ changed :
        /\ cache[n].from = "file" => cache[n].build = disk[n]
        /\ loaded[n] # 0 => loaded[n] = disk[n]

\* A native package in the cache is loaded, has failed to, or is about to be.
Ready(n) ==
    \/ loaded[n] # 0 \/ n \in failed
    \/ \E t \in Tasks : stage[t] = "load" /\ Statement(t).name = n

NativesLoad == \A n \in Natives : cache[n].native => Ready(n)

\* The functions of the library have their module's name in their key.
LibraryKeys == \A f \in DOMAIN funcs : funcs[f].by = NoTask => f[1] = f[2][1]

Functions == (\A f \in DOMAIN funcs : funcs[f] \in Definitions) /\ LibraryKeys

Stacks ==
    /\ stack \in [Tasks -> Seq(Frames)]
    /\ stage \in [Tasks -> {"new", "run", "fetch", "load", "end"}]
    /\ \A t \in Tasks : stage[t] \in {"new", "end"} <=> stack[t] = <<>>
    /\ \A t \in Tasks : Sound(stack[t])
    /\ AtImport

Data ==
    /\ booting \in 0 .. Len(Libraries) + 1
    /\ disk \in [Natives -> 0 .. MaxBuild]
    /\ cache \in [Natives -> Packages \union {NoPackage}]
    /\ loaded \in [Natives -> 0 .. MaxBuild]
    /\ \A n \in Natives : loaded[n] # 0 => loaded[n] \in Loadable
    /\ changed \union reloaded \union failed \union imported \subseteq Natives

StackInv == TypeOK /\ LibraryKeys /\ AtImport /\ \A t \in Tasks : Sound(stack[t])
\* The loader has only packages of the cache, but for those of a hot reload.
LoadedCached == \A n \in Natives \ reloaded : loaded[n] # 0 => cache[n] # NoPackage

PackageInv == StackInv /\ Cached /\ FileBuilds /\ LoadedCached /\ NativesLoad /\ ImportsLoad

-----------------------------------------------------------------------------
(* Stacks of frames *)

\* A set of positions that is not empty has a greatest.
LEMMA Greatest ==
  ASSUME NEW n \in Nat, NEW S \in SUBSET (1 .. n), S # {}
  PROVE  Max(S) \in S /\ \A y \in S : Max(S) >= y
  <1> DEFINE T == {k \in Nat : n - k \in S}
  <1>1. T # {} /\ T \subseteq Nat
    <2>1. PICK x \in S : TRUE
      OBVIOUS
    <2>2. n - x \in Nat /\ n - (n - x) = x
      OBVIOUS
    <2> QED
      BY <2>1, <2>2
  <1>2. PICK k \in T : \A j \in T : ~(<<j, k>> \in OpToRel(<, Nat))
    BY <1>1, WFMin, NatLessThanWellFounded
  <1>3. \A y \in S : n - k >= y
    <2> SUFFICES ASSUME NEW y \in S, ~(n - k >= y) PROVE FALSE
      OBVIOUS
    <2>0. y \in 1 .. n /\ k \in Nat
      BY <1>2
    <2>1. n - y \in Nat /\ n - (n - y) = y /\ n - y < k
      BY <2>0
    <2>2. n - y \in T
      BY <2>1
    <2>3. <<n - y, k>> \in OpToRel(<, Nat)
      BY <1>2, <2>1 DEF OpToRel
    <2> QED
      BY <1>2, <2>2, <2>3
  <1>4. n - k \in S
    BY <1>2
  <1> QED
    BY <1>3, <1>4 DEF Max

\* v has every statement of u.
Fewer(u, v) == \A k \in DOMAIN u : \E l \in DOMAIN v : u[k] = v[l]

\* s is r, perhaps cut and with fewer statements left.
Within(s, r) ==
    /\ Len(s) <= Len(r)
    /\ \A i \in DOMAIN s : \E rest \in Seq(Statements) :
          Fewer(rest, r[i].rest) /\ s[i] = [r[i] EXCEPT !.rest = rest]

\* The first statement is taken off.
LEMMA TailFewer ==
  ASSUME NEW u \in Seq(Statements), u # <<>>
  PROVE  Fewer(Tail(u), u)
  <1>1. /\ Len(u) \in Nat \ {0} /\ DOMAIN u = 1 .. Len(u) /\ DOMAIN Tail(u) = 1 .. Len(u) - 1
        /\ \A k \in 1 .. Len(u) - 1 : Tail(u)[k] = u[k + 1]
    OBVIOUS
  <1>2. \A k \in 1 .. Len(u) - 1 : k + 1 \in 1 .. Len(u)
    BY <1>1
  <1> QED
    BY <1>1, <1>2 DEF Fewer

\* The module around a frame does not depend on what is above it.
LEMMA EnclosingWithin ==
  ASSUME NEW s \in Seq(Frames), NEW r \in Seq(Frames), NEW i \in DOMAIN s, i \in DOMAIN r,
         \A j \in 1 .. i : s[j].kind = r[j].kind /\ s[j].mod = r[j].mod
  PROVE  Enclosing(s, i) = Enclosing(r, i)
  <1> DEFINE inside == {j \in 1 .. i : s[j].kind = "module"}
  <1>1. inside = {j \in 1 .. i : r[j].kind = "module"}
    OBVIOUS
  <1>2. CASE inside = {}
    BY <1>1, <1>2 DEF Enclosing
  <1>3. CASE inside # {}
    <2>1. i \in Nat
      OBVIOUS
    <2>2. Max(inside) \in 1 .. i
      <3>1. inside \in SUBSET (1 .. i)
        OBVIOUS
      <3> HIDE DEF inside
      <3> QED
        BY <1>3, <2>1, <3>1, Greatest
    <2> QED
      BY <1>1, <1>3, <2>2 DEF Enclosing
  <1> QED
    BY <1>2, <1>3

\* Cutting a stack and advancing in it keeps it sound.
LEMMA WithinSound ==
  ASSUME NEW s \in Seq(Frames), NEW r, Sound(r), Within(s, r)
  PROVE  Sound(s)
  <1>1. r \in Seq(Frames) /\ DOMAIN s \subseteq DOMAIN r
    BY DEF Sound, Within
  <1>2. \A i \in DOMAIN s : /\ s[i].kind = r[i].kind /\ s[i].mod = r[i].mod /\ s[i].home = r[i].home
                            /\ s[i].asked = r[i].asked /\ s[i].pub = r[i].pub /\ s[i].by = r[i].by
    <2> TAKE i \in DOMAIN s
    <2>1. r[i] \in Frames
      BY <1>1
    <2>2. PICK rest \in Seq(Statements) : s[i] = [r[i] EXCEPT !.rest = rest]
      BY DEF Within
    <2> QED
      BY <2>1, <2>2 DEF Frames
  <1>3. \A i \in DOMAIN s : Enclosing(s, i) = Enclosing(r, i)
    <2> TAKE i \in DOMAIN s
    <2>1. 1 .. i \subseteq DOMAIN s /\ i \in DOMAIN r
      BY <1>1
    <2> QED
      BY <1>1, <1>2, <2>1, EnclosingWithin
  <1>4. Grounded(s)
    <2>1. s # <<>> => 1 \in DOMAIN s /\ r # <<>>
      BY <1>1
    <2> QED
      BY <1>2, <2>1 DEF Sound, Grounded
  <1>5. Housed(s)
    BY <1>1, <1>2, <1>3 DEF Sound, Housed
  <1>6. ASSUME NEW i \in DOMAIN s PROVE AtHome(s, i)
    <2>1. AtHome(r, i) /\ Enclosing(s, i) = Enclosing(r, i)
      BY <1>1, <1>3, <1>6 DEF Sound
    <2> QED
      BY <1>2, <1>6, <2>1 DEF AtHome
  <1> QED
    BY <1>4, <1>5, <1>6 DEF Sound

\* A prefix of a stack is within it.
LEMMA PrefixWithin ==
  ASSUME NEW s \in Seq(Frames), NEW n \in 0 .. Len(s)
  PROVE  SubSeq(s, 1, n) \in Seq(Frames) /\ Within(SubSeq(s, 1, n), s)
  <1>1. /\ SubSeq(s, 1, n) \in Seq(Frames) /\ Len(SubSeq(s, 1, n)) = n
        /\ \A i \in 1 .. n : SubSeq(s, 1, n)[i] = s[i] /\ s[i] \in Frames
    OBVIOUS
  <1>2. \A x \in Frames : /\ x = [x EXCEPT !.rest = x.rest] /\ x.rest \in Seq(Statements)
                          /\ Fewer(x.rest, x.rest)
    BY DEF Frames, Fewer
  <1> DEFINE p == SubSeq(s, 1, n)
  <1>3. p \in Seq(Frames) /\ DOMAIN p = 1 .. n /\ Len(p) <= Len(s)
    BY <1>1
  <1>4. ASSUME NEW i \in 1 .. n
        PROVE  \E rest \in Seq(Statements) : Fewer(rest, s[i].rest) /\ p[i] = [s[i] EXCEPT !.rest = rest]
    BY <1>1, <1>2
  <1> HIDE DEF p
  <1>5. Within(p, s)
    BY <1>3, <1>4 DEF Within
  <1> QED
    BY <1>3, <1>5 DEF p

\* A task that runs has a frame; what is left after its statement is within it.
LEMMA AdvancedWithin ==
  ASSUME stack \in [Tasks -> Seq(Frames)], NEW t \in Tasks, stack[t] # <<>>, Top(t).rest # <<>>
  PROVE  /\ Top(t) \in Frames /\ Statement(t) \in Statements
         /\ Advanced(t) \in Seq(Frames) /\ Len(Advanced(t)) = Len(stack[t])
         /\ Within(Advanced(t), stack[t])
         /\ Advanced(t)[Len(stack[t])].mod = Current(t)
  <1> DEFINE s == stack[t]
             n == Len(s)
             f == [s[n] EXCEPT !.rest = Tail(s[n].rest)]
  <1>1. s \in Seq(Frames) /\ n \in 1 .. Len(s) /\ n \in Nat
    OBVIOUS
  <1>2. s[n] \in Frames /\ Top(t) = s[n] /\ s[n].rest # <<>>
    BY <1>1 DEF Top, Last
  <1>3. s[n].rest \in Seq(Statements)
    BY <1>2 DEF Frames
  <1>4. /\ Tail(s[n].rest) \in Seq(Statements) /\ Head(s[n].rest) \in Statements
        /\ Fewer(Tail(s[n].rest), s[n].rest)
    BY <1>2, <1>3, TailFewer
  <1>5. f \in Frames /\ f.mod = s[n].mod
    BY <1>2, <1>4 DEF Frames
  <1>6. Advanced(t) = [s EXCEPT ![n] = f]
    BY DEF Advanced
  <1>7. /\ Advanced(t) \in Seq(Frames) /\ Len(Advanced(t)) = n
        /\ \A j \in 1 .. n : Advanced(t)[j] = IF j = n THEN f ELSE s[j]
    <2> HIDE DEF f, s, n
    <2>1. n = Len(s)
      BY DEF n
    <2> QED
      BY <1>1, <1>5, <1>6, <2>1, ExceptSeq
  <1>8. Within(Advanced(t), s)
    <2> SUFFICES ASSUME NEW i \in 1 .. n
                 PROVE  \E rest \in Seq(Statements) :
                          Fewer(rest, s[i].rest) /\ Advanced(t)[i] = [s[i] EXCEPT !.rest = rest]
      <3>1. DOMAIN Advanced(t) = 1 .. n /\ Len(Advanced(t)) <= Len(s)
        BY <1>1, <1>7
      <3> HIDE DEF s, n
      <3> QED
        BY <3>1 DEF Within
    <2>1. CASE i = n
      BY <1>4, <1>7, <2>1
    <2>2. CASE i # n
      <3>1. s[i] \in Frames
        BY <1>1
      <3>2. /\ s[i].rest \in Seq(Statements) /\ s[i] = [s[i] EXCEPT !.rest = s[i].rest]
            /\ Fewer(s[i].rest, s[i].rest)
        BY <3>1 DEF Frames, Fewer
      <3> QED
        BY <1>7, <2>2, <3>2
    <2> QED
      BY <2>1, <2>2
  <1> QED
    BY <1>1, <1>2, <1>4, <1>5, <1>7, <1>8 DEF Statement, Current

\* An error and a return only cut the stack.
LEMMA UnwoundWithin ==
  ASSUME NEW s \in Seq(Frames)
  PROVE  Unwound(s) \in Seq(Frames) /\ Within(Unwound(s), s)
  <1> DEFINE catchers == {i \in DOMAIN s : s[i].kind \in {"module", "file"}}
  <1>1. CASE catchers = {}
    BY <1>1 DEF Unwound, Within
  <1>2. CASE catchers # {}
    <2>1. Max(catchers) \in 1 .. Len(s)
      <3>1. catchers \in SUBSET (1 .. Len(s)) /\ Len(s) \in Nat
        OBVIOUS
      <3> HIDE DEF catchers
      <3> QED
        BY <1>2, <3>1, Greatest
    <2> DEFINE n == IF s[Max(catchers)].kind = "file" THEN Max(catchers) ELSE Max(catchers) - 1
    <2>2. Unwound(s) = SubSeq(s, 1, n)
      BY <1>2, Zenon DEF Unwound
    <2>3. n \in 0 .. Len(s)
      <3> HIDE DEF catchers
      <3> QED
        BY <2>1
    <2> HIDE DEF n
    <2> QED
      BY <2>2, <2>3, PrefixWithin
  <1> QED
    BY <1>1, <1>2

\* A return ends at the innermost frame that is not a block, or below it.
LEMMA ReturnedWithin ==
  ASSUME NEW s \in Seq(Frames), s # <<>>, Grounded(s)
  PROVE  Returned(s) \in Seq(Frames) /\ Within(Returned(s), s)
  <1> DEFINE bases == {i \in DOMAIN s : s[i].kind # "block"}
  <1>1. Max(bases) \in 1 .. Len(s)
    <2>1. bases \in SUBSET (1 .. Len(s)) /\ Len(s) \in Nat
      OBVIOUS
    <2>2. 1 \in bases
      BY DEF Grounded
    <2> HIDE DEF bases
    <2> QED
      BY <2>1, <2>2, Greatest
  <1> DEFINE n == IF s[Max(bases)].kind = "file" THEN Max(bases) ELSE Max(bases) - 1
  <1>2. Returned(s) = SubSeq(s, 1, n)
    BY Zenon DEF Returned
  <1>3. n \in 0 .. Len(s)
    <2> HIDE DEF bases
    <2> QED
      BY <1>1
  <1> HIDE DEF n
  <1> QED
    BY <1>2, <1>3, PrefixWithin

\* A frame that is a module's body, or runs in the module of the one below it.
LEMMA PushSound ==
  ASSUME NEW r, Sound(r), r # <<>>, NEW f \in Frames,
         f.kind = "module" \/ f.mod = r[Len(r)].mod,
         f.kind = "call" /\ f.home # Global =>
            /\ ~f.pub \/ f.asked.ns = Global => r[Len(r)].mod = f.home
            /\ f.by = NoTask => f.asked.ns = Global /\ f.asked.key[1] = f.home
  PROVE  Sound(Append(r, f)) /\ Append(r, f) # <<>>
  <1> DEFINE n == Len(r)
             s == Append(r, f)
  <1>1. /\ r \in Seq(Frames) /\ n \in Nat /\ n \in DOMAIN r /\ n + 1 \in Nat
        /\ s \in Seq(Frames) /\ Len(s) = n + 1 /\ s # <<>>
        /\ s[n + 1] = f /\ \A i \in 1 .. n : s[i] = r[i]
    BY DEF Sound
  <1>2. \A i \in 1 .. n : Enclosing(s, i) = Enclosing(r, i)
    <2> TAKE i \in 1 .. n
    <2>1. i \in DOMAIN s /\ i \in DOMAIN r /\ 1 .. i \subseteq 1 .. n
      BY <1>1
    <2> QED
      BY <1>1, <2>1, EnclosingWithin
  <1>3. Enclosing(r, n) = r[n].mod
    BY <1>1 DEF Sound, Housed
  <1>4. Enclosing(s, n + 1) = f.mod /\ (f.kind # "module" => Enclosing(s, n + 1) = Enclosing(s, n))
    <2> DEFINE inside == {j \in 1 .. n + 1 : s[j].kind = "module"}
               below == {j \in 1 .. n : s[j].kind = "module"}
    <2>1. CASE f.kind = "module"
      <3>1. n + 1 \in inside /\ inside \in SUBSET (1 .. n + 1)
        BY <1>1, <2>1
      <3>2. Max(inside) = n + 1
        <4>1. Max(inside) \in inside /\ Max(inside) >= n + 1
          <5> HIDE DEF inside
          <5> QED
            BY <1>1, <3>1, Greatest
        <4>2. Max(inside) \in 1 .. n + 1
          <5> HIDE DEF inside, s, n
          <5> QED
            BY <3>1, <4>1
        <4> HIDE DEF inside, s, n
        <4> QED
          BY <1>1, <4>1, <4>2
      <3> QED
        BY <1>1, <2>1, <3>1, <3>2 DEF Enclosing
    <2>2. CASE f.kind # "module"
      <3>1. inside = below
        BY <1>1, <2>2
      <3>2. Enclosing(s, n + 1) = Enclosing(s, n)
        BY <3>1 DEF Enclosing
      <3> QED
        BY <1>1, <1>2, <1>3, <2>2, <3>2
    <2> QED
      BY <2>1, <2>2
  <1>5. Grounded(s)
    BY <1>1 DEF Sound, Grounded
  <1>6. Housed(s)
    <2> SUFFICES ASSUME NEW i \in 1 .. n + 1 PROVE s[i].mod = Enclosing(s, i)
      BY <1>1 DEF Housed
    <2>1. CASE i = n + 1
      BY <1>1, <1>4, <2>1
    <2>2. CASE i \in 1 .. n
      BY <1>1, <1>2, <2>2 DEF Sound, Housed
    <2> QED
      BY <1>1, <2>1, <2>2
  <1>7. ASSUME NEW i \in 1 .. n + 1 PROVE AtHome(s, i)
    <2>1. CASE i = n + 1
      BY <1>1, <1>2, <1>3, <1>4, <2>1 DEF AtHome
    <2>2. CASE i \in 1 .. n
      <3>1. AtHome(r, i)
        BY <1>1, <2>2 DEF Sound
      <3> QED
        BY <1>1, <1>2, <2>2, <3>1 DEF AtHome
    <2> QED
      BY <1>1, <2>1, <2>2
  <1> QED
    BY <1>1, <1>5, <1>6, <1>7 DEF Sound

-----------------------------------------------------------------------------
(* One task's stack *)

\* What a statement may make of the stack of its task is sound.
LEMMA StatementSound ==
  ASSUME Stacks, NEW t \in Tasks, stage[t] \notin {"new", "end"}, Top(t).rest # <<>>
  PROVE  /\ Sound(Advanced(t)) /\ Advanced(t) # <<>>
         /\ Advanced(t)[Len(Advanced(t))].mod = Current(t) /\ Current(t) \in Names
         /\ Statement(t) \in Statements
         /\ Sound(Unwound(Advanced(t))) /\ Sound(Returned(Advanced(t))) /\ Sound(Returned(stack[t]))
  <1>1. stack[t] \in Seq(Frames) /\ stack[t] # <<>> /\ Sound(stack[t])
    BY DEF Stacks
  <1>2. /\ Top(t) \in Frames /\ Statement(t) \in Statements
        /\ Advanced(t) \in Seq(Frames) /\ Len(Advanced(t)) = Len(stack[t])
        /\ Within(Advanced(t), stack[t])
        /\ Advanced(t)[Len(stack[t])].mod = Current(t)
    BY <1>1, AdvancedWithin DEF Stacks
  <1>3. Current(t) \in Names
    BY <1>2 DEF Current, Frames
  <1>4. Sound(Advanced(t)) /\ Advanced(t) # <<>>
    <2>1. Advanced(t) # <<>>
      BY <1>1, <1>2
    <2> QED
      BY <1>1, <1>2, <2>1, WithinSound
  <1>5. Sound(Unwound(Advanced(t)))
    BY <1>2, <1>4, UnwoundWithin, WithinSound
  <1>6. \A r \in Seq(Frames) : Sound(r) /\ r # <<>> => Sound(Returned(r))
    <2> TAKE r \in Seq(Frames)
    <2> HAVE Sound(r) /\ r # <<>>
    <2>1. Grounded(r)
      BY DEF Sound
    <2> QED
      BY <2>1, ReturnedWithin, WithinSound
  <1> QED
    BY <1>1, <1>2, <1>3, <1>4, <1>5, <1>6

\* Every action that has moved a task has left the others alone.
LEMMA ContinueSound ==
  ASSUME Stacks, NEW t \in Tasks, NEW s, Sound(s), Continue(t, s)
  PROVE  Stacks'
  <1>1. s \in Seq(Frames)
    BY DEF Sound
  <1>2. /\ stack' \in [Tasks -> Seq(Frames)]
        /\ stage' \in [Tasks -> {"new", "run", "fetch", "load", "end"}]
    BY <1>1 DEF Stacks, Continue
  <1>3. stack'[t] = s /\ stage'[t] = IF s = <<>> THEN "end" ELSE "run"
    BY DEF Stacks, Continue
  <1>4. \A u \in Tasks : u # t => stack'[u] = stack[u] /\ stage'[u] = stage[u]
    BY DEF Stacks, Continue
  <1>5. \A u \in Tasks : stage'[u] \in {"new", "end"} <=> stack'[u] = <<>>
    BY <1>3, <1>4 DEF Stacks
  <1>6. \A u \in Tasks : Sound(stack'[u])
    BY <1>3, <1>4 DEF Stacks
  <1>7. AtImport'
    <2> SUFFICES ASSUME NEW u \in Tasks, stage'[u] \in {"fetch", "load"}
                 PROVE  Top(u)'.rest # <<>> /\ Statement(u)'.op = "import"
      BY DEF AtImport
    <2>1. u # t
      BY <1>3
    <2> QED
      BY <1>4, <2>1 DEF Stacks, AtImport, Statement, Top
  <1> QED
    BY <1>2, <1>5, <1>6, <1>7 DEF Stacks

\* A frame that is put on a stack.
LEMMA PushedFrames ==
  ASSUME ModulesAssumption, NEW body \in Seq(Statements), NEW ns \in Names,
         NEW kind \in {"top", "module", "file", "block"}
  PROVE  /\ Frame(kind, body, ns) \in Frames
         /\ Frame(kind, body, ns).kind = kind /\ Frame(kind, body, ns).mod = ns
  <1>1. kind \in {"top", "module", "file", "call", "block"}
    OBVIOUS
  <1>2. Global \in Names
    BY ModulesAssumption
  <1>3. Frame(kind, body, ns) \in Frames
    BY <1>1, <1>2 DEF Frame, Frames
  <1> QED
    BY <1>3 DEF Frame

\* The body of a block, a module or a file put on a stack.
LEMMA PushedSound ==
  ASSUME Stacks, NEW t \in Tasks, stage[t] \notin {"new", "end"}, Top(t).rest # <<>>,
         NEW body \in Seq(Statements), NEW ns \in Names, NEW kind \in {"module", "file", "block"},
         kind = "module" \/ ns = Current(t)
  PROVE  Sound(Append(Advanced(t), Frame(kind, body, ns)))
  <1> DEFINE f == Frame(kind, body, ns)
  <1>1. f \in Frames /\ f.kind = kind /\ f.mod = ns
    BY PushedFrames, ModulesAssumption
  <1>2. /\ Sound(Advanced(t)) /\ Advanced(t) # <<>>
        /\ Advanced(t)[Len(Advanced(t))].mod = Current(t)
    BY StatementSound
  <1> HIDE DEF f
  <1>3. Sound(Append(Advanced(t), f))
    BY <1>1, <1>2, PushSound
  <1> QED
    BY <1>3 DEF f

\* A call finds a function where it may run it.
LEMMA CallSound ==
  ASSUME Stacks, Functions, NEW t \in Tasks, stage[t] \notin {"new", "end"}, Top(t).rest # <<>>,
         Statement(t).op = "call",
         NEW home, home = Home(Statement(t), Current(t)),
         <<home, Statement(t).key>> \in DOMAIN funcs,
         ~Private(Statement(t), Current(t))
  PROVE  Sound(Append(Advanced(t),
                      CallFrame(funcs[<<home, Statement(t).key>>], Current(t), Statement(t), home)))
  <1> DEFINE s == Statement(t)
             d == funcs[<<home, s.key>>]
             f == CallFrame(d, Current(t), s, home)
  <1>1. /\ Sound(Advanced(t)) /\ Advanced(t) # <<>>
        /\ Advanced(t)[Len(Advanced(t))].mod = Current(t)
        /\ Current(t) \in Names /\ s \in Statements
    BY StatementSound
  <1>2. s.ns \in Names /\ (s.ns # Global => s.key[1] = Global)
    BY <1>1, ModulesAssumption
  <1>3. home \in Names
    BY <1>1, <1>2 DEF Home, Global
  <1>4. d \in Definitions
    BY DEF Functions
  <1>5. /\ f \in Frames /\ f.kind = "call" /\ f.mod = Current(t) /\ f.home = home
        /\ f.asked = s /\ f.pub = d.pub /\ f.by = d.by
    <2> HIDE DEF s, d
    <2> QED
      BY <1>1, <1>3, <1>4 DEF CallFrame, Frames, Definitions, s, d
  <1>6. home # Global /\ (~d.pub \/ s.ns = Global) => Current(t) = home
    BY DEF Home, Private
  <1>7. home # Global /\ d.by = NoTask => s.ns = Global /\ s.key[1] = home
    <2> HAVE home # Global /\ d.by = NoTask
    <2>1. home = s.key[1]
      BY DEF Functions, LibraryKeys
    <2>2. s.ns # Global => home = s.ns
      BY DEF Home
    <2> QED
      BY <1>2, <2>1, <2>2
  <1> HIDE DEF f, d, s
  <1>8. Sound(Append(Advanced(t), f))
    BY <1>1, <1>5, <1>6, <1>7, PushSound
  <1> QED
    BY <1>8 DEF f, d, s

-----------------------------------------------------------------------------
(* Every step *)

\* What a load leaves is typed.
LEMMA LoadTyped ==
  ASSUME ModulesAssumption, Data, NEW n \in Natives, Load(n)
  PROVE  /\ LoadedBuild(n) \in 0 .. MaxBuild /\ (LoadedBuild(n) # 0 => LoadedBuild(n) \in Loadable)
         /\ loaded' \in [Natives -> 0 .. MaxBuild]
         /\ \A m \in Natives : loaded'[m] = IF m = n THEN LoadedBuild(n) ELSE loaded[m]
         /\ \A m \in Natives : loaded'[m] # 0 => loaded'[m] \in Loadable
         /\ failed \subseteq failed' /\ failed' \subseteq Natives
  <1>1. LoadedBuild(n) \in 0 .. MaxBuild /\ (LoadedBuild(n) # 0 => LoadedBuild(n) \in Loadable)
    BY ModulesAssumption DEF Data, LoadedBuild
  <1>2. loaded' \in [Natives -> 0 .. MaxBuild]
    BY <1>1 DEF Data, Load
  <1>3. \A m \in Natives : loaded'[m] = IF m = n THEN LoadedBuild(n) ELSE loaded[m]
    BY DEF Data, Load
  <1>4. failed \subseteq failed' /\ failed' \subseteq Natives
    BY DEF Data, Load
  <1> QED
    BY <1>1, <1>2, <1>3, <1>4 DEF Data

\* No task has started, and no function is there.
LEMMA InitStacks == Init => Stacks /\ Functions /\ Data
  <1> SUFFICES ASSUME Init PROVE Stacks /\ Functions /\ Data
    OBVIOUS
  <1> USE ModulesAssumption DEF Init
  <1>1. Stacks
    <2>1. Sound(<<>>)
      BY DEF Sound, Grounded, Housed
    <2>2. \A t \in Tasks : stack[t] = <<>> /\ stage[t] = "new"
      OBVIOUS
    <2>3. stack \in [Tasks -> Seq(Frames)]
      OBVIOUS
    <2> QED
      BY <2>1, <2>2, <2>3 DEF Stacks, AtImport
  <1>2. Functions
    BY DEF Functions, LibraryKeys
  <1>3. Data
    <2>1. Len(Libraries) \in Nat
      OBVIOUS
    <2> QED
      BY <2>1 DEF Data
  <1> QED
    BY <1>1, <1>2, <1>3

\* What the three of them are to TypeOK.
LEMMA StackParts == StackInv <=> Stacks /\ Functions /\ Data
  BY DEF StackInv, TypeOK, Stacks, Functions, Data

\* A program that starts is a stack of one frame.
LEMMA SubmitSound ==
  ASSUME Stacks, NEW t \in Tasks, Submit(t)
  PROVE  Stacks'
  <1>1. PICK p \in Programs[t] :
          LET runs == t \notin Linked \/ Link(p).ok
              ast == IF t \in Linked THEN Link(p).ast ELSE p IN
          /\ stage' = [stage EXCEPT ![t] = IF runs THEN "run" ELSE "end"]
          /\ stack' = [stack EXCEPT ![t] = IF runs THEN <<Frame("top", ast, Global)>> ELSE <<>>]
    BY DEF Submit
  <1> DEFINE runs == t \notin Linked \/ Link(p).ok
             ast == IF t \in Linked THEN Link(p).ast ELSE p
             f == Frame("top", ast, Global)
             s == IF runs THEN <<f>> ELSE <<>>
  <1>2. ast \in Seq(Statements)
    BY ModulesAssumption
  <1>3. f \in Frames /\ f.kind = "top" /\ f.mod = Global
    <2> HIDE DEF ast
    <2> QED
      BY <1>2, ModulesAssumption, PushedFrames
  <1>4. Sound(<<f>>) /\ <<f>> # <<>>
    <2> HIDE DEF f
    <2> DEFINE one == <<f>>
    <2>1. one \in Seq(Frames) /\ DOMAIN one = {1} /\ one[1] = f
      BY <1>3
    <2> HIDE DEF one
    <2>2. {j \in 1 .. 1 : one[j].kind = "module"} = {}
      BY <1>3, <2>1
    <2>3. Enclosing(one, 1) = Global
      BY <2>2 DEF Enclosing
    <2>4. Sound(one)
      BY <1>3, <2>1, <2>3 DEF Sound, Grounded, Housed, AtHome
    <2> QED
      BY <2>4 DEF one
  <1>5. Sound(<<>>)
    BY DEF Sound, Grounded, Housed
  <1>6. Sound(s) /\ (s = <<>> <=> ~runs)
    BY <1>4, <1>5
  <1>7. Continue(t, s)
    <2>1. stack' = [stack EXCEPT ![t] = s] /\ stage' = [stage EXCEPT ![t] = IF runs THEN "run" ELSE "end"]
      BY <1>1
    <2> HIDE DEF s, runs
    <2> QED
      BY <1>6, <2>1 DEF Continue
  <1> HIDE DEF s
  <1> QED
    BY <1>6, <1>7, ContinueSound

\* The stacks stay sound.
LEMMA StacksNext ==
  ASSUME Stacks, Functions, [Next]_vars
  PROVE  Stacks'
  <1>1. stack' = stack /\ stage' = stage => Stacks'
    BY DEF Stacks, AtImport, Statement, Top
  <1> SUFFICES ASSUME NEW t \in Tasks,
                      \/ Submit(t) \/ Return(t) \/ Block(t) \/ Work(t) \/ Module(t) \/ Def(t)
                      \/ UseFile(t) \/ UseNative(t) \/ HotReload(t)
                      \/ Import(t) \/ Rejected(t) \/ Verified(t) \/ LoadImported(t)
                      \/ CallNative(t) \/ Call(t)
               PROVE  Stacks'
    BY <1>1 DEF Next, BootNative, BootPure, Change, vars
  <1> DEFINE s == Statement(t)
             a == Advanced(t)
  <1>2. Sound(<<>>)
    BY DEF Sound, Grounded, Housed
  <1>3. ASSUME stage[t] \notin {"new", "end"}, Top(t).rest # <<>>
        PROVE  /\ Sound(a) /\ Current(t) \in Names /\ s \in Statements
               /\ Sound(Unwound(a)) /\ Sound(Returned(a)) /\ Sound(Returned(stack[t]))
    BY <1>3, StatementSound
  <1>4. stage[t] \in {"fetch", "load"} => Top(t).rest # <<>>
    BY DEF Stacks, AtImport
  <1>5. Running(t) => stage[t] \notin {"new", "end"} /\ Top(t).rest # <<>>
    BY DEF Running
  <1>6. ASSUME NEW r, Sound(r), Continue(t, r) PROVE Stacks'
    BY <1>6, ContinueSound
  <1>7. CASE Submit(t)
    BY <1>7, SubmitSound
  <1>8. CASE Return(t)
    <2>1. stack[t] \in Seq(Frames) /\ stack[t] # <<>> /\ Sound(stack[t])
      BY <1>8 DEF Return, Stacks
    <2>2. Len(stack[t]) - 1 \in 0 .. Len(stack[t])
      BY <2>1
    <2>3. Sound(Front(stack[t]))
      BY <2>1, <2>2, PrefixWithin, WithinSound DEF Front
    <2> QED
      BY <1>6, <1>8, <2>3 DEF Return
  <1>9. CASE Block(t)
    <2>1. Running(t) /\ s.op = "block" /\ Continue(t, Append(a, Frame("block", s.body, Current(t))))
      BY <1>9 DEF Block
    <2>2. s.body \in Seq(Statements)
      BY <1>3, <1>5, <2>1, ModulesAssumption
    <2>3. Sound(Append(a, Frame("block", s.body, Current(t))))
      BY <1>3, <1>5, <2>1, <2>2, PushedSound
    <2> QED
      BY <1>6, <2>1, <2>3
  <1>10. CASE Work(t)
    BY <1>3, <1>5, <1>6, <1>10 DEF Work
  <1>11. CASE Module(t)
    <2>1. Running(t) /\ s.op = "module" /\ Continue(t, Append(a, Frame("module", s.body, s.ns)))
      BY <1>11 DEF Module
    <2>2. s.body \in Seq(Statements) /\ s.ns \in Names
      BY <1>3, <1>5, <2>1, ModulesAssumption
    <2>3. Sound(Append(a, Frame("module", s.body, s.ns)))
      BY <1>3, <1>5, <2>1, <2>2, PushedSound
    <2> QED
      BY <1>6, <2>1, <2>3
  <1>12. CASE Def(t)
    BY <1>3, <1>5, <1>6, <1>12 DEF Def
  <1>13. CASE UseFile(t)
    <2>1. Running(t)
      BY <1>13 DEF UseFile
    <2>2. CASE s.path \in DOMAIN Files
      <3>1. Continue(t, Append(a, Frame("file", Files[s.path], Current(t))))
        BY <1>13, <2>2 DEF UseFile
      <3>2. Files[s.path] \in Seq(Statements)
        BY <2>2, ModulesAssumption
      <3>3. Sound(Append(a, Frame("file", Files[s.path], Current(t))))
        BY <1>3, <1>5, <2>1, <3>2, PushedSound
      <3> QED
        BY <1>6, <3>1, <3>3
    <2>3. CASE s.path \notin DOMAIN Files
      BY <1>3, <1>5, <1>6, <1>13, <2>1, <2>3 DEF UseFile
    <2> QED
      BY <2>2, <2>3
  <1>14. CASE UseNative(t)
    <2>1. Continue(t, a) \/ Continue(t, Unwound(a))
      BY <1>14 DEF UseNative
    <2> QED
      BY <1>3, <1>5, <1>6, <1>14, <2>1 DEF UseNative
  <1>15. CASE HotReload(t)
    <2>1. Continue(t, a) \/ Continue(t, Unwound(a))
      BY <1>15 DEF HotReload
    <2> QED
      BY <1>3, <1>5, <1>6, <1>15, <2>1 DEF HotReload
  <1>16. ASSUME NEW g \in {"fetch", "load"}, stack' = stack, stage' = [stage EXCEPT ![t] = g],
                stage[t] \notin {"new", "end"}, Top(t).rest # <<>>, s.op = "import"
         PROVE  Stacks'
    <2>1. \A u \in Tasks : stage'[u] = IF u = t THEN g ELSE stage[u]
      BY <1>16 DEF Stacks
    <2>2. AtImport'
      <3> SUFFICES ASSUME NEW u \in Tasks, stage'[u] \in {"fetch", "load"}
                   PROVE  Top(u).rest # <<>> /\ Statement(u).op = "import"
        BY <1>16 DEF AtImport, Statement, Top
      <3>1. CASE u = t
        BY <1>16, <3>1
      <3>2. CASE u # t
        BY <2>1, <3>2 DEF Stacks, AtImport
      <3> QED
        BY <3>1, <3>2
    <2>3. stage' \in [Tasks -> {"new", "run", "fetch", "load", "end"}]
      BY <1>16 DEF Stacks
    <2>4. \A u \in Tasks : stage'[u] \in {"new", "end"} <=> stack'[u] = <<>>
      BY <1>16, <2>1 DEF Stacks
    <2> QED
      BY <1>16, <2>2, <2>3, <2>4 DEF Stacks
  <1>17. CASE Import(t)
    <2>1. Running(t) /\ s.op = "import"
      BY <1>17 DEF Import
    <2>2. CASE cache[s.name] # NoPackage
      BY <1>3, <1>5, <1>6, <1>17, <2>1, <2>2 DEF Import
    <2>3. CASE cache[s.name] = NoPackage
      <3>1. stage' = [stage EXCEPT ![t] = "fetch"] /\ stack' = stack
        BY <1>17, <2>3 DEF Import
      <3> QED
        BY <1>5, <1>16, <2>1, <3>1
    <2> QED
      BY <2>2, <2>3
  <1>18. CASE Rejected(t)
    BY <1>3, <1>4, <1>6, <1>18 DEF Rejected
  <1>19. CASE Verified(t)
    <2>1. stage[t] = "fetch" /\ Top(t).rest # <<>> /\ s.op = "import"
      BY <1>19 DEF Verified, Stacks, AtImport
    <2>2. \/ stage' = [stage EXCEPT ![t] = "load"] /\ stack' = stack
          \/ Continue(t, Returned(a))
      BY <1>19 DEF Verified
    <2>3. CASE stage' = [stage EXCEPT ![t] = "load"] /\ stack' = stack
      BY <1>16, <2>1, <2>3
    <2>4. CASE Continue(t, Returned(a))
      BY <1>3, <1>6, <2>1, <2>4
    <2> QED
      BY <2>2, <2>3, <2>4
  <1>20. CASE LoadImported(t)
    <2>1. Continue(t, Unwound(a)) \/ Continue(t, Returned(a))
      BY <1>20 DEF LoadImported
    <2> QED
      BY <1>3, <1>4, <1>6, <1>20, <2>1 DEF LoadImported
  <1>21. CASE CallNative(t)
    <2>1. Continue(t, a) \/ Continue(t, Unwound(a))
      BY <1>21 DEF CallNative
    <2> QED
      BY <1>3, <1>5, <1>6, <1>21, <2>1 DEF CallNative
  <1>22. CASE Call(t)
    <2> DEFINE home == Home(s, Current(t))
               f == <<home, s.key>>
    <2>1. Running(t) /\ s.op = "call"
      BY <1>22 DEF Call
    <2>2. \/ Continue(t, a) \/ Continue(t, Unwound(a))
          \/ /\ f \in DOMAIN funcs /\ ~Private(s, Current(t))
             /\ Continue(t, Append(a, CallFrame(funcs[f], Current(t), s, f[1])))
      BY <1>22 DEF Call
    <2>3. CASE Continue(t, a) \/ Continue(t, Unwound(a))
      BY <1>3, <1>5, <1>6, <2>1, <2>3
    <2>4. CASE /\ f \in DOMAIN funcs /\ ~Private(s, Current(t))
               /\ Continue(t, Append(a, CallFrame(funcs[f], Current(t), s, f[1])))
      <3>1. Sound(Append(a, CallFrame(funcs[f], Current(t), s, home)))
        BY <1>5, <2>1, <2>4, CallSound
      <3> QED
        BY <1>6, <2>4, <3>1
    <2> QED
      BY <2>2, <2>3, <2>4
  <1> QED
    BY <1>7, <1>8, <1>9, <1>10, <1>11, <1>12, <1>13, <1>14, <1>15, <1>17, <1>18, <1>19, <1>20, <1>21, <1>22

\* A definition is one of its task's, and takes the place of any there was.
LEMMA FunctionsNext ==
  ASSUME Stacks, Functions, [Next]_vars
  PROVE  Functions'
  <1>1. CASE BootPure
    <2> DEFINE d == [pub |-> TRUE, body |-> <<>>, by |-> NoTask, placed |-> FALSE]
               ids == {<<p[1], p>> : p \in PureLibrary}
    <2>2. d \in Definitions
      BY DEF Definitions
    <2>3. funcs' = [f \in ids |-> d]
      BY <1>1 DEF BootPure
    <2>4. \A f \in ids : f[1] = f[2][1]
      OBVIOUS
    <2> HIDE DEF d, ids
    <2>1. \A f \in DOMAIN funcs' : f[1] = f[2][1] /\ funcs'[f] = d
      BY <2>3, <2>4
    <2> QED
      BY <2>1, <2>2 DEF Functions, LibraryKeys
  <1>2. ASSUME NEW t \in Tasks, Def(t) PROVE Functions'
    <2> DEFINE s == Statement(t)
               id == <<Current(t), s.key>>
               q == t \in Linked /\ InProgram(stack[t])
               d == [pub |-> s.pub, body |-> s.body, by |-> t, placed |-> q]
    <2>1. Running(t) /\ s.op = "def"
      BY <1>2 DEF Def
    <2>2. s \in Statements
      BY <2>1, StatementSound DEF Running
    <2>3. s.pub \in BOOLEAN /\ s.body \in Seq(Statements)
      BY <2>1, <2>2, ModulesAssumption
    <2>0. q \in BOOLEAN
      BY DEF InProgram
    <2> HIDE DEF q
    <2>4. d \in Definitions /\ d.by # NoTask
      BY <2>0, <2>3, ModulesAssumption DEF Definitions
    <2> DEFINE ids == DOMAIN funcs \union {id}
    <2>5. funcs' = [f \in ids |-> IF f = id THEN d ELSE funcs[f]]
      BY <1>2 DEF Def, q
    <2> HIDE DEF d, id
    <2>6. ASSUME NEW f \in DOMAIN funcs' PROVE funcs'[f] = d \/ (f \in DOMAIN funcs /\ funcs'[f] = funcs[f])
      <3>1. f \in ids /\ funcs'[f] = IF f = id THEN d ELSE funcs[f]
        <4> HIDE DEF ids
        <4> QED
          BY <2>5, <2>6
      <3> QED
        BY <3>1
    <2> QED
      BY <2>4, <2>6 DEF Functions, LibraryKeys
  <1>3. CASE funcs' = funcs
    BY <1>3 DEF Functions, LibraryKeys
  <1>4. BootPure \/ (\E t \in Tasks : Def(t)) \/ funcs' = funcs
    BY DEF Next, vars, BootNative, Change, Submit, Return, Block, Work, Module, UseFile, UseNative, HotReload,
           Import, Rejected, Verified, LoadImported, CallNative, Call
  <1> QED
    BY <1>1, <1>2, <1>3, <1>4

\* What a statement of a package names is a native package.
LEMMA NamesNative ==
  ASSUME Stacks, NEW t \in Tasks, stage[t] \notin {"new", "end"}, Top(t).rest # <<>>,
         Statement(t).op \in {"import", "reload"}
  PROVE  Statement(t).name \in Natives
  BY StatementSound, ModulesAssumption

\* What a step may do to the loader.
LEMMA LoaderSteps ==
  ASSUME Stacks, Data, [Next]_vars
  PROVE  \/ UNCHANGED <<loaded, failed, reloaded>>
         \/ \E n \in Natives :
              /\ Load(n) /\ UNCHANGED <<disk, changed, reloaded>>
              /\ \/ cache' = [cache EXCEPT ![n] = [build |-> 0, from |-> "trusted", native |-> TRUE]]
                 \/ cache' = cache /\ cache[n] # NoPackage
                 \/ cache' = cache /\ \E t \in Tasks : stage[t] = "load" /\ n = Statement(t).name
         \/ \E n \in Natives : Reload(n) /\ UNCHANGED <<disk, changed, cache>>
  <1>1. CASE BootNative
    <2>1. Libraries[booting] \in Natives
      BY <1>1, ModulesAssumption DEF BootNative
    <2> QED
      BY <1>1, <2>1 DEF BootNative
  <1>2. ASSUME NEW t \in Tasks, UseNative(t)
        PROVE  \/ UNCHANGED <<loaded, failed, reloaded>>
               \/ \E n \in Natives : /\ Load(n) /\ UNCHANGED <<disk, changed, reloaded, cache>>
                                     /\ cache[n] # NoPackage
    BY <1>2 DEF UseNative
  <1>3. ASSUME NEW t \in Tasks, HotReload(t)
        PROVE  \/ UNCHANGED <<loaded, failed, reloaded>>
               \/ \E n \in Natives : Reload(n) /\ UNCHANGED <<disk, changed, cache>>
    <2>1. Statement(t).name \in Natives
      BY <1>3, NamesNative DEF HotReload, Running
    <2> QED
      BY <1>3, <2>1 DEF HotReload
  <1>4. ASSUME NEW t \in Tasks, LoadImported(t)
        PROVE  \E n \in Natives : /\ Load(n) /\ UNCHANGED <<disk, changed, reloaded, cache>>
                                  /\ stage[t] = "load" /\ n = Statement(t).name
    <2>1. stage[t] = "load" /\ Top(t).rest # <<>> /\ Statement(t).op = "import"
      BY <1>4 DEF LoadImported, Stacks, AtImport
    <2>2. Statement(t).name \in Natives
      BY <2>1, NamesNative
    <2> QED
      BY <1>4, <2>2 DEF LoadImported
  <1>5. \/ BootNative \/ (\E t \in Tasks : UseNative(t) \/ HotReload(t) \/ LoadImported(t))
        \/ UNCHANGED <<loaded, failed, reloaded>>
    BY DEF Next, vars, BootPure, Change, Submit, Return, Block, Work, Module, Def, UseFile,
           Import, Rejected, Verified, CallNative, Call
  <1> QED
    BY <1>1, <1>2, <1>3, <1>4, <1>5

\* What a step may do to the cache.
LEMMA CacheSteps ==
  ASSUME Stacks, Data, [Next]_vars
  PROVE  \/ cache' = cache
         \/ \E n \in Natives : cache' = [cache EXCEPT ![n] = [build |-> 0, from |-> "trusted", native |-> TRUE]]
                               /\ Load(n)
         \/ \E t \in Tasks : \E n \in Natives : \E p \in Packages :
              /\ n = Statement(t).name /\ stage[t] = "fetch"
              /\ cache' = [cache EXCEPT ![n] = p] /\ UNCHANGED <<disk, changed, loaded, failed, reloaded>>
              /\ p.from = "file" => p.build = disk[n]
              /\ p.native => stage' = [stage EXCEPT ![t] = "load"] /\ stack' = stack
  <1>1. CASE BootNative
    <2>1. Libraries[booting] \in Natives
      BY <1>1, ModulesAssumption DEF BootNative
    <2> QED
      BY <1>1, <2>1 DEF BootNative
  <1>2. ASSUME NEW t \in Tasks, Verified(t)
        PROVE  \E n \in Natives : \E p \in Packages :
                 /\ n = Statement(t).name /\ stage[t] = "fetch"
                 /\ cache' = [cache EXCEPT ![n] = p] /\ UNCHANGED <<disk, changed, loaded, failed, reloaded>>
                 /\ p.from = "file" => p.build = disk[n]
                 /\ p.native => stage' = [stage EXCEPT ![t] = "load"] /\ stack' = stack
    <2> DEFINE n == Statement(t).name
    <2>1. stage[t] = "fetch" /\ Top(t).rest # <<>> /\ Statement(t).op = "import"
      BY <1>2 DEF Verified, Stacks, AtImport
    <2>2. n \in Natives
      BY <2>1, NamesNative
    <2>3. PICK p \in Fetched(n, Statement(t).from) :
             /\ cache' = [cache EXCEPT ![n] = p]
             /\ p.native => stage' = [stage EXCEPT ![t] = "load"] /\ stack' = stack
      BY <1>2 DEF Verified
    <2>4. p \in Packages /\ (p.from = "file" => p.build = disk[n])
      <3>1. \/ p \in [build : {disk[n]} \cap Signed, from : {"file"}, native : {TRUE}]
            \/ p \in [build : Signed, from : {"registry"}, native : BOOLEAN]
        BY <2>3 DEF Fetched
      <3>2. Signed \subseteq 0 .. MaxBuild
        BY ModulesAssumption
      <3> QED
        BY <3>1, <3>2 DEF Packages
    <2>5. UNCHANGED <<disk, changed, loaded, failed, reloaded>>
      BY <1>2 DEF Verified
    <2> QED
      BY <2>1, <2>2, <2>3, <2>4, <2>5
  <1>3. BootNative \/ (\E t \in Tasks : Verified(t)) \/ cache' = cache
    BY DEF Next, vars, BootPure, Change, Submit, Return, Block, Work, Module, Def, UseFile,
           UseNative, HotReload, LoadImported, Import, Rejected, CallNative, Call
  <1> QED
    BY <1>1, <1>2, <1>3

\* What a step may do to the files.
LEMMA DiskSteps ==
  ASSUME Data, [Next]_vars
  PROVE  \/ UNCHANGED <<disk, changed>>
         \/ \E n \in Natives : \E b \in 0 .. MaxBuild :
              /\ disk' = [disk EXCEPT ![n] = b] /\ changed' = changed \union {n}
              /\ UNCHANGED <<cache, loaded, failed, reloaded>>
  <1>1. ASSUME NEW n \in Natives, Change(n)
        PROVE  \E b \in 0 .. MaxBuild : /\ disk' = [disk EXCEPT ![n] = b] /\ changed' = changed \union {n}
                                        /\ UNCHANGED <<cache, loaded, failed, reloaded>>
    BY <1>1 DEF Change
  <1>2. (\E n \in Natives : Change(n)) \/ UNCHANGED <<disk, changed>>
    BY DEF Next, vars, BootNative, BootPure, Submit, Return, Block, Work, Module, Def, UseFile,
           UseNative, HotReload, LoadImported, Import, Rejected, Verified, CallNative, Call
  <1> QED
    BY <1>1, <1>2

\* What a step may record of an import.
LEMMA ImportSteps ==
  ASSUME Stacks, Data, [Next]_vars
  PROVE  \/ imported' = imported
         \/ \E n \in Natives : /\ imported' = imported \union {n}
                               /\ cache[n].native \/ loaded'[n] # 0
  <1>1. ASSUME NEW t \in Tasks, Import(t)
        PROVE  \/ imported' = imported
               \/ \E n \in Natives : imported' = imported \union {n} /\ cache[n].native
    <2>1. Statement(t).name \in Natives
      BY <1>1, NamesNative DEF Import, Running
    <2> QED
      BY <1>1, <2>1 DEF Import
  <1>2. ASSUME NEW t \in Tasks, LoadImported(t)
        PROVE  \/ imported' = imported
               \/ \E n \in Natives : imported' = imported \union {n} /\ loaded'[n] # 0
    <2>1. stage[t] = "load" /\ Top(t).rest # <<>> /\ Statement(t).op = "import"
      BY <1>2 DEF LoadImported, Stacks, AtImport
    <2>2. Statement(t).name \in Natives
      BY <2>1, NamesNative
    <2>3. Load(Statement(t).name)
      BY <1>2 DEF LoadImported
    <2>4. loaded'[Statement(t).name] = LoadedBuild(Statement(t).name)
      BY <2>2, <2>3, LoadTyped, ModulesAssumption
    <2>5. imported' = imported \/ (LoadedBuild(Statement(t).name) # 0
                                   /\ imported' = imported \union {Statement(t).name})
      BY <1>2 DEF LoadImported
    <2> QED
      BY <2>2, <2>4, <2>5
  <1>3. (\E t \in Tasks : Import(t) \/ LoadImported(t)) \/ imported' = imported
    BY DEF Next, vars, BootNative, BootPure, Change, Submit, Return, Block, Work, Module, Def, UseFile,
           UseNative, HotReload, Rejected, Verified, CallNative, Call
  <1> QED
    BY <1>1, <1>2, <1>3

\* What a hot reload leaves.
LEMMA ReloadTyped ==
  ASSUME ModulesAssumption, Data, NEW n \in Natives, Reload(n)
  PROVE  /\ loaded' \in [Natives -> 0 .. MaxBuild]
         /\ \A m \in Natives : loaded'[m] # 0 => loaded'[m] \in Loadable
         /\ \A m \in Natives : m # n => loaded'[m] = loaded[m]
         /\ loaded'[n] # 0 => loaded'[n] = disk[n]
         /\ loaded'[n] # 0 \/ n \in failed'
         /\ failed \subseteq failed' /\ failed' \subseteq Natives
         /\ reloaded' = reloaded \union {n}
  <1> DEFINE b == IF disk[n] \in Loadable THEN disk[n] ELSE 0
  <1>1. /\ b \in 0 .. MaxBuild /\ (b # 0 => b \in Loadable /\ b = disk[n])
        /\ b = 0 => disk[n] \notin Loadable
    BY ModulesAssumption DEF Data
  <1>2. loaded' = [loaded EXCEPT ![n] = b]
    BY DEF Reload
  <1>3. failed' = IF disk[n] \in Loadable THEN failed ELSE failed \union {n}
    BY DEF Reload
  <1> HIDE DEF b
  <1>4. loaded' \in [Natives -> 0 .. MaxBuild] /\ \A m \in Natives : loaded'[m] = IF m = n THEN b ELSE loaded[m]
    BY <1>1, <1>2 DEF Data
  <1> QED
    BY <1>1, <1>3, <1>4 DEF Data, Reload

\* The packages stay typed.
LEMMA DataNext ==
  ASSUME Stacks, Data, [Next]_vars
  PROVE  Data'
  <1>1. booting' \in 0 .. Len(Libraries) + 1
    <2>1. Len(Libraries) \in Nat /\ DOMAIN Libraries = 1 .. Len(Libraries)
      BY ModulesAssumption
    <2>2. booting' = booting \/ booting' = 0 \/ (booting \in DOMAIN Libraries /\ booting' = booting + 1)
      BY DEF Next, vars, BootNative, BootPure, Change, Submit, Return, Block, Work, Module, Def, UseFile,
             UseNative, HotReload, Import, Rejected, Verified, LoadImported, CallNative, Call
    <2> QED
      BY <2>1, <2>2 DEF Data
  <1>2. disk' \in [Natives -> 0 .. MaxBuild] /\ changed' \subseteq Natives
    BY DiskSteps DEF Data
  <1>3. cache' \in [Natives -> Packages \union {NoPackage}]
    <2>1. [build |-> 0, from |-> "trusted", native |-> TRUE] \in Packages
      BY ModulesAssumption DEF Packages
    <2> QED
      BY <2>1, CacheSteps DEF Data
  <1>4. /\ loaded' \in [Natives -> 0 .. MaxBuild]
        /\ \A m \in Natives : loaded'[m] # 0 => loaded'[m] \in Loadable
        /\ reloaded' \union failed' \subseteq Natives
    <2>1. CASE UNCHANGED <<loaded, failed, reloaded>>
      BY <2>1 DEF Data
    <2>2. ASSUME NEW n \in Natives, Load(n), reloaded' = reloaded
          PROVE  /\ loaded' \in [Natives -> 0 .. MaxBuild]
                 /\ \A m \in Natives : loaded'[m] # 0 => loaded'[m] \in Loadable
                 /\ reloaded' \union failed' \subseteq Natives
      BY <2>2, LoadTyped, ModulesAssumption DEF Data
    <2>3. ASSUME NEW n \in Natives, Reload(n)
          PROVE  /\ loaded' \in [Natives -> 0 .. MaxBuild]
                 /\ \A m \in Natives : loaded'[m] # 0 => loaded'[m] \in Loadable
                 /\ reloaded' \union failed' \subseteq Natives
      BY <2>3, ReloadTyped, ModulesAssumption DEF Data
    <2> QED
      BY <2>1, <2>2, <2>3, LoaderSteps
  <1>5. imported' \subseteq Natives
    BY ImportSteps DEF Data
  <1> QED
    BY <1>1, <1>2, <1>3, <1>4, <1>5 DEF Data

\* The inductive step of the stacks.
LEMMA StackNext == StackInv /\ [Next]_vars => StackInv'
  <1> SUFFICES ASSUME StackInv, [Next]_vars PROVE StackInv'
    OBVIOUS
  <1>1. Stacks /\ Functions /\ Data
    BY StackParts
  <1>2. Stacks' /\ Functions' /\ Data'
    BY <1>1, StacksNext, FunctionsNext, DataNext
  <1> QED
    BY <1>2 DEF StackInv, TypeOK, Stacks, Functions, Data

-----------------------------------------------------------------------------
(* Packages on their way to the loader *)

\* A task goes to wait for the loader by Verified, and stops by LoadImported.
LEMMA LoadStages ==
  ASSUME Stacks, [Next]_vars, NEW t \in Tasks
  PROVE  /\ stage'[t] = "load" => (stage[t] = "load" \/ Verified(t)) /\ stack'[t] = stack[t]
         /\ stage[t] = "load" => LoadImported(t) \/ (stage'[t] = "load" /\ stack'[t] = stack[t])
  <1> DEFINE Goal == /\ stage'[t] = "load" => (stage[t] = "load" \/ Verified(t)) /\ stack'[t] = stack[t]
                     /\ stage[t] = "load" => LoadImported(t) \/ (stage'[t] = "load" /\ stack'[t] = stack[t])
  <1> SUFFICES Goal
    OBVIOUS
  <1>1. CASE stack' = stack /\ stage' = stage
    BY <1>1
  <1>2. ASSUME NEW u \in Tasks, NEW r, Continue(u, r), u = t => stage[t] # "load" \/ LoadImported(t)
        PROVE  Goal
    <2>1. \A v \in Tasks : /\ stack'[v] = IF v = u THEN r ELSE stack[v]
                           /\ v # u => stage'[v] = stage[v]
                           /\ v = u => stage'[v] \in {"run", "end"}
      BY <1>2 DEF Continue, Stacks
    <2> QED
      BY <1>2, <2>1
  <1>3. ASSUME NEW u \in Tasks,
               Return(u) \/ Block(u) \/ Work(u) \/ Module(u) \/ Def(u) \/ UseFile(u) \/ UseNative(u) \/ HotReload(u)
               \/ Rejected(u) \/ LoadImported(u) \/ CallNative(u) \/ Call(u)
        PROVE  Goal
    <2>1. \E r : Continue(u, r)
      BY <1>3 DEF Return, Block, Work, Module, Def, UseFile, UseNative, HotReload, Rejected, LoadImported,
                  CallNative, Call
    <2>2. stage[u] # "load" \/ LoadImported(u)
      BY <1>3 DEF Running, Return, Block, Work, Module, Def, UseFile, UseNative, HotReload, Rejected,
                  CallNative, Call
    <2> QED
      BY <1>2, <2>1, <2>2
  <1>4. ASSUME NEW u \in Tasks, Submit(u) PROVE Goal
    <2>1. stage[u] = "new"
      BY <1>4 DEF Submit
    <2>2. \E r, g : stack' = [stack EXCEPT ![u] = r] /\ stage' = [stage EXCEPT ![u] = g] /\ g \in {"run", "end"}
      BY <1>4 DEF Submit
    <2> QED
      BY <2>1, <2>2 DEF Stacks
  <1>5. ASSUME NEW u \in Tasks, Import(u) PROVE Goal
    <2>1. stage[u] = "run"
      BY <1>5 DEF Import, Running
    <2>2. (\E r : Continue(u, r)) \/ (stage' = [stage EXCEPT ![u] = "fetch"] /\ stack' = stack)
      BY <1>5 DEF Import
    <2>3. CASE stage' = [stage EXCEPT ![u] = "fetch"] /\ stack' = stack
      BY <2>1, <2>3 DEF Stacks
    <2> QED
      BY <1>2, <2>1, <2>2, <2>3
  <1>6. ASSUME NEW u \in Tasks, Verified(u) PROVE Goal
    <2>1. stage[u] = "fetch"
      BY <1>6 DEF Verified
    <2>2. (\E r : Continue(u, r)) \/ (stage' = [stage EXCEPT ![u] = "load"] /\ stack' = stack)
      BY <1>6 DEF Verified
    <2>3. CASE stage' = [stage EXCEPT ![u] = "load"] /\ stack' = stack
      BY <1>6, <2>1, <2>3 DEF Stacks
    <2> QED
      BY <1>2, <2>1, <2>2, <2>3
  <1>7. \/ stack' = stack /\ stage' = stage
        \/ \E u \in Tasks :
             \/ Submit(u) \/ Import(u) \/ Verified(u)
             \/ Return(u) \/ Block(u) \/ Work(u) \/ Module(u) \/ Def(u) \/ UseFile(u) \/ UseNative(u) \/ HotReload(u)
                \/ Rejected(u) \/ LoadImported(u) \/ CallNative(u) \/ Call(u)
    BY DEF Next, vars, BootNative, BootPure, Change
  <1> HIDE DEF Goal
  <1> QED
    BY <1>1, <1>3, <1>4, <1>5, <1>6, <1>7

\* Nothing that is in the cache leaves it.
LEMMA CacheKept ==
  ASSUME Stacks, Data, [Next]_vars, NEW n \in Natives, cache[n] # NoPackage
  PROVE  cache'[n] # NoPackage
  <1>1. [build |-> 0, from |-> "trusted", native |-> TRUE] # NoPackage
    BY DEF NoPackage
  <1>2. \A p \in Packages : p # NoPackage
    BY DEF Packages, NoPackage
  <1> DEFINE trusted == [build |-> 0, from |-> "trusted", native |-> TRUE]
  <1>3. \/ cache' = cache
        \/ \E m \in Natives : cache' = [cache EXCEPT ![m] = trusted]
        \/ \E m \in Natives, p \in Packages : cache' = [cache EXCEPT ![m] = p]
    BY CacheSteps
  <1> HIDE DEF trusted
  <1>4. trusted # NoPackage
    BY <1>1 DEF trusted
  <1> QED
    BY <1>2, <1>3, <1>4 DEF Data

\* Verified caches what its task is going to load.
LEMMA CachedNext ==
  ASSUME Stacks, Data, Cached, [Next]_vars
  PROVE  Cached'
  <1> SUFFICES ASSUME NEW t \in Tasks, stage'[t] = "load"
               PROVE  cache'[Statement(t)'.name] # NoPackage
    BY DEF Cached
  <1>1. (stage[t] = "load" \/ Verified(t)) /\ stack'[t] = stack[t]
    BY LoadStages
  <1>2. Statement(t)' = Statement(t)
    BY <1>1 DEF Statement, Top
  <1>3. stage[t] \in {"fetch", "load"}
    BY <1>1 DEF Verified
  <1>4. Statement(t).name \in Natives
    BY <1>3, NamesNative DEF Stacks, AtImport
  <1>5. CASE stage[t] = "load"
    BY <1>2, <1>4, <1>5, CacheKept DEF Cached
  <1>6. CASE Verified(t)
    <2>1. PICK p \in Fetched(Statement(t).name, Statement(t).from) :
            cache' = [cache EXCEPT ![Statement(t).name] = p]
      BY <1>6 DEF Verified
    <2>2. p.from \in {"file", "registry"}
      BY <2>1 DEF Fetched
    <2>3. p # NoPackage
      BY <2>2 DEF NoPackage
    <2> QED
      BY <1>2, <1>4, <2>1, <2>3 DEF Data
  <1> QED
    BY <1>1, <1>5, <1>6

\* A load ends with the package in the loader or with a failure.
LEMMA LoadReady ==
  ASSUME Data, NEW n \in Natives, Load(n)
  PROVE  loaded'[n] # 0 \/ n \in failed'
  <1>1. loaded'[n] = LoadedBuild(n)
    BY LoadTyped, ModulesAssumption
  <1> QED
    BY <1>1 DEF Load

\* A package that is ready stays so.
LEMMA StaysReady ==
  ASSUME Stacks, Data, [Next]_vars, NEW n \in Natives, Ready(n)
  PROVE  Ready(n)'
  <1>1. failed \subseteq failed' /\ (loaded[n] # 0 => loaded'[n] # 0 \/ n \in failed')
    <2>1. CASE UNCHANGED <<loaded, failed, reloaded>>
      BY <2>1
    <2>2. ASSUME NEW m \in Natives, Load(m)
          PROVE  failed \subseteq failed' /\ (loaded[n] # 0 => loaded'[n] # 0 \/ n \in failed')
      BY <2>2, LoadTyped, ModulesAssumption, LoadReady
    <2>3. ASSUME NEW m \in Natives, Reload(m)
          PROVE  failed \subseteq failed' /\ (loaded[n] # 0 => loaded'[n] # 0 \/ n \in failed')
      BY <2>3, ReloadTyped, ModulesAssumption
    <2> QED
      BY <2>1, <2>2, <2>3, LoaderSteps
  <1>2. CASE loaded[n] # 0 \/ n \in failed
    BY <1>1, <1>2 DEF Ready
  <1>3. ASSUME NEW t \in Tasks, stage[t] = "load", Statement(t).name = n
        PROVE  Ready(n)'
    <2>1. CASE LoadImported(t)
      <3>1. Load(n)
        BY <1>3, <2>1 DEF LoadImported
      <3> QED
        BY <3>1, LoadReady DEF Ready
    <2>2. CASE stage'[t] = "load" /\ stack'[t] = stack[t]
      BY <1>3, <2>2 DEF Ready, Statement, Top
    <2> QED
      BY <1>3, <2>1, <2>2, LoadStages
  <1> QED
    BY <1>2, <1>3 DEF Ready

\* A native package that enters the cache is loaded or waits for it.
LEMMA NativesNext ==
  ASSUME Stacks, Data, NativesLoad, [Next]_vars
  PROVE  NativesLoad'
  <1> SUFFICES ASSUME NEW n \in Natives, cache'[n].native PROVE Ready(n)'
    BY DEF NativesLoad
  <1>1. CASE cache'[n] = cache[n]
    BY <1>1, StaysReady DEF NativesLoad
  <1>2. ASSUME NEW m \in Natives, cache' = [cache EXCEPT ![m] = [build |-> 0, from |-> "trusted", native |-> TRUE]],
               Load(m), cache'[n] # cache[n]
        PROVE  Ready(n)'
    <2>1. n = m
      BY <1>2 DEF Data
    <2> QED
      BY <1>2, <2>1, LoadReady DEF Ready
  <1>3. ASSUME NEW t \in Tasks, NEW p \in Packages, NEW m \in Natives, m = Statement(t).name, stage[t] = "fetch",
               cache' = [cache EXCEPT ![m] = p], cache'[n] # cache[n],
               p.native => stage' = [stage EXCEPT ![t] = "load"] /\ stack' = stack
        PROVE  Ready(n)'
    <2>1. n = m /\ cache'[n] = p
      BY <1>3 DEF Data
    <2>2. stage'[t] = "load" /\ stack' = stack
      BY <1>3, <2>1 DEF Stacks
    <2> QED
      BY <1>3, <2>1, <2>2 DEF Ready, Statement, Top
  <1> QED
    BY <1>1, <1>2, <1>3, CacheSteps

\* An import that succeeds has loaded the package, or found it in the cache.
LEMMA ImportsNext ==
  ASSUME Stacks, Data, NativesLoad, ImportsLoad, [Next]_vars
  PROVE  ImportsLoad'
  <1>1. ASSUME NEW n \in Natives, n \in imported \/ cache[n].native PROVE Ready(n)'
    <2>1. Ready(n)
      BY <1>1 DEF NativesLoad, ImportsLoad, Ready
    <2> QED
      BY <2>1, StaysReady
  <1>2. ASSUME NEW n \in imported' PROVE Ready(n)'
    <2>1. n \in Natives
      BY DataNext DEF Data
    <2>2. CASE loaded'[n] # 0
      BY <2>2 DEF Ready
    <2> QED
      BY <1>1, <2>1, <2>2, ImportSteps
  <1> QED
    BY <1>2 DEF ImportsLoad, Ready

\* What a load or a reload leaves comes from the disk or was there.
LEMMA FileBuildsNext ==
  ASSUME Stacks, Data, FileBuilds, [Next]_vars
  PROVE  FileBuilds'
  <1> SUFFICES ASSUME NEW n \in Natives, n \notin changed'
               PROVE  /\ cache'[n].from = "file" => cache'[n].build = disk'[n]
                      /\ loaded'[n] # 0 => loaded'[n] = disk'[n]
    BY DEF FileBuilds
  <1>1. n \notin changed /\ disk'[n] = disk[n]
    BY DiskSteps DEF Data
  <1>2. /\ cache[n].from = "file" => cache[n].build = disk[n]
        /\ loaded[n] # 0 => loaded[n] = disk[n]
    BY <1>1 DEF FileBuilds
  <1>3. cache'[n].from = "file" => cache'[n].build = disk[n]
    <2> DEFINE trusted == [build |-> 0, from |-> "trusted", native |-> TRUE]
    <2>1. \/ cache' = cache
          \/ \E m \in Natives : cache' = [cache EXCEPT ![m] = trusted]
          \/ \E m \in Natives, p \in Packages : /\ cache' = [cache EXCEPT ![m] = p]
                                                /\ p.from = "file" => p.build = disk[m]
      BY CacheSteps
    <2>2. trusted.from # "file"
      OBVIOUS
    <2> HIDE DEF trusted
    <2> QED
      BY <1>2, <2>1, <2>2 DEF Data
  <1>4. loaded'[n] # 0 => loaded'[n] = disk[n]
    <2>1. CASE UNCHANGED <<loaded, failed, reloaded>>
      BY <1>2, <2>1
    <2>2. ASSUME NEW m \in Natives, Load(m) PROVE loaded'[n] # 0 => loaded'[n] = disk[n]
      <3>1. loaded'[n] = IF n = m THEN LoadedBuild(n) ELSE loaded[n]
        BY <2>2, LoadTyped, ModulesAssumption
      <3> QED
        BY <1>2, <3>1 DEF LoadedBuild
    <2>3. ASSUME NEW m \in Natives, Reload(m) PROVE loaded'[n] # 0 => loaded'[n] = disk[n]
      BY <1>2, <2>3, ReloadTyped, ModulesAssumption
    <2> QED
      BY <2>1, <2>2, <2>3, LoaderSteps
  <1> QED
    BY <1>1, <1>3, <1>4

\* Only a hot reload loads what the cache has not.
LEMMA LoadedCachedNext ==
  ASSUME Stacks, Data, Cached, LoadedCached, [Next]_vars
  PROVE  LoadedCached'
  <1> SUFFICES ASSUME NEW n \in Natives, n \notin reloaded', loaded'[n] # 0, cache'[n] = NoPackage
               PROVE  FALSE
    BY DEF LoadedCached
  <1>1. cache[n] = NoPackage
    BY CacheKept
  <1>2. n \in reloaded \/ loaded[n] = 0
    BY <1>1 DEF LoadedCached
  <1>3. CASE UNCHANGED <<loaded, failed, reloaded>>
    BY <1>2, <1>3
  <1>4. ASSUME NEW m \in Natives, Load(m), reloaded' = reloaded,
               \/ cache' = [cache EXCEPT ![m] = [build |-> 0, from |-> "trusted", native |-> TRUE]]
               \/ cache' = cache /\ cache[m] # NoPackage
               \/ cache' = cache /\ \E t \in Tasks : stage[t] = "load" /\ m = Statement(t).name
        PROVE  FALSE
    <2>1. loaded'[n] = IF n = m THEN LoadedBuild(n) ELSE loaded[n]
      BY <1>4, LoadTyped, ModulesAssumption
    <2>2. n = m
      BY <1>2, <1>4, <2>1
    <2>3. [build |-> 0, from |-> "trusted", native |-> TRUE] # NoPackage
      BY DEF NoPackage
    <2>4. cache' # [cache EXCEPT ![m] = [build |-> 0, from |-> "trusted", native |-> TRUE]]
      BY <2>2, <2>3 DEF Data
    <2> QED
      BY <1>1, <1>4, <2>2, <2>4 DEF Cached
  <1>5. ASSUME NEW m \in Natives, Reload(m) PROVE FALSE
    BY <1>2, <1>5, ReloadTyped, ModulesAssumption
  <1> QED
    BY <1>3, <1>4, <1>5, LoaderSteps

\* The inductive step of the packages.
LEMMA PackageNext == PackageInv /\ [Next]_vars => PackageInv'
  <1> SUFFICES ASSUME PackageInv, [Next]_vars PROVE PackageInv'
    OBVIOUS
  <1>1. Stacks /\ Functions /\ Data
    BY StackParts DEF PackageInv
  <1>2. StackInv'
    BY StackNext DEF PackageInv
  <1> QED
    BY <1>1, <1>2, CachedNext, FileBuildsNext, LoadedCachedNext, NativesNext, ImportsNext DEF PackageInv

\* Nothing is cached, loaded or imported at first.
LEMMA InitPackages == Init => PackageInv
  <1> SUFFICES ASSUME Init PROVE PackageInv
    OBVIOUS
  <1>1. StackInv
    BY InitStacks, StackParts
  <1>2. \A n \in Natives : loaded[n] = 0 /\ cache[n] = NoPackage
    BY DEF Init
  <1>3. NoPackage.from # "file" /\ ~NoPackage.native
    BY DEF NoPackage
  <1>4. (\A t \in Tasks : stage[t] = "new") /\ imported = {}
    BY DEF Init
  <1> QED
    BY <1>1, <1>2, <1>3, <1>4 DEF PackageInv, Cached, FileBuilds, LoadedCached, NativesLoad, ImportsLoad

-----------------------------------------------------------------------------
(* One namespace per file *)

\* What is left of a program stands where R has it.
Standing(s, R) ==
    \A i \in DOMAIN s :
        (\A j \in 1 .. i : s[j].kind \notin {"call", "file"}) =>
            \A k \in DOMAIN s[i].rest : <<s[i].rest[k], s[i].mod>> \in R

\* R has the bodies of its modules and blocks.
Bodies(R) ==
    \A r \in R :
        r[1].op \in {"module", "block"} =>
            \A i \in DOMAIN r[1].body :
                <<r[1].body[i], IF r[1].op = "module" THEN r[1].ns ELSE r[2]>> \in R

\* What task t has defined in its program is of R.
DefinedIn(t, R) ==
    \A f \in DOMAIN funcs :
        funcs[f].placed /\ funcs[f].by = t =>
            \E r \in R : r[1].op = "def" /\ r[1].key = f[2] /\ r[2] = f[1]

HomesInv(places) ==
    /\ \A f \in DOMAIN funcs : funcs[f].placed => funcs[f].by \in Linked
    /\ \A t \in Linked :
         IF stage[t] = "new" THEN DefinedIn(t, {})
         ELSE \E p \in Programs[t] : Standing(stack[t], places[p]) /\ DefinedIn(t, places[p])

\* Cutting a stack and advancing in it leaves the rest where it stands.
LEMMA WithinStanding ==
  ASSUME NEW r \in Seq(Frames), NEW s \in Seq(Frames), Within(s, r), NEW R, Standing(r, R)
  PROVE  Standing(s, R)
  <1>1. ASSUME NEW i \in DOMAIN s
        PROVE  /\ i \in DOMAIN r /\ s[i].kind = r[i].kind /\ s[i].mod = r[i].mod
               /\ Fewer(s[i].rest, r[i].rest)
    <2>1. i \in DOMAIN r /\ r[i] \in Frames
      BY DEF Within
    <2>2. PICK rest \in Seq(Statements) : Fewer(rest, r[i].rest) /\ s[i] = [r[i] EXCEPT !.rest = rest]
      BY DEF Within
    <2> QED
      BY <2>1, <2>2 DEF Frames
  <1> SUFFICES ASSUME NEW i \in DOMAIN s, \A j \in 1 .. i : s[j].kind \notin {"call", "file"},
                      NEW k \in DOMAIN s[i].rest
               PROVE  <<s[i].rest[k], s[i].mod>> \in R
    BY DEF Standing
  <1>2. \A j \in 1 .. i : j \in DOMAIN s
    OBVIOUS
  <1>3. \A j \in 1 .. i : r[j].kind \notin {"call", "file"}
    BY <1>1, <1>2
  <1>4. PICK l \in DOMAIN r[i].rest : s[i].rest[k] = r[i].rest[l]
    BY <1>1 DEF Fewer
  <1> QED
    BY <1>1, <1>3, <1>4 DEF Standing

\* A frame is put on a stack.
LEMMA PushStanding ==
  ASSUME NEW r \in Seq(Frames), NEW f, NEW R, Standing(r, R),
         InProgram(r) /\ f.kind \notin {"call", "file"} =>
            \A k \in DOMAIN f.rest : <<f.rest[k], f.mod>> \in R
  PROVE  Standing(Append(r, f), R)
  <1> DEFINE n == Len(r)
             s == Append(r, f)
  <1>1. n \in Nat /\ DOMAIN s = 1 .. n + 1 /\ s[n + 1] = f /\ \A i \in 1 .. n : s[i] = r[i]
    OBVIOUS
  <1>2. DOMAIN r = 1 .. n
    OBVIOUS
  <1> SUFFICES ASSUME NEW i \in 1 .. n + 1, \A j \in 1 .. i : s[j].kind \notin {"call", "file"},
                      NEW k \in DOMAIN s[i].rest
               PROVE  <<s[i].rest[k], s[i].mod>> \in R
    BY <1>1 DEF Standing
  <1> HIDE DEF n, s
  <1>3. CASE i = n + 1
    <2>1. \A j \in 1 .. n : j \in 1 .. i /\ r[j].kind \notin {"call", "file"}
      BY <1>1, <1>3
    <2>2. f.kind \notin {"call", "file"}
      BY <1>1, <1>3
    <2>3. InProgram(r)
      BY <1>2, <2>1 DEF InProgram
    <2> QED
      BY <1>1, <1>3, <2>2, <2>3
  <1>4. CASE i \in 1 .. n
    <2>1. \A j \in 1 .. i : j \in 1 .. n /\ r[j].kind \notin {"call", "file"}
      BY <1>1, <1>4
    <2> QED
      BY <1>1, <1>2, <1>4, <2>1 DEF Standing
  <1> QED
    BY <1>1, <1>3, <1>4

\* What a statement may make of the stack of its task, and the statement itself.
LEMMA StatementStanding ==
  ASSUME Stacks, NEW t \in Tasks, stage[t] \notin {"new", "end"}, Top(t).rest # <<>>,
         NEW R, Standing(stack[t], R)
  PROVE  /\ Standing(Advanced(t), R) /\ Standing(Unwound(Advanced(t)), R)
         /\ Standing(Returned(Advanced(t)), R) /\ Standing(Returned(stack[t]), R)
         /\ InProgram(stack[t]) <=> InProgram(Advanced(t))
         /\ InProgram(stack[t]) => <<Statement(t), Current(t)>> \in R
  <1>1. stack[t] \in Seq(Frames) /\ stack[t] # <<>> /\ Grounded(stack[t])
    BY DEF Stacks, Sound
  <1>2. /\ Top(t) \in Frames /\ Statement(t) \in Statements
        /\ Advanced(t) \in Seq(Frames) /\ Len(Advanced(t)) = Len(stack[t])
        /\ Within(Advanced(t), stack[t])
    BY <1>1, AdvancedWithin DEF Stacks
  <1>3. Standing(Advanced(t), R)
    BY <1>1, <1>2, WithinStanding
  <1>4. Sound(Advanced(t)) /\ Advanced(t) # <<>>
    BY StatementSound
  <1>5. Standing(Unwound(Advanced(t)), R)
    BY <1>2, <1>3, UnwoundWithin, WithinStanding
  <1>6. Standing(Returned(Advanced(t)), R) /\ Standing(Returned(stack[t]), R)
    BY <1>1, <1>2, <1>3, <1>4, ReturnedWithin, WithinStanding DEF Sound
  <1>7. InProgram(stack[t]) <=> InProgram(Advanced(t))
    <2>1. \A i \in DOMAIN Advanced(t) : i \in DOMAIN stack[t] /\ Advanced(t)[i].kind = stack[t][i].kind
      <3> TAKE i \in DOMAIN Advanced(t)
      <3>1. i \in DOMAIN stack[t] /\ stack[t][i] \in Frames
        BY <1>1, <1>2
      <3>2. PICK rest \in Seq(Statements) : Advanced(t)[i] = [stack[t][i] EXCEPT !.rest = rest]
        BY <1>2 DEF Within
      <3> QED
        BY <3>1, <3>2 DEF Frames
    <2>2. DOMAIN Advanced(t) = DOMAIN stack[t]
      BY <1>1, <1>2
    <2> QED
      BY <2>1, <2>2 DEF InProgram
  <1>8. InProgram(stack[t]) => <<Statement(t), Current(t)>> \in R
    <2> HAVE InProgram(stack[t])
    <2> DEFINE s == stack[t]
               n == Len(s)
    <2>1. n \in Nat \ {0} /\ n \in DOMAIN s /\ DOMAIN s = 1 .. n /\ Top(t) = s[n]
      BY <1>1 DEF Top, Last
    <2>2. \A j \in 1 .. n : s[j].kind \notin {"call", "file"}
      BY <2>1 DEF InProgram
    <2>3. Top(t).rest \in Seq(Statements)
      BY <1>2 DEF Frames
    <2>4. 1 \in DOMAIN Top(t).rest /\ Statement(t) = Top(t).rest[1]
      BY <2>3 DEF Statement
    <2> QED
      BY <2>1, <2>2, <2>4 DEF Standing, Current
  <1> QED
    BY <1>3, <1>5, <1>6, <1>7, <1>8

\* A statement that its task executes leaves the rest of the program where it stands.
LEMMA StandingNext ==
  ASSUME Stacks, NEW t \in Tasks, NEW R, Bodies(R), Standing(stack[t], R), stage[t] # "new",
         \/ Return(t) \/ Block(t) \/ Work(t) \/ Module(t) \/ Def(t)
         \/ UseFile(t) \/ UseNative(t) \/ HotReload(t)
         \/ Import(t) \/ Rejected(t) \/ Verified(t) \/ LoadImported(t)
         \/ CallNative(t) \/ Call(t)
  PROVE  Standing(stack'[t], R)
  <1> DEFINE s == Statement(t)
             a == Advanced(t)
             Cuts == {a, Unwound(a), Returned(a), Returned(stack[t])}
  <1>1. ASSUME NEW r, Continue(t, r) PROVE stack'[t] = r
    BY <1>1 DEF Continue, Stacks
  <1>2. Running(t) => stage[t] \notin {"new", "end"} /\ Top(t).rest # <<>>
    BY DEF Running
  <1>3. stage[t] \in {"fetch", "load"} => Top(t).rest # <<>>
    BY DEF Stacks, AtImport
  <1>4. ASSUME stage[t] \notin {"new", "end"}, Top(t).rest # <<>>
        PROVE  /\ \A r \in Cuts : Standing(r, R)
               /\ InProgram(a) => <<s, Current(t)>> \in R
               /\ a \in Seq(Frames) /\ Current(t) \in Names /\ s \in Statements
    <2>1. a \in Seq(Frames)
      BY <1>4, StatementSound DEF Sound
    <2> QED
      BY <1>4, <2>1, StatementStanding, StatementSound
  <1>5. ASSUME NEW r \in Cuts, Continue(t, r), stage[t] \notin {"new", "end"}, Top(t).rest # <<>>
        PROVE  Standing(stack'[t], R)
    BY <1>1, <1>4, <1>5
  <1>6. CASE Return(t)
    <2>1. stack[t] \in Seq(Frames) /\ stack[t] # <<>> /\ Continue(t, Front(stack[t]))
      BY <1>6 DEF Return, Stacks
    <2>2. Len(stack[t]) - 1 \in 0 .. Len(stack[t])
      BY <2>1
    <2>3. Front(stack[t]) \in Seq(Frames) /\ Within(Front(stack[t]), stack[t])
      BY <2>1, <2>2, PrefixWithin DEF Front
    <2>4. Standing(Front(stack[t]), R)
      BY <2>1, <2>3, WithinStanding
    <2> QED
      BY <1>1, <2>1, <2>4
  <1>7. ASSUME NEW kind \in {"module", "file", "block"}, NEW body \in Seq(Statements), NEW ns \in Names,
               Running(t), Continue(t, Append(a, Frame(kind, body, ns))),
               InProgram(a) /\ kind # "file" => \A k \in DOMAIN body : <<body[k], ns>> \in R
        PROVE  Standing(stack'[t], R)
    <2> DEFINE f == Frame(kind, body, ns)
    <2>1. f \in Frames /\ f.kind = kind /\ f.mod = ns /\ f.rest = body
      BY PushedFrames, ModulesAssumption DEF Frame
    <2>2. Standing(a, R) /\ a \in Seq(Frames)
      BY <1>2, <1>4, <1>7
    <2> HIDE DEF f, a
    <2>3. Standing(Append(a, f), R)
      BY <1>7, <2>1, <2>2, PushStanding
    <2> QED
      BY <1>1, <1>7, <2>3 DEF f
  <1>8. CASE Block(t)
    <2>1. Running(t) /\ s.op = "block" /\ Continue(t, Append(a, Frame("block", s.body, Current(t))))
      BY <1>8 DEF Block
    <2>2. s.body \in Seq(Statements) /\ Current(t) \in Names
      BY <1>2, <1>4, <2>1, ModulesAssumption
    <2>3. InProgram(a) => \A k \in DOMAIN s.body : <<s.body[k], Current(t)>> \in R
      <3> HAVE InProgram(a)
      <3> DEFINE r == <<s, Current(t)>>
      <3>1. r \in R /\ r[1] = s /\ r[2] = Current(t)
        BY <1>2, <1>4, <2>1
      <3> HIDE DEF r
      <3> QED
        BY <2>1, <3>1 DEF Bodies
    <2> QED
      BY <1>7, <2>1, <2>2, <2>3
  <1>9. CASE Module(t)
    <2>1. Running(t) /\ s.op = "module" /\ Continue(t, Append(a, Frame("module", s.body, s.ns)))
      BY <1>9 DEF Module
    <2>2. s.body \in Seq(Statements) /\ s.ns \in Names
      BY <1>2, <1>4, <2>1, ModulesAssumption
    <2>3. InProgram(a) => \A k \in DOMAIN s.body : <<s.body[k], s.ns>> \in R
      <3> HAVE InProgram(a)
      <3> DEFINE r == <<s, Current(t)>>
      <3>1. r \in R /\ r[1] = s
        BY <1>2, <1>4, <2>1
      <3> HIDE DEF r
      <3> QED
        BY <2>1, <3>1 DEF Bodies
    <2> QED
      BY <1>7, <2>1, <2>2, <2>3
  <1>10. CASE UseFile(t)
    <2>1. Running(t)
      BY <1>10 DEF UseFile
    <2>2. CASE s.path \in DOMAIN Files
      <3>1. Continue(t, Append(a, Frame("file", Files[s.path], Current(t))))
        BY <1>10, <2>2 DEF UseFile
      <3>2. Files[s.path] \in Seq(Statements) /\ Current(t) \in Names
        BY <1>2, <1>4, <2>1, <2>2, ModulesAssumption
      <3> QED
        BY <1>7, <2>1, <3>1, <3>2
    <2>3. CASE s.path \notin DOMAIN Files
      BY <1>2, <1>5, <1>10, <2>1, <2>3 DEF UseFile
    <2> QED
      BY <2>2, <2>3
  <1>11. CASE Call(t)
    <2> DEFINE home == Home(s, Current(t))
               f == <<home, s.key>>
               c == CallFrame(funcs[f], Current(t), s, f[1])
    <2>1. Running(t)
      BY <1>11 DEF Call
    <2>2. Continue(t, a) \/ Continue(t, Unwound(a)) \/ Continue(t, Append(a, c))
      BY <1>11 DEF Call
    <2>3. CASE Continue(t, Append(a, c))
      <3>1. stack'[t] = Append(a, c) /\ a \in Seq(Frames) /\ Standing(a, R)
        BY <1>1, <1>2, <1>4, <2>1, <2>3
      <3>2. c.kind = "call"
        BY DEF CallFrame
      <3> HIDE DEF c, a
      <3> QED
        BY <3>1, <3>2, PushStanding
    <2> QED
      BY <1>2, <1>5, <2>1, <2>2, <2>3
  <1>12. CASE Work(t) \/ Def(t) \/ UseNative(t) \/ HotReload(t) \/ CallNative(t)
    <2>1. Running(t) /\ (Continue(t, a) \/ Continue(t, Unwound(a)))
      BY <1>12 DEF Work, Def, UseNative, HotReload, CallNative
    <2> QED
      BY <1>2, <1>5, <2>1
  <1>13. CASE Import(t)
    <2>1. Running(t) /\ (stack' = stack \/ Continue(t, Returned(stack[t])))
      BY <1>13 DEF Import
    <2> QED
      BY <1>2, <1>5, <2>1
  <1>14. CASE Rejected(t) \/ Verified(t) \/ LoadImported(t)
    <2>1. /\ stage[t] \in {"fetch", "load"}
          /\ stack' = stack \/ Continue(t, Unwound(a)) \/ Continue(t, Returned(a))
      BY <1>14 DEF Rejected, Verified, LoadImported
    <2> QED
      BY <1>3, <1>5, <2>1
  <1> QED
    BY <1>6, <1>8, <1>9, <1>10, <1>11, <1>12, <1>13, <1>14

\* A task that moves leaves the stacks, stages and definitions of the others.
LEMMA OthersHomes ==
  ASSUME Stacks, Functions, NEW t \in Tasks,
         \/ Submit(t) \/ Return(t) \/ Block(t) \/ Work(t) \/ Module(t) \/ Def(t)
         \/ UseFile(t) \/ UseNative(t) \/ HotReload(t)
         \/ Import(t) \/ Rejected(t) \/ Verified(t) \/ LoadImported(t)
         \/ CallNative(t) \/ Call(t),
         NEW u \in Tasks \ {t}
  PROVE  stack'[u] = stack[u] /\ stage'[u] = stage[u]
  <1>1. ASSUME NEW s, Continue(t, s) PROVE stack'[u] = stack[u] /\ stage'[u] = stage[u]
    BY <1>1 DEF Continue, Stacks
  <1>2. CASE Submit(t)
    <2>1. PICK s, g : stack' = [stack EXCEPT ![t] = s] /\ stage' = [stage EXCEPT ![t] = g]
      BY <1>2 DEF Submit
    <2> QED
      BY <2>1 DEF Stacks
  <1>3. CASE Submit(t) \/ Import(t) \/ Verified(t)
    <2>1. CASE \E g \in {"fetch", "load"} : stage' = [stage EXCEPT ![t] = g] /\ stack' = stack
      BY <2>1 DEF Stacks
    <2>2. CASE \E s : Continue(t, s)
      BY <1>1, <2>2
    <2> QED
      BY <1>2, <1>3, <2>1, <2>2 DEF Import, Verified
  <1>4. CASE \E s : Continue(t, s)
    BY <1>1, <1>4
  <1>5. CASE Return(t) \/ Block(t) \/ Work(t) \/ Module(t) \/ Def(t)
    BY <1>4, <1>5 DEF Return, Block, Work, Module, Def
  <1>6. CASE UseFile(t) \/ UseNative(t) \/ HotReload(t) \/ Rejected(t) \/ LoadImported(t)
    BY <1>4, <1>6 DEF UseFile, UseNative, HotReload, Rejected, LoadImported
  <1>7. CASE CallNative(t) \/ Call(t)
    BY <1>4, <1>7 DEF CallNative, Call
  <1> QED
    BY <1>3, <1>5, <1>6, <1>7

\* What a definition adds, and what becomes of the others.
LEMMA DefinedNext ==
  ASSUME Stacks, [Next]_vars, NEW f \in DOMAIN funcs', funcs'[f].placed
  PROVE  \/ f \in DOMAIN funcs /\ funcs'[f] = funcs[f]
         \/ \E t \in Linked : /\ Def(t) /\ InProgram(stack[t]) /\ funcs'[f].by = t
                              /\ f = <<Current(t), Statement(t).key>>
  <1>1. CASE BootPure
    <2> DEFINE d == [pub |-> TRUE, body |-> <<>>, by |-> NoTask, placed |-> FALSE]
               ids == {<<p[1], p>> : p \in PureLibrary}
    <2>1. funcs' = [g \in ids |-> d] /\ ~d.placed
      BY <1>1 DEF BootPure
    <2> HIDE DEF d, ids
    <2> QED
      BY <2>1
  <1>2. ASSUME NEW t \in Tasks, Def(t)
        PROVE  \/ f \in DOMAIN funcs /\ funcs'[f] = funcs[f]
               \/ /\ t \in Linked /\ InProgram(stack[t]) /\ funcs'[f].by = t
                  /\ f = <<Current(t), Statement(t).key>>
    <2> DEFINE s == Statement(t)
               id == <<Current(t), s.key>>
               q == t \in Linked /\ InProgram(stack[t])
               d == [pub |-> s.pub, body |-> s.body, by |-> t, placed |-> q]
               ids == DOMAIN funcs \union {id}
    <2>1. funcs' = [g \in ids |-> IF g = id THEN d ELSE funcs[g]]
      BY <1>2 DEF Def
    <2>2. d.placed = q /\ d.by = t
      OBVIOUS
    <2>3. f \in ids /\ funcs'[f] = IF f = id THEN d ELSE funcs[f]
      <3> HIDE DEF ids, id, d
      <3> QED
        BY <2>1
    <2> HIDE DEF d
    <2> QED
      BY <2>2, <2>3
  <1>3. BootPure \/ (\E t \in Tasks : Def(t)) \/ funcs' = funcs
    BY DEF Next, vars, BootNative, Change, Submit, Return, Block, Work, Module, UseFile, UseNative, HotReload,
           Import, Rejected, Verified, LoadImported, CallNative, Call
  <1> QED
    BY <1>1, <1>2, <1>3

\* A task's program keeps to the modules that the linker gave it.
LEMMA HomesNext ==
  ASSUME NEW places, OneNamespace(places), Stacks, Functions, HomesInv(places), [Next]_vars
  PROVE  HomesInv(places)'
  <1>1. \A f \in DOMAIN funcs' : funcs'[f].placed => funcs'[f].by \in Linked
    BY DefinedNext DEF HomesInv
  <1> SUFFICES ASSUME NEW t \in Linked
               PROVE  IF stage'[t] = "new" THEN DefinedIn(t, {})'
                      ELSE \E p \in Programs[t] : Standing(stack'[t], places[p]) /\ DefinedIn(t, places[p])'
    BY <1>1 DEF HomesInv
  <1>2. t \in Tasks
    BY ModulesAssumption
  <1>3. ASSUME NEW R, DefinedIn(t, R), ~Def(t) PROVE DefinedIn(t, R)'
    <2> SUFFICES ASSUME NEW f \in DOMAIN funcs', funcs'[f].placed, funcs'[f].by = t
                 PROVE  \E r \in R : r[1].op = "def" /\ r[1].key = f[2] /\ r[2] = f[1]
      BY DEF DefinedIn
    <2>1. f \in DOMAIN funcs /\ funcs'[f] = funcs[f]
      BY <1>3, DefinedNext
    <2> QED
      BY <1>3, <2>1 DEF DefinedIn
  <1>4. CASE stack'[t] = stack[t] /\ stage'[t] = stage[t] /\ ~Def(t)
    BY <1>3, <1>4 DEF HomesInv
  <1> DEFINE Acts(u) == \/ Return(u) \/ Block(u) \/ Work(u) \/ Module(u) \/ Def(u)
                        \/ UseFile(u) \/ UseNative(u) \/ HotReload(u)
                        \/ Import(u) \/ Rejected(u) \/ Verified(u) \/ LoadImported(u)
                        \/ CallNative(u) \/ Call(u)
  <1>5. CASE Submit(t)
    <2>1. PICK p \in Programs[t] :
            LET runs == Link(p).ok
                ast == Link(p).ast IN
            stack' = [stack EXCEPT ![t] = IF runs THEN <<Frame("top", ast, Global)>> ELSE <<>>]
      BY <1>5 DEF Submit
    <2>2. stage[t] = "new" /\ ~Def(t)
      BY <1>5 DEF Submit, Def, Running
    <2>4. DefinedIn(t, places[p])'
      <3>1. DefinedIn(t, {})
        BY <2>2 DEF HomesInv
      <3>2. DefinedIn(t, places[p])
        BY <3>1 DEF DefinedIn
      <3> QED
        BY <1>3, <2>2, <3>2
    <2>5. Standing(stack'[t], places[p])
      <3> DEFINE f == Frame("top", Link(p).ast, Global)
                 s == <<f>>
                 R == places[p]
      <3>1. stack'[t] \in {s, <<>>}
        BY <1>2, <2>1 DEF Stacks
      <3>2. \A k \in DOMAIN f.rest : <<f.rest[k], f.mod>> \in R
        BY DEF OneNamespace, Frame
      <3> HIDE DEF f, R
      <3>3. DOMAIN s = {1} /\ s[1] = f
        OBVIOUS
      <3> HIDE DEF s
      <3>4. Standing(s, R) /\ Standing(<<>>, R)
        BY <3>2, <3>3 DEF Standing
      <3> QED
        BY <3>1, <3>4 DEF R
    <2>6. stage'[t] # "new"
      <3>1. PICK g \in {"run", "end"} : stage' = [stage EXCEPT ![t] = g]
        BY <1>5 DEF Submit
      <3> QED
        BY <1>2, <3>1 DEF Stacks
    <2> QED
      BY <2>4, <2>5, <2>6
  <1>6. CASE Acts(t)
    <2>1. stage[t] # "new"
      BY <1>6 DEF Return, Block, Work, Module, Def, UseFile, UseNative, HotReload, Import, Rejected, Verified,
                  LoadImported, CallNative, Call, Running
    <2>2. PICK p \in Programs[t] : Standing(stack[t], places[p]) /\ DefinedIn(t, places[p])
      BY <2>1 DEF HomesInv
    <2> DEFINE R == places[p]
    <2>3. Bodies(R)
      BY DEF OneNamespace, Bodies
    <2> HIDE DEF R
    <2>4. Standing(stack'[t], R)
      BY <1>2, <1>6, <2>1, <2>2, <2>3, StandingNext DEF R
    <2>5. DefinedIn(t, R)'
      <3>1. CASE ~Def(t)
        BY <1>3, <2>2, <3>1 DEF R
      <3>2. CASE Def(t)
        <4> SUFFICES ASSUME NEW f \in DOMAIN funcs', funcs'[f].placed, funcs'[f].by = t
                     PROVE  \E r \in R : r[1].op = "def" /\ r[1].key = f[2] /\ r[2] = f[1]
          BY DEF DefinedIn
        <4>1. CASE f \in DOMAIN funcs /\ funcs'[f] = funcs[f]
          BY <2>2, <4>1 DEF DefinedIn, R
        <4>2. CASE ~(f \in DOMAIN funcs /\ funcs'[f] = funcs[f])
          <5>1. InProgram(stack[t]) /\ f = <<Current(t), Statement(t).key>>
            <6>1. PICK u \in Linked : /\ Def(u) /\ InProgram(stack[u]) /\ funcs'[f].by = u
                                      /\ f = <<Current(u), Statement(u).key>>
              BY <4>2, DefinedNext
            <6> QED
              BY <6>1
          <5>2. Running(t) /\ Statement(t).op = "def"
            BY <3>2 DEF Def
          <5>3. <<Statement(t), Current(t)>> \in R
            BY <1>2, <2>2, <5>1, <5>2, StatementStanding DEF Running, R
          <5> QED
            BY <5>1, <5>2, <5>3
        <4> QED
          BY <4>1, <4>2
      <3> QED
        BY <3>1, <3>2
    <2>6. stage'[t] # "new"
      <3>1. ASSUME NEW s, Continue(t, s) PROVE stage'[t] # "new"
        BY <1>2, <3>1 DEF Continue, Stacks
      <3>2. CASE \E g \in {"fetch", "load"} : stage' = [stage EXCEPT ![t] = g]
        BY <1>2, <3>2 DEF Stacks
      <3>3. CASE Return(t) \/ Block(t) \/ Work(t) \/ Module(t) \/ Def(t)
        BY <3>1, <3>3 DEF Return, Block, Work, Module, Def
      <3>4. CASE UseFile(t) \/ UseNative(t) \/ HotReload(t) \/ Rejected(t) \/ LoadImported(t)
        BY <3>1, <3>4 DEF UseFile, UseNative, HotReload, Rejected, LoadImported
      <3>5. CASE CallNative(t) \/ Call(t)
        BY <3>1, <3>5 DEF CallNative, Call
      <3>6. CASE Import(t) \/ Verified(t)
        <4>1. (\E s : Continue(t, s)) \/ \E g \in {"fetch", "load"} : stage' = [stage EXCEPT ![t] = g]
          BY <3>6 DEF Import, Verified
        <4> QED
          BY <3>1, <3>2, <4>1
      <3> QED
        BY <1>6, <3>3, <3>4, <3>5, <3>6
    <2> QED
      BY <2>4, <2>5, <2>6 DEF R
  <1>7. ASSUME NEW u \in Tasks \ {t}, Submit(u) \/ Acts(u)
        PROVE  stack'[t] = stack[t] /\ stage'[t] = stage[t] /\ (Def(t) => Acts(t))
    BY <1>2, <1>7, OthersHomes
  <1>8. CASE stack' = stack /\ stage' = stage
    <2>1. CASE Def(t)
      BY <1>6, <2>1
    <2> QED
      BY <1>4, <1>8, <2>1
  <1>9. \/ Submit(t) \/ Acts(t)
        \/ \E u \in Tasks \ {t} : Submit(u) \/ Acts(u)
        \/ stack' = stack /\ stage' = stage
    BY DEF Next, vars, BootNative, BootPure, Change
  <1> QED
    BY <1>4, <1>5, <1>6, <1>7, <1>8, <1>9

-----------------------------------------------------------------------------
\* The tasks' stacks, the functions, the cache and the loader hold what they
\* may: a task has a stack while it runs, and what is loaded is loadable.
THEOREM TypeCorrect == Spec => []TypeOK
  <1>1. Init => StackInv
    BY InitStacks, StackParts
  <1>2. StackInv => TypeOK
    BY DEF StackInv
  <1> QED
    BY <1>1, <1>2, StackNext, PTL DEF Spec

\* Calls stay in their modules, whatever the linker and the analyser have made of
\* a program: a private function and one that a plain call reached run only below
\* the body of their module.  (executor.rs: execute_function_call.)
THEOREM CallsAlwaysStayHome == Spec => []CallsStayHome
  <1>1. Init => StackInv
    BY InitStacks, StackParts
  <1>2. StackInv => CallsStayHome
    BY DEF StackInv, Sound, AtHome, CallsStayHome
  <1> QED
    BY <1>1, <1>2, StackNext, PTL DEF Spec

\* Names are reached, if the linker gives every key of a program one namespace:
\* calls stay in their modules, and a function that a program's imports lead to more
\* than once is in one of them.  (executor.rs: execute_function_call; resolver.rs: expand.)
THEOREM NamesAlwaysReached ==
  ASSUME NEW places, OneNamespace(places)
  PROVE  Spec => []NamesReached
  <1> DEFINE Inv == StackInv /\ HomesInv(places)
  <1>1. Init => Inv
    <2> SUFFICES ASSUME Init PROVE Inv
      OBVIOUS
    <2>1. StackInv
      BY InitStacks, StackParts
    <2>2. DOMAIN funcs = {} /\ \A t \in Tasks : stage[t] = "new"
      BY DEF Init
    <2>3. HomesInv(places)
      BY <2>2, ModulesAssumption DEF HomesInv, DefinedIn
    <2> QED
      BY <2>1, <2>3
  <1>2. Inv /\ [Next]_vars => Inv'
    <2> SUFFICES ASSUME Inv, [Next]_vars PROVE Inv'
      OBVIOUS
    <2>1. Stacks /\ Functions
      BY StackParts
    <2> QED
      BY <2>1, StackNext, HomesNext
  <1>3. Inv => NamesReached
    <2> SUFFICES ASSUME Inv PROVE NamesReached
      OBVIOUS
    <2>1. CallsStayHome
      BY DEF StackInv, Sound, AtHome, CallsStayHome
    <2>2. OneHome
      <3> SUFFICES ASSUME NEW f \in DOMAIN funcs, NEW g \in DOMAIN funcs,
                          funcs[f].placed, funcs[g].placed, funcs[f].by = funcs[g].by, f[2] = g[2]
                   PROVE  f[1] = g[1]
        BY DEF OneHome
      <3> DEFINE t == funcs[f].by
      <3>1. t \in Linked
        BY DEF HomesInv
      <3>2. PICK p \in Programs[t] : DefinedIn(t, places[p])
        <4>1. ~DefinedIn(t, {})
          BY DEF DefinedIn
        <4> HIDE DEF t
        <4> QED
          BY <3>1, <4>1 DEF HomesInv
      <3>3. PICK q \in places[p] : q[1].op = "def" /\ q[1].key = f[2] /\ q[2] = f[1]
        BY <3>2 DEF DefinedIn
      <3>4. PICK r \in places[p] : r[1].op = "def" /\ r[1].key = g[2] /\ r[2] = g[1]
        BY <3>2 DEF DefinedIn
      <3> QED
        BY <3>1, <3>2, <3>3, <3>4 DEF OneNamespace
    <2> QED
      BY <2>1, <2>2 DEF NamesReached
  <1> QED
    BY <1>1, <1>2, <1>3, PTL DEF Spec

\* What the loader runs was verified or trusted under its name, or came by a hot
\* reload, and is the build that was verified if that file has not changed.
\* (package_manager.rs: import_signed, load_verified_native; ffi.rs: load.)
THEOREM LoadedAreVerified == Spec => []LoadedWasVerified
  <1>1. PackageInv => LoadedWasVerified
    BY DEF PackageInv, LoadedCached, FileBuilds, LoadedWasVerified
  <1> QED
    BY <1>1, InitPackages, PackageNext, PTL DEF Spec

\* A package whose import has succeeded is loaded, or has failed to load, or
\* another task still waits for the loader with it.  (package_manager.rs: import_signed.)
THEOREM ImportsAlwaysLoad == Spec => []ImportsLoad
  <1>1. PackageInv => ImportsLoad
    BY DEF PackageInv
  <1> QED
    BY <1>1, InitPackages, PackageNext, PTL DEF Spec
=============================================================================
