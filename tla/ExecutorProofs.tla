--------------------------- MODULE ExecutorProofs ---------------------------
(***************************************************************************)
(* Proofs about Executor, for any programs, blocks and tasks, whatever gas, *)
(* frames and items a program is given.                                     *)
(*                                                                          *)
(* Every step is one of seven shapes of change to activations and scopes;   *)
(* the invariants follow from the shapes.                                   *)
(***************************************************************************)
EXTENDS Executor, FiniteSetTheorems, SequenceTheorems, WellFoundedInduction, TLAPS

\* Activation b stands where a was: only its frames may differ.
Like(a, b) ==
    /\ b \in Activations
    /\ b.use = a.use /\ b.guard = a.guard /\ b.other = a.other /\ b.left = a.left /\ b.k = a.k

Alike(s, r) == s \in Seq(Activations) /\ Len(s) = Len(r) /\ \A i \in 1 .. Len(r) : Like(r[i], s[i])

\* What a scope of s keeps of a continuation in cs was captured when the stack was lower.
Known(s, cs) ==
    \A i \in DOMAIN s : s[i].k # 0 => s[i].k \in DOMAIN cs /\ Len(cs[s[i].k].scopes) < i

KnownScopes == Known(scopes, conts) /\ \A c \in DOMAIN conts : Known(conts[c].scopes, conts)

\* What activation a, the i-th of its thread, needs when it has ended; c continuations exist.
Rooted(a, i, c) ==
    /\ a.use = "top" => i = 1 /\ ~a.guard
    /\ a.use \in {"try", "each"} => a.other \in Blocks
    /\ a.use = "arrive" => a.k \in 1 .. c

Based == \A t \in Threads : \A i \in DOMAIN acts[t] : Rooted(acts[t][i], i, Len(conts))

(* The shapes of a step of thread t. *)

\* Thread t has r afterwards and the others have what they had.
Becomes(t, r) ==
    /\ acts' \in [Threads -> Seq(Activations)] /\ acts'[t] = r
    /\ \A u \in Threads \ {t} : acts'[u] = acts[u]

\* An activation that a statement may start.
Fresh(a) ==
    /\ a \in Activations /\ a.use \notin {"top", "arrive"}
    /\ a.use \in {"try", "each"} => a.other \in Blocks

\* A scope for the activation that thread t starts.
Opens(t, sc) == sc \in Scopes /\ sc.owner = <<t, Len(acts[t]) + 1>>

Stays(t) ==
    /\ \E r : Alike(r, acts[t]) /\ Becomes(t, r)
    /\ UNCHANGED <<scopes, conts, restored, concurrent>>

Starts(t) ==
    /\ \E r, a : Alike(r, acts[t]) /\ Fresh(a) /\ ~a.guard /\ Becomes(t, Append(r, a))
    /\ UNCHANGED <<scopes, conts, restored, concurrent>>

Guarded(t) ==
    /\ \E r, a : Alike(r, acts[t]) /\ Fresh(a) /\ a.guard /\ Becomes(t, Append(r, a))
    /\ \E sc : /\ Opens(t, sc) /\ scopes' = Append(scopes, sc)
               /\ \/ sc.k = 0 /\ conts' = conts
                  \/ sc.k = Len(conts) + 1
                     /\ \E c \in Continuations : c.scopes = scopes /\ conts' = Append(conts, c)
    /\ UNCHANGED <<restored, concurrent>>

Leaves(t) ==
    /\ acts[t] # <<>> /\ Becomes(t, Front(acts[t])) /\ DropGuard(t)
    /\ UNCHANGED <<conts, restored, concurrent>>

Swaps(t) ==
    /\ acts[t] # <<>> /\ Inner(t).use # "top"
    /\ \E a : Fresh(a) /\ ~a.guard /\ Becomes(t, Append(Front(acts[t]), a))
    /\ DropGuard(t)
    /\ UNCHANGED <<conts, restored, concurrent>>

\* Only a resume of resume_k is sure to shorten the stack.
Restores(t, k) ==
    /\ k \in DOMAIN conts /\ concurrent' = concurrent
    /\ \/ restored' = restored \union {"revive"}
       \/ restored' = restored \union {"resume"} /\ Len(conts[k].scopes) < Len(scopes)
    /\ conts' \in Seq(Continuations) /\ Len(conts') = Len(conts)
    /\ \A c \in DOMAIN conts : conts'[c].scopes = conts[c].scopes
    /\ \E r : /\ Alike(r, acts[t])
              /\ \/ scopes' = conts[k].scopes
                    /\ \/ Becomes(t, r)
                       \/ \E a : Fresh(a) /\ ~a.guard /\ Becomes(t, Append(r, a))
                 \/ \E sc, a : /\ Opens(t, sc) /\ sc.k = 0 /\ scopes' = Append(conts[k].scopes, sc)
                               /\ a \in Activations /\ a.use = "arrive" /\ a.guard /\ a.k = k
                               /\ Becomes(t, Append(r, a))

Resumes(t) == \E k \in DOMAIN conts : Restores(t, k)

Spawns(t) ==
    /\ acts' \in [Threads -> Seq(Activations)]
    /\ acts[t] # <<>> /\ Alike(acts'[t], acts[t])
    /\ \A u \in Threads \ {t} :
         \/ acts'[u] = acts[u]
         \/ acts[u] = <<>> /\ \E a \in Activations : a.use = "top" /\ ~a.guard /\ acts'[u] = <<a>>
    /\ concurrent' = TRUE
    /\ UNCHANGED <<scopes, conts, restored>>

-----------------------------------------------------------------------------
(* Sequences and greatest elements *)

\* A set of positions that is not empty has a greatest.
LEMMA Greatest ==
  ASSUME NEW n \in Nat, NEW S \in SUBSET (1 .. n), S # {}
  PROVE  Max(S) \in S /\ \A y \in S : Max(S) >= y
  <1> DEFINE T == {k \in Nat : n - k \in S}
  <1>1. T # {} /\ T \subseteq Nat
    <2>1. PICK x \in S : TRUE
      OBVIOUS
    <2>2. n - x \in Nat /\ n - (n - x) = x
      OBVIOUS
    <2> QED
      BY <2>1, <2>2
  <1>2. PICK k \in T : \A j \in T : ~(<<j, k>> \in OpToRel(<, Nat))
    BY <1>1, WFMin, NatLessThanWellFounded
  <1>3. \A y \in S : n - k >= y
    <2> SUFFICES ASSUME NEW y \in S, ~(n - k >= y) PROVE FALSE
      OBVIOUS
    <2>1. y \in 1 .. n /\ k \in Nat
      BY <1>2
    <2>2. n - y \in Nat /\ n - (n - y) = y /\ n - y < k
      BY <2>1
    <2>3. n - y \in T
      BY <2>2
    <2>4. <<n - y, k>> \in OpToRel(<, Nat)
      BY <1>2, <2>2 DEF OpToRel
    <2> QED
      BY <1>2, <2>3, <2>4
  <1>4. n - k \in S
    BY <1>2
  <1> QED
    BY <1>3, <1>4 DEF Max

\* A prefix of a sequence.
LEMMA Prefix ==
  ASSUME NEW S, NEW s \in Seq(S), NEW n \in 0 .. Len(s)
  PROVE  /\ SubSeq(s, 1, n) \in Seq(S) /\ Len(SubSeq(s, 1, n)) = n
         /\ \A i \in 1 .. n : SubSeq(s, 1, n)[i] = s[i] /\ s[i] \in S
  OBVIOUS

\* All but the last of a sequence.
LEMMA FrontOfSeq ==
  ASSUME NEW S, NEW s \in Seq(S), s # <<>>
  PROVE  /\ Front(s) \in Seq(S) /\ Len(Front(s)) = Len(s) - 1
         /\ \A i \in 1 .. Len(s) - 1 : Front(s)[i] = s[i]
         /\ Len(s) \in Nat \ {0} /\ Last(s) = s[Len(s)] /\ Last(s) \in S
  <1>1. Len(s) \in Nat \ {0} /\ \A i \in 1 .. Len(s) : s[i] \in S
    OBVIOUS
  <1>2. Front(s) = SubSeq(s, 1, Len(s) - 1)
    BY DEF Front
  <1>3. /\ SubSeq(s, 1, Len(s) - 1) \in Seq(S) /\ Len(SubSeq(s, 1, Len(s) - 1)) = Len(s) - 1
        /\ \A i \in 1 .. Len(s) - 1 : SubSeq(s, 1, Len(s) - 1)[i] = s[i]
    <2>1. Len(s) - 1 \in 0 .. Len(s)
      BY <1>1
    <2> QED
      BY <2>1, Prefix
  <1> QED
    BY <1>1, <1>2, <1>3 DEF Last

\* The last element replaced.
LEMMA FrontPlus ==
  ASSUME NEW S, NEW s \in Seq(S), s # <<>>, NEW x \in S
  PROVE  /\ Front(s) \o <<x>> \in Seq(S) /\ Len(Front(s) \o <<x>>) = Len(s)
         /\ \A i \in 1 .. Len(s) : (Front(s) \o <<x>>)[i] = IF i = Len(s) THEN x ELSE s[i]
  <1>1. /\ Front(s) \in Seq(S) /\ Len(Front(s)) = Len(s) - 1 /\ Len(s) \in Nat \ {0}
        /\ \A i \in 1 .. Len(s) - 1 : Front(s)[i] = s[i]
    BY FrontOfSeq
  <1>2. <<x>> \in Seq(S) /\ Len(<<x>>) = 1 /\ <<x>>[1] = x
    OBVIOUS
  <1> DEFINE f == Front(s)
             o == <<x>>
  <1> HIDE DEF f, o
  <1>3. /\ f \o o \in Seq(S) /\ Len(f \o o) = Len(f) + Len(o)
        /\ \A i \in 1 .. Len(f) + Len(o) : (f \o o)[i] = IF i <= Len(f) THEN f[i] ELSE o[i - Len(f)]
    BY <1>1, <1>2, ConcatProperties DEF f, o
  <1> QED
    BY <1>1, <1>2, <1>3 DEF f, o

\* Two elements behind it are one and another.
LEMMA FrontPlusTwo ==
  ASSUME NEW S, NEW s \in Seq(S), s # <<>>, NEW x \in S, NEW y \in S
  PROVE  Front(s) \o <<x, y>> = Append(Front(s) \o <<x>>, y)
  <1>1. Front(s) \in Seq(S)
    BY FrontOfSeq
  <1> HIDE DEF Front
  <1> QED
    BY <1>1

-----------------------------------------------------------------------------
(* Frames and activations *)

\* What the fields of a statement are.
LEMMA StatementFields ==
  ASSUME NEW s \in Statements
  PROVE  /\ s.op \in {"block", "loop", "each", "call", "apart", "inline", "daemon", "if", "try", "handle",
                      "concurrent"} => s.body \in Blocks
         /\ s.op \in {"try", "handle", "concurrent"} => s.other \in Blocks
         /\ s.op = "if" => s.other \in Blocks \union {NoBlock}
         /\ s.op = "handle" => s.effect \in Effects
  BY DEF Statements

\* An activation that starts.
LEMMA ActivationTyped ==
  ASSUME NEW b \in Blocks, NEW i \in Nat \ {0}, NEW use \in Uses, NEW guard \in BOOLEAN
  PROVE  LET a == Activation(b, i, use, guard) IN
         a \in Activations /\ a.use = use /\ a.guard = guard /\ a.other = NoBlock /\ a.k = 0
  <1> DEFINE fs == <<[block |-> b, at |-> i]>>
  <1>1. [block |-> b, at |-> i] \in Frames
    BY DEF Frames
  <1>2. fs \in Seq(Frames)
    BY <1>1
  <1>3. 0 \in 0 .. MaxItems
    BY ExecutorAssumption
  <1> HIDE DEF fs
  <1>4. [frames |-> fs, use |-> use, guard |-> guard, other |-> NoBlock, left |-> 0, k |-> 0] \in Activations
    BY <1>2, <1>3 DEF Activations
  <1> QED
    BY <1>4 DEF Activation, fs

LEMMA ItemTyped ==
  ASSUME NEW b \in Blocks, NEW n \in 0 .. MaxItems
  PROVE  LET a == Item(b, n) IN
         a \in Activations /\ a.use = "each" /\ ~a.guard /\ a.other = b /\ a.k = 0
  <1> DEFINE fs == <<[block |-> b, at |-> 1]>>
  <1>1. [block |-> b, at |-> 1] \in Frames
    BY DEF Frames
  <1>2. fs \in Seq(Frames) /\ "each" \in Uses
    BY <1>1 DEF Uses
  <1> HIDE DEF fs
  <1>3. [frames |-> fs, use |-> "each", guard |-> FALSE, other |-> b, left |-> n, k |-> 0] \in Activations
    BY <1>2 DEF Activations
  <1> QED
    BY <1>3 DEF Item, fs

\* New frames for an activation.
LEMMA FramesTyped ==
  ASSUME NEW a \in Activations, NEW fs \in Seq(Frames)
  PROVE  Like(a, [a EXCEPT !.frames = fs]) /\ [a EXCEPT !.frames = fs].frames = fs
  BY DEF Like, Activations

\* The innermost activation of a thread, and its frames.
LEMMA InnerTyped ==
  ASSUME TypeOK, NEW t \in Threads, acts[t] # <<>>
  PROVE  /\ acts[t] \in Seq(Activations) /\ Inner(t) \in Activations /\ Inner(t) = acts[t][Len(acts[t])]
         /\ Len(acts[t]) \in Nat \ {0} /\ Inner(t).frames \in Seq(Frames)
  <1>1. acts[t] \in Seq(Activations)
    BY DEF TypeOK
  <1>2. Inner(t) \in Activations /\ Inner(t) = acts[t][Len(acts[t])] /\ Len(acts[t]) \in Nat \ {0}
    BY <1>1, FrontOfSeq DEF Inner
  <1> QED
    BY <1>1, <1>2 DEF Activations

\* A thread at a statement.
LEMMA AtTyped ==
  ASSUME TypeOK, NEW t \in Threads, AtStatement(t)
  PROVE  /\ acts[t] # <<>> /\ Here(t) \in Frames /\ Stmt(t) \in Statements
         /\ Here(t).block \in Blocks /\ Here(t).at \in DOMAIN Code[Here(t).block]
         /\ Inner(t).frames \in Seq(Frames) /\ Inner(t).frames # <<>> /\ Inner(t) \in Activations
  <1>1. acts[t] # <<>> /\ Inner(t).frames # <<>> /\ Here(t).at <= Len(Code[Here(t).block])
    BY DEF AtStatement, Active
  <1>2. Inner(t).frames \in Seq(Frames) /\ Inner(t) \in Activations
    BY <1>1, InnerTyped
  <1>3. Here(t) \in Frames
    BY <1>1, <1>2, FrontOfSeq DEF Here
  <1>4. Here(t).block \in Blocks /\ Here(t).at \in Nat \ {0}
    BY <1>3 DEF Frames
  <1>5. Code[Here(t).block] \in Seq(Statements)
    BY <1>4, ExecutorAssumption DEF TypeOK
  <1>6. Here(t).at \in 1 .. Len(Code[Here(t).block])
    BY <1>1, <1>4, <1>5
  <1> QED
    BY <1>1, <1>2, <1>3, <1>4, <1>5, <1>6 DEF Stmt

\* Past its statement, and wherever it jumps.
LEMMA PastLike ==
  ASSUME TypeOK, NEW t \in Threads, AtStatement(t)
  PROVE  Like(Inner(t), Past(t))
  <1> DEFINE a == Inner(t)
             n == Len(a.frames)
             f == [a.frames[n] EXCEPT !.at = a.frames[n].at + 1]
             fs == [a.frames EXCEPT ![n] = f]
  <1>1. a.frames \in Seq(Frames) /\ a.frames # <<>> /\ a \in Activations
    BY AtTyped
  <1>2. n \in 1 .. Len(a.frames) /\ a.frames[n] \in Frames
    BY <1>1
  <1>3. f \in Frames
    BY <1>2 DEF Frames
  <1>4. fs \in Seq(Frames)
    BY <1>1, <1>2, <1>3
  <1>5. Past(t) = [a EXCEPT !.frames = fs]
    BY DEF Past
  <1> HIDE DEF a, fs
  <1>6. Like(a, Past(t))
    BY <1>1, <1>4, <1>5, FramesTyped
  <1> QED
    BY <1>6 DEF a

LEMMA JumpLike ==
  ASSUME TypeOK, NEW t \in Threads, AtStatement(t), NEW fs \in Seq(Frames)
  PROVE  Like(Inner(t), Jump(t, fs))
  <1> DEFINE a == Inner(t)
             gs == Front(a.frames) \o fs
  <1>1. a.frames \in Seq(Frames) /\ a.frames # <<>> /\ a \in Activations
    BY AtTyped
  <1>2. gs \in Seq(Frames)
    BY <1>1, FrontOfSeq, ConcatProperties
  <1>3. Jump(t, fs) = [a EXCEPT !.frames = gs]
    BY DEF Jump
  <1> HIDE DEF a, gs
  <1>4. Like(a, Jump(t, fs))
    BY <1>1, <1>2, <1>3, FramesTyped
  <1> QED
    BY <1>4 DEF a

\* A place in a block, and the one behind the present one.
LEMMA PlaceTyped ==
  ASSUME TypeOK, NEW t \in Threads, AtStatement(t)
  PROVE  /\ [Here(t) EXCEPT !.at = @ + 1] \in Frames
         /\ \A b \in Blocks : [block |-> b, at |-> 1] \in Frames
  <1>1. Here(t) \in Frames
    BY AtTyped
  <1> QED
    BY <1>1 DEF Frames

-----------------------------------------------------------------------------
(* Each action has a shape *)

\* Activations are like themselves.
LEMMA AlikeSame ==
  ASSUME NEW s \in Seq(Activations)
  PROVE  Alike(s, s)
  <1>1. \A i \in 1 .. Len(s) : s[i] \in Activations
    OBVIOUS
  <1> QED
    BY <1>1 DEF Alike, Like

LEMMA AlikeLast ==
  ASSUME NEW s \in Seq(Activations), s # <<>>, NEW a, Like(s[Len(s)], a)
  PROVE  /\ Alike([s EXCEPT ![Len(s)] = a], s)
         /\ Alike(Front(s) \o <<a>>, s)
  <1> DEFINE n == Len(s)
             e == [s EXCEPT ![n] = a]
             f == Front(s) \o <<a>>
  <1>1. a \in Activations /\ n \in 1 .. Len(s) /\ n \in Nat
    BY DEF Like
  <1>2. Alike(s, s)
    BY AlikeSame
  <1>3. e \in Seq(Activations) /\ Len(e) = n /\ \A i \in 1 .. n : e[i] = IF i = n THEN a ELSE s[i]
    BY <1>1, ExceptSeq
  <1>4. f \in Seq(Activations) /\ Len(f) = n /\ \A i \in 1 .. n : f[i] = IF i = n THEN a ELSE s[i]
    BY <1>1, FrontPlus
  <1> HIDE DEF e, f
  <1>5. Alike(e, s)
    BY <1>2, <1>3 DEF Alike
  <1>6. Alike(f, s)
    BY <1>2, <1>4 DEF Alike
  <1> QED
    BY <1>5, <1>6 DEF e, f

\* What one thread becomes.
LEMMA BecomesOne ==
  ASSUME TypeOK, NEW t \in Threads, NEW r \in Seq(Activations), acts' = [acts EXCEPT ![t] = r]
  PROVE  Becomes(t, r)
  BY DEF TypeOK, Becomes

LEMMA GoesStays ==
  ASSUME TypeOK, NEW t \in Threads, acts[t] # <<>>, NEW inner, Like(Inner(t), inner), Goes(t, inner)
  PROVE  Stays(t)
  <1> DEFINE r == [acts[t] EXCEPT ![Len(acts[t])] = inner]
  <1>1. acts[t] \in Seq(Activations) /\ Inner(t) = acts[t][Len(acts[t])]
    BY InnerTyped
  <1>2. Alike(r, acts[t])
    BY <1>1, AlikeLast
  <1>3. acts' = [acts EXCEPT ![t] = r]
    BY DEF Goes
  <1> HIDE DEF r
  <1>4. Becomes(t, r)
    BY <1>2, <1>3, BecomesOne DEF Alike
  <1> QED
    BY <1>2, <1>4 DEF Stays, Goes

LEMMA SameStays ==
  ASSUME TypeOK, NEW t \in Threads, UNCHANGED <<acts, scopes, conts, restored, concurrent>>
  PROVE  Stays(t)
  <1>1. acts[t] \in Seq(Activations) /\ acts \in [Threads -> Seq(Activations)]
    BY DEF TypeOK
  <1>2. Alike(acts[t], acts[t]) /\ Becomes(t, acts[t])
    BY <1>1, AlikeSame DEF Becomes
  <1> QED
    BY <1>2 DEF Stays

\* The caller goes past its statement and waits.
LEMMA CallsPush ==
  ASSUME TypeOK, NEW t \in Threads, AtStatement(t), NEW a \in Activations, Calls(t, a)
  PROVE  \E r : Alike(r, acts[t]) /\ Becomes(t, Append(r, a))
  <1> DEFINE r == Front(acts[t]) \o <<Past(t)>>
  <1>1. acts[t] # <<>> /\ Like(Inner(t), Past(t))
    BY AtTyped, PastLike
  <1>2. acts[t] \in Seq(Activations) /\ Inner(t) = acts[t][Len(acts[t])] /\ Past(t) \in Activations
    BY <1>1, InnerTyped DEF Like
  <1>3. Alike(r, acts[t])
    BY <1>1, <1>2, AlikeLast
  <1>4. acts' = [acts EXCEPT ![t] = Append(r, a)]
    BY <1>1, <1>2, FrontPlusTwo DEF Calls
  <1>5. r \in Seq(Activations)
    BY <1>3 DEF Alike
  <1> HIDE DEF r
  <1>6. Append(r, a) \in Seq(Activations)
    BY <1>5
  <1>7. Becomes(t, Append(r, a))
    BY <1>4, <1>6, BecomesOne
  <1> QED
    BY <1>3, <1>7

\* A handler is a block.
LEMMA HandlerTyped ==
  ASSUME NEW s \in Seq(Scopes), NEW e \in Effects
  PROVE  Handler(s, e) \in Blocks \union {NoBlock}
  <1> DEFINE found == {i \in DOMAIN s : s[i].handler[e] # NoBlock}
  <1>1. CASE found = {}
    BY <1>1 DEF Handler
  <1>2. CASE found # {}
    <2>1. found \in SUBSET (1 .. Len(s)) /\ Len(s) \in Nat
      OBVIOUS
    <2>2. Max(found) \in 1 .. Len(s)
      <3> HIDE DEF found
      <3> QED
        BY <1>2, <2>1, Greatest
    <2>3. s[Max(found)] \in Scopes
      BY <2>2
    <2>4. s[Max(found)].handler[e] \in Blocks \union {NoBlock}
      BY <2>3 DEF Scopes
    <2> QED
      BY <1>2, <2>4 DEF Handler
  <1> QED
    BY <1>1, <1>2

\* The continuation of a resume exists and was captured lower down.
LEMMA ResumeKTyped ==
  ASSUME TypeOK, KnownScopes, ResumeK # 0
  PROVE  /\ ResumeK \in DOMAIN conts /\ conts[ResumeK] \in Continuations
         /\ conts[ResumeK].scopes \in Seq(Scopes) /\ Len(conts[ResumeK].scopes) < Len(scopes)
  <1> DEFINE found == {i \in DOMAIN scopes : scopes[i].k # 0}
  <1>1. scopes \in Seq(Scopes) /\ conts \in Seq(Continuations)
    BY DEF TypeOK
  <1>2. found # {} /\ ResumeK = scopes[Max(found)].k
    BY DEF ResumeK
  <1>3. found \in SUBSET (1 .. Len(scopes)) /\ Len(scopes) \in Nat
    BY <1>1
  <1>4. Max(found) \in found
    <2> HIDE DEF found
    <2> QED
      BY <1>2, <1>3, Greatest
  <1>5. ResumeK \in DOMAIN conts /\ Len(conts[ResumeK].scopes) < Max(found) /\ Max(found) \in 1 .. Len(scopes)
    BY <1>1, <1>2, <1>4 DEF KnownScopes, Known
  <1>6. conts[ResumeK] \in Continuations
    BY <1>1, <1>5
  <1>7. conts[ResumeK].scopes \in Seq(Scopes)
    BY <1>6 DEF Continuations
  <1>8. Len(conts[ResumeK].scopes) \in Nat
    BY <1>7
  <1> HIDE DEF found
  <1> QED
    BY <1>3, <1>5, <1>6, <1>7, <1>8

\* A continuation that a resume finds exists; resume_k was captured lower down.
LEMMA ResumableTyped ==
  ASSUME TypeOK, KnownScopes, NEW op \in {"resume", "revive"}, NEW k \in Resumable(op) \ {0}
  PROVE  /\ k \in DOMAIN conts /\ conts[k] \in Continuations /\ conts[k].scopes \in Seq(Scopes)
         /\ op = "resume" => Len(conts[k].scopes) < Len(scopes)
  <1>1. CASE op = "resume"
    BY <1>1, ResumeKTyped DEF Resumable
  <1>2. CASE op = "revive"
    <2>1. conts \in Seq(Continuations) /\ k \in DOMAIN conts
      BY <1>2 DEF Resumable, TypeOK
    <2>2. conts[k] \in Continuations
      BY <2>1
    <2> QED
      BY <1>2, <2>1, <2>2 DEF Continuations
  <1> QED
    BY <1>1, <1>2

\* A scope that is pushed.
LEMMA NewScopeTyped ==
  ASSUME TypeOK, NEW t \in Threads, NEW s \in Seq(Scopes),
         NEW handler \in [Effects -> Blocks \union {NoBlock}], NEW k \in Nat
  PROVE  \E sc : Opens(t, sc) /\ sc.k = k /\ sc.handler = handler /\ NewScope(t, s, handler, k) = Append(s, sc)
  <1> DEFINE sc == [owner |-> <<t, Len(acts[t]) + 1>>, handler |-> handler, k |-> k]
  <1>1. Len(acts[t]) + 1 \in Nat
    <2>1. acts[t] \in Seq(Activations)
      BY DEF TypeOK
    <2> QED
      BY <2>1
  <1>2. sc \in Scopes
    BY <1>1 DEF Scopes
  <1> QED
    BY <1>2 DEF Opens, NewScope

LEMMA NobodyTyped ==
  /\ Nobody \in [Effects -> Blocks \union {NoBlock}]
  /\ \A e \in Effects, b \in Blocks : [Nobody EXCEPT ![e] = b] \in [Effects -> Blocks \union {NoBlock}]
  BY DEF Nobody

\* A guarded activation starts with a scope.
LEMMA GuardedCall ==
  ASSUME TypeOK, NEW t \in Threads, AtStatement(t), NEW b \in Blocks,
         NEW use \in {"call", "handle", "drop", "tail", "depart"},
         NEW handler \in [Effects -> Blocks \union {NoBlock}], NEW k \in Nat,
         Calls(t, Activation(b, 1, use, TRUE)),
         scopes' = NewScope(t, scopes, handler, k),
         \/ k = 0 /\ conts' = conts
         \/ k = Len(conts) + 1
            /\ \E c \in Continuations : c.scopes = scopes /\ conts' = Append(conts, c),
         UNCHANGED <<restored, concurrent>>
  PROVE  Guarded(t)
  <1> DEFINE a == Activation(b, 1, use, TRUE)
  <1>1. use \in Uses \ {"top", "arrive", "try", "each"} /\ 1 \in Nat \ {0} /\ TRUE \in BOOLEAN
    BY DEF Uses
  <1>2. a \in Activations /\ a.use = use /\ a.guard = TRUE
    BY <1>1, ActivationTyped
  <1> HIDE DEF a
  <1>3. Fresh(a) /\ a.guard
    BY <1>1, <1>2 DEF Fresh
  <1>4. \E r : Alike(r, acts[t]) /\ Becomes(t, Append(r, a))
    BY <1>2, CallsPush DEF a
  <1>5. scopes \in Seq(Scopes)
    BY DEF TypeOK
  <1>6. \E sc : Opens(t, sc) /\ sc.k = k /\ scopes' = Append(scopes, sc)
    BY <1>5, NewScopeTyped
  <1> QED
    BY <1>3, <1>4, <1>6 DEF Guarded

\* An activation that starts without a scope.
LEMMA PlainCall ==
  ASSUME TypeOK, NEW t \in Threads, AtStatement(t), NEW a, Fresh(a), ~a.guard, Calls(t, a),
         UNCHANGED <<scopes, conts, restored, concurrent>>
  PROVE  Starts(t)
  <1>1. \E r : Alike(r, acts[t]) /\ Becomes(t, Append(r, a))
    BY CallsPush DEF Fresh
  <1> QED
    BY <1>1 DEF Starts

\* A continuation that is resumed once more.
LEMMA OnceMore ==
  ASSUME NEW c \in Continuations
  PROVE  LET d == [c EXCEPT !.resumed = c.resumed + 1] IN d \in Continuations /\ d.scopes = c.scopes
  <1>1. c.resumed + 1 \in Nat
    BY DEF Continuations
  <1> QED
    BY <1>1 DEF Continuations

\* A resume.
LEMMA ResumeShape ==
  ASSUME TypeOK, KnownScopes, NEW t \in Threads, NEW op \in {"resume", "revive"}, Resume(t, op)
  PROVE  Stays(t) \/ Resumes(t)
  <1>1. AtStatement(t)
    BY DEF Resume, Begin
  <1>2. acts[t] # <<>> /\ Like(Inner(t), Past(t))
    BY <1>1, AtTyped, PastLike
  <1>3. CASE Goes(t, Past(t))
    BY <1>2, <1>3, GoesStays
  <1>4. CASE Ends(t, "err")
    BY <1>4, SameStays DEF Ends
  <1>5. ASSUME NEW k \in Resumable(op) \ {0},
               LET s == conts[k].scopes
                   h == Handler(s, "arrive")
               IN
               /\ conts' = [conts EXCEPT ![k].resumed = @ + 1]
               /\ restored' = restored \union {op}
               /\ scopes' = IF h = NoBlock THEN s ELSE NewScope(t, s, Nobody, 0)
               /\ IF h # NoBlock
                     THEN Calls(t, [Activation(h, 1, "arrive", TRUE) EXCEPT !.k = k])
                     ELSE IF conts[k].how = "qualified"
                     THEN acts' = [acts EXCEPT ![t][Len(acts[t])] = Past(t)]
                     ELSE Calls(t, Continuation(k))
               /\ UNCHANGED <<out, parent, concurrent>>
        PROVE  Resumes(t)
    <2> DEFINE s == conts[k].scopes
               h == Handler(s, "arrive")
    <2>1. /\ k \in DOMAIN conts /\ conts[k] \in Continuations /\ s \in Seq(Scopes)
          /\ conts \in Seq(Continuations)
      BY <1>5, ResumableTyped DEF TypeOK
    <2>2. /\ conts' = [conts EXCEPT ![k].resumed = @ + 1]
          /\ concurrent' = concurrent
          /\ scopes' = IF h = NoBlock THEN s ELSE NewScope(t, s, Nobody, 0)
          /\ IF h # NoBlock
                THEN Calls(t, [Activation(h, 1, "arrive", TRUE) EXCEPT !.k = k])
                ELSE IF conts[k].how = "qualified"
                THEN acts' = [acts EXCEPT ![t][Len(acts[t])] = Past(t)]
                ELSE Calls(t, Continuation(k))
      BY <1>5
    <2>3. \/ restored' = restored \union {"revive"}
          \/ restored' = restored \union {"resume"} /\ Len(s) < Len(scopes)
      <3>1. CASE op = "resume"
        <4>1. Len(s) < Len(scopes)
          BY <1>5, <3>1, ResumableTyped
        <4>2. restored' = restored \union {"resume"}
          BY <1>5, <3>1
        <4> QED
          BY <4>1, <4>2
      <3>2. CASE op = "revive"
        BY <1>5, <3>2
      <3> QED
        BY <3>1, <3>2
    <2>4. SUFFICES Restores(t, k)
      BY <2>1 DEF Resumes
    <2>5. /\ conts' \in Seq(Continuations) /\ Len(conts') = Len(conts)
          /\ \A c \in DOMAIN conts : conts'[c].scopes = conts[c].scopes
      <3> DEFINE x == [conts[k] EXCEPT !.resumed = conts[k].resumed + 1]
      <3>1. x \in Continuations /\ x.scopes = conts[k].scopes
        BY <2>1, OnceMore
      <3>2. conts' = [conts EXCEPT ![k] = x]
        BY <2>2
      <3> HIDE DEF x
      <3> QED
        BY <2>1, <3>1, <3>2
    <2>6. CASE h # NoBlock
      <3> DEFINE b == Activation(h, 1, "arrive", TRUE)
                 a == [b EXCEPT !.k = k]
      <3>1. h \in Blocks
        BY <2>1, <2>6, HandlerTyped DEF Effects
      <3>2. b \in Activations /\ b.use = "arrive" /\ b.guard = TRUE
        <4>1. "arrive" \in Uses /\ 1 \in Nat \ {0} /\ TRUE \in BOOLEAN
          BY DEF Uses
        <4> HIDE DEF h
        <4> QED
          BY <3>1, <4>1, ActivationTyped
      <3>3. k \in Nat
        BY <2>1
      <3>4. a \in Activations /\ a.use = "arrive" /\ a.guard = TRUE /\ a.k = k
        <4> HIDE DEF b
        <4> QED
          BY <3>2, <3>3 DEF Activations
      <3>5. Calls(t, a) /\ scopes' = NewScope(t, s, Nobody, 0)
        BY <2>2, <2>6
      <3> HIDE DEF a
      <3>6. PICK r : Alike(r, acts[t]) /\ Becomes(t, Append(r, a))
        BY <1>1, <3>4, <3>5, CallsPush
      <3>7. PICK sc : Opens(t, sc) /\ sc.k = 0 /\ scopes' = Append(s, sc)
        BY <2>1, <3>5, NewScopeTyped, NobodyTyped
      <3> QED
        BY <2>1, <2>2, <2>5, <2>3, <3>4, <3>6, <3>7 DEF Restores
    <2>7. CASE h = NoBlock /\ conts[k].how = "qualified"
      <3> DEFINE r == [acts[t] EXCEPT ![Len(acts[t])] = Past(t)]
      <3>1. acts[t] \in Seq(Activations) /\ Inner(t) = acts[t][Len(acts[t])]
        BY <1>2, InnerTyped
      <3>2. Alike(r, acts[t])
        BY <1>2, <3>1, AlikeLast
      <3>3. acts' = [acts EXCEPT ![t] = r]
        BY <2>2, <2>7
      <3>4. scopes' = s
        BY <2>2, <2>7
      <3> HIDE DEF r
      <3>5. Becomes(t, r)
        BY <3>2, <3>3, BecomesOne DEF Alike
      <3> QED
        BY <2>1, <2>2, <2>5, <2>3, <3>2, <3>4, <3>5 DEF Restores
    <2>8. CASE h = NoBlock /\ conts[k].how # "qualified"
      <3> DEFINE a == Continuation(k)
      <3>1. conts[k].block \in Blocks /\ conts[k].at + 1 \in Nat \ {0} /\ "drop" \in Uses
        BY <2>1 DEF Continuations, Uses
      <3>2. a \in Activations /\ a.use = "drop" /\ ~a.guard
        BY <3>1, ActivationTyped DEF Continuation
      <3>3. Calls(t, a) /\ scopes' = s
        BY <2>2, <2>8
      <3> HIDE DEF a
      <3>4. PICK r : Alike(r, acts[t]) /\ Becomes(t, Append(r, a))
        BY <1>1, <3>2, <3>3, CallsPush
      <3>5. Fresh(a)
        BY <3>2 DEF Fresh
      <3> QED
        BY <2>1, <2>2, <2>5, <2>3, <3>2, <3>3, <3>4, <3>5 DEF Restores
    <2> QED
      BY <2>6, <2>7, <2>8
  <1> QED
    BY <1>3, <1>4, <1>5 DEF Resume

\* Branches are threads of their own.
LEMMA ConcurrentShape ==
  ASSUME TypeOK, NEW t \in Threads, Concurrent(t)
  PROVE  Spawns(t)
  <1>1. AtStatement(t) /\ Stmt(t).op = "concurrent"
    BY DEF Concurrent, Begin
  <1>2. acts[t] # <<>> /\ Like(Inner(t), Past(t)) /\ Stmt(t) \in Statements
    BY <1>1, AtTyped, PastLike
  <1>3. Stmt(t).body \in Blocks /\ Stmt(t).other \in Blocks
    BY <1>1, <1>2, StatementFields
  <1> DEFINE p == Activation(Stmt(t).body, 1, "top", FALSE)
             q == Activation(Stmt(t).other, 1, "top", FALSE)
             r == Front(acts[t]) \o <<Past(t)>>
  <1>4. p \in Activations /\ p.use = "top" /\ ~p.guard /\ q \in Activations /\ q.use = "top" /\ ~q.guard
    <2>1. "top" \in Uses /\ 1 \in Nat \ {0} /\ FALSE \in BOOLEAN
      BY DEF Uses
    <2> QED
      BY <1>3, <2>1, ActivationTyped
  <1>5. Alike(r, acts[t])
    <2>1. acts[t] \in Seq(Activations) /\ Inner(t) = acts[t][Len(acts[t])]
      BY <1>2, InnerTyped
    <2> QED
      BY <1>2, <2>1, AlikeLast
  <1>6. PICK u \in Idle, v \in Idle : \E away \in Elsewhere({u, v}) :
           acts' = [x \in Threads |->
                      CASE x = t -> r
                        [] x = u /\ x \notin away -> <<p>>
                        [] x = v /\ x \notin away -> <<q>>
                        [] OTHER -> acts[x]]
    BY DEF Concurrent
  <1>7. PICK away : acts' = [x \in Threads |->
                      CASE x = t -> r
                        [] x = u /\ x \notin away -> <<p>>
                        [] x = v /\ x \notin away -> <<q>>
                        [] OTHER -> acts[x]]
    BY <1>6
  <1> HIDE DEF p, q, r
  <1>8. u \in Threads /\ v \in Threads /\ acts[u] = <<>> /\ acts[v] = <<>> /\ u # t /\ v # t
    BY <1>2 DEF Idle
  <1>9. \A x \in Threads : x # t => acts'[x] \in {<<p>>, <<q>>, acts[x]} /\ (acts'[x] # acts[x] => x \in {u, v})
    BY <1>7
  <1>10. acts'[t] = r
    BY <1>7, <1>8
  <1>11. acts' \in [Threads -> Seq(Activations)]
    <2>1. r \in Seq(Activations) /\ <<p>> \in Seq(Activations) /\ <<q>> \in Seq(Activations)
      BY <1>4, <1>5 DEF Alike
    <2>2. \A x \in Threads : acts[x] \in Seq(Activations)
      BY DEF TypeOK
    <2>3. \A x \in Threads : acts'[x] \in Seq(Activations)
      BY <1>9, <1>10, <2>1, <2>2
    <2>4. acts' = [x \in Threads |-> acts'[x]]
      BY <1>7
    <2> QED
      BY <2>3, <2>4
  <1>12. \A x \in Threads \ {t} :
           \/ acts'[x] = acts[x]
           \/ acts[x] = <<>> /\ \E a \in Activations : a.use = "top" /\ ~a.guard /\ acts'[x] = <<a>>
    BY <1>4, <1>8, <1>9
  <1>13. concurrent' = TRUE /\ UNCHANGED <<scopes, conts, restored>>
    BY DEF Concurrent
  <1> QED
    BY <1>2, <1>5, <1>10, <1>11, <1>12, <1>13 DEF Spawns

\* A daemon is one thread more.
LEMMA DaemonShape ==
  ASSUME TypeOK, NEW t \in Threads, Daemon(t)
  PROVE  Spawns(t)
  <1>1. AtStatement(t) /\ Stmt(t).op = "daemon"
    BY DEF Daemon, Begin
  <1>2. acts[t] # <<>> /\ Like(Inner(t), Past(t)) /\ Stmt(t).body \in Blocks
    BY <1>1, AtTyped, PastLike, StatementFields
  <1> DEFINE p == Activation(Stmt(t).body, 1, "top", FALSE)
             r == Front(acts[t]) \o <<Past(t)>>
  <1>3. p \in Activations /\ p.use = "top" /\ ~p.guard
    <2>1. "top" \in Uses /\ 1 \in Nat \ {0} /\ FALSE \in BOOLEAN
      BY DEF Uses
    <2> QED
      BY <1>2, <2>1, ActivationTyped
  <1>4. Alike(r, acts[t])
    <2>1. acts[t] \in Seq(Activations) /\ Inner(t) = acts[t][Len(acts[t])]
      BY <1>2, InnerTyped
    <2> QED
      BY <1>2, <2>1, AlikeLast
  <1>5. PICK u \in Idle : acts' = [acts EXCEPT ![t] = r, ![u] = <<p>>]
    BY DEF Daemon
  <1>6. u \in Threads /\ acts[u] = <<>> /\ u # t
    BY <1>2 DEF Idle
  <1> HIDE DEF p, r
  <1>7. r \in Seq(Activations) /\ <<p>> \in Seq(Activations)
    BY <1>3, <1>4 DEF Alike
  <1>8. /\ acts' \in [Threads -> Seq(Activations)]
        /\ \A x \in Threads : acts'[x] = IF x = u THEN <<p>> ELSE IF x = t THEN r ELSE acts[x]
    BY <1>5, <1>7 DEF TypeOK
  <1>9. acts'[t] = r /\ \A x \in Threads \ {t} :
           \/ acts'[x] = acts[x]
           \/ acts[x] = <<>> /\ \E a \in Activations : a.use = "top" /\ ~a.guard /\ acts'[x] = <<a>>
    BY <1>3, <1>6, <1>8
  <1>10. concurrent' = TRUE /\ UNCHANGED <<scopes, conts, restored>>
    BY DEF Daemon
  <1> QED
    BY <1>2, <1>4, <1>8, <1>9, <1>10 DEF Spawns

\* Statements that neither call nor start anything.
LEMMA SimpleShapes ==
  ASSUME TypeOK, NEW t \in Threads,
         \/ Exhausted(t) \/ Work(t) \/ SendOut(t) \/ Assign(t) \/ Throw(t) \/ Return(t) \/ Install(t)
         \/ If(t) \/ Block(t) \/ Loop(t) \/ EndFrame(t)
  PROVE  Stays(t)
  <1> DEFINE s == Stmt(t)
  <1>1. ASSUME NEW r, Ends(t, r) PROVE Stays(t)
    BY <1>1, SameStays DEF Ends
  <1>2. ASSUME AtStatement(t), Goes(t, Past(t)) PROVE Stays(t)
    BY <1>2, AtTyped, PastLike, GoesStays
  <1>3. ASSUME AtStatement(t), NEW fs \in Seq(Frames), Pushes(t, fs) PROVE Stays(t)
    <2>1. Goes(t, Jump(t, fs)) \/ Ends(t, "err")
      BY <1>3 DEF Pushes
    <2> QED
      BY <1>1, <1>3, <2>1, AtTyped, JumpLike, GoesStays
  <1>4. CASE Exhausted(t) \/ Work(t) \/ SendOut(t) \/ Assign(t) \/ Throw(t) \/ Return(t) \/ Install(t)
    BY <1>1, <1>2, <1>4 DEF Exhausted, Work, SendOut, Assign, Throw, Return, Install, Begin
  <1>5. ASSUME AtStatement(t)
        PROVE  /\ [Here(t) EXCEPT !.at = @ + 1] \in Frames /\ Here(t) \in Frames
               /\ \A b \in Blocks : [block |-> b, at |-> 1] \in Frames
    BY <1>5, PlaceTyped, AtTyped
  <1>6. CASE If(t)
    <2> DEFINE rest == [Here(t) EXCEPT !.at = @ + 1]
               branch(b) == IF b = NoBlock THEN <<rest>> ELSE <<rest, [block |-> b, at |-> 1]>>
    <2>1. AtStatement(t) /\ s.op = "if"
      BY <1>6 DEF If, Begin
    <2>2. s.body \in Blocks /\ s.other \in Blocks \union {NoBlock}
      BY <2>1, AtTyped, StatementFields
    <2>3. ASSUME NEW b \in {s.body, s.other}, Pushes(t, branch(b)) PROVE Stays(t)
      <3>1. branch(b) \in Seq(Frames)
        <4>1. rest \in Frames /\ (b # NoBlock => [block |-> b, at |-> 1] \in Frames)
          BY <1>5, <2>1, <2>2
        <4> HIDE DEF rest
        <4> DEFINE one == <<rest>>
                   two == <<rest, [block |-> b, at |-> 1]>>
        <4>2. one \in Seq(Frames) /\ (b # NoBlock => two \in Seq(Frames))
          BY <4>1
        <4> QED
          BY <4>2
      <3> QED
        BY <1>3, <2>1, <2>3, <3>1
    <2>4. (\E b \in {s.body, s.other} : Pushes(t, branch(b))) \/ Ends(t, "err")
      BY <1>6 DEF If
    <2> QED
      BY <1>1, <2>3, <2>4
  <1>7. CASE Block(t)
    <2> DEFINE fs == <<[Here(t) EXCEPT !.at = @ + 1], [block |-> s.body, at |-> 1]>>
    <2>1. AtStatement(t) /\ s.op = "block" /\ Pushes(t, fs)
      BY <1>7 DEF Block, Begin
    <2>2. s.body \in Blocks
      BY <2>1, AtTyped, StatementFields
    <2>3. fs \in Seq(Frames)
      BY <1>5, <2>1, <2>2
    <2> QED
      BY <1>3, <2>1, <2>3
  <1>8. CASE Loop(t)
    <2> DEFINE fs == <<Here(t), [block |-> s.body, at |-> 1]>>
    <2>1. AtStatement(t) /\ s.op = "loop" /\ (Pushes(t, fs) \/ Goes(t, Past(t)) \/ Ends(t, "err"))
      BY <1>8 DEF Loop, Begin
    <2>2. s.body \in Blocks
      BY <2>1, AtTyped, StatementFields
    <2>3. fs \in Seq(Frames)
      BY <1>5, <2>1, <2>2
    <2> QED
      BY <1>1, <1>2, <1>3, <2>1, <2>3
  <1>9. CASE EndFrame(t)
    <2>1. acts[t] # <<>>
      BY <1>9 DEF EndFrame, Active
    <2>2. CASE Inner(t).frames = <<>>
      BY <1>1, <1>9, <2>2 DEF EndFrame
    <2>3. CASE Inner(t).frames # <<>>
      <3> DEFINE a == Inner(t)
                 fs == Front(a.frames)
      <3>1. a \in Activations /\ a.frames \in Seq(Frames)
        BY <2>1, InnerTyped
      <3>2. fs \in Seq(Frames)
        BY <2>3, <3>1, FrontOfSeq
      <3>3. Goes(t, [a EXCEPT !.frames = fs])
        BY <1>9, <2>3 DEF EndFrame
      <3> HIDE DEF fs
      <3>4. Like(a, [a EXCEPT !.frames = fs])
        BY <3>1, <3>2, FramesTyped
      <3> QED
        BY <2>1, <3>3, <3>4, GoesStays
    <2> QED
      BY <2>2, <2>3
  <1> QED
    BY <1>4, <1>6, <1>7, <1>8, <1>9

\* Statements that call.
LEMMA CallShapes ==
  ASSUME TypeOK, NEW t \in Threads,
         \/ ForEach(t) \/ Call(t) \/ Handle(t) \/ Migrate(t)
         \/ Nested(t, "try", "try") \/ Nested(t, "apart", "drop") \/ Nested(t, "inline", "inline")
         \/ \E how \in {"perform", "bind", "qualified"} : Perform(t, how)
  PROVE  Stays(t) \/ Starts(t) \/ Guarded(t)
  <1> DEFINE s == Stmt(t)
  <1>1. ASSUME NEW r, Ends(t, r) PROVE Stays(t)
    BY <1>1, SameStays DEF Ends
  <1>2. ASSUME AtStatement(t), Goes(t, Past(t)) PROVE Stays(t)
    BY <1>2, AtTyped, PastLike, GoesStays
  <1>3. scopes \in Seq(Scopes) /\ Len(conts) + 1 \in Nat
    <2>1. conts \in Seq(Continuations)
      BY DEF TypeOK
    <2> QED
      BY <2>1 DEF TypeOK
  <1>4. CASE ForEach(t)
    <2>1. AtStatement(t) /\ s.op = "each"
      BY <1>4 DEF ForEach, Begin
    <2>2. s.body \in Blocks
      BY <2>1, AtTyped, StatementFields
    <2>3. ASSUME NEW n \in 1 .. MaxItems, Calls(t, Item(s.body, n - 1)),
                 UNCHANGED <<scopes, conts, restored, concurrent>>
          PROVE  Starts(t)
      <3>1. n - 1 \in 0 .. MaxItems
        BY ExecutorAssumption
      <3>2. Fresh(Item(s.body, n - 1)) /\ ~Item(s.body, n - 1).guard
        BY <2>2, <3>1, ItemTyped DEF Fresh
      <3> QED
        BY <2>1, <2>3, <3>2, PlainCall
    <2> QED
      BY <1>1, <1>2, <1>4, <2>1, <2>3 DEF ForEach
  <1>5. CASE Call(t)
    <2>1. AtStatement(t) /\ s.op = "call"
      BY <1>5 DEF Call, Begin
    <2>2. s.body \in Blocks
      BY <2>1, AtTyped, StatementFields
    <2>3. Guarded(t)
      BY <1>5, <2>1, <2>2, GuardedCall, NobodyTyped DEF Call
    <2> QED
      BY <2>3
  <1>6. CASE Handle(t)
    <2>1. AtStatement(t) /\ s.op = "handle"
      BY <1>6 DEF Handle, Begin
    <2>2. s.body \in Blocks /\ s.other \in Blocks /\ s.effect \in Effects
      BY <2>1, AtTyped, StatementFields
    <2>3. [Nobody EXCEPT ![s.effect] = s.other] \in [Effects -> Blocks \union {NoBlock}]
      BY <2>2, NobodyTyped
    <2>4. Guarded(t)
      BY <1>6, <2>1, <2>2, <2>3, GuardedCall DEF Handle
    <2> QED
      BY <2>4
  <1>7. CASE Migrate(t)
    <2> DEFINE h == Handler(scopes, "depart")
    <2>1. AtStatement(t)
      BY <1>7 DEF Migrate, Begin
    <2>2. h \in Blocks \union {NoBlock}
      BY <1>3, HandlerTyped DEF Effects
    <2>3. CASE h = NoBlock
      BY <1>1, <1>7, <2>3 DEF Migrate
    <2>4. CASE h # NoBlock
      <3>1. /\ Calls(t, Activation(h, 1, "depart", TRUE)) /\ scopes' = NewScope(t, scopes, Nobody, 0)
            /\ UNCHANGED <<conts, restored, concurrent>>
        BY <1>7, <2>4 DEF Migrate
      <3> HIDE DEF h
      <3>2. Guarded(t)
        BY <2>1, <2>2, <2>4, <3>1, GuardedCall, NobodyTyped
      <3> QED
        BY <3>2
    <2> QED
      BY <2>3, <2>4
  <1>8. ASSUME NEW op \in {"try", "apart", "inline"}, NEW use \in {"try", "drop", "inline"}, Nested(t, op, use),
               use = "try" <=> op = "try"
        PROVE  Starts(t)
    <2> DEFINE b == Activation(s.body, 1, use, FALSE)
               o == IF op = "try" THEN s.other ELSE NoBlock
               a == [b EXCEPT !.other = o]
    <2>1. AtStatement(t) /\ s.op = op /\ Calls(t, a) /\ UNCHANGED <<scopes, conts, restored, concurrent>>
      BY <1>8 DEF Nested, Begin
    <2>2. s.body \in Blocks /\ o \in Blocks \union {NoBlock} /\ (op = "try" => o \in Blocks)
      BY <2>1, AtTyped, StatementFields
    <2>3. b \in Activations /\ b.use = use /\ ~b.guard
      <3>1. use \in Uses /\ 1 \in Nat \ {0} /\ FALSE \in BOOLEAN
        BY DEF Uses
      <3> QED
        BY <2>2, <3>1, ActivationTyped
    <2> HIDE DEF b, o
    <2>4. a \in Activations /\ a.use = use /\ ~a.guard /\ a.other = o
      BY <2>2, <2>3 DEF Activations
    <2> HIDE DEF a
    <2>5. Fresh(a)
      BY <1>8, <2>2, <2>4 DEF Fresh
    <2> QED
      BY <2>1, <2>4, <2>5, PlainCall
  <1>9. ASSUME NEW how \in {"perform", "bind", "qualified"}, Perform(t, how)
        PROVE  Stays(t) \/ Guarded(t)
    <2> DEFINE h == Handler(scopes, "user")
               c == [block |-> Here(t).block, at |-> Here(t).at, how |-> how, scopes |-> scopes, resumed |-> 0]
    <2>1. AtStatement(t)
      BY <1>9 DEF Perform, Begin
    <2>2. h \in Blocks \union {NoBlock}
      BY <1>3, HandlerTyped DEF Effects
    <2>3. CASE NativeEffect(t, how)
      BY <1>1, <1>2, <2>1, <2>3 DEF NativeEffect
    <2>4. CASE Ends(t, "err")
      BY <1>1, <2>4
    <2>5. CASE /\ h # NoBlock
               /\ conts' = Append(conts, c)
               /\ scopes' = NewScope(t, scopes, Nobody, Len(conts) + 1)
               /\ Calls(t, Activation(h, 1, HandlerUse(how), TRUE))
               /\ UNCHANGED <<restored, concurrent>>
      <3>1. c \in Continuations /\ c.scopes = scopes
        <4>1. Here(t).block \in Blocks /\ Here(t).at \in Nat
          BY <2>1, AtTyped DEF Frames
        <4> QED
          BY <1>3, <4>1 DEF Continuations
      <3>2. HandlerUse(how) \in {"call", "handle", "drop", "tail", "depart"}
        BY DEF HandlerUse
      <3>3. h \in Blocks
        BY <2>2, <2>5
      <3> HIDE DEF h, c
      <3>4. Guarded(t)
        BY <1>3, <2>1, <2>5, <3>1, <3>2, <3>3, GuardedCall, NobodyTyped
      <3> QED
        BY <3>4
    <2>6. \/ NativeEffect(t, how)
          \/ Ends(t, "err")
          \/ /\ h # NoBlock
             /\ conts' = Append(conts, c)
             /\ scopes' = NewScope(t, scopes, Nobody, Len(conts) + 1)
             /\ Calls(t, Activation(h, 1, HandlerUse(how), TRUE))
             /\ UNCHANGED <<restored, concurrent>>
      BY <1>9 DEF Perform
    <2> QED
      BY <2>3, <2>4, <2>5, <2>6
  <1> QED
    BY <1>4, <1>5, <1>6, <1>7, <1>8, <1>9

\* An activation whose result is delivered goes.
LEMMA LeaveShapes ==
  ASSUME TypeOK, Based, NEW t \in Threads,
         GoOn(t) \/ PassOn(t) \/ Departed(t) \/ ThreadEnds(t)
  PROVE  Leaves(t)
  <1>1. /\ acts[t] # <<>> /\ DropGuard(t) /\ UNCHANGED <<conts, restored, concurrent>>
        /\ \/ acts' = [acts EXCEPT ![t] = Front(@)]
           \/ acts' = [acts EXCEPT ![t] = <<>>] /\ Inner(t).use = "top"
    BY DEF GoOn, PassOn, Departed, ThreadEnds, Deliver
  <1>2. /\ acts[t] \in Seq(Activations) /\ Inner(t) = acts[t][Len(acts[t])] /\ Len(acts[t]) \in Nat \ {0}
        /\ Front(acts[t]) \in Seq(Activations) /\ Len(Front(acts[t])) = Len(acts[t]) - 1
    BY <1>1, InnerTyped, FrontOfSeq
  <1>3. Inner(t).use = "top" => Front(acts[t]) = <<>>
    <2>1. Inner(t).use = "top" => Len(acts[t]) = 1
      <3>1. Len(acts[t]) \in DOMAIN acts[t]
        BY <1>2
      <3> QED
        BY <1>2, <3>1 DEF Based, Rooted
    <2> HIDE DEF Front
    <2> QED
      BY <1>2, <2>1
  <1>4. acts' = [acts EXCEPT ![t] = Front(acts[t])]
    BY <1>1, <1>3
  <1>5. Becomes(t, Front(acts[t]))
    BY <1>2, <1>4, BecomesOne
  <1> QED
    BY <1>1, <1>5 DEF Leaves

\* Another activation takes the place of the one that ended.
LEMMA SwapShapes ==
  ASSUME TypeOK, Based, NEW t \in Threads, Catch(t) \/ NextItem(t) \/ Arrived(t)
  PROVE  Swaps(t)
  <1> DEFINE n == Len(acts[t])
  <1>1. /\ acts[t] # <<>> /\ DropGuard(t) /\ UNCHANGED <<conts, restored, concurrent>>
        /\ Inner(t).use \in {"try", "each", "arrive"}
    BY DEF Catch, NextItem, Arrived, Deliver
  <1>2. /\ acts[t] \in Seq(Activations) /\ Inner(t) = acts[t][n] /\ n \in DOMAIN acts[t]
        /\ Inner(t) \in Activations /\ Front(acts[t]) \in Seq(Activations)
    BY <1>1, InnerTyped, FrontOfSeq
  <1>3. /\ Inner(t).use \in {"try", "each"} => Inner(t).other \in Blocks
        /\ Inner(t).use = "arrive" => Inner(t).k \in DOMAIN conts
    <2>1. Rooted(Inner(t), n, Len(conts)) /\ DOMAIN conts = 1 .. Len(conts)
      BY <1>2 DEF Based, TypeOK
    <2> QED
      BY <2>1 DEF Rooted
  <1>4. ASSUME NEW a, Fresh(a), ~a.guard, Follow(t, a) PROVE Swaps(t)
    <2>1. acts' = [acts EXCEPT ![t] = Append(Front(acts[t]), a)]
      <3>1. Front(acts[t]) \o <<a>> = Append(Front(acts[t]), a)
        <4> HIDE DEF Front
        <4> QED
          BY <1>2, <1>4 DEF Fresh
      <3> QED
        BY <1>4, <3>1 DEF Follow
    <2>2. Append(Front(acts[t]), a) \in Seq(Activations)
      BY <1>2, <1>4 DEF Fresh
    <2>3. Becomes(t, Append(Front(acts[t]), a))
      BY <2>1, <2>2, BecomesOne
    <2> QED
      BY <1>1, <1>4, <2>3 DEF Swaps
  <1>5. "catch" \in Uses /\ "drop" \in Uses /\ 1 \in Nat \ {0} /\ FALSE \in BOOLEAN
    BY DEF Uses
  <1>6. CASE Catch(t)
    <2> DEFINE a == Activation(Inner(t).other, 1, "catch", FALSE)
    <2>1. Follow(t, a) /\ Inner(t).other \in Blocks
      BY <1>3, <1>6 DEF Catch, Deliver
    <2>2. a \in Activations /\ a.use = "catch" /\ ~a.guard
      BY <1>5, <2>1, ActivationTyped
    <2> HIDE DEF a
    <2> QED
      BY <1>4, <2>1, <2>2 DEF Fresh
  <1>7. CASE NextItem(t)
    <2> DEFINE a == Item(Inner(t).other, Inner(t).left - 1)
    <2>1. Follow(t, a) /\ Inner(t).other \in Blocks /\ Inner(t).left > 0
      BY <1>3, <1>7 DEF NextItem, Deliver
    <2>2. Inner(t).left - 1 \in 0 .. MaxItems
      BY <1>2, <2>1, ExecutorAssumption DEF Activations
    <2>3. a \in Activations /\ a.use = "each" /\ ~a.guard /\ a.other \in Blocks
      BY <2>1, <2>2, ItemTyped
    <2> HIDE DEF a
    <2> QED
      BY <1>4, <2>1, <2>3 DEF Fresh
  <1>8. CASE Arrived(t)
    <2>1. Inner(t).k \in DOMAIN conts /\ conts \in Seq(Continuations)
      BY <1>3, <1>8 DEF Arrived, Deliver, TypeOK
    <2>2. CASE conts[Inner(t).k].how = "qualified"
      <3> DEFINE b == Activation(Main, 1, "drop", FALSE)
                 fs == <<>>
                 a == [b EXCEPT !.frames = fs]
      <3>0. fs \in Seq(Frames)
        OBVIOUS
      <3>1. b \in Activations /\ b.use = "drop" /\ ~b.guard
        BY <1>5, ActivationTyped, ExecutorAssumption
      <3>2. Follow(t, a)
        BY <1>8, <2>2 DEF Arrived
      <3> HIDE DEF b, fs
      <3>3. Like(b, a)
        BY <3>0, <3>1, FramesTyped
      <3> HIDE DEF a
      <3> QED
        BY <1>4, <3>1, <3>2, <3>3 DEF Fresh, Like
    <2>3. CASE conts[Inner(t).k].how # "qualified"
      <3> DEFINE a == Continuation(Inner(t).k)
      <3>1. conts[Inner(t).k] \in Continuations
        BY <2>1
      <3>2. conts[Inner(t).k].block \in Blocks /\ conts[Inner(t).k].at + 1 \in Nat \ {0}
        BY <3>1 DEF Continuations
      <3>3. a \in Activations /\ a.use = "drop" /\ ~a.guard
        BY <1>5, <3>2, ActivationTyped DEF Continuation
      <3>4. Follow(t, a)
        BY <1>8, <2>3 DEF Arrived
      <3> HIDE DEF a
      <3> QED
        BY <1>4, <3>3, <3>4 DEF Fresh
    <2> QED
      BY <2>2, <2>3
  <1> QED
    BY <1>6, <1>7, <1>8

\* Every step has a shape.
LEMMA Shapes ==
  ASSUME TypeOK, Based, KnownScopes, NEW t \in Threads, Step(t)
  PROVE  Stays(t) \/ Starts(t) \/ Guarded(t) \/ Leaves(t) \/ Swaps(t) \/ Resumes(t) \/ Spawns(t)
  <1>1. CASE \/ Exhausted(t) \/ Work(t) \/ SendOut(t) \/ Assign(t) \/ Throw(t) \/ Return(t) \/ Install(t)
             \/ If(t) \/ Block(t) \/ Loop(t) \/ EndFrame(t)
    BY <1>1, SimpleShapes
  <1>2. CASE \/ ForEach(t) \/ Call(t) \/ Handle(t) \/ Migrate(t)
             \/ Nested(t, "try", "try") \/ Nested(t, "apart", "drop") \/ Nested(t, "inline", "inline")
             \/ \E how \in {"perform", "bind", "qualified"} : Perform(t, how)
    BY <1>2, CallShapes
  <1>3. CASE GoOn(t) \/ PassOn(t) \/ Departed(t) \/ ThreadEnds(t)
    BY <1>3, LeaveShapes
  <1>4. CASE Catch(t) \/ NextItem(t) \/ Arrived(t)
    BY <1>4, SwapShapes
  <1> QED
    BY <1>1, <1>2, <1>3, <1>4, ResumeShape, ConcurrentShape, DaemonShape DEF Step

-----------------------------------------------------------------------------
(* Types *)

\* What the shapes leave out.
LEMMA OthersTyped ==
  ASSUME TypeOK, NEW t \in Threads, Step(t)
  PROVE  /\ Code' \in Programs
         /\ out' \in [Threads -> {"run", "none", "some", "err"}]
         /\ parent' \in [Threads -> Threads \union {NoThread}]
         /\ gas' \in 0 .. GasLimit
         /\ ran' \in [Blocks -> Seq(Nat)] /\ \A b \in Blocks : Len(ran'[b]) = Len(Code'[b])
         /\ spilled' \in BOOLEAN
  <1>1. Code' = Code
    BY DEF Step, Begin, Deliver, Exhausted, Work, SendOut, Assign, Throw, Return, Install, If, Block, Loop, ForEach,
           Call, Handle, Nested, Perform, Resume, Migrate, Concurrent, Daemon, EndFrame, GoOn, PassOn, Catch,
           NextItem, Arrived, Departed, ThreadEnds
  <1>2. out' = out \/ \E r \in {"run", "none", "some", "err"} : out' = [out EXCEPT ![t] = r]
    BY DEF Step, Goes, Ends, Pushes, NativeEffect, Follow, Exhausted, Work, SendOut, Assign, Throw, Return, Install, If,
           Block, Loop, ForEach, Call, Handle, Nested, Perform, Resume, Migrate, Concurrent, Daemon, EndFrame,
           GoOn, PassOn, Catch, NextItem, Arrived, Departed, ThreadEnds
  <1>3. parent' \in [Threads -> Threads \union {NoThread}]
    <2>1. CASE Concurrent(t)
      BY <2>1 DEF Concurrent, TypeOK
    <2>2. CASE ThreadEnds(t)
      BY <2>2 DEF ThreadEnds, TypeOK
    <2>3. Concurrent(t) \/ ThreadEnds(t) \/ parent' = parent
      BY DEF Step, Goes, Ends, Pushes, NativeEffect, Follow, Exhausted, Work, SendOut, Assign, Throw, Return, Install,
             If, Block, Loop, ForEach, Call, Handle, Nested, Perform, Resume, Migrate, Daemon, EndFrame,
             GoOn, PassOn, Catch, NextItem, Arrived, Departed
    <2> QED
      BY <2>1, <2>2, <2>3 DEF TypeOK
  <1>4. UNCHANGED <<gas, ran>> \/ (AtStatement(t) /\ gas < GasLimit /\ gas' = gas + 1 /\ Count(t))
    BY DEF Step, Begin, Deliver, Exhausted, Work, SendOut, Assign, Throw, Return, Install, If, Block, Loop, ForEach,
           Call, Handle, Nested, Perform, Resume, Migrate, Concurrent, Daemon, EndFrame, GoOn, PassOn, Catch,
           NextItem, Arrived, Departed, ThreadEnds
  <1>5. gas' \in 0 .. GasLimit
    BY <1>4, ExecutorAssumption DEF TypeOK
  <1>6. ran' \in [Blocks -> Seq(Nat)] /\ \A b \in Blocks : Len(ran'[b]) = Len(Code[b])
    <2>1. CASE ran' = ran
      BY <2>1 DEF TypeOK
    <2>2. CASE AtStatement(t) /\ Count(t)
      <3> DEFINE b == Here(t).block
                 i == Here(t).at
                 r == [ran[b] EXCEPT ![i] = ran[b][i] + 1]
      <3>1. b \in Blocks /\ i \in DOMAIN Code[b]
        BY <2>2, AtTyped
      <3>2. ran[b] \in Seq(Nat) /\ Len(ran[b]) = Len(Code[b]) /\ Code[b] \in Seq(Statements)
        BY <3>1, ExecutorAssumption DEF TypeOK
      <3>3. i \in 1 .. Len(ran[b]) /\ ran[b][i] + 1 \in Nat
        BY <3>1, <3>2
      <3>4. r \in Seq(Nat) /\ Len(r) = Len(ran[b])
        BY <3>2, <3>3, ExceptSeq
      <3>5. ran' = [ran EXCEPT ![b] = r]
        BY <2>2 DEF Count
      <3> HIDE DEF r
      <3> QED
        BY <3>1, <3>2, <3>4, <3>5 DEF TypeOK
    <2> QED
      BY <1>4, <2>1, <2>2
  <1>7. spilled' \in BOOLEAN
    <2>1. spilled' = spilled \/ SetVar(t)
      BY DEF Step, Deliver, Exhausted, Work, SendOut, Assign, Throw, Return, Install, If, Block, Loop, ForEach,
             Call, Handle, Nested, Perform, Resume, Migrate, Concurrent, Daemon, EndFrame, GoOn, PassOn, Catch,
             NextItem, Arrived, Departed, ThreadEnds
    <2> QED
      BY <2>1 DEF SetVar, TypeOK
  <1> QED
    BY <1>1, <1>2, <1>3, <1>5, <1>6, <1>7 DEF TypeOK

-----------------------------------------------------------------------------
(* The activations after a step *)

\* A property of the activations of a sequence survives what a step does to it.
LEMMA RootedAlike ==
  ASSUME NEW s \in Seq(Activations), NEW r, Alike(r, s), NEW c \in Nat, NEW d \in Nat, c <= d,
         \A i \in DOMAIN s : Rooted(s[i], i, c)
  PROVE  r \in Seq(Activations) /\ \A i \in DOMAIN r : Rooted(r[i], i, d)
  <1>1. r \in Seq(Activations) /\ DOMAIN r = DOMAIN s /\ DOMAIN s = 1 .. Len(s)
    BY DEF Alike
  <1>2. \A i \in DOMAIN s : Like(s[i], r[i])
    BY <1>1 DEF Alike
  <1>3. 1 .. c \subseteq 1 .. d
    OBVIOUS
  <1> QED
    BY <1>1, <1>2, <1>3 DEF Like, Rooted

LEMMA RootedAppend ==
  ASSUME NEW r \in Seq(Activations), NEW a \in Activations, NEW c \in Nat,
         \A i \in DOMAIN r : Rooted(r[i], i, c), Rooted(a, Len(r) + 1, c)
  PROVE  LET s == Append(r, a) IN s \in Seq(Activations) /\ \A i \in DOMAIN s : Rooted(s[i], i, c)
  <1> DEFINE s == Append(r, a)
  <1>1. s \in Seq(Activations) /\ DOMAIN s = 1 .. Len(r) + 1 /\ DOMAIN r = 1 .. Len(r)
    OBVIOUS
  <1>2. \A i \in 1 .. Len(r) : s[i] = r[i]
    OBVIOUS
  <1>3. s[Len(r) + 1] = a
    OBVIOUS
  <1>4. \A i \in 1 .. Len(r) + 1 : i \in 1 .. Len(r) \/ i = Len(r) + 1
    OBVIOUS
  <1> HIDE DEF s
  <1>5. \A i \in DOMAIN s : Rooted(s[i], i, c)
    BY <1>1, <1>2, <1>3, <1>4
  <1> QED
    BY <1>1, <1>5 DEF s

LEMMA RootedFront ==
  ASSUME NEW s \in Seq(Activations), s # <<>>, NEW c \in Nat, \A i \in DOMAIN s : Rooted(s[i], i, c)
  PROVE  Front(s) \in Seq(Activations) /\ \A i \in DOMAIN Front(s) : Rooted(Front(s)[i], i, c)
  <1>1. /\ Front(s) \in Seq(Activations) /\ Len(Front(s)) = Len(s) - 1
        /\ \A i \in 1 .. Len(s) - 1 : Front(s)[i] = s[i]
    BY FrontOfSeq
  <1>2. DOMAIN Front(s) = 1 .. Len(s) - 1 /\ 1 .. Len(s) - 1 \subseteq DOMAIN s
    BY <1>1
  <1> QED
    BY <1>1, <1>2

\* A fresh activation is fine wherever it starts.
LEMMA RootedFresh ==
  ASSUME NEW a, Fresh(a), NEW i, NEW c
  PROVE  Rooted(a, i, c)
  BY DEF Fresh, Rooted

\* No continuation ever goes.
LEMMA ContsGrow ==
  ASSUME TypeOK, NEW t \in Threads,
         Stays(t) \/ Starts(t) \/ Guarded(t) \/ Leaves(t) \/ Swaps(t) \/ Resumes(t) \/ Spawns(t)
  PROVE  conts' \in Seq(Continuations) /\ Len(conts) \in Nat /\ Len(conts') \in Nat /\ Len(conts) <= Len(conts')
  <1>1. conts \in Seq(Continuations) /\ Len(conts) \in Nat
    BY DEF TypeOK
  <1>2. \/ conts' = conts
        \/ conts' \in Seq(Continuations) /\ Len(conts') = Len(conts)
        \/ \E c \in Continuations : conts' = Append(conts, c)
    BY DEF Stays, Starts, Guarded, Leaves, Swaps, Resumes, Restores, Spawns
  <1>3. ASSUME NEW c \in Continuations, conts' = Append(conts, c)
        PROVE  conts' \in Seq(Continuations) /\ Len(conts') = Len(conts) + 1
    BY <1>1, <1>3
  <1> QED
    BY <1>1, <1>2, <1>3

\* What an activation needs when it has ended is there.
LEMMA BasedNext ==
  ASSUME TypeOK, Based, KnownScopes, NEW t \in Threads,
         Stays(t) \/ Starts(t) \/ Guarded(t) \/ Leaves(t) \/ Swaps(t) \/ Resumes(t) \/ Spawns(t)
  PROVE  acts' \in [Threads -> Seq(Activations)] /\ Based'
  <1> DEFINE c == Len(conts)
             d == Len(conts')
             Fine(s) == s \in Seq(Activations) /\ \A i \in DOMAIN s : Rooted(s[i], i, d)
  <1>1. c \in Nat /\ d \in Nat /\ c <= d
    BY ContsGrow
  <1>2. \A u \in Threads : acts[u] \in Seq(Activations) /\ \A i \in DOMAIN acts[u] : Rooted(acts[u][i], i, c)
    BY DEF TypeOK, Based
  <1>3. acts' \in [Threads -> Seq(Activations)]
    BY DEF Stays, Starts, Guarded, Leaves, Swaps, Resumes, Restores, Spawns, Becomes
  <1>4. ASSUME NEW u \in Threads PROVE Fine(acts[u])
    <2>1. Alike(acts[u], acts[u])
      BY <1>2, AlikeSame
    <2> QED
      BY <1>1, <1>2, <2>1, RootedAlike
  <1>5. ASSUME NEW r, Alike(r, acts[t]) PROVE Fine(r)
    BY <1>1, <1>2, <1>5, RootedAlike
  <1>6. ASSUME NEW r, Fine(r), NEW a \in Activations, Rooted(a, Len(r) + 1, d) PROVE Fine(Append(r, a))
    BY <1>1, <1>6, RootedAppend
  <1>7. acts[t] # <<>> => Fine(Front(acts[t]))
    BY <1>1, <1>4, RootedFront
  <1>8. ASSUME NEW a \in Activations, a.use = "top", ~a.guard PROVE Fine(<<a>>)
    <2>1. Rooted(a, 1, d)
      BY <1>8 DEF Rooted
    <2> QED
      BY <1>8, <2>1
  <1>9. DOMAIN conts \subseteq 1 .. d
    BY <1>1 DEF TypeOK
  <1> HIDE DEF Fine, c, d
  <1>10. Spawns(t) \/ \A u \in Threads \ {t} : acts'[u] = acts[u]
    BY DEF Stays, Starts, Guarded, Leaves, Swaps, Resumes, Restores, Becomes
  <1>11. Fine(acts'[t])
    <2>1. CASE Stays(t)
      BY <1>5, <2>1 DEF Stays, Becomes
    <2>2. CASE Starts(t)
      <3>1. PICK r, a : Alike(r, acts[t]) /\ Fresh(a) /\ Becomes(t, Append(r, a))
        BY <2>2 DEF Starts
      <3> QED
        BY <1>5, <1>6, <3>1, RootedFresh DEF Fresh, Becomes
    <2>3. CASE Guarded(t)
      <3>1. PICK r, a : Alike(r, acts[t]) /\ Fresh(a) /\ Becomes(t, Append(r, a))
        BY <2>3 DEF Guarded
      <3> QED
        BY <1>5, <1>6, <3>1, RootedFresh DEF Fresh, Becomes
    <2>4. CASE Leaves(t)
      BY <1>7, <2>4 DEF Leaves, Becomes
    <2>5. CASE Swaps(t)
      <3>1. PICK a : Fresh(a) /\ Becomes(t, Append(Front(acts[t]), a))
        BY <2>5 DEF Swaps
      <3> QED
        BY <1>6, <1>7, <2>5, <3>1, RootedFresh DEF Fresh, Becomes, Swaps
    <2>6. CASE Resumes(t)
      <3>1. PICK r : /\ Alike(r, acts[t])
                     /\ \/ Becomes(t, r)
                        \/ \E a : Fresh(a) /\ Becomes(t, Append(r, a))
                        \/ \E a \in Activations : /\ a.use = "arrive" /\ a.k \in DOMAIN conts
                                                  /\ Becomes(t, Append(r, a))
        BY <2>6 DEF Resumes, Restores
      <3>2. CASE Becomes(t, r)
        BY <1>5, <3>1, <3>2 DEF Becomes
      <3>3. ASSUME NEW a, Fresh(a), Becomes(t, Append(r, a)) PROVE Fine(acts'[t])
        BY <1>5, <1>6, <3>1, <3>3, RootedFresh DEF Fresh, Becomes
      <3>4. ASSUME NEW a \in Activations, a.use = "arrive", a.k \in DOMAIN conts, Becomes(t, Append(r, a))
            PROVE  Fine(acts'[t])
        <4>1. Rooted(a, Len(r) + 1, d)
          BY <1>9, <3>4 DEF Rooted
        <4> QED
          BY <1>5, <1>6, <3>1, <3>4, <4>1 DEF Becomes
      <3> QED
        BY <3>1, <3>2, <3>3, <3>4
    <2>7. CASE Spawns(t)
      BY <1>5, <2>7 DEF Spawns
    <2> QED
      BY <2>1, <2>2, <2>3, <2>4, <2>5, <2>6, <2>7
  <1>12. \A u \in Threads : Fine(acts'[u])
    <2>1. ASSUME NEW u \in Threads \ {t} PROVE Fine(acts'[u])
      <3>1. acts'[u] = acts[u] \/ \E a \in Activations : a.use = "top" /\ ~a.guard /\ acts'[u] = <<a>>
        BY <1>10 DEF Spawns
      <3> QED
        BY <1>4, <1>8, <3>1
    <2> QED
      BY <1>11, <2>1
  <1>13. Based'
    BY <1>12 DEF Based, Fine, d
  <1> QED
    BY <1>3, <1>13

-----------------------------------------------------------------------------
(* The scopes after a step *)

\* A prefix of a stack, and a stack with one scope more.
LEMMA KnownFront ==
  ASSUME NEW s \in Seq(Scopes), s # <<>>, NEW cs, Known(s, cs)
  PROVE  Front(s) \in Seq(Scopes) /\ Known(Front(s), cs)
  <1>1. /\ Front(s) \in Seq(Scopes) /\ Len(Front(s)) = Len(s) - 1
        /\ \A i \in 1 .. Len(s) - 1 : Front(s)[i] = s[i]
    BY FrontOfSeq
  <1>2. DOMAIN Front(s) = 1 .. Len(s) - 1 /\ 1 .. Len(s) - 1 \subseteq DOMAIN s
    BY <1>1
  <1> QED
    BY <1>1, <1>2 DEF Known

LEMMA KnownAppend ==
  ASSUME NEW s \in Seq(Scopes), NEW cs, Known(s, cs), NEW sc \in Scopes,
         sc.k # 0 => sc.k \in DOMAIN cs /\ Len(cs[sc.k].scopes) < Len(s) + 1
  PROVE  Append(s, sc) \in Seq(Scopes) /\ Known(Append(s, sc), cs)
  <1> DEFINE r == Append(s, sc)
  <1>1. r \in Seq(Scopes) /\ DOMAIN r = 1 .. Len(s) + 1 /\ DOMAIN s = 1 .. Len(s)
    OBVIOUS
  <1>2. (\A i \in 1 .. Len(s) : r[i] = s[i]) /\ r[Len(s) + 1] = sc
    OBVIOUS
  <1>3. \A i \in 1 .. Len(s) + 1 : i \in 1 .. Len(s) \/ i = Len(s) + 1
    OBVIOUS
  <1> HIDE DEF r
  <1>4. Known(r, cs)
    BY <1>1, <1>2, <1>3 DEF Known
  <1> QED
    BY <1>1, <1>4 DEF r

\* More continuations, with the scopes they had, change nothing.
LEMMA KnownMore ==
  ASSUME NEW s, NEW cs, Known(s, cs), NEW ds, DOMAIN cs \subseteq DOMAIN ds,
         \A c \in DOMAIN cs : ds[c].scopes = cs[c].scopes
  PROVE  Known(s, ds)
  BY DEF Known

\* What is known stays known.
LEMMA KnownNext ==
  ASSUME TypeOK, KnownScopes, NEW t \in Threads,
         Stays(t) \/ Starts(t) \/ Guarded(t) \/ Leaves(t) \/ Swaps(t) \/ Resumes(t) \/ Spawns(t)
  PROVE  scopes' \in Seq(Scopes) /\ KnownScopes'
  <1>1. /\ scopes \in Seq(Scopes) /\ conts \in Seq(Continuations) /\ Known(scopes, conts)
        /\ \A c \in DOMAIN conts : Known(conts[c].scopes, conts) /\ conts[c].scopes \in Seq(Scopes)
    <2>1. scopes \in Seq(Scopes) /\ conts \in Seq(Continuations) /\ Known(scopes, conts)
      BY DEF TypeOK, KnownScopes
    <2>2. ASSUME NEW c \in DOMAIN conts PROVE Known(conts[c].scopes, conts) /\ conts[c].scopes \in Seq(Scopes)
      <3>1. conts[c] \in Continuations
        BY <2>1
      <3> QED
        BY <3>1 DEF KnownScopes, Continuations
    <2> QED
      BY <2>1, <2>2
  <1>2. CASE Stays(t) \/ Starts(t) \/ Spawns(t)
    BY <1>1, <1>2 DEF Stays, Starts, Spawns, KnownScopes
  <1>3. CASE Leaves(t) \/ Swaps(t)
    <2>1. conts' = conts /\ (scopes' = scopes \/ (scopes # <<>> /\ scopes' = Front(scopes)))
      BY <1>3 DEF Leaves, Swaps, DropGuard
    <2> QED
      BY <1>1, <2>1, KnownFront DEF KnownScopes
  <1>4. CASE Guarded(t)
    <2>1. PICK sc : /\ sc \in Scopes /\ scopes' = Append(scopes, sc)
                    /\ \/ sc.k = 0 /\ conts' = conts
                       \/ sc.k = Len(conts) + 1
                          /\ \E c \in Continuations : c.scopes = scopes /\ conts' = Append(conts, c)
      BY <1>4 DEF Guarded, Opens
    <2>2. CASE sc.k = 0 /\ conts' = conts
      BY <1>1, <2>1, <2>2, KnownAppend DEF KnownScopes
    <2>3. ASSUME sc.k = Len(conts) + 1, NEW c \in Continuations, c.scopes = scopes, conts' = Append(conts, c)
          PROVE  scopes' \in Seq(Scopes) /\ KnownScopes'
      <3> DEFINE ds == Append(conts, c)
      <3>1. /\ DOMAIN ds = 1 .. Len(conts) + 1 /\ DOMAIN conts = 1 .. Len(conts)
            /\ Len(conts) \in Nat /\ Len(scopes) \in Nat
            /\ (\A i \in DOMAIN conts : ds[i] = conts[i]) /\ ds[Len(conts) + 1] = c
        BY <1>1
      <3> HIDE DEF ds
      <3>2. DOMAIN conts \subseteq DOMAIN ds /\ \A i \in DOMAIN ds : i \in DOMAIN conts \/ i = Len(conts) + 1
        BY <3>1
      <3>3. Known(scopes, ds) /\ \A i \in DOMAIN conts : Known(conts[i].scopes, ds)
        BY <1>1, <3>1, <3>2, KnownMore
      <3>4. \A i \in DOMAIN ds : Known(ds[i].scopes, ds)
        BY <2>3, <3>1, <3>2, <3>3
      <3>5. sc.k \in DOMAIN ds /\ Len(ds[sc.k].scopes) < Len(scopes) + 1
        BY <2>3, <3>1
      <3>6. Append(scopes, sc) \in Seq(Scopes) /\ Known(Append(scopes, sc), ds)
        BY <1>1, <2>1, <3>3, <3>5, KnownAppend
      <3> QED
        BY <2>1, <2>3, <3>4, <3>6 DEF KnownScopes, ds
    <2> QED
      BY <2>1, <2>2, <2>3
  <1>5. CASE Resumes(t)
    <2>1. PICK k \in DOMAIN conts : Restores(t, k)
      BY <1>5 DEF Resumes
    <2> DEFINE s == conts[k].scopes
    <2>2. /\ conts' \in Seq(Continuations) /\ Len(conts') = Len(conts)
          /\ \A c \in DOMAIN conts : conts'[c].scopes = conts[c].scopes
          /\ k \in DOMAIN conts
      BY <2>1 DEF Restores
    <2>3. DOMAIN conts' = DOMAIN conts
      BY <1>1, <2>2
    <2>4. \A c \in DOMAIN conts : Known(conts[c].scopes, conts')
      BY <1>1, <2>2, <2>3 DEF Known
    <2>5. s \in Seq(Scopes) /\ Known(s, conts')
      BY <1>1, <2>2, <2>4
    <2>6. scopes' = s \/ \E sc \in Scopes : sc.k = 0 /\ scopes' = Append(s, sc)
      BY <2>1 DEF Restores, Opens
    <2> HIDE DEF s
    <2>7. scopes' \in Seq(Scopes) /\ Known(scopes', conts')
      BY <2>5, <2>6, KnownAppend
    <2> QED
      BY <2>2, <2>3, <2>4, <2>7 DEF KnownScopes
  <1> QED
    BY <1>2, <1>3, <1>4, <1>5

\* The types of the whole state, step by step.
LEMMA TypeNext ==
  ASSUME TypeOK, Based, KnownScopes, NEW t \in Threads, Step(t)
  PROVE  TypeOK' /\ Based' /\ KnownScopes'
  <1>1. Stays(t) \/ Starts(t) \/ Guarded(t) \/ Leaves(t) \/ Swaps(t) \/ Resumes(t) \/ Spawns(t)
    BY Shapes
  <1>2. acts' \in [Threads -> Seq(Activations)] /\ Based' /\ scopes' \in Seq(Scopes) /\ KnownScopes'
        /\ conts' \in Seq(Continuations)
    BY <1>1, BasedNext, KnownNext, ContsGrow
  <1>3. restored' \subseteq {"resume", "revive"} /\ concurrent' \in BOOLEAN
    BY <1>1 DEF TypeOK, Stays, Starts, Guarded, Leaves, Swaps, Resumes, Restores, Spawns
  <1> QED
    BY <1>2, <1>3, OthersTyped DEF TypeOK

\* The start.
LEMMA TypeInit ==
  ASSUME Init
  PROVE  TypeOK /\ Based /\ KnownScopes
  <1> DEFINE a == Activation(Main, 1, "top", FALSE)
  <1>1. a \in Activations /\ a.use = "top" /\ ~a.guard
    <2>1. "top" \in Uses /\ 1 \in Nat \ {0} /\ FALSE \in BOOLEAN
      BY DEF Uses
    <2> QED
      BY <2>1, ActivationTyped, ExecutorAssumption
  <1>2. acts = [t \in Threads |-> IF t = First THEN <<a>> ELSE <<>>]
    BY DEF Init
  <1> HIDE DEF a
  <1>3. /\ acts \in [Threads -> Seq(Activations)]
        /\ \A t \in Threads : \A i \in DOMAIN acts[t] : i = 1 /\ acts[t][i] = a
    BY <1>1, <1>2
  <1>4. ran \in [Blocks -> Seq(Nat)] /\ \A b \in Blocks : Len(ran[b]) = Len(Code[b])
    <2>1. ASSUME NEW b \in Blocks PROVE ran[b] \in Seq(Nat) /\ Len(ran[b]) = Len(Code[b])
      <3>1. Code[b] \in Seq(Statements) /\ ran[b] = [i \in DOMAIN Code[b] |-> 0]
        BY ExecutorAssumption DEF Init
      <3>2. DOMAIN Code[b] = 1 .. Len(Code[b]) /\ Len(Code[b]) \in Nat
        BY <3>1
      <3> QED
        BY <3>1, <3>2
    <2>2. ran = [b \in Blocks |-> ran[b]]
      BY DEF Init
    <2> QED
      BY <2>1, <2>2
  <1>5. scopes = <<>> /\ conts = <<>>
    BY DEF Init
  <1>6. TypeOK
    <2>1. Code \in Programs /\ out \in [Threads -> {"run", "none", "some", "err"}]
          /\ parent \in [Threads -> Threads \union {NoThread}]
      BY DEF Init
    <2>2. gas = 0 /\ restored = {} /\ concurrent = FALSE /\ spilled = FALSE /\ GasLimit \in Nat
      BY ExecutorAssumption DEF Init
    <2>4. gas \in 0 .. GasLimit
      BY <2>2
    <2>5. restored \subseteq {"resume", "revive"} /\ concurrent \in BOOLEAN /\ spilled \in BOOLEAN
      BY <2>2
    <2>3. scopes \in Seq(Scopes) /\ conts \in Seq(Continuations)
      BY <1>5
    <2> QED
      BY <1>3, <1>4, <2>1, <2>3, <2>4, <2>5 DEF TypeOK
  <1>7. Based
    BY <1>1, <1>3 DEF Based, Rooted
  <1>8. KnownScopes
    BY <1>5 DEF KnownScopes, Known
  <1> QED
    BY <1>6, <1>7, <1>8

-----------------------------------------------------------------------------
(* The guards after a step *)

\* The guards that a sequence of activations holds, and those of all threads.
HeldIn(s) == {i \in DOMAIN s : s[i].guard}
HeldBy(a) == UNION {{t} \X HeldIn(a[t]) : t \in Threads}

LEMMA GuardsHeld ==
  /\ Guards = HeldBy(acts) /\ Guards' = HeldBy(acts')
  /\ \A t \in Threads : Held(t) = HeldIn(acts[t]) /\ Held(t)' = HeldIn(acts'[t])
  BY DEF Guards, Held, HeldBy, HeldIn

\* What becomes of the guards of one thread.
LEMMA HeldAlike ==
  ASSUME NEW s, NEW r, Alike(r, s), s \in Seq(Activations)
  PROVE  HeldIn(r) = HeldIn(s)
  <1>1. DOMAIN r = 1 .. Len(s) /\ DOMAIN s = 1 .. Len(s) /\ \A i \in 1 .. Len(s) : r[i].guard = s[i].guard
    BY DEF Alike, Like
  <1> QED
    BY <1>1 DEF HeldIn

LEMMA HeldAppend ==
  ASSUME NEW r \in Seq(Activations), NEW a \in Activations
  PROVE  /\ a.guard => HeldIn(Append(r, a)) = HeldIn(r) \union {Len(r) + 1}
         /\ ~a.guard => HeldIn(Append(r, a)) = HeldIn(r)
         /\ \A i \in HeldIn(r) : i \in Nat /\ i <= Len(r)
  <1> DEFINE s == Append(r, a)
  <1>1. DOMAIN s = 1 .. Len(r) + 1 /\ DOMAIN r = 1 .. Len(r) /\ Len(r) \in Nat
    OBVIOUS
  <1>2. (\A i \in 1 .. Len(r) : s[i] = r[i]) /\ s[Len(r) + 1] = a
    OBVIOUS
  <1>3. 1 .. Len(r) + 1 = (1 .. Len(r)) \union {Len(r) + 1}
    BY <1>1
  <1> HIDE DEF s
  <1>4. a.guard => HeldIn(s) = HeldIn(r) \union {Len(r) + 1}
    BY <1>1, <1>2, <1>3 DEF HeldIn
  <1>5. ~a.guard => HeldIn(s) = HeldIn(r)
    BY <1>1, <1>2, <1>3 DEF HeldIn
  <1>6. \A i \in HeldIn(r) : i \in Nat /\ i <= Len(r)
    BY <1>1 DEF HeldIn
  <1> QED
    BY <1>4, <1>5, <1>6 DEF s

LEMMA HeldFront ==
  ASSUME NEW s \in Seq(Activations), s # <<>>
  PROVE  /\ HeldIn(Front(s)) = HeldIn(s) \ {Len(s)}
         /\ Len(s) \in HeldIn(s) <=> Last(s).guard
         /\ \A i \in HeldIn(s) : i \in 1 .. Len(s)
  <1>1. /\ Len(Front(s)) = Len(s) - 1 /\ Front(s) \in Seq(Activations)
        /\ \A i \in 1 .. Len(s) - 1 : Front(s)[i] = s[i]
        /\ Len(s) \in Nat \ {0} /\ Last(s) = s[Len(s)]
    BY FrontOfSeq
  <1>2. DOMAIN s = 1 .. Len(s) /\ DOMAIN Front(s) = 1 .. Len(s) - 1
    BY <1>1
  <1>3. 1 .. Len(s) - 1 = (1 .. Len(s)) \ {Len(s)}
    BY <1>1
  <1> HIDE DEF Front, Last
  <1>4. HeldIn(Front(s)) = HeldIn(s) \ {Len(s)}
    BY <1>1, <1>2, <1>3 DEF HeldIn
  <1> QED
    BY <1>1, <1>2, <1>4 DEF HeldIn

\* What becomes of the guards of all threads.
LEMMA HeldPairs ==
  ASSUME NEW a
  PROVE  \A g : g \in HeldBy(a) <=> \E u \in Threads : \E i \in HeldIn(a[u]) : g = <<u, i>>
  BY DEF HeldBy

LEMMA HeldSame ==
  ASSUME NEW a, NEW b, \A u \in Threads : HeldIn(b[u]) = HeldIn(a[u])
  PROVE  HeldBy(b) = HeldBy(a)
  <1>1. ASSUME NEW g PROVE g \in HeldBy(b) <=> g \in HeldBy(a)
    BY HeldPairs
  <1> QED
    BY <1>1

LEMMA HeldMore ==
  ASSUME NEW a, NEW b, NEW t \in Threads, NEW n, n \notin HeldIn(a[t]),
         HeldIn(b[t]) = HeldIn(a[t]) \union {n}, \A u \in Threads \ {t} : b[u] = a[u], IsFiniteSet(HeldBy(a))
  PROVE  IsFiniteSet(HeldBy(b)) /\ Cardinality(HeldBy(b)) = Cardinality(HeldBy(a)) + 1
  <1>1. HeldBy(b) = HeldBy(a) \union {<<t, n>>}
    <2>1. ASSUME NEW g, g \in HeldBy(b) PROVE g \in HeldBy(a) \union {<<t, n>>}
      <3>0. PICK u \in Threads : \E i \in HeldIn(b[u]) : g = <<u, i>>
        BY <2>1, HeldPairs
      <3>1. PICK i \in HeldIn(b[u]) : g = <<u, i>>
        BY <3>0
      <3>2. i \in HeldIn(a[u]) \/ (u = t /\ i = n)
        BY <3>1
      <3> QED
        BY <3>1, <3>2, HeldPairs
    <2>2. ASSUME NEW g, g \in HeldBy(a) PROVE g \in HeldBy(b)
      <3>0. PICK u \in Threads : \E i \in HeldIn(a[u]) : g = <<u, i>>
        BY <2>2, HeldPairs
      <3>1. PICK i \in HeldIn(a[u]) : g = <<u, i>>
        BY <3>0
      <3>2. i \in HeldIn(b[u])
        BY <3>1
      <3> QED
        BY <3>1, <3>2, HeldPairs
    <2>3. <<t, n>> \in HeldBy(b)
      BY HeldPairs
    <2> QED
      BY <2>1, <2>2, <2>3
  <1>2. <<t, n>> \notin HeldBy(a)
    BY HeldPairs
  <1> DEFINE H == HeldBy(a)
             g == <<t, n>>
  <1>3. IsFiniteSet(H) /\ g \notin H /\ HeldBy(b) = H \union {g}
    BY <1>1, <1>2
  <1> HIDE DEF H, g
  <1>4. IsFiniteSet(H \union {g}) /\ Cardinality(H \union {g}) = Cardinality(H) + 1
    BY <1>3, FS_AddElement
  <1> QED
    BY <1>3, <1>4 DEF H

LEMMA HeldLess ==
  ASSUME NEW a, NEW b, NEW t \in Threads, NEW n, n \in HeldIn(a[t]),
         HeldIn(b[t]) = HeldIn(a[t]) \ {n}, \A u \in Threads \ {t} : b[u] = a[u], IsFiniteSet(HeldBy(a))
  PROVE  IsFiniteSet(HeldBy(b)) /\ Cardinality(HeldBy(b)) = Cardinality(HeldBy(a)) - 1
  <1>1. HeldBy(b) = HeldBy(a) \ {<<t, n>>}
    BY HeldPairs
  <1>2. <<t, n>> \in HeldBy(a)
    BY HeldPairs
  <1> QED
    BY <1>1, <1>2, FS_RemoveElement

\* A step keeps the guards, adds one on top of a thread, or takes the top one.
Kept == \A u \in Threads : HeldIn(acts'[u]) = HeldIn(acts[u])

Grown(t) ==
    /\ \A u \in Threads \ {t} : acts'[u] = acts[u]
    /\ HeldIn(acts'[t]) = HeldIn(acts[t]) \union {Len(acts[t]) + 1}

Shrunk(t) ==
    /\ \A u \in Threads \ {t} : acts'[u] = acts[u]
    /\ HeldIn(acts'[t]) = HeldIn(acts[t]) \ {Len(acts[t])}
    /\ Len(acts[t]) \in HeldIn(acts[t]) <=> Inner(t).guard

LEMMA HeldNext ==
  ASSUME TypeOK, NEW t \in Threads
  PROVE  /\ Stays(t) \/ Starts(t) \/ Spawns(t) => Kept
         /\ Guarded(t) => Grown(t)
         /\ Leaves(t) \/ Swaps(t) => Shrunk(t)
         /\ Resumes(t) => \E k \in DOMAIN conts :
                /\ Restores(t, k)
                /\ \/ Kept /\ scopes' = conts[k].scopes
                   \/ Grown(t) /\ \E sc \in Scopes : scopes' = Append(conts[k].scopes, sc)
  <1>1. \A u \in Threads : acts[u] \in Seq(Activations)
    BY DEF TypeOK
  <1>2. ASSUME NEW r, Alike(r, acts[t])
        PROVE  r \in Seq(Activations) /\ Len(r) = Len(acts[t]) /\ HeldIn(r) = HeldIn(acts[t])
    BY <1>1, <1>2, HeldAlike DEF Alike
  <1>3. ASSUME NEW r, Alike(r, acts[t]), NEW a \in Activations, ~a.guard, Becomes(t, Append(r, a))
        PROVE  Kept
    <2>1. HeldIn(Append(r, a)) = HeldIn(acts[t])
      BY <1>2, <1>3, HeldAppend
    <2> QED
      BY <1>3, <2>1 DEF Kept, Becomes
  <1>4. ASSUME NEW r, Alike(r, acts[t]), NEW a \in Activations, a.guard, Becomes(t, Append(r, a))
        PROVE  Grown(t)
    <2>1. HeldIn(Append(r, a)) = HeldIn(acts[t]) \union {Len(acts[t]) + 1}
      BY <1>2, <1>4, HeldAppend
    <2> QED
      BY <1>4, <2>1 DEF Grown, Becomes
  <1>5. ASSUME NEW r, Alike(r, acts[t]), Becomes(t, r) PROVE Kept
    BY <1>2, <1>5 DEF Kept, Becomes
  <1>6. Stays(t) => Kept
    BY <1>5 DEF Stays
  <1>7. Starts(t) => Kept
    BY <1>3 DEF Starts, Fresh
  <1>8. Spawns(t) => Kept
    <2> SUFFICES ASSUME Spawns(t), NEW u \in Threads PROVE HeldIn(acts'[u]) = HeldIn(acts[u])
      BY DEF Kept
    <2>1. CASE u = t
      BY <1>2, <2>1 DEF Spawns
    <2>2. ASSUME acts[u] = <<>>, NEW a \in Activations, ~a.guard, acts'[u] = <<a>>
          PROVE  HeldIn(acts'[u]) = HeldIn(acts[u])
      <3>1. HeldIn(<<a>>) = {}
        BY <2>2 DEF HeldIn
      <3>2. HeldIn(<<>>) = {}
        BY DEF HeldIn
      <3> QED
        BY <2>2, <3>1, <3>2
    <2> QED
      BY <2>1, <2>2 DEF Spawns
  <1>9. Guarded(t) => Grown(t)
    BY <1>4 DEF Guarded, Fresh
  <1>10. ASSUME acts[t] # <<>>
         PROVE  /\ Front(acts[t]) \in Seq(Activations)
                /\ HeldIn(Front(acts[t])) = HeldIn(acts[t]) \ {Len(acts[t])}
                /\ Len(acts[t]) \in HeldIn(acts[t]) <=> Inner(t).guard
    BY <1>1, <1>10, HeldFront, FrontOfSeq DEF Inner
  <1>11. ASSUME acts[t] # <<>>, NEW r, Becomes(t, r), HeldIn(r) = HeldIn(Front(acts[t]))
         PROVE  Shrunk(t)
    <2>1. /\ \A u \in Threads \ {t} : acts'[u] = acts[u]
          /\ acts'[t] = r
      BY <1>11 DEF Becomes
    <2>2. HeldIn(acts'[t]) = HeldIn(acts[t]) \ {Len(acts[t])}
      BY <1>10, <1>11, <2>1
    <2>3. Len(acts[t]) \in HeldIn(acts[t]) <=> Inner(t).guard
      BY <1>10, <1>11
    <2> QED
      BY <2>1, <2>2, <2>3, Zenon DEF Shrunk
  <1>12. Leaves(t) \/ Swaps(t) => Shrunk(t)
    <2>1. CASE Leaves(t)
      BY <1>11, <2>1 DEF Leaves
    <2>2. CASE Swaps(t)
      <3>1. PICK a : a \in Activations /\ ~a.guard /\ Becomes(t, Append(Front(acts[t]), a)) /\ acts[t] # <<>>
        BY <2>2 DEF Swaps, Fresh
      <3>2. HeldIn(Append(Front(acts[t]), a)) = HeldIn(Front(acts[t]))
        BY <1>10, <3>1, HeldAppend
      <3> QED
        BY <1>11, <3>1, <3>2
    <2> QED
      BY <2>1, <2>2
  <1>13. Resumes(t) => \E k \in DOMAIN conts :
                /\ Restores(t, k)
                /\ \/ Kept /\ scopes' = conts[k].scopes
                   \/ Grown(t) /\ \E sc \in Scopes : scopes' = Append(conts[k].scopes, sc)
    <2> SUFFICES ASSUME NEW k \in DOMAIN conts, Restores(t, k)
                 PROVE  \/ Kept /\ scopes' = conts[k].scopes
                        \/ Grown(t) /\ \E sc \in Scopes : scopes' = Append(conts[k].scopes, sc)
      BY DEF Resumes
    <2>1. PICK r : /\ Alike(r, acts[t])
                   /\ \/ scopes' = conts[k].scopes
                         /\ \/ Becomes(t, r)
                            \/ \E a : Fresh(a) /\ ~a.guard /\ Becomes(t, Append(r, a))
                      \/ \E sc \in Scopes, a \in Activations :
                           scopes' = Append(conts[k].scopes, sc) /\ a.guard /\ Becomes(t, Append(r, a))
      BY DEF Restores, Opens
    <2> QED
      BY <1>3, <1>4, <1>5, <2>1 DEF Fresh
  <1> QED
    BY <1>6, <1>7, <1>8, <1>9, <1>12, <1>13

-----------------------------------------------------------------------------
(* As many scopes as guards *)

Matched == IsFiniteSet(Guards) /\ ScopesMatchGuards

\* The number of guards after a step.
LEMMA GuardsKept ==
  ASSUME Kept
  PROVE  Guards' = Guards
  <1>1. HeldBy(acts') = HeldBy(acts)
    BY HeldSame DEF Kept
  <1> QED
    BY <1>1, GuardsHeld

LEMMA GuardsGrown ==
  ASSUME TypeOK, NEW t \in Threads, Grown(t), IsFiniteSet(Guards)
  PROVE  IsFiniteSet(Guards') /\ Cardinality(Guards') = Cardinality(Guards) + 1
  <1>1. acts[t] \in Seq(Activations)
    BY DEF TypeOK
  <1>2. Len(acts[t]) + 1 \notin HeldIn(acts[t])
    BY <1>1 DEF HeldIn
  <1>3. IsFiniteSet(HeldBy(acts))
    BY GuardsHeld
  <1>4. IsFiniteSet(HeldBy(acts')) /\ Cardinality(HeldBy(acts')) = Cardinality(HeldBy(acts)) + 1
    BY <1>2, <1>3, HeldMore DEF Grown
  <1> QED
    BY <1>4, GuardsHeld

LEMMA GuardsShrunk ==
  ASSUME TypeOK, NEW t \in Threads, Shrunk(t), IsFiniteSet(Guards)
  PROVE  /\ IsFiniteSet(Guards')
         /\ Inner(t).guard => Cardinality(Guards') = Cardinality(Guards) - 1
         /\ ~Inner(t).guard => Cardinality(Guards') = Cardinality(Guards)
  <1>1. IsFiniteSet(HeldBy(acts))
    BY GuardsHeld
  <1>2. CASE Inner(t).guard
    <2>1. IsFiniteSet(HeldBy(acts')) /\ Cardinality(HeldBy(acts')) = Cardinality(HeldBy(acts)) - 1
      BY <1>1, <1>2, HeldLess DEF Shrunk
    <2> QED
      BY <1>2, <2>1, GuardsHeld
  <1>3. CASE ~Inner(t).guard
    <2>1. Kept
      BY <1>3 DEF Shrunk, Kept
    <2> QED
      BY <1>3, <2>1, GuardsKept
  <1> QED
    BY <1>2, <1>3

\* Pushes and guards come and go together.
LEMMA MatchedNext ==
  ASSUME TypeOK, KnownScopes, Matched, NEW t \in Threads,
         Stays(t) \/ Starts(t) \/ Guarded(t) \/ Leaves(t) \/ Swaps(t) \/ Resumes(t) \/ Spawns(t)
  PROVE  Matched'
  <1> DEFINE g == Cardinality(Guards)
             h == Cardinality(Guards')
             n == Len(scopes)
  <1>1. /\ scopes \in Seq(Scopes) /\ n \in Nat /\ g \in Nat /\ IsFiniteSet(Guards)
        /\ ("revive" \notin restored => n <= g) /\ (restored = {} => n = g)
    <2>1. scopes \in Seq(Scopes) /\ IsFiniteSet(Guards)
      BY DEF TypeOK, Matched
    <2>2. g \in Nat
      BY <2>1, FS_CardinalityType
    <2> QED
      BY <2>1, <2>2 DEF Matched, ScopesMatchGuards
  <1>2. SUFFICES /\ IsFiniteSet(Guards')
                 /\ "revive" \notin restored' => Len(scopes') <= h
                 /\ restored' = {} => Len(scopes') = h
    BY DEF Matched, ScopesMatchGuards
  <1>3. CASE Stays(t) \/ Starts(t) \/ Spawns(t)
    <2>1. Guards' = Guards
      BY <1>3, HeldNext, GuardsKept
    <2>2. scopes' = scopes /\ restored' = restored
      BY <1>3 DEF Stays, Starts, Spawns
    <2> QED
      BY <1>1, <2>1, <2>2
  <1>4. CASE Guarded(t)
    <2>1. IsFiniteSet(Guards') /\ h = g + 1
      BY <1>1, <1>4, HeldNext, GuardsGrown
    <2>2. restored' = restored /\ \E sc \in Scopes : scopes' = Append(scopes, sc)
      BY <1>4 DEF Guarded, Opens
    <2>3. Len(scopes') = n + 1
      BY <1>1, <2>2
    <2> HIDE DEF g, h, n
    <2> QED
      BY <1>1, <2>1, <2>2, <2>3
  <1>5. CASE Leaves(t) \/ Swaps(t)
    <2>1. /\ IsFiniteSet(Guards')
          /\ Inner(t).guard => h = g - 1
          /\ ~Inner(t).guard => h = g
      BY <1>1, <1>5, HeldNext, GuardsShrunk
    <2>2. restored' = restored /\ DropGuard(t)
      BY <1>5 DEF Leaves, Swaps
    <2>3. CASE ~Inner(t).guard
      BY <1>1, <2>1, <2>2, <2>3 DEF DropGuard
    <2>4. CASE Inner(t).guard /\ scopes # <<>>
      <3>1. Len(scopes') = n - 1
        BY <1>1, <2>2, <2>4, FrontOfSeq DEF DropGuard
      <3> HIDE DEF g, h, n
      <3> QED
        BY <1>1, <2>1, <2>2, <2>4, <3>1
    <2>5. CASE Inner(t).guard /\ scopes = <<>>
      <3>1. scopes' = <<>> /\ n = 0
        BY <2>2, <2>5 DEF DropGuard
      <3>2. g # 0
        <4>1. Len(acts[t]) \in HeldIn(acts[t])
          BY <1>5, <2>5, HeldNext DEF Shrunk
        <4>2. Guards # {}
          BY <4>1, GuardsHeld, HeldPairs
        <4> QED
          BY <1>1, <4>2, FS_EmptySet
      <3>3. Len(scopes') = 0
        BY <3>1
      <3> HIDE DEF g, h, n
      <3> QED
        BY <1>1, <2>1, <2>2, <2>5, <3>1, <3>2, <3>3
    <2> QED
      BY <2>3, <2>4, <2>5
  <1>6. CASE Resumes(t)
    <2>1. PICK k \in DOMAIN conts :
            /\ Restores(t, k)
            /\ \/ Kept /\ scopes' = conts[k].scopes
               \/ Grown(t) /\ \E sc \in Scopes : scopes' = Append(conts[k].scopes, sc)
      BY <1>6, HeldNext
    <2> DEFINE s == conts[k].scopes
    <2>2. /\ s \in Seq(Scopes) /\ Len(s) \in Nat
          /\ restored' # {}
          /\ "revive" \notin restored' => "revive" \notin restored /\ Len(s) < n
      <3>1. conts[k] \in Continuations
        BY DEF TypeOK
      <3>2. s \in Seq(Scopes)
        BY <3>1 DEF Continuations
      <3>3. CASE restored' = restored \union {"revive"}
        BY <3>2, <3>3
      <3>4. CASE restored' = restored \union {"resume"} /\ Len(s) < n
        BY <3>2, <3>4
      <3> QED
        BY <2>1, <3>3, <3>4 DEF Restores
    <2>3. \/ Kept /\ scopes' = s
          \/ Grown(t) /\ \E sc \in Scopes : scopes' = Append(s, sc)
      BY <2>1
    <2>4. CASE Kept /\ scopes' = s
      BY <1>1, <2>2, <2>4, GuardsKept
    <2>5. CASE Grown(t) /\ \E sc \in Scopes : scopes' = Append(s, sc)
      <3>1. IsFiniteSet(Guards') /\ h = g + 1
        BY <1>1, <2>5, GuardsGrown
      <3>2. Len(scopes') = Len(s) + 1
        <4> HIDE DEF s
        <4> QED
          BY <2>2, <2>5
      <3> HIDE DEF g, h, n, s
      <3> QED
        BY <1>1, <2>2, <3>1, <3>2
    <2> QED
      BY <2>3, <2>4, <2>5
  <1> QED
    BY <1>3, <1>4, <1>5, <1>6

LEMMA MatchedInit ==
  ASSUME Init
  PROVE  Matched
  <1>2. \A t \in Threads : HeldIn(acts[t]) = {}
    BY DEF Init, HeldIn, Activation
  <1>3. Guards = {}
    BY <1>2, GuardsHeld, HeldPairs
  <1>4. scopes = <<>>
    BY DEF Init
  <1> QED
    BY <1>3, <1>4, FS_EmptySet DEF Matched, ScopesMatchGuards

-----------------------------------------------------------------------------
(* Whose scope is on top *)

\* Until a second task shares the scopes only the main one runs.
Alone == ~concurrent => \A t \in Threads \ {First} : acts[t] = <<>>

\* The scopes s belong to the guards H, in their order.
Owned(s, H) ==
    /\ \A i \in H : \E j \in DOMAIN s : s[j].owner = <<First, i>>
    /\ \A j \in DOMAIN s : \E i \in H : s[j].owner = <<First, i>>
    /\ \A j, k \in DOMAIN s : j < k => s[j].owner[2] < s[k].owner[2]

Aligned == restored = {} /\ ~concurrent => Owned(scopes, HeldIn(acts[First]))

\* A scope more for a guard more.
LEMMA OwnedAppend ==
  ASSUME NEW s \in Seq(Scopes), NEW H \in SUBSET Nat, Owned(s, H), NEW n \in Nat, \A i \in H : i < n,
         NEW sc \in Scopes, sc.owner = <<First, n>>
  PROVE  Owned(Append(s, sc), H \union {n})
  <1> DEFINE r == Append(s, sc)
             m == Len(s)
  <1>1. DOMAIN r = 1 .. m + 1 /\ DOMAIN s = 1 .. m /\ m \in Nat
    OBVIOUS
  <1>2. (\A j \in 1 .. m : r[j] = s[j]) /\ r[m + 1] = sc
    OBVIOUS
  <1> HIDE DEF r, m
  <1>3. \A j \in 1 .. m : \E i \in H : s[j].owner = <<First, i>>
    BY <1>1 DEF Owned
  <1>4. ASSUME NEW i \in H \union {n} PROVE \E j \in DOMAIN r : r[j].owner = <<First, i>>
    <2>1. CASE i = n
      BY <1>1, <1>2, <2>1
    <2>2. CASE i \in H
      <3>1. PICK j \in 1 .. m : s[j].owner = <<First, i>>
        BY <1>1, <2>2 DEF Owned
      <3> QED
        BY <1>1, <1>2, <3>1
    <2> QED
      BY <2>1, <2>2
  <1>5. ASSUME NEW j \in DOMAIN r PROVE \E i \in H \union {n} : r[j].owner = <<First, i>>
    <2>1. CASE j = m + 1
      BY <1>2, <2>1
    <2>2. CASE j \in 1 .. m
      BY <1>2, <1>3, <2>2
    <2> QED
      BY <1>1, <2>1, <2>2
  <1>6. ASSUME NEW j \in DOMAIN r, NEW k \in DOMAIN r, j < k PROVE r[j].owner[2] < r[k].owner[2]
    <2>1. j \in 1 .. m
      BY <1>1, <1>6
    <2>2. CASE k \in 1 .. m
      BY <1>1, <1>2, <1>6, <2>1, <2>2 DEF Owned
    <2>3. CASE k = m + 1
      <3>1. PICK i \in H : s[j].owner = <<First, i>>
        BY <1>3, <2>1
      <3> QED
        BY <1>2, <2>1, <2>3, <3>1
    <2> QED
      BY <1>1, <2>2, <2>3
  <1> QED
    BY <1>4, <1>5, <1>6 DEF Owned, r

\* The highest guard owns the top scope, and without the two the rest stays owned.
LEMMA OwnedTop ==
  ASSUME NEW s \in Seq(Scopes), NEW H \in SUBSET Nat, Owned(s, H), NEW n \in H, \A i \in H : i <= n
  PROVE  /\ s # <<>> /\ Last(s).owner = <<First, n>>
         /\ Owned(Front(s), H \ {n})
  <1> DEFINE m == Len(s)
             f == Front(s)
  <1>1. PICK j \in DOMAIN s : s[j].owner = <<First, n>>
    BY DEF Owned
  <1>2. s # <<>> /\ DOMAIN s = 1 .. m
    BY <1>1
  <1>3. /\ f \in Seq(Scopes) /\ Len(f) = m - 1 /\ (\A i \in 1 .. m - 1 : f[i] = s[i])
        /\ m \in Nat \ {0} /\ Last(s) = s[m]
    BY <1>2, FrontOfSeq
  <1>4. DOMAIN f = 1 .. m - 1 /\ DOMAIN s = 1 .. m
    BY <1>2, <1>3
  <1> HIDE DEF m, f
  <1>5. j = m
    <2> SUFFICES ASSUME j # m PROVE FALSE
      OBVIOUS
    <2>1. j < m /\ m \in DOMAIN s
      BY <1>3, <1>4
    <2>2. PICK i \in H : s[m].owner = <<First, i>>
      BY <2>1 DEF Owned
    <2>3. s[j].owner[2] < s[m].owner[2]
      BY <1>1, <2>1 DEF Owned
    <2> QED
      BY <1>1, <2>2, <2>3
  <1>6. ASSUME NEW i \in H \ {n} PROVE \E k \in DOMAIN f : f[k].owner = <<First, i>>
    <2>1. PICK k \in DOMAIN s : s[k].owner = <<First, i>>
      BY DEF Owned
    <2>2. k # m
      BY <1>1, <1>5, <2>1
    <2>3. k \in 1 .. m - 1
      BY <1>3, <1>4, <2>2
    <2> QED
      BY <1>3, <1>4, <2>1, <2>3
  <1>7. ASSUME NEW k \in DOMAIN f PROVE \E i \in H \ {n} : f[k].owner = <<First, i>>
    <2>1. k \in DOMAIN s /\ k < m /\ m \in DOMAIN s /\ f[k] = s[k]
      BY <1>3, <1>4
    <2>2. PICK i \in H : s[k].owner = <<First, i>>
      BY <2>1 DEF Owned
    <2>3. s[k].owner[2] < s[m].owner[2]
      BY <2>1 DEF Owned
    <2>4. s[m].owner = <<First, n>>
      BY <1>1, <1>5
    <2>5. i # n
      <3> SUFFICES ASSUME i = n PROVE FALSE
        OBVIOUS
      <3>1. s[k].owner[2] = n /\ s[m].owner[2] = n
        BY <2>2, <2>4
      <3>2. n < n /\ n \in Nat
        BY <2>3, <3>1
      <3> QED
        BY <3>2
    <2> QED
      BY <2>1, <2>2, <2>5
  <1>8. ASSUME NEW k \in DOMAIN f, NEW l \in DOMAIN f, k < l PROVE f[k].owner[2] < f[l].owner[2]
    <2>1. k \in DOMAIN s /\ l \in DOMAIN s /\ f[k] = s[k] /\ f[l] = s[l]
      BY <1>3, <1>4
    <2> QED
      BY <1>8, <2>1 DEF Owned
  <1>9. Owned(f, H \ {n})
    BY <1>6, <1>7, <1>8 DEF Owned
  <1> QED
    BY <1>1, <1>2, <1>3, <1>5, <1>9 DEF f

\* A thread that takes a step has an activation.
LEMMA Busy ==
  ASSUME NEW t \in Threads, Step(t)
  PROVE  acts[t] # <<>>
  BY DEF Step, AtStatement, Active, Begin, Deliver, Exhausted, Work, SendOut, Assign, Throw, Return, Install, If, Block,
         Loop, ForEach, Call, Handle, Nested, Perform, Resume, Migrate, Concurrent, Daemon, EndFrame, GoOn, PassOn,
         Catch, NextItem, Arrived, Departed, ThreadEnds

\* The main task stays alone until it shares, and its guards own the scopes.
LEMMA AlignedNext ==
  ASSUME TypeOK, Based, KnownScopes, Alone, Aligned, NEW t \in Threads, Step(t)
  PROVE  Alone' /\ Aligned'
  <1>1. Stays(t) \/ Starts(t) \/ Guarded(t) \/ Leaves(t) \/ Swaps(t) \/ Resumes(t) \/ Spawns(t)
    BY Shapes
  <1>2. CASE concurrent'
    BY <1>2 DEF Alone, Aligned
  <1>3. CASE ~concurrent'
    <2>1. ~concurrent /\ ~Spawns(t)
      BY <1>1, <1>3 DEF Stays, Starts, Guarded, Leaves, Swaps, Resumes, Restores, Spawns
    <2>2. t = First
      BY <2>1, Busy DEF Alone
    <2>3. \A u \in Threads \ {t} : acts'[u] = acts[u]
      BY <1>1, <2>1 DEF Stays, Starts, Guarded, Leaves, Swaps, Resumes, Restores, Becomes
    <2>4. Alone'
      BY <2>1, <2>2, <2>3 DEF Alone
    <2>5. CASE restored' # {}
      BY <2>4, <2>5 DEF Aligned
    <2>6. CASE restored' = {}
      <3> DEFINE H == HeldIn(acts[t])
                 n == Len(acts[t])
      <3>1. restored = {} /\ ~Resumes(t)
        BY <1>1, <2>6 DEF Stays, Starts, Guarded, Leaves, Swaps, Resumes, Restores, Spawns
      <3>2. Owned(scopes, H) /\ scopes \in Seq(Scopes) /\ acts[t] \in Seq(Activations) /\ n \in Nat
        <4>1. acts[t] \in Seq(Activations) /\ scopes \in Seq(Scopes)
          BY DEF TypeOK
        <4> QED
          BY <2>1, <2>2, <3>1, <4>1 DEF Aligned
      <3>3. \A i \in H : i \in Nat /\ i <= n
        BY <3>2 DEF HeldIn
      <3> HIDE DEF H
      <3>4. CASE Stays(t) \/ Starts(t)
        <4>1. HeldIn(acts'[t]) = H /\ scopes' = scopes
          BY <3>4, HeldNext DEF Kept, Stays, Starts, H
        <4> QED
          BY <2>2, <2>4, <3>2, <4>1 DEF Aligned
      <3>5. CASE Guarded(t)
        <4>1. HeldIn(acts'[t]) = H \union {n + 1}
          BY <3>5, HeldNext DEF Grown, H
        <4>2. PICK sc \in Scopes : sc.owner = <<First, n + 1>> /\ scopes' = Append(scopes, sc)
          BY <2>2, <3>5 DEF Guarded, Opens
        <4>3. H \in SUBSET Nat /\ n + 1 \in Nat /\ \A i \in H : i < n + 1
          BY <3>2, <3>3
        <4> HIDE DEF n
        <4>4. Owned(Append(scopes, sc), H \union {n + 1})
          BY <3>2, <4>2, <4>3, OwnedAppend
        <4> QED
          BY <2>2, <2>4, <4>1, <4>2, <4>4 DEF Aligned
      <3>6. CASE Leaves(t) \/ Swaps(t)
        <4>1. HeldIn(acts'[t]) = H \ {n} /\ (n \in H <=> Inner(t).guard)
          BY <3>6, HeldNext DEF Shrunk, H
        <4>2. DropGuard(t)
          BY <3>6 DEF Leaves, Swaps
        <4>3. CASE Inner(t).guard
          <5>1. n \in H /\ H \in SUBSET Nat /\ \A i \in H : i <= n
            BY <3>3, <4>1, <4>3
          <5> HIDE DEF n
          <5>2. scopes # <<>> /\ Owned(Front(scopes), H \ {n})
            BY <3>2, <5>1, OwnedTop
          <5>3. scopes' = Front(scopes)
            BY <4>2, <4>3, <5>2 DEF DropGuard
          <5> QED
            BY <2>2, <2>4, <4>1, <5>2, <5>3 DEF Aligned
        <4>4. CASE ~Inner(t).guard
          <5>1. scopes' = scopes /\ H \ {n} = H
            BY <4>1, <4>2, <4>4 DEF DropGuard
          <5> QED
            BY <2>2, <2>4, <3>2, <4>1, <5>1 DEF Aligned
        <4> QED
          BY <4>3, <4>4
      <3> QED
        BY <1>1, <2>1, <3>1, <3>4, <3>5, <3>6
    <2> QED
      BY <2>5, <2>6
  <1> QED
    BY <1>2, <1>3

\* A variable goes to the scope of the innermost guard of its task.
LEMMA LocalsNext ==
  ASSUME TypeOK, Alone, Aligned, LocalsStayLocal, NEW t \in Threads, Step(t),
         restored # {} => restored' # {}, concurrent => concurrent'
  PROVE  LocalsStayLocal'
  <1>1. CASE spilled' = spilled
    BY <1>1 DEF LocalsStayLocal
  <1>2. CASE SetVar(t)
    <2> SUFFICES ASSUME restored = {}, ~concurrent PROVE ~spilled'
      BY DEF LocalsStayLocal
    <2> DEFINE H == Held(t)
    <2>1. t = First
      BY Busy DEF Alone
    <2>2. H = HeldIn(acts[t]) /\ Owned(scopes, H) /\ scopes \in Seq(Scopes) /\ acts[t] \in Seq(Activations)
      BY <2>1, GuardsHeld DEF Aligned, TypeOK
    <2>3. H \in SUBSET (1 .. Len(acts[t])) /\ Len(acts[t]) \in Nat /\ H \in SUBSET Nat
      BY <2>2 DEF HeldIn
    <2>4. ~spilled
      BY DEF LocalsStayLocal
    <2>5. CASE H = {}
      BY <1>2, <2>4, <2>5 DEF SetVar
    <2>6. CASE H # {}
      <3> HIDE DEF H
      <3>1. Max(H) \in H /\ \A i \in H : i <= Max(H)
        <4>1. Max(H) \in H /\ \A i \in H : Max(H) >= i
          BY <2>3, <2>6, Greatest
        <4> QED
          BY <2>3, <4>1
      <3>2. scopes # <<>> /\ Last(scopes).owner = <<First, Max(H)>>
        BY <2>2, <2>3, <3>1, OwnedTop
      <3> QED
        BY <1>2, <2>1, <2>4, <3>2 DEF SetVar, H
    <2> QED
      BY <2>5, <2>6
  <1>3. spilled' = spilled \/ SetVar(t)
    BY DEF Step, Deliver, Exhausted, Work, SendOut, Assign, Throw, Return, Install, If, Block, Loop, ForEach,
           Call, Handle, Nested, Perform, Resume, Migrate, Concurrent, Daemon, EndFrame, GoOn, PassOn, Catch,
           NextItem, Arrived, Departed, ThreadEnds
  <1> QED
    BY <1>1, <1>2, <1>3

-----------------------------------------------------------------------------
(* The theorems *)

ScopesInv == /\ TypeOK /\ Based /\ KnownScopes
             /\ Matched
             /\ Alone /\ Aligned /\ LocalsStayLocal

\* The start, where nothing is guarded and there is one task.
LEMMA ScopesInit == Init => ScopesInv
  <1> SUFFICES ASSUME Init PROVE ScopesInv
    OBVIOUS
  <1>1. TypeOK /\ Based /\ KnownScopes /\ Matched
    BY TypeInit, MatchedInit
  <1>2. Alone /\ LocalsStayLocal
    BY DEF Init, Alone, LocalsStayLocal
  <1>3. HeldIn(acts[First]) = {}
    BY ExecutorAssumption DEF Init, HeldIn, Activation
  <1>4. scopes = <<>>
    BY DEF Init
  <1>5. Aligned
    BY <1>3, <1>4 DEF Aligned, Owned
  <1> QED
    BY <1>1, <1>2, <1>5 DEF ScopesInv

\* Every step.
LEMMA ScopesStep == ScopesInv /\ [Next]_vars => ScopesInv'
  <1> SUFFICES ASSUME ScopesInv, [Next]_vars PROVE ScopesInv'
    OBVIOUS
  <1>1. ASSUME NEW t \in Threads, Step(t) PROVE ScopesInv'
    <2>1. Stays(t) \/ Starts(t) \/ Guarded(t) \/ Leaves(t) \/ Swaps(t) \/ Resumes(t) \/ Spawns(t)
      BY <1>1, Shapes DEF ScopesInv
    <2>2. TypeOK' /\ Based' /\ KnownScopes'
      BY <1>1, TypeNext DEF ScopesInv
    <2>3. Matched'
      BY <2>1, MatchedNext DEF ScopesInv
    <2>4. Alone' /\ Aligned'
      BY <1>1, AlignedNext DEF ScopesInv
    <2>5. (restored # {} => restored' # {}) /\ (concurrent => concurrent')
      BY <2>1 DEF Stays, Starts, Guarded, Leaves, Swaps, Resumes, Restores, Spawns
    <2>6. LocalsStayLocal'
      BY <1>1, <2>5, LocalsNext DEF ScopesInv
    <2> QED
      BY <2>2, <2>3, <2>4, <2>6 DEF ScopesInv
  <1>2. CASE UNCHANGED vars
    <2>1. UNCHANGED Guards
      BY <1>2 DEF vars, Guards, Held
    <2> QED
      BY <1>2, <2>1 DEF vars, ScopesInv, TypeOK, Based, KnownScopes, Matched, ScopesMatchGuards, Alone, Aligned,
                        LocalsStayLocal
  <1> QED
    BY <1>1, <1>2 DEF Next

\* Whatever programs do, every handler, continuation and caller that a step
\* needs is there, and the state keeps its types.
THEOREM TypeCorrect == Spec => []TypeOK
  <1>1. ScopesInv => TypeOK
    BY DEF ScopesInv
  <1> QED
    BY <1>1, ScopesInit, ScopesStep, PTL DEF Spec

\* However the calls of any number of tasks return, fail or are taken over by
\* handlers, ScopeGuard::drop leaves as many scopes as there are guards, until
\* a resume; and a resume of resume_k, unlike that of a continuation that was
\* kept, never leaves more.
THEOREM ScopesAlwaysMatch == Spec => []ScopesMatchGuards
  <1>1. ScopesInv => ScopesMatchGuards
    BY DEF ScopesInv, Matched
  <1> QED
    BY <1>1, ScopesInit, ScopesStep, PTL DEF Spec

\* What set_var_native assigns in a call goes to the scope of that call, unless
\* a resume or a second task has been at the scopes.
THEOREM LocalsAlwaysStay == Spec => []LocalsStayLocal
  <1>1. ScopesInv => LocalsStayLocal
    BY DEF ScopesInv
  <1> QED
    BY <1>1, ScopesInit, ScopesStep, PTL DEF Spec
=============================================================================
