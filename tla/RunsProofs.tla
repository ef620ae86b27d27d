----------------------------- MODULE RunsProofs -----------------------------
(***************************************************************************)
(* The proof of RunsAfterPerform of Executor, for any programs and tasks.   *)
(*                                                                          *)
(* How often a statement has run says nothing of how often it still will.   *)
(* So the frames that have reached the statement behind a perform are       *)
(* counted with the runs it has had: a frame is in debt for a run that a    *)
(* resumption, or the perform itself, has paid.                             *)
(***************************************************************************)
EXTENDS ExecutorProofs

\* Activation j of s comes back to its frames, o being the result of the innermost.
Live(s, o, j) == IF j = Len(s) THEN o = "run" ELSE s[j + 1].use \notin {"tail", "depart"}

\* Continuation k is of statement i of block b, and a resume runs what follows.
Comes(cs, k, b, i) ==
    k \in DOMAIN cs /\ cs[k].block = b /\ cs[k].at = i /\ cs[k].how # "qualified"

\* Frame f of activation j of s is to execute the statement behind statement i of
\* block b; frame 0 of an activation is the continuation that follows its na_aankomst.
Waits(s, o, cs, j, f, b, i) ==
    /\ j \in DOMAIN s
    /\ \/ /\ f \in DOMAIN s[j].frames
          /\ s[j].frames[f].block = b /\ s[j].frames[f].at = i + 1
          /\ Live(s, o, j)
       \/ f = 0 /\ s[j].use = "arrive" /\ Comes(cs, s[j].k, b, i)

Waiting(b, i) ==
    {w \in Threads \X Nat \X Nat : Waits(acts[w[1]], out[w[1]], conts, w[2], w[3], b, i)}

At(t, b, i) == Here(t).block = b /\ Here(t).at = i

\* The frame that thread t executes.
Present(t) == <<t, Len(acts[t]), Len(Inner(t).frames)>>

\* An activation at the start of a block.
Beginning(a) == a.use # "arrive" /\ \A f \in DOMAIN a.frames : a.frames[f].at = 1

(* What becomes of the frames in a step of thread t. *)

\* The frames of the innermost activation: the last goes one statement on, or is a
\* loop that stays, and those above it are at the start of a block.
Forward(t, g) ==
    LET n == Len(Inner(t).frames) IN
    \A f \in DOMAIN g :
      \/ f < n /\ g[f] = Inner(t).frames[f]
      \/ f = n /\ \/ g[f].block = Here(t).block /\ g[f].at = Here(t).at + 1
                  \/ g[f] = Here(t) /\ Stmt(t).op = "loop"
      \/ f > n /\ g[f].at = 1

\* The other threads do nothing, or begin.
Rest(t) ==
    \A u \in Threads \ {t} :
      \/ acts'[u] = acts[u] /\ out'[u] = out[u]
      \/ \A j \in DOMAIN acts'[u] : Beginning(acts'[u][j])

Stops(t) == acts'[t] = acts[t] /\ out'[t] # "run"

\* The innermost activation goes forward below whatever thread t starts.
Below(t) ==
    LET m == Len(acts[t]) IN
    /\ Len(acts'[t]) >= m
    /\ \A j \in 1 .. m - 1 : acts'[t][j] = acts[t][j]
    /\ acts'[t][m].use = Inner(t).use /\ acts'[t][m].k = Inner(t).k
    /\ Forward(t, acts'[t][m].frames)

Advances(t) == Below(t) /\ \A j \in DOMAIN acts'[t] : j > Len(acts[t]) => Beginning(acts'[t][j])

\* The activation that thread t starts has taken over from its caller.
Holds(t) ==
    /\ Len(acts'[t]) > Len(acts[t])
    /\ acts'[t][Len(acts[t]) + 1].use \in {"tail", "depart"}

\* A statement is executed, a resume of a continuation excepted.
Executes(t) ==
    /\ AtStatement(t) /\ Count(t) /\ Rest(t)
    /\ Stops(t) \/ Advances(t)
    /\ Stmt(t).op = "install" => Stops(t)
    /\ Stmt(t).op = "migrate" => Stops(t) \/ Holds(t)
    /\ \/ conts' = conts
       \/ /\ Stmt(t).op \in {"perform", "bind", "qualified"}
          /\ Stmt(t).op = "bind" => Holds(t)
          /\ \E c \in Continuations :
               /\ c.block = Here(t).block /\ c.at = Here(t).at /\ c.how = Stmt(t).op /\ c.resumed = 0
               /\ conts' = Append(conts, c)

\* A continuation is resumed: what follows it, or its na_aankomst first.
ResumesAt(t, k) ==
    LET m == Len(acts[t]) IN
    /\ AtStatement(t) /\ Stmt(t).op \in {"resume", "revive"} /\ Count(t) /\ Rest(t)
    /\ k \in DOMAIN conts
    /\ conts' = [conts EXCEPT ![k] = [conts[k] EXCEPT !.resumed = conts[k].resumed + 1]]
    /\ Below(t) /\ Len(acts'[t]) <= m + 1
    /\ Len(acts'[t]) = m + 1 =>
         LET a == acts'[t][m + 1] IN
         \/ Len(a.frames) = 1 /\ a.frames[1].at = 1 /\ a.use = "arrive" /\ a.k = k
         \/ Len(a.frames) = 1 /\ a.frames[1].block = conts[k].block /\ a.frames[1].at = conts[k].at + 1
            /\ a.use = "drop" /\ conts[k].how # "qualified"

\* No statement: a frame or an activation ends, or the gas does.
Ceases(t) ==
    LET m == Len(acts[t]) IN
    /\ Rest(t) /\ acts[t] # <<>> /\ out[t] = "run"
    /\ \/ Stops(t)
       \/ /\ Below(t) /\ Len(acts'[t]) = m
          /\ \A f \in DOMAIN acts'[t][m].frames : f < Len(Inner(t).frames)

\* The innermost activation is gone, and unless it has taken over, its caller goes on.
Returns(t) ==
    /\ Rest(t) /\ acts[t] # <<>> /\ acts'[t] \in {<<>>, Front(acts[t])}
    /\ out'[t] = "run" => acts'[t] = <<>> \/ Inner(t).use \notin {"tail", "depart"}

\* Another activation is in its place.
Replaces(t) ==
    LET m == Len(acts[t]) IN
    /\ Rest(t) /\ acts[t] # <<>> /\ Inner(t).use \notin {"tail", "depart"}
    /\ Len(acts'[t]) = m /\ \A j \in 1 .. m - 1 : acts'[t][j] = acts[t][j]
    /\ LET a == acts'[t][m] IN
       \/ Beginning(a)
       \/ /\ Inner(t).use = "arrive" /\ a.use = "drop" /\ Len(a.frames) = 1
          /\ a.frames[1].block = conts[Inner(t).k].block /\ a.frames[1].at = conts[Inner(t).k].at + 1
          /\ conts[Inner(t).k].how # "qualified"

-----------------------------------------------------------------------------
(* What each action does to the frames *)

\* The frames past a statement.
LEMMA PastFrames ==
  ASSUME TypeOK, NEW t \in Threads, AtStatement(t)
  PROVE  /\ Past(t) \in Activations /\ Past(t).use = Inner(t).use /\ Past(t).k = Inner(t).k
         /\ Forward(t, Past(t).frames)
  <1> DEFINE a == Inner(t)
             n == Len(a.frames)
             f == [a.frames[n] EXCEPT !.at = a.frames[n].at + 1]
             fs == [a.frames EXCEPT ![n] = f]
  <1>1. a.frames \in Seq(Frames) /\ a.frames # <<>> /\ a \in Activations /\ Here(t) = a.frames[n] /\ n \in 1 .. n
    BY AtTyped, FrontOfSeq DEF Here
  <1>2. f.block = Here(t).block /\ f.at = Here(t).at + 1
    BY <1>1 DEF Frames
  <1>3. DOMAIN fs = 1 .. n /\ fs[n] = f /\ \A j \in 1 .. n - 1 : fs[j] = a.frames[j]
    BY <1>1
  <1>4. Past(t) = [a EXCEPT !.frames = fs]
    BY DEF Past
  <1> HIDE DEF f, fs
  <1>5. Past(t).frames = fs /\ Past(t).use = a.use /\ Past(t).k = a.k
    BY <1>1, <1>4 DEF Activations
  <1>6. Past(t) \in Activations
    BY PastLike DEF Like
  <1> HIDE DEF a
  <1>7. Forward(t, fs)
    BY <1>1, <1>2, <1>3 DEF Forward, a
  <1> QED
    BY <1>5, <1>6, <1>7 DEF a

\* The frames of a jump.
LEMMA JumpFrames ==
  ASSUME TypeOK, NEW t \in Threads, AtStatement(t), NEW fs \in Seq(Frames),
         Len(fs) \in 1 .. 2,
         \/ fs[1].block = Here(t).block /\ fs[1].at = Here(t).at + 1
         \/ fs[1] = Here(t) /\ Stmt(t).op = "loop",
         Len(fs) = 2 => fs[2].at = 1
  PROVE  /\ Jump(t, fs) \in Activations /\ Jump(t, fs).use = Inner(t).use /\ Jump(t, fs).k = Inner(t).k
         /\ Forward(t, Jump(t, fs).frames)
  <1> DEFINE a == Inner(t)
             n == Len(a.frames)
             b == Front(a.frames)
             gs == b \o fs
  <1>1. a.frames \in Seq(Frames) /\ a.frames # <<>> /\ a \in Activations /\ n \in Nat \ {0}
    BY AtTyped, FrontOfSeq
  <1>2. b \in Seq(Frames) /\ Len(b) = n - 1 /\ \A j \in 1 .. n - 1 : b[j] = a.frames[j]
    BY <1>1, FrontOfSeq
  <1>3. Jump(t, fs) = [a EXCEPT !.frames = gs]
    BY DEF Jump
  <1> HIDE DEF b
  <1>4. /\ DOMAIN gs = 1 .. (n - 1 + Len(fs))
        /\ \A j \in 1 .. (n - 1 + Len(fs)) : gs[j] = IF j <= n - 1 THEN b[j] ELSE fs[j - (n - 1)]
    <2>1. gs \in Seq(Frames) /\ Len(gs) = Len(b) + Len(fs)
      BY <1>2, ConcatProperties
    <2>2. \A j \in 1 .. Len(b) + Len(fs) : gs[j] = IF j <= Len(b) THEN b[j] ELSE fs[j - Len(b)]
      BY <1>2, ConcatProperties
    <2> HIDE DEF gs, n
    <2> QED
      BY <1>1, <1>2, <2>1, <2>2
  <1> HIDE DEF gs
  <1>5. Jump(t, fs).frames = gs /\ Jump(t, fs).use = a.use /\ Jump(t, fs).k = a.k
    BY <1>1, <1>3 DEF Activations
  <1>6. Jump(t, fs) \in Activations
    BY JumpLike DEF Like
  <1> HIDE DEF a
  <1>7. Forward(t, gs)
    <2> SUFFICES ASSUME NEW j \in DOMAIN gs
                 PROVE  \/ j < n /\ gs[j] = a.frames[j]
                        \/ j = n /\ \/ gs[j].block = Here(t).block /\ gs[j].at = Here(t).at + 1
                                    \/ gs[j] = Here(t) /\ Stmt(t).op = "loop"
                        \/ j > n /\ gs[j].at = 1
      BY DEF Forward, a
    <2> HIDE DEF n
    <2>1. CASE j < n
      BY <1>1, <1>2, <1>4, <2>1
    <2>2. CASE j = n
      <3>1. gs[j] = fs[1]
        BY <1>1, <1>4, <2>2
      <3> QED
        BY <2>2, <3>1
    <2>3. CASE j > n
      <3> DEFINE l == Len(fs)
      <3>0. l \in {1, 2} /\ j \in 1 .. (n - 1 + l)
        BY <1>4
      <3> HIDE DEF l
      <3>1. l = 2 /\ j = n + 1
        BY <1>1, <2>3, <3>0
      <3>2. gs[j] = fs[2]
        BY <1>1, <1>4, <3>1 DEF l
      <3> QED
        BY <2>3, <3>1, <3>2 DEF l
    <2> QED
      BY <1>1, <1>4, <2>1, <2>2, <2>3
  <1> QED
    BY <1>5, <1>6, <1>7 DEF a

\* One thread gets other activations.
LEMMA OneBelow ==
  ASSUME TypeOK, NEW t \in Threads, acts[t] # <<>>, NEW a \in Activations,
         a.use = Inner(t).use, a.k = Inner(t).k, Forward(t, a.frames),
         NEW s \in Seq(Activations), Len(s) >= Len(acts[t]),
         \A j \in 1 .. Len(acts[t]) : s[j] = IF j = Len(acts[t]) THEN a ELSE acts[t][j],
         acts' = [acts EXCEPT ![t] = s], out' = out
  PROVE  Below(t) /\ Rest(t) /\ acts'[t] = s
  <1>1. acts'[t] = s /\ \A u \in Threads \ {t} : acts'[u] = acts[u] /\ out'[u] = out[u]
    BY DEF TypeOK
  <1>2. Len(acts[t]) \in Nat \ {0}
    BY InnerTyped
  <1>3. s[Len(acts[t])] = a /\ \A j \in 1 .. Len(acts[t]) - 1 : s[j] = acts[t][j]
    BY <1>2
  <1> QED
    BY <1>1, <1>3 DEF Below, Rest

\* Only the frames change.
LEMMA GoesBelow ==
  ASSUME TypeOK, NEW t \in Threads, acts[t] # <<>>, NEW a \in Activations,
         a.use = Inner(t).use, a.k = Inner(t).k, Forward(t, a.frames),
         acts' = [acts EXCEPT ![t][Len(acts[t])] = a], out' = out
  PROVE  /\ Below(t) /\ Advances(t) /\ Rest(t)
         /\ Len(acts'[t]) = Len(acts[t]) /\ acts'[t][Len(acts[t])] = a
  <1> DEFINE m == Len(acts[t])
             s == [acts[t] EXCEPT ![m] = a]
  <1>1. acts[t] \in Seq(Activations) /\ m \in Nat \ {0}
    BY InnerTyped
  <1>2. s \in Seq(Activations) /\ Len(s) = m /\ \A j \in 1 .. m : s[j] = IF j = m THEN a ELSE acts[t][j]
    BY <1>1, ExceptSeq
  <1>3. acts' = [acts EXCEPT ![t] = s]
    OBVIOUS
  <1> HIDE DEF s
  <1>4. Below(t) /\ Rest(t) /\ acts'[t] = s
    <2>1. Len(s) >= Len(acts[t])
      BY <1>1, <1>2
    <2> QED
      BY <1>2, <1>3, <2>1, OneBelow
  <1>5. s[m] = a /\ \A j \in DOMAIN s : ~(j > m)
    BY <1>1, <1>2
  <1> QED
    BY <1>2, <1>4, <1>5 DEF Advances

\* The caller goes past its statement, and an activation starts.
LEMMA CallsBelow ==
  ASSUME TypeOK, NEW t \in Threads, AtStatement(t), NEW a \in Activations, Calls(t, a), out' = out
  PROVE  /\ Below(t) /\ Rest(t) /\ Len(acts'[t]) = Len(acts[t]) + 1 /\ acts'[t][Len(acts[t]) + 1] = a
         /\ Beginning(a) => Advances(t)
  <1> DEFINE m == Len(acts[t])
             p == Past(t)
             r == Front(acts[t]) \o <<p>>
             s == Append(r, a)
  <1>1. /\ acts[t] # <<>> /\ p \in Activations /\ p.use = Inner(t).use /\ p.k = Inner(t).k
        /\ Forward(t, p.frames)
    BY AtTyped, PastFrames
  <1>2. acts[t] \in Seq(Activations) /\ m \in Nat \ {0}
    BY <1>1, InnerTyped
  <1>3. r \in Seq(Activations) /\ Len(r) = m /\ \A j \in 1 .. m : r[j] = IF j = m THEN p ELSE acts[t][j]
    BY <1>1, <1>2, FrontPlus
  <1>4. acts' = [acts EXCEPT ![t] = s]
    BY <1>1, <1>2, FrontPlusTwo DEF Calls
  <1> HIDE DEF r, p
  <1>5. s \in Seq(Activations) /\ Len(s) = m + 1 /\ s[m + 1] = a /\ \A j \in 1 .. m : s[j] = r[j]
    BY <1>2, <1>3
  <1> HIDE DEF s
  <1>6. Len(s) >= m /\ \A j \in 1 .. m : s[j] = IF j = m THEN p ELSE acts[t][j]
    BY <1>2, <1>3, <1>5
  <1>7. Below(t) /\ Rest(t) /\ acts'[t] = s
    BY <1>1, <1>4, <1>5, <1>6, OneBelow
  <1>8. \A j \in DOMAIN s : j > m => j = m + 1
    BY <1>2, <1>5
  <1> QED
    BY <1>5, <1>7, <1>8 DEF Advances

\* An activation ends with its result.
LEMMA EndsStops ==
  ASSUME TypeOK, NEW t \in Threads, NEW r \in {"none", "some", "err"}, Ends(t, r)
  PROVE  Stops(t) /\ Rest(t) /\ conts' = conts
  BY DEF TypeOK, Ends, Stops, Rest

\* Activations begin at the start of a block.
LEMMA Begins ==
  ASSUME NEW b, NEW use, use # "arrive", NEW guard
  PROVE  Beginning(Activation(b, 1, use, guard)) /\ \A n : Beginning(Item(b, n))
  BY DEF Beginning, Activation, Item

\* The ways in which a statement is executed.
LEMMA StepsOn ==
  ASSUME TypeOK, NEW t \in Threads, AtStatement(t), Count(t), Goes(t, Past(t)),
         Stmt(t).op \notin {"install", "migrate"}
  PROVE  Executes(t)
  <1> DEFINE p == Past(t)
  <1>1. acts[t] # <<>> /\ p \in Activations /\ p.use = Inner(t).use /\ p.k = Inner(t).k /\ Forward(t, p.frames)
    BY AtTyped, PastFrames
  <1>2. acts' = [acts EXCEPT ![t][Len(acts[t])] = p] /\ out' = out /\ conts' = conts
    BY DEF Goes
  <1> HIDE DEF p
  <1>3. Advances(t) /\ Rest(t)
    BY <1>1, <1>2, GoesBelow
  <1> QED
    BY <1>2, <1>3 DEF Executes

LEMMA StopsHere ==
  ASSUME TypeOK, NEW t \in Threads, AtStatement(t), Count(t), NEW r \in {"none", "some", "err"}, Ends(t, r)
  PROVE  Executes(t)
  BY EndsStops DEF Executes

LEMMA JumpsOn ==
  ASSUME TypeOK, NEW t \in Threads, AtStatement(t), Count(t), NEW fs \in Seq(Frames), Pushes(t, fs),
         Len(fs) \in 1 .. 2,
         \/ fs[1].block = Here(t).block /\ fs[1].at = Here(t).at + 1
         \/ fs[1] = Here(t) /\ Stmt(t).op = "loop",
         Len(fs) = 2 => fs[2].at = 1,
         Stmt(t).op \notin {"install", "migrate"}
  PROVE  Executes(t)
  <1>1. CASE Ends(t, "err")
    BY <1>1, StopsHere
  <1>2. CASE Goes(t, Jump(t, fs))
    <2> DEFINE a == Jump(t, fs)
    <2>1. acts[t] # <<>> /\ a \in Activations /\ a.use = Inner(t).use /\ a.k = Inner(t).k /\ Forward(t, a.frames)
      BY AtTyped, JumpFrames
    <2>2. acts' = [acts EXCEPT ![t][Len(acts[t])] = a] /\ out' = out /\ conts' = conts
      BY <1>2 DEF Goes
    <2> HIDE DEF a
    <2>3. Advances(t) /\ Rest(t)
      BY <2>1, <2>2, GoesBelow
    <2> QED
      BY <2>2, <2>3 DEF Executes
  <1> QED
    BY <1>1, <1>2 DEF Pushes

LEMMA CallsOn ==
  ASSUME TypeOK, NEW t \in Threads, AtStatement(t), Count(t), NEW a \in Activations, Beginning(a), Calls(t, a),
         out' = out, conts' = conts, Stmt(t).op # "install", Stmt(t).op = "migrate" => a.use = "depart"
  PROVE  Executes(t)
  <1>1. /\ Advances(t) /\ Rest(t) /\ Len(acts'[t]) = Len(acts[t]) + 1
        /\ acts'[t][Len(acts[t]) + 1] = a
    BY CallsBelow
  <1>2. Len(acts[t]) \in Nat
    BY AtTyped, InnerTyped
  <1>3. Stmt(t).op = "migrate" => Holds(t)
    BY <1>1, <1>2 DEF Holds
  <1> QED
    BY <1>1, <1>3 DEF Executes

\* Statements that neither call nor start anything.
LEMMA SimpleExecutes ==
  ASSUME TypeOK, NEW t \in Threads,
         \/ Work(t) \/ SendOut(t) \/ Assign(t) \/ Throw(t) \/ Return(t) \/ Install(t)
         \/ If(t) \/ Block(t) \/ Loop(t)
  PROVE  Executes(t)
  <1> DEFINE s == Stmt(t)
             rest == [Here(t) EXCEPT !.at = @ + 1]
             begin(b) == [block |-> b, at |-> 1]
  <1>1. CASE Work(t) \/ SendOut(t) \/ Assign(t) \/ Throw(t) \/ Return(t) \/ Install(t)
    BY <1>1, StepsOn, StopsHere DEF Work, SendOut, Assign, Throw, Return, Install, Begin
  <1>2. ASSUME AtStatement(t)
        PROVE  /\ rest \in Frames /\ Here(t) \in Frames /\ \A b \in Blocks : begin(b) \in Frames
               /\ rest.block = Here(t).block /\ rest.at = Here(t).at + 1
    <2>1. Here(t) \in Frames
      BY <1>2, AtTyped
    <2> QED
      BY <1>2, <2>1, PlaceTyped DEF Frames
  <1>3. CASE If(t)
    <2> DEFINE branch(b) == IF b = NoBlock THEN <<rest>> ELSE <<rest, begin(b)>>
    <2>1. AtStatement(t) /\ s.op = "if" /\ Count(t)
      BY <1>3 DEF If, Begin
    <2>2. s.body \in Blocks /\ s.other \in Blocks \union {NoBlock}
      BY <2>1, AtTyped, StatementFields
    <2>3. ASSUME NEW b \in {s.body, s.other}, Pushes(t, branch(b)) PROVE Executes(t)
      <3> DEFINE fs == branch(b)
      <3>1. /\ fs \in Seq(Frames) /\ Len(fs) \in 1 .. 2 /\ fs[1] = rest
            /\ Len(fs) = 2 => fs[2].at = 1
        <4>1. rest \in Frames /\ (b # NoBlock => begin(b) \in Frames)
          BY <1>2, <2>1, <2>2
        <4>2. begin(b).at = 1
          OBVIOUS
        <4> HIDE DEF rest, begin
        <4> DEFINE one == <<rest>>
                   two == <<rest, begin(b)>>
        <4>3. one \in Seq(Frames) /\ Len(one) = 1 /\ one[1] = rest
          BY <4>1
        <4>4. b # NoBlock => two \in Seq(Frames) /\ Len(two) = 2 /\ two[1] = rest /\ two[2] = begin(b)
          BY <4>1
        <4> QED
          BY <4>2, <4>3, <4>4
      <3> HIDE DEF fs
      <3>2. fs[1].block = Here(t).block /\ fs[1].at = Here(t).at + 1
        BY <1>2, <2>1, <3>1
      <3>3. Pushes(t, fs)
        BY <2>3 DEF fs
      <3> QED
        BY <2>1, <3>1, <3>2, <3>3, JumpsOn
    <2>4. (\E b \in {s.body, s.other} : Pushes(t, branch(b))) \/ Ends(t, "err")
      BY <1>3 DEF If
    <2> QED
      BY <2>1, <2>3, <2>4, StopsHere
  <1>4. CASE Block(t)
    <2> DEFINE fs == <<rest, begin(s.body)>>
    <2>1. AtStatement(t) /\ s.op = "block" /\ Count(t) /\ Pushes(t, fs)
      BY <1>4 DEF Block, Begin
    <2>2. s.body \in Blocks
      BY <2>1, AtTyped, StatementFields
    <2>3. fs \in Seq(Frames) /\ Len(fs) = 2 /\ fs[1] = rest /\ fs[2].at = 1
      BY <1>2, <2>1, <2>2
    <2> HIDE DEF fs
    <2>4. fs[1].block = Here(t).block /\ fs[1].at = Here(t).at + 1
      BY <1>2, <2>1, <2>3
    <2>5. Len(fs) \in 1 .. 2 /\ Stmt(t).op \notin {"install", "migrate"}
      BY <2>1, <2>3
    <2> QED
      BY <2>1, <2>3, <2>4, <2>5, JumpsOn
  <1>5. CASE Loop(t)
    <2> DEFINE fs == <<Here(t), begin(s.body)>>
    <2>1. AtStatement(t) /\ s.op = "loop" /\ Count(t) /\ (Pushes(t, fs) \/ Goes(t, Past(t)) \/ Ends(t, "err"))
      BY <1>5 DEF Loop, Begin
    <2>2. s.body \in Blocks
      BY <2>1, AtTyped, StatementFields
    <2>3. fs \in Seq(Frames) /\ Len(fs) = 2 /\ fs[1] = Here(t) /\ fs[2].at = 1
      BY <1>2, <2>1, <2>2
    <2> HIDE DEF fs
    <2>4. CASE Pushes(t, fs)
      BY <2>1, <2>3, <2>4, JumpsOn
    <2> QED
      BY <2>1, <2>4, StepsOn, StopsHere
  <1> QED
    BY <1>1, <1>3, <1>4, <1>5

\* Statements that call, a perform aside.
LEMMA CallExecutes ==
  ASSUME TypeOK, NEW t \in Threads,
         \/ ForEach(t) \/ Call(t) \/ Handle(t) \/ Migrate(t)
         \/ Nested(t, "try", "try") \/ Nested(t, "apart", "drop") \/ Nested(t, "inline", "inline")
  PROVE  Executes(t)
  <1> DEFINE s == Stmt(t)
  <1>1. ASSUME NEW b \in Blocks, NEW use \in Uses, use # "arrive", NEW guard \in BOOLEAN
        PROVE  LET a == Activation(b, 1, use, guard) IN a \in Activations /\ Beginning(a) /\ a.use = use
    <2>1. 1 \in Nat \ {0}
      OBVIOUS
    <2> QED
      BY <1>1, <2>1, ActivationTyped, Begins
  <1>2. {"call", "handle", "depart", "try", "drop", "inline"} \subseteq Uses \ {"arrive"}
    BY DEF Uses
  <1>3. CASE ForEach(t)
    <2>1. AtStatement(t) /\ s.op = "each" /\ Count(t)
      BY <1>3 DEF ForEach, Begin
    <2>2. ASSUME NEW n \in 1 .. MaxItems, Calls(t, Item(s.body, n - 1)), out' = out, conts' = conts
          PROVE  Executes(t)
      <3>1. n - 1 \in 0 .. MaxItems /\ s.body \in Blocks
        BY <2>1, AtTyped, StatementFields, ExecutorAssumption
      <3>2. Item(s.body, n - 1) \in Activations /\ Beginning(Item(s.body, n - 1))
        BY <3>1, ItemTyped DEF Beginning, Item
      <3> QED
        BY <2>1, <2>2, <3>2, CallsOn
    <2> QED
      BY <1>3, <2>1, <2>2, StepsOn, StopsHere DEF ForEach
  <1>4. CASE Call(t)
    <2> DEFINE a == Activation(s.body, 1, "call", TRUE)
    <2>1. AtStatement(t) /\ s.op = "call" /\ Count(t) /\ Calls(t, a) /\ out' = out /\ conts' = conts
      BY <1>4 DEF Call, Begin
    <2>2. a \in Activations /\ Beginning(a)
      BY <1>1, <1>2, <2>1, AtTyped, StatementFields
    <2> QED
      BY <2>1, <2>2, CallsOn
  <1>5. CASE Handle(t)
    <2> DEFINE a == Activation(s.body, 1, "handle", TRUE)
    <2>1. AtStatement(t) /\ s.op = "handle" /\ Count(t) /\ Calls(t, a) /\ out' = out /\ conts' = conts
      BY <1>5 DEF Handle, Begin
    <2>2. a \in Activations /\ Beginning(a)
      BY <1>1, <1>2, <2>1, AtTyped, StatementFields
    <2> QED
      BY <2>1, <2>2, CallsOn
  <1>6. CASE Migrate(t)
    <2> DEFINE h == Handler(scopes, "depart")
               a == Activation(h, 1, "depart", TRUE)
    <2>1. /\ AtStatement(t) /\ s.op = "migrate" /\ Count(t)
          /\ \/ \E r \in {"none", "err"} : Ends(t, r)
             \/ h # NoBlock /\ Calls(t, a) /\ out' = out /\ conts' = conts
      BY <1>6 DEF Migrate, Begin
    <2>2. CASE h # NoBlock /\ Calls(t, a) /\ out' = out /\ conts' = conts
      <3>1. h \in Blocks
        BY <2>2, HandlerTyped DEF Effects, TypeOK
      <3> HIDE DEF h
      <3>2. a \in Activations /\ Beginning(a) /\ a.use = "depart"
        BY <1>1, <1>2, <3>1
      <3> QED
        BY <2>1, <2>2, <3>2, CallsOn
    <2> QED
      BY <2>1, <2>2, StopsHere
  <1>7. ASSUME NEW op \in {"try", "apart", "inline"}, NEW use \in {"try", "drop", "inline"}, Nested(t, op, use)
        PROVE  Executes(t)
    <2> DEFINE b == Activation(s.body, 1, use, FALSE)
               o == IF op = "try" THEN s.other ELSE NoBlock
               a == [b EXCEPT !.other = o]
    <2>1. AtStatement(t) /\ s.op = op /\ Count(t) /\ Calls(t, a) /\ out' = out /\ conts' = conts
      BY <1>7 DEF Nested, Begin
    <2>2. s.body \in Blocks /\ o \in Blocks \union {NoBlock}
      BY <2>1, AtTyped, StatementFields
    <2>3. b \in Activations /\ Beginning(b) /\ b.use = use
      <3>1. use \in Uses /\ use # "arrive" /\ FALSE \in BOOLEAN
        BY <1>2
      <3> QED
        BY ONLY <1>1, <2>2, <3>1
    <2> HIDE DEF b, o
    <2>4. a \in Activations /\ a.use = b.use /\ a.frames = b.frames
      BY <2>2, <2>3 DEF Activations
    <2> HIDE DEF a
    <2>5. Beginning(a)
      BY <2>3, <2>4 DEF Beginning
    <2> QED
      BY <2>1, <2>4, <2>5, CallsOn
  <1> QED
    BY <1>3, <1>4, <1>5, <1>6, <1>7

LEMMA PerformExecutes ==
  ASSUME TypeOK, NEW t \in Threads, NEW how \in {"perform", "bind", "qualified"}, Perform(t, how)
  PROVE  Executes(t)
  <1> DEFINE h == Handler(scopes, "user")
             c == [block |-> Here(t).block, at |-> Here(t).at, how |-> how, scopes |-> scopes, resumed |-> 0]
             a == Activation(h, 1, HandlerUse(how), TRUE)
  <1>1. /\ AtStatement(t) /\ Stmt(t).op = how /\ Count(t)
        /\ \/ Goes(t, Past(t))
           \/ Ends(t, "err")
           \/ h # NoBlock /\ conts' = Append(conts, c) /\ Calls(t, a) /\ out' = out
    BY DEF Perform, Begin, NativeEffect
  <1>2. CASE h # NoBlock /\ conts' = Append(conts, c) /\ Calls(t, a) /\ out' = out
    <2>1. c \in Continuations
      <3>1. Here(t).block \in Blocks /\ Here(t).at \in Nat /\ scopes \in Seq(Scopes)
        BY <1>1, AtTyped DEF Frames, TypeOK
      <3> QED
        BY <3>1 DEF Continuations
    <2>2. h \in Blocks
      BY <1>2, HandlerTyped DEF Effects, TypeOK
    <2>3. HandlerUse(how) \in Uses \ {"arrive"} /\ 1 \in Nat \ {0} /\ TRUE \in BOOLEAN
      BY DEF HandlerUse, Uses
    <2>4. a \in Activations /\ Beginning(a) /\ a.use = HandlerUse(how)
      <3> HIDE DEF h
      <3> QED
        BY <2>2, <2>3, ActivationTyped, Begins
    <2> HIDE DEF a
    <2>5. Advances(t) /\ Rest(t) /\ Len(acts'[t]) = Len(acts[t]) + 1 /\ acts'[t][Len(acts[t]) + 1] = a
      BY <1>1, <1>2, <2>4, CallsBelow
    <2>6. Len(acts[t]) \in Nat
      BY <1>1, AtTyped, InnerTyped
    <2>7. how = "bind" => Holds(t)
      BY <2>4, <2>5, <2>6 DEF Holds, HandlerUse
    <2>8. c.block = Here(t).block /\ c.at = Here(t).at /\ c.how = how /\ c.resumed = 0
      OBVIOUS
    <2> HIDE DEF c
    <2> QED
      BY <1>1, <1>2, <2>1, <2>5, <2>7, <2>8 DEF Executes
  <1> QED
    BY <1>1, <1>2, StepsOn, StopsHere

\* Branches and daemons begin, and their parent goes on.
LEMMA SpawnExecutes ==
  ASSUME TypeOK, NEW t \in Threads, Concurrent(t) \/ Daemon(t)
  PROVE  Executes(t)
  <1> DEFINE p == Past(t)
             m == Len(acts[t])
             r == Front(acts[t]) \o <<p>>
             one == <<Activation(Stmt(t).body, 1, "top", FALSE)>>
             two == <<Activation(Stmt(t).other, 1, "top", FALSE)>>
  <1>1. /\ AtStatement(t) /\ Stmt(t).op \in {"concurrent", "daemon"} /\ Count(t)
        /\ out' = out /\ conts' = conts
    BY DEF Concurrent, Daemon, Begin
  <1>2. /\ acts[t] # <<>> /\ p \in Activations /\ p.use = Inner(t).use /\ p.k = Inner(t).k
        /\ Forward(t, p.frames)
    BY <1>1, AtTyped, PastFrames
  <1>3. acts[t] \in Seq(Activations) /\ m \in Nat \ {0}
    BY <1>2, InnerTyped
  <1>4. Len(r) = m /\ DOMAIN r = 1 .. m /\ \A j \in 1 .. m : r[j] = IF j = m THEN p ELSE acts[t][j]
    BY <1>2, <1>3, FrontPlus
  <1>5. \A s \in {one, two} : \A j \in DOMAIN s : Beginning(s[j])
    <2>1. Beginning(Activation(Stmt(t).body, 1, "top", FALSE)) /\ Beginning(Activation(Stmt(t).other, 1, "top", FALSE))
      BY Begins
    <2>2. ASSUME NEW a, Beginning(a) PROVE \A j \in DOMAIN <<a>> : Beginning(<<a>>[j])
      BY <2>2
    <2> QED
      BY <2>1, <2>2
  <1>6. acts'[t] = r /\ \A u \in Threads \ {t} : acts'[u] \in {acts[u], one, two}
    <2>1. CASE Concurrent(t)
      <3>1. PICK u \in Idle, v \in Idle : \E away \in Elsewhere({u, v}) :
               acts' = [x \in Threads |->
                          CASE x = t -> r
                            [] x = u /\ x \notin away -> one
                            [] x = v /\ x \notin away -> two
                            [] OTHER -> acts[x]]
        BY <2>1 DEF Concurrent
      <3>2. PICK away : acts' = [x \in Threads |->
                          CASE x = t -> r
                            [] x = u /\ x \notin away -> one
                            [] x = v /\ x \notin away -> two
                            [] OTHER -> acts[x]]
        BY <3>1
      <3>3. u # t /\ v # t
        BY <1>2 DEF Idle
      <3> HIDE DEF r, one, two
      <3> QED
        BY <3>2, <3>3
    <2>2. CASE Daemon(t)
      <3>1. PICK u \in Idle : acts' = [acts EXCEPT ![t] = r, ![u] = one]
        BY <2>2 DEF Daemon
      <3>2. u # t
        BY <1>2 DEF Idle
      <3> HIDE DEF r, one, two
      <3> QED
        BY <3>1, <3>2 DEF TypeOK
    <2> QED
      BY <2>1, <2>2
  <1> HIDE DEF r, one, two, p
  <1>7. Rest(t)
    BY <1>1, <1>5, <1>6 DEF Rest
  <1>8. Below(t)
    <2>1. r[m] = p /\ \A j \in 1 .. m - 1 : r[j] = acts[t][j]
      BY <1>3, <1>4
    <2>2. Len(r) >= m
      BY <1>3, <1>4
    <2> QED
      BY <1>2, <1>6, <2>1, <2>2 DEF Below
  <1>9. Advances(t)
    BY <1>3, <1>4, <1>6, <1>8 DEF Advances
  <1> QED
    BY <1>1, <1>7, <1>9 DEF Executes

\* A resume that finds a continuation, and one that does not.
LEMMA ResumeExecutes ==
  ASSUME TypeOK, KnownScopes, NEW t \in Threads, NEW op \in {"resume", "revive"}, Resume(t, op)
  PROVE  Executes(t) \/ \E k \in DOMAIN conts : ResumesAt(t, k)
  <1>1. AtStatement(t) /\ Stmt(t).op \in {"resume", "revive"} /\ Count(t)
    BY DEF Resume, Begin
  <1>2. CASE Goes(t, Past(t))
    BY <1>1, <1>2, StepsOn
  <1>3. CASE Ends(t, "err")
    BY <1>1, <1>3, StopsHere
  <1>4. ASSUME NEW k \in Resumable(op) \ {0},
               LET s == conts[k].scopes
                   h == Handler(s, "arrive")
               IN
               /\ conts' = [conts EXCEPT ![k].resumed = @ + 1]
               /\ restored' = restored \union {op}
               /\ scopes' = IF h = NoBlock THEN s ELSE NewScope(t, s, Nobody, 0)
               /\ IF h # NoBlock
                     THEN Calls(t, [Activation(h, 1, "arrive", TRUE) EXCEPT !.k = k])
                     ELSE IF conts[k].how = "qualified"
                     THEN acts' = [acts EXCEPT ![t][Len(acts[t])] = Past(t)]
                     ELSE Calls(t, Continuation(k))
               /\ UNCHANGED <<out, parent, concurrent>>
        PROVE  \E c \in DOMAIN conts : ResumesAt(t, c)
    <2> DEFINE s == conts[k].scopes
               h == Handler(s, "arrive")
               m == Len(acts[t])
               a == acts'[t][m + 1]
    <2>1. k \in DOMAIN conts /\ conts[k] \in Continuations /\ s \in Seq(Scopes)
      BY <1>4, ResumableTyped
    <2>2. /\ conts' = [conts EXCEPT ![k] = [conts[k] EXCEPT !.resumed = conts[k].resumed + 1]]
          /\ out' = out
          /\ IF h # NoBlock
                THEN Calls(t, [Activation(h, 1, "arrive", TRUE) EXCEPT !.k = k])
                ELSE IF conts[k].how = "qualified"
                THEN acts' = [acts EXCEPT ![t][Len(acts[t])] = Past(t)]
                ELSE Calls(t, Continuation(k))
      BY <1>4
    <2>3. Len(acts[t]) \in Nat
      BY <1>1, AtTyped, InnerTyped
    <2>4. /\ Below(t) /\ Rest(t) /\ Len(acts'[t]) <= m + 1
          /\ Len(acts'[t]) = m + 1 =>
               \/ Len(a.frames) = 1 /\ a.frames[1].at = 1 /\ a.use = "arrive" /\ a.k = k
               \/ Len(a.frames) = 1 /\ a.frames[1].block = conts[k].block /\ a.frames[1].at = conts[k].at + 1
                  /\ a.use = "drop" /\ conts[k].how # "qualified"
      <3>1. CASE h # NoBlock
        <4> DEFINE b == Activation(h, 1, "arrive", TRUE)
                   d == [b EXCEPT !.k = k]
        <4>1. h \in Blocks
          BY <2>1, <3>1, HandlerTyped DEF Effects
        <4>2. b \in Activations /\ b.use = "arrive" /\ Len(b.frames) = 1 /\ b.frames[1].at = 1
          <5>1. "arrive" \in Uses /\ 1 \in Nat \ {0} /\ TRUE \in BOOLEAN
            BY DEF Uses
          <5>2. Len(b.frames) = 1 /\ b.frames[1].at = 1
            BY DEF Activation
          <5> HIDE DEF h
          <5> QED
            BY <4>1, <5>1, <5>2, ActivationTyped
        <4>3. k \in Nat
          BY <2>1
        <4>4. d \in Activations /\ d.use = b.use /\ d.frames = b.frames /\ d.k = k
          <5> HIDE DEF b
          <5> QED
            BY <4>2, <4>3 DEF Activations
        <4>5. Calls(t, d)
          BY <2>2, <3>1
        <4> HIDE DEF d
        <4>6. Below(t) /\ Rest(t) /\ Len(acts'[t]) = m + 1 /\ a = d
          BY <1>1, <2>2, <4>4, <4>5, CallsBelow
        <4>7. Len(a.frames) = 1 /\ a.frames[1].at = 1 /\ a.use = "arrive" /\ a.k = k
          <5> HIDE DEF b, a
          <5> QED
            BY <4>2, <4>4, <4>6
        <4>8. Len(acts'[t]) <= m + 1
          BY <2>3, <4>6
        <4> QED
          BY <4>6, <4>7, <4>8
      <3>2. CASE h = NoBlock /\ conts[k].how = "qualified"
        <4> DEFINE p == Past(t)
        <4>1. acts[t] # <<>> /\ p \in Activations /\ p.use = Inner(t).use /\ p.k = Inner(t).k /\ Forward(t, p.frames)
          BY <1>1, AtTyped, PastFrames
        <4>2. acts' = [acts EXCEPT ![t][Len(acts[t])] = p]
          BY <2>2, <3>2
        <4> HIDE DEF p
        <4>3. Below(t) /\ Rest(t) /\ Len(acts'[t]) = m
          BY <2>2, <4>1, <4>2, GoesBelow
        <4> QED
          BY <2>3, <4>3
      <3>3. CASE h = NoBlock /\ conts[k].how # "qualified"
        <4> DEFINE d == Continuation(k)
        <4>1. conts[k].block \in Blocks /\ conts[k].at + 1 \in Nat \ {0} /\ "drop" \in Uses
          BY <2>1 DEF Continuations, Uses
        <4>2. d \in Activations /\ d.use = "drop"
          BY <4>1, ActivationTyped DEF Continuation
        <4>3. Len(d.frames) = 1 /\ d.frames[1].block = conts[k].block /\ d.frames[1].at = conts[k].at + 1
          BY DEF Continuation, Activation
        <4>4. Calls(t, d)
          BY <2>2, <3>3
        <4> HIDE DEF d
        <4>5. Below(t) /\ Rest(t) /\ Len(acts'[t]) = m + 1 /\ a = d
          BY <1>1, <2>2, <4>2, <4>4, CallsBelow
        <4> QED
          BY <2>3, <3>3, <4>2, <4>3, <4>5
      <3> QED
        BY <3>1, <3>2, <3>3
    <2> QED
      BY <1>1, <2>1, <2>2, <2>4 DEF ResumesAt
  <1> QED
    BY <1>2, <1>3, <1>4 DEF Resume

\* The end of a frame, and of the gas.
LEMMA CeasesStep ==
  ASSUME TypeOK, NEW t \in Threads, Exhausted(t) \/ EndFrame(t)
  PROVE  Ceases(t) /\ UNCHANGED <<Code, conts, ran>>
  <1>1. acts[t] # <<>> /\ out[t] = "run" /\ UNCHANGED <<Code, conts, ran>>
    BY DEF Exhausted, EndFrame, AtStatement, Active, Ends, Goes
  <1>2. CASE \E r \in {"none", "err"} : Ends(t, r)
    BY <1>1, <1>2, EndsStops DEF Ceases
  <1>3. CASE ~\E r \in {"none", "err"} : Ends(t, r)
    <2> DEFINE a == Inner(t)
               n == Len(a.frames)
               fs == Front(a.frames)
               b == [a EXCEPT !.frames = fs]
    <2>1. a.frames # <<>> /\ Goes(t, b)
      BY <1>3 DEF Exhausted, EndFrame
    <2>2. a \in Activations /\ a.frames \in Seq(Frames)
      BY <1>1, InnerTyped
    <2>3. fs \in Seq(Frames) /\ n \in Nat \ {0} /\ DOMAIN fs = 1 .. n - 1 /\ \A f \in 1 .. n - 1 : fs[f] = a.frames[f]
      BY <2>1, <2>2, FrontOfSeq
    <2> HIDE DEF fs
    <2>4. b \in Activations /\ b.use = a.use /\ b.k = a.k /\ b.frames = fs
      BY <2>2, <2>3, FramesTyped DEF Like
    <2>5. \A f \in DOMAIN fs : f < n
      BY <2>3
    <2>6. Forward(t, b.frames)
      BY <2>3, <2>4, <2>5 DEF Forward
    <2>7. acts' = [acts EXCEPT ![t][Len(acts[t])] = b] /\ out' = out
      BY <2>1 DEF Goes
    <2> HIDE DEF b
    <2>8. Below(t) /\ Rest(t) /\ Len(acts'[t]) = Len(acts[t]) /\ acts'[t][Len(acts[t])] = b
      BY <1>1, <2>4, <2>6, <2>7, GoesBelow
    <2> QED
      BY <1>1, <2>4, <2>5, <2>8 DEF Ceases
  <1> QED
    BY <1>2, <1>3

\* The end of an activation.
LEMMA ReturnsStep ==
  ASSUME TypeOK, NEW t \in Threads, GoOn(t) \/ PassOn(t) \/ Departed(t) \/ ThreadEnds(t)
  PROVE  Returns(t) /\ UNCHANGED <<Code, conts, ran>>
  <1>1. /\ acts[t] # <<>> /\ UNCHANGED <<Code, conts, ran>>
        /\ \/ acts' = [acts EXCEPT ![t] = Front(@)]
           \/ acts' = [acts EXCEPT ![t] = <<>>]
        /\ \A u \in Threads \ {t} : out'[u] = out[u]
    BY DEF GoOn, PassOn, Departed, ThreadEnds, Deliver, TypeOK
  <1>2. acts'[t] \in {<<>>, Front(acts[t])} /\ \A u \in Threads \ {t} : acts'[u] = acts[u]
    <2> HIDE DEF Front
    <2> QED
      BY <1>1 DEF TypeOK
  <1>3. out'[t] = "run" => acts'[t] = <<>> \/ Inner(t).use \notin {"tail", "depart"}
    <2>1. CASE GoOn(t)
      BY <2>1 DEF GoOn, Deliver
    <2>2. CASE PassOn(t) \/ Departed(t)
      BY <2>2 DEF PassOn, Departed, Deliver, TypeOK
    <2>3. CASE ThreadEnds(t)
      BY <2>3 DEF ThreadEnds, TypeOK
    <2> QED
      BY <2>1, <2>2, <2>3
  <1> QED
    BY <1>1, <1>2, <1>3 DEF Returns, Rest

\* An activation that takes the place of another.
LEMMA ReplacesStep ==
  ASSUME TypeOK, Based, NEW t \in Threads, Catch(t) \/ NextItem(t) \/ Arrived(t)
  PROVE  Replaces(t) /\ UNCHANGED <<Code, conts, ran>>
  <1> DEFINE n == Len(acts[t])
             e == [Activation(Main, 1, "drop", FALSE) EXCEPT !.frames = <<>>]
  <1>1. /\ acts[t] # <<>> /\ UNCHANGED <<Code, conts, ran>> /\ Inner(t).use \in {"try", "each", "arrive"}
    BY DEF Catch, NextItem, Arrived, Deliver
  <1>2. /\ acts[t] \in Seq(Activations) /\ Inner(t) = acts[t][n] /\ n \in DOMAIN acts[t] /\ n \in Nat \ {0}
        /\ Inner(t) \in Activations
    BY <1>1, InnerTyped
  <1>3. Rooted(Inner(t), n, Len(conts)) /\ conts \in Seq(Continuations)
    BY <1>2 DEF Based, TypeOK
  <1>4. PICK a \in Activations :
          /\ Follow(t, a)
          /\ \/ Beginning(a)
             \/ /\ Inner(t).use = "arrive" /\ a.use = "drop" /\ Len(a.frames) = 1
                /\ a.frames[1].block = conts[Inner(t).k].block /\ a.frames[1].at = conts[Inner(t).k].at + 1
                /\ conts[Inner(t).k].how # "qualified"
    <2>0. {"catch", "drop"} \subseteq Uses \ {"arrive"} /\ 1 \in Nat \ {0} /\ FALSE \in BOOLEAN
      BY DEF Uses
    <2>1. CASE Catch(t)
      <3> DEFINE a == Activation(Inner(t).other, 1, "catch", FALSE)
      <3>1. Follow(t, a) /\ Inner(t).use = "try"
        BY <2>1 DEF Catch, Deliver
      <3>2. a \in Activations /\ Beginning(a)
        BY <1>3, <2>0, <3>1, ActivationTyped, Begins DEF Rooted
      <3> QED
        BY <3>1, <3>2
    <2>2. CASE NextItem(t)
      <3> DEFINE a == Item(Inner(t).other, Inner(t).left - 1)
      <3>1. Follow(t, a) /\ Inner(t).use = "each" /\ Inner(t).left > 0
        BY <2>2 DEF NextItem, Deliver
      <3>2. Inner(t).left - 1 \in 0 .. MaxItems
        BY <1>2, <3>1, ExecutorAssumption DEF Activations
      <3>3. a \in Activations /\ Beginning(a)
        BY <1>3, <3>1, <3>2, ItemTyped DEF Rooted, Beginning, Item
      <3> QED
        BY <3>1, <3>3
    <2>3. CASE Arrived(t)
      <3> DEFINE k == Inner(t).k
                 c == Continuation(k)
      <3>1. Inner(t).use = "arrive" /\ Follow(t, IF conts[k].how = "qualified" THEN e ELSE c)
        BY <2>3 DEF Arrived, Deliver
      <3>2. k \in DOMAIN conts /\ conts[k] \in Continuations
        BY <1>3, <3>1 DEF Rooted
      <3>3. CASE conts[k].how = "qualified"
        <4> DEFINE b == Activation(Main, 1, "drop", FALSE)
        <4>1. b \in Activations /\ b.use = "drop"
          BY <2>0, ActivationTyped, ExecutorAssumption
        <4>2. e \in Activations /\ e.use = "drop" /\ e.frames = <<>>
          <5>1. <<>> \in Seq(Frames) /\ e = [b EXCEPT !.frames = <<>>]
            OBVIOUS
          <5> HIDE DEF b, e
          <5> QED
            BY <4>1, <5>1, FramesTyped DEF Like
        <4> HIDE DEF e
        <4>3. Beginning(e)
          BY <4>2 DEF Beginning
        <4> QED
          BY <3>1, <3>3, <4>2, <4>3
      <3>4. CASE conts[k].how # "qualified"
        <4>1. conts[k].block \in Blocks /\ conts[k].at + 1 \in Nat \ {0}
          BY <3>2 DEF Continuations
        <4>2. c \in Activations /\ c.use = "drop"
          BY <2>0, <4>1, ActivationTyped DEF Continuation
        <4>3. Len(c.frames) = 1 /\ c.frames[1].block = conts[k].block /\ c.frames[1].at = conts[k].at + 1
          BY DEF Continuation, Activation
        <4> HIDE DEF c
        <4> QED
          BY <3>1, <3>4, <4>2, <4>3
      <3> QED
        BY <3>3, <3>4
    <2> QED
      BY <2>1, <2>2, <2>3
  <1> DEFINE r == Front(acts[t]) \o <<a>>
  <1>5. acts' = [acts EXCEPT ![t] = r] /\ out' = [out EXCEPT ![t] = "run"]
    BY <1>4 DEF Follow
  <1>6. Len(r) = n /\ \A j \in 1 .. n : r[j] = IF j = n THEN a ELSE acts[t][j]
    BY <1>1, <1>2, FrontPlus
  <1> HIDE DEF r
  <1>7. acts'[t] = r /\ \A u \in Threads \ {t} : acts'[u] = acts[u] /\ out'[u] = out[u]
    BY <1>5 DEF TypeOK
  <1>8. r[n] = a /\ \A j \in 1 .. n - 1 : r[j] = acts[t][j]
    BY <1>2, <1>6
  <1>9. Rest(t)
    BY <1>7 DEF Rest
  <1> QED
    BY <1>1, <1>4, <1>6, <1>7, <1>8, <1>9 DEF Replaces

-----------------------------------------------------------------------------
(* What each of these does to the frames that wait *)

\* Continuations stay what they are.
ContsKept ==
    \A k \in DOMAIN conts :
      conts'[k].block = conts[k].block /\ conts'[k].at = conts[k].at /\ conts'[k].how = conts[k].how

LEMMA WaitingTriples ==
  ASSUME NEW b, NEW i
  PROVE  /\ \A w : w \in Waiting(b, i) <=>
              \E u \in Threads, j \in Nat, f \in Nat :
                w = <<u, j, f>> /\ Waits(acts[u], out[u], conts, j, f, b, i)
         /\ \A w : w \in Waiting(b, i)' <=>
              \E u \in Threads, j \in Nat, f \in Nat :
                w = <<u, j, f>> /\ Waits(acts'[u], out'[u], conts', j, f, b, i)
  BY DEF Waiting

\* An activation below what changes waits as it did.
LEMMA ComesStill ==
  ASSUME TypeOK, Based, ContsKept, NEW u \in Threads, NEW j \in DOMAIN acts[u], acts[u][j].use = "arrive",
         NEW b, NEW i, Comes(conts', acts[u][j].k, b, i)
  PROVE  Comes(conts, acts[u][j].k, b, i)
  <1>1. acts[u][j].k \in DOMAIN conts
    BY DEF Based, Rooted, TypeOK
  <1> QED
    BY <1>1 DEF ContsKept, Comes

\* The other threads.
LEMMA RestWaits ==
  ASSUME TypeOK, Based, ContsKept, NEW t \in Threads, Rest(t), NEW u \in Threads \ {t},
         NEW b, NEW i \in Nat \ {0}, NEW j, NEW f, Waits(acts'[u], out'[u], conts', j, f, b, i)
  PROVE  Waits(acts[u], out[u], conts, j, f, b, i)
  <1>1. CASE acts'[u] = acts[u] /\ out'[u] = out[u]
    BY <1>1, ComesStill DEF Waits
  <1>2. CASE \A h \in DOMAIN acts'[u] : Beginning(acts'[u][h])
    <2>1. i + 1 # 1
      OBVIOUS
    <2> QED
      BY <1>2, <2>1 DEF Waits, Beginning
  <1> QED
    BY <1>1, <1>2 DEF Rest

\* A thread that has stopped runs nothing.
LEMMA StopsWaits ==
  ASSUME TypeOK, Based, ContsKept, NEW t \in Threads, acts[t] # <<>>, out[t] = "run", Stops(t),
         NEW b, NEW i \in Nat \ {0}, NEW j, NEW f, Waits(acts'[t], out'[t], conts', j, f, b, i)
  PROVE  /\ Waits(acts[t], out[t], conts, j, f, b, i)
         /\ j = Len(acts[t]) => f = 0
  <1>1. acts'[t] = acts[t] /\ out'[t] # "run"
    BY DEF Stops
  <1>2. CASE f = 0 /\ acts[t][j].use = "arrive" /\ Comes(conts', acts[t][j].k, b, i)
    BY <1>1, <1>2, ComesStill DEF Waits
  <1>3. CASE f \in DOMAIN acts[t][j].frames /\ Live(acts[t], out'[t], j)
             /\ acts[t][j].frames[f].block = b /\ acts[t][j].frames[f].at = i + 1
    BY <1>1, <1>3 DEF Waits, Live
  <1> QED
    BY <1>1, <1>2, <1>3 DEF Waits

\* Frames go forward: the present one leaves its statement, and one that waits has
\* come from the statement before, unless another activation has taken over.
LEMMA BelowWaits ==
  ASSUME TypeOK, Based, ContsKept, NEW t \in Threads, acts[t] # <<>>, out[t] = "run", Below(t), acts'[t] \in Seq(Activations),
         NEW b, NEW i \in Nat \ {0}, NEW j \in 1 .. Len(acts[t]), NEW f,
         Waits(acts'[t], out'[t], conts', j, f, b, i)
  PROVE  \/ Waits(acts[t], out[t], conts, j, f, b, i) /\ (j = Len(acts[t]) => f < Len(Inner(t).frames) \/ f = 0)
         \/ /\ j = Len(acts[t]) /\ f = Len(Inner(t).frames) /\ f \in DOMAIN acts'[t][j].frames
            /\ \/ At(t, b, i) /\ ~Holds(t)
               \/ At(t, b, i + 1) /\ Stmt(t).op = "loop"
  <1> DEFINE m == Len(acts[t])
             s == acts[t]
             r == acts'[t]
             n == Len(Inner(t).frames)
  <1>1. m \in Nat \ {0} /\ Inner(t) = s[m] /\ n \in Nat /\ s \in Seq(Activations)
    BY InnerTyped
  <1>2. /\ Len(r) >= m /\ \A h \in 1 .. m - 1 : r[h] = s[h]
        /\ r[m].use = s[m].use /\ r[m].k = s[m].k /\ Forward(t, r[m].frames)
    BY <1>1 DEF Below
  <1>3. j \in DOMAIN s /\ DOMAIN s = 1 .. m
    BY <1>1
  <1>4. r[j].use = s[j].use /\ r[j].k = s[j].k /\ (j # m => r[j] = s[j])
    BY <1>1, <1>2
  <1>5. CASE f = 0 /\ r[j].use = "arrive" /\ Comes(conts', r[j].k, b, i)
    <2>1. Comes(conts, s[j].k, b, i)
      BY <1>3, <1>4, <1>5, ComesStill
    <2> QED
      BY <1>3, <1>4, <1>5, <2>1 DEF Waits
  <1>6. CASE f \in DOMAIN r[j].frames /\ Live(r, out'[t], j) /\ r[j].frames[f].block = b /\ r[j].frames[f].at = i + 1
    <2>1. CASE j # m
      <3>1. j + 1 \in 1 .. m /\ Len(r) # j
        BY <1>1, <1>2, <2>1
      <3>2. r[j + 1].use = s[j + 1].use
        BY <1>1, <1>2, <3>1
      <3>3. Live(s, out[t], j)
        BY <1>6, <2>1, <3>1, <3>2 DEF Live
      <3> QED
        BY <1>3, <1>4, <1>6, <2>1, <3>3 DEF Waits
    <2>2. CASE j = m
      <3>0. s[m].frames \in Seq(Frames) /\ n = Len(s[m].frames) /\ f \in Nat \ {0}
        <4>1. r[m] \in Activations /\ s[m] \in Activations
          BY <1>1, <1>2
        <4>2. r[m].frames \in Seq(Frames) /\ s[m].frames \in Seq(Frames)
          BY <4>1 DEF Activations
        <4>3. f \in DOMAIN r[m].frames
          BY <1>6, <2>2
        <4> HIDE DEF r
        <4>4. f \in Nat \ {0}
          BY <4>2, <4>3
        <4> QED
          BY <1>1, <4>2, <4>4
      <3>1. Live(s, out[t], j)
        BY <2>2 DEF Live
      <3>2. \/ f < n /\ r[m].frames[f] = s[m].frames[f]
            \/ f = n /\ \/ r[m].frames[f].block = Here(t).block /\ r[m].frames[f].at = Here(t).at + 1
                        \/ r[m].frames[f] = Here(t) /\ Stmt(t).op = "loop"
            \/ f > n /\ r[m].frames[f].at = 1
        BY <1>1, <1>2, <1>6, <2>2 DEF Forward
      <3>3. CASE f < n /\ r[m].frames[f] = s[m].frames[f]
        <4>1. f \in DOMAIN s[m].frames
          BY <3>0, <3>3
        <4> QED
          BY <1>3, <1>6, <2>2, <3>1, <3>3, <4>1 DEF Waits
      <3>4. ~(f > n /\ r[m].frames[f].at = 1)
        BY <1>6, <2>2
      <3>5. CASE f = n /\ r[m].frames[f].block = Here(t).block /\ r[m].frames[f].at = Here(t).at + 1
        <4>1. ~Holds(t)
          BY <1>1, <1>2, <1>6, <2>2 DEF Holds, Live
        <4>2. Here(t).at = i
          <5>1. Here(t) \in Frames
            BY <1>1, <3>0, <3>5, FrontOfSeq DEF Here
          <5>2. Here(t).at \in Nat
            BY <5>1 DEF Frames
          <5> QED
            BY <1>6, <2>2, <3>5, <5>2
        <4> QED
          BY <1>6, <2>2, <3>5, <4>1, <4>2 DEF At
      <3>6. CASE f = n /\ r[m].frames[f] = Here(t) /\ Stmt(t).op = "loop"
        BY <1>6, <2>2, <3>6 DEF At
      <3> QED
        BY <3>2, <3>3, <3>4, <3>5, <3>6
    <2> QED
      BY <2>1, <2>2
  <1> QED
    BY <1>5, <1>6 DEF Waits

\* The frame at a statement waits for it.
LEMMA PresentWaits ==
  ASSUME TypeOK, NEW t \in Threads, AtStatement(t)
  PROVE  /\ out[t] = "run" /\ acts[t] # <<>> /\ Len(Inner(t).frames) \in Nat \ {0} /\ Len(acts[t]) \in Nat \ {0}
         /\ \A b, i : At(t, b, i + 1) => Present(t) \in Waiting(b, i)
  <1> DEFINE m == Len(acts[t])
             n == Len(Inner(t).frames)
  <1>1. out[t] = "run" /\ acts[t] # <<>>
    BY DEF AtStatement, Active
  <1>2. Inner(t).frames \in Seq(Frames) /\ Inner(t).frames # <<>> /\ Here(t) = Inner(t).frames[n] /\ n \in Nat \ {0}
    BY AtTyped, FrontOfSeq DEF Here
  <1>3. acts[t] \in Seq(Activations) /\ Inner(t) = acts[t][m] /\ m \in Nat \ {0}
    BY <1>1, InnerTyped
  <1>4. ASSUME NEW b, NEW i, At(t, b, i + 1) PROVE Present(t) \in Waiting(b, i)
    <2>1. m \in DOMAIN acts[t] /\ n \in DOMAIN acts[t][m].frames
      BY <1>2, <1>3
    <2>2. Live(acts[t], out[t], m)
      BY <1>1 DEF Live
    <2>3. Waits(acts[t], out[t], conts, m, n, b, i)
      BY <1>2, <1>3, <1>4, <2>1, <2>2 DEF Waits, At
    <2> QED
      BY <1>2, <1>3, <2>3, WaitingTriples DEF Present
  <1> QED
    BY <1>1, <1>2, <1>3, <1>4

\* The statement behind statement i is no loop, or nothing waits for it.
NoLoop(b, i) == Code[b][i + 1].op # "loop" \/ Waiting(b, i) = {}

\* A thread at a statement: what waits afterwards in its activations so far.
LEMMA StatementWaits ==
  ASSUME TypeOK, Based, ContsKept, NEW t \in Threads, AtStatement(t), Below(t), acts'[t] \in Seq(Activations),
         NEW b, NEW i \in Nat \ {0}, NoLoop(b, i), NEW j \in 1 .. Len(acts[t]), NEW f \in Nat,
         Waits(acts'[t], out'[t], conts', j, f, b, i)
  PROVE  LET w == <<t, j, f>> IN
         \/ w \in Waiting(b, i) \ {Present(t)}
         \/ w = Present(t) /\ At(t, b, i) /\ ~Holds(t)
  <1> DEFINE w == <<t, j, f>>
             m == Len(acts[t])
             n == Len(Inner(t).frames)
  <1>1. out[t] = "run" /\ acts[t] # <<>> /\ n \in Nat \ {0} /\ m \in Nat \ {0}
    BY PresentWaits
  <1>2. ~(At(t, b, i + 1) /\ Stmt(t).op = "loop")
    BY PresentWaits DEF NoLoop, At, Stmt
  <1>3. \/ Waits(acts[t], out[t], conts, j, f, b, i) /\ (j = m => f < n \/ f = 0)
        \/ j = m /\ f = n /\ At(t, b, i) /\ ~Holds(t)
    BY <1>1, <1>2, BelowWaits
  <1>4. CASE Waits(acts[t], out[t], conts, j, f, b, i) /\ (j = m => f < n \/ f = 0)
    <2>1. w \in Waiting(b, i)
      BY <1>4, WaitingTriples
    <2>2. w # <<t, m, n>>
      BY <1>1, <1>4
    <2> QED
      BY <2>1, <2>2 DEF Present
  <1>5. CASE j = m /\ f = n /\ At(t, b, i) /\ ~Holds(t)
    BY <1>5 DEF Present
  <1> QED
    BY <1>3, <1>4, <1>5

\* A statement that is executed: the frame at it no longer waits for it, and waits
\* for the next one if it goes on at once.
LEMMA ExecutesWaits ==
  ASSUME TypeOK, Based, ContsKept, NEW t \in Threads, Executes(t), acts'[t] \in Seq(Activations),
         NEW b, NEW i \in Nat \ {0}, NoLoop(b, i), NEW w \in Waiting(b, i)'
  PROVE  \/ w \in Waiting(b, i) \ {Present(t)}
         \/ w = Present(t) /\ At(t, b, i) /\ ~Stops(t) /\ ~Holds(t)
  <1>1. AtStatement(t) /\ Rest(t) /\ (Stops(t) \/ Advances(t))
    BY DEF Executes
  <1>2. out[t] = "run" /\ acts[t] # <<>> /\ Len(Inner(t).frames) \in Nat \ {0} /\ Len(acts[t]) \in Nat \ {0}
    BY <1>1, PresentWaits
  <1>3. PICK u \in Threads, j \in Nat, f \in Nat :
          w = <<u, j, f>> /\ Waits(acts'[u], out'[u], conts', j, f, b, i)
    BY WaitingTriples
  <1>4. CASE u # t
    <2>1. Waits(acts[u], out[u], conts, j, f, b, i)
      BY <1>1, <1>3, <1>4, RestWaits
    <2>2. w \in Waiting(b, i)
      BY <1>3, <2>1, WaitingTriples
    <2> QED
      BY <1>3, <1>4, <2>2 DEF Present
  <1>5. CASE u = t /\ Stops(t)
    <2>1. Waits(acts[t], out[t], conts, j, f, b, i) /\ (j = Len(acts[t]) => f = 0)
      BY <1>2, <1>3, <1>5, StopsWaits
    <2>2. w \in Waiting(b, i)
      BY <1>3, <1>5, <2>1, WaitingTriples
    <2> QED
      BY <1>2, <1>3, <1>5, <2>1, <2>2 DEF Present
  <1>6. CASE u = t /\ ~Stops(t)
    <2>1. Below(t) /\ \A h \in DOMAIN acts'[t] : h > Len(acts[t]) => Beginning(acts'[t][h])
      BY <1>1, <1>6 DEF Advances
    <2>2. j \in DOMAIN acts'[t]
      BY <1>3, <1>6 DEF Waits
    <2>3. j <= Len(acts[t])
      <3> SUFFICES ASSUME j > Len(acts[t]) PROVE FALSE
        BY <1>2
      <3>1. Beginning(acts'[t][j])
        BY <2>1, <2>2
      <3>2. i + 1 # 1
        OBVIOUS
      <3> QED
        BY <1>3, <1>6, <3>1, <3>2 DEF Waits, Beginning
    <2>4. j \in 1 .. Len(acts[t])
      BY <1>2, <2>2, <2>3
    <2>5. \/ <<t, j, f>> \in Waiting(b, i) \ {Present(t)}
          \/ <<t, j, f>> = Present(t) /\ At(t, b, i) /\ ~Holds(t)
      BY <1>1, <1>3, <1>6, <2>1, <2>4, StatementWaits
    <2> QED
      BY <1>3, <1>6, <2>5
  <1> QED
    BY <1>4, <1>5, <1>6

\* A continuation that is resumed waits once more for its statement.
LEMMA ResumesWaits ==
  ASSUME TypeOK, Based, ContsKept, NEW t \in Threads, NEW k \in DOMAIN conts, ResumesAt(t, k),
         acts'[t] \in Seq(Activations),
         NEW b, NEW i \in Nat \ {0}, NoLoop(b, i), ~At(t, b, i)
  PROVE  \E y : \A w \in Waiting(b, i)' :
           \/ w \in Waiting(b, i) \ {Present(t)}
           \/ w = y /\ Comes(conts, k, b, i)
  <1> DEFINE m == Len(acts[t])
             a == acts'[t][m + 1]
             y == <<t, m + 1, IF a.use = "arrive" THEN 0 ELSE 1>>
  <1>1. /\ AtStatement(t) /\ Rest(t) /\ Below(t) /\ Len(acts'[t]) <= m + 1
        /\ Len(acts'[t]) = m + 1 =>
             \/ Len(a.frames) = 1 /\ a.frames[1].at = 1 /\ a.use = "arrive" /\ a.k = k
             \/ Len(a.frames) = 1 /\ a.frames[1].block = conts[k].block /\ a.frames[1].at = conts[k].at + 1
                /\ a.use = "drop" /\ conts[k].how # "qualified"
    BY DEF ResumesAt
  <1>2. out[t] = "run" /\ acts[t] # <<>> /\ Len(Inner(t).frames) \in Nat \ {0} /\ m \in Nat \ {0}
    BY <1>1, PresentWaits
  <1>3. ASSUME NEW w \in Waiting(b, i)'
        PROVE  w \in Waiting(b, i) \ {Present(t)} \/ (w = y /\ Comes(conts, k, b, i))
    <2>1. PICK u \in Threads, j \in Nat, f \in Nat :
            w = <<u, j, f>> /\ Waits(acts'[u], out'[u], conts', j, f, b, i)
      BY WaitingTriples
    <2>2. CASE u # t
      <3>1. Waits(acts[u], out[u], conts, j, f, b, i)
        BY <1>1, <2>1, <2>2, RestWaits
      <3>2. w \in Waiting(b, i)
        BY <2>1, <3>1, WaitingTriples
      <3> QED
        BY <2>1, <2>2, <3>2 DEF Present
    <2>3. CASE u = t /\ j <= m
      <3>1. j \in 1 .. m
        BY <1>2, <2>1, <2>3 DEF Waits
      <3>2. \/ <<t, j, f>> \in Waiting(b, i) \ {Present(t)}
            \/ <<t, j, f>> = Present(t) /\ At(t, b, i)
        BY <1>1, <2>1, <2>3, <3>1, StatementWaits
      <3> QED
        BY <2>1, <2>3, <3>2
    <2>4. CASE u = t /\ ~(j <= m)
      <3>1. j \in DOMAIN acts'[t]
        BY <2>1, <2>4 DEF Waits
      <3>2. j = m + 1 /\ Len(acts'[t]) = m + 1
        BY <1>1, <1>2, <2>4, <3>1
      <3>3. acts'[t][j] = a /\ a \in Activations /\ a.frames \in Seq(Frames)
        <4>1. acts'[t][j] \in Activations
          BY <3>1
        <4> QED
          BY <3>2, <4>1 DEF Activations
      <3>4. \/ f \in DOMAIN a.frames /\ a.frames[f].block = b /\ a.frames[f].at = i + 1
            \/ f = 0 /\ a.use = "arrive" /\ Comes(conts', a.k, b, i)
        BY <2>1, <2>4, <3>3 DEF Waits
      <3>5. DOMAIN a.frames = {1}
        BY <1>1, <3>2, <3>3
      <3> HIDE DEF a
      <3>6. CASE a.frames[1].at = 1 /\ a.use = "arrive" /\ a.k = k
        <4>1. f = 0 /\ Comes(conts', k, b, i)
          BY <3>4, <3>5, <3>6
        <4>2. Comes(conts, k, b, i)
          BY <4>1 DEF Comes, ContsKept
        <4> QED
          BY <2>1, <2>4, <3>2, <3>6, <4>1, <4>2
      <3>7. CASE /\ a.frames[1].block = conts[k].block /\ a.frames[1].at = conts[k].at + 1
                 /\ a.use = "drop" /\ conts[k].how # "qualified"
        <4>1. f = 1 /\ conts[k].block = b /\ conts[k].at + 1 = i + 1
          BY <3>4, <3>5, <3>7
        <4>2. conts[k].at \in Nat
          <5>1. conts[k] \in Continuations
            BY DEF TypeOK
          <5> QED
            BY <5>1 DEF Continuations
        <4>3. Comes(conts, k, b, i)
          BY <3>7, <4>1, <4>2 DEF Comes
        <4> QED
          BY <2>1, <2>4, <3>2, <3>7, <4>1, <4>3
      <3> QED
        BY <1>1, <3>2, <3>6, <3>7 DEF a
    <2> QED
      BY <2>2, <2>3, <2>4
  <1> HIDE DEF y
  <1> QED
    BY <1>3

\* The end of a frame, of the gas, or of an activation adds nothing.
LEMMA CeasesWaits ==
  ASSUME TypeOK, Based, NEW t \in Threads, Ceases(t), conts' = conts, acts'[t] \in Seq(Activations),
         NEW b, NEW i \in Nat \ {0}
  PROVE  Waiting(b, i)' \subseteq Waiting(b, i)
  <1> SUFFICES ASSUME NEW w \in Waiting(b, i)' PROVE w \in Waiting(b, i)
    OBVIOUS
  <1> DEFINE m == Len(acts[t])
  <1>1. Rest(t) /\ acts[t] # <<>> /\ out[t] = "run" /\ ContsKept
    BY DEF Ceases, ContsKept
  <1>2. PICK u \in Threads, j \in Nat, f \in Nat :
          w = <<u, j, f>> /\ Waits(acts'[u], out'[u], conts', j, f, b, i)
    BY WaitingTriples
  <1>3. Waits(acts[u], out[u], conts, j, f, b, i)
    <2>1. CASE u # t
      BY <1>1, <1>2, <2>1, RestWaits
    <2>2. CASE u = t /\ Stops(t)
      BY <1>1, <1>2, <2>2, StopsWaits
    <2>3. CASE u = t /\ ~Stops(t)
      <3>1. Below(t) /\ Len(acts'[t]) = m /\ \A g \in DOMAIN acts'[t][m].frames : g < Len(Inner(t).frames)
        BY <2>3 DEF Ceases
      <3>2. j \in 1 .. m
        BY <1>2, <2>3, <3>1 DEF Waits
      <3>3. \/ Waits(acts[t], out[t], conts, j, f, b, i)
            \/ j = m /\ f = Len(Inner(t).frames) /\ f \in DOMAIN acts'[t][j].frames
        BY <1>1, <1>2, <2>3, <3>1, <3>2, BelowWaits
      <3>4. ~(j = m /\ f = Len(Inner(t).frames) /\ f \in DOMAIN acts'[t][j].frames)
        BY <3>1
      <3> QED
        BY <2>3, <3>3, <3>4
    <2> QED
      BY <2>1, <2>2, <2>3
  <1> QED
    BY <1>2, <1>3, WaitingTriples

LEMMA ReturnsWaits ==
  ASSUME TypeOK, Based, NEW t \in Threads, Returns(t), conts' = conts, NEW b, NEW i \in Nat \ {0}
  PROVE  Waiting(b, i)' \subseteq Waiting(b, i)
  <1> SUFFICES ASSUME NEW w \in Waiting(b, i)' PROVE w \in Waiting(b, i)
    OBVIOUS
  <1> DEFINE m == Len(acts[t])
             s == acts[t]
             r == acts'[t]
  <1>1. Rest(t) /\ s # <<>> /\ ContsKept
    BY DEF Returns, ContsKept
  <1>2. PICK u \in Threads, j \in Nat, f \in Nat :
          w = <<u, j, f>> /\ Waits(acts'[u], out'[u], conts', j, f, b, i)
    BY WaitingTriples
  <1>3. Waits(acts[u], out[u], conts, j, f, b, i)
    <2>1. CASE u # t
      BY <1>1, <1>2, <2>1, RestWaits
    <2>2. CASE u = t
      <3>1. j \in DOMAIN r
        BY <1>2, <2>2 DEF Waits
      <3>2. r = Front(s)
        BY <3>1 DEF Returns
      <3>3. s \in Seq(Activations) /\ Inner(t) = s[m] /\ m \in Nat \ {0}
        BY <1>1, InnerTyped
      <3>4. Len(r) = m - 1 /\ r \in Seq(Activations) /\ \A h \in 1 .. m - 1 : r[h] = s[h]
        BY <1>1, <3>2, <3>3, FrontOfSeq
      <3>5. j \in 1 .. m - 1 /\ r # <<>>
        BY <3>1, <3>4
      <3>6. Live(r, out'[t], j) => Live(s, out[t], j)
        <4>1. CASE j = m - 1
          BY <3>2, <3>3, <3>4, <3>5, <4>1 DEF Live, Returns
        <4>2. CASE j # m - 1
          <5>1. j + 1 \in 1 .. m - 1 /\ j # Len(s) /\ j # Len(r)
            BY <3>3, <3>4, <3>5, <4>2
          <5> QED
            BY <3>4, <5>1 DEF Live
        <4> QED
          BY <4>1, <4>2
      <3>7. r[j] = s[j] /\ j \in DOMAIN s
        BY <3>3, <3>4, <3>5
      <3> QED
        BY <1>2, <2>2, <3>6, <3>7 DEF Waits
    <2> QED
      BY <2>1, <2>2
  <1> QED
    BY <1>2, <1>3, WaitingTriples

\* An activation that replaces another adds nothing: the continuation that follows
\* na_aankomst has been waiting already.
LEMMA ReplacesWaits ==
  ASSUME TypeOK, Based, NEW t \in Threads, Replaces(t), conts' = conts, acts'[t] \in Seq(Activations),
         NEW b, NEW i \in Nat \ {0}
  PROVE  \E x, y : \A w \in Waiting(b, i)' :
           \/ w \in Waiting(b, i) \ {x}
           \/ w = y /\ x \in Waiting(b, i)
  <1> DEFINE m == Len(acts[t])
             s == acts[t]
             r == acts'[t]
             a == r[m]
             x == <<t, m, 0>>
             y == <<t, m, 1>>
  <1>1. /\ Rest(t) /\ s # <<>> /\ ContsKept /\ Inner(t).use \notin {"tail", "depart"}
        /\ Len(r) = m /\ \A h \in 1 .. m - 1 : r[h] = s[h]
        /\ \/ Beginning(a)
           \/ /\ Inner(t).use = "arrive" /\ a.use = "drop" /\ Len(a.frames) = 1
              /\ a.frames[1].block = conts[Inner(t).k].block /\ a.frames[1].at = conts[Inner(t).k].at + 1
              /\ conts[Inner(t).k].how # "qualified"
    BY DEF Replaces, ContsKept
  <1>2. s \in Seq(Activations) /\ Inner(t) = s[m] /\ m \in Nat \ {0}
    BY <1>1, InnerTyped
  <1>3. ASSUME NEW w \in Waiting(b, i)'
        PROVE  w \in Waiting(b, i) \ {x} \/ (w = y /\ x \in Waiting(b, i))
    <2>1. PICK u \in Threads, j \in Nat, f \in Nat :
            w = <<u, j, f>> /\ Waits(acts'[u], out'[u], conts', j, f, b, i)
      BY WaitingTriples
    <2>2. CASE u # t
      <3>1. Waits(acts[u], out[u], conts, j, f, b, i)
        BY <1>1, <2>1, <2>2, RestWaits
      <3>2. w \in Waiting(b, i)
        BY <2>1, <3>1, WaitingTriples
      <3> QED
        BY <2>1, <2>2, <3>2
    <2>3. CASE u = t /\ j # m
      <3>1. j \in 1 .. m - 1
        BY <1>1, <1>2, <2>1, <2>3 DEF Waits
      <3>2. r[j] = s[j] /\ j \in DOMAIN s
        BY <1>1, <1>2, <3>1
      <3>3. Live(r, out'[t], j) => Live(s, out[t], j)
        <4>1. CASE j = m - 1
          BY <1>1, <1>2, <3>1, <4>1 DEF Live
        <4>2. CASE j # m - 1
          <5>1. j + 1 \in 1 .. m - 1 /\ j # Len(s) /\ j # Len(r)
            BY <1>1, <1>2, <3>1, <4>2
          <5> QED
            BY <1>1, <5>1 DEF Live
        <4> QED
          BY <4>1, <4>2
      <3>4. Waits(s, out[t], conts, j, f, b, i)
        BY <2>1, <2>3, <3>2, <3>3 DEF Waits
      <3>5. w \in Waiting(b, i)
        BY <2>1, <2>3, <3>4, WaitingTriples
      <3> QED
        BY <2>1, <2>3, <3>5
    <2>4. CASE u = t /\ j = m
      <3>1. \/ f \in DOMAIN a.frames /\ a.frames[f].block = b /\ a.frames[f].at = i + 1
            \/ f = 0 /\ a.use = "arrive"
        BY <2>1, <2>4 DEF Waits
      <3>2. ~Beginning(a)
        <4>1. i + 1 # 1
          OBVIOUS
        <4> QED
          BY <3>1, <4>1 DEF Beginning
      <3>3. /\ Inner(t).use = "arrive" /\ a.use = "drop" /\ Len(a.frames) = 1
            /\ a.frames[1].block = conts[Inner(t).k].block /\ a.frames[1].at = conts[Inner(t).k].at + 1
            /\ conts[Inner(t).k].how # "qualified"
        BY <1>1, <3>2
      <3>4. DOMAIN a.frames = {1}
        <4>1. a \in Activations
          BY <1>1, <1>2
        <4>2. a.frames \in Seq(Frames)
          BY <4>1 DEF Activations
        <4> QED
          BY <3>3, <4>2
      <3> DEFINE k == Inner(t).k
      <3>5. k \in DOMAIN conts /\ conts[k].at \in Nat
        <4>1. m \in DOMAIN s
          BY <1>2
        <4>2. k \in DOMAIN conts
          BY <1>2, <3>3, <4>1 DEF Based, Rooted, TypeOK
        <4>3. conts[k] \in Continuations
          BY <4>2 DEF TypeOK
        <4> QED
          BY <4>2, <4>3 DEF Continuations
      <3> HIDE DEF a
      <3>6. f = 1 /\ conts[k].block = b /\ conts[k].at = i
        BY <3>1, <3>3, <3>4, <3>5
      <3>7. Comes(conts, k, b, i)
        BY <3>3, <3>5, <3>6 DEF Comes
      <3>8. Waits(s, out[t], conts, m, 0, b, i)
        BY <1>2, <3>3, <3>7 DEF Waits
      <3>9. x \in Waiting(b, i)
        BY <1>2, <3>8, WaitingTriples
      <3> QED
        BY <2>1, <2>4, <3>6, <3>9
    <2> QED
      BY <2>2, <2>3, <2>4
  <1> DEFINE Exchanged(p, q) ==
               \A w \in Waiting(b, i)' :
                 \/ w \in Waiting(b, i) \ {p}
                 \/ w = q /\ p \in Waiting(b, i)
  <1>4. Exchanged(x, y)
    BY <1>3
  <1>5. \E p, q : Exchanged(p, q)
    <2> HIDE DEF x, y, Exchanged
    <2> QED
      BY <1>4
  <1> QED
    BY <1>5

-----------------------------------------------------------------------------
(* Counting *)

\* An element fewer, and perhaps another instead.
LEMMA Exchange ==
  ASSUME NEW W, IsFiniteSet(W), NEW x, NEW Y, IsFiniteSet(Y), NEW V \in SUBSET ((W \ {x}) \union Y)
  PROVE  /\ IsFiniteSet(V) /\ Cardinality(V) \in Nat /\ Cardinality(W) \in Nat /\ Cardinality(Y) \in Nat
         /\ x \notin W => Cardinality(V) <= Cardinality(W) + Cardinality(Y)
         /\ x \in W => Cardinality(V) + 1 <= Cardinality(W) + Cardinality(Y)
  <1> DEFINE U == W \ {x}
             T == U \union Y
             B == U \intersect Y
  <1>1. /\ IsFiniteSet(U) /\ Cardinality(W) \in Nat /\ Cardinality(Y) \in Nat
        /\ Cardinality(U) = IF x \in W THEN Cardinality(W) - 1 ELSE Cardinality(W)
    BY FS_RemoveElement, FS_CardinalityType
  <1>2. IsFiniteSet(T) /\ Cardinality(T) = Cardinality(U) + Cardinality(Y) - Cardinality(B)
    BY <1>1, FS_Union
  <1>3. IsFiniteSet(B)
    BY <1>1, FS_Subset
  <1>4. Cardinality(U) \in Nat /\ Cardinality(B) \in Nat /\ Cardinality(T) \in Nat
    BY <1>1, <1>2, <1>3, FS_CardinalityType
  <1>5. IsFiniteSet(V) /\ Cardinality(V) <= Cardinality(T) /\ Cardinality(V) \in Nat
    BY <1>2, FS_Subset, FS_CardinalityType
  <1> HIDE DEF U, T, B
  <1>6. CASE x \in W
    BY <1>1, <1>2, <1>4, <1>5, <1>6
  <1>7. CASE x \notin W
    BY <1>1, <1>2, <1>4, <1>5, <1>7
  <1> QED
    BY <1>6, <1>7

\* No element, or one.
LEMMA AtMostOne ==
  ASSUME NEW y
  PROVE  /\ IsFiniteSet({}) /\ Cardinality({}) = 0
         /\ IsFiniteSet({y}) /\ Cardinality({y}) = 1
  BY FS_EmptySet, FS_Singleton

\* A run is counted.
LEMMA Counted ==
  ASSUME TypeOK, NEW t \in Threads, AtStatement(t), Count(t), NEW b \in Blocks, NEW j \in DOMAIN Code[b]
  PROVE  ran[b][j] \in Nat /\ ran'[b][j] = ran[b][j] + (IF At(t, b, j) THEN 1 ELSE 0)
  <1> DEFINE d == Here(t).block
             h == Here(t).at
             r == [ran[d] EXCEPT ![h] = ran[d][h] + 1]
  <1>1. /\ ran \in [Blocks -> Seq(Nat)] /\ d \in Blocks /\ h \in DOMAIN Code[d]
        /\ \A a \in Blocks : Len(ran[a]) = Len(Code[a]) /\ Code[a] \in Seq(Statements)
    BY AtTyped, ExecutorAssumption DEF TypeOK
  <1>2. ran' = [ran EXCEPT ![d] = r]
    BY DEF Count
  <1>3. ran[b] \in Seq(Nat) /\ j \in 1 .. Len(ran[b]) /\ ran[b][j] \in Nat
    BY <1>1
  <1>4. ran'[b] = IF b = d THEN r ELSE ran[b]
    BY <1>1, <1>2
  <1>5. b = d => r[j] = ran[b][j] + (IF h = j THEN 1 ELSE 0)
    BY <1>3
  <1> HIDE DEF r
  <1> QED
    BY <1>3, <1>4, <1>5 DEF At

\* What a capture and a resumption add.
LEMMA CapturedMore ==
  ASSUME TypeOK, NEW c \in Continuations, c.resumed = 0, conts' = Append(conts, c), NEW b, NEW i
  PROVE  /\ ContsKept
         /\ Resumptions(b, i)' = Resumptions(b, i)
         /\ Captured(b, i)' = Captured(b, i) \union (IF c.block = b /\ c.at = i THEN {Len(conts) + 1} ELSE {})
         /\ Len(conts) + 1 \notin Captured(b, i)
  <1> DEFINE n == Len(conts)
  <1>1. conts \in Seq(Continuations) /\ n \in Nat /\ DOMAIN conts = 1 .. n
    BY DEF TypeOK
  <1>2. /\ DOMAIN conts' = 1 .. n + 1 /\ conts'[n + 1] = c
        /\ \A k \in 1 .. n : conts'[k] = conts[k]
    BY <1>1
  <1>3. n + 1 \notin Captured(b, i)
    BY <1>1 DEF Captured
  <1> HIDE DEF n
  <1>4. ContsKept
    BY <1>1, <1>2 DEF ContsKept
  <1>5. ASSUME NEW k PROVE k \in Captured(b, i)' <=> k \in Captured(b, i) \/ (k = n + 1 /\ c.block = b /\ c.at = i)
    <2>1. k \in Captured(b, i)' <=> k \in 1 .. n + 1 /\ conts'[k].block = b /\ conts'[k].at = i
      BY <1>2 DEF Captured
    <2>2. k \in Captured(b, i) <=> k \in 1 .. n /\ conts[k].block = b /\ conts[k].at = i
      BY <1>1 DEF Captured
    <2>3. k \in 1 .. n + 1 <=> k \in 1 .. n \/ k = n + 1
      BY <1>1
    <2>4. n + 1 \notin 1 .. n
      BY <1>1
    <2> QED
      BY <1>2, <2>1, <2>2, <2>3, <2>4
  <1>6. Captured(b, i)' = Captured(b, i) \union (IF c.block = b /\ c.at = i THEN {n + 1} ELSE {})
    BY <1>5
  <1>7. ASSUME NEW g PROVE g \in Resumptions(b, i)' <=> g \in Resumptions(b, i)
    <2>1. g \in Resumptions(b, i)' <=> \E k \in Captured(b, i)' : g \in {k} \X (1 .. conts'[k].resumed)
      BY DEF Resumptions
    <2>2. g \in Resumptions(b, i) <=> \E k \in Captured(b, i) : g \in {k} \X (1 .. conts[k].resumed)
      BY DEF Resumptions
    <2>3. \A k \in Captured(b, i) : k \in 1 .. n
      BY <1>1 DEF Captured
    <2>4. 1 .. conts'[n + 1].resumed = {}
      BY <1>2
    <2> QED
      BY <1>2, <1>5, <2>1, <2>2, <2>3, <2>4
  <1> QED
    BY <1>3, <1>4, <1>6, <1>7 DEF n

LEMMA ResumedMore ==
  ASSUME TypeOK, NEW k \in DOMAIN conts,
         conts' = [conts EXCEPT ![k] = [conts[k] EXCEPT !.resumed = conts[k].resumed + 1]], NEW b, NEW i
  PROVE  LET g == <<k, conts[k].resumed + 1>> IN
         /\ ContsKept
         /\ Captured(b, i)' = Captured(b, i)
         /\ Resumptions(b, i)' = Resumptions(b, i) \union (IF k \in Captured(b, i) THEN {g} ELSE {})
         /\ g \notin Resumptions(b, i)
  <1> DEFINE c == conts[k]
             n == c.resumed
             d == [c EXCEPT !.resumed = n + 1]
             g == <<k, n + 1>>
  <1>1. conts \in Seq(Continuations) /\ c \in Continuations
    BY DEF TypeOK
  <1>2. n \in Nat /\ d.block = c.block /\ d.at = c.at /\ d.how = c.how /\ d.resumed = n + 1
    BY <1>1 DEF Continuations
  <1>3. DOMAIN conts' = DOMAIN conts /\ conts'[k] = d /\ \A h \in DOMAIN conts : h # k => conts'[h] = conts[h]
    BY <1>1
  <1> HIDE DEF d
  <1>4. ContsKept
    BY <1>2, <1>3 DEF ContsKept
  <1>5. Captured(b, i)' = Captured(b, i)
    BY <1>3, <1>4 DEF Captured, ContsKept
  <1>6. g \notin Resumptions(b, i)
    BY <1>2 DEF Resumptions
  <1>7. ASSUME NEW x
        PROVE  x \in Resumptions(b, i)' <=> x \in Resumptions(b, i) \/ (x = g /\ k \in Captured(b, i))
    <2>1. x \in Resumptions(b, i)' <=> \E h \in Captured(b, i) : x \in {h} \X (1 .. conts'[h].resumed)
      BY <1>5 DEF Resumptions
    <2>2. x \in Resumptions(b, i) <=> \E h \in Captured(b, i) : x \in {h} \X (1 .. conts[h].resumed)
      BY DEF Resumptions
    <2>3. \A h \in Captured(b, i) : h \in DOMAIN conts
      BY DEF Captured
    <2>4. x \in {k} \X (1 .. conts'[k].resumed) <=> x \in {k} \X (1 .. n) \/ x = g
      <3>1. 1 .. n + 1 = (1 .. n) \union {n + 1}
        BY <1>2
      <3> QED
        BY <1>2, <1>3, <3>1
    <2> QED
      BY <1>3, <2>1, <2>2, <2>3, <2>4
  <1>8. Resumptions(b, i)' = Resumptions(b, i) \union (IF k \in Captured(b, i) THEN {g} ELSE {})
    BY <1>7
  <1> QED
    BY <1>4, <1>5, <1>6, <1>8

-----------------------------------------------------------------------------
(* The invariant *)

\* A continuation has the form of the statement it was captured at.
Forms == \A k \in DOMAIN conts : conts[k].how = Code[conts[k].block][conts[k].at].op

\* RunsAfterPerform with the frames that wait counted as runs.
Paid(b, i) ==
    LET op == Code[b][i].op
        runs == ran[b][i + 1] + Cardinality(Waiting(b, i))
        resumed == Cardinality(Resumptions(b, i))
    IN
    /\ op \in {"migrate", "install"} => ran[b][i + 1] = 0 /\ Waiting(b, i) = {}
    /\ op \in {"perform", "bind", "qualified"} /\ Code[b][i + 1].op # "loop" =>
         /\ IsFiniteSet(Waiting(b, i)) /\ IsFiniteSet(Captured(b, i)) /\ IsFiniteSet(Resumptions(b, i))
         /\ op = "perform" => runs <= ran[b][i] + resumed
         /\ op = "qualified" => runs <= ran[b][i]
         /\ op = "bind" => runs + Cardinality(Captured(b, i)) <= ran[b][i] + resumed

AllPaid == \A b \in Blocks : \A i \in 1 .. Len(Code[b]) - 1 : Paid(b, i)

RunsInv == ScopesInv /\ Forms /\ AllPaid

\* A statement that has another behind it.
LEMMA Followed ==
  ASSUME TypeOK, NEW b \in Blocks, NEW i \in 1 .. Len(Code[b]) - 1
  PROVE  /\ i \in Nat \ {0} /\ i \in DOMAIN Code[b] /\ i + 1 \in DOMAIN Code[b] /\ i # i + 1
         /\ ran[b][i] \in Nat /\ ran[b][i + 1] \in Nat
  <1>1. Code[b] \in Seq(Statements) /\ ran[b] \in Seq(Nat) /\ Len(ran[b]) = Len(Code[b])
    BY ExecutorAssumption DEF TypeOK
  <1>2. i \in 1 .. Len(Code[b]) /\ i + 1 \in 1 .. Len(Code[b]) /\ i \in Nat \ {0}
    BY <1>1
  <1>3. ran[b][i] \in Nat /\ ran[b][i + 1] \in Nat
    BY <1>1, <1>2
  <1> QED
    BY <1>1, <1>2, <1>3

\* Every step is of one of these kinds.
LEMMA Kinds ==
  ASSUME TypeOK, Based, KnownScopes, NEW t \in Threads, Step(t)
  PROVE  /\ \/ Executes(t)
            \/ \E k \in DOMAIN conts : ResumesAt(t, k)
            \/ (Ceases(t) \/ Returns(t) \/ Replaces(t)) /\ UNCHANGED <<conts, ran>>
         /\ Code' = Code /\ acts'[t] \in Seq(Activations)
  <1>1. Code' = Code
    BY DEF Step, Begin, Deliver, Exhausted, Work, SendOut, Assign, Throw, Return, Install, If, Block, Loop, ForEach,
           Call, Handle, Nested, Perform, Resume, Migrate, Concurrent, Daemon, EndFrame, GoOn, PassOn, Catch,
           NextItem, Arrived, Departed, ThreadEnds
  <1>2. acts'[t] \in Seq(Activations)
    BY TypeNext DEF TypeOK
  <1>3. CASE \/ Work(t) \/ SendOut(t) \/ Assign(t) \/ Throw(t) \/ Return(t) \/ Install(t)
             \/ If(t) \/ Block(t) \/ Loop(t)
    BY <1>1, <1>2, <1>3, SimpleExecutes
  <1>4. CASE \/ ForEach(t) \/ Call(t) \/ Handle(t) \/ Migrate(t)
             \/ Nested(t, "try", "try") \/ Nested(t, "apart", "drop") \/ Nested(t, "inline", "inline")
    BY <1>1, <1>2, <1>4, CallExecutes
  <1>5. CASE (\E how \in {"perform", "bind", "qualified"} : Perform(t, how)) \/ Concurrent(t) \/ Daemon(t)
    BY <1>1, <1>2, <1>5, PerformExecutes, SpawnExecutes
  <1>6. CASE \E op \in {"resume", "revive"} : Resume(t, op)
    BY <1>1, <1>2, <1>6, ResumeExecutes
  <1>7. CASE Exhausted(t) \/ EndFrame(t)
    BY <1>1, <1>2, <1>7, CeasesStep
  <1>8. CASE GoOn(t) \/ PassOn(t) \/ Departed(t) \/ ThreadEnds(t)
    BY <1>1, <1>2, <1>8, ReturnsStep
  <1>9. CASE Catch(t) \/ NextItem(t) \/ Arrived(t)
    BY <1>1, <1>2, <1>9, ReplacesStep
  <1> QED
    BY <1>3, <1>4, <1>5, <1>6, <1>7, <1>8, <1>9 DEF Step

\* Continuations stay, and keep their form.
LEMMA FormsNext ==
  ASSUME TypeOK, Forms, Code' = Code, NEW t \in Threads,
         \/ Executes(t)
         \/ \E k \in DOMAIN conts : ResumesAt(t, k)
         \/ conts' = conts
  PROVE  ContsKept /\ Forms'
  <1>1. CASE conts' = conts
    BY <1>1 DEF ContsKept, Forms
  <1>2. CASE Executes(t) /\ conts' # conts
    <2>1. PICK c \in Continuations :
            /\ c.block = Here(t).block /\ c.at = Here(t).at /\ c.how = Stmt(t).op /\ c.resumed = 0
            /\ conts' = Append(conts, c)
      BY <1>2 DEF Executes
    <2>2. ContsKept
      BY <2>1, CapturedMore
    <2>3. conts \in Seq(Continuations)
      BY DEF TypeOK
    <2>4. \A k \in DOMAIN conts' : k \in DOMAIN conts \/ conts'[k] = c
      BY <2>1, <2>3
    <2>5. c.how = Code[c.block][c.at].op
      BY <2>1 DEF Stmt
    <2> QED
      BY <2>2, <2>4, <2>5 DEF Forms, ContsKept
  <1>3. CASE \E k \in DOMAIN conts : ResumesAt(t, k)
    <2>1. PICK k \in DOMAIN conts : ResumesAt(t, k)
      BY <1>3
    <2>2. ContsKept
      BY <2>1, ResumedMore DEF ResumesAt
    <2>3. DOMAIN conts' = DOMAIN conts
      BY <2>1 DEF ResumesAt
    <2> QED
      BY <2>2, <2>3 DEF Forms, ContsKept
  <1> QED
    BY <1>1, <1>2, <1>3

\* A step without a statement.
LEMMA PaidQuietly ==
  ASSUME TypeOK, Based, NEW t \in Threads, Ceases(t) \/ Returns(t) \/ Replaces(t),
         UNCHANGED <<Code, conts, ran>>, acts'[t] \in Seq(Activations),
         NEW b \in Blocks, NEW i \in 1 .. Len(Code[b]) - 1, Paid(b, i)
  PROVE  Paid(b, i)'
  <1> DEFINE W == Waiting(b, i)
             V == Waiting(b, i)'
             op == Code[b][i].op
  <1>1. i \in Nat \ {0} /\ ran[b][i] \in Nat /\ ran[b][i + 1] \in Nat
    BY Followed
  <1>2. PICK x, y : \A w \in V : w \in W \ {x} \/ (w = y /\ x \in W)
    <2>1. CASE Ceases(t) \/ Returns(t)
      <3>1. V \subseteq W
        BY <1>1, <2>1, CeasesWaits, ReturnsWaits
      <3> HIDE DEF V, W
      <3>2. CASE V = {}
        BY <3>2
      <3>3. CASE V # {}
        <4>1. PICK x : x \in V
          BY <3>3
        <4>2. \A w \in V : w \in W \ {x} \/ (w = x /\ x \in W)
          BY <3>1
        <4> QED
          BY <4>2
      <3> QED
        BY <3>2, <3>3
    <2>2. CASE Replaces(t)
      BY <1>1, <2>2, ReplacesWaits
    <2> QED
      BY <2>1, <2>2
  <1> HIDE DEF V, W
  <1>3. W = {} => V = {}
    BY <1>2
  <1>4. IsFiniteSet(W) => /\ IsFiniteSet(V) /\ Cardinality(V) \in Nat /\ Cardinality(W) \in Nat
                          /\ Cardinality(V) <= Cardinality(W)
    <2> SUFFICES ASSUME IsFiniteSet(W)
                 PROVE  /\ IsFiniteSet(V) /\ Cardinality(V) \in Nat /\ Cardinality(W) \in Nat
                        /\ Cardinality(V) <= Cardinality(W)
      OBVIOUS
    <2>1. CASE x \in W
      <3> DEFINE Y == {y}
      <3>1. V \in SUBSET ((W \ {x}) \union Y)
        BY <1>2
      <3>2. IsFiniteSet(Y) /\ Cardinality(Y) = 1
        BY AtMostOne
      <3> HIDE DEF Y
      <3>3. IsFiniteSet(V) /\ Cardinality(V) \in Nat /\ Cardinality(W) \in Nat
            /\ Cardinality(V) + 1 <= Cardinality(W) + Cardinality(Y)
        BY <2>1, <3>1, <3>2, Exchange
      <3> QED
        BY <3>2, <3>3
    <2>2. CASE x \notin W
      <3>1. V \subseteq W
        BY <1>2, <2>2
      <3> QED
        BY <3>1, FS_Subset, FS_CardinalityType
    <2> QED
      BY <2>1, <2>2
  <1> DEFINE C == Captured(b, i)
             R == Resumptions(b, i)
  <1>5. Captured(b, i)' = C /\ Resumptions(b, i)' = R
    BY DEF Captured, Resumptions
  <1>6. IsFiniteSet(C) => Cardinality(C) \in Nat
    BY FS_CardinalityType
  <1>7. IsFiniteSet(R) => Cardinality(R) \in Nat
    BY FS_CardinalityType
  <1> HIDE DEF C, R
  <1>8. \/ Code[b][i].op \notin {"migrate", "install"}
        \/ ran'[b][i + 1] = 0 /\ V = {}
    BY <1>3 DEF Paid, W
  <1>9. CASE ~(op \in {"perform", "bind", "qualified"} /\ Code[b][i + 1].op # "loop")
    BY <1>8, <1>9 DEF Paid, V
  <1>10. CASE op \in {"perform", "bind", "qualified"} /\ Code[b][i + 1].op # "loop"
    <2> DEFINE runs == ran[b][i + 1] + Cardinality(W)
               runs2 == ran[b][i + 1] + Cardinality(V)
    <2>1. /\ IsFiniteSet(W) /\ IsFiniteSet(C) /\ IsFiniteSet(R)
          /\ op = "perform" => runs <= ran[b][i] + Cardinality(R)
          /\ op = "qualified" => runs <= ran[b][i]
          /\ op = "bind" => runs + Cardinality(C) <= ran[b][i] + Cardinality(R)
      BY <1>10 DEF Paid, W, C, R
    <2>2. /\ IsFiniteSet(V)
          /\ op = "perform" => runs2 <= ran[b][i] + Cardinality(R)
          /\ op = "qualified" => runs2 <= ran[b][i]
          /\ op = "bind" => runs2 + Cardinality(C) <= ran[b][i] + Cardinality(R)
      <3> DEFINE v == Cardinality(V)
                 w == Cardinality(W)
                 c == Cardinality(C)
                 r == Cardinality(R)
                 e == ran[b][i]
                 l == ran[b][i + 1]
      <3>1. IsFiniteSet(V) /\ v \in Nat /\ w \in Nat /\ v <= w
        BY <1>4, <2>1
      <3>2. c \in Nat /\ r \in Nat /\ e \in Nat /\ l \in Nat
        BY <1>1, <1>6, <1>7, <2>1
      <3>3. /\ op = "perform" => l + w <= e + r
            /\ op = "qualified" => l + w <= e
            /\ op = "bind" => l + w + c <= e + r
        BY <2>1
      <3> HIDE DEF v, w, c, r, e, l, op
      <3>4. /\ op = "perform" => l + v <= e + r
            /\ op = "qualified" => l + v <= e
            /\ op = "bind" => l + v + c <= e + r
        BY <3>1, <3>2, <3>3
      <3> QED
        BY <3>1, <3>4 DEF v, c, r, e, l, op
    <2> QED
      BY <1>5, <1>8, <2>1, <2>2 DEF Paid, V
  <1> QED
    BY <1>9, <1>10

\* A statement: the frame that runs it has been counted already, and the next run that
\* it may lead to is paid by its own.
LEMMA PaidByExecution ==
  ASSUME TypeOK, Based, ContsKept, NEW t \in Threads, Executes(t), Code' = Code, acts'[t] \in Seq(Activations),
         NEW b \in Blocks, NEW i \in 1 .. Len(Code[b]) - 1, Paid(b, i)
  PROVE  Paid(b, i)'
  <1> DEFINE W == Waiting(b, i)
             V == Waiting(b, i)'
             C == Captured(b, i)
             D == Captured(b, i)'
             R == Resumptions(b, i)
             op == Code[b][i].op
             x == Present(t)
             goes == At(t, b, i) /\ ~Stops(t) /\ ~Holds(t)
             Y == IF goes THEN {x} ELSE {}
             g == IF At(t, b, i) THEN 1 ELSE 0
             h == IF At(t, b, i + 1) THEN 1 ELSE 0
             e == ran[b][i]
             l == ran[b][i + 1]
  <1>1. /\ i \in Nat \ {0} /\ i \in DOMAIN Code[b] /\ i + 1 \in DOMAIN Code[b] /\ e \in Nat /\ l \in Nat
        /\ g \in {0, 1} /\ h \in {0, 1}
    BY Followed
  <1>2. AtStatement(t) /\ Count(t)
    BY DEF Executes
  <1>3. ran'[b][i] = e + g /\ ran'[b][i + 1] = l + h
    BY <1>1, <1>2, Counted
  <1>4. At(t, b, i + 1) => x \in W
    BY <1>2, PresentWaits
  <1>5. At(t, b, i) => Stmt(t).op = op
    BY DEF At, Stmt
  <1>6. NoLoop(b, i) => V \subseteq (W \ {x}) \union Y
    <2> SUFFICES ASSUME NoLoop(b, i), NEW w \in V PROVE w \in (W \ {x}) \union Y
      OBVIOUS
    <2>1. w \in W \ {x} \/ (w = x /\ goes)
      BY <1>1, ExecutesWaits
    <2> QED
      BY <2>1
  <1>7. op \in {"migrate", "install"} => ran'[b][i + 1] = 0 /\ V = {}
    <2> SUFFICES ASSUME op \in {"migrate", "install"} PROVE ran'[b][i + 1] = 0 /\ V = {}
      OBVIOUS
    <2>1. l = 0 /\ W = {}
      BY DEF Paid
    <2>2. ~goes
      BY <1>5 DEF Executes
    <2>3. V \subseteq (W \ {x}) \union Y
      BY <1>6, <2>1 DEF NoLoop
    <2>4. V = {}
      <3> HIDE DEF V, W, goes
      <3> QED
        BY <2>1, <2>2, <2>3
    <2>5. h = 0
      BY <1>4, <2>1
    <2> HIDE DEF l, h
    <2> QED
      BY <1>3, <2>1, <2>4, <2>5
  <1>8. CASE ~(op \in {"perform", "bind", "qualified"} /\ Code[b][i + 1].op # "loop")
    BY <1>7, <1>8 DEF Paid
  <1>9. CASE op \in {"perform", "bind", "qualified"} /\ Code[b][i + 1].op # "loop"
    <2> DEFINE v == Cardinality(V)
               w == Cardinality(W)
               c == Cardinality(C)
               d == Cardinality(D)
               r == Cardinality(R)
               y == Cardinality(Y)
    <2>1. /\ IsFiniteSet(W) /\ IsFiniteSet(C) /\ IsFiniteSet(R)
          /\ op = "perform" => l + w <= e + r
          /\ op = "qualified" => l + w <= e
          /\ op = "bind" => l + w + c <= e + r
      BY <1>9 DEF Paid
    <2>2. IsFiniteSet(Y) /\ y = (IF goes THEN 1 ELSE 0)
      <3> HIDE DEF goes, x
      <3>1. CASE goes
        BY <3>1, AtMostOne
      <3>2. CASE ~goes
        BY <3>2, AtMostOne
      <3> QED
        BY <3>1, <3>2
    <2>3. V \in SUBSET ((W \ {x}) \union Y)
      BY <1>6, <1>9 DEF NoLoop
    <2>4. IsFiniteSet(V) /\ v \in Nat /\ w \in Nat /\ v + h <= w + y
      <3> HIDE DEF V, W, Y, x
      <3>1. /\ IsFiniteSet(V) /\ v \in Nat /\ w \in Nat /\ y \in Nat
            /\ x \notin W => v <= w + y
            /\ x \in W => v + 1 <= w + y
        BY <2>1, <2>2, <2>3, Exchange
      <3>2. CASE At(t, b, i + 1)
        BY <1>4, <3>1, <3>2
      <3>3. CASE ~At(t, b, i + 1)
        <4> HIDE DEF v, w, y
        <4> QED
          BY <3>1, <3>3
      <3> QED
        BY <3>2, <3>3
    <2>5. Resumptions(b, i)' = R /\ IsFiniteSet(D) /\ c \in Nat /\ d \in Nat /\ d <= c + g
          /\ (op = "bind" => d + y <= c + g)
      <3>1. c \in Nat
        BY <2>1, FS_CardinalityType
      <3>2. CASE conts' = conts
        <4>1. Resumptions(b, i)' = R /\ D = C
          BY <3>2 DEF Resumptions, Captured
        <4>2. y <= g
          BY <2>2
        <4> HIDE DEF c, d, y, g, D, C
        <4> QED
          BY <1>1, <2>1, <2>2, <3>1, <4>1, <4>2 DEF c, d
      <3>3. CASE conts' # conts
        <4>1. PICK k \in Continuations :
                /\ k.block = Here(t).block /\ k.at = Here(t).at /\ k.resumed = 0
                /\ conts' = Append(conts, k)
          BY <3>3 DEF Executes
        <4>2. op = "bind" => ~goes
          BY <1>5, <3>3 DEF Executes
        <4> DEFINE n == Len(conts) + 1
        <4>3. Resumptions(b, i)' = R /\ D = C \union (IF At(t, b, i) THEN {n} ELSE {}) /\ n \notin C
          BY <4>1, CapturedMore DEF At
        <4> HIDE DEF n, C, D
        <4>4. IsFiniteSet(D) /\ d = c + g
          <5>1. CASE At(t, b, i)
            <6>1. D = C \union {n}
              BY <4>3, <5>1
            <6> QED
              BY <2>1, <4>3, <5>1, <6>1, FS_AddElement
          <5>2. CASE ~At(t, b, i)
            <6>1. D = C /\ g = 0
              BY <4>3, <5>2
            <6>2. d = c
              BY <6>1
            <6> HIDE DEF c, d, g
            <6> QED
              BY <2>1, <3>1, <6>1, <6>2
          <5> QED
            BY <5>1, <5>2
        <4>5. op = "bind" => y = 0
          BY <2>2, <4>2
        <4> HIDE DEF c, d, g, y, op
        <4> QED
          BY <1>1, <3>1, <4>3, <4>4, <4>5
      <3> QED
        BY <3>2, <3>3
    <2>6. r \in Nat /\ y \in Nat /\ y <= g
      BY <2>1, <2>2, FS_CardinalityType
    <2> HIDE DEF v, w, c, d, r, y, e, l, g, h, op
    <2>7. /\ op = "perform" => l + h + v <= e + g + r
          /\ op = "qualified" => l + h + v <= e + g
          /\ op = "bind" => l + h + v + d <= e + g + r
      BY <1>1, <2>1, <2>4, <2>5, <2>6
    <2>8. /\ op = "perform" => ran'[b][i + 1] + v <= ran'[b][i] + r
          /\ op = "qualified" => ran'[b][i + 1] + v <= ran'[b][i]
          /\ op = "bind" => ran'[b][i + 1] + v + d <= ran'[b][i] + r
      BY <1>3, <2>7
    <2> HIDE DEF V, D, R
    <2> QED
      BY <1>7, <2>1, <2>4, <2>5, <2>8 DEF Paid, v, d, r, op, V, D
  <1> QED
    BY <1>8, <1>9

\* A resumption pays for the run that it leads to.
LEMMA PaidByResumption ==
  ASSUME TypeOK, Based, Forms, ContsKept, NEW t \in Threads, NEW k \in DOMAIN conts, ResumesAt(t, k), Code' = Code,
         acts'[t] \in Seq(Activations), NEW b \in Blocks, NEW i \in 1 .. Len(Code[b]) - 1, Paid(b, i)
  PROVE  Paid(b, i)'
  <1> DEFINE W == Waiting(b, i)
             V == Waiting(b, i)'
             C == Captured(b, i)
             R == Resumptions(b, i)
             Q == Resumptions(b, i)'
             op == Code[b][i].op
             x == Present(t)
             comes == Comes(conts, k, b, i)
             h == IF At(t, b, i + 1) THEN 1 ELSE 0
             e == ran[b][i]
             l == ran[b][i + 1]
  <1>1. /\ i \in Nat \ {0} /\ i \in DOMAIN Code[b] /\ i + 1 \in DOMAIN Code[b] /\ e \in Nat /\ l \in Nat
        /\ h \in {0, 1}
    BY Followed
  <1>2. AtStatement(t) /\ Count(t) /\ Stmt(t).op \in {"resume", "revive"}
    BY DEF ResumesAt
  <1>4. At(t, b, i) => op \in {"resume", "revive"}
    BY <1>2 DEF At, Stmt
  <1>5. At(t, b, i + 1) => x \in W
    BY <1>2, PresentWaits
  <1>6. comes => op \in {"perform", "bind"} /\ k \in C
    <2>1. conts[k] \in Continuations
      BY DEF TypeOK
    <2>2. conts[k].how \in {"perform", "bind", "qualified"}
      BY <2>1 DEF Continuations
    <2> QED
      BY <2>2 DEF Comes, Forms, Captured
  <1>7. ran'[b][i + 1] = l + h /\ ran'[b][i] >= e /\ ran'[b][i] \in Nat
        /\ (~At(t, b, i) => ran'[b][i] = e)
    <2>1. ran'[b][i] = e + (IF At(t, b, i) THEN 1 ELSE 0) /\ ran'[b][i + 1] = l + h
      BY <1>1, <1>2, Counted
    <2> HIDE DEF e, l, h
    <2> QED
      BY <1>1, <2>1
  <1>8. ASSUME NoLoop(b, i), ~At(t, b, i)
        PROVE  \E y : V \subseteq (W \ {x}) \union (IF comes THEN {y} ELSE {})
    <2>1. PICK y : \A w \in V : w \in W \ {x} \/ (w = y /\ comes)
      BY <1>1, <1>8, ResumesWaits
    <2> HIDE DEF V, W, comes
    <2> QED
      BY <2>1
  <1>9. op \in {"migrate", "install"} => ran'[b][i + 1] = 0 /\ V = {}
    <2> SUFFICES ASSUME op \in {"migrate", "install"} PROVE ran'[b][i + 1] = 0 /\ V = {}
      OBVIOUS
    <2>1. l = 0 /\ W = {}
      BY DEF Paid
    <2>2. ~comes /\ ~At(t, b, i)
      BY <1>4, <1>6
    <2>3. NoLoop(b, i)
      BY <2>1 DEF NoLoop
    <2>4. V = {}
      <3>1. PICK y : V \subseteq (W \ {x}) \union (IF comes THEN {y} ELSE {})
        BY <1>8, <2>2, <2>3
      <3> HIDE DEF V, W, comes
      <3> QED
        BY <2>1, <2>2, <3>1
    <2>5. h = 0
      BY <1>5, <2>1
    <2> HIDE DEF l, h
    <2> QED
      BY <1>7, <2>1, <2>4, <2>5
  <1>10. CASE ~(op \in {"perform", "bind", "qualified"} /\ Code[b][i + 1].op # "loop")
    BY <1>9, <1>10 DEF Paid
  <1>11. CASE op \in {"perform", "bind", "qualified"} /\ Code[b][i + 1].op # "loop"
    <2> DEFINE v == Cardinality(V)
               w == Cardinality(W)
               c == Cardinality(C)
               r == Cardinality(R)
               q == Cardinality(Q)
    <2>1. /\ IsFiniteSet(W) /\ IsFiniteSet(C) /\ IsFiniteSet(R)
          /\ op = "perform" => l + w <= e + r
          /\ op = "qualified" => l + w <= e
          /\ op = "bind" => l + w + c <= e + r
      BY <1>11 DEF Paid
    <2>2. /\ Captured(b, i)' = C /\ IsFiniteSet(Q) /\ q \in Nat /\ r \in Nat /\ c \in Nat
          /\ r <= q /\ (k \in C => q = r + 1)
      <3> DEFINE g == <<k, conts[k].resumed + 1>>
      <3>1. Captured(b, i)' = C /\ Q = R \union (IF k \in C THEN {g} ELSE {}) /\ g \notin R
        BY ResumedMore DEF ResumesAt
      <3> HIDE DEF g, C, R, Q
      <3>2. r \in Nat /\ c \in Nat
        BY <2>1, FS_CardinalityType
      <3>3. CASE k \in C
        <4>1. Q = R \union {g}
          BY <3>1, <3>3
        <4>2. IsFiniteSet(Q) /\ q = r + 1
          BY <2>1, <3>1, <4>1, FS_AddElement
        <4> HIDE DEF q, r, c
        <4> QED
          BY <3>1, <3>2, <4>2
      <3>4. CASE k \notin C
        <4>1. Q = R
          BY <3>1, <3>4
        <4> QED
          BY <2>1, <3>1, <3>2, <3>4, <4>1
      <3> QED
        BY <3>3, <3>4
    <2>3. ~At(t, b, i)
      BY <1>4, <1>11
    <2>4. PICK y : V \subseteq (W \ {x}) \union (IF comes THEN {y} ELSE {})
      BY <1>8, <1>11, <2>3 DEF NoLoop
    <2> DEFINE Y == IF comes THEN {y} ELSE {}
               m == Cardinality(Y)
    <2>5. IsFiniteSet(Y) /\ m = (IF comes THEN 1 ELSE 0)
      <3> HIDE DEF comes
      <3>1. CASE comes
        BY <3>1, AtMostOne
      <3>2. CASE ~comes
        BY <3>2, AtMostOne
      <3> QED
        BY <3>1, <3>2
    <2>6. IsFiniteSet(V) /\ v \in Nat /\ w \in Nat /\ v + h <= w + m
      <3>0. V \in SUBSET ((W \ {x}) \union Y)
        BY <2>4
      <3> HIDE DEF V, W, Y, x
      <3>1. /\ IsFiniteSet(V) /\ v \in Nat /\ w \in Nat /\ m \in Nat
            /\ x \notin W => v <= w + m
            /\ x \in W => v + 1 <= w + m
        BY <2>1, <2>5, <3>0, Exchange
      <3>2. CASE At(t, b, i + 1)
        BY <1>5, <3>1, <3>2
      <3>3. CASE ~At(t, b, i + 1)
        <4> HIDE DEF v, w, m
        <4> QED
          BY <3>1, <3>3
      <3> QED
        BY <3>2, <3>3
    <2>7. m \in {0, 1} /\ (m = 1 => op \in {"perform", "bind"} /\ q = r + 1)
      BY <1>6, <2>2, <2>5
    <2>8. ran'[b][i + 1] = l + h /\ ran'[b][i] = e
      BY <1>7, <2>3
    <2> HIDE DEF v, w, c, r, q, m, e, l, h, op
    <2>9. /\ op = "perform" => l + h + v <= e + q
          /\ op = "qualified" => l + h + v <= e
          /\ op = "bind" => l + h + v + c <= e + q
      BY <1>1, <2>1, <2>2, <2>6, <2>7
    <2>10. /\ op = "perform" => ran'[b][i + 1] + v <= ran'[b][i] + q
           /\ op = "qualified" => ran'[b][i + 1] + v <= ran'[b][i]
           /\ op = "bind" => ran'[b][i + 1] + v + c <= ran'[b][i] + q
      BY <2>8, <2>9
    <2> HIDE DEF V, C, Q
    <2> QED
      BY <1>9, <2>1, <2>2, <2>6, <2>10 DEF Paid, v, c, q, op, V, C, Q
  <1> QED
    BY <1>10, <1>11

LEMMA RunsInit == Init => RunsInv
  <1> SUFFICES ASSUME Init PROVE RunsInv
    OBVIOUS
  <1>1. ScopesInv
    BY ScopesInit
  <1>2. conts = <<>> /\ DOMAIN conts = {}
    BY DEF Init
  <1>3. Forms
    BY <1>2 DEF Forms
  <1>4. \A u \in Threads : \A j \in DOMAIN acts[u] : Beginning(acts[u][j])
    <2>1. Beginning(Activation(Main, 1, "top", FALSE))
      BY Begins
    <2> DEFINE a == Activation(Main, 1, "top", FALSE)
    <2>2. \A u \in Threads : acts[u] \in {<<a>>, <<>>}
      BY DEF Init
    <2>3. Beginning(a)
      BY <2>1 DEF a
    <2> HIDE DEF a
    <2>4. ASSUME NEW u \in Threads, NEW j \in DOMAIN acts[u]
          PROVE  Beginning(acts[u][j])
      <3>1. CASE acts[u] = <<a>>
        <4>1. acts[u][j] = a
          BY <3>1
        <4> QED
          BY <4>1, <2>3
      <3>2. CASE acts[u] = <<>>
        BY <3>2
      <3> QED
        BY <2>2, <3>1, <3>2
    <2> QED
      BY <2>4
  <1>5. ASSUME NEW b \in Blocks, NEW i \in 1 .. Len(Code[b]) - 1 PROVE Paid(b, i)
    <2>1. i \in Nat \ {0} /\ i + 1 # 1 /\ i \in DOMAIN Code[b] /\ i + 1 \in DOMAIN Code[b]
      BY <1>1, Followed DEF ScopesInv
    <2>2. ran[b][i] = 0 /\ ran[b][i + 1] = 0
      BY <2>1 DEF Init
    <2>3. Waiting(b, i) = {}
      <3> SUFFICES ASSUME NEW w \in Waiting(b, i) PROVE FALSE
        OBVIOUS
      <3>1. PICK u \in Threads, j \in Nat, f \in Nat :
              w = <<u, j, f>> /\ Waits(acts[u], out[u], conts, j, f, b, i)
        BY WaitingTriples
      <3> QED
        BY <1>4, <2>1, <3>1 DEF Waits, Beginning
    <2>4. Captured(b, i) = {}
      BY <1>2 DEF Captured
    <2>5. Resumptions(b, i) = {}
      BY <2>4 DEF Resumptions
    <2>6. IsFiniteSet({}) /\ Cardinality({}) = 0
      BY FS_EmptySet
    <2> QED
      BY <2>2, <2>3, <2>4, <2>5, <2>6 DEF Paid
  <1> QED
    BY <1>1, <1>3, <1>5 DEF RunsInv, AllPaid

LEMMA RunsStep == RunsInv /\ [Next]_vars => RunsInv'
  <1> SUFFICES ASSUME RunsInv, [Next]_vars PROVE RunsInv'
    OBVIOUS
  <1>1. ScopesInv /\ TypeOK /\ Based /\ KnownScopes /\ Forms /\ AllPaid
    BY DEF RunsInv, ScopesInv
  <1>2. ScopesInv'
    BY <1>1, ScopesStep
  <1>3. CASE UNCHANGED vars
    <2>1. UNCHANGED <<Code, acts, out, conts, ran>>
      BY <1>3 DEF vars
    <2>2. Forms'
      BY <1>1, <2>1 DEF Forms
    <2>3. \A b, i : Waiting(b, i)' = Waiting(b, i)
      BY <2>1 DEF Waiting
    <2>4. \A b, i : Captured(b, i)' = Captured(b, i) /\ Resumptions(b, i)' = Resumptions(b, i)
      BY <2>1 DEF Captured, Resumptions
    <2>5. AllPaid'
      <3>1. ASSUME NEW b, NEW i, Paid(b, i) PROVE Paid(b, i)'
        <4> HIDE DEF Waiting, Captured, Resumptions
        <4> QED
          BY <2>1, <2>3, <2>4, <3>1 DEF Paid
      <3> QED
        BY <1>1, <2>1, <3>1 DEF AllPaid
    <2> QED
      BY <1>2, <2>2, <2>5 DEF RunsInv
  <1>4. CASE Next
    <2>1. PICK t \in Threads : Step(t)
      BY <1>4 DEF Next
    <2>2. /\ \/ Executes(t)
             \/ \E k \in DOMAIN conts : ResumesAt(t, k)
             \/ (Ceases(t) \/ Returns(t) \/ Replaces(t)) /\ UNCHANGED <<conts, ran>>
          /\ Code' = Code /\ acts'[t] \in Seq(Activations)
      BY <1>1, <2>1, Kinds
    <2>3. ContsKept /\ Forms'
      BY <1>1, <2>2, FormsNext
    <2>4. ASSUME NEW b \in Blocks, NEW i \in 1 .. Len(Code[b]) - 1 PROVE Paid(b, i)'
      <3>1. Paid(b, i)
        BY <1>1 DEF AllPaid
      <3>2. CASE Executes(t)
        BY <1>1, <2>2, <2>3, <3>1, <3>2, PaidByExecution
      <3>3. CASE \E k \in DOMAIN conts : ResumesAt(t, k)
        BY <1>1, <2>2, <2>3, <3>1, <3>3, PaidByResumption
      <3>4. CASE (Ceases(t) \/ Returns(t) \/ Replaces(t)) /\ UNCHANGED <<conts, ran>>
        BY <1>1, <2>2, <3>1, <3>4, PaidQuietly
      <3> QED
        BY <2>2, <3>2, <3>3, <3>4
    <2>5. AllPaid'
      BY <2>2, <2>4 DEF AllPaid
    <2> QED
      BY <1>2, <2>3, <2>5 DEF RunsInv
  <1> QED
    BY <1>3, <1>4

\* Whatever the programs, handlers and tasks, what follows a perform runs for its
\* resumptions and once for itself, behind `zet x = perform` for the resumptions alone,
\* and behind a migrate or an installation never.
THEOREM RunsAlwaysPaid == Spec => []RunsAfterPerform
  <1>1. RunsInv => RunsAfterPerform
    <2> SUFFICES ASSUME RunsInv, NEW b \in Blocks, NEW i \in 1 .. Len(Code[b]) - 1
                 PROVE  LET op == Code[b][i].op
                            resumed == Cardinality(Resumptions(b, i))
                        IN
                        /\ op \in {"migrate", "install"} => ran[b][i + 1] = 0
                        /\ Code[b][i + 1].op # "loop" =>
                             /\ op = "perform" => ran[b][i + 1] <= ran[b][i] + resumed
                             /\ op = "qualified" => ran[b][i + 1] <= ran[b][i]
                             /\ op = "bind" => ran[b][i + 1] + Cardinality(Captured(b, i)) <= ran[b][i] + resumed
      BY DEF RunsAfterPerform
    <2> DEFINE op == Code[b][i].op
               w == Cardinality(Waiting(b, i))
               c == Cardinality(Captured(b, i))
               r == Cardinality(Resumptions(b, i))
               e == ran[b][i]
               l == ran[b][i + 1]
    <2>1. TypeOK /\ Paid(b, i)
      BY DEF RunsInv, ScopesInv, AllPaid
    <2>2. e \in Nat /\ l \in Nat
      BY <2>1, Followed
    <2>3. op \in {"migrate", "install"} => l = 0
      BY <2>1 DEF Paid
    <2>4. op \in {"perform", "bind", "qualified"} /\ Code[b][i + 1].op # "loop" =>
            /\ w \in Nat /\ c \in Nat /\ r \in Nat
            /\ op = "perform" => l + w <= e + r
            /\ op = "qualified" => l + w <= e
            /\ op = "bind" => l + w + c <= e + r
      BY <2>1, FS_CardinalityType DEF Paid
    <2> HIDE DEF op, w, c, r, e, l
    <2>5. Code[b][i + 1].op # "loop" =>
            /\ op = "perform" => l <= e + r
            /\ op = "qualified" => l <= e
            /\ op = "bind" => l + c <= e + r
      BY <2>2, <2>4
    <2> QED
      BY <2>3, <2>5 DEF op, c, r, e, l
  <1> QED
    BY <1>1, RunsInit, RunsStep, PTL DEF Spec
=============================================================================
