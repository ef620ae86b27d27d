---------------------------- MODULE SessionProofs ----------------------------
(***************************************************************************)
(* Proofs about Session, for any tasks, globals, values, commands, packets, *)
(* requests and length of the history.                                      *)
(***************************************************************************)
EXTENDS Session, FiniteSetTheorems, SequenceTheorems, TLAPS

\* Outside its commands the REPL executes nothing.
ReplWaits == phase # "run" => job[Repl].route = "none"

\* Each snapshot that was exact holds the memory it was taken for.
Recorded ==
    \A i \in 1 .. Len(history) :
        LET b == before[Len(before) - Len(history) + i] IN b.exact => history[i] = b.memory

\* A snapshot nobody disturbs has the memory's value of each key it has read.
Snapping ==
    phase = "snap" /\ quiet =>
        /\ want = [globals |-> globals, scopes |-> scopes]
        /\ copy.scopes = <<>>
        /\ \A k \in Keys \ todo : copy.globals[k] = globals[k]

\* A rollback nobody disturbs puts back what it is to restore, key by key.
Restoring ==
    /\ phase = "clear" => todo = Keys
    /\ phase \in {"clear", "fill"} /\ quiet => copy = want
    /\ phase = "fill" /\ quiet =>
         \A k \in Keys : globals[k] = IF k \in todo THEN Undefined ELSE want.globals[k]

UndoInv == TypeOK /\ ReplWaits /\ Recorded /\ Snapping /\ Restoring

-----------------------------------------------------------------------------
(* The depth of the braces *)

\* One more line is counted where it belongs.
LEMMA LinesAppend ==
  ASSUME NEW b \in Seq({-1, 0, 1}), NEW n \in {-1, 0, 1}, NEW m \in {-1, 1}
  PROVE  /\ Lines(b, m) \in Nat
         /\ Lines(Append(b, n), m) = Lines(b, m) + IF n = m THEN 1 ELSE 0
  <1> DEFINE D == {i \in DOMAIN b : b[i] = m}
             c == Append(b, n)
  <1>1. /\ Len(b) \in Nat /\ DOMAIN b = 1 .. Len(b)
        /\ DOMAIN c = 1 .. Len(b) + 1 /\ c[Len(b) + 1] = n
        /\ \A i \in 1 .. Len(b) : c[i] = b[i]
    OBVIOUS
  <1>2. IsFiniteSet(D) /\ Cardinality(D) \in Nat
    <2>1. IsFiniteSet(1 .. Len(b))
      BY <1>1, FS_Interval
    <2>2. D \subseteq 1 .. Len(b)
      BY <1>1
    <2> QED
      BY <2>1, <2>2, FS_Subset, FS_CardinalityType
  <1>3. Len(b) + 1 \notin D
    BY <1>1
  <1>4. {i \in DOMAIN c : c[i] = m} = IF n = m THEN D \union {Len(b) + 1} ELSE D
    BY <1>1
  <1>5. Cardinality(D \union {Len(b) + 1}) = Cardinality(D) + 1
    BY <1>2, <1>3, FS_AddElement
  <1>6. Lines(b, m) = Cardinality(D) /\ Lines(c, m) = Cardinality({i \in DOMAIN c : c[i] = m})
    BY DEF Lines
  <1> HIDE DEF D, c
  <1>7. CASE n = m
    BY <1>2, <1>4, <1>5, <1>6, <1>7 DEF c
  <1>8. CASE n # m
    <2>1. Lines(c, m) = Lines(b, m)
      BY <1>4, <1>6, <1>8
    <2>2. Lines(b, m) \in Nat
      BY <1>2, <1>6
    <2> QED
      BY <2>1, <2>2, <1>8 DEF c
  <1> QED
    BY <1>7, <1>8

\* A line changes the balance by what it adds.
LEMMA BalanceAppend ==
  ASSUME NEW b \in Seq({-1, 0, 1}), NEW n \in {-1, 0, 1}
  PROVE  Balance(Append(b, n)) = Balance(b) + n
  <1>1. /\ Lines(b, 1) \in Nat /\ Lines(Append(b, n), 1) = Lines(b, 1) + IF n = 1 THEN 1 ELSE 0
    BY LinesAppend
  <1>2. /\ Lines(b, -1) \in Nat /\ Lines(Append(b, n), -1) = Lines(b, -1) + IF n = -1 THEN 1 ELSE 0
    BY LinesAppend
  <1> QED
    BY <1>1, <1>2 DEF Balance

\* An empty buffer has no depth.
LEMMA BalanceEmpty == Balance(<<>>) = 0
  <1>1. {i \in DOMAIN <<>> : <<>>[i] = 1} = {} /\ {i \in DOMAIN <<>> : <<>>[i] = -1} = {}
    OBVIOUS
  <1>2. Lines(<<>>, 1) = 0 /\ Lines(<<>>, -1) = 0
    BY <1>1, FS_EmptySet DEF Lines
  <1> QED
    BY <1>2 DEF Balance

-----------------------------------------------------------------------------
(* Commands *)

\* A command, or the one that its name stands for, is of the parser's shape.
LEMMA ResolvedType ==
  ASSUME NEW c, c \in Commands \union Packets \union {NoCommand}
  PROVE  Resolved(c) \in Codes
  <1>1. CASE c = NoCommand
    BY <1>1 DEF NoCommand, Resolved, Codes, Routes, Flaws
  <1>2. CASE c \in Codes
    <2>1. c.route # "function"
      BY <1>2 DEF Codes, Routes
    <2> QED
      BY <1>2, <2>1 DEF Resolved
  <1>3. CASE c.route = "function" /\ c.name \in DOMAIN Functions
    BY <1>3, SessionAssumption DEF Resolved
  <1> QED
    BY <1>1, <1>2, <1>3, SessionAssumption

\* What a command decides at once is an error or an acknowledgement.
LEMMA StartType ==
  ASSUME NEW c \in Codes, NEW privileged \in BOOLEAN
  PROVE  Start(c, privileged) \in {"ok", "err", "run"}
  <1>1. StartCode(c) \in {"ok", "err", "run"}
    BY DEF StartCode
  <1>2. StartStatements(c) \in {"ok", "run"}
    BY DEF StartStatements
  <1>3. StartGuarded(privileged) \in {"ok", "err"} /\ StartLogged = "ok" /\ StartHel = "err"
    BY DEF StartGuarded, StartLogged, StartHel
  <1>4. StartReach(c, privileged) \in {"ok", "err"} /\ StartShared(privileged) \in {"ok", "err"}
    BY <1>3 DEF StartReach, StartShared
  <1> QED
    BY <1>1, <1>2, <1>3, <1>4 DEF Start

\* A job as a command leaves it: it has executed nothing.
LEMMA CommandJob ==
  ASSUME TypeOK, NEW t \in Tasks, NEW c, c \in Commands \union Packets \union {NoCommand},
         NEW privileged \in BOOLEAN, Command(t, c, privileged)
  PROVE  /\ \E j \in Jobs : job' = [job EXCEPT ![t] = j] /\ ~j.ran
         /\ \E o \in {"none", "ok", "err"} : outcome' = [outcome EXCEPT ![t] = o]
  <1> DEFINE r == Resolved(c)
             s == Start(r, privileged)
             o == IF s = "run" THEN "none" ELSE s
             j == IF s = "run" THEN Job(r.route, r.body, privileged)
                  ELSE Job(IF t = Repl THEN "told" ELSE "none", <<>>, FALSE)
  <1>1. r \in Codes /\ s \in {"ok", "err", "run"}
    BY ResolvedType, StartType
  <1>2. outcome' = [outcome EXCEPT ![t] = o] /\ job' = [job EXCEPT ![t] = j]
    BY DEF Command
  <1>3. o \in {"none", "ok", "err"}
    BY <1>1
  <1>4. j \in Jobs /\ ~j.ran
    <2> HIDE DEF r, s
    <2>1. r.route \in Routes /\ r.body \in Seq(Statements)
      BY <1>1 DEF Codes
    <2> QED
      BY <2>1 DEF Job, Jobs
  <1> HIDE DEF o, j
  <1> QED
    BY <1>2, <1>3, <1>4

-----------------------------------------------------------------------------
(* The history is a window on the commands that are not undone. *)

\* What an entry of a sequence is, and a prefix of it.
LEMMA Prefix ==
  ASSUME NEW S, NEW s \in Seq(S), NEW n \in 0 .. Len(s)
  PROVE  /\ SubSeq(s, 1, n) \in Seq(S) /\ Len(SubSeq(s, 1, n)) = n
         /\ \A i \in 1 .. n : SubSeq(s, 1, n)[i] = s[i] /\ s[i] \in S
  OBVIOUS

\* A new entry, and perhaps the loss of the oldest.
LEMMA Newest ==
  ASSUME NEW S, NEW s \in Seq(S), NEW x \in S
  PROVE  /\ Append(s, x) \in Seq(S) /\ Len(Append(s, x)) = Len(s) + 1
         /\ Append(s, x)[Len(s) + 1] = x
         /\ \A i \in 1 .. Len(s) : Append(s, x)[i] = s[i]
         /\ Tail(Append(s, x)) \in Seq(S) /\ Len(Tail(Append(s, x))) = Len(s)
         /\ \A i \in 1 .. Len(s) : Tail(Append(s, x))[i] = Append(s, x)[i + 1]
  OBVIOUS

-----------------------------------------------------------------------------
(* Types *)

\* What is left of a job is statements.
LEMMA StatementType ==
  ASSUME TypeOK, NEW t \in Tasks, job[t].rest # <<>>
  PROVE  Statement(t) \in Statements /\ Tail(job[t].rest) \in Seq(Statements)
  <1>1. job[t].rest \in Seq(Statements)
    BY DEF TypeOK, Jobs
  <1> QED
    BY <1>1 DEF Statement

\* A job that goes on is a job.
LEMMA DoneType ==
  ASSUME TypeOK, NEW t \in Tasks, job[t].rest # <<>>, NEW n \in Nat, Done(t, n)
  PROVE  job' \in [Tasks -> Jobs]
  <1>1. job[t] \in Jobs
    BY DEF TypeOK
  <1>2. Tail(job[t].rest) \in Seq(Statements)
    BY StatementType
  <1>3. [job[t] EXCEPT !.rest = Tail(@), !.pushed = n, !.ran = TRUE] \in Jobs
    BY <1>1, <1>2 DEF Jobs
  <1> QED
    BY <1>3 DEF Done, TypeOK

\* Popping a scope leaves scopes.
LEMMA PoppedType ==
  ASSUME TypeOK
  PROVE  Popped \in Seq(Maps)
  BY DEF TypeOK, Popped, Front

\* Lines, and the ends of a buffer and of the loop.
LEMMA BufferTypes ==
  ASSUME TypeOK, (\E net \in {-1, 0, 1} : Line(net)) \/ Interrupt \/ Exit
  PROVE  TypeOK'
  <1>1. CASE \E net \in {-1, 0, 1} : Line(net)
    <2>1. PICK net \in {-1, 0, 1} : Line(net)
      BY <1>1
    <2>2. buffer \in Seq({-1, 0, 1}) /\ depth = Balance(buffer)
      BY DEF TypeOK
    <2>3. buffer' \in Seq({-1, 0, 1}) /\ depth' = Balance(buffer)'
      BY <2>1, <2>2, BalanceAppend DEF Line
    <2> QED
      BY <2>1, <2>3 DEF TypeOK, Line, memory, undo
  <1>2. CASE Interrupt
    <2>1. buffer' \in Seq({-1, 0, 1}) /\ depth' = Balance(buffer)'
      BY <1>2, BalanceEmpty DEF Interrupt, Taken
    <2> QED
      BY <1>2, <2>1 DEF TypeOK, Interrupt, memory, undo
  <1>3. CASE Exit
    <2>1. (buffer' = <<>> /\ depth' = 0) \/ UNCHANGED <<buffer, depth>>
      BY <1>3 DEF Exit, Taken
    <2>2. ASSUME buffer' = <<>>, depth' = 0
          PROVE  buffer' \in Seq({-1, 0, 1}) /\ depth' = Balance(buffer)'
      BY <2>2, BalanceEmpty
    <2>3. ASSUME UNCHANGED <<buffer, depth>>
          PROVE  buffer' \in Seq({-1, 0, 1}) /\ depth' = Balance(buffer)'
      BY <2>3 DEF TypeOK
    <2>4. buffer' \in Seq({-1, 0, 1}) /\ depth' = Balance(buffer)'
      BY <2>1, <2>2, <2>3
    <2> QED
      BY <1>3, <2>4 DEF TypeOK, Exit, memory, undo
  <1> QED
    BY <1>1, <1>2, <1>3

\* A command and its snapshot.
LEMMA SnapshotTypes ==
  ASSUME TypeOK, Tell \/ (\E k \in Keys : SnapshotKey(k)) \/ SnapshotDone
  PROVE  TypeOK'
  <1>1. CASE Tell
    <2>1. buffer' \in Seq({-1, 0, 1}) /\ depth' = Balance(buffer)'
      BY <1>1, BalanceEmpty DEF Tell, Taken
    <2>2. Blank \in Memory
      BY DEF Blank, NoValues, Memory, Maps
    <2>3. [globals |-> globals, scopes |-> scopes] \in Memory
      BY DEF TypeOK, Memory
    <2> QED
      BY <1>1, <2>1, <2>2, <2>3 DEF TypeOK, Tell, memory
  <1>2. CASE \E k \in Keys : SnapshotKey(k)
    <2>1. PICK k \in Keys : SnapshotKey(k)
      BY <1>2
    <2>2. copy' \in Memory
      BY <2>1 DEF TypeOK, SnapshotKey, Memory, Maps
    <2> QED
      BY <2>1, <2>2 DEF TypeOK, SnapshotKey, memory
  <1>3. CASE SnapshotDone
    <2> DEFINE entry == [copy EXCEPT !.scopes = scopes]
               all == Append(history, entry)
               made == [memory |-> want, exact |-> quiet]
    <2>1. entry \in Memory
      BY DEF TypeOK, Memory
    <2>2. made \in [memory : Memory, exact : BOOLEAN]
      BY DEF TypeOK
    <2>3. before' = Append(before, made) /\ history' = IF Len(all) > MaxHistory THEN Tail(all) ELSE all
      BY <1>3 DEF SnapshotDone
    <2>4. history \in Seq(Memory) /\ before \in Seq([memory : Memory, exact : BOOLEAN])
          /\ Len(history) <= Shortest(Len(before), MaxHistory) /\ MaxHistory \in Nat \ {0}
      BY SessionAssumption DEF TypeOK
    <2> HIDE DEF entry, made
    <2>a. before' \in Seq([memory : Memory, exact : BOOLEAN]) /\ Len(before') = Len(before) + 1
      BY <2>2, <2>3, <2>4, Newest
    <2>b. /\ all \in Seq(Memory) /\ Len(all) = Len(history) + 1
          /\ Tail(all) \in Seq(Memory) /\ Len(Tail(all)) = Len(history)
      BY <2>1, <2>4, Newest
    <2> HIDE DEF all
    <2>5. /\ history' \in Seq(Memory)
          /\ Len(history') = IF Len(history) + 1 > MaxHistory THEN Len(history) ELSE Len(history) + 1
      BY <2>3, <2>b
    <2>6. Len(history') <= Shortest(Len(before'), MaxHistory)
      BY <2>4, <2>5, <2>a DEF Shortest
    <2>7. told \in Commands \union {NoCommand} /\ Repl \in Tasks /\ Command(Repl, told, TRUE)
      BY <1>3 DEF TypeOK, SnapshotDone, Tasks
    <2>8. /\ \E j \in Jobs : job' = [job EXCEPT ![Repl] = j]
          /\ \E o \in {"none", "ok", "err"} : outcome' = [outcome EXCEPT ![Repl] = o]
      BY <2>7, CommandJob
    <2> QED
      BY <1>3, <2>5, <2>6, <2>7, <2>8, <2>a DEF TypeOK, SnapshotDone, memory
  <1> QED
    BY <1>1, <1>2, <1>3

\* A rollback, whose steps are at most the snapshots there are.
LEMMA RollbackTypes ==
  ASSUME TypeOK, Rollback \/ Clear \/ (\E k \in Keys : Fill(k)) \/ Restack
  PROVE  TypeOK'
  <1>1. CASE Rollback
    <2>1. PICK n \in 0 .. MaxHistory + 1 :
            IF n = 0 \/ n > Len(history) THEN UNCHANGED <<phase, undo, quiet>>
            ELSE /\ copy' = history[Len(history) - n + 1]
                 /\ history' = SubSeq(history, 1, Len(history) - n)
                 /\ want' = before[Len(before) - n + 1].memory
                 /\ quiet' = before[Len(before) - n + 1].exact
                 /\ before' = SubSeq(before, 1, Len(before) - n)
                 /\ phase' = "clear" /\ todo' = Keys
      BY <1>1 DEF Rollback
    <2>2. buffer' \in Seq({-1, 0, 1}) /\ depth' = Balance(buffer)'
      BY <1>1, BalanceEmpty DEF Rollback, Taken
    <2>3. CASE n = 0 \/ n > Len(history)
      BY <1>1, <2>1, <2>2, <2>3 DEF TypeOK, Rollback, memory, undo
    <2>4. CASE n # 0 /\ n <= Len(history)
      <3>1. /\ history \in Seq(Memory) /\ before \in Seq([memory : Memory, exact : BOOLEAN])
            /\ Len(history) <= Len(before) /\ Len(history) <= MaxHistory /\ MaxHistory \in Nat /\ n \in Nat
        BY <2>1, SessionAssumption DEF TypeOK, Shortest
      <3>2. /\ Len(history) - n + 1 \in 1 .. Len(history) /\ Len(before) - n + 1 \in 1 .. Len(before)
            /\ Len(history) - n \in 0 .. Len(history) /\ Len(before) - n \in 0 .. Len(before)
        BY <2>4, <3>1
      <3>3. /\ copy' = history[Len(history) - n + 1] /\ history' = SubSeq(history, 1, Len(history) - n)
            /\ want' = before[Len(before) - n + 1].memory /\ quiet' = before[Len(before) - n + 1].exact
            /\ before' = SubSeq(before, 1, Len(before) - n) /\ phase' = "clear" /\ todo' = Keys
        BY <2>1, <2>4, <3>1
      <3>4. copy' \in Memory
        BY <3>1, <3>2, <3>3
      <3>5. before[Len(before) - n + 1] \in [memory : Memory, exact : BOOLEAN]
        BY <3>1, <3>2, ElementOfSeq
      <3>6. want' \in Memory /\ quiet' \in BOOLEAN
        BY <3>3, <3>5
      <3>7. history' \in Seq(Memory) /\ Len(history') = Len(history) - n
        BY <3>1, <3>2, <3>3, Prefix
      <3>8. before' \in Seq([memory : Memory, exact : BOOLEAN]) /\ Len(before') = Len(before) - n
        BY <3>1, <3>2, <3>3, Prefix
      <3>9. Len(history') <= Shortest(Len(before'), MaxHistory)
        BY <3>1, <3>7, <3>8 DEF Shortest
      <3> QED
        BY <1>1, <2>2, <3>3, <3>4, <3>6, <3>7, <3>8, <3>9 DEF TypeOK, Rollback, memory
    <2> QED
      BY <2>1, <2>3, <2>4 DEF TypeOK
  <1>2. CASE Clear
    <2>1. globals' \in Maps
      BY <1>2 DEF Clear, Maps, NoValues
    <2> QED
      BY <1>2, <2>1 DEF TypeOK, Clear
  <1>3. CASE \E k \in Keys : Fill(k)
    <2>1. PICK k \in Keys : Fill(k)
      BY <1>3
    <2>2. copy.globals \in Maps
      BY DEF TypeOK, Memory
    <2>3. globals' \in Maps
      BY <2>1, <2>2 DEF TypeOK, Fill, Maps
    <2> QED
      BY <2>1, <2>3 DEF TypeOK, Fill
  <1>4. CASE Restack
    <2>1. scopes' \in Seq(Maps)
      BY <1>4 DEF TypeOK, Restack, Memory
    <2> QED
      BY <1>4, <2>1 DEF TypeOK, Restack
  <1> QED
    BY <1>1, <1>2, <1>3, <1>4

\* What executes, whoever it is for.
LEMMA ExecutionTypes ==
  ASSUME TypeOK, NEW t \in Tasks,
         Set(t) \/ Enter(t) \/ Leave(t) \/ Unwind(t) \/ Builtin(t) \/ Fail(t) \/ End(t)
  PROVE  TypeOK'
  <1>1. job[t] \in Jobs /\ job[t].pushed \in Nat /\ quiet \in BOOLEAN
    BY DEF TypeOK, Jobs
  <1>2. NoValues \in Maps
    BY DEF NoValues, Maps
  <1>3. CASE Set(t)
    <2>1. Statement(t) \in Statements /\ job' \in [Tasks -> Jobs]
      BY <1>1, <1>3, StatementType, DoneType DEF Set
    <2>2. Statement(t).key \in Keys /\ Statement(t).val \in Values
      BY <1>3, <2>1 DEF Set, Statements
    <2>3. CASE scopes = <<>>
      <3>1. globals' = [globals EXCEPT ![Statement(t).key] = Statement(t).val] /\ scopes' = scopes
        BY <1>3, <2>3 DEF Set
      <3>2. globals' \in Maps
        BY <2>2, <3>1 DEF TypeOK, Maps
      <3> QED
        BY <1>1, <1>3, <2>1, <3>1, <3>2 DEF TypeOK, Set, Disturb, repl, undo
    <2>4. CASE scopes # <<>>
      <3>1. globals' = globals
            /\ scopes' = [scopes EXCEPT ![Len(scopes)] = [@ EXCEPT ![Statement(t).key] = Statement(t).val]]
        BY <1>3, <2>4 DEF Set
      <3>2. Len(scopes) \in 1 .. Len(scopes) /\ scopes[Len(scopes)] \in Maps
        BY <2>4 DEF TypeOK
      <3>3. [scopes[Len(scopes)] EXCEPT ![Statement(t).key] = Statement(t).val] \in Maps
        BY <2>2, <3>2 DEF Maps
      <3>4. scopes' \in Seq(Maps)
        BY <3>1, <3>2, <3>3, ExceptSeq DEF TypeOK
      <3> QED
        BY <1>1, <1>3, <2>1, <3>1, <3>4 DEF TypeOK, Set, Disturb, repl, undo
    <2> QED
      BY <2>3, <2>4
  <1>4. CASE Enter(t)
    <2>1. job' \in [Tasks -> Jobs]
      BY <1>1, <1>4, DoneType DEF Enter
    <2>2. scopes' \in Seq(Maps)
      BY <1>2, <1>4 DEF Enter, TypeOK
    <2> QED
      BY <1>1, <1>4, <2>1, <2>2 DEF TypeOK, Enter, Disturb, repl, undo
  <1>5. CASE Leave(t)
    <2>1. job' \in [Tasks -> Jobs]
      <3>1. job[t].pushed - 1 \in Nat
        BY <1>1, <1>5 DEF Leave
      <3> QED
        BY <1>5, <3>1, DoneType DEF Leave
    <2> QED
      BY <1>1, <1>5, <2>1, PoppedType DEF TypeOK, Leave, Disturb, repl, undo
  <1>6. CASE Unwind(t)
    <2>1. job[t].pushed - 1 \in Nat
      BY <1>1, <1>6 DEF Unwind
    <2>2. job' \in [Tasks -> Jobs]
      BY <1>1, <1>6, <2>1 DEF Unwind, TypeOK, Jobs
    <2> QED
      BY <1>1, <1>6, <2>2, PoppedType DEF TypeOK, Unwind, Disturb, repl, undo
  <1>7. CASE Builtin(t)
    <2>1. job' \in [Tasks -> Jobs]
      BY <1>1, <1>7, DoneType DEF Builtin
    <2> QED
      BY <1>7, <2>1 DEF TypeOK, Builtin, memory, repl, undo
  <1>8. CASE Fail(t)
    <2> DEFINE nothing == <<>>
    <2>3. nothing \in Seq(Statements)
      OBVIOUS
    <2> HIDE DEF nothing
    <2>1. [job[t] EXCEPT !.rest = nothing, !.failed = TRUE, !.ran = TRUE] \in Jobs
      BY <1>1, <2>3 DEF Jobs
    <2>2. job' \in [Tasks -> Jobs]
      BY <1>8, <2>1 DEF Fail, TypeOK, nothing
    <2> QED
      BY <1>8, <2>2 DEF TypeOK, Fail, memory, repl, undo
  <1>9. CASE End(t)
    <2>1. outcome' \in [Tasks -> {"none", "ok", "err", "200", "400", "401", "500"}]
      BY <1>9 DEF TypeOK, End, Ended
    <2> QED
      BY <1>9, <2>1 DEF TypeOK, End, memory, repl, undo
  <1> QED
    BY <1>3, <1>4, <1>5, <1>6, <1>7, <1>8, <1>9

\* The beginning and the end of what others ask, and of a command.
LEMMA AskTypes ==
  ASSUME TypeOK, Prompt \/ (\E t \in Others : Packet(t) \/ Request(t) \/ Answer(t))
  PROVE  TypeOK'
  <1>1. Idle \in Jobs /\ Others \subseteq Tasks /\ Repl \in Tasks
    BY DEF Idle, Job, Jobs, Tasks
  <1>2. CASE Prompt
    BY <1>1, <1>2 DEF TypeOK, Prompt, memory, undo
  <1>3. ASSUME NEW t \in Others, Packet(t)
        PROVE  TypeOK'
    <2>1. PICK c \in Packets : Command(t, c, FALSE)
      BY <1>3 DEF Packet
    <2>2. t \in Tasks
      BY <1>1
    <2>3. /\ \E j \in Jobs : job' = [job EXCEPT ![t] = j]
          /\ \E o \in {"none", "ok", "err"} : outcome' = [outcome EXCEPT ![t] = o]
      BY <2>1, <2>2, CommandJob
    <2> QED
      BY <1>3, <2>3 DEF TypeOK, Packet, memory, repl, undo
  <1>4. ASSUME NEW t \in Others, Request(t)
        PROVE  TypeOK'
    <2>1. PICK r \in Requests :
            /\ outcome' = [outcome EXCEPT ![t] = Admission(r)]
            /\ job' = [job EXCEPT ![t] = IF Admission(r) # "none" THEN Idle
                                         ELSE Job("request", r.body, r.kind = "signed")]
      BY <1>4 DEF Request
    <2>2. Admission(r) \in {"none", "400", "401"}
      BY DEF Admission
    <2>3. Job("request", r.body, r.kind = "signed") \in Jobs
      BY SessionAssumption DEF Job, Jobs
    <2>4. job' \in [Tasks -> Jobs] /\ outcome' \in [Tasks -> {"none", "ok", "err", "200", "400", "401", "500"}]
      <3> DEFINE j == IF Admission(r) # "none" THEN Idle ELSE Job("request", r.body, r.kind = "signed")
      <3>1. j \in Jobs
        BY <1>1, <2>3
      <3>2. job' = [job EXCEPT ![t] = j]
        BY <2>1
      <3> HIDE DEF j
      <3> QED
        BY <2>1, <2>2, <3>1, <3>2 DEF TypeOK
    <2> QED
      BY <1>4, <2>4 DEF TypeOK, Request, memory, repl, undo
  <1>5. ASSUME NEW t \in Others, Answer(t)
        PROVE  TypeOK'
    BY <1>1, <1>5 DEF TypeOK, Answer, memory, repl, undo
  <1> QED
    BY <1>2, <1>3, <1>4, <1>5

\* Every variable keeps its type, the depth is that of the lines in the buffer, and
\* the history never holds more than the commands that are not undone, or its limit.
\* (main.rs: repl; memory.rs: snapshot, rollback, push_scope, pop_scope.)
THEOREM TypeCorrect == Spec => []TypeOK
  <1>1. Init => TypeOK
    <2> SUFFICES ASSUME Init PROVE TypeOK
      OBVIOUS
    <2>1. NoValues \in Maps /\ Blank \in Memory /\ Idle \in Jobs
      BY DEF NoValues, Maps, Blank, Memory, Idle, Job, Jobs
    <2>2. Len(history) <= Shortest(Len(before), MaxHistory)
      BY SessionAssumption DEF Init, Shortest
    <2> QED
      BY <2>1, <2>2, BalanceEmpty DEF Init, TypeOK
  <1>2. TypeOK /\ [Next]_vars => TypeOK'
    <2> SUFFICES ASSUME TypeOK, [Next]_vars PROVE TypeOK'
      OBVIOUS
    <2>1. CASE UNCHANGED vars
      BY <2>1 DEF vars, TypeOK
    <2>2. CASE Next
      BY <2>2, BufferTypes, SnapshotTypes, RollbackTypes, AskTypes, ExecutionTypes DEF Next
    <2> QED
      BY <2>1, <2>2
  <1> QED
    BY <1>1, <1>2, PTL DEF Spec

-----------------------------------------------------------------------------
(* Errors *)

\* While a task executes, its outcome is open.
LEMMA ErrExecution ==
  ASSUME TypeOK, ErrMeansNothingRan, NEW t \in Tasks,
         Set(t) \/ Enter(t) \/ Leave(t) \/ Unwind(t) \/ Builtin(t) \/ Fail(t) \/ End(t)
  PROVE  ErrMeansNothingRan'
  <1>1. outcome[t] = "none"
    BY DEF Set, Enter, Leave, Unwind, Builtin, Fail, End, Executing
  <1>2. \A u \in Tasks \ {t} : job'[u] = job[u] /\ outcome'[u] = outcome[u]
    BY DEF TypeOK, Set, Enter, Leave, Unwind, Builtin, Fail, End, Done
  <1>3. outcome'[t] \in {"err", "400", "401"} => job'[t].route \in {"script", "intent"}
    <2>1. CASE End(t)
      <3>1. outcome' = [outcome EXCEPT ![t] = IF job[t].route # "request" THEN Ended(job[t].route, job[t].failed)
                                              ELSE IF job[t].failed THEN "500" ELSE "200"] /\ job' = job
        BY <2>1 DEF End
      <3>2. outcome'[t] \in {"err", "400", "401"} => Ended(job[t].route, job[t].failed) = "err"
        BY <3>1 DEF TypeOK, Ended
      <3> QED
        BY <3>1, <3>2 DEF Ended
    <2>2. CASE ~End(t)
      BY <1>1, <2>2 DEF Set, Enter, Leave, Unwind, Builtin, Fail
    <2> QED
      BY <2>1, <2>2
  <1> QED
    BY <1>2, <1>3 DEF ErrMeansNothingRan

\* A command that is decided at once has executed nothing.
LEMMA ErrCommand ==
  ASSUME TypeOK, ErrMeansNothingRan, NEW t \in Tasks, NEW j, ~j.ran, NEW o,
         job' = [job EXCEPT ![t] = j], outcome' = [outcome EXCEPT ![t] = o]
  PROVE  ErrMeansNothingRan'
  BY DEF TypeOK, ErrMeansNothingRan

\* An error of process_command, but for a script, an intent, or a stored command
\* that is one, and a refusal of the gateway say that no statement has run.
\* (mod.rs: process_command; main.rs: execute_handler.)
THEOREM ErrorsMeanNothingRan == Spec => []ErrMeansNothingRan
  <1>1. Init => ErrMeansNothingRan
    BY DEF Init, ErrMeansNothingRan
  <1>2. TypeOK /\ ErrMeansNothingRan /\ [Next]_vars => ErrMeansNothingRan'
    <2> SUFFICES ASSUME TypeOK, ErrMeansNothingRan, [Next]_vars PROVE ErrMeansNothingRan'
      OBVIOUS
    <2>1. ~Idle.ran /\ Repl \in Tasks /\ Others \subseteq Tasks
      BY DEF Idle, Job, Tasks
    <2>2. CASE UNCHANGED <<job, outcome>>
      BY <2>2 DEF ErrMeansNothingRan
    <2>3. CASE SnapshotDone
      <3>1. told \in Commands \union {NoCommand} /\ Command(Repl, told, TRUE)
        BY <2>3 DEF TypeOK, SnapshotDone
      <3>2. /\ \E j \in Jobs : job' = [job EXCEPT ![Repl] = j] /\ ~j.ran
            /\ \E o \in {"none", "ok", "err"} : outcome' = [outcome EXCEPT ![Repl] = o]
        BY <2>1, <3>1, CommandJob
      <3> QED
        BY <2>1, <3>2, ErrCommand
    <2>4. CASE Prompt
      BY <2>1, <2>4, ErrCommand DEF Prompt
    <2>5. ASSUME NEW t \in Others, Packet(t)
          PROVE  ErrMeansNothingRan'
      <3>1. PICK c \in Packets : Command(t, c, FALSE)
        BY <2>5 DEF Packet
      <3>2. t \in Tasks
        BY <2>1
      <3>3. /\ \E j \in Jobs : job' = [job EXCEPT ![t] = j] /\ ~j.ran
            /\ \E o \in {"none", "ok", "err"} : outcome' = [outcome EXCEPT ![t] = o]
        BY <3>1, <3>2, CommandJob
      <3> QED
        BY <3>2, <3>3, ErrCommand
    <2>6. ASSUME NEW t \in Others, Request(t)
          PROVE  ErrMeansNothingRan'
      <3>1. PICK r \in Requests :
              /\ outcome' = [outcome EXCEPT ![t] = Admission(r)]
              /\ job' = [job EXCEPT ![t] = IF Admission(r) # "none" THEN Idle
                                           ELSE Job("request", r.body, r.kind = "signed")]
        BY <2>6 DEF Request
      <3>2. ~Job("request", r.body, r.kind = "signed").ran
        BY DEF Job
      <3> QED
        BY <2>1, <3>1, <3>2, ErrCommand
    <2>7. ASSUME NEW t \in Others, Answer(t)
          PROVE  ErrMeansNothingRan'
      BY <2>1, <2>7, ErrCommand DEF Answer
    <2>8. CASE \E t \in Tasks : Set(t) \/ Enter(t) \/ Leave(t) \/ Unwind(t) \/ Builtin(t) \/ Fail(t) \/ End(t)
      BY <2>8, ErrExecution
    <2> QED
      BY <2>2, <2>3, <2>4, <2>5, <2>6, <2>7, <2>8
      DEF Next, vars, Line, Tell, Interrupt, Exit, Rollback, Clear, Restack, SnapshotKey, Fill
  <1> QED
    BY <1>1, <1>2, TypeCorrect, PTL DEF Spec

-----------------------------------------------------------------------------
(* Rollbacks *)

\* Who executes while the REPL is not in a command is another task, and so
\* ends the quiet where it changes the memory.
LEMMA UndoExecution ==
  ASSUME UndoInv, NEW t \in Tasks,
         Set(t) \/ Enter(t) \/ Leave(t) \/ Unwind(t) \/ Builtin(t) \/ Fail(t) \/ End(t)
  PROVE  ReplWaits' /\ Recorded' /\ Snapping' /\ Restoring'
  <1>1. UNCHANGED <<history, todo, copy, before, want, phase>>
    BY DEF Set, Enter, Leave, Unwind, Builtin, Fail, End, undo, repl
  <1>2. UNCHANGED <<globals, scopes, quiet>> \/ quiet' = (quiet /\ t = Repl)
    BY DEF Set, Enter, Leave, Unwind, Builtin, Fail, End, Disturb, memory
  <1>3. phase = "run" \/ t # Repl
    BY DEF UndoInv, ReplWaits, Set, Enter, Leave, Unwind, Builtin, Fail, End, Executing
  <1>4. ReplWaits'
    <2>1. t # Repl => job'[Repl] = job[Repl]
      BY DEF UndoInv, TypeOK, Tasks, Set, Enter, Leave, Unwind, Builtin, Fail, End, Done
    <2> QED
      BY <1>1, <1>3, <2>1 DEF UndoInv, ReplWaits
  <1>5. Recorded'
    BY <1>1 DEF UndoInv, Recorded
  <1>6. CASE UNCHANGED <<globals, scopes, quiet>>
    BY <1>1, <1>4, <1>5, <1>6 DEF UndoInv, Snapping, Restoring
  <1>7. CASE quiet' = (quiet /\ t = Repl)
    <2>1. phase' = "run" \/ ~quiet'
      BY <1>1, <1>3, <1>7
    <2>2. Snapping'
      BY <2>1 DEF Snapping
    <2>3. Restoring'
      BY <1>1, <2>1 DEF UndoInv, Restoring
    <2> QED
      BY <1>4, <1>5, <2>2, <2>3
  <1> QED
    BY <1>2, <1>6, <1>7

\* A new snapshot is the newest entry of the window, and the others keep their
\* distance from its end.
LEMMA RecordedAppend ==
  ASSUME UndoInv, SnapshotDone
  PROVE  Recorded'
  <1> DEFINE entry == [copy EXCEPT !.scopes = scopes]
             all == Append(history, entry)
             made == [memory |-> want, exact |-> quiet]
             Entries == [memory : Memory, exact : BOOLEAN]
             size == Len(history)
             last == Len(before)
  <1>1. history \in Seq(Memory) /\ before \in Seq(Entries) /\ size \in Nat /\ last \in Nat /\ size <= last
    BY SessionAssumption DEF UndoInv, TypeOK, Shortest
  <1>2. copy \in Memory /\ want \in Memory /\ quiet \in BOOLEAN /\ scopes \in Seq(Maps) /\ globals \in Maps
    BY DEF UndoInv, TypeOK
  <1>3. entry \in Memory /\ made \in Entries
    BY <1>2 DEF Memory
  <1>4. made.exact => entry = made.memory
    <2> SUFFICES ASSUME quiet PROVE entry = want
      OBVIOUS
    <2>1. want = [globals |-> globals, scopes |-> scopes] /\ \A k \in Keys : copy.globals[k] = globals[k]
      BY DEF UndoInv, Snapping, SnapshotDone
    <2>2. copy.globals = globals
      BY <1>2, <2>1 DEF Memory, Maps
    <2>3. entry = [globals |-> copy.globals, scopes |-> scopes]
      BY <1>2 DEF Memory
    <2> QED
      BY <2>1, <2>2, <2>3
  <1>5. before' = Append(before, made) /\ history' = IF Len(all) > MaxHistory THEN Tail(all) ELSE all
    BY DEF SnapshotDone
  <1> HIDE DEF entry, made
  <1>6. /\ Len(before') = last + 1 /\ before'[last + 1] = made /\ \A i \in 1 .. last : before'[i] = before[i]
    BY <1>1, <1>3, <1>5, Newest
  <1>7. /\ Len(all) = size + 1 /\ all[size + 1] = entry /\ \A i \in 1 .. size : all[i] = history[i]
        /\ Len(Tail(all)) = size /\ \A i \in 1 .. size : Tail(all)[i] = all[i + 1]
    BY <1>1, <1>3, Newest
  <1>8. \A i \in 1 .. size + 1 : before'[last - size + i].exact => all[i] = before'[last - size + i].memory
    <2> SUFFICES ASSUME NEW i \in 1 .. size + 1, before'[last - size + i].exact
                 PROVE  all[i] = before'[last - size + i].memory
      OBVIOUS
    <2>1. CASE i = size + 1
      <3>1. last - size + i = last + 1
        BY <1>1, <2>1
      <3> QED
        BY <1>4, <1>6, <1>7, <2>1, <3>1
    <2>2. CASE i \in 1 .. size
      <3>1. last - size + i \in 1 .. last
        BY <1>1, <2>2
      <3>2. before'[last - size + i] = before[last - size + i] /\ all[i] = history[i]
        BY <1>6, <1>7, <2>2, <3>1
      <3> QED
        BY <2>2, <3>2 DEF UndoInv, Recorded
    <2> QED
      BY <1>1, <2>1, <2>2
  <1> HIDE DEF all, size, last
  <1>9. CASE Len(all) > MaxHistory
    <2>1. history' = Tail(all) /\ Len(history') = size
      BY <1>5, <1>7, <1>9
    <2>5. Len(history') = size
      BY <2>1
    <2>4. 1 .. Len(history') = 1 .. size /\ Len(before') - Len(history') = last + 1 - size
      BY <1>1, <1>6, <2>5
    <2> SUFFICES ASSUME NEW i \in 1 .. size, before'[last + 1 - size + i].exact
                 PROVE  history'[i] = before'[last + 1 - size + i].memory
      BY <2>4 DEF Recorded
    <2>2. i + 1 \in 1 .. size + 1 /\ last + 1 - size + i = last - size + (i + 1)
      BY <1>1 DEF size, last
    <2>3. history'[i] = all[i + 1]
      BY <1>7, <2>1
    <2> QED
      BY <1>8, <2>2, <2>3
  <1>10. CASE ~(Len(all) > MaxHistory)
    <2>1. history' = all /\ Len(history') = size + 1
      BY <1>5, <1>7, <1>10
    <2>4. 1 .. Len(history') = 1 .. size + 1 /\ Len(before') - Len(history') = last + 1 - (size + 1)
      BY <1>1, <1>6, <2>1
    <2> SUFFICES ASSUME NEW i \in 1 .. size + 1, before'[last + 1 - (size + 1) + i].exact
                 PROVE  history'[i] = before'[last + 1 - (size + 1) + i].memory
      BY <2>4 DEF Recorded
    <2>2. last + 1 - (size + 1) + i = last - size + i
      BY <1>1 DEF size, last
    <2> QED
      BY <1>8, <2>1, <2>2
  <1> QED
    BY <1>9, <1>10

\* A rollback takes the same number of entries from the history and from the
\* commands, and begins to put back what it is to restore.
LEMMA UndoRollback ==
  ASSUME UndoInv, Rollback
  PROVE  ReplWaits' /\ Recorded' /\ Snapping' /\ Restoring'
  <1> DEFINE Entries == [memory : Memory, exact : BOOLEAN]
  <1>1. phase = "prompt" /\ UNCHANGED <<globals, scopes, job>>
    BY DEF Rollback, EmptyLine, Entered, memory
  <1>2. PICK n \in 0 .. MaxHistory + 1 :
          IF n = 0 \/ n > Len(history) THEN UNCHANGED <<phase, undo, quiet>>
          ELSE /\ copy' = history[Len(history) - n + 1]
               /\ history' = SubSeq(history, 1, Len(history) - n)
               /\ want' = before[Len(before) - n + 1].memory
               /\ quiet' = before[Len(before) - n + 1].exact
               /\ before' = SubSeq(before, 1, Len(before) - n)
               /\ phase' = "clear" /\ todo' = Keys
    BY DEF Rollback
  <1>3. CASE n = 0 \/ n > Len(history)
    BY <1>1, <1>2, <1>3 DEF UndoInv, undo, ReplWaits, Recorded, Snapping, Restoring
  <1>4. CASE ~(n = 0 \/ n > Len(history))
    <2>1. /\ history \in Seq(Memory) /\ before \in Seq(Entries)
          /\ Len(history) \in Nat /\ Len(before) \in Nat /\ Len(history) <= Len(before) /\ n \in Nat
      BY SessionAssumption DEF UndoInv, TypeOK, Shortest
    <2>2. /\ Len(history) - n + 1 \in 1 .. Len(history)
          /\ Len(before) - n + 1 = Len(before) - Len(history) + (Len(history) - n + 1)
          /\ Len(history) - n \in 0 .. Len(history) /\ Len(before) - n \in 0 .. Len(before)
      BY <1>4, <2>1
    <2>3. /\ copy' = history[Len(history) - n + 1] /\ history' = SubSeq(history, 1, Len(history) - n)
          /\ want' = before[Len(before) - n + 1].memory /\ quiet' = before[Len(before) - n + 1].exact
          /\ before' = SubSeq(before, 1, Len(before) - n) /\ phase' = "clear" /\ todo' = Keys
      BY <1>2, <1>4
    <2>4. quiet' => copy' = want'
      BY <2>2, <2>3 DEF UndoInv, Recorded
    <2>5. /\ Len(history') = Len(history) - n /\ \A i \in 1 .. Len(history) - n : history'[i] = history[i]
      BY <2>1, <2>2, <2>3, Prefix
    <2>6. /\ Len(before') = Len(before) - n /\ \A i \in 1 .. Len(before) - n : before'[i] = before[i]
      BY <2>1, <2>2, <2>3, Prefix
    <2>7. Recorded'
      <3> SUFFICES ASSUME NEW i \in 1 .. Len(history'), before'[Len(before') - Len(history') + i].exact
                   PROVE  history'[i] = before'[Len(before') - Len(history') + i].memory
        BY DEF Recorded
      <3>1. /\ i \in 1 .. Len(history) - n /\ i \in 1 .. Len(history)
            /\ Len(before') - Len(history') + i = Len(before) - Len(history) + i
            /\ Len(before) - Len(history) + i \in 1 .. Len(before) - n
        BY <2>1, <2>2, <2>5, <2>6
      <3> QED
        BY <2>5, <2>6, <3>1 DEF UndoInv, Recorded
    <2> QED
      BY <1>1, <2>3, <2>4, <2>7 DEF UndoInv, ReplWaits, Snapping, Restoring
  <1> QED
    BY <1>3, <1>4

\* The other steps of the REPL.
LEMMA UndoRepl ==
  ASSUME UndoInv,
         \/ \E net \in {-1, 0, 1} : Line(net)
         \/ Tell \/ SnapshotDone \/ Prompt \/ Interrupt \/ Exit \/ Clear \/ Restack
         \/ \E k \in Keys : SnapshotKey(k) \/ Fill(k)
  PROVE  ReplWaits' /\ Recorded' /\ Snapping' /\ Restoring'
  <1> USE DEF ReplWaits, Snapping, Restoring
  <1>1. CASE \E net \in {-1, 0, 1} : Line(net)
    BY <1>1 DEF UndoInv, Recorded, Line, memory, undo
  <1>2. CASE Tell
    <2>1. phase = "prompt" /\ phase' = "snap" /\ todo' = Keys /\ copy' = Blank
          /\ want' = [globals |-> globals, scopes |-> scopes] /\ UNCHANGED <<globals, scopes, history, before, job>>
      BY <1>2 DEF Tell, EmptyLine, Entered, memory
    <2> QED
      BY <2>1 DEF UndoInv, Recorded, Blank
  <1>3. CASE SnapshotDone
    BY <1>3, RecordedAppend DEF SnapshotDone
  <1>4. CASE Prompt
    <2>1. job'[Repl].route = "none"
      BY <1>4 DEF Prompt, UndoInv, TypeOK, Tasks, Idle, Job
    <2> QED
      BY <1>4, <2>1 DEF UndoInv, Recorded, Prompt, memory, undo
  <1>5. CASE Interrupt
    BY <1>5 DEF UndoInv, Recorded, Interrupt, memory, undo
  <1>6. CASE Exit
    BY <1>6 DEF UndoInv, Recorded, Exit, memory, undo
  <1>7. CASE Clear
    BY <1>7 DEF UndoInv, Recorded, Clear, NoValues
  <1>8. CASE Restack
    BY <1>8 DEF UndoInv, Recorded, Restack
  <1>9. ASSUME NEW k \in Keys, SnapshotKey(k)
        PROVE  ReplWaits' /\ Recorded' /\ Snapping' /\ Restoring'
    <2>1. /\ phase = "snap" /\ todo' = todo \ {k} /\ copy' = [copy EXCEPT !.globals[k] = globals[k]]
          /\ UNCHANGED <<globals, scopes, history, phase, job, before, want, quiet>>
      BY <1>9 DEF SnapshotKey, memory
    <2>2. copy \in Memory /\ copy.globals \in Maps
      BY DEF UndoInv, TypeOK, Memory
    <2>3. copy'.scopes = copy.scopes /\ copy'.globals = [copy.globals EXCEPT ![k] = globals[k]]
      BY <2>1, <2>2 DEF Memory
    <2>4. \A j \in Keys : copy'.globals[j] = IF j = k THEN globals[k] ELSE copy.globals[j]
      BY <2>2, <2>3 DEF Maps
    <2> QED
      BY <2>1, <2>3, <2>4 DEF UndoInv, Recorded
  <1>10. ASSUME NEW k \in Keys, Fill(k)
         PROVE  ReplWaits' /\ Recorded' /\ Snapping' /\ Restoring'
    <2>1. /\ phase = "fill" /\ k \in todo /\ todo' = todo \ {k}
          /\ globals' = IF copy.globals[k] = Undefined THEN globals ELSE [globals EXCEPT ![k] = copy.globals[k]]
          /\ UNCHANGED <<scopes, history, phase, copy, job, before, want, quiet>>
      BY <1>10 DEF Fill
    <2>2. globals \in Maps
      BY DEF UndoInv, TypeOK
    <2>3. quiet => \A j \in Keys : globals'[j] = IF j \in todo' THEN Undefined ELSE want.globals[j]
      BY <2>1, <2>2 DEF UndoInv, Maps
    <2> QED
      BY <2>1, <2>3 DEF UndoInv, Recorded
  <1> QED
    BY <1>1, <1>2, <1>3, <1>4, <1>5, <1>6, <1>7, <1>8, <1>9, <1>10

\* Snapshots and rollbacks have what they should, key by key.
LEMMA UndoInvariant == Spec => []UndoInv
  <1>1. Init => ReplWaits /\ Recorded /\ Snapping /\ Restoring
    BY DEF Init, ReplWaits, Recorded, Snapping, Restoring, Idle, Job, Tasks
  <1>2. UndoInv /\ [Next]_vars => ReplWaits' /\ Recorded' /\ Snapping' /\ Restoring'
    <2> SUFFICES ASSUME UndoInv, [Next]_vars PROVE ReplWaits' /\ Recorded' /\ Snapping' /\ Restoring'
      OBVIOUS
    <2>1. CASE UNCHANGED vars
      BY <2>1 DEF vars, UndoInv, ReplWaits, Recorded, Snapping, Restoring
    <2>2. ASSUME NEW t \in Others, Packet(t) \/ Request(t) \/ Answer(t)
          PROVE  ReplWaits' /\ Recorded' /\ Snapping' /\ Restoring'
      <3>1. UNCHANGED <<globals, scopes, history, phase, todo, copy, before, want, quiet>>
        BY <2>2 DEF Packet, Request, Answer, memory, repl, undo
      <3>2. job'[Repl] = job[Repl]
        BY <2>2, SessionAssumption DEF Packet, Request, Answer, Command, UndoInv, TypeOK, Tasks
      <3> QED
        BY <3>1, <3>2 DEF UndoInv, ReplWaits, Recorded, Snapping, Restoring
    <2> QED
      BY <2>1, <2>2, UndoExecution, UndoRollback, UndoRepl DEF Next
  <1>3. UndoInv <=> TypeOK /\ ReplWaits /\ Recorded /\ Snapping /\ Restoring
    BY DEF UndoInv
  <1> QED
    BY <1>1, <1>2, <1>3, TypeCorrect, PTL DEF Spec

\* A rollback of N steps gives the globals and the scopes as they were when the
\* N-th last command was told, unless another task changed the memory while that
\* snapshot was read or while it is put back.  (memory.rs: snapshot, rollback.)
THEOREM UndoIsExact == Spec => UndoExact
  <1>1. UndoInv /\ [Next]_vars =>
          [phase = "fill" /\ phase' = "prompt" /\ quiet =>
             globals' = want.globals /\ scopes' = want.scopes]_vars
    <2> SUFFICES ASSUME UndoInv, [Next]_vars, phase = "fill", phase' = "prompt", quiet
                 PROVE  globals' = want.globals /\ scopes' = want.scopes
      OBVIOUS
    <2>1. Restack
      BY DEF Next, vars, Line, Tell, SnapshotDone, Prompt, Interrupt, Exit, Rollback, EmptyLine, Entered,
             Clear, SnapshotKey, Fill, Packet, Request, Answer, repl,
             Set, Enter, Leave, Unwind, Builtin, Fail, End
    <2>2. copy = want /\ globals' = globals /\ scopes' = copy.scopes /\ todo = {}
      BY <2>1 DEF Restack, UndoInv, Restoring
    <2>3. globals \in Maps /\ want.globals \in Maps /\ \A k \in Keys : globals[k] = want.globals[k]
      BY <2>2 DEF UndoInv, TypeOK, Restoring, Memory
    <2>4. globals = want.globals
      BY <2>3 DEF Maps
    <2> QED
      BY <2>2, <2>4
  <1> QED
    BY <1>1, UndoInvariant, PTL DEF Spec, UndoExact

=============================================================================
