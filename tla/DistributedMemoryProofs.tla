----------------------- MODULE DistributedMemoryProofs -----------------------
(***************************************************************************)
(* Proofs about DistributedMemory, for any nodes, names, values, writers    *)
(* and clock bound.                                                         *)
(***************************************************************************)
EXTENDS DistributedMemory, TLAPS

\* A writer between its bump and its push works on a delta of its own node;
\* deltas only ever come from set_global, and none runs ahead of the clock of
\* the node that stamped it.
DeltasKnown ==
    /\ \A w \in Writers : stage[w] # "idle" =>
          draft[w] \in writes /\ draft[w].source = Home[w]
    /\ \A d \in writes : d.lamport <= clock[d.source]
    /\ \A n \in Nodes : \A i \in DOMAIN pending[n] :
          pending[n][i] \in writes /\ pending[n][i].source = n
    /\ \A p \in inflight \union applying : p[1] \in writes

\* A write that nothing has overtaken yet is newer than what it replaces.
UnracedIsNewer ==
    \A w \in Writers : stage[w] = "stamped" /\ w \notin raced =>
        \A k \in Names : globals[Home[w]][k].ts < draft[w].lamport

\* Where delta d is, as seen from node m that has not seen it yet.
Coming(d, m) ==
    \/ \E w \in Writers : stage[w] = "stamped" /\ draft[w] = d
    \/ /\ m # d.source
       /\ \/ \E w \in Writers : stage[w] = "stored" /\ draft[w] = d
          \/ \E i \in DOMAIN pending[d.source] : pending[d.source][i] = d
          \/ <<d, m>> \in inflight

Seen(d, m) == globals[m][d.name].ts >= d.lamport

\* A set_global that was overtaken may have put an older entry back.
Disturbed(m) == \E w \in raced : Home[w] = m /\ stage[w] = "stored"

NothingForgotten ==
    perfect => \A d \in writes, m \in Nodes : Coming(d, m) \/ Seen(d, m) \/ Disturbed(m)

Safe == /\ TypeOK
        /\ DeltasKnown
        /\ StampsUnique
        /\ EntriesAreWrites
        /\ ClockCovers
        /\ UnracedIsNewer

-----------------------------------------------------------------------------
\* Init establishes the invariant.
LEMMA InitSafe == Init => Safe
  <1> USE MemoryAssumption
  <1> SUFFICES ASSUME Init PROVE Safe
    OBVIOUS
  <1>1. TypeOK
    BY DEF Init, TypeOK, Entries, Absent
  <1>2. DeltasKnown /\ StampsUnique
    BY DEF Init, DeltasKnown, StampsUnique
  <1>3. EntriesAreWrites /\ UnracedIsNewer
    BY DEF Init, EntriesAreWrites, UnracedIsNewer
  <1>4. ClockCovers
    BY DEF Init, ClockCovers, Absent
  <1> QED
    BY <1>1, <1>2, <1>3, <1>4 DEF Safe

\* set_global's bump: a stamp above everything the node has stored or sent.
LEMMA SetStampSafe ==
  ASSUME Safe, NEW w \in Writers, NEW k \in Names, NEW v \in Values, SetStamp(w, k, v)
  PROVE  Safe'
  <1> USE MemoryAssumption DEF Safe
  <1> DEFINE n == Home[w]
             d == [name |-> k, value |-> v, lamport |-> clock[n] + 1, source |-> n]
  <1>0. /\ n \in Nodes /\ clock[n] \in Nat /\ d \in Deltas
        /\ d.source = n /\ d.lamport = clock[n] + 1 /\ d.name = k
        /\ clock' = [clock EXCEPT ![n] = @ + 1]
        /\ draft' = [draft EXCEPT ![w] = d]
        /\ writes' = writes \union {d}
        /\ stage' = [stage EXCEPT ![w] = "stamped"]
        /\ raced' = (raced \union Busy(n))
                     \union (IF Busy(n) # {} \/ Applying(n) # {} THEN {w} ELSE {})
        /\ UNCHANGED <<globals, pending, inflight, applying, perfect>>
        /\ stage[w] = "idle"
    <2>1. n \in Nodes /\ clock[n] \in Nat
      BY DEF TypeOK
    <2>2. d \in Deltas
      BY <2>1 DEF Deltas
    <2> QED
      BY <2>1, <2>2 DEF SetStamp
  <1> HIDE DEF n, d
  <1>1. TypeOK'
    <2>1. (clock \in [Nodes -> Nat])'
      BY <1>0 DEF TypeOK
    <2>2. (draft \in [Writers -> Deltas \union {Absent}])' /\ (writes \subseteq Deltas)'
      BY <1>0 DEF TypeOK
    <2>3. (raced \subseteq Writers)'
      BY <1>0 DEF TypeOK, Busy
    <2> QED
      BY <1>0, <2>1, <2>2, <2>3 DEF TypeOK
  <1>2. \A e \in writes : e.source \in Nodes /\ e.lamport \in Nat
    BY DEF TypeOK, Deltas
  <1>3. \A m \in Nodes : clock[m] \in Nat /\ clock[m] <= clock'[m]
    BY <1>0 DEF TypeOK
  <1>4. DeltasKnown'
    <2>1. (\A x \in Writers : stage[x] # "idle" =>
             draft[x] \in writes /\ draft[x].source = Home[x])'
      BY <1>0 DEF DeltasKnown, TypeOK, n
    <2>2. (\A e \in writes : e.lamport <= clock[e.source])'
      <3> SUFFICES ASSUME NEW e \in writes' PROVE e.lamport <= clock'[e.source]
        OBVIOUS
      <3>1. CASE e = d
        BY <3>1, <1>0 DEF TypeOK
      <3>2. CASE e \in writes
        <4>1. e.lamport <= clock[e.source]
          BY <3>2 DEF DeltasKnown
        <4>2. e.source \in Nodes /\ e.lamport \in Nat
          BY <3>2, <1>2
        <4>3. clock'[e.source] \in Nat
          BY <4>2, <1>1 DEF TypeOK
        <4> QED
          BY <4>1, <4>2, <4>3, <1>3
      <3> QED
        BY <3>1, <3>2, <1>0
    <2>3. (\A m \in Nodes : \A i \in DOMAIN pending[m] :
              pending[m][i] \in writes /\ pending[m][i].source = m)'
      BY <1>0 DEF DeltasKnown
    <2>4. (\A p \in inflight \union applying : p[1] \in writes)'
      BY <1>0 DEF DeltasKnown
    <2> QED
      BY <2>1, <2>2, <2>3, <2>4 DEF DeltasKnown
  <1>5. StampsUnique'
    <2>1. \A e \in writes : e.source = d.source => e.lamport < d.lamport
      BY <1>0, <1>2 DEF DeltasKnown
    <2> QED
      BY <1>0, <2>1, <1>2 DEF StampsUnique
  <1>6. EntriesAreWrites'
    BY <1>0 DEF EntriesAreWrites
  <1>7. ClockCovers'
    <2> SUFFICES ASSUME NEW m \in Nodes, NEW j \in Names
                 PROVE  \/ globals[m][j].ts <= clock'[m]
                        \/ \E p \in Applying(m) : globals[m][j].ts <= p[1].lamport
      BY <1>0 DEF ClockCovers, Applying
    <2>1. globals[m][j].ts \in Nat /\ clock'[m] \in Nat
      BY <1>1, <1>0 DEF TypeOK, Entries
    <2> QED
      BY <2>1, <1>3 DEF ClockCovers
  <1>8. UnracedIsNewer'
    <2> SUFFICES ASSUME NEW x \in Writers, stage'[x] = "stamped", x \notin raced', NEW j \in Names
                 PROVE  globals[Home[x]][j].ts < draft'[x].lamport
      BY <1>0 DEF UnracedIsNewer
    <2>1. CASE x = w
      <3>1. Applying(n) = {}
        BY <2>1, <1>0
      <3>2. globals[n][j].ts <= clock[n]
        BY <3>1, <1>0 DEF ClockCovers
      <3>3. draft'[x] = d /\ globals[n][j].ts \in Nat
        BY <2>1, <1>0 DEF TypeOK, Entries
      <3> QED
        BY <3>2, <3>3, <2>1, <1>0 DEF n
    <2>2. CASE x # w
      BY <2>2, <1>0 DEF UnracedIsNewer, TypeOK
    <2> QED
      BY <2>1, <2>2
  <1> QED
    BY <1>1, <1>4, <1>5, <1>6, <1>7, <1>8

\* set_global's insert: the entry is a write that its node's clock covers.
LEMMA SetInsertSafe ==
  ASSUME Safe, NEW w \in Writers, SetInsert(w)
  PROVE  Safe'
  <1> USE MemoryAssumption DEF Safe
  <1> DEFINE n == Home[w]
             d == draft[w]
             e == [value |-> d.value, ts |-> d.lamport]
  <1>0. /\ n \in Nodes /\ d \in writes /\ d \in Deltas /\ d.source = n
        /\ d.name \in Names /\ d.lamport \in Nat /\ e \in Entries
        /\ stage[w] = "stamped"
        /\ globals' = [globals EXCEPT ![n][d.name] = e]
        /\ stage' = [stage EXCEPT ![w] = "stored"]
        /\ raced' = raced \union (Busy(n) \ {w})
        /\ UNCHANGED <<clock, pending, draft, inflight, applying, writes, perfect>>
    BY DEF TypeOK, SetInsert, Deltas, Entries, DeltasKnown, Races
  <1>01. e.ts = d.lamport /\ e.value = d.value
    OBVIOUS
  <1> HIDE DEF n, d, e
  <1>1. TypeOK'
    <2>1. (globals \in [Nodes -> [Names -> Entries]])'
      BY <1>0 DEF TypeOK
    <2>2. (raced \subseteq Writers)' /\ (stage \in [Writers -> {"idle", "stamped", "stored"}])'
      BY <1>0 DEF TypeOK, Busy
    <2> QED
      BY <1>0, <2>1, <2>2 DEF TypeOK
  <1>2. DeltasKnown'
    BY <1>0 DEF DeltasKnown, TypeOK
  <1>3. StampsUnique'
    BY <1>0 DEF StampsUnique
  <1>31. \A m \in Nodes, j \in Names :
            globals'[m][j] = IF m = n /\ j = d.name THEN e ELSE globals[m][j]
    BY <1>0 DEF TypeOK
  <1>4. EntriesAreWrites'
    <2> SUFFICES ASSUME NEW m \in Nodes, NEW j \in Names, globals'[m][j] # Absent
                 PROVE  \E f \in writes : /\ f.name = j
                                         /\ globals'[m][j] = [value |-> f.value, ts |-> f.lamport]
      BY <1>0 DEF EntriesAreWrites
    <2>1. CASE globals'[m][j] = globals[m][j]
      BY <2>1 DEF EntriesAreWrites
    <2>2. CASE j = d.name /\ globals'[m][j] = e
      BY <2>2, <1>0 DEF e
    <2> QED
      BY <2>1, <2>2, <1>31
  <1>5. ClockCovers'
    <2>1. d.lamport <= clock[n]
      BY <1>0 DEF DeltasKnown
    <2> QED
      BY <1>0, <1>01, <1>31, <2>1 DEF ClockCovers, Applying
  <1>6. UnracedIsNewer'
    <2> SUFFICES ASSUME NEW x \in Writers, stage'[x] = "stamped", x \notin raced', NEW j \in Names
                 PROVE  globals'[Home[x]][j].ts < draft[x].lamport
      BY <1>0 DEF UnracedIsNewer
    <2>1. x # w /\ stage[x] = "stamped" /\ Home[x] # n
      BY <1>0 DEF TypeOK, Busy
    <2>2. globals'[Home[x]][j] = globals[Home[x]][j]
      BY <2>1, <1>31
    <2> QED
      BY <2>1, <2>2, <1>0 DEF UnracedIsNewer
  <1> QED
    BY <1>1, <1>2, <1>3, <1>4, <1>5, <1>6

\* set_global's push: the delta joins the queue of the node that stamped it.
LEMMA SetPushSafe ==
  ASSUME Safe, NEW w \in Writers, SetPush(w)
  PROVE  Safe'
  <1> USE MemoryAssumption DEF Safe
  <1> DEFINE n == Home[w]
             d == draft[w]
  <1>0. /\ n \in Nodes /\ d \in writes /\ d \in Deltas /\ d.source = n
        /\ pending[n] \in Seq(Deltas)
        /\ pending' = [pending EXCEPT ![n] = Append(@, d)]
        /\ stage' = [stage EXCEPT ![w] = "idle"]
        /\ draft' = [draft EXCEPT ![w] = Absent]
        /\ raced' = raced \ {w}
        /\ perfect' = (perfect /\ w \notin raced)
        /\ UNCHANGED <<globals, clock, inflight, applying, writes>>
    BY DEF TypeOK, SetPush, DeltasKnown
  <1>01. \A m \in Nodes : \A i \in DOMAIN pending'[m] :
            \/ i \in DOMAIN pending[m] /\ pending'[m][i] = pending[m][i]
            \/ m = n /\ pending'[m][i] = d
    BY <1>0 DEF TypeOK
  <1> HIDE DEF n, d
  <1>1. TypeOK'
    <2>1. (pending \in [Nodes -> Seq(Deltas)])'
      BY <1>0 DEF TypeOK
    <2>2. (draft \in [Writers -> Deltas \union {Absent}])' /\ (raced \subseteq Writers)'
      BY <1>0 DEF TypeOK
    <2>3. (stage \in [Writers -> {"idle", "stamped", "stored"}])' /\ (perfect \in BOOLEAN)'
      BY <1>0 DEF TypeOK
    <2> QED
      BY <1>0, <2>1, <2>2, <2>3 DEF TypeOK
  <1>2. DeltasKnown'
    <2>1. (\A x \in Writers : stage[x] # "idle" =>
             draft[x] \in writes /\ draft[x].source = Home[x])'
      BY <1>0 DEF DeltasKnown, TypeOK
    <2>2. (\A m \in Nodes : \A i \in DOMAIN pending[m] :
              pending[m][i] \in writes /\ pending[m][i].source = m)'
      BY <1>0, <1>01 DEF DeltasKnown
    <2> QED
      BY <1>0, <2>1, <2>2 DEF DeltasKnown
  <1>3. StampsUnique' /\ EntriesAreWrites'
    BY <1>0 DEF StampsUnique, EntriesAreWrites
  <1>4. ClockCovers'
    BY <1>0 DEF ClockCovers, Applying
  <1>5. UnracedIsNewer'
    BY <1>0 DEF UnracedIsNewer, TypeOK
  <1> QED
    BY <1>1, <1>2, <1>3, <1>4, <1>5

\* A clock that only goes up keeps the invariant.
LEMMA CaptureBumpSafe ==
  ASSUME Safe, NEW n \in Nodes, CaptureBump(n)
  PROVE  Safe'
  <1> USE MemoryAssumption DEF Safe
  <1>0. /\ clock[n] \in Nat
        /\ clock' = [clock EXCEPT ![n] = @ + 1]
        /\ UNCHANGED <<globals, pending, stage, draft, inflight, applying,
                       writes, raced, perfect>>
    BY DEF TypeOK, CaptureBump
  <1>1. TypeOK'
    BY <1>0 DEF TypeOK
  <1>2. \A m \in Nodes : clock[m] \in Nat /\ clock'[m] \in Nat /\ clock[m] <= clock'[m]
    BY <1>0 DEF TypeOK
  <1>3. DeltasKnown'
    <2>1. (\A e \in writes : e.lamport <= clock[e.source])'
      <3> SUFFICES ASSUME NEW e \in writes PROVE e.lamport <= clock'[e.source]
        BY <1>0
      <3>1. e.source \in Nodes /\ e.lamport \in Nat /\ e.lamport <= clock[e.source]
        BY DEF TypeOK, Deltas, DeltasKnown
      <3> QED
        BY <3>1, <1>2
    <2> QED
      BY <1>0, <2>1 DEF DeltasKnown
  <1>4. StampsUnique' /\ EntriesAreWrites' /\ UnracedIsNewer'
    BY <1>0 DEF StampsUnique, EntriesAreWrites, UnracedIsNewer
  <1>5. ClockCovers'
    <2> SUFFICES ASSUME NEW m \in Nodes, NEW j \in Names
                 PROVE  \/ globals[m][j].ts <= clock'[m]
                        \/ \E p \in Applying(m) : globals[m][j].ts <= p[1].lamport
      BY <1>0 DEF ClockCovers, Applying
    <2>1. globals[m][j].ts \in Nat
      BY DEF TypeOK, Entries
    <2> QED
      BY <2>1, <1>2 DEF ClockCovers
  <1> QED
    BY <1>1, <1>3, <1>4, <1>5

\* Deltas move from the queue to the network and may be lost there.
LEMMA NetworkSafe ==
  ASSUME Safe, \/ \E n \in Nodes : Flush(n)
               \/ \E p \in inflight : Lose(p)
  PROVE  Safe'
  <1> USE MemoryAssumption DEF Safe
  <1>1. CASE \E n \in Nodes : Flush(n)
    <2> PICK n \in Nodes : Flush(n)
      BY <1>1
    <2>0. /\ pending[n] \in Seq(Deltas)
          /\ inflight' = inflight \union
                     {<<pending[n][i], m>> : i \in DOMAIN pending[n], m \in Nodes \ {n}}
          /\ pending' = [pending EXCEPT ![n] = <<>>]
          /\ UNCHANGED <<globals, clock, stage, draft, applying, writes, raced, perfect>>
      BY DEF Flush, TypeOK
    <2>1. TypeOK'
      BY <2>0 DEF TypeOK
    <2>2. DeltasKnown'
      BY <2>0 DEF DeltasKnown, TypeOK
    <2>3. StampsUnique' /\ EntriesAreWrites' /\ UnracedIsNewer' /\ ClockCovers'
      BY <2>0 DEF StampsUnique, EntriesAreWrites, UnracedIsNewer, ClockCovers, Applying
    <2> QED
      BY <2>1, <2>2, <2>3
  <1>2. CASE \E p \in inflight : Lose(p)
    <2> PICK p \in inflight : Lose(p)
      BY <1>2
    <2>1. TypeOK' /\ DeltasKnown'
      BY DEF Lose, TypeOK, DeltasKnown
    <2>2. StampsUnique' /\ EntriesAreWrites' /\ UnracedIsNewer' /\ ClockCovers'
      BY DEF Lose, StampsUnique, EntriesAreWrites, UnracedIsNewer, ClockCovers, Applying
    <2> QED
      BY <2>1, <2>2
  <1> QED
    BY <1>1, <1>2

\* The first half of apply_delta: a newer entry, which the delta itself covers
\* until its second half has raised the clock.
LEMMA ApplyEntrySafe ==
  ASSUME Safe, NEW p \in inflight, ApplyEntry(p)
  PROVE  Safe'
  <1> USE MemoryAssumption DEF Safe
  <1> DEFINE d == p[1]
             n == p[2]
             e == [value |-> d.value, ts |-> d.lamport]
  <1>0. /\ n \in Nodes /\ d \in writes /\ d \in Deltas /\ p = <<d, n>>
        /\ d.name \in Names /\ d.lamport \in Nat /\ e \in Entries
        /\ inflight' = inflight \ {p}
        /\ applying' = applying \union {p}
        /\ globals' = [globals EXCEPT ![n][d.name] =
                         IF d.lamport > @.ts THEN e ELSE @]
        /\ raced' = raced \union (Busy(n) \ {})
        /\ UNCHANGED <<clock, pending, stage, draft, writes, perfect>>
    BY DEF TypeOK, ApplyEntry, Deltas, Entries, DeltasKnown, Races
  <1>01. e.ts = d.lamport /\ e.value = d.value
    OBVIOUS
  <1> HIDE DEF n, d, e
  <1>1. TypeOK'
    <2>1. (globals \in [Nodes -> [Names -> Entries]])'
      BY <1>0 DEF TypeOK
    <2>2. (raced \subseteq Writers)'
      BY <1>0 DEF TypeOK, Busy
    <2> QED
      BY <1>0, <2>1, <2>2 DEF TypeOK
  <1>2. DeltasKnown'
    BY <1>0 DEF DeltasKnown
  <1>3. StampsUnique'
    BY <1>0 DEF StampsUnique
  <1>31. \A m \in Nodes, j \in Names :
            globals'[m][j] = IF m = n /\ j = d.name /\ d.lamport > globals[m][j].ts
                               THEN e ELSE globals[m][j]
    BY <1>0 DEF TypeOK
  <1>4. EntriesAreWrites'
    <2> SUFFICES ASSUME NEW m \in Nodes, NEW j \in Names, globals'[m][j] # Absent
                 PROVE  \E f \in writes : /\ f.name = j
                                         /\ globals'[m][j] = [value |-> f.value, ts |-> f.lamport]
      BY <1>0 DEF EntriesAreWrites
    <2>1. CASE globals'[m][j] = globals[m][j]
      BY <2>1 DEF EntriesAreWrites
    <2>2. CASE j = d.name /\ globals'[m][j] = e
      BY <2>2, <1>0 DEF e
    <2> QED
      BY <2>1, <2>2, <1>31
  <1>5. ClockCovers'
    <2> SUFFICES ASSUME NEW m \in Nodes, NEW j \in Names
                 PROVE  \/ globals'[m][j].ts <= clock[m]
                        \/ \E q \in Applying(m)' : globals'[m][j].ts <= q[1].lamport
      BY <1>0 DEF ClockCovers
    <2>1. Applying(m) \subseteq Applying(m)' /\ (m = n => p \in Applying(m)')
      BY <1>0 DEF Applying, n
    <2>2. CASE globals'[m][j] = globals[m][j]
      BY <2>1, <2>2 DEF ClockCovers
    <2>3. CASE m = n /\ globals'[m][j] = e
      BY <2>1, <2>3, <1>0, <1>01 DEF d
    <2> QED
      BY <2>2, <2>3, <1>31
  <1>6. UnracedIsNewer'
    <2> SUFFICES ASSUME NEW x \in Writers, stage[x] = "stamped", x \notin raced', NEW j \in Names
                 PROVE  globals'[Home[x]][j].ts < draft[x].lamport
      BY <1>0 DEF UnracedIsNewer
    <2>1. Home[x] # n /\ x \notin raced
      BY <1>0 DEF Busy
    <2>2. globals'[Home[x]][j] = globals[Home[x]][j]
      BY <2>1, <1>31
    <2> QED
      BY <2>1, <2>2 DEF UnracedIsNewer
  <1> QED
    BY <1>1, <1>2, <1>3, <1>4, <1>5, <1>6

\* The second half: the clock takes over what the delta covered.
LEMMA ApplyClockSafe ==
  ASSUME Safe, NEW p \in applying, ApplyClock(p)
  PROVE  Safe'
  <1> USE MemoryAssumption DEF Safe
  <1> DEFINE d == p[1]
             n == p[2]
  <1>0. /\ n \in Nodes /\ d \in Deltas /\ p = <<d, n>> /\ d.lamport \in Nat
        /\ clock[n] \in Nat
        /\ applying' = applying \ {p}
        /\ clock' = [clock EXCEPT ![n] = Larger(@, d.lamport)]
        /\ UNCHANGED <<globals, pending, stage, draft, inflight, writes, raced, perfect>>
    BY DEF TypeOK, ApplyClock, Deltas
  <1> HIDE DEF n, d
  <1>1. TypeOK'
    BY <1>0 DEF TypeOK, Larger
  <1>2. /\ \A m \in Nodes : clock[m] \in Nat /\ clock'[m] \in Nat /\ clock[m] <= clock'[m]
        /\ d.lamport <= clock'[n]
    BY <1>0 DEF TypeOK, Larger
  <1>3. DeltasKnown'
    <2>1. (\A e \in writes : e.lamport <= clock[e.source])'
      <3> SUFFICES ASSUME NEW e \in writes PROVE e.lamport <= clock'[e.source]
        BY <1>0
      <3>1. e.source \in Nodes /\ e.lamport \in Nat /\ e.lamport <= clock[e.source]
        BY DEF TypeOK, Deltas, DeltasKnown
      <3> QED
        BY <3>1, <1>2
    <2> QED
      BY <1>0, <2>1 DEF DeltasKnown
  <1>4. StampsUnique' /\ EntriesAreWrites' /\ UnracedIsNewer'
    BY <1>0 DEF StampsUnique, EntriesAreWrites, UnracedIsNewer
  <1>5. ClockCovers'
    <2> SUFFICES ASSUME NEW m \in Nodes, NEW j \in Names
                 PROVE  \/ globals[m][j].ts <= clock'[m]
                        \/ \E q \in Applying(m)' : globals[m][j].ts <= q[1].lamport
      BY <1>0 DEF ClockCovers
    <2>1. globals[m][j].ts \in Nat
      BY DEF TypeOK, Entries
    <2>2. CASE globals[m][j].ts <= clock[m]
      BY <2>1, <2>2, <1>2
    <2>3. CASE m = n /\ globals[m][j].ts <= d.lamport
      BY <2>1, <2>3, <1>2, <1>0
    <2>4. ASSUME NEW q \in Applying(m), q # p, globals[m][j].ts <= q[1].lamport
          PROVE  \E r \in Applying(m)' : globals[m][j].ts <= r[1].lamport
      BY <2>4, <1>0 DEF Applying
    <2> QED
      BY <2>2, <2>3, <2>4 DEF ClockCovers, Applying, d, n
  <1> QED
    BY <1>1, <1>3, <1>4, <1>5

\* Every step preserves the invariant.
LEMMA NextSafe == Safe /\ [Next]_vars => Safe'
  <1> SUFFICES ASSUME Safe, [Next]_vars PROVE Safe'
    OBVIOUS
  <1>1. CASE Next
    BY <1>1, SetStampSafe, SetInsertSafe, SetPushSafe, CaptureBumpSafe, NetworkSafe,
       ApplyEntrySafe, ApplyClockSafe DEF Next
  <1>2. CASE UNCHANGED vars
    BY <1>2 DEF vars, Safe, TypeOK, DeltasKnown, StampsUnique, EntriesAreWrites,
                ClockCovers, Applying, UnracedIsNewer
  <1> QED
    BY <1>1, <1>2

\* The inductive invariant holds in every reachable state.
THEOREM SafeAlways == Spec => []Safe
  BY InitSafe, NextSafe, PTL DEF Spec

\* The variables keep their types.
THEOREM TypeCorrect == Spec => []TypeOK
  BY SafeAlways, PTL DEF Safe

\* No two writes of one node carry the same stamp.
THEOREM StampsAreUnique == Spec => []StampsUnique
  BY SafeAlways, PTL DEF Safe

\* Every entry is what some set_global wrote under that name.
THEOREM EntriesAreAlwaysWrites == Spec => []EntriesAreWrites
  BY SafeAlways, PTL DEF Safe

\* A node's clock covers its entries, up to an apply_delta in progress.
THEOREM ClockAlwaysCovers == Spec => []ClockCovers
  BY SafeAlways, PTL DEF Safe

-----------------------------------------------------------------------------
\* An entry only goes back through the insert of an overtaken set_global.
LEMMA RegressStep ==
  ASSUME Safe, [Next]_vars, NEW n \in Nodes, NEW k \in Names,
         globals'[n][k].ts < globals[n][k].ts
  PROVE  \E w \in raced : Home[w] = n /\ draft[w].name = k
  <1> USE MemoryAssumption DEF Safe
  <1>0. globals[n][k].ts \in Nat /\ globals[n][k] \in Entries
    BY DEF TypeOK, Entries
  <1>1. ~ UNCHANGED globals
    BY <1>0
  <1>2. CASE \E w \in Writers : SetInsert(w)
    <2> PICK w \in Writers : SetInsert(w)
      BY <1>2
    <2>1. /\ stage[w] = "stamped" /\ Home[w] \in Nodes /\ draft[w] \in Deltas
          /\ globals' = [globals EXCEPT ![Home[w]][draft[w].name] =
                           [value |-> draft[w].value, ts |-> draft[w].lamport]]
      BY DEF SetInsert, TypeOK, DeltasKnown
    <2>2. draft[w].name \in Names /\ draft[w].lamport \in Nat
      BY <2>1 DEF Deltas
    <2>3. Home[w] = n /\ draft[w].name = k /\ globals'[n][k].ts = draft[w].lamport
      BY <2>1, <2>2, <1>0 DEF TypeOK
    <2>4. w \in raced
      BY <2>1, <2>2, <2>3, <1>0 DEF UnracedIsNewer
    <2> QED
      BY <2>3, <2>4
  <1>3. CASE \E p \in inflight : ApplyEntry(p)
    <2> PICK p \in inflight : ApplyEntry(p)
      BY <1>3
    <2>1. /\ p[1] \in Deltas /\ p[2] \in Nodes
          /\ globals' = [globals EXCEPT ![p[2]][p[1].name] =
                           IF p[1].lamport > @.ts
                             THEN [value |-> p[1].value, ts |-> p[1].lamport] ELSE @]
      BY DEF ApplyEntry, TypeOK
    <2>2. p[1].lamport \in Nat
      BY <2>1 DEF Deltas
    <2> QED
      BY <2>1, <2>2, <1>0 DEF TypeOK
  <1> QED
    BY <1>1, <1>2, <1>3
    DEF Next, vars, SetStamp, SetPush, CaptureBump, Flush, Lose, ApplyClock

\* No step takes an entry back unless a race on that name explains it.
THEOREM OnlyRacesEverRegress == Spec => OnlyRacesRegress
  <1>1. Safe /\ [Next]_vars =>
          [\A n \in Nodes, k \in Names :
             globals'[n][k].ts < globals[n][k].ts =>
                 \E w \in raced : Home[w] = n /\ draft[w].name = k]_vars
    BY RegressStep
  <1> QED
    BY <1>1, SafeAlways, PTL DEF Spec, OnlyRacesRegress

-----------------------------------------------------------------------------
\* A set_global puts its delta on the way to every node.
LEMMA SetsForgetNothing ==
  ASSUME Safe, Safe', NothingForgotten, NEW w \in Writers,
         \/ \E k \in Names, v \in Values : SetStamp(w, k, v)
         \/ SetInsert(w)
         \/ SetPush(w)
  PROVE  NothingForgotten'
  <1> USE MemoryAssumption DEF Safe
  <1> SUFFICES ASSUME perfect', NEW d \in writes', NEW m \in Nodes
               PROVE  Coming(d, m)' \/ Seen(d, m)' \/ Disturbed(m)'
    BY DEF NothingForgotten
  <1>1. CASE \E k \in Names, v \in Values : SetStamp(w, k, v)
    <2> PICK k \in Names, v \in Values : SetStamp(w, k, v)
      BY <1>1
    <2>1. CASE d \in writes
      <3>1. perfect /\ (Coming(d, m) \/ Seen(d, m) \/ Disturbed(m))
        BY <2>1 DEF SetStamp, NothingForgotten
      <3>2. CASE Coming(d, m)
        BY <3>2 DEF SetStamp, Coming, TypeOK
      <3>3. CASE Seen(d, m)
        BY <3>3 DEF SetStamp, Seen
      <3>4. CASE Disturbed(m)
        BY <3>4 DEF SetStamp, Disturbed, TypeOK
      <3> QED
        BY <3>1, <3>2, <3>3, <3>4
    <2>2. CASE d \notin writes
      BY <2>2 DEF SetStamp, Coming, TypeOK
    <2> QED
      BY <2>1, <2>2
  <1>2. CASE SetInsert(w)
    <2>0. /\ stage[w] = "stamped" /\ stage' = [stage EXCEPT ![w] = "stored"]
          /\ Home[w] \in Nodes /\ draft[w] \in Deltas /\ draft[w].source = Home[w]
          /\ globals' = [globals EXCEPT ![Home[w]][draft[w].name] =
                           [value |-> draft[w].value, ts |-> draft[w].lamport]]
          /\ UNCHANGED <<clock, pending, draft, inflight, applying, writes, perfect>>
          /\ raced \subseteq raced'
      BY <1>2 DEF SetInsert, TypeOK, DeltasKnown, Races
    <2>1. /\ draft[w].name \in Names /\ draft[w].lamport \in Nat
          /\ d \in writes /\ d \in Deltas /\ d.lamport \in Nat /\ d.name \in Names
      BY <2>0 DEF Deltas, TypeOK
    <2>2. \A n \in Nodes, k \in Names :
             /\ globals[n][k].ts \in Nat
             /\ globals'[n][k].ts = IF n = Home[w] /\ k = draft[w].name
                                      THEN draft[w].lamport ELSE globals[n][k].ts
      BY <2>0, <2>1 DEF TypeOK, Entries
    <2>3. CASE d = draft[w] /\ m = Home[w]
      BY <2>3, <2>2, <2>1 DEF Seen
    <2>4. CASE d = draft[w] /\ m # Home[w]
      BY <2>4, <2>0 DEF Coming, TypeOK
    <2>5. CASE d # draft[w]
      <3>1. Coming(d, m) \/ Seen(d, m) \/ Disturbed(m)
        BY <2>0, <2>1 DEF NothingForgotten
      <3>2. CASE Coming(d, m)
        BY <3>2, <2>5, <2>0 DEF Coming, TypeOK
      <3>3. CASE Seen(d, m)
        <4>1. CASE m = Home[w] /\ w \in raced
          BY <4>1, <2>0 DEF Disturbed, TypeOK
        <4>2. CASE m = Home[w] /\ w \notin raced
          BY <4>2, <3>3, <2>0, <2>1, <2>2 DEF UnracedIsNewer, Seen
        <4>3. CASE m # Home[w]
          BY <4>3, <3>3, <2>1, <2>2 DEF Seen
        <4> QED
          BY <4>1, <4>2, <4>3
      <3>4. CASE Disturbed(m)
        BY <3>4, <2>0 DEF Disturbed, TypeOK
      <3> QED
        BY <3>1, <3>2, <3>3, <3>4
    <2> QED
      BY <2>3, <2>4, <2>5
  <1>3. CASE SetPush(w)
    <2>0. /\ stage[w] = "stored" /\ stage' = [stage EXCEPT ![w] = "idle"]
          /\ pending' = [pending EXCEPT ![Home[w]] = Append(@, draft[w])]
          /\ draft' = [draft EXCEPT ![w] = Absent]
          /\ raced' = raced \ {w} /\ w \notin raced /\ perfect
          /\ UNCHANGED <<globals, clock, inflight, applying, writes>>
          /\ Home[w] \in Nodes /\ draft[w].source = Home[w]
          /\ pending[Home[w]] \in Seq(Deltas) /\ draft[w] \in Deltas
      BY <1>3 DEF SetPush, TypeOK, DeltasKnown
    <2>1. d \in writes /\ d.source \in Nodes
      BY <2>0 DEF TypeOK, Deltas
    <2>2. /\ pending'[Home[w]][Len(pending[Home[w]]) + 1] = draft[w]
          /\ Len(pending[Home[w]]) + 1 \in DOMAIN pending'[Home[w]]
      BY <2>0 DEF TypeOK
    <2>3. \A n \in Nodes : \A i \in DOMAIN pending[n] :
             i \in DOMAIN pending'[n] /\ pending'[n][i] = pending[n][i]
      BY <2>0 DEF TypeOK
    <2>4. Coming(d, m) \/ Seen(d, m) \/ Disturbed(m)
      BY <2>0, <2>1 DEF NothingForgotten
    <2>5. CASE Seen(d, m)
      BY <2>5, <2>0 DEF Seen
    <2>6. CASE Disturbed(m)
      BY <2>6, <2>0 DEF Disturbed, TypeOK
    <2>7. CASE Coming(d, m)
      <3>1. CASE \E x \in Writers : stage[x] = "stamped" /\ draft[x] = d
        BY <3>1, <2>0 DEF Coming, TypeOK
      <3>2. CASE m # d.source /\ \E x \in Writers : stage[x] = "stored" /\ draft[x] = d
        <4> PICK x \in Writers : stage[x] = "stored" /\ draft[x] = d
          BY <3>2
        <4>1. CASE x = w
          BY <4>1, <3>2, <2>0, <2>2 DEF Coming
        <4>2. CASE x # w
          BY <4>2, <3>2, <2>0 DEF Coming, TypeOK
        <4> QED
          BY <4>1, <4>2
      <3>3. CASE m # d.source /\ \E i \in DOMAIN pending[d.source] : pending[d.source][i] = d
        BY <3>3, <2>1, <2>3 DEF Coming
      <3>4. CASE m # d.source /\ <<d, m>> \in inflight
        BY <3>4, <2>0 DEF Coming
      <3> QED
        BY <2>7, <3>1, <3>2, <3>3, <3>4 DEF Coming
    <2> QED
      BY <2>4, <2>5, <2>6, <2>7
  <1> QED
    BY <1>1, <1>2, <1>3

\* A flush sends every queued delta to every other node.
LEMMA FlushForgetsNothing ==
  ASSUME Safe, NothingForgotten, NEW n \in Nodes, Flush(n)
  PROVE  NothingForgotten'
  <1> USE MemoryAssumption DEF Safe
  <1> SUFFICES ASSUME perfect, NEW d \in writes, NEW m \in Nodes
               PROVE  Coming(d, m)' \/ Seen(d, m)' \/ Disturbed(m)'
    BY DEF NothingForgotten, Flush
  <1>1. Coming(d, m) \/ Seen(d, m) \/ Disturbed(m)
    BY DEF NothingForgotten
  <1>2. d.source \in Nodes
    BY DEF TypeOK, Deltas
  <1>3. CASE m # d.source /\ \E i \in DOMAIN pending[d.source] : pending[d.source][i] = d
    <2>1. CASE n = d.source
      <3>1. <<d, m>> \in inflight'
        BY <2>1, <1>3 DEF Flush
      <3> QED
        BY <3>1, <1>3 DEF Coming
    <2>2. CASE n # d.source
      <3>1. pending'[d.source] = pending[d.source]
        BY <2>2, <1>2 DEF Flush, TypeOK
      <3> QED
        BY <3>1, <1>3 DEF Coming
    <2> QED
      BY <2>1, <2>2
  <1>4. CASE m # d.source /\ <<d, m>> \in inflight
    BY <1>4 DEF Coming, Flush
  <1>5. CASE \/ \E w \in Writers : stage[w] = "stamped" /\ draft[w] = d
             \/ m # d.source /\ \E w \in Writers : stage[w] = "stored" /\ draft[w] = d
    BY <1>5 DEF Coming, Flush
  <1>6. CASE Seen(d, m) \/ Disturbed(m)
    BY <1>6 DEF Seen, Disturbed, Flush
  <1> QED
    BY <1>1, <1>3, <1>4, <1>5, <1>6 DEF Coming

\* A delta that arrives is seen from then on; one that is lost ends perfect.
LEMMA ArrivalForgetsNothing ==
  ASSUME Safe, NothingForgotten, NEW p \in inflight, ApplyEntry(p) \/ Lose(p)
  PROVE  NothingForgotten'
  <1> USE MemoryAssumption DEF Safe
  <1>1. CASE Lose(p)
    BY <1>1 DEF Lose, NothingForgotten
  <1>2. CASE ApplyEntry(p)
    <2> SUFFICES ASSUME perfect, NEW d \in writes, NEW m \in Nodes
                 PROVE  Coming(d, m)' \/ Seen(d, m)' \/ Disturbed(m)'
      BY <1>2 DEF NothingForgotten, ApplyEntry
    <2>0. /\ p[1] \in Deltas /\ p[2] \in Nodes /\ p = <<p[1], p[2]>>
          /\ globals' = [globals EXCEPT ![p[2]][p[1].name] =
                           IF p[1].lamport > @.ts
                             THEN [value |-> p[1].value, ts |-> p[1].lamport] ELSE @]
          /\ inflight' = inflight \ {p}
          /\ raced \subseteq raced'
          /\ UNCHANGED <<pending, stage, draft>>
      BY <1>2 DEF ApplyEntry, TypeOK, Races
    <2>1. /\ p[1].lamport \in Nat /\ p[1].name \in Names
          /\ d.lamport \in Nat /\ d.name \in Names
      BY <2>0 DEF Deltas, TypeOK
    <2>2. \A n \in Nodes, k \in Names :
             /\ globals[n][k].ts \in Nat
             /\ globals'[n][k].ts = IF /\ n = p[2] /\ k = p[1].name
                                       /\ p[1].lamport > globals[n][k].ts
                                      THEN p[1].lamport ELSE globals[n][k].ts
      BY <2>0, <2>1 DEF TypeOK, Entries
    <2>3. Coming(d, m) \/ Seen(d, m) \/ Disturbed(m)
      BY DEF NothingForgotten
    <2>4. CASE p = <<d, m>>
      BY <2>4, <2>0, <2>1, <2>2 DEF Seen
    <2>5. CASE p # <<d, m>> /\ Coming(d, m)
      BY <2>5, <2>0 DEF Coming
    <2>6. CASE Seen(d, m)
      BY <2>6, <2>1, <2>2 DEF Seen
    <2>7. CASE Disturbed(m)
      BY <2>7, <2>0 DEF Disturbed
    <2> QED
      BY <2>3, <2>4, <2>5, <2>6, <2>7
  <1> QED
    BY <1>1, <1>2

\* Every delta stays on its way until it has been seen.
LEMMA NothingForgottenAlways == Spec => []NothingForgotten
  <1>1. Init => NothingForgotten
    BY DEF Init, NothingForgotten
  <1>2. Safe /\ Safe' /\ NothingForgotten /\ [Next]_vars => NothingForgotten'
    <2> SUFFICES ASSUME Safe, Safe', NothingForgotten, [Next]_vars PROVE NothingForgotten'
      OBVIOUS
    <2>1. CASE UNCHANGED <<globals, pending, stage, draft, inflight, writes, raced, perfect>>
      <3> SUFFICES ASSUME perfect, NEW d \in writes, NEW m \in Nodes
                   PROVE  Coming(d, m)' \/ Seen(d, m)' \/ Disturbed(m)'
        BY <2>1 DEF NothingForgotten
      <3>1. Coming(d, m) \/ Seen(d, m) \/ Disturbed(m)
        BY DEF NothingForgotten
      <3>2. Coming(d, m) => Coming(d, m)'
        BY <2>1 DEF Coming
      <3>3. Seen(d, m) => Seen(d, m)'
        BY <2>1 DEF Seen
      <3>4. Disturbed(m) => Disturbed(m)'
        BY <2>1 DEF Disturbed
      <3> QED
        BY <3>1, <3>2, <3>3, <3>4
    <2>2. CASE UNCHANGED vars \/ \E n \in Nodes : CaptureBump(n)
      BY <2>1, <2>2 DEF vars, CaptureBump
    <2>3. CASE \E p \in applying : ApplyClock(p)
      BY <2>1, <2>3 DEF ApplyClock
    <2> QED
      BY <2>2, <2>3, SetsForgetNothing, FlushForgetsNothing, ArrivalForgetsNothing
      DEF Next
  <1> QED
    BY <1>1, <1>2, SafeAlways, PTL DEF Spec

\* With nothing on the way and nothing disturbed, everybody has seen every
\* write, so the newest stamp of a name is the same everywhere.
LEMMA SettledAgree == Safe /\ NothingForgotten => ReplicasConverge
  <1> USE MemoryAssumption DEF Safe
  <1> SUFFICES ASSUME Safe, NothingForgotten, Settled, perfect,
                      NEW n \in Nodes, NEW m \in Nodes, NEW k \in Names
               PROVE  /\ globals[n][k].ts = globals[m][k].ts
                      /\ \/ globals[n][k] = globals[m][k]
                         \/ \E d, e \in writes : /\ d.name = k /\ e.name = k
                                                 /\ d.source # e.source
                                                 /\ d.lamport = globals[n][k].ts
                                                 /\ e.lamport = globals[n][k].ts
    BY DEF ReplicasConverge
  <1>1. \A w \in Writers : stage[w] = "idle"
    BY DEF Settled, Busy
  <1>2. \A d \in writes, o \in Nodes : Seen(d, o)
    <2> SUFFICES ASSUME NEW d \in writes, NEW o \in Nodes PROVE Seen(d, o)
      OBVIOUS
    <2>1. d.source \in Nodes
      BY DEF TypeOK, Deltas
    <2>2. pending[d.source] = <<>> /\ inflight = {}
      BY <2>1 DEF Settled
    <2>3. ~ Coming(d, o)
      BY <1>1, <2>2 DEF Coming
    <2>4. ~ Disturbed(o)
      BY <1>1 DEF Disturbed, TypeOK
    <2> QED
      BY <2>3, <2>4 DEF NothingForgotten
  <1>3. globals[n][k].ts \in Nat /\ globals[m][k].ts \in Nat
    BY DEF TypeOK, Entries
  <1>4. \A o \in Nodes : globals[o][k] # Absent =>
            \E d \in writes : /\ d.name = k /\ d.lamport \in Nat /\ d.lamport > 0
                              /\ globals[o][k] = [value |-> d.value, ts |-> d.lamport]
                              /\ globals[o][k].ts = d.lamport
    <2> SUFFICES ASSUME NEW o \in Nodes, globals[o][k] # Absent
                 PROVE  \E d \in writes : /\ d.name = k /\ d.lamport \in Nat /\ d.lamport > 0
                              /\ globals[o][k] = [value |-> d.value, ts |-> d.lamport]
                              /\ globals[o][k].ts = d.lamport
      OBVIOUS
    <2> PICK d \in writes : d.name = k /\ globals[o][k] = [value |-> d.value, ts |-> d.lamport]
      BY DEF EntriesAreWrites
    <2>1. d.lamport \in Nat /\ d.lamport > 0
      BY DEF TypeOK, Deltas
    <2>2. globals[o][k].ts = d.lamport
      OBVIOUS
    <2> QED
      BY <2>1, <2>2
  <1>41. Absent.ts = 0
    BY DEF Absent
  <1>5. \A o, q \in {n, m} : globals[o][k] # Absent =>
            globals[q][k].ts >= globals[o][k].ts /\ globals[q][k] # Absent
    <2> SUFFICES ASSUME NEW o \in {n, m}, NEW q \in {n, m}, globals[o][k] # Absent
                 PROVE  globals[q][k].ts >= globals[o][k].ts /\ globals[q][k] # Absent
      OBVIOUS
    <2> PICK d \in writes : /\ d.name = k /\ d.lamport \in Nat /\ d.lamport > 0
                            /\ globals[o][k].ts = d.lamport
      BY <1>4
    <2>1. globals[q][k].ts >= d.lamport
      BY <1>2 DEF Seen
    <2> QED
      BY <2>1, <1>3, <1>41
  <1>6. CASE globals[n][k] = Absent \/ globals[m][k] = Absent
    BY <1>5, <1>6
  <1>7. CASE globals[n][k] # Absent /\ globals[m][k] # Absent
    <2>1. globals[n][k].ts = globals[m][k].ts
      BY <1>3, <1>5, <1>7
    <2>2. PICK d \in writes : /\ d.name = k
                              /\ globals[n][k] = [value |-> d.value, ts |-> d.lamport]
                              /\ globals[n][k].ts = d.lamport
      BY <1>4, <1>7
    <2>3. PICK e \in writes : /\ e.name = k
                              /\ globals[m][k] = [value |-> e.value, ts |-> e.lamport]
                              /\ globals[m][k].ts = e.lamport
      BY <1>4, <1>7
    <2>4. d.source = e.source => d = e
      BY <2>1, <2>2, <2>3 DEF StampsUnique
    <2> QED
      BY <2>1, <2>2, <2>3, <2>4
  <1> QED
    BY <1>6, <1>7

\* However the deltas were reordered, the replicas agree once all have
\* arrived, except for writes of two nodes with the same stamp.
THEOREM ReplicasAlwaysConverge == Spec => []ReplicasConverge
  BY SettledAgree, NothingForgottenAlways, SafeAlways, PTL
=============================================================================
