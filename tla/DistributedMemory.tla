-------------------------- MODULE DistributedMemory --------------------------
(***************************************************************************)
(* The replicated globals of helheim-core/src/orchestra/distributed.rs and *)
(* their broadcast at the end of a Concurrent block (executor.rs) to the   *)
(* state_delta: command of the peers (orchestra/mod.rs).                   *)
(*                                                                         *)
(* Several tokio tasks of a node call set_global at once, and every        *)
(* incoming connection applies deltas in a task of its own.  Each access   *)
(* to the clock, to a DashMap shard or to the queue is one step; between   *)
(* two of them anything may happen.                                        *)
(***************************************************************************)
EXTENDS Naturals, Sequences

CONSTANTS Nodes,    \* one DistributedMemory each
          Names,    \* names of globals
          Values,
          NoValue,  \* a name that is not in the DashMap
          Writers,  \* tasks that call set_global
          Home,     \* the node each of them runs on
          MaxClock  \* bound on AtomicU64 clock

ASSUME MemoryAssumption ==
    /\ Home \in [Writers -> Nodes]
    /\ NoValue \notin Values
    /\ MaxClock \in Nat

Deltas  == [name : Names, value : Values, lamport : Nat \ {0}, source : Nodes]
Entries == [value : Values \union {NoValue}, ts : Nat]
Absent  == [value |-> NoValue, ts |-> 0]

VARIABLES globals,  \* globals[n][k]: value and timestamp
          clock,    \* the Lamport clock of each node
          pending,  \* pending_deltas, oldest first
          stage,    \* a writer: "idle", "stamped" (bump done), "stored"
          draft,    \* the delta a writer that is not idle works on
          inflight, \* <<delta, peer>> popped by flush_deltas, not delivered
          applying, \* <<delta, node>> between the two halves of apply_delta
          writes,   \* history: the deltas set_global has stamped
          raced,    \* history: writers whose set_global overlapped another step
          perfect   \* history: no delta was lost and no set_global raced

vars == <<globals, clock, pending, stage, draft, inflight, applying,
          writes, raced, perfect>>

TypeOK ==
    /\ globals \in [Nodes -> [Names -> Entries]]
    /\ clock \in [Nodes -> Nat]
    /\ pending \in [Nodes -> Seq(Deltas)]
    /\ stage \in [Writers -> {"idle", "stamped", "stored"}]
    /\ draft \in [Writers -> Deltas \union {Absent}]
    /\ inflight \subseteq Deltas \X Nodes
    /\ applying \subseteq Deltas \X Nodes
    /\ writes \subseteq Deltas
    /\ raced \subseteq Writers
    /\ perfect \in BOOLEAN

-----------------------------------------------------------------------------
Larger(x, y) == IF x < y THEN y ELSE x

Busy(n) == {w \in Writers : Home[w] = n /\ stage[w] # "idle"}

Applying(n) == {p \in applying : p[2] = n}

-----------------------------------------------------------------------------
(* Steps with a fault, no part of Next: each breaks a property below, which *)
(* shows that the property depends on how the code takes the step.          *)

\* bump returns what fetch_add returned, without the + 1.
StampWithOldClock(w, k, v) == LET n == Home[w]
                                  d == [name |-> k, value |-> v,
                                        lamport |-> clock[n], source |-> n] IN
    /\ stage[w] = "idle"
    /\ clock[n] < MaxClock
    /\ clock' = [clock EXCEPT ![n] = @ + 1]
    /\ draft' = [draft EXCEPT ![w] = d]
    /\ writes' = writes \union {d}
    /\ stage' = [stage EXCEPT ![w] = "stamped"]
    /\ UNCHANGED <<globals, pending, inflight, applying, raced, perfect>>

\* apply_delta writes the value without looking at the timestamp.
ApplyAlways(p) == LET d == p[1]
                      n == p[2] IN
    /\ p \in inflight
    /\ inflight' = inflight \ {p}
    /\ applying' = applying \union {p}
    /\ globals' = [globals EXCEPT ![n][d.name] = [value |-> d.value, ts |-> d.lamport]]
    /\ raced' = raced \union Busy(n)
    /\ UNCHANGED <<clock, pending, stage, draft, writes, perfect>>

\* apply_delta forgets `*v =`.
ApplyTimestampOnly(p) == LET d == p[1]
                             n == p[2] IN
    /\ p \in inflight
    /\ inflight' = inflight \ {p}
    /\ applying' = applying \union {p}
    /\ globals' = [globals EXCEPT ![n][d.name].ts = Larger(@, d.lamport)]
    /\ raced' = raced \union Busy(n)
    /\ UNCHANGED <<clock, pending, stage, draft, writes, perfect>>

\* A plain store instead of the compare_exchange loop: the clock goes back.
ClockStored(p) ==
    /\ p \in applying
    /\ applying' = applying \ {p}
    /\ clock' = [clock EXCEPT ![p[2]] = p[1].lamport]
    /\ UNCHANGED <<globals, pending, stage, draft, inflight, writes, raced, perfect>>

\* One compare_exchange and no retry: the clock may keep its value.
ClockGivenUp(p) ==
    /\ p \in applying
    /\ applying' = applying \ {p}
    /\ UNCHANGED <<globals, clock, pending, stage, draft, inflight, writes, raced, perfect>>

-----------------------------------------------------------------------------
\* History: a step of somebody else on node n, while a set_global is between
\* its bump and its return there.
Races(n, others) == raced' = raced \union (Busy(n) \ others)

-----------------------------------------------------------------------------
Init ==
    /\ globals = [n \in Nodes |-> [k \in Names |-> Absent]]
    /\ clock = [n \in Nodes |-> 0]
    /\ pending = [n \in Nodes |-> <<>>]
    /\ stage = [w \in Writers |-> "idle"]
    /\ draft = [w \in Writers |-> Absent]
    /\ inflight = {}
    /\ applying = {}
    /\ writes = {}
    /\ raced = {}
    /\ perfect = TRUE

-----------------------------------------------------------------------------
(* set_global: bump, insert whatever is there, push.                        *)

SetStamp(w, k, v) == LET n == Home[w] IN
    /\ stage[w] = "idle"
    /\ clock[n] < MaxClock
    /\ clock' = [clock EXCEPT ![n] = @ + 1]
    /\ draft' = [draft EXCEPT ![w] = [name |-> k, value |-> v,
                                      lamport |-> clock[n] + 1, source |-> n]]
    /\ writes' = writes \union {[name |-> k, value |-> v,
                                 lamport |-> clock[n] + 1, source |-> n]}
    /\ stage' = [stage EXCEPT ![w] = "stamped"]
    /\ raced' = (raced \union Busy(n))
                  \union (IF Busy(n) # {} \/ Applying(n) # {} THEN {w} ELSE {})
    /\ UNCHANGED <<globals, pending, inflight, applying, perfect>>

SetInsert(w) == LET n == Home[w] IN
    /\ stage[w] = "stamped"
    /\ globals' = [globals EXCEPT ![n][draft[w].name] =
                     [value |-> draft[w].value, ts |-> draft[w].lamport]]
    /\ stage' = [stage EXCEPT ![w] = "stored"]
    /\ Races(n, {w})
    /\ UNCHANGED <<clock, pending, draft, inflight, applying, writes, perfect>>

SetPush(w) == LET n == Home[w] IN
    /\ stage[w] = "stored"
    /\ pending' = [pending EXCEPT ![n] = Append(@, draft[w])]
    /\ stage' = [stage EXCEPT ![w] = "idle"]
    /\ draft' = [draft EXCEPT ![w] = Absent]
    /\ raced' = raced \ {w}
    /\ perfect' = (perfect /\ w \notin raced)
    /\ UNCHANGED <<globals, clock, inflight, applying, writes>>

\* capture_continuation stamps a continuation with the same clock.
CaptureBump(n) ==
    /\ clock[n] < MaxClock
    /\ clock' = [clock EXCEPT ![n] = @ + 1]
    /\ UNCHANGED <<globals, pending, stage, draft, inflight, applying,
                   writes, raced, perfect>>

-----------------------------------------------------------------------------
(* The end of a Concurrent block: flush_deltas, then one dispatch per delta *)
(* and peer.  Blocks of one node end concurrently and the peers are the     *)
(* keys of a HashMap, so dispatches are not ordered.                        *)

Flush(n) ==
    /\ pending[n] # <<>>
    /\ inflight' = inflight \union
                     {<<pending[n][i], m>> : i \in DOMAIN pending[n], m \in Nodes \ {n}}
    /\ pending' = [pending EXCEPT ![n] = <<>>]
    /\ UNCHANGED <<globals, clock, stage, draft, applying, writes, raced, perfect>>

\* `let _ = dispatch(..)`: the delta has left the queue and is not sent again.
Lose(p) ==
    /\ p \in inflight
    /\ inflight' = inflight \ {p}
    /\ perfect' = FALSE
    /\ UNCHANGED <<globals, clock, pending, stage, draft, applying, writes, raced>>

-----------------------------------------------------------------------------
(* apply_delta: the entry under its shard lock, then the clock.             *)

ApplyEntry(p) == LET d == p[1]
                     n == p[2] IN
    /\ p \in inflight
    /\ inflight' = inflight \ {p}
    /\ applying' = applying \union {p}
    /\ globals' = [globals EXCEPT ![n][d.name] =
                     IF d.lamport > @.ts THEN [value |-> d.value, ts |-> d.lamport]
                                         ELSE @]
    /\ Races(n, {})
    /\ UNCHANGED <<clock, pending, stage, draft, writes, perfect>>

\* The compare_exchange loop ends with the larger of the two.
ApplyClock(p) == LET n == p[2] IN
    /\ p \in applying
    /\ applying' = applying \ {p}
    /\ clock' = [clock EXCEPT ![n] = Larger(@, p[1].lamport)]
    /\ UNCHANGED <<globals, pending, stage, draft, inflight, writes, raced, perfect>>

-----------------------------------------------------------------------------
Next ==
    \/ \E w \in Writers : \/ \E k \in Names, v \in Values : SetStamp(w, k, v)
                          \/ SetInsert(w)
                          \/ SetPush(w)
    \/ \E n \in Nodes : CaptureBump(n) \/ Flush(n)
    \/ \E p \in inflight : Lose(p) \/ ApplyEntry(p)
    \/ \E p \in applying : ApplyClock(p)

Spec == Init /\ [][Next]_vars

-----------------------------------------------------------------------------
(* Properties.                                                              *)

\* fetch_add never stamps two writes of a node alike, so <<lamport, source>>
\* identifies a write although writers, captures and incoming deltas move the
\* clock concurrently.
StampsUnique ==
    \A d, e \in writes : d.source = e.source /\ d.lamport = e.lamport => d = e

\* An entry is never a mixture: its value and timestamp belong together, to one
\* write of that name, whichever of set_global and apply_delta stored it.
EntriesAreWrites ==
    \A n \in Nodes, k \in Names :
        globals[n][k] # Absent =>
            \E d \in writes : /\ d.name = k
                             /\ globals[n][k] = [value |-> d.value, ts |-> d.lamport]

\* The clock covers every entry of its node, except while the apply_delta that
\* stored it has still to raise the clock.
ClockCovers ==
    \A n \in Nodes, k \in Names :
        \/ globals[n][k].ts <= clock[n]
        \/ \E p \in Applying(n) : globals[n][k].ts <= p[1].lamport

\* An entry goes back to an older timestamp only by a set_global that
\* something else overtook between its bump and its insert.
OnlyRacesRegress ==
    [][\A n \in Nodes, k \in Names :
         globals'[n][k].ts < globals[n][k].ts =>
             \E w \in raced : Home[w] = n /\ draft[w].name = k]_vars

Settled == /\ inflight = {} /\ applying = {}
           /\ \A n \in Nodes : pending[n] = <<>> /\ Busy(n) = {}

\* When every delta has been delivered, in whatever order, and no set_global
\* was overtaken, the nodes agree on the timestamp of every name, and on its
\* value unless two nodes wrote it with that same timestamp: apply_delta has
\* no tie-break.
ReplicasConverge ==
    Settled /\ perfect =>
        \A n, m \in Nodes, k \in Names :
            /\ globals[n][k].ts = globals[m][k].ts
            /\ \/ globals[n][k] = globals[m][k]
               \/ \E d, e \in writes : /\ d.name = k /\ e.name = k
                                       /\ d.source # e.source
                                       /\ d.lamport = globals[n][k].ts
                                       /\ e.lamport = globals[n][k].ts
=============================================================================
