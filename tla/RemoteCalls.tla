---------------------------- MODULE RemoteCalls ----------------------------
(***************************************************************************)
(* What SwarmEngine::dispatch promises its callers, with no connections,   *)
(* pool, packets or stamps in it: a peer takes a call at most once; it     *)
(* executes or refuses what it has taken, or takes note of it and discards *)
(* it because it cannot read it; an answer is true for ever; and an error  *)
(* leaves a call with the peer only if its connection broke while it       *)
(* waited.  Swarm is shown to implement this module.                       *)
(***************************************************************************)
CONSTANTS Calls,     \* what callers dispatch, each once
          Refusable, \* those a peer may refuse: continuations
          Illegible  \* those it may be unable to read

VARIABLES outcome,   \* what the caller knows of each call
          hands,     \* calls the peer has taken and not decided about
          executed,  \* calls the peer has executed
          discarded, \* calls it could not read, and acknowledges
          lost       \* calls that wait on a connection that broke

vars == <<outcome, hands, executed, discarded, lost>>

Seen == hands \union executed \union discarded

Open == {j \in Calls : outcome[j] = "open"}

Becomes(j, o) == outcome' = [outcome EXCEPT ![j] = o]

Init == /\ outcome = [j \in Calls |-> "idle"]
        /\ hands = {} /\ executed = {} /\ discarded = {} /\ lost = {}

Call(j) == /\ outcome[j] = "idle"
           /\ Becomes(j, "open")
           /\ UNCHANGED <<hands, executed, discarded, lost>>

\* Nothing is sent.
Decline(j) == /\ outcome[j] = "idle"
              /\ Becomes(j, "err")
              /\ UNCHANGED <<hands, executed, discarded, lost>>

Take(j) == /\ j \in Open \ (Seen \union lost)
           /\ hands' = hands \union {j}
           /\ UNCHANGED <<outcome, executed, discarded, lost>>

Execute(j) == /\ j \in hands
              /\ hands' = hands \ {j}
              /\ executed' = executed \union {j}
              /\ UNCHANGED <<outcome, discarded, lost>>

Discard(j) == /\ j \in hands \intersect Illegible
              /\ hands' = hands \ {j}
              /\ discarded' = discarded \union {j}
              /\ UNCHANGED <<outcome, executed, lost>>

Refuse(j) == /\ j \in hands \intersect Refusable
             /\ hands' = hands \ {j}
             /\ UNCHANGED <<outcome, executed, discarded, lost>>

\* The connections of some calls break, and the peer may die with some that it
\* has in its hands.
Break(waiting, dropped) ==
    /\ lost' = lost \union waiting
    /\ hands' = hands \ dropped
    /\ dropped \intersect Open \subseteq lost'
    /\ UNCHANGED <<outcome, executed, discarded>>

\* The answer says what the peer did, and the peer is done with the call.
Answer(j) == /\ j \in Open \ (hands \union lost)
             /\ \/ j \in executed \union discarded /\ Becomes(j, "acked")
                \/ j \in Refusable \ (executed \union discarded) /\ Becomes(j, "refused")
             /\ UNCHANGED <<hands, executed, discarded, lost>>

\* Unless the connection broke, the peer has not had the call.
Fail(j) == /\ j \in Open
           /\ j \in lost \/ j \notin Seen
           /\ Becomes(j, "err")
           /\ lost' = lost \ {j}
           /\ UNCHANGED <<hands, executed, discarded>>

Next == \/ \E j \in Calls : \/ Call(j) \/ Decline(j)
                            \/ Take(j) \/ Execute(j) \/ Discard(j) \/ Refuse(j)
                            \/ Answer(j) \/ Fail(j)
        \/ \E waiting \in SUBSET Open, dropped \in SUBSET hands : Break(waiting, dropped)

Spec == Init /\ [][Next]_vars
=============================================================================
