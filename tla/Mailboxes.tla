------------------------------ MODULE Mailboxes ------------------------------
(***************************************************************************)
(* What the actor runtime promises about mailboxes, with no tasks, names   *)
(* or supervision in it: every actor owns one bounded FIFO queue, a queue  *)
(* that is open loses nothing and reorders nothing, and a queue is closed  *)
(* once and for ever.  ActorSystem is shown to implement this module.      *)
(***************************************************************************)
EXTENDS Naturals, Sequences

CONSTANTS Owners,   \* one mailbox per owner
          Messages, \* what can be put in a mailbox
          Bound     \* the capacity given to mpsc::channel

VARIABLES queue,    \* queue[o]: what was accepted for o and not yet taken
          open      \* the owners whose receiver has not been dropped

vars == <<queue, open>>

Init == /\ queue = [o \in Owners |-> <<>>]
        /\ open = Owners

\* A sender's message is accepted.
Put(o, m) == /\ o \in open
             /\ Len(queue[o]) < Bound
             /\ queue' = [queue EXCEPT ![o] = Append(@, m)]
             /\ UNCHANGED open

\* The owner takes the oldest message.
Take(o) == /\ o \in open
           /\ queue[o] # <<>>
           /\ queue' = [queue EXCEPT ![o] = Tail(@)]
           /\ UNCHANGED open

\* The receiver is dropped; what it had not taken is lost.
Close(o) == /\ o \in open
            /\ open' = open \ {o}
            /\ queue' = [queue EXCEPT ![o] = <<>>]

Next == \E o \in Owners : \/ \E m \in Messages : Put(o, m)
                          \/ Take(o)
                          \/ Close(o)

Spec == Init /\ [][Next]_vars
=============================================================================
