---------------------------- MODULE MCActorSystem ----------------------------
(***************************************************************************)
(* Instances of ActorSystem: up to three actors that may share one name,   *)
(* and mailboxes of one or two places.  A program is written as the        *)
(* statements of the main executor and of two actor bodies.                *)
(***************************************************************************)
EXTENDS ActorSystem

CONSTANTS n1, hi, BodyA, BodyB

Receives == [op |-> "recv"]
Works    == [op |-> "work"]
Loops    == [op |-> "again"]
Sends(k) == [op |-> "send", to |-> k, text |-> hi]
SpawnsA(n, s) == [op |-> "spawn", body |-> BodyA, name |-> n, strategy |-> s]
SpawnsB(n, s) == [op |-> "spawn", body |-> BodyB, name |-> n, strategy |-> s]

Program(m, a, b) == [x \in {Main, BodyA, BodyB} |->
                        CASE x = Main -> m [] x = BodyA -> a [] OTHER -> b]

\* Two actors fight over a name while the main executor sends to it; bodies
\* that crash, restart, loop, send to themselves and spawn a child.
SafetyPrograms ==
    {Program(m, a, b) :
        m \in {<<SpawnsA(n1, "Escalate"), SpawnsB(n1, "Restart"), Sends(n1)>>,
               <<SpawnsA(n1, "Restart"), Sends(n1), Works, Sends(n1)>>},
        a \in {<<SpawnsB(NoName, "Escalate"), Receives, Works>>,
               <<Receives, Works, Loops>>},
        b \in {<<Works, Sends(n1)>>,
               <<Receives, Sends(1), Works>>,
               <<Works, Sends(1), Works>>}}

\* Programs that do not send in circles: a body only sends to an actor that
\* never sends back, and a body that loops or restarts receives as it goes.
LivePrograms ==
    {Program(<<SpawnsA(n1, "Stop"), Works, Sends(n1), Sends(n1)>>,
             <<SpawnsB(NoName, "Escalate"), Works, Receives, Receives>>,
             <<Sends(n1), Works>>),
     Program(<<SpawnsA(n1, "Restart"), SpawnsB(NoName, "Escalate"), Sends(1)>>,
             <<Receives, Works>>,
             <<Sends(n1), Sends(n1), Works>>),
     Program(<<SpawnsA(n1, "Escalate"), Sends(n1), SpawnsB(n1, "Stop")>>,
             <<Receives, Loops>>,
             <<Sends(1), Works>>)}

\* An actor that starts two children.
FamilyPrograms ==
    {Program(<<SpawnsA(NoName, "Stop")>>,
             <<SpawnsB(NoName, "Escalate"), Works, SpawnsB(NoName, "Escalate")>>,
             <<Works, Receives>>)}
=============================================================================
