----------------------------- MODULE MCExecutor -----------------------------
(***************************************************************************)
(* Instances of Executor: families of small programs in which every         *)
(* statement meets the others that change the scopes or the activations.    *)
(***************************************************************************)
EXTENDS Executor

CONSTANTS b0, b1, b2, b3, t0, t1, t2

S(o) == [op |-> o]
Body(o, b) == [op |-> o, body |-> b]
Two(o, b, c) == [op |-> o, body |-> b, other |-> c]
Handles(e, b, c) == [op |-> "handle", effect |-> e, body |-> b, other |-> c]

Program(m, x, y, z) == [b \in Blocks |-> CASE b = Main -> m [] b = b1 -> x [] b = b2 -> y [] OTHER -> z]

\* Calls, lists and bodies of their own that recurse, return and fail, in a
\* try block whose handler may do the same.
Calling ==
    {Program(<<Two("try", b1, b2), S("assign")>>, <<x, S("throw")>>, <<y, S("return")>>,
             <<S("assign"), z, S("return")>>) :
       x \in {Body("call", b3), Body("each", b3), Body("inline", b3), Handles("user", b3, b2)},
       y \in {S("work"), S("install"), Body("apart", b3)},
       z \in {Two("if", b1, NoBlock), S("throw"), Body("call", b2)}}

\* Loops, blocks and lists that are nested deeper than the frames allow.
Looping ==
    {Program(<<x, S("assign")>>, <<Body("loop", b2), S("work")>>, <<Body("block", b3), S("send")>>, y) :
       x \in {Body("each", b1), Body("block", b1), Body("loop", b1), Body("loop", b3)},
       y \in {<<Body("block", b2)>>, <<Body("call", b1)>>, <<S("return")>>, <<>>}}

\* A perform below a handler that resumes not at all, once, or twice.
Performing ==
    {Program(<<x, S("assign")>>, <<Body("call", b3), S("assign")>>, y, <<z, S("assign"), S("work")>>) :
       x \in {Handles("user", b1, b2), Handles("user", b3, b2)},
       y \in {<<S("throw")>>, <<S("resume"), S("assign")>>, <<S("resume"), S("resume")>>, <<Body("call", b3)>>},
       z \in {S("perform"), S("bind"), S("qualified")}}

\* A resumption that meets na_aankomst, and migrations with voor_vertrek.
Moving ==
    {Program(<<Handles(e, b1, b3), S("assign")>>, <<x, S("assign")>>, <<y, S("perform"), S("assign")>>,
             <<S("assign"), z, S("work")>>) :
       e \in {"arrive", "depart"},
       x \in {Handles("user", b2, b3), Two("try", b2, b3)},
       y \in {S("qualified"), S("migrate"), S("bind")},
       z \in {S("resume"), S("return"), S("throw")}}

\* Branches and daemons that push, pop and resume on one stack of scopes.
Sharing ==
    {Program(<<Handles("user", b1, b2), S("perform")>>, <<x, S("assign")>>, <<y>>, <<z, S("assign")>>) :
       x \in {Two("concurrent", b3, b2), Body("daemon", b3)},
       y \in {S("resume"), S("revive"), S("return")},
       z \in {S("perform"), Body("call", b2), S("throw")}}

\* Continuations that are kept: resumed within the handler or a call, or once
\* their guards are gone, with calls, captures and failures afterwards.
Keeping ==
    {Program(<<x, y, Body("call", b3), S("assign")>>, <<z, S("assign")>>, <<w, S("assign")>>,
             <<S("revive"), S("return")>>) :
       x \in {Handles("user", b1, b2), Handles("user", b1, b3)},
       y \in {S("revive"), S("work"), Body("call", b1)},
       z \in {S("perform"), S("bind"), S("qualified")},
       w \in {S("resume"), S("perform"), S("throw")}}

AllPrograms == Calling \union Looping \union Performing \union Moving \union Sharing \union Keeping
=============================================================================
