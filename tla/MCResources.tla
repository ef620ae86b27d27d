----------------------------- MODULE MCResources -----------------------------
(***************************************************************************)
(* Instances of Resources: three tasks on two worker threads, handles in    *)
(* two shards, and programs for the TCP table and for the tensor store.     *)
(***************************************************************************)
EXTENDS Resources

CONSTANTS t1, t2, t3

TwoShards == [h \in Handles |-> h % 2]

Stmt(o) == [op |-> o, form |-> "stmt"]
Prim(o) == [op |-> o, form |-> "prim"]
Expr(o) == [op |-> o, form |-> "expr"]

Assign(x, y, z) == [t \in Tasks |-> CASE t = t1 -> x [] t = t2 -> y [] OTHER -> z]

\* A server and two clients; tasks that share a stream; tasks of which one
\* fails; a task without the privilege; and tensors that are shared.
AllPrograms ==
    {Assign(<<Stmt("listen"), Stmt("accept"), Expr("receive")>>,
            <<Stmt("connect"), Stmt("close")>>, <<Expr("connect"), Prim("send")>>),
     Assign(<<Prim("connect"), Stmt("send")>>,
            <<Stmt("receive"), Expr("close")>>, <<Expr("receive"), Prim("close")>>),
     Assign(<<Prim("listen"), Prim("accept")>>,
            <<Stmt("connect"), Prim("receive")>>, <<Stmt("connect"), Prim("connect"), Stmt("close")>>),
     Assign(<<Stmt("tensor"), Stmt("mul"), Expr("relu")>>,
            <<Stmt("add"), Stmt("matmul")>>, <<>>),
     Assign(<<Stmt("tensor"), Stmt("tensor"), Stmt("mul")>>, <<Expr("add")>>, <<Stmt("relu")>>)}
=============================================================================
