----------------------------- MODULE MCSession -----------------------------
(***************************************************************************)
(* Instances of Session: a REPL, and packets and requests on its memory.    *)
(***************************************************************************)
EXTENDS Session

CONSTANTS k1, k2

Put(k, v) == [op |-> "set", key |-> k, val |-> v]
Do(o) == [op |-> o]
Cmd(r, f, b) == [route |-> r, flaw |-> f, body |-> b]
Stored(n) == [route |-> "function", flaw |-> "none", body |-> <<>>, name |-> n]

MCFunctions == [n \in {"run", "admin"} |-> IF n = "run" THEN Cmd("script", "none", <<Put(k1, 2), Do("fail")>>)
                                          ELSE Cmd("guarded", "none", <<>>)]

MCCommands == {Cmd("code", "none", <<Put(k1, 1), Do("enter"), Put(k2, 1), Do("leave")>>),
               Cmd("code", "none", <<Put(k2, 1), Do("enter"), Do("fail"), Do("leave")>>),
               Cmd("code", "analysis", <<Put(k1, 2)>>),
               Cmd("hel", "none", <<>>), Stored("run"), Stored("admin")}
MCPackets == {Cmd("code", "none", <<Put(k1, 2), Do("shell"), Put(k2, 2)>>),
              Cmd("ast", "none", <<Do("enter"), Put(k1, 2), Do("leave")>>), Cmd("ast", "parse", <<>>),
              Cmd("intent", "none", <<Do("value"), Put(k1, 1), Do("file")>>), Cmd("delta", "none", <<>>),
              Cmd("reach", "outside", <<>>), Cmd("shared", "none", <<>>), Cmd("logged", "none", <<>>),
              Cmd("script", "link", <<>>), Stored("admin")}
MCRequests == {[kind |-> k, flaw |-> "none", body |-> <<Do("enter"), Put(k2, 2), Do("http"), Do("leave")>>] :
                 k \in {"plain", "signed", "forged", "garbled"}}
              \union {[kind |-> "headless", flaw |-> "parse", body |-> <<>>]}
=============================================================================
