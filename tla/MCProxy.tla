------------------------------ MODULE MCProxy ------------------------------
(***************************************************************************)
(* Proxy with the aliases a, b and c, of which a falls back to b and b to  *)
(* c, a model of the hub; edits of b close the cycle.  Server 1 is         *)
(* OpenRouter, server 2 a Grok subscription; 3 is the id server 2 gets if  *)
(* a renewed token inserts it again.                                       *)
(***************************************************************************)
EXTENDS Proxy, TLC

Row(name, policy, fb) ==
  [exists |-> TRUE, on |-> TRUE, hub |-> FALSE, upstream |-> name,
   policy |-> policy, fallback |-> fb]
Form(r, ls) == [row |-> r, links |-> ls]

MCKind   == [b \in Backends |-> IF b = 1 THEN "openrouter" ELSE "grok"]
MCServes == [b \in Backends |-> {"b"}]
MCTwin   == [b \in Backends |-> IF b = 1 THEN 1 ELSE 3]
MCModel  == [r \in Requests |-> IF r = "r1" THEN "a" ELSE "b"]
MCAllowed == [r \in Requests |-> IF r = "r1" THEN {"a", "b"} ELSE {"b", "c"}]
MCAttached == {<<"alias", "a", "pre">>, <<"model", "b", "post">>}
MCInitModels == "a" :> Row("a", "round_robin", "b")
             @@ "b" :> Row("b", "least_conn", "c")
             @@ "c" :> [Row("c", "failover", NoAlias) EXCEPT !.hub = TRUE]
MCInitLinks == "a" :> {1} @@ "b" :> {1, 2} @@ "c" :> {}

\* Pairs of handlers that between them take every path.
Mix(e, f) == "r1" :> e @@ "r2" :> f
MCMixes  == {Mix("chat", "image"), Mix("video", "single"),
             Mix("step", "single"), Mix("admin", "single"), Mix("poll", "single")}
MCSaves  == [x \in Aliases |->
               IF x = "b" THEN {Form(Row("b", "least_conn", "a"), {2})} ELSE {}]
=============================================================================
