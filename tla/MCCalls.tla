------------------------------ MODULE MCCalls ------------------------------
EXTENDS Calls

Edge(o, n) == [x \in {o} |-> n]
N(type, team, edges) == [type |-> type, team |-> team, edges |-> edges]
NoEdges == [x \in {} |-> "bye"]

MCNodes == {"hi", "hours", "ask", "post", "menu", "vip", "team", "any", "jump", "bye"}

\* every node type once; one transfer that returns and one that does not
MCGraph ==
  [n \in MCNodes |->
    CASE n = "hi" -> N("greeting", FALSE, Edge("default", "hours"))
      [] n = "hours" -> N("timing", FALSE, Edge("in_hours", "ask"))
      [] n = "ask" -> N("gather", FALSE, Edge("default", "post"))
      [] n = "post" -> N("http_callback", FALSE, Edge("http:2xx", "menu"))
      [] n = "menu" -> N("menu", FALSE, [o \in {"digit", "max_retries"} |->
                                           IF o = "digit" THEN "vip" ELSE "jump"])
      [] n = "vip" -> N("crm_condition", FALSE, [o \in {"match", "no_match"} |->
                                           IF o = "match" THEN "team" ELSE "any"])
      [] n = "team" -> N("transfer", TRUE, Edge("no_answer", "bye"))
      [] n = "any" -> N("transfer", FALSE, NoEdges)
      [] n = "jump" -> N("goto_flow", FALSE, NoEdges)
      [] n = "bye" -> N("hangup", FALSE, NoEdges)]
============================================================================
