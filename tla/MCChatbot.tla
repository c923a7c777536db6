----------------------------- MODULE MCChatbot -----------------------------
(* f1 has legacy steps that the start-up converts, f2 is not created yet;  *)
(* graph A has a cycle, graph B a skip condition.                          *)
EXTENDS Chatbot

N(kind, to, skip) == [kind |-> kind, to |-> to, skip |-> skip]
E(from, cond, to) == [from |-> from, cond |-> cond, to |-> to]

Step(name, type, captures, next, branch, buttons, to) ==
  [name |-> name, type |-> type, captures |-> captures, next |-> next,
   branch |-> branch, buttons |-> buttons, flow |-> to]
NoBranch == [x \in {} |-> ""]

MCLegacySteps ==
  [f \in Flows |->
    IF f = "f1"
    THEN << Step("hello", "text", FALSE, "", NoBranch, {}, None),
            Step("ask", "text", TRUE, "", NoBranch, {}, None),
            Step("pick", "buttons", FALSE, "", [b \in {"yes"} |-> "human"], {"yes", "no"}, None),
            Step("known", "condition", FALSE, "",
                 [b \in {"true", "false"} |-> IF b = "true" THEN "fetch" ELSE "jump"], {}, None),
            Step("fetch", "api_fetch", FALSE, "nowhere", NoBranch, {}, None),
            Step("jump", "goto_flow", FALSE, "", NoBranch, {}, "f2"),
            Step("human", "transfer", FALSE, "", NoBranch, {}, None) >>
    ELSE <<>>]

GraphA ==
  [entry |-> "s",
   node |-> [n \in {"s", "cond", "form", "loop"} |->
     CASE n = "s" -> N("start", None, FALSE) [] n = "cond" -> N("crm_condition", None, FALSE)
       [] n = "form" -> N("whatsapp_flow", None, FALSE)
       [] n = "loop" -> N("webhook", None, FALSE)],
   edges |-> {E("s", "default", "cond"), E("cond", "true", "form"), E("cond", "false", "loop"),
              E("loop", "default", "loop")}]

GraphB ==
  [entry |-> "s",
   node |-> [n \in {"s", "api", "crm", "time", "q", "c", "set", "odd", "bye"} |->
     CASE n = "s" -> N("start", None, FALSE) [] n = "api" -> N("api_call", None, TRUE)
       [] n = "crm" -> N("crm_action", None, FALSE) [] n = "time" -> N("timing", None, FALSE)
       [] n = "q" -> N("ai_response", None, FALSE) [] n = "c" -> N("condition", None, FALSE)
       [] n = "set" -> N("set_variable", None, FALSE) [] n = "odd" -> N("carousel", None, FALSE)
       [] n = "bye" -> N("end", None, FALSE)],
   edges |-> {E("s", "default", "api"), E("api", "http:2xx", "crm"), E("api", "default", "time"),
              E("crm", "error", "bye"), E("crm", "default", "c"), E("c", "true", "set"),
              E("c", "false", "odd"), E("time", "in_hours", "q"), E("time", "default", "bye")}]

MCGraphs == [g \in {"A", "B"} |-> IF g = "A" THEN GraphA ELSE GraphB]
MCInitialGraph == [f \in Flows |-> None]
S(enabled, hours, outside, ai) == [enabled |-> enabled, hours |-> hours, outside |-> outside, ai |-> ai]
MCInitialSettings == S(TRUE, TRUE, FALSE, TRUE)
MCSettings == {MCInitialSettings, S(FALSE, TRUE, TRUE, FALSE)}
=============================================================================
