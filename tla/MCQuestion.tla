----------------------------- MODULE MCQuestion -----------------------------
(* Model-checking instance of Question: a web search and another tool. *)
EXTENDS Question

TwoTools == <<"lookup", "search_web">>
=============================================================================
