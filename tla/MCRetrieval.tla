----------------------------- MODULE MCRetrieval -----------------------------
(* Model-checking instance of Retrieval: three chunks, of which the second *)
(* does not fit the evidence and the third is outside the filter.          *)
EXTENDS Retrieval

McSimilarities == {-1, 0, 1}
McTextLength == <<2, 9, 4>>
McBudget == [prompt |-> 12, history |-> 4, evidence |-> 6, memory |-> 3, summary |-> 1,
             base |-> 2, label |-> 1, hardening |-> 1]
==============================================================================
