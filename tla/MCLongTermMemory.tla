--------------------------- MODULE MCLongTermMemory ---------------------------
(* Model-checking instance of LongTermMemory: a document of one or two     *)
(* chunks and memories of two tenants in one session.                      *)
EXTENDS LongTermMemory, TLC

McParents == {"d", "m", "n"}
McListing == <<"d", "m", "n">>
McPathOf == "d" :> "docs" @@ "m" :> "session" @@ "n" :> "session"
McCounts == "d" :> {1, 2} @@ "m" :> {1} @@ "n" :> {1}
McMemories == {"m", "n"}
McScopeOf == "m" :> [user |-> "u", tenant |-> "a"] @@ "n" :> [user |-> "u", tenant |-> "b"]
McScopes == {[user |-> "u", tenant |-> t] : t \in {"", "b"}}
Symmetric == Permutations(Clients)
===============================================================================
