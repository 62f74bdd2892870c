--------------------------- MODULE LongTermMemory ---------------------------
(***************************************************************************)
(* Long-term memory (long_term_memory.go, memory_provider.go and their use *)
(* in agent.go): turns are memorized under a scope with a time to live and *)
(* recalled by session and scope, kept in the process or, as parents of    *)
(* one chunk each whose source path is the session, in a vector store that *)
(* several instances share (module PgVectorStore).  The same store takes   *)
(* documents.                                                              *)
(*                                                                         *)
(* A memory is what buildLongTermMemoryID tells apart: session, scope and  *)
(* the compressed turn.  Similarity is a choice: any TopK candidates may   *)
(* be the closest, and any of them may be below the threshold.             *)
(***************************************************************************)
EXTENDS PgVectorStore

CONSTANTS
  Memories,   \* the parents that are memories
  ScopeOf,    \* the scope each was stored under: user and tenant
  Scopes,     \* scopes of requests
  Namespace,  \* AccessBoundary.Namespace, the default tenant
  TopK,       \* LongTermMemoryTopK
  TTL,        \* LongTermMemoryTTL; 0 means no expiry
  MaxTime     \* bound: the clock

(* A memory is one chunk, and no document lies under the prefix of the     *)
(* source paths of memories.                                               *)
ASSUME MemoryAssumption ==
  /\ Memories \subseteq Parents /\ DOMAIN ScopeOf = Memories
  /\ \A m \in Memories : Counts[m] = {1}
  /\ \A p \in Parents \ Memories, m \in Memories : PathOf[p] # PathOf[m]
  /\ \A scope \in Scopes : DOMAIN scope = {"user", "tenant"}
  /\ TopK \in Nat /\ TTL \in Nat /\ MaxTime \in Nat

VARIABLES
  backend,  \* in the process, or in the vector store
  records,  \* inMemoryLongTermMemoryStore.records: the expiry by memory
  now       \* the clock

memVars == <<pgVars, backend, records, now>>
Nothing == [k \in {} |-> 0]

SessionPaths == {PathOf[m] : m \in Memories}

LInit ==
  /\ PgInit
  /\ backend \in {"process", "vector"} /\ records = Nothing /\ now = 1

(* MemoryScope.normalized: the tenant defaults to the namespace. *)
normalized(scope) == IF scope.tenant = "" THEN [scope EXCEPT !.tenant = Namespace] ELSE scope

isExpired(expires) == expires # 0 /\ expires <= now

expiresAt == IF TTL = 0 THEN 0 ELSE now + TTL

(* storeLongTermMemory and Memorize: a turn memorized again keeps its ID,  *)
(* and its record is replaced.                                             *)
MemorizeInProcess(m) ==
  /\ backend = "process" /\ ops < MaxOps /\ ops' = ops + 1
  /\ records' = [k \in DOMAIN records \cup {m} |-> IF k = m THEN expiresAt ELSE records[k]]
  /\ UNCHANGED <<table, catalog, store, pools, work, own, faults, emptied, backend, now>>

MemorizeInStore(c, m) ==
  /\ backend = "vector"
  /\ \E sizes \in Sizes : BeginUpsert(c, {m}, sizes, expiresAt)
  /\ UNCHANGED <<backend, records, now>>

ImportDocuments(c, ps) ==
  /\ backend = "vector"
  /\ \E sizes \in Sizes : BeginUpsert(c, ps, sizes, 0)
  /\ UNCHANGED <<backend, records, now>>

(* Mutant: only the user of a scope is compared. *)
InScopeOfUser(m, scope) == ScopeOf[m].user = scope.user

(* filterLongTermMemoryHits: user and tenant agree, and an empty one only  *)
(* with an empty one.                                                      *)
InScope(m, scope) == ScopeOf[m] = scope

(* What Search may return: in the process expired records are left out     *)
(* before the closest TopK are taken, in the store after.                  *)
Searched(path) ==
  IF backend = "process" THEN {m \in DOMAIN records : PathOf[m] = path /\ ~isExpired(records[m])}
  ELSE {ParentOf(k) : k \in {j \in DOMAIN table : PathOf[ParentOf(j)] = path}}

Expiry(m) == IF backend = "process" THEN records[m] ELSE table[<<m, 1>>].expires

(* retrieveLongTermMemory and Retrieve, which change nothing: what they    *)
(* may find.                                                               *)
Recalls(path, scope) ==
  {{m \in hits : ~isExpired(Expiry(m)) /\ InScope(m, normalized(scope))} :
     hits \in {hs \in SUBSET Searched(path) : Cardinality(hs) <= TopK}}

(* ClearSession of the store in the process; of the other it is            *)
(* DeleteBySourcePaths of the path of the session.                         *)
ClearInProcess(path) ==
  /\ backend = "process" /\ ops < MaxOps /\ ops' = ops + 1
  /\ records' = Restrict(records, {m \in DOMAIN records : PathOf[m] # path})
  /\ UNCHANGED <<table, catalog, store, pools, work, own, faults, emptied, backend, now>>

(* Maintain prunes what has expired, in the process only. *)
PruneExpired ==
  /\ backend = "process"
  /\ \E m \in DOMAIN records : isExpired(records[m])
  /\ records' = Restrict(records, {m \in DOMAIN records : ~isExpired(records[m])})
  /\ UNCHANGED <<pgVars, backend, now>>

(* The clock, of no consequence while nothing can expire. *)
MTick ==
  /\ now < MaxTime
  /\ DOMAIN records # {} \/ \E m \in Memories : RowsOf(table, m) # {} \/ \E c \in Clients : m \in work[c].stale
  /\ now' = now + 1
  /\ UNCHANGED <<pgVars, backend, records>>

MStep(c) == backend = "vector" /\ PgStep(c) /\ UNCHANGED <<backend, records, now>>
MCall(c) == backend = "vector" /\ PgCall(c) /\ UNCHANGED <<backend, records, now>>

LNext ==
  \/ \E c \in Clients : MStep(c) \/ MCall(c)
  \/ \E c \in Clients, m \in Memories : MemorizeInStore(c, m)
  \/ \E c \in Clients, ps \in (SUBSET (Parents \ Memories)) \ {{}} : ImportDocuments(c, ps)
  \/ \E m \in Memories : MemorizeInProcess(m)
  \/ \E path \in SessionPaths : ClearInProcess(path)
  \/ PruneExpired \/ MTick

LSpec == LInit /\ [][LNext]_memVars
-----------------------------------------------------------------------------
(* What is recalled belongs to the session and to the scope that asked, a  *)
(* tenant left open being the namespace, and had time left to live,        *)
(* whichever store kept it, however often it was memorized.                *)
RecallSound ==
  \A path \in SessionPaths, scope \in Scopes : \A found \in Recalls(path, scope) : \A m \in found :
    /\ m \in Memories /\ PathOf[m] = path
    /\ ScopeOf[m].user = scope.user
    /\ ScopeOf[m].tenant = IF scope.tenant = "" THEN Namespace ELSE scope.tenant
    /\ TTL # 0 => Expiry(m) - now \in 1..TTL
=============================================================================
