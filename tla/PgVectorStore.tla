---------------------------- MODULE PgVectorStore ----------------------------
(***************************************************************************)
(* The store in PostgreSQL (pgvector_store.go), which several instances of *)
(* the agent share: each opens a store of its own, creates what is         *)
(* missing, imports and deletes, and closes it.  An import is one          *)
(* transaction: it inserts or updates its chunks in order and then deletes *)
(* what else its parents have; a deletion is one statement.                *)
(*                                                                         *)
(* PostgreSQL is modelled as the code relies on it, at its default         *)
(* isolation READ COMMITTED: a statement sees what was committed when it   *)
(* began and the writes of its own transaction, waits for a row another    *)
(* transaction has written, and then looks at that row again; of a cycle   *)
(* of waiting transactions one is aborted.                                 *)
(***************************************************************************)
EXTENDS VectorStore, Functions, Sequences

CONSTANTS
  Clients,   \* instances of the agent, one store each
  Listing,   \* the parents in the order in which imports list them
  Counts,    \* the numbers of chunks each parent may have
  Sources,   \* connection sources in use
  MaxOps,    \* bound: imports and deletions begun
  MaxFaults  \* bound: failed calls of the database

ASSUME PgAssumption ==
  /\ Range(Listing) = Parents /\ IsInjective(Listing) /\ DOMAIN PathOf = Parents
  /\ Counts \in [Parents -> SUBSET (Nat \ {0})]
  /\ Sources \subseteq {"pool", "client", "config", "conn"}
  /\ MaxOps \in Nat /\ MaxFaults \in Nat

VARIABLES
  catalog,  \* the extension, the table and the indexes that exist
  store,    \* the store of each client: its source and its state
  pools,    \* the connection pool of each client
  work,     \* the statement or transaction of each client
  own,      \* its writes that are not committed, which lock their rows
  ops,      \* imports and deletions begun
  faults,   \* failed calls
  emptied   \* observer: paths a deletion has emptied and no import has been
            \* under way for since it began

pgVars == <<table, catalog, store, pools, work, own, ops, faults, emptied>>
idle == <<work, own, ops, emptied>>

Objects == <<"extension", "table", "indexes">>
Gone == [import |-> 0, of |-> 0, expires |-> 0]
Empty == [k \in {} |-> Gone]
NoWork == [op |-> "none", todo |-> {}, stale |-> {}, targets |-> {}, paths |-> {}, alone |-> FALSE]

PgInit ==
  /\ table = Empty /\ catalog = {}
  /\ store = [c \in Clients |-> [source |-> "none", state |-> "none", next |-> 1, missing |-> FALSE]]
  /\ pools = [c \in Clients |-> "none"]
  /\ work = [c \in Clients |-> NoWork] /\ own = [c \in Clients |-> Empty]
  /\ ops = 0 /\ faults = 0 /\ emptied = {}

Spend(failed) == faults' = IF failed THEN faults + 1 ELSE faults
-----------------------------------------------------------------------------
(* NewPGVectorStore: the caller gives an open pool or client, or the store *)
(* opens one, from a pgorm configuration or a connection string.  The      *)
(* instances are configured alike.                                         *)
Open(c, source) ==
  /\ store[c].state = "none"
  /\ \A d \in Clients : store[d].source \in {"none", source}
  /\ store' = [store EXCEPT ![c] = [@ EXCEPT !.source = source, !.state = "init"]]
  /\ pools' = [pools EXCEPT ![c] = "open"]
  /\ UNCHANGED <<table, catalog, idle, faults>>

(* Mutant: a failed New closes the pool whoever opened it. *)
DisposeAlways(c) == pools' = [pools EXCEPT ![c] = "closed"]

(* A failed New closes the pool it opened from a connection string.  The   *)
(* client it opened from a pgorm configuration stays open.                 *)
Dispose(c) == pools' = IF store[c].source = "conn" THEN [pools EXCEPT ![c] = "closed"] ELSE pools

(* init: CREATE ... IF NOT EXISTS looks whether the object exists... *)
Look(c) ==
  /\ store[c].state = "init" /\ store[c].next <= Len(Objects)
  /\ store' = [store EXCEPT ![c].state = "create", ![c].missing = (Objects[store[c].next] \notin catalog)]
  /\ UNCHANGED <<table, catalog, pools, idle, faults>>

(* isDuplicateExtensionRace. *)
tolerated(object) == object = "extension"

(* ...and creates it, unless another instance has created it meanwhile,    *)
(* which is an error that only the extension forgives, or the call fails.  *)
Create(c, ok) ==
  /\ store[c].state = "create"
  /\ ok \/ faults < MaxFaults
  /\ LET object == Objects[store[c].next]
         duplicate == store[c].missing /\ object \in catalog
     IN  IF ok /\ (duplicate => tolerated(object))
         THEN /\ catalog' = catalog \cup {object}
              /\ store' = [store EXCEPT ![c].state = "init", ![c].next = @ + 1]
              /\ UNCHANGED pools
         ELSE /\ store' = [store EXCEPT ![c].state = "failed"]
              /\ Dispose(c)
              /\ UNCHANGED catalog
  /\ Spend(~ok)
  /\ UNCHANGED <<table, idle>>

Ready(c) ==
  /\ store[c].state = "init" /\ store[c].next > Len(Objects)
  /\ store' = [store EXCEPT ![c].state = "open"]
  /\ UNCHANGED <<table, catalog, pools, idle, faults>>

(* Close: a client opened from a configuration and a pool of its own are   *)
(* closed, what the caller gave is left open.                              *)
Close(c) ==
  /\ store[c].state = "open" /\ work[c].op = "none"
  /\ store' = [store EXCEPT ![c].state = "closed"]
  /\ pools' = IF store[c].source \in {"config", "conn"} THEN [pools EXCEPT ![c] = "closed"] ELSE pools
  /\ UNCHANGED <<table, catalog, idle, faults>>
-----------------------------------------------------------------------------
(* The transactions that have written chunk k. *)
Holders(k) == {d \in Clients : k \in DOMAIN own[d]}
Free(c, k) == Holders(k) \subseteq {c}

Overlay(rows, writes) ==
  LET all == [k \in DOMAIN rows \cup DOMAIN writes |-> IF k \in DOMAIN writes THEN writes[k] ELSE rows[k]]
  IN  Restrict(all, {k \in DOMAIN all : all[k] # Gone})

Write(c, k, row) == own' = [own EXCEPT ![c] = [j \in DOMAIN @ \cup {k} |-> IF j = k THEN row ELSE @[j]]]

Finish(c) == work' = [work EXCEPT ![c] = NoWork] /\ own' = [own EXCEPT ![c] = Empty]

(* The chunks of an import: each parent cut into the given number of them. *)
Chunked(ps, sizes, expires) ==
  UNION {{[chunk |-> <<p, i>>, row |-> [import |-> ops + 1, of |-> sizes[p], expires |-> expires]] :
            i \in 1..sizes[p]} : p \in ps}

(* The order of the batches: the parents as they are listed. *)
Before(k, l) ==
  \/ ParentOf(k) = ParentOf(l) /\ k[2] < l[2]
  \/ \E i, j \in DOMAIN Listing : i < j /\ Listing[i] = ParentOf(k) /\ Listing[j] = ParentOf(l)

Upcoming(c) == {e \in work[c].todo : \A f \in work[c].todo \ {e} : Before(e.chunk, f.chunk)}

BeginUpsert(c, ps, sizes, expires) ==
  /\ store[c].state = "open" /\ work[c].op = "none" /\ ops < MaxOps
  /\ ops' = ops + 1
  /\ LET paths == {PathOf[p] : p \in ps} IN
       /\ work' = [d \in Clients |->
            IF d = c THEN [NoWork EXCEPT !.op = "upsert", !.stale = ps, !.paths = paths,
                                         !.todo = Chunked(ps, sizes, expires)]
            ELSE [work[d] EXCEPT !.alone = @ /\ work[d].paths \cap paths = {}]]
       /\ emptied' = emptied \ paths
  /\ UNCHANGED <<table, catalog, store, pools, own, faults>>

(* INSERT ... ON CONFLICT (chunk_id) DO UPDATE of the next chunk. *)
Insert(c) ==
  /\ work[c].op = "upsert"
  /\ \E e \in Upcoming(c) :
       /\ Free(c, e.chunk)
       /\ Write(c, e.chunk, e.row)
       /\ work' = [work EXCEPT ![c].todo = @ \ {e}]
  /\ UNCHANGED <<table, catalog, store, pools, ops, faults, emptied>>

(* Mutant: the rows an import no longer contains are not deleted. *)
StaleNever(c, p) == {}

(* The rows DELETE ... WHERE parent_id = p AND NOT chunk_id = ANY(ids)     *)
(* finds: the committed ones of p that this transaction has not written.   *)
StaleRows(c, p) == RowsOf(table, p) \ DOMAIN own[c]

(* The parents come in the order of a map, which is any order. *)
DeleteStale(c, p) ==
  /\ work[c].op = "upsert" /\ work[c].todo = {} /\ work[c].targets = {}
  /\ p \in work[c].stale
  /\ work' = [work EXCEPT ![c].stale = @ \ {p}, ![c].targets = StaleRows(c, p)]
  /\ UNCHANGED <<table, catalog, store, pools, own, ops, faults, emptied>>

(* Mutant: only the rows of one parent of the path are found. *)
RowsAtFirst(path) ==
  LET found == {k \in DOMAIN table : PathOf[ParentOf(k)] = path}
  IN  {k \in found : ParentOf(k) = ParentOf(CHOOSE l \in found : TRUE)}

RowsAt(path) == {k \in DOMAIN table : PathOf[ParentOf(k)] = path}

(* DeleteBySourcePaths of one path: one statement, a transaction of its own.*)
BeginDelete(c, path) ==
  /\ store[c].state = "open" /\ work[c].op = "none" /\ ops < MaxOps
  /\ ops' = ops + 1
  /\ work' = [work EXCEPT ![c] = [NoWork EXCEPT
       !.op = "delete", !.paths = {path}, !.targets = RowsAt(path),
       !.alone = \A d \in Clients : work[d].op = "upsert" => path \notin work[d].paths]]
  /\ UNCHANGED <<table, catalog, store, pools, own, faults, emptied>>

(* A DELETE takes its rows in the order of the heap, which is any order;   *)
(* a row that is gone when its lock is had is passed over.                 *)
DeleteRow(c, k) ==
  /\ k \in work[c].targets /\ Free(c, k)
  /\ work' = [work EXCEPT ![c].targets = @ \ {k}]
  /\ IF k \in DOMAIN table THEN Write(c, k, Gone) ELSE UNCHANGED own
  /\ UNCHANGED <<table, catalog, store, pools, ops, faults, emptied>>

Done(c) ==
  /\ work[c].op # "none"
  /\ work[c].todo = {} /\ work[c].stale = {} /\ work[c].targets = {}

(* The commit; of one that fails it is not known whether it took effect. *)
Commit(c, applied, told) ==
  /\ Done(c)
  /\ told => applied
  /\ told \/ faults < MaxFaults
  /\ Spend(~told)
  /\ table' = IF applied THEN Overlay(table, own[c]) ELSE table
  /\ emptied' = IF told /\ work[c].alone THEN emptied \cup work[c].paths ELSE emptied
  /\ Finish(c)
  /\ UNCHANGED <<catalog, store, pools, ops>>

(* A statement fails or the context ends, and the transaction is rolled    *)
(* back.                                                                   *)
Rollback(c) ==
  /\ work[c].op # "none"
  /\ Finish(c)
  /\ UNCHANGED <<table, catalog, store, pools, ops, emptied>>

Abandon(c) == faults < MaxFaults /\ Spend(TRUE) /\ Rollback(c)

Wanted(c) == work[c].targets \cup {e.chunk : e \in Upcoming(c)}
Waiting(c) == Wanted(c) # {} /\ \A k \in Wanted(c) : ~Free(c, k)
WaitsFor(c) == UNION {Holders(k) \ {c} : k \in Wanted(c)}

(* PostgreSQL aborts a transaction of a cycle. *)
Deadlocked(c) ==
  \E cycle \in SUBSET Clients :
    c \in cycle /\ \A d \in cycle : Waiting(d) /\ WaitsFor(d) \cap cycle # {}
DeadlockVictim(c) == Deadlocked(c) /\ Rollback(c) /\ UNCHANGED faults

PgStep(c) ==
  \/ Look(c) \/ Ready(c) \/ Insert(c) \/ DeadlockVictim(c)
  \/ \E p \in Parents : DeleteStale(c, p)
  \/ \E k \in work[c].targets : DeleteRow(c, k)
  \/ \E ok \in BOOLEAN : Create(c, ok)
  \/ \E applied, told \in BOOLEAN : Commit(c, applied, told)

Sizes == {sizes \in [Parents -> UNION Range(Counts)] : \A p \in Parents : sizes[p] \in Counts[p]}

PgCall(c) ==
  \/ \E source \in Sources : Open(c, source)
  \/ \E path \in Range(PathOf) : BeginDelete(c, path)
  \/ Close(c) \/ Abandon(c)
-----------------------------------------------------------------------------
(* Imports and deletions of several instances, however their statements    *)
(* interleave, fail, deadlock or are rolled back, act on the table as the  *)
(* store promises: each import replaces the chunks of its parents at once, *)
(* so that no search sees chunks of two versions of a document.            *)
StoreKeepsPromise == VSSpec

(* Once a deletion has returned, nothing of its path comes back by itself: *)
(* the path is empty until the next import of it, if none was under way    *)
(* meanwhile.  Long-term memory clears its sessions by this.               *)
DeletedForGood == \A k \in DOMAIN table : PathOf[ParentOf(k)] \notin emptied

(* A store that is open has a pool that is open, and its table; a pool     *)
(* the caller opened is never closed; and one the store opened is closed   *)
(* with it or with a New that fails (but the pgorm client of a failed New).*)
PoolsAccounted ==
  \A c \in Clients :
    /\ store[c].state = "open" => pools[c] = "open" /\ "table" \in catalog
    /\ store[c].source \in {"pool", "client"} => pools[c] # "closed"
    /\ store[c].source = "conn" /\ store[c].state \in {"failed", "closed"} => pools[c] = "closed"
    /\ store[c].source = "config" /\ store[c].state = "closed" => pools[c] = "closed"
==============================================================================
