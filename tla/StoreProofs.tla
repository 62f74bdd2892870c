---------------------------- MODULE StoreProofs ----------------------------
(***************************************************************************)
(* Proofs about PgVectorStore and LongTermMemory, for any number of        *)
(* instances, parents, chunks and operations: pools are accounted for, the *)
(* store of several instances implements VectorStore, a deletion is for    *)
(* good, and a memory is only recalled where and while it should be.       *)
(***************************************************************************)
EXTENDS LongTermMemory, FiniteSetTheorems, TLAPS

(* The values of the variables of the store. *)
Chunk == Parents \X (Nat \ {0})
Row == [import : Nat, of : Nat, expires : Nat]
Entry == [chunk : Chunk, row : Row]
Rows(t) == DOMAIN t \subseteq Chunk /\ \A k \in DOMAIN t : t[k] \in Row

Work ==
  [op : {"none", "upsert", "delete"}, todo : SUBSET Entry, stale : SUBSET Parents,
   targets : SUBSET Chunk, paths : SUBSET Range(PathOf), alone : BOOLEAN]

WorkTypeOK ==
  /\ Rows(table) /\ \A k \in DOMAIN table : table[k] # Gone
  /\ work \in [Clients -> Work]
  /\ DOMAIN own = Clients /\ \A c \in Clients : Rows(own[c])

(* A row that has been written is locked until the end of its transaction. *)
LocksExclude == \A c, d \in Clients : c # d => DOMAIN own[c] \cap DOMAIN own[d] = {}

(* The row of a chunk of p in import n, and the chunks that are in it. *)
NewRow(sizes, p, n, e) == [import |-> n, of |-> sizes[p], expires |-> e]
IsNew(k, ps, sizes) == ParentOf(k) \in ps /\ k[2] <= sizes[ParentOf(k)]

(* How far the import of ps by c is: what it has still to write or has     *)
(* written are the new chunks, all in one version, and what else it has    *)
(* written are deletions; and once it has looked for what else a parent    *)
(* has, it has deleted that or will.                                       *)
Imports(c, ps, sizes, n, e) ==
  /\ work[c].paths = {PathOf[p] : p \in ps}
  /\ work[c].stale \subseteq ps
  /\ work[c].todo # {} => work[c].stale = ps /\ work[c].targets = {}
  /\ \A x \in work[c].todo : IsNew(x.chunk, ps, sizes) /\ x.row = NewRow(sizes, ParentOf(x.chunk), n, e)
  /\ \A k \in Chunk : IsNew(k, ps, sizes) => k \in DOMAIN own[c] \/ \E x \in work[c].todo : x.chunk = k
  /\ \A k \in DOMAIN own[c] :
       IF IsNew(k, ps, sizes) THEN own[c][k] = NewRow(sizes, ParentOf(k), n, e)
       ELSE ParentOf(k) \in ps /\ own[c][k] = Gone
  /\ \A k \in work[c].targets : ParentOf(k) \in ps /\ k \notin DOMAIN own[c]
  /\ \A p \in ps \ work[c].stale : RowsOf(table, p) \subseteq DOMAIN own[c] \cup work[c].targets

(* A deletion only deletes rows of its path. *)
Deletes(c, path) ==
  /\ work[c].paths = {path} /\ work[c].todo = {} /\ work[c].stale = {}
  /\ \A k \in DOMAIN own[c] : PathOf[ParentOf(k)] = path /\ own[c][k] = Gone
  /\ \A k \in work[c].targets : PathOf[ParentOf(k)] = path

ImportsSome(c) ==
  \E ps \in (SUBSET Parents) \ {{}}, sizes \in Sizes, n, e \in Nat : n > 0 /\ Imports(c, ps, sizes, n, e)
DeletesSome(c) == \E path \in Range(PathOf) : Deletes(c, path)

Job(c) ==
  /\ work[c].op = "none" => DOMAIN own[c] = {} /\ work[c].targets = {}
  /\ work[c].op = "upsert" => ImportsSome(c)
  /\ work[c].op = "delete" => DeletesSome(c)

StoreInv == WorkTypeOK /\ LocksExclude /\ \A c \in Clients : Job(c)

(* No import of an emptied path is under way, and a deletion that was not  *)
(* disturbed has found all rows of its path.                               *)
EmptyStays ==
  /\ DeletedForGood
  /\ \A c \in Clients : work[c].op = "upsert" => work[c].paths \cap emptied = {}
  /\ \A c \in Clients : work[c].alone =>
       /\ work[c].op = "delete"
       /\ \A d \in Clients : work[d].op = "upsert" => work[d].paths \cap work[c].paths = {}
       /\ \A k \in DOMAIN table : PathOf[ParentOf(k)] \in work[c].paths =>
            k \in DOMAIN own[c] \cup work[c].targets

Lasting(expires) == TTL # 0 => expires \in 1..(now + TTL)

(* A row of a memory is its only chunk, and lives for at most TTL more.    *)
MemoryRow(k, row) == ParentOf(k) \in Memories => k[2] = 1 /\ (row # Gone => Lasting(row.expires))

(* The rows in the table, written and still to be written.                 *)
RowsLast ==
  /\ \A k \in DOMAIN table : MemoryRow(k, table[k])
  /\ \A c \in Clients : \A k \in DOMAIN own[c] : MemoryRow(k, own[c][k])
  /\ \A c \in Clients : \A x \in work[c].todo : MemoryRow(x.chunk, x.row)

MemoriesLast == RowsLast /\ \A m \in DOMAIN records : m \in Memories /\ Lasting(records[m])

States == {"none", "init", "create", "open", "failed", "closed"}

(* An instance that has come by its pool and has not failed or been closed *)
(* has it open, and what it has made sure of exists.                       *)
PoolsKnown ==
  /\ DOMAIN store = Clients /\ DOMAIN pools = Clients
  /\ \A c \in Clients :
       /\ store[c] \in [source : Sources \cup {"none"}, state : States, next : Nat, missing : BOOLEAN]
       /\ store[c].source = "none" <=> store[c].state = "none"
       /\ \A i \in 1..3 : i < store[c].next => Objects[i] \in catalog
       /\ store[c].state \in {"init", "create", "open"} => pools[c] = "open"
       /\ store[c].state = "open" => store[c].next > 3
-----------------------------------------------------------------------------
(* An import, whatever it is given. *)
Import(c) == \E ps \in (SUBSET Parents) \ {{}}, sizes \in Sizes, e \in Nat : BeginUpsert(c, ps, sizes, e)

(* What the store in the process, the clock and the pruning leave alone. *)
StoreAlone == UNCHANGED <<table, catalog, store, pools, work, own, emptied>>

Counters == ops \in Nat /\ now \in Nat

(* Every step of the memory is one of an instance of the store, or leaves  *)
(* the stores alone.                                                       *)
LEMMA StepOfStore ==
  ASSUME Counters, LNext
  PROVE  /\ Counters' /\ now <= now'
         /\ (\E c \in Clients : PgStep(c) \/ PgCall(c) \/ Import(c)) \/ StoreAlone
<1> USE DEF StoreAlone, Counters
<1>a. /\ Memories \subseteq Parents /\ TTL \in Nat /\ now \in Nat /\ ops \in Nat
  BY MemoryAssumption
<1>b. expiresAt \in Nat
  BY <1>a DEF expiresAt
<1>1. ASSUME NEW c \in Clients, MStep(c) \/ MCall(c)
      PROVE  now' = now /\ ops' \in Nat /\ (PgStep(c) \/ PgCall(c))
  <2>1. now' = now /\ (PgStep(c) \/ PgCall(c))
    BY <1>1 DEF MStep, MCall
  <2>2. ops' \in Nat
    <3>1. ASSUME PgStep(c) PROVE ops' = ops
      BY <3>1 DEF PgStep, Look, Create, Ready, Insert, DeadlockVictim, DeleteStale, DeleteRow, Commit,
                  Rollback, idle
    <3>2. ASSUME PgCall(c) PROVE ops' \in {ops, ops + 1}
      BY <3>2 DEF PgCall, Open, Close, BeginDelete, Abandon, Rollback, idle
    <3>3. QED
      BY <2>1, <3>1, <3>2, <1>a
  <2>3. QED
    BY <2>1, <2>2
<1>2. ASSUME NEW c \in Clients, NEW m \in Memories, MemorizeInStore(c, m)
      PROVE  now' = now /\ ops' \in Nat /\ Import(c)
  <2>1. {m} \in (SUBSET Parents) \ {{}}
    BY <1>a
  <2>2. QED
    <3>1. PICK sizes \in Sizes : BeginUpsert(c, {m}, sizes, expiresAt) /\ now' = now
      BY <1>2 DEF MemorizeInStore
    <3>2. Import(c)
      BY <3>1, <1>b, <2>1 DEF Import
    <3>3. ops' = ops + 1
      BY <3>1 DEF BeginUpsert
    <3>4. QED
      BY <3>1, <3>2, <3>3, <1>a
<1>3. ASSUME NEW c \in Clients, NEW ps \in (SUBSET (Parents \ Memories)) \ {{}}, ImportDocuments(c, ps)
      PROVE  now' = now /\ ops' \in Nat /\ Import(c)
  <2>1. ps \in (SUBSET Parents) \ {{}}
    BY <1>a
  <2>2. QED
    <3>1. PICK sizes \in Sizes : BeginUpsert(c, ps, sizes, 0) /\ now' = now
      BY <1>3 DEF ImportDocuments
    <3>2. Import(c)
      BY <3>1, <2>1 DEF Import
    <3>3. ops' = ops + 1
      BY <3>1 DEF BeginUpsert
    <3>4. QED
      BY <3>1, <3>2, <3>3, <1>a
<1>4. ASSUME NEW m \in Memories, MemorizeInProcess(m)
      PROVE  now' = now /\ ops' \in Nat /\ StoreAlone
  BY <1>4, <1>a DEF MemorizeInProcess
<1>5. ASSUME NEW path \in SessionPaths, ClearInProcess(path)
      PROVE  now' = now /\ ops' \in Nat /\ StoreAlone
  BY <1>5, <1>a DEF ClearInProcess
<1>6. CASE PruneExpired
  BY <1>6, <1>a DEF PruneExpired, pgVars
<1>7. CASE MTick
  BY <1>7, <1>a DEF MTick, pgVars
<1>8. QED
  BY <1>1, <1>2, <1>3, <1>4, <1>5, <1>6, <1>7, <1>a DEF LNext
-----------------------------------------------------------------------------
(* Only the creation of an instance, its initialisation and Close touch    *)
(* the pools.                                                              *)
LEMMA PoolsStep ==
  ASSUME NEW c \in Clients, PgStep(c) \/ PgCall(c) \/ Import(c)
  PROVE  \/ \E source \in Sources : Open(c, source)
         \/ Look(c) \/ Ready(c) \/ Close(c)
         \/ \E ok \in BOOLEAN : Create(c, ok)
         \/ UNCHANGED <<catalog, store, pools>>
BY DEF PgStep, PgCall, Import, BeginUpsert, Insert, DeadlockVictim, DeleteStale, DeleteRow, Commit,
       BeginDelete, Abandon, Rollback

PoolsInv == PoolsKnown /\ PoolsAccounted

LEMMA PoolsInvStep ==
  ASSUME PoolsInv, NEW c \in Clients, PgStep(c) \/ PgCall(c) \/ Import(c)
  PROVE  PoolsInv'
<1> DEFINE Instance(d) ==
      /\ store[d] \in [source : Sources \cup {"none"}, state : States, next : Nat, missing : BOOLEAN]
      /\ store[d].source = "none" <=> store[d].state = "none"
      /\ \A i \in 1..3 : i < store[d].next => Objects[i] \in catalog
      /\ store[d].state \in {"init", "create", "open"} => pools[d] = "open"
      /\ store[d].state = "open" => store[d].next > 3
      /\ store[d].source \in {"pool", "client"} => pools[d] # "closed"
      /\ store[d].source = "conn" /\ store[d].state \in {"failed", "closed"} => pools[d] = "closed"
      /\ store[d].source = "config" /\ store[d].state = "closed" => pools[d] = "closed"
<1>a. DOMAIN store = Clients /\ DOMAIN pools = Clients /\ \A d \in Clients : Instance(d)
  BY DEF PoolsInv, PoolsKnown, PoolsAccounted
<1>b. Objects[1] = "extension" /\ Objects[2] = "table" /\ Objects[3] = "indexes" /\ Len(Objects) = 3
  BY DEF Objects
<1>c. SUFFICES (DOMAIN store = Clients /\ DOMAIN pools = Clients /\ \A d \in Clients : Instance(d))'
  <2> SUFFICES ASSUME (DOMAIN store = Clients /\ DOMAIN pools = Clients /\ \A d \in Clients : Instance(d))'
               PROVE  PoolsInv'
    OBVIOUS
  <2>1. PoolsKnown'
    BY DEF PoolsKnown
  <2>2. ASSUME NEW d \in Clients, store'[d].state = "open" PROVE "table" \in catalog'
    BY <2>2, <1>b DEF Objects
  <2>3. PoolsAccounted'
    BY <2>2 DEF PoolsAccounted
  <2>4. QED
    BY <2>1, <2>3 DEF PoolsInv
<1> DEFINE Others == \A d \in Clients \ {c} : store'[d] = store[d] /\ pools'[d] = pools[d]
           Domains == DOMAIN store' = Clients /\ DOMAIN pools' = Clients
<1>d. ASSUME Domains, Others, catalog \subseteq catalog', Instance(c)'
      PROVE  (DOMAIN store = Clients /\ DOMAIN pools = Clients /\ \A d \in Clients : Instance(d))'
  <2>1. ASSUME NEW d \in Clients \ {c} PROVE Instance(d)'
    BY <1>d, <1>a
  <2>2. QED
    BY <1>d, <2>1
<1>1. ASSUME NEW source \in Sources, Open(c, source)
      PROVE  (DOMAIN store = Clients /\ DOMAIN pools = Clients /\ \A d \in Clients : Instance(d))'
  <2>0. source # "none"
    BY PgAssumption
  <2>1. Domains /\ Others /\ catalog' = catalog /\ pools'[c] = "open"
    BY <1>1, <1>a DEF Open
  <2>2. store'[c] = [store[c] EXCEPT !.source = source, !.state = "init"]
    BY <1>1, <1>a DEF Open
  <2>3. Instance(c)
    BY <1>a
  <2>4. Instance(c)'
    BY <2>0, <2>1, <2>2, <2>3 DEF States
  <2>5. QED
    BY <2>1, <2>4, <1>d
<1>2. CASE Look(c)
  <2>1. Domains /\ Others /\ catalog' = catalog /\ pools' = pools
    BY <1>2, <1>a DEF Look
  <2>2. store[c].state = "init"
        /\ \E b \in BOOLEAN : store'[c] = [store[c] EXCEPT !.state = "create", !.missing = b]
    BY <1>2, <1>a DEF Look
  <2>3. Instance(c)
    BY <1>a
  <2>4. Instance(c)'
    BY <2>1, <2>2, <2>3 DEF States
  <2>5. QED
    BY <2>1, <2>4, <1>d
<1>3. CASE Ready(c)
  <2>1. Domains /\ Others /\ catalog' = catalog /\ pools' = pools
    BY <1>3, <1>a DEF Ready
  <2>2. store[c].state = "init" /\ store[c].next > 3 /\ store'[c] = [store[c] EXCEPT !.state = "open"]
    BY <1>3, <1>a, <1>b DEF Ready
  <2>3. Instance(c)
    BY <1>a
  <2>4. Instance(c)'
    BY <2>1, <2>2, <2>3 DEF States
  <2>5. QED
    BY <2>1, <2>4, <1>d
<1>4. CASE Close(c)
  <2>1. Domains /\ Others /\ catalog' = catalog
    BY <1>4, <1>a DEF Close
  <2>2. /\ store[c].state = "open" /\ store'[c] = [store[c] EXCEPT !.state = "closed"]
        /\ pools'[c] = IF store[c].source \in {"config", "conn"} THEN "closed" ELSE pools[c]
    BY <1>4, <1>a DEF Close
  <2>3. Instance(c)
    BY <1>a
  <2>4. Instance(c)'
    BY <2>1, <2>2, <2>3 DEF States
  <2>5. QED
    BY <2>1, <2>4, <1>d
<1>5. ASSUME NEW ok \in BOOLEAN, Create(c, ok)
      PROVE  (DOMAIN store = Clients /\ DOMAIN pools = Clients /\ \A d \in Clients : Instance(d))'
  <2>0. Instance(c) /\ store[c].state = "create"
    BY <1>5, <1>a DEF Create
  <2>1. CASE /\ catalog' = catalog \cup {Objects[store[c].next]}
             /\ store' = [store EXCEPT ![c].state = "init", ![c].next = @ + 1]
             /\ UNCHANGED pools
    <3>1. Domains /\ Others /\ catalog \subseteq catalog'
      BY <2>1, <1>a
    <3>2. /\ store'[c] = [store[c] EXCEPT !.state = "init", !.next = store[c].next + 1]
      BY <2>1, <1>a
    <3>3. \A i \in 1..3 : i < store[c].next + 1 => Objects[i] \in catalog'
      <4>1. store[c].next \in Nat /\ \A i \in 1..3 : i < store[c].next => Objects[i] \in catalog
        BY <2>0
      <4>2. Objects[store[c].next] \in catalog' /\ catalog \subseteq catalog'
        BY <2>1
      <4>3. \A i \in 1..3 : i < store[c].next + 1 => i < store[c].next \/ i = store[c].next
        BY <4>1
      <4>4. QED
        BY <4>1, <4>2, <4>3
    <3>4. Instance(c)'
      <4>1. store'[c].next = store[c].next + 1 /\ store'[c].source = store[c].source /\ store'[c].state = "init"
        BY <2>0, <3>2
      <4>2. store'[c] \in [source : Sources \cup {"none"}, state : States, next : Nat, missing : BOOLEAN]
        <5>1. store[c] \in [source : Sources \cup {"none"}, state : States, next : Nat, missing : BOOLEAN]
          BY <2>0
        <5>2. store'[c] = [source |-> store[c].source, state |-> "init", next |-> store[c].next + 1,
                           missing |-> store[c].missing]
          BY <5>1, <3>2
        <5>3. "init" \in States
          BY DEF States
        <5>4. QED
          BY <5>1, <5>2, <5>3
      <4>3. pools' = pools
        BY <2>1
      <4>4. QED
        BY <2>0, <3>3, <4>1, <4>2, <4>3
    <3>5. QED
      BY <3>1, <3>4, <1>d
  <2>2. CASE /\ store' = [store EXCEPT ![c].state = "failed"]
             /\ Dispose(c)
             /\ UNCHANGED catalog
    <3>1. Domains /\ Others /\ catalog \subseteq catalog'
      BY <2>2, <1>a DEF Dispose
    <3>2. /\ store'[c] = [store[c] EXCEPT !.state = "failed"]
          /\ pools'[c] = IF store[c].source = "conn" THEN "closed" ELSE pools[c]
      BY <2>2, <1>a DEF Dispose
    <3>4. Instance(c)'
      BY <2>0, <2>2, <3>2 DEF States
    <3>5. QED
      BY <3>1, <3>4, <1>d
  <2>3. QED
    BY <1>5, <2>1, <2>2 DEF Create
<1>6. CASE UNCHANGED <<catalog, store, pools>>
  BY <1>6, <1>a
<1>7. QED
  BY <1>1, <1>2, <1>3, <1>4, <1>5, <1>6, PoolsStep

(* A store that is open has an open pool and its table; no pool of the     *)
(* caller is ever closed, and those the store has opened are closed with   *)
(* it (but the client of a New that failed).                               *)
THEOREM PoolsAreAccounted == LSpec => []PoolsAccounted
<1> DEFINE Inv == Counters /\ PoolsInv
<1>1. LInit => Inv
  BY DEF LInit, PgInit, PoolsInv, PoolsKnown, PoolsAccounted, States, Counters
<1>2. Inv /\ [LNext]_memVars => Inv'
  <2> SUFFICES ASSUME Inv, [LNext]_memVars PROVE Inv'
    OBVIOUS
  <2>1. ASSUME NEW c \in Clients, PgStep(c) \/ PgCall(c) \/ Import(c) PROVE PoolsInv'
    BY <2>1, PoolsInvStep
  <2>2. ASSUME UNCHANGED <<store, pools, catalog>> PROVE PoolsInv'
    BY <2>2 DEF PoolsInv, PoolsKnown, PoolsAccounted
  <2>3. CASE LNext
    BY <2>1, <2>2, <2>3, StepOfStore DEF StoreAlone
  <2>4. CASE UNCHANGED memVars
    BY <2>2, <2>4 DEF memVars, pgVars, Counters
  <2>5. QED
    BY <2>3, <2>4
<1>3. QED
  BY <1>1, <1>2, PTL DEF LSpec, PoolsInv
-----------------------------------------------------------------------------
(* Every parent has a first chunk. *)
LEMMA SizesPositive ==
  ASSUME NEW sizes \in Sizes, NEW p \in Parents
  PROVE  sizes[p] \in Nat \ {0}
<1>1. sizes[p] \in Counts[p] /\ Counts[p] \subseteq Nat \ {0}
  BY PgAssumption DEF Sizes
<1>2. QED
  BY <1>1

(* What a committed table is. *)
LEMMA OverlayIs ==
  ASSUME NEW rows, NEW writes, NEW t, t = Overlay(rows, writes)
  PROVE  /\ DOMAIN t \subseteq DOMAIN rows \cup DOMAIN writes
         /\ \A k \in DOMAIN writes : k \in DOMAIN t <=> writes[k] # Gone
         /\ \A k \in DOMAIN rows \ DOMAIN writes : k \in DOMAIN t <=> rows[k] # Gone
         /\ \A k \in DOMAIN t : t[k] # Gone /\ t[k] = IF k \in DOMAIN writes THEN writes[k] ELSE rows[k]
BY DEF Overlay, Restrict

LEMMA NothingTypes == NoWork \in Work /\ DOMAIN Empty = {} /\ Gone \in Row
BY DEF NoWork, Work, Empty, Gone, Row

(* What d does depends on its own statements and writes, and on the rows   *)
(* of parents whose first chunk it has locked.                             *)
Unmoved(d) ==
  /\ own'[d] = own[d]
  /\ work'[d].op = work[d].op /\ work'[d].todo = work[d].todo /\ work'[d].stale = work[d].stale
  /\ work'[d].targets = work[d].targets /\ work'[d].paths = work[d].paths

LEMMA JobKept ==
  ASSUME WorkTypeOK, NEW d \in Clients, Job(d), Unmoved(d),
         \A p \in Parents : <<p, 1>> \in DOMAIN own[d] => RowsOf(table', p) \subseteq RowsOf(table, p)
  PROVE  Job(d)'
<1>1. ASSUME work[d].op = "upsert" PROVE ImportsSome(d)'
  <2>1. PICK ps \in (SUBSET Parents) \ {{}}, sizes \in Sizes, n \in Nat, e \in Nat :
               n > 0 /\ Imports(d, ps, sizes, n, e)
    BY <1>1 DEF Job, ImportsSome
  <2>2. ASSUME NEW p \in ps \ work[d].stale
        PROVE  RowsOf(table', p) \subseteq DOMAIN own[d] \cup work[d].targets
    <3>1. work[d].todo = {}
      BY <2>1 DEF Imports
    <3>2. <<p, 1>> \in Chunk /\ IsNew(<<p, 1>>, ps, sizes)
      BY SizesPositive DEF Chunk, IsNew, ParentOf
    <3>3. <<p, 1>> \in DOMAIN own[d]
      BY <2>1, <3>1, <3>2 DEF Imports
    <3>4. RowsOf(table, p) \subseteq DOMAIN own[d] \cup work[d].targets
      BY <2>1 DEF Imports
    <3>5. QED
      BY <3>3, <3>4
  <2>3. Imports(d, ps, sizes, n, e)'
    BY <2>1, <2>2 DEF Imports, Unmoved
  <2>4. QED
    BY <2>1, <2>3 DEF ImportsSome
<1>2. ASSUME work[d].op = "delete" PROVE DeletesSome(d)'
  BY <1>2 DEF Job, DeletesSome, Deletes, Unmoved
<1>3. QED
  BY <1>1, <1>2 DEF Job, Unmoved

(* A step of c that leaves the table and the others alone preserves the    *)
(* invariant if it does so for c.                                          *)
LEMMA OneMoves ==
  ASSUME StoreInv, NEW c \in Clients, table' = table,
         work' \in [Clients -> Work], DOMAIN own' = Clients,
         \A d \in Clients \ {c} : Unmoved(d),
         Rows(own'[c]), \A d \in Clients \ {c} : DOMAIN own'[c] \cap DOMAIN own[d] = {},
         Job(c)'
  PROVE  StoreInv'
<1>1. \A d \in Clients \ {c} : own'[d] = own[d]
  BY DEF Unmoved
<1>2. \A d \in Clients : Rows(own'[d])
  BY <1>1 DEF StoreInv, WorkTypeOK
<1>3. WorkTypeOK'
  BY <1>2 DEF StoreInv, WorkTypeOK, Rows
<1>4. LocksExclude'
  BY <1>1 DEF StoreInv, LocksExclude
<1>5. \A d \in Clients \ {c} : Job(d)'
  BY JobKept DEF StoreInv
<1>6. QED
  BY <1>3, <1>4, <1>5 DEF StoreInv

(* A row that is written is locked by its writer alone. *)
LEMMA Written ==
  ASSUME StoreInv, NEW c \in Clients, NEW k \in Chunk, NEW row \in Row, Free(c, k), Write(c, k, row)
  PROVE  /\ DOMAIN own' = Clients /\ Rows(own'[c])
         /\ \A d \in Clients \ {c} : own'[d] = own[d] /\ DOMAIN own'[c] \cap DOMAIN own[d] = {}
         /\ DOMAIN own'[c] = DOMAIN own[c] \cup {k} /\ own'[c][k] = row
         /\ \A j \in DOMAIN own[c] \ {k} : own'[c][j] = own[c][j]
<1>1. /\ DOMAIN own = Clients /\ Rows(own[c])
      /\ \A d \in Clients \ {c} : DOMAIN own[c] \cap DOMAIN own[d] = {} /\ k \notin DOMAIN own[d]
  BY DEF StoreInv, WorkTypeOK, LocksExclude, Free, Holders
<1>2. DOMAIN own' = Clients /\ \A d \in Clients \ {c} : own'[d] = own[d]
  BY <1>1 DEF Write
<1>3. own'[c] = [j \in DOMAIN own[c] \cup {k} |-> IF j = k THEN row ELSE own[c][j]]
  BY <1>1 DEF Write
<1>4. QED
  BY <1>1, <1>2, <1>3 DEF Rows
-----------------------------------------------------------------------------
LEMMA InsertStep == ASSUME StoreInv, NEW c \in Clients, Insert(c) PROVE StoreInv'
<1>1. PICK x \in work[c].todo : Free(c, x.chunk) /\ Write(c, x.chunk, x.row)
                                /\ work' = [work EXCEPT ![c].todo = @ \ {x}]
  BY DEF Insert, Upcoming
<1>2. work \in [Clients -> Work] /\ work[c] \in Work /\ work[c].op = "upsert" /\ table' = table
  BY DEF StoreInv, WorkTypeOK, Insert
<1>3. x \in Entry /\ x.chunk \in Chunk /\ x.row \in Row
  BY <1>2 DEF Work, Entry
<1>4. /\ DOMAIN own' = Clients /\ Rows(own'[c])
      /\ \A d \in Clients \ {c} : own'[d] = own[d] /\ DOMAIN own'[c] \cap DOMAIN own[d] = {}
      /\ DOMAIN own'[c] = DOMAIN own[c] \cup {x.chunk} /\ own'[c][x.chunk] = x.row
      /\ \A j \in DOMAIN own[c] \ {x.chunk} : own'[c][j] = own[c][j]
  BY <1>1, <1>3, Written
<1>5. work'[c] = [work[c] EXCEPT !.todo = @ \ {x}] /\ \A d \in Clients \ {c} : work'[d] = work[d]
  BY <1>1, <1>2
<1>6. /\ work'[c].op = "upsert" /\ work'[c].todo = work[c].todo \ {x} /\ work'[c].stale = work[c].stale
      /\ work'[c].targets = work[c].targets /\ work'[c].paths = work[c].paths
  BY <1>2, <1>5 DEF Work
<1>7. work' \in [Clients -> Work]
  <2>1. work'[c] \in Work
    BY <1>2, <1>5 DEF Work
  <2>2. QED
    BY <1>1, <1>2, <1>5, <2>1
<1>8. Job(c)'
  <2>1. PICK ps \in (SUBSET Parents) \ {{}}, sizes \in Sizes, n \in Nat, e \in Nat :
               n > 0 /\ Imports(c, ps, sizes, n, e)
    BY <1>2 DEF StoreInv, Job, ImportsSome
  <2>2. work[c].stale = ps /\ work[c].targets = {} /\ IsNew(x.chunk, ps, sizes)
        /\ x.row = NewRow(sizes, ParentOf(x.chunk), n, e)
    BY <2>1 DEF Imports
  <2>3. \A k \in Chunk : IsNew(k, ps, sizes) => k \in DOMAIN own'[c] \/ \E y \in work'[c].todo : y.chunk = k
    BY <2>1, <1>4, <1>6 DEF Imports
  <2>4. \A k \in DOMAIN own'[c] :
          IF IsNew(k, ps, sizes) THEN own'[c][k] = NewRow(sizes, ParentOf(k), n, e)
          ELSE ParentOf(k) \in ps /\ own'[c][k] = Gone
    <3>1. ASSUME NEW k \in DOMAIN own'[c], k # x.chunk
          PROVE  k \in DOMAIN own[c] /\ own'[c][k] = own[c][k]
      BY <3>1, <1>4
    <3>2. QED
      BY <2>1, <2>2, <3>1, <1>4 DEF Imports
  <2>5. Imports(c, ps, sizes, n, e)'
    BY <2>1, <2>2, <2>3, <2>4, <1>4, <1>6 DEF Imports
  <2>6. QED
    BY <2>1, <2>5, <1>6 DEF Job, ImportsSome
<1>9. \A d \in Clients \ {c} : Unmoved(d)
  BY <1>4, <1>5 DEF Unmoved
<1>10. QED
  BY <1>2, <1>4, <1>7, <1>8, <1>9, OneMoves

LEMMA DeleteStaleStep ==
  ASSUME StoreInv, NEW c \in Clients, NEW p \in Parents, DeleteStale(c, p) PROVE StoreInv'
<1>1. /\ work \in [Clients -> Work] /\ work[c] \in Work /\ work[c].op = "upsert"
      /\ work[c].todo = {} /\ work[c].targets = {} /\ p \in work[c].stale
      /\ table' = table /\ own' = own
      /\ work' = [work EXCEPT ![c].stale = @ \ {p}, ![c].targets = StaleRows(c, p)]
  BY DEF StoreInv, WorkTypeOK, DeleteStale
<1>2. StaleRows(c, p) \subseteq Chunk
  BY DEF StaleRows, RowsOf, StoreInv, WorkTypeOK, Rows
<1>3. work'[c] = [work[c] EXCEPT !.stale = @ \ {p}, !.targets = StaleRows(c, p)]
      /\ \A d \in Clients \ {c} : work'[d] = work[d]
  BY <1>1
<1>4. /\ work'[c].op = "upsert" /\ work'[c].todo = {} /\ work'[c].stale = work[c].stale \ {p}
      /\ work'[c].targets = StaleRows(c, p) /\ work'[c].paths = work[c].paths
      /\ work'[c].alone = work[c].alone
  BY <1>1, <1>3 DEF Work
<1>5. work' \in [Clients -> Work]
  <2>1. work'[c] = [op |-> "upsert", todo |-> {}, stale |-> work[c].stale \ {p}, targets |-> StaleRows(c, p),
                    paths |-> work[c].paths, alone |-> work[c].alone]
    BY <1>1, <1>3 DEF Work
  <2>2. work'[c] \in Work
    BY <1>1, <1>2, <2>1 DEF Work
  <2>3. QED
    BY <1>1, <1>3, <2>2
<1>6. Job(c)'
  <2>1. PICK ps \in (SUBSET Parents) \ {{}}, sizes \in Sizes, n \in Nat, e \in Nat :
               n > 0 /\ Imports(c, ps, sizes, n, e)
    BY <1>1 DEF StoreInv, Job, ImportsSome
  <2>2. \A k \in StaleRows(c, p) : ParentOf(k) = p /\ k \notin DOMAIN own[c]
    BY DEF StaleRows, RowsOf
  <2>3. \A q \in ps \ work'[c].stale : RowsOf(table, q) \subseteq DOMAIN own[c] \cup work'[c].targets
    <3>1. RowsOf(table, p) \subseteq DOMAIN own[c] \cup StaleRows(c, p)
      BY DEF StaleRows
    <3>2. QED
      BY <2>1, <1>1, <1>4, <3>1 DEF Imports
  <2>4. p \in ps
    BY <2>1, <1>1 DEF Imports
  <2>5. Imports(c, ps, sizes, n, e)'
    BY <2>1, <2>2, <2>3, <2>4, <1>1, <1>4 DEF Imports
  <2>6. QED
    BY <2>1, <2>5, <1>4 DEF Job, ImportsSome
<1>7. \A d \in Clients \ {c} : Unmoved(d)
  BY <1>1, <1>3 DEF Unmoved
<1>8. DOMAIN own' = Clients /\ Rows(own'[c]) /\ \A d \in Clients \ {c} : DOMAIN own'[c] \cap DOMAIN own[d] = {}
  BY <1>1 DEF StoreInv, WorkTypeOK, LocksExclude
<1>9. QED
  BY <1>1, <1>5, <1>6, <1>7, <1>8, OneMoves

LEMMA DeleteRowStep ==
  ASSUME StoreInv, NEW c \in Clients, NEW k \in work[c].targets, DeleteRow(c, k) PROVE StoreInv'
<1>1. /\ work \in [Clients -> Work] /\ work[c] \in Work /\ Free(c, k) /\ table' = table
      /\ work' = [work EXCEPT ![c].targets = @ \ {k}]
      /\ IF k \in DOMAIN table THEN Write(c, k, Gone) ELSE own' = own
  BY DEF StoreInv, WorkTypeOK, DeleteRow
<1>2. k \in Chunk
  BY <1>1 DEF Work
<1>3. /\ DOMAIN own' = Clients /\ Rows(own'[c])
      /\ \A d \in Clients \ {c} : own'[d] = own[d] /\ DOMAIN own'[c] \cap DOMAIN own[d] = {}
      /\ DOMAIN own[c] \subseteq DOMAIN own'[c] /\ DOMAIN own'[c] \subseteq DOMAIN own[c] \cup {k}
      /\ k \in DOMAIN table => k \in DOMAIN own'[c] /\ own'[c][k] = Gone
      /\ k \notin DOMAIN table => own'[c] = own[c]
      /\ \A j \in DOMAIN own[c] \ {k} : own'[c][j] = own[c][j]
  <2>1. CASE k \in DOMAIN table
    BY <2>1, <1>1, <1>2, Written, NothingTypes
  <2>2. CASE k \notin DOMAIN table
    BY <2>2, <1>1 DEF StoreInv, WorkTypeOK, LocksExclude
  <2>3. QED
    BY <2>1, <2>2
<1>4. work'[c] = [work[c] EXCEPT !.targets = @ \ {k}] /\ \A d \in Clients \ {c} : work'[d] = work[d]
  BY <1>1
<1>5. /\ work'[c].op = work[c].op /\ work'[c].todo = work[c].todo /\ work'[c].stale = work[c].stale
      /\ work'[c].targets = work[c].targets \ {k} /\ work'[c].paths = work[c].paths
  BY <1>1, <1>4 DEF Work
<1>6. work' \in [Clients -> Work]
  <2>1. work'[c] \in Work
    BY <1>1, <1>4 DEF Work
  <2>2. QED
    BY <1>1, <1>4, <2>1
<1>7. ASSUME work[c].op = "upsert" PROVE ImportsSome(c)'
  <2>1. PICK ps \in (SUBSET Parents) \ {{}}, sizes \in Sizes, n \in Nat, e \in Nat :
               n > 0 /\ Imports(c, ps, sizes, n, e)
    BY <1>7 DEF StoreInv, Job, ImportsSome
  <2>2. work[c].todo = {} /\ ParentOf(k) \in ps /\ k \notin DOMAIN own[c] /\ ~IsNew(k, ps, sizes)
    BY <2>1, <1>2 DEF Imports
  <2>3. \A j \in DOMAIN own'[c] :
          IF IsNew(j, ps, sizes) THEN own'[c][j] = NewRow(sizes, ParentOf(j), n, e)
          ELSE ParentOf(j) \in ps /\ own'[c][j] = Gone
    <3>1. ASSUME NEW j \in DOMAIN own'[c], j # k
          PROVE  j \in DOMAIN own[c] /\ own'[c][j] = own[c][j]
      BY <3>1, <1>3
    <3>2. k \in DOMAIN own'[c] => own'[c][k] = Gone
      BY <2>2, <1>3
    <3>3. \A j \in DOMAIN own[c] :
            IF IsNew(j, ps, sizes) THEN own[c][j] = NewRow(sizes, ParentOf(j), n, e)
            ELSE ParentOf(j) \in ps /\ own[c][j] = Gone
      BY <2>1 DEF Imports
    <3>4. QED
      BY <2>2, <3>1, <3>2, <3>3
  <2>4. \A j \in Chunk : IsNew(j, ps, sizes) => j \in DOMAIN own'[c] \/ \E y \in work'[c].todo : y.chunk = j
    BY <2>1, <1>3, <1>5 DEF Imports
  <2>5. \A j \in work'[c].targets : ParentOf(j) \in ps /\ j \notin DOMAIN own'[c]
    BY <2>1, <1>3, <1>5 DEF Imports
  <2>6. \A p \in ps \ work'[c].stale : RowsOf(table, p) \subseteq DOMAIN own'[c] \cup work'[c].targets
    <3>1. \A p \in ps \ work[c].stale : RowsOf(table, p) \subseteq DOMAIN own[c] \cup work[c].targets
      BY <2>1 DEF Imports
    <3>2. \A p : RowsOf(table, p) \subseteq DOMAIN table
      BY DEF RowsOf
    <3>3. QED
      BY <3>1, <3>2, <1>3, <1>5
  <2>7. Imports(c, ps, sizes, n, e)'
    BY <2>1, <2>2, <2>3, <2>4, <2>5, <2>6, <1>1, <1>5 DEF Imports
  <2>8. QED
    BY <2>1, <2>7 DEF ImportsSome
<1>8. ASSUME work[c].op = "delete" PROVE DeletesSome(c)'
  <2>1. PICK path \in Range(PathOf) : Deletes(c, path)
    BY <1>8 DEF StoreInv, Job, DeletesSome
  <2>2. \A j \in DOMAIN own'[c] : PathOf[ParentOf(j)] = path /\ own'[c][j] = Gone
    <3>1. ASSUME NEW j \in DOMAIN own'[c], j # k
          PROVE  j \in DOMAIN own[c] /\ own'[c][j] = own[c][j]
      BY <3>1, <1>3
    <3>2. k \in DOMAIN own'[c] => own'[c][k] = Gone
      BY <2>1, <1>3 DEF Deletes
    <3>3. PathOf[ParentOf(k)] = path
      BY <2>1 DEF Deletes
    <3>4. QED
      BY <2>1, <3>1, <3>2, <3>3 DEF Deletes
  <2>3. Deletes(c, path)'
    BY <2>1, <2>2, <1>5 DEF Deletes
  <2>4. QED
    BY <2>3 DEF DeletesSome
<1>9. work[c].op # "none"
  BY DEF StoreInv, Job
<1>10. Job(c)'
  BY <1>5, <1>7, <1>8, <1>9 DEF Job
<1>11. \A d \in Clients \ {c} : Unmoved(d)
  BY <1>3, <1>4 DEF Unmoved
<1>12. QED
  BY <1>1, <1>3, <1>6, <1>10, <1>11, OneMoves
-----------------------------------------------------------------------------
(* After the end of a transaction its instance has nothing to do and has   *)
(* locked nothing.                                                         *)
LEMMA Finished ==
  ASSUME StoreInv, NEW c \in Clients, Finish(c)
  PROVE  /\ work' \in [Clients -> Work] /\ DOMAIN own' = Clients
         /\ \A d \in Clients \ {c} : Unmoved(d)
         /\ work'[c] = NoWork /\ DOMAIN own'[c] = {} /\ Rows(own'[c]) /\ Job(c)'
<1>1. work \in [Clients -> Work] /\ DOMAIN own = Clients
  BY DEF StoreInv, WorkTypeOK
<1>2. work' = [work EXCEPT ![c] = NoWork] /\ own' = [own EXCEPT ![c] = Empty]
  BY DEF Finish
<1>3. work'[c] = NoWork /\ own'[c] = Empty /\ \A d \in Clients \ {c} : work'[d] = work[d] /\ own'[d] = own[d]
  BY <1>1, <1>2
<1>4. work' \in [Clients -> Work]
  BY <1>1, <1>2, NothingTypes
<1>5. Rows(own'[c]) /\ DOMAIN own'[c] = {}
  BY <1>3, NothingTypes DEF Rows
<1>6. work'[c].op = "none" /\ work'[c].targets = {}
  BY <1>3 DEF NoWork
<1>7. Job(c)'
  BY <1>5, <1>6 DEF Job
<1>8. QED
  BY <1>1, <1>2, <1>3, <1>4, <1>5, <1>7 DEF Unmoved

LEMMA RollbackStep == ASSUME StoreInv, NEW c \in Clients, Rollback(c) PROVE StoreInv'
BY Finished, OneMoves DEF Rollback

(* An import that is done has written all of its chunks, and deleted       *)
(* everything else its parents had.                                        *)
LEMMA DoneImport ==
  ASSUME StoreInv, NEW c \in Clients, Done(c), work[c].op = "upsert"
  PROVE  \E ps \in (SUBSET Parents) \ {{}}, sizes \in Sizes, n \in Nat, e \in Nat :
           /\ n > 0 /\ work[c].paths = {PathOf[p] : p \in ps}
           /\ \A k \in Chunk : IsNew(k, ps, sizes) => k \in DOMAIN own[c]
           /\ \A k \in DOMAIN own[c] :
                IF IsNew(k, ps, sizes) THEN own[c][k] = NewRow(sizes, ParentOf(k), n, e)
                ELSE ParentOf(k) \in ps /\ own[c][k] = Gone
           /\ \A p \in ps : RowsOf(table, p) \subseteq DOMAIN own[c]
<1>1. PICK ps \in (SUBSET Parents) \ {{}}, sizes \in Sizes, n \in Nat, e \in Nat :
             n > 0 /\ Imports(c, ps, sizes, n, e)
  BY DEF StoreInv, Job, ImportsSome
<1>2. work[c].todo = {} /\ work[c].stale = {} /\ work[c].targets = {}
  BY DEF Done
<1>3. /\ n > 0 /\ work[c].paths = {PathOf[p] : p \in ps}
      /\ \A k \in Chunk : IsNew(k, ps, sizes) => k \in DOMAIN own[c]
      /\ \A k \in DOMAIN own[c] :
           IF IsNew(k, ps, sizes) THEN own[c][k] = NewRow(sizes, ParentOf(k), n, e)
           ELSE ParentOf(k) \in ps /\ own[c][k] = Gone
      /\ \A p \in ps : RowsOf(table, p) \subseteq DOMAIN own[c]
  BY <1>1, <1>2 DEF Imports
<1>4. QED
  BY <1>1, <1>3

(* A deletion writes no row back. *)
LEMMA DeletionWrites ==
  ASSUME StoreInv, NEW c \in Clients, work[c].op = "delete"
  PROVE  \E path \in Range(PathOf) :
           work[c].paths = {path} /\ \A k \in DOMAIN own[c] : PathOf[ParentOf(k)] = path /\ own[c][k] = Gone
BY DEF StoreInv, Job, DeletesSome, Deletes

(* While d has locked the first chunk of p, nobody else commits rows of p. *)
LEMMA CommitLeaves ==
  ASSUME StoreInv, NEW c \in Clients, Done(c), table' = Overlay(table, own[c]),
         NEW d \in Clients \ {c}, NEW p \in Parents, <<p, 1>> \in DOMAIN own[d]
  PROVE  RowsOf(table', p) \subseteq RowsOf(table, p)
<1>1. SUFFICES ASSUME NEW k \in DOMAIN table', ParentOf(k) = p, k \notin DOMAIN table PROVE FALSE
  BY DEF RowsOf
<1>2. k \in DOMAIN own[c] /\ own[c][k] # Gone
  BY <1>1, OverlayIs
<1>3. work \in [Clients -> Work] /\ work[c] \in Work
  BY DEF StoreInv, WorkTypeOK
<1>4. work[c].op = "upsert"
  <2>1. work[c].op # "delete"
    BY <1>2, DeletionWrites
  <2>2. work[c].op \in {"none", "upsert", "delete"} /\ work[c].op # "none"
    BY <1>3 DEF Work, Done
  <2>3. QED
    BY <2>1, <2>2
<1>5. <<p, 1>> \in DOMAIN own[c]
  <2>1. PICK ps \in (SUBSET Parents) \ {{}}, sizes \in Sizes, n \in Nat, e \in Nat :
           /\ \A j \in Chunk : IsNew(j, ps, sizes) => j \in DOMAIN own[c]
           /\ \A j \in DOMAIN own[c] :
                IF IsNew(j, ps, sizes) THEN own[c][j] = NewRow(sizes, ParentOf(j), n, e)
                ELSE ParentOf(j) \in ps /\ own[c][j] = Gone
    BY <1>4, DoneImport
  <2>2. p \in ps
    BY <2>1, <1>1, <1>2 DEF IsNew
  <2>3. <<p, 1>> \in Chunk /\ IsNew(<<p, 1>>, ps, sizes)
    BY <2>2, SizesPositive DEF Chunk, IsNew, ParentOf
  <2>4. QED
    BY <2>1, <2>3
<1>6. QED
  BY <1>5 DEF StoreInv, LocksExclude

LEMMA CommitStep ==
  ASSUME StoreInv, NEW c \in Clients, NEW applied, NEW told, Commit(c, applied, told) PROVE StoreInv'
<1>1. Done(c) /\ Finish(c) /\ table' = IF applied THEN Overlay(table, own[c]) ELSE table
  BY DEF Commit
<1>2. CASE table' = table
  BY <1>1, <1>2, Finished, OneMoves
<1>3. CASE table' = Overlay(table, own[c])
  <2>1. Rows(table) /\ Rows(own[c]) /\ LocksExclude
    BY DEF StoreInv, WorkTypeOK
  <2>2. /\ DOMAIN table' \subseteq DOMAIN table \cup DOMAIN own[c]
        /\ \A k \in DOMAIN table' :
             table'[k] # Gone /\ table'[k] = IF k \in DOMAIN own[c] THEN own[c][k] ELSE table[k]
    BY <1>3, OverlayIs
  <2>3. Rows(table') /\ \A k \in DOMAIN table' : table'[k] # Gone
    BY <2>1, <2>2 DEF Rows
  <2>4. /\ work' \in [Clients -> Work] /\ DOMAIN own' = Clients /\ \A d \in Clients \ {c} : own'[d] = own[d]
        /\ Rows(own'[c]) /\ DOMAIN own'[c] = {}
    BY <1>1, Finished DEF Unmoved
  <2>5. WorkTypeOK'
    BY <2>3, <2>4 DEF StoreInv, WorkTypeOK, Rows
  <2>6. LocksExclude'
    BY <2>1, <2>4 DEF LocksExclude
  <2>7. ASSUME NEW d \in Clients \ {c} PROVE Job(d)'
    <3>1. Unmoved(d)
      BY <1>1, Finished
    <3>2. QED
      BY <3>1, <1>1, <1>3, CommitLeaves, JobKept DEF StoreInv
  <2>8. Job(c)'
    BY <1>1, Finished
  <2>9. QED
    BY <2>5, <2>6, <2>7, <2>8 DEF StoreInv
<1>4. QED
  BY <1>1, <1>2, <1>3

(* The chunks of an import that begins. *)
LEMMA ChunkedIs ==
  ASSUME NEW ps \in SUBSET Parents, NEW sizes \in Sizes, NEW e \in Nat, ops \in Nat
  PROVE  /\ Chunked(ps, sizes, e) \subseteq Entry
         /\ \A x \in Chunked(ps, sizes, e) :
              IsNew(x.chunk, ps, sizes) /\ x.row = NewRow(sizes, ParentOf(x.chunk), ops + 1, e)
         /\ \A k \in Chunk : IsNew(k, ps, sizes) => \E x \in Chunked(ps, sizes, e) : x.chunk = k
<1> DEFINE X(p, i) == [chunk |-> <<p, i>>, row |-> [import |-> ops + 1, of |-> sizes[p], expires |-> e]]
<1>1. \A x : x \in Chunked(ps, sizes, e) <=> \E p \in ps : \E i \in 1..sizes[p] : x = X(p, i)
  BY DEF Chunked
<1>2. ASSUME NEW p \in ps, NEW i \in 1..sizes[p]
      PROVE  /\ X(p, i) \in Entry /\ X(p, i).chunk = <<p, i>>
             /\ IsNew(<<p, i>>, ps, sizes) /\ X(p, i).row = NewRow(sizes, ParentOf(<<p, i>>), ops + 1, e)
  <2>1. sizes[p] \in Nat /\ i \in Nat \ {0}
    BY SizesPositive
  <2>2. <<p, i>> \in Chunk /\ [import |-> ops + 1, of |-> sizes[p], expires |-> e] \in Row
    BY <2>1 DEF Chunk, Row
  <2>3. X(p, i) \in Entry
    BY <2>2 DEF Entry
  <2>4. QED
    BY <2>1, <2>3 DEF IsNew, ParentOf, NewRow
<1>3. ASSUME NEW k \in Chunk, IsNew(k, ps, sizes) PROVE \E x \in Chunked(ps, sizes, e) : x.chunk = k
  <2>1. k[1] \in ps /\ k[2] \in 1..sizes[k[1]] /\ k = <<k[1], k[2]>>
    BY <1>3, SizesPositive DEF Chunk, IsNew, ParentOf
  <2>2. X(k[1], k[2]) \in Chunked(ps, sizes, e)
    BY <2>1, <1>1
  <2>3. QED
    BY <2>1, <2>2
<1> HIDE DEF X
<1>4. ASSUME NEW x \in Chunked(ps, sizes, e)
      PROVE  x \in Entry /\ IsNew(x.chunk, ps, sizes) /\ x.row = NewRow(sizes, ParentOf(x.chunk), ops + 1, e)
  <2>1. PICK p \in ps : \E i \in 1..sizes[p] : x = X(p, i)
    BY <1>1
  <2>2. PICK i \in 1..sizes[p] : x = X(p, i)
    BY <2>1
  <2>3. QED
    BY <2>2, <1>2
<1>5. QED
  BY <1>3, <1>4

LEMMA ImportStep ==
  ASSUME StoreInv, Counters, NEW c \in Clients, NEW ps \in (SUBSET Parents) \ {{}}, NEW sizes \in Sizes,
         NEW e \in Nat, BeginUpsert(c, ps, sizes, e)
  PROVE  StoreInv'
<1> DEFINE paths == {PathOf[p] : p \in ps}
           todo == Chunked(ps, sizes, e)
           begun == [NoWork EXCEPT !.op = "upsert", !.stale = ps, !.paths = paths, !.todo = todo]
<1>1. /\ work \in [Clients -> Work] /\ work[c].op = "none" /\ table' = table /\ own' = own
      /\ DOMAIN own = Clients
  BY DEF StoreInv, WorkTypeOK, BeginUpsert
<1>2. DOMAIN own[c] = {}
  BY <1>1 DEF StoreInv, Job
<1>3. work' = [d \in Clients |-> IF d = c THEN begun
                                ELSE [work[d] EXCEPT !.alone = @ /\ work[d].paths \cap paths = {}]]
  BY DEF BeginUpsert
<1>4. begun = [op |-> "upsert", todo |-> todo, stale |-> ps, targets |-> {}, paths |-> paths, alone |-> FALSE]
  <2> HIDE DEF paths, todo
  <2>1. begun.op = "upsert" /\ begun.stale = ps /\ begun.paths = paths
    BY DEF NoWork
  <2>2. begun.todo = todo /\ begun.targets = {} /\ begun.alone = FALSE
    BY DEF NoWork
  <2>3. begun = [f \in {"op", "todo", "stale", "targets", "paths", "alone"} |-> begun[f]]
    BY DEF NoWork
  <2> HIDE DEF begun
  <2>4. QED
    BY <2>1, <2>2, <2>3
<1>5. ASSUME NEW d \in Clients \ {c} PROVE Unmoved(d) /\ work'[d] \in Work
  <2> DEFINE b == work[d].alone /\ work[d].paths \cap paths = {}
  <2>1. work'[d] = [work[d] EXCEPT !.alone = b] /\ work[d] \in Work /\ b \in BOOLEAN
    BY <1>1, <1>3
  <2> HIDE DEF b
  <2>2. work'[d] \in Work
    BY <2>1 DEF Work
  <2>3. /\ work'[d].op = work[d].op /\ work'[d].todo = work[d].todo /\ work'[d].stale = work[d].stale
        /\ work'[d].targets = work[d].targets /\ work'[d].paths = work[d].paths
    BY <2>1 DEF Work
  <2>4. QED
    BY <2>2, <2>3, <1>1 DEF Unmoved
<1>6. todo \subseteq Entry
  BY ChunkedIs DEF Counters
<1>7. begun \in Work
  <2>1. paths \subseteq Range(PathOf)
    BY PgAssumption DEF Range
  <2>2. QED
    BY <1>4, <1>6, <2>1 DEF Work
<1>8. work'[c] = begun
  BY <1>3
<1>9. work' \in [Clients -> Work]
  BY <1>3, <1>5, <1>7, <1>8
<1>10. Job(c)'
  <2>1. /\ work'[c].op = "upsert" /\ work'[c].todo = todo /\ work'[c].stale = ps /\ work'[c].targets = {}
        /\ work'[c].paths = paths
    BY <1>4, <1>8
  <2>2. /\ \A x \in todo : IsNew(x.chunk, ps, sizes) /\ x.row = NewRow(sizes, ParentOf(x.chunk), ops + 1, e)
        /\ \A k \in Chunk : IsNew(k, ps, sizes) => \E x \in todo : x.chunk = k
    BY ChunkedIs DEF Counters
  <2>3. PICK n \in Nat : n = ops + 1 /\ n > 0
    BY DEF Counters
  <2>4. Imports(c, ps, sizes, n, e)'
    <3> HIDE DEF todo
    <3>1. QED
      BY <2>1, <2>2, <2>3, <1>1, <1>2 DEF Imports
  <2>5. ImportsSome(c)'
    BY <2>3, <2>4 DEF ImportsSome
  <2>6. QED
    BY <2>1, <2>5 DEF Job
<1>11. Rows(own'[c]) /\ \A d \in Clients \ {c} : DOMAIN own'[c] \cap DOMAIN own[d] = {}
  BY <1>1, <1>2 DEF Rows
<1>12. QED
  BY <1>1, <1>5, <1>9, <1>10, <1>11, OneMoves

LEMMA BeginDeleteStep ==
  ASSUME StoreInv, NEW c \in Clients, NEW path \in Range(PathOf), BeginDelete(c, path)
  PROVE  StoreInv'
<1> DEFINE apart == \A d \in Clients : work[d].op = "upsert" => path \notin work[d].paths
<1>1. /\ work \in [Clients -> Work] /\ work[c].op = "none" /\ table' = table /\ own' = own
      /\ DOMAIN own = Clients
      /\ work' = [work EXCEPT ![c] = [NoWork EXCEPT !.op = "delete", !.paths = {path}, !.targets = RowsAt(path),
                                                    !.alone = apart]]
  BY DEF StoreInv, WorkTypeOK, BeginDelete
<1>2. DOMAIN own[c] = {}
  BY <1>1 DEF StoreInv, Job
<1>3. apart \in BOOLEAN
  OBVIOUS
<1> HIDE DEF apart
<1>4. work'[c] = [op |-> "delete", todo |-> {}, stale |-> {}, targets |-> RowsAt(path), paths |-> {path},
                  alone |-> apart]
      /\ \A d \in Clients \ {c} : work'[d] = work[d]
  BY <1>1 DEF NoWork
<1>5. RowsAt(path) \subseteq Chunk /\ \A k \in RowsAt(path) : PathOf[ParentOf(k)] = path
  BY DEF RowsAt, StoreInv, WorkTypeOK, Rows
<1>6. work'[c] \in Work
  BY <1>3, <1>4, <1>5 DEF Work
<1>7. work' \in [Clients -> Work]
  BY <1>1, <1>4, <1>6
<1>8. Job(c)'
  <2>1. /\ work'[c].op = "delete" /\ work'[c].todo = {} /\ work'[c].stale = {}
        /\ work'[c].targets = RowsAt(path) /\ work'[c].paths = {path} /\ DOMAIN own'[c] = {}
    BY <1>1, <1>2, <1>4, ZenonT(30)
  <2>2. Deletes(c, path)'
    BY <2>1, <1>5 DEF Deletes
  <2>3. QED
    BY <2>1, <2>2 DEF Job, DeletesSome
<1>9. \A d \in Clients \ {c} : Unmoved(d)
  BY <1>1, <1>4 DEF Unmoved
<1>10. Rows(own'[c]) /\ \A d \in Clients \ {c} : DOMAIN own'[c] \cap DOMAIN own[d] = {}
  BY <1>1, <1>2 DEF Rows
<1>11. QED
  BY <1>1, <1>7, <1>8, <1>9, <1>10, OneMoves

LEMMA StoreInvAlone ==
  ASSUME StoreInv, UNCHANGED <<table, work, own>> PROVE StoreInv'
<1>1. WorkTypeOK' /\ LocksExclude'
  BY DEF StoreInv, WorkTypeOK, LocksExclude, Rows
<1>2. \A d \in Clients : Job(d)'
  BY JobKept DEF StoreInv, Unmoved
<1>3. QED
  BY <1>1, <1>2 DEF StoreInv

LEMMA StoreInvStep ==
  ASSUME StoreInv, Counters, NEW c \in Clients, PgStep(c) \/ PgCall(c) \/ Import(c)
  PROVE  StoreInv'
<1>1. CASE Look(c) \/ Ready(c) \/ Close(c) \/ (\E source \in Sources : Open(c, source))
           \/ (\E ok \in BOOLEAN : Create(c, ok))
  BY <1>1, StoreInvAlone DEF Look, Ready, Close, Open, Create, idle
<1>2. CASE Insert(c)
  BY <1>2, InsertStep
<1>3. CASE DeadlockVictim(c) \/ Abandon(c)
  BY <1>3, RollbackStep DEF DeadlockVictim, Abandon
<1>4. ASSUME NEW p \in Parents, DeleteStale(c, p) PROVE StoreInv'
  BY <1>4, DeleteStaleStep
<1>5. ASSUME NEW k \in work[c].targets, DeleteRow(c, k) PROVE StoreInv'
  BY <1>5, DeleteRowStep
<1>6. ASSUME NEW applied \in BOOLEAN, NEW told \in BOOLEAN, Commit(c, applied, told) PROVE StoreInv'
  BY <1>6, CommitStep
<1>7. ASSUME NEW path \in Range(PathOf), BeginDelete(c, path) PROVE StoreInv'
  BY <1>7, BeginDeleteStep
<1>8. CASE Import(c)
  BY <1>8, ImportStep DEF Import
<1>9. QED
  BY <1>1, <1>2, <1>3, <1>4, <1>5, <1>6, <1>7, <1>8 DEF PgStep, PgCall

(* Whatever the instances do at once: a row that is written is locked by   *)
(* one transaction, and what an import or a deletion has still to do and   *)
(* has done is all of its work.                                            *)
THEOREM StoreInvariant == LSpec => [](Counters /\ StoreInv)
<1> DEFINE Inv == Counters /\ StoreInv
<1>1. LInit => Inv
  <2> SUFFICES ASSUME LInit PROVE Inv
    OBVIOUS
  <2>1. /\ table = Empty /\ work = [c \in Clients |-> NoWork] /\ own = [c \in Clients |-> Empty]
        /\ ops = 0 /\ now = 1
    BY DEF LInit, PgInit
  <2>2. WorkTypeOK /\ LocksExclude
    BY <2>1, NothingTypes DEF WorkTypeOK, LocksExclude, Rows
  <2>3. ASSUME NEW c \in Clients PROVE Job(c)
    <3>1. work[c].op = "none" /\ work[c].targets = {} /\ DOMAIN own[c] = {}
      BY <2>1, NothingTypes DEF NoWork
    <3>2. QED
      BY <3>1 DEF Job
  <2>4. QED
    BY <2>1, <2>2, <2>3 DEF StoreInv, Counters
<1>2. Inv /\ [LNext]_memVars => Inv'
  <2> SUFFICES ASSUME Inv, [LNext]_memVars PROVE Inv'
    OBVIOUS
  <2>1. CASE LNext
    BY <2>1, StepOfStore, StoreInvStep, StoreInvAlone DEF StoreAlone
  <2>2. CASE UNCHANGED memVars
    BY <2>2, StoreInvAlone DEF memVars, pgVars, Counters
  <2>3. QED
    BY <2>1, <2>2
<1>3. QED
  BY <1>1, <1>2, PTL DEF LSpec
-----------------------------------------------------------------------------
(* A statement of c changes neither the kind of what it does nor its       *)
(* paths, and a deletion does not lose sight of a row.                     *)
LEMMA Statement ==
  ASSUME StoreInv, NEW c \in Clients,
         \/ Insert(c) \/ (\E p \in Parents : DeleteStale(c, p))
         \/ (\E k \in work[c].targets : DeleteRow(c, k))
  PROVE  /\ table' = table /\ emptied' = emptied
         /\ \A d \in Clients : work'[d].op = work[d].op /\ work'[d].paths = work[d].paths
                               /\ work'[d].alone = work[d].alone
         /\ \A d \in Clients \ {c} : work'[d] = work[d] /\ own'[d] = own[d]
         /\ work[c].op = "delete" =>
              \A k \in DOMAIN table : k \in DOMAIN own[c] \cup work[c].targets =>
                                      k \in DOMAIN own'[c] \cup work'[c].targets
<1>1. work \in [Clients -> Work] /\ work[c] \in Work /\ DOMAIN own = Clients
  BY DEF StoreInv, WorkTypeOK
<1>2. CASE Insert(c)
  <2>1. PICK x \in work[c].todo : Write(c, x.chunk, x.row) /\ work' = [work EXCEPT ![c].todo = @ \ {x}]
    BY <1>2 DEF Insert, Upcoming
  <2>2. \A d \in Clients \ {c} : work'[d] = work[d] /\ own'[d] = own[d]
    BY <1>1, <2>1 DEF Write
  <2>3. work'[c].op = work[c].op /\ work'[c].paths = work[c].paths /\ work'[c].alone = work[c].alone
    BY <1>1, <2>1 DEF Work
  <2>4. QED
    BY <1>2, <2>2, <2>3 DEF Insert
<1>3. ASSUME NEW p \in Parents, DeleteStale(c, p)
      PROVE  /\ work'[c].op = work[c].op /\ work'[c].paths = work[c].paths /\ work'[c].alone = work[c].alone
             /\ \A d \in Clients \ {c} : work'[d] = work[d] /\ own'[d] = own[d]
             /\ work[c].op = "upsert" /\ table' = table /\ emptied' = emptied
  <2>1. work' = [work EXCEPT ![c].stale = @ \ {p}, ![c].targets = StaleRows(c, p)] /\ own' = own
    BY <1>3 DEF DeleteStale
  <2>2. work'[c] = [work[c] EXCEPT !.stale = @ \ {p}, !.targets = StaleRows(c, p)]
        /\ \A d \in Clients \ {c} : work'[d] = work[d]
    BY <1>1, <2>1
  <2>3. work'[c].op = work[c].op /\ work'[c].paths = work[c].paths /\ work'[c].alone = work[c].alone
    BY <1>1, <2>2 DEF Work
  <2>4. QED
    BY <1>3, <2>1, <2>2, <2>3 DEF DeleteStale
<1>4. ASSUME NEW k \in work[c].targets, DeleteRow(c, k)
      PROVE  /\ work'[c].op = work[c].op /\ work'[c].paths = work[c].paths /\ work'[c].alone = work[c].alone
             /\ \A d \in Clients \ {c} : work'[d] = work[d] /\ own'[d] = own[d]
             /\ table' = table /\ emptied' = emptied
             /\ \A j \in DOMAIN table : j \in DOMAIN own[c] \cup work[c].targets =>
                                        j \in DOMAIN own'[c] \cup work'[c].targets
  <2>1. work' = [work EXCEPT ![c].targets = @ \ {k}]
        /\ IF k \in DOMAIN table THEN Write(c, k, Gone) ELSE own' = own
    BY <1>4 DEF DeleteRow
  <2>2. \A d \in Clients \ {c} : work'[d] = work[d] /\ own'[d] = own[d]
    BY <1>1, <2>1 DEF Write
  <2>3. /\ work'[c].op = work[c].op /\ work'[c].paths = work[c].paths /\ work'[c].alone = work[c].alone
        /\ work'[c].targets = work[c].targets \ {k}
    BY <1>1, <2>1 DEF Work
  <2>4. DOMAIN own[c] \subseteq DOMAIN own'[c] /\ (k \in DOMAIN table => k \in DOMAIN own'[c])
    BY <1>1, <2>1 DEF Write
  <2>5. QED
    BY <1>4, <2>2, <2>3, <2>4 DEF DeleteRow
<1>5. CASE \E p \in Parents : DeleteStale(c, p)
  BY <1>3, <1>5
<1>6. CASE \E k \in work[c].targets : DeleteRow(c, k)
  BY <1>4, <1>6
<1>7. QED
  BY <1>2, <1>5, <1>6

(* What commits under a path is an import of the path. *)
LEMMA CommitAdds ==
  ASSUME StoreInv, NEW c \in Clients, Done(c), table' = Overlay(table, own[c]),
         NEW k \in DOMAIN table', k \notin DOMAIN table
  PROVE  work[c].op = "upsert" /\ PathOf[ParentOf(k)] \in work[c].paths
<1>1. k \in DOMAIN own[c] /\ own[c][k] # Gone
  BY OverlayIs
<1>2. work[c].op = "upsert"
  <2>1. work[c].op # "delete"
    BY <1>1, DeletionWrites
  <2>2. work[c].op \in {"none", "upsert", "delete"} /\ work[c].op # "none"
    BY DEF Work, Done, StoreInv, WorkTypeOK
  <2>3. QED
    BY <2>1, <2>2
<1>3. QED
  BY <1>1, <1>2, DoneImport DEF IsNew

(* A deletion commits that every row it has locked is gone. *)
LEMMA DeletionCommits ==
  ASSUME StoreInv, NEW c \in Clients, work[c].op = "delete", table' = Overlay(table, own[c])
  PROVE  DOMAIN table' \subseteq DOMAIN table \ DOMAIN own[c]
BY OverlayIs, DeletionWrites

LEMMA EmptyCommit ==
  ASSUME StoreInv, EmptyStays, NEW c \in Clients, NEW applied \in BOOLEAN, NEW told \in BOOLEAN,
         Commit(c, applied, told)
  PROVE  EmptyStays'
<1>1. /\ Done(c) /\ Finish(c) /\ (told => applied)
      /\ table' = IF applied THEN Overlay(table, own[c]) ELSE table
      /\ emptied' = IF told /\ work[c].alone THEN emptied \cup work[c].paths ELSE emptied
  BY DEF Commit
<1>2. /\ \A d \in Clients \ {c} : Unmoved(d) /\ work'[d] = work[d]
      /\ work'[c].op = "none" /\ ~work'[c].alone
  <2>1. \A d \in Clients \ {c} : Unmoved(d) /\ work'[c] = NoWork
    BY <1>1, Finished
  <2>2. \A d \in Clients \ {c} : work'[d] = work[d]
    BY <1>1 DEF Finish, StoreInv, WorkTypeOK
  <2>3. work'[c] = NoWork
    BY <1>1, Finished
  <2>4. QED
    BY <2>1, <2>2, <2>3 DEF NoWork
<1>3. \A k \in DOMAIN table' \ DOMAIN table : work[c].op = "upsert" /\ PathOf[ParentOf(k)] \in work[c].paths
  BY <1>1, CommitAdds
<1>4. ASSUME NEW k \in DOMAIN table' PROVE PathOf[ParentOf(k)] \notin emptied'
  <2>1. PathOf[ParentOf(k)] \notin emptied
    BY <1>3 DEF EmptyStays, DeletedForGood
  <2>2. ASSUME told, work[c].alone PROVE PathOf[ParentOf(k)] \notin work[c].paths
    <3>1. work[c].op = "delete" /\ table' = Overlay(table, own[c]) /\ work[c].targets = {}
      BY <1>1, <2>2 DEF EmptyStays, Done
    <3>2. k \in DOMAIN table \ DOMAIN own[c]
      BY <3>1, DeletionCommits
    <3>3. QED
      BY <2>2, <3>1, <3>2 DEF EmptyStays
  <2>3. QED
    BY <2>1, <2>2, <1>1
<1>5. ASSUME NEW d \in Clients, work'[d].op = "upsert" PROVE work'[d].paths \cap emptied' = {}
  <2>1. d # c /\ work[d].op = "upsert" /\ work'[d].paths = work[d].paths
    BY <1>2, <1>5
  <2>2. QED
    BY <2>1, <1>1 DEF EmptyStays
<1>6. ASSUME NEW d \in Clients, work'[d].alone
      PROVE  /\ work'[d].op = "delete"
             /\ \A b \in Clients : work'[b].op = "upsert" => work'[b].paths \cap work'[d].paths = {}
             /\ \A k \in DOMAIN table' : PathOf[ParentOf(k)] \in work'[d].paths =>
                  k \in DOMAIN own'[d] \cup work'[d].targets
  <2>1. d # c /\ work'[d] = work[d] /\ own'[d] = own[d] /\ work[d].alone
    BY <1>2, <1>6 DEF Unmoved
  <2>2. \A b \in Clients : work'[b].op = "upsert" => work[b].op = "upsert" /\ work'[b] = work[b]
    BY <1>2
  <2>3. \A k \in DOMAIN table' : PathOf[ParentOf(k)] \in work[d].paths => k \in DOMAIN table
    BY <2>1, <1>3 DEF EmptyStays
  <2>4. QED
    BY <2>1, <2>2, <2>3 DEF EmptyStays
<1>7. QED
  BY <1>4, <1>5, <1>6 DEF EmptyStays, DeletedForGood

LEMMA EmptyImport ==
  ASSUME StoreInv, Counters, EmptyStays, NEW c \in Clients, NEW ps \in (SUBSET Parents) \ {{}},
         NEW sizes \in Sizes, NEW e \in Nat, BeginUpsert(c, ps, sizes, e)
  PROVE  EmptyStays'
<1> DEFINE paths == {PathOf[p] : p \in ps}
           todo == Chunked(ps, sizes, e)
<1> HIDE DEF paths, todo
<1>1. /\ work \in [Clients -> Work] /\ table' = table /\ own' = own /\ emptied' = emptied \ paths
      /\ work' = [d \in Clients |->
           IF d = c THEN [NoWork EXCEPT !.op = "upsert", !.stale = ps, !.paths = paths, !.todo = todo]
           ELSE [work[d] EXCEPT !.alone = @ /\ work[d].paths \cap paths = {}]]
  BY DEF StoreInv, WorkTypeOK, BeginUpsert, paths, todo
<1>2. work'[c].op = "upsert" /\ work'[c].paths = paths /\ ~work'[c].alone
  BY <1>1 DEF NoWork
<1>3. ASSUME NEW d \in Clients \ {c}
      PROVE  /\ work'[d].op = work[d].op /\ work'[d].paths = work[d].paths /\ work'[d].targets = work[d].targets
             /\ work'[d].alone => work[d].alone /\ work[d].paths \cap paths = {}
  <2> DEFINE b == work[d].alone /\ work[d].paths \cap paths = {}
  <2>1. work'[d] = [work[d] EXCEPT !.alone = b] /\ work[d] \in Work
    BY <1>1
  <2> HIDE DEF b
  <2>2. /\ work'[d].op = work[d].op /\ work'[d].paths = work[d].paths /\ work'[d].targets = work[d].targets
        /\ work'[d].alone = b
    BY <2>1 DEF Work
  <2>3. QED
    BY <2>2 DEF b
<1>4. ASSUME NEW d \in Clients, work'[d].op = "upsert" PROVE work'[d].paths \cap emptied' = {}
  BY <1>1, <1>2, <1>3, <1>4 DEF EmptyStays
<1>5. ASSUME NEW d \in Clients, work'[d].alone
      PROVE  /\ work'[d].op = "delete"
             /\ \A b \in Clients : work'[b].op = "upsert" => work'[b].paths \cap work'[d].paths = {}
             /\ \A k \in DOMAIN table' : PathOf[ParentOf(k)] \in work'[d].paths =>
                  k \in DOMAIN own'[d] \cup work'[d].targets
  <2>1. d # c /\ work[d].alone /\ work[d].paths \cap paths = {}
    BY <1>2, <1>3, <1>5
  <2>2. work'[d].op = "delete" /\ work'[d].paths = work[d].paths /\ work'[d].targets = work[d].targets
    BY <2>1, <1>3 DEF EmptyStays
  <2>3. ASSUME NEW b \in Clients, work'[b].op = "upsert" PROVE work'[b].paths \cap work[d].paths = {}
    <3>1. CASE b = c
      BY <3>1, <2>1, <1>2
    <3>2. CASE b # c
      BY <3>2, <2>1, <2>3, <1>3 DEF EmptyStays
    <3>3. QED
      BY <3>1, <3>2
  <2>4. \A k \in DOMAIN table : PathOf[ParentOf(k)] \in work[d].paths => k \in DOMAIN own[d] \cup work[d].targets
    BY <2>1 DEF EmptyStays
  <2>5. QED
    BY <2>2, <2>3, <2>4, <1>1
<1>6. QED
  BY <1>1, <1>4, <1>5 DEF EmptyStays, DeletedForGood

LEMMA EmptyBeginDelete ==
  ASSUME StoreInv, EmptyStays, NEW c \in Clients, NEW path, BeginDelete(c, path)
  PROVE  EmptyStays'
<1> DEFINE apart == \A d \in Clients : work[d].op = "upsert" => path \notin work[d].paths
<1>1. /\ work \in [Clients -> Work] /\ table' = table /\ own' = own /\ emptied' = emptied
      /\ work' = [work EXCEPT ![c] = [NoWork EXCEPT !.op = "delete", !.paths = {path}, !.targets = RowsAt(path),
                                                    !.alone = apart]]
  BY DEF StoreInv, WorkTypeOK, BeginDelete
<1> HIDE DEF apart
<1>2. /\ work'[c].op = "delete" /\ work'[c].paths = {path} /\ work'[c].targets = RowsAt(path)
      /\ work'[c].alone = apart
  BY <1>1 DEF NoWork
<1>3. \A d \in Clients \ {c} : work'[d] = work[d]
  BY <1>1
<1>4. \A d \in Clients : work'[d].op = "upsert" => d # c
  BY <1>2
<1>5. ASSUME apart
      PROVE  /\ \A b \in Clients : work'[b].op = "upsert" => work'[b].paths \cap {path} = {}
             /\ \A k \in DOMAIN table : PathOf[ParentOf(k)] \in {path} => k \in RowsAt(path)
  BY <1>3, <1>4, <1>5 DEF apart, RowsAt
<1>6. ASSUME NEW d \in Clients, work'[d].alone
      PROVE  /\ work'[d].op = "delete"
             /\ \A b \in Clients : work'[b].op = "upsert" => work'[b].paths \cap work'[d].paths = {}
             /\ \A k \in DOMAIN table' : PathOf[ParentOf(k)] \in work'[d].paths =>
                  k \in DOMAIN own'[d] \cup work'[d].targets
  <2>1. CASE d = c
    BY <2>1, <1>1, <1>2, <1>5, <1>6
  <2>2. CASE d # c
    BY <2>2, <1>1, <1>3, <1>4, <1>6 DEF EmptyStays
  <2>3. QED
    BY <2>1, <2>2
<1>7. QED
  BY <1>1, <1>3, <1>4, <1>6 DEF EmptyStays, DeletedForGood

LEMMA EmptyStep ==
  ASSUME StoreInv, Counters, EmptyStays, NEW c \in Clients, PgStep(c) \/ PgCall(c) \/ Import(c)
  PROVE  EmptyStays'
<1>1. ASSUME UNCHANGED <<table, work, own, emptied>> PROVE EmptyStays'
  BY <1>1 DEF EmptyStays, DeletedForGood
<1>2. CASE Look(c) \/ Ready(c) \/ Close(c) \/ (\E source \in Sources : Open(c, source))
           \/ (\E ok \in BOOLEAN : Create(c, ok))
  BY <1>2, <1>1 DEF Look, Ready, Close, Open, Create, idle
<1>3. ASSUME \/ Insert(c) \/ (\E p \in Parents : DeleteStale(c, p))
             \/ (\E k \in work[c].targets : DeleteRow(c, k))
      PROVE  EmptyStays'
  <2>1. /\ table' = table /\ emptied' = emptied
        /\ \A d \in Clients : work'[d].op = work[d].op /\ work'[d].paths = work[d].paths
                              /\ work'[d].alone = work[d].alone
        /\ \A d \in Clients \ {c} : work'[d] = work[d] /\ own'[d] = own[d]
        /\ work[c].op = "delete" =>
             \A k \in DOMAIN table : k \in DOMAIN own[c] \cup work[c].targets =>
                                     k \in DOMAIN own'[c] \cup work'[c].targets
    BY <1>3, Statement
  <2>2. ASSUME NEW d \in Clients, work[d].alone
        PROVE  \A k \in DOMAIN table : PathOf[ParentOf(k)] \in work[d].paths =>
                 k \in DOMAIN own'[d] \cup work'[d].targets
    BY <2>1, <2>2 DEF EmptyStays
  <2>3. QED
    BY <2>1, <2>2 DEF EmptyStays, DeletedForGood
<1>4. CASE DeadlockVictim(c) \/ Abandon(c)
  <2>1. Finish(c) /\ table' = table /\ emptied' = emptied
    BY <1>4 DEF DeadlockVictim, Abandon, Rollback
  <2>2. /\ work'[c].op = "none" /\ ~work'[c].alone
        /\ \A d \in Clients \ {c} : work'[d] = work[d] /\ own'[d] = own[d]
    BY <2>1 DEF Finish, NoWork, StoreInv, WorkTypeOK
  <2>3. QED
    BY <2>1, <2>2 DEF EmptyStays, DeletedForGood
<1>5. ASSUME NEW applied \in BOOLEAN, NEW told \in BOOLEAN, Commit(c, applied, told) PROVE EmptyStays'
  BY <1>5, EmptyCommit
<1>6. ASSUME NEW path \in Range(PathOf), BeginDelete(c, path) PROVE EmptyStays'
  BY <1>6, EmptyBeginDelete
<1>7. CASE Import(c)
  BY <1>7, EmptyImport DEF Import
<1>8. QED
  BY <1>2, <1>3, <1>4, <1>5, <1>6, <1>7 DEF PgStep, PgCall

(* Once a deletion has returned, its path is empty until the next import   *)
(* of it, if none was under way meanwhile: no stale statement, commit of   *)
(* another instance or rollback brings a row of it back.                   *)
THEOREM DeletedStaysDeleted == LSpec => []DeletedForGood
<1>1. LInit => EmptyStays
  BY NothingTypes DEF LInit, PgInit, EmptyStays, DeletedForGood, NoWork
<1>2. EmptyStays /\ Counters /\ StoreInv /\ [LNext]_memVars => EmptyStays'
  <2> SUFFICES ASSUME EmptyStays, Counters, StoreInv, [LNext]_memVars PROVE EmptyStays'
    OBVIOUS
  <2>1. ASSUME UNCHANGED <<table, work, own, emptied>> PROVE EmptyStays'
    BY <2>1 DEF EmptyStays, DeletedForGood
  <2>2. CASE LNext
    BY <2>1, <2>2, StepOfStore, EmptyStep DEF StoreAlone
  <2>3. CASE UNCHANGED memVars
    BY <2>1, <2>3 DEF memVars, pgVars
  <2>4. QED
    BY <2>2, <2>3
<1>3. EmptyStays => DeletedForGood
  BY DEF EmptyStays
<1>4. QED
  BY <1>1, <1>2, <1>3, StoreInvariant, PTL DEF LSpec
-----------------------------------------------------------------------------
LEMMA ChunkCount ==
  ASSUME NEW p, NEW n \in Nat
  PROVE  Cardinality({<<p, i>> : i \in 1..n}) = n
<1> DEFINE f == [i \in 1..n |-> <<p, i>>]
<1>1. f \in Bijection(1..n, {<<p, i>> : i \in 1..n})
  BY DEF Bijection, Injection, Surjection, IsInjective
<1>2. ExistsBijection(1..n, {<<p, i>> : i \in 1..n})
  BY <1>1 DEF ExistsBijection
<1>3. IsFiniteSet(1..n) /\ Cardinality(1..n) = n
  BY FS_Interval
<1>4. QED
  BY <1>2, <1>3, FS_Bijection

(* The commit of an import replaces all that its parents had by one        *)
(* version, and nothing else.                                              *)
LEMMA ImportCommits ==
  ASSUME StoreInv, NEW c \in Clients, Done(c), work[c].op = "upsert", table' = Overlay(table, own[c])
  PROVE  AtomicUpsert
<1>1. PICK ps \in (SUBSET Parents) \ {{}}, sizes \in Sizes, n \in Nat, e \in Nat :
           /\ n > 0
           /\ \A k \in Chunk : IsNew(k, ps, sizes) => k \in DOMAIN own[c]
           /\ \A k \in DOMAIN own[c] :
                IF IsNew(k, ps, sizes) THEN own[c][k] = NewRow(sizes, ParentOf(k), n, e)
                ELSE ParentOf(k) \in ps /\ own[c][k] = Gone
           /\ \A p \in ps : RowsOf(table, p) \subseteq DOMAIN own[c]
  BY DoneImport
<1>2. /\ DOMAIN table' \subseteq DOMAIN table \cup DOMAIN own[c]
      /\ \A k \in DOMAIN own[c] : k \in DOMAIN table' <=> own[c][k] # Gone
      /\ \A k \in DOMAIN table \ DOMAIN own[c] : k \in DOMAIN table' <=> table[k] # Gone
      /\ \A k \in DOMAIN table' : table'[k] = IF k \in DOMAIN own[c] THEN own[c][k] ELSE table[k]
  BY OverlayIs
<1>3. DOMAIN own[c] \subseteq Chunk /\ \A k \in DOMAIN table : table[k] # Gone
  BY DEF StoreInv, WorkTypeOK, Rows
<1>4. \A p : NewRow(sizes, p, n, e).import = n /\ NewRow(sizes, p, n, e).of = sizes[p]
             /\ NewRow(sizes, p, n, e) # Gone
  <2>1. ASSUME NEW p PROVE NewRow(sizes, p, n, e).import = n /\ NewRow(sizes, p, n, e).of = sizes[p]
    BY DEF NewRow
  <2>2. Gone.import = 0 /\ n # 0
    BY <1>1 DEF Gone
  <2>3. QED
    BY <2>1, <2>2
<1>5. SameBut(ps, table, table')
  <2>1. \A k \in DOMAIN own[c] : ParentOf(k) \in ps
    BY <1>1 DEF IsNew
  <2>2. QED
    BY <1>2, <1>3, <2>1 DEF SameBut
<1>6. ASSUME NEW p \in ps
      PROVE  WholeImport(table', p, n)
  <2>1. sizes[p] \in Nat \ {0}
    BY SizesPositive
  <2>2. \A i \in 1..sizes[p] : <<p, i>> \in DOMAIN table' /\ ParentOf(<<p, i>>) = p
    <3>1. ASSUME NEW i \in 1..sizes[p] PROVE <<p, i>> \in DOMAIN table'
      <4>1. <<p, i>> \in Chunk /\ IsNew(<<p, i>>, ps, sizes)
        BY <2>1 DEF Chunk, IsNew, ParentOf
      <4>2. QED
        BY <4>1, <1>1, <1>2, <1>4
    <3>2. QED
      BY <3>1 DEF ParentOf
  <2>3. ASSUME NEW k \in RowsOf(table', p)
        PROVE  /\ k \in {<<p, i>> : i \in 1..sizes[p]}
               /\ table'[k].import = n /\ table'[k].of = sizes[p]
    <3>1. k \in DOMAIN table' /\ ParentOf(k) = p
      BY DEF RowsOf
    <3>2. k \in DOMAIN own[c]
      BY <3>1, <1>1, <1>2 DEF RowsOf
    <3>3. IsNew(k, ps, sizes) /\ table'[k] = NewRow(sizes, p, n, e)
      BY <3>1, <3>2, <1>1, <1>2
    <3>4. k \in Chunk
      BY <3>2, <1>3
    <3>5. k = <<p, k[2]>> /\ k[2] \in 1..sizes[p]
      BY <3>1, <3>3, <3>4, <2>1 DEF Chunk, IsNew, ParentOf
    <3>6. QED
      BY <3>3, <3>5, <1>4
  <2>4. RowsOf(table', p) = {<<p, i>> : i \in 1..sizes[p]}
    BY <2>2, <2>3 DEF RowsOf
  <2>5. Cardinality(RowsOf(table', p)) = sizes[p]
    <3>1. Cardinality({<<p, i>> : i \in 1..sizes[p]}) = sizes[p]
      BY <2>1, ChunkCount
    <3>2. QED
      BY <2>4, <3>1
  <2>6. <<p, 1>> \in RowsOf(table', p)
    BY <2>1, <2>4
  <2>7. QED
    BY <2>3, <2>5, <2>6 DEF WholeImport
<1>7. n \in {table'[k].import : k \in DOMAIN table'}
  <2>1. PICK p \in ps : WholeImport(table', p, n)
    BY <1>6
  <2>2. PICK k \in RowsOf(table', p) : table'[k].import = n
    BY <2>1 DEF WholeImport
  <2>3. k \in DOMAIN table'
    BY DEF RowsOf
  <2>4. QED
    BY <2>2, <2>3
<1>8. QED
  BY <1>5, <1>6, <1>7 DEF AtomicUpsert

(* The commit of a deletion removes rows of its path, and nothing else.    *)
LEMMA DeletionIsAtomic ==
  ASSUME StoreInv, NEW c \in Clients, work[c].op = "delete", table' = Overlay(table, own[c])
  PROVE  AtomicDelete
<1>1. PICK path \in Range(PathOf) : \A k \in DOMAIN own[c] : PathOf[ParentOf(k)] = path /\ own[c][k] = Gone
  BY DeletionWrites
<1>2. path \in {PathOf[p] : p \in Parents}
  BY PgAssumption DEF Range
<1>3. \A k \in DOMAIN table : table[k] # Gone
  BY DEF StoreInv, WorkTypeOK
<1>4. DOMAIN table' \subseteq DOMAIN table /\ \A k \in DOMAIN table' : table'[k] = table[k]
  BY <1>1, OverlayIs
<1>5. \A k \in DOMAIN table \ DOMAIN table' : PathOf[ParentOf(k)] = path
  BY <1>1, <1>3, OverlayIs
<1>6. QED
  BY <1>2, <1>4, <1>5 DEF AtomicDelete

LEMMA TableStep ==
  ASSUME StoreInv, NEW c \in Clients, PgStep(c) \/ PgCall(c) \/ Import(c), table' # table
  PROVE  AtomicUpsert \/ AtomicDelete
<1>1. PICK applied \in BOOLEAN, told \in BOOLEAN : Commit(c, applied, told)
  <2>1. ASSUME PgStep(c) PROVE \E applied, told \in BOOLEAN : Commit(c, applied, told)
    BY <2>1 DEF PgStep, Look, Ready, Insert, DeadlockVictim, Rollback, DeleteStale, DeleteRow, Create
  <2>2. ASSUME PgCall(c) \/ Import(c) PROVE FALSE
    BY <2>2 DEF PgCall, Open, BeginDelete, Close, Abandon, Rollback, Import, BeginUpsert
  <2>3. QED
    BY <2>1, <2>2
<1>2. Done(c) /\ table' = Overlay(table, own[c])
  BY <1>1 DEF Commit
<1>3. work[c].op \in {"upsert", "delete"}
  BY <1>2 DEF Done, StoreInv, WorkTypeOK, Work
<1>4. QED
  BY <1>2, <1>3, ImportCommits, DeletionIsAtomic

(* The store of several instances implements VectorStore: every commit is  *)
(* an atomic import of whole parents or an atomic deletion by path, and    *)
(* nothing else changes what a search can see.                             *)
THEOREM StoreImplementsVectorStore == LSpec => StoreKeepsPromise
<1>1. LInit => VSInit
  BY NothingTypes DEF LInit, PgInit, VSInit
<1>2. StoreInv /\ Counters /\ [LNext]_memVars => [AtomicUpsert \/ AtomicDelete]_table
  <2> SUFFICES ASSUME StoreInv, Counters, [LNext]_memVars, table' # table
               PROVE  AtomicUpsert \/ AtomicDelete
    OBVIOUS
  <2>1. PICK c \in Clients : PgStep(c) \/ PgCall(c) \/ Import(c)
    BY StepOfStore DEF memVars, pgVars, StoreAlone
  <2>2. QED
    BY <2>1, TableStep
<1>3. QED
  BY <1>1, <1>2, StoreInvariant, PTL DEF LSpec, StoreKeepsPromise, VSSpec
-----------------------------------------------------------------------------
LEMMA RowsLastStep ==
  ASSUME StoreInv, RowsLast, now' = now, NEW c \in Clients, PgStep(c) \/ PgCall(c)
  PROVE  RowsLast'
<1>0. /\ work \in [Clients -> Work] /\ DOMAIN own = Clients
      /\ \A k, row : MemoryRow(k, row)' <=> MemoryRow(k, row)
  BY DEF StoreInv, WorkTypeOK, MemoryRow, Lasting
<1>1. ASSUME table' = table, own' = own, \A d \in Clients : work'[d].todo \subseteq work[d].todo
      PROVE  RowsLast'
  BY <1>1, <1>0 DEF RowsLast
<1>2. CASE Look(c) \/ Ready(c) \/ Close(c) \/ (\E source \in Sources : Open(c, source))
           \/ (\E ok \in BOOLEAN : Create(c, ok))
  BY <1>2, <1>1 DEF Look, Ready, Close, Open, Create, idle
<1>3. CASE Insert(c)
  <2>1. PICK x \in work[c].todo : Write(c, x.chunk, x.row) /\ work' = [work EXCEPT ![c].todo = @ \ {x}]
    BY <1>3 DEF Insert, Upcoming
  <2>2. table' = table /\ \A d \in Clients : work'[d].todo \subseteq work[d].todo
    <3>1. work'[c] = [work[c] EXCEPT !.todo = @ \ {x}] /\ work[c] \in Work
          /\ \A d \in Clients \ {c} : work'[d] = work[d]
      BY <1>0, <2>1
    <3>2. work'[c].todo = work[c].todo \ {x}
      BY <3>1 DEF Work
    <3>3. QED
      BY <1>3, <3>1, <3>2 DEF Insert
  <2>3. own'[c] = [j \in DOMAIN own[c] \cup {x.chunk} |-> IF j = x.chunk THEN x.row ELSE own[c][j]]
        /\ \A d \in Clients \ {c} : own'[d] = own[d]
    BY <1>0, <2>1 DEF Write
  <2>4. \A d \in Clients : \A k \in DOMAIN own'[d] : MemoryRow(k, own'[d][k])
    <3>1. \A k \in DOMAIN own'[c] : MemoryRow(k, own'[c][k])
      BY <2>1, <2>3 DEF RowsLast
    <3>2. QED
      BY <2>3, <3>1 DEF RowsLast
  <2>5. QED
    BY <1>0, <2>2, <2>4 DEF RowsLast
<1>4. ASSUME NEW p \in Parents, DeleteStale(c, p) PROVE RowsLast'
  <2>1. \A d \in Clients : work'[d].todo = work[d].todo
    <3>1. work' = [work EXCEPT ![c].stale = @ \ {p}, ![c].targets = StaleRows(c, p)] /\ work[c] \in Work
      BY <1>0, <1>4 DEF DeleteStale
    <3>2. work'[c] = [work[c] EXCEPT !.stale = @ \ {p}, !.targets = StaleRows(c, p)]
          /\ \A d \in Clients \ {c} : work'[d] = work[d]
      BY <1>0, <3>1
    <3>3. work'[c].todo = work[c].todo
      BY <3>1, <3>2, ZenonT(30) DEF Work
    <3>4. QED
      BY <3>2, <3>3
  <2>2. QED
    BY <1>1, <1>4, <2>1 DEF DeleteStale
<1>5. ASSUME NEW k \in work[c].targets, DeleteRow(c, k) PROVE RowsLast'
  <2>1. /\ table' = table /\ work' = [work EXCEPT ![c].targets = @ \ {k}]
        /\ IF k \in DOMAIN table THEN Write(c, k, Gone) ELSE own' = own
    BY <1>5 DEF DeleteRow
  <2>2. \A d \in Clients : work'[d].todo = work[d].todo
    <3>1. work'[c] = [work[c] EXCEPT !.targets = @ \ {k}] /\ work[c] \in Work
          /\ \A d \in Clients \ {c} : work'[d] = work[d]
      BY <1>0, <2>1
    <3>2. work'[c].todo = work[c].todo
      BY <3>1 DEF Work
    <3>3. QED
      BY <3>1, <3>2
  <2>3. CASE k \in DOMAIN table
    <3>1. own'[c] = [j \in DOMAIN own[c] \cup {k} |-> IF j = k THEN Gone ELSE own[c][j]]
          /\ \A d \in Clients \ {c} : own'[d] = own[d]
      BY <1>0, <2>1, <2>3 DEF Write
    <3>2. MemoryRow(k, Gone)
      BY <2>3 DEF RowsLast, MemoryRow
    <3>3. \A j \in DOMAIN own'[c] : MemoryRow(j, own'[c][j])
      BY <3>1, <3>2 DEF RowsLast
    <3>4. \A d \in Clients : \A j \in DOMAIN own'[d] : MemoryRow(j, own'[d][j])
      BY <3>1, <3>3 DEF RowsLast
    <3>5. QED
      BY <1>0, <2>1, <2>2, <3>4 DEF RowsLast
  <2>4. CASE k \notin DOMAIN table
    BY <1>1, <2>1, <2>2, <2>4
  <2>5. QED
    BY <2>3, <2>4
<1>6. ASSUME Finish(c), \A k \in DOMAIN table' : MemoryRow(k, table'[k]) PROVE RowsLast'
  <2>1. /\ \A d \in Clients \ {c} : own'[d] = own[d] /\ work'[d] = work[d]
        /\ DOMAIN own'[c] = {} /\ work'[c].todo = {}
    BY <1>0, <1>6 DEF Finish, NoWork, Empty
  <2>2. QED
    BY <1>0, <1>6, <2>1 DEF RowsLast
<1>7. CASE DeadlockVictim(c) \/ Abandon(c)
  BY <1>6, <1>7 DEF DeadlockVictim, Abandon, Rollback, RowsLast
<1>8. ASSUME NEW applied \in BOOLEAN, NEW told \in BOOLEAN, Commit(c, applied, told) PROVE RowsLast'
  <2>1. Finish(c) /\ table' = IF applied THEN Overlay(table, own[c]) ELSE table
    BY <1>8 DEF Commit
  <2>2. ASSUME NEW k \in DOMAIN table' PROVE MemoryRow(k, table'[k])
    <3>1. CASE table' = table
      BY <3>1, <2>2 DEF RowsLast
    <3>2. CASE table' = Overlay(table, own[c])
      <4>1. k \in DOMAIN table \cup DOMAIN own[c]
            /\ table'[k] = IF k \in DOMAIN own[c] THEN own[c][k] ELSE table[k]
        BY <3>2, OverlayIs
      <4>2. QED
        BY <4>1 DEF RowsLast
    <3>3. QED
      BY <2>1, <3>1, <3>2
  <2>3. QED
    BY <1>6, <2>1, <2>2
<1>9. ASSUME NEW path \in Range(PathOf), BeginDelete(c, path) PROVE RowsLast'
  <2>1. \A d \in Clients : work'[d].todo \subseteq work[d].todo
    <3>1. work'[c].todo = {} /\ \A d \in Clients \ {c} : work'[d] = work[d]
      BY <1>0, <1>9 DEF BeginDelete, NoWork
    <3>2. QED
      BY <3>1
  <2>2. QED
    BY <1>1, <1>9, <2>1 DEF BeginDelete
<1>10. QED
  BY <1>2, <1>3, <1>4, <1>5, <1>7, <1>8, <1>9 DEF PgStep, PgCall

(* An import of memories gives them one row each, which expires in time;   *)
(* an import of documents has none.                                        *)
LEMMA RowsLastImport ==
  ASSUME StoreInv, Counters, RowsLast, now' = now, NEW c \in Clients, NEW ps \in SUBSET Parents,
         NEW sizes \in Sizes, NEW e \in Nat, BeginUpsert(c, ps, sizes, e),
         ps \cap Memories # {} => Lasting(e)
  PROVE  RowsLast'
<1> DEFINE paths == {PathOf[p] : p \in ps}
           todo == Chunked(ps, sizes, e)
<1> HIDE DEF paths, todo
<1>0. \A k, row : MemoryRow(k, row)' <=> MemoryRow(k, row)
  BY DEF MemoryRow, Lasting
<1>1. /\ table' = table /\ own' = own
      /\ work' = [d \in Clients |->
           IF d = c THEN [NoWork EXCEPT !.op = "upsert", !.stale = ps, !.paths = paths, !.todo = todo]
           ELSE [work[d] EXCEPT !.alone = @ /\ work[d].paths \cap paths = {}]]
  BY DEF BeginUpsert, paths, todo
<1>2. work'[c].todo = todo
  BY <1>1 DEF NoWork
<1>3. ASSUME NEW d \in Clients \ {c} PROVE work'[d].todo = work[d].todo
  <2> DEFINE b == work[d].alone /\ work[d].paths \cap paths = {}
  <2>1. work'[d] = [work[d] EXCEPT !.alone = b] /\ work[d] \in Work
    BY <1>1 DEF StoreInv, WorkTypeOK
  <2> HIDE DEF b
  <2>2. QED
    BY <2>1 DEF Work
<1>4. ASSUME NEW x \in todo PROVE MemoryRow(x.chunk, x.row)
  <2>1. x \in Entry /\ IsNew(x.chunk, ps, sizes) /\ x.row = NewRow(sizes, ParentOf(x.chunk), ops + 1, e)
    BY ChunkedIs DEF Counters, todo
  <2>2. x.chunk \in Chunk /\ x.row.expires = e
    BY <2>1 DEF Entry, NewRow
  <2>3. ASSUME ParentOf(x.chunk) \in Memories PROVE x.chunk[2] = 1 /\ Lasting(e)
    <3>1. sizes[ParentOf(x.chunk)] \in {1}
      BY <2>3, MemoryAssumption DEF Sizes
    <3>2. x.chunk[2] \in Nat \ {0} /\ x.chunk[2] <= sizes[ParentOf(x.chunk)] /\ ParentOf(x.chunk) \in ps
      BY <2>1, <2>2 DEF Chunk, IsNew
    <3>3. QED
      BY <2>3, <3>1, <3>2
  <2>4. QED
    BY <2>2, <2>3 DEF MemoryRow
<1>5. QED
  BY <1>0, <1>1, <1>2, <1>3, <1>4 DEF RowsLast

LEMMA Expiring == ASSUME Counters PROVE expiresAt \in Nat /\ Lasting(expiresAt)
BY MemoryAssumption DEF Counters, expiresAt, Lasting

LEMMA LastsLonger ==
  ASSUME Counters, now' \in Nat, now <= now', NEW e, Lasting(e) PROVE Lasting(e)'
BY MemoryAssumption DEF Counters, Lasting

LEMMA MemoriesStep ==
  ASSUME StoreInv, Counters, MemoriesLast, LNext
  PROVE  MemoriesLast'
<1> USE DEF MemoriesLast
<1>1. ASSUME now' = now, records' = records, RowsLast' PROVE MemoriesLast'
  BY <1>1 DEF Lasting
<1>2. ASSUME NEW c \in Clients, MStep(c) \/ MCall(c) PROVE MemoriesLast'
  BY <1>1, <1>2, RowsLastStep DEF MStep, MCall
<1>3. ASSUME NEW c \in Clients, NEW m \in Memories, MemorizeInStore(c, m) PROVE MemoriesLast'
  <2>1. PICK sizes \in Sizes : BeginUpsert(c, {m}, sizes, expiresAt) /\ now' = now /\ records' = records
    BY <1>3 DEF MemorizeInStore
  <2>2. {m} \in SUBSET Parents
    BY MemoryAssumption
  <2>3. PICK e \in Nat : e = expiresAt
    BY Expiring
  <2>4. BeginUpsert(c, {m}, sizes, e) /\ Lasting(e)
    BY <2>1, <2>3, Expiring
  <2>5. RowsLast'
    BY <2>1, <2>2, <2>4, RowsLastImport
  <2>6. QED
    BY <1>1, <2>1, <2>5
<1>4. ASSUME NEW c \in Clients, NEW ps \in (SUBSET (Parents \ Memories)) \ {{}}, ImportDocuments(c, ps)
      PROVE  MemoriesLast'
  <2>1. PICK sizes \in Sizes : BeginUpsert(c, ps, sizes, 0) /\ now' = now /\ records' = records
    BY <1>4 DEF ImportDocuments
  <2>2. ps \in SUBSET Parents /\ ps \cap Memories = {} /\ 0 \in Nat
    OBVIOUS
  <2>3. RowsLast'
    BY <2>1, <2>2, RowsLastImport
  <2>4. QED
    BY <1>1, <2>1, <2>3
<1>5. ASSUME UNCHANGED <<table, work, own>>, now' \in Nat, now <= now' PROVE RowsLast'
  <2>1. ASSUME NEW k, NEW row, MemoryRow(k, row) PROVE MemoryRow(k, row)'
    BY <1>5, <2>1, LastsLonger DEF MemoryRow
  <2>2. QED
    BY <1>5, <2>1 DEF RowsLast
<1>6. now \in Nat
  BY DEF Counters
<1>7. ASSUME UNCHANGED <<table, work, own>>, now' = now,
             \A m \in DOMAIN records' : m \in Memories /\ Lasting(records'[m])
      PROVE  MemoriesLast'
  BY <1>5, <1>6, <1>7 DEF Lasting
<1>8. ASSUME NEW m \in Memories, MemorizeInProcess(m) PROVE MemoriesLast'
  <2>1. records' = [k \in DOMAIN records \cup {m} |-> IF k = m THEN expiresAt ELSE records[k]]
    BY <1>8 DEF MemorizeInProcess
  <2>2. \A k \in DOMAIN records' : k \in Memories /\ Lasting(records'[k])
    BY <2>1, Expiring
  <2>3. QED
    BY <1>7, <1>8, <2>2 DEF MemorizeInProcess
<1>9. ASSUME NEW path \in SessionPaths, ClearInProcess(path) PROVE MemoriesLast'
  <2>1. \A m \in DOMAIN records' : m \in Memories /\ Lasting(records'[m])
    BY <1>9 DEF ClearInProcess, Restrict
  <2>2. QED
    BY <1>7, <1>9, <2>1 DEF ClearInProcess
<1>10. CASE PruneExpired
  <2>1. \A m \in DOMAIN records' : m \in Memories /\ Lasting(records'[m])
    BY <1>10 DEF PruneExpired, Restrict
  <2>2. QED
    BY <1>7, <1>10, <2>1 DEF PruneExpired, pgVars
<1>11. CASE MTick
  <2>1. now' \in Nat /\ now <= now' /\ UNCHANGED <<table, work, own, records>>
    BY <1>6, <1>11 DEF MTick, pgVars
  <2>2. \A m \in DOMAIN records : Lasting(records[m])'
    <3>1. ASSUME NEW m \in DOMAIN records PROVE Lasting(records[m])'
      <4>1. PICK e : e = records[m]
        OBVIOUS
      <4>2. Lasting(e)'
        BY <2>1, <4>1, LastsLonger
      <4>3. QED
        BY <2>1, <4>1, <4>2 DEF Lasting
    <3>2. QED
      BY <3>1
  <2>3. QED
    BY <1>5, <2>1, <2>2
<1>12. QED
  BY <1>2, <1>3, <1>4, <1>8, <1>9, <1>10, <1>11 DEF LNext

(* Whatever a search may return, what is recalled of it is sound. *)
LEMMA RecalledSound ==
  ASSUME StoreInv, Counters, MemoriesLast
  PROVE  RecallSound
<1> SUFFICES ASSUME NEW path \in SessionPaths, NEW scope \in Scopes, NEW found \in Recalls(path, scope),
                    NEW m \in found
             PROVE  /\ m \in Memories /\ PathOf[m] = path
                    /\ ScopeOf[m].user = scope.user
                    /\ ScopeOf[m].tenant = IF scope.tenant = "" THEN Namespace ELSE scope.tenant
                    /\ TTL # 0 => Expiry(m) - now \in 1..TTL
  BY DEF RecallSound
<1>1. m \in Searched(path) /\ ~isExpired(Expiry(m)) /\ ScopeOf[m] = normalized(scope)
  BY DEF Recalls, InScope
<1>2. m \in Memories /\ PathOf[m] = path /\ Lasting(Expiry(m))
  <2>1. CASE backend = "process"
    BY <1>1, <2>1 DEF Searched, Expiry, MemoriesLast
  <2>2. CASE backend # "process"
    <3>1. PICK k \in DOMAIN table : PathOf[ParentOf(k)] = path /\ m = ParentOf(k)
      BY <1>1, <2>2 DEF Searched
    <3>2. k \in Chunk /\ table[k] # Gone
      BY DEF StoreInv, WorkTypeOK, Rows
    <3>3. m \in Memories
      BY <3>1, <3>2, MemoryAssumption DEF Chunk, ParentOf, SessionPaths
    <3>4. k[2] = 1 /\ Lasting(table[k].expires)
      BY <3>1, <3>2, <3>3 DEF MemoriesLast, RowsLast, MemoryRow
    <3>5. k = <<m, 1>>
      BY <3>1, <3>2, <3>4 DEF Chunk, ParentOf
    <3>6. QED
      BY <2>2, <3>1, <3>3, <3>4, <3>5 DEF Expiry
  <2>3. QED
    BY <2>1, <2>2
<1>3. ScopeOf[m].user = scope.user
      /\ ScopeOf[m].tenant = IF scope.tenant = "" THEN Namespace ELSE scope.tenant
  BY <1>1, MemoryAssumption DEF normalized
<1>4. ASSUME TTL # 0 PROVE Expiry(m) - now \in 1..TTL
  <2>1. Expiry(m) \in 1..(now + TTL) /\ Expiry(m) # 0 /\ ~(Expiry(m) <= now)
    BY <1>1, <1>2, <1>4, MemoryAssumption DEF Lasting, isExpired, Counters
  <2>2. QED
    BY <2>1, MemoryAssumption DEF Counters
<1>5. QED
  BY <1>2, <1>3, <1>4

(* What is recalled belongs to the session and the scope that asked and    *)
(* has time left, whichever store kept it, whatever was memorized again,   *)
(* cleared and pruned meanwhile and however many documents share the       *)
(* store.                                                                  *)
THEOREM RecallIsSound == LSpec => []RecallSound
<1>1. LInit => MemoriesLast
  BY NothingTypes DEF LInit, PgInit, MemoriesLast, RowsLast, NoWork, Nothing
<1>2. MemoriesLast /\ Counters /\ StoreInv /\ [LNext]_memVars => MemoriesLast'
  <2> SUFFICES ASSUME MemoriesLast, Counters, StoreInv, [LNext]_memVars PROVE MemoriesLast'
    OBVIOUS
  <2>1. CASE LNext
    BY <2>1, MemoriesStep
  <2>2. CASE UNCHANGED memVars
    BY <2>2 DEF memVars, pgVars, MemoriesLast, RowsLast, MemoryRow, Lasting
  <2>3. QED
    BY <2>1, <2>2
<1>3. MemoriesLast /\ Counters /\ StoreInv => RecallSound
  BY RecalledSound
<1>4. QED
  BY <1>1, <1>2, <1>3, StoreInvariant, PTL DEF LSpec
=============================================================================
