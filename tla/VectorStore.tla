----------------------------- MODULE VectorStore -----------------------------
(***************************************************************************)
(* What a store of chunks promises the rest of the system (the interface   *)
(* VectorStore of vector_store.go, read with how directory_sync.go and     *)
(* long_term_memory.go use it): an import replaces everything the store    *)
(* holds of its parents in one step, and a deletion by source path touches *)
(* nothing but the chunks of those paths.                                  *)
(*                                                                         *)
(* A chunk is <<parent, index>>; a row tells the import it came from and   *)
(* how many chunks its parent had in that import.                          *)
(***************************************************************************)
EXTENDS Naturals, FiniteSets

CONSTANTS
  Parents,  \* documents, or memory records
  PathOf    \* the source path of each parent

VARIABLE table  \* the rows, by chunk

ParentOf(k) == k[1]
RowsOf(rows, p) == {k \in DOMAIN rows : ParentOf(k) = p}

(* The rows of p are all the chunks of import n of it. *)
WholeImport(rows, p, n) ==
  /\ RowsOf(rows, p) # {}
  /\ \A k \in RowsOf(rows, p) : rows[k].import = n /\ rows[k].of = Cardinality(RowsOf(rows, p))

(* Two tables agree on every parent but those in ps. *)
SameBut(ps, old, new) ==
  /\ {k \in DOMAIN old : ParentOf(k) \notin ps} = {k \in DOMAIN new : ParentOf(k) \notin ps}
  /\ \A k \in DOMAIN old : ParentOf(k) \notin ps => new[k] = old[k]

AtomicUpsert ==
  \E ps \in (SUBSET Parents) \ {{}} :
    /\ SameBut(ps, table, table')
    /\ \E n \in {table'[k].import : k \in DOMAIN table'} : \A p \in ps : WholeImport(table', p, n)

AtomicDelete ==
  \E path \in {PathOf[p] : p \in Parents} :
    /\ DOMAIN table' \subseteq DOMAIN table
    /\ \A k \in DOMAIN table' : table'[k] = table[k]
    /\ \A k \in DOMAIN table \ DOMAIN table' : PathOf[ParentOf(k)] = path

VSInit == DOMAIN table = {}

VSSpec == VSInit /\ [][AtomicUpsert \/ AtomicDelete]_table
==============================================================================
