---------------------------- MODULE KnowledgeSync ----------------------------
(***************************************************************************)
(* The knowledge of an agent: AddKnowledge, RemoveKnowledge and            *)
(* RebuildKnowledge (session.go, knowledge_lifecycle.go), the manifest of  *)
(* imported directories (directory_sync.go) and the vector store they      *)
(* write to (internal/storage/chromem_store.go), with DataDir set, so that *)
(* the index and the manifest outlive the process.                         *)
(*                                                                         *)
(* The text of a file is one of four contents: the file may be absent,     *)
(* empty, or hold one ("short") or two ("long") chunks.  Embeddings are    *)
(* not modelled.                                                           *)
(***************************************************************************)
EXTENDS Goroutines

CONSTANTS
  Roots,        \* directories that are imported with DirSource
  Under,        \* the files that may stand under each root
  FilePaths,    \* files that are imported with FileSource
  EmptyFiles,   \* may a file be empty?
  RawPaths,     \* may a FileSource spell its path other than filepath.Clean?
  Failures,     \* may contexts end, and the store and the disk fail?
  Crashes,      \* may the process crash?
  MaxEdits,     \* bound: changes of the files
  MaxOps        \* bound: calls of the three operations

Paths == FilePaths \cup UNION {Under[r] : r \in Roots}

ASSUME KnowledgeAssumption ==
  /\ Under \in [Roots -> SUBSET Paths]
  /\ {EmptyFiles, RawPaths, Failures, Crashes} \subseteq BOOLEAN
  /\ MaxEdits \in Nat /\ MaxOps \in Nat

VARIABLES
  disk,      \* what each file holds
  dirs,      \* the roots that exist
  index,     \* the chunks of the collection, in memory and on disk alike
  up,        \* is there an agent, or is the process down?
  manifest,  \* the paths that directory-sync-manifest.json holds
  torn,      \* it has been truncated and not been written
  roots,     \* directorySyncState.roots
  kpc,       \* position of each goroutine in an operation
  job,       \* its operation
  fresh,     \* observer: the last operation, if it succeeded and nobody
             \* else wrote to the index meanwhile or since
  edits, ops

manifestVars == <<manifest, torn, roots, up>>
callVars == <<kpc, job, fresh, ops>>
kVars == <<disk, dirs, edits, index, manifestVars, callVars>>

Contents == {"absent", "empty", "short", "long"}

(* Chunker.Split: the positions of the chunks. *)
Split(c) == CASE c = "short" -> {0} [] c = "long" -> {0, 1} [] OTHER -> {}

(* A chunk is identified by its path and position; src tells how the path  *)
(* is spelled in its metadata.                                             *)
Chunk == [path : Paths, pos : {0, 1}, text : Contents, src : {"clean", "raw"}]

Sources ==
  [kind : {"dir"}, root : Roots]
    \cup [kind : {"file"}, path : FilePaths, src : {"clean"} \cup (IF RawPaths THEN {"raw"} ELSE {})]

(* "lock" waits for directorySyncState.mu, which is held from "apply" to   *)
(* "commit" by an operation on a directory; "clean" holds                  *)
(* ChromemStore.upsertMu.                                                  *)
SyncPositions ==
  {"idle", "resolve", "load", "lock", "apply", "clean", "delete", "write", "written", "commit"}

NoFiles == [p \in Paths |-> "absent"]

(* What a goroutine that is not in an operation has. *)
NoJob ==
  [op |-> "none", rebuild |-> FALSE, source |-> [kind |-> "none"], files |-> {},
   loaded |-> NoFiles, doomed |-> {}, disturbed |-> FALSE]

Jobs ==
  [op : {"add", "remove"}, rebuild : BOOLEAN, source : Sources, files : SUBSET Paths,
   loaded : [Paths -> Contents], doomed : SUBSET Paths, disturbed : BOOLEAN]

KTypeOK ==
  /\ disk \in [Paths -> Contents] /\ dirs \subseteq Roots
  /\ index \subseteq Chunk
  /\ \A a, b \in index : a.path = b.path /\ a.pos = b.pos => a = b
  /\ manifest \in [Roots -> SUBSET Paths] /\ roots \in [Roots -> SUBSET Paths]
  /\ torn \in BOOLEAN /\ up \in BOOLEAN
  /\ kpc \in [Threads -> SyncPositions]
  /\ \A t \in Threads : kpc[t] # "idle" => job[t] \in Jobs
  /\ fresh \subseteq [paths : SUBSET Paths, want : [Paths -> Contents]]
  /\ edits \in 0..MaxEdits /\ ops \in 0..MaxOps

NoRoots == [r \in Roots |-> {}]

KInit ==
  /\ disk = NoFiles /\ dirs = Roots
  /\ index = {}
  /\ manifest = NoRoots /\ torn = FALSE /\ roots = NoRoots /\ up = TRUE
  /\ kpc = [t \in Threads |-> "idle"] /\ job = [t \in Threads |-> NoJob]
  /\ fresh = {}
  /\ edits = 0 /\ ops = 0
-----------------------------------------------------------------------------
IsDir(t) == job[t].source.kind = "dir"
Root(t) == job[t].source.root
InSync(t) == kpc[t] \in {"apply", "clean", "delete", "write", "written", "commit"} /\ IsDir(t)
muFree == \A t \in Threads : ~InSync(t)

(* Mutant: the store is still locked when it is asked to delete. *)
upsertMuKept == \A t \in Threads : kpc[t] \notin {"clean", "delete"}
upsertMuFree == \A t \in Threads : kpc[t] # "clean"

KGoto(t, p) == kpc' = At(kpc, t, p)

(* The jobs when t goes on with its own as given; wrote tells whether it   *)
(* wrote to the index, which disturbs the operations of the others.        *)
Continue(t, own, wrote) ==
  job' = [u \in Threads |-> IF u = t THEN own
                            ELSE [job[u] EXCEPT !.disturbed = @ \/ (wrote /\ kpc[u] # "idle")]]

(* The operation goes on at p, having written to the index. *)
GoOn(t, p) == KGoto(t, p) /\ Continue(t, job[t], TRUE) /\ fresh' = {}

(* The operation returns an error; what it holds is released. *)
Fail(t, wrote) ==
  /\ KGoto(t, "idle")
  /\ Continue(t, NoJob, wrote)
  /\ fresh' = IF wrote THEN {} ELSE fresh

(* The operation has succeeded.  RebuildKnowledge adds after it removed.   *)
Succeed(t, wrote) ==
  /\ IF job[t].op = "remove" /\ job[t].rebuild
     THEN KGoto(t, "resolve") /\ Continue(t, [job[t] EXCEPT !.op = "add"], wrote)
     ELSE KGoto(t, "idle") /\ Continue(t, NoJob, wrote)
  /\ fresh' = IF IsDir(t) /\ job[t].disturbed THEN {}
              ELSE {[paths |-> IF IsDir(t) THEN Under[Root(t)] ELSE {job[t].source.path},
                     want |-> IF job[t].op = "add" THEN job[t].loaded ELSE NoFiles]}
-----------------------------------------------------------------------------
(* The files change; to write one is to have its directory. *)
EditFile(p, c) ==
  /\ edits < MaxEdits
  /\ c # disk[p]
  /\ c = "empty" => EmptyFiles
  /\ disk' = [disk EXCEPT ![p] = c]
  /\ dirs' = dirs \cup (IF c = "absent" THEN {} ELSE {r \in Roots : p \in Under[r]})
  /\ edits' = edits + 1
  /\ UNCHANGED <<index, manifestVars, callVars>>

DropDirectory(r) ==
  /\ edits < MaxEdits
  /\ r \in dirs
  /\ dirs' = dirs \ {r}
  /\ disk' = [p \in Paths |-> IF p \in Under[r] THEN "absent" ELSE disk[p]]
  /\ edits' = edits + 1
  /\ UNCHANGED <<index, manifestVars, callVars>>
-----------------------------------------------------------------------------
(* AddKnowledge, RemoveKnowledge or RebuildKnowledge begins.               *)
(* ensureDirectorySync finds what New has loaded.                          *)
Start(t, op, rebuild, source) ==
  /\ up
  /\ kpc[t] = "idle"
  /\ ops < MaxOps
  /\ ops' = ops + 1
  /\ rebuild => op = "remove"
  /\ job' = At(job, t, [NoJob EXCEPT !.op = op, !.rebuild = rebuild, !.source = source])
  /\ KGoto(t, "resolve")
  /\ UNCHANGED <<disk, dirs, edits, index, manifestVars, fresh>>

(* The files of the source now.  RemoveKnowledge does not look for the     *)
(* file of a FileSource, it deletes by its name.                           *)
Listed(t) ==
  IF IsDir(t) THEN {p \in Under[Root(t)] : disk[p] # "absent"} ELSE {job[t].source.path}

Resolvable(t) ==
  IF IsDir(t) THEN Root(t) \in dirs
              ELSE job[t].op = "remove" \/ disk[job[t].source.path] # "absent"

(* KnowledgeSource.Resolve.  The error of a directory that is gone is      *)
(* wrapped, so the os.IsNotExist of RemoveKnowledge does not recognise it. *)
Resolve(t) ==
  /\ kpc[t] = "resolve"
  /\ Resolvable(t)
  /\ job' = [job EXCEPT ![t].files = Listed(t),
                        ![t].doomed = IF IsDir(t) THEN {} ELSE Listed(t)]
  /\ KGoto(t, IF job[t].op = "add" THEN "load" ELSE IF IsDir(t) THEN "lock" ELSE "delete")
  /\ UNCHANGED <<disk, dirs, edits, index, manifestVars, fresh, ops>>

ResolveFails(t) ==
  /\ kpc[t] = "resolve"
  /\ ~Resolvable(t) \/ Failures
  /\ Fail(t, FALSE)
  /\ UNCHANGED <<disk, dirs, edits, index, manifestVars, ops>>

(* Every file is read, split and embedded. *)
LoadFiles(t) ==
  /\ kpc[t] = "load"
  /\ \A p \in job[t].files : disk[p] # "absent"
  /\ job' = [job EXCEPT ![t].loaded = [p \in Paths |-> IF p \in job[t].files THEN disk[p] ELSE "absent"]]
  /\ KGoto(t, IF IsDir(t) THEN "lock" ELSE "apply")
  /\ UNCHANGED <<disk, dirs, edits, index, manifestVars, fresh, ops>>

LoadFilesFails(t) ==
  /\ kpc[t] = "load"
  /\ Failures \/ \E p \in job[t].files : disk[p] = "absent"
  /\ Fail(t, FALSE)
  /\ UNCHANGED <<disk, dirs, edits, index, manifestVars, ops>>

(* Mutant: the listing is compared with itself instead of the last one. *)
LockSyncNoStale(t) ==
  /\ kpc[t] = "lock"
  /\ muFree
  /\ LET known == roots[Root(t)]
     IN  job' = [job EXCEPT ![t].disturbed = FALSE, ![t].doomed =
                   IF job[t].op = "add" THEN job[t].files \ job[t].files ELSE known \cup job[t].files]
  /\ KGoto(t, IF job[t].op = "add" THEN "apply" ELSE "delete")
  /\ UNCHANGED <<disk, dirs, edits, index, manifestVars, fresh, ops>>

(* directorySyncState.Sync and Remove lock mu and work out which paths to  *)
(* delete.                                                                 *)
LockSync(t) ==
  /\ kpc[t] = "lock"
  /\ muFree
  /\ LET known == roots[Root(t)]
     IN  job' = [job EXCEPT ![t].disturbed = FALSE, ![t].doomed =
                   IF job[t].op = "add" THEN known \ job[t].files ELSE known \cup job[t].files]
  /\ KGoto(t, IF job[t].op = "add" THEN "apply" ELSE "delete")
  /\ UNCHANGED <<disk, dirs, edits, index, manifestVars, fresh, ops>>
-----------------------------------------------------------------------------
(* Files that produced chunks; the others are not in the batch. *)
Batch(t) == {p \in job[t].files : Split(job[t].loaded[p]) # {}}

NewChunks(t, p) ==
  {[path |-> p, pos |-> i, text |-> job[t].loaded[p],
    src |-> IF IsDir(t) THEN "clean" ELSE job[t].source.src] : i \in Split(job[t].loaded[p])}

Overwrites(new, c) == \E n \in new : n.path = c.path /\ n.pos = c.pos

(* An empty batch is not upserted. *)
SkipUpsert(t) ==
  /\ kpc[t] = "apply"
  /\ Batch(t) = {}
  /\ IF IsDir(t) THEN KGoto(t, "delete") /\ UNCHANGED <<job, fresh>> ELSE Succeed(t, FALSE)
  /\ UNCHANGED <<disk, dirs, edits, index, manifestVars, ops>>

Added(t) == UNION {NewChunks(t, p) : p \in Batch(t)}

(* Upsert, first half: AddDocuments adds or overwrites the new chunks, or  *)
(* fails on the way.                                                       *)
AddDocuments(t, new) ==
  /\ kpc[t] = "apply"
  /\ Batch(t) # {}
  /\ upsertMuFree
  /\ new = Added(t) \/ Failures
  /\ index' = {c \in index : ~Overwrites(new, c)} \cup new
  /\ IF new = Added(t) THEN GoOn(t, "clean") ELSE Fail(t, TRUE)
  /\ UNCHANGED <<disk, dirs, edits, manifestVars, ops>>

(* Mutant: the chunks of the batch are taken for the stale ones. *)
StaleInverted(t) == {c \in index : c.path \in Batch(t) /\ c.pos \in Split(job[t].loaded[c.path])}

(* Mutant: chunks beyond the new ones are left. *)
StaleNone(t) == {c \in index : c.path \in Batch(t) /\ c.pos < 0}

(* The chunks of the same parents that are not in the batch. *)
Stale(t) == {c \in index : c.path \in Batch(t) /\ c.pos \notin Split(job[t].loaded[c.path])}

(* Upsert, second half: the stale chunks are deleted.  A context that has  *)
(* ended meanwhile is reported after all of the work is done.              *)
CleanStale(t) ==
  /\ kpc[t] = "clean"
  /\ index' = index \ Stale(t)
  /\ IF IsDir(t) THEN GoOn(t, "delete") ELSE Succeed(t, TRUE)
  /\ UNCHANGED <<disk, dirs, edits, manifestVars, ops>>

CleanStaleFails(t, gone) ==
  /\ kpc[t] = "clean"
  /\ Failures
  /\ index' = index \ gone
  /\ Fail(t, TRUE)
  /\ UNCHANGED <<disk, dirs, edits, manifestVars, ops>>

(* DeleteBySourcePaths removes the chunks whose metadata spell the path    *)
(* that way.                                                               *)
Doomed(t) == {c \in index : c.path \in job[t].doomed /\ c.src = "clean"}

(* Nothing to delete: the store is not called. *)
SkipDelete(t) ==
  /\ kpc[t] = "delete"
  /\ job[t].doomed = {}
  /\ KGoto(t, "write")
  /\ UNCHANGED <<disk, dirs, edits, index, manifestVars, job, fresh, ops>>

DeletePaths(t) ==
  /\ kpc[t] = "delete"
  /\ job[t].doomed # {}
  /\ upsertMuFree
  /\ index' = index \ Doomed(t)
  /\ IF IsDir(t) THEN GoOn(t, "write") ELSE Succeed(t, TRUE)
  /\ UNCHANGED <<disk, dirs, edits, manifestVars, ops>>

DeletePathsFails(t, gone) ==
  /\ kpc[t] = "delete"
  /\ job[t].doomed # {}
  /\ upsertMuFree
  /\ Failures
  /\ index' = index \ gone
  /\ Fail(t, TRUE)
  /\ UNCHANGED <<disk, dirs, edits, manifestVars, ops>>
-----------------------------------------------------------------------------
(* The roots after the operation: a root without files is left out. *)
NextRoots(t) == [roots EXCEPT ![Root(t)] = IF job[t].op = "add" THEN job[t].files ELSE {}]

(* persist: os.WriteFile truncates the manifest, which then holds nothing, *)
(* and writes it.                                                          *)
OpenManifest(t) ==
  /\ kpc[t] = "write"
  /\ torn' = TRUE /\ manifest' = NoRoots
  /\ KGoto(t, "written")
  /\ UNCHANGED <<disk, dirs, edits, index, roots, up, job, fresh, ops>>

WriteManifest(t) ==
  /\ kpc[t] = "written"
  /\ manifest' = NextRoots(t)
  /\ torn' = FALSE
  /\ KGoto(t, "commit")
  /\ UNCHANGED <<disk, dirs, edits, index, roots, up, job, fresh, ops>>

(* The disk fails before or after the truncation. *)
WriteFails(t) ==
  /\ kpc[t] \in {"write", "written"}
  /\ Failures
  /\ Fail(t, FALSE)
  /\ UNCHANGED <<disk, dirs, edits, index, manifestVars, ops>>

CommitRoots(t) ==
  /\ kpc[t] = "commit"
  /\ roots' = NextRoots(t)
  /\ Succeed(t, FALSE)
  /\ UNCHANGED <<disk, dirs, edits, index, manifest, torn, up, ops>>
-----------------------------------------------------------------------------
(* The process ends: it dies in the middle of operations, or between them. *)
Crash ==
  /\ Crashes
  /\ up
  /\ up' = FALSE
  /\ kpc' = [t \in Threads |-> "idle"]
  /\ job' = [t \in Threads |-> NoJob]
  /\ roots' = NoRoots
  /\ fresh' = {}
  /\ UNCHANGED <<disk, dirs, edits, index, manifest, torn, ops>>

(* A new agent on the same DataDir: New loads the manifest.  One that is   *)
(* torn is no JSON: New fails, and there is no agent.                      *)
Restart ==
  /\ ~up
  /\ ~torn
  /\ up' = TRUE
  /\ roots' = manifest
  /\ UNCHANGED <<disk, dirs, edits, index, manifest, torn, callVars>>

KStep(t) ==
  \/ Resolve(t) \/ ResolveFails(t) \/ LoadFiles(t) \/ LoadFilesFails(t)
  \/ LockSync(t) \/ SkipUpsert(t)
  \/ \E new \in SUBSET Added(t) : AddDocuments(t, new)
  \/ CleanStale(t) \/ \E gone \in SUBSET Stale(t) : CleanStaleFails(t, gone)
  \/ SkipDelete(t) \/ DeletePaths(t) \/ \E gone \in SUBSET Doomed(t) : DeletePathsFails(t, gone)
  \/ OpenManifest(t) \/ WriteManifest(t) \/ WriteFails(t) \/ CommitRoots(t)

KNext ==
  \/ \E p \in Paths, c \in Contents : EditFile(p, c)
  \/ \E r \in Roots : DropDirectory(r)
  \/ \E t \in Threads :
       \/ \E op \in {"add", "remove"}, rebuild \in BOOLEAN, source \in Sources :
            Start(t, op, rebuild, source)
       \/ KStep(t)
  \/ Crash
  \/ Restart

KSpec == KInit /\ [][KNext]_kVars

(* Operations keep running, and the mutexes are handed out fairly. *)
FairKSpec == KSpec /\ \A t \in Threads : SF_kVars(KStep(t))
-----------------------------------------------------------------------------
Texts(p) == {<<c.pos, c.text>> : c \in {d \in index : d.path = p}}

(* A successful import, undisturbed by other writers, leaves in the index  *)
(* exactly the chunks of the files that the source had, however many       *)
(* imports and removals came before; a successful removal leaves none.     *)
(* Nothing fails on the way: what a failed import has added of a file that *)
(* is gone by the next one stays behind, as no roots mention it.           *)
MirrorsSource ==
  \A f \in fresh : \A p \in f.paths :
    Texts(p) = {<<i, f.want[p]>> : i \in Split(f.want[p])}

(* Whatever failed before: an import that fails between the adding of the  *)
(* new chunks and the deletion of the old ones leaves both, and a          *)
(* successful one repairs that.  Of every file that it found text in, the  *)
(* index then holds exactly the chunks.                                    *)
RetryRepairs ==
  \A f \in fresh : \A p \in f.paths :
    Split(f.want[p]) # {} => Texts(p) = {<<i, f.want[p]>> : i \in Split(f.want[p])}

Tracked(m) == UNION {m[r] : r \in Roots}

(* What the agent will delete when a file is gone: the roots in memory, or *)
(* those that the next agent is going to find.                             *)
Remembered == Tracked(IF up THEN roots ELSE manifest)

(* A path is forgotten only when the index has nothing left of it, so that *)
(* a deletion that failed is tried again by the next import, or after a    *)
(* restart.  The exception is a process that ends while the manifest is    *)
(* truncated, before its writing or after that has failed: its paths are   *)
(* lost, and New refuses the file.                                         *)
ForgetsOnlyDeleted ==
  [][\A p \in Remembered \ Remembered' : Texts(p) = {} \/ (~up' /\ torn')]_kVars

(* An update never makes a file disappear on the way: as long as no empty  *)
(* file is imported and nothing fails, a tracked file is in the index at   *)
(* every moment, unless an operation that deletes it is under way.         *)
StaysSearchable ==
  \A p \in Tracked(roots) :
    Texts(p) # {} \/ \E t \in Threads : InSync(t) /\ p \in job[t].doomed

(* Every operation returns, and releases its locks. *)
OperationsReturn == \A t \in Threads : kpc[t] # "idle" ~> kpc[t] = "idle"
=============================================================================
