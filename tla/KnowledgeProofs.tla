--------------------------- MODULE KnowledgeProofs ---------------------------
(***************************************************************************)
(* Proofs about KnowledgeSync, for any set of directories and files: the   *)
(* manifest forgets only what is deleted and a success repairs what failed *)
(* before it, whatever fails and whenever the process dies; and, when      *)
(* nothing fails, tracked files stay searchable and the index mirrors the  *)
(* source.                                                                 *)
(***************************************************************************)
EXTENDS KnowledgeSync, TLAPS

(* No file is imported both by itself and with a directory; directories    *)
(* have no file in common.                                                 *)
FilesApart == \A r \in Roots : Under[r] \cap FilePaths = {}
RootsApart == \A r, q \in Roots : r # q => Under[r] \cap Under[q] = {}

(* A run without empty files, failures and crashes. *)
Smooth == ~EmptyFiles /\ ~Failures /\ ~Crashes
-----------------------------------------------------------------------------
Records ==
  [op : {"none", "add", "remove"}, rebuild : BOOLEAN, source : Sources \cup {[kind |-> "none"]},
   files : SUBSET Paths, loaded : [Paths -> Contents], doomed : SUBSET Paths, disturbed : BOOLEAN]

KTypes ==
  /\ KTypeOK
  /\ job \in [Threads -> Records]

(* The paths an operation concerns. *)
Scope(t) == IF IsDir(t) THEN Under[Root(t)] ELSE {job[t].source.path}

(* Every operation stays within the paths of its source.                   *)
ThreadInScope(t) ==
  /\ kpc[t] # "idle" => job[t].files \subseteq Scope(t) /\ job[t].doomed \subseteq Scope(t)
  /\ kpc[t] \in {"lock", "write", "written", "commit"} => IsDir(t)
  /\ kpc[t] = "delete" /\ ~IsDir(t) => job[t].doomed # {} /\ job[t].op = "remove"
  /\ kpc[t] \in {"load", "apply", "clean"} => job[t].op = "add"

InScope ==
  /\ \A t \in Threads : ThreadInScope(t)
  /\ \A r \in Roots : manifest[r] \subseteq Under[r] /\ roots[r] \subseteq Under[r]

(* directorySyncState.mu excludes. *)
OneSync == \A t, u \in Threads : InSync(t) /\ InSync(u) => t = u

(* A truncated manifest holds nothing.  Otherwise what an agent has in     *)
(* memory is the manifest, but between its writing and the commit; without *)
(* an agent there is neither memory nor operation.                         *)
RootsKept ==
  /\ torn => manifest = NoRoots
  /\ \A t \in Threads : kpc[t] = "commit" => ~torn /\ manifest = NextRoots(t)
  /\ up /\ ~torn /\ (\A t \in Threads : kpc[t] # "commit") => manifest = roots
  /\ ~up => roots = NoRoots /\ \A t \in Threads : kpc[t] = "idle"

(* What the manifest will have for the directory of t when t commits, and  *)
(* what it will forget.                                                    *)
NextFiles(t) == IF job[t].op = "add" THEN job[t].files ELSE {}
Forgotten(t) == roots[Root(t)] \ NextFiles(t)

(* It is due to be deleted, and then deleted. *)
Deleting ==
  \A t \in Threads : InSync(t) =>
    /\ kpc[t] \in {"apply", "clean", "delete"} => Forgotten(t) \subseteq job[t].doomed
    /\ kpc[t] \in {"write", "written", "commit"} => \A p \in Forgotten(t) : Texts(p) = {}

(* Only a FileSource spells a path otherwise than filepath.Clean. *)
CleanDirs == \A c \in index : c.path \notin FilePaths => c.src = "clean"

SyncInv == KTypes /\ InScope /\ OneSync /\ RootsKept /\ Deleting /\ CleanDirs
-----------------------------------------------------------------------------
(* What an import has read of p is in the index, and nothing else of p. *)
Imported(t, p) == Texts(p) = {<<i, job[t].loaded[p]>> : i \in Split(job[t].loaded[p])}

(* Without failures: no file is empty, and the agent stays; what an        *)
(* operation has read and found.                                           *)
ReadingOf(t) ==
  /\ kpc[t] \notin {"idle", "resolve", "load"} /\ job[t].op = "add" =>
       \A p \in Paths : IF p \in job[t].files THEN job[t].loaded[p] \in {"short", "long"}
                                              ELSE job[t].loaded[p] = "absent"
  /\ kpc[t] \in {"load", "apply", "clean"} /\ ~IsDir(t) => job[t].files = Scope(t)
  /\ kpc[t] = "delete" /\ ~IsDir(t) => job[t].doomed = Scope(t)

Reading ==
  /\ \A p \in Paths : disk[p] # "empty"
  /\ up
  /\ \A t \in Threads : ReadingOf(t)

(* upsertMu excludes. *)
OneUpsert == \A t, u \in Threads : kpc[t] = "clean" /\ kpc[u] = "clean" => t = u

(* What of it is in the index already; an import deletes none of its files.*)
ImportingOf(t) ==
  /\ kpc[t] = "clean" => Added(t) \subseteq index
  /\ IsDir(t) /\ job[t].op = "add" =>
       /\ kpc[t] \in {"delete", "write", "written", "commit"} => \A p \in job[t].files : Imported(t, p)
       /\ kpc[t] \in {"apply", "clean", "delete"} => job[t].doomed \cap job[t].files = {}

Importing == \A t \in Threads : ImportingOf(t)

(* Nothing of a directory is in the index that is not tracked or just      *)
(* being imported.                                                         *)
Accounted ==
  \A r \in Roots : \A p \in Under[r] \ roots[r] :
    \/ Texts(p) = {}
    \/ \E t \in Threads : InSync(t) /\ Root(t) = r /\ job[t].op = "add" /\ p \in job[t].files

SmoothInv == Reading /\ OneUpsert /\ Importing /\ Accounted /\ StaysSearchable

(* Without RawPaths every chunk is spelled the one way. *)
AllClean == \A c \in index : c.src = "clean"
-----------------------------------------------------------------------------
(* The fields of a source. *)
LEMMA SourceFields ==
  ASSUME NEW s \in Sources
  PROVE  /\ s.kind = "dir" => s.root \in Roots
         /\ s.kind # "dir" => /\ s.path \in FilePaths /\ s.src \in {"clean", "raw"}
                              /\ ~RawPaths => s.src = "clean"
BY DEF Sources

(* The files of a directory, and a file, are paths. *)
LEMMA PathsOf ==
  /\ \A r \in Roots : Under[r] \subseteq Paths
  /\ FilePaths \subseteq Paths
BY DEF Paths

(* The job of an operation is a record with an operation and a source. *)
LEMMA JobFields ==
  ASSUME NEW j
  PROVE  j \in Jobs <=> j \in Records /\ j.op # "none" /\ j.source \in Sources
BY DEF Jobs, Records

(* What a goroutine has that is not in an operation is a record as well.   *)
LEMMA NoJobType == NoJob \in Records
BY DEF NoJob, Records, NoFiles, Contents

(* What a step of t leaves of the jobs of the others: all that matters.    *)
KeptJob(u) ==
  /\ kpc'[u] = kpc[u]
  /\ job'[u].op = job[u].op /\ job'[u].rebuild = job[u].rebuild /\ job'[u].source = job[u].source
  /\ job'[u].files = job[u].files /\ job'[u].loaded = job[u].loaded /\ job'[u].doomed = job[u].doomed

(* The types of positions and jobs. *)
CallTypes ==
  /\ kpc \in [Threads -> SyncPositions]
  /\ \A t \in Threads : kpc[t] # "idle" => job[t] \in Jobs
  /\ job \in [Threads -> Records]

(* t moves to p with the given job. *)
Moved(t, p, own) ==
  /\ CallTypes'
  /\ kpc'[t] = p /\ job'[t] = own
  /\ \A u \in Threads \ {t} : KeptJob(u)

(* A step that assigns the job of t, or goes on as Continue says, moves t. *)
LEMMA Moves ==
  ASSUME CallTypes, NEW t \in Threads, NEW p \in SyncPositions, NEW own \in Records,
         p # "idle" => own \in Jobs, NEW wrote \in BOOLEAN,
         KGoto(t, p), Continue(t, own, wrote) \/ job' = [job EXCEPT ![t] = own]
  PROVE  Moved(t, p, own)
<1>1. kpc' \in [Threads -> SyncPositions] /\ kpc'[t] = p /\ \A u \in Threads \ {t} : kpc'[u] = kpc[u]
  BY DEF CallTypes, KGoto, At
<1>2. /\ job' \in [Threads -> Records] /\ job'[t] = own
      /\ \A u \in Threads \ {t} : KeptJob(u) /\ (kpc[u] # "idle" => job'[u] \in Jobs)
  <2>1. CASE job' = [job EXCEPT ![t] = own]
    BY <1>1, <2>1 DEF CallTypes, KeptJob
  <2>2. CASE Continue(t, own, wrote)
    <3>1. job' = [u \in Threads |-> IF u = t THEN own
                                    ELSE [job[u] EXCEPT !.disturbed = @ \/ (wrote /\ kpc[u] # "idle")]]
      BY <2>2 DEF Continue
    <3>2. ASSUME NEW u \in Threads \ {t}
          PROVE  job'[u] \in Records /\ KeptJob(u) /\ (kpc[u] # "idle" => job'[u] \in Jobs)
      <4>1. PICK d \in BOOLEAN : job'[u] = [job[u] EXCEPT !.disturbed = d]
        <5>1. job[u] \in Records
          BY DEF CallTypes
        <5>2. (job[u].disturbed \/ (wrote /\ kpc[u] # "idle")) \in BOOLEAN
          BY <5>1 DEF Records
        <5>3. QED
          BY <3>1, <3>2, <5>2
      <4>2. job[u] \in Records
        BY DEF CallTypes
      <4>3. job'[u] \in Records /\ KeptJob(u)
        BY <1>1, <4>1, <4>2 DEF Records, KeptJob
      <4>4. kpc[u] # "idle" => job'[u] \in Jobs
        BY <4>3, JobFields DEF CallTypes, KeptJob
      <4>5. QED
        BY <4>3, <4>4
    <3>3. job'[t] = own /\ job' \in [Threads -> Records]
      BY <3>1, <3>2
    <3>4. QED
      BY <3>2, <3>3
  <2>3. QED
    BY <2>1, <2>2
<1>3. CallTypes'
  BY <1>1, <1>2 DEF CallTypes
<1>4. QED
  BY <1>1, <1>2, <1>3 DEF Moved

(* Sets of chunks with one text for each path and position. *)
LEMMA NewChunkType ==
  ASSUME NEW t \in Threads, job[t] \in Jobs, NEW c \in Added(t)
  PROVE  /\ c \in Chunk /\ c.path \in job[t].files /\ c.pos \in Split(job[t].loaded[c.path])
         /\ c.text = job[t].loaded[c.path]
         /\ c.src = IF IsDir(t) THEN "clean" ELSE job[t].source.src
<1>1. PICK p \in Batch(t) : c \in NewChunks(t, p)
  BY DEF Added
<1>2. p \in job[t].files /\ p \in Paths /\ job[t].loaded[p] \in Contents
  BY <1>1 DEF Batch, Jobs
<1>3. PICK i \in Split(job[t].loaded[p]) :
        c = [path |-> p, pos |-> i, text |-> job[t].loaded[p],
             src |-> IF IsDir(t) THEN "clean" ELSE job[t].source.src]
  BY <1>1 DEF NewChunks
<1>4. i \in {0, 1}
  BY <1>3 DEF Split
<1>5. (IF IsDir(t) THEN "clean" ELSE job[t].source.src) \in {"clean", "raw"}
  BY JobFields, SourceFields DEF IsDir
<1>6. QED
  BY <1>2, <1>3, <1>4, <1>5 DEF Chunk
-----------------------------------------------------------------------------
(* A success sends t on to the import of a RebuildKnowledge, or back. *)
Succeeded(t) ==
  IF job[t].op = "remove" /\ job[t].rebuild THEN Moved(t, "resolve", [job[t] EXCEPT !.op = "add"])
                                            ELSE Moved(t, "idle", NoJob)

(* Succeed, whether or not it wrote to the index. *)
LEMMA SucceedMoves ==
  ASSUME CallTypes, NEW t \in Threads, kpc[t] # "idle", NEW wrote \in BOOLEAN, Succeed(t, wrote)
  PROVE  Succeeded(t)
<1>1. job[t] \in Jobs /\ job[t] \in Records
  BY DEF CallTypes
<1>2. CASE job[t].op = "remove" /\ job[t].rebuild
  <2> DEFINE own == [job[t] EXCEPT !.op = "add"]
  <2>1. own \in Records /\ own \in Jobs
    BY <1>1 DEF Records, Jobs
  <2>2. KGoto(t, "resolve") /\ Continue(t, own, wrote)
    BY <1>2 DEF Succeed
  <2> HIDE DEF own
  <2>3. Moved(t, "resolve", own)
    BY <2>1, <2>2, Moves DEF SyncPositions
  <2>4. QED
    BY <1>2, <2>3 DEF own, Succeeded
<1>3. CASE ~(job[t].op = "remove" /\ job[t].rebuild)
  <2>1. KGoto(t, "idle") /\ Continue(t, NoJob, wrote)
    BY <1>3 DEF Succeed
  <2>2. Moved(t, "idle", NoJob)
    BY <2>1, NoJobType, Moves DEF SyncPositions
  <2>3. QED
    BY <1>3, <2>2 DEF Succeeded
<1>4. QED
  BY <1>2, <1>3

(* A failure sends t back without a job. *)
LEMMA FailMoves ==
  ASSUME CallTypes, NEW t \in Threads, NEW wrote \in BOOLEAN, Fail(t, wrote)
  PROVE  Moved(t, "idle", NoJob)
BY NoJobType, Moves DEF Fail, SyncPositions

(* Going on leaves t its job. *)
LEMMA GoOnMoves ==
  ASSUME CallTypes, NEW t \in Threads, kpc[t] # "idle", NEW p \in SyncPositions, GoOn(t, p)
  PROVE  Moved(t, p, job[t])
<1>1. job[t] \in Jobs /\ job[t] \in Records
  BY DEF CallTypes
<1>2. KGoto(t, p) /\ Continue(t, job[t], TRUE)
  BY DEF GoOn
<1>3. QED
  BY <1>1, <1>2, Moves

(* So does a step that only moves it. *)
LEMMA GotoMoves ==
  ASSUME CallTypes, NEW t \in Threads, kpc[t] # "idle", NEW p \in SyncPositions, KGoto(t, p), job' = job
  PROVE  Moved(t, p, job[t])
<1>1. job[t] \in Jobs /\ job[t] \in Records /\ job' = [job EXCEPT ![t] = job[t]]
  BY DEF CallTypes
<1>2. QED
  BY <1>1, Moves

(* Where each step takes its goroutine, and with which job. *)
ResolveTo(t) == IF job[t].op = "add" THEN "load" ELSE IF IsDir(t) THEN "lock" ELSE "delete"

(* Resolve replaces the files, and what a RemoveKnowledge of a file        *)
(* deletes.                                                                *)
LEMMA ResolveMoves ==
  ASSUME CallTypes, NEW t \in Threads, Resolve(t)
  PROVE  Moved(t, ResolveTo(t), [job[t] EXCEPT !.files = Listed(t), !.doomed = IF IsDir(t) THEN {} ELSE Listed(t)])
<1> DEFINE doomed == IF IsDir(t) THEN {} ELSE Listed(t)
           own == [job[t] EXCEPT !.files = Listed(t), !.doomed = doomed]
<1>1. job[t] \in Jobs /\ job[t] \in Records /\ job[t].source \in Sources
  BY JobFields DEF CallTypes, Resolve
<1>2. Listed(t) \subseteq Paths
  BY <1>1, SourceFields, PathsOf DEF Listed, IsDir, Root
<1>3. doomed \subseteq Paths
  BY <1>2
<1>4. job' = [job EXCEPT ![t] = own] /\ KGoto(t, ResolveTo(t))
  <2>1. job' = [job EXCEPT ![t].files = Listed(t), ![t].doomed = doomed]
    BY DEF Resolve
  <2> HIDE DEF doomed
  <2>2. job' = [job EXCEPT ![t] = own]
    BY <1>1, <2>1 DEF CallTypes, Records
  <2>3. QED
    BY <2>2 DEF Resolve, ResolveTo
<1> HIDE DEF doomed
<1>5. own \in Records /\ own \in Jobs
  BY <1>1, <1>2, <1>3 DEF Records, Jobs
<1>6. ResolveTo(t) \in SyncPositions
  BY DEF ResolveTo, SyncPositions
<1> HIDE DEF own
<1>7. Moved(t, ResolveTo(t), own)
  BY <1>4, <1>5, <1>6, Moves
<1>8. QED
  BY <1>7 DEF own, doomed

ReadOf(t) == [p \in Paths |-> IF p \in job[t].files THEN disk[p] ELSE "absent"]

(* LoadFiles replaces what was read. *)
LEMMA LoadMoves ==
  ASSUME CallTypes, disk \in [Paths -> Contents], NEW t \in Threads, LoadFiles(t)
  PROVE  Moved(t, IF IsDir(t) THEN "lock" ELSE "apply", [job[t] EXCEPT !.loaded = ReadOf(t)])
<1> DEFINE own == [job[t] EXCEPT !.loaded = ReadOf(t)]
<1>1. job[t] \in Jobs /\ job[t] \in Records
  BY DEF CallTypes, LoadFiles
<1>2. ReadOf(t) \in [Paths -> Contents]
  BY DEF ReadOf, Contents
<1>3. job' = [job EXCEPT ![t] = own] /\ KGoto(t, IF IsDir(t) THEN "lock" ELSE "apply")
  BY DEF LoadFiles, ReadOf
<1>4. own \in Records /\ own \in Jobs
  BY <1>1, <1>2 DEF Records, Jobs
<1>5. QED
  BY <1>3, <1>4, Moves DEF SyncPositions

DoomedOf(t) == IF job[t].op = "add" THEN roots[Root(t)] \ job[t].files ELSE roots[Root(t)] \cup job[t].files

(* LockSync replaces what is to be deleted. *)
LEMMA LockMoves ==
  ASSUME CallTypes, NEW t \in Threads, IsDir(t), roots \in [Roots -> SUBSET Paths], LockSync(t)
  PROVE  Moved(t, IF job[t].op = "add" THEN "apply" ELSE "delete",
               [job[t] EXCEPT !.disturbed = FALSE, !.doomed = DoomedOf(t)])
<1> DEFINE own == [job[t] EXCEPT !.disturbed = FALSE, !.doomed = DoomedOf(t)]
<1>1. job[t] \in Jobs /\ job[t] \in Records /\ job[t].source \in Sources
  BY JobFields DEF CallTypes, LockSync
<1>2. Root(t) \in Roots
  BY <1>1, SourceFields DEF IsDir, Root
<1>3. DoomedOf(t) \subseteq Paths
  BY <1>1, <1>2 DEF DoomedOf, Records
<1>4. job' = [job EXCEPT ![t] = own] /\ KGoto(t, IF job[t].op = "add" THEN "apply" ELSE "delete")
  <2>1. job' = [job EXCEPT ![t].disturbed = FALSE, ![t].doomed = DoomedOf(t)]
    BY DEF LockSync, DoomedOf
  <2>2. job' = [job EXCEPT ![t] = own]
    BY <1>1, <2>1 DEF CallTypes, Records
  <2>3. QED
    BY <2>2 DEF LockSync
<1>5. own \in Records /\ own \in Jobs
  BY <1>1, <1>3 DEF Records, Jobs
<1>6. QED
  BY <1>4, <1>5, Moves DEF SyncPositions
-----------------------------------------------------------------------------
IndexOK ==
  /\ index \subseteq Chunk
  /\ \A a, b \in index : a.path = b.path /\ a.pos = b.pos => a = b

FreshOK == fresh \subseteq [paths : SUBSET Paths, want : [Paths -> Contents]]

ManifestOK ==
  /\ manifest \in [Roots -> SUBSET Paths] /\ roots \in [Roots -> SUBSET Paths]
  /\ torn \in BOOLEAN /\ up \in BOOLEAN

DiskOK == disk \in [Paths -> Contents] /\ dirs \subseteq Roots /\ edits \in 0..MaxEdits /\ ops \in 0..MaxOps

(* The types in parts. *)
LEMMA TypeParts == KTypes <=> CallTypes /\ IndexOK /\ FreshOK /\ ManifestOK /\ DiskOK
BY DEF KTypes, KTypeOK, CallTypes, IndexOK, FreshOK, ManifestOK, DiskOK

(* Deleting chunks leaves one chunk for a path and a position.             *)
LEMMA IndexShrinks ==
  ASSUME IndexOK, NEW gone, index' = index \ gone
  PROVE  IndexOK'
BY DEF IndexOK

(* Overwriting a chunk takes the one out that has its path and position.  *)
LEMMA IndexGrows ==
  ASSUME IndexOK, NEW t \in Threads, job[t] \in Jobs, NEW new \in SUBSET Added(t),
         index' = {c \in index : ~Overwrites(new, c)} \cup new
  PROVE  IndexOK'
<1>1. \A c \in new : c \in Chunk /\ c.text = job[t].loaded[c.path]
                     /\ c.src = IF IsDir(t) THEN "clean" ELSE job[t].source.src
  BY NewChunkType
<1>2. index' \subseteq Chunk
  BY <1>1 DEF IndexOK
<1>3. ASSUME NEW a \in index', NEW b \in index', a.path = b.path, a.pos = b.pos
      PROVE  a = b
  <2>1. CASE a \in new /\ b \in new
    BY <1>1, <1>3, <2>1 DEF Chunk
  <2>2. CASE a \notin new /\ b \notin new
    BY <1>3, <2>2 DEF IndexOK
  <2>3. CASE a \in new /\ b \notin new
    BY <1>3, <2>3 DEF Overwrites
  <2>4. CASE a \notin new /\ b \in new
    BY <1>3, <2>4 DEF Overwrites
  <2>5. QED
    BY <2>1, <2>2, <2>3, <2>4
<1>4. QED
  BY <1>2, <1>3 DEF IndexOK

(* What an operation that succeeded promises. *)
LEMMA SucceedFresh ==
  ASSUME CallTypes, NEW t \in Threads, kpc[t] # "idle", NEW wrote \in BOOLEAN, Succeed(t, wrote)
  PROVE  FreshOK'
<1>1. job[t] \in Jobs /\ job[t] \in Records /\ job[t].source \in Sources
  BY JobFields DEF CallTypes
<1>2. job[t].loaded \in [Paths -> Contents] /\ NoFiles \in [Paths -> Contents]
  BY <1>1 DEF Records, NoFiles, Contents
<1>3. (IF IsDir(t) THEN Under[Root(t)] ELSE {job[t].source.path}) \subseteq Paths
  <2>1. CASE IsDir(t)
    BY <1>1, <2>1, SourceFields, PathsOf DEF IsDir, Root
  <2>2. CASE ~IsDir(t)
    BY <1>1, <2>2, SourceFields, PathsOf DEF IsDir
  <2>3. QED
    BY <2>1, <2>2
<1>4. (IF job[t].op = "add" THEN job[t].loaded ELSE NoFiles) \in [Paths -> Contents]
  BY <1>2
<1>5. QED
  BY <1>3, <1>4 DEF Succeed, FreshOK

(* The directories that operations on directories are on. *)
LEMMA RootType ==
  ASSUME CallTypes, NEW t \in Threads, kpc[t] # "idle", IsDir(t)
  PROVE  Root(t) \in Roots
BY JobFields, SourceFields DEF CallTypes, IsDir, Root

(* What is written to the manifest has its type. *)
LEMMA NextRootsType ==
  ASSUME CallTypes, ManifestOK, NEW t \in Threads, kpc[t] # "idle", IsDir(t)
  PROVE  NextRoots(t) \in [Roots -> SUBSET Paths]
<1>1. job[t].files \subseteq Paths
  BY DEF CallTypes, Records
<1>2. (IF job[t].op = "add" THEN job[t].files ELSE {}) \in SUBSET Paths
  BY <1>1
<1>3. QED
  BY <1>2 DEF NextRoots, ManifestOK

(* A step of an operation keeps the types. *)
LEMMA TypesStep ==
  ASSUME KTypes, InScope, NEW t \in Threads, KStep(t)
  PROVE  KTypes'
<1>1. CallTypes /\ IndexOK /\ FreshOK /\ ManifestOK /\ DiskOK
  BY TypeParts
<1>2. kpc[t] \in {"lock", "write", "written", "commit"} => IsDir(t)
  BY DEF InScope, ThreadInScope
<1>3. DiskOK'
  BY <1>1 DEF DiskOK, KStep, Resolve, ResolveFails, LoadFiles, LoadFilesFails,
              LockSync, SkipUpsert, AddDocuments, CleanStale, CleanStaleFails,
              SkipDelete, DeletePaths, DeletePathsFails, OpenManifest, WriteManifest, WriteFails, CommitRoots
<1> DEFINE Fine == CallTypes' /\ IndexOK' /\ FreshOK' /\ ManifestOK'
<1>4. SUFFICES Fine
  BY <1>3, TypeParts, PTL
<1>5. UNCHANGED index => IndexOK'
  BY <1>1 DEF IndexOK
<1>6. UNCHANGED fresh \/ fresh' = {} => FreshOK'
  BY <1>1 DEF FreshOK
<1>7. UNCHANGED manifestVars => ManifestOK'
  BY <1>1 DEF ManifestOK, manifestVars
<1>8. \A wrote \in BOOLEAN : Fail(t, wrote) => CallTypes' /\ FreshOK'
  <2> SUFFICES ASSUME NEW wrote \in BOOLEAN, Fail(t, wrote) PROVE CallTypes' /\ FreshOK'
    OBVIOUS
  <2>1. Moved(t, "idle", NoJob) /\ (UNCHANGED fresh \/ fresh' = {})
    BY <1>1, FailMoves DEF Fail
  <2>2. QED
    BY <1>6, <2>1 DEF Moved
<1>9. kpc[t] # "idle" => \A wrote \in BOOLEAN : Succeed(t, wrote) => CallTypes' /\ FreshOK'
  <2> SUFFICES ASSUME kpc[t] # "idle", NEW wrote \in BOOLEAN, Succeed(t, wrote) PROVE CallTypes' /\ FreshOK'
    OBVIOUS
  <2>1. Succeeded(t) /\ FreshOK'
    BY <1>1, SucceedMoves, SucceedFresh
  <2>2. QED
    BY <2>1 DEF Succeeded, Moved
<1>10. kpc[t] # "idle" => \A p \in SyncPositions : GoOn(t, p) => CallTypes' /\ FreshOK'
  <2> SUFFICES ASSUME kpc[t] # "idle", NEW p \in SyncPositions, GoOn(t, p) PROVE CallTypes' /\ FreshOK'
    OBVIOUS
  <2>1. Moved(t, p, job[t]) /\ fresh' = {}
    BY <1>1, GoOnMoves DEF GoOn
  <2>2. QED
    BY <1>6, <2>1 DEF Moved
<1>11. kpc[t] # "idle" => \A p \in SyncPositions : KGoto(t, p) /\ UNCHANGED job => CallTypes'
  BY <1>1, GotoMoves DEF Moved
<1>12. kpc[t] # "idle" => job[t] \in Jobs
  BY <1>1 DEF CallTypes
<1> HIDE DEF Fine
<1>13. CASE Resolve(t)
  <2>1. CallTypes'
    BY <1>1, <1>13, ResolveMoves DEF Moved
  <2>2. QED
    BY <1>5, <1>6, <1>7, <1>13, <2>1 DEF Resolve, Fine
<1>14. CASE ResolveFails(t) \/ LoadFilesFails(t) \/ WriteFails(t)
  BY <1>5, <1>7, <1>8, <1>14 DEF ResolveFails, LoadFilesFails, WriteFails, Fine
<1>15. CASE LoadFiles(t)
  <2>1. CallTypes'
    BY <1>1, <1>15, LoadMoves DEF Moved, DiskOK
  <2>2. QED
    BY <1>5, <1>6, <1>7, <1>15, <2>1 DEF LoadFiles, Fine
<1>18. CASE LockSync(t)
  <2>1. CallTypes'
    BY <1>1, <1>2, <1>18, LockMoves DEF Moved, ManifestOK, LockSync
  <2>2. QED
    BY <1>5, <1>6, <1>7, <1>18, <2>1 DEF LockSync, Fine
<1>19. CASE SkipUpsert(t)
  <2>1. UNCHANGED <<index, manifestVars>> /\ kpc[t] = "apply"
        /\ ((KGoto(t, "delete") /\ UNCHANGED <<job, fresh>>) \/ Succeed(t, FALSE))
    BY <1>19 DEF SkipUpsert
  <2>2. QED
    BY <1>5, <1>6, <1>7, <1>9, <1>11, <2>1 DEF SyncPositions, Fine
<1>20. ASSUME NEW new \in SUBSET Added(t), AddDocuments(t, new) PROVE Fine
  <2>1. UNCHANGED manifestVars /\ kpc[t] = "apply" /\ (GoOn(t, "clean") \/ Fail(t, TRUE))
    BY <1>20 DEF AddDocuments
  <2>2. IndexOK'
    BY <1>1, <1>12, <1>20, <2>1, IndexGrows DEF AddDocuments
  <2>3. QED
    BY <1>7, <1>8, <1>10, <2>1, <2>2 DEF SyncPositions, Fine
<1>21. CASE CleanStale(t) \/ DeletePaths(t)
  <2>1. /\ UNCHANGED manifestVars /\ kpc[t] # "idle"
        /\ (GoOn(t, "delete") \/ GoOn(t, "write") \/ Succeed(t, TRUE))
        /\ (index' = index \ Stale(t) \/ index' = index \ Doomed(t))
    BY <1>21 DEF CleanStale, DeletePaths
  <2>2. QED
    BY <1>1, <1>7, <1>9, <1>10, <2>1, IndexShrinks DEF SyncPositions, Fine
<1>22. ASSUME NEW gone, CleanStaleFails(t, gone) \/ DeletePathsFails(t, gone) PROVE Fine
  <2>1. UNCHANGED manifestVars /\ Fail(t, TRUE) /\ index' = index \ gone
    BY <1>22 DEF CleanStaleFails, DeletePathsFails
  <2>2. QED
    BY <1>1, <1>7, <1>8, <2>1, IndexShrinks DEF Fine
<1>23. CASE SkipDelete(t)
  BY <1>5, <1>6, <1>7, <1>11, <1>23 DEF SkipDelete, SyncPositions, Fine
<1>24. CASE OpenManifest(t)
  <2>1. ManifestOK'
    BY <1>1, <1>24 DEF ManifestOK, OpenManifest, NoRoots
  <2>2. QED
    BY <1>5, <1>6, <1>11, <1>24, <2>1 DEF OpenManifest, SyncPositions, Fine
<1>25. CASE WriteManifest(t)
  <2>1. NextRoots(t) \in [Roots -> SUBSET Paths]
    BY <1>1, <1>2, <1>25, NextRootsType DEF WriteManifest
  <2>2. ManifestOK'
    BY <1>1, <1>25, <2>1 DEF ManifestOK, WriteManifest
  <2>3. QED
    BY <1>5, <1>6, <1>11, <1>25, <2>2 DEF WriteManifest, SyncPositions, Fine
<1>26. CASE CommitRoots(t)
  <2>1. NextRoots(t) \in [Roots -> SUBSET Paths]
    BY <1>1, <1>2, <1>26, NextRootsType DEF CommitRoots
  <2>2. ManifestOK'
    BY <1>1, <1>26, <2>1 DEF ManifestOK, CommitRoots
  <2>3. QED
    BY <1>5, <1>9, <1>26, <2>2 DEF CommitRoots, Fine
<1>27. QED
  BY <1>13, <1>14, <1>15, <1>18, <1>19, <1>20, <1>21, <1>22, <1>23, <1>24, <1>25, <1>26 DEF KStep
-----------------------------------------------------------------------------
(* The steps of an operation, as moves. *)
Move(t) ==
  \/ Moved(t, "idle", NoJob)
  \/ kpc[t] \in {"apply", "clean", "delete", "commit"} /\ Moved(t, "resolve", [job[t] EXCEPT !.op = "add"])
  \/ kpc[t] = "resolve" /\ Moved(t, ResolveTo(t), [job[t] EXCEPT !.files = Listed(t),
                                                     !.doomed = IF IsDir(t) THEN {} ELSE Listed(t)])
  \/ kpc[t] = "load" /\ Moved(t, IF IsDir(t) THEN "lock" ELSE "apply", [job[t] EXCEPT !.loaded = ReadOf(t)])
  \/ kpc[t] = "lock" /\ muFree /\ Moved(t, IF job[t].op = "add" THEN "apply" ELSE "delete",
                                       [job[t] EXCEPT !.disturbed = FALSE, !.doomed = DoomedOf(t)])
  \/ kpc[t] \in {"apply", "clean"} /\ IsDir(t) /\ Moved(t, "delete", job[t])
  \/ kpc[t] = "apply" /\ Moved(t, "clean", job[t])
  \/ kpc[t] = "delete" /\ (IsDir(t) \/ job[t].doomed = {}) /\ Moved(t, "write", job[t])
  \/ kpc[t] = "write" /\ Moved(t, "written", job[t])
  \/ kpc[t] = "written" /\ Moved(t, "commit", job[t])

(* Every step of an operation is one of these moves. *)
LEMMA StepMoves ==
  ASSUME KTypes, InScope, NEW t \in Threads, KStep(t)
  PROVE  Move(t)
<1>1. CallTypes /\ ManifestOK /\ DiskOK
  BY TypeParts
<1>2. kpc[t] \in {"lock", "write", "written", "commit"} => IsDir(t)
  BY DEF InScope, ThreadInScope
<1>3. \A wrote \in BOOLEAN : Fail(t, wrote) => Move(t)
  BY <1>1, FailMoves DEF Move
<1>4. kpc[t] \in {"apply", "clean", "delete", "commit"} => \A wrote \in BOOLEAN : Succeed(t, wrote) => Move(t)
  BY <1>1, SucceedMoves DEF Succeeded, Move
<1>5. CASE Resolve(t)
  BY <1>1, <1>5, ResolveMoves DEF Resolve, Move
<1>6. CASE ResolveFails(t) \/ LoadFilesFails(t) \/ WriteFails(t)
  BY <1>3, <1>6 DEF ResolveFails, LoadFilesFails, WriteFails
<1>7. CASE LoadFiles(t)
  BY <1>1, <1>7, LoadMoves DEF LoadFiles, DiskOK, Move
<1>10. CASE LockSync(t)
  BY <1>1, <1>2, <1>10, LockMoves DEF LockSync, ManifestOK, Move
<1>11. CASE SkipUpsert(t)
  <2>1. CASE IsDir(t)
    <3>1. kpc[t] = "apply" /\ KGoto(t, "delete") /\ job' = job
      BY <1>11, <2>1 DEF SkipUpsert
    <3>2. Moved(t, "delete", job[t])
      BY <1>1, <3>1, GotoMoves DEF SyncPositions
    <3>3. QED
      BY <2>1, <3>1, <3>2 DEF Move
  <2>2. CASE ~IsDir(t)
    BY <1>4, <1>11, <2>2 DEF SkipUpsert
  <2>3. QED
    BY <2>1, <2>2
<1>12. ASSUME NEW new, AddDocuments(t, new) PROVE Move(t)
  <2>1. kpc[t] = "apply" /\ (GoOn(t, "clean") \/ Fail(t, TRUE))
    BY <1>12 DEF AddDocuments
  <2>2. GoOn(t, "clean") => Moved(t, "clean", job[t])
    BY <1>1, <2>1, GoOnMoves DEF SyncPositions
  <2>3. QED
    BY <1>3, <2>1, <2>2 DEF Move
<1>13. CASE CleanStale(t)
  <2>1. kpc[t] = "clean" /\ ((IsDir(t) /\ GoOn(t, "delete")) \/ Succeed(t, TRUE))
    BY <1>13 DEF CleanStale
  <2>2. GoOn(t, "delete") => Moved(t, "delete", job[t])
    BY <1>1, <2>1, GoOnMoves DEF SyncPositions
  <2>3. QED
    BY <1>4, <2>1, <2>2 DEF Move
<1>14. CASE DeletePaths(t)
  <2>1. kpc[t] = "delete" /\ ((IsDir(t) /\ GoOn(t, "write")) \/ Succeed(t, TRUE))
    BY <1>14 DEF DeletePaths
  <2>2. GoOn(t, "write") => Moved(t, "write", job[t])
    BY <1>1, <2>1, GoOnMoves DEF SyncPositions
  <2>3. QED
    BY <1>4, <2>1, <2>2 DEF Move
<1>15. ASSUME NEW gone, CleanStaleFails(t, gone) \/ DeletePathsFails(t, gone) PROVE Move(t)
  BY <1>3, <1>15 DEF CleanStaleFails, DeletePathsFails
<1>16. CASE SkipDelete(t)
  <2>1. kpc[t] = "delete" /\ job[t].doomed = {} /\ KGoto(t, "write") /\ job' = job
    BY <1>16 DEF SkipDelete
  <2>2. Moved(t, "write", job[t])
    BY <1>1, <2>1, GotoMoves DEF SyncPositions
  <2>3. QED
    BY <2>1, <2>2 DEF Move
<1>17. CASE OpenManifest(t)
  <2>1. kpc[t] = "write" /\ KGoto(t, "written") /\ job' = job
    BY <1>17 DEF OpenManifest
  <2>2. Moved(t, "written", job[t])
    BY <1>1, <2>1, GotoMoves DEF SyncPositions
  <2>3. QED
    BY <2>1, <2>2 DEF Move
<1>18. CASE WriteManifest(t)
  <2>1. kpc[t] = "written" /\ KGoto(t, "commit") /\ job' = job
    BY <1>18 DEF WriteManifest
  <2>2. Moved(t, "commit", job[t])
    BY <1>1, <2>1, GotoMoves DEF SyncPositions
  <2>3. QED
    BY <2>1, <2>2 DEF Move
<1>19. CASE CommitRoots(t)
  BY <1>4, <1>19 DEF CommitRoots
<1>20. QED
  BY <1>5, <1>6, <1>7, <1>10, <1>11, <1>12, <1>13, <1>14, <1>15, <1>16, <1>17, <1>18, <1>19 DEF KStep

(* What a step does to the roots and to the manifest. *)
SameManifest == UNCHANGED manifestVars

ManifestStep(t) ==
  \/ SameManifest /\ kpc[t] # "commit" /\ kpc'[t] # "commit"
  \/ OpenManifest(t)
  \/ WriteManifest(t)
  \/ CommitRoots(t)

(* Only the two halves of the writing and the commit change them. *)
LEMMA StepManifest ==
  ASSUME CallTypes, NEW t \in Threads, KStep(t)
  PROVE  ManifestStep(t)
<1>a. \A p : KGoto(t, p) => kpc'[t] = p
  BY DEF CallTypes, KGoto, At
<1>b. (\E wrote : Fail(t, wrote) \/ Succeed(t, wrote)) \/ (\E p : p # "commit" /\ (KGoto(t, p) \/ GoOn(t, p)))
        => kpc'[t] # "commit"
  BY <1>a DEF Fail, Succeed, GoOn
<1>1. ASSUME manifestVars' = manifestVars, kpc[t] # "commit",
             \/ \E wrote : Fail(t, wrote) \/ Succeed(t, wrote)
             \/ \E p : p # "commit" /\ (KGoto(t, p) \/ GoOn(t, p))
      PROVE  ManifestStep(t)
  BY <1>1, <1>b DEF ManifestStep, SameManifest
<1>2. CASE OpenManifest(t) \/ WriteManifest(t) \/ CommitRoots(t)
  BY <1>2 DEF ManifestStep
<1>3. CASE Resolve(t) \/ LoadFiles(t) \/ LockSync(t) \/ SkipDelete(t)
  BY <1>1, <1>3 DEF Resolve, LoadFiles, LockSync, SkipDelete
<1>4. CASE ResolveFails(t) \/ LoadFilesFails(t) \/ WriteFails(t)
  BY <1>1, <1>4 DEF ResolveFails, LoadFilesFails, WriteFails
<1>5. CASE SkipUpsert(t) \/ CleanStale(t) \/ DeletePaths(t)
  BY <1>1, <1>5 DEF SkipUpsert, CleanStale, DeletePaths
<1>6. ASSUME NEW s, AddDocuments(t, s) \/ CleanStaleFails(t, s) \/ DeletePathsFails(t, s)
      PROVE  ManifestStep(t)
  BY <1>1, <1>6 DEF AddDocuments, CleanStaleFails, DeletePathsFails
<1>7. QED
  BY <1>2, <1>3, <1>4, <1>5, <1>6 DEF KStep

(* The others' part in the invariants does not change. *)
LEMMA KeptScope ==
  ASSUME NEW u \in Threads, KeptJob(u)
  PROVE  /\ IsDir(u)' <=> IsDir(u)
         /\ Root(u)' = Root(u) /\ Scope(u)' = Scope(u) /\ Batch(u)' = Batch(u)
         /\ InSync(u)' <=> InSync(u)
         /\ ThreadInScope(u) => ThreadInScope(u)'
<1>1. (IsDir(u)' <=> IsDir(u)) /\ Root(u)' = Root(u) /\ Scope(u)' = Scope(u) /\ Batch(u)' = Batch(u)
  BY DEF KeptJob, IsDir, Root, Scope, Batch
<1>2. QED
  BY <1>1 DEF KeptJob, InSync, ThreadInScope

(* The mover keeps its source until it is done. *)
LEMMA OwnSource ==
  ASSUME KTypes, NEW t \in Threads, Move(t)
  PROVE  kpc'[t] # "idle" => job'[t].source = job[t].source
<1>1. job[t] \in Records
  BY TypeParts DEF CallTypes
<1>2. QED
  BY <1>1 DEF Move, Moved, Records

(* The mover's part. *)
LEMMA OwnScope ==
  ASSUME KTypes, InScope, NEW t \in Threads, kpc[t] # "idle", Move(t)
  PROVE  ThreadInScope(t)' /\ (InSync(t)' => InSync(t) \/ muFree)
<1>1. job[t] \in Records /\ job[t].source \in Sources /\ job[t] \in Jobs
  BY TypeParts, JobFields DEF CallTypes
<1>2. /\ ThreadInScope(t)
      /\ IsDir(t) => Root(t) \in Roots /\ roots[Root(t)] \subseteq Under[Root(t)]
  BY <1>1, SourceFields DEF InScope, IsDir, Root
<1>3. kpc'[t] # "idle" => job'[t].source = job[t].source
  BY OwnSource
<1>4. kpc'[t] # "idle" => (IsDir(t)' <=> IsDir(t)) /\ Root(t)' = Root(t) /\ Scope(t)' = Scope(t)
  BY <1>3 DEF IsDir, Root, Scope
<1>5. CASE Moved(t, "idle", NoJob)
  BY <1>5 DEF Moved, ThreadInScope, InSync
<1>6. CASE kpc[t] \in {"apply", "clean", "delete", "commit"} /\ Moved(t, "resolve", [job[t] EXCEPT !.op = "add"])
  <2>1. kpc'[t] = "resolve" /\ job'[t].files = job[t].files /\ job'[t].doomed = job[t].doomed
    BY <1>1, <1>6 DEF Moved, Records
  <2>2. QED
    BY <1>2, <1>3, <1>4, <2>1, <1>6 DEF ThreadInScope, InSync
<1>7. CASE kpc[t] = "resolve" /\ Moved(t, ResolveTo(t), [job[t] EXCEPT !.files = Listed(t),
                                                           !.doomed = IF IsDir(t) THEN {} ELSE Listed(t)])
  <2>1. /\ kpc'[t] = ResolveTo(t) /\ job'[t].files = Listed(t) /\ job'[t].op = job[t].op
        /\ job'[t].doomed = IF IsDir(t) THEN {} ELSE Listed(t)
    BY <1>1, <1>7 DEF Moved, Records
  <2>2. Listed(t) \subseteq Scope(t) /\ (~IsDir(t) => Listed(t) # {})
    BY DEF Listed, Scope
  <2>3. job[t].op \in {"add", "remove"}
    BY <1>1 DEF Jobs
  <2>4. QED
    BY <1>2, <1>3, <1>4, <2>1, <2>2, <2>3 DEF ThreadInScope, InSync, ResolveTo
<1>8. CASE kpc[t] = "load" /\ Moved(t, IF IsDir(t) THEN "lock" ELSE "apply", [job[t] EXCEPT !.loaded = ReadOf(t)])
  <2>1. /\ kpc'[t] = (IF IsDir(t) THEN "lock" ELSE "apply")
        /\ job'[t].files = job[t].files /\ job'[t].op = job[t].op /\ job'[t].doomed = job[t].doomed
    BY <1>1, <1>8 DEF Moved, Records
  <2>2. QED
    BY <1>2, <1>3, <1>4, <2>1, <1>8 DEF ThreadInScope, InSync
<1>9. CASE kpc[t] = "lock" /\ muFree /\ Moved(t, IF job[t].op = "add" THEN "apply" ELSE "delete",
                                       [job[t] EXCEPT !.disturbed = FALSE, !.doomed = DoomedOf(t)])
  <2>1. /\ kpc'[t] = (IF job[t].op = "add" THEN "apply" ELSE "delete")
        /\ job'[t].files = job[t].files /\ job'[t].op = job[t].op /\ job'[t].doomed = DoomedOf(t)
    BY <1>1, <1>9 DEF Moved, Records
  <2>2. DoomedOf(t) \subseteq Scope(t) /\ IsDir(t)
    BY <1>2, <1>9 DEF ThreadInScope, DoomedOf, Scope
  <2>3. QED
    BY <1>2, <1>3, <1>4, <1>9, <2>1, <2>2 DEF ThreadInScope, InSync
<1>10. ASSUME NEW p \in SyncPositions, Moved(t, p, job[t]),
              \/ kpc[t] \in {"apply", "clean"} /\ IsDir(t) /\ p = "delete"
              \/ kpc[t] = "apply" /\ p = "clean"
              \/ kpc[t] = "delete" /\ (IsDir(t) \/ job[t].doomed = {}) /\ p = "write"
              \/ kpc[t] = "write" /\ p = "written"
              \/ kpc[t] = "written" /\ p = "commit"
       PROVE  ThreadInScope(t)' /\ (InSync(t)' => InSync(t))
  <2>1. /\ kpc'[t] = p /\ job'[t].files = job[t].files /\ job'[t].op = job[t].op
        /\ job'[t].doomed = job[t].doomed
    BY <1>10 DEF Moved
  <2>2. QED
    BY <1>2, <1>3, <1>4, <1>10, <2>1 DEF ThreadInScope, InSync
<1>11. {"delete", "clean", "write", "written", "commit"} \subseteq SyncPositions
  BY DEF SyncPositions
<1>12. ThreadInScope(t)' /\ (InSync(t)' => InSync(t) \/ muFree)
  BY <1>5, <1>6, <1>7, <1>8, <1>9, <1>10, <1>11 DEF Move
<1>13. QED
  BY <1>12

(* A step of an operation stays in its scope and excludes others. *)
LEMMA ScopeStep ==
  ASSUME KTypes, InScope, OneSync, NEW t \in Threads, kpc[t] # "idle", KStep(t)
  PROVE  InScope' /\ OneSync'
<1>1. Move(t) /\ ManifestStep(t) /\ CallTypes
  BY StepMoves, StepManifest, TypeParts
<1>2. \A u \in Threads \ {t} : KeptJob(u)
  BY <1>1 DEF Move, Moved
<1>3. \A u \in Threads \ {t} : (InSync(u)' <=> InSync(u)) /\ ThreadInScope(u)'
  BY <1>2, KeptScope DEF InScope
<1>4. ThreadInScope(t)' /\ (InSync(t)' => InSync(t) \/ muFree)
  BY <1>1, OwnScope
<1>5. OneSync'
  <2>1. ASSUME NEW u \in Threads, NEW w \in Threads, InSync(u)', InSync(w)' PROVE u = w
    BY <1>3, <1>4, <2>1 DEF OneSync, muFree
  <2>2. QED
    BY <2>1 DEF OneSync
<1>6. \A r \in Roots : manifest'[r] \subseteq Under[r] /\ roots'[r] \subseteq Under[r]
  <2>1. CASE SameManifest
    BY <2>1 DEF SameManifest, manifestVars, InScope
  <2>2. CASE OpenManifest(t)
    BY <2>2 DEF OpenManifest, NoRoots, InScope
  <2>3. CASE WriteManifest(t) \/ CommitRoots(t)
    <3>1. kpc[t] \in {"written", "commit"}
      BY <2>3 DEF WriteManifest, CommitRoots
    <3>2. job[t].files \subseteq Under[Root(t)]
      BY <3>1 DEF InScope, ThreadInScope, Scope
    <3>3. \A r \in Roots : NextRoots(t)[r] \subseteq Under[r]
      BY <3>2, TypeParts DEF NextRoots, InScope, ManifestOK
    <3>4. QED
      BY <2>3, <3>3 DEF WriteManifest, CommitRoots, InScope
  <2>4. QED
    BY <1>1, <2>1, <2>2, <2>3 DEF ManifestStep
<1>7. InScope'
  BY <1>3, <1>4, <1>6 DEF InScope
<1>8. QED
  BY <1>5, <1>7
-----------------------------------------------------------------------------
(* What a step does to the index. *)
IndexStep(t) ==
  \/ index' = index
  \/ kpc[t] = "apply" /\ \E new \in SUBSET Added(t) : index' = {c \in index : ~Overwrites(new, c)} \cup new
  \/ kpc[t] = "clean" /\ \E gone \in SUBSET Stale(t) : index' = index \ gone
  \/ kpc[t] = "delete" /\ \E gone \in SUBSET Doomed(t) : index' = index \ gone

(* Only the two halves of an upsert and the deletion change it. *)
LEMMA StepIndex ==
  ASSUME NEW t \in Threads, KStep(t)
  PROVE  IndexStep(t)
<1>1. ASSUME index' = index PROVE IndexStep(t)
  BY <1>1 DEF IndexStep
<1>2. ASSUME NEW new \in SUBSET Added(t), AddDocuments(t, new) PROVE IndexStep(t)
  BY <1>2 DEF AddDocuments, IndexStep
<1>3. CASE CleanStale(t)
  BY <1>3 DEF CleanStale, IndexStep
<1>4. CASE DeletePaths(t)
  BY <1>4 DEF DeletePaths, IndexStep
<1>5. ASSUME NEW gone \in SUBSET Stale(t), CleanStaleFails(t, gone) PROVE IndexStep(t)
  BY <1>5 DEF CleanStaleFails, IndexStep
<1>6. ASSUME NEW gone \in SUBSET Doomed(t), DeletePathsFails(t, gone) PROVE IndexStep(t)
  BY <1>6 DEF DeletePathsFails, IndexStep
<1>7. QED
  BY <1>1, <1>2, <1>3, <1>4, <1>5, <1>6
     DEF KStep, Resolve, ResolveFails, LoadFiles, LoadFilesFails,
         LockSync, SkipUpsert, SkipDelete, OpenManifest, WriteManifest, WriteFails,
         CommitRoots

(* It concerns the scope of the operation only. *)
ChunksOf(p) == {c \in index : c.path = p}

(* A path outside of the scope of t keeps its chunks and its texts. *)
LEMMA OutOfScope ==
  ASSUME KTypes, InScope, NEW t \in Threads, kpc[t] # "idle", IndexStep(t), NEW p, p \notin Scope(t)
  PROVE  ChunksOf(p)' = ChunksOf(p) /\ Texts(p)' = Texts(p)
<1>1. job[t] \in Jobs /\ job[t].files \subseteq Scope(t) /\ job[t].doomed \subseteq Scope(t)
  BY TypeParts DEF CallTypes, InScope, ThreadInScope
<1>2. ASSUME NEW new \in SUBSET Added(t), index' = {c \in index : ~Overwrites(new, c)} \cup new
      PROVE  ChunksOf(p)' = ChunksOf(p)
  <2>1. \A c \in new : c.path # p
    BY <1>1, NewChunkType
  <2>2. QED
    BY <1>2, <2>1 DEF ChunksOf, Overwrites
<1>3. ASSUME NEW gone \in SUBSET Stale(t), index' = index \ gone PROVE ChunksOf(p)' = ChunksOf(p)
  BY <1>1, <1>3 DEF ChunksOf, Stale, Batch
<1>4. ASSUME NEW gone \in SUBSET Doomed(t), index' = index \ gone PROVE ChunksOf(p)' = ChunksOf(p)
  BY <1>1, <1>4 DEF ChunksOf, Doomed
<1>5. ChunksOf(p)' = ChunksOf(p)
  BY <1>2, <1>3, <1>4 DEF IndexStep, ChunksOf
<1>6. Texts(p) = {<<c.pos, c.text>> : c \in ChunksOf(p)} /\ Texts(p)' = {<<c.pos, c.text>> : c \in ChunksOf(p)'}
  BY DEF Texts, ChunksOf
<1>7. QED
  BY <1>5, <1>6

(* Whoever holds mu is not disturbed by others in the files of its         *)
(* directory.                                                              *)
LEMMA Undisturbed ==
  ASSUME KTypes, InScope, OneSync, FilesApart,
         NEW t \in Threads, kpc[t] # "idle", IndexStep(t), NEW u \in Threads, u # t, InSync(u),
         NEW p \in Under[Root(u)]
  PROVE  ChunksOf(p)' = ChunksOf(p) /\ Texts(p)' = Texts(p)
<1>1. CASE IsDir(t)
  <2>1. kpc[t] \notin {"apply", "clean", "delete"}
    BY <1>1 DEF OneSync, InSync
  <2>2. index' = index
    BY <2>1 DEF IndexStep
  <2>3. QED
    BY <2>2 DEF ChunksOf, Texts
<1>2. CASE ~IsDir(t)
  <2>1. Scope(t) \subseteq FilePaths
    BY <1>2, TypeParts, JobFields, SourceFields DEF CallTypes, IsDir, Scope
  <2>2. Root(u) \in Roots
    BY TypeParts, RootType DEF InSync
  <2>3. p \notin Scope(t)
    BY <2>1, <2>2 DEF FilesApart
  <2>4. QED
    BY <2>3, OutOfScope
<1>3. QED
  BY <1>1, <1>2

(* Only one operation writes the manifest and commits. *)
LEMMA OneCommit ==
  ASSUME InScope, OneSync, NEW t \in Threads, kpc[t] \in {"write", "written", "commit"}
  PROVE  InSync(t) /\ \A u \in Threads \ {t} : kpc[u] # "commit"
BY DEF InScope, ThreadInScope, InSync, OneSync

(* The roots in memory stay the manifest's. *)
LEMMA KeptStep ==
  ASSUME KTypes, InScope, OneSync, RootsKept, NEW t \in Threads, kpc[t] # "idle", KStep(t)
  PROVE  RootsKept'
<1>1. Move(t) /\ ManifestStep(t) /\ CallTypes
  BY StepMoves, StepManifest, TypeParts
<1>2. \A u \in Threads \ {t} : kpc'[u] = kpc[u] /\ Root(u)' = Root(u) /\ NextFiles(u)' = NextFiles(u)
  BY <1>1, KeptScope DEF Move, Moved, KeptJob, NextFiles
<1>3. \A u \in Threads : NextRoots(u) = [roots EXCEPT ![Root(u)] = NextFiles(u)]
  BY DEF NextRoots, NextFiles
<1>4. \A u \in Threads : NextRoots(u)' = [roots' EXCEPT ![Root(u)'] = NextFiles(u)']
  BY DEF NextRoots, NextFiles
<1>5. up
  BY DEF RootsKept
<1>6. CASE SameManifest /\ kpc[t] # "commit" /\ kpc'[t] # "commit"
  <2>1. \A u \in Threads : (kpc'[u] = "commit" <=> kpc[u] = "commit")
                           /\ (kpc[u] = "commit" => NextRoots(u)' = NextRoots(u))
    BY <1>2, <1>3, <1>4, <1>6 DEF SameManifest, manifestVars
  <2>2. QED
    BY <1>5, <1>6, <2>1 DEF RootsKept, SameManifest, manifestVars
<1>7. CASE OpenManifest(t)
  <2>1. kpc[t] = "write" /\ torn' /\ manifest' = NoRoots /\ up' = up
    BY <1>7 DEF OpenManifest
  <2>2. kpc'[t] = "written"
    BY <1>1, <1>7 DEF OpenManifest, CallTypes, KGoto, At
  <2>3. \A u \in Threads : kpc'[u] # "commit"
    BY <1>2, <2>1, <2>2, OneCommit
  <2>4. QED
    BY <1>5, <2>1, <2>3 DEF RootsKept
<1>8. CASE WriteManifest(t)
  <2>1. kpc[t] = "written" /\ ~torn' /\ manifest' = NextRoots(t) /\ up' = up /\ roots' = roots /\ job' = job
    BY <1>8 DEF WriteManifest
  <2>2. kpc'[t] = "commit" /\ NextRoots(t)' = NextRoots(t)
    BY <1>1, <1>8, <2>1 DEF WriteManifest, CallTypes, KGoto, At, NextRoots, Root
  <2>3. \A u \in Threads \ {t} : kpc'[u] # "commit"
    BY <1>2, <2>1, OneCommit
  <2>4. QED
    BY <1>5, <2>1, <2>2, <2>3 DEF RootsKept
<1>9. CASE CommitRoots(t)
  <2>1. kpc[t] = "commit" /\ UNCHANGED <<torn, manifest, up>> /\ roots' = NextRoots(t)
    BY <1>9 DEF CommitRoots
  <2>2. kpc'[t] # "commit"
    BY <1>1, <1>9 DEF CommitRoots, Succeed, CallTypes, KGoto, At
  <2>3. \A u \in Threads : kpc'[u] # "commit"
    BY <1>2, <2>1, <2>2, OneCommit
  <2>4. ~torn /\ manifest' = roots'
    BY <2>1 DEF RootsKept
  <2>5. QED
    BY <1>5, <2>1, <2>3, <2>4 DEF RootsKept
<1>10. QED
  BY <1>1, <1>6, <1>7, <1>8, <1>9 DEF ManifestStep

(* The chunks of files of directories are spelled the one way. *)
LEMMA CleanStep ==
  ASSUME KTypes, InScope, CleanDirs, NEW t \in Threads, kpc[t] # "idle", IndexStep(t)
  PROVE  CleanDirs'
<1>1. job[t] \in Jobs /\ job[t].source \in Sources /\ job[t].files \subseteq Scope(t)
  BY TypeParts, JobFields DEF CallTypes, InScope, ThreadInScope
<1>2. ASSUME NEW c \in Added(t), c.path \notin FilePaths PROVE c.src = "clean"
  <2>1. c.path \in Scope(t) /\ c.src = IF IsDir(t) THEN "clean" ELSE job[t].source.src
    BY <1>1, NewChunkType
  <2>2. IsDir(t)
    BY <1>1, <1>2, <2>1, SourceFields DEF Scope, IsDir
  <2>3. QED
    BY <2>1, <2>2
<1>3. \A c \in index' : c \in index \/ c \in Added(t)
  BY DEF IndexStep
<1>4. QED
  BY <1>2, <1>3 DEF CleanDirs

(* From "delete" to "write" it goes by way of the deletion. *)
LEMMA DeleteStep ==
  ASSUME KTypes, NEW t \in Threads, kpc[t] = "delete", kpc'[t] = "write", KStep(t)
  PROVE  index' = index \ Doomed(t)
<1>1. CallTypes
  BY TypeParts
<1>2. \A p : KGoto(t, p) => kpc'[t] = p
  BY <1>1 DEF CallTypes, KGoto, At
<1>3. \A wrote : ~Fail(t, wrote)
  BY <1>2 DEF Fail
<1>4. CASE SkipDelete(t)
  BY <1>4 DEF SkipDelete, Doomed
<1>5. CASE DeletePaths(t)
  BY <1>5 DEF DeletePaths
<1>6. QED
  BY <1>3, <1>4, <1>5
     DEF KStep, Resolve, ResolveFails, LoadFiles, LoadFilesFails,
         LockSync, SkipUpsert, AddDocuments, CleanStale, CleanStaleFails, DeletePathsFails,
         OpenManifest, WriteManifest, WriteFails, CommitRoots

(* Where a goroutine that holds mu comes from. *)
LEMMA HoldsMu ==
  ASSUME KTypes, InScope, NEW t \in Threads, kpc[t] # "idle", Move(t), InSync(t)'
  PROVE  /\ IsDir(t) /\ Root(t) \in Roots /\ Root(t)' = Root(t)
         /\ job'[t].op = job[t].op /\ job'[t].files = job[t].files /\ job'[t].loaded = job[t].loaded
         /\ \/ kpc[t] = "lock" /\ muFree /\ kpc'[t] = (IF job[t].op = "add" THEN "apply" ELSE "delete")
               /\ job'[t].doomed = DoomedOf(t)
            \/ /\ InSync(t) /\ job'[t] = job[t]
               /\ <<kpc[t], kpc'[t]>> \in
                    {<<"apply", "clean">>, <<"apply", "delete">>, <<"clean", "delete">>, <<"delete", "write">>,
                     <<"write", "written">>, <<"written", "commit">>}
<1>1. job[t] \in Records /\ CallTypes /\ ThreadInScope(t)
  BY TypeParts DEF CallTypes, InScope
<1>2. kpc'[t] \in {"apply", "clean", "delete", "write", "written", "commit"} /\ job'[t].source = job[t].source
  BY OwnSource DEF InSync
<1>3. IsDir(t) /\ Root(t)' = Root(t)
  BY <1>2 DEF InSync, IsDir, Root
<1>4. Root(t) \in Roots
  BY <1>1, <1>3, RootType
<1>5. CASE kpc[t] = "lock" /\ muFree /\ Moved(t, IF job[t].op = "add" THEN "apply" ELSE "delete",
                                       [job[t] EXCEPT !.disturbed = FALSE, !.doomed = DoomedOf(t)])
  BY <1>1, <1>3, <1>4, <1>5 DEF Moved, Records
<1>6. CASE kpc[t] = "load" /\ Moved(t, IF IsDir(t) THEN "lock" ELSE "apply", [job[t] EXCEPT !.loaded = ReadOf(t)])
  BY <1>2, <1>3, <1>6 DEF Moved
<1>7. CASE kpc[t] = "resolve" /\ Moved(t, ResolveTo(t), [job[t] EXCEPT !.files = Listed(t),
                                                     !.doomed = IF IsDir(t) THEN {} ELSE Listed(t)])
  BY <1>2, <1>3, <1>7 DEF Moved, ResolveTo
<1>8. CASE \/ Moved(t, "idle", NoJob)
           \/ Moved(t, "resolve", [job[t] EXCEPT !.op = "add"])
  BY <1>2, <1>8 DEF Moved
<1>9. ASSUME NEW p, Moved(t, p, job[t]),
             <<kpc[t], p>> \in
                    {<<"apply", "clean">>, <<"apply", "delete">>, <<"clean", "delete">>, <<"delete", "write">>,
                     <<"write", "written">>, <<"written", "commit">>}
      PROVE  /\ job'[t] = job[t] /\ InSync(t)
             /\ <<kpc[t], kpc'[t]>> \in
                    {<<"apply", "clean">>, <<"apply", "delete">>, <<"clean", "delete">>, <<"delete", "write">>,
                     <<"write", "written">>, <<"written", "commit">>}
  BY <1>3, <1>9 DEF Moved, InSync
<1>10. QED
  BY <1>3, <1>4, <1>5, <1>6, <1>7, <1>8, <1>9 DEF Move

(* What the manifest will forget is deleted first. *)
LEMMA DeletingStep ==
  ASSUME SyncInv, FilesApart, NEW t \in Threads, kpc[t] # "idle", KStep(t)
  PROVE  Deleting'
<1>1. KTypes /\ InScope /\ OneSync /\ RootsKept /\ Deleting /\ CleanDirs
  BY DEF SyncInv
<1>2. Move(t) /\ ManifestStep(t) /\ IndexStep(t) /\ CallTypes
  BY <1>1, StepMoves, StepManifest, StepIndex, TypeParts
<1> DEFINE Due(u) == InSync(u) =>
             /\ kpc[u] \in {"apply", "clean", "delete"} => Forgotten(u) \subseteq job[u].doomed
             /\ kpc[u] \in {"write", "written", "commit"} => \A p \in Forgotten(u) : Texts(p) = {}
<1>3. ASSUME NEW u \in Threads \ {t} PROVE Due(u)'
  <2> SUFFICES ASSUME InSync(u)' PROVE Due(u)'
    OBVIOUS
  <2>1. KeptJob(u)
    BY <1>2, <1>3 DEF Move, Moved
  <2>2. InSync(u) /\ Root(u)' = Root(u) /\ NextFiles(u)' = NextFiles(u)
    BY <2>1, KeptScope DEF KeptJob, NextFiles
  <2>4. ~CommitRoots(t)
    BY <1>1, <1>3, <2>2 DEF CommitRoots, OneSync, InSync, InScope, ThreadInScope
  <2>5. roots' = roots
    BY <1>2, <2>4 DEF ManifestStep, SameManifest, manifestVars, OpenManifest, WriteManifest
  <2>6. Forgotten(u)' = Forgotten(u)
    BY <2>2, <2>5 DEF Forgotten
  <2>7. Root(u) \in Roots /\ Forgotten(u) \subseteq Under[Root(u)]
    BY <1>1, <1>2, <2>2, RootType DEF InSync, InScope, Forgotten
  <2>8. \A p \in Forgotten(u) : Texts(p)' = Texts(p)
    BY <1>1, <1>2, <1>3, <2>2, <2>7, Undisturbed
  <2>9. Due(u)
    BY <1>1 DEF Deleting
  <2>10. QED
    BY <2>1, <2>2, <2>6, <2>8, <2>9 DEF KeptJob
<1>4. Due(t)'
  <2> SUFFICES ASSUME InSync(t)' PROVE Due(t)'
    OBVIOUS
  <2>1. /\ IsDir(t) /\ Root(t) \in Roots /\ Root(t)' = Root(t)
        /\ job'[t].op = job[t].op /\ job'[t].files = job[t].files
        /\ \/ kpc[t] = "lock" /\ kpc'[t] = (IF job[t].op = "add" THEN "apply" ELSE "delete")
              /\ job'[t].doomed = DoomedOf(t)
           \/ /\ InSync(t) /\ job'[t].doomed = job[t].doomed
              /\ <<kpc[t], kpc'[t]>> \in
                    {<<"apply", "clean">>, <<"apply", "delete">>, <<"clean", "delete">>, <<"delete", "write">>,
                     <<"write", "written">>, <<"written", "commit">>}
    BY <1>1, <1>2, HoldsMu
  <2>2. kpc[t] # "commit"
    BY <2>1
  <2>3. roots' = roots
    BY <1>2, <2>2 DEF ManifestStep, SameManifest, manifestVars, OpenManifest, WriteManifest, CommitRoots
  <2>4. NextFiles(t)' = NextFiles(t) /\ Forgotten(t)' = Forgotten(t)
    BY <2>1, <2>3 DEF NextFiles, Forgotten
  <2>5. Due(t)
    BY <1>1 DEF Deleting
  <2>6. CASE kpc[t] = "lock"
    <3>1. Forgotten(t) \subseteq DoomedOf(t)
      BY DEF Forgotten, DoomedOf, NextFiles
    <3>2. QED
      BY <2>1, <2>4, <2>6, <3>1 DEF InSync
  <2>7. CASE kpc[t] \in {"apply", "clean"}
    BY <2>1, <2>4, <2>5, <2>7
  <2>8. CASE kpc[t] = "delete" /\ kpc'[t] = "write"
    <3>1. index' = index \ Doomed(t)
      BY <1>1, <2>8, DeleteStep
    <3>2. ASSUME NEW p \in Forgotten(t) PROVE Texts(p)' = {}
      <4>1. p \in job[t].doomed /\ p \in Under[Root(t)]
        BY <1>1, <2>1, <2>5, <2>8 DEF InSync, Forgotten, InScope
      <4>2. \A c \in index : c.path = p => c \in Doomed(t)
        BY <1>1, <2>1, <4>1 DEF CleanDirs, FilesApart, Doomed
      <4>3. QED
        BY <3>1, <4>2 DEF Texts
    <3>3. QED
      BY <2>4, <2>8, <3>2
  <2>9. CASE kpc[t] \in {"write", "written"}
    <3>1. index' = index /\ (kpc'[t] \in {"written", "commit"})
      BY <1>2, <2>1, <2>9 DEF IndexStep
    <3>2. \A p : Texts(p)' = Texts(p)
      BY <3>1 DEF Texts
    <3>3. QED
      BY <2>1, <2>4, <2>5, <2>9, <3>1, <3>2
  <2>10. QED
    BY <2>1, <2>6, <2>7, <2>8, <2>9
<1>5. \A u \in Threads : Due(u)'
  BY <1>3, <1>4
<1>6. QED
  BY <1>5 DEF Deleting
-----------------------------------------------------------------------------
(* A new agent satisfies the invariant. *)
LEMMA InitSync == KInit => SyncInv
<1> SUFFICES ASSUME KInit PROVE SyncInv
  OBVIOUS
<1>1. CallTypes
  BY NoJobType DEF KInit, CallTypes, SyncPositions
<1>2. IndexOK /\ FreshOK /\ ManifestOK
  BY DEF KInit, IndexOK, FreshOK, ManifestOK, NoRoots
<1>a. DiskOK
  BY KnowledgeAssumption DEF KInit, DiskOK, NoFiles, Contents
<1>3. InScope
  BY DEF KInit, InScope, ThreadInScope, NoRoots
<1>4. OneSync /\ Deleting /\ CleanDirs
  BY DEF KInit, OneSync, InSync, Deleting, CleanDirs
<1>5. RootsKept
  BY DEF KInit, RootsKept, SyncPositions
<1>6. QED
  BY <1>1, <1>2, <1>a, <1>3, <1>4, <1>5, TypeParts DEF SyncInv

(* An operation under way is not idle. *)
LEMMA StepsBusy ==
  ASSUME NEW t \in Threads, KStep(t)
  PROVE  kpc[t] # "idle"
BY DEF KStep, Resolve, ResolveFails, LoadFiles, LoadFilesFails,
       LockSync, SkipUpsert, AddDocuments, CleanStale, CleanStaleFails,
       SkipDelete, DeletePaths, DeletePathsFails, OpenManifest, WriteManifest, WriteFails, CommitRoots

(* An operation begins with a job that has done nothing. *)
LEMMA StartMoves ==
  ASSUME CallTypes, NEW t \in Threads, NEW op \in {"add", "remove"}, NEW rebuild \in BOOLEAN,
         NEW source \in Sources, Start(t, op, rebuild, source)
  PROVE  Moved(t, "resolve", [NoJob EXCEPT !.op = op, !.rebuild = rebuild, !.source = source])
<1> DEFINE own == [NoJob EXCEPT !.op = op, !.rebuild = rebuild, !.source = source]
<1>1. NoJob \in Records
  BY NoJobType
<1>2. own \in Records /\ own.op = op /\ own.source = source
  BY <1>1 DEF Records
<1>3. own \in Records /\ own \in Jobs
  BY <1>2, JobFields
<1>4. job' = [job EXCEPT ![t] = own] /\ KGoto(t, "resolve") /\ "resolve" \in SyncPositions
  BY DEF Start, At, SyncPositions
<1> HIDE DEF own
<1>5. Moved(t, "resolve", own)
  BY <1>3, <1>4, Moves
<1>6. QED
  BY <1>5 DEF own

(* Steps of the store and of the manifest by one operation, the beginning  *)
(* of operations, changes of the files, crashes and restarts keep the      *)
(* invariant.                                                              *)
LEMMA SyncStep == SyncInv /\ FilesApart /\ [KNext]_kVars => SyncInv'
<1> SUFFICES ASSUME SyncInv, FilesApart, [KNext]_kVars PROVE SyncInv'
  OBVIOUS
<1>1. /\ KTypes /\ InScope /\ OneSync /\ RootsKept /\ Deleting /\ CleanDirs
      /\ CallTypes /\ IndexOK /\ FreshOK /\ ManifestOK /\ DiskOK
  BY TypeParts DEF SyncInv
<1>2. ASSUME DiskOK', UNCHANGED <<index, manifestVars, kpc, job, fresh>>
      PROVE  SyncInv'
  <2>1. CallTypes' /\ IndexOK' /\ FreshOK' /\ ManifestOK'
    BY <1>1, <1>2 DEF CallTypes, IndexOK, FreshOK, ManifestOK, manifestVars
  <2>2. KTypes'
    BY <1>2, <2>1, TypeParts, PTL
  <2>3. InScope' /\ OneSync'
    BY <1>1, <1>2 DEF InScope, ThreadInScope, Scope, IsDir, Root, OneSync, InSync, manifestVars
  <2>4. RootsKept'
    BY <1>1, <1>2 DEF RootsKept, InSync, IsDir, NextRoots, Root, manifestVars
  <2>5. Deleting' /\ CleanDirs'
    BY <1>1, <1>2 DEF Deleting, CleanDirs, InSync, IsDir, Forgotten, NextFiles, Root, Texts, manifestVars
  <2>6. QED
    BY <2>2, <2>3, <2>4, <2>5 DEF SyncInv
<1>3. CASE UNCHANGED kVars
  <2>1. DiskOK'
    BY <1>1, <1>3 DEF kVars, callVars, DiskOK
  <2>2. QED
    BY <1>2, <1>3, <2>1 DEF kVars, callVars
<1>4. ASSUME NEW p \in Paths, NEW c \in Contents, EditFile(p, c) PROVE SyncInv'
  <2>1. DiskOK'
    BY <1>1, <1>4, KnowledgeAssumption DEF EditFile, DiskOK, callVars
  <2>2. QED
    BY <1>2, <1>4, <2>1 DEF EditFile, callVars
<1>5. ASSUME NEW r \in Roots, DropDirectory(r) PROVE SyncInv'
  <2>1. DiskOK'
    BY <1>1, <1>5, KnowledgeAssumption DEF DropDirectory, DiskOK, callVars, Contents
  <2>2. QED
    BY <1>2, <1>5, <2>1 DEF DropDirectory, callVars
<1>6. ASSUME NEW t \in Threads, KStep(t) PROVE SyncInv'
  <2>1. kpc[t] # "idle"
    BY <1>6, StepsBusy
  <2>2. KTypes' /\ InScope' /\ OneSync'
    BY <1>1, <1>6, <2>1, TypesStep, ScopeStep
  <2>3. RootsKept' /\ Deleting'
    BY <1>1, <1>6, <2>1, KeptStep, DeletingStep
  <2>4. CleanDirs'
    BY <1>1, <1>6, <2>1, StepIndex, CleanStep
  <2>5. QED
    BY <2>2, <2>3, <2>4 DEF SyncInv
<1>7. ASSUME NEW t \in Threads, NEW op \in {"add", "remove"}, NEW rebuild \in BOOLEAN, NEW source \in Sources,
             Start(t, op, rebuild, source)
      PROVE  SyncInv'
  <2> DEFINE own == [NoJob EXCEPT !.op = op, !.rebuild = rebuild, !.source = source]
  <2>1. Moved(t, "resolve", own) /\ kpc[t] = "idle" /\ up
        /\ UNCHANGED <<disk, dirs, edits, index, manifestVars, fresh>>
    BY <1>1, <1>7, StartMoves DEF Start
  <2>2. own.op = op /\ own.source = source /\ own.files = {} /\ own.doomed = {}
    <3>1. NoJob.files = {} /\ NoJob.doomed = {}
      BY DEF NoJob
    <3>2. QED
      BY <3>1, NoJobType DEF Records
  <2>3. /\ kpc'[t] = "resolve" /\ job'[t].op = op /\ job'[t].source = source /\ job'[t].files = {} /\ job'[t].doomed = {}
        /\ CallTypes' /\ \A u \in Threads \ {t} : KeptJob(u)
    BY <2>1, <2>2 DEF Moved
  <2>4. DiskOK'
    BY <1>1, <1>7, <2>1, KnowledgeAssumption DEF Start, DiskOK
  <2>5. KTypes'
    <3>1. IndexOK' /\ FreshOK' /\ ManifestOK'
      BY <1>1, <2>1 DEF IndexOK, FreshOK, ManifestOK, manifestVars
    <3>2. QED
      BY <2>3, <2>4, <3>1, TypeParts, PTL
  <2>6. \A u \in Threads \ {t} : /\ (InSync(u)' <=> InSync(u)) /\ ThreadInScope(u)'
                                /\ Root(u)' = Root(u) /\ NextFiles(u)' = NextFiles(u) /\ (IsDir(u)' <=> IsDir(u))
    BY <1>1, <2>3, KeptScope DEF KeptJob, NextFiles, InScope
  <2>7. ThreadInScope(t)' /\ ~InSync(t)'
    BY <2>3 DEF ThreadInScope, InSync, IsDir
  <2>8. InScope' /\ OneSync' /\ CleanDirs'
    BY <1>1, <2>1, <2>6, <2>7 DEF InScope, OneSync, CleanDirs, manifestVars
  <2>9. RootsKept'
    <3>1. \A u \in Threads \ {t} : (kpc[u] = "commit" <=> kpc'[u] = "commit") /\ NextRoots(u)' = NextRoots(u)
      BY <2>1, <2>3, <2>6 DEF KeptJob, NextRoots, manifestVars
    <3>2. QED
      BY <1>1, <2>1, <2>3, <2>6, <2>7, <3>1 DEF RootsKept, KeptJob, manifestVars
  <2>10. Deleting'
    <3>1. \A u \in Threads \ {t} : Forgotten(u)' = Forgotten(u) /\ \A q : Texts(q)' = Texts(q)
      BY <2>1, <2>6 DEF Forgotten, Texts, manifestVars
    <3>2. QED
      BY <1>1, <2>3, <2>6, <2>7, <3>1 DEF Deleting, KeptJob
  <2>11. QED
    BY <2>5, <2>8, <2>9, <2>10 DEF SyncInv
<1>8. CASE Crash
  <2>1. CallTypes'
    BY <1>8, NoJobType DEF Crash, CallTypes, SyncPositions
  <2>2. IndexOK' /\ FreshOK' /\ ManifestOK' /\ DiskOK'
    BY <1>1, <1>8 DEF Crash, IndexOK, FreshOK, ManifestOK, DiskOK, NoRoots
  <2>3. KTypes'
    BY <2>1, <2>2, TypeParts, PTL
  <2>4. \A u \in Threads : kpc'[u] = "idle"
    BY <1>8 DEF Crash
  <2>5. InScope' /\ CleanDirs'
    BY <1>1, <1>8, <2>4 DEF InScope, ThreadInScope, CleanDirs, Crash, NoRoots
  <2>6. OneSync' /\ Deleting'
    BY <2>4 DEF OneSync, Deleting, InSync
  <2>7. RootsKept'
    BY <1>1, <1>8, <2>4 DEF RootsKept, Crash
  <2>8. QED
    BY <2>3, <2>5, <2>6, <2>7 DEF SyncInv
<1>9. CASE Restart
  <2>1. CallTypes' /\ IndexOK' /\ FreshOK' /\ ManifestOK' /\ DiskOK'
    BY <1>1, <1>9 DEF Restart, CallTypes, IndexOK, FreshOK, ManifestOK, DiskOK, callVars
  <2>2. KTypes'
    BY <2>1, TypeParts, PTL
  <2>3. (\A u \in Threads : kpc'[u] = "idle") /\ up' /\ ~torn' /\ roots' = manifest'
    BY <1>1, <1>9 DEF Restart, RootsKept, callVars
  <2>4. InScope' /\ CleanDirs'
    BY <1>1, <1>9, <2>3 DEF InScope, ThreadInScope, CleanDirs, Restart
  <2>5. OneSync' /\ Deleting' /\ RootsKept'
    BY <2>3 DEF OneSync, Deleting, InSync, RootsKept
  <2>6. QED
    BY <2>2, <2>4, <2>5 DEF SyncInv
<1>10. QED
  BY <1>3, <1>4, <1>5, <1>6, <1>7, <1>8, <1>9 DEF KNext

(* No file is imported both by itself and with a directory: what the       *)
(* operations hold, know and have deleted fits the manifest.               *)
THEOREM SyncInvariant ==
  ASSUME FilesApart
  PROVE  KSpec => []SyncInv
<1>1. SyncInv /\ [KNext]_kVars => SyncInv'
  BY SyncStep
<1>2. QED
  BY <1>1, InitSync, PTL DEF KSpec

(* A path is forgotten only when nothing of it is left in the index:       *)
(* whatever fails, a deletion that is still due remains on record, in      *)
(* memory and, whenever the process ends with a manifest that is not       *)
(* truncated, for the next agent.                                          *)
THEOREM ManifestRemembers ==
  ASSUME FilesApart
  PROVE  KSpec => ForgetsOnlyDeleted
<1> DEFINE Forgets(p) == p \in Remembered /\ p \notin Remembered'
<1>1. ASSUME SyncInv, [KNext]_kVars, NEW p, Forgets(p)
      PROVE  Texts(p) = {} \/ (~up' /\ torn')
  <2>1. KTypes /\ InScope /\ RootsKept /\ Deleting /\ CallTypes /\ ManifestOK
    BY <1>1, TypeParts DEF SyncInv
  <2>2. ASSUME up, up', roots' = roots PROVE FALSE
    BY <1>1, <2>2 DEF Remembered, Tracked
  <2>3. ASSUME NEW t \in Threads, KStep(t) PROVE Texts(p) = {}
    <3>1. up /\ ManifestStep(t)
      BY <2>1, <2>3, StepsBusy, StepManifest DEF RootsKept
    <3>2. CASE ~CommitRoots(t)
      BY <2>2, <3>1, <3>2 DEF ManifestStep, SameManifest, manifestVars, OpenManifest, WriteManifest
    <3>3. CASE CommitRoots(t)
      <4>1. kpc[t] = "commit" /\ roots' = NextRoots(t) /\ up' = up
        BY <3>3 DEF CommitRoots
      <4>2. IsDir(t) /\ InSync(t)
        BY <2>1, <4>1 DEF InScope, ThreadInScope, InSync
      <4>3. PICK r \in Roots : p \in roots[r] /\ p \notin NextRoots(t)[r]
        BY <1>1, <3>1, <4>1 DEF Remembered, Tracked
      <4>4. r = Root(t) /\ p \notin NextFiles(t)
        BY <2>1, <4>3 DEF NextRoots, NextFiles, ManifestOK
      <4>5. p \in Forgotten(t)
        BY <4>3, <4>4 DEF Forgotten
      <4>6. QED
        BY <2>1, <4>1, <4>2, <4>5 DEF Deleting
    <3>4. QED
      BY <3>2, <3>3
  <2>4. ASSUME Crash PROVE Texts(p) = {} \/ (~up' /\ torn')
    <3>1. up /\ ~up' /\ torn' = torn /\ manifest' = manifest
      BY <2>4 DEF Crash
    <3>2. p \in Tracked(roots) /\ p \notin Tracked(manifest)
      BY <1>1, <3>1 DEF Remembered, Tracked
    <3>3. CASE ~torn
      <4>1. PICK t \in Threads : kpc[t] = "commit"
        BY <2>1, <3>1, <3>2, <3>3 DEF RootsKept
      <4>2. manifest = NextRoots(t) /\ IsDir(t) /\ InSync(t)
        BY <2>1, <4>1 DEF RootsKept, InScope, ThreadInScope, InSync
      <4>3. PICK r \in Roots : p \in roots[r] /\ p \notin NextRoots(t)[r]
        BY <3>2, <4>2 DEF Tracked
      <4>4. r = Root(t) /\ p \notin NextFiles(t)
        BY <2>1, <4>3 DEF NextRoots, NextFiles, ManifestOK
      <4>5. p \in Forgotten(t)
        BY <4>3, <4>4 DEF Forgotten
      <4>6. QED
        BY <2>1, <4>1, <4>2, <4>5 DEF Deleting
    <3>4. QED
      BY <3>1, <3>3
  <2>5. ~Restart
    BY <1>1 DEF Restart, Remembered, Tracked
  <2>6. ASSUME UNCHANGED manifestVars PROVE FALSE
    BY <1>1, <2>6 DEF Remembered, Tracked, manifestVars
  <2>7. QED
    BY <1>1, <2>3, <2>4, <2>5, <2>6 DEF KNext, kVars, EditFile, DropDirectory, Start
<1>2. SyncInv /\ [KNext]_kVars => [\A p \in Remembered \ Remembered' : Texts(p) = {} \/ (~up' /\ torn')]_kVars
  BY <1>1
<1>3. QED
  BY <1>2, SyncInvariant, PTL DEF KSpec, ForgetsOnlyDeleted
-----------------------------------------------------------------------------
(* A file that was read of an import has chunks, and is in the batch. *)
LEMMA ReadHasChunks ==
  ASSUME KTypes, Reading, NEW t \in Threads, kpc[t] \notin {"idle", "resolve", "load"}, job[t].op = "add"
  PROVE  /\ Batch(t) = job[t].files
         /\ \A p \in job[t].files : Split(job[t].loaded[p]) # {}
         /\ \A p \in Paths : p \notin job[t].files => job[t].loaded[p] = "absent"
<1>1. job[t].files \subseteq Paths
  BY TypeParts DEF CallTypes, Records
<1>2. \A p \in Paths : IF p \in job[t].files THEN job[t].loaded[p] \in {"short", "long"}
                                            ELSE job[t].loaded[p] = "absent"
  BY DEF Reading, ReadingOf
<1>3. \A p \in job[t].files : Split(job[t].loaded[p]) # {}
  BY <1>1, <1>2 DEF Split
<1>4. QED
  BY <1>2, <1>3 DEF Batch

(* What the others are doing does not change. *)
LEMMA KeptSmooth ==
  ASSUME NEW u \in Threads, KeptJob(u), ReadingOf(u)
  PROVE  ReadingOf(u)' /\ Added(u)' = Added(u)
<1>1. (IsDir(u)' <=> IsDir(u)) /\ Scope(u)' = Scope(u) /\ Batch(u)' = Batch(u)
  BY KeptScope
<1>2. ReadingOf(u)'
  BY <1>1 DEF ReadingOf, KeptJob
<1>3. \A p : NewChunks(u, p)' = NewChunks(u, p)
  BY <1>1 DEF NewChunks, KeptJob
<1>4. QED
  BY <1>1, <1>2, <1>3 DEF Added

(* Without failures mu is held until the commit. *)
LEMMA HeldToCommit ==
  ASSUME KTypes, InScope, Smooth, NEW t \in Threads, InSync(t), KStep(t)
  PROVE  CommitRoots(t) \/ InSync(t)'
<1>1. CallTypes /\ kpc[t] # "idle" /\ IsDir(t) /\ kpc[t] \notin {"resolve", "load", "lock"}
  BY TypeParts DEF InSync
<1>2. ASSUME NEW p \in {"clean", "delete", "write", "written", "commit"}, Moved(t, p, job[t]) PROVE InSync(t)'
  BY <1>1, <1>2 DEF Moved, InSync, IsDir
<1>3. \A p \in {"clean", "delete", "write", "written", "commit"} :
        GoOn(t, p) \/ (KGoto(t, p) /\ job' = job) => InSync(t)'
  <2>1. {"clean", "delete", "write", "written", "commit"} \subseteq SyncPositions
    BY DEF SyncPositions
  <2>2. QED
    BY <1>1, <1>2, <2>1, GoOnMoves, GotoMoves
<1>4. CASE SkipUpsert(t) \/ SkipDelete(t)
  BY <1>1, <1>3, <1>4 DEF SkipUpsert, SkipDelete
<1>5. CASE CleanStale(t) \/ DeletePaths(t)
  BY <1>1, <1>3, <1>5 DEF CleanStale, DeletePaths
<1>6. ASSUME NEW new, AddDocuments(t, new) PROVE InSync(t)'
  BY <1>3, <1>6 DEF AddDocuments, Smooth
<1>7. CASE OpenManifest(t) \/ WriteManifest(t)
  BY <1>3, <1>7 DEF OpenManifest, WriteManifest
<1>8. QED
  BY <1>1, <1>4, <1>5, <1>6, <1>7
     DEF KStep, Resolve, ResolveFails, LoadFiles, LoadFilesFails,
         LockSync, CleanStaleFails, DeletePathsFails, WriteFails, Smooth

(* The store is written by one operation at a time, and without failures   *)
(* by all that an operation has to write.                                  *)
SmoothIndexStep(t) ==
  \/ index' = index /\ kpc[t] # "clean" /\ kpc'[t] # "clean"
     /\ (kpc[t] = "apply" => Batch(t) = {}) /\ (kpc[t] = "delete" => job[t].doomed = {})
  \/ upsertMuFree /\ kpc[t] = "apply" /\ kpc'[t] = "clean" /\ Batch(t) # {} /\ Moved(t, "clean", job[t])
     /\ index' = {c \in index : ~Overwrites(Added(t), c)} \cup Added(t)
  \/ kpc[t] = "clean" /\ kpc'[t] # "clean" /\ index' = index \ Stale(t)
  \/ upsertMuFree /\ kpc[t] = "delete" /\ kpc'[t] # "clean" /\ index' = index \ Doomed(t)

(* Every step does that. *)
LEMMA SmoothIndex ==
  ASSUME KTypes, InScope, Smooth, NEW t \in Threads, KStep(t)
  PROVE  SmoothIndexStep(t)
<1>1. CallTypes /\ kpc[t] # "idle"
  BY TypeParts, StepsBusy
<1>2. \A p : KGoto(t, p) => kpc'[t] = p
  BY <1>1 DEF CallTypes, KGoto, At
<1>3. (\E wrote : Fail(t, wrote) \/ Succeed(t, wrote)) \/ (\E p : p # "clean" /\ (KGoto(t, p) \/ GoOn(t, p)))
        => kpc'[t] # "clean"
  BY <1>2 DEF Fail, Succeed, GoOn
<1>4. CASE Resolve(t) \/ LoadFiles(t) \/ LockSync(t) \/ SkipDelete(t)
  BY <1>3, <1>4 DEF Resolve, LoadFiles, LockSync, SkipDelete, SmoothIndexStep
<1>5. CASE ResolveFails(t) \/ LoadFilesFails(t) \/ WriteFails(t)
  BY <1>3, <1>5 DEF ResolveFails, LoadFilesFails, WriteFails, SmoothIndexStep
<1>6. CASE OpenManifest(t) \/ WriteManifest(t) \/ CommitRoots(t)
  BY <1>3, <1>6 DEF OpenManifest, WriteManifest, CommitRoots, SmoothIndexStep
<1>8. CASE SkipUpsert(t)
  BY <1>3, <1>8 DEF SkipUpsert, SmoothIndexStep
<1>9. ASSUME NEW new, AddDocuments(t, new) PROVE SmoothIndexStep(t)
  <2>1. /\ kpc[t] = "apply" /\ upsertMuFree /\ new = Added(t) /\ GoOn(t, "clean") /\ Batch(t) # {}
        /\ index' = {c \in index : ~Overwrites(Added(t), c)} \cup Added(t)
    BY <1>9 DEF AddDocuments, Smooth
  <2>2. Moved(t, "clean", job[t])
    BY <1>1, <2>1, GoOnMoves DEF SyncPositions
  <2>3. QED
    BY <2>1, <2>2 DEF Moved, SmoothIndexStep
<1>10. CASE CleanStale(t)
  BY <1>3, <1>10 DEF CleanStale, SmoothIndexStep
<1>11. CASE DeletePaths(t)
  BY <1>3, <1>11 DEF DeletePaths, SmoothIndexStep
<1>12. QED
  BY <1>4, <1>5, <1>6, <1>8, <1>9, <1>10, <1>11 DEF KStep, CleanStaleFails, DeletePathsFails, Smooth

(* Without failures every operation has read what is there. *)
LEMMA ReadingStep ==
  ASSUME SyncInv, Smooth, Reading, NEW t \in Threads, KStep(t)
  PROVE  Reading'
<1>1. KTypes /\ InScope /\ RootsKept /\ CallTypes /\ DiskOK
  BY TypeParts DEF SyncInv
<1>2. Move(t) /\ ManifestStep(t) /\ kpc[t] # "idle"
  BY <1>1, StepMoves, StepManifest, StepsBusy
<1>3. disk' = disk
  BY DEF KStep, Resolve, ResolveFails, LoadFiles, LoadFilesFails,
         LockSync, SkipUpsert, AddDocuments, CleanStale, CleanStaleFails, SkipDelete, DeletePaths,
         DeletePathsFails, OpenManifest, WriteManifest, WriteFails, CommitRoots
<1>4. \A p \in Paths : disk'[p] # "empty"
  BY <1>3 DEF Reading
<1>5. up'
  BY <1>2 DEF Reading, ManifestStep, SameManifest, manifestVars, OpenManifest, WriteManifest, CommitRoots
<1>6. ASSUME NEW u \in Threads \ {t} PROVE ReadingOf(u)'
  BY <1>2, <1>6, KeptSmooth DEF Move, Moved, Reading
<1>7. ReadingOf(t)'
  <2>1. job[t] \in Records /\ job[t] \in Jobs /\ ThreadInScope(t) /\ ReadingOf(t)
    BY <1>1, <1>2 DEF CallTypes, InScope, Reading
  <2>2. kpc'[t] # "idle" => (IsDir(t)' <=> IsDir(t)) /\ Scope(t)' = Scope(t)
    <3>1. kpc'[t] # "idle" => job'[t].source = job[t].source
      BY <1>1, <1>2, OwnSource
    <3>2. QED
      BY <3>1 DEF IsDir, Scope, Root
  <2>3. CASE Moved(t, "idle", NoJob)
    BY <2>3 DEF Moved, ReadingOf
  <2>4. CASE kpc[t] \in {"apply", "clean", "delete", "commit"} /\ Moved(t, "resolve", [job[t] EXCEPT !.op = "add"])
    BY <2>4 DEF Moved, ReadingOf
  <2>5. CASE kpc[t] = "resolve" /\ Moved(t, ResolveTo(t), [job[t] EXCEPT !.files = Listed(t),
                                                     !.doomed = IF IsDir(t) THEN {} ELSE Listed(t)])
    <3>1. /\ kpc'[t] = ResolveTo(t) /\ job'[t].op = job[t].op /\ job'[t].files = Listed(t)
          /\ job'[t].doomed = IF IsDir(t) THEN {} ELSE Listed(t)
      BY <2>1, <2>5 DEF Moved, Records
    <3>2. ~IsDir(t) => Listed(t) = Scope(t)
      BY DEF Listed, Scope
    <3>3. \/ kpc'[t] = "load"
          \/ kpc'[t] \in {"lock", "delete"} /\ job[t].op # "add"
      BY <3>1 DEF ResolveTo
    <3>4. QED
      BY <2>2, <3>1, <3>2, <3>3 DEF ReadingOf
  <2>6. CASE kpc[t] = "load" /\ LoadFiles(t)
             /\ Moved(t, IF IsDir(t) THEN "lock" ELSE "apply", [job[t] EXCEPT !.loaded = ReadOf(t)])
    <3>1. /\ kpc'[t] = (IF IsDir(t) THEN "lock" ELSE "apply") /\ job'[t].op = job[t].op /\ job'[t].files = job[t].files
          /\ job'[t].loaded = ReadOf(t)
      BY <2>1, <2>6 DEF Moved, Records
    <3>2. \A p \in job[t].files : disk[p] \in Contents /\ disk[p] # "absent" /\ disk[p] # "empty"
      BY <1>1, <2>1, <2>6 DEF LoadFiles, DiskOK, Records, Reading
    <3>3. \A p \in Paths : IF p \in job[t].files THEN ReadOf(t)[p] \in {"short", "long"} ELSE ReadOf(t)[p] = "absent"
      BY <3>2 DEF ReadOf, Contents
    <3>4. QED
      BY <2>1, <2>2, <2>6, <3>1, <3>3 DEF ReadingOf
  <2>7. CASE kpc[t] = "lock" /\ muFree /\ Moved(t, IF job[t].op = "add" THEN "apply" ELSE "delete",
                                       [job[t] EXCEPT !.disturbed = FALSE, !.doomed = DoomedOf(t)])
    <3>1. /\ kpc'[t] = (IF job[t].op = "add" THEN "apply" ELSE "delete") /\ IsDir(t)
          /\ job'[t].op = job[t].op /\ job'[t].files = job[t].files /\ job'[t].loaded = job[t].loaded
      BY <2>1, <2>7 DEF Moved, Records, ThreadInScope
    <3>2. QED
      BY <2>1, <2>2, <2>7, <3>1 DEF ReadingOf
  <2>8. ASSUME NEW p, Moved(t, p, job[t]), p \in {"idle", "resolve"} \/ kpc[t] \notin {"idle", "resolve", "load"},
               p = "delete" => IsDir(t), p = "clean" => kpc[t] = "apply", p \notin {"load", "apply"}
        PROVE  ReadingOf(t)'
    <3>1. kpc'[t] = p /\ job'[t] = job[t]
      BY <2>8 DEF Moved
    <3>2. QED
      BY <2>1, <2>2, <2>8, <3>1 DEF ReadingOf
  <2>9. kpc[t] = "load" => LoadFiles(t) \/ Moved(t, "idle", NoJob)
    BY <1>1, FailMoves
       DEF KStep, Resolve, ResolveFails, LoadFilesFails, LockSync, SkipUpsert, AddDocuments, CleanStale, CleanStaleFails, SkipDelete, DeletePaths,
           DeletePathsFails, OpenManifest, WriteManifest, WriteFails, CommitRoots
  <2>10. QED
    BY <1>2, <2>3, <2>4, <2>5, <2>6, <2>7, <2>8, <2>9 DEF Move
<1>8. \A u \in Threads : ReadingOf(u)'
  BY <1>6, <1>7
<1>9. QED
  BY <1>4, <1>5, <1>8 DEF Reading

(* Whoever begins to replace the chunks of its batch has added all of the  *)
(* new ones, and found the store free.                                     *)
LEMMA IntoClean ==
  ASSUME KTypes, NEW t \in Threads, KStep(t), kpc'[t] = "clean"
  PROVE  /\ kpc[t] = "apply" /\ upsertMuFree /\ Moved(t, "clean", job[t])
         /\ index' = {c \in index : ~Overwrites(Added(t), c)} \cup Added(t)
<1>1. CallTypes /\ kpc[t] # "idle"
  BY TypeParts, StepsBusy
<1>2. \A p : p # "clean" => ~KGoto(t, p) /\ ~GoOn(t, p)
  BY <1>1 DEF CallTypes, KGoto, At, GoOn
<1>3. \A wrote : ~Fail(t, wrote) /\ ~Succeed(t, wrote)
  BY <1>2 DEF Fail, Succeed
<1>4. ASSUME NEW new, AddDocuments(t, new)
      PROVE  /\ kpc[t] = "apply" /\ upsertMuFree /\ GoOn(t, "clean")
             /\ index' = {c \in index : ~Overwrites(Added(t), c)} \cup Added(t)
  BY <1>3, <1>4 DEF AddDocuments
<1>5. \E new : AddDocuments(t, new)
  BY <1>2, <1>3
     DEF KStep, Resolve, ResolveFails, LoadFiles, LoadFilesFails, LockSync, SkipUpsert, CleanStale, CleanStaleFails,
         SkipDelete, DeletePaths, DeletePathsFails, OpenManifest, WriteManifest, WriteFails, CommitRoots
<1>6. Moved(t, "clean", job[t])
  BY <1>1, <1>4, <1>5, GoOnMoves DEF SyncPositions
<1>7. QED
  BY <1>4, <1>5, <1>6

(* One operation at a time replaces the chunks of its batch. *)
LEMMA UpsertStep ==
  ASSUME KTypes, InScope, OneUpsert, NEW t \in Threads, KStep(t)
  PROVE  OneUpsert'
<1>1. Move(t)
  BY StepMoves
<1>2. \A u \in Threads \ {t} : kpc'[u] = kpc[u]
  BY <1>1 DEF Move, Moved, KeptJob
<1>3. kpc'[t] = "clean" => upsertMuFree
  BY IntoClean
<1>4. ASSUME NEW u \in Threads, NEW w \in Threads, kpc'[u] = "clean", kpc'[w] = "clean" PROVE u = w
  BY <1>2, <1>3, <1>4 DEF upsertMuFree, OneUpsert
<1>5. QED
  BY <1>4 DEF OneUpsert

(* While the chunks of a batch are replaced nobody else writes; afterwards *)
(* they are what was read.                                                 *)
LEMMA CleanedUp ==
  ASSUME KTypes, NEW t \in Threads, kpc[t] = "clean", Added(t) \subseteq index,
         index' = index \ Stale(t), NEW p \in Batch(t)
  PROVE  Texts(p)' = {<<i, job[t].loaded[p]>> : i \in Split(job[t].loaded[p])}
<1>1. CallTypes /\ IndexOK /\ job[t] \in Jobs
  BY TypeParts DEF CallTypes
<1>2. ASSUME NEW i \in Split(job[t].loaded[p])
      PROVE  \E c \in index' : c.path = p /\ c.pos = i /\ c.text = job[t].loaded[p]
  <2> DEFINE c == [path |-> p, pos |-> i, text |-> job[t].loaded[p],
                   src |-> IF IsDir(t) THEN "clean" ELSE job[t].source.src]
  <2>1. c \in NewChunks(t, p)
    BY DEF NewChunks
  <2>2. c \in Added(t)
    BY <1>1, <2>1 DEF Added
  <2>3. c \in index /\ c \notin Stale(t)
    BY <2>2 DEF Stale
  <2>4. QED
    BY <2>3
<1>3. ASSUME NEW c \in index', c.path = p
      PROVE  c.pos \in Split(job[t].loaded[p]) /\ c.text = job[t].loaded[p]
  <2>1. c \in index /\ c.pos \in Split(job[t].loaded[p])
    BY <1>1, <1>3 DEF Stale
  <2> DEFINE n == [path |-> p, pos |-> c.pos, text |-> job[t].loaded[p],
                   src |-> IF IsDir(t) THEN "clean" ELSE job[t].source.src]
  <2>2. n \in NewChunks(t, p)
    BY <2>1 DEF NewChunks
  <2>3. n \in index /\ n.path = c.path /\ n.pos = c.pos /\ n.text = job[t].loaded[p]
    BY <1>1, <1>3, <2>2 DEF Added
  <2>4. n = c
    BY <1>1, <2>1, <2>3 DEF IndexOK
  <2>5. QED
    BY <2>1, <2>3, <2>4
<1>4. Texts(p)' = {<<c.pos, c.text>> : c \in {d \in index' : d.path = p}}
  BY DEF Texts
<1>5. \A x : x \in Texts(p)' <=> \E i \in Split(job[t].loaded[p]) : x = <<i, job[t].loaded[p]>>
  BY <1>2, <1>3, <1>4
<1>6. QED
  BY <1>5

(* An import skips the upsert only without chunks. *)
LEMMA SkipStep ==
  ASSUME CallTypes, NEW t \in Threads, kpc[t] = "apply", kpc'[t] = "delete", KStep(t)
  PROVE  Batch(t) = {}
<1>1. \A p : KGoto(t, p) => kpc'[t] = p
  BY DEF CallTypes, KGoto, At
<1>2. \A new : ~AddDocuments(t, new)
  BY <1>1 DEF AddDocuments, GoOn, Fail
<1>3. QED
  BY <1>2 DEF KStep, Resolve, ResolveFails, LoadFiles, LoadFilesFails, LockSync, SkipUpsert, CleanStale, CleanStaleFails, SkipDelete, DeletePaths,
              DeletePathsFails, OpenManifest, WriteManifest, WriteFails, CommitRoots

(* What an import has read stays in the index while it goes on. *)
LEMMA ImportingStep ==
  ASSUME SyncInv, FilesApart, Smooth, Reading, OneUpsert, Importing, NEW t \in Threads, KStep(t)
  PROVE  Importing'
<1>1. KTypes /\ InScope /\ OneSync /\ CallTypes
  BY TypeParts DEF SyncInv
<1>2. Move(t) /\ IndexStep(t) /\ SmoothIndexStep(t) /\ kpc[t] # "idle"
  BY <1>1, StepMoves, StepIndex, SmoothIndex, StepsBusy
<1>3. ASSUME NEW u \in Threads \ {t} PROVE ImportingOf(u)'
  <2>1. KeptJob(u) /\ ImportingOf(u)
    BY <1>2 DEF Move, Moved, Importing
  <2>2. Added(u)' = Added(u) /\ (IsDir(u)' <=> IsDir(u))
    BY <2>1, KeptSmooth, KeptScope DEF Reading
  <2>3. kpc[u] = "clean" => index' = index
    BY <1>2, <1>3 DEF SmoothIndexStep, upsertMuFree, OneUpsert
  <2>4. ASSUME IsDir(u), kpc[u] \in {"delete", "write", "written", "commit"}, NEW p \in job[u].files
        PROVE  Imported(u, p)' <=> Imported(u, p)
    <3>1. InSync(u)
      BY <2>4 DEF InSync
    <3>2. p \in Under[Root(u)]
      BY <1>1, <2>4 DEF InScope, ThreadInScope, Scope
    <3>3. Texts(p)' = Texts(p)
      BY <1>1, <1>2, <1>3, <3>1, <3>2, Undisturbed
    <3>4. job'[u].loaded = job[u].loaded
      BY <2>1 DEF KeptJob
    <3>5. QED
      BY <3>3, <3>4 DEF Imported
  <2>5. kpc'[u] = "clean" => Added(u)' \subseteq index'
    BY <2>1, <2>2, <2>3 DEF ImportingOf, KeptJob
  <2>6. IsDir(u)' /\ job'[u].op = "add" =>
          /\ kpc'[u] \in {"delete", "write", "written", "commit"} => \A p \in job'[u].files : Imported(u, p)'
          /\ kpc'[u] \in {"apply", "clean", "delete"} => job'[u].doomed \cap job'[u].files = {}
    BY <2>1, <2>2, <2>4 DEF ImportingOf, KeptJob
  <2>7. QED
    BY <2>5, <2>6 DEF ImportingOf
<1>4. ImportingOf(t)'
  <2>1. ImportingOf(t) /\ job[t] \in Jobs
    BY <1>1, <1>2 DEF Importing, CallTypes
  <2>2. ASSUME kpc'[t] = "clean" PROVE Added(t)' \subseteq index'
    <3>1. Moved(t, "clean", job[t]) /\ Added(t) \subseteq index' /\ kpc[t] = "apply"
      BY <1>2, <2>2 DEF SmoothIndexStep
    <3>2. job'[t] = job[t]
      BY <3>1 DEF Moved
    <3>3. Batch(t)' = Batch(t) /\ \A p : NewChunks(t, p)' = NewChunks(t, p)
      BY <3>2 DEF Batch, NewChunks, IsDir
    <3>4. Added(t)' = Added(t)
      BY <3>3 DEF Added
    <3>5. QED
      BY <3>1, <3>4
  <2>3. ASSUME InSync(t)', job'[t].op = "add"
        PROVE  /\ kpc'[t] \in {"delete", "write", "written", "commit"} => \A p \in job'[t].files : Imported(t, p)'
               /\ kpc'[t] \in {"apply", "clean", "delete"} => job'[t].doomed \cap job'[t].files = {}
    <3>1. /\ IsDir(t) /\ Root(t) \in Roots /\ Root(t)' = Root(t)
          /\ job'[t].op = job[t].op /\ job'[t].files = job[t].files /\ job'[t].loaded = job[t].loaded
          /\ \/ kpc[t] = "lock" /\ kpc'[t] = (IF job[t].op = "add" THEN "apply" ELSE "delete")
                /\ job'[t].doomed = DoomedOf(t)
             \/ /\ InSync(t) /\ job'[t].doomed = job[t].doomed
                /\ <<kpc[t], kpc'[t]>> \in
                      {<<"apply", "clean">>, <<"apply", "delete">>, <<"clean", "delete">>, <<"delete", "write">>,
                       <<"write", "written">>, <<"written", "commit">>}
      BY <1>1, <1>2, <2>3, HoldsMu
    <3>2. kpc'[t] \in {"apply", "clean", "delete"} => job'[t].doomed \cap job'[t].files = {}
      BY <2>1, <2>3, <3>1 DEF ImportingOf, DoomedOf
    <3>3. ASSUME kpc'[t] \in {"delete", "write", "written", "commit"}, NEW p \in job[t].files
          PROVE  Texts(p)' = {<<i, job[t].loaded[p]>> : i \in Split(job[t].loaded[p])}
      <4>1. CASE kpc[t] = "lock"
        BY <2>3, <3>1, <3>3, <4>1
      <4>2. CASE kpc[t] = "apply"
        <5>1. kpc'[t] = "delete"
          BY <3>1, <3>3, <4>2
        <5>2. Batch(t) = {}
          BY <1>1, <4>2, <5>1, SkipStep
        <5>3. QED
          BY <1>1, <2>3, <3>1, <3>3, <4>2, <5>2, ReadHasChunks
      <4>3. CASE kpc[t] = "clean"
        <5>1. index' = index \ Stale(t)
          BY <1>2, <4>3 DEF SmoothIndexStep
        <5>2. QED
          BY <1>1, <2>1, <2>3, <3>1, <3>3, <4>3, <5>1, ReadHasChunks, CleanedUp DEF ImportingOf
      <4>4. CASE kpc[t] = "delete"
        <5>1. index' = index \ Doomed(t)
          BY <1>1, <3>1, <4>4, DeleteStep
        <5>2. p \notin job[t].doomed
          BY <2>1, <2>3, <3>1, <3>3, <4>4 DEF ImportingOf
        <5>3. Texts(p)' = Texts(p)
          BY <5>1, <5>2 DEF Texts, Doomed
        <5>4. QED
          BY <2>1, <2>3, <3>1, <3>3, <4>4, <5>3 DEF ImportingOf, Imported
      <4>5. CASE kpc[t] \in {"write", "written"}
        <5>1. index' = index
          BY <1>2, <4>5 DEF IndexStep
        <5>2. Texts(p)' = Texts(p)
          BY <5>1 DEF Texts
        <5>3. QED
          BY <2>1, <2>3, <3>1, <3>3, <4>5, <5>2 DEF ImportingOf, Imported
      <4>6. QED
        BY <3>1, <4>1, <4>2, <4>3, <4>4, <4>5
    <3>4. ASSUME kpc'[t] \in {"delete", "write", "written", "commit"}, NEW p \in job'[t].files PROVE Imported(t, p)'
      BY <3>1, <3>3, <3>4 DEF Imported
    <3>5. QED
      BY <3>2, <3>4
  <2>4. IsDir(t)' /\ kpc'[t] \in {"apply", "clean", "delete", "write", "written", "commit"} => InSync(t)'
    BY DEF InSync
  <2>5. QED
    BY <2>2, <2>3, <2>4 DEF ImportingOf
<1>5. QED
  BY <1>3, <1>4 DEF Importing

(* Only the import of a file puts something of it into the index. *)
LEMMA StaysAbsent ==
  ASSUME KTypes, NEW t \in Threads, kpc[t] # "idle", SmoothIndexStep(t), NEW p, Texts(p) = {},
         ~(kpc[t] = "apply" /\ kpc'[t] = "clean" /\ p \in job[t].files)
  PROVE  Texts(p)' = {}
<1>1. job[t] \in Jobs
  BY TypeParts DEF CallTypes
<1>2. \A c \in index' : c \in index \/ (c \in Added(t) /\ kpc[t] = "apply" /\ kpc'[t] = "clean")
  BY DEF SmoothIndexStep
<1>3. \A c \in index : c.path # p
  BY DEF Texts
<1>4. \A c \in index' : c.path # p
  BY <1>1, <1>2, <1>3, NewChunkType
<1>5. QED
  BY <1>4 DEF Texts

(* When t commits, nothing is left of the files that its directory has no  *)
(* more.                                                                   *)
LEMMA CommitClears ==
  ASSUME SyncInv, Accounted, NEW t \in Threads, kpc[t] = "commit",
         NEW p \in Under[Root(t)], p \notin NextFiles(t)
  PROVE  Texts(p) = {}
<1>1. KTypes /\ InScope /\ OneSync /\ Deleting /\ CallTypes
  BY TypeParts DEF SyncInv
<1>2. InSync(t) /\ Root(t) \in Roots
  BY <1>1, RootType DEF InScope, ThreadInScope, InSync
<1>3. CASE p \in roots[Root(t)]
  BY <1>1, <1>2, <1>3 DEF Deleting, Forgotten
<1>4. CASE p \notin roots[Root(t)]
  <2>1. ASSUME NEW u \in Threads, InSync(u), job[u].op = "add", p \in job[u].files PROVE FALSE
    BY <1>1, <1>2, <2>1 DEF OneSync, NextFiles
  <2>2. QED
    BY <1>2, <1>4, <2>1 DEF Accounted
<1>5. QED
  BY <1>3, <1>4

(* What is in the index of a directory stays tracked or is being imported. *)
LEMMA AccountedStep ==
  ASSUME SyncInv, FilesApart, RootsApart, Smooth, Reading, Accounted, NEW t \in Threads, KStep(t)
  PROVE  Accounted'
<1>1. KTypes /\ InScope /\ OneSync /\ RootsKept /\ CallTypes
  BY TypeParts DEF SyncInv
<1>2. Move(t) /\ ManifestStep(t) /\ SmoothIndexStep(t) /\ kpc[t] # "idle" /\ job[t] \in Jobs
  BY <1>1, StepMoves, StepManifest, SmoothIndex, StepsBusy DEF CallTypes
<1> DEFINE Importer(u, r, p) == InSync(u) /\ Root(u) = r /\ job[u].op = "add" /\ p \in job[u].files
<1>3. \A r \in Roots : \A p \in Under[r] \ roots[r] : Texts(p) = {} \/ \E u \in Threads : Importer(u, r, p)
  BY DEF Accounted
<1> SUFFICES ASSUME NEW r \in Roots, NEW p \in Under[r] \ roots'[r], Texts(p)' # {}
             PROVE  \E u \in Threads : Importer(u, r, p)'
  BY DEF Accounted
<1>4. \A u \in Threads \ {t} : Importer(u, r, p) => Importer(u, r, p)'
  BY <1>2, KeptScope DEF Move, Moved, KeptJob
<1>5. CASE CommitRoots(t)
  <2>1. kpc[t] = "commit" /\ roots' = NextRoots(t) /\ index' = index
    BY <1>5 DEF CommitRoots
  <2>2. InSync(t) /\ Root(t) \in Roots
    BY <1>1, <2>1, RootType DEF InScope, ThreadInScope, InSync
  <2>3. Texts(p)' = Texts(p)
    BY <2>1 DEF Texts
  <2>4. CASE r = Root(t)
    <3>1. p \notin NextFiles(t)
      BY <1>1, <2>1, <2>4, TypeParts DEF NextRoots, NextFiles, ManifestOK
    <3>2. QED
      BY <2>1, <2>3, <2>4, <3>1, CommitClears
  <2>5. CASE r # Root(t)
    <3>1. p \notin roots[r]
      BY <1>1, <2>1, <2>5, TypeParts DEF NextRoots, ManifestOK
    <3>2. QED
      BY <1>1, <1>3, <2>2, <2>3, <2>5, <3>1 DEF OneSync
  <2>6. QED
    BY <2>4, <2>5
<1>6. CASE ~CommitRoots(t)
  <2>1. roots' = roots
    BY <1>2, <1>6 DEF ManifestStep, SameManifest, manifestVars, OpenManifest, WriteManifest
  <2>2. Importer(t, r, p) => Importer(t, r, p)'
    <3>1. InSync(t) => InSync(t)'
      BY <1>1, <1>6, HeldToCommit
    <3>2. QED
      BY <1>1, <1>2, <3>1, HoldsMu
  <2>3. CASE Texts(p) = {}
    <3>1. kpc[t] = "apply" /\ kpc'[t] = "clean" /\ p \in job[t].files
      BY <1>1, <1>2, <2>3, StaysAbsent
    <3>2. p \in Scope(t) /\ job[t].op = "add"
      BY <1>1, <3>1 DEF InScope, ThreadInScope
    <3>3. IsDir(t) /\ r = Root(t)
      <4>1. CASE IsDir(t)
        BY <1>1, <1>2, <3>2, <4>1, RootType DEF Scope, RootsApart
      <4>2. CASE ~IsDir(t)
        <5>1. Scope(t) \subseteq FilePaths
          BY <1>2, <4>2, JobFields, SourceFields DEF Scope, IsDir
        <5>2. QED
          BY <3>2, <5>1 DEF FilesApart
      <4>3. QED
        BY <4>1, <4>2
    <3>4. Importer(t, r, p)
      BY <3>1, <3>2, <3>3 DEF InSync
    <3>5. QED
      BY <2>2, <3>4
  <2>4. QED
    BY <1>3, <1>4, <2>1, <2>2, <2>3
<1>7. QED
  BY <1>5, <1>6

(* The upsert of a batch never takes the last chunk of a path away; the    *)
(* deletion takes those of its paths only.                                 *)
LEMMA StaysPresent ==
  ASSUME KTypes, Importing, NEW t \in Threads, kpc[t] # "idle", SmoothIndexStep(t), NEW p, Texts(p) # {},
         ~(kpc[t] = "delete" /\ p \in job[t].doomed)
  PROVE  Texts(p)' # {}
<1>1. PICK c \in index : c.path = p
  BY DEF Texts
<1>2. CASE index' = index
  BY <1>2 DEF Texts
<1>3. CASE index' = {d \in index : ~Overwrites(Added(t), d)} \cup Added(t)
  <2>1. \E d \in index' : d.path = p
    BY <1>1, <1>3 DEF Overwrites
  <2>2. QED
    BY <2>1 DEF Texts
<1>4. CASE kpc[t] = "clean" /\ index' = index \ Stale(t)
  <2>1. CASE p \in Batch(t)
    <3>1. PICK i : i \in Split(job[t].loaded[p])
      BY <2>1 DEF Batch
    <3> DEFINE n == [path |-> p, pos |-> i, text |-> job[t].loaded[p],
                     src |-> IF IsDir(t) THEN "clean" ELSE job[t].source.src]
    <3>2. n \in NewChunks(t, p)
      BY <3>1 DEF NewChunks
    <3>3. n \in index /\ n \notin Stale(t) /\ n.path = p
      BY <1>4, <2>1, <3>1, <3>2 DEF Added, Importing, ImportingOf, Stale
    <3>4. QED
      BY <1>4, <3>3 DEF Texts
  <2>2. CASE p \notin Batch(t)
    BY <1>1, <1>4, <2>2 DEF Texts, Stale
  <2>3. QED
    BY <2>1, <2>2
<1>5. CASE kpc[t] = "delete" /\ index' = index \ Doomed(t)
  BY <1>1, <1>5 DEF Texts, Doomed
<1>6. QED
  BY <1>2, <1>3, <1>4, <1>5 DEF SmoothIndexStep

(* A tracked file stays searchable. *)
LEMMA SearchableStep ==
  ASSUME SyncInv, FilesApart, RootsApart, Smooth, Reading, Importing, StaysSearchable, NEW t \in Threads, KStep(t)
  PROVE  StaysSearchable'
<1>1. KTypes /\ InScope /\ OneSync /\ RootsKept /\ CallTypes
  BY TypeParts DEF SyncInv
<1>2. Move(t) /\ ManifestStep(t) /\ SmoothIndexStep(t) /\ kpc[t] # "idle" /\ job[t] \in Jobs
  BY <1>1, StepMoves, StepManifest, SmoothIndex, StepsBusy DEF CallTypes
<1> DEFINE Deletes(u, p) == InSync(u) /\ p \in job[u].doomed
<1>3. \A p \in Tracked(roots) : Texts(p) # {} \/ \E u \in Threads : Deletes(u, p)
  BY DEF StaysSearchable
<1> SUFFICES ASSUME NEW r \in Roots, NEW p \in roots'[r], Texts(p)' = {}
             PROVE  \E u \in Threads : Deletes(u, p)'
  BY DEF StaysSearchable, Tracked
<1>4. CASE CommitRoots(t)
  <2>1. kpc[t] = "commit" /\ roots' = NextRoots(t) /\ index' = index
    BY <1>4 DEF CommitRoots
  <2>2. InSync(t) /\ Root(t) \in Roots /\ IsDir(t)
    BY <1>1, <2>1, RootType DEF InScope, ThreadInScope, InSync
  <2>3. Texts(p)' = Texts(p)
    BY <2>1 DEF Texts
  <2>4. CASE r = Root(t)
    <3>1. p \in NextFiles(t)
      BY <1>1, <2>1, <2>4, TypeParts DEF NextRoots, NextFiles, ManifestOK
    <3>2. job[t].op = "add" /\ p \in job[t].files
      BY <3>1 DEF NextFiles
    <3>3. Texts(p) = {<<i, job[t].loaded[p]>> : i \in Split(job[t].loaded[p])}
      BY <2>1, <2>2, <3>2 DEF Importing, ImportingOf, Imported
    <3>4. Split(job[t].loaded[p]) # {}
      BY <1>1, <2>1, <3>2, ReadHasChunks
    <3>5. QED
      BY <2>3, <3>3, <3>4
  <2>5. CASE r # Root(t)
    <3>1. p \in roots[r]
      BY <1>1, <2>1, <2>5, TypeParts DEF NextRoots, ManifestOK
    <3>2. p \in Under[r]
      BY <1>1, <3>1 DEF InScope
    <3>3. p \notin job[t].doomed
      BY <1>1, <1>2, <2>2, <2>5, <3>2 DEF InScope, ThreadInScope, Scope, RootsApart
    <3>4. \A u \in Threads : ~Deletes(u, p)
      BY <1>1, <2>2, <3>3 DEF OneSync
    <3>5. QED
      BY <1>3, <2>3, <3>1, <3>4 DEF Tracked
  <2>6. QED
    BY <2>4, <2>5
<1>5. CASE ~CommitRoots(t)
  <2>1. roots' = roots
    BY <1>2, <1>5 DEF ManifestStep, SameManifest, manifestVars, OpenManifest, WriteManifest
  <2>2. p \in Under[r] /\ p \in Tracked(roots)
    BY <1>1, <2>1 DEF InScope, Tracked
  <2>3. \A u \in Threads \ {t} : Deletes(u, p) => Deletes(u, p)'
    BY <1>2, KeptScope DEF Move, Moved, KeptJob
  <2>4. Deletes(t, p) => Deletes(t, p)'
    <3>1. InSync(t) => InSync(t)' /\ kpc[t] # "lock"
      BY <1>1, <1>5, HeldToCommit DEF InSync
    <3>2. InSync(t) => job'[t].doomed = job[t].doomed
      BY <1>1, <1>2, <3>1, HoldsMu
    <3>3. QED
      BY <3>1, <3>2
  <2>5. CASE Texts(p) # {}
    <3>1. kpc[t] = "delete" /\ p \in job[t].doomed
      BY <1>1, <1>2, <2>5, StaysPresent
    <3>2. IsDir(t)
      <4>1. SUFFICES ASSUME ~IsDir(t) PROVE FALSE
        OBVIOUS
      <4>2. Scope(t) \subseteq FilePaths
        BY <1>2, <4>1, JobFields, SourceFields DEF Scope, IsDir
      <4>3. QED
        BY <1>1, <1>2, <2>2, <3>1, <4>2 DEF InScope, ThreadInScope, FilesApart
    <3>3. Deletes(t, p)
      BY <3>1, <3>2 DEF InSync
    <3>4. QED
      BY <2>4, <3>3
  <2>6. QED
    BY <1>3, <2>2, <2>3, <2>4, <2>5
<1>6. QED
  BY <1>4, <1>5

(* An operation that begins. *)
Begun(t) == kpc[t] = "idle" /\ kpc'[t] = "resolve"

(* Operations that begin and changes of the files disturb nobody. *)
LEMMA SmoothAside ==
  ASSUME SmoothInv, UNCHANGED <<index, manifestVars>>, \A p \in Paths : disk'[p] # "empty",
         \A t \in Threads : KeptJob(t) \/ Begun(t)
  PROVE  SmoothInv'
<1>1. Reading /\ OneUpsert /\ Importing /\ Accounted /\ StaysSearchable
  BY DEF SmoothInv
<1>2. \A p : Texts(p)' = Texts(p)
  BY DEF Texts
<1>3. ASSUME NEW t \in Threads, KeptJob(t)
      PROVE  ReadingOf(t)' /\ ImportingOf(t)'
  <2>1. ReadingOf(t)' /\ Added(t)' = Added(t) /\ (IsDir(t)' <=> IsDir(t)) /\ ImportingOf(t)
    BY <1>1, <1>3, KeptSmooth, KeptScope DEF Reading, Importing
  <2>2. \A p : Imported(t, p)' <=> Imported(t, p)
    BY <1>2, <1>3 DEF Imported, KeptJob
  <2>3. ImportingOf(t)'
    BY <1>3, <2>1, <2>2 DEF ImportingOf, KeptJob
  <2>4. QED
    BY <2>1, <2>3
<1>4. ASSUME NEW t \in Threads, Begun(t)
      PROVE  ReadingOf(t)' /\ ImportingOf(t)' /\ kpc'[t] # "clean" /\ ~InSync(t)
  BY <1>4 DEF Begun, ReadingOf, ImportingOf, InSync
<1>5. Reading'
  BY <1>1, <1>3, <1>4 DEF Reading, manifestVars
<1>6. OneUpsert'
  BY <1>1, <1>4 DEF OneUpsert, KeptJob
<1>7. Importing'
  BY <1>3, <1>4 DEF Importing
<1>8. \A t \in Threads : InSync(t) => InSync(t)' /\ Root(t)' = Root(t) /\ KeptJob(t)
  BY <1>4, KeptScope
<1>9. Accounted'
  BY <1>1, <1>2, <1>8 DEF Accounted, KeptJob, manifestVars
<1>10. StaysSearchable'
  BY <1>1, <1>2, <1>8 DEF StaysSearchable, KeptJob, manifestVars
<1>11. QED
  BY <1>5, <1>6, <1>7, <1>9, <1>10 DEF SmoothInv

(* A new agent satisfies the invariant of the runs without failures. *)
LEMMA InitSmooth == KInit => SmoothInv
<1> SUFFICES ASSUME KInit PROVE SmoothInv
  OBVIOUS
<1>1. Reading
  BY DEF KInit, Reading, ReadingOf, NoFiles
<1>2. OneUpsert /\ Importing
  BY DEF KInit, OneUpsert, Importing, ImportingOf
<1>3. Accounted
  BY DEF KInit, Accounted, Texts
<1>4. StaysSearchable
  BY DEF KInit, StaysSearchable, Tracked, NoRoots
<1>5. QED
  BY <1>1, <1>2, <1>3, <1>4 DEF SmoothInv

(* A step of an operation keeps it. *)
LEMMA SmoothOpStep ==
  ASSUME SyncInv, FilesApart, RootsApart, Smooth, SmoothInv, NEW t \in Threads, KStep(t)
  PROVE  SmoothInv'
<1>1. KTypes /\ InScope
  BY DEF SyncInv
<1>2. Reading' /\ OneUpsert' /\ Importing'
  BY <1>1, ReadingStep, UpsertStep, ImportingStep DEF SmoothInv
<1>3. Accounted' /\ StaysSearchable'
  BY AccountedStep, SearchableStep DEF SmoothInv
<1>4. QED
  BY <1>2, <1>3 DEF SmoothInv

(* Without failures and crashes, so does every other step.                 *)
LEMMA SmoothStep ==
  ASSUME FilesApart, RootsApart, Smooth, SyncInv, SmoothInv, [KNext]_kVars
  PROVE  SmoothInv'
<1>1. CallTypes /\ Reading
  BY TypeParts DEF SyncInv, SmoothInv
<1>2. CASE UNCHANGED kVars
  <2>1. \A t \in Threads : KeptJob(t)
    BY <1>2 DEF kVars, callVars, KeptJob
  <2>2. QED
    BY <1>1, <1>2, <2>1, SmoothAside DEF kVars, Reading
<1>3. ASSUME NEW p \in Paths, NEW c \in Contents, EditFile(p, c) PROVE SmoothInv'
  <2>1. \A t \in Threads : KeptJob(t)
    BY <1>3 DEF EditFile, callVars, KeptJob
  <2>2. \A q \in Paths : disk'[q] # "empty"
    BY <1>1, <1>3, TypeParts DEF EditFile, Reading, Smooth, DiskOK, SyncInv
  <2>3. QED
    BY <1>3, <2>1, <2>2, SmoothAside DEF EditFile
<1>4. ASSUME NEW r \in Roots, DropDirectory(r) PROVE SmoothInv'
  <2>1. \A t \in Threads : KeptJob(t)
    BY <1>4 DEF DropDirectory, callVars, KeptJob
  <2>2. \A q \in Paths : disk'[q] # "empty"
    BY <1>1, <1>4 DEF DropDirectory, Reading
  <2>3. QED
    BY <1>4, <2>1, <2>2, SmoothAside DEF DropDirectory
<1>5. ASSUME NEW t \in Threads, KStep(t) PROVE SmoothInv'
  BY <1>5, SmoothOpStep
<1>6. ASSUME NEW t \in Threads, NEW op \in {"add", "remove"}, NEW rebuild \in BOOLEAN, NEW source \in Sources,
             Start(t, op, rebuild, source)
      PROVE  SmoothInv'
  <2> DEFINE own == [NoJob EXCEPT !.op = op, !.rebuild = rebuild, !.source = source]
  <2>1. Moved(t, "resolve", own) /\ kpc[t] = "idle" /\ UNCHANGED <<disk, index, manifestVars>>
    BY <1>1, <1>6, StartMoves DEF Start
  <2>3. Begun(t)
    BY <2>1 DEF Moved, Begun
  <2>4. \A u \in Threads : KeptJob(u) \/ Begun(u)
    BY <2>1, <2>3 DEF Moved
  <2>5. QED
    BY <1>1, <2>1, <2>4, SmoothAside DEF Reading
<1>7. ~Crash /\ ~Restart
  BY <1>1 DEF Crash, Smooth, Restart, Reading
<1>8. QED
  BY <1>2, <1>3, <1>4, <1>5, <1>6, <1>7 DEF KNext

(* Where nothing fails, an update never makes a tracked file disappear     *)
(* from the index on the way: AddDocuments overwrites before CleanStale    *)
(* deletes, and Sync deletes only what is no longer listed.                *)
THEOREM FilesStaySearchable ==
  ASSUME FilesApart, RootsApart, Smooth
  PROVE  KSpec => []StaysSearchable
<1>1. SyncInv /\ SmoothInv /\ [KNext]_kVars => SmoothInv'
  BY SmoothStep
<1>2. KSpec => []SyncInv
  BY SyncInvariant
<1>3. KSpec => []SmoothInv
  BY <1>1, <1>2, InitSmooth, PTL DEF KSpec
<1>4. SmoothInv => StaysSearchable
  BY DEF SmoothInv
<1>5. QED
  BY <1>3, <1>4, PTL
-----------------------------------------------------------------------------
(* Without RawPaths no import spells a path otherwise than filepath.Clean. *)
LEMMA AllCleanStep ==
  ASSUME KTypes, ~RawPaths, AllClean, NEW t \in Threads, KStep(t)
  PROVE  AllClean'
<1>1. job[t] \in Jobs /\ IndexStep(t)
  BY TypeParts, StepIndex, StepsBusy DEF CallTypes
<1>2. \A c \in Added(t) : c.src = "clean"
  BY <1>1, NewChunkType, JobFields, SourceFields DEF IsDir
<1>3. \A c \in index' : c \in index \/ c \in Added(t)
  BY <1>1 DEF IndexStep
<1>4. QED
  BY <1>2, <1>3 DEF AllClean

(* What f promises of the index is there. *)
Kept(f) == \A p \in f.paths : Texts(p) = {<<i, f.want[p]>> : i \in Split(f.want[p])}

(* Whoever writes to the index withdraws the promise, unless that is the   *)
(* last step of an operation that succeeds.                                *)
LEMMA FreshStep ==
  ASSUME NEW t \in Threads, KStep(t)
  PROVE  \/ fresh' = {}
         \/ fresh' = fresh /\ index' = index
         \/ SkipUpsert(t) /\ ~IsDir(t)
         \/ CleanStale(t) /\ ~IsDir(t) /\ Succeed(t, TRUE)
         \/ DeletePaths(t) /\ ~IsDir(t) /\ Succeed(t, TRUE)
         \/ CommitRoots(t) /\ Succeed(t, FALSE)
<1> DEFINE Goal == \/ fresh' = {}
                   \/ fresh' = fresh /\ index' = index
                   \/ SkipUpsert(t) /\ ~IsDir(t)
                   \/ CleanStale(t) /\ ~IsDir(t) /\ Succeed(t, TRUE)
                   \/ DeletePaths(t) /\ ~IsDir(t) /\ Succeed(t, TRUE)
                   \/ CommitRoots(t) /\ Succeed(t, FALSE)
<1>1. ASSUME fresh' = {} PROVE Goal
  BY <1>1
<1>2. ASSUME fresh' = fresh, index' = index PROVE Goal
  BY <1>2
<1>3. CASE Resolve(t) \/ LoadFiles(t) \/ LockSync(t) \/ SkipDelete(t) \/ OpenManifest(t) \/ WriteManifest(t)
  <2>1. fresh' = fresh /\ index' = index
    BY <1>3 DEF Resolve, LoadFiles, LockSync, SkipDelete, OpenManifest, WriteManifest
  <2>2. QED
    BY <1>2, <2>1
<1>4. CASE ResolveFails(t) \/ LoadFilesFails(t) \/ WriteFails(t)
  <2>1. Fail(t, FALSE) /\ index' = index
    BY <1>4 DEF ResolveFails, LoadFilesFails, WriteFails
  <2>2. QED
    BY <1>2, <2>1 DEF Fail
<1>5. ASSUME NEW s, AddDocuments(t, s) \/ CleanStaleFails(t, s) \/ DeletePathsFails(t, s) PROVE Goal
  <2>1. fresh' = {}
    BY <1>5 DEF AddDocuments, CleanStaleFails, DeletePathsFails, GoOn, Fail
  <2>2. QED
    BY <1>1, <2>1
<1>6. CASE SkipUpsert(t)
  <2>1. IsDir(t) => fresh' = fresh /\ index' = index
    BY <1>6 DEF SkipUpsert
  <2>2. QED
    BY <1>2, <1>6, <2>1
<1>7. CASE CleanStale(t) \/ DeletePaths(t)
  <2>1. IF IsDir(t) THEN fresh' = {} ELSE Succeed(t, TRUE)
    BY <1>7 DEF CleanStale, DeletePaths, GoOn
  <2>2. QED
    BY <1>1, <1>7, <2>1
<1>8. CASE CommitRoots(t)
  BY <1>8 DEF CommitRoots
<1>9. QED
  BY <1>3, <1>4, <1>5, <1>6, <1>7, <1>8 DEF KStep

(* What Succeed promises, of a file and of a directory. *)
Promise(t, paths) == [paths |-> paths, want |-> IF job[t].op = "add" THEN job[t].loaded ELSE NoFiles]

(* The only promise there is after a success is the one it made. *)
LEMMA Promised ==
  ASSUME NEW t \in Threads, NEW wrote, Succeed(t, wrote), NEW f \in fresh'
  PROVE  f = Promise(t, Scope(t))
BY DEF Succeed, Promise, Scope

(* A success finds the index as the source was.                            *)
LEMMA SuccessMirrors ==
  ASSUME SyncInv, FilesApart, SmoothInv, AllClean, NEW t \in Threads,
         \/ CleanStale(t) /\ ~IsDir(t)
         \/ DeletePaths(t) /\ ~IsDir(t)
         \/ CommitRoots(t),
         NEW p \in Scope(t)
  PROVE  Texts(p)' = {<<i, Promise(t, Scope(t)).want[p]>> : i \in Split(Promise(t, Scope(t)).want[p])}
<1>1. /\ KTypes /\ InScope /\ CallTypes /\ Reading /\ Importing /\ Accounted
      /\ ThreadInScope(t) /\ ReadingOf(t) /\ ImportingOf(t)
  BY TypeParts DEF SyncInv, SmoothInv, InScope, Reading, Importing
<1>2. kpc[t] # "idle" /\ job[t] \in Jobs
  BY <1>1 DEF CleanStale, DeletePaths, CommitRoots, CallTypes
<1>3. p \in Paths
  BY <1>2, JobFields, SourceFields, PathsOf DEF Scope, IsDir, Root
<1>4. Split("absent") = {} /\ NoFiles[p] = "absent"
  BY <1>3 DEF Split, NoFiles
<1> DEFINE want == Promise(t, Scope(t)).want
<1>5. want = IF job[t].op = "add" THEN job[t].loaded ELSE NoFiles
  BY DEF Promise
<1>6. CASE CleanStale(t) /\ ~IsDir(t)
  <2>1. kpc[t] = "clean" /\ index' = index \ Stale(t)
    BY <1>6 DEF CleanStale
  <2>2. job[t].op = "add" /\ p \in job[t].files /\ Added(t) \subseteq index
    BY <1>1, <1>6, <2>1 DEF ThreadInScope, ReadingOf, ImportingOf
  <2>3. QED
    BY <1>1, <1>5, <2>1, <2>2, ReadHasChunks, CleanedUp
<1>7. CASE DeletePaths(t) /\ ~IsDir(t)
  <2>1. kpc[t] = "delete" /\ index' = index \ Doomed(t)
    BY <1>7 DEF DeletePaths
  <2>2. job[t].op = "remove" /\ p \in job[t].doomed
    BY <1>1, <1>7, <2>1 DEF ThreadInScope, ReadingOf
  <2>3. Texts(p)' = {}
    BY <2>1, <2>2 DEF Texts, Doomed, AllClean
  <2>4. QED
    BY <1>4, <1>5, <2>2, <2>3
<1>8. CASE CommitRoots(t)
  <2>1. kpc[t] = "commit" /\ index' = index /\ IsDir(t)
    BY <1>1, <1>8 DEF CommitRoots, ThreadInScope
  <2>2. Texts(p)' = Texts(p) /\ p \in Under[Root(t)]
    BY <2>1 DEF Texts, Scope
  <2>3. CASE p \in NextFiles(t)
    <3>1. job[t].op = "add" /\ p \in job[t].files
      BY <2>3 DEF NextFiles
    <3>2. QED
      BY <1>1, <1>5, <2>1, <2>2, <3>1 DEF ImportingOf, Imported
  <2>4. CASE p \notin NextFiles(t)
    <3>1. Texts(p) = {}
      BY <1>1, <2>1, <2>2, <2>4, CommitClears
    <3>2. want[p] = "absent"
      BY <1>1, <1>3, <1>4, <1>5, <2>1, <2>4, ReadHasChunks DEF NextFiles
    <3>3. QED
      BY <1>4, <2>2, <3>1, <3>2
  <2>5. QED
    BY <2>3, <2>4
<1>9. QED
  BY <1>6, <1>7, <1>8

(* A step of an operation keeps the promises. *)
LEMMA MirrorStep ==
  ASSUME SyncInv, FilesApart, Smooth, SmoothInv, AllClean, MirrorsSource, NEW t \in Threads, KStep(t)
  PROVE  MirrorsSource'
<1>1. \A f \in fresh : Kept(f)
  BY DEF MirrorsSource, Kept
<1> SUFFICES ASSUME NEW f \in fresh' PROVE Kept(f)'
  BY DEF MirrorsSource, Kept
<1>2. CASE fresh' = fresh /\ index' = index
  BY <1>1, <1>2 DEF Kept, Texts
<1>3. ~(SkipUpsert(t) /\ ~IsDir(t))
  <2> SUFFICES ASSUME SkipUpsert(t), ~IsDir(t) PROVE FALSE
    OBVIOUS
  <2>1. KTypes /\ Reading /\ ThreadInScope(t) /\ ReadingOf(t) /\ kpc[t] = "apply" /\ Batch(t) = {}
    BY DEF SyncInv, SmoothInv, InScope, Reading, SkipUpsert
  <2>2. job[t].op = "add" /\ job[t].files = Scope(t)
    BY <2>1 DEF ThreadInScope, ReadingOf
  <2>3. Batch(t) = job[t].files
    BY <2>1, <2>2, ReadHasChunks
  <2>4. QED
    BY <2>1, <2>2, <2>3 DEF Scope
<1>4. ASSUME NEW wrote, Succeed(t, wrote),
             (CleanStale(t) /\ ~IsDir(t)) \/ (DeletePaths(t) /\ ~IsDir(t)) \/ CommitRoots(t)
      PROVE  Kept(f)'
  <2>1. f = Promise(t, Scope(t))
    BY <1>4, Promised
  <2>2. f.paths = Scope(t) /\ f.want = Promise(t, Scope(t)).want
    BY <2>1 DEF Promise
  <2>3. \A p \in Scope(t) :
          Texts(p)' = {<<i, Promise(t, Scope(t)).want[p]>> : i \in Split(Promise(t, Scope(t)).want[p])}
    BY <1>4, SuccessMirrors
  <2>4. QED
    BY <2>2, <2>3 DEF Kept
<1>5. QED
  BY <1>2, <1>3, <1>4, FreshStep

(* Where nothing fails, what the last operation that succeeded has         *)
(* promised is what the index holds: the chunks of the files as they were  *)
(* read, or nothing.                                                       *)
THEOREM IndexMirrorsSource ==
  ASSUME FilesApart, RootsApart, Smooth, ~RawPaths
  PROVE  KSpec => []MirrorsSource
<1> DEFINE Inv == SmoothInv /\ AllClean /\ MirrorsSource
<1>1. KInit => Inv
  <2>1. KInit => AllClean /\ MirrorsSource
    BY DEF KInit, AllClean, MirrorsSource
  <2>2. QED
    BY <2>1, InitSmooth
<1>2. SyncInv /\ Inv /\ [KNext]_kVars => Inv'
  <2> SUFFICES ASSUME SyncInv, SmoothInv, AllClean, MirrorsSource, [KNext]_kVars
               PROVE  SmoothInv' /\ AllClean' /\ MirrorsSource'
    OBVIOUS
  <2>1. SmoothInv'
    BY SmoothStep
  <2>2. ASSUME NEW t \in Threads, KStep(t) PROVE AllClean' /\ MirrorsSource'
    BY <2>2, AllCleanStep, MirrorStep DEF SyncInv
  <2>3. ASSUME UNCHANGED <<index, fresh>> PROVE AllClean' /\ MirrorsSource'
    BY <2>3 DEF AllClean, MirrorsSource, Texts
  <2>4. ~Crash
    BY DEF Crash, Smooth
  <2>5. QED
    BY <2>1, <2>2, <2>3, <2>4 DEF KNext, kVars, callVars, EditFile, DropDirectory, Start, Restart
<1>3. KSpec => []SyncInv
  BY SyncInvariant
<1>4. KSpec => []Inv
  BY <1>1, <1>2, <1>3, PTL DEF KSpec
<1>5. Inv => MirrorsSource
  OBVIOUS
<1>6. QED
  BY <1>4, <1>5, PTL
-----------------------------------------------------------------------------
(* Whatever fails: what an import has read, what it has in the index as    *)
(* long as nobody disturbs it, and that it deletes none of its files.      *)
RepairingOf(t) ==
  /\ kpc[t] \notin {"idle", "resolve", "load"} /\ job[t].op = "add" =>
       \A p \in Paths \ job[t].files : job[t].loaded[p] = "absent"
  /\ kpc[t] = "clean" => Added(t) \subseteq index
  /\ IsDir(t) /\ job[t].op = "add" =>
       /\ kpc[t] \in {"delete", "write", "written", "commit"} /\ ~job[t].disturbed =>
            \A p \in Batch(t) : Imported(t, p)
       /\ kpc[t] \in {"apply", "clean", "delete"} => job[t].doomed \cap job[t].files = {}

Repairing == OneUpsert /\ \A t \in Threads : RepairingOf(t)

(* Of the files with text, what f promises of the index is there. *)
Repaired(f) ==
  \A p \in f.paths : Split(f.want[p]) # {} => Texts(p) = {<<i, f.want[p]>> : i \in Split(f.want[p])}

(* Whoever writes to the index disturbs the operations of the others, and  *)
(* waits for the upsert that is under way.                                 *)
LEMMA Disturbs ==
  ASSUME CallTypes, NEW t \in Threads, KStep(t), NEW u \in Threads, u # t, kpc[u] # "idle"
  PROVE  /\ index' = index \/ job'[u].disturbed
         /\ job[u].disturbed => job'[u].disturbed
         /\ kpc[u] = "clean" /\ OneUpsert => index' = index
<1> DEFINE Goal == (index' = index \/ job'[u].disturbed) /\ (job[u].disturbed => job'[u].disturbed)
<1>1. job[u] \in Records /\ job[u].disturbed \in BOOLEAN
  BY DEF CallTypes, Records
<1>2. \A own, wrote : Continue(t, own, wrote) =>
        /\ job[u].disturbed => job'[u].disturbed
        /\ wrote = TRUE => job'[u].disturbed
  <2> SUFFICES ASSUME NEW own, NEW wrote, Continue(t, own, wrote)
               PROVE  (job[u].disturbed => job'[u].disturbed) /\ (wrote = TRUE => job'[u].disturbed)
    OBVIOUS
  <2>1. job'[u] = [job[u] EXCEPT !.disturbed = @ \/ (wrote /\ kpc[u] # "idle")]
    BY DEF Continue
  <2>2. job'[u].disturbed = (job[u].disturbed \/ (wrote /\ kpc[u] # "idle"))
    BY <1>1, <2>1 DEF Records
  <2>3. QED
    BY <2>2
<1>3. \A wrote : Fail(t, wrote) \/ Succeed(t, wrote) =>
        /\ job[u].disturbed => job'[u].disturbed
        /\ wrote = TRUE => job'[u].disturbed
  BY <1>2 DEF Fail, Succeed
<1>4. \A p : GoOn(t, p) => job'[u].disturbed
  BY <1>2 DEF GoOn
<1>5. ASSUME index' = index, job' = job \/ \E own : job' = [job EXCEPT ![t] = own] PROVE Goal
  <2>1. job'[u] = job[u]
    BY <1>5 DEF CallTypes
  <2>2. QED
    BY <1>5, <2>1
<1>6. ASSUME SkipDelete(t) \/ OpenManifest(t) \/ WriteManifest(t) PROVE Goal
  BY <1>5, <1>6 DEF SkipDelete, OpenManifest, WriteManifest
<1>7. ASSUME Resolve(t) \/ LoadFiles(t) \/ LockSync(t) PROVE Goal
  <2>1. index' = index /\ job'[u] = job[u]
    BY <1>7 DEF CallTypes, Resolve, LoadFiles, LockSync
  <2>2. QED
    BY <2>1
<1>8. ASSUME SkipUpsert(t) PROVE Goal
  BY <1>3, <1>5, <1>8 DEF SkipUpsert
<1>9. ASSUME ResolveFails(t) \/ LoadFilesFails(t) \/ WriteFails(t) \/ CommitRoots(t) PROVE Goal
  BY <1>3, <1>9 DEF ResolveFails, LoadFilesFails, WriteFails, CommitRoots
<1>10. ASSUME CleanStale(t) \/ DeletePaths(t) PROVE Goal
  <2>1. GoOn(t, "delete") \/ GoOn(t, "write") \/ Succeed(t, TRUE)
    BY <1>10 DEF CleanStale, DeletePaths
  <2>2. job'[u].disturbed
    BY <1>3, <1>4, <2>1
  <2>3. QED
    BY <2>2
<1>11. ASSUME NEW x, AddDocuments(t, x) \/ CleanStaleFails(t, x) \/ DeletePathsFails(t, x) PROVE Goal
  BY <1>3, <1>4, <1>11 DEF AddDocuments, CleanStaleFails, DeletePathsFails
<1>12. Goal
  BY <1>6, <1>7, <1>8, <1>9, <1>10, <1>11 DEF KStep
<1>13. kpc[u] = "clean" /\ OneUpsert => index' = index
  <2> SUFFICES ASSUME kpc[u] = "clean", OneUpsert PROVE index' = index
    OBVIOUS
  <2>1. ~upsertMuFree /\ kpc[t] # "clean"
    BY DEF upsertMuFree, OneUpsert
  <2>2. QED
    BY <2>1
       DEF KStep, Resolve, ResolveFails, LoadFiles, LoadFilesFails, LockSync, SkipUpsert, AddDocuments, CleanStale,
           CleanStaleFails, SkipDelete, DeletePaths, DeletePathsFails, OpenManifest, WriteManifest, WriteFails,
           CommitRoots
<1>14. QED
  BY <1>12, <1>13

(* From "clean" to "delete" it goes by way of the deletion of the stale    *)
(* chunks.                                                                 *)
LEMMA CleanedStep ==
  ASSUME CallTypes, NEW t \in Threads, kpc[t] = "clean", kpc'[t] = "delete", KStep(t)
  PROVE  index' = index \ Stale(t)
<1>1. \A wrote : ~Fail(t, wrote)
  BY DEF CallTypes, Fail, KGoto, At
<1>2. QED
  BY <1>1
     DEF KStep, Resolve, ResolveFails, LoadFiles, LoadFilesFails, LockSync, SkipUpsert, AddDocuments, CleanStale,
         CleanStaleFails, SkipDelete, DeletePaths, DeletePathsFails, OpenManifest, WriteManifest, WriteFails,
         CommitRoots

(* The part of an operation that a step of another leaves alone. *)
LEMMA KeptRepairing ==
  ASSUME NEW u \in Threads, RepairingOf(u), KeptJob(u),
         kpc[u] = "clean" => index' = index,
         kpc[u] # "idle" => (index' = index \/ job'[u].disturbed) /\ (job[u].disturbed => job'[u].disturbed)
  PROVE  RepairingOf(u)'
<1>1. Added(u)' = Added(u) /\ Batch(u)' = Batch(u) /\ (IsDir(u)' <=> IsDir(u))
  <2>1. Batch(u)' = Batch(u) /\ (IsDir(u)' <=> IsDir(u))
    BY KeptScope
  <2>2. \A p : NewChunks(u, p)' = NewChunks(u, p)
    BY <2>1 DEF NewChunks, KeptJob
  <2>3. QED
    BY <2>1, <2>2 DEF Added
<1>2. kpc[u] # "idle" /\ ~job'[u].disturbed => ~job[u].disturbed /\ \A p : Imported(u, p)' <=> Imported(u, p)
  BY DEF Imported, Texts, KeptJob
<1>3. QED
  BY <1>1, <1>2 DEF RepairingOf, KeptJob

(* What t has itself, after its step. *)
LEMMA OwnRepairing ==
  ASSUME KTypes, InScope, NEW t \in Threads, RepairingOf(t), KStep(t)
  PROVE  RepairingOf(t)'
<1>1. CallTypes /\ DiskOK /\ kpc[t] # "idle" /\ Move(t) /\ IndexStep(t) /\ ThreadInScope(t)
  BY TypeParts, StepsBusy, StepMoves, StepIndex DEF InScope
<1>2. job[t] \in Records /\ job[t] \in Jobs /\ job[t].op \in {"add", "remove"}
  BY <1>1 DEF CallTypes, Jobs
<1>3. kpc'[t] \notin {"idle", "resolve", "load"} /\ job'[t].op = "add" =>
        \A p \in Paths \ job'[t].files : job'[t].loaded[p] = "absent"
  <2> DEFINE Goal == kpc'[t] \notin {"idle", "resolve", "load"} /\ job'[t].op = "add" =>
                       \A p \in Paths \ job'[t].files : job'[t].loaded[p] = "absent"
  <2>1. CASE Moved(t, "idle", NoJob) \/ Moved(t, "resolve", [job[t] EXCEPT !.op = "add"])
    BY <2>1 DEF Moved
  <2>2. CASE kpc[t] = "resolve" /\ Moved(t, ResolveTo(t), [job[t] EXCEPT !.files = Listed(t),
                                                     !.doomed = IF IsDir(t) THEN {} ELSE Listed(t)])
    <3>1. kpc'[t] = ResolveTo(t) /\ job'[t].op = job[t].op
      BY <1>2, <2>2 DEF Moved, Records
    <3>2. QED
      BY <3>1 DEF ResolveTo
  <2>3. CASE Moved(t, IF IsDir(t) THEN "lock" ELSE "apply", [job[t] EXCEPT !.loaded = ReadOf(t)])
    <3>1. job'[t].files = job[t].files /\ job'[t].loaded = ReadOf(t)
      BY <1>2, <2>3 DEF Moved, Records
    <3>2. QED
      BY <3>1 DEF ReadOf
  <2>4. CASE kpc[t] = "lock" /\ Moved(t, IF job[t].op = "add" THEN "apply" ELSE "delete",
                                      [job[t] EXCEPT !.disturbed = FALSE, !.doomed = DoomedOf(t)])
    <3>1. job'[t].files = job[t].files /\ job'[t].loaded = job[t].loaded /\ job'[t].op = job[t].op
      BY <1>2, <2>4 DEF Moved, Records
    <3>2. QED
      BY <2>4, <3>1 DEF RepairingOf
  <2>5. ASSUME NEW p, kpc[t] \notin {"idle", "resolve", "load"}, Moved(t, p, job[t]) PROVE Goal
    BY <2>5 DEF RepairingOf, Moved
  <2>6. QED
    BY <1>1, <2>1, <2>2, <2>3, <2>4, <2>5 DEF Move
<1>4. ASSUME kpc'[t] = "clean" PROVE Added(t)' \subseteq index'
  <2>1. Moved(t, "clean", job[t]) /\ Added(t) \subseteq index'
    BY <1>4, IntoClean
  <2>2. job'[t] = job[t]
    BY <2>1 DEF Moved
  <2>3. Batch(t)' = Batch(t) /\ \A p : NewChunks(t, p)' = NewChunks(t, p)
    BY <2>2 DEF Batch, NewChunks, IsDir
  <2>4. Added(t)' = Added(t)
    BY <2>3 DEF Added
  <2>5. QED
    BY <2>1, <2>4
<1>5. ASSUME InSync(t)', job'[t].op = "add"
      PROVE  /\ kpc'[t] \in {"delete", "write", "written", "commit"} /\ ~job'[t].disturbed =>
                  \A p \in Batch(t)' : Imported(t, p)'
             /\ kpc'[t] \in {"apply", "clean", "delete"} => job'[t].doomed \cap job'[t].files = {}
  <2>1. /\ IsDir(t) /\ job[t].op = "add" /\ job'[t].files = job[t].files /\ job'[t].loaded = job[t].loaded
        /\ \/ kpc[t] = "lock" /\ kpc'[t] = "apply" /\ job'[t].doomed = DoomedOf(t)
           \/ /\ InSync(t) /\ job'[t] = job[t]
              /\ <<kpc[t], kpc'[t]>> \in
                   {<<"apply", "clean">>, <<"apply", "delete">>, <<"clean", "delete">>, <<"delete", "write">>,
                    <<"write", "written">>, <<"written", "commit">>}
    BY <1>1, <1>5, HoldsMu
  <2>2. Batch(t)' = Batch(t)
    BY <2>1 DEF Batch
  <2>3. kpc'[t] \in {"apply", "clean", "delete"} => job'[t].doomed \cap job'[t].files = {}
    BY <2>1 DEF RepairingOf, DoomedOf
  <2>4. ASSUME kpc'[t] \in {"delete", "write", "written", "commit"}, ~job'[t].disturbed, NEW p \in Batch(t)
        PROVE  Texts(p)' = {<<i, job[t].loaded[p]>> : i \in Split(job[t].loaded[p])}
    <3>1. ~job[t].disturbed /\ job[t].doomed = job'[t].doomed
      BY <2>1, <2>4
    <3>2. CASE kpc[t] = "apply"
      BY <1>1, <2>1, <2>4, <3>2, SkipStep
    <3>3. CASE kpc[t] = "clean"
      <4>1. index' = index \ Stale(t)
        BY <1>1, <2>1, <2>4, <3>3, CleanedStep
      <4>2. QED
        BY <2>4, <3>3, <4>1, CleanedUp DEF RepairingOf
    <3>4. CASE kpc[t] = "delete"
      <4>1. index' = index \ Doomed(t)
        BY <2>1, <3>4, DeleteStep
      <4>2. p \notin job[t].doomed
        BY <2>1, <2>4, <3>4 DEF RepairingOf, Batch
      <4>3. Texts(p)' = Texts(p)
        BY <4>1, <4>2 DEF Texts, Doomed
      <4>4. QED
        BY <2>1, <2>4, <3>1, <3>4, <4>3 DEF RepairingOf, Imported
    <3>5. CASE kpc[t] \in {"write", "written"}
      <4>1. Texts(p)' = Texts(p)
        BY <1>1, <3>5 DEF IndexStep, Texts
      <4>2. QED
        BY <2>1, <2>4, <3>1, <3>5, <4>1 DEF RepairingOf, Imported
    <3>6. QED
      BY <2>1, <2>4, <3>2, <3>3, <3>4, <3>5
  <2>5. ASSUME kpc'[t] \in {"delete", "write", "written", "commit"}, ~job'[t].disturbed, NEW p \in Batch(t)'
        PROVE  Imported(t, p)'
    BY <2>1, <2>2, <2>4, <2>5 DEF Imported
  <2>6. QED
    BY <2>3, <2>5
<1>6. IsDir(t)' /\ kpc'[t] \in {"apply", "clean", "delete", "write", "written", "commit"} => InSync(t)'
  BY DEF InSync
<1>7. QED
  BY <1>3, <1>4, <1>5, <1>6 DEF RepairingOf

(* What an operation has promised when it succeeds. *)
LEMMA SuccessRepairs ==
  ASSUME KTypes, InScope, Repairing, NEW t \in Threads, NEW wrote, Succeed(t, wrote), NEW f \in fresh',
         (~IsDir(t) /\ (SkipUpsert(t) \/ CleanStale(t) \/ DeletePaths(t))) \/ CommitRoots(t)
  PROVE  Repaired(f)'
<1>1. f.paths = Scope(t) /\ f.want = (IF job[t].op = "add" THEN job[t].loaded ELSE NoFiles)
      /\ ~(IsDir(t) /\ job[t].disturbed)
  BY Promised DEF Promise, Succeed
<1>2. CallTypes /\ ThreadInScope(t) /\ RepairingOf(t) /\ kpc[t] # "idle" /\ job[t] \in Jobs
  BY TypeParts DEF InScope, Repairing, CallTypes, SkipUpsert, CleanStale, DeletePaths, CommitRoots
<1>3. \A p \in Paths : Split("absent") = {} /\ NoFiles[p] = "absent"
  BY DEF Split, NoFiles
<1> SUFFICES ASSUME NEW p \in Scope(t), Split(f.want[p]) # {}
             PROVE  Texts(p)' = {<<i, f.want[p]>> : i \in Split(f.want[p])}
  BY <1>1 DEF Repaired
<1>4. p \in Paths
  BY <1>2, JobFields, SourceFields, PathsOf DEF Scope, IsDir, Root
<1>5. job[t].op = "add" /\ f.want = job[t].loaded
  BY <1>1, <1>3, <1>4
<1>6. kpc[t] \in {"apply", "clean", "delete", "commit"}
  BY DEF SkipUpsert, CleanStale, DeletePaths, CommitRoots
<1>7. p \in Batch(t)
  BY <1>2, <1>3, <1>4, <1>5, <1>6 DEF RepairingOf, Batch
<1>8. CASE SkipUpsert(t)
  BY <1>7, <1>8 DEF SkipUpsert
<1>9. CASE CleanStale(t)
  <2>1. kpc[t] = "clean" /\ index' = index \ Stale(t) /\ Added(t) \subseteq index
    BY <1>2, <1>9 DEF CleanStale, RepairingOf
  <2>2. QED
    BY <1>5, <1>7, <2>1, CleanedUp
<1>10. ~(DeletePaths(t) /\ ~IsDir(t))
  BY <1>2, <1>5 DEF DeletePaths, ThreadInScope
<1>11. CASE CommitRoots(t)
  <2>1. kpc[t] = "commit" /\ IsDir(t) /\ index' = index
    BY <1>2, <1>11 DEF CommitRoots, ThreadInScope
  <2>2. Imported(t, p)
    BY <1>1, <1>2, <1>5, <1>7, <2>1 DEF RepairingOf
  <2>3. QED
    BY <1>5, <2>1, <2>2 DEF Imported, Texts
<1>12. QED
  BY <1>8, <1>9, <1>10, <1>11

(* A step of an operation keeps it all. *)
LEMMA RepairStep ==
  ASSUME KTypes, InScope, Repairing, RetryRepairs, NEW t \in Threads, KStep(t)
  PROVE  Repairing' /\ RetryRepairs'
<1>1. CallTypes /\ Move(t) /\ OneUpsert
  BY TypeParts, StepMoves DEF Repairing
<1>2. OneUpsert' /\ RepairingOf(t)'
  BY <1>1, UpsertStep, OwnRepairing DEF Repairing
<1>3. ASSUME NEW u \in Threads, u # t PROVE RepairingOf(u)'
  <2>1. KeptJob(u) /\ RepairingOf(u)
    BY <1>1, <1>3 DEF Move, Moved, Repairing
  <2>2. kpc[u] # "idle" => /\ index' = index \/ job'[u].disturbed
                           /\ job[u].disturbed => job'[u].disturbed
                           /\ kpc[u] = "clean" => index' = index
    BY <1>1, <1>3, Disturbs
  <2>3. QED
    BY <2>1, <2>2, KeptRepairing
<1>4. Repairing'
  BY <1>2, <1>3 DEF Repairing
<1>5. \A f \in fresh : Repaired(f)
  BY DEF RetryRepairs, Repaired
<1>6. ASSUME NEW f \in fresh' PROVE Repaired(f)'
  <2>1. CASE fresh' = fresh /\ index' = index
    BY <1>5, <1>6, <2>1 DEF Repaired, Texts
  <2>2. ASSUME NEW wrote, Succeed(t, wrote),
               (~IsDir(t) /\ (SkipUpsert(t) \/ CleanStale(t) \/ DeletePaths(t))) \/ CommitRoots(t)
        PROVE  Repaired(f)'
    BY <1>6, <2>2, SuccessRepairs
  <2>3. SkipUpsert(t) /\ ~IsDir(t) => Succeed(t, FALSE)
    BY DEF SkipUpsert
  <2>4. QED
    BY <1>6, <2>1, <2>2, <2>3, FreshStep
<1>7. QED
  BY <1>4, <1>6 DEF RetryRepairs, Repaired

(* Whatever failed before, and whatever fails beside it: a success leaves  *)
(* of every file that it found text in exactly the chunks.                 *)
THEOREM SuccessesRepair ==
  ASSUME FilesApart
  PROVE  KSpec => []RetryRepairs
<1> DEFINE Inv == Repairing /\ RetryRepairs
<1>1. KInit => Inv
  BY DEF KInit, Repairing, RepairingOf, OneUpsert, RetryRepairs
<1>2. SyncInv /\ Inv /\ [KNext]_kVars => Inv'
  <2> SUFFICES ASSUME SyncInv, Repairing, RetryRepairs, [KNext]_kVars PROVE Repairing' /\ RetryRepairs'
    OBVIOUS
  <2>1. KTypes /\ InScope /\ CallTypes
    BY TypeParts DEF SyncInv
  <2>2. ASSUME NEW t \in Threads, KStep(t) PROVE Repairing' /\ RetryRepairs'
    BY <2>1, <2>2, RepairStep
  <2>3. ASSUME UNCHANGED <<index, fresh, kpc, job>> PROVE Repairing' /\ RetryRepairs'
    <3>1. \A t \in Threads : KeptJob(t) /\ job'[t].disturbed = job[t].disturbed
      BY <2>3 DEF KeptJob
    <3>2. \A t \in Threads : RepairingOf(t)'
      BY <2>3, <3>1, KeptRepairing DEF Repairing
    <3>3. OneUpsert' /\ RetryRepairs'
      BY <2>3 DEF Repairing, OneUpsert, RetryRepairs, Texts
    <3>4. QED
      BY <3>2, <3>3 DEF Repairing
  <2>4. ASSUME NEW t \in Threads, NEW op \in {"add", "remove"}, NEW rebuild \in BOOLEAN, NEW source \in Sources,
               Start(t, op, rebuild, source)
        PROVE  Repairing' /\ RetryRepairs'
    <3>1. UNCHANGED <<index, fresh>> /\ kpc'[t] = "resolve"
          /\ \A u \in Threads \ {t} : kpc'[u] = kpc[u] /\ job'[u] = job[u]
      BY <2>1, <2>4 DEF Start, KGoto, At, CallTypes
    <3>2. ASSUME NEW u \in Threads, u # t PROVE RepairingOf(u)'
      <4>1. KeptJob(u) /\ job'[u].disturbed = job[u].disturbed
        BY <3>1, <3>2 DEF KeptJob
      <4>2. QED
        BY <3>1, <4>1, KeptRepairing DEF Repairing
    <3>3. RepairingOf(t)' /\ OneUpsert'
      BY <3>1 DEF RepairingOf, Repairing, OneUpsert
    <3>4. QED
      BY <3>1, <3>2, <3>3 DEF Repairing, RetryRepairs, Texts
  <2>5. CASE Crash
    BY <2>5 DEF Crash, Repairing, RepairingOf, OneUpsert, RetryRepairs
  <2>6. QED
    BY <2>2, <2>3, <2>4, <2>5 DEF KNext, kVars, callVars, EditFile, DropDirectory, Restart
<1>3. KSpec => []Inv
  BY <1>1, <1>2, SyncInvariant, PTL DEF KSpec
<1>4. QED
  BY <1>3, PTL
=============================================================================
