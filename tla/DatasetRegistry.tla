-------------------------- MODULE DatasetRegistry --------------------------
(***************************************************************************)
(* DatasetRegistry of grader_worker/datasets.py: ingest processes that     *)
(* share one store on disk.  An object directory is named by the digest of *)
(* its content and appears at once, by a rename; the index file of a       *)
(* version is written beside its place, under one fixed name, and renamed. *)
(* Processes may overlap, and each may end between any two system calls.   *)
(*                                                                         *)
(* A file is known by the process that created it, so that one process may *)
(* go on writing to a file that another has renamed meanwhile.             *)
(***************************************************************************)
EXTENDS Naturals

CONSTANTS
  Processes,    \* runs of grader-worker dataset-ingest
  Versions,     \* dataset_id@version
  Digests,      \* contents, by their SHA-256
  None

ASSUME NoneAssumption == None \notin Processes \cup Digests

\* A digest is a SHA-256, never one of the words used below.
ASSUME DigestsAssumption ==
  Digests \cap {"partial", "not installed", "unreadable", "missing", "disputed"} = {}

VARIABLES
  objects,      \* digests whose object directory is in place
  index,        \* the file at <version>.json
  tmp,          \* the file at <version>.tmp
  content,      \* what each file holds
  pc, job, file, \* each process: where it stands, what it ingests, its open file
  overlap       \* history: versions two processes worked on at once

disk == <<objects, index, tmp, content>>
vars == <<disk, pc, job, file, overlap>>

Busy == {"object", "copy", "index", "open", "write", "replace"}

\* The type invariant.
TypeOK ==
  /\ objects \subseteq Digests
  /\ index \in [Versions -> Processes \cup {None}]
  /\ tmp \in [Versions -> Processes \cup {None}]
  /\ content \in [Processes -> Digests \cup {"partial"}]
  /\ pc \in [Processes -> Busy \cup {"idle", "done", "error"}]
  /\ job \in [Processes -> [version : Versions, digest : Digests]]
  /\ file \in [Processes -> Processes]
  /\ overlap \subseteq Versions

Init ==
  /\ objects = {}
  /\ index = [v \in Versions |-> None]
  /\ tmp = [v \in Versions |-> None]
  /\ content = [p \in Processes |-> "partial"]
  /\ pc = [p \in Processes |-> "idle"]
  /\ job \in [Processes -> [version : Versions, digest : Digests]]
  /\ file = [p \in Processes |-> p]
  /\ overlap = {}

-----------------------------------------------------------------------------
Goto(p, step) == pc' = [pc EXCEPT ![p] = step]

\* The source is scanned and hashed, or refused: a link, a special file, a limit.
Scan(p) ==
  LET others == {q \in Processes \ {p} : /\ pc[q] \in Busy
                                         /\ job[q].version = job[p].version} IN
  /\ pc[p] = "idle"
  /\ \/ Goto(p, "object") /\ overlap' = overlap \cup {v \in {job[p].version} : others # {}}
     \/ Goto(p, "error") /\ UNCHANGED overlap
  /\ UNCHANGED <<disk, job, file>>

\* Variant: the object is not copied.
LookForNothing(p) ==
  /\ pc[p] = "object"
  /\ Goto(p, "index")
  /\ UNCHANGED <<disk, job, file, overlap>>

\* object_dir.exists()
LookForObject(p) ==
  /\ pc[p] = "object"
  /\ Goto(p, IF job[p].digest \in objects THEN "index" ELSE "copy")
  /\ UNCHANGED <<disk, job, file, overlap>>

\* The copy takes its place by os.replace, which fails on a directory that has
\* come there meanwhile.
PublishObject(p) ==
  /\ pc[p] = "copy"
  /\ Goto(p, IF job[p].digest \in objects THEN "error" ELSE "index")
  /\ objects' = objects \cup {job[p].digest}
  /\ UNCHANGED <<index, tmp, content, job, file, overlap>>

\* Variant: any index is a success.
LookForAnyIndex(p) ==
  /\ pc[p] = "index"
  /\ Goto(p, IF index[job[p].version] = None THEN "open" ELSE "done")
  /\ UNCHANGED <<disk, job, file, overlap>>

\* index_path.exists(): an index that says the same is a success, any other one,
\* or one that cannot be read, an error.
LookForIndex(p) ==
  LET entry == index[job[p].version] IN
  /\ pc[p] = "index"
  /\ Goto(p, IF entry = None THEN "open"
             ELSE IF content[entry] = job[p].digest THEN "done" ELSE "error")
  /\ UNCHANGED <<disk, job, file, overlap>>

\* Variant: the temporary file is expected to be there.
OpenOldTmp(p) ==
  LET f == tmp[job[p].version] IN
  /\ pc[p] = "open"
  /\ Goto(p, "write")
  /\ file' = [file EXCEPT ![p] = f]
  /\ UNCHANGED <<disk, job, overlap>>

\* Variant: the index is written in its place.
OpenIndex(p) ==
  /\ pc[p] = "open"
  /\ Goto(p, "write")
  /\ index' = [index EXCEPT ![job[p].version] = p]
  /\ content' = [content EXCEPT ![p] = "partial"]
  /\ file' = [file EXCEPT ![p] = p]
  /\ UNCHANGED <<objects, tmp, job, overlap>>

\* write_text opens the temporary file: a new one, or one that is there.
OpenTmp(p) ==
  LET v == job[p].version
      f == IF tmp[v] = None THEN p ELSE tmp[v] IN
  /\ pc[p] = "open"
  /\ Goto(p, "write")
  /\ tmp' = [tmp EXCEPT ![v] = f]
  /\ content' = [content EXCEPT ![f] = "partial"]
  /\ file' = [file EXCEPT ![p] = f]
  /\ UNCHANGED <<objects, index, job, overlap>>

\* The text is written over whatever another process wrote to the same file
\* since it was opened; of a longer one, the end remains.
WriteTmp(p) ==
  LET written == content[file[p]] # "partial" IN
  /\ pc[p] = "write"
  /\ Goto(p, "replace")
  /\ \E c \in {job[p].digest} \cup {d \in {"partial"} : written} :
       content' = [content EXCEPT ![file[p]] = c]
  /\ UNCHANGED <<objects, index, tmp, job, file, overlap>>

\* os.replace of whatever is under the temporary name, and chmod.
ReplaceIndex(p) ==
  LET v == job[p].version IN
  /\ pc[p] = "replace"
  /\ IF tmp[v] = None
       THEN Goto(p, "error") /\ UNCHANGED <<index, tmp>>
       ELSE /\ Goto(p, "done")
            /\ index' = [index EXCEPT ![v] = tmp[v]]
            /\ tmp' = [tmp EXCEPT ![v] = None]
  /\ UNCHANGED <<objects, content, job, file, overlap>>

\* The process is killed, or the disk is full.
Crash(p) ==
  /\ pc[p] \in Busy
  /\ Goto(p, "error")
  /\ UNCHANGED <<disk, job, file, overlap>>

Next == \E p \in Processes :
  \/ Scan(p) \/ LookForObject(p) \/ PublishObject(p) \/ LookForIndex(p)
  \/ OpenTmp(p) \/ WriteTmp(p) \/ ReplaceIndex(p) \/ Crash(p)

Spec == Init /\ [][Next]_vars
-----------------------------------------------------------------------------
\* What resolve finds for a version, the digest a stage pins left aside: no
\* index (DatasetError), an index that is no JSON, or one whose object is not
\* there (both leave resolve as other exceptions), or the content it mounts.
Resolve(v) ==
  IF index[v] = None THEN "not installed"
  ELSE LET d == content[index[v]] IN
       IF d = "partial" THEN "unreadable"
       ELSE IF d \notin objects THEN "missing" ELSE d

\* An index never names an object that is not completely in place, whichever
\* process wrote it, renamed it or crashed in between (datasets.py:103-113): a
\* stage gets the content of the version or an infrastructure error.
IndexedObjectsExist == \A v \in Versions : Resolve(v) # "missing"

\* As long as the ingests of a version do not overlap, every acknowledged one
\* can be resolved to its content from then on, whatever crashed before it or
\* after it (datasets.py:104-115).
AcknowledgedStays ==
  \A p \in Processes :
    pc[p] = "done" /\ job[p].version \notin overlap =>
      Resolve(job[p].version) = job[p].digest

\* A version cannot be read only while two ingests of it overlap: a crash alone
\* never leaves a torn index (datasets.py:111-113).
TornOnlyByOverlap ==
  \A v \in Versions : Resolve(v) = "unreadable" => v \in overlap

\* What a stage may count on to find.
Store == [v \in Versions |-> IF v \in overlap THEN "disputed" ELSE Resolve(v)]

Registry == INSTANCE VersionStore WITH store <- Store

\* As long as the ingests of a version do not overlap, it is installed at once and
\* never changes again, through crashes, repetitions and ingests of other content
\* (datasets.py:85-115): the immutable versions of docs/universal-grader.md:83.
VersionsSpec == Registry!Spec

\* "makes the version immutable" (docs/universal-grader.md:83): no two ingests
\* of one version succeed with different contents.
VersionImmutable ==
  \A p, q \in Processes :
    pc[p] = "done" /\ pc[q] = "done" /\ job[p].version = job[q].version
      => job[p].digest = job[q].digest
=============================================================================
