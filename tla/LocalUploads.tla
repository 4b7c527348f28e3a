---------------------------- MODULE LocalUploads ----------------------------
(***************************************************************************)
(* The upload server of grader_worker/local_uploads.py and the directory   *)
(* it shares with the worker on the same machine.  Each request has a      *)
(* thread of its own; a stored upload is a snapshot directory and, written *)
(* after it, a manifest, both under an identifier drawn at random.         *)
(***************************************************************************)
EXTENDS Naturals

CONSTANTS
  Uploads,      \* POST requests; each draws an identifier of its own
  Contents,     \* what may be uploaded
  Acceptable,   \* contents that _write_files and validate_snapshot let pass
  Digests,
  Digest(_),    \* the digest of a content; nothing here needs it to be injective
  Absent        \* no such file, or an empty one

ASSUME AcceptableAssumption == Acceptable \subseteq Contents
ASSUME DigestAssumption == \A c \in Contents : Digest(c) \in Digests
ASSUME AbsentAssumption == Absent \notin Contents \cup Digests

VARIABLES
  thread,       \* where each request's thread stands
  upload,       \* what each request carries
  directory,    \* root / upload_id
  manifest,     \* root / upload_id.json: no file, an opened one, a digest
  told          \* the digest in the answer a client received

uploadVars == <<thread, upload, directory, manifest, told>>

ThreadSteps == {"receive", "rename", "open", "write", "answer"}

UploadTypeOK ==
  /\ thread \in [Uploads -> ThreadSteps \cup {"created", "refused", "ended"}]
  /\ upload \in [Uploads -> Contents]
  /\ directory \in [Uploads -> Contents \cup {Absent}]
  /\ manifest \in [Uploads -> [opened : BOOLEAN, sha256 : Digests \cup {Absent}]]
  /\ told \in [Uploads -> Digests \cup {Absent}]

NoManifest == [opened |-> FALSE, sha256 |-> Absent]

UploadInit ==
  /\ thread = [u \in Uploads |-> "receive"]
  /\ upload \in [Uploads -> Contents]
  /\ directory = [u \in Uploads |-> Absent]
  /\ manifest = [u \in Uploads |-> NoManifest]
  /\ told = [u \in Uploads |-> Absent]

-----------------------------------------------------------------------------
Proceed(u, from, to) == thread[u] = from /\ thread' = [thread EXCEPT ![u] = to]

\* The parts are unpacked into a temporary directory and measured against the
\* limits; a RepositoryFailure is answered with 400.
Receive(u) ==
  /\ Proceed(u, "receive", IF upload[u] \in Acceptable THEN "rename" ELSE "refused")
  /\ UNCHANGED <<upload, directory, manifest, told>>

\* os.replace(snapshot, root / upload_id)
RenameSnapshot(u) ==
  /\ Proceed(u, "rename", "open")
  /\ directory' = [directory EXCEPT ![u] = upload[u]]
  /\ UNCHANGED <<upload, manifest, told>>

\* Variant: the client is answered before the manifest is complete.
OpenManifestAndAnswer(u) ==
  /\ Proceed(u, "open", "answer")
  /\ manifest' = [manifest EXCEPT ![u].opened = TRUE]
  /\ UNCHANGED <<upload, directory, told>>

\* write_text opens the manifest in its place, empty,
OpenManifest(u) ==
  /\ Proceed(u, "open", "write")
  /\ manifest' = [manifest EXCEPT ![u].opened = TRUE]
  /\ UNCHANGED <<upload, directory, told>>

\* and fills it.
WriteManifest(u) ==
  /\ Proceed(u, "write", "answer")
  /\ manifest' = [manifest EXCEPT ![u].sha256 = Digest(upload[u])]
  /\ UNCHANGED <<upload, directory, told>>

\* 201, with the identifier and the digest.
AnswerCreated(u) ==
  /\ Proceed(u, "answer", "created")
  /\ told' = [told EXCEPT ![u] = Digest(upload[u])]
  /\ UNCHANGED <<upload, directory, manifest>>

\* The thread ends in an error, the server is stopped, the answer is lost: what
\* is on disk by then stays there.
EndThread(u) ==
  /\ thread[u] \in ThreadSteps
  /\ thread' = [thread EXCEPT ![u] = "ended"]
  /\ UNCHANGED <<upload, directory, manifest, told>>

UploadStep == \E u \in Uploads :
  \/ Receive(u) \/ RenameSnapshot(u) \/ OpenManifest(u) \/ WriteManifest(u)
  \/ AnswerCreated(u) \/ EndThread(u)

-----------------------------------------------------------------------------
(* copy_local_upload(upload_id, expected_sha) copies the directory, or      *)
(* fails: not found, a manifest that is no JSON yet, another digest.       *)

NotFound(u) == directory[u] = Absent \/ ~manifest[u].opened
Copies(u, sha) == ~NotFound(u) /\ manifest[u].sha256 = sha
=============================================================================
