------------------------ MODULE DatasetRegistryProofs ------------------------
(***************************************************************************)
(* Proofs about DatasetRegistry, for any number of processes, versions and *)
(* contents.  The inductive invariant says which process owns which file:  *)
(* a file belongs to the version of the process that created it, is under  *)
(* at most one name, and, as long as the ingests of its version do not     *)
(* overlap, is written by the one busy process only.  From it follows that *)
(* the registry implements VersionStore.                                   *)
(***************************************************************************)
EXTENDS DatasetRegistry, TLAPS

\* Nothing names a content that is not stored.
Stored ==
  /\ \A p \in Processes : pc[p] \in {"index", "open", "write", "replace", "done"}
       => job[p].digest \in objects
  /\ \A p \in Processes : content[p] # "partial" => content[p] \in objects

\* Whose file is under which name.
Names ==
  /\ \A v \in Versions : index[v] # None => job[index[v]].version = v
  /\ \A v \in Versions : tmp[v] # None => job[tmp[v]].version = v /\ tmp[v] # index[v]
  /\ \A p \in Processes : pc[p] \in {"idle", "object", "copy", "index", "open"}
       => \A v \in Versions : index[v] # p /\ tmp[v] # p
  /\ \A p \in Processes : pc[p] = "write" => job[file[p]].version = job[p].version

Alone ==
  \A p, q \in Processes :
    p # q /\ pc[p] \in Busy /\ pc[q] \in Busy /\ job[p].version = job[q].version
      => job[p].version \in overlap

\* Where a process stands whose version no two processes worked on at once.
Undisturbed(p) ==
  LET v == job[p].version IN
  /\ pc[p] \in {"write", "replace"} => tmp[v] = file[p]
  /\ pc[p] \in {"open", "write", "replace"} => index[v] = None
  /\ pc[p] = "write" => content[file[p]] = "partial"
  /\ pc[p] = "replace" => content[file[p]] = job[p].digest
  /\ pc[p] = "done" => index[v] # None /\ content[index[v]] = job[p].digest

Quiet == \A p \in Processes : job[p].version \notin overlap => Undisturbed(p)

Whole == \A v \in Versions : v \notin overlap /\ index[v] # None => content[index[v]] # "partial"

Inv == TypeOK /\ Stored /\ Names /\ Alone /\ Quiet /\ Whole

-----------------------------------------------------------------------------
LEMMA InitInv == Init => Inv
  BY NoneAssumption DEF Init, Inv, TypeOK, Stored, Names, Alone, Quiet, Undisturbed, Whole, Busy

LEMMA ScanKeeps ==
  ASSUME Inv, NEW p \in Processes, Scan(p)
  PROVE  Inv'
  <1> USE NoneAssumption DEF Scan, Goto, disk, TypeOK, Busy
  <1>1. TypeOK'
    BY DEF Inv
  <1>2. Stored'
    BY DEF Inv, Stored
  <1>3. Names'
    BY DEF Inv, Names
  <1>4. Alone'
    BY DEF Inv, Alone
  <1>5. Quiet'
    BY DEF Inv, Quiet, Undisturbed
  <1>6. Whole'
    BY DEF Inv, Whole
  <1> QED
    BY <1>1, <1>2, <1>3, <1>4, <1>5, <1>6 DEF Inv

LEMMA LookForObjectKeeps ==
  ASSUME Inv, NEW p \in Processes, LookForObject(p)
  PROVE  Inv'
  <1> USE NoneAssumption DEF LookForObject, Goto, disk, TypeOK, Busy
  <1>1. TypeOK'
    BY DEF Inv
  <1>2. Stored'
    BY DEF Inv, Stored
  <1>3. Names'
    BY DEF Inv, Names
  <1>4. Alone'
    BY DEF Inv, Alone
  <1>5. Quiet'
    BY DEF Inv, Quiet, Undisturbed
  <1>6. Whole'
    BY DEF Inv, Whole
  <1> QED
    BY <1>1, <1>2, <1>3, <1>4, <1>5, <1>6 DEF Inv

LEMMA PublishObjectKeeps ==
  ASSUME Inv, NEW p \in Processes, PublishObject(p)
  PROVE  Inv'
  <1> USE NoneAssumption DEF PublishObject, Goto, disk, TypeOK, Busy
  <1>1. TypeOK'
    BY DEF Inv
  <1>2. Stored'
    BY DEF Inv, Stored
  <1>3. Names'
    BY DEF Inv, Names
  <1>4. Alone'
    BY DEF Inv, Alone
  <1>5. Quiet'
    BY DEF Inv, Quiet, Undisturbed
  <1>6. Whole'
    BY DEF Inv, Whole
  <1> QED
    BY <1>1, <1>2, <1>3, <1>4, <1>5, <1>6 DEF Inv

LEMMA LookForIndexKeeps ==
  ASSUME Inv, NEW p \in Processes, LookForIndex(p)
  PROVE  Inv'
  <1> USE NoneAssumption DEF LookForIndex, Goto, disk, TypeOK, Busy
  <1>1. TypeOK'
    BY DEF Inv
  <1>2. Stored'
    BY DEF Inv, Stored
  <1>3. Names'
    BY DEF Inv, Names
  <1>4. Alone'
    BY DEF Inv, Alone
  <1>5. Quiet'
    BY DEF Inv, Quiet, Undisturbed
  <1>6. Whole'
    BY DEF Inv, Whole
  <1> QED
    BY <1>1, <1>2, <1>3, <1>4, <1>5, <1>6 DEF Inv

LEMMA OpenTmpKeeps ==
  ASSUME Inv, NEW p \in Processes, OpenTmp(p)
  PROVE  Inv'
  <1> USE NoneAssumption DEF OpenTmp, Goto, disk, TypeOK, Busy
  <1>1. TypeOK'
    BY DEF Inv
  <1>2. Stored'
    BY DEF Inv, Stored
  <1>3. Names'
    BY DEF Inv, Names
  <1>4. Alone'
    BY DEF Inv, Alone
  <1>5. Quiet'
    BY DEF Inv, Names, Alone, Quiet, Undisturbed
  <1>6. Whole'
    <2> SUFFICES ASSUME NEW v \in Versions, v \notin overlap, index[v] # None
                 PROVE  content'[index[v]] # "partial"
      BY DEF Inv, Whole
    <2> DEFINE f == IF tmp[job[p].version] = None THEN p ELSE tmp[job[p].version]
    <2>1. index[v] # f
      BY DEF Inv, Names
    <2>2. content[index[v]] # "partial" /\ index[v] \in Processes
      BY DEF Inv, Whole
    <2> QED
      BY <2>1, <2>2 DEF Inv
  <1> QED
    BY <1>1, <1>2, <1>3, <1>4, <1>5, <1>6 DEF Inv

LEMMA WriteTmpKeeps ==
  ASSUME Inv, NEW p \in Processes, WriteTmp(p)
  PROVE  Inv'
  <1> USE NoneAssumption DEF WriteTmp, Goto, disk, TypeOK, Busy
  <1>1. TypeOK'
    BY DEF Inv
  <1>2. Stored'
    BY DEF Inv, Stored
  <1>3. Names'
    BY DEF Inv, Names
  <1>4. Alone'
    BY DEF Inv, Alone
  <1>5. Quiet'
    BY DEF Inv, Names, Alone, Quiet, Undisturbed
  <1>6. Whole'
    <2> SUFFICES ASSUME NEW v \in Versions, v \notin overlap, index[v] # None
                 PROVE  content'[index[v]] # "partial"
      BY DEF Inv, Whole
    <2>1. index[v] # file[p]
      BY DEF Inv, Names, Quiet, Undisturbed
    <2>2. content[index[v]] # "partial" /\ index[v] \in Processes
      BY DEF Inv, Whole
    <2> QED
      BY <2>1, <2>2 DEF Inv
  <1> QED
    BY <1>1, <1>2, <1>3, <1>4, <1>5, <1>6 DEF Inv

LEMMA ReplaceIndexKeeps ==
  ASSUME Inv, NEW p \in Processes, ReplaceIndex(p)
  PROVE  Inv'
  <1> USE NoneAssumption DEF ReplaceIndex, Goto, disk, TypeOK, Busy
  <1>1. TypeOK'
    BY DEF Inv
  <1>2. Stored'
    BY DEF Inv, Stored
  <1>3. Names'
    BY DEF Inv, Names
  <1>4. Alone'
    BY DEF Inv, Alone
  <1>5. Quiet'
    BY DEF Inv, Alone, Quiet, Undisturbed, Whole
  <1>6. Whole'
    <2> SUFFICES ASSUME NEW v \in Versions, v \notin overlap, index'[v] # None
                 PROVE  content[index'[v]] # "partial"
      BY DEF Inv, Whole
    <2>1. CASE v = job[p].version /\ tmp[v] # None
      <3>1. content[tmp[v]] = job[p].digest
        BY <2>1 DEF Inv, Quiet, Undisturbed
      <3>2. job[p].digest # "partial"
        BY DigestsAssumption DEF Inv
      <3> QED
        BY <2>1, <3>1, <3>2 DEF Inv
    <2>2. CASE ~(v = job[p].version /\ tmp[v] # None)
      BY <2>2 DEF Inv, Whole
    <2> QED
      BY <2>1, <2>2
  <1> QED
    BY <1>1, <1>2, <1>3, <1>4, <1>5, <1>6 DEF Inv

LEMMA CrashKeeps ==
  ASSUME Inv, NEW p \in Processes, Crash(p)
  PROVE  Inv'
  <1> USE NoneAssumption DEF Crash, Goto, disk, TypeOK, Busy
  <1>1. TypeOK'
    BY DEF Inv
  <1>2. Stored'
    BY DEF Inv, Stored
  <1>3. Names'
    BY DEF Inv, Names
  <1>4. Alone'
    BY DEF Inv, Alone
  <1>5. Quiet'
    BY DEF Inv, Quiet, Undisturbed
  <1>6. Whole'
    BY DEF Inv, Whole
  <1> QED
    BY <1>1, <1>2, <1>3, <1>4, <1>5, <1>6 DEF Inv

LEMMA InvSteps == Inv /\ [Next]_vars => Inv'
  <1> SUFFICES ASSUME Inv, [Next]_vars PROVE Inv'
    OBVIOUS
  <1>1. CASE UNCHANGED vars
    BY <1>1 DEF vars, disk, Inv, TypeOK, Stored, Names, Alone, Quiet, Undisturbed, Whole
  <1>2. CASE Next
    BY <1>2, ScanKeeps, LookForObjectKeeps, PublishObjectKeeps, LookForIndexKeeps,
       OpenTmpKeeps, WriteTmpKeeps, ReplaceIndexKeeps, CrashKeeps DEF Next
  <1> QED
    BY <1>1, <1>2

\* The invariant holds whatever any number of processes do, or however they end.
THEOREM InvHolds == Spec => []Inv
  BY InitInv, InvSteps, PTL DEF Spec

-----------------------------------------------------------------------------
\* The type invariant, for any number of processes, versions and contents.
THEOREM RegistryTypeCorrect == Spec => []TypeOK
  BY InvHolds, PTL DEF Inv

\* An index never names an object that is not completely in place, whichever
\* process wrote it, renamed it or crashed in between (datasets.py:103-113).
THEOREM ObjectsExist == Spec => []IndexedObjectsExist
  <1>1. Inv => IndexedObjectsExist
    BY NoneAssumption, DigestsAssumption DEF Inv, TypeOK, Stored, IndexedObjectsExist, Resolve
  <1> QED
    BY <1>1, InvHolds, PTL

\* As long as the ingests of a version do not overlap, every acknowledged one can
\* be resolved from then on (datasets.py:104-115).
THEOREM AcknowledgedIsKept == Spec => []AcknowledgedStays
  <1>1. Inv => AcknowledgedStays
    BY NoneAssumption, DigestsAssumption DEF Inv, TypeOK, Stored, Quiet, Undisturbed, AcknowledgedStays, Resolve
  <1> QED
    BY <1>1, InvHolds, PTL

\* Only overlapping ingests tear an index (datasets.py:111-113).
THEOREM TornNeedsOverlap == Spec => []TornOnlyByOverlap
  <1>1. Inv => TornOnlyByOverlap
    BY NoneAssumption, DigestsAssumption DEF Inv, TypeOK, Whole, TornOnlyByOverlap, Resolve
  <1> QED
    BY <1>1, InvHolds, PTL

-----------------------------------------------------------------------------
(* The registry keeps its versions.                                        *)

\* What a version resolves to, where the invariant holds: the index names a
\* stored content, if it is there.
Seen(v) ==
  IF v \in overlap THEN "disputed"
  ELSE IF index[v] = None THEN "not installed" ELSE content[index[v]]

LEMMA StoreIsSeen ==
  ASSUME Inv
  PROVE  /\ Store = [v \in Versions |-> Seen(v)]
         /\ \A v \in Versions : Seen(v) \in Digests \cup {"disputed", "not installed"}
  <1> SUFFICES ASSUME NEW v \in Versions
               PROVE  /\ Seen(v) = (IF v \in overlap THEN "disputed" ELSE Resolve(v))
                      /\ Seen(v) \in Digests \cup {"disputed", "not installed"}
    BY DEF Store
  <1>1. CASE v \in overlap \/ index[v] = None
    BY <1>1 DEF Seen, Resolve
  <1>2. CASE v \notin overlap /\ index[v] # None
    <2>1. index[v] \in Processes /\ content[index[v]] # "partial"
      BY <1>2 DEF Inv, TypeOK, Whole
    <2>2. content[index[v]] \in objects /\ content[index[v]] \in Digests
      BY <2>1 DEF Inv, TypeOK, Stored
    <2> QED
      BY <1>2, <2>1, <2>2 DEF Seen, Resolve
  <1> QED
    BY <1>1, <1>2

\* The same of the next state.
Matches == Store = [v \in Versions |-> Seen(v)]

LEMMA StoreIsSeenNext == Inv' => Store' = [v \in Versions |-> Seen(v)']
  <1>1. Inv => Matches
    BY StoreIsSeen DEF Matches
  <1>2. Inv' => Matches'
    BY <1>1, PTL
  <1> QED
    BY <1>2 DEF Matches

LEMMA StoreStarts == Init => Registry!Init
  BY DEF Init, Registry!Init, Store, Resolve

\* A step either leaves every version as it was, or installs or disputes one.
LEMMA StoreSteps == Inv /\ Inv' /\ [Next]_vars => [Registry!Next]_Store
  <1> SUFFICES ASSUME Inv, Inv', [Next]_vars
               PROVE  \/ Store' = Store
                      \/ \E v \in Versions : Registry!Install(v) \/ Registry!Dispute(v)
    BY DEF Registry!Next
  <1> DEFINE Same == \A v \in Versions : Seen(v)' = Seen(v)
  <1>0. Same => Store' = Store
    BY StoreIsSeen, StoreIsSeenNext
  <1>1. CASE UNCHANGED vars
    BY <1>0, <1>1 DEF vars, disk, Seen
  <1>2. ASSUME NEW p \in Processes, Scan(p)
        PROVE  Store' = Store \/ Registry!Dispute(job[p].version)
    <2> DEFINE v == job[p].version
    <2>1. v \in Versions /\ UNCHANGED <<index, content>>
      BY <1>2 DEF Inv, TypeOK, Scan, disk
    <2>2. CASE overlap' = overlap
      BY <1>0, <2>1, <2>2 DEF Seen
    <2>3. CASE overlap' # overlap
      <3>1. overlap' = overlap \cup {v}
        BY <1>2, <2>3 DEF Scan
      <3>2. \A w \in Versions : Seen(w)' = IF w = v THEN "disputed" ELSE Seen(w)
        BY <2>1, <3>1 DEF Seen
      <3> QED
        BY <2>1, <3>2, StoreIsSeen, StoreIsSeenNext DEF Registry!Dispute
    <2> QED
      BY <2>2, <2>3
  <1>3. ASSUME NEW p \in Processes,
               LookForObject(p) \/ PublishObject(p) \/ LookForIndex(p) \/ Crash(p)
        PROVE  Store' = Store
    BY <1>0, <1>3 DEF LookForObject, PublishObject, LookForIndex, Crash, disk, Seen
  <1>4. ASSUME NEW p \in Processes, OpenTmp(p) PROVE Store' = Store
    <2> DEFINE f == IF tmp[job[p].version] = None THEN p ELSE tmp[job[p].version]
    <2>1. \A v \in Versions : index[v] # f
      BY <1>4 DEF OpenTmp, Inv, TypeOK, Names
    <2>2. \A v \in Versions : index[v] # None => content'[index[v]] = content[index[v]]
      BY <1>4, <2>1 DEF OpenTmp, Inv, TypeOK
    <2> QED
      BY <1>0, <1>4, <2>2 DEF OpenTmp, Seen
  <1>5. ASSUME NEW p \in Processes, WriteTmp(p) PROVE Store' = Store
    <2>1. \A v \in Versions : v \notin overlap => index[v] # file[p]
      BY <1>5, NoneAssumption DEF WriteTmp, Inv, TypeOK, Names, Quiet, Undisturbed
    <2>2. \A v \in Versions : v \notin overlap /\ index[v] # None
            => content'[index[v]] = content[index[v]]
      BY <1>5, <2>1 DEF WriteTmp, Inv, TypeOK
    <2> QED
      BY <1>0, <1>5, <2>2 DEF WriteTmp, Seen
  <1>6. ASSUME NEW p \in Processes, ReplaceIndex(p)
        PROVE  Store' = Store \/ Registry!Install(job[p].version)
    <2> DEFINE v == job[p].version
    <2>1. v \in Versions /\ UNCHANGED <<content, overlap>>
      BY <1>6 DEF Inv, TypeOK, ReplaceIndex
    <2>2. CASE tmp[v] = None \/ v \in overlap
      BY <1>0, <1>6, <2>1, <2>2 DEF ReplaceIndex, Inv, TypeOK, Seen
    <2>3. CASE tmp[v] # None /\ v \notin overlap
      <3>1. index[v] = None /\ tmp[v] = file[p] /\ content[tmp[v]] = job[p].digest
        BY <1>6, <2>3 DEF ReplaceIndex, Inv, Quiet, Undisturbed
      <3>2. index' = [index EXCEPT ![v] = tmp[v]] /\ job[p].digest \in Digests
        BY <1>6, <2>3 DEF ReplaceIndex, Inv, TypeOK
      <3>3. \A w \in Versions : Seen(w)' = IF w = v THEN job[p].digest ELSE Seen(w)
        BY <2>1, <2>3, <3>1, <3>2 DEF Seen, Inv, TypeOK
      <3>4. Seen(v) = "not installed"
        BY <2>3, <3>1 DEF Seen
      <3>5. v \in Versions /\ job[p].digest \in Digests
        BY <2>1, <3>2
      <3>6. /\ Store[v] = "not installed"
            /\ Store' = [Store EXCEPT ![v] = job[p].digest]
        BY <3>3, <3>4, <3>5, StoreIsSeen, StoreIsSeenNext
      <3> QED
        BY <3>5, <3>6 DEF Registry!Install
    <2> QED
      BY <2>2, <2>3
  <1>7. \A p \in Processes : job[p].version \in Versions
    BY DEF Inv, TypeOK
  <1> QED
    BY <1>1, <1>2, <1>3, <1>4, <1>5, <1>6, <1>7 DEF Next

\* The registry is a store of immutable versions, for any number of processes,
\* versions and contents: one whose ingests do not overlap is installed at once
\* and never changes again, however processes end (datasets.py:85-115).
THEOREM RegistryRefinement == Spec => VersionsSpec
  BY InvHolds, StoreStarts, StoreSteps, PTL DEF Spec, VersionsSpec, Registry!Spec
=============================================================================
