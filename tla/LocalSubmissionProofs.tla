------------------------ MODULE LocalSubmissionProofs ------------------------
(***************************************************************************)
(* Proofs about LocalSubmission, for any number of uploads, checks, cases  *)
(* and jobs.  The invariants build on each other: the types; what the      *)
(* upload server leaves on disk; how far the checks have got; what the     *)
(* result rests on.  None of them says which processes are alive, since    *)
(* those of one case may be there at the next.                             *)
(***************************************************************************)
EXTENDS LocalSubmission, TLAPS

-----------------------------------------------------------------------------
(* Types.                                                                  *)

\* While the container runs there is something to grade, and before a case is
\* judged something was observed.
Placed ==
  /\ pc \in Harness => snapshot # Nothing
  /\ pc = "sweep" => observed # Nothing

TypeInv == TypeOK /\ Placed

\* Dispatching turns claims into nominations.
LEMMA DispatchedType ==
  ASSUME NEW lab \in Labs, NEW event
  PROVE  Dispatched(lab, event) \subseteq Nominated
  <1> SUFFICES ASSUME NEW m \in DOMAIN lab.handlers
               PROVE  /\ Range(lab.handlers[m].nominates) \subseteq Claims
                      /\ Range(lab.handlers[m].returns) \subseteq ReturnedClaims
    BY DEF Dispatched, Answering, Nomination, Nominated, Sources, Claims, ReturnedClaims
  <1>1. lab.handlers[m] \in Handlers
    BY DEF Labs
  <1> QED
    BY <1>1 DEF Handlers, Range

LEMMA StaticType ==
  ASSUME NEW c \in Submissions
  PROVE  StaticNominations(Idioms(c), IdiomId) \subseteq Nominated
  <1>1. \A i \in Idioms(c) : i \in Nat /\ IdiomId[i] \in Achievements
    BY IdiomsAssumption, ChecksAssumption
  <1> QED
    BY <1>1 DEF StaticNominations, Nomination, Nominated, Sources, Evidence, EvidenceIds

\* grade returns a result.
LEMMA GradeType ==
  ASSUME job \in Jobs, snapshot \in Submissions, executions \in Seq(Execution)
  PROVE  Grade \in Result
  <1>1. job.lab \in Labs
    BY JobsAssumption
  <1>2. Dispatched(job.lab, "submission.finalized") \cup StaticNominations(Idioms(snapshot), IdiomId)
          \in SUBSET Nominated
    BY <1>1, DispatchedType, StaticType
  <1>3. <<>> \in Seq({"memory_or_termination"}) /\ <<>> \in Seq(Execution)
    OBVIOUS
  <1> QED
    BY <1>2, <1>3 DEF Grade, Result, GradeResult, Failed, Outcomes

LEMMA ResolveType ==
  ASSUME job \in Jobs, NEW r \in Result
  PROVE  Resolve(r) \subseteq Nominated
  <1>1. job.definitions \subseteq Definitions
    BY JobsAssumption
  <1>2. Allowed(r.triggers, job.definitions) \subseteq Nominated
    BY DEF Allowed, Result
  <1>3. RuntimeNominations(r.outcome, r.events, job.definitions) \subseteq Nominated
    <2>1. \A i \in DOMAIN r.events : i \in Nat
      BY DEF Result
    <2> QED
      BY <1>1, <2>1 DEF RuntimeNominations, MatchingEvents, Nomination, Nominated, Sources, Evidence,
         EvidenceIds, Definitions
  <1>4. FirstSubmission(Gate(r), PassedChecks(r), job.attempt, job.definitions) \subseteq Nominated
    <2>1. \A i \in PassedChecks(r) : i \in Nat
      BY DEF Result, PassedChecks
    <2> QED
      BY <1>1, <2>1 DEF FirstSubmission, Nomination, Nominated, Sources, Evidence, EvidenceIds, Definitions
  <1> QED
    BY <1>2, <1>3, <1>4 DEF Resolve

LEMMA SandboxResultType ==
  ASSUME TypeOK
  PROVE  SandboxResult \in Result
  <1>1. <<>> \in Seq(Execution) /\ <<"memory_or_termination">> \in Seq({"memory_or_termination"})
    OBVIOUS
  <1> QED
    BY <1>1 DEF SandboxResult, TypeOK, GradingTypeOK, GradeResult, Result, Outcomes

LEMMA InitTypes == Init => TypeInv
  <1> SUFFICES ASSUME Init PROVE TypeInv
    OBVIOUS
  <1>1. UploadTypeOK
    BY DigestAssumption DEF Init, UploadInit, UploadTypeOK, ThreadSteps, NoManifest
  <1>2. survivors \in BOOLEAN
    BY DEF Init, GradingInit
  <1>3. GradingTypeOK
    BY <1>2, ChecksAssumption DEF Init, GradingInit, GradingTypeOK
  <1>4. Placed
    BY DEF Init, GradingInit, Placed, Harness
  <1> QED
    BY <1>1, <1>3, <1>4 DEF TypeInv, TypeOK

LEMMA UploadTypes ==
  ASSUME TypeInv, UploadStep, UNCHANGED gradingVars
  PROVE  TypeInv'
  <1>1. UploadTypeOK'
    <2> PICK u \in Uploads : \/ Receive(u) \/ RenameSnapshot(u) \/ OpenManifest(u)
                            \/ WriteManifest(u) \/ AnswerCreated(u) \/ EndThread(u)
      BY DEF UploadStep
    <2> USE DEF TypeInv, TypeOK, UploadTypeOK, Proceed, ThreadSteps
    <2>1. CASE Receive(u)
      BY <2>1 DEF Receive
    <2>2. CASE RenameSnapshot(u)
      BY <2>2 DEF RenameSnapshot
    <2>3. CASE OpenManifest(u)
      BY <2>3 DEF OpenManifest
    <2>4. CASE WriteManifest(u)
      BY <2>4, DigestAssumption DEF WriteManifest
    <2>5. CASE AnswerCreated(u)
      BY <2>5, DigestAssumption DEF AnswerCreated
    <2>6. CASE EndThread(u)
      BY <2>6 DEF EndThread
    <2> QED
      BY <2>1, <2>2, <2>3, <2>4, <2>5, <2>6
  <1>2. GradingTypeOK' /\ Placed'
    BY DEF TypeInv, TypeOK, GradingTypeOK, Placed, gradingVars, studentVars, checkVars
  <1> QED
    BY <1>1, <1>2 DEF TypeInv, TypeOK

LEMMA CheckoutTypes ==
  ASSUME TypeInv, Checkout
  PROVE  TypeInv'
  <1>1. UploadTypeOK'
    BY DEF TypeInv, TypeOK, UploadTypeOK, Checkout, uploadVars
  <1>2. GradingTypeOK' /\ Placed'
    BY AcceptableAssumption, TheUploadAssumption, NothingAssumption
       DEF TypeInv, TypeOK, GradingTypeOK, Placed, Checkout, Harness, studentVars, checkVars
  <1> QED
    BY <1>1, <1>2 DEF TypeInv, TypeOK

LEMMA NothingFailed ==
  ASSUME NEW outcome \in Outcomes
  PROVE  Failed(outcome, <<>>) \in Result
  <1>1. <<>> \in Seq({"memory_or_termination"}) /\ <<>> \in Seq(Execution)
    OBVIOUS
  <1> QED
    BY <1>1 DEF Failed, GradeResult, Result

LEMMA RecordTypes ==
  ASSUME TypeInv, Sweep
  PROVE  /\ passed' \in Nat /\ executions' \in Seq(Execution)
         /\ seen' \in [1 .. Checks -> Seq(Observations)]
  <1>1. observed \in Observations /\ passed \in Nat /\ executions \in Seq(Execution)
        /\ seen \in [1 .. Checks -> Seq(Observations)]
    BY DEF TypeInv, TypeOK, GradingTypeOK, Placed, Sweep
  <1>2. Code(observed) \in Codes /\ "OK" \in Codes
    BY <1>1 DEF Codes, Code, Observations, Written
  <1>3. [passed |-> passed, code |-> Code(observed)] \in Execution
    BY <1>1, <1>2 DEF Execution
  <1>4. passed + 1 = Cases[Len(executions) + 1]
          => [passed |-> Cases[Len(executions) + 1], code |-> "OK"] \in Execution
    BY <1>1, <1>2 DEF Execution
  <1>5. seen' \in [1 .. Checks -> Seq(Observations)]
    <2> DEFINE i == Len(executions) + 1
    <2>1. seen' = [seen EXCEPT ![i] = Append(@, observed)]
      BY DEF Sweep, Record
    <2>2. i \in 1 .. Checks => Append(seen[i], observed) \in Seq(Observations)
      BY <1>1
    <2> HIDE DEF i
    <2> QED
      BY <1>1, <2>1, <2>2
  <1>6. passed' \in Nat
    BY <1>1 DEF Sweep, Record
  <1>7. executions' \in Seq(Execution)
    BY <1>1, <1>3, <1>4 DEF Sweep, Record
  <1> QED
    BY <1>5, <1>6, <1>7

LEMMA GradingTypes ==
  ASSUME TypeInv, GradingStep, UNCHANGED uploadVars
  PROVE  TypeInv'
  <1> USE DEF TypeInv, TypeOK, GradingTypeOK, Placed, Harness, Ended, studentVars, checkVars
  <1>0. UploadTypeOK'
    BY DEF UploadTypeOK, uploadVars
  <1>1. CASE ScanPolicy \/ VerifyContract \/ HarnessRaises
    BY <1>0, <1>1, NothingFailed DEF ScanPolicy, VerifyContract, HarnessRaises, Outcomes
  <1>2. CASE StartStudent
    BY <1>0, <1>2, NothingAssumption DEF StartStudent, Observations
  <1>8. CASE CollectAnswer
    BY <1>0, <1>8, NothingAssumption DEF CollectAnswer, Observations
  <1>9. CASE TimeOut
    BY <1>0, <1>9, NothingAssumption DEF TimeOut, Observations
  <1>3. CASE Sweep
    BY <1>0, <1>3, RecordTypes DEF Sweep
  <1>4. CASE Finalize
    BY <1>0, <1>4, GradeType DEF Finalize
  <1>5. CASE WriteResult \/ ReplaceResult \/ ExitContainer \/ StopContainer
    BY <1>0, <1>5 DEF WriteResult, ReplaceResult, ExitContainer, StopContainer
  <1>6. CASE ReturnFromSandbox
    <2>1. [SandboxResult EXCEPT !.triggers = Resolve(SandboxResult)] \in Result
      BY SandboxResultType, ResolveType DEF Result
    <2> QED
      BY <1>0, <1>6, <2>1 DEF ReturnFromSandbox
  <1>7. CASE Student
    BY <1>0, <1>7 DEF Student, Answer, LeaveHelper, EndStudent, EndHelper, EndSurvivors
  <1> QED
    BY <1>1, <1>2, <1>3, <1>4, <1>5, <1>6, <1>7, <1>8, <1>9
       DEF GradingStep, HarnessStep

LEMMA TypeStep == TypeInv /\ [Next]_vars => TypeInv'
  <1> SUFFICES ASSUME TypeInv, [Next]_vars PROVE TypeInv'
    OBVIOUS
  <1>1. CASE UNCHANGED vars
    BY <1>1 DEF TypeInv, TypeOK, UploadTypeOK, GradingTypeOK, Placed, vars, uploadVars, gradingVars,
       studentVars, checkVars
  <1> QED
    BY <1>1, UploadTypes, CheckoutTypes, GradingTypes DEF Next

LEMMA Types == Spec => []TypeInv
  BY InitTypes, TypeStep, PTL DEF Spec

\* The type invariant, for any number of uploads, checks, cases and jobs.
THEOREM SubmissionTypeCorrect == Spec => []TypeOK
  BY Types, PTL DEF TypeInv

-----------------------------------------------------------------------------
(* What the upload server leaves on disk, and what is graded.              *)

\* What each step of a request may rely on. An upload whose client was told is
\* complete, and nothing touches it again.
Shelf ==
  \A u \in Uploads :
    /\ thread[u] \in {"rename", "open", "write", "answer"} => upload[u] \in Acceptable
    /\ thread[u] \in {"open", "write", "answer"} => directory[u] = upload[u]
    /\ thread[u] \in {"write", "answer"} => manifest[u].opened
    /\ thread[u] = "answer" => manifest[u].sha256 = Digest(upload[u])
    /\ told[u] # Absent =>
         /\ thread[u] = "created" /\ told[u] = Digest(upload[u])
         /\ upload[u] \in Acceptable /\ directory[u] = upload[u]
         /\ manifest[u] = [opened |-> TRUE, sha256 |-> Digest(upload[u])]

Graded == Shelf /\ GradedAsUploaded

LEMMA ShelfUpload ==
  ASSUME TypeOK, Shelf, UploadStep
  PROVE  Shelf' /\ upload' = upload
  <1> PICK u \in Uploads : \/ Receive(u) \/ RenameSnapshot(u) \/ OpenManifest(u)
                          \/ WriteManifest(u) \/ AnswerCreated(u) \/ EndThread(u)
    BY DEF UploadStep
  <1> USE DEF TypeOK, UploadTypeOK, Shelf, Proceed, ThreadSteps
  <1>1. CASE Receive(u)
    BY <1>1 DEF Receive
  <1>2. CASE RenameSnapshot(u)
    BY <1>2 DEF RenameSnapshot
  <1>3. CASE OpenManifest(u)
    BY <1>3 DEF OpenManifest
  <1>4. CASE WriteManifest(u)
    BY <1>4 DEF WriteManifest
  <1>5. CASE AnswerCreated(u)
    BY <1>5 DEF AnswerCreated
  <1>6. CASE EndThread(u)
    BY <1>6 DEF EndThread
  <1> QED
    BY <1>1, <1>2, <1>3, <1>4, <1>5, <1>6

LEMMA GradedCheckout ==
  ASSUME TypeOK, Graded, Checkout
  PROVE  Graded'
  <1>1. Shelf'
    BY DEF Graded, Shelf, Checkout, uploadVars
  <1>2. told[TheUpload] # Absent
    BY DEF Checkout
  <1>3. /\ Copies(TheUpload, told[TheUpload])
        /\ directory[TheUpload] = upload[TheUpload] /\ upload[TheUpload] \in Acceptable
    <2>1. upload[TheUpload] \in Contents
      BY TheUploadAssumption DEF TypeOK, UploadTypeOK
    <2>2. /\ told[TheUpload] = Digest(upload[TheUpload]) /\ upload[TheUpload] \in Acceptable
          /\ directory[TheUpload] = upload[TheUpload]
          /\ manifest[TheUpload] = [opened |-> TRUE, sha256 |-> Digest(upload[TheUpload])]
      BY <1>2, TheUploadAssumption DEF Graded, Shelf
    <2>3. directory[TheUpload] # Absent
      BY <2>1, <2>2, AbsentAssumption
    <2> QED
      BY <2>2, <2>3 DEF Copies, NotFound
  <1>4. GradedAsUploaded'
    BY <1>3 DEF Graded, GradedAsUploaded, Checkout, uploadVars
  <1> QED
    BY <1>1, <1>4 DEF Graded

\* The container never changes what it grades.
LEMMA SnapshotStays ==
  ASSUME GradingStep
  PROVE  snapshot' = snapshot /\ (pc' = "refused" => pc = "refused") /\ job' = job
  BY DEF GradingStep, HarnessStep, ScanPolicy, VerifyContract, HarnessRaises, StartStudent,
     CollectAnswer, TimeOut, Sweep, Finalize, WriteResult, ReplaceResult, ExitContainer,
     ReturnFromSandbox, StopContainer, Student, Answer, LeaveHelper, EndStudent, EndHelper, EndSurvivors

LEMMA GradedStep == TypeInv /\ Graded /\ [Next]_vars => Graded'
  <1> SUFFICES ASSUME TypeInv, Graded, [Next]_vars PROVE Graded'
    OBVIOUS
  <1>1. CASE UploadStep /\ UNCHANGED gradingVars
    <2>1. Shelf' /\ upload' = upload
      BY <1>1, ShelfUpload DEF Graded, TypeInv
    <2> QED
      BY <1>1, <2>1 DEF Graded, GradedAsUploaded, gradingVars
  <1>2. CASE Checkout
    BY <1>2, GradedCheckout DEF TypeInv
  <1>3. CASE GradingStep /\ UNCHANGED uploadVars
    BY <1>3, SnapshotStays DEF Graded, Shelf, GradedAsUploaded, uploadVars
  <1>4. CASE UNCHANGED vars
    BY <1>4 DEF Graded, Shelf, GradedAsUploaded, vars, uploadVars, gradingVars
  <1> QED
    BY <1>1, <1>2, <1>3, <1>4 DEF Next

\* An upload whose client was told its digest can be checked out, and what is
\* graded is what was sent (store_upload, copy_local_upload), for any number of
\* uploads and whatever contents share a digest.
THEOREM UploadsAreGraded == Spec => []GradedAsUploaded
  <1>1. Init => Graded
    BY DEF Init, UploadInit, GradingInit, Graded, Shelf, GradedAsUploaded
  <1>2. Graded => GradedAsUploaded
    BY DEF Graded
  <1> QED
    BY <1>1, <1>2, GradedStep, Types, PTL DEF Spec

-----------------------------------------------------------------------------
(* How far the checks have got.                                            *)

Before == {"waiting", "refused", "policy", "contract"}
InCase == {"start", "wait", "sweep"}

\* The checks that are done say what was seen of them; the current one has agreed
\* as often as passed says; nothing was seen of the others.
Counted ==
  /\ Len(executions) <= Checks
  /\ \A i \in 1 .. Len(executions) : Faithful(executions[i], seen[i], Cases[i])
  /\ Len(executions) < Checks =>
       LET i == Len(executions) + 1 IN
       /\ Len(seen[i]) = passed /\ passed < Cases[i]
       /\ \A k \in 1 .. passed : seen[i][k] = "agrees"
  /\ \A i \in 1 .. Checks : i > Len(executions) + 1 => seen[i] = <<>>
  /\ pc \in Before => executions = <<>> /\ passed = 0
  /\ pc \in InCase => Len(executions) < Checks
  /\ pc = "finalize" => Len(executions) = Checks

LEMMA CodeIsOk ==
  ASSUME NEW o \in Observations
  PROVE  Code(o) = "OK" <=> o = "agrees"
  BY DEF Code, Observations, Written

LEMMA CountedSweep ==
  ASSUME TypeInv, Counted, Sweep
  PROVE  Counted'
  <1> DEFINE i == Len(executions) + 1
  <1> DEFINE n == Len(executions)
  <1>1. /\ observed \in Observations /\ passed \in Nat /\ executions \in Seq(Execution)
        /\ seen \in [1 .. Checks -> Seq(Observations)]
        /\ executions' \in Seq(Execution)
    BY RecordTypes DEF TypeInv, TypeOK, GradingTypeOK, Placed, Sweep
  <1>2. /\ n \in Nat /\ n < Checks /\ i \in 1 .. Checks
        /\ Checks \in Nat /\ Cases[i] \in Nat
    BY <1>1, ChecksAssumption DEF Counted, Sweep, InCase
  <1>3. /\ Len(seen[i]) = passed /\ passed < Cases[i]
        /\ \A k \in 1 .. passed : seen[i][k] = "agrees"
    BY <1>2 DEF Counted
  <1>4. /\ seen'[i] = Append(seen[i], observed)
        /\ \A j \in 1 .. Checks : j # i => seen'[j] = seen[j]
    BY <1>1, <1>2 DEF Sweep, Record
  <1>5. /\ Len(seen'[i]) = passed + 1 /\ seen'[i][passed + 1] = observed
        /\ \A k \in 1 .. passed : seen'[i][k] = "agrees"
    <2>1. seen[i] \in Seq(Observations)
      BY <1>1, <1>2
    <2> HIDE DEF i
    <2> QED
      BY <1>1, <1>3, <1>4, <2>1
  <1>6. CASE observed = "agrees" /\ passed + 1 < Cases[i]
    <2>1. executions' = executions /\ passed' = passed + 1 /\ pc' = "start"
      BY <1>1, <1>2, <1>6 DEF Sweep, Record
    <2> HIDE DEF i
    <2>2. \A k \in 1 .. passed + 1 : seen'[i][k] = "agrees"
      BY <1>1, <1>5, <1>6
    <2>3. \A j \in 1 .. Len(executions') : Faithful(executions'[j], seen'[j], Cases[j])
      <3> TAKE j \in 1 .. Len(executions')
      <3>1. j \in 1 .. n /\ j \in 1 .. Checks /\ j # i
        BY <1>2, <2>1 DEF i
      <3> QED
        BY <1>4, <2>1, <3>1 DEF Counted
    <2>4. \A j \in 1 .. Checks : j > i => seen'[j] = <<>>
      BY <1>2, <1>4 DEF Counted, i
    <2>5. Len(seen'[i]) = passed' /\ passed' < Cases[i]
      BY <1>5, <1>6, <2>1
    <2> QED
      BY <1>2, <2>1, <2>2, <2>3, <2>4, <2>5 DEF Counted, Before, InCase, i
  <1>7. ASSUME NEW x \in Execution, executions' = Append(executions, x), passed' = 0,
               Faithful(x, seen'[i], Cases[i])
        PROVE  Counted'
    <2>1. /\ Len(executions') = i /\ executions'[i] = x
          /\ \A j \in 1 .. n : executions'[j] = executions[j]
      BY <1>1, <1>2, <1>7
    <2>2. \A j \in 1 .. Len(executions') : Faithful(executions'[j], seen'[j], Cases[j])
      <3> TAKE j \in 1 .. Len(executions')
      <3>1. CASE j = i
        BY <1>7, <2>1, <3>1
      <3>2. CASE j # i
        <4>1. j \in 1 .. n
          BY <1>2, <2>1, <3>2
        <4> QED
          BY <1>2, <1>4, <2>1, <4>1 DEF Counted
      <3> QED
        BY <3>1, <3>2
    <2>3. i < Checks => seen'[i + 1] = <<>> /\ Cases[i + 1] > 0
      BY <1>2, <1>4, ChecksAssumption DEF Counted
    <2>4. pc' = IF i = Checks THEN "finalize" ELSE "start"
      BY <2>1 DEF Sweep
    <2>5. \A j \in 1 .. Checks : j > i + 1 => seen'[j] = <<>>
      BY <1>2, <1>4 DEF Counted
    <2> QED
      BY <1>2, <1>7, <2>1, <2>2, <2>3, <2>4, <2>5 DEF Counted, Before, InCase
  <1>8. CASE observed = "agrees" /\ ~(passed + 1 < Cases[i])
    <2> DEFINE x == [passed |-> Cases[i], code |-> "OK"]
    <2>1. passed + 1 = Cases[i]
      BY <1>1, <1>2, <1>3, <1>8
    <2>2. executions' = Append(executions, x) /\ passed' = 0
      BY <1>8, <2>1 DEF Sweep, Record
    <2>3. x \in Execution
      BY <1>2 DEF Execution, Codes, Code, Observations, Written
    <2>4. Faithful(x, seen'[i], Cases[i])
      BY <1>1, <1>5, <1>8, <2>1 DEF Faithful
    <2> QED
      BY <1>7, <2>2, <2>3, <2>4
  <1>9. CASE observed # "agrees"
    <2> DEFINE x == [passed |-> passed, code |-> Code(observed)]
    <2>1. executions' = Append(executions, x) /\ passed' = 0
      BY <1>9 DEF Sweep, Record
    <2>2. x \in Execution
      BY <1>1 DEF Execution, Codes
    <2>3. Code(observed) # "OK"
      BY <1>1, <1>9, CodeIsOk
    <2>4. Faithful(x, seen'[i], Cases[i])
      BY <1>1, <1>3, <1>5, <1>9, <2>3 DEF Faithful
    <2> QED
      BY <1>7, <2>1, <2>2, <2>4
  <1> QED
    BY <1>6, <1>8, <1>9

LEMMA CountedStep == TypeInv /\ Counted /\ [Next]_vars => Counted'
  <1> SUFFICES ASSUME TypeInv, Counted, [Next]_vars PROVE Counted'
    OBVIOUS
  <1> USE DEF Counted, Before, InCase, studentVars, checkVars
  <1>1. CASE ScanPolicy \/ VerifyContract \/ HarnessRaises
    BY <1>1, ChecksAssumption DEF ScanPolicy, VerifyContract, HarnessRaises
  <1>2. CASE StartStudent \/ CollectAnswer \/ TimeOut
    BY <1>2 DEF StartStudent, CollectAnswer, TimeOut
  <1>3. CASE Sweep
    BY <1>3, CountedSweep
  <1>4. CASE Finalize \/ WriteResult \/ ReplaceResult \/ ExitContainer \/ ReturnFromSandbox \/ StopContainer
    BY <1>4 DEF Finalize, WriteResult, ReplaceResult, ExitContainer, ReturnFromSandbox, StopContainer
  <1>5. CASE Student
    BY <1>5 DEF Student, Answer, LeaveHelper, EndStudent, EndHelper, EndSurvivors
  <1>6. CASE Checkout
    BY <1>6 DEF Checkout
  <1>7. CASE UNCHANGED gradingVars
    BY <1>7 DEF gradingVars
  <1> QED
    BY <1>1, <1>2, <1>3, <1>4, <1>5, <1>6, <1>7 DEF Next, GradingStep, HarnessStep, vars

LEMMA Counts == Spec => []Counted
  <1>1. Init => Counted
    BY ChecksAssumption DEF Init, GradingInit, Counted, Before, InCase
  <1> QED
    BY <1>1, CountedStep, Types, PTL DEF Spec

-----------------------------------------------------------------------------
(* What the result and the verdict rest on.                                *)

\* The nominations of the grader itself name checks; those a handler returns name
\* anything.
Earned(r) ==
  \A t \in r.triggers :
    /\ t.maker \in {"api", "returned", "ast"} /\ r.outcome = "completed"
    /\ t.evidence # {}
    /\ t.maker # "returned" => t.evidence \subseteq CheckEvidence

Rests(r, graded, answers) ==
  /\ r.outcome \in {"completed", "tests_failed"} =>
       /\ graded \notin Findings \cup Problems
       /\ Len(r.checks) = Checks
       /\ \A i \in 1 .. Checks : Faithful(r.checks[i], answers[i], Cases[i])
       /\ r.outcome = "completed" <=> PassedChecks(r) = 1 .. Checks
  /\ r.outcome = "static_policy_failed" => graded \in Findings
  /\ r.outcome = "contract_failed" => graded \in Problems \ Findings
  /\ r.outcome \in {"static_policy_failed", "contract_failed"} =>
       \A i \in 1 .. Checks : answers[i] = <<>>
  /\ r.outcome # "resource_limit_exceeded"
  /\ Earned(r)

Course ==
  /\ pc \in Before \cup InCase \cup {"finalize"} => result = Nothing
  /\ pc \in Before \cup InCase \cup {"finalize", "write", "replace"} => published = Nothing
  /\ pc \in {"contract", "finalize"} \cup InCase => snapshot \notin Findings
  /\ pc \in {"finalize"} \cup InCase => snapshot \notin Problems
  /\ published \in {Nothing, result}
  /\ result # Nothing => Rests(result, snapshot, seen)
  /\ pc # "judged" => verdict = Nothing
  /\ verdict # Nothing => verdict = [SandboxResult EXCEPT !.triggers = Resolve(SandboxResult)]

\* The results made before any check ran, or instead of one.
LEMMA FailedRests ==
  ASSUME NEW outcome \in Outcomes \ {"completed", "tests_failed", "resource_limit_exceeded"},
         outcome = "static_policy_failed" => snapshot \in Findings,
         outcome = "contract_failed" => snapshot \in Problems \ Findings,
         outcome # "grader_internal_error" => \A i \in 1 .. Checks : seen[i] = <<>>
  PROVE  Rests(Failed(outcome, <<>>), snapshot, seen)
  BY DEF Rests, Earned, Failed, GradeResult, Outcomes

\* What grade returns at the end rests on the checks that were counted.
LEMMA GradeRests ==
  ASSUME TypeInv, Counted, Course, pc = "finalize"
  PROVE  Rests(Grade, snapshot, seen)
  <1>1. /\ executions \in Seq(Execution) /\ Len(executions) = Checks /\ Checks \in Nat
        /\ \A i \in 1 .. Checks : Faithful(executions[i], seen[i], Cases[i])
        /\ snapshot \notin Findings \cup Problems /\ snapshot \in Submissions
    BY ChecksAssumption DEF TypeInv, TypeOK, GradingTypeOK, Placed, Harness, Counted, Course
  <1>2. DOMAIN executions = 1 .. Checks
    BY <1>1
  <1>3. CASE \E i \in DOMAIN executions : executions[i].code # "OK"
    <2>1. Grade = Failed("tests_failed", executions)
      BY <1>3 DEF Grade
    <2> QED
      BY <1>1, <1>2, <1>3, <2>1 DEF Rests, Earned, Failed, GradeResult, PassedChecks
  <1>4. CASE /\ \A i \in DOMAIN executions : executions[i].code = "OK"
             /\ DispatchRaises(job.lab, "submission.finalized", CheckEvidence)
    <2>1. Grade = Failed("grader_internal_error", <<>>)
      BY <1>4 DEF Grade
    <2> QED
      BY <2>1 DEF Rests, Earned, Failed, GradeResult
  <1>5. CASE /\ \A i \in DOMAIN executions : executions[i].code = "OK"
             /\ ~DispatchRaises(job.lab, "submission.finalized", CheckEvidence)
    <2> DEFINE ts == Dispatched(job.lab, "submission.finalized")
                       \cup StaticNominations(Idioms(snapshot), IdiomId)
    <2>1. Grade = GradeResult("completed", executions, <<>>, ts)
      BY <1>5 DEF Grade
    <2>2. ASSUME NEW t \in Dispatched(job.lab, "submission.finalized")
          PROVE  /\ t.maker \in {"api", "returned"} /\ t.evidence # {}
                 /\ t.maker # "returned" => t.evidence \subseteq CheckEvidence
      <3>1. PICK m \in Answering(job.lab, "submission.finalized") :
              \/ \E n \in Range(job.lab.handlers[m].nominates) :
                   t = Nomination(n.id, "pipeline", "api", n.evidence)
              \/ \E n \in Range(job.lab.handlers[m].returns) :
                   t = Nomination(n.id, n.source, "returned", n.evidence)
        BY DEF Dispatched
      <3>2. /\ \A n \in Range(job.lab.handlers[m].nominates) :
                 Accepted(n, job.lab.allowed, CheckEvidence)
            /\ \A n \in Range(job.lab.handlers[m].returns) : n.evidence # {}
        BY <1>5 DEF DispatchRaises
      <3> QED
        BY <3>1, <3>2 DEF Nomination, Accepted
    <2>3. ASSUME NEW t \in StaticNominations(Idioms(snapshot), IdiomId)
          PROVE  t.maker = "ast" /\ t.evidence # {} /\ t.evidence \subseteq CheckEvidence
      <3>1. PICK i \in Idioms(snapshot) : t = Nomination(IdiomId[i], "grader", "ast", {Evidence("check", i)})
        BY DEF StaticNominations
      <3>2. i \in 1 .. Checks
        BY <1>1, IdiomsAssumption
      <3> QED
        BY <3>1, <3>2 DEF Nomination, CheckEvidence
    <2> HIDE DEF ts
    <2>4. Earned(Grade)
      BY <2>1, <2>2, <2>3 DEF Earned, GradeResult, ts
    <2>5. Grade.checks = executions /\ PassedChecks(Grade) = 1 .. Checks
      BY <1>1, <1>2, <1>5, <2>1 DEF PassedChecks, GradeResult
    <2> QED
      BY <1>1, <2>1, <2>4, <2>5 DEF Rests, GradeResult
  <1> QED
    BY <1>3, <1>4, <1>5

\* No check has run before the contract is accepted.
LEMMA EmptyBefore ==
  ASSUME TypeInv, Counted, pc \in Before
  PROVE  \A i \in 1 .. Checks : seen[i] = <<>>
  <1>1. /\ executions = <<>> /\ passed = 0 /\ seen \in [1 .. Checks -> Seq(Observations)]
    BY DEF TypeInv, TypeOK, GradingTypeOK, Counted
  <1>2. 1 \in 1 .. Checks /\ Len(seen[1]) = 0
    BY <1>1, ChecksAssumption DEF Counted
  <1>3. \A i \in 1 .. Checks : i > 1 => seen[i] = <<>>
    BY <1>1 DEF Counted
  <1> QED
    BY <1>1, <1>2, <1>3, ChecksAssumption

LEMMA CourseStep == TypeInv /\ Counted /\ Course /\ [Next]_vars => Course'
  <1> SUFFICES ASSUME TypeInv, Counted, Course, [Next]_vars PROVE Course'
    OBVIOUS
  <1>a. Nothing \notin Result
    BY NothingAssumption
  <1>c. published' = published /\ job' = job =>
          SandboxResult' = SandboxResult /\ Resolve(SandboxResult)' = Resolve(SandboxResult)
    BY DEF SandboxResult, Resolve
  <1> USE DEF Course, Before, InCase, studentVars, checkVars
  <1>1. CASE ScanPolicy
    <2>1. \A i \in 1 .. Checks : seen[i] = <<>>
      BY <1>1, ChecksAssumption, EmptyBefore DEF ScanPolicy
    <2>2. snapshot \in Findings => Rests(Failed("static_policy_failed", <<>>), snapshot, seen)
      BY <2>1, FailedRests DEF Outcomes
    <2> QED
      BY <1>1, <2>2 DEF ScanPolicy
  <1>2. CASE VerifyContract
    <2>1. \A i \in 1 .. Checks : seen[i] = <<>>
      BY <1>2, ChecksAssumption, EmptyBefore DEF VerifyContract
    <2>2. snapshot \in Problems => Rests(Failed("contract_failed", <<>>), snapshot, seen)
      BY <1>2, <2>1, FailedRests DEF Outcomes, VerifyContract
    <2> QED
      BY <1>2, <2>2 DEF VerifyContract
  <1>3. CASE HarnessRaises
    <2>1. Rests(Failed("grader_internal_error", <<>>), snapshot, seen)
      BY FailedRests DEF Outcomes
    <2> QED
      BY <1>3, <2>1 DEF HarnessRaises
  <1>4. CASE StartStudent \/ CollectAnswer \/ TimeOut \/ Sweep
    BY <1>4 DEF StartStudent, CollectAnswer, TimeOut, Sweep
  <1>5. CASE Finalize
    BY <1>5, GradeRests DEF Finalize
  <1>6. CASE WriteResult \/ ReplaceResult \/ ExitContainer \/ StopContainer
    BY <1>6 DEF WriteResult, ReplaceResult, ExitContainer, StopContainer, Harness
  <1>7. CASE ReturnFromSandbox
    BY <1>7, <1>c DEF ReturnFromSandbox, Ended
  <1>8. CASE Student
    BY <1>8, <1>c DEF Student, Answer, LeaveHelper, EndStudent, EndHelper, EndSurvivors
  <1>9. CASE Checkout
    BY <1>9 DEF Checkout
  <1>10. CASE UNCHANGED gradingVars
    BY <1>10, <1>c DEF gradingVars
  <1> QED
    BY <1>1, <1>2, <1>3, <1>4, <1>5, <1>6, <1>7, <1>8, <1>9, <1>10 DEF Next, GradingStep, HarnessStep, vars

LEMMA Courses == Spec => []Course
  <1>1. Init => Course
    BY DEF Init, GradingInit, Course, Before, InCase
  <1> QED
    BY <1>1, CourseStep, Types, Counts, PTL DEF Spec

\* A verdict is what was published, or says that nothing was, with its triggers
\* resolved.
LEMMA Verdicts ==
  ASSUME TypeInv, Course, verdict # Nothing
  PROVE  /\ published = Nothing =>
              /\ verdict.outcome = "resource_limit_exceeded"
              /\ verdict.triggers = Resolve(SandboxResult)
              /\ SandboxResult = GradeResult("resource_limit_exceeded", <<>>, <<"memory_or_termination">>, {})
              /\ verdict.events = SandboxResult.events /\ verdict.checks = SandboxResult.checks
         /\ published # Nothing =>
              /\ Rests(published, snapshot, seen) /\ SandboxResult = published
              /\ verdict.outcome = published.outcome /\ verdict.checks = published.checks
              /\ verdict.events = published.events /\ verdict.triggers = Resolve(published)
  <1>1. verdict = [SandboxResult EXCEPT !.triggers = Resolve(SandboxResult)]
    BY DEF Course
  <1>2. SandboxResult \in Result
    BY SandboxResultType DEF TypeInv
  <1>3. /\ verdict.outcome = SandboxResult.outcome /\ verdict.checks = SandboxResult.checks
        /\ verdict.events = SandboxResult.events /\ verdict.triggers = Resolve(SandboxResult)
    BY <1>1, <1>2 DEF Result
  <1>4. published = Nothing =>
          SandboxResult = GradeResult("resource_limit_exceeded", <<>>, <<"memory_or_termination">>, {})
    BY DEF SandboxResult
  <1>5. published # Nothing => SandboxResult = published /\ Rests(published, snapshot, seen)
    BY DEF SandboxResult, Course
  <1> QED
    BY <1>3, <1>4, <1>5 DEF GradeResult

\* The verdict says what execute_student returned or raised: passed only if every
\* case of every check agreed, failed with the first case of each check that did
\* not and its code, a resource limit only if nothing was published (run_checks,
\* grade, run_sandbox), for any number of checks and cases and whatever processes
\* of earlier cases are still alive.
THEOREM VerdictsFollow == Spec => []VerdictFollowsAnswers
  <1>1. TypeInv /\ Course => VerdictFollowsAnswers
    <2> SUFFICES ASSUME TypeInv, Course, verdict # Nothing
                 PROVE  VerdictFollowsAnswers
      BY DEF VerdictFollowsAnswers
    <2>1. CASE published = Nothing
      BY <2>1, Verdicts DEF VerdictFollowsAnswers
    <2>2. CASE published # Nothing
      BY <2>2, Verdicts DEF VerdictFollowsAnswers, Rests, AllFaithful, PassedChecks
    <2> QED
      BY <2>1, <2>2
  <1> QED
    BY <1>1, Types, Courses, PTL

\* A check that passed saw every case agree.
LEMMA PassedAgree ==
  ASSUME NEW r \in Result, NEW answers, Rests(r, snapshot, answers), r.outcome = "completed",
         NEW i \in 1 .. Checks
  PROVE  \A k \in 1 .. Cases[i] : answers[i][k] = "agrees"
  <1>1. Faithful(r.checks[i], answers[i], Cases[i]) /\ r.checks[i].code = "OK"
    BY DEF Rests, PassedChecks
  <1> QED
    BY <1>1 DEF Faithful

\* Every trigger but those a handler returns itself names a definition that allows
\* its source and rests on checks that passed or on what the sandbox reports; a
\* first submission is one (AchievementAPI.nominate, detect,
\* resolve_achievement_triggers), for every laboratory and set of definitions.
THEOREM NominationsAreEarned == Spec => []NominationsEarned
  <1>1. TypeInv /\ Course => NominationsEarned
    <2> SUFFICES ASSUME TypeInv, Course, verdict # Nothing, NEW t \in verdict.triggers,
                        t.maker # "returned"
                 PROVE  /\ \E d \in job.definitions : d.id = t.id /\ t.source \in d.sources
                        /\ t.maker = "first" => job.attempt = 1 /\ verdict.outcome = "completed"
                        /\ t.evidence # {}
                        /\ \A e \in t.evidence :
                             CASE e.kind = "check" -> \A k \in 1 .. Cases[e.of] : seen[e.of][k] = "agrees"
                               [] e.kind = "event" -> e.of \in DOMAIN verdict.events
                               [] OTHER -> t.maker = "runtime"
      BY DEF NominationsEarned
    <2> DEFINE r == SandboxResult
    <2>1. /\ r \in Result /\ verdict.outcome = r.outcome /\ verdict.events = r.events
          /\ r.triggers # {} \/ r.outcome = "completed" => Rests(r, snapshot, seen)
          /\ t \in Resolve(r)
      BY Verdicts, SandboxResultType DEF TypeInv, GradeResult
    <2> HIDE DEF r
    <2>2. CASE t \in Allowed(r.triggers, job.definitions)
      <3>1. /\ \E d \in job.definitions : d.id = t.id /\ t.source \in d.sources
            /\ t \in r.triggers
        BY <2>2 DEF Allowed
      <3>2. /\ Rests(r, snapshot, seen) /\ r.outcome = "completed" /\ t.maker # "first"
            /\ t.evidence # {} /\ t.evidence \subseteq CheckEvidence
        BY <2>1, <3>1 DEF Rests, Earned
      <3>3. \A e \in CheckEvidence : e.kind = "check" /\ e.of \in 1 .. Checks
        BY DEF CheckEvidence, Evidence
      <3>4. \A e \in CheckEvidence : \A k \in 1 .. Cases[e.of] : seen[e.of][k] = "agrees"
        BY <2>1, <3>2, <3>3, PassedAgree
      <3> QED
        BY <3>1, <3>2, <3>3, <3>4
    <2>3. CASE t \in RuntimeNominations(r.outcome, r.events, job.definitions)
      <3>1. PICK d \in job.definitions :
              /\ "runtime" \in d.sources
              /\ t = Nomination(d.id, "runtime", "runtime",
                       IF MatchingEvents(d, r.events) = {} THEN {Evidence("outcome", 0)}
                       ELSE {Evidence("event", i) : i \in MatchingEvents(d, r.events)})
        BY <2>3 DEF RuntimeNominations
      <3>2. MatchingEvents(d, r.events) \subseteq DOMAIN r.events
        BY DEF MatchingEvents
      <3>3. /\ d \in job.definitions /\ d.id = t.id /\ t.source \in d.sources
            /\ t.maker = "runtime"
        BY <3>1 DEF Nomination
      <3>4. CASE MatchingEvents(d, r.events) = {}
        <4>1. t.evidence = {[kind |-> "outcome", of |-> 0]}
          BY <3>1, <3>4 DEF Nomination, Evidence
        <4>2. t.evidence # {} /\ \A e \in t.evidence : e.kind = "outcome"
          BY <4>1
        <4> QED
          BY <3>3, <4>2
      <3>5. CASE MatchingEvents(d, r.events) # {}
        <4>1. t.evidence = {[kind |-> "event", of |-> i] : i \in MatchingEvents(d, r.events)}
          BY <3>1, <3>5 DEF Nomination, Evidence
        <4>2. \A e \in t.evidence : e.kind = "event" /\ e.of \in DOMAIN r.events
          BY <3>2, <4>1
        <4> QED
          BY <2>1, <3>3, <3>5, <4>1, <4>2
      <3> QED
        BY <3>4, <3>5
    <2>4. CASE t \in FirstSubmission(Gate(r), PassedChecks(r), job.attempt, job.definitions)
      <3>1. /\ \E d \in job.definitions : d.id = t.id /\ t.source \in d.sources
            /\ job.attempt = 1 /\ Gate(r) = "passed" /\ PassedChecks(r) # {} /\ t.maker = "first"
            /\ t.evidence = {Evidence("check", i) : i \in PassedChecks(r)}
        BY <2>4 DEF FirstSubmission, Nomination
      <3>2. r.outcome = "completed"
        BY <3>1 DEF Gate
      <3>3. Rests(r, snapshot, seen) /\ PassedChecks(r) = 1 .. Checks
        BY <2>1, <3>2 DEF Rests
      <3>4. \A i \in 1 .. Checks : \A k \in 1 .. Cases[i] : seen[i][k] = "agrees"
        BY <2>1, <3>2, <3>3, PassedAgree
      <3>5. \A e \in t.evidence : e.kind = "check" /\ e.of \in 1 .. Checks
        BY <3>1, <3>3 DEF Evidence
      <3> QED
        BY <2>1, <3>1, <3>2, <3>3, <3>4, <3>5
    <2> QED
      BY <2>1, <2>2, <2>3, <2>4 DEF Resolve
  <1> QED
    BY <1>1, Types, Courses, PTL
=============================================================================
