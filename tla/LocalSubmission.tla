--------------------------- MODULE LocalSubmission ---------------------------
(***************************************************************************)
(* From a local upload to its verdict: the upload server of LocalUploads,  *)
(* the job the platform makes of an upload a client was told about, the    *)
(* worker's checkout of it (Worker.process), and its grading in a          *)
(* container (Grading).                                                    *)
(***************************************************************************)
EXTENDS LocalUploads, Grading

CONSTANTS
  TheUpload     \* the upload the job is about

ASSUME TheUploadAssumption == TheUpload \in Uploads /\ Contents \subseteq Submissions

vars == <<uploadVars, gradingVars>>

GradingTypeOK ==
  /\ job \in Jobs
  /\ snapshot \in Submissions \cup {Nothing}
  /\ pc \in Harness \cup Ended \cup {"waiting", "refused", "judged", "requeued"}
  /\ student \in {"none", "running", "ended"}
  /\ answer \in Written \cup {Nothing}
  /\ helper \in {"none", "holding", "quiet"}
  /\ survivors \in BOOLEAN
  /\ observed \in Observations \cup {Nothing}
  /\ passed \in Nat
  /\ executions \in Seq(Execution)
  /\ seen \in [1 .. Checks -> Seq(Observations)]
  /\ result \in Result \cup {Nothing}
  /\ published \in Result \cup {Nothing}
  /\ verdict \in Result \cup {Nothing}

\* The type invariant.
TypeOK == UploadTypeOK /\ GradingTypeOK

Init == UploadInit /\ GradingInit

-----------------------------------------------------------------------------
\* The job carries the identifier and the digest its client was told;
\* copy_local_upload and validate_snapshot accept the directory or fail the job.
Checkout ==
  LET u == TheUpload IN
  /\ pc = "waiting" /\ told[u] # Absent
  /\ IF Copies(u, told[u]) /\ directory[u] \in Acceptable
       THEN pc' = "policy" /\ snapshot' = directory[u]
       ELSE pc' = "refused" /\ UNCHANGED snapshot
  /\ UNCHANGED <<uploadVars, job, studentVars, checkVars, result, published, verdict>>

Next ==
  \/ UploadStep /\ UNCHANGED gradingVars
  \/ Checkout
  \/ GradingStep /\ UNCHANGED uploadVars

Spec == Init /\ [][Next]_vars

\* The harness and run_sandbox go on by themselves. Nothing is assumed of the
\* student's code, of what it leaves behind, or of what ends the container.
FairSpec == Spec /\ WF_vars(HarnessStep /\ UNCHANGED uploadVars)

-----------------------------------------------------------------------------
\* An upload whose client was told its digest can be checked out, however the
\* threads of the server were stopped and although two contents may share a
\* digest, and what is graded is what was sent (store_upload, copy_local_upload).
GradedAsUploaded ==
  /\ pc # "refused"
  /\ snapshot # Nothing => snapshot = upload[TheUpload] /\ snapshot \in Acceptable

\* What an execution says of the answers its check got.
Faithful(x, answers, cases) ==
  /\ \A k \in 1 .. x.passed : answers[k] = "agrees"
  /\ IF x.code = "OK" THEN x.passed = cases /\ Len(answers) = cases
     ELSE /\ Len(answers) = x.passed + 1 /\ x.passed < cases
          /\ answers[Len(answers)] # "agrees" /\ x.code = Code(answers[Len(answers)])

AllFaithful(r) ==
  /\ Len(r.checks) = Checks
  /\ \A i \in 1 .. Checks : Faithful(r.checks[i], seen[i], Cases[i])

\* The verdict says what execute_student returned or raised, whoever wrote the
\* answer and whatever the container met on the way: passed only if every case of
\* every check agreed; failed tests with, for each check, the cases before the
\* first that did not agree and the code of that one, a slow one's being
\* CHECK_EXCEPTION (run_checks); no verdict about the source once any of it ran;
\* a resource limit only when nothing was published (run_sandbox).
VerdictFollowsAnswers ==
  verdict # Nothing =>
    /\ verdict.outcome \in {"completed", "tests_failed"} =>
         /\ snapshot \notin Findings \cup Problems
         /\ AllFaithful(verdict)
         /\ verdict.outcome = "completed" <=> PassedChecks(verdict) = 1 .. Checks
    /\ verdict.outcome = "static_policy_failed" => snapshot \in Findings
    /\ verdict.outcome = "contract_failed" => snapshot \in Problems \ Findings
    /\ verdict.outcome \in {"static_policy_failed", "contract_failed"} =>
         \A i \in 1 .. Checks : seen[i] = <<>>
    /\ verdict.outcome = "resource_limit_exceeded" <=> published = Nothing

\* Every trigger made by AchievementAPI.nominate, detect or
\* resolve_achievement_triggers names a definition that allows its source, and
\* evidence: checks that passed, events or the outcome of this result; one for the
\* first submission is sent at the first attempt only. Of what a handler returns by
\* itself (pipeline.py:119) nothing is said here.
NominationsEarned ==
  verdict # Nothing =>
    \A t \in verdict.triggers : t.maker # "returned" =>
      /\ \E d \in job.definitions : d.id = t.id /\ t.source \in d.sources
      /\ t.maker = "first" => job.attempt = 1 /\ verdict.outcome = "completed"
      /\ t.evidence # {}
      /\ \A e \in t.evidence :
           CASE e.kind = "check" -> \A k \in 1 .. Cases[e.of] : seen[e.of][k] = "agrees"
             [] e.kind = "event" -> e.of \in DOMAIN verdict.events
             [] OTHER -> t.maker = "runtime"

\* "Handlers have an allowlist, an action limit and evidence-reference validation"
\* (docs/grading-sdk-and-pipelines.md:51): what any of them nominates is allowed to
\* the laboratory and names evidence of the event it answers.
HandlersValidated ==
  verdict # Nothing =>
    \A t \in verdict.triggers : t.maker \in {"api", "returned"} =>
      t.id \in job.lab.allowed /\ t.evidence \subseteq CheckEvidence

\* Every grading comes to an end without the help of the container's deadline,
\* whatever the student's processes do: each case is given up after its 3 seconds,
\* though its processes live on and may hold the pipe (execute_student, run_checks).
EndsWithoutDeadline == (pc = "policy") ~> (pc \in {"judged", "requeued"})
=============================================================================
