------------------------------ MODULE Grading ------------------------------
(***************************************************************************)
(* One container run of a submission: sandbox_entry.main and the grader of *)
(* laboratory 1 as root, the student's function in a process of its own    *)
(* for every case (student_executor.py), whatever processes that function  *)
(* leaves behind, the ends a container may come to, and run_sandbox, which *)
(* reads the result on the host.                                           *)
(*                                                                         *)
(* The harness may kill none of them: run_sandbox leaves its root no more  *)
(* than DAC_OVERRIDE, SETUID and SETGID (sandbox.py:77-81), and a signal to *)
(* another user's process needs CAP_KILL.  So they run until they end by   *)
(* themselves or with the container.  A helper is what the current case    *)
(* left behind: "holding" keeps the pipe of standard error open, "quiet"   *)
(* does not.  Survivors are whatever earlier cases left.  All of them are  *)
(* the same user, and may write the result file of the current case.       *)
(***************************************************************************)
EXTENDS Nominations

CONSTANTS
  Checks,       \* the number of functions the laboratory asks for
  Cases,        \* the number of cases of each
  Submissions,  \* what /submission may hold
  Findings,     \* those the source policy has findings about
  Problems,     \* those with a missing, altered or ambiguous contract
  Idioms(_),    \* the checks whose function shows the idiom detect looks for
  IdiomId,      \* the achievement each of these idioms nominates
  Jobs,         \* the lab, the attempt and the definitions that come with a job
  Nothing       \* no answer, no result, no verdict yet

ASSUME ChecksAssumption == Checks \in Nat \ {0} /\ Cases \in [1 .. Checks -> Nat \ {0}]
ASSUME IdiomsAssumption ==
  (\A c \in Submissions : Idioms(c) \subseteq 1 .. Checks) /\ IdiomId \in [1 .. Checks -> Achievements]

ASSUME JobsAssumption ==
  Jobs \subseteq [lab : Labs, attempt : Nat, definitions : SUBSET Definitions]

VARIABLES
  job,          \* what the claim carried
  snapshot,     \* what /submission holds
  pc,           \* where the harness stands
  student,      \* the student process of the current case
  answer,       \* the result file of the current case
  helper,       \* the processes the current case left behind
  survivors,    \* whether processes of earlier cases are alive
  observed,     \* what execute_student is about to return
  passed,       \* cases of the current check that have agreed
  executions,   \* checks that are done
  seen,         \* history: what execute_student returned, for each check
  result,       \* sandbox_entry's result
  published,    \* /output/result.json
  verdict       \* what run_sandbox returned, its triggers resolved

studentVars == <<student, answer, helper, survivors>>
checkVars == <<observed, passed, executions, seen>>
gradingVars == <<job, snapshot, pc, studentVars, checkVars, result, published, verdict>>

-----------------------------------------------------------------------------
\* What the student's process may write as its answer: a value that agrees with
\* the reference, differs from it, has the wrong type or makes the comparison
\* itself fail; an error of the signature, of the function, or a TimeoutError the
\* function raises; a file cut short.
Written == {"agrees", "differs", "wrong_type", "incomparable", "signature", "raises",
            "raises_timeout", "cut_short"}
\* What execute_student comes to: an answer, none, or an exception of its own: the
\* process cannot be started, or the signal to a slow one is refused.
Observations == Written \cup {"absent", "refused", "not_started"}

\* Lab1Context.verify, and run_checks for every other exception.
Code(o) ==
  CASE o = "agrees" -> "OK"
    [] o = "signature" -> "CONTRACT_SIGNATURE_INVALID"
    [] o = "raises_timeout" -> "TIME_LIMIT_EXCEEDED"
    [] o \in {"raises", "absent"} -> "RUNTIME_EXCEPTION"
    [] o = "wrong_type" -> "CONTRACT_RETURN_TYPE_INVALID"
    [] o = "differs" -> "REFERENCE_MISMATCH"
    [] OTHER -> "CHECK_EXCEPTION"

Codes == {Code(o) : o \in Observations}
Execution == [passed : Nat, code : Codes]

Outcomes == {"completed", "tests_failed", "contract_failed", "static_policy_failed",
             "grader_internal_error", "resource_limit_exceeded"}
Result == [outcome : Outcomes, checks : Seq(Execution),
           events : Seq({"memory_or_termination"}), triggers : SUBSET Nominated]

ASSUME NothingAssumption == Nothing \notin Submissions \cup Observations \cup Result

GradeResult(outcome, checks, events, triggers) ==
  [outcome |-> outcome, checks |-> checks, events |-> events, triggers |-> triggers]
Failed(outcome, checks) == GradeResult(outcome, checks, <<>>, {})

\* Where the container still runs, and where run_sandbox has it behind it.
Harness == {"policy", "contract", "start", "wait", "sweep", "finalize", "write", "replace", "stop"}
Ended == {"exited", "killed", "broken", "overdue"}

GradingInit ==
  /\ job \in Jobs
  /\ pc = "waiting"
  /\ snapshot = Nothing /\ result = Nothing /\ published = Nothing /\ verdict = Nothing
  /\ student = "none" /\ answer = Nothing /\ helper = "none" /\ survivors = FALSE
  /\ observed = Nothing /\ passed = 0 /\ executions = <<>>
  /\ seen = [i \in 1 .. Checks |-> <<>>]

-----------------------------------------------------------------------------
(* sandbox_entry.main and grade, up to the first check.                    *)

ScanPolicy ==
  /\ pc = "policy"
  /\ IF snapshot \in Findings
       THEN pc' = "write" /\ result' = Failed("static_policy_failed", <<>>)
       ELSE pc' = "contract" /\ UNCHANGED result
  /\ UNCHANGED <<job, snapshot, studentVars, checkVars, published, verdict>>

\* verify_contract_files and discover.
VerifyContract ==
  /\ pc = "contract"
  /\ IF snapshot \in Problems
       THEN pc' = "write" /\ result' = Failed("contract_failed", <<>>)
       ELSE pc' = "start" /\ UNCHANGED result
  /\ UNCHANGED <<job, snapshot, studentVars, checkVars, published, verdict>>

\* Anything the harness raises outside run_checks.
HarnessRaises ==
  /\ pc \in {"policy", "contract", "finalize"}
  /\ pc' = "write"
  /\ result' = Failed("grader_internal_error", <<>>)
  /\ UNCHANGED <<job, snapshot, studentVars, checkVars, published, verdict>>

-----------------------------------------------------------------------------
(* execute_student.                                                        *)

StartStudent ==
  /\ pc = "start"
  /\ \/ pc' = "wait" /\ student' = "running" /\ UNCHANGED observed
     \/ pc' = "sweep" /\ observed' = "not_started" /\ UNCHANGED student
  /\ UNCHANGED <<job, snapshot, answer, helper, survivors, passed, executions, seen, result,
                 published, verdict>>

\* Variant: nobody looks whether there is a result file.
CollectUnseen ==
  /\ pc = "wait" /\ student = "ended" /\ helper # "holding"
  /\ pc' = "sweep"
  /\ observed' = answer
  /\ UNCHANGED <<job, snapshot, studentVars, passed, executions, seen, result, published, verdict>>

\* communicate(timeout=3) returns when the process has ended and the pipe is
\* closed; the result file is read before the sweep.
CollectAnswer ==
  /\ pc = "wait" /\ student = "ended" /\ helper # "holding"
  /\ pc' = "sweep"
  /\ observed' = IF answer = Nothing THEN "absent" ELSE answer
  /\ UNCHANGED <<job, snapshot, studentVars, passed, executions, seen, result, published, verdict>>

\* Variant: communicate without a limit.
TimeOutAfterEnd ==
  /\ pc = "wait" /\ student = "ended"
  /\ pc' = "sweep"
  /\ observed' = "refused"
  /\ UNCHANGED <<job, snapshot, studentVars, passed, executions, seen, result, published, verdict>>

\* After 3 seconds killpg raises PermissionError, which leaves execute_student: the
\* second communicate and its answer of a TimeoutError are never reached.
TimeOut ==
  /\ pc = "wait"
  /\ pc' = "sweep"
  /\ observed' = "refused"
  /\ UNCHANGED <<job, snapshot, studentVars, passed, executions, seen, result, published, verdict>>

-----------------------------------------------------------------------------
(* run_checks.                                                             *)

\* Variant: a failed case does not end its check.
RecordAll(i, o) ==
  /\ seen' = [seen EXCEPT ![i] = Append(@, o)]
  /\ passed' = IF Len(seen[i]) + 1 = Cases[i] THEN 0 ELSE passed + 1
  /\ executions' = IF Len(seen[i]) + 1 = Cases[i]
                     THEN Append(executions, [passed |-> Cases[i], code |-> Code(o)]) ELSE executions

\* One case of check i is over: the next case, or the check is done.
Record(i, o) ==
  /\ seen' = [seen EXCEPT ![i] = Append(@, o)]
  /\ passed' = IF o = "agrees" /\ passed + 1 < Cases[i] THEN passed + 1 ELSE 0
  /\ executions' =
       IF o # "agrees" THEN Append(executions, [passed |-> passed, code |-> Code(o)])
       ELSE IF passed + 1 = Cases[i] THEN Append(executions, [passed |-> Cases[i], code |-> "OK"])
       ELSE executions

\* The finally clause removes the files of the case; each signal it sends is refused,
\* and the refusal swallowed. verify and run_checks judge what was read.
Sweep ==
  /\ pc = "sweep"
  /\ survivors' = (survivors \/ student = "running" \/ helper # "none")
  /\ student' = "none" /\ answer' = Nothing /\ helper' = "none"
  /\ Record(Len(executions) + 1, observed)
  /\ pc' = IF Len(executions') = Checks THEN "finalize" ELSE "start"
  /\ observed' = Nothing
  /\ UNCHANGED <<job, snapshot, result, published, verdict>>

-----------------------------------------------------------------------------
(* The result.                                                             *)

CheckEvidence == {Evidence("check", i) : i \in 1 .. Checks}

Grade ==
  IF \E i \in DOMAIN executions : executions[i].code # "OK"
    THEN Failed("tests_failed", executions)
  ELSE IF DispatchRaises(job.lab, "submission.finalized", CheckEvidence)
    THEN Failed("grader_internal_error", <<>>)
  ELSE GradeResult("completed", executions, <<>>,
         Dispatched(job.lab, "submission.finalized") \cup StaticNominations(Idioms(snapshot), IdiomId))

Finalize ==
  /\ pc = "finalize"
  /\ pc' = "write"
  /\ result' = Grade
  /\ UNCHANGED <<job, snapshot, studentVars, checkVars, published, verdict>>

\* The temporary file beside it,
WriteResult ==
  /\ pc = "write"
  /\ pc' = "replace"
  /\ UNCHANGED <<job, snapshot, studentVars, checkVars, result, published, verdict>>

\* os.replace,
ReplaceResult ==
  /\ pc = "replace"
  /\ pc' = "stop"
  /\ published' = result
  /\ UNCHANGED <<job, snapshot, studentVars, checkVars, result, verdict>>

\* and the end of the container's main process, which ends every other.
ExitContainer ==
  /\ pc = "stop"
  /\ pc' = "exited"
  /\ survivors' = FALSE
  /\ UNCHANGED <<job, snapshot, student, answer, helper, checkVars, result, published, verdict>>

-----------------------------------------------------------------------------
(* The student's code and what it left behind.                             *)

\* The executor writes the file of its case; so may any other process of its user,
\* as long as execute_student has not read it.
Answer(o) ==
  /\ pc = "wait" /\ (student = "running" \/ helper # "none" \/ survivors)
  /\ answer' = o
  /\ UNCHANGED <<job, snapshot, pc, student, helper, survivors, checkVars, result, published, verdict>>

LeaveHelper(h) ==
  /\ student = "running" /\ helper = "none"
  /\ helper' = h
  /\ UNCHANGED <<job, snapshot, pc, student, answer, survivors, checkVars, result, published, verdict>>

EndStudent ==
  /\ student = "running"
  /\ student' = "ended"
  /\ UNCHANGED <<job, snapshot, pc, answer, helper, survivors, checkVars, result, published, verdict>>

\* They end, or close the pipe and live on.
EndHelper ==
  /\ \/ helper # "none" /\ helper' = "none"
     \/ helper = "holding" /\ helper' = "quiet"
  /\ UNCHANGED <<job, snapshot, pc, student, answer, survivors, checkVars, result, published, verdict>>

EndSurvivors ==
  /\ survivors
  /\ survivors' = FALSE
  /\ UNCHANGED <<job, snapshot, pc, student, answer, helper, checkVars, result, published, verdict>>

Student ==
  \/ \E o \in Written : Answer(o)
  \/ \E h \in {"holding", "quiet"} : LeaveHelper(h)
  \/ EndStudent \/ EndHelper \/ EndSurvivors

-----------------------------------------------------------------------------
(* The ends the container does not choose, and run_sandbox.                *)

\* Killed by a signal (exit 137 or 143), any other failed exit or a failure of
\* docker, the deadline of subprocess.run.
StopContainer ==
  /\ pc \in Harness
  /\ pc' \in {"killed", "broken", "overdue"}
  /\ student' = "none" /\ answer' = Nothing /\ helper' = "none" /\ survivors' = FALSE
  /\ UNCHANGED <<job, snapshot, checkVars, result, published, verdict>>

SandboxResult ==
  IF published # Nothing THEN published
  ELSE GradeResult("resource_limit_exceeded", <<>>, <<"memory_or_termination">>, {})

Infrastructure == pc = "overdue" \/ (published = Nothing /\ pc # "killed")

PassedChecks(r) == {i \in DOMAIN r.checks : r.checks[i].code = "OK"}
Gate(r) == IF r.outcome = "completed" THEN "passed" ELSE "failed"

\* resolve_achievement_triggers
Resolve(r) ==
  Allowed(r.triggers, job.definitions)
    \cup RuntimeNominations(r.outcome, r.events, job.definitions)
    \cup FirstSubmission(Gate(r), PassedChecks(r), job.attempt, job.definitions)

\* run_sandbox raises SandboxInfrastructureFailure, or returns a result.
ReturnFromSandbox ==
  /\ pc \in Ended
  /\ IF Infrastructure
       THEN pc' = "requeued" /\ UNCHANGED verdict
       ELSE pc' = "judged" /\ verdict' = [SandboxResult EXCEPT !.triggers = Resolve(SandboxResult)]
  /\ UNCHANGED <<job, snapshot, studentVars, checkVars, result, published>>

-----------------------------------------------------------------------------
\* What root's side of the container and the host do by themselves.
HarnessStep ==
  \/ ScanPolicy \/ VerifyContract \/ HarnessRaises
  \/ StartStudent \/ CollectAnswer \/ TimeOut \/ Sweep
  \/ Finalize \/ WriteResult \/ ReplaceResult \/ ExitContainer
  \/ ReturnFromSandbox

GradingStep == HarnessStep \/ Student \/ StopContainer
=============================================================================
