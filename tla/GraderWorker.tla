---------------------------- MODULE GraderWorker ----------------------------
(***************************************************************************)
(* The worker processes of grader_worker/worker.py against one platform.   *)
(* A process runs Worker.run: it polls, claims a job and takes it through  *)
(* Worker.process, or, when no job waits, claims a review session and      *)
(* takes it through Worker.process_llm_review.                             *)
(*                                                                         *)
(* pc[w] names the next blocking call of w's main thread; one action is    *)
(* that call and the straight-line code up to the next one.  While a job   *)
(* is processed a heartbeat thread renews its lease.  Renewals that        *)
(* succeed change nothing here; what they guarantee about time is the      *)
(* business of JobLease, whose theorem justifies the guard of ExpireLease. *)
(*                                                                         *)
(* Two kinds of trouble are told apart.  A fault (a crash, an HTTP 5xx, an *)
(* answer of the platform that never comes) is an accident; MaxFaults      *)
(* bounds their number in a behaviour.  A setback may come back at every   *)
(* attempt at the same job, and nothing bounds it: a repository that       *)
(* cannot be cloned, a submission that outlives the sandbox or cannot be   *)
(* decoded, an LLM without capacity (Setback, below).                      *)
(***************************************************************************)
EXTENDS GraderPlatform

CONSTANTS
  Workers,
  NoJob,
  Installed,    \* jobs whose grader_path is in INSTALLED_GRADERS
  Equipped,     \* workers for which configured_providers() is not empty
  MaxFaults     \* bound on the faults of a behaviour

ASSUME NoJobAssumption == NoJob \notin Jobs
ASSUME InstalledAssumption == Installed \subseteq Jobs
ASSUME EquippedAssumption == Equipped \subseteq Workers
ASSUME MaxFaultsAssumption == MaxFaults \in Nat

VARIABLES
  pc,           \* where each main thread stands
  attempt,      \* the local variables of process / process_llm_review
  heartbeat,    \* the keep_lease thread of each worker
  ready,        \* what each worker last told the platform of itself
  faults,       \* faults so far
  blame         \* history: what made each stored result a failed one

workerVars == <<pc, attempt, heartbeat>>
vars == <<platformVars, workerVars, ready, faults, blame>>

\* Why an attempt could not grade: the student's work, the network during
\* git clone, the network while git verify/checkout fetches missing objects,
\* a container killed from outside, an error of the harness inside it, a
\* sandbox without a result, the LLM.
Causes == {"student", "clone", "fetch", "killed", "harness", "sandbox", "llm"}

JobSteps == {"repository", "checkout", "contracts", "tests", "sandbox",
             "securityEvents", "initialReview", "assessment", "llmInitial",
             "leaseCheck", "saving", "result", "repositoryFailed",
             "capacity", "infraFailure"}
ReviewSteps == {"reviewCheckout", "followup", "reviewAssessment",
                "reviewResult", "reviewCapacity"}
Steps == JobSteps \cup ReviewSteps
           \cup {"down", "boot", "poll", "claim", "pollReviews", "claimReview"}

Attempt == [job    : Jobs \cup {NoJob},
            lease  : Tokens \cup {NoToken},
            gate   : Verdicts \cup {"none"},
            draft  : Payloads \cup {"none"},
            cause  : Causes \cup {"none"},
            answer : Nat]

NoAttempt == [job |-> NoJob, lease |-> NoToken, gate |-> "none",
              draft |-> "none", cause |-> "none", answer |-> 0]

\* "lost": lease_lost is set and the thread has returned.  "dead": an error
\* other than ApiFailure ended the thread, and nobody was told.
HeartbeatStates == {"off", "alive", "lost", "dead"}

\* What readiness() sends.  Both flags are for the platform alone: no code of
\* the worker reads them, and since nothing in the repository says what the
\* platform makes of them, Claimable offers a job to any worker.
Readiness == [ready : BOOLEAN, llm : BOOLEAN]
Unready == [ready |-> FALSE, llm |-> FALSE]

\* The type invariant.
TypeOK ==
  /\ PlatformTypeOK
  /\ pc \in [Workers -> Steps]
  /\ attempt \in [Workers -> Attempt]
  /\ heartbeat \in [Workers -> HeartbeatStates]
  /\ ready \in [Workers -> Readiness]
  /\ faults \in 0 .. MaxFaults
  /\ blame \in [Jobs -> Causes \cup {"none"}]

Init ==
  /\ PlatformInit
  /\ pc = [w \in Workers |-> "boot"]
  /\ attempt = [w \in Workers |-> NoAttempt]
  /\ heartbeat = [w \in Workers |-> "off"]
  /\ ready = [w \in Workers |-> Unready]
  /\ faults = 0
  /\ blame = [j \in Jobs |-> "none"]

-----------------------------------------------------------------------------
(* Moves of a main thread.                                                 *)

Fault == faults < MaxFaults /\ faults' = faults + 1

\* On to another step with changed local variables.
MoveWith(w, step, local) ==
  /\ pc' = [pc EXCEPT ![w] = step]
  /\ attempt' = [attempt EXCEPT ![w] = local]
  /\ UNCHANGED heartbeat

Move(w, step) == MoveWith(w, step, attempt[w])

\* The function ends: its locals are gone and its finally block stops the
\* heartbeat thread.
Leave(w, step) ==
  /\ pc' = [pc EXCEPT ![w] = step]
  /\ attempt' = [attempt EXCEPT ![w] = NoAttempt]
  /\ heartbeat' = [heartbeat EXCEPT ![w] = "off"]

Return(w) == Leave(w, "poll")

\* An exception nobody catches: run() ends, and with it the process.
Die(w) == Leave(w, "down")

(* Calls to the platform.                                                  *)

\* Variant: the call does not carry its lease.
AnyLease(w) == TRUE

HoldsJob(w) == lease[attempt[w].job] = attempt[w].lease
HoldsReview(w) == reviewLease[attempt[w].job] = attempt[w].lease

\* A call that carries a lease.  Honoured, it takes effect, and then either
\* the answer arrives or the caller ends in URLError; otherwise it is refused
\* and ApiFailure ends the process.  A call that never arrives is a Crash.
LeasedCall(w, honoured, Effect, Answered) ==
  \/ /\ honoured
     /\ Effect
     /\ Answered
     /\ UNCHANGED <<ready, faults>>
  \/ /\ honoured
     /\ Effect
     /\ Die(w)
     /\ Fault
     /\ UNCHANGED ready
  \/ /\ ~honoured
     /\ Die(w)
     /\ UNCHANGED <<platformVars, ready, faults, blame>>

Progress(w, step) ==
  LeasedCall(w, HoldsJob(w), UNCHANGED <<platformVars, blame>>, Move(w, step))

\* A token no lease and no attempt still carries.
FreshTokens ==
  Tokens \ ({lease[j] : j \in Jobs} \cup {reviewLease[j] : j \in Jobs}
              \cup {attempt[w].lease : w \in Workers})

-----------------------------------------------------------------------------
(* Worker.run                                                              *)

\* docker_ready, then readiness(True), with or without LLM capacity: the one
\* time in its life that a process declares itself ready.
Boot(w) ==
  /\ pc[w] = "boot"
  /\ Move(w, "poll")
  /\ ready' = [ready EXCEPT ![w] = [ready |-> TRUE, llm |-> w \in Equipped]]
  /\ UNCHANGED <<platformVars, faults, blame>>

\* Variant: the sessions are never looked at.
PollOnlyCandidates(w) ==
  LET candidates == {j \in Jobs : Claimable(j)} IN
  /\ pc[w] = "poll"
  /\ \E j \in candidates \cap Installed :
       MoveWith(w, "claim", [NoAttempt EXCEPT !.job = j])
  /\ UNCHANGED <<platformVars, ready, faults, blame>>

\* The first candidate with an installed grader is claimed next; the reviews
\* are looked at only when no job waits at all.  When jobs wait but none of
\* them has an installed grader, the thread sleeps and polls again: a stutter.
PollCandidates(w) ==
  LET candidates == {j \in Jobs : Claimable(j)} IN
  /\ pc[w] = "poll"
  /\ \/ candidates = {} /\ Move(w, "pollReviews")
     \/ \E j \in candidates \cap Installed :
          MoveWith(w, "claim", [NoAttempt EXCEPT !.job = j])
  /\ UNCHANGED <<platformVars, ready, faults, blame>>

\* Variant: the refusal of the claim is overlooked.
ClaimUnrefused(w) ==
  LET j == attempt[w].job IN
  /\ pc[w] = "claim"
  /\ \/ \E t \in FreshTokens :
          /\ GrantLease(j, t)
          /\ pc' = [pc EXCEPT ![w] = "repository"]
          /\ attempt' = [attempt EXCEPT ![w].lease = t]
          /\ heartbeat' = [heartbeat EXCEPT ![w] = "alive"]
     \/ /\ ~Claimable(j)
        /\ Move(w, "repository")
        /\ UNCHANGED platformVars
  /\ UNCHANGED <<ready, faults, blame>>

Claim(w) ==
  LET j == attempt[w].job IN
  /\ pc[w] = "claim"
  /\ \/ \E t \in FreshTokens :
          /\ GrantLease(j, t)
          /\ \/ /\ pc' = [pc EXCEPT ![w] = "repository"]
                /\ attempt' = [attempt EXCEPT ![w].lease = t]
                /\ heartbeat' = [heartbeat EXCEPT ![w] = "alive"]
                /\ UNCHANGED faults
             \/ Die(w) /\ Fault
     \/ /\ ~Claimable(j)              \* another worker was faster
        /\ Return(w)
        /\ UNCHANGED <<platformVars, faults>>
  /\ UNCHANGED <<ready, blame>>

PollReviews(w) ==
  LET candidates == {j \in Jobs : ReviewClaimable(j)} IN
  /\ pc[w] = "pollReviews"
  /\ \/ candidates = {} /\ Move(w, "poll")
     \/ \E j \in candidates :
          MoveWith(w, "claimReview", [NoAttempt EXCEPT !.job = j])
  /\ UNCHANGED <<platformVars, ready, faults, blame>>

\* The claim's answer holds question_count as it is now.
ClaimReview(w) ==
  LET j == attempt[w].job IN
  /\ pc[w] = "claimReview"
  /\ \/ \E t \in FreshTokens :
          /\ GrantReviewLease(j, t)
          /\ \/ /\ MoveWith(w, "reviewCheckout",
                      [attempt[w] EXCEPT !.lease = t, !.answer = round[j]])
                /\ UNCHANGED faults
             \/ Die(w) /\ Fault
     \/ /\ ~ReviewClaimable(j)
        /\ Return(w)
        /\ UNCHANGED <<platformVars, faults>>
  /\ UNCHANGED <<ready, blame>>

-----------------------------------------------------------------------------
(* Worker.process: the repository                                          *)

ReportRepository(w) == pc[w] = "repository" /\ Progress(w, "checkout")

\* The error code each step of checkout_exact and validate_snapshot raises.
\* With --filter=blob:none the clone holds no file contents: git checkout
\* fetches them, so it fails when the network does.
FailureCode(step) ==
  CASE step = "clone"    -> "REPOSITORY_UNAVAILABLE"
    [] step = "checkout" -> "COMMIT_NOT_FOUND"
    [] step = "validate" -> "SNAPSHOT_REJECTED"

\* Variant: a clone that failed is the student's fault.
IsTransientTimeout(code) == code \in {"REPOSITORY_TIMEOUT", "WORK_ROOT_UNAVAILABLE"}

IsTransient(code) ==
  code \in {"REPOSITORY_UNAVAILABLE", "REPOSITORY_TIMEOUT", "WORK_ROOT_UNAVAILABLE"}

\* The handler of RepositoryFailure: a transient one hands the job back, any
\* other becomes a failed result.
RepositoryFailure(w, step, why) ==
  MoveWith(w, IF IsTransient(FailureCode(step)) THEN "infraFailure"
                                                ELSE "repositoryFailed",
           [attempt[w] EXCEPT !.cause = why])

\* checkout_exact and validate_snapshot.  A URL that is malformed, private or
\* gone fails like a network that is down ("clone"), and does so each time; a
\* git command that outlives its timeout raises what nobody catches.
Checkout(w) ==
  /\ pc[w] = "checkout"
  /\ \/ Move(w, "contracts")
     \/ \E step \in {"checkout", "validate"} : RepositoryFailure(w, step, "student")
     \/ RepositoryFailure(w, "clone", "clone")
     \/ RepositoryFailure(w, "checkout", "fetch")
     \/ Die(w)
  /\ UNCHANGED <<platformVars, ready, faults, blame>>

\* A stored result closes the job, and its cause is remembered.
Report(w, v) ==
  LeasedCall(w, HoldsJob(w),
             /\ StoreResult(attempt[w].job, v)
             /\ blame' = [blame EXCEPT ![attempt[w].job] = attempt[w].cause],
             Return(w))

ReportRepositoryFailed(w) == pc[w] = "repositoryFailed" /\ Report(w, "failed")

(* Worker.process: the sandbox                                             *)

ReportContracts(w) == pc[w] = "contracts" /\ Progress(w, "tests")
ReportTests(w) == pc[w] = "tests" /\ Progress(w, "sandbox")

\* run_sandbox: the container wrote result.json, be it the grader's or, after
\* an error of the harness, a failed one without a verdict; or it was killed
\* (exit 137 or 143), which is taken for the student's memory use; or it left
\* nothing, or did not end before its deadline, as a slow submission never does.
Sandbox(w) ==
  /\ pc[w] = "sandbox"
  /\ \/ \E next \in {"securityEvents", "initialReview"}, gate \in Verdicts :
          MoveWith(w, next,
            [attempt[w] EXCEPT !.gate = gate,
               !.cause = IF gate = "failed" THEN "student" ELSE "none"])
     \/ \E why \in {"killed", "harness"} :
          MoveWith(w, "initialReview",
            [attempt[w] EXCEPT !.gate = "failed", !.cause = why])
     \/ MoveWith(w, "infraFailure", [attempt[w] EXCEPT !.cause = "sandbox"])
  /\ UNCHANGED <<platformVars, ready, faults, blame>>

SendSecurityEvents(w) ==
  pc[w] = "securityEvents" /\ Progress(w, "initialReview")

(* Worker.process: the review and the assessment                           *)

Drafted(w, step, payload) ==
  MoveWith(w, step, [attempt[w] EXCEPT !.draft = payload])

\* ProviderFailure, or CapacityUnavailable of the token budget.
NoCapacity(w, step) == MoveWith(w, step, [attempt[w] EXCEPT !.cause = "llm"])

\* The two limits on questions: the laboratory's max_rounds, and the two that
\* validate_review knows ("third question is forbidden").
QuestionLimit == IF MaxRounds < 2 THEN MaxRounds ELSE 2

\* Variant: one question too many.
ReviewerMovesOneMore(asked) ==
  {"finalize"} \cup {p \in {"ask"} : asked <= QuestionLimit}

\* What the reviewer's validator lets through: a question while fewer than the
\* limit were asked, a closing review at any time.
ReviewerMoves(asked) == {"finalize"} \cup {p \in {"ask"} : asked < QuestionLimit}

\* Variant: nothing stands in for the review that was not made.
InitialReviewOptional(w) ==
  /\ pc[w] = "initialReview"
  /\ \/ Move(w, "leaseCheck")
     \/ /\ attempt[w].gate = "passed"
        /\ w \in Equipped
        /\ \E p \in ReviewerMoves(0) :
             Drafted(w, IF p = "finalize" THEN "assessment" ELSE "llmInitial", p)
  /\ UNCHANGED <<platformVars, ready, faults, blame>>

\* Variant: the gate is not asked.
InitialReviewUngated(w) ==
  /\ pc[w] = "initialReview"
  /\ w \in Equipped
  /\ \E p \in ReviewerMoves(0) :
       Drafted(w, IF p = "finalize" THEN "assessment" ELSE "llmInitial", p)
  /\ UNCHANGED <<platformVars, ready, faults, blame>>

\* run_initial_review, and the payload that stands in for it when the gate was
\* passed but the reviewer is off (or has no provider to ask).  A source or a
\* report that is no UTF-8 raises UnicodeDecodeError, which nobody catches.
InitialReview(w) ==
  /\ pc[w] = "initialReview"
  /\ \/ attempt[w].gate # "passed" /\ Move(w, "leaseCheck")
     \/ attempt[w].gate = "passed" /\ Drafted(w, "assessment", "finalize")
     \/ /\ attempt[w].gate = "passed"
        /\ w \in Equipped
        /\ \/ \E p \in ReviewerMoves(0) :
                Drafted(w, IF p = "finalize" THEN "assessment" ELSE "llmInitial", p)
           \/ NoCapacity(w, "capacity")
           \/ Die(w)
  /\ UNCHANGED <<platformVars, ready, faults, blame>>

\* run_assessment.  Without providers it raises RuntimeError, which no handler
\* of process or process_llm_review catches.
Assessment(w, from, sent, failed) ==
  /\ pc[w] = from
  /\ \/ w \in Equipped /\ Drafted(w, sent, "assessed")
     \/ w \in Equipped /\ NoCapacity(w, failed)
     \/ w \notin Equipped /\ Die(w)
  /\ UNCHANGED <<platformVars, ready, faults, blame>>

InitialAssessment(w) == Assessment(w, "assessment", "llmInitial", "capacity")

SendInitial(w) ==
  /\ pc[w] = "llmInitial"
  /\ LeasedCall(w, HoldsJob(w),
       StoreInitial(attempt[w].job, attempt[w].draft) /\ UNCHANGED blame,
       Move(w, "leaseCheck"))

(* Worker.process: the end                                                 *)

\* Variant: the test of lease_lost is the wrong way round.
CheckLeaseInverted(w) ==
  /\ pc[w] = "leaseCheck"
  /\ IF heartbeat[w] = "lost" THEN Move(w, "saving") ELSE Return(w)
  /\ UNCHANGED <<platformVars, ready, faults, blame>>

\* lease_lost is looked at once, after the whole grading.
CheckLease(w) ==
  /\ pc[w] = "leaseCheck"
  /\ IF heartbeat[w] = "lost" THEN Return(w) ELSE Move(w, "saving")
  /\ UNCHANGED <<platformVars, ready, faults, blame>>

ReportSaving(w) == pc[w] = "saving" /\ Progress(w, "result")

\* Variant: the payload is sent in the place of the result.
SendResultOfDraft(w) == pc[w] = "result" /\ Report(w, attempt[w].draft)

SendResult(w) == pc[w] = "result" /\ Report(w, attempt[w].gate)

\* readiness(False), before the call that hands a job back.
DeclareNoCapacity(w, from, Onward) ==
  /\ pc[w] = from
  /\ Onward
  /\ ready' = [ready EXCEPT ![w] = Unready]
  /\ UNCHANGED <<platformVars, faults, blame>>

NoCapacityForJob(w) == DeclareNoCapacity(w, "capacity", Move(w, "infraFailure"))

SendInfraFailure(w) ==
  /\ pc[w] = "infraFailure"
  /\ LeasedCall(w, HoldsJob(w),
       Requeue(attempt[w].job) /\ UNCHANGED blame, Return(w))

-----------------------------------------------------------------------------
(* Worker.process_llm_review                                               *)

\* A RepositoryFailure of any kind leaves the lease to expire; a git command
\* that outlives its timeout ends the process.
ReviewCheckout(w) ==
  /\ pc[w] = "reviewCheckout"
  /\ Move(w, "followup") \/ Return(w) \/ Die(w)
  /\ UNCHANGED <<platformVars, ready, faults, blame>>

\* run_followup_review.  The sources were decoded before the first question.
Followup(w) ==
  /\ pc[w] = "followup"
  /\ \/ /\ w \in Equipped
        /\ \E p \in ReviewerMoves(attempt[w].answer) :
             Drafted(w, IF p = "finalize" THEN "reviewAssessment"
                                          ELSE "reviewResult", p)
     \/ w \in Equipped /\ NoCapacity(w, "reviewCapacity")
     \/ w \notin Equipped /\ Die(w)
  /\ UNCHANGED <<platformVars, ready, faults, blame>>

ReviewAssessment(w) ==
  Assessment(w, "reviewAssessment", "reviewResult", "reviewCapacity")

SendReviewResult(w) ==
  /\ pc[w] = "reviewResult"
  /\ LeasedCall(w, HoldsReview(w),
       StoreReview(attempt[w].job, attempt[w].draft) /\ UNCHANGED blame,
       Return(w))

\* The session is not handed back: its lease has to run out.
NoCapacityForReview(w) == DeclareNoCapacity(w, "reviewCapacity", Return(w))

-----------------------------------------------------------------------------
(* The heartbeat thread, crashes, and the passing of time                  *)

\* The heartbeat is answered with an HTTP error.
HeartbeatRefused(w) ==
  /\ heartbeat[w] = "alive"
  /\ heartbeat' = [heartbeat EXCEPT ![w] = "lost"]
  /\ Fault
  /\ UNCHANGED <<platformVars, pc, attempt, ready, blame>>

\* URLError or a timeout: keep_lease catches neither.
HeartbeatDies(w) ==
  /\ heartbeat[w] = "alive"
  /\ heartbeat' = [heartbeat EXCEPT ![w] = "dead"]
  /\ Fault
  /\ UNCHANGED <<platformVars, pc, attempt, ready, blame>>

\* The process is killed, or a call raises what no handler catches: URLError
\* or HTTP 5xx from the platform, TimeoutExpired from docker rm, a Docker that
\* is not ready inside the handler of an LLM failure.
Crash(w) ==
  /\ pc[w] # "down"
  /\ Die(w)
  /\ Fault
  /\ UNCHANGED <<platformVars, ready, blame>>

\* The supervisor starts the process again.
Restart(w) ==
  /\ pc[w] = "down"
  /\ Move(w, "boot")
  /\ UNCHANGED <<platformVars, ready, faults, blame>>

\* A job lease runs out once its holder no longer renews it.
ExpireLease(j) ==
  /\ lease[j] # NoToken
  /\ \A w \in Workers : heartbeat[w] = "alive" => attempt[w].lease # lease[j]
  /\ Requeue(j)
  /\ UNCHANGED <<workerVars, ready, faults, blame>>

\* A review lease runs out when nobody works on it any more ...
ExpireReviewLease(j) ==
  /\ reviewLease[j] # NoToken
  /\ \A w \in Workers : attempt[w].lease # reviewLease[j]
  /\ RequeueReview(j)
  /\ UNCHANGED <<workerVars, ready, faults, blame>>

\* ... or, since nothing renews it, when the work takes more than 300 seconds.
OutlastReviewLease(j) ==
  /\ \E w \in Workers : pc[w] \in ReviewSteps /\ attempt[w].lease = reviewLease[j]
  /\ RequeueReview(j)
  /\ UNCHANGED <<workerVars, ready, faults, blame>>

Answer(j) == StudentAnswers(j) /\ UNCHANGED <<workerVars, ready, faults, blame>>

-----------------------------------------------------------------------------
RunStep(w) ==
  \/ Boot(w) \/ PollCandidates(w) \/ Claim(w)
  \/ PollReviews(w) \/ ClaimReview(w)

ProcessStep(w) ==
  \/ ReportRepository(w) \/ Checkout(w) \/ ReportRepositoryFailed(w)
  \/ ReportContracts(w) \/ ReportTests(w) \/ Sandbox(w)
  \/ SendSecurityEvents(w) \/ InitialReview(w) \/ InitialAssessment(w)
  \/ SendInitial(w) \/ CheckLease(w) \/ ReportSaving(w) \/ SendResult(w)
  \/ NoCapacityForJob(w) \/ SendInfraFailure(w)

ReviewStep(w) ==
  \/ ReviewCheckout(w) \/ Followup(w) \/ ReviewAssessment(w)
  \/ SendReviewResult(w) \/ NoCapacityForReview(w)

MainThread(w) == RunStep(w) \/ ProcessStep(w) \/ ReviewStep(w)

Next ==
  \/ \E w \in Workers :
       \/ MainThread(w) \/ HeartbeatRefused(w) \/ HeartbeatDies(w)
       \/ Crash(w) \/ Restart(w)
  \/ \E j \in Jobs : ExpireLease(j) \/ ExpireReviewLease(j)
                      \/ OutlastReviewLease(j) \/ Answer(j)

Spec == Init /\ [][Next]_vars

\* The loop of run() always goes on, the supervisor restarts what ended, and
\* leases nobody renews run out.  No student has to answer.
Fairness ==
  /\ \A w \in Workers : WF_vars(MainThread(w)) /\ WF_vars(Restart(w))
  /\ \A j \in Jobs : WF_vars(ExpireLease(j)) /\ WF_vars(ExpireReviewLease(j))

FairSpec == Spec /\ Fairness
-----------------------------------------------------------------------------
(* What the worker promises                                                *)

\* A passed verdict is never stored without the LLM payload that goes with it
\* (worker.py:137-148: the payload is sent before the result, and a disabled
\* reviewer still gets a stand-in), and a review never ends without its
\* assessment ("Assessment is mandatory after a successful gate").  It holds
\* across attempts: what one attempt stored, a later one may rely on.
NoVerdictWithoutReview ==
  \A j \in Jobs :
    /\ verdict[j] = "passed" => session[j] # "none"
    /\ session[j] = "closed" => stored[j] = "assessed"

\* What the handlers know for trouble of the worker's own (a clone that failed,
\* a sandbox that left no result, an LLM without capacity) hands the job back
\* and never ends in a failed verdict (worker.py:149-161).  Three kinds of
\* trouble are not known for what they are and do fail the student: a network
\* that fails during checkout (NetworkNeverFailsStudent), a container killed
\* from outside (sandbox.py:102), an error of the harness (sandbox_entry.py:42).
KnownTroubleNeverFailsStudent ==
  \A j \in Jobs : blame[j] \notin {"clone", "sandbox", "llm"}

\* "A checkout failure may be caused by the worker's network, not student
\* code" (repository.py:30): the network never fails a student.
NetworkNeverFailsStudent == \A j \in Jobs : blame[j] \notin {"clone", "fetch"}

\* No student is asked more often than max_rounds, and never a third time, even
\* when review leases run out under a working attempt and two attempts evaluate
\* the same answer (llm_review.py:119, llm_schema.py:66-69: the validators look
\* at the question_count the claim returned, stale when the result is sent).
RoundsBounded == \A j \in Jobs : round[j] <= QuestionLimit

\* No LLM step runs for work that did not pass the deterministic gate
\* (llm_review.py:23, worker.py:138), in any attempt at the job or its review.
LlmOnlyAfterGate ==
  \A w \in Workers :
    /\ pc[w] \in {"assessment", "llmInitial", "capacity"}
         => attempt[w].gate = "passed"
    /\ pc[w] \in ReviewSteps => verdict[attempt[w].job] = "passed"

\* As long as no fault occurs, no two attempts grade the same job: a claim that
\* came second is refused and abandoned (worker.py:63-68), and a heartbeat
\* keeps the job from being offered again.
NoDuplicateGrading ==
  faults = 0 =>
    \A w1, w2 \in Workers :
      pc[w1] \in JobSteps /\ pc[w2] \in JobSteps /\ w1 # w2
        => attempt[w1].job # attempt[w2].job

\* A worker gives an attempt up because of what may be so again next time: its
\* job is handed back, its review left, or the process ends.
GivesUp(w) ==
  /\ pc[w] \in {"checkout", "sandbox", "initialReview", "assessment",
                "reviewCheckout", "followup", "reviewAssessment"}
  /\ pc'[w] \in {"infraFailure", "capacity", "reviewCapacity", "poll", "down"}

Setback ==
  \/ \E w \in Workers : GivesUp(w)
  \/ \E j \in Jobs : OutlastReviewLease(j)

\* Every job a worker can grade gets its verdict, through crashes, lost answers,
\* dead heartbeats, refused claims and leases that ran out (worker.py:38-71),
\* unless attempts are given up for ever: the code has no limit on attempts, so
\* a job whose URL is wrong or whose work is too slow comes back without end.
EveryJobGetsVerdict ==
  (\A j \in Installed : <>(verdict[j] # "none")) \/ []<><<Setback>>_vars

\* Every answer of a student is taken up: an idle worker looks at the sessions
\* (worker.py:40-52), and the lease of a review that was left runs out
\* (worker.py:85-92).  Again unless attempts are given up for ever, and only
\* where no job waits without end: reviews come after all jobs, those without
\* an installed grader included (worker.py:40).
EveryAnswerIsHeard ==
  Installed = Jobs =>
    (\A j \in Jobs : session[j] = "open" ~> session[j] # "open") \/ []<><<Setback>>_vars

\* "Assessment is mandatory after a successful deterministic gate, even if the
\* Code Reviewer is off" (docs/unified-lab-assessment-contract.md): a job whose
\* attempts keep passing the gate is assessed in the end.
PassedGateIsAssessed ==
  \A j \in Jobs :
    []<>(\E w \in Workers : attempt[w].job = j /\ attempt[w].gate = "passed")
      => <>(session[j] = "closed")

\* Together the workers and the platform implement AssessmentService: one
\* verdict per job, never changed, and an assessment only of a passed one,
\* whatever stale attempts still send (api.py:30-31: every call carries the
\* lease it was claimed under).
Promise == INSTANCE AssessmentService
             WITH assessed <- [j \in Jobs |-> session[j] = "closed"]
PromiseSpec == Promise!Spec
=============================================================================
