-------------------------- MODULE GraderWorkerSteps --------------------------
(***************************************************************************)
(* What the steps of GraderWorker do, proved once per action so that the   *)
(* invariants of GraderWorkerProofs need not look at the actions again:    *)
(* ThreadsNext says what every main thread knows of its own locals, Trace  *)
(* what a step does to one thread, Effect what it does to the platform.    *)
(***************************************************************************)
EXTENDS GraderWorker, TLAPS

\* The limit on questions is a number.
LEMMA QuestionLimitType == QuestionLimit \in Nat
  BY MaxRoundsAssumption DEF QuestionLimit

USE NoTokenAssumption, QuestionLimitType, NoJobAssumption,
    InstalledAssumption, EquippedAssumption, MaxFaultsAssumption

(***************************************************************************)
(* Layer 1: a main thread and its local variables.                         *)
(***************************************************************************)
Graded == {"securityEvents", "initialReview", "assessment", "llmInitial",
           "leaseCheck", "saving", "result"}

Local(step, a) ==
  /\ step \in JobSteps \cup ReviewSteps \cup {"claim", "claimReview"} => a.job \in Jobs
  /\ step \in JobSteps \cup ReviewSteps => a.lease \in Tokens
  /\ step \notin JobSteps \cup ReviewSteps => a.lease = NoToken
  /\ step \in {"assessment", "llmInitial", "capacity"} => a.gate = "passed"
  /\ step \in Graded => a.gate \in Verdicts /\ a.cause \in {"none", "student", "killed", "harness"}
  /\ step = "repositoryFailed" => a.cause \in {"student", "fetch"}
  /\ step \in {"llmInitial", "reviewResult"} => a.draft \in {"ask", "assessed"}
  /\ step = "llmInitial" /\ a.draft = "ask" => QuestionLimit > 0
  /\ step = "reviewResult" /\ a.draft = "ask" => a.answer < QuestionLimit

ThreadsOK ==
  /\ pc \in [Workers -> Steps]
  /\ attempt \in [Workers -> Attempt]
  /\ heartbeat \in [Workers -> HeartbeatStates]
  /\ \A w \in Workers : Local(pc[w], attempt[w])

\* A move of one thread to a step whose locals fit keeps every thread's in order.
LEMMA MoveKeeps ==
  ASSUME NEW w \in Workers, NEW step \in Steps, NEW a \in Attempt,
         ThreadsOK, Local(step, a), MoveWith(w, step, a)
  PROVE  ThreadsOK'
  BY DEF ThreadsOK, MoveWith, Local

\* So does the end of process or of the worker process.
LEMMA LeaveKeeps ==
  ASSUME NEW w \in Workers, NEW step \in {"poll", "down"},
         ThreadsOK, Leave(w, step)
  PROVE  ThreadsOK'
  <1>1. NoAttempt \in Attempt
    BY DEF NoAttempt, Attempt, Verdicts, Payloads, Causes
  <1>2. Local(step, NoAttempt)
    BY DEF Local, NoAttempt, Graded, JobSteps, ReviewSteps
  <1> QED
    BY <1>1, <1>2 DEF ThreadsOK, Leave, Steps, HeartbeatStates, Local

\* Noting why an attempt failed changes no other local.
LEMMA SetCause ==
  ASSUME NEW a \in Attempt, NEW c \in Causes \cup {"none"}
  PROVE  LET b == [a EXCEPT !.cause = c] IN
         /\ b \in Attempt /\ b.job = a.job /\ b.lease = a.lease /\ b.gate = a.gate
         /\ b.draft = a.draft /\ b.cause = c /\ b.answer = a.answer
  BY DEF Attempt

\* Nor does keeping the LLM's payload.
LEMMA SetDraft ==
  ASSUME NEW a \in Attempt, NEW d \in Payloads
  PROVE  LET b == [a EXCEPT !.draft = d] IN
         /\ b \in Attempt /\ b.job = a.job /\ b.lease = a.lease /\ b.gate = a.gate
         /\ b.draft = d /\ b.cause = a.cause /\ b.answer = a.answer
  BY DEF Attempt

\* Nor does taking the token of a claim.
LEMMA SetLease ==
  ASSUME NEW a \in Attempt, NEW t \in Tokens
  PROVE  LET b == [a EXCEPT !.lease = t] IN
         b \in Attempt /\ b.job = a.job /\ b.lease = t
  BY DEF Attempt

\* A candidate starts an attempt that holds no lease yet.
LEMMA NewAttempt ==
  ASSUME NEW j \in Jobs
  PROVE  LET b == [NoAttempt EXCEPT !.job = j] IN
         b \in Attempt /\ b.job = j /\ b.lease = NoToken
  BY DEF NoAttempt, Attempt, Verdicts, Payloads, Causes

\* The answer to a claim starts process and its heartbeat thread.
LEMMA ClaimKeeps ==
  ASSUME NEW w \in Workers, NEW t \in Tokens, ThreadsOK, attempt[w].job \in Jobs,
         pc' = [pc EXCEPT ![w] = "repository"],
         attempt' = [attempt EXCEPT ![w] = [attempt[w] EXCEPT !.lease = t]],
         heartbeat' = [heartbeat EXCEPT ![w] = "alive"]
  PROVE  ThreadsOK'
  <1> DEFINE a == [attempt[w] EXCEPT !.lease = t]
  <1>1. a \in Attempt /\ a.job \in Jobs /\ a.lease \in Tokens
    BY SetLease DEF ThreadsOK
  <1>2. Local("repository", a)
    BY <1>1 DEF Local, JobSteps, ReviewSteps, Graded
  <1>3. \A v \in Workers : Local(pc'[v], attempt'[v])
    BY <1>2 DEF ThreadsOK
  <1>4. "repository" \in Steps /\ "alive" \in HeartbeatStates
    BY DEF Steps, JobSteps, HeartbeatStates
  <1>0. attempt' = [attempt EXCEPT ![w] = a]
    OBVIOUS
  <1> HIDE DEF a
  <1>5. /\ pc' \in [Workers -> Steps] /\ attempt' \in [Workers -> Attempt]
        /\ heartbeat' \in [Workers -> HeartbeatStates]
    BY <1>0, <1>1, <1>4 DEF ThreadsOK
  <1> QED
    BY <1>3, <1>5 DEF ThreadsOK, Local

\* A leased call whose answer moves the thread on, or ends process.
LEMMA ProgressKeeps ==
  ASSUME NEW w \in Workers, NEW step \in Steps, ThreadsOK,
         Local(step, attempt[w]), Progress(w, step)
  PROVE  ThreadsOK'
  <1>1. CASE Move(w, step)
    BY <1>1, MoveKeeps DEF Move, ThreadsOK
  <1> QED
    BY <1>1, LeaveKeeps DEF Progress, LeasedCall, Die

\* A RepositoryFailure keeps its cause: a clone that failed is never a result.
LEMMA FailureKeeps ==
  ASSUME NEW w \in Workers, ThreadsOK, pc[w] = "checkout",
         NEW step \in {"clone", "checkout", "validate"}, NEW why \in Causes,
         step = "clone" \/ why \in {"student", "fetch"},
         RepositoryFailure(w, step, why)
  PROVE  ThreadsOK'
  <1> DEFINE next == IF IsTransient(FailureCode(step)) THEN "infraFailure"
                                                       ELSE "repositoryFailed"
             a == [attempt[w] EXCEPT !.cause = why]
  <1>1. attempt[w] \in Attempt /\ Local("checkout", attempt[w])
    BY DEF ThreadsOK
  <1>2. next \in {"infraFailure", "repositoryFailed"} /\ next \in Steps
    BY DEF Steps, JobSteps
  <1>3. next = "repositoryFailed" => step # "clone"
    BY DEF IsTransient, FailureCode
  <1>4. a \in Attempt /\ a.job = attempt[w].job /\ a.lease = attempt[w].lease /\ a.cause = why
    BY <1>1, SetCause
  <1>5. Local(next, a)
    BY <1>1, <1>2, <1>3, <1>4 DEF Local, JobSteps, ReviewSteps, Graded
  <1>6. MoveWith(w, next, a)
    BY DEF RepositoryFailure
  <1> QED
    BY <1>2, <1>4, <1>5, <1>6, MoveKeeps

\* A reviewer's or an assessment's payload becomes the draft of an attempt.
LEMMA DraftedKeeps ==
  ASSUME NEW w \in Workers, ThreadsOK, pc[w] \in JobSteps \cup ReviewSteps,
         NEW step \in {"assessment", "llmInitial", "reviewAssessment", "reviewResult"},
         NEW d \in Payloads,
         step \in {"assessment", "llmInitial"} => pc[w] \in Graded /\ attempt[w].gate = "passed",
         step \in {"llmInitial", "reviewResult"} => d # "finalize",
         step = "llmInitial" /\ d = "ask" => QuestionLimit > 0,
         step = "reviewResult" /\ d = "ask" => attempt[w].answer < QuestionLimit,
         Drafted(w, step, d)
  PROVE  ThreadsOK'
  <1> DEFINE a == [attempt[w] EXCEPT !.draft = d]
  <1>1. attempt[w] \in Attempt /\ Local(pc[w], attempt[w])
    BY DEF ThreadsOK
  <1>2. /\ a \in Attempt /\ a.job = attempt[w].job /\ a.lease = attempt[w].lease
        /\ a.gate = attempt[w].gate /\ a.draft = d /\ a.cause = attempt[w].cause
        /\ a.answer = attempt[w].answer
    BY <1>1, SetDraft
  <1>3. MoveWith(w, step, a)
    BY DEF Drafted
  <1> HIDE DEF a
  <1>4. Local(step, a)
    BY <1>1, <1>2 DEF Local, JobSteps, ReviewSteps, Graded, Payloads
  <1>5. step \in Steps
    BY DEF Steps, JobSteps, ReviewSteps
  <1> QED
    BY <1>2, <1>3, <1>4, <1>5, MoveKeeps

\* An LLM that fails leaves the gate as it was.
LEMMA NoCapacityKeeps ==
  ASSUME NEW w \in Workers, ThreadsOK, pc[w] \in JobSteps \cup ReviewSteps,
         NEW step \in {"capacity", "reviewCapacity"},
         step = "capacity" => attempt[w].gate = "passed",
         NoCapacity(w, step)
  PROVE  ThreadsOK'
  <1> DEFINE a == [attempt[w] EXCEPT !.cause = "llm"]
  <1>1. attempt[w] \in Attempt /\ Local(pc[w], attempt[w])
    BY DEF ThreadsOK
  <1>2. a \in Attempt /\ a.job = attempt[w].job /\ a.lease = attempt[w].lease /\ a.gate = attempt[w].gate
    BY <1>1, SetCause DEF Causes
  <1>3. MoveWith(w, step, a)
    BY DEF NoCapacity
  <1> HIDE DEF a
  <1>4. Local(step, a)
    BY <1>1, <1>2 DEF Local, JobSteps, ReviewSteps, Graded
  <1>5. step \in Steps
    BY DEF Steps, JobSteps, ReviewSteps
  <1> QED
    BY <1>2, <1>3, <1>4, <1>5, MoveKeeps

\* run_assessment, for a job or for a review.
LEMMA AssessmentKeeps ==
  ASSUME NEW w \in Workers, ThreadsOK,
         InitialAssessment(w) \/ ReviewAssessment(w)
  PROVE  ThreadsOK'
  <1>1. Local(pc[w], attempt[w])
    BY DEF ThreadsOK
  <1>2. pc[w] \in {"assessment", "reviewAssessment"}
    BY DEF InitialAssessment, ReviewAssessment, Assessment
  <1>3. pc[w] = "assessment" => attempt[w].gate = "passed"
    BY <1>1 DEF Local
  <1>4. CASE Die(w)
    BY <1>4, LeaveKeeps DEF Die
  <1>5. CASE \/ pc[w] = "assessment" /\ Drafted(w, "llmInitial", "assessed")
             \/ pc[w] = "reviewAssessment" /\ Drafted(w, "reviewResult", "assessed")
    BY <1>3, <1>5, DraftedKeeps DEF JobSteps, ReviewSteps, Graded, Payloads
  <1>6. CASE \/ pc[w] = "assessment" /\ NoCapacity(w, "capacity")
             \/ pc[w] = "reviewAssessment" /\ NoCapacity(w, "reviewCapacity")
    BY <1>3, <1>6, NoCapacityKeeps DEF JobSteps, ReviewSteps
  <1> QED
    BY <1>4, <1>5, <1>6 DEF InitialAssessment, ReviewAssessment, Assessment

\* Every step of every worker, crashes and restarts included, keeps the locals
\* of each main thread in order.
LEMMA ThreadsNext == PlatformTypeOK /\ ThreadsOK /\ [Next]_vars => ThreadsOK'
  <1> SUFFICES ASSUME PlatformTypeOK, ThreadsOK, [Next]_vars
               PROVE  ThreadsOK'
    OBVIOUS
  <1> USE DEF Steps, JobSteps, ReviewSteps
  <1>1. ASSUME NEW w \in Workers, Boot(w)
        PROVE  ThreadsOK'
    BY <1>1, MoveKeeps DEF Boot, Move, ThreadsOK, Local, Graded, JobSteps, ReviewSteps
  <1>2. ASSUME NEW w \in Workers, PollCandidates(w)
        PROVE  ThreadsOK'
    <2>1. CASE Move(w, "pollReviews")
      BY <1>2, <2>1, MoveKeeps
         DEF PollCandidates, Move, ThreadsOK, Local, Graded, JobSteps, ReviewSteps
    <2>2. CASE \E j \in Jobs : MoveWith(w, "claim", [NoAttempt EXCEPT !.job = j])
      <3>1. PICK j \in Jobs : MoveWith(w, "claim", [NoAttempt EXCEPT !.job = j])
        BY <2>2
      <3> DEFINE a == [NoAttempt EXCEPT !.job = j]
      <3>2. a \in Attempt /\ a.job = j /\ a.lease = NoToken
        BY NewAttempt
      <3>3. Local("claim", a)
        BY <3>2 DEF Local, Graded
      <3>4. MoveWith(w, "claim", a)
        BY <3>1
      <3> HIDE DEF a
      <3> QED
        BY <3>2, <3>3, <3>4, MoveKeeps
    <2> QED
      BY <1>2, <2>1, <2>2 DEF PollCandidates
  <1>3. ASSUME NEW w \in Workers, Claim(w)
        PROVE  ThreadsOK'
    <2>1. ASSUME NEW t \in Tokens, pc' = [pc EXCEPT ![w] = "repository"],
                 attempt' = [attempt EXCEPT ![w].lease = t],
                 heartbeat' = [heartbeat EXCEPT ![w] = "alive"]
          PROVE  ThreadsOK'
      <3>1. attempt[w] \in Attempt /\ attempt[w].job \in Jobs
        BY <1>3 DEF Claim, ThreadsOK, Local
      <3>2. attempt' = [attempt EXCEPT ![w] = [attempt[w] EXCEPT !.lease = t]]
        BY <2>1
      <3> QED
        BY <2>1, <3>1, <3>2, ClaimKeeps
    <2> QED
      BY <1>3, <2>1, LeaveKeeps DEF Claim, Return, Die, FreshTokens
  <1>4. ASSUME NEW w \in Workers, PollReviews(w)
        PROVE  ThreadsOK'
    <2>1. CASE Move(w, "poll")
      BY <1>4, <2>1, MoveKeeps
         DEF PollReviews, Move, ThreadsOK, Local, Graded, JobSteps, ReviewSteps
    <2>2. CASE \E j \in Jobs : MoveWith(w, "claimReview", [NoAttempt EXCEPT !.job = j])
      <3>1. PICK j \in Jobs : MoveWith(w, "claimReview", [NoAttempt EXCEPT !.job = j])
        BY <2>2
      <3> DEFINE a == [NoAttempt EXCEPT !.job = j]
      <3>2. a \in Attempt /\ a.job = j /\ a.lease = NoToken
        BY NewAttempt
      <3>3. Local("claimReview", a)
        BY <3>2 DEF Local, Graded
      <3>4. MoveWith(w, "claimReview", a)
        BY <3>1
      <3> HIDE DEF a
      <3> QED
        BY <3>2, <3>3, <3>4, MoveKeeps
    <2> QED
      BY <1>4, <2>1, <2>2 DEF PollReviews
  <1>5. ASSUME NEW w \in Workers, ClaimReview(w)
        PROVE  ThreadsOK'
    <2>1. ASSUME NEW t \in Tokens, NEW n \in Nat,
                 MoveWith(w, "reviewCheckout",
                          [attempt[w] EXCEPT !.lease = t, !.answer = n])
          PROVE  ThreadsOK'
      <3>1. attempt[w] \in Attempt /\ attempt[w].job \in Jobs
        BY <1>5 DEF ClaimReview, ThreadsOK, Local
      <3> DEFINE a == [attempt[w] EXCEPT !.lease = t, !.answer = n]
      <3>2. a \in Attempt /\ a.job \in Jobs /\ a.lease \in Tokens
        BY <3>1 DEF Attempt
      <3>3. Local("reviewCheckout", a)
        BY <3>2 DEF Local, Graded
      <3>4. MoveWith(w, "reviewCheckout", a)
        BY <2>1
      <3> HIDE DEF a
      <3> QED
        BY <3>2, <3>3, <3>4, MoveKeeps
    <2>2. round[attempt[w].job] \in Nat
      BY <1>5 DEF ClaimReview, ThreadsOK, PlatformTypeOK, Local
    <2> QED
      BY <1>5, <2>1, <2>2, LeaveKeeps
         DEF ClaimReview, Return, Die, FreshTokens
  <1>6. ASSUME NEW w \in Workers, ReportRepository(w)
        PROVE  ThreadsOK'
    BY <1>6, ProgressKeeps
       DEF ReportRepository, ThreadsOK, Local, Graded, JobSteps, ReviewSteps
  <1>7. ASSUME NEW w \in Workers, Checkout(w)
        PROVE  ThreadsOK'
    <2>1. CASE Move(w, "contracts")
      BY <1>7, <2>1, MoveKeeps
         DEF Move, Checkout, ThreadsOK, Local, Graded, JobSteps, ReviewSteps
    <2> QED
      BY <1>7, <2>1, FailureKeeps, LeaveKeeps DEF Checkout, Causes, Die
  <1>8. ASSUME NEW w \in Workers, ReportRepositoryFailed(w)
        PROVE  ThreadsOK'
    BY <1>8, LeaveKeeps DEF ReportRepositoryFailed, Report, LeasedCall, Return, Die
  <1>9. ASSUME NEW w \in Workers, ReportContracts(w) \/ ReportTests(w)
         PROVE  ThreadsOK'
    BY <1>9, ProgressKeeps
       DEF ReportContracts, ReportTests, ThreadsOK, Local, Graded, JobSteps, ReviewSteps
  <1>10. ASSUME NEW w \in Workers, Sandbox(w)
         PROVE  ThreadsOK'
    <2>1. attempt[w] \in Attempt /\ attempt[w].job \in Jobs /\ attempt[w].lease \in Tokens
      BY <1>10 DEF Sandbox, ThreadsOK, Local, JobSteps
    <2>2. ASSUME NEW next \in {"securityEvents", "initialReview"}, NEW g \in Verdicts,
                 NEW c \in {"none", "student", "killed", "harness"},
                 MoveWith(w, next, [attempt[w] EXCEPT !.gate = g, !.cause = c])
          PROVE  ThreadsOK'
      <3> DEFINE a == [attempt[w] EXCEPT !.gate = g, !.cause = c]
      <3>1. /\ a \in Attempt /\ a.job \in Jobs /\ a.lease \in Tokens
            /\ a.gate \in Verdicts /\ a.cause \in {"none", "student", "killed", "harness"}
        BY <2>1 DEF Attempt, Causes
      <3>2. Local(next, a)
        BY <3>1 DEF Local, Graded
      <3>3. MoveWith(w, next, a)
        BY <2>2
      <3> HIDE DEF a
      <3> QED
        BY <3>1, <3>2, <3>3, MoveKeeps
    <2>3. CASE MoveWith(w, "infraFailure", [attempt[w] EXCEPT !.cause = "sandbox"])
      <3> DEFINE a == [attempt[w] EXCEPT !.cause = "sandbox"]
      <3>1. a \in Attempt /\ a.job \in Jobs /\ a.lease \in Tokens
        BY <2>1 DEF Attempt, Causes
      <3>2. Local("infraFailure", a)
        BY <3>1 DEF Local, Graded
      <3>3. MoveWith(w, "infraFailure", a)
        BY <2>3
      <3> HIDE DEF a
      <3> QED
        BY <3>1, <3>2, <3>3, MoveKeeps
    <2> QED
      BY <1>10, <2>2, <2>3 DEF Sandbox, Verdicts
  <1>11. ASSUME NEW w \in Workers, SendSecurityEvents(w)
         PROVE  ThreadsOK'
    BY <1>11, ProgressKeeps
       DEF SendSecurityEvents, ThreadsOK, Local, Graded, JobSteps, ReviewSteps
  <1>12. ASSUME NEW w \in Workers, InitialReview(w)
         PROVE  ThreadsOK'
    <2>1. pc[w] = "initialReview" /\ Local(pc[w], attempt[w])
      BY <1>12 DEF InitialReview, ThreadsOK
    <2>2. CASE Move(w, "leaseCheck")
      BY <2>1, <2>2, MoveKeeps DEF Move, ThreadsOK, Local, Graded
    <2>3. CASE attempt[w].gate = "passed" /\ Drafted(w, "assessment", "finalize")
      BY <2>1, <2>3, DraftedKeeps DEF Graded, Payloads
    <2>4. CASE attempt[w].gate = "passed" /\ 0 < QuestionLimit /\ Drafted(w, "llmInitial", "ask")
      BY <2>1, <2>4, DraftedKeeps DEF Graded, Payloads
    <2>5. CASE attempt[w].gate = "passed" /\ NoCapacity(w, "capacity")
      BY <2>1, <2>5, NoCapacityKeeps
    <2> QED
      BY <1>12, <2>2, <2>3, <2>4, <2>5, LeaveKeeps DEF InitialReview, ReviewerMoves, Die
  <1>13. ASSUME NEW w \in Workers, InitialAssessment(w) \/ ReviewAssessment(w)
         PROVE  ThreadsOK'
    BY <1>13, AssessmentKeeps
  <1>14. ASSUME NEW w \in Workers, SendInitial(w)
         PROVE  ThreadsOK'
    <2>1. CASE Move(w, "leaseCheck")
      BY <1>14, <2>1, MoveKeeps DEF SendInitial, Move, ThreadsOK, Local, Graded
    <2> QED
      BY <1>14, <2>1, LeaveKeeps DEF SendInitial, LeasedCall, Die
  <1>15. ASSUME NEW w \in Workers, CheckLease(w)
         PROVE  ThreadsOK'
    <2>1. CASE Move(w, "saving")
      BY <1>15, <2>1, MoveKeeps DEF CheckLease, Move, ThreadsOK, Local, Graded
    <2> QED
      BY <1>15, <2>1, LeaveKeeps DEF CheckLease, Return
  <1>16. ASSUME NEW w \in Workers, ReportSaving(w)
         PROVE  ThreadsOK'
    BY <1>16, ProgressKeeps DEF ReportSaving, ThreadsOK, Local, Graded
  <1>17. ASSUME NEW w \in Workers,
                SendResult(w) \/ SendInfraFailure(w) \/ SendReviewResult(w)
         PROVE  ThreadsOK'
    BY <1>17, LeaveKeeps DEF SendResult, Report, SendInfraFailure, SendReviewResult,
         LeasedCall, Return, Die
  <1>18. ASSUME NEW w \in Workers, NoCapacityForJob(w)
         PROVE  ThreadsOK'
    BY <1>18, MoveKeeps
       DEF NoCapacityForJob, DeclareNoCapacity, Move, ThreadsOK, Local, Graded
  <1>19. ASSUME NEW w \in Workers, NoCapacityForReview(w) \/ Crash(w)
         PROVE  ThreadsOK'
    BY <1>19, LeaveKeeps DEF NoCapacityForReview, DeclareNoCapacity, Crash, Return, Die
  <1>20. ASSUME NEW w \in Workers, ReviewCheckout(w)
         PROVE  ThreadsOK'
    <2>1. CASE Move(w, "followup")
      BY <1>20, <2>1, MoveKeeps DEF ReviewCheckout, Move, ThreadsOK, Local, Graded
    <2> QED
      BY <1>20, <2>1, LeaveKeeps DEF ReviewCheckout, Return, Die
  <1>21. ASSUME NEW w \in Workers, Followup(w)
         PROVE  ThreadsOK'
    <2>1. pc[w] = "followup"
      BY <1>21 DEF Followup
    <2>2. CASE Drafted(w, "reviewAssessment", "finalize")
      BY <2>1, <2>2, DraftedKeeps DEF Payloads
    <2>3. CASE attempt[w].answer < QuestionLimit /\ Drafted(w, "reviewResult", "ask")
      BY <2>1, <2>3, DraftedKeeps DEF Payloads
    <2>4. CASE NoCapacity(w, "reviewCapacity")
      BY <2>1, <2>4, NoCapacityKeeps
    <2> QED
      BY <1>21, <2>2, <2>3, <2>4, LeaveKeeps DEF Followup, ReviewerMoves, Die
  <1>22. ASSUME NEW w \in Workers, HeartbeatRefused(w) \/ HeartbeatDies(w)
         PROVE  ThreadsOK'
    BY <1>22 DEF HeartbeatRefused, HeartbeatDies, ThreadsOK, HeartbeatStates
  <1>23. ASSUME NEW w \in Workers, Restart(w)
         PROVE  ThreadsOK'
    BY <1>23, MoveKeeps DEF Restart, Move, ThreadsOK, Local, Graded
  <1>24. ASSUME UNCHANGED workerVars
         PROVE  ThreadsOK'
    BY <1>24 DEF workerVars, ThreadsOK
  <1> QED
    <2>1. ASSUME NEW w \in Workers, MainThread(w)
          PROVE  ThreadsOK'
      BY <2>1, <1>1, <1>2, <1>3, <1>4, <1>5, <1>6, <1>7, <1>8, <1>9, <1>10,
         <1>11, <1>12, <1>13, <1>14, <1>15, <1>16, <1>17, <1>18, <1>19, <1>20, <1>21
         DEF MainThread, RunStep, ProcessStep, ReviewStep
    <2> QED
      BY <2>1, <1>19, <1>22, <1>23, <1>24
         DEF Next, vars, ExpireLease, ExpireReviewLease, OutlastReviewLease, Answer

(***************************************************************************)
(* What one step does to one thread, whoever takes it.                     *)
(***************************************************************************)
Late == {"leaseCheck", "saving", "result"}

Continues(w) ==
  /\ attempt'[w].job = attempt[w].job
  /\ attempt'[w].lease = attempt[w].lease
  /\ attempt'[w].answer = attempt[w].answer

Starts(w) ==
  /\ pc[w] = "claim" /\ pc'[w] = "repository"
  /\ heartbeat'[w] = "alive"
  /\ \E t \in FreshTokens :
       /\ GrantLease(attempt[w].job, t)
       /\ attempt'[w] = [attempt[w] EXCEPT !.lease = t]
  /\ \A v \in Workers \ {w} : attempt'[v] = attempt[v]

StartsReview(w) ==
  /\ pc[w] = "claimReview" /\ pc'[w] = "reviewCheckout"
  /\ \E t \in FreshTokens :
       /\ GrantReviewLease(attempt[w].job, t)
       /\ attempt'[w] = [attempt[w] EXCEPT !.lease = t,
                                           !.answer = round[attempt[w].job]]
  /\ \A v \in Workers \ {w} : attempt'[v] = attempt[v]

\* On the way to a result: a passed gate gets there only through llm-initial.
Grades(w) ==
  /\ pc[w] \in JobSteps /\ pc'[w] \in JobSteps
  /\ Continues(w)
  /\ heartbeat'[w] = heartbeat[w]
  /\ pc'[w] \in Late /\ attempt'[w].gate = "passed" =>
       /\ attempt[w].gate = "passed"
       /\ \/ pc[w] \in Late
          \/ pc[w] = "llmInitial" /\ StoreInitial(attempt[w].job, attempt[w].draft)

Trace(w) ==
  \/ /\ pc'[w] = pc[w] /\ attempt'[w] = attempt[w]
     /\ heartbeat'[w] = heartbeat[w] \/ faults' = faults + 1
  \/ pc'[w] \in Steps \ (JobSteps \cup ReviewSteps)
  \/ Starts(w)
  \/ StartsReview(w)
  \/ Grades(w)
  \/ pc[w] \in ReviewSteps /\ pc'[w] \in ReviewSteps /\ Continues(w)

\* Every step of the specification does one of these to every thread.
LEMMA ThreadTrace ==
  ASSUME ThreadsOK, [Next]_vars, NEW w \in Workers
  PROVE  Trace(w)
  <1> USE DEF Trace, Steps
  <1> USE DEF MoveWith, Leave, Die, ThreadsOK, Grades, Continues, Late, JobSteps, ReviewSteps, Attempt
  <1>1. ASSUME NEW v \in Workers, Boot(v)
        PROVE  Trace(w)
    BY <1>1 DEF Boot, Move
  <1>2. ASSUME NEW v \in Workers, PollCandidates(v)
        PROVE  Trace(w)
    BY <1>2 DEF PollCandidates, Move
  <1>3. ASSUME NEW v \in Workers, Claim(v)
        PROVE  Trace(w)
    <2>1. CASE Leave(v, "down") \/ Leave(v, "poll")
      BY <1>3, <2>1 DEF Claim
    <2>2. CASE \E t \in FreshTokens :
                 /\ GrantLease(attempt[v].job, t)
                 /\ pc' = [pc EXCEPT ![v] = "repository"]
                 /\ attempt' = [attempt EXCEPT ![v].lease = t]
                 /\ heartbeat' = [heartbeat EXCEPT ![v] = "alive"]
      BY <1>3, <2>2 DEF Claim, Starts
    <2> QED
      BY <1>3, <2>1, <2>2 DEF Claim, Return
  <1>4. ASSUME NEW v \in Workers, PollReviews(v)
        PROVE  Trace(w)
    BY <1>4 DEF PollReviews, Move
  <1>5. ASSUME NEW v \in Workers, ClaimReview(v)
        PROVE  Trace(w)
    <2>1. CASE \E t \in FreshTokens :
                 /\ GrantReviewLease(attempt[v].job, t)
                 /\ MoveWith(v, "reviewCheckout",
                      [attempt[v] EXCEPT !.lease = t, !.answer = round[attempt[v].job]])
      <3>1. CASE v = w
        <4>1. PICK t \in FreshTokens :
                 /\ GrantReviewLease(attempt[w].job, t)
                 /\ attempt' = [attempt EXCEPT ![w] =
                      [attempt[w] EXCEPT !.lease = t, !.answer = round[attempt[w].job]]]
                 /\ pc' = [pc EXCEPT ![w] = "reviewCheckout"]
          BY <2>1, <3>1
        <4>2. attempt'[w] = [attempt[w] EXCEPT !.lease = t, !.answer = round[attempt[w].job]]
          BY <4>1
        <4>3. pc[w] = "claimReview" /\ pc'[w] = "reviewCheckout"
          BY <1>5, <3>1, <4>1 DEF ClaimReview
        <4> QED
          BY <4>1, <4>2, <4>3 DEF StartsReview
      <3> QED
        BY <1>5, <2>1, <3>1 DEF ClaimReview
    <2>2. CASE Leave(v, "down") \/ Leave(v, "poll")
      BY <2>2
    <2> HIDE DEF MoveWith, Leave
    <2> QED
      BY <1>5, <2>1, <2>2 DEF ClaimReview, Return
  <1>6. ASSUME NEW v \in Workers, ReportRepository(v)
        PROVE  Trace(w)
    BY <1>6 DEF ReportRepository, Progress, LeasedCall, Move
  <1>7. ASSUME NEW v \in Workers, Checkout(v)
        PROVE  Trace(w)
    BY <1>7 DEF Checkout, RepositoryFailure, Move
  <1>8. ASSUME NEW v \in Workers, ReportRepositoryFailed(v)
        PROVE  Trace(w)
    BY <1>8 DEF ReportRepositoryFailed, Report, LeasedCall, Return
  <1>9. ASSUME NEW v \in Workers, ReportContracts(v)
         PROVE  Trace(w)
    BY <1>9 DEF ReportContracts, Progress, LeasedCall, Move
  <1>10. ASSUME NEW v \in Workers, ReportTests(v)
         PROVE  Trace(w)
    BY <1>10 DEF ReportTests, Progress, LeasedCall, Move
  <1>11. ASSUME NEW v \in Workers, Sandbox(v)
         PROVE  Trace(w)
    <2>1. CASE v = w
      <3>1. /\ pc[w] = "sandbox" /\ pc'[w] \in {"securityEvents", "initialReview", "infraFailure"}
            /\ heartbeat' = heartbeat
        BY <1>11, <2>1 DEF Sandbox
      <3>2. attempt[w] \in Attempt
        OBVIOUS
      <3>3. Continues(w)
        <4>1. CASE \E g \in Verdicts, c \in Causes \cup {"none"} :
                     attempt'[w] = [attempt[w] EXCEPT !.gate = g, !.cause = c]
          BY <3>2, <4>1
        <4>2. CASE attempt'[w] = [attempt[w] EXCEPT !.cause = "sandbox"]
          BY <3>2, <4>2
        <4> QED
          BY <1>11, <2>1, <4>1, <4>2 DEF Sandbox, Verdicts, Causes
      <3> QED
        BY <3>1, <3>3 DEF Grades, Late
    <2> QED
      BY <1>11, <2>1 DEF Sandbox
  <1>12. ASSUME NEW v \in Workers, SendSecurityEvents(v)
         PROVE  Trace(w)
    BY <1>12 DEF SendSecurityEvents, Progress, LeasedCall, Move
  <1>13. ASSUME NEW v \in Workers, InitialReview(v)
         PROVE  Trace(w)
    BY <1>13 DEF InitialReview, Drafted, NoCapacity, Move
  <1>14. ASSUME NEW v \in Workers, InitialAssessment(v)
         PROVE  Trace(w)
    BY <1>14 DEF InitialAssessment, Assessment, Drafted, NoCapacity
  <1>15. ASSUME NEW v \in Workers, SendInitial(v)
         PROVE  Trace(w)
    BY <1>15 DEF SendInitial, LeasedCall, Move
  <1>16. ASSUME NEW v \in Workers, CheckLease(v)
         PROVE  Trace(w)
    BY <1>16 DEF CheckLease, Move, Return
  <1>17. ASSUME NEW v \in Workers, ReportSaving(v)
         PROVE  Trace(w)
    BY <1>17 DEF ReportSaving, Progress, LeasedCall, Move
  <1>18. ASSUME NEW v \in Workers, SendResult(v)
         PROVE  Trace(w)
    BY <1>18 DEF SendResult, Report, LeasedCall, Return
  <1>19. ASSUME NEW v \in Workers, NoCapacityForJob(v)
         PROVE  Trace(w)
    BY <1>19 DEF NoCapacityForJob, DeclareNoCapacity, Move
  <1>20. ASSUME NEW v \in Workers, SendInfraFailure(v)
         PROVE  Trace(w)
    BY <1>20 DEF SendInfraFailure, LeasedCall, Return
  <1>21. ASSUME NEW v \in Workers, ReviewCheckout(v)
         PROVE  Trace(w)
    BY <1>21 DEF ReviewCheckout, Move, Return
  <1>22. ASSUME NEW v \in Workers, Followup(v)
         PROVE  Trace(w)
    BY <1>22 DEF Followup, Drafted, NoCapacity
  <1>23. ASSUME NEW v \in Workers, ReviewAssessment(v)
         PROVE  Trace(w)
    BY <1>23 DEF ReviewAssessment, Assessment, Drafted, NoCapacity
  <1>24. ASSUME NEW v \in Workers, SendReviewResult(v)
         PROVE  Trace(w)
    BY <1>24 DEF SendReviewResult, LeasedCall, Return
  <1>25. ASSUME NEW v \in Workers, NoCapacityForReview(v)
         PROVE  Trace(w)
    BY <1>25 DEF NoCapacityForReview, DeclareNoCapacity, Return
  <1>26. ASSUME NEW v \in Workers, HeartbeatRefused(v)
         PROVE  Trace(w)
    BY <1>26 DEF HeartbeatRefused, Fault
  <1>27. ASSUME NEW v \in Workers, HeartbeatDies(v)
         PROVE  Trace(w)
    BY <1>27 DEF HeartbeatDies, Fault
  <1>28. ASSUME NEW v \in Workers, Crash(v)
         PROVE  Trace(w)
    BY <1>28 DEF Crash
  <1>29. ASSUME NEW v \in Workers, Restart(v)
         PROVE  Trace(w)
    BY <1>29 DEF Restart, Move
  <1>30. ASSUME UNCHANGED workerVars
         PROVE  Trace(w)
    BY <1>30 DEF workerVars
  <1> HIDE DEF MoveWith, Leave, Die, ThreadsOK, Trace, Grades
  <1> QED
    <2>1. ASSUME NEW v \in Workers, MainThread(v)
          PROVE  Trace(w)
      BY <2>1, <1>1, <1>2, <1>3, <1>4, <1>5, <1>6, <1>7, <1>8, <1>9, <1>10,
         <1>11, <1>12, <1>13, <1>14, <1>15, <1>16, <1>17, <1>18, <1>19, <1>20, <1>21,
         <1>22, <1>23, <1>24, <1>25
         DEF MainThread, RunStep, ProcessStep, ReviewStep
    <2> QED
      BY <2>1, <1>26, <1>27, <1>28, <1>29, <1>30
         DEF Next, vars, workerVars, ExpireLease, ExpireReviewLease, OutlastReviewLease, Answer

\* At the start no thread works on anything.
LEMMA ThreadsInit == Init => ThreadsOK
  <1>1. NoAttempt \in Attempt
    BY DEF NoAttempt, Attempt, Verdicts, Payloads, Causes
  <1>2. Local("boot", NoAttempt)
    BY DEF Local, NoAttempt, Graded, JobSteps, ReviewSteps
  <1> QED
    BY <1>1, <1>2 DEF Init, ThreadsOK, Steps, HeartbeatStates

(***************************************************************************)
(* What one step does to the platform.                                     *)
(***************************************************************************)
Stores(w) ==
  \/ /\ pc[w] = "llmInitial" /\ HoldsJob(w)
     /\ StoreInitial(attempt[w].job, attempt[w].draft)
     /\ UNCHANGED blame
  \/ /\ HoldsJob(w)
     /\ \E v \in Verdicts :
          /\ \/ pc[w] = "repositoryFailed" /\ v = "failed"
             \/ pc[w] = "result" /\ v = attempt[w].gate
          /\ StoreResult(attempt[w].job, v)
     /\ blame' = [blame EXCEPT ![attempt[w].job] = attempt[w].cause]
     /\ pc'[w] \notin JobSteps
  \/ /\ pc[w] = "reviewResult" /\ HoldsReview(w)
     /\ StoreReview(attempt[w].job, attempt[w].draft)
     /\ UNCHANGED blame

Requeues(j) ==
  /\ Requeue(j)
  /\ \/ \E w \in Workers : /\ pc[w] = "infraFailure" /\ pc'[w] \notin JobSteps
                           /\ attempt[w].job = j /\ HoldsJob(w)
     \/ /\ lease[j] # NoToken
        /\ \A w \in Workers : heartbeat[w] = "alive" => attempt[w].lease # lease[j]

Effect ==
  \/ UNCHANGED <<platformVars, blame>>
  \/ \E w \in Workers : Stores(w)
  \/ /\ UNCHANGED blame
     /\ \E j \in Jobs :
          \/ \E t \in FreshTokens : GrantLease(j, t) \/ GrantReviewLease(j, t)
          \/ Requeues(j) \/ RequeueReview(j) \/ StudentAnswers(j)

\* Every step changes the platform in one of these ways, or not at all.
LEMMA PlatformEffect ==
  ASSUME ThreadsOK, [Next]_vars
  PROVE  Effect
  <1> USE DEF Effect
  <1>1. ASSUME NEW v \in Workers,
               \/ Boot(v) \/ PollCandidates(v) \/ PollReviews(v)
               \/ Checkout(v) \/ Sandbox(v) \/ InitialReview(v) \/ CheckLease(v)
               \/ ReviewCheckout(v) \/ Followup(v)
        PROVE  Effect
    BY <1>1 DEF Boot, PollCandidates, PollReviews, Checkout, Sandbox,
         InitialReview, CheckLease, ReviewCheckout, Followup
  <1>2. ASSUME NEW v \in Workers,
               \/ InitialAssessment(v) \/ ReviewAssessment(v)
               \/ NoCapacityForJob(v) \/ NoCapacityForReview(v)
               \/ HeartbeatRefused(v) \/ HeartbeatDies(v) \/ Crash(v) \/ Restart(v)
        PROVE  Effect
    BY <1>2 DEF InitialAssessment, ReviewAssessment, Assessment, NoCapacityForJob,
         NoCapacityForReview, DeclareNoCapacity, HeartbeatRefused, HeartbeatDies,
         Crash, Restart
  <1>3. ASSUME NEW v \in Workers, NEW step, Progress(v, step)
        PROVE  Effect
    BY <1>3 DEF Progress, LeasedCall
  <1>4. ASSUME NEW v \in Workers,
               \/ ReportRepository(v) \/ ReportContracts(v) \/ ReportTests(v)
               \/ SendSecurityEvents(v) \/ ReportSaving(v)
        PROVE  Effect
    BY <1>3, <1>4 DEF ReportRepository, ReportContracts, ReportTests,
         SendSecurityEvents, ReportSaving
  <1>5. ASSUME NEW v \in Workers, Claim(v)
        PROVE  Effect
    BY <1>5 DEF Claim, ThreadsOK, Local
  <1>6. ASSUME NEW v \in Workers, ClaimReview(v)
        PROVE  Effect
    BY <1>6 DEF ClaimReview, ThreadsOK, Local
  <1>7. ASSUME NEW v \in Workers, NEW g \in Verdicts, Report(v, g),
               \/ pc[v] = "repositoryFailed" /\ g = "failed"
               \/ pc[v] = "result" /\ g = attempt[v].gate
        PROVE  Effect
    <2>1. Return(v) \/ Die(v) => pc'[v] \notin JobSteps
      BY DEF Return, Die, Leave, JobSteps, ThreadsOK
    <2> QED
      BY <1>7, <2>1 DEF Report, LeasedCall, Stores
  <1>8. ASSUME NEW v \in Workers, ReportRepositoryFailed(v) \/ SendResult(v)
        PROVE  Effect
    <2>1. pc[v] = "result" => attempt[v].gate \in Verdicts
      BY DEF ThreadsOK, Local, Graded
    <2> QED
      BY <1>7, <1>8, <2>1 DEF ReportRepositoryFailed, SendResult, Verdicts
  <1>9. ASSUME NEW v \in Workers, SendInitial(v) \/ SendReviewResult(v)
        PROVE  Effect
    BY <1>9 DEF SendInitial, SendReviewResult, LeasedCall, Stores
  <1>10. ASSUME NEW v \in Workers, SendInfraFailure(v)
         PROVE  Effect
    <2>1. Return(v) \/ Die(v) => pc'[v] \notin JobSteps
      BY DEF Return, Die, Leave, JobSteps, ThreadsOK
    <2>2. attempt[v].job \in Jobs
      BY <1>10 DEF SendInfraFailure, ThreadsOK, Local, JobSteps
    <2> QED
      BY <1>10, <2>1, <2>2 DEF SendInfraFailure, LeasedCall, Requeues
  <1>11. ASSUME NEW j \in Jobs,
                \/ ExpireLease(j) \/ ExpireReviewLease(j)
                \/ OutlastReviewLease(j) \/ Answer(j)
         PROVE  Effect
    BY <1>11 DEF ExpireLease, ExpireReviewLease, OutlastReviewLease, Answer, Requeues
  <1>12. CASE UNCHANGED vars
    BY <1>12 DEF vars
  <1> HIDE DEF Effect
  <1> QED
    BY <1>1, <1>2, <1>4, <1>5, <1>6, <1>8, <1>9, <1>10, <1>11, <1>12
       DEF Next, MainThread, RunStep, ProcessStep, ReviewStep
=============================================================================
