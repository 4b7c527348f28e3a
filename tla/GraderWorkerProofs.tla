------------------------- MODULE GraderWorkerProofs -------------------------
(***************************************************************************)
(* What GraderWorker guarantees for every number of workers, jobs, tokens, *)
(* rounds and faults.  The inductive invariant is built in layers: the     *)
(* locals of each main thread (ThreadsOK, proved in GraderWorkerSteps),    *)
(* the platform's records (Ledger), what a thread may rely on about the    *)
(* records (Grounded), and which thread holds which token (Tokened).       *)
(***************************************************************************)
EXTENDS GraderWorkerSteps

USE NoTokenAssumption, QuestionLimitType, NoJobAssumption,
    InstalledAssumption, EquippedAssumption, MaxFaultsAssumption

\* The number of faults only grows, and stays within its bound.
LEMMA FaultsGrow ==
  ASSUME faults \in 0 .. MaxFaults, ready \in [Workers -> Readiness], [Next]_vars
  PROVE  /\ faults' \in 0 .. MaxFaults /\ faults' >= faults
         /\ ready' \in [Workers -> Readiness]
  <1> DEFINE Quiet == UNCHANGED faults \/ Fault
             Told == UNCHANGED ready \/ \E w \in Workers, r \in Readiness :
                                           ready' = [ready EXCEPT ![w] = r]
  <1>0. Unready \in Readiness /\ \A b \in BOOLEAN : [ready |-> TRUE, llm |-> b] \in Readiness
    BY DEF Unready, Readiness
  <1>1. ASSUME NEW w \in Workers, NEW h, NEW E, NEW A, LeasedCall(w, h, E, A)
        PROVE  Quiet /\ Told
    BY <1>1 DEF LeasedCall
  <1>2. ASSUME NEW w \in Workers, RunStep(w)
        PROVE  Quiet /\ Told
    <2>1. CASE Boot(w)
      <3>1. (w \in Equipped) \in BOOLEAN
        OBVIOUS
      <3>2. [ready |-> TRUE, llm |-> w \in Equipped] \in Readiness
        BY <1>0, <3>1
      <3> QED
        BY <2>1, <3>2 DEF Boot
    <2> QED
      BY <1>2, <2>1 DEF RunStep, PollCandidates, Claim, PollReviews, ClaimReview
  <1>3. ASSUME NEW w \in Workers, ProcessStep(w)
        PROVE  Quiet /\ Told
    BY <1>0, <1>1, <1>3 DEF ProcessStep, ReportRepository, Checkout, ReportRepositoryFailed,
         ReportContracts, ReportTests, Sandbox, SendSecurityEvents, InitialReview,
         InitialAssessment, SendInitial, CheckLease, ReportSaving, SendResult,
         NoCapacityForJob, SendInfraFailure, Progress, Report, Assessment, NoCapacity,
         DeclareNoCapacity, LeasedCall
  <1>4. ASSUME NEW w \in Workers, ReviewStep(w)
        PROVE  Quiet /\ Told
    BY <1>0, <1>4 DEF ReviewStep, ReviewCheckout, Followup, ReviewAssessment, SendReviewResult,
         NoCapacityForReview, Assessment, NoCapacity, DeclareNoCapacity, LeasedCall
  <1>5. Quiet /\ Told
    BY <1>2, <1>3, <1>4 DEF Next, MainThread, HeartbeatRefused, HeartbeatDies, Crash,
         Restart, ExpireLease, ExpireReviewLease, OutlastReviewLease, Answer, vars
  <1> QED
    BY <1>5 DEF Fault

(***************************************************************************)
(* The type invariant.                                                     *)
(***************************************************************************)
Typed ==
  /\ PlatformTypeOK
  /\ ThreadsOK
  /\ ready \in [Workers -> Readiness]
  /\ faults \in 0 .. MaxFaults
  /\ blame \in [Jobs -> Causes \cup {"none"}]

\* What a worker stores was typed before it was sent.
LEMMA StoresTyped ==
  ASSUME Typed, NEW w \in Workers, Stores(w)
  PROVE  PlatformTypeOK' /\ blame' \in [Jobs -> Causes \cup {"none"}]
  <1>1. attempt[w] \in Attempt /\ Local(pc[w], attempt[w])
    BY DEF Typed, ThreadsOK
  <1>2. pc[w] \in JobSteps \cup ReviewSteps
    BY DEF Stores, JobSteps, ReviewSteps
  <1>3. attempt[w].job \in Jobs /\ attempt[w].cause \in Causes \cup {"none"}
    BY <1>1, <1>2 DEF Local, Attempt
  <1>4. pc[w] \in {"llmInitial", "reviewResult"} => attempt[w].draft \in Payloads
    BY <1>1 DEF Local, Payloads
  <1> QED
    BY <1>3, <1>4 DEF Typed, Stores, StoreInitial, StoreResult, StoreReview,
         PlatformTypeOK, SessionStates, Payloads

\* Every step keeps every variable in its type.
LEMMA TypedNext == Typed /\ [Next]_vars => Typed'
  <1> SUFFICES ASSUME Typed, [Next]_vars
               PROVE  Typed'
    OBVIOUS
  <1>1. ThreadsOK' /\ Effect
    BY ThreadsNext, PlatformEffect DEF Typed
  <1>2. faults' \in 0 .. MaxFaults /\ ready' \in [Workers -> Readiness]
    BY FaultsGrow DEF Typed
  <1>3. PlatformTypeOK' /\ blame' \in [Jobs -> Causes \cup {"none"}]
    <2>1. CASE UNCHANGED <<platformVars, blame>>
      BY <2>1 DEF Typed, PlatformTypeOK, platformVars
    <2>2. CASE \E w \in Workers : Stores(w)
      BY <2>2, StoresTyped
    <2>3. ASSUME NEW j \in Jobs, UNCHANGED blame,
                 \/ \E t \in FreshTokens : GrantLease(j, t) \/ GrantReviewLease(j, t)
                 \/ Requeues(j) \/ RequeueReview(j) \/ StudentAnswers(j)
          PROVE  PlatformTypeOK' /\ blame' \in [Jobs -> Causes \cup {"none"}]
      BY <2>3 DEF Typed, PlatformTypeOK, FreshTokens, GrantLease, GrantReviewLease,
           Requeues, Requeue, RequeueReview, StudentAnswers, SessionStates
    <2> QED
      BY <1>1, <2>1, <2>2, <2>3 DEF Effect
  <1> QED
    BY <1>1, <1>2, <1>3 DEF Typed

\* It starts that way.
LEMMA TypedInit == Init => Typed
  <1> SUFFICES ASSUME Init
               PROVE  Typed
    OBVIOUS
  <1>1. PlatformTypeOK
    BY DEF Init, PlatformInit, PlatformTypeOK, SessionStates
  <1> QED
    BY <1>1, ThreadsInit DEF Init, Typed, Unready, Readiness

\* Every value a worker or the platform ever keeps has its type: whatever
\* fails, no attempt reports an undecided gate or a payload it does not have.
THEOREM TypeCorrect == Spec => []TypeOK
  <1>1. Typed => TypeOK
    BY DEF Typed, TypeOK, ThreadsOK
  <1> QED
    BY <1>1, TypedInit, TypedNext, PTL DEF Spec

(***************************************************************************)
(* The platform's records and what an attempt may rely on.                 *)
(***************************************************************************)
Ledger ==
  \A j \in Jobs :
    /\ stored[j] # "finalize"
    /\ stored[j] = "ask" => QuestionLimit > 0
    /\ verdict[j] # "none" => lease[j] = NoToken
    /\ session[j] = "none" <=> verdict[j] # "passed"
    /\ reviewLease[j] # NoToken => session[j] = "open"
    /\ session[j] = "closed" => stored[j] = "assessed"
    /\ round[j] <= QuestionLimit
    /\ blame[j] \in {"none", "student", "fetch", "killed", "harness"}

\* A passed attempt that gets to its result has stored its payload; a review
\* runs on a passed job only; and while its lease is honoured, the round it
\* was claimed for is the current one.
Grounded ==
  \A w \in Workers :
    LET j == attempt[w].job IN
    /\ pc[w] \in Late /\ attempt[w].gate = "passed" => stored[j] # "none"
    /\ pc[w] \in ReviewSteps =>
         /\ verdict[j] = "passed"
         /\ HoldsReview(w) => attempt[w].answer = round[j]

Sound == Typed /\ Ledger /\ Grounded

\* A report of a worker keeps the records in order.
LEMMA StoresKeepsLedger ==
  ASSUME Sound, NEW w \in Workers, Stores(w)
  PROVE  Ledger'
  <1> DEFINE j == attempt[w].job
  <1>1. attempt[w] \in Attempt /\ Local(pc[w], attempt[w])
    BY DEF Sound, Typed, ThreadsOK
  <1>2. j \in Jobs /\ attempt[w].lease \in Tokens
    BY <1>1 DEF Stores, Local, JobSteps, ReviewSteps
  <1>3. CASE /\ pc[w] = "llmInitial" /\ HoldsJob(w)
             /\ StoreInitial(j, attempt[w].draft) /\ UNCHANGED blame
    <2>1. attempt[w].draft \in {"ask", "assessed"} /\ (attempt[w].draft = "ask" => QuestionLimit > 0)
      BY <1>1, <1>3 DEF Local
    <2>2. session[j] # "closed"
      BY <1>2, <1>3 DEF Sound, Ledger, HoldsJob
    <2> QED
      BY <1>2, <1>3, <2>1, <2>2 DEF Sound, Typed, PlatformTypeOK, Ledger, StoreInitial
  <1>4. ASSUME NEW v \in Verdicts, HoldsJob(w), StoreResult(j, v),
               \/ pc[w] = "repositoryFailed" /\ v = "failed"
               \/ pc[w] = "result" /\ v = attempt[w].gate,
               blame' = [blame EXCEPT ![j] = attempt[w].cause]
        PROVE  Ledger'
    <2>1. attempt[w].cause \in {"none", "student", "fetch", "killed", "harness"}
      BY <1>1, <1>4 DEF Local, Graded
    <2>2. verdict[j] = "none" /\ session[j] = "none" /\ reviewLease[j] = NoToken
      BY <1>2, <1>4 DEF Sound, Ledger, HoldsJob
    <2>3. v = "passed" => stored[j] \in {"ask", "assessed"}
      BY <1>2, <1>4 DEF Sound, Grounded, Ledger, Late, Typed, PlatformTypeOK, Payloads
    <2>4. v = "passed" /\ stored[j] = "ask" => QuestionLimit > 0
      BY <1>2 DEF Sound, Ledger
    <2>5. /\ verdict' = [verdict EXCEPT ![j] = v]
          /\ lease' = [lease EXCEPT ![j] = NoToken]
          /\ UNCHANGED <<stored, reviewLease>>
      BY <1>4 DEF StoreResult
    <2>6. /\ session'[j] = "none" <=> v # "passed"
          /\ session'[j] = "closed" => stored[j] = "assessed"
          /\ round'[j] <= QuestionLimit
      BY <1>2, <1>4, <2>3, <2>4 DEF StoreResult, Verdicts, Sound, Typed, PlatformTypeOK
    <2>7. \A i \in Jobs \ {j} : session'[i] = session[i] /\ round'[i] = round[i]
      BY <1>2, <1>4 DEF StoreResult, Sound, Typed, PlatformTypeOK
    <2> HIDE DEF j
    <2> QED
      BY <1>2, <1>4, <2>1, <2>2, <2>3, <2>4, <2>5, <2>6, <2>7
         DEF Sound, Ledger, Typed, PlatformTypeOK, Verdicts
  <1>5. CASE /\ pc[w] = "reviewResult" /\ HoldsReview(w)
             /\ StoreReview(j, attempt[w].draft) /\ UNCHANGED blame
    <2>1. /\ attempt[w].draft \in {"ask", "assessed"}
          /\ attempt[w].draft = "ask" => attempt[w].answer < QuestionLimit
      BY <1>1, <1>5 DEF Local
    <2>2. verdict[j] = "passed" /\ attempt[w].answer = round[j] /\ round[j] \in Nat
      BY <1>2, <1>5 DEF Sound, Grounded, ReviewSteps, Typed, PlatformTypeOK
    <2>3. attempt[w].draft = "ask" => QuestionLimit > 0 /\ round[j] + 1 <= QuestionLimit
      BY <2>1, <2>2
    <2> QED
      BY <1>2, <1>5, <2>1, <2>2, <2>3 DEF Sound, Typed, PlatformTypeOK, Ledger, StoreReview
  <1> QED
    BY <1>3, <1>4, <1>5 DEF Stores

\* Every step does.
LEMMA LedgerNext == Sound /\ [Next]_vars => Ledger'
  <1> SUFFICES ASSUME Sound, [Next]_vars
               PROVE  Ledger'
    OBVIOUS
  <1>1. Effect
    BY PlatformEffect DEF Sound, Typed
  <1>2. CASE UNCHANGED <<platformVars, blame>>
    BY <1>2 DEF Sound, Ledger, platformVars
  <1>3. CASE \E w \in Workers : Stores(w)
    BY <1>3, StoresKeepsLedger
  <1>4. ASSUME NEW j \in Jobs, UNCHANGED blame,
               \/ \E t \in FreshTokens : GrantLease(j, t) \/ GrantReviewLease(j, t)
               \/ Requeues(j) \/ RequeueReview(j) \/ StudentAnswers(j)
        PROVE  Ledger'
    BY <1>4 DEF Sound, Typed, PlatformTypeOK, Ledger, GrantLease, Claimable,
         GrantReviewLease, ReviewClaimable, Requeues, Requeue, RequeueReview,
         StudentAnswers
  <1> QED
    BY <1>1, <1>2, <1>3, <1>4 DEF Effect

\* A verdict, once passed, stays: nobody holds the lease of a finished job.
LEMMA PassedStays ==
  ASSUME Sound, Effect, NEW j \in Jobs, verdict[j] = "passed"
  PROVE  verdict'[j] = "passed"
  <1>1. ASSUME NEW w \in Workers, Stores(w)
        PROVE  verdict'[j] = "passed"
    <2>1. attempt[w].lease # NoToken
      BY <1>1 DEF Stores, Sound, Typed, ThreadsOK, Local, JobSteps, ReviewSteps
    <2>2. HoldsJob(w) => attempt[w].job # j
      BY <2>1 DEF HoldsJob, Sound, Ledger
    <2> QED
      BY <1>1, <2>2 DEF Stores, StoreInitial, StoreResult, StoreReview,
           Sound, Typed, PlatformTypeOK
  <1> QED
    BY <1>1 DEF Effect, platformVars, GrantLease, GrantReviewLease, Requeues, Requeue,
       RequeueReview, StudentAnswers

\* A stored payload is replaced, never removed.
LEMMA StoredStays ==
  ASSUME Sound, Effect, NEW j \in Jobs, stored[j] # "none"
  PROVE  stored'[j] # "none"
  <1>1. ASSUME NEW w \in Workers, Stores(w)
        PROVE  stored'[j] # "none"
    <2>1. pc[w] \in {"llmInitial", "reviewResult"} => attempt[w].draft # "none"
      BY DEF Sound, Typed, ThreadsOK, Local
    <2> QED
      BY <1>1, <2>1 DEF Stores, StoreInitial, StoreResult, StoreReview,
           Sound, Typed, PlatformTypeOK
  <1> QED
    BY <1>1 DEF Effect, platformVars, GrantLease, GrantReviewLease, Requeues, Requeue,
       RequeueReview, StudentAnswers

\* As long as a review's lease is honoured, its round does not change.
LEMMA RoundStays ==
  ASSUME Sound, Effect, NEW j \in Jobs, verdict[j] = "passed",
         NEW t \in Tokens \ FreshTokens, reviewLease'[j] = t
  PROVE  reviewLease[j] = t /\ round'[j] = round[j]
  <1>1. ASSUME NEW w \in Workers, Stores(w)
        PROVE  reviewLease[j] = t /\ round'[j] = round[j]
    <2>1. attempt[w].lease # NoToken
      BY <1>1 DEF Stores, Sound, Typed, ThreadsOK, Local, JobSteps, ReviewSteps
    <2>2. HoldsJob(w) => attempt[w].job # j
      BY <2>1 DEF HoldsJob, Sound, Ledger
    <2> QED
      BY <1>1, <2>2 DEF Stores, StoreInitial, StoreResult, StoreReview,
           Sound, Typed, PlatformTypeOK
  <1> QED
    BY <1>1 DEF Effect, platformVars, GrantLease, GrantReviewLease, Requeues, Requeue,
       RequeueReview, StudentAnswers, Sound, Typed, PlatformTypeOK

\* Every step leaves an attempt what it may rely on.
LEMMA GroundedNext == Sound /\ [Next]_vars => Grounded'
  <1> SUFFICES ASSUME Sound, [Next]_vars, NEW w \in Workers,
                      NEW j \in Jobs \cup {NoJob}, j = attempt'[w].job
               PROVE  /\ pc'[w] \in Late /\ attempt'[w].gate = "passed" => stored'[j] # "none"
                      /\ pc'[w] \in ReviewSteps =>
                           /\ verdict'[j] = "passed"
                           /\ reviewLease'[j] = attempt'[w].lease => attempt'[w].answer = round'[j]
    <2>1. Sound /\ [Next]_vars => \A w \in Workers : attempt'[w].job \in Jobs \cup {NoJob}
      BY ThreadsNext DEF Sound, Typed, ThreadsOK, Attempt
    <2> QED
      BY <2>1 DEF Grounded, HoldsReview
  <1>1. Effect /\ Trace(w) /\ ThreadsOK'
    BY PlatformEffect, ThreadTrace, ThreadsNext DEF Sound, Typed
  <1>2. pc'[w] \in JobSteps \cup ReviewSteps => j \in Jobs
    BY <1>1 DEF ThreadsOK, Local
  <1>3. Late \cap ReviewSteps = {} /\ Late \subseteq JobSteps /\ JobSteps \cap ReviewSteps = {}
    BY DEF Late, JobSteps, ReviewSteps
  <1>4. ASSUME Continues(w), pc[w] \in ReviewSteps
        PROVE  /\ verdict'[j] = "passed"
               /\ reviewLease'[j] = attempt'[w].lease => attempt'[w].answer = round'[j]
    <2>1. j = attempt[w].job /\ j \in Jobs /\ attempt[w].lease \in Tokens \ FreshTokens
      BY <1>4 DEF Continues, Sound, Typed, ThreadsOK, Local, FreshTokens
    <2>2. verdict[j] = "passed" /\ (HoldsReview(w) => attempt[w].answer = round[j])
      BY <1>4, <2>1 DEF Sound, Grounded
    <2>3. verdict'[j] = "passed"
      BY <1>1, <2>1, <2>2, PassedStays
    <2>4. reviewLease'[j] = attempt[w].lease
            => reviewLease[j] = attempt[w].lease /\ round'[j] = round[j]
      BY <1>1, <2>1, <2>2, RoundStays
    <2> QED
      BY <1>4, <2>1, <2>2, <2>3, <2>4 DEF Continues, HoldsReview
  <1>5. CASE pc'[w] = pc[w] /\ attempt'[w] = attempt[w]
    <2>1. Continues(w)
      BY <1>5 DEF Continues
    <2>2. pc[w] \in Late /\ attempt[w].gate = "passed" => stored[j] # "none"
      BY <1>5 DEF Sound, Grounded
    <2> QED
      BY <1>1, <1>2, <1>3, <1>4, <1>5, <2>1, <2>2, StoredStays
  <1>6. CASE Starts(w) \/ pc'[w] \in Steps \ (JobSteps \cup ReviewSteps)
    BY <1>3, <1>6 DEF Starts, Late, ReviewSteps
  <1>7. CASE StartsReview(w)
    <2>1. PICK t \in FreshTokens :
            /\ GrantReviewLease(attempt[w].job, t)
            /\ attempt'[w] = [attempt[w] EXCEPT !.lease = t,
                                                !.answer = round[attempt[w].job]]
      BY <1>7 DEF StartsReview
    <2>2. attempt[w] \in Attempt /\ attempt[w].job \in Jobs
      BY <1>7 DEF StartsReview, Sound, Typed, ThreadsOK, Local
    <2>3. j = attempt[w].job /\ attempt'[w].answer = round[j]
      BY <2>1, <2>2 DEF Attempt
    <2>4. session[j] = "open" /\ verdict' = verdict /\ round' = round
      BY <2>1, <2>3 DEF GrantReviewLease, ReviewClaimable
    <2>5. verdict[j] = "passed"
      BY <2>2, <2>3, <2>4 DEF Sound, Ledger
    <2> QED
      BY <1>7, <2>3, <2>4, <2>5 DEF StartsReview, Late
  <1>8. CASE Grades(w)
    <2>1. pc'[w] \notin ReviewSteps
      BY <1>3, <1>8 DEF Grades
    <2>2. ASSUME pc'[w] \in Late, attempt'[w].gate = "passed"
          PROVE  stored'[j] # "none"
      <3>1. j = attempt[w].job /\ j \in Jobs
        BY <1>2, <1>3, <1>8, <2>2 DEF Grades, Continues
      <3>2. CASE pc[w] \in Late /\ attempt[w].gate = "passed"
        BY <1>1, <3>1, <3>2, StoredStays DEF Sound, Grounded
      <3>3. CASE pc[w] = "llmInitial" /\ StoreInitial(j, attempt[w].draft)
        BY <3>1, <3>3 DEF StoreInitial, Sound, Typed, ThreadsOK, Local, PlatformTypeOK
      <3> QED
        BY <1>8, <2>2, <3>1, <3>2, <3>3 DEF Grades
    <2> QED
      BY <2>1, <2>2
  <1>9. CASE pc[w] \in ReviewSteps /\ pc'[w] \in ReviewSteps /\ Continues(w)
    BY <1>3, <1>4, <1>9
  <1> QED
    BY <1>1, <1>5, <1>6, <1>7, <1>8, <1>9 DEF Trace

\* Nothing is stored and nobody works at the start.
LEMMA SoundInit == Init => Sound
  <1> SUFFICES ASSUME Init
               PROVE  Sound
    OBVIOUS
  <1>1. Ledger
    BY DEF Init, PlatformInit, Ledger
  <1>2. Grounded
    BY DEF Init, Grounded, Late, ReviewSteps
  <1> QED
    BY <1>1, <1>2, TypedInit DEF Sound

\* The records and what attempts rely on are kept together.
LEMMA SoundInvariant == Spec => []Sound
  <1>1. Sound /\ [Next]_vars => Sound'
    BY TypedNext, LedgerNext, GroundedNext DEF Sound
  <1> QED
    BY <1>1, SoundInit, PTL DEF Spec

\* Whatever crashes, expires or is answered too late: a passed verdict has its
\* review, and a closed review has its assessment.
THEOREM ReviewedVerdicts == Spec => []NoVerdictWithoutReview
  <1>1. Sound => NoVerdictWithoutReview
    BY DEF Sound, Ledger, NoVerdictWithoutReview
  <1> QED
    BY <1>1, SoundInvariant, PTL

\* Trouble its handlers know for the worker's own (a failed clone, a sandbox
\* without a result, an LLM without capacity) never becomes a failed verdict,
\* however often it comes back; a fetch during checkout, a killed container and
\* an error of the harness are no such trouble.
THEOREM KnownTroubleIsNotBlamed == Spec => []KnownTroubleNeverFailsStudent
  <1>1. Sound => KnownTroubleNeverFailsStudent
    BY DEF Sound, Ledger, KnownTroubleNeverFailsStudent
  <1> QED
    BY <1>1, SoundInvariant, PTL

\* No student is asked more than max_rounds questions, however many attempts
\* evaluate the same answer with a question count that may be out of date.
THEOREM QuestionsBounded == Spec => []RoundsBounded
  <1>1. Sound => RoundsBounded
    BY DEF Sound, Ledger, RoundsBounded
  <1> QED
    BY <1>1, SoundInvariant, PTL

\* Every LLM step, of a first or of a later attempt, comes after a passed gate.
THEOREM GateBeforeLlm == Spec => []LlmOnlyAfterGate
  <1>1. Sound => LlmOnlyAfterGate
    BY DEF Sound, Typed, ThreadsOK, Local, Grounded, LlmOnlyAfterGate
  <1> QED
    BY <1>1, SoundInvariant, PTL

(***************************************************************************)
(* Who holds which token.                                                  *)
(***************************************************************************)
Tokened ==
  /\ \A v, w \in Workers :
       v # w /\ attempt[v].lease = attempt[w].lease => attempt[v].lease = NoToken
  /\ faults = 0 =>
       \A w \in Workers : pc[w] \in JobSteps => HoldsJob(w) /\ heartbeat[w] = "alive"

\* No two attempts ever carry the same token.
LEMMA TokensStayApart ==
  ASSUME Sound, Tokened, [Next]_vars, NEW v \in Workers, NEW w \in Workers, v # w,
         attempt'[v].lease = attempt'[w].lease
  PROVE  attempt'[v].lease = NoToken
  <1>1. Trace(v) /\ Trace(w) /\ ThreadsOK'
    BY ThreadTrace, ThreadsNext DEF Sound, Typed
  <1> DEFINE Keeps(u) == attempt'[u].lease \in {attempt[u].lease, NoToken}
             Takes(u) == /\ attempt'[u].lease \in FreshTokens
                         /\ \A x \in Workers \ {u} : attempt'[x] = attempt[x]
  <1>2. ASSUME NEW u \in Workers, Trace(u)
        PROVE  Keeps(u) \/ Takes(u)
    <2>1. CASE pc'[u] \in Steps \ (JobSteps \cup ReviewSteps)
      BY <1>1, <2>1 DEF ThreadsOK, Local
    <2>2. CASE Starts(u) \/ StartsReview(u)
      BY <2>2 DEF Starts, StartsReview, Sound, Typed, ThreadsOK, Attempt
    <2> QED
      BY <1>2, <2>1, <2>2 DEF Trace, Grades, Continues
  <1>3. \A u \in Workers : attempt[u].lease \notin FreshTokens
    BY DEF FreshTokens
  <1> QED
    BY <1>1, <1>2, <1>3 DEF Tokened

\* While its heartbeat is alive, only its own report ends an attempt's lease.
LEMMA LeaseStays ==
  ASSUME Sound, Tokened, Effect, NEW w \in Workers,
         pc[w] \in JobSteps, pc'[w] \in JobSteps, HoldsJob(w), heartbeat[w] = "alive"
  PROVE  lease'[attempt[w].job] = lease[attempt[w].job]
  <1> DEFINE j == attempt[w].job
  <1>1. j \in Jobs /\ lease[j] = attempt[w].lease /\ lease[j] # NoToken
    BY DEF HoldsJob, Sound, Typed, ThreadsOK, Local
  <1>2. \A v \in Workers : v # w /\ HoldsJob(v) => attempt[v].job # j
    BY <1>1 DEF Tokened, HoldsJob
  <1>3. ASSUME NEW v \in Workers, Stores(v)
        PROVE  lease'[j] = lease[j]
    BY <1>1, <1>2, <1>3 DEF Stores, StoreInitial, StoreResult, StoreReview,
       Sound, Typed, PlatformTypeOK
  <1>4. ASSUME NEW i \in Jobs, Requeues(i)
        PROVE  lease'[j] = lease[j]
    BY <1>1, <1>2, <1>4 DEF Requeues, Requeue, Sound, Typed, PlatformTypeOK
  <1> QED
    BY <1>1, <1>3, <1>4 DEF Effect, platformVars, GrantLease, Claimable,
       GrantReviewLease, RequeueReview, StudentAnswers, Sound, Typed, PlatformTypeOK

\* Tokens stay apart, and without faults every attempt keeps its lease.
LEMMA TokenedNext == Sound /\ Tokened /\ [Next]_vars => Tokened'
  <1> SUFFICES ASSUME Sound, Tokened, [Next]_vars
               PROVE  Tokened'
    OBVIOUS
  <1>1. ASSUME NEW w \in Workers, faults' = 0, pc'[w] \in JobSteps
        PROVE  lease'[attempt'[w].job] = attempt'[w].lease /\ heartbeat'[w] = "alive"
    <2>1. faults = 0 /\ faults' # faults + 1 /\ Effect /\ Trace(w)
      BY <1>1, FaultsGrow, PlatformEffect, ThreadTrace DEF Sound, Typed
    <2>2. CASE Starts(w)
      <3>1. attempt[w] \in Attempt /\ attempt[w].job \in Jobs
        BY <2>2 DEF Starts, Sound, Typed, ThreadsOK, Local
      <3> QED
        BY <2>2, <3>1 DEF Starts, GrantLease, Attempt, Sound, Typed, PlatformTypeOK
    <2>3. CASE Continues(w) /\ pc[w] \in JobSteps /\ heartbeat'[w] = heartbeat[w]
      BY <1>1, <2>1, <2>3, LeaseStays DEF Continues, Tokened, HoldsJob
    <2> QED
      BY <1>1, <2>1, <2>2, <2>3 DEF Trace, StartsReview, Grades, Continues,
         JobSteps, ReviewSteps
  <1> QED
    BY <1>1, TokensStayApart DEF Tokened, HoldsJob

\* As long as no fault occurs, no job is graded by two attempts at once.
THEOREM NoDuplicates == Spec => []NoDuplicateGrading
  <1>1. Init => Tokened
    BY DEF Init, Tokened, NoAttempt, JobSteps
  <1>2. Sound /\ Tokened => NoDuplicateGrading
    BY DEF Sound, Typed, ThreadsOK, Local, Tokened, HoldsJob, NoDuplicateGrading
  <1> QED
    BY <1>1, <1>2, TokenedNext, SoundInvariant, PTL DEF Spec

(***************************************************************************)
(* The refinement of AssessmentService.                                    *)
(***************************************************************************)
Closed == [j \in Jobs |-> session[j] = "closed"]

\* Only the session a step touches can become assessed by it.
LEMMA ClosedChanges ==
  ASSUME NEW j \in Jobs, NEW b \in BOOLEAN, session'[j] = "closed" <=> b,
         \A i \in Jobs \ {j} : session'[i] = session[i]
  PROVE  Closed' = [Closed EXCEPT ![j] = b]
  <1>1. Closed' = [i \in Jobs |-> session'[i] = "closed"]
    BY DEF Closed
  <1>2. [Closed EXCEPT ![j] = b] = [i \in Jobs |-> IF i = j THEN b ELSE Closed[i]]
    BY DEF Closed
  <1>3. \A i \in Jobs : (session'[i] = "closed") = (IF i = j THEN b ELSE Closed[i])
    BY DEF Closed
  <1> QED
    BY <1>1, <1>2, <1>3, Zenon

\* A session that is closed or not after a step as it was before changes nothing.
LEMMA ClosedStays ==
  ASSUME \A i \in Jobs : session'[i] = "closed" <=> session[i] = "closed"
  PROVE  Closed' = Closed
  BY Zenon DEF Closed

\* The report of a result is a Pass or a Fail, that of a review an Assess or a
\* stutter.
LEMMA StoresRefines ==
  ASSUME Sound, NEW w \in Workers, Stores(w)
  PROVE  \/ UNCHANGED <<verdict, Closed>>
         \/ \E j \in Jobs : Promise!Fail(j) \/ Promise!Pass(j) \/ Promise!Assess(j)
  <1> DEFINE j == attempt[w].job
  <1>1. attempt[w] \in Attempt /\ j \in Jobs /\ attempt[w].lease \in Tokens
    BY DEF Stores, Sound, Typed, ThreadsOK, Local, JobSteps, ReviewSteps
  <1>2. CASE StoreInitial(j, attempt[w].draft)
    BY <1>2, ClosedStays DEF StoreInitial
  <1>3. ASSUME NEW v \in Verdicts, HoldsJob(w), StoreResult(j, v)
        PROVE  Promise!Fail(j) \/ Promise!Pass(j)
    <2>1. verdict[j] = "none" /\ session[j] = "none"
      BY <1>1, <1>3 DEF Sound, Ledger, HoldsJob
    <2>2. /\ verdict' = [verdict EXCEPT ![j] = v]
          /\ \A i \in Jobs \ {j} : session'[i] = session[i]
          /\ v = "failed" => session'[j] = "none"
      BY <1>1, <1>3 DEF StoreResult, Sound, Typed, PlatformTypeOK
    <2>3. CASE v = "failed"
      <3>1. Closed' = Closed
        BY <2>1, <2>2, <2>3, ClosedStays
      <3> QED
        BY <2>1, <2>2, <2>3, <3>1 DEF Promise!Fail, Closed
    <2>4. CASE v = "passed"
      <3>1. PICK now \in BOOLEAN : session'[j] = "closed" <=> now
        OBVIOUS
      <3>2. Closed' = [Closed EXCEPT ![j] = now]
        BY <1>1, <2>2, <3>1, ClosedChanges
      <3> QED
        BY <2>1, <2>2, <2>4, <3>2 DEF Promise!Pass, Closed
    <2> QED
      BY <2>3, <2>4 DEF Verdicts
  <1>4. CASE pc[w] = "reviewResult" /\ HoldsReview(w) /\ StoreReview(j, attempt[w].draft)
    <2>1. verdict[j] = "passed" /\ session[j] = "open"
      BY <1>1, <1>4 DEF Sound, Ledger, Grounded, HoldsReview, ReviewSteps
    <2>2. /\ \A i \in Jobs \ {j} : session'[i] = session[i]
          /\ session'[j] = IF attempt[w].draft = "ask" THEN "student" ELSE "closed"
          /\ verdict' = verdict
      BY <1>1, <1>4 DEF StoreReview, Sound, Typed, PlatformTypeOK
    <2>3. CASE attempt[w].draft = "ask"
      BY <2>1, <2>2, <2>3, ClosedStays
    <2>4. CASE attempt[w].draft # "ask"
      <3>1. Closed' = [Closed EXCEPT ![j] = TRUE]
        BY <1>1, <2>2, <2>4, ClosedChanges
      <3>2. ~Closed[j]
        BY <1>1, <2>1 DEF Closed
      <3> QED
        BY <1>1, <2>1, <2>2, <3>1, <3>2 DEF Promise!Assess, Closed
    <2> QED
      BY <2>3, <2>4
  <1>5. CASE \E v \in Verdicts : HoldsJob(w) /\ StoreResult(j, v)
    <2>1. Promise!Fail(j) \/ Promise!Pass(j)
      BY <1>3, <1>5
    <2> HIDE DEF j
    <2> QED
      BY <1>1, <2>1 DEF Promise!Fail, Promise!Pass
  <1> QED
    <2>1. \/ StoreInitial(j, attempt[w].draft)
          \/ \E v \in Verdicts : HoldsJob(w) /\ StoreResult(j, v)
          \/ pc[w] = "reviewResult" /\ HoldsReview(w) /\ StoreReview(j, attempt[w].draft)
      BY DEF Stores
    <2> QED
      BY <1>2, <1>4, <1>5, <2>1

\* The safety part of what workers and platform promise together: verdicts and
\* assessments are given once, in the order and to the jobs AssessmentService
\* allows, whatever attempts overlap.
THEOREM Refinement == Spec => PromiseSpec
  <1>1. Init => Promise!Init
    BY DEF Init, PlatformInit, Promise!Init
  <1>2. Sound /\ [Next]_vars => [Promise!Next]_(Promise!svars)
    <2> SUFFICES ASSUME Sound, Effect
                 PROVE  UNCHANGED <<verdict, Closed>> \/ Promise!Next
      BY PlatformEffect DEF Sound, Typed, Promise!svars, Closed
    <2>1. CASE UNCHANGED <<platformVars, blame>>
      BY <2>1, ClosedStays DEF platformVars
    <2>2. CASE \E w \in Workers : Stores(w)
      BY <2>2, StoresRefines DEF Promise!Next
    <2>3. ASSUME NEW j \in Jobs,
                 \/ \E t \in FreshTokens : GrantLease(j, t) \/ GrantReviewLease(j, t)
                 \/ Requeues(j) \/ RequeueReview(j) \/ StudentAnswers(j)
          PROVE  UNCHANGED <<verdict, Closed>>
      <3>1. verdict' = verdict /\ \A i \in Jobs : session'[i] = "closed" <=> session[i] = "closed"
        BY <2>3 DEF GrantLease, GrantReviewLease, Requeues, Requeue, RequeueReview,
           StudentAnswers, Sound, Typed, PlatformTypeOK
      <3> QED
        BY <3>1, ClosedStays
    <2> QED
      BY <2>1, <2>2, <2>3 DEF Effect
  <1> QED
    BY <1>1, <1>2, SoundInvariant, PTL DEF Spec, PromiseSpec, Promise!Spec
=============================================================================
