--------------------------- MODULE GraderPlatform ---------------------------
(***************************************************************************)
(* The grading platform as the worker sees it through GraderApi: the job   *)
(* queue, the LLM review sessions that grow out of passed jobs, and the    *)
(* leases that say which attempt may still write to either of them.        *)
(*                                                                         *)
(* The platform is not part of the repository.  Every definition here is   *)
(* what the calls of grader_worker/api.py and their uses in worker.py rely *)
(* on: a claim returns a fresh lease token, a call that carries a token    *)
(* the platform no longer honours is answered with an HTTP error, an       *)
(* infrastructure failure puts the job back in the queue, a result closes  *)
(* it.                                                                     *)
(***************************************************************************)
EXTENDS Naturals, FiniteSets

CONSTANTS
  Jobs,         \* submissions in the queue; each grows at most one session
  Tokens,       \* lease tokens
  NoToken,      \* the absence of a lease
  MaxRounds     \* llm_pipeline.max_rounds: questions a student may be asked

ASSUME NoTokenAssumption == NoToken \notin Tokens
ASSUME MaxRoundsAssumption == MaxRounds \in Nat

VARIABLES
  verdict,      \* the stored deterministic result of each job
  lease,        \* the token that may report on the job
  stored,       \* the last LLM payload accepted for the job
  session,      \* where the job's review session stands
  reviewLease,  \* the token that may report on the session
  round         \* question_count: questions put to the student so far

platformVars == <<verdict, lease, stored, session, reviewLease, round>>

Verdicts == {"passed", "failed"}

\* LLM payloads: a question for the student; a closing review that still
\* lacks its assessment; a closing review that carries it.
Payloads == {"ask", "finalize", "assessed"}

\* "student": a question waits for its answer.  "open": an answer waits for a
\* worker.  "closed": the review ended.
SessionStates == {"none", "student", "open", "closed"}

PlatformTypeOK ==
  /\ verdict \in [Jobs -> Verdicts \cup {"none"}]
  /\ lease \in [Jobs -> Tokens \cup {NoToken}]
  /\ stored \in [Jobs -> Payloads \cup {"none"}]
  /\ session \in [Jobs -> SessionStates]
  /\ reviewLease \in [Jobs -> Tokens \cup {NoToken}]
  /\ round \in [Jobs -> Nat]

PlatformInit ==
  /\ verdict = [j \in Jobs |-> "none"]
  /\ lease = [j \in Jobs |-> NoToken]
  /\ stored = [j \in Jobs |-> "none"]
  /\ session = [j \in Jobs |-> "none"]
  /\ reviewLease = [j \in Jobs |-> NoToken]
  /\ round = [j \in Jobs |-> 0]

-----------------------------------------------------------------------------
(* What the two candidate lists hold.                                      *)

Claimable(j) == verdict[j] = "none" /\ lease[j] = NoToken
ReviewClaimable(j) == session[j] = "open" /\ reviewLease[j] = NoToken

(* The effect of each accepted call.                                       *)

GrantLease(j, t) ==
  /\ Claimable(j)
  /\ lease' = [lease EXCEPT ![j] = t]
  /\ UNCHANGED <<verdict, stored, session, reviewLease, round>>

GrantReviewLease(j, t) ==
  /\ ReviewClaimable(j)
  /\ reviewLease' = [reviewLease EXCEPT ![j] = t]
  /\ UNCHANGED <<verdict, lease, stored, session, round>>

\* A later attempt's payload replaces the one of an attempt that never
\* reached its result.
StoreInitial(j, payload) ==
  /\ stored' = [stored EXCEPT ![j] = payload]
  /\ UNCHANGED <<verdict, lease, session, reviewLease, round>>

\* The result ends the job.  For a passed one the stored payload decides how
\* the review goes on: a question is put to the student, a closing review
\* ends it.
StoreResult(j, v) ==
  LET asks == v = "passed" /\ stored[j] = "ask"
      closes == v = "passed" /\ stored[j] \in {"finalize", "assessed"}
  IN /\ verdict' = [verdict EXCEPT ![j] = v]
     /\ lease' = [lease EXCEPT ![j] = NoToken]
     /\ session' = [session EXCEPT ![j] = IF asks THEN "student"
                                          ELSE IF closes THEN "closed" ELSE "none"]
     /\ round' = [round EXCEPT ![j] = IF asks THEN 1 ELSE 0]
     /\ UNCHANGED <<stored, reviewLease>>

StoreReview(j, payload) ==
  /\ stored' = [stored EXCEPT ![j] = payload]
  /\ session' = [session EXCEPT ![j] = IF payload = "ask" THEN "student" ELSE "closed"]
  /\ round' = [round EXCEPT ![j] = IF payload = "ask" THEN @ + 1 ELSE @]
  /\ reviewLease' = [reviewLease EXCEPT ![j] = NoToken]
  /\ UNCHANGED <<verdict, lease>>

\* infra-failure, and the expiry of a job lease: the job is queued again.
Requeue(j) ==
  /\ lease' = [lease EXCEPT ![j] = NoToken]
  /\ UNCHANGED <<verdict, stored, session, reviewLease, round>>

RequeueReview(j) ==
  /\ reviewLease' = [reviewLease EXCEPT ![j] = NoToken]
  /\ UNCHANGED <<verdict, lease, stored, session, round>>

StudentAnswers(j) ==
  /\ session[j] = "student"
  /\ session' = [session EXCEPT ![j] = "open"]
  /\ UNCHANGED <<verdict, lease, stored, reviewLease, round>>
=============================================================================
