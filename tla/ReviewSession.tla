---------------------------- MODULE ReviewSession ----------------------------
(***************************************************************************)
(* One review session and what is said in it: llm_review.py,               *)
(* llm_assessment.py, llm_schema.py and llm_providers.py.  GraderWorker    *)
(* keeps of an LLM payload only how the session goes on; here it has its   *)
(* evidence, its references and, at the end, its assessment.               *)
(*                                                                         *)
(* A step of the session is made by an attempt: it claims the session,     *)
(* asks the providers until one answers with something the validator lets  *)
(* through, puts the evidence of the earlier steps before the new one,     *)
(* asks for an assessment if the review closes, and sends it all.  The     *)
(* lease may run out under it, and another attempt begin the same step.    *)
(* The initial payload and the result that opens the session are one call  *)
(* here; GraderWorker has what happens between the two.                    *)
(***************************************************************************)
EXTENDS Integers, SequencesExt

CONSTANTS
  Attempts,           \* the workers
  Nobody,
  Providers,          \* the number of configured providers
  MaxRounds,          \* llm_pipeline.max_rounds
  ReviewerIds,        \* evidence ids that begin with "reviewer:"
  Checks,             \* ids of the grader's checks, the deterministic evidence
  Rubric,             \* criterion id -> its min_score, max_score, score_step
  ReviewAnswers,      \* what a provider may answer to a review,
  AssessmentAnswers,  \* and to an assessment
  Malformed           \* an answer that is no JSON or misses a required part

ASSUME NobodyAssumption == Nobody \notin Attempts
ASSUME ProvidersAssumption == Providers \in Nat \ {0}
ASSUME MaxRoundsAssumption == MaxRounds \in Nat
ASSUME IdsAssumption == ReviewerIds \cap Checks = {}
ASSUME AnswersAssumption ==
  \A v \in ReviewAnswers \ {Malformed} : v.evidence \in Seq([id : STRING, severity : STRING])

VARIABLES
  steps,        \* state_snapshot.steps: the accepted payloads
  state,        \* "queued", "student" (a question waits) or "closed"
  holder,       \* the attempt whose lease the platform honours
  assessment,   \* the accepted assessment
  pc,           \* where each attempt stands
  local         \* the locals of each attempt

session == <<steps, state, holder, assessment>>
vars == <<session, pc, local>>

Severities == {"warning", "positive"}
Observation == [id : ReviewerIds, severity : Severities]

\* The code of a ProviderFailure: a refused request or key, which
\* is not retryable; a quota, a timeout or an HTTP 5xx, which is; an answer
\* that is no JSON or that the validator turns down.
Failures == {"rejected", "unavailable", "invalid"}

NoStep == [answer |-> 0, evidence |-> <<>>, next |-> "none", cites |-> {}]
NoAssessment == [scores |-> <<>>, cites |-> <<>>, total |-> 0, evidence |-> {}]

\* number: question_count as the claim returned it.  prior: prior_evidence.
\* provider, corrected, log: the loops of complete_with_fallback.
NoLocals == [number |-> 0, prior |-> <<>>, draft |-> NoStep, assessed |-> NoAssessment,
             provider |-> 1, corrected |-> FALSE, log |-> <<>>]

\* The type invariant: evidence of a stored step was made by the reviewer and
\* is no critical one, which only the grader may report.
TypeOK ==
  /\ \A k \in DOMAIN steps :
       /\ steps[k].evidence \in Seq(Observation)
       /\ steps[k].next \in {"ask_student", "ask_student_again", "finalize"}
  /\ state \in {"queued", "student", "closed"}
  /\ holder \in Attempts \cup {Nobody}
  /\ pc \in [Attempts -> {"idle", "review", "assessment", "send", "gaveUp"}]
  /\ \A a \in Attempts :
       /\ local[a].number \in 0 .. MaxRounds
       /\ local[a].provider \in 1 .. Providers
       /\ local[a].draft.evidence \in Seq(Observation)

Init ==
  /\ steps = <<>>
  /\ state = "queued"
  /\ holder = Nobody
  /\ assessment = NoAssessment
  /\ pc = [a \in Attempts |-> "idle"]
  /\ local = [a \in Attempts |-> NoLocals]

-----------------------------------------------------------------------------
(* Evidence.                                                               *)

IdsOf(evidence) == {evidence[i].id : i \in DOMAIN evidence}

\* The places of the observations of some steps, in the order of the loops.
Observed(earlier) == UNION {{k} \X DOMAIN earlier[k].evidence : k \in DOMAIN earlier}
Before(p, q) == p[1] < q[1] \/ (p[1] = q[1] /\ p[2] < q[2])

At(earlier, p) == earlier[p[1]].evidence[p[2]]

\* prior_evidence_by_id.setdefault: of observations with one id the first one
\* stays.
Firsts(earlier) ==
  {p \in Observed(earlier) :
     \A q \in Observed(earlier) : Before(q, p) => At(earlier, q).id # At(earlier, p).id}

Sorted(places) ==
  CHOOSE s \in [1 .. Cardinality(places) -> places] :
    \A i, j \in DOMAIN s : i < j => Before(s[i], s[j])

\* list(prior_evidence_by_id.values()): in the order of their first observation.
PriorEvidence(earlier) ==
  LET order == Sorted(Firsts(earlier)) IN
  [i \in DOMAIN order |-> At(earlier, order[i])]

\* Variant: the earlier evidence is forgotten.
MergedCurrent(prior, current) == current

\* completion.value["evidence"] = prior_evidence + current_evidence
Merged(prior, current) == prior \o current

\* normalized_evidence: the checks, then the reviewer's evidence.
Normalized(evidence) == Checks \cup IdsOf(evidence)

AnswerRefs == <<"student_answer:1", "student_answer:2">>

\* Variant: every answer may be cited at any time.
AvailableAny(n, evidence) == Normalized(evidence) \cup Range(AnswerRefs)

\* What the review of answer n may refer to: not the evidence of earlier
\* steps, which the validator is not given.
Available(n, evidence) ==
  Normalized(evidence) \cup {AnswerRefs[i] : i \in {n} \cap DOMAIN AnswerRefs}

-----------------------------------------------------------------------------
(* The validators.                                                         *)

\* Variant: the severity is not looked at.
ReviewerEvidenceAny(evidence) == IdsOf(evidence) \subseteq ReviewerIds

ReviewerEvidence(evidence) ==
  \A i \in DOMAIN evidence :
    evidence[i].severity \in Severities /\ evidence[i].id \in ReviewerIds

\* validate_review: the stage only has to be right where it is
\* "answer_evaluation"; the ids of one answer may repeat each other.
ValidReview(v, n) ==
  /\ v # Malformed
  /\ v.stage \in {"initial", "answer_evaluation", "final"}
  /\ v.stage = "answer_evaluation" => v.number = n /\ n \in {1, 2}
  /\ ReviewerEvidence(v.evidence)
  /\ v.next \in {"ask_student", "ask_student_again", "finalize"}
  /\ v.next = "ask_student_again" => n = 1
  /\ n = 2 => v.next = "finalize"
  /\ v.cites \subseteq Available(n, v.evidence)

\* Variant: ids are not compared with those of earlier steps.
NewIdsUnchecked(v, prior) == TRUE

\* "review evidence IDs must be unique across steps"
NewIds(v, prior) == IdsOf(v.evidence) \cap IdsOf(prior) = {}

\* The validator of run_initial_review (n = 0, nothing prior) and the one of
\* run_followup_review.
Accepts(v, n, prior) ==
  /\ ValidReview(v, n)
  /\ n >= MaxRounds => v.next = "finalize"
  /\ NewIds(v, prior)

OnScale(score, criterion) ==
  /\ score \in criterion.min .. criterion.max
  /\ (score - criterion.min) % criterion.step = 0

\* validate_assessment: every criterion once, on its scale, with a reason among
\* the evidence; the total is the sum.
ValidAssessment(v, evidence) ==
  /\ v # Malformed
  /\ DOMAIN v.scores = DOMAIN Rubric
  /\ \A c \in DOMAIN Rubric :
       /\ OnScale(v.scores[c], Rubric[c])
       /\ v.cites[c] # {} /\ v.cites[c] \subseteq Normalized(evidence)
  /\ v.total = FoldFunction(LAMBDA s, t : s + t, 0, v.scores)

-----------------------------------------------------------------------------
(* complete_with_fallback.                                                 *)

\* The entry in attempts of the call that has just failed.
Logged(l, failure) ==
  Append(l.log, [provider |-> l.provider, corrected |-> l.corrected, failure |-> failure])

Update(a, step, l) ==
  /\ pc' = [pc EXCEPT ![a] = step]
  /\ local' = [local EXCEPT ![a] = l]

\* Variant: an error that is not retryable ends the search.
FailAtOnce(a, failure) ==
  LET l == local[a]
      log == Logged(l, failure)
  IN IF failure = "invalid" /\ ~l.corrected
       THEN Update(a, pc[a], [l EXCEPT !.corrected = TRUE, !.log = log])
     ELSE IF failure # "rejected" /\ l.provider < Providers
       THEN Update(a, pc[a],
              [l EXCEPT !.provider = @ + 1, !.corrected = FALSE, !.log = log])
     ELSE Update(a, "gaveUp", [l EXCEPT !.log = log])

\* Variant: the messages of one provider are continued with the next one.
FailUnreset(a, failure) ==
  LET l == local[a]
      log == Logged(l, failure)
  IN IF failure = "invalid" /\ ~l.corrected
       THEN Update(a, pc[a], [l EXCEPT !.corrected = TRUE, !.log = log])
     ELSE IF l.provider < Providers
       THEN Update(a, pc[a], [l EXCEPT !.provider = @ + 1, !.log = log])
     ELSE Update(a, "gaveUp", [l EXCEPT !.log = log])

\* An invalid answer is answered once with a correction; after any other
\* failure, retryable or not, the next provider is asked from the beginning.
\* After the last one ALL_PROVIDERS_UNAVAILABLE is raised.
Fail(a, failure) ==
  LET l == local[a]
      log == Logged(l, failure)
  IN IF failure = "invalid" /\ ~l.corrected
       THEN Update(a, pc[a], [l EXCEPT !.corrected = TRUE, !.log = log])
     ELSE IF l.provider < Providers
       THEN Update(a, pc[a],
              [l EXCEPT !.provider = @ + 1, !.corrected = FALSE, !.log = log])
     ELSE Update(a, "gaveUp", [l EXCEPT !.log = log])

\* The function returns; the next one asks its providers anew.
Succeed(a, step, l) ==
  Update(a, step, [l EXCEPT !.provider = 1, !.corrected = FALSE, !.log = <<>>])

CallFails(a) ==
  /\ pc[a] \in {"review", "assessment"}
  /\ \E failure \in {"rejected", "unavailable"} : Fail(a, failure)
  /\ UNCHANGED session

\* Before the first call ledger.reserve asks the budget for the tokens of the step,
\* and may refuse them with CapacityUnavailable.
TokensRefused(a) ==
  /\ pc[a] \in {"review", "assessment"} /\ local[a].log = <<>>
  /\ Update(a, "gaveUp", local[a])
  /\ UNCHANGED session

-----------------------------------------------------------------------------
(* The steps of an attempt.                                                *)

Stop(a) == Update(a, "idle", NoLocals)

\* The claim returns the session as it is now.
Claim(a) ==
  /\ pc[a] = "idle"
  /\ state = "queued" /\ holder = Nobody
  /\ holder' = a
  /\ Update(a, "review", [NoLocals EXCEPT !.number = Len(steps),
                                          !.prior = PriorEvidence(steps)])
  /\ UNCHANGED <<steps, state, assessment>>

\* run_initial_review, run_followup_review.
AnswerToReview(a) ==
  LET l == local[a] IN
  /\ pc[a] = "review"
  /\ \E v \in ReviewAnswers :
       \/ /\ Accepts(v, l.number, l.prior)
          /\ Succeed(a, IF v.next = "finalize" THEN "assessment" ELSE "send",
               [l EXCEPT !.draft = [answer |-> l.number, next |-> v.next, cites |-> v.cites,
                                    evidence |-> Merged(l.prior, v.evidence)]])
       \/ ~Accepts(v, l.number, l.prior) /\ Fail(a, "invalid")
  /\ UNCHANGED session

\* run_assessment.
AnswerToAssessment(a) ==
  LET l == local[a] IN
  /\ pc[a] = "assessment"
  /\ \E v \in AssessmentAnswers :
       \/ /\ ValidAssessment(v, l.draft.evidence)
          /\ Succeed(a, "send",
               [l EXCEPT !.assessed = [scores |-> v.scores, cites |-> v.cites, total |-> v.total,
                                       evidence |-> Normalized(l.draft.evidence)]])
       \/ ~ValidAssessment(v, l.draft.evidence) /\ Fail(a, "invalid")
  /\ UNCHANGED session

\* Variant: the platform takes the payload of any attempt.
SendUnleased(a) ==
  /\ pc[a] = "send"
  /\ steps' = Append(steps, local[a].draft)
  /\ state' = IF local[a].draft.next = "finalize" THEN "closed" ELSE "student"
  /\ assessment' = local[a].assessed
  /\ holder' = Nobody
  /\ Stop(a)

\* llm_initial and result, or llm_review_result: refused without the lease.
\* Whether the answer arrives makes no difference any more.
Send(a) ==
  /\ pc[a] = "send"
  /\ \/ /\ holder = a
        /\ steps' = Append(steps, local[a].draft)
        /\ state' = IF local[a].draft.next = "finalize" THEN "closed" ELSE "student"
        /\ assessment' = local[a].assessed
        /\ holder' = Nobody
     \/ holder # a /\ UNCHANGED session
  /\ Stop(a)

\* The handlers of ProviderFailure and CapacityUnavailable: a job is handed back, a
\* review is not.
GiveUp(a) ==
  /\ pc[a] = "gaveUp"
  /\ holder' = IF holder = a /\ local[a].number = 0 THEN Nobody ELSE holder
  /\ Stop(a)
  /\ UNCHANGED <<steps, state, assessment>>

Crash(a) == pc[a] # "idle" /\ Stop(a) /\ UNCHANGED session

(* The platform and the student.                                           *)

Expire ==
  /\ holder # Nobody
  /\ holder' = Nobody
  /\ UNCHANGED <<steps, state, assessment, pc, local>>

StudentAnswers ==
  /\ state = "student"
  /\ state' = "queued"
  /\ UNCHANGED <<steps, holder, assessment, pc, local>>

Next ==
  \/ \E a \in Attempts :
       \/ Claim(a) \/ TokensRefused(a) \/ CallFails(a) \/ AnswerToReview(a) \/ AnswerToAssessment(a)
       \/ Send(a) \/ GiveUp(a) \/ Crash(a)
  \/ Expire \/ StudentAnswers

Spec == Init /\ [][Next]_vars
-----------------------------------------------------------------------------
(* What a session promises.                                                *)

\* The m-th observation is the first one under its id.
Leads(evidence, m) == \A l \in 1 .. m - 1 : evidence[l].id # evidence[m].id

\* The observation is there, and nothing else under its id.
StandsOnce(o, evidence) ==
  \E j \in DOMAIN evidence :
    evidence[j] = o /\ \A l \in DOMAIN evidence \ {j} : evidence[l].id # o.id

\* "Prior evidence is immutable" (llm_review.py:94): an id that a step has
\* observed stands in every later step once, with what was first observed
\* under it; no answer reuses it, and no merge loses it (llm_review.py:85-92,
\* 116-118, 126).
PriorEvidenceKept ==
  \A k \in DOMAIN steps : \A i \in 1 .. k - 1 : \A m \in DOMAIN steps[i].evidence :
    Leads(steps[i].evidence, m) => StandsOnce(steps[i].evidence[m], steps[k].evidence)

\* The assessment is made of the whole session, not of its last step: a session
\* is closed by an assessment, and what that was given holds every check and
\* all that was observed in any step (worker.py:81-83, llm_assessment.py:17-23).
AssessmentSeesSession ==
  state = "closed" =>
    \A k \in DOMAIN steps :
      Checks \cup IdsOf(steps[k].evidence) \subseteq assessment.evidence

\* References resolve, when they are stored and ever after: what a step cites
\* is in that step, a check, or an answer that had been given by then
\* (llm_review.py:113, llm_schema.py:44, 61, 81); what the assessment gives as a
\* reason is a check or in the step that closed the session (llm_schema.py:104).
CitationsResolve ==
  /\ \A k \in DOMAIN steps :
       steps[k].cites \subseteq
         Checks \cup IdsOf(steps[k].evidence) \cup {AnswerRefs[i] : i \in 1 .. k - 1}
  /\ state = "closed" =>
       \A c \in DOMAIN Rubric :
         assessment.cites[c] \subseteq Checks \cup IdsOf(steps[Len(steps)].evidence)

\* Each step was made of the answer it follows, and a question stands before
\* it: no attempt behind the back of another one adds a step twice or after the
\* end (worker.py:84, api.py:30-31).
AnswersInOrder ==
  \A k \in DOMAIN steps :
    /\ steps[k].answer = k - 1
    /\ k < Len(steps) => steps[k].next # "finalize"

\* The correction goes to the provider whose first answer was invalid, once, and
\* to no other (llm_providers.py:91, 104-108).
CorrectionsInPlace ==
  \A a \in Attempts :
    LET log == local[a].log IN
    \A i \in DOMAIN log :
      log[i].corrected <=>
        /\ i > 1
        /\ log[i - 1].provider = log[i].provider
        /\ log[i - 1].failure = "invalid"
        /\ ~log[i - 1].corrected

\* Capacity is given up before any provider was asked, when the budget refuses the
\* tokens (llm_review.py:53, 111, llm_assessment.py:38), or after every one had its
\* chance, those after a refused request or key too (llm_providers.py:90, 109-112):
\* no search is left half-way.
NoHalfSearch ==
  \A a \in Attempts :
    pc[a] = "gaveUp" =>
      {local[a].log[i].provider : i \in DOMAIN local[a].log} \in {{}, 1 .. Providers}

\* What is known after some steps: of each id the first observation.
Known(earlier) == {At(earlier, p) : p \in Firsts(earlier)}

Session == INSTANCE Transcript WITH
  rounds <- Len(steps), known <- Known(steps), basis <- assessment.evidence

\* The session is a transcript, whatever leases expire and whatever the
\* providers answer: one step per answer, observations that stay, and an
\* assessment of all that is known (worker.py:81-84, llm_review.py:85-126,
\* llm_assessment.py:17-23).
TranscriptSpec == Session!Spec
=============================================================================
