--------------------------- MODULE LinearPipeline ---------------------------
(***************************************************************************)
(* LinearPipelineRunner.run over the executor DockerStageExecutor: the     *)
(* stages of a laboratory in their order, each tried again after an        *)
(* infrastructure error as often as it allows, skipped once the pipeline   *)
(* has halted or a critical failure forbids it, and the outcome that       *)
(* aggregate_stage_results makes of it.                                    *)
(*                                                                         *)
(* A result is kept as the event that made it; Status is what the executor *)
(* says of that event.                                                     *)
(***************************************************************************)
EXTENDS Naturals, Sequences

CONSTANTS
  N,            \* number of stages
  MaxRetries    \* bound on retry_on_infra_error, at most 3 in the code

ASSUME NAssumption == N \in Nat \ {0}
ASSUME MaxRetriesAssumption == MaxRetries \in Nat

VARIABLES
  stage,        \* the definition that is run
  next,         \* the stage whose turn it is in the loop over definition.stages
  results,      \* context.results
  halted,
  runs,         \* how often each stage was executed
  pc

vars == <<stage, next, results, halted, runs, pc>>

StageConfig == [stopOnFailure: BOOLEAN, continueOnWarning: BOOLEAN,
                runIfNoCritical: BOOLEAN, retries: 0 .. MaxRetries]

\* What may come of one execution.  "infra": a stage that is no command, a
\* dataset that is not there, a docker that cannot be started.  "docker": docker
\* run itself fails and exits with 125 to 127.  "warning": no outcome of
\* DockerStageExecutor, but of other executors of the StageExecutor protocol.
Events == {"success", "warning", "exit", "timeout", "docker", "infra"}

Status(e) ==
  CASE e = "success" -> "passed"
    [] e = "warning" -> "warning"
    [] e \in {"exit", "timeout", "docker"} -> "failed"
    [] e = "infra" -> "infra_error"
    [] e = "skip" -> "skipped"

\* The type invariant.
TypeOK ==
  /\ stage \in [1 .. N -> StageConfig]
  /\ next \in 1 .. N + 1
  /\ results \in Seq(Events \cup {"skip"}) /\ Len(results) <= N
  /\ halted \in BOOLEAN
  /\ runs \in [1 .. N -> Nat]
  /\ pc \in {"running", "returned", "raised"}

Init ==
  /\ stage \in [1 .. N -> StageConfig]
  /\ next = 1
  /\ results = <<>>
  /\ halted = FALSE
  /\ runs = [i \in 1 .. N |-> 0]
  /\ pc = "running"

-----------------------------------------------------------------------------
HasCriticalFailure == \E k \in DOMAIN results : Status(results[k]) = "failed"

\* What ends the execution of stages.
Halts(s, e) ==
  \/ Status(e) = "failed" /\ s.stopOnFailure
  \/ Status(e) = "warning" /\ ~s.continueOnWarning
  \/ Status(e) = "infra_error"

\* Variant: halted is forgotten.
SkipsUnhalted == stage[next].runIfNoCritical /\ HasCriticalFailure

Skips == halted \/ (stage[next].runIfNoCritical /\ HasCriticalFailure)

Skip ==
  /\ pc = "running" /\ next <= N /\ Skips
  /\ next' = next + 1
  /\ results' = Append(results, "skip")
  /\ UNCHANGED <<stage, halted, runs, pc>>

\* Variant: one try too many.
ExecuteOnceMore ==
  /\ pc = "running" /\ next <= N /\ ~Skips
  /\ runs' = [runs EXCEPT ![next] = @ + 1]
  /\ \E e \in Events :
       IF Status(e) = "infra_error" /\ runs[next] <= stage[next].retries
         THEN UNCHANGED <<next, results, halted>>
         ELSE /\ next' = next + 1
              /\ results' = Append(results, e)
              /\ halted' = (halted \/ Halts(stage[next], e))
  /\ UNCHANGED <<stage, pc>>

\* Variant: the status is kept in the place of the result.
ExecuteStatus ==
  /\ pc = "running" /\ next <= N /\ ~Skips
  /\ runs' = [runs EXCEPT ![next] = @ + 1]
  /\ \E e \in Events :
       /\ next' = next + 1
       /\ results' = Append(results, Status(e))
       /\ halted' = (halted \/ Halts(stage[next], e))
  /\ UNCHANGED <<stage, pc>>

\* One execution, and what the runner does with its result.
Execute ==
  /\ pc = "running" /\ next <= N /\ ~Skips
  /\ runs' = [runs EXCEPT ![next] = @ + 1]
  /\ \E e \in Events :
       \/ /\ Status(e) = "infra_error" /\ runs[next] < stage[next].retries
          /\ UNCHANGED <<next, results, halted>>
       \/ /\ Status(e) # "infra_error" \/ runs[next] >= stage[next].retries
          /\ next' = next + 1
          /\ results' = Append(results, e)
          /\ halted' = (halted \/ Halts(stage[next], e))
  /\ UNCHANGED <<stage, pc>>

\* An exception leaves run: a result for another stage, an index or object of
\* the dataset store that cannot be read, a docker rm that does not come back.
Raise ==
  /\ pc = "running" /\ next <= N /\ ~Skips
  /\ pc' = "raised"
  /\ UNCHANGED <<stage, next, results, halted, runs>>

Return ==
  /\ pc = "running" /\ next > N
  /\ pc' = "returned"
  /\ UNCHANGED <<stage, next, results, halted, runs>>

Next == Skip \/ Execute \/ Raise \/ Return

Spec == Init /\ [][Next]_vars
-----------------------------------------------------------------------------
(* aggregate_stage_results                                                 *)

InfraFailed == \E k \in DOMAIN results : Status(results[k]) = "infra_error"

\* Variant: the student is blamed first.
OutcomeChecksFirst == IF HasCriticalFailure THEN "checks_failed"
                      ELSE IF InfraFailed THEN "infrastructure_failed" ELSE "passed"

Outcome == IF InfraFailed THEN "infrastructure_failed"
           ELSE IF HasCriticalFailure THEN "checks_failed" ELSE "passed"

\* Variant: infrastructure errors do not count.
LlmEligibleUnfailed == ~HasCriticalFailure

LlmEligible == ~HasCriticalFailure /\ ~InfraFailed
-----------------------------------------------------------------------------
Blocked(i) ==
  \E k \in 1 .. i - 1 :
    \/ Halts(stage[k], results[k])
    \/ stage[i].runIfNoCritical /\ Status(results[k]) = "failed"

\* A stage is skipped exactly when an earlier one ended the pipeline or failed
\* critically, whatever was skipped, retried or tolerated in between: the flag
\* halted, kept from stage to stage (stages.py:120-141), loses nothing.
SkippedIffBlocked ==
  \A i \in DOMAIN results : results[i] = "skip" <=> Blocked(i)

\* An infrastructure error is believed only after every retry, a stage is never
\* tried more often than it allows, and a skipped one not at all
\* (stages.py:126-131).
RetriesExhausted ==
  \A i \in 1 .. N :
    /\ runs[i] <= stage[i].retries + 1
    /\ i \in DOMAIN results =>
         /\ Status(results[i]) = "infra_error" => runs[i] = stage[i].retries + 1
         /\ runs[i] = 0 <=> results[i] = "skip"

\* The LLM sees only work of which every stage ran, except where the laboratory
\* itself ends the pipeline at a warning (stages.py:138, 152).
EligibleWorkWasRun ==
  pc = "returned" /\ LlmEligible =>
    \A i \in 1 .. N : results[i] = "skip" =>
      \E k \in 1 .. i - 1 :
        Status(results[k]) = "warning" /\ ~stage[k].continueOnWarning

\* The student's work is blamed only for a pipeline that met no infrastructure
\* error, and no stage ran after the error (stages.py:140, 150).
InfraErrorDecides ==
  \A k \in DOMAIN results : Status(results[k]) = "infra_error" =>
    /\ Outcome = "infrastructure_failed"
    /\ \A i \in k + 1 .. Len(results) : results[i] = "skip"

\* "failed means an error of the student's solution. infra_error is never
\* counted as the student's error" (docs/universal-grader.md:30-31).
FailedMeansStudent ==
  \A i \in DOMAIN results :
    Status(results[i]) = "failed" => results[i] \in {"exit", "timeout"}
=============================================================================
