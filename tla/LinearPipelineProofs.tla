------------------------ MODULE LinearPipelineProofs ------------------------
(***************************************************************************)
(* The runner's guarantees for pipelines of every length and every         *)
(* combination of stage options.  Inv says what the flag halted stands for *)
(* and that nothing of a stage has happened before its turn.               *)
(***************************************************************************)
EXTENDS LinearPipeline, TLAPS

USE NAssumption, MaxRetriesAssumption

Statuses == {"passed", "warning", "failed", "infra_error", "skipped"}

HaltedMeans == halted <=> \E k \in DOMAIN results : Halts(stage[k], results[k])

InTurn ==
  /\ \A i \in 1 .. N :
       /\ runs[i] <= stage[i].retries + 1
       /\ i \in DOMAIN results =>
            /\ Status(results[i]) = "infra_error" => runs[i] = stage[i].retries + 1
            /\ runs[i] = 0 <=> results[i] = "skip"
       /\ i >= next => runs[i] <= stage[i].retries
       /\ i > next => runs[i] = 0
  /\ next <= N /\ runs[next] > 0 => ~Skips

\* The loop's index counts the results: every stage that was passed left one.
Indexed == next = Len(results) + 1

Inv == TypeOK /\ Indexed /\ HaltedMeans /\ SkippedIffBlocked /\ InTurn

\* What the end of a list of results is after one more.
LEMMA Appended ==
  ASSUME NEW S, NEW s \in Seq(S), NEW e \in S
  PROVE  /\ Append(s, e) \in Seq(S)
         /\ Len(Append(s, e)) = Len(s) + 1
         /\ DOMAIN Append(s, e) = 1 .. Len(s) + 1
         /\ \A i \in 1 .. Len(s) : Append(s, e)[i] = s[i]
         /\ Append(s, e)[Len(s) + 1] = e
         /\ DOMAIN s = 1 .. Len(s) /\ Len(s) \in Nat
  OBVIOUS

\* Nothing has run at the start.
LEMMA InvInit == Init => Inv
  <1> SUFFICES ASSUME Init
               PROVE  Inv
    OBVIOUS
  <1>1. results = <<>> /\ Len(results) = 0 /\ DOMAIN results = {}
    BY DEF Init
  <1>2. TypeOK
    <2>0. next \in 1 .. N + 1
      BY DEF Init
    <2>1. results \in Seq(Events \cup {"skip"})
      BY DEF Init
    <2>2. runs \in [1 .. N -> Nat]
      BY DEF Init
    <2>3. Len(results) <= N
      BY <1>1
    <2>4. halted \in BOOLEAN
      BY Zenon DEF Init
    <2> QED
      BY <2>0, <2>1, <2>2, <2>3, <2>4, Zenon DEF Init, TypeOK
  <1>3. \A i \in 1 .. N : stage[i].retries \in Nat
    BY DEF Init, StageConfig
  <1>4. InTurn
    BY <1>1, <1>3 DEF Init, InTurn
  <1> QED
    BY <1>1, <1>2, <1>4 DEF Init, Inv, Indexed, HaltedMeans, SkippedIffBlocked

\* One more result keeps the flag and the skipped stages in step.
LEMMA AppendKeeps ==
  ASSUME Inv, pc = "running", next <= N, NEW e \in Events \cup {"skip"},
         next' = next + 1, results' = Append(results, e), UNCHANGED <<stage, pc>>,
         halted' = (halted \/ Halts(stage[next], e)),
         e = "skip" <=> Skips,
         runs' \in [1 .. N -> Nat]
  PROVE  TypeOK' /\ Indexed' /\ HaltedMeans' /\ SkippedIffBlocked'
  <1> DEFINE n == Len(results)
  <1>1. /\ results' \in Seq(Events \cup {"skip"}) /\ Len(results') = n + 1
        /\ DOMAIN results' = 1 .. n + 1 /\ DOMAIN results = 1 .. n /\ n \in Nat
        /\ \A i \in 1 .. n : results'[i] = results[i]
        /\ results'[n + 1] = e
    BY Appended DEF Inv, TypeOK
  <1>2. next = n + 1 /\ n + 1 <= N /\ next' = n + 2
    BY <1>1 DEF Inv, Indexed
  <1>3. TypeOK' /\ Indexed'
    BY <1>1, <1>2 DEF Inv, TypeOK, Indexed
  <1>4. HaltedMeans'
    <2>1. halted <=> \E k \in 1 .. n : Halts(stage[k], results'[k])
      BY <1>1 DEF Inv, HaltedMeans
    <2>2. halted' <=> halted \/ Halts(stage[n + 1], results'[n + 1])
      BY <1>1, <1>2 DEF Inv, TypeOK, Halts
    <2>3. \A k : k \in 1 .. n + 1 <=> k \in 1 .. n \/ k = n + 1
      BY <1>1
    <2>4. halted' <=> \E k \in 1 .. n + 1 : Halts(stage[k], results'[k])
      BY <2>1, <2>2, <2>3, Zenon
    <2> QED
      BY <1>1, <2>4 DEF HaltedMeans, Halts
  <1>5. Skips <=> Blocked(n + 1)
    <2> DEFINE critical == stage[n + 1].runIfNoCritical
    <2>1. halted <=> \E k \in 1 .. n : Halts(stage[k], results[k])
      BY <1>1 DEF Inv, HaltedMeans
    <2>2. HasCriticalFailure <=> \E k \in 1 .. n : Status(results[k]) = "failed"
      BY <1>1 DEF HasCriticalFailure
    <2>3. Skips <=> halted \/ (critical /\ HasCriticalFailure)
      BY <1>2, Zenon DEF Skips
    <2>4. Blocked(n + 1) <=> \E k \in 1 .. n :
           Halts(stage[k], results[k]) \/ (critical /\ Status(results[k]) = "failed")
      <3>1. 1 .. (n + 1) - 1 = 1 .. n
        BY <1>1
      <3> QED
        BY <3>1, SMT DEF Blocked
    <2> QED
      BY <2>1, <2>2, <2>3, <2>4, Zenon
  <1>6. ASSUME NEW i \in 1 .. n + 1
        PROVE  Blocked(i)' <=> Blocked(i)
    BY <1>1 DEF Blocked, Halts
  <1>7. SkippedIffBlocked'
    BY <1>1, <1>5, <1>6 DEF Inv, SkippedIffBlocked
  <1> QED
    BY <1>3, <1>4, <1>7

\* A result whose stage ran as it should leaves the others in turn.
LEMMA OthersInTurn ==
  ASSUME Inv, NEW n \in Nat, n = Len(results), n + 1 <= N, stage' = stage, next' = n + 2,
         DOMAIN results' = 1 .. n + 1, \A i \in 1 .. n : results'[i] = results[i],
         \A i \in 1 .. N \ {n + 1} : runs'[i] = runs[i],
         runs'[n + 1] <= stage[n + 1].retries + 1,
         Status(results'[n + 1]) = "infra_error" => runs'[n + 1] = stage[n + 1].retries + 1,
         runs'[n + 1] = 0 <=> results'[n + 1] = "skip"
  PROVE  InTurn'
  <1>1. next = n + 1 /\ DOMAIN results = 1 .. n
    BY DEF Inv, TypeOK, Indexed
  <1>2. \A i \in 1 .. N : stage[i].retries \in Nat /\ runs[i] \in Nat
    BY DEF Inv, TypeOK, StageConfig
  <1>3. ASSUME NEW i \in 1 .. N
        PROVE  /\ runs'[i] <= stage[i].retries + 1
               /\ i \in 1 .. n + 1 =>
                    /\ Status(results'[i]) = "infra_error" => runs'[i] = stage[i].retries + 1
                    /\ runs'[i] = 0 <=> results'[i] = "skip"
               /\ i >= n + 2 => runs'[i] = 0
    <2>1. CASE i = n + 1
      BY <2>1
    <2>2. CASE i <= n
      <3>1. i \in 1 .. n
        BY <2>2
      <3> QED
        BY <1>1, <2>2, <3>1 DEF Inv, InTurn
    <2>3. CASE i > n + 1
      BY <1>1, <1>2, <2>3 DEF Inv, InTurn
    <2> QED
      BY <2>1, <2>2, <2>3
  <1> QED
    BY <1>2, <1>3 DEF InTurn

\* Every step of the runner keeps the invariant.
LEMMA InvNext == Inv /\ [Next]_vars => Inv'
  <1> SUFFICES ASSUME Inv, [Next]_vars
               PROVE  Inv'
    OBVIOUS
  <1> DEFINE n == Len(results)
  <1>1. /\ n \in Nat /\ next = n + 1 /\ DOMAIN results = 1 .. n
        /\ \A i \in 1 .. N : stage[i].retries \in Nat /\ runs[i] \in Nat
    BY DEF Inv, TypeOK, Indexed, StageConfig
  <1>2. CASE Skip
    <2>1. runs[next] = 0
      BY <1>1, <1>2 DEF Skip, Inv, InTurn
    <2>2. ~Halts(stage[next], "skip") /\ Status("skip") = "skipped"
      BY DEF Halts, Status
    <2>3. TypeOK' /\ Indexed' /\ HaltedMeans' /\ SkippedIffBlocked'
      BY <1>2, <2>2, AppendKeeps DEF Skip, Inv, TypeOK
    <2>4. /\ Len(results') = n + 1 /\ DOMAIN results' = 1 .. n + 1
          /\ \A i \in 1 .. n : results'[i] = results[i]
          /\ results'[n + 1] = "skip"
      BY <1>2, Appended DEF Skip, Inv, TypeOK
    <2>5. runs' = runs /\ stage' = stage /\ next' = n + 2
      BY <1>1, <1>2, <2>4 DEF Skip
    <2>6. InTurn'
      <3>1. n + 1 \in 1 .. N /\ runs'[n + 1] = 0 /\ 0 <= stage[n + 1].retries + 1
        BY <1>1, <1>2, <2>1, <2>5 DEF Skip
      <3>2. Status(results'[n + 1]) # "infra_error"
        BY <2>2, <2>4
      <3>3. runs'[n + 1] = 0 <=> results'[n + 1] = "skip"
        BY <2>4, <3>1
      <3>4. \A i \in 1 .. N \ {n + 1} : runs'[i] = runs[i]
        BY <2>5
      <3>5. n + 1 <= N /\ runs'[n + 1] <= stage[n + 1].retries + 1
        BY <1>1, <3>1
      <3> QED
        BY <1>1, <2>4, <2>5, <3>2, <3>3, <3>4, <3>5, OthersInTurn
    <2> QED
      BY <2>3, <2>6 DEF Inv
  <1>3. CASE Execute
    <2>1. runs' = [runs EXCEPT ![n + 1] = @ + 1] /\ runs' \in [1 .. N -> Nat] /\ n + 1 <= N
      BY <1>1, <1>3 DEF Execute, Inv, TypeOK
    <2>2. ASSUME UNCHANGED <<next, results, halted, stage, pc>>, runs[n + 1] < stage[n + 1].retries
          PROVE  Inv'
      <3>1. TypeOK' /\ Indexed' /\ HaltedMeans' /\ SkippedIffBlocked'
        BY <2>1, <2>2 DEF Inv, TypeOK, Indexed, HaltedMeans, SkippedIffBlocked, Halts, Blocked
      <3>2. ~Skips'
        BY <1>3, <2>2 DEF Execute, Skips, HasCriticalFailure
      <3>3. InTurn'
        BY <1>1, <2>1, <2>2, <3>2 DEF Inv, InTurn
      <3> QED
        BY <3>1, <3>3 DEF Inv
    <2>3. ASSUME NEW e \in Events, next' = next + 1, results' = Append(results, e),
                 Status(e) # "infra_error" \/ runs[n + 1] >= stage[n + 1].retries,
                 halted' = (halted \/ Halts(stage[next], e)), UNCHANGED <<stage, pc>>
          PROVE  Inv'
      <3>1. e # "skip" /\ pc = "running" /\ next <= N /\ ~Skips
        BY <1>3, <2>3 DEF Execute, Events
      <3>2. TypeOK' /\ Indexed' /\ HaltedMeans' /\ SkippedIffBlocked'
        BY <2>1, <2>3, <3>1, AppendKeeps
      <3>3. /\ Len(results') = n + 1 /\ DOMAIN results' = 1 .. n + 1
            /\ \A i \in 1 .. n : results'[i] = results[i]
            /\ results'[n + 1] = e
        BY <2>3, Appended DEF Inv, TypeOK
      <3>4. InTurn'
        <4>1. next' = n + 2 /\ stage' = stage /\ runs'[n + 1] = runs[n + 1] + 1
          BY <1>1, <2>1, <2>3, <3>3 DEF Inv, TypeOK
        <4>2. \A i \in 1 .. N \ {n + 1} : runs'[i] = runs[i]
          BY <2>1 DEF Inv, TypeOK
        <4>3. /\ runs[n + 1] <= stage[n + 1].retries
              /\ Status(e) = "infra_error" => runs[n + 1] = stage[n + 1].retries
          BY <1>1, <2>1, <2>3 DEF Inv, InTurn
        <4>4. /\ runs'[n + 1] <= stage[n + 1].retries + 1 /\ runs'[n + 1] # 0
              /\ Status(results'[n + 1]) = "infra_error"
                   => runs'[n + 1] = stage[n + 1].retries + 1
              /\ results'[n + 1] # "skip"
          BY <1>1, <2>1, <3>1, <3>3, <4>1, <4>3
        <4> QED
          BY <1>1, <2>1, <3>3, <4>1, <4>2, <4>4, OthersInTurn
      <3> QED
        BY <3>2, <3>4 DEF Inv
    <2> QED
      BY <1>1, <1>3, <2>2, <2>3 DEF Execute
  <1>4. CASE Raise \/ Return \/ UNCHANGED vars
    <2>1. UNCHANGED <<stage, next, results, halted, runs>> /\ pc' \in {"running", "returned", "raised"}
      BY <1>4 DEF Raise, Return, vars, Inv, TypeOK
    <2>2. TypeOK' /\ Indexed' /\ HaltedMeans' /\ SkippedIffBlocked'
      BY <2>1 DEF Inv, TypeOK, Indexed, HaltedMeans, SkippedIffBlocked, Halts, Blocked
    <2>3. InTurn'
      BY <2>1 DEF Inv, InTurn, Skips, HasCriticalFailure
    <2> QED
      BY <2>2, <2>3 DEF Inv
  <1> QED
    BY <1>2, <1>3, <1>4 DEF Next

\* The invariant holds of every run.
LEMMA Invariance == Spec => []Inv
  BY InvInit, InvNext, PTL DEF Spec

\* The runner's variables have their types in pipelines of every length.
THEOREM PipelineTypeCorrect == Spec => []TypeOK
  BY Invariance, PTL DEF Inv

\* Stages are skipped exactly when the pipeline is blocked.
THEOREM SkipsAreExact == Spec => []SkippedIffBlocked
  BY Invariance, PTL DEF Inv

\* Retries stay within what the stage allows, and an infrastructure error is
\* the last word only after all of them.
THEOREM RetriesAreExact == Spec => []RetriesExhausted
  <1>1. Inv => RetriesExhausted
    BY DEF Inv, InTurn, RetriesExhausted
  <1> QED
    BY <1>1, Invariance, PTL

\* An infrastructure error decides the outcome and is the last thing that runs.
THEOREM InfraErrorIsFinal == Spec => []InfraErrorDecides
  <1>1. Inv => InfraErrorDecides
    <2> SUFFICES ASSUME Inv, NEW k \in DOMAIN results, Status(results[k]) = "infra_error",
                        NEW i \in k + 1 .. Len(results)
                 PROVE  results[i] = "skip"
      BY DEF InfraErrorDecides, Outcome, InfraFailed
    <2>1. DOMAIN results = 1 .. Len(results) /\ Len(results) \in Nat
      BY DEF Inv, TypeOK
    <2>2. Blocked(i)
      BY <2>1 DEF Blocked, Halts
    <2> QED
      BY <2>1, <2>2 DEF Inv, SkippedIffBlocked
  <1> QED
    BY <1>1, Invariance, PTL

\* Work the LLM may see was run in full, or ended by a warning.
THEOREM EligibleWork == Spec => []EligibleWorkWasRun
  <1> DEFINE Full == pc = "returned" => Len(results) = N
  <1>1. Init => Full
    BY DEF Init
  <1>2. Inv /\ Full /\ [Next]_vars => Full'
    <2> SUFFICES ASSUME Inv, Full, [Next]_vars, pc' = "returned"
                 PROVE  Len(results') = N
      OBVIOUS
    <2>1. CASE Return
      BY <2>1 DEF Return, Inv, TypeOK, Indexed
    <2> QED
      BY <2>1 DEF Next, Skip, Execute, Raise, vars
  <1>3. Inv /\ Full => EligibleWorkWasRun
    <2> SUFFICES ASSUME Inv, Len(results) = N, LlmEligible, NEW i \in 1 .. N, results[i] = "skip"
                 PROVE  \E k \in 1 .. i - 1 :
                          Status(results[k]) = "warning" /\ ~stage[k].continueOnWarning
      BY DEF EligibleWorkWasRun
    <2>1. DOMAIN results = 1 .. N
      BY DEF Inv, TypeOK
    <2>2. Blocked(i)
      BY <2>1 DEF Inv, SkippedIffBlocked
    <2>3. \A k \in 1 .. N : Status(results[k]) \notin {"failed", "infra_error"}
      BY <2>1 DEF LlmEligible, HasCriticalFailure, InfraFailed
    <2> QED
      BY <2>2, <2>3 DEF Blocked, Halts
  <1> HIDE DEF Full
  <1>4. Spec => []Full
    BY <1>1, <1>2, Invariance, PTL DEF Spec
  <1> QED
    BY <1>3, <1>4, Invariance, PTL
=============================================================================
