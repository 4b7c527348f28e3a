------------------------- MODULE AssessmentService -------------------------
(***************************************************************************)
(* What the platform, and the student behind it, are promised of the       *)
(* workers, whatever happens to them: a job gets one verdict; a failed one *)
(* is final; a passed one is followed by exactly one assessment, at once   *)
(* or after the student answered the reviewer's questions.                 *)
(***************************************************************************)
CONSTANT Jobs
VARIABLES verdict, assessed

svars == <<verdict, assessed>>

Init ==
  /\ verdict = [j \in Jobs |-> "none"]
  /\ assessed = [j \in Jobs |-> FALSE]

Fail(j) ==
  /\ verdict[j] = "none"
  /\ verdict' = [verdict EXCEPT ![j] = "failed"]
  /\ UNCHANGED assessed

\* The verdict, alone or together with the assessment.
Pass(j) ==
  /\ verdict[j] = "none"
  /\ verdict' = [verdict EXCEPT ![j] = "passed"]
  /\ \E now \in BOOLEAN : assessed' = [assessed EXCEPT ![j] = now]

Assess(j) ==
  /\ verdict[j] = "passed"
  /\ ~assessed[j]
  /\ assessed' = [assessed EXCEPT ![j] = TRUE]
  /\ UNCHANGED verdict

Next == \E j \in Jobs : Fail(j) \/ Pass(j) \/ Assess(j)

Spec == Init /\ [][Next]_svars
=============================================================================
