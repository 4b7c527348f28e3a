------------------------- MODULE MCLocalSubmission -------------------------
(***************************************************************************)
(* A small instance of LocalSubmission: two checks of two cases each, a  *)
(* submission for each way of the harness, one that the server refuses,    *)
(* and two that share a digest.                                            *)
(***************************************************************************)
EXTENDS LocalSubmission

CONSTANTS right, recursive, forbidden, incomplete, huge

TheDigest(c) == IF c \in {right, forbidden} THEN "d1" ELSE "d2"
TheIdioms(c) == IF c = recursive THEN {2} ELSE {}
TheCases == <<2, 2>>
TheIdiomIds == <<"set", "recursion">>

Handler(emits, nominates, returns) ==
  [event |-> "submission.finalized", emits |-> emits, nominates |-> nominates, returns |-> returns]
Lab(handlers) == [allowed |-> {"all"}, handlers |-> handlers]
All == [id |-> "all", evidence |-> CheckEvidence]

Lab1 == Lab(<<Handler({"all"}, <<All>>, <<>>)>>)
UnknownEvidence == Lab(<<Handler({"all"}, <<[All EXCEPT !.evidence = {Evidence("check", 3)}]>>, <<>>)>>)
Returned(id, evidence) == [id |-> id, source |-> "grader", evidence |-> evidence]
ReturnsItself == Lab(<<Handler({}, <<All>>, <<Returned("set", {Evidence("check", 3)}), Returned("first", CheckEvidence)>>),
                       [Handler({}, <<>>, <<Returned("set", {})>>) EXCEPT !.event = "check.finished"]>>)
ReturnsUnfounded == Lab(<<Handler({}, <<>>, <<Returned("all", {})>>)>>)
TooMany == Lab(<<Handler({}, <<All, All, All, All>>, <<>>)>>)

Definition(id, sources) ==
  [id |-> id, sources |-> sources, source |-> "any", outcome |-> "any", eventKind |-> "any", event |-> "any"]
TheDefinitions ==
  {Definition("all", {"pipeline", "grader"}), Definition("recursion", {"pipeline"}),
   Definition("set", {"pipeline"}),
   [Definition("first", {"grader"}) EXCEPT !.event = "first_submission_passed"],
   [Definition("killed", {"runtime"}) EXCEPT !.eventKind = "memory_or_termination"],
   [Definition("failed", {"runtime"}) EXCEPT !.outcome = "tests_failed"]}

Job(lab, attempt, definitions) == [lab |-> lab, attempt |-> attempt, definitions |-> definitions]
TheJobs ==
  {Job(Lab1, 1, TheDefinitions), Job(Lab1, 2, TheDefinitions),
   Job(Lab1, 1, {Definition("recursion", {"grader"})}),
   Job(UnknownEvidence, 1, TheDefinitions), Job(ReturnsItself, 1, TheDefinitions),
   Job(TooMany, 1, TheDefinitions), Job(ReturnsUnfounded, 1, TheDefinitions)}
=============================================================================
