-------------------------- MODULE MCReviewSession --------------------------
(***************************************************************************)
(* A small instance of ReviewSession: answers that observe nothing, one    *)
(* thing, or one id twice, that ask or close, and one for each reason a    *)
(* validator turns an answer down.                                         *)
(***************************************************************************)
EXTENDS ReviewSession, TLC

CONSTANTS w1, w2

Symmetry == Permutations({w1, w2})

See(id, severity) == [id |-> id, severity |-> severity]
Says(evidence, next) ==
  [stage |-> "final", number |-> 0, evidence |-> evidence, next |-> next, cites |-> {}]
About(n, next, cites) ==
  [Says(<<See("b", "positive")>>, next) EXCEPT
     !.stage = "answer_evaluation", !.number = n, !.cites = cites]

TheReviewAnswers ==
  {Malformed,
   Says(<<>>, "ask_student"), Says(<<>>, "finalize"),
   Says(<<See("a", "warning")>>, "ask_student"),
   Says(<<See("a", "positive")>>, "finalize"),
   Says(<<See("a", "warning"), See("a", "positive")>>, "ask_student"),
   Says(<<See("a", "critical")>>, "finalize"),
   Says(<<See("check", "warning")>>, "finalize"),
   About(1, "ask_student_again", {"student_answer:1"}),
   About(2, "finalize", {"student_answer:2", "b"}),
   About(1, "finalize", {"student_answer:2", "check"})}

TheRubric == [code |-> [min |-> 0, max |-> 4, step |-> 2],
              talk |-> [min |-> 1, max |-> 3, step |-> 1]]

Scores(code, talk, cited, total) ==
  [scores |-> [code |-> code, talk |-> talk], total |-> total,
   cites |-> [code |-> {"check"}, talk |-> cited]]

TheAssessmentAnswers ==
  {Malformed,
   Scores(4, 3, {"check"}, 7), Scores(2, 1, {"a", "b"}, 3),
   Scores(3, 1, {"check"}, 4), Scores(4, 3, {"check"}, 4), Scores(4, 3, {}, 7),
   [Scores(4, 3, {"check"}, 4) EXCEPT !.scores = [code |-> 4]]}
=============================================================================
