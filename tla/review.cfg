SPECIFICATION Spec
CONSTANTS
  w1 = w1
  w2 = w2
  Attempts = {w1, w2}
  Nobody = Nobody
  Malformed = Malformed
  Providers = 2
  MaxRounds = 2
  ReviewerIds = {"a", "b"}
  Checks = {"check"}
  Rubric <- TheRubric
  ReviewAnswers <- TheReviewAnswers
  AssessmentAnswers <- TheAssessmentAnswers
SYMMETRY Symmetry
INVARIANTS
  TypeOK
  PriorEvidenceKept
  CitationsResolve
  AnswersInOrder
  CorrectionsInPlace
  NoHalfSearch
PROPERTY TranscriptSpec
CHECK_DEADLOCK FALSE
