SPECIFICATION FairSpec
CONSTANTS
  w1 = w1
  w2 = w2
  j1 = j1
  t1 = t1
  t2 = t2
  Workers = {w1, w2}
  Jobs = {j1}
  Installed = {j1}
  Tokens = {t1, t2}
  NoToken = NoToken
  NoJob = NoJob
  MaxRounds = 3
  Equipped = {w1}
  MaxFaults = 3
INVARIANTS
  TypeOK
  NoVerdictWithoutReview
  KnownTroubleNeverFailsStudent
  RoundsBounded
  LlmOnlyAfterGate
  NoDuplicateGrading
PROPERTIES
  EveryJobGetsVerdict
  EveryAnswerIsHeard
  PromiseSpec
