SPECIFICATION Spec
CONSTANTS
  a1 = a1
  a2 = a2
  a3 = a3
  r1 = r1
  r2 = r2
  s1 = s1
  Attempts = {a1, a2, a3}
  Ids = {r1, r2, s1}
  NoId = NoId
  Cost <- Costs
  Budget = 3
  MaxDay = 1
SYMMETRY Symmetry
INVARIANTS
  TypeOK
  BudgetKept
  CoveredCalls
  AnsweredStaysCounted
