SPECIFICATION Spec
CONSTANTS
  right = right
  recursive = recursive
  forbidden = forbidden
  incomplete = incomplete
  huge = huge
  Uploads = {"u1"}
  TheUpload = "u1"
  Contents = {right, recursive, forbidden, incomplete, huge}
  Submissions = {right, recursive, forbidden, incomplete, huge}
  Acceptable = {right, recursive, forbidden, incomplete}
  Findings = {forbidden}
  Problems = {forbidden, incomplete}
  Digests = {"d1", "d2"}
  Digest <- TheDigest
  Absent = Absent
  Nothing = Nothing
  MaxActions = 3
  Checks = 2
  Cases <- TheCases
  Idioms <- TheIdioms
  IdiomId <- TheIdiomIds
  Achievements = {"all", "set", "recursion", "first", "killed", "failed"}
  Jobs <- TheJobs
INVARIANTS
  HandlersValidated
CHECK_DEADLOCK FALSE
