SPECIFICATION FairSpec
CONSTANTS
  w1 = w1
  j1 = j1
  t1 = t1
  t2 = t2
  Workers = {w1}
  Jobs = {j1}
  Installed = {j1}
  Tokens = {t1, t2}
  NoToken = NoToken
  NoJob = NoJob
  MaxRounds = 1
  Equipped = {}
  MaxFaults = 0
PROPERTIES
  PassedGateIsAssessed
