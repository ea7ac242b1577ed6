SPECIFICATION FairSpec
CONSTANTS
  blotter = blotter  clearance = clearance
  f1 = f1  f2 = f2  f3 = f3
  Registers = {blotter}
  CertTypes = {clearance}
  Filers = {f1, f2}
  MaxYear = 1
  MaxNumber = 3
INVARIANTS TypeOK CountersMatch
PROPERTIES NumbersInOrder EveryFilingAnswered
CHECK_DEADLOCK FALSE
