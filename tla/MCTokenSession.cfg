SPECIFICATION Spec
CONSTANTS
  q1 = q1  q2 = q2
  Sub = 1
  AccessLife = 1
  RefreshLife = 2
  MaxPairs = 2
  MaxTime = 4
  MaxWait = 1
  Requests = {q1, q2}
INVARIANT TypeOK
PROPERTY RevokedTokenRejected
SYMMETRY MCSymmetry
CHECK_DEADLOCK FALSE
