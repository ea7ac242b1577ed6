CONSTANTS
  r1 = r1
  r2 = r2
  status = status
  remarks = remarks
  x = x
  y = y
  Ids = {r1, r2, r3}
  Keys = {k1}
  NoKey = NoKey
  Fields = {status, remarks}
  Values = {x, y}
  Default = x
  Refused = Refused
  Unset = Unset
  Handlers = {h1, h2}
  Workers = {w1, w2}
  Mixes <- MCMixes
  Bodies <- MCBodies
  MaxTime = 2
  PageSize = 1
SPECIFICATION FairSpec
CHECK_DEADLOCK FALSE
INVARIANTS TypeOK OneRowPerKey WalkMisses WalkRepeats
PROPERTIES PatchTakesEffect OnlyAskedFields DeletedForEver EveryRequestEnds OldRowsGo
