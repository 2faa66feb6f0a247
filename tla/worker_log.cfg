SPECIFICATION Spec
CONSTANTS
  NoEvent = NoEvent
  r1 = r1
  r2 = r2
  r3 = r3
  Requests = {r1, r2, r3}
  i1 = i1
  i2 = i2
  Isolates = {i1, i2}
  MaxTime = 2
  MaxRestarts = 1
SYMMETRY Symmetry
INVARIANTS
  TypeOK
  IInv
  AnsweredIsStored
  LatestIsFresh
CHECK_DEADLOCK FALSE
