SPECIFICATION Spec
CONSTANTS
  create = create
  bulk = bulk
  rival = rival
  move = move
  twin = twin
  back = back
  remove = remove
  grid = grid
  drop = drop
  hall = hall
  r1 = r1
  r2 = r2
  Places = {hall, r1, r2}
  None = None
  Requests = {create, twin}
  Body <- MCBody
  MaxCalls = 3
  MaxFaults = 0
INVARIANT NoOverlap
CHECK_DEADLOCK FALSE
