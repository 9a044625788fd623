SPECIFICATION FairSpec
CONSTANTS
  create = create
  bulk = bulk
  rival = rival
  move = move
  twin = twin
  back = back
  remove = remove
  grid = grid
  drop = drop
  hall = hall
  r1 = r1
  r2 = r2
  Places = {hall, r1, r2}
  None = None
  Requests = {create, bulk, rival, move, back, remove, grid, drop}
  Body <- MCBody
  MaxCalls = 3
  MaxFaults = 1
INVARIANT TypeOK TopicTells EventsAreTrue BulkPlacement
PROPERTY RequestsEnd
CHECK_DEADLOCK FALSE
