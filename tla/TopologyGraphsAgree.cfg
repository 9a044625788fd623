SPECIFICATION Spec
CONSTANTS
  r1 = r1
  r2 = r2
  d1 = d1
  h1 = h1
  f1 = f1
  None = None
  Racks = {r1, r2}
  Devices = {d1}
  Sites = {h1, f1}
  TopologyLog <- MCShortTopologyLog
  ManualEdges = {}
  MaxFaults = 0
  MaxCalls = 0
INVARIANT GraphsAgree
CHECK_DEADLOCK FALSE
