SPECIFICATION FairSpec
CONSTANTS
  r1 = r1
  r2 = r2
  d1 = d1
  h1 = h1
  f1 = f1
  None = None
  Racks = {r1, r2}
  Devices = {d1}
  Sites = {h1, f1}
  TopologyLog <- MCTopologyLog
  ManualEdges <- MCManualEdges
  MaxFaults = 1
  MaxCalls = 1
INVARIANT TypeOK Agree EdgesHaveEnds ReplayConverges
PROPERTY LogConsumed
CHECK_DEADLOCK FALSE
