SPECIFICATION Spec
CONSTANTS
  r1 = r1
  r2 = r2
  d1 = d1
  z1 = z1
  None = None
  Racks = {r1, r2}
  Devices = {d1}
  Zones = {z1}
  Incoming <- MCOneIncoming
  Rulebook <- MCRulebook
  TopologyLog <- MCTopologyLog
  Observations = {10, 46}
  MaxRetries = 1
  MaxFaults = 1
  MaxCalls = 0
INVARIANT NoRedundantExecution
CHECK_DEADLOCK FALSE
