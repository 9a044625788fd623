SPECIFICATION Spec
CONSTANTS
  p1 = p1
  p2 = p2
  r1 = r1
  d1 = d1
  None = None
  Partitions = {p1, p2}
  Log <- MCLog
  DefaultRules <- MCDefaultRules
  RuleEdits <- MCRuleEdits
  PublishRetries = 2
  MaxFaults = 1
  MaxCalls = 0
INVARIANT ZeroLoss
