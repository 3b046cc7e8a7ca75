SPECIFICATION Spec
CONSTANTS
  Item <- MCItem
  Letter <- MCLetter
  Request <- TwoLarge
  BeamWidth = 1
  MaxDepth = 2
  TopK = 3
  Gap = 1
  Scores = {0, 1}
  Actives <- MCActives
  PinSets <- MCPinSets
  Quota = 2
INVARIANT AllReachable
CHECK_DEADLOCK FALSE
