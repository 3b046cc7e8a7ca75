SPECIFICATION Spec
CONSTANTS
  u1 = u1  c1 = c1  r1 = r1
  x1 = x1
  None = None
  Item = {u1, c1, r1}
  Slice = {x1}
  KindOf <- ChainKind
  ParentOf <- ChainParent
  Phases <- TwoPhases
  Level = {0, 1}
  Floor = 1
  Detected = {2}
  Cost <- Costs
  Budget = 7
  Headers = {0, 3}
  KindLimit = 1
  Mode <- Modes
  MaxData = 3
PROPERTY RawSurvivesBuild
CHECK_DEADLOCK FALSE
