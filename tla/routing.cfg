SPECIFICATION SpecParts
CONSTANTS
  Item <- MCItem
  Letter <- MCLetter
  Request <- MCRequest
  BeamWidth = 1
  MaxDepth = 2
  TopK = 3
  Gap = 1
  Scores = {0, 1}
  Actives <- MCActives
  PinSets <- MCPinSets
  Quota = 2
  None = None
  Node = {1, 2, 3}
  NodeRoot = 1
  Process = {"p1", "p2"}
  Corpus = {"c1", "c2"}
  Version = {1, 2}
  MaxEntries = 1
  MaxFits = 4
  Sources = 2
  Uri = {"uri"}
  Prompt = {"prompt"}
  Tool = {"tool"}
  Content = {"x", "y"}
  Client = {"c1"}
  Refresher = {"r1", "r2"}
  MaxChanges = 1
  MaxCalls = 2
INVARIANTS TreeSound  FilledOrPruned ShortlistFair GraphHolds FitsFresh 
CHECK_DEADLOCK FALSE
