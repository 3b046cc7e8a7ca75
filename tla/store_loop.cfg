SPECIFICATION FairParts
CONSTANTS
  c1 = c1  c2 = c2  a = a
  None = None
  Caller = {c1, c2}
  Id = {a}
  Workers = 2
  MaxOps = 3
INVARIANTS OneAtATime IntactUnlessGivenUp
PROPERTIES NothingHeld 
CHECK_DEADLOCK FALSE
