SPECIFICATION FairSpec
CONSTANTS
  t1 = t1  r1 = r1  a = a  b = b  n1 = n1  n2 = n2  v1 = v1  v2 = v2  v3 = v3  x = x  y = y
  None = None
  Name = {n1, n2}
  Variant = {v1, v2, v3}
  Id = {a, b}
  Arg = {x, y}
  Task = {t1}
  Refresher = {r1}
  Place <- Places
  ToolId <- SameIdIds
  ReadOnly = {v1}
  Malformed = {v3}
  Broken = {}
  Denied = {}
  Accepts <- Arguments
  RaiseInvalid = TRUE
  Admitted = {a}
  Ttl = 1
  MaxEntries = 1
  MaxAttempts = 2
  MaxClock = 1
  MaxChanges = 1
INVARIANTS  DispatchedAsChecked
PROPERTY ExecuteEnds
