SPECIFICATION Spec
CONSTANTS
  s1 = s1  s2 = s2  x = x  y = y  t1 = t1  t2 = t2
  Startup = Startup  None = None
  Source = {s1, s2}
  Tool = {x, y}
  Task = {t1, t2}
  Specs <- TwoSpecs
  Strict = TRUE
  Required = {s1}
  MinHealthy = 1
  FailOnEmpty = TRUE
  Visible = {x}
  Pinned = None
  Debounce = 1
  PerWindow = 1
  Window = 3
  MaxClock = 3
  MaxChanges = 2
INVARIANT ListingIsUnion
CHECK_DEADLOCK FALSE
