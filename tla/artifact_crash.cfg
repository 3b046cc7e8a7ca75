SPECIFICATION FairSpec
CONSTANTS
  t1 = t1  t2 = t2  h1 = h1  h2 = h2  small = small  large = large
  None = None
  Thread = {t1, t2}
  Handle = {h1, h2}
  Content = {small, large}
  SizeOf <- Sizes
  Scrub <- NoScrub
  MaxBytes = 3
  MaxArtifacts = 1
  Ttl = 1
  MaxClock = 2
  MaxCrashes = 1
  MaxIoErrors = 1
INVARIANTS FilesPaired CountWithinQuota
PROPERTIES  OperationsEnd
