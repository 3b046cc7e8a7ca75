SPECIFICATION SpecParts
CONSTANTS
  browse = browse  execute = execute  refund = refund  search = search
  n1 = n1  v1 = v1  v2 = v2  v3 = v3  v4 = v4  id1 = id1  id2 = id2  arg1 = arg1  arg2 = arg2
  t1 = t1  t2 = t2  r1 = r1
  c1 = c1  c2 = c2  c3 = c3
  None = None
  MetaTool = {browse, execute}
  Tool = {refund, search}
  Calls <- Called
  PerMinute <- PerMinuteOf
  PerSession <- PerSessionOf
  Window = 3
  MaxClock = 6
  MaxCalls = 4
  CacheTime = 1
  Client = {c1, c2, c3}
  Limiters = 2
  MinuteLimit = 1
  SessionLimit = 2
  Minute = 2
  MaxTime = 3
  MaxRequests = 5
  Caller = {c1, c2}
  CallCap = 5
  Threshold = 2
  Cooldown = 2
  MaxGuardTime = 5
SYMMETRY Symmetric
INVARIANTS WithinLimits RefusalsTrue  EvictionNeedsCrowd 
