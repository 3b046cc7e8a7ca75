SPECIFICATION SpecParts
CONSTANTS
  p3 = p3  s1 = s1  s2 = s2  day = day  night = night
  small = small  large = large  secret = secret
  None = None
  Client = {c1, c2}
  Id = {i1, i2}
  Content = {x, y}
  MaxOps = 4
  MaxFails = 2
  MaxResends = 1
  Writer = {c1, c2}
  ScanLimit = 3
  Given = {0, 1}
  FactOps = 4
  MaxCrashes = 1
  Opener = {p1, p2, p3}
  Store = {s1, s2}
  StoreOf <- MCStoreOf
  Migrations = 2
  Episode <- MCEpisode
  Num = 1
  Den = 4
  MinOccurrences = 2
  MinSessions = 2
  Runner = {p1, p2}
  MaxEpisodes = 3
  MaxWrites = 4
  MaxRuns = 2
  Stored <- MCStored
  Sized <- MCSized
  Redacted <- MCRedacted
  MaxBytes = 3
  MaxArtifacts = 2
  Ttl = 1
  MaxClock = 2
  Lists <- MCLists
  Emptied = emptied
  MaxActs = 3
  MaxMishaps = 1
SYMMETRY Symmetric
INVARIANTS ArtifactsWhole LogWhole FactsKept SchemaWhole MemoryWhole FilesHold
PROPERTY AppendOnly
