SPECIFICATION Spec
CONSTANTS
  None = None
  Sources = 1
  Uri = {u}
  Prompt = {p}
  Tool = {t}
  Content = {x, y}
  Client = {c1}
  Refresher = {r1}
  MaxChanges = 1
  MaxCalls = 2
INVARIANT RefsTellTheirBytes
CHECK_DEADLOCK FALSE
