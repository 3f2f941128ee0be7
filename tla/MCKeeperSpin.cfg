SPECIFICATION Spec
CONSTANTS
  Address = {a1, a2}
  Socket = {m1}
  Server = {s1, s2}
  ServerLists = {{s1}, {s2}}
  INDEX_REFRESH = 2
  INDEX_TTL = 3
  RETRY = 1
  PublishSecs = 1
  MaxChanges = 3
  Settles = FALSE
  Prompt = FALSE
  None = None
  Hash = {x1}
  Permits = 1

PROPERTIES NeverSpins
SYMMETRY Symmetry
