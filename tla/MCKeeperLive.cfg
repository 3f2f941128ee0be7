SPECIFICATION Spec
CONSTANTS
  Address = {a1}
  Socket = {m1}
  Server = {s1, s2}
  ServerLists = {{s1, s2}, {s2}}
  INDEX_REFRESH = 1
  INDEX_TTL = 2
  RETRY = 1
  PublishSecs = 1
  MaxChanges = 2
  Settles = FALSE
  Prompt = FALSE
  None = None
  Hash = {x1}
  Permits = 1

PROPERTIES GoesAheadOnlyIfHeld
