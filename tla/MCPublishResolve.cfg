SPECIFICATION Spec
CONSTANTS
  Host = {h1}
  Port = {p1}
  Value <- MCValue
  Oversize = {}
  MaxEntries = 1
  MaxEntriesPerIp = 1
  Ttl = 1
  U64Max = 2
  NoEntry = NoEntry
  Server = {s1, s2}
  ServerLists = {{s1}, {s1, s2}, {}}
  Publish = {t1}
  Resolve = {r1}
  TooLong = {t1}
  First = {r1}
  BucketSecs = 1
  Timeout = 1
  MaxRestarts = 0
  MaxClock = 1
  None = None
INVARIANTS AnswersWereStored
PROPERTIES EndsEarlyOnlyWhenComplete EveryCallIsAnswered
CHECK_DEADLOCK FALSE
