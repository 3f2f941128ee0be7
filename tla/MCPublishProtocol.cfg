SPECIFICATION Spec
CONSTANTS
  Host = {h1}
  Port = {p1, p2}
  Value <- MCValue
  Oversize = {}
  MaxEntries = 1
  MaxEntriesPerIp = 1
  Ttl = 1
  U64Max = 3
  NoEntry = NoEntry
  Server = {s1}
  ServerLists = {{s1}}
  Publish = {t1, t2}
  Resolve = {}
  TooLong = {}
  First = {}
  BucketSecs = 1
  Timeout = 1
  MaxRestarts = 1
  MaxClock = 2
  None = None
INVARIANTS StoredUnderItsAddress StoredWhileRoutable AnswersWereStored OnePutPerServer
SYMMETRY Symmetry
CHECK_DEADLOCK FALSE
