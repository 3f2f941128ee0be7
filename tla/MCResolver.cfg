SPECIFICATION Spec
CONSTANTS
  a1 = a1
  a2 = a2
  e1 = e1
  e2 = e2
  s1 = s1
  s2 = s2
  Addr = {a1, a2}
  Endpoint = {e1, e2}
  Home <- MCHome
  Values <- MCValues
  Stream = {s1, s2}
  Slot = {1}
  Lookup <- MCLookup
  Mode <- MCMode
  TTL = 2
  MISS_TTL = 1
  CAPACITY = 1
  MaxDelay = 0
  MAX_INDEX_LOOKUPS = 1
  MAX_QUEUED_PEERS = 1
  Batches <- MCBatches
  MaxBatches = 2
  None = None
INVARIANTS TypeOK YieldsAreBound
PROPERTIES StreamsEnd EndsComplete SharesRequests AnswersAreFresh
CHECK_DEADLOCK FALSE
