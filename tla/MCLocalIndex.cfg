SPECIFICATION LocalSpec
CONSTANTS
  Host = {h1, h2}
  Port = {p1, p2, p3}
  Value = {v1, v2, big}
  Oversize = {big}
  MaxEntries = 2
  MaxEntriesPerIp = 2
  Ttl = 2
  U64Max = 3
  NoEntry = NoEntry
INVARIANTS TypeOK IndexesAgree WithinLimits
PROPERTIES EvictsOnlyUnderPressure ImplementsMap
SYMMETRY Symmetry
