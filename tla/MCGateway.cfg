SPECIFICATION Spec
CONSTANTS
  p1 = p1
  p2 = p2
  r1 = r1
  r2 = r2
  Provider = {p1, p2}
  Req = {r1, r2}
  Kind <- MCKind
  Announced = {p2}
  Queries <- MCQueries
  Named = {r1}
  SeqNo = {1, 2}
  Ttl <- MCTtl
  Target <- MCTarget
  MAX_CACHE_TTL = 1
  LOOKUP_TIMEOUT = 1
  HINT_TTL = 2
  MAX_PER_URL = 1
  MAX_PER_HASH = 1
  PROVIDER_TTL = 1
  MISS_TTL = 1
  MAX_PROVIDERS = 1
  CONCURRENT_PROBES = 2
  None = None
  NoPacket = NoPacket
PROPERTIES LinkIsNotBlocked HintsAreRecent MissIsHonest
INVARIANT NamesCatchUp
