SPECIFICATION Spec
CONSTANTS
  U64Max = 9
  MAX_PARTS = 2
  Empty = Empty
  Malformed = Malformed
  None = None
  Blob = {"root", "x", "y"}
  Size <- MCSize
  Names <- MCNames
  MetaSize <- MCMetaSize
  Label = "root"
  Targets = {"root", "x", None}
  Typed <- MCTyped
  Headers <- MCHeaders
  CHUNK = 3
  SNIFF_CHUNKS = 1
  HASH = 1
  MAX_ROOT = 8
  META_HEADER = 1
  MAX_NAME = 1
INVARIANTS RangesAreExact BodyIsPromised LinksLead ImmutableNeverChanges
CHECK_DEADLOCK FALSE
