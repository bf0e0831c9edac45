CONSTANTS
  p1 = p1
  p2 = p2
  rec = rec
  c1 = c1
  c2 = c2
  Keys = {p2, rec}
  Contents = {c1}
  NoBlob = NoBlob
  NoKey = NoKey
  Bytes <- MCBytes
  RamBytes = 2
  DiskBytes = 2
  Durable = {rec}
  PinSets = {{rec}, {p2, rec}}
  RePut = {}
  IOFails = TRUE
  MaxQueue = 2
  MaxPins = 2
SPECIFICATION FairSpec
INVARIANTS TypeOK DropsAreReported SpillsAreQueued PersistKeeps
PROPERTIES SpillsEnd FlushReturnsAtLast ImplementsKVStore
