CONSTANTS
  p1 = p1
  p2 = p2
  rec = rec
  c1 = c1
  c2 = c2
  Keys = {p1, p2, rec}
  Contents = {c1}
  NoBlob = NoBlob
  NoKey = NoKey
  Bytes <- MCBytes
  RamBytes = 2
  DiskBytes = 2
  Durable = {rec}
  PinSets = {{p1, p2}}
  RePut = {}
  IOFails = FALSE
  MaxQueue = 2
  MaxPins = 1
SPECIFICATION Spec
INVARIANTS CountsAreTrue IndexIsDirectory RamBudgetKept DurableIsOnDisk
PROPERTIES PinnedStay DropsOnlyPastBudget
