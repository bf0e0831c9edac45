CONSTANTS
  e1 = e1  e2 = e2  e3 = e3
  a = a  b = b  c = c  t1 = t1  t2 = t2  r1 = r1  r2 = r2  r3 = r3
  EntryKeys = {e1, e2, e3}
  Blobs = {a, b, c, t1, t2, r1, r2, r3}
  BlobsOf <- MCBlobsOf
  Pages = {a, b, c}
  RecordOf <- MCRecordOf
  Covered <- MCCovered
  Length <- MCLength
  Budget = 4
  Saves <- MCSaves
  MaxEntries = 3
  Clears = TRUE
  MaxUsers = 1
  NoEntry = NoEntry
SPECIFICATION Spec
INVARIANTS TypeOK RefsAreUses EntriesHaveRecords PinsCoverUsers
PROPERTIES EntriesKeepBlobs PinnedStaysSaved
