CONSTANTS
  r1 = r1  r2 = r2  r3 = r3  a = a  b = b  c = c  d = d  x = x
  Requests = {r1, r2, r3}
  Tokens = {a, b, c, d, x, Garbage}
  Prompt <- MCPrompt
  Reply <- MCReply
  StopIds = {x}
  MaxNew <- MCMaxNew
  At <- MCAt
  MaxRunning = 2
  Quantum = 1
  Troubles = 1
  Cancels = {r1}
  Garbage = Garbage
  None = None
SPECIFICATION FairSpec
INVARIANTS TypeOK DeviceAsListed SavedAsKeyed EndedOnce OffDeviceIsSaved
PROPERTIES ImplementsServing RequestsEnd
CHECK_DEADLOCK FALSE
