CONSTANTS
  r1 = r1  r2 = r2  r3 = r3  a = a  b = b  c = c  d = d  x = x
  Requests = {r1, r2, r3}
  Tokens = {a, b, c, d, x, Garbage}
  Prompt <- MCPrompt
  Reply <- MCReply
  StopIds = {x}
  MaxNew <- MCMaxNew
  B = 2
  P = 2
  Rows = 2
  Budget = 2
  Cap = 6
  Troubles = 0
  Cancels = {r1}
  Garbage = Garbage
  None = None
SPECIFICATION FairSpec
PROPERTIES RequestsEnd
CHECK_DEADLOCK FALSE
