CONSTANTS
  Expert = {e1, e2, e3}
  Slot = {s1, s2}
  K = 1
  MaxIds = 2
  Parts = 2
  Drops = {TRUE, FALSE}
  Exact = 4
  RebaseAt = 2
  PostsPerRun = 2
  None = None
SPECIFICATION Spec
INVARIANT AnswerZeroed
SYMMETRY Alike
CHECK_DEADLOCK FALSE
