CONSTANTS
  Ins <- MCIns
  Dram <- MCDram
  Runs <- MCRuns
  Straight = 3
  Body = 3
  Far = 0
  WIN = 3
  VMW = 2
  Wrap = 16
SPECIFICATION Spec
INVARIANTS AsInOrder NeverStuck
PROPERTY ReadinessRises
