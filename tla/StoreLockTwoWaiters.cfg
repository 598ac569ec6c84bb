\* A holder dies while two callers wait.
SPECIFICATION LockSpec
CONSTANTS
  Procs = {p1, p2, p3}
  NoProc = NoProc
  StaleAfter = 2
  Timeout = 3
  MaxWaiters = 2
  MaxOps = 3
  MaxDeaths = 1
INVARIANTS AckedIsStored
CHECK_DEADLOCK FALSE
