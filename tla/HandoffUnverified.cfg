\* One project, two requests at a time, one edit.
SPECIFICATION StudioSpec
CONSTANTS
  Contents = {f1, f2}
  StudioJobs = {j1, j2}
  Rpcs = {r1}
  NoFiles = NoFiles
  MaxEdits = 1
  MaxCommands = 4
  MaxLaunches = 0
INVARIANT HandoffIsVerified
CHECK_DEADLOCK FALSE
