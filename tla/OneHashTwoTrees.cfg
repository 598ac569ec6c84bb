\* Two deployments of one configuration, one edit between them, one terminal.
SPECIFICATION ReleaseSpec
CONSTANTS
  Trees = {h1}
  Deployers = {d1, d2}
  Terminals = {t1}
  NoRelease = NoRelease
  MaxTreeEdits = 1
  MaxDeploys = 2
INVARIANT OneTreeIsBroadcast
CHECK_DEADLOCK FALSE
