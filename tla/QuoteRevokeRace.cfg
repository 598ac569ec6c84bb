\* Stale evidence revokes while another caller publishes.
SPECIFICATION MCSpec
CONSTANTS
  k1 = k1 k2 = k2 c1 = c1 c2 = c2 s1 = s1 s2 = s2 small = small large = large
  NoSig = NoSig NoTx = NoTx
  Scenarios = {"replay"}
  Keys = {k1}
  Callers = {c1, c2}
  Requests = {small, large}
  Buckets = {"bucket"}
  BucketOf <- MCBucketOf
  TtlOf <- MCTtlOf
  Available <- MCAvailable
  Amounts = {2}
  Validities = {1, 2}
  Modes = {TRUE}
  Sigs = {s1}
  Depth = 2
  MaxLag = 1
  MaxTime = 3
  MaxHead = 0
  MaxForks = 0
PROPERTIES EvidenceRevokesOnlyReservations
CHECK_DEADLOCK FALSE
