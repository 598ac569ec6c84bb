\* Two quotes whose promises overlap in the second one of them expires.
SPECIFICATION MCSpec
CONSTANTS
  k1 = k1 k2 = k2 c1 = c1 c2 = c2 s1 = s1 s2 = s2 small = small large = large
  NoSig = NoSig NoTx = NoTx
  Scenarios = {"inventory"}
  Keys = {k1, k2}
  Callers = {c1}
  Requests = {small}
  Buckets = {"bucket"}
  BucketOf <- MCBucketOf
  TtlOf <- MCTtlOf
  Available <- MCAvailable
  Amounts = {2}
  Validities = {1}
  Modes = {FALSE}
  Sigs = {s1}
  Depth = 2
  MaxLag = 0
  MaxTime = 2
  MaxHead = 0
  MaxForks = 0
INVARIANTS NoOverQuoting
CHECK_DEADLOCK FALSE
