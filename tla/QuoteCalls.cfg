\* Two callers reserve from one bucket under two keys while leases expire; or race
\* on one idempotency key, strict and plain, with two requests.
SPECIFICATION MCSpec
CONSTANTS
  k1 = k1 k2 = k2 c1 = c1 c2 = c2 s1 = s1 s2 = s2 small = small large = large
  NoSig = NoSig NoTx = NoTx
  Scenarios = {"inventory", "replay"}
  Keys = {k1, k2}
  Callers = {c1, c2}
  Requests = {small, large}
  Buckets = {"bucket"}
  BucketOf <- MCBucketOf
  TtlOf <- MCTtlOf
  Available <- MCAvailable
  Amounts = {1, 2}
  Validities = {1, 2}
  Modes = {TRUE, FALSE}
  Sigs = {s1, s2}
  Depth = 2
  MaxLag = 1
  MaxTime = 3
  MaxHead = 0
  MaxForks = 0
SYMMETRY Interchangeable
INVARIANTS NoOverReservation OneQuotePerKey
PROPERTIES ImplementsBook
CHECK_DEADLOCK FALSE
