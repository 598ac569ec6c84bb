\* Two syncs and a restart; three requests of two takers on one key and a stop;
\* three callers of a lock, three operations; three operations of the desk.
\* Settlement, reorganisation, observation and reconciliation of a quote.
SPECIFICATION ServicesSpec
CONSTANTS
  Syncs = {a, b}
  confirmations = 1
  MaxReorg = 1
  MaxChainHead = 2
  MaxVersion = 2
  MaxCrashes = 1
  HostRequests = {q1, q2}
  Takers = {t1, t2}
  HostKeys = {k1}
  Policies = {p1, p2}
  HostSignatures = {g1, g2}
  NoValue = NoValue
  Probed = {"audit", "signer"}
  MaxRequests = 3
  MaxStops = 1
  Procs = {c1, c2, c3}
  NoProc = NoProc
  StaleAfter = 2
  Timeout = 1
  MaxWaiters = 1
  MaxOps = 3
  MaxDeaths = 1
  DeskActions = {d1, d2}
  NoReading = NoReading
  MaxDesk = 3
  NoSig = NoSig
  NoTx = NoTx
  Keys = {k1}
  Callers = {c1}
  Requests = {large}
  Buckets = {bucket}
  BucketOf <- QuoteBucket
  TtlOf <- QuoteTtl
  Available <- QuoteInventory
  Amounts = {2}
  Validities = {1}
  Modes = {FALSE}
  Sigs = {s1}
  Depth = 2
  MaxLag = 1
  MaxTime = 3
  MaxHead = 3
  MaxForks = 2
INVARIANTS
  IndexIsExact AuditedBeforeDelivered RetryGetsTheSameQuote AckedIsStored
  EvidenceIsHonest FinalMatchesChain ReservedIsHeld
PROPERTIES
  CatchesUp ShutdownEnds CallsReturn
  ObservedLeaseWaits LeasesAreReleased OrphanedObservationLeaves
CHECK_DEADLOCK FALSE
