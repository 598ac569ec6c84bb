\* Two quotes on one nonce, two routers; a quote that lives as long as the delay.
\* An element over six moments and four calls of its operators; terms and caps
\* of a few moments, so that each of them is met, passed and missed by one.
\* Three wallets, one identity; two sellers over four days; two overlapping refreshes;
\* four appends; three lots; sales at the end of February and of March, at either
\* of two times of day, and a reading whenever a window may start anew.
SPECIFICATION TradeGatesSpec
CONSTANTS
  Scopes = {venue}
  Delegate = delegate
  Maker = maker
  Delay = 2
  Policies = {q1}
  Nonces = {k1}
  Routers = {r1, r2}
  TakerNonces = {t1}
  MaxTtl = 2
  MaxOffers = 2
  MaxTime = 3
  NoTx = NoTx
  LastTimestamp = 7
  ElementMaxTime = 6
  CAP_AI = 3
  CAP_QP = 2
  FRESHNESS_CAP = 3
  TAIL_144B2 = 3
  LOOKBACK_144B1 = 4
  IdentityIds = {i1, i2}
  NoIdentityId = NoIdentityId
  BuidlMinimum = 2
  lockupSeconds = 2
  MaxCalls = 4
  Wallets = {w1, w2, w3}
  Identities = {i1}
  NoIdentity = NoIdentity
  CAP_12G_TOTAL = 2
  CAP_12G_NONAI = 1
  CAP_3C1 = 2
  CAP_506B = 1
  CapModes <- Modes
  Manifests <- CountingManifests
  Issuer = w1
  Supply = 2
  MaxTrades = 3
  Sellers = {v1, v2}
  IdentityGroups = {g1}
  SAR_THRESHOLD = 3
  StructuringWindows = {1, 2}
  MaxTransfers = 4
  LastTradingDay = 4
  KycCallers = {c1, c2}
  Subjects = {s1}
  Refs = {r1, r2}
  NoEvidence = NoEvidence
  KycMaxTime = 1
  Skew = 0
  Freshness = 1
  Validity = {2}
  Verdicts = {"OK", "HIT", "REVOKED"}
  StrictAudit = TRUE
  Records = {x, y}
  MaxLines = 4
  Executions = {x1, x2}
  Groups = {g1, g2}
  SaleDays = {58, 59, 91}
  MomentsPerDay = 2
  LastDay = 155
  Lots = {l1, l2, l3}
  NoLot = NoLot
SYMMETRY Alike
INVARIANTS
  SettledOnce StopsKillOutstanding
  HoldersAreCounted DoubleIsFlagged
  RevocationSticks AuditedBeforePublished AckedIsListed
  VolumeCountsExecutions ClockIsThatOfPurchases
PROPERTIES OnlyWaitingHeals RestrictionsBite PersonKeepsRefusal CapsHold
CHECK_DEADLOCK FALSE
