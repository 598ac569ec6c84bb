\* Two scopes, two maker pairs, one token; an owner that may hand over, and
\* the operators it names. Drafts of at most two bindings and two overrides or parameters.
\* Six checks in eight milliseconds; three replaced files; two edits beside five commands;
\* a plan of two elements and two recipes; two deployments and one edit in two terminals;
\* two launches of the studio's processes; three audit commands and one edit; three blocks
\* and one quote of a token's commands.
SPECIFICATION GovernanceSpec
CONSTANTS
  Accounts = {a1, a2}
  NoAccount = NoAccount
  Scopes = {x1, x2}
  UnpauseDelay = 2
  PauseMaxTime = 4
  PauseMaxHistory = 3
  Pairs = {x1, x2}
  AuthorizationDelay = 2
  AuthorityMaxTime = 6
  Tokens = {token}
  Hashes = {h1, h2}
  Facts = {f1}
  Plans = {q1}
  NoHash = NoHash
  NoPlan = NoPlan
  Delay = 2
  MaxTime = 4
  MaxHistory = 5
  RecipeVersions <- TwoVersions
  Plain = plain Tuned = tuned NoDraft = NoDraft
  Principals = {x1, x2}
  windowMs = 3
  maxRequests = 2
  maxBuckets = 1
  Second = 2
  LimiterMaxTime = 8
  MaxChecks = 6
  Documents = {"config", "artifact"}
  EventsFile = "events"
  TokenFile = "token"
  Valid = {1, 2, 3, 4}
  MaxReplaced = 3
  MaxStarts = 2
  Contents = {f1, f2}
  StudioJobs = {x1, x2}
  Rpcs = {r1, r2}
  NoFiles = NoFiles
  MaxEdits = 2
  MaxCommands = 5
  PlanElements = {e1, e2}
  PlanRecipes = {c1, c2}
  PlanDelay = 1
  PlanMaxTime = 3
  Trees = {h1, h2}
  Deployers = {d1, d2}
  Terminals = {x1, x2}
  NoRelease = NoRelease
  MaxTreeEdits = 1
  MaxDeploys = 2
  MaxLaunches = 2
  Auditors = {x1, x2}
  AuditOutputs = {o1, o2}
  AuditInputs <- ThreeInputs
  NoArtifact = NoArtifact
  MaxAuditCommands = 3
  MaxAuditEdits = 1
  Consoles = {x1, x2}
  Engines = {"AMM", "RFQ"}
  ResumeDelay = 1
  QuoteTtl = 2
  MaxBlocks = 3
  MaxQuotes = 1
SYMMETRY Alike
INVARIANTS HistoriesReplay CommitmentIsCompiled
  LimiterIsFair ReadyServesReviewed PlannedIsDeployed PlanReachesItsConfig
  ReviewedIsBroadcast VerifiedIsHandedOff RunningIsVerified
  CommittedIsReconstructible LockupStaysOffPools
CHECK_DEADLOCK FALSE
