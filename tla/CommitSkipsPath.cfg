\* One asset with two ways to trade, one of which wants it free at the sender.
SPECIFICATION ComplianceSpec
CONSTANTS
    Wallets = {w1, w2, w3}
    Identities = {i1}
    NoIdentity = NoIdentity
    CAP_12G_TOTAL = 2
    CAP_12G_NONAI = 1
    CAP_3C1 = 2
    CAP_506B = 1
    CapModes <- Modes
    Manifests <- NativePath
    Issuer = w1
    Supply = 2
    MaxTrades = 3
    Sellers = {s1, s2}
    IdentityGroups = {g1}
    SAR_THRESHOLD = 3
    StructuringWindows = {1, 2}
    MaxTransfers = 4
    LastTradingDay = 4
SYMMETRY Interchangeable
INVARIANTS CommitCoversPaths
CHECK_DEADLOCK FALSE
