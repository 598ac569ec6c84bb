---------------------------- MODULE InvestorElements ----------------------------
(***************************************************************************)
(* The elements that judge an investor (src/compliance/elements): for each,  *)
(* what it stores at deployment, what one operator call leaves behind, and   *)
(* the code with which it refuses a trade.  Storage is that of one asset and *)
(* its two parties.                                                         *)
(***************************************************************************)
EXTENDS ElementChecks

CONSTANTS
    CAP_AI, CAP_QP,             \* freshness of claims
    FRESHNESS_CAP,              \* freshness of an affiliate claim
    TAIL_144B2, LOOKBACK_144B1, \* how long a former affiliate remains one
    IdentityIds, NoIdentityId

ASSUME TailsArePositive ==
    {CAP_AI, CAP_QP, FRESHNESS_CAP, TAIL_144B2, LOOKBACK_144B1} \subseteq Nat \ {0}

-----------------------------------------------------------------------------
(* AccreditedInvestor *)

NoAiClaim ==
    [ exists |-> FALSE, issuerTrusted |-> FALSE, signatureValid |-> FALSE, expiry |-> 0,
      verificationBasisAccepted |-> FALSE, basis |-> "NONE", ltStatus |-> "NONE",
      reviewRequired |-> FALSE ]

(* What setAccredited records. *)
FullAiClaim ==
    [ exists |-> TRUE, issuerTrusted |-> TRUE, signatureValid |-> TRUE, expiry |-> 0,
      verificationBasisAccepted |-> TRUE, basis |-> "DIRECT", ltStatus |-> "NONE",
      reviewRequired |-> FALSE ]

AiClaims ==
    Flawed(FullAiClaim,
        { <<"issuerTrusted", FALSE>>, <<"signatureValid", FALSE>>, <<"expiry", 2>>,
          <<"verificationBasisAccepted", FALSE>>, <<"basis", "NONE">>, <<"basis", "OTHER">>,
          <<"reviewRequired", TRUE>> })
    \cup {[FullAiClaim EXCEPT !.basis = "ALL_EQUITY_OWNERS", !.ltStatus = s] :
                s \in LookThroughStatus}

AccreditedDeployed == [claim |-> NoAiClaim, requires506c |-> FALSE, sec4a7 |-> FALSE]

AccreditOrDelete(f) == {[f EXCEPT !.claim = c] : c \in {NoAiClaim, FullAiClaim}}
SetAiClaim(f) == {[f EXCEPT !.claim = c] : c \in AiClaims \cup {NoAiClaim}}
SetAiPaths(f) ==
    {[f EXCEPT !.requires506c = b] : b \in BOOLEAN} \cup {[f EXCEPT !.sec4a7 = b] : b \in BOOLEAN}

AccreditedRefusal(f, now) ==
    LET c == f.claim IN FirstRefusal(<<
        Refuse(~c.exists, 1),
        Refuse(~c.issuerTrusted, 2),
        Refuse(~c.signatureValid, 3),
        Refuse(Lapsed(c.expiry, now), 4),
        Refuse(f.requires506c /\ ~c.verificationBasisAccepted, 5),
        Refuse(f.sec4a7 /\ c.basis = "NONE", 6),
        Refuse(c.basis = "OTHER", 8),
        Refuse(c.basis = "ALL_EQUITY_OWNERS" /\ c.ltStatus # "COMPLETED", 7),
        Refuse(c.reviewRequired, 9) >>)

-----------------------------------------------------------------------------
(* Sanctions *)

NoScreening ==
    [ exists |-> FALSE, issuerTrusted |-> FALSE, signatureValid |-> FALSE, expiry |-> 0,
      screenedListVersion |-> 0, identityMatchBps |-> 0, isEntity |-> FALSE,
      ltStatus |-> "NONE", blockedOwnershipBps |-> 0 ]

CleanScreening == [NoScreening EXCEPT
    !.exists = TRUE, !.issuerTrusted = TRUE, !.signatureValid = TRUE]

ScreeningClaims ==
    {CleanScreening}
    \cup Flawed(CleanScreening,
            { <<"issuerTrusted", FALSE>>, <<"signatureValid", FALSE>>, <<"expiry", 2>>,
              <<"screenedListVersion", 1>>, <<"identityMatchBps", 7500>>,
              <<"identityMatchBps", 9500>> })
    \cup {[CleanScreening EXCEPT !.isEntity = TRUE, !.ltStatus = o[1], !.blockedOwnershipBps = o[2]] :
                o \in {"PENDING", "COMPLETED"} \X {4999, 5000}}

SanctionsDeployed ==
    [ blocked |-> {}, claims |-> [p \in Parties |-> NoScreening], regime |-> FALSE,
      counterparty |-> FALSE, currentListVersion |-> 0, review |-> 7500, block |-> 9500 ]

SetBlocked(f) ==
    {[f EXCEPT !.blocked = @ \cup {p}] : p \in Parties} \cup
    {[f EXCEPT !.blocked = @ \ {p}] : p \in Parties}
SetClaimRegime(f) ==
    {[f EXCEPT !.regime = b[1], !.counterparty = b[2]] : b \in BOOLEAN \X BOOLEAN}
SetScreening(f) ==
    {[f EXCEPT !.claims[p] = c] : p \in Parties, c \in ScreeningClaims \cup {NoScreening}}
SetCurrentListVersion(f) == {[f EXCEPT !.currentListVersion = v] : v \in 0..1}
SetScreeningThresholds(f) ==
    {[f EXCEPT !.review = b[1], !.block = b[2]] : b \in {<<7500, 9500>>, <<7500, 7500>>, <<8000, 9600>>}}

ScreenClaim(f, p, now) ==
    LET c == f.claims[p] IN FirstRefusal(<<
        Refuse(~c.exists, 4),
        Refuse(~c.issuerTrusted, 5),
        Refuse(~c.signatureValid, 6),
        Refuse(Lapsed(c.expiry, now), 7),
        Refuse(c.screenedListVersion # f.currentListVersion, 8),
        Refuse(c.identityMatchBps >= f.review /\ c.identityMatchBps < f.block, 10),
        Refuse(c.identityMatchBps >= f.block, 2),
        Refuse(c.isEntity /\ c.ltStatus # "COMPLETED", 9),
        Refuse(c.isEntity /\ c.blockedOwnershipBps >= 5000, 3) >>)

(* Mutation: a counterparty is screened instead of the user, not as well. *)
SanctionsRefusalOneParty(f, now) ==
    IF f.blocked # {} THEN 1
    ELSE IF ~f.regime THEN 0
    ELSE ScreenClaim(f, IF f.counterparty THEN "seller" ELSE "buyer", now)

(* The user is always the buyer of the context. *)
SanctionsRefusal(f, now) ==
    IF f.blocked # {} THEN 1
    ELSE IF ~f.regime THEN 0
    ELSE IF ScreenClaim(f, "buyer", now) # 0 THEN ScreenClaim(f, "buyer", now)
    ELSE IF f.counterparty THEN ScreenClaim(f, "seller", now)
    ELSE 0

-----------------------------------------------------------------------------
(* Affiliate *)

AffiliateDeployed ==
    [ basis |-> "UNSET", verifiedAt |-> 0, decayStartedAt |-> 0, trusted |-> FALSE ]

ControlBases ==
    { "OFFICER_DIRECTOR", "GENERAL_PARTNER", "BENEFICIAL_OWNER_10PLUS", "FAMILY_OF_AFFILIATE",
      "INDIRECT_CONTROL", "COMMON_CONTROL" }

(* One basis of control stands for the six, which nothing tells apart. *)
AffiliateClaims ==
    [ basis : {"UNSET", "COMMON_CONTROL", "FORMER_AFFILIATE_DECAY", "NOT_AFFILIATE",
               "UNCERTAIN_AFFILIATE"},
      verifiedAt : 0..2, decayStartedAt : 0..1 ]
SetAffiliateClaim(f) ==
    {[f EXCEPT !.basis = c.basis, !.verifiedAt = c.verifiedAt, !.decayStartedAt = c.decayStartedAt] :
        c \in AffiliateClaims}
SetTrustedClaimIssuer(f) == {[f EXCEPT !.trusted = b] : b \in BOOLEAN}

ResolveDecay(decayStartedAt, now) ==
    IF decayStartedAt # 0 /\ now >= decayStartedAt + Max({TAIL_144B2, LOOKBACK_144B1})
    THEN "NON_AFFILIATE" ELSE "AFFILIATE"

AffiliateStatus(f, now) ==
    IF f.verifiedAt = 0 \/ f.basis = "UNSET" THEN "UNKNOWN"
    ELSE IF ~f.trusted THEN "UNTRUSTED"
    ELSE IF now > f.verifiedAt + FRESHNESS_CAP THEN "EXPIRED"
    ELSE IF f.basis = "NOT_AFFILIATE" THEN "NON_AFFILIATE"
    ELSE IF f.basis = "FORMER_AFFILIATE_DECAY" THEN ResolveDecay(f.decayStartedAt, now)
    ELSE IF f.basis \in ControlBases THEN "AFFILIATE"
    ELSE "UNCERTAIN"

AffiliateRefusal(f, now) ==
    LET s == AffiliateStatus(f, now) IN FirstRefusal(<<
        Refuse(s = "UNKNOWN", 1), Refuse(s = "UNTRUSTED", 2),
        Refuse(s = "EXPIRED", 3), Refuse(s = "UNCERTAIN", 4) >>)

-----------------------------------------------------------------------------
(* ClaimFreshness *)

FreshnessDeployed == [claimType |-> "UNKNOWN", verifiedAt |-> 0, issuerExpiry |-> 0]

SetFreshness(f) ==
    {[claimType |-> k, verifiedAt |-> v, issuerExpiry |-> x] :
        k \in {"UNKNOWN", "AI", "QP"}, v \in {0, 1, 3, LastTimestamp}, x \in {0, 2, LastTimestamp}}

FreshnessRefusal(f, now) ==
    LET cap == IF f.claimType = "QP" THEN CAP_QP ELSE CAP_AI
        regulatoryExpiry == f.verifiedAt + cap
        issuerBinds == f.issuerExpiry # 0 /\ f.issuerExpiry < regulatoryExpiry
    IN  FirstRefusal(<<
            Refuse(f.verifiedAt = 0, 1),
            Refuse(f.claimType = "UNKNOWN", 5),
            Refuse(regulatoryExpiry > LastTimestamp, REVERT),
            Refuse(issuerBinds /\ now > f.issuerExpiry, 4),
            Refuse(~issuerBinds /\ now > regulatoryExpiry, IF f.claimType = "QP" THEN 3 ELSE 2) >>)

-----------------------------------------------------------------------------
(* EntityEligibility and the EquityOwnerLookThrough it reads *)

AI_DIRECT_MIN_USD == 5000000
QP_FAMILY_MIN_USD == 5000000
QP_INSTITUTIONAL_MIN_USD == 25000000

EntityDeployed ==
    [ isEntity |-> FALSE, aiBasis |-> "NONE", qpBasis |-> "NONE", investmentsUsd |-> 0,
      formedForPurpose |-> FALSE, qibConfirmed |-> FALSE, directReqsMet |-> FALSE,
      tracks |-> {}, statusOf |-> "NONE" ]

EntityClaims ==
    [ aiBasis : {"NONE", "DIRECT_ASSETS", "ALL_OWNERS_AI"},
      qpBasis : {"NONE", "FAMILY_COMPANY", "INSTITUTIONAL", "QIB", "TRUST"},
      investmentsUsd : {5000000, 25000000}, formedForPurpose : BOOLEAN, met : BOOLEAN ]
SetEntityClaim(f) ==
    {[f EXCEPT !.isEntity = TRUE, !.aiBasis = c.aiBasis, !.qpBasis = c.qpBasis,
               !.investmentsUsd = c.investmentsUsd, !.formedForPurpose = c.formedForPurpose,
               !.qibConfirmed = c.met, !.directReqsMet = c.met] : c \in EntityClaims}
    \cup {[f EXCEPT !.isEntity = FALSE]}
SetRequiredTracks(f) == {[f EXCEPT !.tracks = t] : t \in SUBSET {"AI", "QP"}}
SetLookThroughStatus(f) == {[f EXCEPT !.statusOf = s] : s \in LookThroughStatus}

(* The refusals of a cascade over owners. *)
OwnersRefusal(f) == FirstRefusal(<<
    Refuse(f.statusOf \in {"NONE", "PENDING"}, 5), Refuse(f.statusOf = "FAILED", 6) >>)

EntityAiCode(f) == FirstRefusal(<<
    Refuse(f.aiBasis = "NONE", 1),
    Refuse(f.aiBasis = "DIRECT_ASSETS" /\ f.formedForPurpose, 4),
    Refuse(f.aiBasis = "DIRECT_ASSETS" /\ f.investmentsUsd <= AI_DIRECT_MIN_USD, 2),
    Refuse(f.aiBasis = "ALL_OWNERS_AI" /\ OwnersRefusal(f) # 0, OwnersRefusal(f)),
    Refuse(~f.directReqsMet, 7) >>)

EntityQpCode(f) ==
    LET min == IF f.qpBasis = "FAMILY_COMPANY" THEN QP_FAMILY_MIN_USD
               ELSE IF f.qpBasis = "INSTITUTIONAL" THEN QP_INSTITUTIONAL_MIN_USD ELSE 0
        cascades == \/ f.qpBasis = "TRUST"
                    \/ f.qpBasis \in {"FAMILY_COMPANY", "INSTITUTIONAL"} /\ f.formedForPurpose
    IN  FirstRefusal(<<
            Refuse(f.qpBasis = "NONE", 1),
            Refuse(f.qpBasis = "TRUST" /\ f.formedForPurpose, 4),
            Refuse(f.investmentsUsd < min, 2),
            Refuse(cascades /\ OwnersRefusal(f) # 0, OwnersRefusal(f)),
            Refuse(f.qpBasis = "QIB" /\ ~f.qibConfirmed, 3),
            Refuse(~f.directReqsMet, 7) >>)

EntityRefusal(f) ==
    IF f.tracks = {} \/ ~f.isEntity THEN 0
    ELSE IF f.tracks = {"AI", "QP"}
         THEN IF EntityAiCode(f) = 0 /\ EntityQpCode(f) = 0 THEN 0 ELSE 8
    ELSE IF "AI" \in f.tracks THEN EntityAiCode(f) ELSE EntityQpCode(f)

LookThroughRefusal(status) == FirstRefusal(<<
    Refuse(status = "PENDING", 1), Refuse(status = "FAILED", 2) >>)

-----------------------------------------------------------------------------
(* QualifiedPurchaser *)

NoQpClaim ==
    [ basis |-> "NONE", signatureValid |-> FALSE, issuerTrusted |-> FALSE, verifiedAt |-> 0,
      ltStatus |-> "NONE", coveredCompany |-> "none" ]

QpDeployed == [claim |-> NoQpClaim, freshnessCap |-> CAP_QP]

(* What setQp records now. *)
NaturalQpClaim(now) == [NoQpClaim EXCEPT
    !.basis = "NATURAL", !.signatureValid = TRUE, !.issuerTrusted = TRUE, !.verifiedAt = now]

QpClaims ==
    Flawed(NaturalQpClaim(1), {<<"signatureValid", FALSE>>, <<"issuerTrusted", FALSE>>, <<"verifiedAt", 3>>})
    \cup {[NaturalQpClaim(1) EXCEPT !.basis = b[1], !.ltStatus = b[2]] :
                b \in {"FAMILY_COMPANY", "TRUST"} \X LookThroughStatus}
    \cup {[NaturalQpClaim(1) EXCEPT !.basis = "KNOWLEDGEABLE_EMPLOYEE", !.coveredCompany = c] :
                c \in {"asset", "other"}}
    \cup {[NaturalQpClaim(1) EXCEPT !.basis = "OTHER"]}

SetQp(f, now) == {[f EXCEPT !.claim = c] : c \in {NoQpClaim, NaturalQpClaim(now)}}
SetQpClaim(f) == {[f EXCEPT !.claim = c] : c \in QpClaims}
SetFreshnessCap(f) == {[f EXCEPT !.freshnessCap = c] : c \in {1, CAP_QP}}

QpRefusal(f, now) ==
    LET c == f.claim
        cascades == c.basis \in {"FAMILY_COMPANY", "TRUST"}
    IN  FirstRefusal(<<
            Refuse(c.basis = "NONE" \/ ~c.signatureValid, 1),
            Refuse(~c.issuerTrusted, 3),
            Refuse(TooOld(c.verifiedAt, f.freshnessCap, now), 2),
            Refuse(cascades /\ c.ltStatus = "NONE", 4),
            Refuse(cascades /\ c.ltStatus = "PENDING", 5),
            Refuse(c.basis = "FAMILY_COMPANY" /\ c.ltStatus = "FAILED", 7),
            Refuse(c.basis = "TRUST" /\ c.ltStatus = "FAILED", 6),
            Refuse(c.basis = "KNOWLEDGEABLE_EMPLOYEE" /\ c.coveredCompany # "asset", 8),
            Refuse(c.basis = "OTHER", 9) >>)

-----------------------------------------------------------------------------
(* IdentityUniqueness *)

NoKyc == [exists |-> FALSE, signatureValid |-> FALSE, issuerTrusted |-> FALSE, verifiedAt |-> 0, maxAge |-> 0]
SeededKyc(now) ==
    [exists |-> TRUE, signatureValid |-> TRUE, issuerTrusted |-> TRUE, verifiedAt |-> now, maxAge |-> 0]

KycClaims ==
    {NoKyc} \cup Flawed(SeededKyc(1), {<<"signatureValid", FALSE>>, <<"issuerTrusted", FALSE>>, <<"maxAge", 1>>})
    \cup {[SeededKyc(3) EXCEPT !.maxAge = 1]}

IdentityDeployed ==
    [ identityOf |-> [p \in Parties |-> NoIdentityId],
      person |-> [i \in IdentityIds |-> [kyc |-> NoKyc, status |-> "ACTIVE", dedup |-> "UNIQUE"]],
      enforceCounterparty |-> FALSE ]

(* walletOf is the inverse of identityOf: bindIdentity refuses what would    *)
(* bind either side twice.                                                  *)
MayBind(f, p, i) ==
    /\ \A q \in Parties : f.identityOf[q] = i => q = p
    /\ f.identityOf[p] \in {NoIdentityId, i}

BindWallet(f, now) ==
    { [f EXCEPT !.identityOf[b[1]] = b[2],
                !.person[b[2]].kyc = IF @.exists THEN @ ELSE SeededKyc(now)] :
        b \in {b \in Parties \X IdentityIds : MayBind(f, b[1], b[2])} }

(* Mutation: what is known of a person goes with the wallet. *)
UnbindAndForget(f) ==
    { [f EXCEPT !.identityOf[p] = NoIdentityId,
                !.person[f.identityOf[p]] = [kyc |-> NoKyc, status |-> "ACTIVE", dedup |-> "UNIQUE"]] :
        p \in {p \in Parties : f.identityOf[p] # NoIdentityId} }

UnbindWallet(f) ==
    {[f EXCEPT !.identityOf[p] = NoIdentityId] : p \in Parties}

SetKycClaim(f) == {[f EXCEPT !.person[i].kyc = c] : i \in IdentityIds, c \in KycClaims}
SetIdentityStatus(f) ==
    {[f EXCEPT !.person[i].status = s] : i \in IdentityIds, s \in {"ACTIVE", "FROZEN", "REVOKED"}}
SetDedupStatus(f) ==
    {[f EXCEPT !.person[i].dedup = s] :
        i \in IdentityIds, s \in {"UNIQUE", "SUSPECTED_DUPLICATE", "CONFIRMED_DUPLICATE"}}
SetEnforceCounterparty(f) == {[f EXCEPT !.enforceCounterparty = b] : b \in BOOLEAN}

(* The refusals that belong to a person, whatever wallet is bound. *)
PersonRefusal(f, i, now) ==
    LET who == f.person[i] IN FirstRefusal(<<
        Refuse(~who.kyc.exists, 2),
        Refuse(~who.kyc.signatureValid, 3),
        Refuse(~who.kyc.issuerTrusted, 4),
        Refuse(who.kyc.maxAge # 0 /\ TooOld(who.kyc.verifiedAt, who.kyc.maxAge, now), 5),
        Refuse(who.status = "FROZEN", 6),
        Refuse(who.status = "REVOKED", 7),
        Refuse(who.dedup = "CONFIRMED_DUPLICATE", 8),
        Refuse(who.dedup = "SUSPECTED_DUPLICATE", 9) >>)

WalletRefusal(f, p, now) ==
    IF f.identityOf[p] = NoIdentityId THEN 1 ELSE PersonRefusal(f, f.identityOf[p], now)

IdentityRefusal(f, now) ==
    IF WalletRefusal(f, "buyer", now) # 0 THEN WalletRefusal(f, "buyer", now)
    ELSE IF f.enforceCounterparty THEN WalletRefusal(f, "seller", now)
    ELSE 0

-----------------------------------------------------------------------------
(* Jurisdiction and UsTaxResident *)

ResidenceDeployed == [jurisdictionOf |-> "none", allowed |-> {}, usTaxResident |-> FALSE]

SetJurisdiction(f) == {[f EXCEPT !.jurisdictionOf = j] : j \in {"none", "KR", "US"}}
SetJurisdictionAllowed(f) ==
    {[f EXCEPT !.allowed = @ \cup {j}] : j \in {"KR", "none"}} \cup
    {[f EXCEPT !.allowed = @ \ {j}] : j \in {"KR", "none"}}
SetUsTaxResident(f) == {[f EXCEPT !.usTaxResident = b] : b \in BOOLEAN}

JurisdictionRefusal(f) ==
    IF f.jurisdictionOf # "none" /\ f.jurisdictionOf \in f.allowed THEN 0 ELSE 1
UsTaxRefusal(f) == IF f.usTaxResident THEN 1 ELSE 0
=============================================================================
