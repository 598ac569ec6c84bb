------------------------------- MODULE Elements ---------------------------------
(***************************************************************************)
(* A compliance element over time: operators call it, the clock runs, and    *)
(* the engine may ask for its verdict on any trade at any moment.  Elements  *)
(* share no storage, so that a behaviour follows one, named by "element".    *)
(***************************************************************************)
EXTENDS InvestorElements, AssetElements, ConductElements

CONSTANT MaxCalls           \* operator calls considered

VARIABLES element, facts, elementTime, calls

elementVars == <<element, facts, elementTime, calls>>

(* What each element stores at deployment. *)
Deployed ==
    [ AccreditedInvestor |-> AccreditedDeployed, Sanctions |-> SanctionsDeployed,
      Affiliate |-> AffiliateDeployed, ClaimFreshness |-> FreshnessDeployed,
      EntityEligibility |-> EntityDeployed, EquityOwnerLookThrough |-> EntityDeployed,
      QualifiedPurchaser |-> QpDeployed, IdentityUniqueness |-> IdentityDeployed,
      Jurisdiction |-> ResidenceDeployed, UsTaxResident |-> ResidenceDeployed,
      AssetClassification |-> ClassificationDeployed, BadActorDisqualification |-> BadActorDeployed,
      TransferRestrictionMetadata |-> RestrictionDeployed, EngineSelection |-> EngineSelectionDeployed,
      Erc3643Native |-> TokenDeployed, Erc3643NativeV2 |-> TokenDeployed,
      FormDFiling |-> FormDDeployed, RegMIssuerBuying |-> RegMDeployed,
      OperatorSelfDealing |-> SelfDealingDeployed, RedFlagKnowledgeBar |-> RedFlagDeployed,
      SurveillanceFlag |-> SurveillanceDeployed, Lockup |-> LockupDeployed, LockupV2 |-> LockupV2Deployed,
      MinimumTradeAmount |-> MinimumBound, BuidlMinimumInvestment |-> MinimumBound ]

ElementNames == DOMAIN Deployed

ElementInit ==
    /\ element \in ElementNames
    /\ facts = Deployed[element]
    /\ elementTime = 1
    /\ calls = 0

-----------------------------------------------------------------------------
(* The calls of operators, and of the contracts an element reads. *)

InvestorCalls(f, now) ==
    CASE element = "AccreditedInvestor" -> AccreditOrDelete(f) \cup SetAiClaim(f) \cup SetAiPaths(f)
      [] element = "Sanctions" ->
            SetBlocked(f) \cup SetClaimRegime(f) \cup SetScreening(f)
                \cup SetCurrentListVersion(f) \cup SetScreeningThresholds(f)
      [] element = "Affiliate" -> SetAffiliateClaim(f) \cup SetTrustedClaimIssuer(f)
      [] element = "ClaimFreshness" -> SetFreshness(f)
      [] element = "EntityEligibility" ->
            SetEntityClaim(f) \cup SetRequiredTracks(f) \cup SetLookThroughStatus(f)
      [] element = "EquityOwnerLookThrough" -> SetLookThroughStatus(f)
      [] element = "QualifiedPurchaser" -> SetQp(f, now) \cup SetQpClaim(f) \cup SetFreshnessCap(f)
      [] element = "IdentityUniqueness" ->
            BindWallet(f, now) \cup UnbindWallet(f) \cup SetKycClaim(f) \cup SetIdentityStatus(f)
                \cup SetDedupStatus(f) \cup SetEnforceCounterparty(f)
      [] element \in {"Jurisdiction", "UsTaxResident"} ->
            SetJurisdiction(f) \cup SetJurisdictionAllowed(f) \cup SetUsTaxResident(f)
      [] OTHER -> {}

AssetCalls(f, now) ==
    CASE element = "AssetClassification" ->
            SetClassification(f, now) \cup SetCard(f) \cup SetActivationDelay(f)
      [] element = "BadActorDisqualification" ->
            SetOffering(f) \cup SetClearance(f) \cup SetClearanceRevoked(f) \cup SetTrustedBadActorIssuer(f)
      [] element = "TransferRestrictionMetadata" ->
            SetDeclaration(f) \cup SetRequiresRestricted(f) \cup SetValidPathsMask(f)
                \cup SetApprovedUnrestrictBasis(f)
      [] element = "EngineSelection" -> SetSupportedEngines(f) \cup SetEngineFacts(f) \cup SetEngineSets(f)
      [] element \in {"Erc3643Native", "Erc3643NativeV2"} ->
            SetErc3643Native(f) \cup RegisterWiring(f) \cup ClearWiring(f) \cup TokenChanges(f)
      [] element = "FormDFiling" -> SetFormDFiled(f)
      [] element = "MinimumTradeAmount" -> BindMinimum(f)
      [] OTHER -> {}

ConductCalls(f, now) ==
    CASE element = "RegMIssuerBuying" ->
            SetCoveredSecurity(f) \cup SetOfferingStatus(f) \cup SetExceptionProfile(f)
                \cup SetRegistryUnverified(f) \cup SetAdtv(f) \cup SetRestrictedRole(f)
                \cup SetClusterRole(f) \cup SetInfoBarrierCertified(f) \cup SetPoliciesCertified(f)
      [] element = "OperatorSelfDealing" ->
            SetRestrictedParty(f) \cup SetRegistryAvailable(f) \cup SetPrimaryDistributor(f)
                \cup SetInvoluntaryAgent(f)
      [] element = "RedFlagKnowledgeBar" -> RaiseFlag(f) \cup MarkUncertain(f) \cup ResolveReview(f)
      [] element = "SurveillanceFlag" -> SetThreshold(f) \cup CountTransfer(f)
      [] element = "Lockup" -> SetSnapshot(f, now) \cup ClearSnapshot(f)
      [] element = "LockupV2" -> SetSnapshot(f, now) \cup ClearSnapshot(f) \cup BindDistributor(f)
      [] OTHER -> {}

OperatorCall ==
    /\ calls < MaxCalls
    /\ calls' = calls + 1
    /\ facts' \in InvestorCalls(facts, elementTime) \cup AssetCalls(facts, elementTime)
                        \cup ConductCalls(facts, elementTime)
    /\ UNCHANGED <<element, elementTime>>

TimePasses ==
    /\ elementTime < ElementMaxTime
    /\ elementTime' = elementTime + 1
    /\ UNCHANGED <<element, facts, calls>>

ElementNext == OperatorCall \/ TimePasses

ElementSpec == ElementInit /\ [][ElementNext]_elementVars

-----------------------------------------------------------------------------
(* The verdict on a trade: 0, or the code of the refusal. *)

ElementVerdict(t) ==
    CASE element = "AccreditedInvestor" -> AccreditedRefusal(facts, elementTime)
      [] element = "Sanctions" -> SanctionsRefusal(facts, elementTime)
      [] element = "Affiliate" -> AffiliateRefusal(facts, elementTime)
      [] element = "ClaimFreshness" -> FreshnessRefusal(facts, elementTime)
      [] element = "EntityEligibility" -> EntityRefusal(facts)
      [] element = "EquityOwnerLookThrough" -> LookThroughRefusal(facts.statusOf)
      [] element = "QualifiedPurchaser" -> QpRefusal(facts, elementTime)
      [] element = "IdentityUniqueness" -> IdentityRefusal(facts, elementTime)
      [] element = "Jurisdiction" -> JurisdictionRefusal(facts)
      [] element = "UsTaxResident" -> UsTaxRefusal(facts)
      [] element = "AssetClassification" -> ClassificationRefusal(facts, elementTime)
      [] element = "BadActorDisqualification" -> BadActorRefusal(facts, elementTime)
      [] element = "TransferRestrictionMetadata" -> RestrictionRefusal(facts)
      [] element = "EngineSelection" -> EngineRefusal(facts, t)
      [] element = "Erc3643Native" -> Erc3643Refusal(facts, t)
      [] element = "Erc3643NativeV2" -> Erc3643V2Refusal(facts, t)
      [] element = "FormDFiling" -> FormDRefusal(facts)
      [] element = "MinimumTradeAmount" -> MinimumTradeRefusal(facts, t)
      [] element = "BuidlMinimumInvestment" -> BuidlMinimumRefusal(t)
      [] element = "RegMIssuerBuying" -> RegMRefusal(facts, t)
      [] element = "OperatorSelfDealing" -> SelfDealingRefusal(facts, t)
      [] element = "RedFlagKnowledgeBar" -> RoutesToReview(facts)
      [] element = "SurveillanceFlag" -> SurveillanceVerdict(facts)
      [] element = "Lockup" -> LockupRefusal(facts, elementTime)
      [] element = "LockupV2" -> LockupV2Refusal(facts, t, elementTime)

(* The trades an element tells apart. *)
JudgedTrades ==
    CASE element = "EngineSelection" ->
            {[PlainTrade EXCEPT !.venue = v, !.affiliate = a] : v \in Engines, a \in BOOLEAN}
      [] element = "Erc3643NativeV2" ->
            {[PlainTrade EXCEPT !.side = s, !.amount = n] : s \in {"OUT", "IN"}, n \in {0, 2}}
      [] element = "RegMIssuerBuying" ->
            {[PlainTrade EXCEPT !.flow = w] : w \in {"SECONDARY_TRADE", "REDEMPTION"}}
      [] element = "OperatorSelfDealing" ->
            {[PlainTrade EXCEPT !.flow = w, !.initiator = i] :
                w \in {"SECONDARY_TRADE", "PRIMARY_DISTRIBUTION"}, i \in {"buyer", "agent"}}
      [] element = "LockupV2" ->
            {[PlainTrade EXCEPT !.flow = w, !.side = s] :
                w \in {"SECONDARY_TRADE", "PRIMARY_DISTRIBUTION"}, s \in {"OUT", "IN"}}
      [] element \in {"MinimumTradeAmount", "BuidlMinimumInvestment"} ->
            {[PlainTrade EXCEPT !.amount = n] : n \in 0..BuidlMinimum}
      [] OTHER -> {PlainTrade}

-----------------------------------------------------------------------------
(* Restrictions.  What of the storage only restricts when it grows ("TRUE     *)
(* restricts", a set of what is forbidden) or shrinks, with all else equal.  *)

On(f, g, field) == g = [f EXCEPT ![field] = TRUE]
Off(f, g, field) == g = [f EXCEPT ![field] = FALSE]
Grows(f, g, field) == f[field] \subseteq g[field] /\ g = [f EXCEPT ![field] = g[field]]
Shrinks(f, g, field) == g[field] \subseteq f[field] /\ g = [f EXCEPT ![field] = g[field]]

Restricts(f, g) ==
    CASE element = "AccreditedInvestor" -> On(f, g, "requires506c") \/ On(f, g, "sec4a7")
      [] element = "Sanctions" ->
            Grows(f, g, "blocked") \/ On(f, g, "regime") \/ On(f, g, "counterparty")
      [] element = "Affiliate" -> Off(f, g, "trusted")
      [] element = "EntityEligibility" -> Grows(f, g, "tracks")
      [] element = "IdentityUniqueness" -> On(f, g, "enforceCounterparty")
      [] element = "Jurisdiction" -> Shrinks(f, g, "allowed")
      [] element = "BadActorDisqualification" -> Shrinks(f, g, "trusted")
      [] element = "MinimumTradeAmount" -> f.words = g.words /\ f.minimum \in 1..g.minimum
      [] element = "TransferRestrictionMetadata" ->
            \/ On(f, g, "requiresRestricted")
            \/ Shrinks(f, g, "validPaths")
            \/ Shrinks(f, g, "approvedBasis")
      [] element = "EngineSelection" ->
            \/ On(f, g, "sec4a7") \/ Off(f, g, "isDebt")
            \/ Shrinks(f, g, "noGs") \/ Shrinks(f, g, "affiliateSet")
      [] element = "RegMIssuerBuying" ->
            \/ On(f, g, "covered") \/ On(f, g, "unverified")
            \/ Off(f, g, "infoBarrier") \/ Off(f, g, "policies")
      [] element = "OperatorSelfDealing" ->
            \/ Grows(f, g, "restricted") \/ Shrinks(f, g, "allowsPrimary")
            \/ Off(f, g, "involuntaryAgent") \/ Off(f, g, "registryAvailable")
      [] OTHER -> FALSE

(* A stop, and the trades it is about. *)
Stops(f, g, t) ==
    CASE element = "Sanctions" -> g.blocked # {}
      [] element = "BadActorDisqualification" -> g.clearance.revoked
      [] element \in {"Erc3643Native", "Erc3643NativeV2"} ->
            g.registered /\ (g.token.paused \/ Sender(t) \in g.token.frozen)
      [] element = "RedFlagKnowledgeBar" ->
            g.flagMask # f.flagMask \/ g.uncertain # f.uncertain
      [] element = "LockupV2" ->
            t.flow = "SECONDARY_TRADE" /\ g.snapshot[Sender(t)].status # "VALID"
      [] OTHER -> FALSE

(* Time alone turns a refusal into a pass only where the element waits for    *)
(* it: a lock that ends, a card that becomes effective (code 4 of either).    *)
(* What has lapsed stays refused until somebody attests again, and a date in *)
(* the future is no refusal that goes away.                                  *)
OnlyWaitingHeals ==
    [][ elementTime' > elementTime =>
            \A t \in JudgedTrades :
                ElementVerdict(t) # 0 /\ ElementVerdict(t)' = 0 =>
                    /\ ElementVerdict(t) = 4
                    /\ element \in {"Lockup", "LockupV2", "AssetClassification"} ]_elementVars

(* A call that restricts never lets through what was refused, however the    *)
(* restrictions combine (two tracks, two overlays, two parties); and from    *)
(* the moment of a stop no trade it is about is let through, in whichever     *)
(* direction the asset moves.                                               *)
RestrictionsBite ==
    [][ facts' # facts =>
            \A t \in JudgedTrades :
                /\ Restricts(facts, facts') /\ ElementVerdict(t)' = 0 => ElementVerdict(t) = 0
                /\ Stops(facts, facts', t) => ElementVerdict(t)' # 0 ]_elementVars

(* What refuses a person stays with the person: wallets that are bound to it  *)
(* and unbound from it change nothing but a claim that was missing.          *)
PersonKeepsRefusal ==
    [][ element = "IdentityUniqueness" /\ facts'.identityOf # facts.identityOf =>
            \A i \in IdentityIds :
                PersonRefusal(facts, i, elementTime) # 2 =>
                    PersonRefusal(facts', i, elementTime) = PersonRefusal(facts, i, elementTime) ]_elementVars
=============================================================================
