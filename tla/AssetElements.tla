----------------------------- MODULE AssetElements ------------------------------
(***************************************************************************)
(* The elements that judge an asset and the way it is traded                *)
(* (src/compliance/elements), each with its storage at deployment, its       *)
(* operator calls and the code of its refusal.                              *)
(***************************************************************************)
EXTENDS ElementChecks

CONSTANT BuidlMinimum       \* the smallest investment of BuidlMinimumInvestment

-----------------------------------------------------------------------------
(* AssetClassification: a card whose classification is the required one, or  *)
(* another.                                                                 *)

NoCard ==
    [ status |-> "NONE", required |-> FALSE, coreVersion |-> 0, approvedVersion |-> 0,
      approvedAt |-> 0, factsAsOf |-> 0, maxFactAge |-> 0 ]

ActiveCard(required, now) ==
    [ status |-> "ACTIVE", required |-> required, coreVersion |-> 1, approvedVersion |-> 1,
      approvedAt |-> now, factsAsOf |-> now, maxFactAge |-> 0 ]

ClassificationDeployed == [card |-> NoCard, activationDelay |-> 0]

SetClassification(f, now) == {[f EXCEPT !.card = ActiveCard(r, now)] : r \in BOOLEAN}
SetCard(f) ==
    {[f EXCEPT !.card = c] :
        c \in Flawed(ActiveCard(TRUE, 1),
                    {<<"status", "SUSPENDED">>, <<"coreVersion", 2>>, <<"approvedAt", 3>>, <<"maxFactAge", 1>>})
              \cup {[ActiveCard(TRUE, 3) EXCEPT !.maxFactAge = 1, !.approvedAt = 1]} }
SetActivationDelay(f) == {[f EXCEPT !.activationDelay = d] : d \in {0, 2}}

ClassificationRefusal(f, now) ==
    LET c == f.card IN FirstRefusal(<<
        Refuse(c.status = "NONE", 1),
        Refuse(c.status = "SUSPENDED", 2),
        Refuse(c.coreVersion # c.approvedVersion, 3),
        Refuse(now < c.approvedAt + f.activationDelay, 4),
        Refuse(~c.required, 5),
        Refuse(c.maxFactAge # 0 /\ TooOld(c.factsAsOf, c.maxFactAge, now), 6) >>)

-----------------------------------------------------------------------------
(* BadActorDisqualification *)

NoClearance ==
    [ exists |-> FALSE, issuer |-> "none", offeringScope |-> "none", expiry |-> 0, revoked |-> FALSE,
      disclosure506e |-> FALSE, matters |-> FALSE, furnished |-> FALSE ]

CleanClearance == [NoClearance EXCEPT
    !.exists = TRUE, !.issuer = "verifier", !.offeringScope = "o1", !.expiry = 4]

BadActorDeployed ==
    [ offeringId |-> "none", roster |-> FALSE, rosterComplete |-> FALSE,
      clearance |-> NoClearance, trusted |-> {} ]

SetOffering(f) ==
    {[f EXCEPT !.offeringId = o[1], !.roster = o[2], !.rosterComplete = o[3]] :
        o \in {"o1", "o2"} \X BOOLEAN \X BOOLEAN}

(* A new clearance is never revoked. *)
SetClearance(f) ==
    {[f EXCEPT !.clearance = c] :
        c \in {CleanClearance}
              \cup Flawed(CleanClearance, {<<"issuer", "other">>, <<"offeringScope", "o2">>, <<"expiry", 2>>})
              \cup {[CleanClearance EXCEPT !.disclosure506e = TRUE, !.matters = d[1], !.furnished = d[2]] :
                        d \in BOOLEAN \X BOOLEAN}}
SetClearanceRevoked(f) == {[f EXCEPT !.clearance.revoked = b] : b \in BOOLEAN}
SetTrustedBadActorIssuer(f) == {[f EXCEPT !.trusted = t] : t \in {{}, {"verifier"}}}

BadActorRefusal(f, now) ==
    LET c == f.clearance IN FirstRefusal(<<
        Refuse(~f.roster, 1),
        Refuse(~f.rosterComplete, 2),
        Refuse(~c.exists, 3),
        Refuse(c.disclosure506e /\ ~c.matters, 4),
        Refuse(c.issuer \notin f.trusted, 5),
        Refuse(c.offeringScope # f.offeringId, 6),
        Refuse(now > c.expiry, 7),
        Refuse(c.revoked, 8),
        Refuse(c.disclosure506e /\ ~c.furnished, 9) >>)

-----------------------------------------------------------------------------
(* TransferRestrictionMetadata *)

NoDeclaration ==
    [ declared |-> FALSE, restricted |-> FALSE, paths |-> {}, holdingPeriodMonths |-> 0,
      reportingStatus |-> "UNSET", currentInfo |-> FALSE, classBound |-> TRUE, legend |-> FALSE,
      basis |-> "none" ]

SoundDeclaration == [NoDeclaration EXCEPT
    !.declared = TRUE, !.restricted = TRUE, !.paths = {"p1"}, !.holdingPeriodMonths = 12,
    !.reportingStatus = "NON_REPORTING", !.legend = TRUE]

RestrictionDeployed ==
    [declaration |-> NoDeclaration, requiresRestricted |-> FALSE, validPaths |-> {}, approvedBasis |-> {}]

SetDeclaration(f) ==
    {[f EXCEPT !.declaration = d] :
        d \in {SoundDeclaration}
              \cup Flawed(SoundDeclaration,
                    { <<"paths", {}>>, <<"paths", {"p1", "p2"}>>, <<"holdingPeriodMonths", 9>>,
                      <<"holdingPeriodMonths", 6>>, <<"reportingStatus", "UNSET">>,
                      <<"reportingStatus", "REPORTING_90D">>, <<"classBound", FALSE>>,
                      <<"legend", FALSE>> })
              \cup {[SoundDeclaration EXCEPT !.restricted = FALSE, !.basis = b] : b \in {"none", "b1"}}
              \cup {[SoundDeclaration EXCEPT !.reportingStatus = "REPORTING_90D", !.currentInfo = TRUE,
                                             !.holdingPeriodMonths = 6]} }
SetRequiresRestricted(f) == {[f EXCEPT !.requiresRestricted = b] : b \in BOOLEAN}
SetValidPathsMask(f) == {[f EXCEPT !.validPaths = m] : m \in SUBSET {"p1", "p2"}}
SetApprovedUnrestrictBasis(f) == {[f EXCEPT !.approvedBasis = a] : a \in {{}, {"b1"}}}

RestrictionRefusal(f) ==
    LET d == f.declaration
        r == d.restricted
    IN  FirstRefusal(<<
            Refuse(~d.declared, 1),
            Refuse(f.requiresRestricted /\ ~r, 2),
            Refuse(r /\ d.paths = {}, 3),
            Refuse(r /\ ~(d.paths \subseteq f.validPaths), 4),
            Refuse(r /\ d.holdingPeriodMonths \notin {6, 12}, 4),
            Refuse(r /\ d.reportingStatus = "UNSET", 3),
            Refuse(r /\ ~d.classBound, 3),
            Refuse(r /\ ~d.legend, 3),
            Refuse(r /\ d.reportingStatus = "NON_REPORTING" /\ d.holdingPeriodMonths = 6, 5),
            Refuse(r /\ d.reportingStatus = "REPORTING_90D" /\ ~d.currentInfo, 5),
            Refuse(~r /\ d.basis \notin f.approvedBasis, 6) >>)

-----------------------------------------------------------------------------
(* EngineSelection *)

Engines == {"AMM", "ORDER_BOOK", "RFQ"}

EngineSelectionDeployed ==
    [ supported |-> {}, sec4a7 |-> FALSE, isDebt |-> FALSE, mmClaim |-> FALSE,
      noGs |-> {"RFQ"}, affiliateSet |-> {"RFQ"} ]

(* "OTHER" is a bit that names no engine. *)
SetSupportedEngines(f) == {[f EXCEPT !.supported = s] : s \in SUBSET (Engines \cup {"OTHER"})}
SetEngineFacts(f) ==
    {[f EXCEPT !.sec4a7 = b] : b \in BOOLEAN} \cup {[f EXCEPT !.isDebt = b] : b \in BOOLEAN}
        \cup {[f EXCEPT !.mmClaim = b] : b \in BOOLEAN}
SetEngineSets(f) ==
    {[f EXCEPT !.noGs = s] : s \in SUBSET {"AMM", "RFQ"}}
        \cup {[f EXCEPT !.affiliateSet = s] : s \in SUBSET {"AMM", "RFQ"}}

(* validateEngineDeclaration *)
DeclarationRefusal(f) == FirstRefusal(<<
    Refuse(f.supported = {}, 1), Refuse(~(f.supported \subseteq Engines), 2) >>)

(* The engine always passes a whole context, which excludes code 3. *)
EngineRefusal(f, t) ==
    LET overlay == t.affiliate /\ ~f.isDebt
    IN  IF DeclarationRefusal(f) # 0 THEN DeclarationRefusal(f)
        ELSE FirstRefusal(<<
            Refuse(t.venue \notin f.supported, 4),
            Refuse(f.sec4a7 /\ t.venue \notin f.noGs, 5),
            Refuse(overlay /\ t.venue \notin f.affiliateSet, 6),
            Refuse(overlay /\ t.venue = "RFQ" /\ ~f.mmClaim, 7) >>)

-----------------------------------------------------------------------------
(* Erc3643Native and its second version.  The token, its identity registry   *)
(* and its compliance module are other contracts: they change by themselves,  *)
(* and a call to one of them may fail.                                       *)

SoundToken ==
    [ answers |-> TRUE, identityRegistry |-> "ir", compliance |-> "mc", codehash |-> "h",
      paused |-> FALSE, frozen |-> {}, balance |-> [p \in Parties |-> 2],
      frozenTokens |-> [p \in Parties |-> 0], verified |-> Parties, canTransfer |-> TRUE ]

TokenDeployed == [native |-> FALSE, registered |-> FALSE, token |-> SoundToken]

SetErc3643Native(f) == {[f EXCEPT !.native = b] : b \in BOOLEAN}

(* A registration pins what the sound token answers. *)
RegisterWiring(f) == {[f EXCEPT !.registered = TRUE]}
ClearWiring(f) == {[f EXCEPT !.registered = FALSE]}

TokenChanges(f) ==
    {[f EXCEPT !.token = k] :
        k \in {SoundToken}
            \cup Flawed(SoundToken,
                { <<"answers", FALSE>>, <<"identityRegistry", "other">>, <<"compliance", "other">>,
                  <<"codehash", "other">>, <<"paused", TRUE>>, <<"canTransfer", FALSE>> })
            \cup {[SoundToken EXCEPT !.frozen = {p}] : p \in Parties}
            \cup {[SoundToken EXCEPT !.frozenTokens[p] = n] : p \in Parties, n \in {1, 3}}
            \cup {[SoundToken EXCEPT !.verified = {p}] : p \in Parties} }

(* The refusals of a live token whose asset moves between two parties. *)
ConformanceRefusal(f, from, to, amount) ==
    LET k == f.token
        free == IF k.balance[from] > k.frozenTokens[from] THEN k.balance[from] - k.frozenTokens[from] ELSE 0
        live == f.registered
    IN  FirstRefusal(<<
            Refuse(~f.native, 1),
            Refuse(live /\ ~k.answers, 1),
            Refuse(live /\ (k.identityRegistry # "ir" \/ k.compliance # "mc" \/ k.codehash # "h"), 2),
            Refuse(live /\ k.paused, 3),
            Refuse(live /\ k.frozen \cap {from, to} # {}, 4),
            Refuse(live /\ amount # 0 /\ free < amount, 5),
            Refuse(live /\ (to \notin k.verified \/ ~k.canTransfer), 6) >>)

Erc3643Refusal(f, t) == ConformanceRefusal(f, "seller", "buyer", t.amount)
Erc3643V2Refusal(f, t) == ConformanceRefusal(f, Sender(t), Recipient(t), t.amount)

-----------------------------------------------------------------------------
(* FormDFiling, and the two minimum amounts *)

FormDDeployed == [formDFiled |-> FALSE]
SetFormDFiled(f) == {[f EXCEPT !.formDFiled = b] : b \in BOOLEAN}
FormDRefusal(f) == IF f.formDFiled THEN 0 ELSE 1

(* The parameter of a binding: absent, one word, or a word too many. *)
MinimumBound == [words |-> 0, minimum |-> 0]
BindMinimum(f) == {[words |-> w, minimum |-> m] : w \in 0..2, m \in 0..2}

MinimumTradeRefusal(f, t) ==
    IF ~ParametersValid(TRUE, TRUE, f.words, 1) \/ f.minimum < 1 THEN BAD_PARAMETERS
    ELSE IF t.amount >= f.minimum THEN 0 ELSE 1

BuidlMinimumRefusal(t) == IF t.amount >= BuidlMinimum THEN 0 ELSE 1
=============================================================================
