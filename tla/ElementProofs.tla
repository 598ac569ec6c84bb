------------------------------ MODULE ElementProofs ------------------------------
(***************************************************************************)
(* Proofs about Elements: what an element stores keeps its fields, whatever   *)
(* its operators call; neither time nor a restriction takes a refusal away   *)
(* from the list an element goes through; and a refusal stays with a person. *)
(***************************************************************************)
EXTENDS Elements, SumLemmas, TLAPS

(* A list of refusals lets through what none of them applies to, and names   *)
(* the first that applies otherwise.                                         *)
LEMMA FirstThatApplies ==
  ASSUME NEW n \in Nat, NEW rules, DOMAIN rules = 1..n
  PROVE  /\ (\A k \in 1..n : ~rules[k].if) => FirstRefusal(rules) = 0
         /\ (\E k \in 1..n : rules[k].if) =>
               \E k \in 1..n : /\ rules[k].if /\ FirstRefusal(rules) = rules[k].code
                               /\ \A j \in 1..(k - 1) : ~rules[j].if
<1> DEFINE hit == {k \in DOMAIN rules : rules[k].if}
<1>1. CASE hit = {}
  BY <1>1 DEF FirstRefusal
<1>2. CASE hit # {}
  <2>1. hit \subseteq Nat
    OBVIOUS
  <2>2. Min(hit) \in hit /\ \A m \in hit : Min(hit) <= m
    BY <1>2, <2>1, LeastNatural DEF Min
  <2>3. FirstRefusal(rules) = rules[Min(hit)].code
    BY <1>2 DEF FirstRefusal
  <2>4. \A j \in 1..(Min(hit) - 1) : j \notin hit
    <3>1. Min(hit) \in Nat
      BY <2>1, <2>2
    <3> HIDE DEF hit
    <3> QED BY <2>1, <2>2, <3>1
  <2>5. \A j \in 1..(Min(hit) - 1) : j \in 1..n
    BY <2>2
  <2> HIDE DEF FirstRefusal
  <2>6. /\ Min(hit) \in 1..n /\ rules[Min(hit)].if
        /\ \A j \in 1..(Min(hit) - 1) : ~rules[j].if
    BY <2>2, <2>4, <2>5
  <2> QED BY <2>3, <2>6
<1> QED BY <1>1, <1>2

(* Fewer refusals let through what more of them do. *)
LEMMA FewerRefusals ==
  ASSUME NEW few, NEW more, DOMAIN few \subseteq Nat, DOMAIN more = DOMAIN few,
         \A k \in DOMAIN few : (few[k].if => more[k].if) /\ more[k].code # 0,
         FirstRefusal(more) = 0
  PROVE  FirstRefusal(few) = 0
<1> DEFINE hit == {k \in DOMAIN more : more[k].if}
<1>1. CASE hit = {}
  BY <1>1 DEF FirstRefusal
<1>2. CASE hit # {}
  <2>1. Min(hit) \in hit
    BY <1>2, LeastNatural DEF Min
  <2>2. FirstRefusal(more) = more[Min(hit)].code
    BY <1>2 DEF FirstRefusal
  <2> QED BY <2>1, <2>2
<1> QED BY <1>1, <1>2

(* Of the refusals of now, all but one are refusals of later. *)
LEMMA OnlyOneWaits ==
  ASSUME NEW few, NEW more, DOMAIN few \subseteq Nat, DOMAIN more = DOMAIN few,
         NEW w \in DOMAIN few,
         \A k \in DOMAIN few \ {w} : (few[k].if => more[k].if) /\ more[k].code # 0,
         more[w].code # 0, FirstRefusal(more) = 0
  PROVE  FirstRefusal(few) \in {0, few[w].code}
<1> DEFINE hit == {k \in DOMAIN few : few[k].if}
           meant == {k \in DOMAIN more : more[k].if}
<1>1. meant = {}
  <2> SUFFICES ASSUME meant # {} PROVE FALSE
    OBVIOUS
  <2>1. Min(meant) \in meant
    BY LeastNatural DEF Min
  <2>2. FirstRefusal(more) = more[Min(meant)].code
    BY DEF FirstRefusal
  <2> QED BY <2>1, <2>2
<1>2. hit \subseteq {w}
  BY <1>1
<1>3. CASE hit = {}
  BY <1>3 DEF FirstRefusal
<1>4. CASE hit # {}
  <2>1. Min(hit) \in hit
    BY <1>4, LeastNatural DEF Min
  <2>2. FirstRefusal(few) = few[Min(hit)].code
    BY <1>4 DEF FirstRefusal
  <2> QED BY <1>2, <2>1, <2>2
<1> QED BY <1>3, <1>4

-----------------------------------------------------------------------------
(* Neither time nor a restriction makes an element let through what it        *)
(* refused: what stands of f at "now" is no more than what stands of g        *)
(* "later".                                                                 *)

(* One refusal that applies is enough. *)
LEMMA Applies ==
  ASSUME NEW rules, DOMAIN rules \subseteq Nat, NEW k \in DOMAIN rules, rules[k].if,
         \A j \in DOMAIN rules : rules[j].code # 0
  PROVE  FirstRefusal(rules) # 0
<1> DEFINE hit == {j \in DOMAIN rules : rules[j].if}
<1>1. Min(hit) \in hit
  BY LeastNatural DEF Min
<1>2. FirstRefusal(rules) = rules[Min(hit)].code
  BY DEF FirstRefusal
<1> QED BY <1>1, <1>2

(* A claim expires, and the two paths of an issuer add conditions. *)
LEMMA AccreditedTightens ==
  ASSUME NEW f, NEW g, NEW now \in Nat, NEW later \in Nat, now <= later,
         f.claim = g.claim, f.claim.expiry \in Nat,
         f.requires506c => g.requires506c, f.sec4a7 => g.sec4a7,
         AccreditedRefusal(g, later) = 0
  PROVE  AccreditedRefusal(f, now) = 0
<1> DEFINE c == f.claim
           rules(h, at) == <<
               Refuse(~c.exists, 1),
               Refuse(~c.issuerTrusted, 2),
               Refuse(~c.signatureValid, 3),
               Refuse(Lapsed(c.expiry, at), 4),
               Refuse(h.requires506c /\ ~c.verificationBasisAccepted, 5),
               Refuse(h.sec4a7 /\ c.basis = "NONE", 6),
               Refuse(c.basis = "OTHER", 8),
               Refuse(c.basis = "ALL_EQUITY_OWNERS" /\ c.ltStatus # "COMPLETED", 7),
               Refuse(c.reviewRequired, 9) >>
           few == rules(f, now)
           more == rules(g, later)
<1>1. AccreditedRefusal(f, now) = FirstRefusal(few) /\ AccreditedRefusal(g, later) = FirstRefusal(more)
  BY DEF AccreditedRefusal
<1>2. DOMAIN few = 1..9 /\ DOMAIN more = 1..9
  BY DEF Refuse
<1>3. \A k \in 1..9 : more[k].code # 0 /\ few[k].code # 0
  BY DEF Refuse
<1>4. \A k \in {1, 2, 3, 7, 8, 9} : few[k] = more[k]
  OBVIOUS
<1>5. Lapsed(c.expiry, now) => Lapsed(c.expiry, later)
  BY DEF Lapsed
<1>6. few[4].if => more[4].if
  BY <1>5 DEF Refuse
<1>7. few[5].if => more[5].if
  BY DEF Refuse
<1>8. few[6].if => more[6].if
  BY DEF Refuse
<1> HIDE DEF few, more
<1>9. \A k \in 1..9 : (few[k].if => more[k].if) /\ more[k].code # 0
  BY <1>3, <1>4, <1>6, <1>7, <1>8
<1> QED BY <1>1, <1>2, <1>9, FewerRefusals

(* A screening expires. *)
LEMMA ScreeningTightens ==
  ASSUME NEW f, NEW g, NEW p, NEW now \in Nat, NEW later \in Nat, now <= later,
         f.claims = g.claims, f.currentListVersion = g.currentListVersion,
         f.review = g.review, f.block = g.block, f.claims[p].expiry \in Nat,
         ScreenClaim(g, p, later) = 0
  PROVE  ScreenClaim(f, p, now) = 0
<1> DEFINE c == f.claims[p]
           rules(h, at) == <<
               Refuse(~c.exists, 4),
               Refuse(~c.issuerTrusted, 5),
               Refuse(~c.signatureValid, 6),
               Refuse(Lapsed(c.expiry, at), 7),
               Refuse(c.screenedListVersion # f.currentListVersion, 8),
               Refuse(c.identityMatchBps >= f.review /\ c.identityMatchBps < f.block, 10),
               Refuse(c.identityMatchBps >= f.block, 2),
               Refuse(c.isEntity /\ c.ltStatus # "COMPLETED", 9),
               Refuse(c.isEntity /\ c.blockedOwnershipBps >= 5000, 3) >>
           few == rules(f, now)
           more == rules(g, later)
<1>1. ScreenClaim(f, p, now) = FirstRefusal(few) /\ ScreenClaim(g, p, later) = FirstRefusal(more)
  BY DEF ScreenClaim
<1>2. DOMAIN few = 1..9 /\ DOMAIN more = 1..9
  BY DEF Refuse
<1>3. \A k \in 1..9 : more[k].code # 0 /\ few[k].code # 0
  BY DEF Refuse
<1>4. \A k \in {1, 2, 3, 5, 6, 7, 8, 9} : few[k] = more[k]
  OBVIOUS
<1>5. Lapsed(c.expiry, now) => Lapsed(c.expiry, later)
  BY DEF Lapsed
<1>6. few[4].if => more[4].if
  BY <1>5 DEF Refuse
<1> HIDE DEF few, more
<1>7. \A k \in 1..9 : (few[k].if => more[k].if) /\ more[k].code # 0
  BY <1>3, <1>4, <1>6
<1> QED BY <1>1, <1>2, <1>7, FewerRefusals

(* A claim outlives its cap. *)
LEMMA QpTightens ==
  ASSUME NEW f, NEW now \in Nat, NEW later \in Nat, now <= later,
         f.claim.verifiedAt \in Nat, f.freshnessCap \in Nat,
         QpRefusal(f, later) = 0
  PROVE  QpRefusal(f, now) = 0
<1> DEFINE c == f.claim
           cascades == c.basis \in {"FAMILY_COMPANY", "TRUST"}
           rules(h, at) == <<
               Refuse(c.basis = "NONE" \/ ~c.signatureValid, 1),
               Refuse(~c.issuerTrusted, 3),
               Refuse(TooOld(c.verifiedAt, f.freshnessCap, at), 2),
               Refuse(cascades /\ c.ltStatus = "NONE", 4),
               Refuse(cascades /\ c.ltStatus = "PENDING", 5),
               Refuse(c.basis = "FAMILY_COMPANY" /\ c.ltStatus = "FAILED", 7),
               Refuse(c.basis = "TRUST" /\ c.ltStatus = "FAILED", 6),
               Refuse(c.basis = "KNOWLEDGEABLE_EMPLOYEE" /\ c.coveredCompany # "asset", 8),
               Refuse(c.basis = "OTHER", 9) >>
           few == rules(f, now)
           more == rules(f, later)
<1>1. QpRefusal(f, now) = FirstRefusal(few) /\ QpRefusal(f, later) = FirstRefusal(more)
  BY DEF QpRefusal
<1>2. DOMAIN few = 1..9 /\ DOMAIN more = 1..9
  BY DEF Refuse
<1>3. \A k \in 1..9 : more[k].code # 0 /\ few[k].code # 0
  BY DEF Refuse
<1>4. \A k \in {1, 2, 4, 5, 6, 7, 8, 9} : few[k] = more[k]
  OBVIOUS
<1>5. TooOld(c.verifiedAt, f.freshnessCap, now) => TooOld(c.verifiedAt, f.freshnessCap, later)
  BY DEF TooOld
<1>6. few[3].if => more[3].if
  BY <1>5 DEF Refuse
<1> HIDE DEF few, more
<1>7. \A k \in 1..9 : (few[k].if => more[k].if) /\ more[k].code # 0
  BY <1>3, <1>4, <1>6
<1> QED BY <1>1, <1>2, <1>7, FewerRefusals

(* What is known of a person ages. *)
LEMMA PersonTightens ==
  ASSUME NEW f, NEW g, NEW i, NEW now \in Nat, NEW later \in Nat, now <= later,
         f.person = g.person, f.person[i].kyc.verifiedAt \in Nat, f.person[i].kyc.maxAge \in Nat,
         PersonRefusal(g, i, later) = 0
  PROVE  PersonRefusal(f, i, now) = 0
<1> DEFINE who == f.person[i]
           rules(h, at) == <<
               Refuse(~who.kyc.exists, 2),
               Refuse(~who.kyc.signatureValid, 3),
               Refuse(~who.kyc.issuerTrusted, 4),
               Refuse(who.kyc.maxAge # 0 /\ TooOld(who.kyc.verifiedAt, who.kyc.maxAge, at), 5),
               Refuse(who.status = "FROZEN", 6),
               Refuse(who.status = "REVOKED", 7),
               Refuse(who.dedup = "CONFIRMED_DUPLICATE", 8),
               Refuse(who.dedup = "SUSPECTED_DUPLICATE", 9) >>
           few == rules(f, now)
           more == rules(g, later)
<1>1. PersonRefusal(f, i, now) = FirstRefusal(few) /\ PersonRefusal(g, i, later) = FirstRefusal(more)
  BY DEF PersonRefusal
<1>2. DOMAIN few = 1..8 /\ DOMAIN more = 1..8
  BY DEF Refuse
<1>3. \A k \in 1..8 : more[k].code # 0 /\ few[k].code # 0
  BY DEF Refuse
<1>4. \A k \in {1, 2, 3, 5, 6, 7, 8} : few[k] = more[k]
  OBVIOUS
<1>5. TooOld(who.kyc.verifiedAt, who.kyc.maxAge, now)
        => TooOld(who.kyc.verifiedAt, who.kyc.maxAge, later)
  BY DEF TooOld
<1>6. few[4].if => more[4].if
  BY <1>5 DEF Refuse
<1> HIDE DEF few, more
<1>7. \A k \in 1..8 : (few[k].if => more[k].if) /\ more[k].code # 0
  BY <1>3, <1>4, <1>6
<1> QED BY <1>1, <1>2, <1>7, FewerRefusals

(* A card that waits to become effective is all that time heals. *)
LEMMA ClassificationTightens ==
  ASSUME NEW f, NEW now \in Nat, NEW later \in Nat, now <= later,
         f.card.factsAsOf \in Nat, f.card.maxFactAge \in Nat,
         ClassificationRefusal(f, later) = 0
  PROVE  ClassificationRefusal(f, now) \in {0, 4}
<1> DEFINE c == f.card
           rules(h, at) == <<
               Refuse(c.status = "NONE", 1),
               Refuse(c.status = "SUSPENDED", 2),
               Refuse(c.coreVersion # c.approvedVersion, 3),
               Refuse(at < c.approvedAt + f.activationDelay, 4),
               Refuse(~c.required, 5),
               Refuse(c.maxFactAge # 0 /\ TooOld(c.factsAsOf, c.maxFactAge, at), 6) >>
           few == rules(f, now)
           more == rules(f, later)
<1>1. ClassificationRefusal(f, now) = FirstRefusal(few) /\ ClassificationRefusal(f, later) = FirstRefusal(more)
  BY DEF ClassificationRefusal
<1>2. DOMAIN few = 1..6 /\ DOMAIN more = 1..6
  BY DEF Refuse
<1>3. \A k \in 1..6 : more[k].code # 0 /\ few[k].code # 0
  BY DEF Refuse
<1>4. \A k \in {1, 2, 3, 5} : few[k] = more[k]
  OBVIOUS
<1>5. TooOld(c.factsAsOf, c.maxFactAge, now) => TooOld(c.factsAsOf, c.maxFactAge, later)
  BY DEF TooOld
<1>6. few[6].if => more[6].if
  BY <1>5 DEF Refuse
<1>7. few[4].code = 4
  BY DEF Refuse
<1> HIDE DEF few, more
<1>8. \A k \in (1..6) \ {4} : (few[k].if => more[k].if) /\ more[k].code # 0
  BY <1>3, <1>4, <1>6
<1> QED BY <1>1, <1>2, <1>3, <1>7, <1>8, OnlyOneWaits

(* A clearance expires, and its issuer may lose the trust it was given with. *)
LEMMA BadActorTightens ==
  ASSUME NEW f, NEW g, NEW now \in Nat, NEW later \in Nat, now <= later,
         f.offeringId = g.offeringId, f.roster = g.roster, f.rosterComplete = g.rosterComplete,
         f.clearance = g.clearance, g.trusted \subseteq f.trusted, f.clearance.expiry \in Nat,
         BadActorRefusal(g, later) = 0
  PROVE  BadActorRefusal(f, now) = 0
<1> DEFINE c == f.clearance
           rules(h, at) == <<
               Refuse(~f.roster, 1),
               Refuse(~f.rosterComplete, 2),
               Refuse(~c.exists, 3),
               Refuse(c.disclosure506e /\ ~c.matters, 4),
               Refuse(c.issuer \notin h.trusted, 5),
               Refuse(c.offeringScope # f.offeringId, 6),
               Refuse(at > c.expiry, 7),
               Refuse(c.revoked, 8),
               Refuse(c.disclosure506e /\ ~c.furnished, 9) >>
           few == rules(f, now)
           more == rules(g, later)
<1>1. BadActorRefusal(f, now) = FirstRefusal(few) /\ BadActorRefusal(g, later) = FirstRefusal(more)
  BY DEF BadActorRefusal
<1>2. DOMAIN few = 1..9 /\ DOMAIN more = 1..9
  BY DEF Refuse
<1>3. \A k \in 1..9 : more[k].code # 0 /\ few[k].code # 0
  BY DEF Refuse
<1>4. \A k \in {1, 2, 3, 4, 6, 8, 9} : few[k] = more[k]
  OBVIOUS
<1>5. few[5].if => more[5].if
  BY DEF Refuse
<1>6. now > c.expiry => later > c.expiry
  OBVIOUS
<1>7. few[7].if => more[7].if
  BY <1>6 DEF Refuse
<1> HIDE DEF few, more
<1>8. \A k \in 1..9 : (few[k].if => more[k].if) /\ more[k].code # 0
  BY <1>3, <1>4, <1>5, <1>7
<1> QED BY <1>1, <1>2, <1>8, FewerRefusals

(* The end of a lock is all that time heals of a snapshot. *)
LEMMA SnapshotTightens ==
  ASSUME NEW f, NEW now \in Nat, NEW later \in Nat, now <= later,
         f.expiresAt \in Nat,
         SnapshotRefusal(f, later) = 0
  PROVE  SnapshotRefusal(f, now) \in {0, 4}
<1> DEFINE rules(h, at) == <<
               Refuse(f.status = "MISSING", 1),
               Refuse(f.status = "LINEAGE_BROKEN", 2),
               Refuse(f.expiresAt = 0 \/ at > f.expiresAt, 3),
               Refuse(f.clockStart = 0 \/ at < f.clockStart + lockupSeconds, 4) >>
           few == rules(f, now)
           more == rules(f, later)
<1>1. SnapshotRefusal(f, now) = FirstRefusal(few) /\ SnapshotRefusal(f, later) = FirstRefusal(more)
  BY DEF SnapshotRefusal
<1>2. DOMAIN few = 1..4 /\ DOMAIN more = 1..4
  BY DEF Refuse
<1>3. \A k \in 1..4 : more[k].code # 0 /\ few[k].code # 0
  BY DEF Refuse
<1>4. \A k \in {1, 2} : few[k] = more[k]
  OBVIOUS
<1>5. (f.expiresAt = 0 \/ now > f.expiresAt) => (f.expiresAt = 0 \/ later > f.expiresAt)
  OBVIOUS
<1>6. few[3].if => more[3].if
  BY <1>5 DEF Refuse
<1>7. few[4].code = 4
  BY DEF Refuse
<1> HIDE DEF few, more
<1>8. \A k \in (1..4) \ {4} : (few[k].if => more[k].if) /\ more[k].code # 0
  BY <1>3, <1>4, <1>6
<1> QED BY <1>1, <1>2, <1>3, <1>7, <1>8, OnlyOneWaits

(* Either date of a claim passes. *)
LEMMA FreshnessTightens ==
  ASSUME NEW f, NEW now \in Nat, NEW later \in Nat, now <= later,
         f.verifiedAt \in Nat, f.issuerExpiry \in Nat,
         FreshnessRefusal(f, later) = 0
  PROVE  FreshnessRefusal(f, now) = 0
<1> DEFINE cap == IF f.claimType = "QP" THEN CAP_QP ELSE CAP_AI
           regulatoryExpiry == f.verifiedAt + cap
           issuerBinds == f.issuerExpiry # 0 /\ f.issuerExpiry < regulatoryExpiry
           rules(h, at) == <<
               Refuse(f.verifiedAt = 0, 1),
               Refuse(f.claimType = "UNKNOWN", 5),
               Refuse(regulatoryExpiry > LastTimestamp, REVERT),
               Refuse(issuerBinds /\ at > f.issuerExpiry, 4),
               Refuse(~issuerBinds /\ at > regulatoryExpiry, IF f.claimType = "QP" THEN 3 ELSE 2) >>
           few == rules(f, now)
           more == rules(f, later)
<1>1. FreshnessRefusal(f, now) = FirstRefusal(few) /\ FreshnessRefusal(f, later) = FirstRefusal(more)
  BY DEF FreshnessRefusal
<1>2. DOMAIN few = 1..5 /\ DOMAIN more = 1..5
  BY DEF Refuse
<1>3. \A k \in 1..5 : more[k].code # 0 /\ few[k].code # 0
  BY DEF Refuse, REVERT
<1>4. \A k \in {1, 2, 3} : few[k] = more[k]
  OBVIOUS
<1>5. regulatoryExpiry \in Nat
  BY TailsArePositive
<1>6. (now > f.issuerExpiry => later > f.issuerExpiry) /\ (now > regulatoryExpiry => later > regulatoryExpiry)
  BY <1>5
<1>7. few[4].if => more[4].if
  BY <1>6 DEF Refuse
<1>8. few[5].if => more[5].if
  BY <1>6 DEF Refuse
<1> HIDE DEF few, more
<1>9. \A k \in 1..5 : (few[k].if => more[k].if) /\ more[k].code # 0
  BY <1>3, <1>4, <1>7, <1>8
<1> QED BY <1>1, <1>2, <1>9, FewerRefusals

(* An issuer asks for more, or accepts less, of a declaration. *)
LEMMA RestrictionTightens ==
  ASSUME NEW f, NEW g, f.declaration = g.declaration,
         f.requiresRestricted => g.requiresRestricted,
         g.validPaths \subseteq f.validPaths, g.approvedBasis \subseteq f.approvedBasis,
         RestrictionRefusal(g) = 0
  PROVE  RestrictionRefusal(f) = 0
<1> DEFINE d == f.declaration
           r == d.restricted
           rules(h) == <<
               Refuse(~d.declared, 1),
               Refuse(h.requiresRestricted /\ ~r, 2),
               Refuse(r /\ d.paths = {}, 3),
               Refuse(r /\ ~(d.paths \subseteq h.validPaths), 4),
               Refuse(r /\ d.holdingPeriodMonths \notin {6, 12}, 4),
               Refuse(r /\ d.reportingStatus = "UNSET", 3),
               Refuse(r /\ ~d.classBound, 3),
               Refuse(r /\ ~d.legend, 3),
               Refuse(r /\ d.reportingStatus = "NON_REPORTING" /\ d.holdingPeriodMonths = 6, 5),
               Refuse(r /\ d.reportingStatus = "REPORTING_90D" /\ ~d.currentInfo, 5),
               Refuse(~r /\ d.basis \notin h.approvedBasis, 6) >>
           few == rules(f)
           more == rules(g)
<1>1. RestrictionRefusal(f) = FirstRefusal(few) /\ RestrictionRefusal(g) = FirstRefusal(more)
  BY DEF RestrictionRefusal
<1>2. DOMAIN few = 1..11 /\ DOMAIN more = 1..11
  BY DEF Refuse
<1>3. \A k \in 1..11 : more[k].code # 0 /\ few[k].code # 0
  BY DEF Refuse
<1>4. \A k \in {1, 3, 5, 6, 7, 8, 9, 10} : few[k] = more[k]
  OBVIOUS
<1>5. few[2].if => more[2].if
  BY DEF Refuse
<1>6. few[4].if => more[4].if
  BY DEF Refuse
<1>7. few[11].if => more[11].if
  BY DEF Refuse
<1> HIDE DEF few, more
<1>8. \A k \in 1..11 : (few[k].if => more[k].if) /\ more[k].code # 0
  BY <1>3, <1>4, <1>5, <1>6, <1>7
<1> QED BY <1>1, <1>2, <1>8, FewerRefusals

-----------------------------------------------------------------------------
(* The elements that combine such lists. *)

LEMMA SanctionsTighten ==
  ASSUME NEW f, NEW g, NEW now \in Nat, NEW later \in Nat, now <= later,
         f.claims = g.claims, f.currentListVersion = g.currentListVersion,
         f.review = g.review, f.block = g.block,
         \A p \in Parties : f.claims[p].expiry \in Nat,
         f.blocked \subseteq g.blocked, f.regime => g.regime, f.counterparty => g.counterparty,
         SanctionsRefusal(g, later) = 0
  PROVE  SanctionsRefusal(f, now) = 0
<1>1. \A p \in Parties : ScreenClaim(g, p, later) = 0 => ScreenClaim(f, p, now) = 0
  BY ScreeningTightens
<1>2. "buyer" \in Parties /\ "seller" \in Parties
  BY DEF Parties
<1> QED BY <1>1, <1>2 DEF SanctionsRefusal

LEMMA IdentityTightens ==
  ASSUME NEW f, NEW g, NEW now \in Nat, NEW later \in Nat, now <= later,
         f.person = g.person, f.identityOf = g.identityOf,
         \A p \in Parties : f.identityOf[p] \in IdentityIds \cup {NoIdentityId},
         \A i \in IdentityIds : f.person[i].kyc.verifiedAt \in Nat /\ f.person[i].kyc.maxAge \in Nat,
         f.enforceCounterparty => g.enforceCounterparty,
         IdentityRefusal(g, later) = 0
  PROVE  IdentityRefusal(f, now) = 0
<1>1. \A i \in IdentityIds : PersonRefusal(g, i, later) = 0 => PersonRefusal(f, i, now) = 0
  BY PersonTightens
<1>2. \A p \in Parties : WalletRefusal(g, p, later) = 0 => WalletRefusal(f, p, now) = 0
  BY <1>1 DEF WalletRefusal
<1>3. "buyer" \in Parties /\ "seller" \in Parties
  BY DEF Parties
<1> QED BY <1>2, <1>3 DEF IdentityRefusal

(* A status that time changes turns into a refusal, or out of AFFILIATE, which *)
(* this element does not refuse.                                            *)
LEMMA AffiliateTightens ==
  ASSUME NEW f, NEW g, NEW now \in Nat, NEW later \in Nat, now <= later,
         f.basis = g.basis, f.verifiedAt = g.verifiedAt, f.decayStartedAt = g.decayStartedAt,
         f.verifiedAt \in Nat, g.trusted => f.trusted,
         AffiliateRefusal(g, later) = 0
  PROVE  AffiliateRefusal(f, now) = 0
<1> DEFINE rules(s) == <<
               Refuse(s = "UNKNOWN", 1), Refuse(s = "UNTRUSTED", 2),
               Refuse(s = "EXPIRED", 3), Refuse(s = "UNCERTAIN", 4) >>
           refused == {"UNKNOWN", "UNTRUSTED", "EXPIRED", "UNCERTAIN"}
           few == rules(AffiliateStatus(f, now))
           more == rules(AffiliateStatus(g, later))
<1>1. AffiliateRefusal(f, now) = FirstRefusal(few) /\ AffiliateRefusal(g, later) = FirstRefusal(more)
  BY DEF AffiliateRefusal
<1>2. DOMAIN few = 1..4 /\ DOMAIN more = 1..4
  BY DEF Refuse
<1>3. \A k \in 1..4 : more[k].code # 0
  BY DEF Refuse
<1>4. (\A k \in 1..4 : ~few[k].if) <=> AffiliateStatus(f, now) \notin refused
  <2>1. /\ few[1].if <=> AffiliateStatus(f, now) = "UNKNOWN"
        /\ few[2].if <=> AffiliateStatus(f, now) = "UNTRUSTED"
        /\ few[3].if <=> AffiliateStatus(f, now) = "EXPIRED"
        /\ few[4].if <=> AffiliateStatus(f, now) = "UNCERTAIN"
    BY DEF Refuse
  <2> HIDE DEF few
  <2> QED BY <2>1
<1>5. (\A k \in 1..4 : ~more[k].if) <=> AffiliateStatus(g, later) \notin refused
  <2>1. /\ more[1].if <=> AffiliateStatus(g, later) = "UNKNOWN"
        /\ more[2].if <=> AffiliateStatus(g, later) = "UNTRUSTED"
        /\ more[3].if <=> AffiliateStatus(g, later) = "EXPIRED"
        /\ more[4].if <=> AffiliateStatus(g, later) = "UNCERTAIN"
    BY DEF Refuse
  <2> HIDE DEF more
  <2> QED BY <2>1
<1>6. AffiliateStatus(g, later) \notin refused => AffiliateStatus(f, now) \notin refused
  <2>1. FRESHNESS_CAP \in Nat
    BY TailsArePositive
  <2>2. ResolveDecay(f.decayStartedAt, now) \in {"NON_AFFILIATE", "AFFILIATE"}
    BY DEF ResolveDecay
  <2>3. later <= g.verifiedAt + FRESHNESS_CAP => now <= f.verifiedAt + FRESHNESS_CAP
    BY <2>1
  <2> QED BY <2>1, <2>2, <2>3 DEF AffiliateStatus
<1> HIDE DEF few, more
<1>7. \A k \in 1..4 : ~more[k].if
  BY <1>1, <1>2, <1>3, Applies
<1>8. \A k \in 1..4 : few[k].if => more[k].if
  BY <1>4, <1>5, <1>6, <1>7
<1> QED BY <1>1, <1>2, <1>3, <1>8, FewerRefusals

(* More tracks are required. *)
LEMMA EntityTightens ==
  ASSUME NEW f, NEW g, f.tracks \subseteq g.tracks, g.tracks \subseteq {"AI", "QP"},
         f.isEntity = g.isEntity, f.aiBasis = g.aiBasis, f.qpBasis = g.qpBasis,
         f.investmentsUsd = g.investmentsUsd, f.formedForPurpose = g.formedForPurpose,
         f.qibConfirmed = g.qibConfirmed, f.directReqsMet = g.directReqsMet,
         f.statusOf = g.statusOf,
         EntityRefusal(g) = 0
  PROVE  EntityRefusal(f) = 0
<1>1. OwnersRefusal(f) = OwnersRefusal(g)
  BY DEF OwnersRefusal
<1>2. EntityAiCode(f) = EntityAiCode(g)
  BY <1>1 DEF EntityAiCode
<1>3. EntityQpCode(f) = EntityQpCode(g)
  BY <1>1 DEF EntityQpCode
<1>4. "AI" # "QP"
  OBVIOUS
<1>5. "AI" \in g.tracks /\ "QP" \in g.tracks => ~g.isEntity \/ (EntityAiCode(g) = 0 /\ EntityQpCode(g) = 0)
  <2>1. "AI" \in g.tracks /\ "QP" \in g.tracks => g.tracks = {"AI", "QP"}
    OBVIOUS
  <2> QED BY <2>1 DEF EntityRefusal
<1>6. "AI" \in g.tracks => EntityAiCode(g) = 0 \/ ~g.isEntity
  BY <1>5 DEF EntityRefusal
<1>7. "QP" \in g.tracks => EntityQpCode(g) = 0 \/ ~g.isEntity
  BY <1>5 DEF EntityRefusal
<1>8. f.tracks # {} => "AI" \in f.tracks \/ "QP" \in f.tracks
  OBVIOUS
<1> QED BY <1>2, <1>3, <1>6, <1>7, <1>8 DEF EntityRefusal

LEMMA EngineTightens ==
  ASSUME NEW f, NEW g, NEW t, f.supported = g.supported, f.mmClaim = g.mmClaim,
         f.sec4a7 => g.sec4a7, g.isDebt => f.isDebt,
         g.noGs \subseteq f.noGs, g.affiliateSet \subseteq f.affiliateSet,
         EngineRefusal(g, t) = 0
  PROVE  EngineRefusal(f, t) = 0
<1> DEFINE rules(h) == <<
               Refuse(t.venue \notin h.supported, 4),
               Refuse(h.sec4a7 /\ t.venue \notin h.noGs, 5),
               Refuse((t.affiliate /\ ~h.isDebt) /\ t.venue \notin h.affiliateSet, 6),
               Refuse((t.affiliate /\ ~h.isDebt) /\ t.venue = "RFQ" /\ ~h.mmClaim, 7) >>
           few == rules(f)
           more == rules(g)
<1>1. DeclarationRefusal(f) = DeclarationRefusal(g)
  BY DEF DeclarationRefusal
<1>2. /\ EngineRefusal(f, t) = IF DeclarationRefusal(f) # 0 THEN DeclarationRefusal(f) ELSE FirstRefusal(few)
      /\ EngineRefusal(g, t) = IF DeclarationRefusal(g) # 0 THEN DeclarationRefusal(g) ELSE FirstRefusal(more)
  BY DEF EngineRefusal
<1>3. DOMAIN few = 1..4 /\ DOMAIN more = 1..4
  BY DEF Refuse
<1>4. \A k \in 1..4 : more[k].code # 0
  BY DEF Refuse
<1>5. few[1].if => more[1].if
  BY DEF Refuse
<1>6. few[2].if => more[2].if
  BY DEF Refuse
<1>7. few[3].if => more[3].if
  BY DEF Refuse
<1>8. few[4].if => more[4].if
  BY DEF Refuse
<1> HIDE DEF few, more
<1>9. \A k \in 1..4 : (few[k].if => more[k].if) /\ more[k].code # 0
  BY <1>4, <1>5, <1>6, <1>7, <1>8
<1> QED BY <1>1, <1>2, <1>3, <1>9, FewerRefusals

(* Without its barrier an affiliated purchaser is restricted too. *)
LEMMA RegMTightens ==
  ASSUME NEW f, NEW g, NEW t, f.offering = g.offering, f.profile = g.profile, f.adtv = g.adtv,
         f.role = g.role, f.clusterRole = g.clusterRole,
         f.covered => g.covered, f.unverified => g.unverified,
         g.infoBarrier => f.infoBarrier, g.policies => f.policies,
         RegMRefusal(g, t) = 0
  PROVE  RegMRefusal(f, t) = 0
<1> DEFINE open == g.offering = "COMPLETED" \/ t.flow = "REDEMPTION"
           participant(h) == RestrictedRole(h) = "DISTRIBUTION_PARTICIPANT"
           rules(h) == <<
               Refuse(h.profile # "NONE", 1),
               Refuse(h.offering = "UNSET", 2),
               Refuse(~open /\ h.unverified, 3),
               Refuse(~open /\ participant(h) /\ ~DeMinimisException(h, t.amount), 5),
               Refuse(~open /\ RestrictedRole(h) # "NONE" /\ ~participant(h), 4) >>
           few == rules(f)
           more == rules(g)
<1>1. /\ RegMRefusal(f, t) = IF ~f.covered THEN 0 ELSE FirstRefusal(few)
      /\ RegMRefusal(g, t) = IF ~g.covered THEN 0 ELSE FirstRefusal(more)
  BY DEF RegMRefusal
<1>2. DOMAIN few = 1..5 /\ DOMAIN more = 1..5
  BY DEF Refuse
<1>3. \A k \in 1..5 : more[k].code # 0
  BY DEF Refuse
<1>4. /\ participant(f) <=> participant(g)
      /\ RestrictedRole(f) # "NONE" => RestrictedRole(g) # "NONE"
  BY DEF RestrictedRole
<1>5. DeMinimisException(g, t.amount) => DeMinimisException(f, t.amount)
  BY DEF DeMinimisException
<1>6. \A k \in {1, 2} : few[k] = more[k]
  OBVIOUS
<1>7. few[3].if => more[3].if
  BY DEF Refuse
<1>8. few[4].if => more[4].if
  BY <1>4, <1>5 DEF Refuse
<1>9. few[5].if => more[5].if
  BY <1>4 DEF Refuse
<1> HIDE DEF few, more
<1>10. \A k \in 1..5 : (few[k].if => more[k].if) /\ more[k].code # 0
  BY <1>3, <1>6, <1>7, <1>8, <1>9
<1> QED BY <1>1, <1>2, <1>10, FewerRefusals

LEMMA SelfDealingTightens ==
  ASSUME NEW f, NEW g, NEW t, f.restricted \subseteq g.restricted,
         g.allowsPrimary \subseteq f.allowsPrimary,
         g.involuntaryAgent => f.involuntaryAgent, g.registryAvailable => f.registryAvailable,
         SelfDealingRefusal(g, t) = 0
  PROVE  SelfDealingRefusal(f, t) = 0
<1> DEFINE rules(h) == <<
               Refuse(~h.registryAvailable, 2),
               Refuse(/\ h.restricted # {}
                      /\ ~(t.flow = "PRIMARY_DISTRIBUTION" /\ "seller" \in h.allowsPrimary)
                      /\ ~(t.initiator = "agent" /\ h.involuntaryAgent), 3) >>
           few == rules(f)
           more == rules(g)
<1>1. SelfDealingRefusal(f, t) = FirstRefusal(few) /\ SelfDealingRefusal(g, t) = FirstRefusal(more)
  BY DEF SelfDealingRefusal
<1>2. DOMAIN few = 1..2 /\ DOMAIN more = 1..2
  BY DEF Refuse
<1>3. \A k \in 1..2 : more[k].code # 0
  BY DEF Refuse
<1>4. few[1].if => more[1].if
  BY DEF Refuse
<1>5. few[2].if => more[2].if
  BY DEF Refuse
<1> HIDE DEF few, more
<1>6. \A k \in 1..2 : (few[k].if => more[k].if) /\ more[k].code # 0
  BY <1>3, <1>4, <1>5
<1> QED BY <1>1, <1>2, <1>6, FewerRefusals

(* What the stops of three elements leave. *)
LEMMA RevokedIsRefused ==
  ASSUME NEW f, NEW now, f.clearance.revoked
  PROVE  BadActorRefusal(f, now) # 0
<1> DEFINE c == f.clearance
           rules == <<
               Refuse(~f.roster, 1), Refuse(~f.rosterComplete, 2), Refuse(~c.exists, 3),
               Refuse(c.disclosure506e /\ ~c.matters, 4), Refuse(c.issuer \notin f.trusted, 5),
               Refuse(c.offeringScope # f.offeringId, 6), Refuse(now > c.expiry, 7),
               Refuse(c.revoked, 8), Refuse(c.disclosure506e /\ ~c.furnished, 9) >>
<1>1. BadActorRefusal(f, now) = FirstRefusal(rules)
  BY DEF BadActorRefusal
<1>2. DOMAIN rules = 1..9 /\ rules[8].if
  BY DEF Refuse
<1>3. \A k \in 1..9 : rules[k].code # 0
  BY DEF Refuse
<1> HIDE DEF rules
<1> QED BY <1>1, <1>2, <1>3, Applies

LEMMA StoppedTokenIsRefused ==
  ASSUME NEW f, NEW from, NEW to, NEW amount, f.registered, f.token.paused \/ from \in f.token.frozen
  PROVE  ConformanceRefusal(f, from, to, amount) # 0
<1> DEFINE k == f.token
           free == IF k.balance[from] > k.frozenTokens[from] THEN k.balance[from] - k.frozenTokens[from] ELSE 0
           live == f.registered
           rules == <<
               Refuse(~f.native, 1),
               Refuse(live /\ ~k.answers, 1),
               Refuse(live /\ (k.identityRegistry # "ir" \/ k.compliance # "mc" \/ k.codehash # "h"), 2),
               Refuse(live /\ k.paused, 3),
               Refuse(live /\ k.frozen \cap {from, to} # {}, 4),
               Refuse(live /\ amount # 0 /\ free < amount, 5),
               Refuse(live /\ (to \notin k.verified \/ ~k.canTransfer), 6) >>
<1>1. ConformanceRefusal(f, from, to, amount) = FirstRefusal(rules)
  BY DEF ConformanceRefusal
<1>2. DOMAIN rules = 1..7
  BY DEF Refuse
<1>3. rules[4].if \/ rules[5].if
  BY DEF Refuse
<1>4. \A j \in 1..7 : rules[j].code # 0
  BY DEF Refuse
<1> HIDE DEF rules
<1> QED BY <1>1, <1>2, <1>3, <1>4, Applies

LEMMA NoSnapshotIsRefused ==
  ASSUME NEW s, NEW now, s.status \in {"MISSING", "LINEAGE_BROKEN"}
  PROVE  SnapshotRefusal(s, now) # 0
<1> DEFINE rules == <<
               Refuse(s.status = "MISSING", 1), Refuse(s.status = "LINEAGE_BROKEN", 2),
               Refuse(s.expiresAt = 0 \/ now > s.expiresAt, 3),
               Refuse(s.clockStart = 0 \/ now < s.clockStart + lockupSeconds, 4) >>
<1>1. SnapshotRefusal(s, now) = FirstRefusal(rules)
  BY DEF SnapshotRefusal
<1>2. DOMAIN rules = 1..4
  BY DEF Refuse
<1>3. rules[1].if \/ rules[2].if
  BY DEF Refuse
<1>4. \A k \in 1..4 : rules[k].code # 0
  BY DEF Refuse
<1> HIDE DEF rules
<1> QED BY <1>1, <1>2, <1>3, <1>4, Applies

-----------------------------------------------------------------------------
(* What is stored: the fields of each element, and the dates among them.     *)

AccreditedFacts(f) ==
    /\ f = [claim |-> f.claim, requires506c |-> f.requires506c, sec4a7 |-> f.sec4a7]
    /\ f.claim.expiry \in Nat

SanctionsFacts(f) ==
    /\ f = [ blocked |-> f.blocked, claims |-> f.claims, regime |-> f.regime,
             counterparty |-> f.counterparty, currentListVersion |-> f.currentListVersion,
             review |-> f.review, block |-> f.block ]
    /\ f.claims = [p \in Parties |-> f.claims[p]]
    /\ \A p \in Parties : f.claims[p].expiry \in Nat

AffiliateFacts(f) ==
    /\ f = [ basis |-> f.basis, verifiedAt |-> f.verifiedAt, decayStartedAt |-> f.decayStartedAt,
             trusted |-> f.trusted ]
    /\ f.verifiedAt \in Nat

FreshnessFacts(f) == f.verifiedAt \in Nat /\ f.issuerExpiry \in Nat

EntityFacts(f) ==
    /\ f = [ isEntity |-> f.isEntity, aiBasis |-> f.aiBasis, qpBasis |-> f.qpBasis,
             investmentsUsd |-> f.investmentsUsd, formedForPurpose |-> f.formedForPurpose,
             qibConfirmed |-> f.qibConfirmed, directReqsMet |-> f.directReqsMet,
             tracks |-> f.tracks, statusOf |-> f.statusOf ]
    /\ f.tracks \subseteq {"AI", "QP"}

QpFacts(f) ==
    /\ f = [claim |-> f.claim, freshnessCap |-> f.freshnessCap]
    /\ f.claim.verifiedAt \in Nat /\ f.freshnessCap \in Nat

PersonFacts(who) ==
    /\ who = [kyc |-> who.kyc, status |-> who.status, dedup |-> who.dedup]
    /\ who.kyc.verifiedAt \in Nat /\ who.kyc.maxAge \in Nat

IdentityFacts(f) ==
    /\ f = [ identityOf |-> f.identityOf, person |-> f.person,
             enforceCounterparty |-> f.enforceCounterparty ]
    /\ f.identityOf \in [Parties -> IdentityIds \cup {NoIdentityId}]
    /\ f.person = [i \in IdentityIds |-> f.person[i]]
    /\ \A i \in IdentityIds : PersonFacts(f.person[i])

ResidenceFacts(f) ==
    f = [jurisdictionOf |-> f.jurisdictionOf, allowed |-> f.allowed, usTaxResident |-> f.usTaxResident]

ClassificationFacts(f) ==
    /\ f = [card |-> f.card, activationDelay |-> f.activationDelay]
    /\ f.card.factsAsOf \in Nat /\ f.card.maxFactAge \in Nat

BadActorFacts(f) ==
    /\ f = [ offeringId |-> f.offeringId, roster |-> f.roster, rosterComplete |-> f.rosterComplete,
             clearance |-> f.clearance, trusted |-> f.trusted ]
    /\ "expiry" \in DOMAIN f.clearance
    /\ f.clearance.expiry \in Nat

RestrictionFacts(f) ==
    f = [ declaration |-> f.declaration, requiresRestricted |-> f.requiresRestricted,
          validPaths |-> f.validPaths, approvedBasis |-> f.approvedBasis ]

EngineFacts(f) ==
    f = [ supported |-> f.supported, sec4a7 |-> f.sec4a7, isDebt |-> f.isDebt, mmClaim |-> f.mmClaim,
          noGs |-> f.noGs, affiliateSet |-> f.affiliateSet ]

RegMFacts(f) ==
    f = [ covered |-> f.covered, offering |-> f.offering, profile |-> f.profile,
          unverified |-> f.unverified, adtv |-> f.adtv, role |-> f.role,
          clusterRole |-> f.clusterRole, infoBarrier |-> f.infoBarrier, policies |-> f.policies ]

SelfDealingFacts(f) ==
    f = [ restricted |-> f.restricted, registryAvailable |-> f.registryAvailable,
          allowsPrimary |-> f.allowsPrimary, involuntaryAgent |-> f.involuntaryAgent ]

RedFlagFacts(f) ==
    f = [flagMask |-> f.flagMask, uncertain |-> f.uncertain, resolution |-> f.resolution]

LockFacts(snapshot) ==
    /\ snapshot = [p \in Parties |-> snapshot[p]]
    /\ \A p \in Parties : /\ snapshot[p].status \in {"VALID", "MISSING", "LINEAGE_BROKEN"}
                          /\ snapshot[p].expiresAt \in Nat

LockupFacts(f) == f = [snapshot |-> f.snapshot] /\ LockFacts(f.snapshot)
LockupV2Facts(f) ==
    f = [snapshot |-> f.snapshot, distributor |-> f.distributor] /\ LockFacts(f.snapshot)

FactsHold ==
    /\ element \in ElementNames
    /\ elementTime \in Nat
    /\ element = "AccreditedInvestor" => AccreditedFacts(facts)
    /\ element = "Sanctions" => SanctionsFacts(facts)
    /\ element = "Affiliate" => AffiliateFacts(facts)
    /\ element = "ClaimFreshness" => FreshnessFacts(facts)
    /\ element = "EntityEligibility" => EntityFacts(facts)
    /\ element = "QualifiedPurchaser" => QpFacts(facts)
    /\ element = "IdentityUniqueness" => IdentityFacts(facts)
    /\ element = "Jurisdiction" => ResidenceFacts(facts)
    /\ element = "AssetClassification" => ClassificationFacts(facts)
    /\ element = "BadActorDisqualification" => BadActorFacts(facts)
    /\ element = "TransferRestrictionMetadata" => RestrictionFacts(facts)
    /\ element = "EngineSelection" => EngineFacts(facts)
    /\ element = "RegMIssuerBuying" => RegMFacts(facts)
    /\ element = "OperatorSelfDealing" => SelfDealingFacts(facts)
    /\ element = "RedFlagKnowledgeBar" => RedFlagFacts(facts)
    /\ element = "Lockup" => LockupFacts(facts)
    /\ element = "LockupV2" => LockupV2Facts(facts)

(* A record with a flaw is the good one elsewhere. *)
LEMMA FlawedElsewhere ==
  ASSUME NEW good, NEW flaws, NEW c \in Flawed(good, flaws), NEW field \in DOMAIN good
  PROVE  c[field] = good[field] \/ \E d \in flaws : d[1] = field /\ c[field] = d[2]
BY DEF Flawed

LEMMA AccreditedKept ==
  ASSUME NEW f, AccreditedFacts(f), NEW g \in AccreditOrDelete(f) \cup SetAiClaim(f) \cup SetAiPaths(f)
  PROVE  AccreditedFacts(g)
<1>1. ASSUME NEW c \in AiClaims \cup {NoAiClaim, FullAiClaim} PROVE c.expiry \in Nat
  <2> DEFINE no == FALSE
             yes == TRUE
             flaws == { <<"issuerTrusted", no>>, <<"signatureValid", no>>, <<"expiry", 2>>,
                        <<"verificationBasisAccepted", no>>, <<"basis", "NONE">>, <<"basis", "OTHER">>,
                        <<"reviewRequired", yes>> }
  <2>1. CASE c \in Flawed(FullAiClaim, flaws)
    <3>1. "expiry" \in DOMAIN FullAiClaim /\ FullAiClaim.expiry = 0
      BY DEF FullAiClaim
    <3>2. \A d \in flaws : d[1] = "expiry" => d[2] = 2
      <4> HIDE DEF no, yes
      <4> QED OBVIOUS
    <3> HIDE DEF flaws
    <3> QED BY <2>1, <3>1, <3>2, FlawedElsewhere
  <2>2. CASE c \in {[FullAiClaim EXCEPT !.basis = "ALL_EQUITY_OWNERS", !.ltStatus = s] : s \in LookThroughStatus}
    <3>1. PICK s : c = [FullAiClaim EXCEPT !.basis = "ALL_EQUITY_OWNERS", !.ltStatus = s]
      BY <2>2, Zenon
    <3> QED BY <3>1 DEF FullAiClaim
  <2>3. CASE c \in {NoAiClaim, FullAiClaim}
    BY <2>3 DEF NoAiClaim, FullAiClaim
  <2> QED BY <1>1, <2>1, <2>2, <2>3 DEF AiClaims
<1>2. CASE g \in AccreditOrDelete(f) \cup SetAiClaim(f)
  <2>1. PICK c \in AiClaims \cup {NoAiClaim, FullAiClaim} : g = [f EXCEPT !.claim = c]
    BY <1>2 DEF AccreditOrDelete, SetAiClaim
  <2> QED BY <1>1, <2>1 DEF AccreditedFacts
<1>3. CASE g \in SetAiPaths(f)
  BY <1>3 DEF AccreditedFacts, SetAiPaths
<1> QED BY <1>2, <1>3

LEMMA SanctionsKept ==
  ASSUME NEW f, SanctionsFacts(f),
         NEW g \in SetBlocked(f) \cup SetClaimRegime(f) \cup SetScreening(f)
                       \cup SetCurrentListVersion(f) \cup SetScreeningThresholds(f)
  PROVE  SanctionsFacts(g)
<1> DEFINE no == FALSE
           flaws == { <<"issuerTrusted", no>>, <<"signatureValid", no>>, <<"expiry", 2>>,
                      <<"screenedListVersion", 1>>, <<"identityMatchBps", 7500>>,
                      <<"identityMatchBps", 9500>> }
           owned == {"PENDING", "COMPLETED"} \X {4999, 5000}
           owners == {[CleanScreening EXCEPT !.isEntity = TRUE, !.ltStatus = o[1], !.blockedOwnershipBps = o[2]] :
                          o \in owned}
<1>1. ScreeningClaims = {CleanScreening} \cup Flawed(CleanScreening, flaws) \cup owners
  BY DEF ScreeningClaims
<1>2. ASSUME NEW c \in ScreeningClaims \cup {NoScreening} PROVE c.expiry \in Nat
  <2>1. CleanScreening.expiry = 0 /\ "expiry" \in DOMAIN CleanScreening
    BY DEF CleanScreening, NoScreening
  <2>2. \A d \in flaws : d[1] = "expiry" => d[2] = 2
    <3> HIDE DEF no
    <3> QED OBVIOUS
  <2> HIDE DEF flaws, owned
  <2>3. CASE c \in Flawed(CleanScreening, flaws)
    BY <2>1, <2>2, <2>3, FlawedElsewhere
  <2>4. CASE c \in owners
    <3>1. PICK o : c = [CleanScreening EXCEPT !.isEntity = TRUE, !.ltStatus = o[1], !.blockedOwnershipBps = o[2]]
      BY <2>4, Zenon
    <3> QED BY <2>1, <3>1 DEF CleanScreening, NoScreening
  <2>5. CASE c \in {NoScreening, CleanScreening}
    BY <2>1, <2>5 DEF NoScreening
  <2> HIDE DEF owners
  <2> QED BY <1>1, <1>2, <2>3, <2>4, <2>5
<1>3. CASE g \in SetScreening(f)
  <2>1. PICK p \in Parties, c \in ScreeningClaims \cup {NoScreening} : g = [f EXCEPT !.claims[p] = c]
    BY <1>3 DEF SetScreening
  <2>2. g = [f EXCEPT !.claims = [f.claims EXCEPT ![p] = c]]
    BY <2>1
  <2> QED BY <1>2, <2>2 DEF SanctionsFacts
<1>4. CASE g \in SetBlocked(f)
  BY <1>4 DEF SanctionsFacts, SetBlocked
<1>5. CASE g \in SetClaimRegime(f)
  <2>1. PICK b : g = [f EXCEPT !.regime = b[1], !.counterparty = b[2]]
    BY <1>5, Zenon DEF SetClaimRegime
  <2> QED BY <2>1 DEF SanctionsFacts
<1>6. CASE g \in SetCurrentListVersion(f)
  BY <1>6 DEF SanctionsFacts, SetCurrentListVersion
<1>7. CASE g \in SetScreeningThresholds(f)
  <2> DEFINE bounds == {<<7500, 9500>>, <<7500, 7500>>, <<8000, 9600>>}
  <2>1. g \in {[f EXCEPT !.review = b[1], !.block = b[2]] : b \in bounds}
    BY <1>7 DEF SetScreeningThresholds
  <2> HIDE DEF bounds
  <2>2. PICK b : g = [f EXCEPT !.review = b[1], !.block = b[2]]
    BY <2>1, Zenon
  <2> QED BY <2>2 DEF SanctionsFacts
<1> QED BY <1>3, <1>4, <1>5, <1>6, <1>7

LEMMA AffiliateKept ==
  ASSUME NEW f, AffiliateFacts(f), NEW g \in SetAffiliateClaim(f) \cup SetTrustedClaimIssuer(f)
  PROVE  AffiliateFacts(g)
<1>1. CASE g \in SetAffiliateClaim(f)
  <2>1. PICK c \in AffiliateClaims :
            g = [f EXCEPT !.basis = c.basis, !.verifiedAt = c.verifiedAt, !.decayStartedAt = c.decayStartedAt]
    BY <1>1, Zenon DEF SetAffiliateClaim
  <2>2. c.verifiedAt \in Nat
    BY DEF AffiliateClaims
  <2> QED BY <2>1, <2>2 DEF AffiliateFacts
<1>2. CASE g \in SetTrustedClaimIssuer(f)
  BY <1>2 DEF AffiliateFacts, SetTrustedClaimIssuer
<1> QED BY <1>1, <1>2

LEMMA FreshnessKept ==
  ASSUME NEW f, NEW g \in SetFreshness(f)
  PROVE  FreshnessFacts(g)
BY ElementTimes DEF SetFreshness, FreshnessFacts

LEMMA EntityKept ==
  ASSUME NEW f, EntityFacts(f),
         NEW g \in SetEntityClaim(f) \cup SetRequiredTracks(f) \cup SetLookThroughStatus(f)
  PROVE  EntityFacts(g)
<1>1. CASE g \in SetRequiredTracks(f) \cup SetLookThroughStatus(f)
  BY <1>1 DEF EntityFacts, SetRequiredTracks, SetLookThroughStatus
<1>2. CASE g = [f EXCEPT !.isEntity = FALSE]
  BY <1>2 DEF EntityFacts
<1>3. CASE g \in SetEntityClaim(f) \ {[f EXCEPT !.isEntity = FALSE]}
  <2>1. PICK c : g = [f EXCEPT !.isEntity = TRUE, !.aiBasis = c.aiBasis, !.qpBasis = c.qpBasis,
                               !.investmentsUsd = c.investmentsUsd, !.formedForPurpose = c.formedForPurpose,
                               !.qibConfirmed = c.met, !.directReqsMet = c.met]
    BY <1>3, Zenon DEF SetEntityClaim
  <2> QED BY <2>1 DEF EntityFacts
<1> QED BY <1>1, <1>2, <1>3

LEMMA QpKept ==
  ASSUME NEW f, NEW now \in Nat, QpFacts(f),
         NEW g \in SetQp(f, now) \cup SetQpClaim(f) \cup SetFreshnessCap(f)
  PROVE  QpFacts(g)
<1>1. ASSUME NEW c \in QpClaims \cup {NoQpClaim, NaturalQpClaim(now)} PROVE c.verifiedAt \in Nat
  <2> DEFINE no == FALSE
             flaws == {<<"signatureValid", no>>, <<"issuerTrusted", no>>, <<"verifiedAt", 3>>}
             owned == {"FAMILY_COMPANY", "TRUST"} \X LookThroughStatus
             owners == {[NaturalQpClaim(1) EXCEPT !.basis = b[1], !.ltStatus = b[2]] : b \in owned}
             covered == {"asset", "other"}
             employees == {[NaturalQpClaim(1) EXCEPT !.basis = "KNOWLEDGEABLE_EMPLOYEE", !.coveredCompany = x] :
                               x \in covered}
             other == [NaturalQpClaim(1) EXCEPT !.basis = "OTHER"]
  <2>1. QpClaims = Flawed(NaturalQpClaim(1), flaws) \cup owners \cup employees \cup {other}
    BY DEF QpClaims
  <2>2. NaturalQpClaim(1).verifiedAt = 1 /\ "verifiedAt" \in DOMAIN NaturalQpClaim(1)
    BY DEF NaturalQpClaim, NoQpClaim
  <2>3. \A d \in flaws : d[1] = "verifiedAt" => d[2] = 3
    <3> HIDE DEF no
    <3> QED OBVIOUS
  <2> HIDE DEF flaws, owned, covered
  <2>4. CASE c \in Flawed(NaturalQpClaim(1), flaws)
    BY <2>2, <2>3, <2>4, FlawedElsewhere
  <2>5. CASE c \in owners
    <3>1. PICK b : c = [NaturalQpClaim(1) EXCEPT !.basis = b[1], !.ltStatus = b[2]]
      BY <2>5, Zenon
    <3> QED BY <2>2, <3>1
  <2>6. CASE c \in employees
    <3>1. PICK x : c = [NaturalQpClaim(1) EXCEPT !.basis = "KNOWLEDGEABLE_EMPLOYEE", !.coveredCompany = x]
      BY <2>6, Zenon
    <3> QED BY <2>2, <3>1
  <2>7. CASE c = other
    BY <2>2, <2>7
  <2>8. CASE c \in {NoQpClaim, NaturalQpClaim(now)}
    <3>1. NoQpClaim.verifiedAt = 0 /\ NaturalQpClaim(now).verifiedAt = now
      BY DEF NaturalQpClaim, NoQpClaim
    <3> QED BY <2>8, <3>1
  <2> HIDE DEF owners, employees, other
  <2> QED BY <1>1, <2>1, <2>4, <2>5, <2>6, <2>7, <2>8
<1>2. CASE g \in SetQp(f, now) \cup SetQpClaim(f)
  <2>1. PICK c \in QpClaims \cup {NoQpClaim, NaturalQpClaim(now)} : g = [f EXCEPT !.claim = c]
    BY <1>2 DEF SetQp, SetQpClaim
  <2> QED BY <1>1, <2>1 DEF QpFacts
<1>3. CASE g \in SetFreshnessCap(f)
  BY <1>3, TailsArePositive DEF QpFacts, SetFreshnessCap
<1> QED BY <1>2, <1>3

(* The record of one person changes. *)
LEMMA PersonChanges ==
  ASSUME NEW f, IdentityFacts(f), NEW g, NEW i \in IdentityIds, NEW who, PersonFacts(who),
         NEW wallets \in [Parties -> IdentityIds \cup {NoIdentityId}],
         g = [ identityOf |-> wallets, person |-> [f.person EXCEPT ![i] = who],
               enforceCounterparty |-> f.enforceCounterparty ]
  PROVE  IdentityFacts(g)
BY DEF IdentityFacts

LEMMA IdentityKept ==
  ASSUME NEW f, NEW now \in Nat, IdentityFacts(f),
         NEW g \in BindWallet(f, now) \cup UnbindWallet(f) \cup SetKycClaim(f) \cup SetIdentityStatus(f)
                      \cup SetDedupStatus(f) \cup SetEnforceCounterparty(f)
  PROVE  IdentityFacts(g)
<1>1. ASSUME NEW c \in KycClaims \cup {SeededKyc(now)} PROVE c.verifiedAt \in Nat /\ c.maxAge \in Nat
  <2> DEFINE no == FALSE
             flaws == {<<"signatureValid", no>>, <<"issuerTrusted", no>>, <<"maxAge", 1>>}
  <2>1. /\ SeededKyc(1).verifiedAt = 1 /\ SeededKyc(1).maxAge = 0
        /\ "verifiedAt" \in DOMAIN SeededKyc(1) /\ "maxAge" \in DOMAIN SeededKyc(1)
    BY DEF SeededKyc
  <2>2. CASE c \in Flawed(SeededKyc(1), flaws)
    <3>1. \A d \in flaws : (d[1] = "maxAge" => d[2] = 1) /\ d[1] # "verifiedAt"
      <4> HIDE DEF no
      <4> QED OBVIOUS
    <3> HIDE DEF flaws
    <3>2. c["maxAge"] = SeededKyc(1)["maxAge"] \/ c["maxAge"] = 1
      BY <2>1, <2>2, <3>1, FlawedElsewhere
    <3>3. c["verifiedAt"] = SeededKyc(1)["verifiedAt"]
      BY <2>1, <2>2, <3>1, FlawedElsewhere
    <3> QED BY <2>1, <3>2, <3>3
  <2>3. CASE c \in {NoKyc, SeededKyc(now), [SeededKyc(3) EXCEPT !.maxAge = 1]}
    BY <2>3 DEF NoKyc, SeededKyc
  <2> QED BY <1>1, <2>2, <2>3 DEF KycClaims
<1>2. CASE g \in BindWallet(f, now)
  <2> DEFINE may == {b \in Parties \X IdentityIds : MayBind(f, b[1], b[2])}
             claimed(i) == IF f.person[i].kyc.exists THEN f.person[i].kyc ELSE SeededKyc(now)
  <2>1. PICK b \in may :
            g = [f EXCEPT !.identityOf[b[1]] = b[2],
                          !.person[b[2]].kyc = IF @.exists THEN @ ELSE SeededKyc(now)]
    BY <1>2, Zenon DEF BindWallet
  <2>2. b[1] \in Parties /\ b[2] \in IdentityIds
    OBVIOUS
  <2> DEFINE i == b[2]
             who == [f.person[i] EXCEPT !.kyc = claimed(i)]
             wallets == [f.identityOf EXCEPT ![b[1]] = i]
  <2>3. PersonFacts(who)
    <3>1. PersonFacts(f.person[i])
      BY <2>2 DEF IdentityFacts
    <3>2. claimed(i).verifiedAt \in Nat /\ claimed(i).maxAge \in Nat
      BY <1>1, <3>1 DEF PersonFacts
    <3> QED BY <3>1, <3>2 DEF PersonFacts
  <2>4. wallets \in [Parties -> IdentityIds \cup {NoIdentityId}]
    BY <2>2 DEF IdentityFacts
  <2>5. g = [ identityOf |-> wallets, person |-> [f.person EXCEPT ![i] = who],
              enforceCounterparty |-> f.enforceCounterparty ]
    BY <2>1, <2>2 DEF IdentityFacts
  <2> HIDE DEF i, who, wallets
  <2>6. i \in IdentityIds
    BY <2>2 DEF i
  <2> QED BY <2>3, <2>4, <2>5, <2>6, PersonChanges
<1>3. CASE g \in UnbindWallet(f)
  BY <1>3 DEF IdentityFacts, UnbindWallet
<1>4. CASE g \in SetKycClaim(f)
  <2>1. PICK i \in IdentityIds, c \in KycClaims :
            g = [f EXCEPT !.person[i].kyc = c]
    BY <1>4 DEF SetKycClaim
  <2> DEFINE who == [f.person[i] EXCEPT !.kyc = c]
  <2>2. PersonFacts(who)
    <3>1. PersonFacts(f.person[i])
      BY DEF IdentityFacts
    <3> QED BY <1>1, <3>1 DEF PersonFacts
  <2>3. g = [ identityOf |-> f.identityOf, person |-> [f.person EXCEPT ![i] = who],
              enforceCounterparty |-> f.enforceCounterparty ]
    BY <2>1 DEF IdentityFacts
  <2>4. f.identityOf \in [Parties -> IdentityIds \cup {NoIdentityId}]
    BY DEF IdentityFacts
  <2> HIDE DEF who
  <2> QED BY <2>2, <2>3, <2>4, PersonChanges
<1>5. CASE g \in SetIdentityStatus(f)
  <2>1. PICK i \in IdentityIds, s \in {"ACTIVE", "FROZEN", "REVOKED"} :
            g = [f EXCEPT !.person[i].status = s]
    BY <1>5 DEF SetIdentityStatus
  <2> DEFINE who == [f.person[i] EXCEPT !.status = s]
  <2>2. PersonFacts(who)
    <3>1. PersonFacts(f.person[i])
      BY DEF IdentityFacts
    <3> QED BY <1>1, <3>1 DEF PersonFacts
  <2>3. g = [ identityOf |-> f.identityOf, person |-> [f.person EXCEPT ![i] = who],
              enforceCounterparty |-> f.enforceCounterparty ]
    BY <2>1 DEF IdentityFacts
  <2>4. f.identityOf \in [Parties -> IdentityIds \cup {NoIdentityId}]
    BY DEF IdentityFacts
  <2> HIDE DEF who
  <2> QED BY <2>2, <2>3, <2>4, PersonChanges
<1>6. CASE g \in SetDedupStatus(f)
  <2>1. PICK i \in IdentityIds, s \in {"UNIQUE", "SUSPECTED_DUPLICATE", "CONFIRMED_DUPLICATE"} :
            g = [f EXCEPT !.person[i].dedup = s]
    BY <1>6 DEF SetDedupStatus
  <2> DEFINE who == [f.person[i] EXCEPT !.dedup = s]
  <2>2. PersonFacts(who)
    <3>1. PersonFacts(f.person[i])
      BY DEF IdentityFacts
    <3> QED BY <1>1, <3>1 DEF PersonFacts
  <2>3. g = [ identityOf |-> f.identityOf, person |-> [f.person EXCEPT ![i] = who],
              enforceCounterparty |-> f.enforceCounterparty ]
    BY <2>1 DEF IdentityFacts
  <2>4. f.identityOf \in [Parties -> IdentityIds \cup {NoIdentityId}]
    BY DEF IdentityFacts
  <2> HIDE DEF who
  <2> QED BY <2>2, <2>3, <2>4, PersonChanges
<1>7. CASE g \in SetEnforceCounterparty(f)
  BY <1>7 DEF IdentityFacts, SetEnforceCounterparty
<1> QED BY <1>2, <1>3, <1>4, <1>5, <1>6, <1>7

LEMMA ResidenceKept ==
  ASSUME NEW f, ResidenceFacts(f),
         NEW g \in SetJurisdiction(f) \cup SetJurisdictionAllowed(f) \cup SetUsTaxResident(f)
  PROVE  ResidenceFacts(g)
<1>1. CASE g \in SetJurisdiction(f) \cup SetUsTaxResident(f)
  BY <1>1 DEF ResidenceFacts, SetJurisdiction, SetUsTaxResident
<1>2. CASE g \in SetJurisdictionAllowed(f)
  BY <1>2 DEF ResidenceFacts, SetJurisdictionAllowed
<1> QED BY <1>1, <1>2

LEMMA ClassificationKept ==
  ASSUME NEW f, NEW now \in Nat, ClassificationFacts(f),
         NEW g \in SetClassification(f, now) \cup SetCard(f) \cup SetActivationDelay(f)
  PROVE  ClassificationFacts(g)
<1> DEFINE flaws == {<<"status", "SUSPENDED">>, <<"coreVersion", 2>>, <<"approvedAt", 3>>, <<"maxFactAge", 1>>}
           stale == [ActiveCard(TRUE, 3) EXCEPT !.maxFactAge = 1, !.approvedAt = 1]
<1>1. \A r : \A at \in Nat : /\ ActiveCard(r, at).factsAsOf = at /\ ActiveCard(r, at).maxFactAge = 0
                             /\ "factsAsOf" \in DOMAIN ActiveCard(r, at)
                             /\ "maxFactAge" \in DOMAIN ActiveCard(r, at)
  BY DEF ActiveCard
<1>2. CASE g \in SetClassification(f, now)
  <2>1. PICK r : g = [f EXCEPT !.card = ActiveCard(r, now)]
    BY <1>2, Zenon DEF SetClassification
  <2> QED BY <1>1, <2>1 DEF ClassificationFacts
<1>3. CASE g \in SetCard(f)
  <2>1. PICK c \in Flawed(ActiveCard(TRUE, 1), flaws) \cup {stale} : g = [f EXCEPT !.card = c]
    BY <1>3, Zenon DEF SetCard
  <2>2. CASE c \in Flawed(ActiveCard(TRUE, 1), flaws)
    <3> DEFINE good == ActiveCard(TRUE, 1)
    <3>1. \A d \in flaws : (d[1] = "maxFactAge" => d[2] = 1) /\ d[1] # "factsAsOf"
      OBVIOUS
    <3>2. /\ good.factsAsOf = 1 /\ good.maxFactAge = 0
          /\ "factsAsOf" \in DOMAIN good /\ "maxFactAge" \in DOMAIN good
      BY DEF ActiveCard
    <3>3. c \in Flawed(good, flaws)
      BY <2>2
    <3> HIDE DEF flaws, good
    <3>4. c["maxFactAge"] = good["maxFactAge"] \/ c["maxFactAge"] = 1
      BY <3>1, <3>2, <3>3, FlawedElsewhere
    <3>5. c["factsAsOf"] = good["factsAsOf"]
      BY <3>1, <3>2, <3>3, FlawedElsewhere
    <3>6. c.maxFactAge \in Nat /\ c.factsAsOf \in Nat
      BY <3>2, <3>4, <3>5
    <3> QED BY <2>1, <3>6 DEF ClassificationFacts
  <2>3. CASE c = stale
    <3>1. c.maxFactAge = 1 /\ c.factsAsOf = 3
      BY <1>1, <2>3
    <3> QED BY <2>1, <3>1 DEF ClassificationFacts
  <2> QED BY <2>1, <2>2, <2>3
<1>4. CASE g \in SetActivationDelay(f)
  BY <1>4 DEF ClassificationFacts, SetActivationDelay
<1> QED BY <1>2, <1>3, <1>4

LEMMA RestrictionKept ==
  ASSUME NEW f, RestrictionFacts(f),
         NEW g \in SetDeclaration(f) \cup SetRequiresRestricted(f) \cup SetValidPathsMask(f)
                      \cup SetApprovedUnrestrictBasis(f)
  PROVE  RestrictionFacts(g)
<1>1. CASE g \in SetDeclaration(f)
  <2>1. PICK d : g = [f EXCEPT !.declaration = d]
    BY <1>1, Zenon DEF SetDeclaration
  <2> QED BY <2>1 DEF RestrictionFacts
<1>2. CASE g \in SetRequiresRestricted(f)
  BY <1>2 DEF RestrictionFacts, SetRequiresRestricted
<1>3. CASE g \in SetValidPathsMask(f)
  BY <1>3 DEF RestrictionFacts, SetValidPathsMask
<1>4. CASE g \in SetApprovedUnrestrictBasis(f)
  BY <1>4 DEF RestrictionFacts, SetApprovedUnrestrictBasis
<1> QED BY <1>1, <1>2, <1>3, <1>4

LEMMA EngineKept ==
  ASSUME NEW f, EngineFacts(f), NEW g \in SetSupportedEngines(f) \cup SetEngineFacts(f) \cup SetEngineSets(f)
  PROVE  EngineFacts(g)
<1>1. CASE g \in SetSupportedEngines(f)
  BY <1>1 DEF EngineFacts, SetSupportedEngines
<1>2. CASE g \in SetEngineFacts(f)
  BY <1>2 DEF EngineFacts, SetEngineFacts
<1>3. CASE g \in SetEngineSets(f)
  BY <1>3 DEF EngineFacts, SetEngineSets
<1> QED BY <1>1, <1>2, <1>3

LEMMA RegMKept ==
  ASSUME NEW f, RegMFacts(f),
         NEW g \in SetCoveredSecurity(f) \cup SetOfferingStatus(f) \cup SetExceptionProfile(f)
                      \cup SetRegistryUnverified(f) \cup SetAdtv(f) \cup SetRestrictedRole(f)
                      \cup SetClusterRole(f) \cup SetInfoBarrierCertified(f) \cup SetPoliciesCertified(f)
  PROVE  RegMFacts(g)
<1>1. CASE g \in SetCoveredSecurity(f) \cup SetOfferingStatus(f) \cup SetExceptionProfile(f)
  BY <1>1 DEF RegMFacts, SetCoveredSecurity, SetOfferingStatus, SetExceptionProfile
<1>2. CASE g \in SetRegistryUnverified(f) \cup SetAdtv(f) \cup SetRestrictedRole(f)
  BY <1>2 DEF RegMFacts, SetRegistryUnverified, SetAdtv, SetRestrictedRole
<1>3. CASE g \in SetClusterRole(f) \cup SetInfoBarrierCertified(f) \cup SetPoliciesCertified(f)
  BY <1>3 DEF RegMFacts, SetClusterRole, SetInfoBarrierCertified, SetPoliciesCertified
<1> QED BY <1>1, <1>2, <1>3

LEMMA SelfDealingKept ==
  ASSUME NEW f, SelfDealingFacts(f),
         NEW g \in SetRestrictedParty(f) \cup SetRegistryAvailable(f) \cup SetPrimaryDistributor(f)
                      \cup SetInvoluntaryAgent(f)
  PROVE  SelfDealingFacts(g)
<1>1. CASE g \in SetRestrictedParty(f)
  BY <1>1 DEF SelfDealingFacts, SetRestrictedParty
<1>2. CASE g \in SetPrimaryDistributor(f)
  BY <1>2 DEF SelfDealingFacts, SetPrimaryDistributor
<1>3. CASE g \in SetRegistryAvailable(f) \cup SetInvoluntaryAgent(f)
  BY <1>3 DEF SelfDealingFacts, SetRegistryAvailable, SetInvoluntaryAgent
<1> QED BY <1>1, <1>2, <1>3

LEMMA RedFlagKept ==
  ASSUME NEW f, RedFlagFacts(f), NEW g \in RaiseFlag(f) \cup MarkUncertain(f) \cup ResolveReview(f)
  PROVE  RedFlagFacts(g)
<1>1. CASE g \in RaiseFlag(f)
  <2>1. PICK r : g = [f EXCEPT !.flagMask = f.flagMask \cup {r}, !.resolution = "PENDING"]
    BY <1>1, Zenon DEF RaiseFlag
  <2> QED BY <2>1 DEF RedFlagFacts
<1>2. CASE g \in MarkUncertain(f) \cup ResolveReview(f)
  BY <1>2 DEF RedFlagFacts, MarkUncertain, ResolveReview
<1> QED BY <1>1, <1>2

LEMMA BadActorKept ==
  ASSUME NEW f, BadActorFacts(f),
         NEW g \in SetOffering(f) \cup SetClearance(f) \cup SetClearanceRevoked(f)
                      \cup SetTrustedBadActorIssuer(f)
  PROVE  BadActorFacts(g)
<1> DEFINE Clears(c) == "expiry" \in DOMAIN c /\ c.expiry \in Nat
           flaws == {<<"issuer", "other">>, <<"offeringScope", "o2">>, <<"expiry", 2>>}
           pairs == BOOLEAN \X BOOLEAN
           disclosed == {[CleanClearance EXCEPT !.disclosure506e = TRUE, !.matters = d[1], !.furnished = d[2]] :
                            d \in pairs}
<1>1. CASE g \in SetOffering(f)
  <2>1. PICK o : g = [f EXCEPT !.offeringId = o[1], !.roster = o[2], !.rosterComplete = o[3]]
    BY <1>1, Zenon DEF SetOffering
  <2> QED BY <2>1 DEF BadActorFacts
<1>2. Clears(CleanClearance)
  BY DEF CleanClearance, NoClearance
<1>3. ASSUME NEW c \in Flawed(CleanClearance, flaws) PROVE Clears(c)
  <2>1. PICK d \in flaws : c = [CleanClearance EXCEPT ![d[1]] = d[2]]
    BY Zenon DEF Flawed
  <2>2. CASE d = <<"issuer", "other">>
    BY <1>2, <2>1, <2>2
  <2>3. CASE d = <<"offeringScope", "o2">>
    BY <1>2, <2>1, <2>3
  <2>4. CASE d = <<"expiry", 2>>
    BY <1>2, <2>1, <2>4
  <2> QED BY <2>2, <2>3, <2>4
<1>4. ASSUME NEW c \in disclosed PROVE Clears(c)
  <2>1. PICK d : c = [CleanClearance EXCEPT !.disclosure506e = TRUE, !.matters = d[1], !.furnished = d[2]]
    BY Zenon
  <2> QED BY <1>2, <2>1
<1>5. CASE g \in SetClearance(f)
  <2>1. PICK c \in {CleanClearance} \cup Flawed(CleanClearance, flaws) \cup disclosed : g = [f EXCEPT !.clearance = c]
    BY <1>5, Zenon DEF SetClearance
  <2> HIDE DEF flaws, disclosed
  <2>2. Clears(c)
    <3> HIDE DEF Clears
    <3> QED BY <1>2, <1>3, <1>4
  <2> QED BY <2>1, <2>2 DEF BadActorFacts
<1>6. CASE g \in SetClearanceRevoked(f)
  <2>1. PICK b : g = [f EXCEPT !.clearance = [f.clearance EXCEPT !.revoked = b]]
    BY <1>6, Zenon DEF SetClearanceRevoked
  <2> QED BY <2>1 DEF BadActorFacts
<1>7. CASE g \in SetTrustedBadActorIssuer(f)
  BY <1>7 DEF BadActorFacts, SetTrustedBadActorIssuer
<1> QED BY <1>1, <1>5, <1>6, <1>7

(* What setSnapshot accepts is dated. *)
LEMMA LocksKept ==
  ASSUME NEW f, NEW now \in Nat, LockFacts(f.snapshot), f = [f EXCEPT !.snapshot = f.snapshot],
         "snapshot" \in DOMAIN f, NEW g \in SetSnapshot(f, now) \cup ClearSnapshot(f)
  PROVE  LockFacts(g.snapshot) /\ \E held : g = [f EXCEPT !.snapshot = held]
<1> DEFINE Dated(s) == s.status \in {"VALID", "MISSING", "LINEAGE_BROKEN"} /\ s.expiresAt \in Nat
<1>1. ASSUME NEW s \in SnapshotsAt(now) PROVE Dated(s)
  <2>1. now + 1 \in Nat /\ ElementMaxTime \in Nat
    BY ElementTimes
  <2> QED BY <2>1 DEF SnapshotsAt
<1>2. Dated(NoSnapshot)
  BY DEF NoSnapshot
<1>3. PICK p \in Parties, s \in SnapshotsAt(now) \cup {NoSnapshot} : g = [f EXCEPT !.snapshot = [f.snapshot EXCEPT ![p] = s]]
  BY DEF SetSnapshot, ClearSnapshot
<1>4. Dated(s)
  BY <1>1, <1>2
<1>5. LockFacts([f.snapshot EXCEPT ![p] = s])
  BY <1>4 DEF LockFacts
<1>6. g.snapshot = [f.snapshot EXCEPT ![p] = s]
  BY <1>3
<1> QED BY <1>3, <1>5, <1>6

-----------------------------------------------------------------------------
(* What is stored keeps its fields.                                         *)

LEMMA FactsAtFirst == ElementInit => FactsHold
<1> SUFFICES ASSUME ElementInit PROVE FactsHold
  OBVIOUS
<1>1. element \in ElementNames /\ elementTime \in Nat /\ facts = Deployed[element]
  BY DEF ElementInit
<1>2. element = "AccreditedInvestor" => AccreditedFacts(facts)
  <2>1. Deployed["AccreditedInvestor"] = AccreditedDeployed
    BY DEF Deployed
  <2>2. AccreditedFacts(AccreditedDeployed)
    BY DEF AccreditedFacts, AccreditedDeployed, NoAiClaim
  <2> QED BY <1>1, <2>1, <2>2
<1>3. element = "Sanctions" => SanctionsFacts(facts)
  <2>1. Deployed["Sanctions"] = SanctionsDeployed
    BY DEF Deployed
  <2>2. SanctionsFacts(SanctionsDeployed)
    BY DEF SanctionsFacts, SanctionsDeployed, NoScreening
  <2> QED BY <1>1, <2>1, <2>2
<1>4. element = "Affiliate" => AffiliateFacts(facts)
  <2>1. Deployed["Affiliate"] = AffiliateDeployed
    BY DEF Deployed
  <2>2. AffiliateFacts(AffiliateDeployed)
    BY DEF AffiliateFacts, AffiliateDeployed
  <2> QED BY <1>1, <2>1, <2>2
<1>5. element = "ClaimFreshness" => FreshnessFacts(facts)
  <2>1. Deployed["ClaimFreshness"] = FreshnessDeployed
    BY DEF Deployed
  <2>2. FreshnessFacts(FreshnessDeployed)
    BY DEF FreshnessFacts, FreshnessDeployed
  <2> QED BY <1>1, <2>1, <2>2
<1>6. element = "EntityEligibility" => EntityFacts(facts)
  <2>1. Deployed["EntityEligibility"] = EntityDeployed
    BY DEF Deployed
  <2>2. EntityFacts(EntityDeployed)
    BY DEF EntityFacts, EntityDeployed
  <2> QED BY <1>1, <2>1, <2>2
<1>7. element = "QualifiedPurchaser" => QpFacts(facts)
  <2>1. Deployed["QualifiedPurchaser"] = QpDeployed
    BY DEF Deployed
  <2>2. QpFacts(QpDeployed)
    BY TailsArePositive DEF QpFacts, QpDeployed, NoQpClaim
  <2> QED BY <1>1, <2>1, <2>2
<1>8. element = "IdentityUniqueness" => IdentityFacts(facts)
  <2>1. Deployed["IdentityUniqueness"] = IdentityDeployed
    BY DEF Deployed
  <2>2. IdentityFacts(IdentityDeployed)
    BY DEF IdentityFacts, IdentityDeployed, NoKyc, PersonFacts
  <2> QED BY <1>1, <2>1, <2>2
<1>9. element = "Jurisdiction" => ResidenceFacts(facts)
  <2>1. Deployed["Jurisdiction"] = ResidenceDeployed
    BY DEF Deployed
  <2>2. ResidenceFacts(ResidenceDeployed)
    BY DEF ResidenceFacts, ResidenceDeployed
  <2> QED BY <1>1, <2>1, <2>2
<1>10. element = "AssetClassification" => ClassificationFacts(facts)
  <2>1. Deployed["AssetClassification"] = ClassificationDeployed
    BY DEF Deployed
  <2>2. ClassificationFacts(ClassificationDeployed)
    BY DEF ClassificationFacts, ClassificationDeployed, NoCard
  <2> QED BY <1>1, <2>1, <2>2
<1>11. element = "BadActorDisqualification" => BadActorFacts(facts)
  <2>1. Deployed["BadActorDisqualification"] = BadActorDeployed
    BY DEF Deployed
  <2>2. BadActorFacts(BadActorDeployed)
    BY DEF BadActorFacts, BadActorDeployed, NoClearance
  <2> QED BY <1>1, <2>1, <2>2
<1>12. element = "TransferRestrictionMetadata" => RestrictionFacts(facts)
  <2>1. Deployed["TransferRestrictionMetadata"] = RestrictionDeployed
    BY DEF Deployed
  <2>2. RestrictionFacts(RestrictionDeployed)
    BY DEF RestrictionFacts, RestrictionDeployed
  <2> QED BY <1>1, <2>1, <2>2
<1>13. element = "EngineSelection" => EngineFacts(facts)
  <2>1. Deployed["EngineSelection"] = EngineSelectionDeployed
    BY DEF Deployed
  <2>2. EngineFacts(EngineSelectionDeployed)
    BY DEF EngineFacts, EngineSelectionDeployed
  <2> QED BY <1>1, <2>1, <2>2
<1>14. element = "RegMIssuerBuying" => RegMFacts(facts)
  <2>1. Deployed["RegMIssuerBuying"] = RegMDeployed
    BY DEF Deployed
  <2>2. RegMFacts(RegMDeployed)
    BY DEF RegMFacts, RegMDeployed
  <2> QED BY <1>1, <2>1, <2>2
<1>15. element = "OperatorSelfDealing" => SelfDealingFacts(facts)
  <2>1. Deployed["OperatorSelfDealing"] = SelfDealingDeployed
    BY DEF Deployed
  <2>2. SelfDealingFacts(SelfDealingDeployed)
    BY DEF SelfDealingFacts, SelfDealingDeployed
  <2> QED BY <1>1, <2>1, <2>2
<1>16. element = "RedFlagKnowledgeBar" => RedFlagFacts(facts)
  <2>1. Deployed["RedFlagKnowledgeBar"] = RedFlagDeployed
    BY DEF Deployed
  <2>2. RedFlagFacts(RedFlagDeployed)
    BY DEF RedFlagFacts, RedFlagDeployed
  <2> QED BY <1>1, <2>1, <2>2
<1>17. element = "Lockup" => LockupFacts(facts)
  <2>1. "Lockup" \in DOMAIN Deployed /\ Deployed["Lockup"] = LockupDeployed
    BY DEF Deployed
  <2>2. LockFacts([p \in Parties |-> NoSnapshot])
    BY DEF LockFacts, NoSnapshot
  <2>3. LockupFacts(LockupDeployed)
    BY <2>2 DEF LockupDeployed, LockupFacts
  <2> QED BY <1>1, <2>1, <2>3
<1>18. element = "LockupV2" => LockupV2Facts(facts)
  <2>1. "LockupV2" \in DOMAIN Deployed /\ Deployed["LockupV2"] = LockupV2Deployed
    BY DEF Deployed
  <2>2. LockFacts([p \in Parties |-> NoSnapshot])
    BY DEF LockFacts, NoSnapshot
  <2>3. LockupV2Facts(LockupV2Deployed)
    BY <2>2 DEF LockupDeployed, LockupV2Deployed, LockupV2Facts
  <2> QED BY <1>1, <2>1, <2>3
<1> QED BY <1>1, <1>2, <1>3, <1>4, <1>5, <1>6, <1>7, <1>8, <1>9, <1>10, <1>11, <1>12, <1>13, <1>14, <1>15, <1>16, <1>17, <1>18 DEF FactsHold

(* One case for each element, by the lemma about its operators. *)
LEMMA FactsKept == FactsHold /\ [ElementNext]_elementVars => FactsHold'
<1> SUFFICES ASSUME FactsHold, [ElementNext]_elementVars PROVE FactsHold'
  OBVIOUS
<1>1. CASE UNCHANGED elementVars
  BY <1>1 DEF FactsHold, elementVars
<1>2. CASE TimePasses
  BY <1>2 DEF FactsHold, TimePasses
<1>3. CASE OperatorCall
  <2>1. element' = element /\ elementTime' = elementTime /\ element \in ElementNames /\ elementTime \in Nat
    BY <1>3 DEF OperatorCall, FactsHold
  <2>2. ASSUME element = "AccreditedInvestor" PROVE AccreditedFacts(facts')
    <3>1. facts' \in AccreditOrDelete(facts) \cup SetAiClaim(facts) \cup SetAiPaths(facts)
      BY <1>3, <2>2 DEF OperatorCall, InvestorCalls, AssetCalls, ConductCalls
    <3> QED BY <2>1, <2>2, <3>1, AccreditedKept DEF FactsHold
  <2>3. ASSUME element = "Sanctions" PROVE SanctionsFacts(facts')
    <3>1. facts' \in SetBlocked(facts) \cup SetClaimRegime(facts) \cup SetScreening(facts)
                   \cup SetCurrentListVersion(facts) \cup SetScreeningThresholds(facts)
      BY <1>3, <2>3 DEF OperatorCall, InvestorCalls, AssetCalls, ConductCalls
    <3> QED BY <2>1, <2>3, <3>1, SanctionsKept DEF FactsHold
  <2>4. ASSUME element = "Affiliate" PROVE AffiliateFacts(facts')
    <3>1. facts' \in SetAffiliateClaim(facts) \cup SetTrustedClaimIssuer(facts)
      BY <1>3, <2>4 DEF OperatorCall, InvestorCalls, AssetCalls, ConductCalls
    <3> QED BY <2>1, <2>4, <3>1, AffiliateKept DEF FactsHold
  <2>5. ASSUME element = "ClaimFreshness" PROVE FreshnessFacts(facts')
    <3>1. facts' \in SetFreshness(facts)
      BY <1>3, <2>5 DEF OperatorCall, InvestorCalls, AssetCalls, ConductCalls
    <3> QED BY <2>1, <2>5, <3>1, FreshnessKept DEF FactsHold
  <2>6. ASSUME element = "EntityEligibility" PROVE EntityFacts(facts')
    <3>1. facts' \in SetEntityClaim(facts) \cup SetRequiredTracks(facts) \cup SetLookThroughStatus(facts)
      BY <1>3, <2>6 DEF OperatorCall, InvestorCalls, AssetCalls, ConductCalls
    <3> QED BY <2>1, <2>6, <3>1, EntityKept DEF FactsHold
  <2>7. ASSUME element = "QualifiedPurchaser" PROVE QpFacts(facts')
    <3>1. facts' \in SetQp(facts, elementTime) \cup SetQpClaim(facts) \cup SetFreshnessCap(facts)
      BY <1>3, <2>7 DEF OperatorCall, InvestorCalls, AssetCalls, ConductCalls
    <3> QED BY <2>1, <2>7, <3>1, QpKept DEF FactsHold
  <2>8. ASSUME element = "IdentityUniqueness" PROVE IdentityFacts(facts')
    <3>1. facts' \in BindWallet(facts, elementTime) \cup UnbindWallet(facts) \cup SetKycClaim(facts)
                   \cup SetIdentityStatus(facts) \cup SetDedupStatus(facts) \cup SetEnforceCounterparty(facts)
      BY <1>3, <2>8 DEF OperatorCall, InvestorCalls, AssetCalls, ConductCalls
    <3> QED BY <2>1, <2>8, <3>1, IdentityKept DEF FactsHold
  <2>9. ASSUME element = "Jurisdiction" PROVE ResidenceFacts(facts')
    <3>1. facts' \in SetJurisdiction(facts) \cup SetJurisdictionAllowed(facts) \cup SetUsTaxResident(facts)
      BY <1>3, <2>9 DEF OperatorCall, InvestorCalls, AssetCalls, ConductCalls
    <3> QED BY <2>1, <2>9, <3>1, ResidenceKept DEF FactsHold
  <2>10. ASSUME element = "AssetClassification" PROVE ClassificationFacts(facts')
    <3>1. facts' \in SetClassification(facts, elementTime) \cup SetCard(facts) \cup SetActivationDelay(facts)
      BY <1>3, <2>10 DEF OperatorCall, InvestorCalls, AssetCalls, ConductCalls
    <3> QED BY <2>1, <2>10, <3>1, ClassificationKept DEF FactsHold
  <2>11. ASSUME element = "BadActorDisqualification" PROVE BadActorFacts(facts')
    <3>1. facts' \in SetOffering(facts) \cup SetClearance(facts) \cup SetClearanceRevoked(facts)
                   \cup SetTrustedBadActorIssuer(facts)
      BY <1>3, <2>11 DEF OperatorCall, InvestorCalls, AssetCalls, ConductCalls
    <3> QED BY <2>1, <2>11, <3>1, BadActorKept DEF FactsHold
  <2>12. ASSUME element = "TransferRestrictionMetadata" PROVE RestrictionFacts(facts')
    <3>1. facts' \in SetDeclaration(facts) \cup SetRequiresRestricted(facts) \cup SetValidPathsMask(facts)
                   \cup SetApprovedUnrestrictBasis(facts)
      BY <1>3, <2>12 DEF OperatorCall, InvestorCalls, AssetCalls, ConductCalls
    <3> QED BY <2>1, <2>12, <3>1, RestrictionKept DEF FactsHold
  <2>13. ASSUME element = "EngineSelection" PROVE EngineFacts(facts')
    <3>1. facts' \in SetSupportedEngines(facts) \cup SetEngineFacts(facts) \cup SetEngineSets(facts)
      BY <1>3, <2>13 DEF OperatorCall, InvestorCalls, AssetCalls, ConductCalls
    <3> QED BY <2>1, <2>13, <3>1, EngineKept DEF FactsHold
  <2>14. ASSUME element = "RegMIssuerBuying" PROVE RegMFacts(facts')
    <3>1. facts' \in SetCoveredSecurity(facts) \cup SetOfferingStatus(facts) \cup SetExceptionProfile(facts)
                   \cup SetRegistryUnverified(facts) \cup SetAdtv(facts) \cup SetRestrictedRole(facts)
                   \cup SetClusterRole(facts) \cup SetInfoBarrierCertified(facts) \cup SetPoliciesCertified(facts)
      BY <1>3, <2>14 DEF OperatorCall, InvestorCalls, AssetCalls, ConductCalls
    <3> QED BY <2>1, <2>14, <3>1, RegMKept DEF FactsHold
  <2>15. ASSUME element = "OperatorSelfDealing" PROVE SelfDealingFacts(facts')
    <3>1. facts' \in SetRestrictedParty(facts) \cup SetRegistryAvailable(facts) \cup SetPrimaryDistributor(facts)
                   \cup SetInvoluntaryAgent(facts)
      BY <1>3, <2>15 DEF OperatorCall, InvestorCalls, AssetCalls, ConductCalls
    <3> QED BY <2>1, <2>15, <3>1, SelfDealingKept DEF FactsHold
  <2>16. ASSUME element = "RedFlagKnowledgeBar" PROVE RedFlagFacts(facts')
    <3>1. facts' \in RaiseFlag(facts) \cup MarkUncertain(facts) \cup ResolveReview(facts)
      BY <1>3, <2>16 DEF OperatorCall, InvestorCalls, AssetCalls, ConductCalls
    <3> QED BY <2>1, <2>16, <3>1, RedFlagKept DEF FactsHold
  <2>17. ASSUME element = "Lockup" PROVE LockupFacts(facts')
    <3>1. facts' \in SetSnapshot(facts, elementTime) \cup ClearSnapshot(facts)
      BY <1>3, <2>17 DEF OperatorCall, InvestorCalls, AssetCalls, ConductCalls
    <3>2. facts = [snapshot |-> facts.snapshot] /\ LockFacts(facts.snapshot)
      BY <2>17 DEF FactsHold, LockupFacts
    <3>3. "snapshot" \in DOMAIN facts /\ facts = [facts EXCEPT !.snapshot = facts.snapshot]
      BY <3>2
    <3>4. LockFacts(facts'.snapshot) /\ \E held : facts' = [facts EXCEPT !.snapshot = held]
      BY <2>1, <3>1, <3>2, <3>3, LocksKept
    <3> QED BY <3>2, <3>4 DEF LockupFacts
  <2>18. ASSUME element = "LockupV2" PROVE LockupV2Facts(facts')
    <3>1. facts' \in SetSnapshot(facts, elementTime) \cup ClearSnapshot(facts) \cup BindDistributor(facts)
      BY <1>3, <2>18 DEF OperatorCall, InvestorCalls, AssetCalls, ConductCalls
    <3>2. facts = [snapshot |-> facts.snapshot, distributor |-> facts.distributor] /\ LockFacts(facts.snapshot)
      BY <2>18 DEF FactsHold, LockupV2Facts
    <3>3. "snapshot" \in DOMAIN facts /\ facts = [facts EXCEPT !.snapshot = facts.snapshot]
      BY <3>2
    <3>4. CASE facts' \in BindDistributor(facts)
      BY <3>2, <3>4 DEF LockupV2Facts, BindDistributor
    <3>5. CASE facts' \in SetSnapshot(facts, elementTime) \cup ClearSnapshot(facts)
      <4>1. LockFacts(facts'.snapshot) /\ \E held : facts' = [facts EXCEPT !.snapshot = held]
        BY <2>1, <3>2, <3>3, <3>5, LocksKept
      <4> QED BY <3>2, <4>1 DEF LockupV2Facts
    <3> QED BY <3>1, <3>4, <3>5
  <2> QED BY <2>1, <2>2, <2>3, <2>4, <2>5, <2>6, <2>7, <2>8, <2>9, <2>10, <2>11, <2>12, <2>13, <2>14, <2>15, <2>16, <2>17, <2>18 DEF FactsHold
<1> QED BY <1>1, <1>2, <1>3 DEF ElementNext

-----------------------------------------------------------------------------
(* Time.                                                                    *)

(* What is refused when a moment passes and no longer refused after it. *)
LEMMA TimeHeals ==
  ASSUME FactsHold, TimePasses, NEW t \in JudgedTrades,
         ElementVerdict(t) # 0, ElementVerdict(t)' = 0
  PROVE  ElementVerdict(t) = 4 /\ element \in {"Lockup", "LockupV2", "AssetClassification"}
<1> DEFINE now == elementTime
           later == elementTime'
           timed == { "AccreditedInvestor", "Sanctions", "Affiliate", "ClaimFreshness", "QualifiedPurchaser",
                      "IdentityUniqueness", "AssetClassification", "BadActorDisqualification", "Lockup",
                      "LockupV2" }
<1>1. /\ now \in Nat /\ later \in Nat /\ now <= later
      /\ element' = element /\ facts' = facts /\ element \in ElementNames
  BY DEF FactsHold, TimePasses
<1>2. element \in timed
  <2> SUFFICES ASSUME element \notin timed PROVE FALSE
    OBVIOUS
  <2> QED BY <1>1 DEF ElementNames, Deployed, ElementVerdict
<1>3. CASE element = "AccreditedInvestor"
  <2>1. ElementVerdict(t) = AccreditedRefusal(facts, now) /\ ElementVerdict(t)' = AccreditedRefusal(facts, later)
    BY <1>1, <1>3 DEF ElementVerdict
  <2>2. AccreditedFacts(facts)
    BY <1>3 DEF FactsHold
  <2> QED BY <1>1, <1>3, <2>1, <2>2, AccreditedTightens DEF AccreditedFacts
<1>4. CASE element = "Sanctions"
  <2>1. ElementVerdict(t) = SanctionsRefusal(facts, now) /\ ElementVerdict(t)' = SanctionsRefusal(facts, later)
    BY <1>1, <1>4 DEF ElementVerdict
  <2>2. SanctionsFacts(facts)
    BY <1>4 DEF FactsHold
  <2> QED BY <1>1, <1>4, <2>1, <2>2, SanctionsTighten DEF SanctionsFacts
<1>5. CASE element = "Affiliate"
  <2>1. ElementVerdict(t) = AffiliateRefusal(facts, now) /\ ElementVerdict(t)' = AffiliateRefusal(facts, later)
    BY <1>1, <1>5 DEF ElementVerdict
  <2>2. AffiliateFacts(facts)
    BY <1>5 DEF FactsHold
  <2> QED BY <1>1, <1>5, <2>1, <2>2, AffiliateTightens DEF AffiliateFacts
<1>6. CASE element = "ClaimFreshness"
  <2>1. ElementVerdict(t) = FreshnessRefusal(facts, now) /\ ElementVerdict(t)' = FreshnessRefusal(facts, later)
    BY <1>1, <1>6 DEF ElementVerdict
  <2>2. FreshnessFacts(facts)
    BY <1>6 DEF FactsHold
  <2> QED BY <1>1, <1>6, <2>1, <2>2, FreshnessTightens DEF FreshnessFacts
<1>7. CASE element = "QualifiedPurchaser"
  <2>1. ElementVerdict(t) = QpRefusal(facts, now) /\ ElementVerdict(t)' = QpRefusal(facts, later)
    BY <1>1, <1>7 DEF ElementVerdict
  <2>2. QpFacts(facts)
    BY <1>7 DEF FactsHold
  <2> QED BY <1>1, <1>7, <2>1, <2>2, QpTightens DEF QpFacts
<1>8. CASE element = "IdentityUniqueness"
  <2>1. ElementVerdict(t) = IdentityRefusal(facts, now) /\ ElementVerdict(t)' = IdentityRefusal(facts, later)
    BY <1>1, <1>8 DEF ElementVerdict
  <2>2. IdentityFacts(facts)
    BY <1>8 DEF FactsHold
  <2> QED BY <1>1, <1>8, <2>1, <2>2, IdentityTightens DEF IdentityFacts, PersonFacts
<1>9. CASE element = "AssetClassification"
  <2>1. ElementVerdict(t) = ClassificationRefusal(facts, now) /\ ElementVerdict(t)' = ClassificationRefusal(facts, later)
    BY <1>1, <1>9 DEF ElementVerdict
  <2>2. ClassificationFacts(facts)
    BY <1>9 DEF FactsHold
  <2> QED BY <1>1, <1>9, <2>1, <2>2, ClassificationTightens DEF ClassificationFacts
<1>10. CASE element = "BadActorDisqualification"
  <2>1. ElementVerdict(t) = BadActorRefusal(facts, now) /\ ElementVerdict(t)' = BadActorRefusal(facts, later)
    BY <1>1, <1>10 DEF ElementVerdict
  <2>2. BadActorFacts(facts)
    BY <1>10 DEF FactsHold
  <2> QED BY <1>1, <1>10, <2>1, <2>2, BadActorTightens DEF BadActorFacts
<1>11. CASE element = "Lockup"
  <2>1. /\ ElementVerdict(t) = SnapshotRefusal(facts.snapshot["buyer"], now)
        /\ ElementVerdict(t)' = SnapshotRefusal(facts.snapshot["buyer"], later)
    BY <1>1, <1>11 DEF ElementVerdict, LockupRefusal
  <2>2. facts.snapshot["buyer"].expiresAt \in Nat
    BY <1>11 DEF FactsHold, LockupFacts, LockFacts, Parties
  <2> QED BY <1>1, <1>11, <2>1, <2>2, SnapshotTightens
<1>12. CASE element = "LockupV2"
  <2>1. /\ ElementVerdict(t) = LockupV2Refusal(facts, t, now)
        /\ ElementVerdict(t)' = LockupV2Refusal(facts, t, later)
    BY <1>1, <1>12 DEF ElementVerdict
  <2>2. facts.snapshot[Sender(t)].expiresAt \in Nat
    BY <1>12 DEF FactsHold, LockupV2Facts, LockFacts, Parties, Sender
  <2>3. /\ LockupV2Refusal(facts, t, now) = SnapshotRefusal(facts.snapshot[Sender(t)], now)
        /\ LockupV2Refusal(facts, t, later) = SnapshotRefusal(facts.snapshot[Sender(t)], later)
    BY <2>1 DEF LockupV2Refusal, BAD_PARAMETERS
  <2> QED BY <1>1, <1>12, <2>1, <2>2, <2>3, SnapshotTightens
<1> QED BY <1>2, <1>3, <1>4, <1>5, <1>6, <1>7, <1>8, <1>9, <1>10, <1>11, <1>12

-----------------------------------------------------------------------------
(* Restrictions and stops.                                                  *)

(* What passes under the restriction passed before it. *)
LEMMA RestrictionRefuses ==
  ASSUME FactsHold, OperatorCall, NEW t \in JudgedTrades,
         Restricts(facts, facts'), ElementVerdict(t)' = 0
  PROVE  ElementVerdict(t) = 0
<1> DEFINE now == elementTime
           restricting == { "AccreditedInvestor", "Sanctions", "Affiliate", "EntityEligibility",
                            "IdentityUniqueness", "Jurisdiction", "BadActorDisqualification",
                            "MinimumTradeAmount", "TransferRestrictionMetadata", "EngineSelection",
                            "RegMIssuerBuying", "OperatorSelfDealing" }
<1>1. /\ now \in Nat /\ now <= now
      /\ elementTime' = now /\ element' = element /\ element \in ElementNames
  BY DEF FactsHold, OperatorCall
<1>2. FactsHold'
  BY FactsKept DEF ElementNext
<1>3. element \in restricting
  <2> SUFFICES ASSUME element \notin restricting PROVE FALSE
    OBVIOUS
  <2> QED BY DEF Restricts
<1>4. CASE element = "AccreditedInvestor"
  <2>1. ElementVerdict(t) = AccreditedRefusal(facts, now) /\ ElementVerdict(t)' = AccreditedRefusal(facts', now)
    BY <1>1, <1>4 DEF ElementVerdict
  <2>2. AccreditedFacts(facts) /\ AccreditedFacts(facts')
    BY <1>1, <1>2, <1>4 DEF FactsHold
  <2>3. /\ facts.claim = facts'.claim
        /\ facts.requires506c => facts'.requires506c
        /\ facts.sec4a7 => facts'.sec4a7
    BY <1>4, <2>2 DEF Restricts, On, Off, Grows, Shrinks, AccreditedFacts
  <2> QED BY <1>1, <2>1, <2>2, <2>3, AccreditedTightens DEF AccreditedFacts
<1>5. CASE element = "Sanctions"
  <2>1. ElementVerdict(t) = SanctionsRefusal(facts, now) /\ ElementVerdict(t)' = SanctionsRefusal(facts', now)
    BY <1>1, <1>5 DEF ElementVerdict
  <2>2. SanctionsFacts(facts) /\ SanctionsFacts(facts')
    BY <1>1, <1>2, <1>5 DEF FactsHold
  <2>3. /\ facts.claims = facts'.claims
        /\ facts.currentListVersion = facts'.currentListVersion
        /\ facts.review = facts'.review /\ facts.block = facts'.block
        /\ facts.blocked \subseteq facts'.blocked
        /\ facts.regime => facts'.regime
        /\ facts.counterparty => facts'.counterparty
    BY <1>5, <2>2 DEF Restricts, On, Off, Grows, Shrinks, SanctionsFacts
  <2> QED BY <1>1, <2>1, <2>2, <2>3, SanctionsTighten DEF SanctionsFacts
<1>6. CASE element = "Affiliate"
  <2>1. ElementVerdict(t) = AffiliateRefusal(facts, now) /\ ElementVerdict(t)' = AffiliateRefusal(facts', now)
    BY <1>1, <1>6 DEF ElementVerdict
  <2>2. AffiliateFacts(facts) /\ AffiliateFacts(facts')
    BY <1>1, <1>2, <1>6 DEF FactsHold
  <2>3. /\ facts.basis = facts'.basis /\ facts.verifiedAt = facts'.verifiedAt
        /\ facts.decayStartedAt = facts'.decayStartedAt
        /\ facts'.trusted => facts.trusted
    BY <1>6, <2>2 DEF Restricts, On, Off, Grows, Shrinks, AffiliateFacts
  <2> QED BY <1>1, <2>1, <2>2, <2>3, AffiliateTightens DEF AffiliateFacts
<1>7. CASE element = "EntityEligibility"
  <2>1. ElementVerdict(t) = EntityRefusal(facts) /\ ElementVerdict(t)' = EntityRefusal(facts')
    BY <1>1, <1>7 DEF ElementVerdict
  <2>2. EntityFacts(facts) /\ EntityFacts(facts')
    BY <1>1, <1>2, <1>7 DEF FactsHold
  <2>3. /\ facts.tracks \subseteq facts'.tracks /\ facts'.tracks \subseteq {"AI", "QP"}
        /\ facts.isEntity = facts'.isEntity
        /\ facts.aiBasis = facts'.aiBasis /\ facts.qpBasis = facts'.qpBasis
        /\ facts.investmentsUsd = facts'.investmentsUsd
        /\ facts.formedForPurpose = facts'.formedForPurpose
        /\ facts.qibConfirmed = facts'.qibConfirmed
        /\ facts.directReqsMet = facts'.directReqsMet
        /\ facts.statusOf = facts'.statusOf
    BY <1>7, <2>2 DEF Restricts, On, Off, Grows, Shrinks, EntityFacts
  <2> QED BY <1>1, <2>1, <2>2, <2>3, EntityTightens
<1>8. CASE element = "IdentityUniqueness"
  <2>1. ElementVerdict(t) = IdentityRefusal(facts, now) /\ ElementVerdict(t)' = IdentityRefusal(facts', now)
    BY <1>1, <1>8 DEF ElementVerdict
  <2>2. IdentityFacts(facts) /\ IdentityFacts(facts')
    BY <1>1, <1>2, <1>8 DEF FactsHold
  <2>3. /\ facts.person = facts'.person /\ facts.identityOf = facts'.identityOf
        /\ facts.enforceCounterparty => facts'.enforceCounterparty
    BY <1>8, <2>2 DEF Restricts, On, Off, Grows, Shrinks, IdentityFacts
  <2> QED BY <1>1, <2>1, <2>2, <2>3, IdentityTightens DEF IdentityFacts, PersonFacts
<1>9. CASE element = "BadActorDisqualification"
  <2>1. ElementVerdict(t) = BadActorRefusal(facts, now) /\ ElementVerdict(t)' = BadActorRefusal(facts', now)
    BY <1>1, <1>9 DEF ElementVerdict
  <2>2. BadActorFacts(facts) /\ BadActorFacts(facts')
    BY <1>1, <1>2, <1>9 DEF FactsHold
  <2>3. /\ facts.offeringId = facts'.offeringId
        /\ facts.roster = facts'.roster /\ facts.rosterComplete = facts'.rosterComplete
        /\ facts.clearance = facts'.clearance
        /\ facts'.trusted \subseteq facts.trusted
    BY <1>9, <2>2 DEF Restricts, On, Off, Grows, Shrinks, BadActorFacts
  <2> QED BY <1>1, <2>1, <2>2, <2>3, BadActorTightens DEF BadActorFacts
<1>10. CASE element = "TransferRestrictionMetadata"
  <2>1. ElementVerdict(t) = RestrictionRefusal(facts) /\ ElementVerdict(t)' = RestrictionRefusal(facts')
    BY <1>1, <1>10 DEF ElementVerdict
  <2>2. RestrictionFacts(facts) /\ RestrictionFacts(facts')
    BY <1>1, <1>2, <1>10 DEF FactsHold
  <2>3. /\ facts.declaration = facts'.declaration
        /\ facts.requiresRestricted => facts'.requiresRestricted
        /\ facts'.validPaths \subseteq facts.validPaths
        /\ facts'.approvedBasis \subseteq facts.approvedBasis
    BY <1>10, <2>2 DEF Restricts, On, Off, Grows, Shrinks, RestrictionFacts
  <2> QED BY <1>1, <2>1, <2>2, <2>3, RestrictionTightens
<1>11. CASE element = "EngineSelection"
  <2>1. ElementVerdict(t) = EngineRefusal(facts, t) /\ ElementVerdict(t)' = EngineRefusal(facts', t)
    BY <1>1, <1>11 DEF ElementVerdict
  <2>2. EngineFacts(facts) /\ EngineFacts(facts')
    BY <1>1, <1>2, <1>11 DEF FactsHold
  <2>3. /\ facts.supported = facts'.supported /\ facts.mmClaim = facts'.mmClaim
        /\ facts.sec4a7 => facts'.sec4a7
        /\ facts'.isDebt => facts.isDebt
        /\ facts'.noGs \subseteq facts.noGs
        /\ facts'.affiliateSet \subseteq facts.affiliateSet
    BY <1>11, <2>2 DEF Restricts, On, Off, Grows, Shrinks, EngineFacts
  <2> QED BY <1>1, <2>1, <2>2, <2>3, EngineTightens
<1>12. CASE element = "RegMIssuerBuying"
  <2>1. ElementVerdict(t) = RegMRefusal(facts, t) /\ ElementVerdict(t)' = RegMRefusal(facts', t)
    BY <1>1, <1>12 DEF ElementVerdict
  <2>2. RegMFacts(facts) /\ RegMFacts(facts')
    BY <1>1, <1>2, <1>12 DEF FactsHold
  <2>3. /\ facts.offering = facts'.offering /\ facts.profile = facts'.profile
        /\ facts.adtv = facts'.adtv
        /\ facts.role = facts'.role /\ facts.clusterRole = facts'.clusterRole
        /\ facts.covered => facts'.covered
        /\ facts.unverified => facts'.unverified
        /\ facts'.infoBarrier => facts.infoBarrier
        /\ facts'.policies => facts.policies
    BY <1>12, <2>2 DEF Restricts, On, Off, Grows, Shrinks, RegMFacts
  <2> QED BY <1>1, <2>1, <2>2, <2>3, RegMTightens
<1>13. CASE element = "OperatorSelfDealing"
  <2>1. ElementVerdict(t) = SelfDealingRefusal(facts, t) /\ ElementVerdict(t)' = SelfDealingRefusal(facts', t)
    BY <1>1, <1>13 DEF ElementVerdict
  <2>2. SelfDealingFacts(facts) /\ SelfDealingFacts(facts')
    BY <1>1, <1>2, <1>13 DEF FactsHold
  <2>3. /\ facts.restricted \subseteq facts'.restricted
        /\ facts'.allowsPrimary \subseteq facts.allowsPrimary
        /\ facts'.involuntaryAgent => facts.involuntaryAgent
        /\ facts'.registryAvailable => facts.registryAvailable
    BY <1>13, <2>2 DEF Restricts, On, Off, Grows, Shrinks, SelfDealingFacts
  <2> QED BY <1>1, <2>1, <2>2, <2>3, SelfDealingTightens
<1>14. CASE element = "Jurisdiction"
  <2>1. ElementVerdict(t) = JurisdictionRefusal(facts) /\ ElementVerdict(t)' = JurisdictionRefusal(facts')
    BY <1>1, <1>14 DEF ElementVerdict
  <2>2. ResidenceFacts(facts)
    BY <1>14 DEF FactsHold
  <2>3. facts'.jurisdictionOf = facts.jurisdictionOf /\ facts'.allowed \subseteq facts.allowed
    BY <1>14, <2>2 DEF Restricts, Shrinks, ResidenceFacts
  <2> QED BY <2>1, <2>3 DEF JurisdictionRefusal
<1>15. CASE element = "MinimumTradeAmount"
  <2>1. /\ ElementVerdict(t) = MinimumTradeRefusal(facts, t)
        /\ ElementVerdict(t)' = MinimumTradeRefusal(facts', t)
    BY <1>1, <1>15 DEF ElementVerdict
  <2>2. facts.words = facts'.words /\ facts.minimum \in 1..facts'.minimum
    BY <1>15 DEF Restricts
  <2>3. facts' \in BindMinimum(facts)
    BY <1>15 DEF OperatorCall, InvestorCalls, AssetCalls, ConductCalls
  <2>4. facts'.minimum \in Nat /\ facts'.words \in Nat
    BY <2>3 DEF BindMinimum
  <2>5. PICK n \in 0..BuidlMinimum : t = [PlainTrade EXCEPT !.amount = n]
    BY <1>15 DEF JudgedTrades
  <2>6. t.amount \in Nat
    BY <2>5 DEF PlainTrade, Trade
  <2>7. facts'.words # 0 /\ facts'.words <= 1 /\ facts'.minimum >= 1 /\ t.amount >= facts'.minimum
    BY <2>1, <2>4, <2>6 DEF MinimumTradeRefusal, BAD_PARAMETERS, ParametersValid
  <2>8. facts.words # 0 /\ facts.words <= 1 /\ facts.minimum >= 1 /\ t.amount >= facts.minimum
    BY <2>2, <2>4, <2>6, <2>7
  <2>9. facts.minimum \in Nat
    BY <2>2, <2>4
  <2> QED BY <2>1, <2>8, <2>9 DEF MinimumTradeRefusal, ParametersValid
<1> QED BY <1>3, <1>4, <1>5, <1>6, <1>7, <1>8, <1>9, <1>10, <1>11, <1>12, <1>13, <1>14, <1>15

(* A stop applies in the state it leaves. *)
LEMMA StopRefuses ==
  ASSUME FactsHold, OperatorCall, NEW t \in JudgedTrades, Stops(facts, facts', t)
  PROVE  ElementVerdict(t)' # 0
<1> DEFINE now == elementTime
           stopping == { "Sanctions", "BadActorDisqualification", "Erc3643Native", "Erc3643NativeV2",
                         "RedFlagKnowledgeBar", "LockupV2" }
<1>1. elementTime' = now /\ element' = element
  BY DEF OperatorCall
<1>2. FactsHold'
  BY FactsKept DEF ElementNext
<1>3. element \in stopping
  <2> SUFFICES ASSUME element \notin stopping PROVE FALSE
    OBVIOUS
  <2> QED BY DEF Stops
<1>4. CASE element = "Sanctions"
  <2>1. ElementVerdict(t)' = SanctionsRefusal(facts', now)
    BY <1>1, <1>4 DEF ElementVerdict
  <2> QED BY <1>4, <2>1 DEF Stops, SanctionsRefusal
<1>5. CASE element = "BadActorDisqualification"
  <2>1. ElementVerdict(t)' = BadActorRefusal(facts', now)
    BY <1>1, <1>5 DEF ElementVerdict
  <2>2. facts'.clearance.revoked
    BY <1>5 DEF Stops
  <2> QED BY <2>1, <2>2, RevokedIsRefused
<1>6. CASE element = "Erc3643Native"
  <2>1. ElementVerdict(t)' = ConformanceRefusal(facts', "seller", "buyer", t.amount)
    BY <1>1, <1>6 DEF ElementVerdict, Erc3643Refusal
  <2>2. t = PlainTrade
    BY <1>6 DEF JudgedTrades
  <2>3. Sender(t) = "seller"
    BY <2>2 DEF Sender, PlainTrade, Trade
  <2>4. facts'.registered /\ (facts'.token.paused \/ "seller" \in facts'.token.frozen)
    BY <1>6, <2>3 DEF Stops
  <2> QED BY <2>1, <2>4, StoppedTokenIsRefused
<1>7. CASE element = "Erc3643NativeV2"
  <2>1. ElementVerdict(t)' = ConformanceRefusal(facts', Sender(t), Recipient(t), t.amount)
    BY <1>1, <1>7 DEF ElementVerdict, Erc3643V2Refusal
  <2>2. facts'.registered /\ (facts'.token.paused \/ Sender(t) \in facts'.token.frozen)
    BY <1>7 DEF Stops
  <2> QED BY <2>1, <2>2, StoppedTokenIsRefused
<1>8. CASE element = "RedFlagKnowledgeBar"
  <2>1. ElementVerdict(t)' = RoutesToReview(facts')
    BY <1>1, <1>8 DEF ElementVerdict
  <2>2. RedFlagFacts(facts)
    BY <1>8 DEF FactsHold
  <2>3. facts'.flagMask # facts.flagMask \/ facts'.uncertain # facts.uncertain
    BY <1>8 DEF Stops
  <2>4. facts' \in RaiseFlag(facts) \cup MarkUncertain(facts) \cup ResolveReview(facts)
    BY <1>8 DEF OperatorCall, InvestorCalls, AssetCalls, ConductCalls
  <2>5. CASE facts' \in RaiseFlag(facts)
    <3>1. PICK r : facts' = [facts EXCEPT !.flagMask = facts.flagMask \cup {r}, !.resolution = "PENDING"]
      BY <2>5, Zenon DEF RaiseFlag
    <3>2. facts'.flagMask # {} /\ facts'.resolution = "PENDING"
      BY <2>2, <3>1 DEF RedFlagFacts
    <3> QED BY <2>1, <3>2 DEF RoutesToReview, Disposition
  <2>6. CASE facts' \in MarkUncertain(facts)
    <3>1. facts'.uncertain /\ facts'.resolution = "PENDING"
      BY <2>2, <2>6 DEF RedFlagFacts, MarkUncertain
    <3> QED BY <2>1, <3>1 DEF RoutesToReview, Disposition
  <2>7. CASE facts' \in ResolveReview(facts)
    BY <2>2, <2>3, <2>7 DEF RedFlagFacts, ResolveReview
  <2> QED BY <2>4, <2>5, <2>6, <2>7
<1>9. CASE element = "LockupV2"
  <2>1. ElementVerdict(t)' = LockupV2Refusal(facts', t, now)
    BY <1>1, <1>9 DEF ElementVerdict
  <2>2. LockFacts(facts'.snapshot)
    BY <1>1, <1>2, <1>9 DEF FactsHold, LockupV2Facts
  <2>3. t.flow = "SECONDARY_TRADE" /\ facts'.snapshot[Sender(t)].status # "VALID"
    BY <1>9 DEF Stops
  <2>4. facts'.snapshot[Sender(t)].status \in {"MISSING", "LINEAGE_BROKEN"}
    BY <2>2, <2>3 DEF LockFacts, Parties, Sender
  <2>5. SnapshotRefusal(facts'.snapshot[Sender(t)], now) # 0
    BY <2>4, NoSnapshotIsRefused
  <2> QED BY <2>1, <2>3, <2>5 DEF LockupV2Refusal, BAD_PARAMETERS
<1> QED BY <1>3, <1>4, <1>5, <1>6, <1>7, <1>8, <1>9

-----------------------------------------------------------------------------
(* Persons.                                                                 *)

(* A missing claim comes before whatever else is wrong with a person.        *)
LEMMA MissingClaim ==
  ASSUME NEW f, NEW i, NEW now, ~f.person[i].kyc.exists
  PROVE  PersonRefusal(f, i, now) = 2
<1> DEFINE who == f.person[i]
           rules == <<
               Refuse(~who.kyc.exists, 2),
               Refuse(~who.kyc.signatureValid, 3),
               Refuse(~who.kyc.issuerTrusted, 4),
               Refuse(who.kyc.maxAge # 0 /\ TooOld(who.kyc.verifiedAt, who.kyc.maxAge, now), 5),
               Refuse(who.status = "FROZEN", 6),
               Refuse(who.status = "REVOKED", 7),
               Refuse(who.dedup = "CONFIRMED_DUPLICATE", 8),
               Refuse(who.dedup = "SUSPECTED_DUPLICATE", 9) >>
<1>1. PersonRefusal(f, i, now) = FirstRefusal(rules)
  BY DEF PersonRefusal
<1>2. DOMAIN rules = 1..8
  OBVIOUS
<1>3. rules[1].if <=> ~who.kyc.exists
  BY DEF Refuse
<1>4. rules[1].code = 2
  BY DEF Refuse
<1> HIDE DEF rules
<1>5. \E k \in 1..8 : rules[k].if
  BY <1>3
<1>6. PICK k \in 1..8 : FirstRefusal(rules) = rules[k].code /\ \A j \in 1..(k - 1) : ~rules[j].if
  <2>1. 8 \in Nat
    OBVIOUS
  <2> QED BY <1>2, <1>5, <2>1, FirstThatApplies, Zenon
<1>7. k = 1
  BY <1>3, <1>6
<1> QED BY <1>1, <1>4, <1>6, <1>7

(* Binding and unbinding leave the record of a person who has a claim. *)
LEMMA BindingKeepsRefusal ==
  ASSUME FactsHold, OperatorCall, element = "IdentityUniqueness", facts'.identityOf # facts.identityOf,
         NEW i \in IdentityIds, PersonRefusal(facts, i, elementTime) # 2
  PROVE  PersonRefusal(facts', i, elementTime) = PersonRefusal(facts, i, elementTime)
<1>1. IdentityFacts(facts)
  BY DEF FactsHold
<1>2. facts' \in BindWallet(facts, elementTime) \cup UnbindWallet(facts) \cup SetKycClaim(facts)
                     \cup SetIdentityStatus(facts) \cup SetDedupStatus(facts)
                     \cup SetEnforceCounterparty(facts)
  BY DEF OperatorCall, InvestorCalls, AssetCalls, ConductCalls
<1>3. SUFFICES facts'.person[i] = facts.person[i]
  BY DEF PersonRefusal
<1>4. facts.person[i].kyc.exists
  BY MissingClaim
<1>5. CASE facts' \in BindWallet(facts, elementTime)
  <2> DEFINE may == {b \in Parties \X IdentityIds : MayBind(facts, b[1], b[2])}
  <2>1. PICK b \in may :
            facts' = [facts EXCEPT !.identityOf[b[1]] = b[2],
                                   !.person[b[2]].kyc = IF @.exists THEN @ ELSE SeededKyc(elementTime)]
    BY <1>5, Zenon DEF BindWallet
  <2> DEFINE who == [facts.person[b[2]] EXCEPT !.kyc =
                        IF facts.person[b[2]].kyc.exists THEN facts.person[b[2]].kyc
                                                         ELSE SeededKyc(elementTime)]
  <2>2. facts'.person = [facts.person EXCEPT ![b[2]] = who]
    BY <1>1, <2>1 DEF IdentityFacts
  <2>3. CASE i = b[2]
    <3>1. who = [facts.person[i] EXCEPT !.kyc = facts.person[i].kyc]
      BY <1>4, <2>3
    <3>2. PersonFacts(facts.person[i])
      BY <1>1 DEF IdentityFacts
    <3>3. who = facts.person[i]
      <4> HIDE DEF who
      <4> QED BY <3>1, <3>2 DEF PersonFacts
    <3> HIDE DEF who
    <3> QED BY <1>1, <2>2, <2>3, <3>3 DEF IdentityFacts
  <2>4. CASE i # b[2]
    <3> HIDE DEF who
    <3> QED BY <1>1, <2>2, <2>4 DEF IdentityFacts
  <2> QED BY <2>3, <2>4
<1>6. CASE facts' \in UnbindWallet(facts)
  <2>1. facts'.person = facts.person
    BY <1>1, <1>6 DEF IdentityFacts, UnbindWallet
  <2> QED BY <2>1
<1>7. CASE facts' \in SetKycClaim(facts)
  <2>1. facts'.identityOf = facts.identityOf
    BY <1>1, <1>7 DEF IdentityFacts, SetKycClaim
  <2> QED BY <2>1
<1>8. CASE facts' \in SetIdentityStatus(facts)
  <2>1. facts'.identityOf = facts.identityOf
    BY <1>1, <1>8 DEF IdentityFacts, SetIdentityStatus
  <2> QED BY <2>1
<1>9. CASE facts' \in SetDedupStatus(facts)
  <2>1. facts'.identityOf = facts.identityOf
    BY <1>1, <1>9 DEF IdentityFacts, SetDedupStatus
  <2> QED BY <2>1
<1>10. CASE facts' \in SetEnforceCounterparty(facts)
  <2>1. facts'.identityOf = facts.identityOf
    BY <1>1, <1>10 DEF IdentityFacts, SetEnforceCounterparty
  <2> QED BY <2>1
<1> QED BY <1>2, <1>5, <1>6, <1>7, <1>8, <1>9, <1>10

-----------------------------------------------------------------------------
(* What an element stores keeps its fields, and the dates it judges are      *)
(* numbers: whatever its operators called, and for any horizon, cap and lock. *)
THEOREM FactsAlwaysHold == ElementSpec => []FactsHold
BY FactsAtFirst, FactsKept, PTL DEF ElementSpec

(* Time alone turns no refusal of any of the 25 elements into a pass, except  *)
(* that of a lock that ends or of a card that becomes effective.             *)
THEOREM TimeHealsOnlyWaits == ElementSpec => OnlyWaitingHeals
<1>1. FactsHold /\ [ElementNext]_elementVars =>
        [ elementTime' > elementTime =>
            \A t \in JudgedTrades :
                ElementVerdict(t) # 0 /\ ElementVerdict(t)' = 0 =>
                    /\ ElementVerdict(t) = 4
                    /\ element \in {"Lockup", "LockupV2", "AssetClassification"} ]_elementVars
  <2> SUFFICES ASSUME FactsHold, ElementNext, elementTime' > elementTime, NEW t \in JudgedTrades,
                      ElementVerdict(t) # 0, ElementVerdict(t)' = 0
               PROVE  /\ ElementVerdict(t) = 4
                      /\ element \in {"Lockup", "LockupV2", "AssetClassification"}
    OBVIOUS
  <2>1. ~OperatorCall
    BY DEF OperatorCall, FactsHold
  <2> QED BY <2>1, TimeHeals DEF ElementNext
<1> QED BY <1>1, FactsAlwaysHold, PTL DEF ElementSpec, OnlyWaitingHeals

(* A call that restricts lets through nothing that was refused, and from a    *)
(* stop on none of its trades is let through, for any parameters.            *)
THEOREM RestrictionsAlwaysBite == ElementSpec => RestrictionsBite
<1>1. FactsHold /\ [ElementNext]_elementVars =>
        [ facts' # facts =>
            \A t \in JudgedTrades :
                /\ Restricts(facts, facts') /\ ElementVerdict(t)' = 0 => ElementVerdict(t) = 0
                /\ Stops(facts, facts', t) => ElementVerdict(t)' # 0 ]_elementVars
  <2> SUFFICES ASSUME FactsHold, ElementNext, facts' # facts, NEW t \in JudgedTrades
               PROVE  /\ Restricts(facts, facts') /\ ElementVerdict(t)' = 0 => ElementVerdict(t) = 0
                      /\ Stops(facts, facts', t) => ElementVerdict(t)' # 0
    OBVIOUS
  <2>1. OperatorCall
    BY DEF ElementNext, TimePasses
  <2> QED BY <2>1, RestrictionRefuses, StopRefuses
<1> QED BY <1>1, FactsAlwaysHold, PTL DEF ElementSpec, RestrictionsBite

(* Wallets that are bound to a person and unbound from it change no refusal   *)
(* of the person but a missing claim, for any number of persons.             *)
THEOREM RefusalsStayWithPersons == ElementSpec => PersonKeepsRefusal
<1>1. FactsHold /\ [ElementNext]_elementVars =>
        [ element = "IdentityUniqueness" /\ facts'.identityOf # facts.identityOf =>
            \A i \in IdentityIds :
                PersonRefusal(facts, i, elementTime) # 2 =>
                    PersonRefusal(facts', i, elementTime) = PersonRefusal(facts, i, elementTime) ]_elementVars
  <2> SUFFICES ASSUME FactsHold, ElementNext, element = "IdentityUniqueness",
                      facts'.identityOf # facts.identityOf, NEW i \in IdentityIds,
                      PersonRefusal(facts, i, elementTime) # 2
               PROVE  PersonRefusal(facts', i, elementTime) = PersonRefusal(facts, i, elementTime)
    OBVIOUS
  <2>1. OperatorCall
    BY DEF ElementNext, TimePasses
  <2> QED BY <2>1, BindingKeepsRefusal
<1> QED BY <1>1, FactsAlwaysHold, PTL DEF ElementSpec, PersonKeepsRefusal
=============================================================================
