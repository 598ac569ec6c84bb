---------------------------- MODULE ConductElements -----------------------------
(***************************************************************************)
(* The elements that judge who trades with whom, and when                   *)
(* (src/compliance/elements), each with its storage at deployment, its       *)
(* operator calls and the code of its refusal.                              *)
(***************************************************************************)
EXTENDS ElementChecks

CONSTANT lockupSeconds

ASSUME LockupIsPositive == lockupSeconds \in Nat \ {0}

-----------------------------------------------------------------------------
(* RegMIssuerBuying; amounts and the trading volume as their ratio wants     *)
(* them: less than DE_MINIMIS_BPS of the volume is little.                   *)

DE_MINIMIS_BPS == 200
BPS_DENOMINATOR == 10000

RegMDeployed ==
    [ covered |-> FALSE, offering |-> "UNSET", profile |-> "NONE", unverified |-> FALSE, adtv |-> 0,
      role |-> "NONE", clusterRole |-> "NONE", infoBarrier |-> FALSE, policies |-> FALSE ]

SetCoveredSecurity(f) == {[f EXCEPT !.covered = b] : b \in BOOLEAN}
SetOfferingStatus(f) == {[f EXCEPT !.offering = s] : s \in {"UNSET", "ONGOING_CONTINUOUS", "COMPLETED"}}
SetExceptionProfile(f) == {[f EXCEPT !.profile = p] : p \in {"NONE", "ACTIVELY_TRADED"}}
SetRegistryUnverified(f) == {[f EXCEPT !.unverified = b] : b \in BOOLEAN}
SetAdtv(f) == {[f EXCEPT !.adtv = v] : v \in {0, 50, 100}}
SetRestrictedRole(f) ==
    {[f EXCEPT !.role = r] : r \in {"NONE", "ISSUER", "AFFILIATED_PURCHASER", "DISTRIBUTION_PARTICIPANT"}}
SetClusterRole(f) ==
    {[f EXCEPT !.clusterRole = r] : r \in {"NONE", "ISSUER", "AFFILIATED_PURCHASER", "DISTRIBUTION_PARTICIPANT"}}
SetInfoBarrierCertified(f) == {[f EXCEPT !.infoBarrier = b] : b \in BOOLEAN}
SetPoliciesCertified(f) == {[f EXCEPT !.policies = b] : b \in BOOLEAN}

(* A direct role hides the role of the cluster. *)
RestrictedRole(f) ==
    LET role == IF f.role # "NONE" THEN f.role ELSE f.clusterRole
    IN  IF role = "AFFILIATED_PURCHASER" /\ f.infoBarrier THEN "NONE" ELSE role

DeMinimisException(f, amount) ==
    /\ f.adtv # 0
    /\ f.policies
    /\ amount * BPS_DENOMINATOR < f.adtv * DE_MINIMIS_BPS

RegMRefusal(f, t) ==
    LET role == RestrictedRole(f)
        open == f.offering = "COMPLETED" \/ t.flow = "REDEMPTION"
        participant == role = "DISTRIBUTION_PARTICIPANT"
    IN  IF ~f.covered THEN 0
        ELSE FirstRefusal(<<
            Refuse(f.profile # "NONE", 1),
            Refuse(f.offering = "UNSET", 2),
            Refuse(~open /\ f.unverified, 3),
            Refuse(~open /\ participant /\ ~DeMinimisException(f, t.amount), 5),
            Refuse(~open /\ role # "NONE" /\ ~participant, 4) >>)

-----------------------------------------------------------------------------
(* OperatorSelfDealing; one restricted role stands for the four, and neither *)
(* party of a trade the engine judges is the zero address (code 1).          *)

SelfDealingDeployed ==
    [restricted |-> {}, registryAvailable |-> FALSE, allowsPrimary |-> {}, involuntaryAgent |-> FALSE]

SetRestrictedParty(f) ==
    {[f EXCEPT !.restricted = @ \cup {p}] : p \in Parties} \cup
    {[f EXCEPT !.restricted = @ \ {p}] : p \in Parties}
SetRegistryAvailable(f) == {[f EXCEPT !.registryAvailable = b] : b \in BOOLEAN}
SetPrimaryDistributor(f) ==
    {[f EXCEPT !.allowsPrimary = @ \cup {p}] : p \in Parties} \cup
    {[f EXCEPT !.allowsPrimary = @ \ {p}] : p \in Parties}
SetInvoluntaryAgent(f) == {[f EXCEPT !.involuntaryAgent = b] : b \in BOOLEAN}

SelfDealingRefusal(f, t) == FirstRefusal(<<
    Refuse(~f.registryAvailable, 2),
    Refuse(/\ f.restricted # {}
           /\ ~(t.flow = "PRIMARY_DISTRIBUTION" /\ "seller" \in f.allowsPrimary)
           /\ ~(t.initiator = "agent" /\ f.involuntaryAgent), 3) >>)

-----------------------------------------------------------------------------
(* RedFlagKnowledgeBar: the record of one pair of parties.  It never refuses *)
(* a trade; what routesToReview answers is its verdict.                      *)

RedFlags == {"RESALE_INTENT", "WASH_CLUSTER"}
Resolutions == {"PENDING", "CLEARED_FALSE_POSITIVE", "RISK_CONFIRMED", "BOUNDARY_ESCALATED"}

RedFlagDeployed == [flagMask |-> {}, uncertain |-> FALSE, resolution |-> "PENDING"]

RaiseFlag(f) == {[f EXCEPT !.flagMask = @ \cup {r}, !.resolution = "PENDING"] : r \in RedFlags}
MarkUncertain(f) == {[f EXCEPT !.uncertain = TRUE, !.resolution = "PENDING"]}
ResolveReview(f) == {[f EXCEPT !.resolution = r] : r \in Resolutions}

Disposition(f) ==
    IF f.resolution = "CLEARED_FALSE_POSITIVE" THEN "CLEAR"
    ELSE IF f.uncertain THEN "REVIEW"
    ELSE IF f.flagMask # {} THEN "FLAG"
    ELSE "CLEAR"

RoutesToReview(f) == IF Disposition(f) # "CLEAR" THEN 1 ELSE 0

-----------------------------------------------------------------------------
(* SurveillanceFlag and its second version: who may set the threshold is the *)
(* difference.  The verdict is whether the last transfer raised the flag.    *)

SurveillanceDeployed == [transferCount |-> 0, threshold |-> 0, flagged |-> FALSE]

SetThreshold(f) == {[f EXCEPT !.threshold = n] : n \in 0..1}
CountTransfer(f) ==
    {[f EXCEPT !.transferCount = @ + 1, !.flagged = f.transferCount + 1 > f.threshold]}

SurveillanceVerdict(f) == IF f.flagged THEN 1 ELSE 0

-----------------------------------------------------------------------------
(* Lockup, its second version, and the AttestedAcquisitionSource they read   *)

NoSnapshot == [status |-> "MISSING", clockStart |-> 0, expiresAt |-> 0]

LockupDeployed == [snapshot |-> [p \in Parties |-> NoSnapshot]]

(* What setSnapshot accepts. *)
SnapshotsAt(now) ==
    {[status |-> "VALID", clockStart |-> c, expiresAt |-> x] :
        c \in 1..now, x \in {now + 1, ElementMaxTime}}
    \cup {[status |-> "LINEAGE_BROKEN", clockStart |-> 0, expiresAt |-> now + 1]}

SetSnapshot(f, now) ==
    {[f EXCEPT !.snapshot[p] = s] :
        p \in Parties, s \in {s \in SnapshotsAt(now) : s.expiresAt > now}}
ClearSnapshot(f) == {[f EXCEPT !.snapshot[p] = NoSnapshot] : p \in Parties}

SnapshotRefusal(s, now) == FirstRefusal(<<
    Refuse(s.status = "MISSING", 1),
    Refuse(s.status = "LINEAGE_BROKEN", 2),
    Refuse(s.expiresAt = 0 \/ now > s.expiresAt, 3),
    Refuse(s.clockStart = 0 \/ now < s.clockStart + lockupSeconds, 4) >>)

LockupRefusal(f, now) == SnapshotRefusal(f.snapshot["buyer"], now)

(* The parameter of LockupV2's binding: nothing, a primary distributor, or    *)
(* something that is no address.                                            *)
LockupV2Deployed == [snapshot |-> LockupDeployed.snapshot, distributor |-> "none"]
BindDistributor(f) == {[f EXCEPT !.distributor = d] : d \in {"none", "seller", "malformed"}}

LockupV2Refusal(f, t, now) ==
    IF f.distributor = "malformed" THEN BAD_PARAMETERS
    ELSE IF t.flow = "PRIMARY_DISTRIBUTION" /\ t.side = "OUT" /\ f.distributor = Sender(t) THEN 0
    ELSE SnapshotRefusal(f.snapshot[Sender(t)], now)
=============================================================================
