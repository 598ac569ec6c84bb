------------------------------ MODULE KycEvidence ------------------------------
(***************************************************************************)
(* KycEvidenceCoordinator and InMemoryKycEvidenceStore of                  *)
(* services/compliance-data/src/kyc.ts: refreshes of a subject's KYC       *)
(* evidence that overlap on their awaits (provider, audit hook, store).    *)
(*                                                                         *)
(* An evidence hash commits to the whole assessment, so evidence is the    *)
(* assessment itself. Its status and facts are abstracted to a verdict:    *)
(* "OK" and "HIT" (a sanctions hit or an unverified fact) come with status *)
(* ACTIVE, the two others are statuses of their own. The hooks and the     *)
(* provider are external and may fail, hang or answer anything.            *)
(***************************************************************************)
EXTENDS Naturals, FiniteSets

CONSTANTS
    KycCallers,    \* concurrent calls of refresh
    Subjects,      \* one store key (provider, subject, identity, asset) each
    Refs,          \* the provider's assessmentRefHash values
    NoEvidence,    \* the store has nothing for a key
    KycMaxTime,    \* bound of the clock
    Skew,          \* maxFutureSkewSeconds
    Freshness,     \* freshnessSeconds
    Validity,      \* lengths of the provider's validity windows
    Verdicts,      \* the verdicts an assessment may carry
    StrictAudit    \* options.strictAudit

Evidence == [subject: Subjects, ref: Refs, observedAt: 0..(KycMaxTime + Skew + 1),
             validFor: Validity, verdict: Verdicts]

ASSUME KycAssumption ==
    /\ KycMaxTime \in Nat /\ Skew \in Nat /\ Freshness \in Nat
    /\ Validity \subseteq Nat \ {0}
    /\ Verdicts \subseteq {"OK", "HIT", "INELIGIBLE", "REVOKED"}
    /\ StrictAudit \in BOOLEAN
    /\ NoEvidence \notin Evidence

VARIABLES
    kycNow,      \* options.now()
    current,     \* currentByKey
    byAssessment,\* evidenceByAssessment
    call,        \* the local state of each refresh
    audited,     \* evidence with an ELIGIBLE record in the audit
    worst        \* observation: the latest negative evidence stored, plus one

kycVars == <<kycNow, current, byAssessment, call, audited, worst>>

Stages == {"idle", "asking", "auditing", "storing", "stored", "failing"}
Call == [stage: Stages, subject: Subjects \cup {NoEvidence}, at: 0..KycMaxTime,
         answer: Evidence \cup {NoEvidence}]
At(stage) == [stage |-> stage, subject |-> NoEvidence, at |-> 0, answer |-> NoEvidence]
With(stage, e) == [At(stage) EXCEPT !.answer = e]

KycInit ==
    /\ kycNow = 0
    /\ current = [s \in Subjects |-> NoEvidence]
    /\ byAssessment = [r \in Refs |-> NoEvidence]
    /\ call = [c \in KycCallers |-> At("idle")]
    /\ audited = {}
    /\ worst = [s \in Subjects |-> 0]

-----------------------------------------------------------------------------
isFresh(e, now) ==
    /\ e.observedAt <= now + Skew
    /\ now <= e.observedAt + Freshness
    /\ now < e.observedAt + e.validFor

eligible(e) == e.verdict = "OK"
statusRank(e) == CASE e.verdict = "REVOKED" -> 3
                   [] e.verdict = "INELIGIBLE" -> 2
                   [] OTHER -> 1

(* Mutation: at one instant the later answer wins, whatever its status. *)
canReplaceTies(previous, next) == next.observedAt >= previous.observedAt
canReplace(previous, next) ==
    \/ next.observedAt > previous.observedAt
    \/ /\ next.observedAt = previous.observedAt
       /\ statusRank(next) > statusRank(previous)

(* The assessment reference is not yet bound to other evidence.             *)
unconflicted(e) == byAssessment[e.ref] \in {NoEvidence, e}

Accepts(e) ==
    /\ unconflicted(e)
    /\ current[e.subject] = e \/ current[e.subject] = NoEvidence
         \/ canReplace(current[e.subject], e)

(* replaceCurrent has no await in it: it is one step.                       *)
replaceCurrent(e) ==
    IF current[e.subject] = e THEN UNCHANGED <<current, byAssessment, worst>>
    ELSE /\ current' = [current EXCEPT ![e.subject] = e]
         /\ byAssessment' = [byAssessment EXCEPT ![e.ref] = e]
         /\ worst' = IF eligible(e) \/ worst[e.subject] > e.observedAt THEN worst
                     ELSE [worst EXCEPT ![e.subject] = e.observedAt + 1]

-----------------------------------------------------------------------------
Becomes(c, local) == call' = [call EXCEPT ![c] = local]

(* refresh: the timestamp of the call is taken before the provider is asked; *)
(* a malformed request is reported at once.                                  *)
Refresh(c, s) ==
    /\ call[c].stage = "idle"
    /\ \/ Becomes(c, [At("asking") EXCEPT !.subject = s, !.at = kycNow])
       \/ Becomes(c, At("failing"))
    /\ UNCHANGED <<kycNow, current, byAssessment, audited, worst>>

(* Where an assessment leads: binding and freshness are checked against the  *)
(* request and its timestamp, negative evidence is stored at once, eligible  *)
(* evidence is audited first.                                                *)
(* Mutation: the eligible evidence is published without its audit. *)
AssessedUnaudited(c, e) ==
    IF e.subject # call[c].subject \/ ~isFresh(e, call[c].at) THEN At("failing")
    ELSE With("storing", e)
Assessed(c, e) ==
    IF e.subject # call[c].subject \/ ~isFresh(e, call[c].at) THEN At("failing")
    ELSE With(IF eligible(e) THEN "auditing" ELSE "storing", e)

Assess(c, e) ==
    /\ call[c].stage = "asking"
    /\ e.observedAt <= kycNow + Skew + 1
    /\ Becomes(c, Assessed(c, e))
    /\ UNCHANGED <<kycNow, current, byAssessment, audited, worst>>

(* An error of the provider, an answer the validation rejects, or the        *)
(* timeout that races with the provider.                                     *)
ProviderFails(c) ==
    /\ call[c].stage = "asking"
    /\ Becomes(c, At("failing"))
    /\ UNCHANGED <<kycNow, current, byAssessment, audited, worst>>

(* The audit hook of an eligible refresh; only a strict audit stops it.      *)
Audit(c) ==
    /\ call[c].stage = "auditing"
    /\ \/ /\ audited' = audited \cup {call[c].answer}
          /\ Becomes(c, With("storing", call[c].answer))
       \/ /\ Becomes(c, IF StrictAudit THEN At("failing") ELSE With("storing", call[c].answer))
          /\ UNCHANGED audited
    /\ UNCHANGED <<kycNow, current, byAssessment, worst>>

Store(c) ==
    /\ call[c].stage = "storing"
    /\ IF Accepts(call[c].answer)
       THEN /\ replaceCurrent(call[c].answer)
            /\ Becomes(c, At(IF eligible(call[c].answer) THEN "stored" ELSE "failing"))
       ELSE /\ Becomes(c, At("failing"))
            /\ UNCHANGED <<current, byAssessment, worst>>
    /\ UNCHANGED <<kycNow, audited>>

(* The caller gets the eligible materialization, or, after the best-effort   *)
(* failure audit and incident, the reason.                                   *)
Return(c) ==
    /\ call[c].stage \in {"stored", "failing"}
    /\ Becomes(c, At("idle"))
    /\ UNCHANGED <<kycNow, current, byAssessment, audited, worst>>

KycTick ==
    /\ kycNow < KycMaxTime
    /\ kycNow' = kycNow + 1
    /\ UNCHANGED <<current, byAssessment, call, audited, worst>>

KycStep(c) ==
    \/ \E s \in Subjects : Refresh(c, s)
    \/ \E e \in Evidence : Assess(c, e)
    \/ ProviderFails(c)
    \/ Audit(c)
    \/ Store(c)
    \/ Return(c)

KycNext == KycTick \/ \E c \in KycCallers : KycStep(c)

KycSpec == KycInit /\ [][KycNext]_kycVars

-----------------------------------------------------------------------------
(* "Monotonic revocation": eligible evidence in the store was observed after *)
(* every negative evidence the store ever took for the subject, in whatever  *)
(* order overlapping refreshes get their answers stored.                     *)
RevocationSticks ==
    \A s \in Subjects :
        current[s] # NoEvidence /\ eligible(current[s]) => current[s].observedAt >= worst[s]

(* A strict audit has a record of eligible evidence before anybody can read  *)
(* it from the store.                                                        *)
AuditedBeforePublished ==
    StrictAudit => \A s \in Subjects :
        current[s] # NoEvidence /\ eligible(current[s]) => current[s] \in audited
=============================================================================
