------------------------- MODULE ManifestLifecycle -------------------------
(***************************************************************************)
(* TokenPolicyRegistry: the manifest of each token, its lifecycle, the     *)
(* semantic updates and resumptions that wait for their delay, and the     *)
(* history that _manifestHistoryHashes commits to.                         *)
(*                                                                         *)
(* A manifest is its content hash, its fact flags and the plan compiled    *)
(* from its bindings, overrides and parameters; the compiler is a function *)
(* of them and of registries that only grow, so a plan is one value here.  *)
(***************************************************************************)
EXTENDS Governed, FiniteSets

CONSTANTS
    Tokens,
    Hashes,      \* fullManifestHash values of manifests
    Facts,       \* bits of factsPacked
    Plans,       \* compiled plans of valid bindings and configurations
    NoHash,      \* bytes32(0)
    NoPlan,      \* no compiled bindings
    Delay,       \* MIN_MANIFEST_DELAY
    MaxTime,     \* bound on the block timestamp
    MaxHistory   \* bound on the history of a token

ASSUME ManifestAssumption ==
    /\ NoHash \notin Hashes /\ NoPlan \notin Plans
    /\ Delay \in Nat \ {0} /\ MaxTime \in Nat /\ MaxHistory \in Nat

VARIABLES
    status,    \* _manifests[t].status
    manifest,  \* the hash and the facts of _manifests[t]
    plan,      \* _compiledPlans, with their hash and configuration
    version,   \* _manifestVersions
    history,   \* what _manifestHistoryHashes commits to
    update,    \* _pendingManifestUpdates, with effectiveTime as at
    nextPlan,  \* _pendingCompiledPlans
    resume     \* effectiveTime of _pendingManifestResumes; 0: none

manifestVars == <<status, manifest, plan, version, history, update, nextPlan, resume>>
vars == <<owner, isOperator, status, manifest, plan, version, history,
          update, nextPlan, resume, time>>

Statuses == {"UNKNOWN", "UNREGULATED", "PROPOSED", "ACTIVE", "SUSPENDED", "RETIRED"}
Manifest == [hash: Hashes \cup {NoHash}, facts: SUBSET Facts]
NoManifest == [hash |-> NoHash, facts |-> {}]
Update == [m: Manifest, at: Nat]
NoUpdate == [m |-> NoManifest, at |-> 0]
Entry == [old: Statuses, new: Statuses, oldHash: Hashes \cup {NoHash},
          newHash: Hashes \cup {NoHash}, version: Nat, at: Nat]

Live == {"ACTIVE", "SUSPENDED"}

(* _recordHistory, which also moves the version. *)
RecordHistory(t, new, oldHash, newHash, at, bump) ==
    LET v == version[t] + bump
    IN  /\ Len(history[t]) < MaxHistory
        /\ version' = [version EXCEPT ![t] = v]
        /\ history' = [history EXCEPT ![t] = Append(@,
              [old |-> status[t], new |-> new, oldHash |-> oldHash,
               newHash |-> newHash, version |-> v, at |-> at])]

SetStatus(t, new) == status' = [status EXCEPT ![t] = new]

Registrable(t) == status[t] \in {"UNKNOWN", "RETIRED"}

RegisterManifest(sender, t, m, p) ==
    /\ OnlyOwner(sender)
    /\ Registrable(t)
    /\ SetStatus(t, "PROPOSED")
    /\ manifest' = [manifest EXCEPT ![t] = m]
    /\ plan' = [plan EXCEPT ![t] = p]
    /\ RecordHistory(t, "PROPOSED", manifest[t].hash, m.hash, time, 1)
    /\ UNCHANGED <<roleVars, update, nextPlan, resume, time>>

ApproveManifest(sender, t) ==
    /\ OnlyOperator(sender)
    /\ status[t] = "PROPOSED" /\ plan[t] # NoPlan
    /\ SetStatus(t, "ACTIVE")
    /\ RecordHistory(t, "ACTIVE", manifest[t].hash, manifest[t].hash, time, 0)
    /\ UNCHANGED <<roleVars, manifest, plan, update, nextPlan, resume, time>>

(* Facts are only tightened, and only before the manifest is approved. *)
SetFact(sender, t, facts) ==
    /\ OnlyOperator(sender)
    /\ status[t] = "PROPOSED" /\ manifest[t].facts \subseteq facts
    /\ manifest' = [manifest EXCEPT ![t].facts = facts]
    /\ UNCHANGED <<roleVars, status, plan, version, history, update, nextPlan, resume, time>>

SuspendManifest(sender, t) ==
    /\ OnlyOperator(sender)
    /\ status[t] = "ACTIVE"
    /\ SetStatus(t, "SUSPENDED")
    /\ resume' = [resume EXCEPT ![t] = 0]
    /\ RecordHistory(t, "SUSPENDED", manifest[t].hash, manifest[t].hash, time, 0)
    /\ UNCHANGED <<roleVars, manifest, plan, update, nextPlan, time>>

ScheduleManifestResume(sender, t) ==
    /\ OnlyOwner(sender)
    /\ status[t] = "SUSPENDED" /\ resume[t] = 0
    /\ resume' = [resume EXCEPT ![t] = time + Delay]
    /\ UNCHANGED <<roleVars, status, manifest, plan, version, history, update, nextPlan, time>>

CancelManifestResume(sender, t) ==
    /\ OnlyOwner(sender)
    /\ resume[t] # 0
    /\ resume' = [resume EXCEPT ![t] = 0]
    /\ UNCHANGED <<roleVars, status, manifest, plan, version, history, update, nextPlan, time>>

Ready(at) == at # 0 /\ time >= at

ResumeManifest(sender, t) ==
    /\ OnlyOperator(sender)
    /\ status[t] = "SUSPENDED" /\ Ready(resume[t])
    /\ SetStatus(t, "ACTIVE")
    /\ resume' = [resume EXCEPT ![t] = 0]
    /\ RecordHistory(t, "ACTIVE", manifest[t].hash, manifest[t].hash, resume[t], 0)
    /\ UNCHANGED <<roleVars, manifest, plan, update, nextPlan, time>>

ScheduleManifestUpdate(sender, t, m, p) ==
    /\ OnlyOwner(sender)
    /\ status[t] \in Live /\ update[t].at = 0
    /\ m.hash \notin {NoHash, manifest[t].hash}
    /\ update' = [update EXCEPT ![t] = [m |-> m, at |-> time + Delay]]
    /\ nextPlan' = [nextPlan EXCEPT ![t] = p]
    /\ UNCHANGED <<roleVars, status, manifest, plan, version, history, resume, time>>

DropUpdate(t) ==
    /\ update' = [update EXCEPT ![t] = NoUpdate]
    /\ nextPlan' = [nextPlan EXCEPT ![t] = NoPlan]

CancelManifestUpdate(sender, t) ==
    /\ OnlyOwner(sender)
    /\ update[t].at # 0
    /\ DropUpdate(t)
    /\ UNCHANGED <<roleVars, status, manifest, plan, version, history, resume, time>>

(* Mutation: the version counts registrations only. *)
NoBump == 0
UpdateBump == 1

ActivatedPlan(t) == nextPlan[t]
(* Mutation: the history gets the hash the stored manifest had. *)
StoredHash(t) == manifest[t].hash
ActivatedHash(t) == update[t].m.hash

(* The status stays what it is: an update of a suspended token resumes nothing. *)
ActivateManifestUpdate(sender, t) ==
    /\ OnlyOperator(sender)
    /\ status[t] \in Live /\ Ready(update[t].at)
    /\ manifest' = [manifest EXCEPT ![t] = update[t].m]
    /\ plan' = [plan EXCEPT ![t] = ActivatedPlan(t)]
    /\ RecordHistory(t, status[t], manifest[t].hash, ActivatedHash(t), update[t].at, UpdateBump)
    /\ DropUpdate(t)
    /\ UNCHANGED <<roleVars, status, resume, time>>

DropPending(t) == DropUpdate(t) /\ resume' = [resume EXCEPT ![t] = 0]

RetireManifest(sender, t) ==
    /\ OnlyOperator(sender)
    /\ status[t] \in Live
    /\ SetStatus(t, "RETIRED")
    /\ DropPending(t)
    /\ RecordHistory(t, "RETIRED", manifest[t].hash, manifest[t].hash, time, 0)
    /\ UNCHANGED <<roleVars, manifest, plan, time>>

(* setUnregulated and clearUnregulated. *)
SetUnregulated(sender, t, set) ==
    LET from == IF set THEN "UNKNOWN" ELSE "UNREGULATED"
        to   == IF set THEN "UNREGULATED" ELSE "UNKNOWN"
    IN  /\ OnlyOwner(sender)
        /\ status[t] = from
        /\ SetStatus(t, to)
        /\ RecordHistory(t, to, NoHash, NoHash, time, 0)
        /\ UNCHANGED <<roleVars, manifest, plan, update, nextPlan, resume, time>>

Tick ==
    /\ time < MaxTime
    /\ time' = time + 1
    /\ UNCHANGED <<roleVars, manifestVars>>

Init ==
    /\ RoleInit
    /\ status = [t \in Tokens |-> "UNKNOWN"]
    /\ manifest = [t \in Tokens |-> NoManifest]
    /\ plan = [t \in Tokens |-> NoPlan]
    /\ version = [t \in Tokens |-> 0]
    /\ history = [t \in Tokens |-> <<>>]
    /\ update = [t \in Tokens |-> NoUpdate]
    /\ nextPlan = [t \in Tokens |-> NoPlan]
    /\ resume = [t \in Tokens |-> 0]
    /\ time = 1

ManifestStep(sender, t) ==
    \/ \E m \in Manifest, p \in Plans :
          RegisterManifest(sender, t, m, p) \/ ScheduleManifestUpdate(sender, t, m, p)
    \/ \E facts \in SUBSET Facts : SetFact(sender, t, facts)
    \/ \E set \in BOOLEAN : SetUnregulated(sender, t, set)
    \/ ApproveManifest(sender, t) \/ SuspendManifest(sender, t)
    \/ ScheduleManifestResume(sender, t) \/ CancelManifestResume(sender, t)
    \/ ResumeManifest(sender, t) \/ CancelManifestUpdate(sender, t)
    \/ ActivateManifestUpdate(sender, t) \/ RetireManifest(sender, t)

Next ==
    \/ \E sender \in Accounts, t \in Tokens : ManifestStep(sender, t)
    \/ \E sender \in Accounts : RoleStep(sender) /\ UNCHANGED <<manifestVars, time>>
    \/ Tick

Spec == Init /\ [][Next]_vars

-----------------------------------------------------------------------------
(* Properties *)

TypeOK ==
    /\ RoleTypes
    /\ status \in [Tokens -> Statuses]
    /\ manifest \in [Tokens -> Manifest]
    /\ plan \in [Tokens -> Plans \cup {NoPlan}]
    /\ version \in [Tokens -> Nat]
    /\ history \in [Tokens -> Seq(Entry)]
    /\ update \in [Tokens -> Update]
    /\ nextPlan \in [Tokens -> Plans \cup {NoPlan}]
    /\ resume \in [Tokens -> Nat]
    /\ time \in Nat \ {0}

(* What the engine evaluates and policyId binds. *)
Semantics(t) == <<manifest[t], plan[t]>>

(* Notice is pending only on the manifest it was given for: retirement or    *)
(* resumption discards it, so it never acts on the token's next manifest.    *)
NoticesAreLive ==
    \A t \in Tokens :
        /\ update[t].at # 0 => status[t] \in Live /\ nextPlan[t] # NoPlan
        /\ resume[t] # 0 => status[t] = "SUSPENDED"

(* A token the engine or an operator can reach as live has a compiled plan:  *)
(* evaluate never meets an ACTIVE manifest without bindings.                 *)
LiveHasPlan == \A t \in Tokens : status[t] \in Live => plan[t] # NoPlan

Chained(h) ==
    \A i \in 1..Len(h)-1 : /\ h[i+1].old = h[i].new
                           /\ h[i+1].oldHash = h[i].newHash
                           /\ h[i+1].version \in {h[i].version, h[i].version + 1}

EndsIn(h, st, hash, v) ==
    h # <<>> => LET last == h[Len(h)] IN last.new = st /\ last.newHash = hash /\ last.version = v

(* Whoever replays the history of a token finds the status, the manifest     *)
(* hash and the version the registry holds, and no gap between two entries.  *)
HistoryReplays ==
    \A t \in Tokens :
        Chained(history[t]) /\ EndsIn(history[t], status[t], manifest[t].hash, version[t])

(* A manifest that was approved changes its meaning only together with its   *)
(* version: facts, plan and hash are fixed while a version is executable.    *)
VersionNamesSemantics ==
    [][\A t \in Tokens :
          status[t] \in Live \cup {"RETIRED"} /\ Semantics(t)' # Semantics(t)
              => version'[t] = version[t] + 1]_vars

(* A suspension recorded in the history ends through resumeManifest only     *)
(* when Delay has passed since it.                                           *)
SuspendedAt(t, i) == history[t][i].new = "SUSPENDED" /\ history[t][i].old = "ACTIVE"
ResumeAfterNotice ==
    [][\A t \in Tokens : status[t] = "SUSPENDED" /\ status'[t] = "ACTIVE" =>
          \A i \in DOMAIN history[t] : SuspendedAt(t, i) => time >= history[t][i].at + Delay]_vars

(* No token becomes executable within Delay of a suspension, by any path:    *)
(* "resume passes owner scheduling and timelock" (docs/security.md).         *)
NoEarlyRelease ==
    [][\A t \in Tokens : status[t] # "ACTIVE" /\ status'[t] = "ACTIVE" =>
          \A i \in DOMAIN history[t] : SuspendedAt(t, i) => time >= history[t][i].at + Delay]_vars
=============================================================================
