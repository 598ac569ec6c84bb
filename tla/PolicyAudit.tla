------------------------------ MODULE PolicyAudit -------------------------------
(***************************************************************************)
(* The policy audit trail of services/toolkit, policy-audit.ts, with the   *)
(* commands of the CLI that build, store and reconstruct an artifact and   *)
(* export the onboarding plan that commits to it. An artifact is known by  *)
(* its hash, and no two have one hash, so here it is its hash. The store   *)
(* is a directory with a file per hash. Every file the commands write is   *)
(* opened so that it must not exist and written after that: a command that *)
(* is killed in between leaves a file that is not JSON. Terminals share    *)
(* the directory, and files and config change in any way beside them.      *)
(***************************************************************************)
EXTENDS Naturals, Sequences

CONSTANTS
    Auditors,      \* terminals
    AuditInputs,   \* what the commands build artifacts from
    AuditOutputs,  \* paths a command may be told to write
    NoArtifact,
    MaxAuditCommands, MaxAuditEdits  \* bounds

ASSUME AuditAssumption == MaxAuditCommands \in Nat /\ MaxAuditEdits \in Nat

VARIABLES
    file,          \* what every path holds
    auditConfig,   \* ProductionOnboardingConfig, as far as an artifact repeats it
    auditJob,      \* the command of each terminal, between its calls
    reported,      \* observation: what a command said it had written, and where
    committed,     \* observation: artifacts an exported plan commits to
    touched,       \* observation: paths changed from outside since they were read
    auditCommands, auditEdits

auditSeen == <<reported, committed, touched>>
policyAuditVars == <<file, auditConfig, auditJob, auditSeen, auditCommands, auditEdits>>

Out(o) == <<"out", o>>
pathOf(hash) == <<"sha256", hash>>

-----------------------------------------------------------------------------
(* An artifact: the audited recipes with what they require, the policy's     *)
(* bindings of them, the element of each binding, and the overrides.         *)

(* The relations of an artifact's parts: every binding is of an audited      *)
(* recipe and has its elements, every element is required by its binding,    *)
(* and every override is of such an element.                                 *)
ArtifactRelations(a) ==
    LET requiredElements(i) == a.recipes[a.recipeBindings[i]] IN
    /\ \A i \in DOMAIN a.recipeBindings :
          /\ a.recipeBindings[i] \in DOMAIN a.recipes
          /\ \A e \in requiredElements(i) : <<i, e>> \in a.elements
    /\ \A x \in a.elements :
          x[1] \in DOMAIN a.recipeBindings /\ x[2] \in requiredElements(x[1])
    /\ a.enforcementOverrides \subseteq a.elements

validatePolicy(a) == a.recipeBindings # <<>> /\ a.lifecycleAction \in {"REGISTER", "UPDATE"}

validateRecipe(a) ==
    DOMAIN a.recipes # {} /\ \A r \in DOMAIN a.recipes : a.recipes[r] # {}

validateArtifact(a) ==
    validatePolicy(a) /\ a.elements # {} /\ validateRecipe(a) /\ ArtifactRelations(a)

Artifacts == {a \in AuditInputs : validateArtifact(a)}

(* A file states the hash of what it holds; or it is absent or torn.         *)
Absent == <<"absent">>
Torn == <<"torn">>
ArtifactFile(hash, a) == <<"artifact", hash, a>>
Built(a) == ArtifactFile(a, a)
Plan(c) == <<"plan", c>>

Paths == {Out(o) : o \in AuditOutputs} \cup {pathOf(a) : a \in Artifacts}

(* validatePolicyAuditArtifactFile: what is there states its own hash, and   *)
(* it is the one that was asked for.                                         *)
Reads(path, hash) == file[path] = Built(hash)

(* What a config commits to: the hash, the hash before it, and the policy    *)
(* the artifact has to repeat.                                               *)
AuditConfigs ==
    {c \in [artifactHash : Artifacts, policy : Artifacts,
            previousArtifactHash : Artifacts \cup {NoArtifact}] :
        IF c.policy.lifecycleAction = "REGISTER" THEN c.previousArtifactHash = NoArtifact
        ELSE c.previousArtifactHash \notin {NoArtifact, c.artifactHash}}

(* Between the commands' calls.                                              *)
AtShell == [at |-> "prompt", path |-> <<>>, content |-> Absent]

PolicyAuditInit ==
    /\ file = [p \in Paths |-> Absent]
    /\ auditConfig \in AuditConfigs
    /\ auditJob = [t \in Auditors |-> AtShell]
    /\ reported = {} /\ committed = {} /\ touched = {}
    /\ auditCommands = 0 /\ auditEdits = 0

-----------------------------------------------------------------------------
Start(t, job) ==
    /\ auditJob[t] = AtShell /\ auditCommands < MaxAuditCommands
    /\ auditCommands' = auditCommands + 1
    /\ auditJob' = [auditJob EXCEPT ![t] = job]

Report(t) ==
    /\ reported' = reported \cup {[path |-> auditJob[t].path, content |-> auditJob[t].content]}
    /\ auditJob' = [auditJob EXCEPT ![t] = AtShell]

Fail(t) ==
    /\ auditJob' = [auditJob EXCEPT ![t] = AtShell]
    /\ UNCHANGED <<file, auditSeen>>

(* policy-audit-build.                                                       *)
Build(t, a, o) ==
    /\ validateArtifact(a)
    /\ Start(t, [at |-> "open", path |-> Out(o), content |-> Built(a)])
    /\ UNCHANGED <<file, auditConfig, auditSeen, auditEdits>>

(* policy-audit-store: the file states the hash of what it holds.            *)
Store(t, o) ==
    \E a \in Artifacts :
        /\ Reads(Out(o), a)
        /\ Start(t, [at |-> "put", path |-> pathOf(a), content |-> Built(a)])
        /\ UNCHANGED <<file, auditConfig, auditSeen, auditEdits>>

(* policy-audit-reconstruct --out.                                           *)
Reconstruct(t, a, o) ==
    /\ Reads(pathOf(a), a)
    /\ Start(t, [at |-> "open", path |-> Out(o), content |-> Built(a)])
    /\ UNCHANGED <<file, auditConfig, auditSeen, auditEdits>>

(* production-onboarding-plan --audit-artifact --audit-store: the artifact   *)
(* is the one the config names.                                              *)
ExportPlan(t, o, output) ==
    /\ Reads(Out(o), auditConfig.artifactHash)
    /\ Start(t, [at |-> "compare", path |-> Out(output), content |-> Plan(auditConfig)])
    /\ UNCHANGED <<file, auditConfig, auditSeen, auditEdits>>

(* put: what is stored already has to be the same.                           *)
AlreadyStored(t) ==
    /\ file[auditJob[t].path] # Absent
    /\ IF file[auditJob[t].path] = auditJob[t].content
       THEN /\ Report(t) /\ touched' = touched \ {auditJob[t].path}
            /\ UNCHANGED <<file, committed>>
       ELSE Fail(t)

Put(t) ==
    /\ auditJob[t].at = "put"
    /\ \/ AlreadyStored(t)
       \/ /\ file[auditJob[t].path] = Absent
          /\ auditJob' = [auditJob EXCEPT ![t].at = "create"]
          /\ UNCHANGED <<file, auditSeen>>
    /\ UNCHANGED <<auditConfig, auditCommands, auditEdits>>

(* Mutation: an existing file is truncated. *)
OpensAny(path) == TRUE
OpensExclusive(path) == file[path] = Absent

Opened(t) ==
    /\ OpensExclusive(auditJob[t].path)
    /\ file' = [file EXCEPT ![auditJob[t].path] = Torn]
    /\ auditJob' = [auditJob EXCEPT ![t].at = "write"]
    /\ UNCHANGED auditSeen

(* The open that must create: put compares again with what came first.       *)
CreateStored(t) ==
    /\ auditJob[t].at = "create"
    /\ \/ Opened(t)
       \/ ~OpensExclusive(auditJob[t].path) /\ AlreadyStored(t)
    /\ UNCHANGED <<auditConfig, auditCommands, auditEdits>>

(* writeImmutableJson, the same for what is no store.                        *)
OpenOutput(t) ==
    /\ auditJob[t].at = "open"
    /\ \/ Opened(t)
       \/ ~OpensExclusive(auditJob[t].path) /\ Fail(t)
    /\ UNCHANGED <<auditConfig, auditCommands, auditEdits>>

(* A file that was replaced meanwhile is not the one that was opened.        *)
WriteFile(t) ==
    /\ auditJob[t].at = "write" /\ Report(t)
    /\ \/ file' = [file EXCEPT ![auditJob[t].path] = auditJob[t].content]
       \/ auditJob[t].path \in touched /\ UNCHANGED file
    /\ UNCHANGED <<auditConfig, committed, touched, auditCommands, auditEdits>>

(* assertPolicyAuditReady: the artifact is stored, and repeats the config;   *)
(* an update's names the one before it.                                      *)
Repeats(a, c) ==
    /\ a = c.policy
    /\ a.lifecycleAction = "UPDATE" => a.previousArtifactHash = c.previousArtifactHash

ComparePlan(t) ==
    LET c == auditJob[t].content[2] IN
    /\ auditJob[t].at = "compare"
    /\ \/ /\ Reads(pathOf(c.artifactHash), c.artifactHash) /\ Repeats(c.artifactHash, c)
          /\ auditJob' = [auditJob EXCEPT ![t].at = "open"]
          /\ committed' = committed \cup {c.artifactHash}
          /\ touched' = touched \ {pathOf(c.artifactHash)}
          /\ UNCHANGED <<file, reported>>
       \/ /\ ~(Reads(pathOf(c.artifactHash), c.artifactHash) /\ Repeats(c.artifactHash, c))
          /\ Fail(t)
    /\ UNCHANGED <<auditConfig, auditCommands, auditEdits>>

KillCommand(t) ==
    /\ auditJob[t] # AtShell /\ Fail(t)
    /\ UNCHANGED <<auditConfig, auditCommands, auditEdits>>

-----------------------------------------------------------------------------
(* From outside: a file is removed, truncated, or is another one's copy; the *)
(* config is edited.                                                         *)
FileContents == {Absent, Torn} \cup {ArtifactFile(h, a) : h, a \in Artifacts}

Touch(p, content) ==
    /\ auditEdits < MaxAuditEdits /\ auditEdits' = auditEdits + 1
    /\ content # file[p] /\ file' = [file EXCEPT ![p] = content]
    /\ touched' = touched \cup {p}
    /\ UNCHANGED <<auditConfig, auditJob, reported, committed, auditCommands>>

EditAuditConfig(c) ==
    /\ auditEdits < MaxAuditEdits /\ auditEdits' = auditEdits + 1
    /\ c # auditConfig /\ auditConfig' = c
    /\ UNCHANGED <<file, auditJob, auditSeen, auditCommands>>

PolicyAuditNext ==
    \/ \E t \in Auditors :
          \/ \E a \in AuditInputs, o \in AuditOutputs : Build(t, a, o)
          \/ \E o \in AuditOutputs : Store(t, o)
          \/ \E a \in Artifacts, o \in AuditOutputs : Reconstruct(t, a, o)
          \/ \E o, output \in AuditOutputs : ExportPlan(t, o, output)
          \/ Put(t) \/ CreateStored(t) \/ OpenOutput(t) \/ WriteFile(t)
          \/ ComparePlan(t) \/ KillCommand(t)
    \/ \E p \in Paths, content \in FileContents : Touch(p, content)
    \/ \E c \in AuditConfigs : EditAuditConfig(c)

PolicyAuditSpec == PolicyAuditInit /\ [][PolicyAuditNext]_policyAuditVars

-----------------------------------------------------------------------------
(* Whatever commands run at once and wherever one of them is killed, what a   *)
(* command said it had written is there, and an artifact that an exported     *)
(* plan commits to can be reconstructed from the store, unless the file was   *)
(* changed from outside after that was checked.                               *)
CommittedIsReconstructible ==
    /\ \A r \in reported : r.path \in touched \/ file[r.path] = r.content
    /\ \A a \in committed : pathOf(a) \in touched \/ Reads(pathOf(a), a)
=============================================================================
