--------------------------- MODULE ProductionRelease ---------------------------
(***************************************************************************)
(* The production commands of services/cli, from the reviewed source to    *)
(* the verified core: production-deploy and production-verify, with        *)
(* toolkit/production.ts, the runtime directory of cli/product.ts and the  *)
(* script that forge runs. Terminals of one project share its files, which *)
(* editors change beside them; forge (external) simulates the script,      *)
(* which writes the artifact, and only then sends the transactions one by  *)
(* one, any of which may be the last.                                      *)
(*                                                                         *)
(* Of a tree productionContractsHash reads the contracts and one script,   *)
(* but not the deployer that this script imports, which forge builds too.  *)
(* Edits of the deployer that change what it sends are not followed.       *)
(* Contracts get their addresses from the deploying account's nonce, so    *)
(* the nonce of the first transaction names a deployment.                  *)
(***************************************************************************)
EXTENDS Naturals, FiniteSets

CONSTANTS
    Trees,         \* what the hash reads of a source tree
    Deployers,     \* ProductionCoreDeployer.sol, which it does not read
    Terminals,
    NoRelease,     \* a file that is absent, or that validation rejects
    MaxTreeEdits, MaxDeploys  \* bounds

ASSUME ReleaseAssumption ==
    NoRelease \notin Terminals /\ MaxTreeEdits \in Nat /\ MaxDeploys \in Nat

VARIABLES
    atRepository,  \* whether the commands run in the repository's root
    tree,          \* the repository, the bundle, and the runtime copy
    releaseConfig, releaseEvidence,
    coreArtifact,  \* written by the script below its root, or copied
    asExpected,    \* what of the chain the preflight finds as configured
    nonceOnChain,  \* transactions of the deployer
    core,          \* what is on chain, by first nonce
    terminal,      \* the command in each, and what it keeps
    treeEdits, deploys,
    broadcastBuilds, verifiedCores  \* observations

releaseFiles == <<tree, releaseConfig, releaseEvidence, coreArtifact>>
releaseChain == <<asExpected, nonceOnChain, core>>
releaseSeen == <<broadcastBuilds, verifiedCores>>
releaseVars == <<atRepository, releaseFiles, releaseChain, terminal, treeEdits,
                 deploys, releaseSeen>>

SourceTrees == [hashed : Trees, deployer : Deployers]
ReleaseConfigs == [contractsHash : Trees]

Roots == {"repository", "bundle", "runtime"}
projectRoot == IF atRepository THEN "repository" ELSE "project"
deploymentRoot == IF atRepository THEN "repository" ELSE "runtime"

(* The transactions of deployCore, in the order they are sent; those of one  *)
(* kind are taken together.                                                  *)
Created == 1
Wired == 2            \* initial operators among it
CoreHandedOff == 3
VenuesHandedOff == 4

AtPrompt == [stage |-> "none", config |-> NoRelease, source |-> NoRelease,
             rpc |-> NoRelease, base |-> 0, sent |-> 0, asked |-> {},
             artifact |-> NoRelease, overtaken |-> FALSE]

ReleaseInit ==
    /\ atRepository \in BOOLEAN
    /\ tree \in {[r \in Roots |-> t] : t \in SourceTrees}
    /\ releaseConfig \in {c \in ReleaseConfigs : c.contractsHash = tree["bundle"].hashed}
    /\ releaseEvidence = NoRelease
    /\ coreArtifact = [r \in Roots \cup {"project"} |-> NoRelease]
    /\ asExpected = {"safe", "token"} /\ nonceOnChain = 0 /\ core = [n \in {} |-> NoRelease]
    /\ terminal = [t \in Terminals |-> AtPrompt]
    /\ treeEdits = 0 /\ deploys = 0
    /\ broadcastBuilds = {} /\ verifiedCores = {}

-----------------------------------------------------------------------------
(* Editors, reviewers and the owners of the Safe.                            *)
InUse(t, root) ==
    /\ terminal[t].stage \in {"checked", "prepared"}
    /\ root = IF terminal[t].stage = "prepared" THEN deploymentRoot ELSE terminal[t].source
Overtake(root, but) ==
    [t \in Terminals |->
        IF t # but /\ InUse(t, root) THEN [terminal[t] EXCEPT !.overtaken = TRUE]
        ELSE terminal[t]]

EditTree(root, t) ==
    /\ treeEdits < MaxTreeEdits /\ treeEdits' = treeEdits + 1
    /\ root # "runtime" /\ t # tree[root]
    /\ tree' = [tree EXCEPT ![root] = t]
    /\ terminal' = Overtake(root, NoRelease)
    /\ UNCHANGED <<atRepository, releaseConfig, releaseEvidence, coreArtifact,
                   releaseChain, deploys, releaseSeen>>

EditConfig(c) ==
    /\ treeEdits < MaxTreeEdits /\ treeEdits' = treeEdits + 1
    /\ c # releaseConfig /\ releaseConfig' = c
    /\ UNCHANGED <<atRepository, tree, releaseEvidence, coreArtifact, releaseChain,
                   terminal, deploys, releaseSeen>>

Review(c) ==
    /\ c # releaseEvidence /\ releaseEvidence' = c
    /\ c \in {releaseConfig, NoRelease}
    /\ UNCHANGED <<atRepository, tree, releaseConfig, coreArtifact, releaseChain,
                   terminal, treeEdits, deploys, releaseSeen>>

ChangeOnChain(what) ==
    /\ asExpected' = asExpected \ {what}
    /\ asExpected # asExpected'
    /\ treeEdits < MaxTreeEdits /\ treeEdits' = treeEdits + 1
    /\ UNCHANGED <<atRepository, releaseFiles, nonceOnChain, core, terminal, deploys,
                   releaseSeen>>

-----------------------------------------------------------------------------
(* production-deploy. What --contracts names comes first, then the root the  *)
(* command runs in, then what is installed.                                  *)
contractSource(explicit) ==
    IF explicit THEN "bundle" ELSE IF atRepository THEN "repository" ELSE "bundle"

(* Mutation: the hash is not compared. *)
AnySource(source, c) == TRUE
SourceMatches(source, c) == tree[source].hashed = c.contractsHash

(* --rpc-url, --rpc and the environment come before network.rpcUrl.          *)
RpcChoices == {"production", "elsewhere", "unapproved"}

(* validateProductionDeploymentEvidence: its configHash is over everything   *)
(* but the RPC, whose host must be one the config approves.                  *)
EvidenceMatches(c, rpc) == releaseEvidence = c /\ rpc # "unapproved"

(* From the config to the evidence no await is in between.                   *)
StartDeployCore(t, explicit, rpc) ==
    LET source == contractSource(explicit) IN
    /\ terminal[t].stage = "none" /\ deploys < MaxDeploys
    /\ releaseConfig # NoRelease
    /\ SourceMatches(source, releaseConfig)
    /\ EvidenceMatches(releaseConfig, rpc)
    /\ terminal' = [terminal EXCEPT ![t] =
            [AtPrompt EXCEPT !.stage = "checked", !.config = releaseConfig,
                             !.source = source, !.rpc = rpc]]
    /\ deploys' = deploys + 1
    /\ UNCHANGED <<atRepository, releaseFiles, releaseChain, treeEdits, releaseSeen>>

(* productionPreflight: the Safe's proxy, singleton, owners and threshold;   *)
(* the registries an ERC-3643 token is wired to.                             *)
SafeChecks == "safe" \in asExpected
TokenChecks == "token" \in asExpected
PreflightReady(rpc) == rpc = "production" /\ SafeChecks /\ TokenChecks

(* The parts of a source that deployments need, and no artifact yet.         *)
CopyContracts(source) ==
    /\ tree' = [tree EXCEPT !["runtime"] = tree[source]]
    /\ coreArtifact' = [coreArtifact EXCEPT !["runtime"] = NoRelease]

(* Once it is ready, the runtime directory is made anew from the source.     *)
Preflight(t) ==
    /\ terminal[t].stage = "checked"
    /\ PreflightReady(terminal[t].rpc)
    /\ IF deploymentRoot = "runtime"
       THEN /\ CopyContracts(terminal[t].source)
            /\ terminal' = [Overtake("runtime", t) EXCEPT ![t].stage = "prepared"]
       ELSE /\ terminal' = [terminal EXCEPT ![t].stage = "prepared"]
            /\ UNCHANGED <<tree, coreArtifact>>
    /\ UNCHANGED <<atRepository, releaseConfig, releaseEvidence, releaseChain, treeEdits,
                   deploys, releaseSeen>>

artifactWritten(t) ==
    [base |-> nonceOnChain, built |-> tree[deploymentRoot], config |-> terminal[t].config]

(* forge compiles what is below the root, and the simulated script writes    *)
(* the artifact: the addresses to come and the hashes of their code.         *)
Simulate(t) ==
    /\ terminal[t].stage = "prepared"
    /\ terminal' = [terminal EXCEPT ![t].stage = "sending", ![t].base = nonceOnChain,
                                    ![t].artifact = artifactWritten(t)]
    /\ coreArtifact' = [coreArtifact EXCEPT ![deploymentRoot] = terminal'[t].artifact]
    /\ broadcastBuilds' = broadcastBuilds \cup
           {[built |-> tree[deploymentRoot], config |-> terminal[t].config,
             from |-> terminal[t].source, overtaken |-> terminal[t].overtaken]}
    /\ UNCHANGED <<atRepository, tree, releaseConfig, releaseEvidence, releaseChain,
                   treeEdits, deploys, verifiedCores>>

(* The next transaction of deployCore is mined if its nonce is the next one. *)
SendNext(t) ==
    LET j == terminal[t] IN
    /\ j.stage = "sending" /\ j.sent < VenuesHandedOff
    /\ nonceOnChain = j.base + j.sent
    /\ nonceOnChain' = nonceOnChain + 1
    /\ core' = [n \in DOMAIN core \cup {j.base} |->
                   IF n = j.base THEN [built |-> j.artifact.built, mined |-> j.sent + 1]
                   ELSE core[n]]
    /\ terminal' = [terminal EXCEPT ![t].sent = @ + 1]
    /\ UNCHANGED <<atRepository, releaseFiles, asExpected, treeEdits, deploys, releaseSeen>>

(* Where the runtime directory was used, its artifact is copied.             *)
FinishDeploy(t) ==
    /\ terminal[t].stage = "sending" /\ terminal[t].sent = VenuesHandedOff
    /\ coreArtifact[deploymentRoot] # NoRelease
    /\ coreArtifact' = [coreArtifact EXCEPT ![projectRoot] = coreArtifact[deploymentRoot]]
    /\ terminal' = [terminal EXCEPT ![t] = AtPrompt]
    /\ UNCHANGED <<atRepository, tree, releaseConfig, releaseEvidence, releaseChain,
                   treeEdits, deploys, releaseSeen>>

(* A check fails, forge fails, or the terminal is closed.                    *)
CommandEnds(t) ==
    /\ terminal[t].stage # "none"
    /\ terminal' = [terminal EXCEPT ![t] = AtPrompt]
    /\ UNCHANGED <<atRepository, releaseFiles, releaseChain, treeEdits, deploys, releaseSeen>>

-----------------------------------------------------------------------------
(* production-verify. The artifact must be of this config; then the chain is *)
(* asked, one question after the other.                                      *)
ArtifactMatches(a, c) == a.config = c

StartVerifyCore(t) ==
    LET found == coreArtifact[projectRoot] IN
    /\ terminal[t].stage = "none"
    /\ releaseConfig # NoRelease /\ found # NoRelease
    /\ ArtifactMatches(found, releaseConfig)
    /\ terminal' = [terminal EXCEPT ![t] =
            [AtPrompt EXCEPT !.stage = "verifying", !.config = releaseConfig,
                             !.artifact = found]]
    /\ UNCHANGED <<atRepository, releaseFiles, releaseChain, treeEdits, deploys, releaseSeen>>

Deployed(a) == a.base \in DOMAIN core
MinedAt(a, last) == Deployed(a) /\ core[a.base].mined >= last

(* What is deployed is compiled from the part that is hashed.                *)
SameCode(a) == core[a.base].built.hashed = a.built.hashed

(* Mutation: owners of the adapters are not asked for. *)
CoreAnswers(question, a) ==
    CASE question = "code" -> MinedAt(a, Created) /\ SameCode(a)
      [] question = "owners" -> MinedAt(a, CoreHandedOff)
      [] question = "wiring" -> MinedAt(a, Wired)
Answers(question, a) ==
    CASE question = "code" -> MinedAt(a, Created) /\ SameCode(a)
      [] question = "owners" -> MinedAt(a, VenuesHandedOff)
      [] question = "wiring" -> MinedAt(a, Wired)

(* Routers, operators, bindings and profiles are all about the wiring. An    *)
(* answer that is not the expected one leaves "ready" false, and the rest of *)
(* the questions without effect.                                             *)
NextQuestion(asked) ==
    CASE asked = {} -> "code"
      [] asked = {"code"} -> "owners"
      [] OTHER -> "wiring"

Ask(t) ==
    LET j == terminal[t]
        question == NextQuestion(j.asked)
    IN
    /\ j.stage = "verifying"
    /\ Answers(question, j.artifact)
    /\ IF question = "wiring"
       THEN /\ verifiedCores' = verifiedCores \cup {j.artifact}
            /\ terminal' = [terminal EXCEPT ![t] = AtPrompt]
       ELSE /\ terminal' = [terminal EXCEPT ![t].asked = @ \cup {question}]
            /\ UNCHANGED verifiedCores
    /\ UNCHANGED <<atRepository, releaseFiles, releaseChain, treeEdits, deploys,
                   broadcastBuilds>>

ReleaseNext ==
    \/ \E root \in Roots, t \in SourceTrees : EditTree(root, t)
    \/ \E c \in ReleaseConfigs \cup {NoRelease} : EditConfig(c) \/ Review(c)
    \/ \E what \in {"safe", "token"} : ChangeOnChain(what)
    \/ \E t \in Terminals :
        \/ \E explicit \in BOOLEAN, rpc \in RpcChoices :
            StartDeployCore(t, explicit, rpc)
        \/ Preflight(t) \/ Simulate(t) \/ SendNext(t) \/ FinishDeploy(t) \/ CommandEnds(t)
        \/ StartVerifyCore(t) \/ Ask(t)

ReleaseSpec == ReleaseInit /\ [][ReleaseNext]_releaseVars

-----------------------------------------------------------------------------
(* What commands broadcast from the tree they hashed and that nobody edited   *)
(* since.                                                                     *)
Undisturbed ==
    {b \in broadcastBuilds : ~b.overtaken /\ (atRepository => b.from = "repository")}

(* The contracts that are broadcast are those that were hashed and reviewed,  *)
(* whatever is edited, reviewed and prepared beside it: unless files of the   *)
(* command's own tree were changed after the hash, or --contracts named       *)
(* another tree than the root that is built.                                  *)
ReviewedIsBroadcast ==
    \A b \in Undisturbed : b.built.hashed = b.config.contractsHash

(* One reviewed configuration stands for one source tree: a deployment from   *)
(* another one is rejected.                                                   *)
OneTreeIsBroadcast ==
    \A b, c \in Undisturbed : b.config = c.config => b.built = c.built

(* "ready" means that the whole core is on chain, with the code that the      *)
(* artifact names and handed off to the Safe, although the artifact is        *)
(* written before the first transaction, later runs replace it and the        *)
(* addresses it names may have gone to another run.                           *)
VerifiedIsHandedOff ==
    \A a \in verifiedCores : MinedAt(a, VenuesHandedOff) /\ SameCode(a)
=============================================================================
