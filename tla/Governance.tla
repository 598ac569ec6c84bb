------------------------------- MODULE Governance -------------------------------
(***************************************************************************)
(* What governs a deployment: the three registries, each with an owner and *)
(* operators of its own (OperatorRegistry, MakerAuthorizer, and            *)
(* TokenPolicyRegistry, of which the compiler is followed by itself), and  *)
(* the tools that owners and operators work with: the read-only API and    *)
(* the reference limiter in front of a service, the deployment studio, the *)
(* onboarding plan of the toolkit, its policy audit trail, and the CLI's   *)
(* commands for production and for one token.  No registry calls another,  *)
(* a tool takes any answer of a registry, and tools read files that change *)
(* in any way, so what another part does is already in the behaviours of   *)
(* each: a behaviour follows one, named by "active", while the rest rest.  *)
(***************************************************************************)
EXTENDS PauseControl, MakerAuthority, ManifestLifecycle, PolicyCompiler,
        OperatorRuntime, RateLimiter, DeploymentStudio, Onboarding, PolicyAudit,
        ProductionRelease, OperatorCommands, TLC

(* Two versions of one recipe, one of another.                               *)
TwoVersions == {<<1, 1>>, <<1, 2>>, <<2, 1>>}

(* A registration of one recipe, its update, and one that lacks an element.  *)
RegisterInput ==
    [lifecycleAction |-> "REGISTER", recipes |-> [r \in {"r"} |-> {"e"}],
     recipeBindings |-> <<"r">>, elements |-> {<<1, "e">>},
     enforcementOverrides |-> {<<1, "e">>}, previousArtifactHash |-> NoArtifact]
UpdateInput ==
    [RegisterInput EXCEPT !.lifecycleAction = "UPDATE", !.enforcementOverrides = {},
                          !.previousArtifactHash = RegisterInput]
IncompleteInput == [RegisterInput EXCEPT !.recipes = [r \in {"r"} |-> {"e", "f"}]]
ThreeInputs == {RegisterInput, UpdateInput, IncompleteInput}

VARIABLE active

(* What acts, or is acted on, beside its like: the run gives all of them the  *)
(* same two values.                                                        *)
Alike == Permutations(Terminals)

registryVars == <<roleVars, time, pauseVars, authVars, manifestVars, compilerVars>>
toolVars == <<runtimeVars, limiterVars, studioVars, onboardingVars, policyAuditVars,
              releaseVars, commandVars>>
governanceVars == <<active, registryVars, toolVars>>

(* Accounts are interchangeable at the start, and so are source trees: the   *)
(* first owner and the first tree are chosen. Tools that rest begin in one   *)
(* state.                                                                    *)
GovernanceInit ==
    /\ active \in {"OperatorRegistry", "MakerAuthorizer", "TokenPolicyRegistry", "compiler",
                   "operator-api", "limiter", "studio", "onboarding", "audit", "release", "cli"}
    /\ PauseInit /\ AuthorityInit /\ Init /\ CompilerInit
    /\ owner = CHOOSE a \in Accounts : TRUE
    /\ active # "onboarding" => config = CHOOSE c \in Config : TRUE
    /\ RuntimeInit /\ LimiterInit /\ StudioInit /\ OnboardingInit /\ PolicyAuditInit
    /\ ReleaseInit /\ CommandsInit
    /\ active # "audit" => auditConfig = CHOOSE c \in AuditConfigs : TRUE
    /\ tree["bundle"] = CHOOSE t \in SourceTrees : TRUE
    /\ active # "release" => atRepository /\ releaseConfig = CHOOSE c \in ReleaseConfigs : TRUE
    /\ active # "cli" => stack = DemoScenarios(DeployStack({}))

RegistryNext ==
    \/ /\ active = "OperatorRegistry" /\ PauseNext
       /\ UNCHANGED <<authVars, manifestVars, compilerVars>>
    \/ /\ active = "MakerAuthorizer" /\ AuthorityNext
       /\ UNCHANGED <<pauseVars, manifestVars, compilerVars>>
    \/ /\ active = "TokenPolicyRegistry" /\ Next
       /\ UNCHANGED <<pauseVars, authVars, compilerVars>>
    \/ /\ active = "compiler" /\ CompilerNext
       /\ UNCHANGED <<roleVars, time, pauseVars, authVars, manifestVars>>

ToolNext ==
    \/ /\ active = "operator-api" /\ RuntimeNext
       /\ UNCHANGED <<limiterVars, studioVars, onboardingVars, policyAuditVars, releaseVars, commandVars>>
    \/ /\ active = "limiter" /\ LimiterNext
       /\ UNCHANGED <<runtimeVars, studioVars, onboardingVars, policyAuditVars, releaseVars, commandVars>>
    \/ /\ active = "studio" /\ StudioNext
       /\ UNCHANGED <<runtimeVars, limiterVars, onboardingVars, policyAuditVars, releaseVars, commandVars>>
    \/ /\ active = "onboarding" /\ OnboardingNext
       /\ UNCHANGED <<runtimeVars, limiterVars, studioVars, policyAuditVars, releaseVars, commandVars>>
    \/ /\ active = "audit" /\ PolicyAuditNext
       /\ UNCHANGED <<runtimeVars, limiterVars, studioVars, onboardingVars, releaseVars, commandVars>>
    \/ /\ active = "release" /\ ReleaseNext
       /\ UNCHANGED <<runtimeVars, limiterVars, studioVars, onboardingVars, policyAuditVars, commandVars>>
    \/ /\ active = "cli" /\ CommandsNext
       /\ UNCHANGED <<runtimeVars, limiterVars, studioVars, onboardingVars, policyAuditVars, releaseVars>>

GovernanceNext ==
    /\ UNCHANGED active
    /\ \/ RegistryNext /\ UNCHANGED toolVars
       \/ ToolNext /\ UNCHANGED registryVars

GovernanceSpec == GovernanceInit /\ [][GovernanceNext]_governanceVars

-----------------------------------------------------------------------------
(* Both histories can be replayed: an auditor who reads the entries a         *)
(* registry recorded, of a scope or of a token, gets the values it holds,     *)
(* and finds no gap between one entry and the next.                           *)
HistoriesReplay == PauseHistoryReplays /\ HistoryReplays
=============================================================================
