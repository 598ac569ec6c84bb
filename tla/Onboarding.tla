------------------------------- MODULE Onboarding -------------------------------
(***************************************************************************)
(* services/toolkit, production-onboarding.ts, schema version 5: the plan  *)
(* that puts one token, its elements, recipes and manifest on chain, or    *)
(* updates its manifest. The plan is exported in two lanes of unsigned     *)
(* transactions, for the Safe and for the operator, and "dependsOn" is all *)
(* that orders them: whoever holds a lane sends what depends on nothing    *)
(* that is outstanding, and waits where the plan names an earliest time.   *)
(* The chain is the registries as far as the plan can be refused by them;  *)
(* manifestOf, the delays and the delegates are ManifestLifecycle's and    *)
(* MakerAuthority's.                                                       *)
(***************************************************************************)
EXTENDS Naturals, FiniteSets

CONSTANTS
    PlanElements, PlanRecipes, \* what the config lists
    PlanDelay,                 \* of manifest updates and of delegates
    PlanMaxTime                \* bound of the clock

ASSUME PlanAssumption == PlanDelay \in Nat /\ PlanMaxTime \in Nat

VARIABLES
    config,      \* ProductionOnboardingConfig
    elementsOn, recipesOn,  \* the registries
    policy,      \* status and version of the token's manifest; its pending update
    venueOn, makerApproved,
    delegateAt,  \* 0: none; else when it may be executed, and whether it was
    checkpoint,  \* what the audit checkpoint recorded
    executed,    \* transactions of the plan that were mined
    reverted,    \* observation: transactions that the chain refused
    planTime

onboardingVars == <<config, elementsOn, recipesOn, policy, venueOn, makerApproved,
                    delegateAt, checkpoint, executed, reverted, planTime>>

Nonempty(S) == SUBSET S \ {{}}

(* validateProductionOnboardingConfig: a first registration registers all it *)
(* lists, an update what it marks; a recipe needs listed elements.           *)
Config ==
    {c \in [action: {"REGISTER", "UPDATE"}, maker: BOOLEAN,
            newElements: SUBSET PlanElements, newRecipes: SUBSET PlanRecipes,
            requiredElements: [PlanRecipes -> Nonempty(PlanElements)],
            recipeBindings: Nonempty(PlanRecipes),
            postStatus: {"ACTIVE", "SUSPENDED"}] :
        c.action = "REGISTER" =>
            /\ c.newElements = PlanElements /\ c.newRecipes = PlanRecipes
            /\ c.postStatus = "ACTIVE"}

Registers == config.action = "REGISTER"

(* What is not marked is on chain already; an update finds the manifest in   *)
(* the status it expects to leave it in, and the venue and maker in place.   *)
OnboardingInit ==
    /\ config \in Config
    /\ elementsOn = PlanElements \ config.newElements
    /\ recipesOn = PlanRecipes \ config.newRecipes
    /\ policy = [status |-> IF Registers THEN "UNKNOWN" ELSE config.postStatus,
                 version |-> IF Registers THEN 0 ELSE 1, updateAt |-> 0]
    /\ venueOn = ~Registers /\ makerApproved = (config.maker /\ ~Registers)
    /\ delegateAt = [at |-> 0, active |-> config.maker /\ ~Registers]
    /\ checkpoint = [status |-> "UNKNOWN", version |-> 0]
    /\ executed = {} /\ reverted = {} /\ planTime = 1

-----------------------------------------------------------------------------
(* The transactions, and what each depends on.                               *)
ElementTxs == {<<"element", e>> : e \in config.newElements}
RecipeTxs == {<<"recipe", r>> : r \in config.newRecipes}
ManifestTx == <<"manifest", "manifest">>
Activation == <<"manifest", "activation">>
Checkpoint == <<"policy", "checkpoint">>
Venue == <<"venue", "register">>
Maker == <<"maker", "approve">>
Schedule == <<"signer", "schedule">>
Execute == <<"signer", "execute">>

SignerTxs == {Maker, Schedule, Execute}

Transactions ==
    ElementTxs \cup RecipeTxs \cup {ManifestTx, Activation, Checkpoint}
        \cup (IF Registers THEN {Venue} ELSE {})
        \cup (IF Registers /\ config.maker THEN SignerTxs ELSE {})

(* Mutation: the manifest waits for the elements only. *)
AfterElements == ElementTxs
ManifestDependsOn == RecipeTxs

dependsOn(tx) ==
    CASE tx \in ElementTxs -> {}
      [] tx \in RecipeTxs -> ElementTxs
      [] tx = ManifestTx -> ManifestDependsOn
      [] tx = Activation -> {ManifestTx}
      [] tx = Checkpoint -> {Activation}
      [] tx = Venue -> {Checkpoint}
      [] tx = Maker -> {Venue}
      [] tx = Schedule -> {Maker}
      [] tx = Execute -> {Schedule}

earliestExecution(tx) ==
    CASE tx = Activation -> policy.updateAt
      [] tx = Execute -> delegateAt.at
      [] OTHER -> 0

-----------------------------------------------------------------------------
(* What the contracts require.                                               *)
Compiles ==
    \A r \in config.recipeBindings :
        r \in recipesOn /\ config.requiredElements[r] \subseteq elementsOn

Accepted(tx) ==
    CASE tx \in ElementTxs -> tx[2] \notin elementsOn
      [] tx \in RecipeTxs -> tx[2] \notin recipesOn
      [] tx = ManifestTx ->
            /\ Compiles /\ policy.updateAt = 0
            /\ policy.status \in IF Registers THEN {"UNKNOWN", "RETIRED"} ELSE {"ACTIVE", "SUSPENDED"}
      [] tx = Activation ->
            IF Registers THEN policy.status = "PROPOSED"
            ELSE policy.updateAt # 0 /\ planTime >= policy.updateAt
      [] tx = Checkpoint -> policy.version # 0
      [] tx = Schedule -> ~delegateAt.active /\ delegateAt.at = 0
      [] tx = Execute -> delegateAt.at # 0 /\ planTime >= delegateAt.at
      [] OTHER -> TRUE

policyAfter(tx) ==
    CASE tx = ManifestTx /\ Registers -> [policy EXCEPT !.status = "PROPOSED", !.version = @ + 1]
      [] tx = ManifestTx /\ ~Registers -> [policy EXCEPT !.updateAt = planTime + PlanDelay]
      [] tx = Activation /\ Registers -> [policy EXCEPT !.status = "ACTIVE"]
      [] tx = Activation /\ ~Registers -> [policy EXCEPT !.version = @ + 1, !.updateAt = 0]
      [] OTHER -> policy

delegateAfter(tx) ==
    CASE tx = Schedule -> [delegateAt EXCEPT !.at = planTime + PlanDelay]
      [] tx = Execute -> [at |-> 0, active |-> TRUE]
      [] OTHER -> delegateAt

Send(tx) ==
    /\ tx \in Transactions \ executed /\ dependsOn(tx) \subseteq executed
    /\ planTime >= earliestExecution(tx)
    /\ \/ /\ Accepted(tx)
          /\ executed' = executed \cup {tx}
          /\ elementsOn' = elementsOn \cup IF tx \in ElementTxs THEN {tx[2]} ELSE {}
          /\ recipesOn' = recipesOn \cup IF tx \in RecipeTxs THEN {tx[2]} ELSE {}
          /\ policy' = policyAfter(tx)
          /\ venueOn' = (venueOn \/ tx = Venue)
          /\ makerApproved' = (makerApproved \/ tx = Maker)
          /\ delegateAt' = delegateAfter(tx)
          /\ checkpoint' = IF tx = Checkpoint
                           THEN [status |-> policy.status, version |-> policy.version]
                           ELSE checkpoint
          /\ UNCHANGED <<config, reverted, planTime>>
       \/ /\ ~Accepted(tx)
          /\ reverted' = reverted \cup {tx}
          /\ UNCHANGED <<config, elementsOn, recipesOn, policy, venueOn, makerApproved,
                         delegateAt, checkpoint, executed, planTime>>

PlanTick ==
    /\ planTime < PlanMaxTime
    /\ planTime' = planTime + 1
    /\ UNCHANGED <<config, elementsOn, recipesOn, policy, venueOn, makerApproved,
                   delegateAt, checkpoint, executed, reverted>>

OnboardingNext == PlanTick \/ \E tx \in Transactions : Send(tx)

OnboardingSpec == OnboardingInit /\ [][OnboardingNext]_onboardingVars

-----------------------------------------------------------------------------
intendedPolicyVersion == IF Registers THEN 1 ELSE 2

(* verifyProductionOnboarding is ready.                                      *)
OnboardingReady ==
    /\ elementsOn = PlanElements /\ recipesOn = PlanRecipes
    /\ policy = [status |-> config.postStatus, version |-> intendedPolicyVersion, updateAt |-> 0]
    /\ venueOn
    /\ makerApproved = config.maker
    /\ delegateAt = [at |-> 0, active |-> config.maker]

(* An update may list new elements for recipes that are registered already;  *)
(* its manifest depends on the new recipes, and on the elements through them *)
(* only.                                                                     *)
ElementsReachManifest == config.newElements = {} \/ config.newRecipes # {}

(* In whatever order the two lanes are sent, no transaction is refused for    *)
(* one that is still outstanding; what the audit checkpoint recorded is the   *)
(* policy of the config; and a plan that was sent to its end verifies.        *)
PlanReachesItsConfig ==
    ElementsReachManifest =>
        /\ reverted = {}
        /\ checkpoint.version # 0 =>
               checkpoint = [status |-> config.postStatus, version |-> intendedPolicyVersion]
        /\ executed = Transactions => OnboardingReady
=============================================================================
