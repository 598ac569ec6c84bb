------------------------------ MODULE PolicyCompiler ------------------------------
(***************************************************************************)
(* A manifest's bindings, enforcement overrides and element parameters are *)
(* compiled twice: by the toolkit, whose commitment the reviewers of a     *)
(* policy audit artifact and the verification of an onboarding compare     *)
(* with, and by TokenPolicyRegistry, whose plan the engine enforces. The   *)
(* two share no code, and refuse different things at different places.     *)
(*                                                                         *)
(* Hashes are what they commit to. Limits on lengths, and the modes and    *)
(* path groups of bindings, which both sides check alike, are left out.    *)
(***************************************************************************)
EXTENDS Naturals, Sequences, FiniteSetsExt

CONSTANTS
    RecipeVersions,  \* <<recipe id, version>> of the implementations
    Plain,    \* an element of any default action that takes no parameters
    Tuned,    \* a blocking element that may take or require parameters
    NoDraft   \* nothing written, exported or compiled yet

VARIABLES
    draft,      \* the onboarding config, and what its implementations require
    commitment, \* compilePlanCommitment of the plan that was exported
    compiled    \* what the registry made of it

compilerVars == <<draft, commitment, compiled>>

Elements == {Plain, Tuned}
Required == {<<Plain>>, <<Tuned>>, <<Plain, Tuned>>}
Actions == {"FLAG_ONLY", "OPERATOR_REVIEW", "BLOCK"}
OverrideModes == {"USE_ELEMENT_DEFAULT", "ESCALATE_TO_OPERATOR_REVIEW", "ESCALATE_TO_BLOCK",
                  "FORCE_FLAG_ONLY"}

RecipeIds == {rv[1] : rv \in RecipeVersions}

(* The config's lists: an override or a parameter is for a binding's place    *)
(* and an element of its recipe, its key.                                     *)
Key(item) == <<item.bindingIndex, item.elementId>>
BindingOf(rv) == [recipeId |-> rv[1], recipeVersion |-> rv[2]]
BindingLists == {<<BindingOf(b)>> : b \in RecipeVersions}
    \cup {<<BindingOf(b), BindingOf(c)>> : b, c \in RecipeVersions}
Places == 1..3  \* one more than a list of bindings has
Overrides == [bindingIndex: Places, elementId: Elements, mode: OverrideModes]
OverrideLists == {<<>>} \cup {<<o>> : o \in Overrides}
    \cup {<<o, [o EXCEPT !.mode = mode]>> : o \in Overrides, mode \in OverrideModes}
Parameters == [bindingIndex: Places, elementId: Elements, parameters: {"fits", "misfits"}]
ParameterLists == {<<>>} \cup {<<p>> : p \in Parameters}
    \cup {<<p, q>> : p, q \in {r \in Parameters : r.bindingIndex # 3}}

(* version: of each recipe, the one the config lists; requires: what the      *)
(* implementations require.                                                   *)
DraftsOf(defaults, takes, overrides, parameters) ==
    [default: defaults, takes: takes, requires: [RecipeVersions -> Required],
     version: {v \in [RecipeIds -> {rv[2] : rv \in RecipeVersions}] :
                   \A r \in RecipeIds : <<r, v[r]>> \in RecipeVersions},
     bindings: BindingLists, overrides: overrides, elementParameters: parameters]

(* Overrides and parameters meet in neither compiler: a draft has one kind.   *)
Drafts == DraftsOf(Actions, {"optional"}, OverrideLists, {<<>>})
    \cup DraftsOf({"BLOCK"}, {"none", "optional", "required"}, {<<>>}, ParameterLists)

Members(s) == {s[i] : i \in DOMAIN s}
Distinct(s) == \A i, j \in DOMAIN s : i # j => s[i] # s[j]
Keys(s) == [i \in DOMAIN s |-> Key(s[i])]
At(s, i, e) == {j \in DOMAIN s : Key(s[j]) = <<i, e>>}
default(e) == IF e = Plain THEN draft.default ELSE "BLOCK"
takes(e) == IF e = Plain THEN "none" ELSE draft.takes

-----------------------------------------------------------------------------
(* services/toolkit: validation, the audit's cross-check, the commitment.     *)
recipeOf(binding) == <<binding.recipeId, draft.version[binding.recipeId]>>
requiredElements(binding) == draft.requires[recipeOf(binding)]

compileAction(action, mode) ==
    CASE mode = "USE_ELEMENT_DEFAULT" -> action
      [] mode = "ESCALATE_TO_BLOCK" -> "BLOCK"
      [] mode = "ESCALATE_TO_OPERATOR_REVIEW" ->
            IF action = "BLOCK" THEN "throws" ELSE "OPERATOR_REVIEW"
      [] mode = "FORCE_FLAG_ONLY" -> IF action # "FLAG_ONLY" THEN "throws" ELSE "FLAG_ONLY"

InPlace(item) ==
    /\ item.bindingIndex <= Len(draft.bindings)
    /\ item.elementId \in Members(requiredElements(draft.bindings[item.bindingIndex]))

validateOverrides ==
    /\ Distinct(Keys(draft.overrides))
    /\ \A o \in Members(draft.overrides) :
           InPlace(o) /\ compileAction(default(o.elementId), o.mode) # "throws"

validatePolicyConfig ==
    /\ Distinct(Keys(draft.elementParameters))
    /\ \A p \in Members(draft.elementParameters) :
           InPlace(p) /\ takes(p.elementId) # "none" /\ p.parameters = "fits"
    /\ \A i \in DOMAIN draft.bindings, e \in Elements :
           e \in Members(requiredElements(draft.bindings[i])) /\ takes(e) = "required" =>
               At(draft.elementParameters, i, e) # {}

(* A binding resolves to an audited recipe of its own version; the audited    *)
(* recipes are the config's.                                                  *)
(* Mutation: it resolves by its id. *)
ResolvesById(binding) == TRUE
Resolves(binding) == binding.recipeVersion = draft.version[binding.recipeId]

Exportable ==
    /\ Distinct([i \in DOMAIN draft.bindings |-> draft.bindings[i].recipeId])
    /\ validateOverrides /\ validatePolicyConfig
    /\ \A b \in Members(draft.bindings) : Resolves(b)

(* Of the entries with one key, a map keeps the last. *)
compilePlanCommitment ==
    [i \in DOMAIN draft.bindings |->
        LET required == requiredElements(draft.bindings[i])
            override(e) == At(draft.overrides, i, e)
            parameter(e) == At(draft.elementParameters, i, e)
        IN [binding |-> draft.bindings[i],
            rules |-> [r \in DOMAIN required |->
                <<required[r],
                  IF override(required[r]) = {} THEN default(required[r])
                  ELSE compileAction(default(required[r]),
                           draft.overrides[Max(override(required[r]))].mode)>>],
            parameters |-> [r \in DOMAIN required |->
                IF parameter(required[r]) = {} THEN "0x"
                ELSE draft.elementParameters[Max(parameter(required[r]))].parameters]]]

Write ==
    /\ draft = NoDraft
    /\ draft' \in Drafts
    /\ UNCHANGED <<commitment, compiled>>

Export ==
    /\ draft # NoDraft /\ commitment = NoDraft
    /\ Exportable
    /\ commitment' = compilePlanCommitment
    /\ UNCHANGED <<draft, compiled>>

-----------------------------------------------------------------------------
(* TokenPolicyRegistry.                                                       *)
_validateBindings == Distinct([i \in DOMAIN draft.bindings |-> draft.bindings[i].recipeId])

_validatePolicyConfig ==
    /\ \A p \in Members(draft.elementParameters) : p.bindingIndex <= Len(draft.bindings)
    /\ Distinct(Keys(draft.elementParameters))

_recipeElements(i) ==
    draft.requires[<<draft.bindings[i].recipeId, draft.bindings[i].recipeVersion>>]

(* The first entry with the key decides. *)
_compiledAction(i, e) ==
    LET mine == At(draft.overrides, i, e)
        mode == IF mine = {} THEN "USE_ELEMENT_DEFAULT" ELSE draft.overrides[Min(mine)].mode
        loosened ==
            \/ mode = "ESCALATE_TO_OPERATOR_REVIEW" /\ default(e) = "BLOCK"
            \/ mode = "FORCE_FLAG_ONLY" /\ default(e) # "FLAG_ONLY"
    IN IF loosened THEN "reverts"
       ELSE IF mode = "ESCALATE_TO_BLOCK" THEN "BLOCK"
       ELSE IF mode = "ESCALATE_TO_OPERATOR_REVIEW" THEN "OPERATOR_REVIEW"
       ELSE default(e)

_parameterFor(i, e) ==
    LET mine == At(draft.elementParameters, i, e)
        first == draft.elementParameters[Min(mine)]
    IN IF mine = {} THEN IF takes(e) = "required" THEN "reverts" ELSE "0x"
       ELSE IF takes(e) = "none" \/ first.parameters = "misfits" THEN "reverts"
       ELSE first.parameters

(* _rejectUnusedOrDuplicateOverrides, _rejectUnknownParameters. *)
_accepted(i) ==
    LET required == Members(_recipeElements(i))
        here(s) == {j \in DOMAIN s : s[j].bindingIndex = i}
    IN /\ \A j, k \in here(draft.overrides) :
              j # k => draft.overrides[j].elementId # draft.overrides[k].elementId
       /\ \A j \in here(draft.overrides) : draft.overrides[j].elementId \in required
       /\ \A j \in here(draft.elementParameters) :
              draft.elementParameters[j].elementId \in required
       /\ \A e \in required : "reverts" \notin {_compiledAction(i, e), _parameterFor(i, e)}

_compileInto ==
    [i \in DOMAIN draft.bindings |->
        LET required == _recipeElements(i)
        IN [binding |-> draft.bindings[i],
            rules |-> [r \in DOMAIN required |-> <<required[r], _compiledAction(i, required[r])>>],
            parameters |-> [r \in DOMAIN required |-> _parameterFor(i, required[r])]]]

(* registered: the versions in RecipeRegistry when the exported transactions  *)
(* are sent, which are at least those the config lists.                       *)
Listed == {<<r, draft.version[r]>> : r \in RecipeIds}

Compile(registered) ==
    /\ commitment # NoDraft /\ compiled = NoDraft
    /\ Listed \subseteq registered
    /\ compiled' =
          IF /\ _validateBindings /\ _validatePolicyConfig
             /\ \A b \in Members(draft.bindings) : <<b.recipeId, b.recipeVersion>> \in registered
             /\ \A i \in DOMAIN draft.bindings : _accepted(i)
             /\ \A o \in Members(draft.overrides) : o.bindingIndex <= Len(draft.bindings)
          THEN _compileInto ELSE <<>>
    /\ UNCHANGED <<draft, commitment>>

CompilerInit == draft = NoDraft /\ commitment = NoDraft /\ compiled = NoDraft

CompilerNext ==
    \/ Write
    \/ Export
    \/ \E registered \in SUBSET RecipeVersions : Compile(registered)

CompilerSpec == CompilerInit /\ [][CompilerNext]_compilerVars

-----------------------------------------------------------------------------
(* What the reviewers and the verification compare with is what the engine    *)
(* enforces: the registry takes every plan the toolkit exports and compiles   *)
(* from it what the toolkit committed to, although versions of its recipes    *)
(* that the config does not list are registered as well.                      *)
CommitmentIsCompiled == compiled # NoDraft => compiled = commitment
=============================================================================
