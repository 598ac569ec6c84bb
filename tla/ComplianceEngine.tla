--------------------------- MODULE ComplianceEngine ---------------------------
(***************************************************************************)
(* A trade of one regulated asset through ExecutionRouter, as               *)
(* ComplianceEngine sees it: evaluate decides under the manifest's          *)
(* bindings, the asset moves, and commit tells the stateful elements of the *)
(* bindings the trade relied on.  It is one transaction, so the trade is    *)
(* one step, with two views of the asset: before it moved and after.        *)
(***************************************************************************)
EXTENDS HolderCount, Sequences

CONSTANTS
    Manifests,      \* the compiled plans a run starts with: sequences of bindings
    Issuer,         \* the wallet that holds the supply at first, uncounted
    Supply,         \* of the asset
    MaxTrades       \* a bound on the trades

ASSUME EngineAssumption ==
    /\ Issuer \in Wallets /\ Supply \in Nat /\ MaxTrades \in Nat
    /\ \A m \in Manifests : \A i \in DOMAIN m :
            /\ m[i].priority \in Nat /\ m[i].priority < 256     \* uint8
            /\ m[i].recipe \in Nat /\ m[i].recipe < 65536       \* uint16

VARIABLES
    bindings,   \* recipeBindingsOf the asset, with the rules each compiles to
    held,       \* balanceOf the asset
    seen,       \* history: the asset moved in trades under a plan that counts
                \* them, and no wallet that holds it was bound or unbound
    lastTrade   \* history: what the last trade was allowed on, and who heard of it

assetVars == <<bindings, held>>
engineVars == <<counterVars, holderFactVars, bindings, held, seen, lastTrade>>

(* Whose facts the operators change: the issuer's wallet is no investor's. *)
Investors == Wallets \ {Issuer}

(* A binding is [mode, group, priority, recipe, rules]; a rule is [element,   *)
(* action].  Element "free" is the live regime of Erc3643NativeV2, which      *)
(* wants the sender's free balance to cover the amount; "count" is            *)
(* HolderCount; "attested" is a stateless one that an operator's record       *)
(* decides, which the transaction does not change.                            *)
Trades ==
    [from : Wallets, to : Wallets, amount : 0..Supply, buy : BOOLEAN, attested : BOOLEAN]

buyerOf(t) == IF t.buy THEN t.to ELSE t.from

(* _checkElementRule, on the balances h. *)
ElementPasses(e, t, h) ==
    \/ e = "free" /\ h[t.from] >= t.amount
    \/ e = "count" /\ CountAllows(buyerOf(t), t.amount)
    \/ e = "attested" /\ t.attested

(* _checkCompiledRules: the rules that block all pass. *)
RecipePasses(i, t, h) ==
    \A r \in DOMAIN bindings[i].rules :
        bindings[i].rules[r].action = "BLOCK" => ElementPasses(bindings[i].rules[r].element, t, h)

Of(mode) == {i \in DOMAIN bindings : bindings[i].mode = mode}
PathGroups == {bindings[i].group : i \in Of("PATH_OPTION")}

(* The options of a group that are applicable and pass. *)
Options(g, applicable, t, h) ==
    {i \in Of("PATH_OPTION") \cap applicable : bindings[i].group = g /\ RecipePasses(i, t, h)}

(* _evaluateBindings: the required ones that apply all pass, and each group   *)
(* has an option that does, a group none of whose options applies included.   *)
Allowed(applicable, t) ==
    /\ \A i \in Of("REQUIRED_BLOCKING") \cap applicable : RecipePasses(i, t, held)
    /\ \A g \in PathGroups : Options(g, applicable, t, held) # {}

(* _selectCommitPath: the highest priority, then the lowest recipe. *)
Preferred(i, j) ==
    \/ bindings[i].priority > bindings[j].priority
    \/ bindings[i].priority = bindings[j].priority /\ bindings[i].recipe <= bindings[j].recipe

Selected(applicable, t, h) ==
    UNION {LET options == Options(g, applicable, t, h) IN
             {i \in options : \A j \in options : Preferred(i, j)} : g \in PathGroups}

(* _appendCompiledElements: the bindings whose blocking elements hear of the  *)
(* trade.                                                                     *)
Committed(applicable, t, h) ==
    (Of("REQUIRED_BLOCKING") \cap applicable) \cup Selected(applicable, t, h)

BlockingElements(i) ==
    {bindings[i].rules[r].element :
        r \in {r \in DOMAIN bindings[i].rules : bindings[i].rules[r].action = "BLOCK"}}

(* _collectCommitElements and _seen: each element once. *)
Elements(is) == UNION {BlockingElements(i) : i \in is}

-----------------------------------------------------------------------------
(* No trade can be allowed under the plan without a binding that counts. *)
CountIsBinding(applicable) ==
    \/ \E i \in Of("REQUIRED_BLOCKING") \cap applicable : "count" \in BlockingElements(i)
    \/ \E g \in PathGroups : \A i \in Of("PATH_OPTION") :
            bindings[i].group = g => "count" \in BlockingElements(i)

(* ExecutionRouter.execute: evaluate, the adapter's transfer, commit.  A      *)
(* commit that reverts undoes the trade; there is nothing to see of it.       *)
ExecuteTrade(t, applicable) ==
    LET debited == [held EXCEPT ![t.from] = @ - t.amount]
        after == [debited EXCEPT ![t.to] = @ + t.amount]
        committed == Committed(applicable, t, after)
    IN
    /\ lastTrade.number < MaxTrades
    /\ t.amount <= held[t.from]
    /\ Allowed(applicable, t)
    /\ IF "count" \in Elements(committed) THEN OnTransfer(t.from, t.to, t.amount)
                                          ELSE UNCHANGED counterVars
    /\ held' = after
    /\ seen' = (seen /\ CountIsBinding(applicable))
    /\ lastTrade' = [number |-> lastTrade.number + 1,
                     groups |-> PathGroups,
                     heard |-> {bindings[i].group : i \in committed \cap Of("PATH_OPTION")}]
    /\ UNCHANGED <<holderFactVars, bindings>>

(* The asset moves without the router: commit hears nothing of it. *)
TransferOutside(from, to, amount) ==
    /\ lastTrade.number < MaxTrades
    /\ from # to /\ amount \in 1..held[from]
    /\ held' = [held EXCEPT ![from] = @ - amount, ![to] = @ + amount]
    /\ seen' = FALSE
    /\ lastTrade' = [lastTrade EXCEPT !.number = @ + 1]
    /\ UNCHANGED <<counterVars, holderFactVars, bindings>>

Operate ==
    /\ \/ \E m \in CapModes : SetCapMode(m)
       \/ \E b \in BOOLEAN : SetAssetGateMet(b)
       \/ \E w \in Investors : SetAccredited(w)
    /\ UNCHANGED <<assetVars, seen, lastTrade>>

Rebind(w) ==
    /\ (\E i \in Identities : BindIdentity(w, i)) \/ UnbindIdentity(w)
    /\ seen' = (seen /\ held[w] = 0)
    /\ UNCHANGED <<assetVars, lastTrade>>

EngineInit ==
    /\ HolderCountInit
    /\ bindings \in Manifests
    /\ held = [w \in Wallets |-> IF w = Issuer THEN Supply ELSE 0]
    /\ seen = TRUE
    /\ lastTrade = [number |-> 0, groups |-> {}, heard |-> {}]

EngineNext ==
    \/ \E t \in Trades, applicable \in SUBSET DOMAIN bindings : ExecuteTrade(t, applicable)
    \/ \E from \in Wallets, to \in Wallets, amount \in 1..Supply :
            TransferOutside(from, to, amount)
    \/ \E w \in Investors : Rebind(w)
    \/ Operate

EngineSpec == EngineInit /\ [][EngineNext]_engineVars

-----------------------------------------------------------------------------
(* A trade that adds a holder, or a non-accredited one, leaves the counts     *)
(* within the cap of the regime, whichever way the asset moved: the gate      *)
(* screens the buyer of the context, who in a sale is not the one that        *)
(* receives, so it is the commit that has to refuse.                          *)
CapsHold ==
    [][/\ holderCount' > holderCount =>
            /\ capMode = "TWELVE_G" /\ assetGateMet => holderCount' < CAP_12G_TOTAL
            /\ capMode = "THREE_C_1" => holderCount' <= CAP_3C1
            /\ capMode = "FIVE_06_B" => holderCount' <= CAP_506B
       /\ nonAiCount' > nonAiCount =>
            (capMode = "TWELVE_G" /\ assetGateMet => nonAiCount' < CAP_12G_NONAI)]_engineVars

(* While the asset moves in trades under a plan that counts, and identities   *)
(* are bound before a wallet holds it, the element has counted each holder:   *)
(* the balance of each person but the issuer is what its wallet holds.  A     *)
(* trade the element hears of twice, or not at all, would break it.           *)
MirrorsHoldings ==
    seen => \A p \in Persons \ {Issuer, Person(Issuer)} :
                balanceOfIdentity[p] =
                    IF \E w \in Wallets : Person(w) = p
                    THEN held[CHOOSE w \in Wallets : Person(w) = p] ELSE 0

(* So the counts the caps are about are those of the people who hold the      *)
(* asset, as the element entered them.                                        *)
HoldersAreCounted == CountersMatchBalances /\ MirrorsHoldings

(* Every path group the trade was allowed on is one whose elements heard of   *)
(* the trade: the two passes over the bindings, in evaluate and in commit,    *)
(* come to the same paths although the asset has moved in between.            *)
CommitCoversPaths == lastTrade.heard = lastTrade.groups
=============================================================================
