----------------------------- MODULE HolderCount -----------------------------
(***************************************************************************)
(* The stateful element HolderCount (D-01): how many persons hold one share *)
(* class, and the cap a new one may not breach.  A wallet counts as its     *)
(* identity in IdentityUniqueness, which binds one wallet to one identity,  *)
(* or as itself when it has none.                                           *)
(***************************************************************************)
EXTENDS Integers, FiniteSets

CONSTANTS
    Wallets, Identities,
    NoIdentity,     \* identityOf of a wallet that is not bound
    CAP_12G_TOTAL, CAP_12G_NONAI, CAP_3C1, CAP_506B,
    CapModes        \* the regimes governance sets

ASSUME HolderCountAssumption ==
    /\ IsFiniteSet(Wallets) /\ IsFiniteSet(Identities)
    /\ NoIdentity \notin Wallets \cup Identities
    /\ Wallets \cap Identities = {}
    /\ {CAP_12G_TOTAL, CAP_12G_NONAI, CAP_3C1, CAP_506B} \subseteq Nat \ {0}
    /\ CapModes \subseteq {"NONE", "TWELVE_G", "THREE_C_1", "FIVE_06_B"}

VARIABLES
    identityOf,          \* IdentityUniqueness: of a wallet
    accredited,          \* AccreditedInvestor: the wallets that are
    capMode, assetGateMet,
    holderCount, nonAiCount,
    balanceOfIdentity,   \* of an identity, or of a wallet that has none
    countedNonAi

counterVars == <<holderCount, nonAiCount, balanceOfIdentity, countedNonAi>>
holderFactVars == <<identityOf, accredited, capMode, assetGateMet>>

Persons == Wallets \cup Identities

(* _identity. *)
Person(w) == IF identityOf[w] = NoIdentity THEN w ELSE identityOf[w]

(* _capBreachCode(w) # 0: w cannot be one more holder. *)
CapBreached(w) ==
    \/ /\ capMode = "TWELVE_G" /\ assetGateMet
       /\ \/ holderCount + 1 >= CAP_12G_TOTAL
          \/ w \notin accredited /\ nonAiCount + 1 >= CAP_12G_NONAI
    \/ capMode = "THREE_C_1" /\ holderCount + 1 > CAP_3C1
    \/ capMode = "FIVE_06_B" /\ holderCount + 1 > CAP_506B

(* _check: the gate screens the buyer, whichever way the asset moves. *)
CountAllows(buyer, amount) ==
    \/ amount = 0
    \/ balanceOfIdentity[Person(buyer)] > 0
    \/ ~CapBreached(buyer)

Enters(to) == balanceOfIdentity[Person(to)] = 0

(* onTransfer reverts: the recipient is a new holder, and there is no room.   *)
(* Mutation: the cap is left to the gate.                                     *)
TrustsTheGate(to, amount) == FALSE
TransferReverts(to, amount) == amount > 0 /\ Enters(to) /\ CapBreached(to)

(* The balances after it: the debit is floored, and both sides may be one     *)
(* person.                                                                    *)
Moved(from, to, amount) ==
    LET debited == [balanceOfIdentity EXCEPT
                       ![Person(from)] = IF amount > @ THEN 0 ELSE @ - amount]
    IN  [debited EXCEPT ![Person(to)] = @ + amount]

(* The non-accredited among the counted, as of their entry: it is what an     *)
(* exit takes off nonAiCount.  Mutation: an exit asks accredited again.       *)
LiveNonAi(id) == \E w \in Wallets : Person(w) = id /\ w \notin accredited
WasNonAi(id) == id \in countedNonAi

(* onTransfer, of a transfer that does not revert. *)
OnTransfer(from, to, amount) ==
    LET enters == amount > 0 /\ Enters(to)
        entersNonAi == enters /\ to \notin accredited
        left == Moved(from, to, amount)
        exits == amount > 0 /\ balanceOfIdentity[Person(from)] > 0 /\ left[Person(from)] = 0
        exitsNonAi == exits /\ WasNonAi(Person(from))
        Count(b) == IF b THEN 1 ELSE 0
    IN
    /\ ~TransferReverts(to, amount)
    /\ balanceOfIdentity' = IF amount = 0 THEN balanceOfIdentity ELSE left
    /\ holderCount' = holderCount + Count(enters) - Count(exits)
    /\ nonAiCount' = nonAiCount + Count(entersNonAi) - Count(exitsNonAi)
    /\ countedNonAi' = (IF entersNonAi THEN countedNonAi \cup {Person(to)}
                        ELSE countedNonAi \ {p \in {Person(to)} : enters})
                         \ {p \in {Person(from)} : exits}

-----------------------------------------------------------------------------
(* The operators' writes. *)

SetCapMode(m) ==
    /\ capMode' = m
    /\ UNCHANGED <<counterVars, identityOf, accredited, assetGateMet>>

SetAssetGateMet(b) ==
    /\ assetGateMet' = b
    /\ UNCHANGED <<counterVars, identityOf, accredited, capMode>>

SetAccredited(w) ==
    /\ accredited' = IF w \in accredited THEN accredited \ {w} ELSE accredited \cup {w}
    /\ UNCHANGED <<counterVars, identityOf, capMode, assetGateMet>>

(* bindIdentity: one wallet for an identity, one identity for a wallet. *)
BindIdentity(w, i) ==
    /\ identityOf[w] = NoIdentity
    /\ \A v \in Wallets : identityOf[v] # i
    /\ identityOf' = [identityOf EXCEPT ![w] = i]
    /\ UNCHANGED <<counterVars, accredited, capMode, assetGateMet>>

UnbindIdentity(w) ==
    /\ identityOf[w] # NoIdentity
    /\ identityOf' = [identityOf EXCEPT ![w] = NoIdentity]
    /\ UNCHANGED <<counterVars, accredited, capMode, assetGateMet>>

HolderCountInit ==
    /\ identityOf = [w \in Wallets |-> NoIdentity]
    /\ accredited = {}
    /\ capMode \in CapModes /\ assetGateMet = TRUE
    /\ holderCount = 0 /\ nonAiCount = 0
    /\ balanceOfIdentity = [p \in Persons |-> 0]
    /\ countedNonAi = {}

-----------------------------------------------------------------------------
(* The counters are those of the balances: holderCount counts the persons     *)
(* whose balance is positive and nonAiCount those of them that entered as     *)
(* non-accredited, so neither drifts (or underflows, which would revert every *)
(* later exit) however identities are bound again, accreditation flips, and   *)
(* debits exceed what the element has seen a person buy.                      *)
CountersMatchBalances ==
    /\ holderCount = Cardinality({p \in Persons : balanceOfIdentity[p] > 0})
    /\ nonAiCount = Cardinality(countedNonAi)
    /\ \A p \in countedNonAi : balanceOfIdentity[p] > 0
=============================================================================
