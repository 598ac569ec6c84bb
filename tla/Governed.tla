------------------------------ MODULE Governed ------------------------------
(* The roles of every governed contract: one owner, and operators it names. *)
EXTENDS Integers, Sequences

CONSTANTS Accounts, NoAccount

ASSUME GovernedAssumption == NoAccount \notin Accounts

VARIABLES
    owner,      \* Ownable's owner, or NoAccount once it is renounced
    isOperator, \* the accounts the owner has enabled
    time        \* block.timestamp

roleVars == <<owner, isOperator>>

RoleTypes == owner \in Accounts \cup {NoAccount} /\ isOperator \subseteq Accounts

RoleInit == owner \in Accounts /\ isOperator = {}

OnlyOwner(sender) == sender = owner
OnlyOperator(sender) == sender \in isOperator \cup {owner}

SetOperator(sender, op, enabled) ==
    /\ OnlyOwner(sender)
    /\ isOperator' = IF enabled THEN isOperator \cup {op} ELSE isOperator \ {op}
    /\ UNCHANGED owner

(* transferOwnership and renounceOwnership. *)
TransferOwnership(sender, new) ==
    /\ OnlyOwner(sender)
    /\ owner' = new
    /\ UNCHANGED isOperator

RoleStep(sender) ==
    \/ \E op \in Accounts, enabled \in BOOLEAN : SetOperator(sender, op, enabled)
    \/ \E new \in Accounts \cup {NoAccount} : TransferOwnership(sender, new)
=============================================================================
