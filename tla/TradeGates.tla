------------------------------- MODULE TradeGates -------------------------------
(***************************************************************************)
(* All that a trade on chain passes, for TLC: the settlement of a quote      *)
(* behind pauses and signers, the compliance elements the engine asks, and   *)
(* the judging contracts and services of Operations.  Settlement knows the   *)
(* engine's answer as "permitted" and no element knows of quotes, so a       *)
(* behaviour is that of one of them, which "follows" names, while the        *)
(* others rest.                                                            *)
(***************************************************************************)
EXTENDS Settlement, Elements, Operations

VARIABLE follows

tradeGateVars == <<follows, settlementVars, elementVars, operationsVars>>

(* What is interchangeable until one is chosen. *)
Alike ==
    Interchangeable \cup Permutations(Routers) \cup Permutations(TakerNonces)
                    \cup Permutations(Policies)

TradeGatesInit ==
    /\ follows \in {"settlement", "elements", "operations"}
    /\ SettlementInit /\ ElementInit /\ OperationsInit
    /\ follows # "elements" => element = "Lockup"
    /\ follows # "operations" => side = "acquisitions"

TradeGatesNext ==
    /\ UNCHANGED follows
    /\ \/ follows = "settlement" /\ SettlementNext /\ UNCHANGED <<elementVars, operationsVars>>
       \/ follows = "elements" /\ ElementNext /\ UNCHANGED <<settlementVars, operationsVars>>
       \/ follows = "operations" /\ OperationsNext /\ UNCHANGED <<settlementVars, elementVars>>

TradeGatesSpec == TradeGatesInit /\ [][TradeGatesNext]_tradeGateVars
=============================================================================
