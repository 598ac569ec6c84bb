------------------------------- MODULE DemoDesk -------------------------------
(***************************************************************************)
(* services/rfq-demo-backend, settlement.ts: the desk that shows trades    *)
(* and refused trades against one local deployment. Every operation is a   *)
(* chain of calls to the node, any of which may fail; enqueue runs them    *)
(* one after the other, so that the balances an operation reads before and *)
(* after its transaction are evidence of that transaction.                 *)
(*                                                                         *)
(* One wallet, one maker, trades of one unit in one direction; the wallet  *)
(* is eligible while its claim is "valid" or, until it ages, "aging".      *)
(***************************************************************************)
EXTENDS Naturals, Sequences, FiniteSets

CONSTANTS
    DeskActions,  \* operations that may be queued together
    NoReading,    \* undefined
    MaxDesk       \* bound of the operations

ASSUME DeskAssumption == MaxDesk \in Nat

VARIABLES
    makerOn,  \* approvedMaker
    claim,    \* of the wallet, as the engine sees it
    moved,    \* trades settled on chain
    price,    \* fills the pricing has recorded since its reset
    actionQueue, \* the promises that have not settled, oldest first
    desk,     \* what each operation has got to
    evidenced,  \* observation: what was returned for each trade
    queued

deskVars == <<makerOn, claim, moved, price, actionQueue, desk, evidenced, queued>>
deskChain == <<makerOn, claim, moved>>

Trades == {"settle", "revoked-maker", "compliance-proof"}
Operations == Trades \cup {"prepare", "approve", "revoke", "grant", "withdraw",
                           "temporal", "advance", "adapter-boundary"}
NoAction == [kind |-> NoReading, stage |-> "none", before |-> NoReading,
             verified |-> NoReading, mined |-> NoReading]

DeskInit ==
    /\ makerOn \in BOOLEAN /\ claim \in {"valid", "lapsed"}
    /\ moved = 0 /\ price = 0
    /\ actionQueue = <<>>
    /\ desk = [a \in DeskActions |-> NoAction]
    /\ evidenced = {} /\ queued = 0

-----------------------------------------------------------------------------
(* Mutation: an operation starts at once. *)
AtOnce(a) == TRUE
Turn(a) == Head(actionQueue) = a

InTurn(a, stage) == desk[a].stage = stage /\ Turn(a)
Proceed(a, stage) == desk' = [desk EXCEPT ![a].stage = stage]

(* The promise settles and the one behind it runs, whatever the outcome: the *)
(* queue continues with the same function after a rejection.                 *)
SettlePromise(a) ==
    /\ actionQueue' = Tail(actionQueue)
    /\ desk' = [desk EXCEPT ![a] = NoAction]

Enqueue(a, kind) ==
    /\ desk[a] = NoAction /\ queued < MaxDesk
    /\ actionQueue' = Append(actionQueue, a)
    /\ desk' = [desk EXCEPT ![a] = [NoAction EXCEPT !.kind = kind, !.stage = "start"]]
    /\ queued' = queued + 1
    /\ UNCHANGED <<deskChain, price, evidenced>>

(* A call to the node throws, or a check of the operation does.              *)
OperationFails(a) ==
    /\ desk[a].stage # "none" /\ Turn(a)
    /\ SettlePromise(a)
    /\ UNCHANGED <<deskChain, price, evidenced, queued>>

(* The operations that are one transaction of the operator or of the node;   *)
(* the state that is read for the answer may fail after it.                  *)
Administer(a) ==
    /\ InTurn(a, "start")
    /\ \/ desk[a].kind = "approve" /\ makerOn' = TRUE /\ UNCHANGED claim
       \/ desk[a].kind = "revoke" /\ makerOn' = FALSE /\ UNCHANGED claim
       \/ desk[a].kind = "grant" /\ claim' = "valid" /\ UNCHANGED makerOn
       \/ desk[a].kind = "withdraw" /\ claim' = "lapsed" /\ UNCHANGED makerOn
       \/ desk[a].kind = "temporal" /\ claim' = "aging" /\ UNCHANGED makerOn
       \/ /\ desk[a].kind = "advance" /\ UNCHANGED makerOn
          /\ claim' = IF claim = "aging" THEN "lapsed" ELSE claim
    /\ SettlePromise(a)
    /\ UNCHANGED <<moved, price, evidenced, queued>>

(* prepare: the maker, the price, then the wallets.                          *)
Prepare(a) ==
    \/ /\ InTurn(a, "start") /\ desk[a].kind = "prepare"
       /\ makerOn' = TRUE /\ price' = 0
       /\ Proceed(a, "wallets")
       /\ UNCHANGED <<claim, moved, actionQueue, evidenced, queued>>
    \/ /\ InTurn(a, "wallets")
       /\ claim' = "valid"
       /\ SettlePromise(a)
       /\ UNCHANGED <<makerOn, moved, price, evidenced, queued>>

-----------------------------------------------------------------------------
(* What ExecutionRouter.execute does with the request: compliance is first.  *)
RouterVerdict ==
    IF claim = "lapsed" THEN "ComplianceRejected"
    ELSE IF ~makerOn THEN "RFQMakerNotApproved" ELSE "settled"

(* validateQuote has passed; a "revoked-maker" trade revokes the maker.      *)
StartTrade(a) ==
    /\ InTurn(a, "start") /\ desk[a].kind \in Trades \cup {"adapter-boundary"}
    /\ makerOn' = IF desk[a].kind = "revoked-maker" THEN FALSE ELSE makerOn
    /\ Proceed(a, "reading")
    /\ UNCHANGED <<claim, moved, price, actionQueue, evidenced, queued>>

ReadBefore(a) ==
    /\ InTurn(a, "reading")
    /\ desk' = [desk EXCEPT ![a].before = moved,
           ![a].stage = IF desk[a].kind = "settle" THEN "sending" ELSE "simulating"]
    /\ UNCHANGED <<deskChain, price, actionQueue, evidenced, queued>>

(* The revert a refused operation must show. *)
Expected(kind) ==
    CASE kind = "revoked-maker" -> "RFQMakerNotApproved"
      [] kind = "compliance-proof" -> "ComplianceRejected"
      [] kind = "adapter-boundary" -> "NotAuthorized"
Reverts(a) == IF desk[a].kind = "adapter-boundary" THEN "NotAuthorized" ELSE RouterVerdict

Simulate(a) ==
    /\ InTurn(a, "simulating")
    /\ Reverts(a) = Expected(desk[a].kind)
    /\ desk' = [desk EXCEPT ![a].stage = "sending", ![a].verified = Reverts(a)]
    /\ UNCHANGED <<deskChain, price, actionQueue, evidenced, queued>>

Mined(a) ==
    /\ InTurn(a, "sending")
    /\ desk' = [desk EXCEPT ![a].stage = "mined", ![a].mined = Reverts(a)]
    /\ moved' = IF Reverts(a) = "settled" THEN moved + 1 ELSE moved
    /\ UNCHANGED <<makerOn, claim, price, actionQueue, evidenced, queued>>

(* The balances after it, the fill and the result of a trade.                *)
ReturnSettled(a) ==
    /\ InTurn(a, "mined") /\ desk[a].mined = "settled"
    /\ price' = price + 1
    /\ evidenced' = evidenced \cup
           {[kind |-> desk[a].kind, delta |-> moved - desk[a].before, shown |-> "settled"]}
    /\ SettlePromise(a)
    /\ UNCHANGED <<deskChain, queued>>

(* precheck, of a compliance proof only, must refuse as well.                *)
Refused(a) ==
    /\ desk[a].kind # "settle"
    /\ desk[a].verified = Expected(desk[a].kind)
    /\ desk[a].kind = "compliance-proof" => RouterVerdict # "settled"
    /\ desk[a].kind = "adapter-boundary" => moved = desk[a].before

ReturnRefused(a) ==
    /\ InTurn(a, "mined") /\ desk[a].mined # "settled"
    /\ Refused(a)
    /\ evidenced' = evidenced \cup
           {[kind |-> desk[a].kind, delta |-> moved - desk[a].before, shown |-> Expected(desk[a].kind)]}
    /\ SettlePromise(a)
    /\ UNCHANGED <<deskChain, price, queued>>

(* The chain's clock. *)
ClaimAges ==
    /\ claim = "aging" /\ claim' = "lapsed"
    /\ UNCHANGED <<makerOn, moved, price, actionQueue, desk, evidenced, queued>>

Operate(a) ==
    \/ OperationFails(a) \/ Administer(a) \/ Prepare(a)
    \/ StartTrade(a) \/ ReadBefore(a) \/ Simulate(a) \/ Mined(a)
    \/ ReturnSettled(a) \/ ReturnRefused(a)

DeskNext ==
    \/ \E a \in DeskActions, kind \in Operations : Enqueue(a, kind)
    \/ \E a \in DeskActions : Operate(a)
    \/ ClaimAges

DeskSpec == DeskInit /\ [][DeskNext]_deskVars

-----------------------------------------------------------------------------
(* The balances shown with a settled trade are what this trade moved, and     *)
(* those of a refused one did not change, whichever operations other clients  *)
(* send meanwhile and whichever of them fail half-way.                        *)
EvidenceIsHonest ==
    \A e \in evidenced : e.delta = IF e.shown = "settled" THEN 1 ELSE 0
=============================================================================
