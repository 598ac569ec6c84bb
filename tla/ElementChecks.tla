----------------------------- MODULE ElementChecks ------------------------------
(***************************************************************************)
(* What every compliance element has: an ordered list of refusals, of which *)
(* the first that applies is the reason code (0 when none does), claims      *)
(* with a standing and an age, and the direction in which a trade moves the  *)
(* regulated asset.                                                         *)
(***************************************************************************)
EXTENDS Naturals, Sequences, FiniteSetsExt

CONSTANTS
    LastTimestamp,      \* the greatest timestamp a uint64 holds
    ElementMaxTime      \* the last moment considered

ASSUME ElementTimes == /\ LastTimestamp \in Nat
                       /\ ElementMaxTime \in 1..LastTimestamp

(* A checked sum that overflows reverts the trade: no code of an element. *)
REVERT == 99

(* BaseElement.check: invalid parameters have a code of their own. *)
BAD_PARAMETERS == 98

Refuse(condition, code) == [if |-> condition, code |-> code]

FirstRefusal(rules) ==
    LET hit == {k \in DOMAIN rules : rules[k].if}
    IN  IF hit = {} THEN 0 ELSE rules[Min(hit)].code

(* Records that differ from a good one in one field. *)
Flawed(good, flaws) == {[good EXCEPT ![d[1]] = d[2]] : d \in flaws}

(* 0 stands for no expiry. *)
Lapsed(expiry, now) == expiry # 0 /\ now > expiry

(* Mutation: the age of what is dated in the future wraps around. *)
TooOldWrapped(since, maxAge, now) ==
    (now + LastTimestamp + 1 - since) % (LastTimestamp + 1) > maxAge

(* The age of what is dated in the future is 0. *)
TooOld(since, maxAge, now) == now > since /\ now - since > maxAge

LookThroughStatus == {"NONE", "PENDING", "COMPLETED", "FAILED"}

-----------------------------------------------------------------------------
(* A trade of the regulated asset between two screened parties: a taker buys *)
(* it as tokenOut or sells it as tokenIn, and is the "user" either way.      *)

Parties == {"buyer", "seller"}

Trade(side, flow, venue, affiliate, initiator, amount) ==
    [ side |-> side, flow |-> flow, venue |-> venue, affiliate |-> affiliate,
      initiator |-> initiator, amount |-> amount ]

PlainTrade == Trade("OUT", "SECONDARY_TRADE", "AMM", FALSE, "buyer", 1)

Flows == {"SECONDARY_TRADE", "PRIMARY_DISTRIBUTION", "REDEMPTION"}

(* AssetFlow.resolve: tokenOut moves from the seller, tokenIn from the buyer. *)
Sender(t) == IF t.side = "OUT" THEN "seller" ELSE "buyer"
Recipient(t) == IF t.side = "OUT" THEN "buyer" ELSE "seller"

(* BaseElement._parametersValid, by length in words: an element without a    *)
(* schema takes none.                                                       *)
ParametersValid(schema, required, words, most) ==
    IF ~schema THEN words = 0
    ELSE /\ required => words # 0
         /\ words <= most
=============================================================================
