---------------------------- MODULE OperatorCommands ----------------------------
(***************************************************************************)
(* The corner-store commands of services/cli that send transactions to one *)
(* deployed token, and CornerStoreFactory, which owns its registry and     *)
(* through which it is put to trade. Terminals share one account or not,   *)
(* and others with the operator's or the owner's key act beside them. A    *)
(* command of several transactions waits for each, and may be killed or    *)
(* refused at any of them. The node mines a block per transaction; it is   *)
(* not set back (snapshot, restore). What a trade needs besides is         *)
(* Settlement's and the elements'.                                         *)
(***************************************************************************)
EXTENDS Naturals, Sequences

CONSTANTS
    Consoles,      \* terminals a command runs in
    Engines,       \* AMM and RFQ among them
    ResumeDelay,   \* MIN_MANIFEST_DELAY, in blocks
    QuoteTtl,      \* --expiry, in blocks
    MaxBlocks, MaxQuotes  \* bounds

ASSUME CommandsAssumption ==
    /\ {"AMM", "RFQ"} \subseteq Engines
    /\ {ResumeDelay, QuoteTtl, MaxBlocks, MaxQuotes} \subseteq Nat

VARIABLES
    now,        \* the last block
    stack,      \* the contracts, after the last block
    console,    \* the transactions a command has yet to send, and what it read
    quoteFile   \* quote.json

commandVars == <<now, stack, console, quoteFile>>

-----------------------------------------------------------------------------
(* The contracts. A policy is whether its recipes demand the lockup element  *)
(* and the engines it supports.                                              *)
TokenPolicies == [lockup : BOOLEAN, engines : (SUBSET Engines) \ {{}}]
NoPolicy == [lockup |-> FALSE, engines |-> {}]

(* What investor-setup, in this order, and kyc leave of the investor.        *)
Attested == "attested"  \* jurisdiction, identity, accredited, qp, sanctions
Seasoned == "snapshot"
Funded == "funded"
KycDone == "kyc"

(* What DeployStack leaves: its own investor is all set, another is not.     *)
DeployStack(investor) ==
    [status |-> "NONE", policy |-> NoPolicy, next |-> NoPolicy, updateAt |-> 0,
     resumeAt |-> 0, primaryVenue |-> "none", makerApproved |-> TRUE, spentNonces |-> {},
     investor |-> investor, allowed |-> investor # {}]

IsLive(s) == s.status \in {"ACTIVE", "SUSPENDED"}

NoQuote == [nonce |-> 0, policyId |-> NoPolicy, expiry |-> 0]
AtRest == [steps |-> <<>>, policy |-> NoPolicy, quote |-> NoQuote]

(* The venue that is registered becomes the primary one.                     *)
Registered(s, policy, venueType) ==
    [s EXCEPT !.status = "ACTIVE", !.policy = policy, !.primaryVenue = venueType]

(* DemoScenarios has registered the token with a desk, or has not run.       *)
DemoScenarios(s) == Registered(s, [lockup |-> TRUE, engines |-> {"RFQ"}], "RFQ")

CommandsInit ==
    /\ now = 0
    /\ LET own == DeployStack({Attested, Seasoned, Funded, KycDone}) IN
       stack \in {own, DemoScenarios(own), DemoScenarios(DeployStack({}))}
    /\ console = [c \in Consoles |-> AtRest]
    /\ quoteFile = NoQuote

(* Mutation: an update is checked by the rules that are in force. *)
CurrentRules(s, pending) == s.policy
CompiledRules(s, pending) == IF pending THEN s.next ELSE s.policy

(* _assertVenuePolicyCompatibility: lockup rules hold for no pool.           *)
VenueFits(s, venueType, engines, pending) ==
    (venueType = "AMM" \/ "AMM" \in engines) => ~CompiledRules(s, pending).lockup

(* registerRWAToken and registerRWATokenWithConfig: propose and approve.     *)
registerRWAToken(s, policy, venueType) ==
    /\ ~IsLive(s)
    /\ VenueFits(Registered(s, policy, venueType), venueType, policy.engines, FALSE)

(* What is live was registered here, so it has a primary venue.              *)
Scheduled(s, policy) == [s EXCEPT !.next = policy, !.updateAt = now + 1 + ResumeDelay]
scheduleManifestUpdate(s, policy) ==
    /\ IsLive(s) /\ s.updateAt = 0 /\ policy # s.policy
    /\ VenueFits(Scheduled(s, policy), s.primaryVenue, policy.engines, TRUE)

(* Every transaction: when it is not refused, and what it leaves.            *)
Succeeds(kind, s, c) ==
    CASE kind = "suspend" -> s.status = "ACTIVE"
      [] kind = "retire" -> IsLive(s)
      [] kind = "register" -> registerRWAToken(s, c.policy, "RFQ")
      [] kind = "scheduleResume" -> s.status = "SUSPENDED" /\ s.resumeAt = 0
      [] kind = "cancelResume" -> s.resumeAt # 0
      [] kind = "resume" -> s.status = "SUSPENDED" /\ s.resumeAt \in 1..(now + 1)
      [] kind = "cancelUpdate" -> s.updateAt # 0
      [] kind = "activate" -> IsLive(s) /\ s.updateAt \in 1..(now + 1)
      [] kind = "execute" ->
            /\ s.status = "ACTIVE" /\ "RFQ" \in s.policy.engines
            /\ c.quote.policyId = s.policy /\ c.quote.nonce \notin s.spentNonces
            /\ now < c.quote.expiry /\ s.makerApproved /\ s.allowed
            /\ s.investor = {Attested, Seasoned, Funded, KycDone}
      [] kind = "swap" ->
            s.status = "ACTIVE" /\ "AMM" \in s.policy.engines /\ s.allowed
                /\ s.investor = {Attested, Seasoned, Funded, KycDone}
      [] kind = "cancelQuote" -> c.quote.nonce \notin s.spentNonces
      [] OTHER -> TRUE

Unscheduled(s) == [s EXCEPT !.next = NoPolicy, !.updateAt = 0]

Leaves(kind, s, c) ==
    CASE kind = "suspend" -> [s EXCEPT !.status = "SUSPENDED", !.resumeAt = 0]
      [] kind = "retire" -> [Unscheduled(s) EXCEPT !.status = "RETIRED", !.resumeAt = 0]
      [] kind = "register" -> Registered(s, c.policy, "RFQ")
      [] kind = "scheduleResume" -> [s EXCEPT !.resumeAt = now + 1 + ResumeDelay]
      [] kind = "cancelResume" -> [s EXCEPT !.resumeAt = 0]
      [] kind = "resume" -> [s EXCEPT !.status = "ACTIVE", !.resumeAt = 0]
      [] kind = "cancelUpdate" -> Unscheduled(s)
      [] kind = "activate" -> [Unscheduled(s) EXCEPT !.policy = s.next]
      [] kind \in {"execute", "cancelQuote"} ->
            [s EXCEPT !.spentNonces = @ \cup {c.quote.nonce}]
      [] kind = "revokeMaker" -> [s EXCEPT !.makerApproved = FALSE]
      [] kind = "approveMaker" -> [s EXCEPT !.makerApproved = TRUE]
      [] kind = "approve" -> [s EXCEPT !.allowed = TRUE]
      [] kind = "block" -> [s EXCEPT !.investor = @ \ {Attested}]
      [] kind \in {Attested, Seasoned, Funded, KycDone} ->
            [s EXCEPT !.investor = @ \cup {kind}]
      [] OTHER -> s

(* A transaction that is not refused, and its block.                         *)
Mine(s) ==
    /\ now < MaxBlocks
    /\ now' = now + 1
    /\ stack' = s

-----------------------------------------------------------------------------
(* Commands of one transaction, whoever sends it: manifest suspend and       *)
(* retire, attest, maker, faucet; and those of the owner that no command     *)
(* sends.                                                                    *)
SingleSends == {"suspend", "retire", "block", Attested, "approveMaker", "revokeMaker", Funded,
                "cancelResume", "cancelUpdate", "activate"}

SendOne(kind) ==
    /\ Succeeds(kind, stack, AtRest)
    /\ Mine(Leaves(kind, stack, AtRest))
    /\ UNCHANGED <<console, quoteFile>>

(* kyc: the script refuses a subject that has an identity.                   *)
Kyc ==
    /\ KycDone \notin stack.investor
    /\ Mine(Leaves(KycDone, stack, AtRest))
    /\ UNCHANGED <<console, quoteFile>>

(* rfq-cancel, by the maker.                                                 *)
CancelQuote ==
    /\ quoteFile # NoQuote
    /\ LET c == [AtRest EXCEPT !.quote = quoteFile] IN
       Succeeds("cancelQuote", stack, c) /\ Mine(Leaves("cancelQuote", stack, c))
    /\ UNCHANGED <<console, quoteFile>>

(* The factory, called by governance itself.                                 *)
RegisterDirectly(policy, venueType) ==
    /\ registerRWAToken(stack, policy, venueType)
    /\ Mine(Registered(stack, policy, venueType))
    /\ UNCHANGED <<console, quoteFile>>

ScheduleUpdate(policy) ==
    /\ scheduleManifestUpdate(stack, policy)
    /\ Mine(Scheduled(stack, policy))
    /\ UNCHANGED <<console, quoteFile>>

-----------------------------------------------------------------------------
Begin(c, steps, policy, quote) ==
    /\ console[c] = AtRest
    /\ console' = [console EXCEPT ![c] = [steps |-> steps, policy |-> policy, quote |-> quote]]
    /\ UNCHANGED <<now, stack, quoteFile>>

(* Both profiles lock up, so no pool; and they are sold by a desk.           *)
enginesMask == {m \in SUBSET Engines : "RFQ" \in m}
ProfileFits(mask) == "AMM" \notin mask

(* onboard, toolkit-onboard: what is live is retired first.                  *)
Onboard(c, mask) ==
    /\ ProfileFits(mask)
    /\ Begin(c, IF IsLive(stack) THEN <<"retire", "register">> ELSE <<"register">>,
             [lockup |-> TRUE, engines |-> mask], NoQuote)

(* manifest resume: it is scheduled, or waited for, or done.                 *)
Resume(c) ==
    \/ stack.resumeAt = 0 /\ Begin(c, <<"scheduleResume">>, NoPolicy, NoQuote)
    \/ stack.resumeAt \in 1..now /\ Begin(c, <<"resume">>, NoPolicy, NoQuote)

(* investor-setup: the funds come last.                                      *)
InvestorSetup(c) == Begin(c, <<Attested, Seasoned, Funded>>, NoPolicy, NoQuote)

(* buy and sell: the allowance is given where it is missing.                 *)
Approving(kind) == IF stack.allowed THEN <<kind>> ELSE <<"approve", kind>>

BuyQuoted(c) == quoteFile # NoQuote /\ Begin(c, Approving("execute"), NoPolicy, quoteFile)
BuyOrSellPool(c) == Begin(c, Approving("swap"), NoPolicy, NoQuote)

(* rfq-quote: bound to the policy of the moment, whose id has no version;    *)
(* what is in the file before is replaced. A quote of a backend has to be    *)
(* for this taker and amount, this token and desk, and of the maker's        *)
(* signature.                                                                *)
SignQuote(policyId, expiry) ==
    [nonce |-> quoteFile.nonce + 1, policyId |-> policyId, expiry |-> expiry]

RfqQuote ==
    /\ quoteFile.nonce < MaxQuotes
    /\ quoteFile' = SignQuote(stack.policy, now + QuoteTtl)
    /\ UNCHANGED <<now, stack, console>>

Step(c) ==
    LET job == console[c] kind == Head(job.steps) IN
    /\ job # AtRest
    /\ \/ /\ Succeeds(kind, stack, job)
          /\ Mine(Leaves(kind, stack, job))
          /\ console' = [console EXCEPT ![c] =
                 IF Len(job.steps) = 1 THEN AtRest ELSE [job EXCEPT !.steps = Tail(@)]]
       \/ /\ ~Succeeds(kind, stack, job)
          /\ console' = [console EXCEPT ![c] = AtRest]
          /\ UNCHANGED <<now, stack>>
    /\ UNCHANGED quoteFile

Interrupt(c) ==
    /\ console[c] # AtRest
    /\ console' = [console EXCEPT ![c] = AtRest]
    /\ UNCHANGED <<now, stack, quoteFile>>


CommandsNext ==
    \/ \E kind \in SingleSends : SendOne(kind)
    \/ Kyc \/ CancelQuote \/ RfqQuote
    \/ \E policy \in TokenPolicies :
          \/ \E venueType \in {"AMM", "RFQ"} : RegisterDirectly(policy, venueType)
          \/ ScheduleUpdate(policy)
    \/ \E c \in Consoles :
          \/ \E mask \in enginesMask : Onboard(c, mask)
          \/ Resume(c) \/ InvestorSetup(c) \/ BuyQuoted(c) \/ BuyOrSellPool(c)
          \/ Step(c) \/ Interrupt(c)

CommandsSpec == CommandsInit /\ [][CommandsNext]_commandVars

-----------------------------------------------------------------------------
(* Whoever registers, updates and activates through the factory, and whatever *)
(* is pending meanwhile, a policy with the lockup element never supports the  *)
(* pool's engine: a waiting update is judged by its own rules.                *)
LockupStaysOffPools ==
    IsLive(stack) /\ stack.policy.lockup => "AMM" \notin stack.policy.engines
=============================================================================
