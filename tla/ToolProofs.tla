------------------------------ MODULE ToolProofs ------------------------------
(***************************************************************************)
(* The tools that owners and operators work with, for any files, terminals, *)
(* inputs and timing: an inductive invariant for each, and what it keeps.  *)
(***************************************************************************)
EXTENDS OperatorCommands, PolicyAudit, OperatorRuntime, ProductionRelease, DeploymentStudio,
        Onboarding, TLAPS

(* The commands for one token.  Only the factory judges whether a policy fits *)
(* the venues, when it is registered or scheduled; so the invariant speaks of *)
(* the policy that is live and of the one that waits.                        *)

Policy == TokenPolicies \cup {NoPolicy}
AllQuotes == [nonce: Nat, policyId: Policy, expiry: Nat]
Kinds == SingleSends \cup {"register", "scheduleResume", "resume", "execute", "swap",
                           "cancelQuote", "approve", Attested, Seasoned, Funded, KycDone}
Statuses == {"NONE", "ACTIVE", "SUSPENDED", "RETIRED"}
VenueTypes == {"none", "AMM", "RFQ"}
NonceSets == SUBSET Nat
Facts == SUBSET {Attested, Seasoned, Funded, KycDone}
Stacks == [status: Statuses, policy: Policy, next: Policy,
           updateAt: Nat, resumeAt: Nat, primaryVenue: VenueTypes,
           makerApproved: BOOLEAN, spentNonces: NonceSets, investor: Facts, allowed: BOOLEAN]

AnyJob == [steps: Seq(Kinds), policy: Policy, quote: AllQuotes]
Jobs == {AtRest} \cup [steps: Seq(Kinds) \ {<<>>}, policy: Policy, quote: AllQuotes]

CommandTypes ==
    /\ now \in Nat
    /\ stack \in Stacks
    /\ console \in [Consoles -> Jobs]
    /\ quoteFile \in AllQuotes

(* Rules with the lockup element leave the pool's engine out.                *)
OffPools(rules) == rules.lockup => "AMM" \notin rules.engines

(* What waits for its activation was judged as what it will be.              *)
CommandInv ==
    /\ CommandTypes
    /\ IsLive(stack) => OffPools(stack.policy)
    /\ stack.updateAt # 0 => OffPools(stack.next)

(* A registration that is mined leaves a policy without pools for a token   *)
(* with a lockup.                                                           *)
LEMMA Registering ==
  ASSUME NEW rules \in Policy, NEW venueType \in {"AMM", "RFQ"},
         CommandInv, registerRWAToken(stack, rules, venueType)
  PROVE  /\ Registered(stack, rules, venueType) \in Stacks
         /\ Registered(stack, rules, venueType).policy = rules
         /\ Registered(stack, rules, venueType).next = stack.next
         /\ Registered(stack, rules, venueType).updateAt = stack.updateAt
         /\ OffPools(rules)
<1>1. /\ Registered(stack, rules, venueType) \in Stacks
      /\ Registered(stack, rules, venueType).policy = rules
      /\ Registered(stack, rules, venueType).next = stack.next
      /\ Registered(stack, rules, venueType).updateAt = stack.updateAt
  BY DEF CommandInv, CommandTypes, Stacks, Registered, Statuses, VenueTypes
<1>2. OffPools(rules)
  BY <1>1 DEF registerRWAToken, VenueFits, CompiledRules, OffPools
<1> QED BY <1>1, <1>2

(* A transaction that is not refused, of whatever command.                   *)
LEMMA EveryTransaction ==
  ASSUME NEW kind \in Kinds,
         NEW c \in AnyJob,
         CommandInv, Succeeds(kind, stack, c),
         ResumeDelay \in Nat
  PROVE  LET s == Leaves(kind, stack, c) IN
         /\ s \in Stacks
         /\ IsLive(s) => OffPools(s.policy)
         /\ s.updateAt # 0 => OffPools(s.next)
<1> DEFINE s == Leaves(kind, stack, c)
<1>0. NoPolicy \in Policy /\ now \in Nat /\ stack \in Stacks /\ now + 1 + ResumeDelay \in Nat
  BY DEF Policy, CommandInv, CommandTypes
<1>s. {"NONE", "ACTIVE", "SUSPENDED", "RETIRED"} \subseteq Statuses
  BY DEF Statuses
<1>1. CASE kind = "register"
  <2>1. s = Registered(stack, c.policy, "RFQ") /\ registerRWAToken(stack, c.policy, "RFQ")
    BY <1>1 DEF Leaves, Succeeds, Attested, Seasoned, Funded, KycDone
  <2>2. c.policy \in Policy
    BY DEF AnyJob
  <2> QED BY <2>1, <2>2, Registering DEF CommandInv
<1>2. CASE kind = "suspend"
  <2>1. s = [stack EXCEPT !.status = "SUSPENDED", !.resumeAt = 0] /\ stack.status = "ACTIVE"
    BY <1>2 DEF Leaves, Succeeds, Attested, Seasoned, Funded, KycDone
  <2>2. /\ s = [status |-> "SUSPENDED", policy |-> stack.policy, next |-> stack.next,
              updateAt |-> stack.updateAt, resumeAt |-> 0,
              primaryVenue |-> stack.primaryVenue, makerApproved |-> stack.makerApproved,
              spentNonces |-> stack.spentNonces, investor |-> stack.investor,
              allowed |-> stack.allowed]
    BY <1>0, <2>1 DEF Stacks
  <2>3. s \in Stacks
    BY <1>0, <1>s, <2>2 DEF Stacks
  <2>4. s.policy \in {stack.policy, stack.next} /\ (s.updateAt # 0 => s.next = stack.next /\ s.updateAt = stack.updateAt)
    BY <1>0, <2>1 DEF Stacks
  <2>5. IsLive(s) => IsLive(stack) /\ s.policy = stack.policy
    BY <1>0, <2>1 DEF Stacks, IsLive
  <2> QED BY <2>3, <2>4, <2>5 DEF CommandInv
<1>3. CASE kind = "retire"
  <2>1. s = [Unscheduled(stack) EXCEPT !.status = "RETIRED", !.resumeAt = 0]
    BY <1>3 DEF Leaves, Attested, Seasoned, Funded, KycDone
  <2>2. /\ s = [status |-> "RETIRED", policy |-> stack.policy, next |-> NoPolicy,
              updateAt |-> 0, resumeAt |-> 0,
              primaryVenue |-> stack.primaryVenue, makerApproved |-> stack.makerApproved,
              spentNonces |-> stack.spentNonces, investor |-> stack.investor,
              allowed |-> stack.allowed]
    BY <1>0, <2>1 DEF Stacks, Unscheduled
  <2>3. s \in Stacks
    BY <1>0, <1>s, <2>2 DEF Stacks
  <2>4. s.policy \in {stack.policy, stack.next} /\ (s.updateAt # 0 => s.next = stack.next /\ s.updateAt = stack.updateAt)
    BY <1>0, <2>1 DEF Stacks, Unscheduled
  <2>5. IsLive(s) => IsLive(stack) /\ s.policy = stack.policy
    BY <1>0, <2>1 DEF Stacks, IsLive, Unscheduled
  <2> QED BY <2>3, <2>4, <2>5 DEF CommandInv
<1>4. CASE kind = "scheduleResume"
  <2>1. s = [stack EXCEPT !.resumeAt = now + 1 + ResumeDelay]
    BY <1>4 DEF Leaves, Attested, Seasoned, Funded, KycDone
  <2>3. s \in Stacks
    BY <1>0, <1>s, <2>1 DEF Stacks
  <2>4. s.policy \in {stack.policy, stack.next} /\ (s.updateAt # 0 => s.next = stack.next /\ s.updateAt = stack.updateAt)
    BY <1>0, <2>1 DEF Stacks
  <2>5. IsLive(s) => IsLive(stack) /\ s.policy = stack.policy
    BY <1>0, <2>1 DEF Stacks, IsLive
  <2> QED BY <2>3, <2>4, <2>5 DEF CommandInv
<1>5. CASE kind = "cancelResume"
  <2>1. s = [stack EXCEPT !.resumeAt = 0]
    BY <1>5 DEF Leaves, Attested, Seasoned, Funded, KycDone
  <2>3. s \in Stacks
    BY <1>0, <1>s, <2>1 DEF Stacks
  <2>4. s.policy \in {stack.policy, stack.next} /\ (s.updateAt # 0 => s.next = stack.next /\ s.updateAt = stack.updateAt)
    BY <1>0, <2>1 DEF Stacks
  <2>5. IsLive(s) => IsLive(stack) /\ s.policy = stack.policy
    BY <1>0, <2>1 DEF Stacks, IsLive
  <2> QED BY <2>3, <2>4, <2>5 DEF CommandInv
<1>6. CASE kind = "resume"
  <2>1. s = [stack EXCEPT !.status = "ACTIVE", !.resumeAt = 0] /\ stack.status = "SUSPENDED"
    BY <1>6 DEF Leaves, Succeeds, Attested, Seasoned, Funded, KycDone
  <2>2. /\ s = [status |-> "ACTIVE", policy |-> stack.policy, next |-> stack.next,
              updateAt |-> stack.updateAt, resumeAt |-> 0,
              primaryVenue |-> stack.primaryVenue, makerApproved |-> stack.makerApproved,
              spentNonces |-> stack.spentNonces, investor |-> stack.investor,
              allowed |-> stack.allowed]
    BY <1>0, <2>1 DEF Stacks
  <2>3. s \in Stacks
    BY <1>0, <1>s, <2>2 DEF Stacks
  <2>4. s.policy \in {stack.policy, stack.next} /\ (s.updateAt # 0 => s.next = stack.next /\ s.updateAt = stack.updateAt)
    BY <1>0, <2>1 DEF Stacks
  <2>5. IsLive(s) => IsLive(stack) /\ s.policy = stack.policy
    BY <1>0, <2>1 DEF Stacks, IsLive
  <2> QED BY <2>3, <2>4, <2>5 DEF CommandInv
<1>7. CASE kind = "cancelUpdate"
  <2>1. s = Unscheduled(stack)
    BY <1>7 DEF Leaves, Attested, Seasoned, Funded, KycDone
  <2>2. /\ s = [status |-> stack.status, policy |-> stack.policy, next |-> NoPolicy,
              updateAt |-> 0, resumeAt |-> stack.resumeAt,
              primaryVenue |-> stack.primaryVenue, makerApproved |-> stack.makerApproved,
              spentNonces |-> stack.spentNonces, investor |-> stack.investor,
              allowed |-> stack.allowed]
    BY <1>0, <2>1 DEF Stacks, Unscheduled
  <2>3. s \in Stacks
    BY <1>0, <1>s, <2>2 DEF Stacks
  <2>4. s.policy \in {stack.policy, stack.next} /\ (s.updateAt # 0 => s.next = stack.next /\ s.updateAt = stack.updateAt)
    BY <1>0, <2>1 DEF Stacks, Unscheduled
  <2>5. IsLive(s) => IsLive(stack) /\ s.policy = stack.policy
    BY <1>0, <2>1 DEF Stacks, IsLive, Unscheduled
  <2> QED BY <2>3, <2>4, <2>5 DEF CommandInv
<1>8. CASE kind = "activate"
  <2>1. s = [Unscheduled(stack) EXCEPT !.policy = stack.next] /\ stack.updateAt # 0
    BY <1>8 DEF Leaves, Succeeds, Attested, Seasoned, Funded, KycDone
  <2>2. /\ s = [status |-> stack.status, policy |-> stack.next, next |-> NoPolicy,
              updateAt |-> 0, resumeAt |-> stack.resumeAt,
              primaryVenue |-> stack.primaryVenue, makerApproved |-> stack.makerApproved,
              spentNonces |-> stack.spentNonces, investor |-> stack.investor,
              allowed |-> stack.allowed]
    BY <1>0, <2>1 DEF Stacks, Unscheduled
  <2>3. s \in Stacks
    BY <1>0, <1>s, <2>2 DEF Stacks
  <2>4. s.policy = stack.next /\ s.updateAt = 0
    BY <1>0, <2>1 DEF Stacks, Unscheduled
  <2> QED BY <2>1, <2>3, <2>4 DEF CommandInv
<1>9. CASE kind \in {"execute", "cancelQuote"}
  <2>1. s = [stack EXCEPT !.spentNonces = @ \cup {c.quote.nonce}]
    BY <1>9 DEF Leaves, Attested, Seasoned, Funded, KycDone
  <2>2. stack.spentNonces \cup {c.quote.nonce} \in NonceSets
    BY <1>0 DEF AnyJob, AllQuotes, NonceSets, Stacks
  <2>3. s \in Stacks
    BY <1>0, <1>s, <2>1, <2>2 DEF Stacks
  <2>4. s.policy \in {stack.policy, stack.next} /\ (s.updateAt # 0 => s.next = stack.next /\ s.updateAt = stack.updateAt)
    BY <1>0, <2>1, <2>2 DEF Stacks
  <2>5. IsLive(s) => IsLive(stack) /\ s.policy = stack.policy
    BY <1>0, <2>1, <2>2 DEF Stacks, IsLive
  <2> QED BY <2>3, <2>4, <2>5 DEF CommandInv
<1>10. CASE kind = "revokeMaker" \/ kind = "approveMaker" \/ kind = "approve"
  <2>1. \/ s = [stack EXCEPT !.makerApproved = FALSE]
        \/ s = [stack EXCEPT !.makerApproved = TRUE]
        \/ s = [stack EXCEPT !.allowed = TRUE]
    BY <1>10 DEF Leaves, Attested, Seasoned, Funded, KycDone
  <2>3. s \in Stacks
    BY <1>0, <1>s, <2>1 DEF Stacks
  <2>4. s.policy \in {stack.policy, stack.next} /\ (s.updateAt # 0 => s.next = stack.next /\ s.updateAt = stack.updateAt)
    BY <1>0, <2>1 DEF Stacks
  <2>5. IsLive(s) => IsLive(stack) /\ s.policy = stack.policy
    BY <1>0, <2>1 DEF Stacks, IsLive
  <2> QED BY <2>3, <2>4, <2>5 DEF CommandInv
<1>11. CASE kind = "block"
  <2>1. s = [stack EXCEPT !.investor = @ \ {Attested}]
    BY <1>11 DEF Leaves, Attested, Seasoned, Funded, KycDone
  <2>2. stack.investor \ {Attested} \in Facts
    BY <1>0 DEF Facts, Stacks
  <2>3. s \in Stacks
    BY <1>0, <1>s, <2>1, <2>2 DEF Stacks
  <2>4. s.policy \in {stack.policy, stack.next} /\ (s.updateAt # 0 => s.next = stack.next /\ s.updateAt = stack.updateAt)
    BY <1>0, <2>1 DEF Stacks
  <2>5. IsLive(s) => IsLive(stack) /\ s.policy = stack.policy
    BY <1>0, <2>1 DEF Stacks, IsLive
  <2> QED BY <2>3, <2>4, <2>5 DEF CommandInv
<1>12. CASE kind \in {Attested, Seasoned, Funded, KycDone}
  <2>1. s = [stack EXCEPT !.investor = @ \cup {kind}]
    BY <1>12 DEF Leaves, Attested, Seasoned, Funded, KycDone
  <2>2. stack.investor \cup {kind} \in Facts
    BY <1>0, <1>12 DEF Facts, Stacks
  <2>3. s \in Stacks
    BY <1>0, <1>s, <2>1, <2>2 DEF Stacks
  <2>4. s.policy \in {stack.policy, stack.next} /\ (s.updateAt # 0 => s.next = stack.next /\ s.updateAt = stack.updateAt)
    BY <1>0, <1>12, <2>1 DEF Stacks
  <2>5. IsLive(s) => IsLive(stack) /\ s.policy = stack.policy
    BY <1>0, <1>12, <2>1 DEF Stacks, IsLive
  <2> QED BY <2>3, <2>4, <2>5 DEF CommandInv
<1>13. CASE kind = "swap"
  <2>1. s = stack
    BY <1>13 DEF Leaves, Attested, Seasoned, Funded, KycDone
  <2>3. s \in Stacks
    BY <1>0, <1>s, <2>1 DEF Stacks
  <2>4. s.policy \in {stack.policy, stack.next} /\ (s.updateAt # 0 => s.next = stack.next /\ s.updateAt = stack.updateAt)
    BY <1>0, <2>1 DEF Stacks
  <2>5. IsLive(s) => IsLive(stack) /\ s.policy = stack.policy
    BY <1>0, <2>1 DEF Stacks, IsLive
  <2> QED BY <2>3, <2>4, <2>5 DEF CommandInv
<1> QED BY <1>1, <1>2, <1>3, <1>4, <1>5, <1>6, <1>7, <1>8, <1>9, <1>10, <1>11, <1>12, <1>13
      DEF Kinds, SingleSends

(* Every deployment the CLI can start from satisfies the invariant. *)
THEOREM CommandsStart ==
  CommandsInit => CommandInv
<1> SUFFICES ASSUME CommandsInit PROVE CommandInv
  OBVIOUS
<1> USE DEF Attested, Seasoned, Funded, KycDone
<1>1. NoPolicy \in Policy /\ [lockup |-> TRUE, engines |-> {"RFQ"}] \in Policy
  <2>1. {"RFQ"} \in (SUBSET Engines) \ {{}}
    BY CommandsAssumption
  <2> QED BY <2>1 DEF Policy, TokenPolicies
<1>2. \A i \in SUBSET {Attested, Seasoned, Funded, KycDone} :
         /\ DeployStack(i) \in Stacks /\ ~IsLive(DeployStack(i)) /\ DeployStack(i).updateAt = 0
         /\ DemoScenarios(DeployStack(i)) \in Stacks
         /\ DemoScenarios(DeployStack(i)).policy = [lockup |-> TRUE, engines |-> {"RFQ"}]
         /\ DemoScenarios(DeployStack(i)).updateAt = 0
  BY <1>1 DEF DeployStack, DemoScenarios, Registered, Stacks, IsLive, Statuses, VenueTypes, Facts, NonceSets
<1>3. stack \in Stacks /\ (IsLive(stack) => OffPools(stack.policy)) /\ stack.updateAt = 0
  BY <1>2 DEF CommandsInit, OffPools
<1>4. NoQuote \in AllQuotes /\ AtRest \in Jobs
  BY <1>1 DEF NoQuote, Jobs, AllQuotes
<1> QED BY <1>3, <1>4 DEF CommandsInit, CommandInv, CommandTypes

(* Sending a transaction, and keeping the rest typed, keeps the invariant.   *)
LEMMA Mined ==
  ASSUME NEW s, s \in Stacks, IsLive(s) => OffPools(s.policy), s.updateAt # 0 => OffPools(s.next),
         CommandInv, Mine(s),
         console' \in [Consoles -> Jobs],
         quoteFile' \in AllQuotes
  PROVE  CommandInv'
BY DEF CommandInv, CommandTypes, Mine, IsLive, OffPools

(* The invariant is inductive: each console's next transaction, each        *)
(* block, and each quote keeps it.                                          *)
LEMMA CommandsStep ==
  ASSUME ResumeDelay \in Nat, QuoteTtl \in Nat, CommandInv, [CommandsNext]_commandVars
  PROVE  CommandInv'
<1>0. /\ console \in [Consoles -> Jobs] /\ quoteFile \in AllQuotes
      /\ now \in Nat /\ stack \in Stacks /\ NoPolicy \in Policy
  BY DEF CommandInv, CommandTypes, Policy
<1>r. AtRest \in Jobs /\ NoQuote \in AllQuotes
  BY <1>0 DEF Jobs, NoQuote, AllQuotes
<1>j. Jobs \subseteq AnyJob
  <2>1. <<>> \in Seq(Kinds)
    OBVIOUS
  <2>2. AtRest \in AnyJob
    BY <1>0, <1>r, <2>1 DEF AnyJob, AtRest
  <2>3. [steps: Seq(Kinds) \ {<<>>}, policy: Policy, quote: AllQuotes] \subseteq AnyJob
    BY DEF AnyJob
  <2> QED BY <2>2, <2>3 DEF Jobs
<1>1. ASSUME NEW kind \in SingleSends, SendOne(kind) PROVE CommandInv'
  <2>1. kind \in Kinds /\ Succeeds(kind, stack, AtRest)
    BY <1>1 DEF Kinds, SendOne
  <2> QED BY <1>0, <1>1, <1>r, <1>j, <2>1, EveryTransaction, Mined DEF SendOne
<1>2. CASE Kyc
  <2>1. KycDone \in Kinds /\ Succeeds(KycDone, stack, AtRest)
    BY DEF Kinds, Succeeds, KycDone
  <2> QED BY <1>0, <1>2, <1>r, <1>j, <2>1, EveryTransaction, Mined DEF Kyc
<1>3. CASE CancelQuote
  <2> DEFINE c == [AtRest EXCEPT !.quote = quoteFile]
  <2>1. c \in AnyJob
    BY <1>0, <1>r, <1>j DEF AtRest, AnyJob
  <2>2. "cancelQuote" \in Kinds /\ Succeeds("cancelQuote", stack, c)
        /\ Mine(Leaves("cancelQuote", stack, c)) /\ UNCHANGED <<console, quoteFile>>
    BY <1>3 DEF Kinds, CancelQuote
  <2> HIDE DEF c
  <2> QED BY <1>0, <2>1, <2>2, EveryTransaction, Mined
<1>4. ASSUME NEW rules \in TokenPolicies, NEW venueType \in {"AMM", "RFQ"},
             RegisterDirectly(rules, venueType)
      PROVE  CommandInv'
  <2>1. rules \in Policy /\ registerRWAToken(stack, rules, venueType)
    BY <1>4 DEF Policy, RegisterDirectly
  <2>2. /\ Registered(stack, rules, venueType) \in Stacks
        /\ Registered(stack, rules, venueType).policy = rules
        /\ Registered(stack, rules, venueType).next = stack.next
        /\ Registered(stack, rules, venueType).updateAt = stack.updateAt
        /\ OffPools(rules)
    BY <2>1, Registering
  <2>3. Mine(Registered(stack, rules, venueType)) /\ UNCHANGED <<console, quoteFile>>
    BY <1>4 DEF RegisterDirectly
  <2>4. stack.updateAt # 0 => OffPools(stack.next)
    BY DEF CommandInv
  <2> QED BY <1>0, <2>2, <2>3, <2>4, Mined
<1>5. ASSUME NEW rules \in TokenPolicies, ScheduleUpdate(rules) PROVE CommandInv'
  <2> DEFINE s == Scheduled(stack, rules)
  <2>1. /\ s \in Stacks /\ s.next = rules /\ s.policy = stack.policy /\ s.status = stack.status
    <3> DEFINE at == now + 1 + ResumeDelay
    <3>0. s = [stack EXCEPT !.next = rules, !.updateAt = at]
      BY DEF Scheduled
    <3> HIDE DEF at, s
    <3>1. /\ s = [status |-> stack.status, policy |-> stack.policy, next |-> rules,
                  updateAt |-> at, resumeAt |-> stack.resumeAt,
                  primaryVenue |-> stack.primaryVenue, makerApproved |-> stack.makerApproved,
                  spentNonces |-> stack.spentNonces, investor |-> stack.investor,
                  allowed |-> stack.allowed]
      BY <1>0, <3>0 DEF Stacks
    <3>2. rules \in Policy /\ at \in Nat
      BY <1>0 DEF Policy, at
    <3> QED BY <1>0, <3>1, <3>2 DEF Stacks
  <2>2. VenueFits(s, stack.primaryVenue, rules.engines, TRUE) /\ IsLive(stack)
    BY <1>5 DEF ScheduleUpdate, scheduleManifestUpdate
  <2>3. OffPools(rules)
    BY <2>1, <2>2 DEF VenueFits, CompiledRules, OffPools
  <2>4. Mine(s) /\ UNCHANGED <<console, quoteFile>>
    BY <1>5 DEF ScheduleUpdate
  <2>5. IsLive(s) => OffPools(s.policy)
    BY <2>1, <2>2 DEF CommandInv
  <2> HIDE DEF s
  <2> QED BY <1>0, <2>1, <2>3, <2>4, <2>5, Mined
<1>6. CASE RfqQuote
  <2>1. SignQuote(stack.policy, now + QuoteTtl) \in AllQuotes
    BY <1>0 DEF SignQuote, AllQuotes, Stacks
  <2> QED BY <1>0, <1>6, <2>1 DEF RfqQuote, CommandInv, CommandTypes, IsLive, OffPools
<1>7. ASSUME NEW c \in Consoles, NEW steps \in Seq(Kinds) \ {<<>>}, NEW rules \in Policy,
             NEW quote \in AllQuotes, Begin(c, steps, rules, quote)
      PROVE  CommandInv'
  <2>1. [steps |-> steps, policy |-> rules, quote |-> quote] \in Jobs
    BY DEF Jobs
  <2>2. console' \in [Consoles -> Jobs] /\ UNCHANGED <<now, stack, quoteFile>>
    BY <1>0, <1>7, <2>1 DEF Begin
  <2> QED BY <1>0, <2>2 DEF CommandInv, CommandTypes, IsLive, OffPools
<1>8. ASSUME NEW c \in Consoles, NEW mask \in enginesMask, Onboard(c, mask) PROVE CommandInv'
  <2>1. [lockup |-> TRUE, engines |-> mask] \in Policy
    BY DEF enginesMask, Policy, TokenPolicies
  <2>2. <<"retire", "register">> \in Seq(Kinds) \ {<<>>} /\ <<"register">> \in Seq(Kinds) \ {<<>>}
    BY DEF Kinds, SingleSends
  <2> QED BY <1>7, <1>8, <1>r, <2>1, <2>2 DEF Onboard
<1>9. ASSUME NEW c \in Consoles, Resume(c) PROVE CommandInv'
  <2>1. <<"scheduleResume">> \in Seq(Kinds) \ {<<>>} /\ <<"resume">> \in Seq(Kinds) \ {<<>>}
    BY DEF Kinds
  <2> QED BY <1>0, <1>7, <1>9, <1>r, <2>1 DEF Resume
<1>10. ASSUME NEW c \in Consoles, InvestorSetup(c) PROVE CommandInv'
  <2>1. <<Attested, Seasoned, Funded>> \in Seq(Kinds) \ {<<>>}
    BY DEF Kinds
  <2> QED BY <1>0, <1>7, <1>10, <1>r, <2>1 DEF InvestorSetup
<1>11. ASSUME NEW c \in Consoles, BuyQuoted(c) \/ BuyOrSellPool(c) PROVE CommandInv'
  <2>1. Approving("execute") \in Seq(Kinds) \ {<<>>} /\ Approving("swap") \in Seq(Kinds) \ {<<>>}
    BY DEF Kinds, Approving
  <2> QED BY <1>0, <1>7, <1>11, <1>r, <2>1 DEF BuyQuoted, BuyOrSellPool
<1>12. ASSUME NEW c \in Consoles, Step(c) PROVE CommandInv'
  <2> DEFINE work == console[c]
             kind == Head(work.steps)
  <2>1. work # AtRest /\ work \in [steps: Seq(Kinds) \ {<<>>}, policy: Policy, quote: AllQuotes]
    BY <1>0, <1>12 DEF Step, Jobs
  <2>2. kind \in Kinds
    BY <2>1
  <2>3. ASSUME Len(work.steps) # 1 PROVE [work EXCEPT !.steps = Tail(@)] \in Jobs
    <3>1. Tail(work.steps) \in Seq(Kinds) \ {<<>>}
      <4> DEFINE q == work.steps
      <4>1. q \in Seq(Kinds) /\ q # <<>> /\ Len(q) # 1
        BY <2>1, <2>3
      <4> HIDE DEF q
      <4>2. Tail(q) \in Seq(Kinds) /\ Len(Tail(q)) = Len(q) - 1 /\ Len(q) \in Nat \ {0, 1}
        BY <4>1
      <4>3. Len(Tail(q)) # 0
        BY <4>2
      <4>4. Len(<<>>) = 0
        OBVIOUS
      <4> QED BY <4>2, <4>3, <4>4 DEF q
    <3> QED BY <2>1, <3>1 DEF Jobs
  <2>4. console' \in [Consoles -> Jobs] /\ quoteFile' \in AllQuotes
    BY <1>0, <1>r, <1>12, <2>3 DEF Step
  <2>5. CASE Succeeds(kind, stack, work) /\ Mine(Leaves(kind, stack, work))
    <3>1. work \in AnyJob
      BY <1>j, <2>1 DEF Jobs
    <3> HIDE DEF work, kind
    <3> QED BY <1>0, <2>2, <2>4, <2>5, <3>1, EveryTransaction, Mined
  <2>6. CASE UNCHANGED <<now, stack>>
    BY <1>0, <2>4, <2>6 DEF CommandInv, CommandTypes, IsLive, OffPools
  <2> QED BY <1>12, <2>5, <2>6 DEF Step
<1>13. ASSUME NEW c \in Consoles, Interrupt(c) PROVE CommandInv'
  <2>1. console' \in [Consoles -> Jobs] /\ UNCHANGED <<now, stack, quoteFile>>
    BY <1>0, <1>13, <1>r DEF Interrupt
  <2> QED BY <1>0, <2>1 DEF CommandInv, CommandTypes, IsLive, OffPools
<1>14. CASE UNCHANGED commandVars
  BY <1>14 DEF commandVars, CommandInv, CommandTypes, IsLive, OffPools
<1> QED BY <1>1, <1>2, <1>3, <1>4, <1>5, <1>6, <1>8, <1>9, <1>10, <1>11, <1>12, <1>13, <1>14
      DEF CommandsNext

(* The policy that is live and the one that waits for its activation both   *)
(* keep a token with a lockup off the pools.                                *)
THEOREM CommandInvHolds == CommandsSpec => []CommandInv
<1>1. CommandsInit => CommandInv
  BY CommandsStart
<1>2. CommandInv /\ [CommandsNext]_commandVars => CommandInv'
  BY CommandsAssumption, CommandsStep
<1> QED BY <1>1, <1>2, PTL DEF CommandsSpec

(* No token with a lockup is ever open to a pool, whichever commands two    *)
(* operators interleave and whichever of their transactions is mined        *)
(* first.                                                                   *)
THEOREM PoolsStayOut == CommandsSpec => []LockupStaysOffPools
<1>1. CommandInv => LockupStaysOffPools
  BY DEF CommandInv, LockupStaysOffPools, OffPools
<1> QED BY <1>1, CommandInvHolds, PTL

-----------------------------------------------------------------------------
(* The policy audit trail.  A file is written in two steps, opened and filled, *)
(* so what a killed command leaves is torn; only names made of hashes and    *)
(* exclusive opens keep what is committed.                                   *)

AllContents == {Absent} \cup {Built(a) : a \in Artifacts} \cup {Plan(c) : c \in AuditConfigs}

(* What a command writes into the store is named by its hash.                *)
StoreJob(j) == \E a \in Artifacts : j.path = pathOf(a) /\ j.content = Built(a)
OutputJob(j) == \E o \in AuditOutputs : j.path = Out(o) /\ j.content \notin {Absent, Torn}

AuditJobs ==
    {j \in [at: {"prompt", "put", "create", "open", "write", "compare"},
            path: Paths \cup {<<>>}, content: AllContents] :
        /\ j.at \in {"put", "create"} => StoreJob(j)
        /\ j.at \in {"open", "compare"} => OutputJob(j)
        /\ j.at = "write" => StoreJob(j) \/ OutputJob(j)
        /\ j.at = "compare" => \E c \in AuditConfigs : j.content = Plan(c)}

AuditTypes ==
    /\ file \in [Paths -> FileContents \cup AllContents]
    /\ auditConfig \in AuditConfigs
    /\ auditJob \in [Auditors -> AuditJobs]
    /\ reported \subseteq [path: Paths, content: AllContents]
    /\ committed \subseteq Artifacts

(* A file that a command of an output has opened is torn, and it is the only *)
(* command that has it open, unless somebody touched the file.               *)
OpenIsTorn ==
    \A t \in Auditors :
        auditJob[t].at = "write" /\ OutputJob(auditJob[t]) /\ auditJob[t].path \notin touched =>
            /\ file[auditJob[t].path] = Torn
            /\ \A u \in Auditors \ {t} :
                  ~(auditJob[u].at = "write" /\ auditJob[u].path = auditJob[t].path)

(* What is reported is written; in the store it is what its name says.       *)
ReportsWritten ==
    \A r \in reported :
        /\ r.content \notin {Absent, Torn}
        /\ \A a \in Artifacts : r.path = pathOf(a) => r.content = Built(a)

AuditInv == AuditTypes /\ OpenIsTorn /\ ReportsWritten /\ CommittedIsReconstructible

-----------------------------------------------------------------------------
(* The places of a command's file operations have different names. *)
LEMMA Names ==
  /\ \A o, a : Out(o) # pathOf(a)
  /\ \A a, b : pathOf(a) = pathOf(b) => a = b
  /\ \A a : Built(a) \notin {Absent, Torn}
  /\ \A c : Plan(c) \notin {Absent, Torn} /\ Plan(c)[2] = c
  /\ Absent # Torn
BY DEF Out, pathOf, Built, ArtifactFile, Plan, Absent, Torn

(* The paths of the store, of outputs and of the file that commits are      *)
(* disjoint.                                                                *)
LEMMA PathsOf ==
  /\ \A o \in AuditOutputs : Out(o) \in Paths
  /\ \A a \in Artifacts : pathOf(a) \in Paths /\ Built(a) \in AllContents
  /\ \A c \in AuditConfigs : Plan(c) \in AllContents
  /\ Absent \in AllContents /\ Torn \in FileContents
BY DEF Paths, AllContents, FileContents

(* A job, by where it is.                                                    *)
LEMMA JobOf ==
  ASSUME NEW j \in AuditJobs
  PROVE  /\ j \in [at: {"prompt", "put", "create", "open", "write", "compare"},
                   path: Paths \cup {<<>>}, content: AllContents]
         /\ j.at \in {"put", "create"} => StoreJob(j)
         /\ j.at \in {"open", "compare"} => OutputJob(j)
         /\ j.at = "write" => StoreJob(j) \/ OutputJob(j)
         /\ j.at = "compare" => \E c \in AuditConfigs : j.content = Plan(c)
BY DEF AuditJobs

(* A terminal without a command has a job of its type. *)
LEMMA AtShellIsJob == AtShell \in AuditJobs
BY PathsOf DEF AtShell, AuditJobs

(* A job moves on.                                                           *)
LEMMA NextStage ==
  ASSUME NEW j \in AuditJobs, NEW at
  PROVE  /\ at = "write" /\ j.at \in {"create", "open"} => [j EXCEPT !.at = at] \in AuditJobs
         /\ at = "create" /\ j.at = "put" => [j EXCEPT !.at = at] \in AuditJobs
         /\ at = "open" /\ j.at = "compare" => [j EXCEPT !.at = at] \in AuditJobs
<1> DEFINE k == [j EXCEPT !.at = at]
<1> SUFFICES ASSUME \/ at = "write" /\ j.at \in {"create", "open"}
                    \/ at = "create" /\ j.at = "put"
                    \/ at = "open" /\ j.at = "compare"
             PROVE  k \in AuditJobs
  OBVIOUS
<1>1. /\ k \in [at: {"prompt", "put", "create", "open", "write", "compare"},
                path: Paths \cup {<<>>}, content: AllContents]
      /\ k.at = at /\ k.path = j.path /\ k.content = j.content
  BY JobOf
<1>2. (StoreJob(k) <=> StoreJob(j)) /\ (OutputJob(k) <=> OutputJob(j))
  BY <1>1 DEF StoreJob, OutputJob
<1> HIDE DEF k
<1> QED BY <1>1, <1>2, JobOf DEF AuditJobs

-----------------------------------------------------------------------------
(* An empty store satisfies the invariant. *)
LEMMA AuditStart == PolicyAuditInit => AuditInv
BY PathsOf, AtShellIsJob
   DEF PolicyAuditInit, AuditInv, AuditTypes, OpenIsTorn, ReportsWritten,
       CommittedIsReconstructible, AtShell

(* A command goes back to the shell, or starts, and nothing else happens.    *)
LEMMA JobsOnly ==
  ASSUME AuditInv, NEW t \in Auditors, NEW j \in AuditJobs, j.at # "write",
         auditJob' = [auditJob EXCEPT ![t] = j],
         UNCHANGED <<file, auditSeen>>, auditConfig' \in AuditConfigs
  PROVE  AuditInv'
<1>1. AuditTypes'
  BY DEF AuditInv, AuditTypes, auditSeen
<1>2. OpenIsTorn'
  BY DEF AuditInv, AuditTypes, OpenIsTorn, OutputJob, auditSeen
<1>3. ReportsWritten' /\ CommittedIsReconstructible'
  BY DEF AuditInv, ReportsWritten, CommittedIsReconstructible, Reads, auditSeen
<1> QED BY <1>1, <1>2, <1>3 DEF AuditInv

(* A command that starts opens nothing yet. *)
LEMMA Starting ==
  ASSUME AuditInv, NEW t \in Auditors, NEW j \in AuditJobs, j.at # "write", Start(t, j),
         UNCHANGED <<file, auditConfig, auditSeen, auditEdits>>
  PROVE  AuditInv'
<1>1. auditConfig' \in AuditConfigs /\ auditJob' = [auditJob EXCEPT ![t] = j]
      /\ UNCHANGED <<file, auditSeen>>
  BY DEF AuditInv, AuditTypes, Start
<1> QED BY <1>1, JobsOnly

(* A command that fails leaves the files as they are. *)
LEMMA Failing ==
  ASSUME AuditInv, NEW t \in Auditors, Fail(t), UNCHANGED auditConfig
  PROVE  AuditInv'
<1>1. auditConfig' \in AuditConfigs /\ auditJob' = [auditJob EXCEPT ![t] = AtShell]
      /\ UNCHANGED <<file, auditSeen>>
  BY DEF AuditInv, AuditTypes, Fail
<1>2. AtShell.at # "write"
  BY DEF AtShell
<1> QED BY <1>1, <1>2, AtShellIsJob, JobsOnly

(* What is found in the store is what would be stored.                       *)
LEMMA StoredAlready ==
  ASSUME AuditInv, NEW t \in Auditors, auditJob[t].at \in {"put", "create"}, AlreadyStored(t),
         UNCHANGED auditConfig
  PROVE  AuditInv'
<1>1. CASE file[auditJob[t].path] # auditJob[t].content
  BY <1>1, Failing DEF AlreadyStored
<1>2. CASE file[auditJob[t].path] = auditJob[t].content
  <2>0. auditJob[t] \in AuditJobs /\ auditJob \in [Auditors -> AuditJobs]
    BY DEF AuditInv, AuditTypes
  <2>1. PICK a \in Artifacts : auditJob[t].path = pathOf(a) /\ auditJob[t].content = Built(a)
    BY <2>0, JobOf DEF StoreJob
  <2>2. /\ reported' = reported \cup {[path |-> pathOf(a), content |-> Built(a)]}
        /\ auditJob' = [auditJob EXCEPT ![t] = AtShell]
        /\ touched' = touched \ {pathOf(a)}
        /\ UNCHANGED <<file, committed, auditConfig>>
        /\ file[pathOf(a)] = Built(a)
    BY <1>2, <2>1 DEF AlreadyStored, Report
  <2>3. AuditTypes'
    BY <2>2, AtShellIsJob, PathsOf DEF AuditInv, AuditTypes
  <2>4. OpenIsTorn'
    <3> SUFFICES ASSUME NEW u \in Auditors, auditJob'[u].at = "write", OutputJob(auditJob'[u]),
                        auditJob'[u].path \notin touched'
                 PROVE  /\ file'[auditJob'[u].path] = Torn
                        /\ \A v \in Auditors \ {u} :
                             ~(auditJob'[v].at = "write" /\ auditJob'[v].path = auditJob'[u].path)
      BY DEF OpenIsTorn, OutputJob
    <3>1. AtShell.at # "write"
      BY DEF AtShell
    <3>2. u # t /\ auditJob'[u] = auditJob[u]
      BY <2>0, <2>2, <3>1
    <3>3. auditJob[u].path \notin touched
      BY <2>2, <3>2, Names DEF OutputJob
    <3> QED BY <2>0, <2>2, <3>1, <3>2, <3>3 DEF AuditInv, OpenIsTorn
  <2>5. ReportsWritten'
    BY <2>2, Names DEF AuditInv, ReportsWritten
  <2>6. CommittedIsReconstructible'
    <3>1. ASSUME NEW r \in reported' PROVE r.path \in touched' \/ file'[r.path] = r.content
      BY <2>2, <3>1 DEF AuditInv, ReportsWritten, CommittedIsReconstructible
    <3>2. ASSUME NEW b \in committed' PROVE pathOf(b) \in touched' \/ file'[pathOf(b)] = Built(b)
      BY <2>2, <3>2, Names DEF AuditInv, CommittedIsReconstructible, Reads
    <3> QED BY <3>1, <3>2 DEF CommittedIsReconstructible, Reads
  <2> QED BY <2>3, <2>4, <2>5, <2>6 DEF AuditInv
<1> QED BY <1>1, <1>2

(* A file that is opened did not exist: nothing was reported to be in it.    *)
LEMMA Opening ==
  ASSUME AuditInv, NEW t \in Auditors, auditJob[t].at \in {"create", "open"}, Opened(t),
         UNCHANGED auditConfig
  PROVE  AuditInv'
<1>0. auditJob[t] \in AuditJobs /\ auditJob \in [Auditors -> AuditJobs]
  BY DEF AuditInv, AuditTypes
<1> DEFINE p == auditJob[t].path
           j == [auditJob[t] EXCEPT !.at = "write"]
<1>1. p \in Paths /\ (StoreJob(auditJob[t]) \/ OutputJob(auditJob[t]))
  BY <1>0, JobOf, PathsOf DEF StoreJob, OutputJob
<1>2. /\ file[p] = Absent /\ file' = [file EXCEPT ![p] = Torn]
      /\ auditJob' = [auditJob EXCEPT ![t] = j]
      /\ UNCHANGED <<reported, committed, touched, auditConfig>>
  BY DEF Opened, OpensExclusive, auditSeen
<1>3. j \in AuditJobs /\ j.at = "write" /\ j.path = p
  BY <1>0, NextStage, JobOf
<1> HIDE DEF p, j
<1>4. /\ file'[p] = Torn /\ \A q \in Paths \ {p} : file'[q] = file[q]
      /\ file' \in [Paths -> FileContents \cup AllContents]
  BY <1>1, <1>2, PathsOf DEF AuditInv, AuditTypes
<1>5. auditJob' \in [Auditors -> AuditJobs] /\ auditJob'[t] = j
      /\ \A u \in Auditors \ {t} : auditJob'[u] = auditJob[u]
  BY <1>0, <1>2, <1>3
<1>6. AuditTypes'
  BY <1>2, <1>4, <1>5 DEF AuditInv, AuditTypes
<1>7. OpenIsTorn'
  <2> SUFFICES ASSUME NEW u \in Auditors, auditJob'[u].at = "write", OutputJob(auditJob'[u]),
                      auditJob'[u].path \notin touched
               PROVE  /\ file'[auditJob'[u].path] = Torn
                      /\ \A v \in Auditors \ {u} :
                           ~(auditJob'[v].at = "write" /\ auditJob'[v].path = auditJob'[u].path)
    BY <1>2 DEF OpenIsTorn, OutputJob
  <2>1. CASE u = t
    <3>1. ASSUME NEW v \in Auditors \ {t}, auditJob[v].at = "write", auditJob[v].path = p
          PROVE  FALSE
      <4>1. OutputJob(auditJob[v])
        <5>1. p # pathOf(0) /\ \A a : p # pathOf(a)
          BY <1>3, <1>5, <2>1, Names DEF OutputJob
        <5> QED BY <1>0, <3>1, <5>1, JobOf DEF StoreJob
      <4>2. file[p] = Torn
        BY <1>3, <1>5, <2>1, <3>1, <4>1 DEF AuditInv, OpenIsTorn
      <4> QED BY <1>2, <4>2, Names
    <3> QED BY <1>3, <1>4, <1>5, <2>1, <3>1
  <2>2. CASE u # t
    <3>1. /\ auditJob'[u] = auditJob[u] /\ file[auditJob[u].path] = Torn
          /\ \A v \in Auditors \ {u} :
                ~(auditJob[v].at = "write" /\ auditJob[v].path = auditJob[u].path)
      BY <1>5, <2>2 DEF AuditInv, OpenIsTorn
    <3>2. auditJob[u].path # p /\ auditJob[u].path \in Paths
      BY <1>2, <1>5, <2>2, <3>1, Names, PathsOf DEF OutputJob
    <3> QED BY <1>3, <1>4, <1>5, <2>2, <3>1, <3>2
  <2> QED BY <2>1, <2>2
<1>8. ReportsWritten'
  BY <1>2 DEF AuditInv, ReportsWritten
<1>9. CommittedIsReconstructible'
  <2>1. ASSUME NEW r \in reported PROVE r.path \in touched \/ file'[r.path] = r.content
    <3>1. r.path \in Paths /\ r.content # Absent /\ (r.path \in touched \/ file[r.path] = r.content)
      BY DEF AuditInv, AuditTypes, ReportsWritten, CommittedIsReconstructible
    <3> QED BY <1>2, <1>4, <3>1
  <2>2. ASSUME NEW a \in committed PROVE pathOf(a) \in touched \/ file'[pathOf(a)] = Built(a)
    <3>1. a \in Artifacts /\ (pathOf(a) \in touched \/ file[pathOf(a)] = Built(a))
      BY DEF AuditInv, AuditTypes, CommittedIsReconstructible, Reads
    <3>2. pathOf(a) \in Paths /\ Built(a) # Absent
      BY <3>1, Names, PathsOf
    <3> QED BY <1>2, <1>4, <3>1, <3>2
  <2> QED BY <1>2, <2>1, <2>2 DEF CommittedIsReconstructible, Reads
<1> QED BY <1>6, <1>7, <1>8, <1>9 DEF AuditInv

(* What is written is torn before it, or is what a store's name says.        *)
LEMMA Writing ==
  ASSUME AuditInv, NEW t \in Auditors, WriteFile(t)
  PROVE  AuditInv'
<1>0. auditJob[t] \in AuditJobs /\ auditJob \in [Auditors -> AuditJobs]
  BY DEF AuditInv, AuditTypes
<1> DEFINE p == auditJob[t].path
           content == auditJob[t].content
<1>1. /\ auditJob[t].at = "write" /\ auditJob' = [auditJob EXCEPT ![t] = AtShell]
      /\ reported' = reported \cup {[path |-> p, content |-> content]}
      /\ UNCHANGED <<committed, touched, auditConfig>>
      /\ file' = [file EXCEPT ![p] = content] \/ (p \in touched /\ file' = file)
  BY DEF WriteFile, Report
<1>2. StoreJob(auditJob[t]) \/ OutputJob(auditJob[t])
  BY <1>0, <1>1, JobOf
<1>3. p \in Paths /\ content \in AllContents \ {Absent, Torn}
      /\ \A a \in Artifacts : p = pathOf(a) => content = Built(a)
  BY <1>0, <1>2, Names, PathsOf, JobOf DEF StoreJob, OutputJob
<1>4. (\A a : p # pathOf(a)) /\ p \notin touched =>
         /\ file[p] = Torn
         /\ \A u \in Auditors \ {t} : ~(auditJob[u].at = "write" /\ auditJob[u].path = p)
  BY <1>1, <1>2 DEF AuditInv, OpenIsTorn, StoreJob
<1> HIDE DEF p, content
<1>5. /\ file'[p] = content \/ p \in touched
      /\ \A q \in Paths \ {p} : file'[q] = file[q]
      /\ file' \in [Paths -> FileContents \cup AllContents]
  BY <1>1, <1>3 DEF AuditInv, AuditTypes
<1>6. auditJob' \in [Auditors -> AuditJobs] /\ auditJob'[t].at # "write"
      /\ \A u \in Auditors \ {t} : auditJob'[u] = auditJob[u]
  BY <1>0, <1>1, AtShellIsJob DEF AtShell
<1>7. AuditTypes'
  BY <1>1, <1>3, <1>5, <1>6 DEF AuditInv, AuditTypes
<1>8. OpenIsTorn'
  <2> SUFFICES ASSUME NEW u \in Auditors, auditJob'[u].at = "write", OutputJob(auditJob'[u]),
                      auditJob'[u].path \notin touched
               PROVE  /\ file'[auditJob'[u].path] = Torn
                      /\ \A v \in Auditors \ {u} :
                           ~(auditJob'[v].at = "write" /\ auditJob'[v].path = auditJob'[u].path)
    BY <1>1 DEF OpenIsTorn, OutputJob
  <2>1. /\ u # t /\ auditJob'[u] = auditJob[u] /\ file[auditJob[u].path] = Torn
        /\ \A v \in Auditors \ {u} :
              ~(auditJob[v].at = "write" /\ auditJob[v].path = auditJob[u].path)
    BY <1>6 DEF AuditInv, OpenIsTorn
  <2>2. auditJob[u].path # p /\ auditJob[u].path \in Paths
    BY <1>1, <2>1, PathsOf DEF OutputJob, p
  <2> QED BY <1>5, <1>6, <2>1, <2>2
<1>9. ReportsWritten'
  BY <1>1, <1>3 DEF AuditInv, ReportsWritten
<1>10. CommittedIsReconstructible'
  <2>1. ASSUME NEW r \in reported PROVE r.path \in touched \/ file'[r.path] = r.content
    <3>1. /\ r.path \in Paths /\ r.content # Torn /\ (r.path \in touched \/ file[r.path] = r.content)
          /\ \A a \in Artifacts : r.path = pathOf(a) => r.content = Built(a)
      BY DEF AuditInv, AuditTypes, ReportsWritten, CommittedIsReconstructible
    <3>2. CASE r.path = p /\ p \notin touched
      <4>1. PICK a \in Artifacts : p = pathOf(a)
        BY <1>2, <1>4, <3>1, <3>2, Names DEF StoreJob, OutputJob, p
      <4> QED BY <1>3, <1>5, <3>1, <3>2, <4>1
    <3> QED BY <1>5, <3>1, <3>2
  <2>2. ASSUME NEW a \in committed PROVE pathOf(a) \in touched \/ file'[pathOf(a)] = Built(a)
    <3>1. a \in Artifacts /\ pathOf(a) \in Paths /\ (pathOf(a) \in touched \/ file[pathOf(a)] = Built(a))
      BY PathsOf DEF AuditInv, AuditTypes, CommittedIsReconstructible, Reads
    <3> QED BY <1>3, <1>5, <3>1
  <2> QED BY <1>1, <1>5, <2>1, <2>2 DEF CommittedIsReconstructible, Reads
<1> QED BY <1>7, <1>8, <1>9, <1>10 DEF AuditInv

(* A plan is compared with what is in the store.                             *)
LEMMA Comparing ==
  ASSUME AuditInv, NEW t \in Auditors, ComparePlan(t)
  PROVE  AuditInv'
<1>0. auditJob[t] \in AuditJobs /\ auditJob \in [Auditors -> AuditJobs]
  BY DEF AuditInv, AuditTypes
<1>1. PICK c \in AuditConfigs : auditJob[t].content = Plan(c)
  BY <1>0, JobOf DEF ComparePlan
<1>2. auditJob[t].content[2] = c /\ c.artifactHash \in Artifacts
  BY <1>1, Names DEF AuditConfigs
<1> DEFINE a == c.artifactHash
           j == [auditJob[t] EXCEPT !.at = "open"]
<1>3. CASE Fail(t) /\ UNCHANGED auditConfig
  BY <1>3, Failing
<1>4. CASE /\ Reads(pathOf(a), a)
           /\ auditJob' = [auditJob EXCEPT ![t] = j]
           /\ committed' = committed \cup {a}
           /\ touched' = touched \ {pathOf(a)}
           /\ UNCHANGED <<file, reported, auditConfig>>
  <2>1. j \in AuditJobs /\ j.at # "write"
    BY <1>0, NextStage, JobOf DEF ComparePlan
  <2>2. a \in Artifacts /\ file[pathOf(a)] = Built(a)
    BY <1>2, <1>4 DEF Reads
  <2> HIDE DEF a, j
  <2>3. AuditTypes'
    BY <1>4, <2>1, <2>2 DEF AuditInv, AuditTypes
  <2>4. OpenIsTorn'
    <3> SUFFICES ASSUME NEW u \in Auditors, auditJob'[u].at = "write", OutputJob(auditJob'[u]),
                        auditJob'[u].path \notin touched'
                 PROVE  /\ file'[auditJob'[u].path] = Torn
                        /\ \A v \in Auditors \ {u} :
                             ~(auditJob'[v].at = "write" /\ auditJob'[v].path = auditJob'[u].path)
      BY DEF OpenIsTorn, OutputJob
    <3>2. u # t /\ auditJob'[u] = auditJob[u]
      BY <1>0, <1>4, <2>1
    <3>3. auditJob[u].path \notin touched
      BY <1>4, <3>2, Names DEF OutputJob
    <3> QED BY <1>0, <1>4, <2>1, <3>2, <3>3 DEF AuditInv, OpenIsTorn
  <2>5. ReportsWritten'
    BY <1>4 DEF AuditInv, ReportsWritten
  <2>6. CommittedIsReconstructible'
    <3>1. ASSUME NEW r \in reported' PROVE r.path \in touched' \/ file'[r.path] = r.content
      BY <1>4, <2>2, <3>1 DEF AuditInv, ReportsWritten, CommittedIsReconstructible
    <3>2. ASSUME NEW b \in committed' PROVE pathOf(b) \in touched' \/ file'[pathOf(b)] = Built(b)
      BY <1>4, <2>2, <3>2, Names DEF AuditInv, CommittedIsReconstructible, Reads
    <3> QED BY <3>1, <3>2 DEF CommittedIsReconstructible, Reads
  <2> QED BY <2>3, <2>4, <2>5, <2>6 DEF AuditInv
<1>5. Fail(t) \/ /\ Reads(pathOf(a), a)
                 /\ auditJob' = [auditJob EXCEPT ![t] = j]
                 /\ committed' = committed \cup {a}
                 /\ touched' = touched \ {pathOf(a)}
                 /\ UNCHANGED <<file, reported>>
  BY <1>2 DEF ComparePlan
<1> QED BY <1>3, <1>4, <1>5 DEF ComparePlan

(* The invariant is inductive. *)
LEMMA AuditStep ==
  ASSUME AuditInv, [PolicyAuditNext]_policyAuditVars
  PROVE  AuditInv'
<1>1. ASSUME NEW t \in Auditors, NEW a \in AuditInputs, NEW o \in AuditOutputs, Build(t, a, o)
      PROVE  AuditInv'
  <2> DEFINE j == [at |-> "open", path |-> Out(o), content |-> Built(a)]
  <2>1. a \in Artifacts
    BY <1>1 DEF Build, Artifacts
  <2>2. OutputJob(j)
    BY Names DEF OutputJob
  <2>3. j \in AuditJobs /\ j.at # "write"
    BY <2>1, <2>2, PathsOf DEF AuditJobs
  <2> QED BY <1>1, <2>3, Starting DEF Build
<1>2. ASSUME NEW t \in Auditors, NEW o \in AuditOutputs, Store(t, o) PROVE AuditInv'
  <2>1. PICK a \in Artifacts :
           /\ Start(t, [at |-> "put", path |-> pathOf(a), content |-> Built(a)])
           /\ UNCHANGED <<file, auditConfig, auditSeen, auditEdits>>
    BY <1>2 DEF Store
  <2> DEFINE j == [at |-> "put", path |-> pathOf(a), content |-> Built(a)]
  <2>2. StoreJob(j)
    BY DEF StoreJob
  <2>3. j \in AuditJobs /\ j.at # "write"
    BY <2>2, PathsOf DEF AuditJobs
  <2> QED BY <2>1, <2>3, Starting
<1>3. ASSUME NEW t \in Auditors, NEW a \in Artifacts, NEW o \in AuditOutputs, Reconstruct(t, a, o)
      PROVE  AuditInv'
  <2> DEFINE j == [at |-> "open", path |-> Out(o), content |-> Built(a)]
  <2>2. OutputJob(j)
    BY Names DEF OutputJob
  <2>3. j \in AuditJobs /\ j.at # "write"
    BY <2>2, PathsOf DEF AuditJobs
  <2> QED BY <1>3, <2>3, Starting DEF Reconstruct
<1>4. ASSUME NEW t \in Auditors, NEW o \in AuditOutputs, NEW output \in AuditOutputs,
             ExportPlan(t, o, output)
      PROVE  AuditInv'
  <2> DEFINE j == [at |-> "compare", path |-> Out(output), content |-> Plan(auditConfig)]
  <2>1. auditConfig \in AuditConfigs
    BY DEF AuditInv, AuditTypes
  <2>2. OutputJob(j)
    BY Names DEF OutputJob
  <2>3. j \in AuditJobs /\ j.at # "write"
    BY <2>1, <2>2, PathsOf DEF AuditJobs
  <2> QED BY <1>4, <2>3, Starting DEF ExportPlan
<1>5. ASSUME NEW t \in Auditors, Put(t) PROVE AuditInv'
  <2>1. CASE AlreadyStored(t)
    BY <1>5, <2>1, StoredAlready DEF Put
  <2>2. CASE /\ auditJob' = [auditJob EXCEPT ![t].at = "create"]
             /\ UNCHANGED <<file, auditSeen>>
    <3>1. auditJob[t] \in AuditJobs /\ auditConfig' \in AuditConfigs
      BY <1>5 DEF AuditInv, AuditTypes, Put
    <3> DEFINE j == [auditJob[t] EXCEPT !.at = "create"]
    <3>2. j \in AuditJobs /\ j.at # "write"
      BY <1>5, <3>1, NextStage, JobOf DEF Put
    <3>3. auditJob' = [auditJob EXCEPT ![t] = j]
      BY <2>2
    <3> HIDE DEF j
    <3> QED BY <2>2, <3>1, <3>2, <3>3, JobsOnly
  <2> QED BY <1>5, <2>1, <2>2 DEF Put
<1>6. ASSUME NEW t \in Auditors, CreateStored(t) PROVE AuditInv'
  BY <1>6, Opening, StoredAlready DEF CreateStored
<1>7. ASSUME NEW t \in Auditors, OpenOutput(t) PROVE AuditInv'
  BY <1>7, Opening, Failing DEF OpenOutput
<1>8. ASSUME NEW t \in Auditors, WriteFile(t) \/ ComparePlan(t) PROVE AuditInv'
  BY <1>8, Writing, Comparing
<1>9. ASSUME NEW t \in Auditors, KillCommand(t) PROVE AuditInv'
  BY <1>9, Failing DEF KillCommand
<1>10. ASSUME NEW p \in Paths, NEW content \in FileContents, Touch(p, content) PROVE AuditInv'
  <2>1. /\ file' = [file EXCEPT ![p] = content] /\ touched' = touched \cup {p}
        /\ UNCHANGED <<auditConfig, auditJob, reported, committed>>
    BY <1>10 DEF Touch
  <2>2. AuditTypes'
    BY <2>1 DEF AuditInv, AuditTypes
  <2>3. \A q \in Paths \ {p} : file'[q] = file[q]
    BY <2>1 DEF AuditInv, AuditTypes
  <2>4. OpenIsTorn'
    BY <2>1, <2>3, PathsOf DEF AuditInv, OpenIsTorn, OutputJob
  <2>5. ReportsWritten'
    BY <2>1 DEF AuditInv, ReportsWritten
  <2>6. CommittedIsReconstructible'
    <3>1. \A r \in reported : r.path \in Paths
      BY DEF AuditInv, AuditTypes
    <3>2. \A a \in committed : pathOf(a) \in Paths
      BY PathsOf DEF AuditInv, AuditTypes
    <3> QED BY <2>1, <2>3, <3>1, <3>2 DEF AuditInv, CommittedIsReconstructible, Reads
  <2> QED BY <2>2, <2>4, <2>5, <2>6 DEF AuditInv
<1>11. ASSUME NEW c \in AuditConfigs, EditAuditConfig(c) PROVE AuditInv'
  BY <1>11 DEF EditAuditConfig, auditSeen, AuditInv, AuditTypes, OpenIsTorn, ReportsWritten,
               CommittedIsReconstructible, Reads
<1>12. CASE UNCHANGED policyAuditVars
  BY <1>12 DEF policyAuditVars, auditSeen, AuditInv, AuditTypes, OpenIsTorn, ReportsWritten,
               CommittedIsReconstructible, Reads
<1> QED BY <1>1, <1>2, <1>3, <1>4, <1>5, <1>6, <1>7, <1>8, <1>9, <1>10, <1>11, <1>12
      DEF PolicyAuditNext

(* A file that a command has open is torn, and nobody else has it open;     *)
(* what is reported is written.                                             *)
THEOREM AuditInvHolds == PolicyAuditSpec => []AuditInv
<1>1. PolicyAuditInit => AuditInv
  BY AuditStart
<1>2. AuditInv /\ [PolicyAuditNext]_policyAuditVars => AuditInv'
  BY AuditStep
<1> QED BY <1>1, <1>2, PTL DEF PolicyAuditSpec

(* What was reported written is there, and a committed plan can be          *)
(* rebuilt from the store, whichever commands run at once and wherever      *)
(* one is killed, unless the file was changed from outside.                 *)
THEOREM PlansAreReconstructible == PolicyAuditSpec => []CommittedIsReconstructible
<1>1. AuditInv => CommittedIsReconstructible
  BY DEF AuditInv
<1> QED BY <1>1, AuditInvHolds, PTL

-----------------------------------------------------------------------------
(* The process of the operator API.  A document is read three times: captured, *)
(* checked and loaded; a replacement in between has a new generation.        *)

RuntimeTypes ==
    /\ replaced \in Nat /\ starts \in Nat
    /\ {mounted, snapshot, loaded} \subseteq [Files -> 0..(replaced + 1)]
    /\ server \in {"down", "capturing", "checking", "creating", "up"}

(* What the process read is what was reviewed, or that content is gone.      *)
LoadedOrGone ==
    server = "up" => \A f \in Documents :
        mounted[f] # 0 /\ mounted[f] = snapshot[f] => loaded[f] = snapshot[f]

RuntimeInv == RuntimeTypes /\ LoadedOrGone

(* The invariant is inductive. *)
LEMMA RuntimeStep == RuntimeInv /\ [RuntimeNext]_runtimeVars => RuntimeInv'
<1> SUFFICES ASSUME RuntimeInv, [RuntimeNext]_runtimeVars PROVE RuntimeInv'
  OBVIOUS
<1> DEFINE FilesUpTo(n) == [Files -> 0..(n + 1)]
<1>0. /\ replaced \in Nat /\ starts \in Nat /\ mounted \in FilesUpTo(replaced)
      /\ snapshot \in FilesUpTo(replaced) /\ loaded \in FilesUpTo(replaced)
      /\ Nothing \in FilesUpTo(replaced) /\ Documents \subseteq Files
  BY DEF RuntimeInv, RuntimeTypes, Nothing, Files
<1>1. ASSUME NEW f \in Files, Replace(f) PROVE RuntimeInv'
  <2>1. PICK content \in {0, replaced + 2} : mounted' = [mounted EXCEPT ![f] = content]
    BY <1>1 DEF Replace
  <2>2. replaced' = replaced + 1 /\ UNCHANGED <<snapshot, loaded, server, starts>>
    BY <1>1 DEF Replace
  <2>3. 0..(replaced + 1) \subseteq 0..(replaced' + 1) /\ content \in 0..(replaced' + 1)
    BY <1>0, <2>2
  <2>4. {mounted', snapshot', loaded'} \subseteq [Files -> 0..(replaced' + 1)]
    BY <1>0, <2>1, <2>2, <2>3
  <2>5. RuntimeTypes'
    BY <1>0, <2>2, <2>4 DEF RuntimeInv, RuntimeTypes
  <2>6. ASSUME NEW g \in Documents, server = "up", mounted'[g] # 0, mounted'[g] = snapshot[g]
        PROVE  loaded[g] = snapshot[g]
    <3>1. snapshot[g] \in 0..(replaced + 1)
      BY <1>0
    <3>2. mounted'[g] # replaced + 2
      BY <1>0, <2>6, <3>1
    <3>3. mounted'[g] = mounted[g]
      BY <1>0, <2>1, <2>6, <3>2
    <3> QED BY <2>6, <3>3 DEF RuntimeInv, LoadedOrGone
  <2> QED BY <2>2, <2>5, <2>6 DEF RuntimeInv, LoadedOrGone
<1>2. CASE ReadToken
  <2>1. TokenFile \in Files
    BY DEF Files
  <2>2. loaded' \in FilesUpTo(replaced)
    BY <1>0, <1>2, <2>1 DEF ReadToken
  <2>3. server' # "up" /\ server' \in {"down", "capturing"} /\ starts' \in Nat
    BY <1>0, <1>2 DEF ReadToken
  <2>4. UNCHANGED <<mounted, snapshot, replaced>>
    BY <1>2 DEF ReadToken
  <2> QED BY <1>0, <2>2, <2>3, <2>4 DEF RuntimeInv, RuntimeTypes, LoadedOrGone
<1>3. CASE CaptureSnapshot
  BY <1>0, <1>3 DEF CaptureSnapshot, RuntimeInv, RuntimeTypes, LoadedOrGone
<1>4. CASE CheckDependencies
  BY <1>0, <1>4 DEF CheckDependencies, RuntimeInv, RuntimeTypes, LoadedOrGone
<1>5. CASE CreateApi
  <2>1. UNCHANGED <<mounted, snapshot, replaced, starts>> /\ server' \in {"up", "down"}
    BY <1>5 DEF CreateApi
  <2>2. loaded' \in FilesUpTo(replaced)
    BY <1>0, <1>5 DEF CreateApi
  <2>3. server' = "up" => \A f \in Documents : loaded'[f] = mounted[f]
    BY <1>0, <1>5 DEF CreateApi
  <2> QED BY <1>0, <2>1, <2>2, <2>3 DEF RuntimeInv, RuntimeTypes, LoadedOrGone
<1>6. CASE StopServer
  BY <1>0, <1>6 DEF StopServer, RuntimeInv, RuntimeTypes, LoadedOrGone
<1>7. CASE UNCHANGED runtimeVars
  BY <1>0, <1>7 DEF runtimeVars, RuntimeInv, RuntimeTypes, LoadedOrGone
<1> QED BY <1>1, <1>2, <1>3, <1>4, <1>5, <1>6, <1>7 DEF RuntimeNext

(* What a process loaded is what it captured, or has been replaced since. *)
THEOREM RuntimeInvHolds == RuntimeSpec => []RuntimeInv
<1>1. RuntimeInit => RuntimeInv
  BY DEF RuntimeInit, Nothing, RuntimeInv, RuntimeTypes, LoadedOrGone
<1> QED BY <1>1, RuntimeStep, PTL DEF RuntimeSpec

(* A server that is ready serves the documents it captured, as they are     *)
(* mounted, for any documents and any number of replacements.               *)
THEOREM ReadyIsReviewed == RuntimeSpec => []ReadyServesReviewed
<1>1. RuntimeInv => ReadyServesReviewed
  BY RuntimeAssumption DEF RuntimeInv, LoadedOrGone, ReadyServesReviewed, Served,
     dependenciesReady, Files
<1> QED BY <1>1, RuntimeInvHolds, PTL

-----------------------------------------------------------------------------
(* The production release.  Terminals share the trees, the artifact and the  *)
(* deployer's nonce; the invariant says what of it each stage may still rely on. *)

Cores == [base: Nat, built: SourceTrees, config: ReleaseConfigs]
Sources == {"bundle", "repository"}
TerminalRecords ==
    [stage: {"none", "checked", "prepared", "sending", "verifying"},
     config: ReleaseConfigs \cup {NoRelease}, source: Sources \cup {NoRelease},
     rpc: RpcChoices \cup {NoRelease}, base: Nat, sent: Nat,
     asked: SUBSET {"code", "owners"}, artifact: Cores \cup {NoRelease}, overtaken: BOOLEAN]

ReleaseTypes ==
    /\ atRepository \in BOOLEAN
    /\ tree \in [Roots -> SourceTrees]
    /\ releaseConfig \in ReleaseConfigs \cup {NoRelease}
    /\ coreArtifact \in [Roots \cup {"project"} -> Cores \cup {NoRelease}]
    /\ nonceOnChain \in Nat
    /\ core \in [DOMAIN core -> [built: SourceTrees, mined: Nat]] /\ DOMAIN core \subseteq Nat
    /\ terminal \in [Terminals -> TerminalRecords]

(* What a command keeps of the reviewed source, before and after the copy.   *)
SourceKept(j) ==
    /\ j.stage \in {"checked", "prepared"} =>
          /\ j.config \in ReleaseConfigs /\ j.source \in Sources /\ j.sent = 0
          /\ j.source = "bundle" \/ atRepository
    /\ j.stage = "checked" => j.overtaken \/ tree[j.source].hashed = j.config.contractsHash
    /\ j.stage = "prepared" =>
          \/ j.overtaken \/ (atRepository /\ j.source # "repository")
          \/ tree[deploymentRoot].hashed = j.config.contractsHash

(* A command that sends has the nonces it counted on, or is behind.          *)
SentInOrder(j) ==
    j.stage = "sending" =>
        /\ j.artifact \in Cores
        /\ j.base + j.sent <= nonceOnChain
        /\ j.sent > 0 => /\ j.base \in DOMAIN core
                         /\ core[j.base].built = j.artifact.built
                         /\ core[j.base].mined = j.sent

(* Answers that came in stay true.                                           *)
AnswersKept(j) ==
    j.stage = "verifying" =>
        /\ j.artifact \in Cores
        /\ j.asked # {} => "code" \in j.asked
        /\ "code" \in j.asked => Answers("code", j.artifact)
        /\ "owners" \in j.asked => Answers("owners", j.artifact)

(* Only one command sends a deployment.                                      *)
OneSender ==
    \A t, u \in Terminals :
        /\ terminal[t].stage = "sending" /\ terminal[u].stage = "sending"
        /\ terminal[t].sent > 0 /\ terminal[u].sent > 0
        /\ terminal[t].base = terminal[u].base
        => t = u

ReleaseInv ==
    /\ ReleaseTypes
    /\ \A t \in Terminals :
          SourceKept(terminal[t]) /\ SentInOrder(terminal[t]) /\ AnswersKept(terminal[t])
    /\ OneSender
    /\ \A n \in DOMAIN core : n < nonceOnChain
    /\ \A a \in verifiedCores : a \in Cores
    /\ ReviewedIsBroadcast /\ VerifiedIsHandedOff

-----------------------------------------------------------------------------
(* A terminal whose command changes without touching what is on chain.       *)
LEMMA ReleaseStart == ReleaseInit => ReleaseInv
<1> SUFFICES ASSUME ReleaseInit PROVE ReleaseInv
  OBVIOUS
<1>1. AtPrompt \in TerminalRecords
  BY DEF AtPrompt, TerminalRecords
<1>2. ReleaseTypes
  BY <1>1 DEF ReleaseInit, ReleaseTypes, Roots
<1>3. \A t \in Terminals : terminal[t].stage = "none"
  BY DEF ReleaseInit, AtPrompt
<1>4. verifiedCores = {} /\ broadcastBuilds = {} /\ DOMAIN core = {}
  BY DEF ReleaseInit
<1> QED BY <1>2, <1>3, <1>4 DEF ReleaseInv, SourceKept, SentInOrder, AnswersKept, OneSender,
        ReviewedIsBroadcast, Undisturbed, VerifiedIsHandedOff

(* Files and commands change, the chain does not.                            *)
LEMMA ChainRests ==
  ASSUME ReleaseInv, ReleaseTypes', UNCHANGED <<core, nonceOnChain, verifiedCores>>,
         \A t \in Terminals : SourceKept(terminal[t])',
         \A t \in Terminals :
            \/ terminal'[t].stage \in {"none", "checked", "prepared"}
            \/ /\ terminal[t].stage = terminal'[t].stage /\ terminal[t].base = terminal'[t].base
               /\ terminal[t].sent = terminal'[t].sent /\ terminal[t].asked = terminal'[t].asked
               /\ terminal[t].artifact = terminal'[t].artifact
            \/ /\ terminal'[t].stage = "sending" /\ terminal'[t].artifact \in Cores
               /\ terminal'[t].sent = 0 /\ terminal'[t].base = nonceOnChain
            \/ /\ terminal'[t].stage = "verifying" /\ terminal'[t].artifact \in Cores
               /\ terminal'[t].asked = {},
         ReviewedIsBroadcast'
  PROVE  ReleaseInv'
<1>1. ASSUME NEW t \in Terminals
      PROVE  SentInOrder(terminal[t])' /\ AnswersKept(terminal[t])'
  <2>1. nonceOnChain \in Nat /\ terminal'[t].sent \in Nat /\ terminal'[t].base \in Nat
    BY DEF ReleaseInv, ReleaseTypes, TerminalRecords
  <2>2. SentInOrder(terminal[t]) /\ AnswersKept(terminal[t])
    BY DEF ReleaseInv
  <2>3. SentInOrder(terminal[t])'
    BY <2>1, <2>2 DEF SentInOrder
  <2>4. AnswersKept(terminal[t])'
    BY <2>2 DEF AnswersKept, Answers, SameCode, MinedAt, Deployed
  <2> QED BY <2>3, <2>4
<1>2. OneSender'
  BY DEF ReleaseInv, OneSender
<1>3. VerifiedIsHandedOff'
  BY DEF ReleaseInv, VerifiedIsHandedOff, SameCode, MinedAt, Deployed
<1> QED BY <1>1, <1>2, <1>3 DEF ReleaseInv

(* A file changes, and who uses it is overtaken.                             *)
LEMMA Overtaken ==
  ASSUME ReleaseInv, NEW root, NEW but,
         NEW t \in Terminals
  PROVE  /\ Overtake(root, but)[t] \in TerminalRecords
         /\ Overtake(root, but)[t].stage = terminal[t].stage
         /\ Overtake(root, but)[t].base = terminal[t].base
         /\ Overtake(root, but)[t].sent = terminal[t].sent
         /\ Overtake(root, but)[t].asked = terminal[t].asked
         /\ Overtake(root, but)[t].artifact = terminal[t].artifact
         /\ Overtake(root, but)[t].config = terminal[t].config
         /\ Overtake(root, but)[t].source = terminal[t].source
         /\ terminal[t].overtaken => Overtake(root, but)[t].overtaken
         /\ t # but /\ InUse(t, root) => Overtake(root, but)[t].overtaken
<1>1. terminal[t] \in TerminalRecords
  BY DEF ReleaseInv, ReleaseTypes
<1> DEFINE j == terminal[t]
           k == [j EXCEPT !.overtaken = TRUE]
<1>2. /\ k \in TerminalRecords /\ k.overtaken /\ k.stage = j.stage /\ k.base = j.base
      /\ k.sent = j.sent /\ k.asked = j.asked /\ k.artifact = j.artifact
      /\ k.config = j.config /\ k.source = j.source
  BY <1>1 DEF TerminalRecords
<1>3. Overtake(root, but)[t] = IF t # but /\ InUse(t, root) THEN k ELSE j
  BY DEF Overtake
<1> HIDE DEF k
<1> QED BY <1>1, <1>2, <1>3

(* The invariant is inductive: one case for each stage of a terminal. *)
LEMMA ReleaseStep == ReleaseInv /\ [ReleaseNext]_releaseVars => ReleaseInv'
<1> SUFFICES ASSUME ReleaseInv, [ReleaseNext]_releaseVars PROVE ReleaseInv'
  OBVIOUS
<1>0. /\ ReleaseTypes /\ terminal \in [Terminals -> TerminalRecords]
      /\ AtPrompt \in TerminalRecords /\ AtPrompt.stage = "none"
      /\ deploymentRoot \in Roots /\ projectRoot \in Roots \cup {"project"}
      /\ \A t \in Terminals : SourceKept(terminal[t])
  BY DEF ReleaseInv, ReleaseTypes, AtPrompt, TerminalRecords, deploymentRoot, projectRoot, Roots
<1>1. ASSUME NEW root \in Roots, NEW t \in SourceTrees, EditTree(root, t) PROVE ReleaseInv'
  <2>1. /\ root # "runtime" /\ tree' = [tree EXCEPT ![root] = t]
        /\ terminal' = Overtake(root, NoRelease)
        /\ UNCHANGED <<atRepository, releaseConfig, releaseEvidence, coreArtifact,
                       releaseChain, releaseSeen>>
    BY <1>1 DEF EditTree
  <2>2. terminal' \in [Terminals -> TerminalRecords]
    <3>1. terminal' = [u \in Terminals |-> terminal'[u]]
      BY <2>1 DEF Overtake
    <3>2. \A u \in Terminals : terminal'[u] \in TerminalRecords
      BY <2>1, Overtaken
    <3> QED BY <3>1, <3>2
  <2>3. ReleaseTypes'
    BY <1>0, <2>1, <2>2 DEF ReleaseTypes, releaseChain
  <2>4. ASSUME NEW u \in Terminals PROVE SourceKept(terminal[u])'
    <3>1. SourceKept(terminal[u]) /\ u # NoRelease
      BY <1>0, ReleaseAssumption
    <3>2. InUse(u, root) => terminal'[u].overtaken
      BY <2>1, <3>1, Overtaken
    <3>3. \A r \in Roots \ {root} : tree'[r] = tree[r]
      BY <1>0, <2>1 DEF ReleaseTypes
    <3>4. deploymentRoot' = deploymentRoot
      BY <2>1 DEF deploymentRoot
    <3> QED BY <1>0, <2>1, <3>1, <3>2, <3>3, <3>4, Overtaken
            DEF SourceKept, InUse, Sources, Roots
  <2>5. ReviewedIsBroadcast'
    BY <2>1 DEF ReleaseInv, ReviewedIsBroadcast, Undisturbed, releaseSeen
  <2> QED BY <2>1, <2>3, <2>4, <2>5, ChainRests, Overtaken DEF releaseChain, releaseSeen
<1>2. ASSUME NEW c \in ReleaseConfigs \cup {NoRelease}, EditConfig(c) \/ Review(c)
      PROVE  ReleaseInv'
  <2>1. /\ UNCHANGED <<atRepository, tree, coreArtifact, releaseChain, terminal, releaseSeen>>
        /\ releaseConfig' \in ReleaseConfigs \cup {NoRelease}
    BY <1>0, <1>2 DEF EditConfig, Review, ReleaseTypes
  <2>2. ReleaseTypes'
    BY <1>0, <2>1 DEF ReleaseTypes, releaseChain
  <2>3. \A u \in Terminals : SourceKept(terminal[u])'
    BY <1>0, <2>1 DEF SourceKept, deploymentRoot
  <2>4. ReviewedIsBroadcast'
    BY <2>1 DEF ReleaseInv, ReviewedIsBroadcast, Undisturbed, releaseSeen
  <2> QED BY <2>1, <2>2, <2>3, <2>4, ChainRests DEF releaseChain, releaseSeen
<1>3. ASSUME NEW what \in {"safe", "token"}, ChangeOnChain(what) PROVE ReleaseInv'
  <2>1. UNCHANGED <<atRepository, releaseFiles, nonceOnChain, core, terminal, releaseSeen>>
    BY <1>3 DEF ChangeOnChain
  <2>2. ReleaseTypes'
    BY <1>0, <2>1 DEF ReleaseTypes, releaseFiles
  <2>3. \A u \in Terminals : SourceKept(terminal[u])'
    BY <1>0, <2>1 DEF SourceKept, deploymentRoot, releaseFiles
  <2>4. ReviewedIsBroadcast'
    BY <2>1 DEF ReleaseInv, ReviewedIsBroadcast, Undisturbed, releaseSeen
  <2> QED BY <2>1, <2>2, <2>3, <2>4, ChainRests DEF releaseFiles, releaseSeen
<1>4. ASSUME NEW t \in Terminals, NEW explicit \in BOOLEAN, NEW rpc \in RpcChoices,
             StartDeployCore(t, explicit, rpc)
      PROVE  ReleaseInv'
  <2> DEFINE source == contractSource(explicit)
             j == [AtPrompt EXCEPT !.stage = "checked", !.config = releaseConfig,
                                   !.source = source, !.rpc = rpc]
  <2>1. /\ releaseConfig \in ReleaseConfigs /\ tree[source].hashed = releaseConfig.contractsHash
        /\ terminal' = [terminal EXCEPT ![t] = j]
        /\ UNCHANGED <<atRepository, releaseFiles, releaseChain, releaseSeen>>
    BY <1>0, <1>4 DEF StartDeployCore, SourceMatches, ReleaseTypes
  <2>2. source \in Sources /\ (source = "bundle" \/ atRepository)
    BY DEF contractSource, Sources
  <2> HIDE DEF source
  <2>3. /\ j \in TerminalRecords /\ j.stage = "checked" /\ j.config = releaseConfig
        /\ j.source = source /\ j.sent = 0
    BY <2>1, <2>2 DEF AtPrompt, TerminalRecords
  <2> HIDE DEF j
  <2>4. ReleaseTypes'
    BY <1>0, <2>1, <2>3 DEF ReleaseTypes, releaseFiles, releaseChain
  <2>5. \A u \in Terminals : SourceKept(terminal[u])'
    BY <1>0, <2>1, <2>2, <2>3 DEF SourceKept, deploymentRoot, releaseFiles
  <2>6. ReviewedIsBroadcast'
    BY <2>1 DEF ReleaseInv, ReviewedIsBroadcast, Undisturbed, releaseSeen
  <2> QED BY <1>0, <2>1, <2>3, <2>4, <2>5, <2>6, ChainRests DEF releaseChain, releaseSeen
<1>5. ASSUME NEW t \in Terminals, Preflight(t) PROVE ReleaseInv'
  <2> DEFINE j == terminal[t]
             k == [j EXCEPT !.stage = "prepared"]
  <2>0. j.stage = "checked" /\ SourceKept(j) /\ j \in TerminalRecords
    BY <1>0, <1>5 DEF Preflight
  <2>1. /\ k \in TerminalRecords /\ k.stage = "prepared" /\ k.overtaken = j.overtaken
        /\ k.config = j.config /\ k.source = j.source /\ k.sent = j.sent
    BY <2>0 DEF TerminalRecords
  <2>2. UNCHANGED <<atRepository, releaseConfig, releaseChain, releaseSeen>>
    BY <1>5 DEF Preflight
  <2>3. deploymentRoot' = deploymentRoot
    BY <2>2 DEF deploymentRoot
  <2>4. ReviewedIsBroadcast'
    BY <2>2 DEF ReleaseInv, ReviewedIsBroadcast, Undisturbed, releaseSeen
  <2>5. CASE deploymentRoot = "runtime"
    <3>1. /\ tree' = [tree EXCEPT !["runtime"] = tree[j.source]]
          /\ coreArtifact' = [coreArtifact EXCEPT !["runtime"] = NoRelease]
          /\ terminal' = [Overtake("runtime", t) EXCEPT ![t].stage = "prepared"]
      BY <1>5, <2>5 DEF Preflight, CopyContracts
    <3>2. ~atRepository /\ j.source = "bundle"
      BY <2>0, <2>5 DEF deploymentRoot, SourceKept
    <3>3. DOMAIN Overtake("runtime", t) = Terminals /\ Overtake("runtime", t)[t] = j
      BY DEF Overtake
    <3>4. /\ terminal'[t] = k
          /\ \A u \in Terminals \ {t} : terminal'[u] = Overtake("runtime", t)[u]
          /\ DOMAIN terminal' = Terminals
      BY <3>1, <3>3
    <3>5. terminal' \in [Terminals -> TerminalRecords]
      <4>1. terminal' = [u \in Terminals |-> terminal'[u]]
        BY <3>1, <3>3 DEF Overtake
      <4>2. \A u \in Terminals : terminal'[u] \in TerminalRecords
        BY <2>1, <3>4, Overtaken
      <4> QED BY <4>1, <4>2
    <3>6. tree["bundle"] \in SourceTrees /\ "runtime" \in Roots
      BY <1>0 DEF ReleaseTypes, Roots
    <3>7. ReleaseTypes'
      BY <1>0, <2>2, <3>1, <3>2, <3>5, <3>6 DEF ReleaseTypes, releaseChain
    <3>8. tree'["runtime"] = tree["bundle"] /\ \A r \in Roots \ {"runtime"} : tree'[r] = tree[r]
      BY <1>0, <3>1, <3>2, <3>6 DEF ReleaseTypes
    <3>9. ASSUME NEW u \in Terminals PROVE SourceKept(terminal[u])'
      <4>1. CASE u = t
        <5>1. j.overtaken \/ tree["bundle"].hashed = j.config.contractsHash
          BY <2>0, <3>2 DEF SourceKept
        <5>2. j.config \in ReleaseConfigs /\ j.source \in Sources /\ j.sent = 0
          BY <2>0 DEF SourceKept
        <5> HIDE DEF k, j
        <5> QED BY <2>1, <2>3, <2>5, <3>2, <3>4, <3>8, <4>1, <5>1, <5>2 DEF SourceKept
      <4>2. CASE u # t
        <5>1. SourceKept(terminal[u]) /\ terminal'[u] = Overtake("runtime", t)[u]
          BY <1>0, <3>4, <4>2
        <5>2. terminal[u].stage = "prepared" => terminal'[u].overtaken
          BY <2>5, <4>2, <5>1, Overtaken DEF InUse
        <5> QED BY <2>2, <2>3, <3>8, <4>2, <5>1, <5>2, Overtaken DEF SourceKept, Sources, Roots
      <4> QED BY <4>1, <4>2
    <3>10. \A u \in Terminals :
            \/ terminal'[u].stage = "prepared"
            \/ /\ terminal[u].stage = terminal'[u].stage /\ terminal[u].base = terminal'[u].base
               /\ terminal[u].sent = terminal'[u].sent /\ terminal[u].asked = terminal'[u].asked
               /\ terminal[u].artifact = terminal'[u].artifact
      <4> HIDE DEF k
      <4>1. \A u \in Terminals : u = t => terminal'[u].stage = "prepared"
        BY <2>1, <3>4
      <4>2. ASSUME NEW u \in Terminals \ {t}
            PROVE  /\ terminal[u].stage = terminal'[u].stage /\ terminal[u].base = terminal'[u].base
                   /\ terminal[u].sent = terminal'[u].sent /\ terminal[u].asked = terminal'[u].asked
                   /\ terminal[u].artifact = terminal'[u].artifact
        BY <3>4, Overtaken
      <4> QED BY <4>1, <4>2
    <3> QED BY <2>2, <2>4, <3>7, <3>9, <3>10, ChainRests DEF releaseChain, releaseSeen
  <2>6. CASE deploymentRoot # "runtime"
    <3>1. terminal' = [terminal EXCEPT ![t] = k] /\ UNCHANGED <<tree, coreArtifact>>
      BY <1>5, <2>6 DEF Preflight
    <3>2. atRepository /\ deploymentRoot = "repository"
      BY <2>6 DEF deploymentRoot
    <3>3. ReleaseTypes'
      BY <1>0, <2>1, <2>2, <3>1 DEF ReleaseTypes, releaseChain
    <3>4. ASSUME NEW u \in Terminals PROVE SourceKept(terminal[u])'
      <4>1. CASE u = t
        <5>1. terminal'[u] = k
          BY <1>0, <3>1, <4>1
        <5>2. /\ j.config \in ReleaseConfigs /\ j.source \in Sources /\ j.sent = 0
              /\ j.overtaken \/ tree[j.source].hashed = j.config.contractsHash
          BY <2>0 DEF SourceKept
        <5> HIDE DEF k, j
        <5> QED BY <2>1, <2>2, <2>3, <3>1, <3>2, <5>1, <5>2 DEF SourceKept
      <4>2. CASE u # t
        BY <1>0, <2>2, <2>3, <3>1, <4>2 DEF SourceKept
      <4> QED BY <4>1, <4>2
    <3>5. \A u \in Terminals : terminal'[u] = terminal[u] \/ terminal'[u].stage = "prepared"
      BY <1>0, <2>1, <3>1
    <3> QED BY <2>2, <2>4, <3>3, <3>4, <3>5, ChainRests DEF releaseChain, releaseSeen
  <2> QED BY <2>5, <2>6
<1>6. ASSUME NEW t \in Terminals, Simulate(t) PROVE ReleaseInv'
  <2> DEFINE j == terminal[t]
             a == artifactWritten(t)
             k == [j EXCEPT !.stage = "sending", !.base = nonceOnChain, !.artifact = a]
  <2>0. j.stage = "prepared" /\ SourceKept(j) /\ j \in TerminalRecords
    BY <1>0, <1>6 DEF Simulate
  <2>1. a \in Cores
    BY <1>0, <2>0 DEF artifactWritten, Cores, SourceKept, ReleaseTypes
  <2>2. /\ terminal' = [terminal EXCEPT ![t] = k]
        /\ coreArtifact' = [coreArtifact EXCEPT ![deploymentRoot] = terminal'[t].artifact]
        /\ broadcastBuilds' = broadcastBuilds \cup
               {[built |-> tree[deploymentRoot], config |-> j.config,
                 from |-> j.source, overtaken |-> j.overtaken]}
        /\ UNCHANGED <<atRepository, tree, releaseConfig, releaseChain, verifiedCores>>
    BY <1>6 DEF Simulate
  <2> HIDE DEF a
  <2>3. nonceOnChain \in Nat
    BY <1>0 DEF ReleaseTypes
  <2>4. /\ k \in TerminalRecords /\ k.stage = "sending" /\ k.base = nonceOnChain
        /\ k.artifact = a /\ k.sent = j.sent
    BY <2>0, <2>1, <2>3 DEF TerminalRecords
  <2>5. j.sent = 0
    BY <2>0 DEF SourceKept
  <2>6. ReleaseTypes'
    BY <1>0, <2>1, <2>2, <2>4 DEF ReleaseTypes, releaseChain
  <2>7. \A u \in Terminals : SourceKept(terminal[u])'
    BY <1>0, <2>2, <2>4 DEF SourceKept, deploymentRoot
  <2>8. ReviewedIsBroadcast'
    <3>1. \/ j.overtaken \/ (atRepository /\ j.source # "repository")
          \/ tree[deploymentRoot].hashed = j.config.contractsHash
      BY <2>0 DEF SourceKept
    <3>2. ReviewedIsBroadcast
      BY DEF ReleaseInv
    <3> HIDE DEF j
    <3> QED BY <2>2, <3>1, <3>2 DEF ReviewedIsBroadcast, Undisturbed
  <2>9. terminal'[t] = k /\ \A u \in Terminals \ {t} : terminal'[u] = terminal[u]
    BY <1>0, <2>2
  <2> HIDE DEF k, j
  <2> QED BY <2>1, <2>2, <2>4, <2>5, <2>6, <2>7, <2>8, <2>9, ChainRests DEF releaseChain
<1>7. ASSUME NEW t \in Terminals, SendNext(t) PROVE ReleaseInv'
  <2> DEFINE j == terminal[t]
             k == [j EXCEPT !.sent = @ + 1]
             mine == [built |-> j.artifact.built, mined |-> j.sent + 1]
  <2>0. /\ j.stage = "sending" /\ nonceOnChain = j.base + j.sent /\ j \in TerminalRecords
        /\ j.artifact \in Cores
        /\ j.sent > 0 => /\ j.base \in DOMAIN core
                         /\ core[j.base].built = j.artifact.built
                         /\ core[j.base].mined = j.sent
    BY <1>0, <1>7 DEF SendNext, ReleaseInv, SentInOrder
  <2>1. /\ terminal' = [terminal EXCEPT ![t] = k]
        /\ nonceOnChain' = nonceOnChain + 1
        /\ core' = [n \in DOMAIN core \cup {j.base} |-> IF n = j.base THEN mine ELSE core[n]]
        /\ UNCHANGED <<atRepository, releaseFiles, releaseSeen>>
    BY <1>7 DEF SendNext
  <2>2. /\ j.base \in Nat /\ j.sent \in Nat /\ nonceOnChain \in Nat
        /\ \A n \in DOMAIN core : n \in Nat /\ n < nonceOnChain
    BY <1>0, <2>0 DEF ReleaseTypes, TerminalRecords, ReleaseInv
  <2>3. /\ k \in TerminalRecords /\ k.stage = "sending" /\ k.base = j.base
        /\ k.artifact = j.artifact /\ k.sent = j.sent + 1
    BY <2>0, <2>2 DEF TerminalRecords
  <2>4. mine \in [built: SourceTrees, mined: Nat] /\ mine.built = j.artifact.built
        /\ mine.mined = j.sent + 1
    BY <2>0, <2>2 DEF Cores
  <2>5. terminal'[t] = k /\ \A u \in Terminals \ {t} : terminal'[u] = terminal[u]
    BY <1>0, <2>1
  <2> HIDE DEF k, j, mine
  <2>6. /\ DOMAIN core' = DOMAIN core \cup {j.base} /\ core'[j.base] = mine
        /\ \A n \in DOMAIN core \ {j.base} : core'[n] = core[n]
    BY <2>1
  (* A deployment that is on chain stays what it was, and gets further.        *)
  <2>7. j.base \in DOMAIN core => j.sent > 0
    BY <2>0, <2>2
  <2>8. \A n \in DOMAIN core : n \in DOMAIN core' /\ core'[n].built = core[n].built
    BY <2>0, <2>4, <2>6, <2>7
  <2>9. ASSUME NEW n \in DOMAIN core, NEW m \in Nat, core[n].mined >= m
        PROVE  core'[n].mined >= m
    BY <2>0, <2>2, <2>4, <2>6, <2>7, <2>9
  <2>10. ReleaseTypes'
    <3>1. core' \in [DOMAIN core' -> [built: SourceTrees, mined: Nat]]
      <4>1. core' = [n \in DOMAIN core' |-> core'[n]]
        BY <2>1
      <4>2. \A n \in DOMAIN core' : core'[n] \in [built: SourceTrees, mined: Nat]
        BY <1>0, <2>4, <2>6 DEF ReleaseTypes
      <4> QED BY <4>1, <4>2
    <3>2. DOMAIN core' \subseteq Nat /\ nonceOnChain' \in Nat
      BY <2>1, <2>2, <2>6
    <3>3. terminal' \in [Terminals -> TerminalRecords]
      BY <1>0, <2>1, <2>3
    <3> QED BY <1>0, <2>1, <3>1, <3>2, <3>3 DEF ReleaseTypes, releaseFiles
  <2>11. \A u \in Terminals : SourceKept(terminal[u])'
    BY <1>0, <2>1, <2>3, <2>5 DEF SourceKept, deploymentRoot, releaseFiles
  <2>12. ASSUME NEW u \in Terminals PROVE SentInOrder(terminal[u])'
    <3>1. CASE u = t
      BY <2>0, <2>1, <2>2, <2>3, <2>4, <2>5, <2>6, <3>1 DEF SentInOrder
    <3>2. CASE u # t
      <4>1. terminal'[u] = terminal[u] /\ terminal[u].base \in Nat /\ terminal[u].sent \in Nat
        BY <1>0, <2>5, <3>2 DEF TerminalRecords
      <4>2. SentInOrder(terminal[u]) /\ OneSender
        BY DEF ReleaseInv
      <4>3. ASSUME terminal[u].stage = "sending", terminal[u].sent > 0
            PROVE  terminal[u].base # j.base
        <5>1. SUFFICES ASSUME terminal[u].base = j.base PROVE FALSE
          OBVIOUS
        <5>2. j.sent > 0
          BY <2>7, <4>2, <4>3, <5>1 DEF SentInOrder
        <5> QED BY <2>0, <3>2, <4>2, <4>3, <5>1, <5>2 DEF OneSender, j
      <4> QED BY <2>1, <2>2, <2>6, <4>1, <4>2, <4>3 DEF SentInOrder
    <3> QED BY <3>1, <3>2
  <2>13. ASSUME NEW a, NEW m \in Nat, MinedAt(a, m)
         PROVE  MinedAt(a, m)' /\ core'[a.base].built = core[a.base].built
    BY <2>8, <2>9, <2>13 DEF MinedAt, Deployed
  <2>14. ASSUME NEW u \in Terminals PROVE AnswersKept(terminal[u])'
    <3>1. CASE u = t
      BY <2>3, <2>5, <3>1 DEF AnswersKept
    <3>2. CASE u # t
      <4>1. terminal'[u] = terminal[u] /\ AnswersKept(terminal[u])
        BY <2>5, <3>2 DEF ReleaseInv
      <4>2. ASSUME NEW q \in {"code", "owners"}, NEW a, Answers(q, a) PROVE Answers(q, a)'
        <5>1. Created \in Nat /\ VenuesHandedOff \in Nat
          BY DEF Created, VenuesHandedOff
        <5>2. CASE q = "code"
          BY <2>13, <4>2, <5>1, <5>2 DEF Answers, SameCode
        <5>3. CASE q = "owners"
          BY <2>13, <4>2, <5>1, <5>3 DEF Answers
        <5> QED BY <5>2, <5>3
      <4> QED BY <4>1, <4>2 DEF AnswersKept
    <3> QED BY <3>1, <3>2
  <2>15. OneSender'
    <3>1. ASSUME NEW u \in Terminals \ {t}, terminal[u].stage = "sending",
                 terminal[u].sent > 0
          PROVE  terminal[u].base # j.base
      <4>1. SUFFICES ASSUME terminal[u].base = j.base PROVE FALSE
        OBVIOUS
      <4>2. SentInOrder(terminal[u]) /\ OneSender
        BY DEF ReleaseInv
      <4>3. j.sent > 0
        BY <2>7, <3>1, <4>1, <4>2 DEF SentInOrder
      <4> QED BY <2>0, <3>1, <4>1, <4>2, <4>3 DEF OneSender, j
    <3>2. OneSender
      BY DEF ReleaseInv
    <3> QED BY <2>3, <2>5, <3>1, <3>2 DEF OneSender
  <2>16. \A n \in DOMAIN core' : n < nonceOnChain'
    BY <2>0, <2>1, <2>2, <2>6
  <2>17. VerifiedIsHandedOff' /\ ReviewedIsBroadcast' /\ \A a \in verifiedCores' : a \in Cores
    <3>1. UNCHANGED <<atRepository, broadcastBuilds, verifiedCores>>
      BY <2>1 DEF releaseSeen
    <3>2. VerifiedIsHandedOff /\ ReviewedIsBroadcast /\ \A a \in verifiedCores : a \in Cores
      BY DEF ReleaseInv
    <3>3. VenuesHandedOff \in Nat
      BY DEF VenuesHandedOff
    <3>4. VerifiedIsHandedOff'
      BY <2>13, <3>1, <3>2, <3>3 DEF VerifiedIsHandedOff, SameCode
    <3> QED BY <3>1, <3>2, <3>4 DEF ReviewedIsBroadcast, Undisturbed
  <2> QED BY <2>10, <2>11, <2>12, <2>14, <2>15, <2>16, <2>17 DEF ReleaseInv
<1>8. ASSUME NEW t \in Terminals, FinishDeploy(t) PROVE ReleaseInv'
  <2>1. /\ coreArtifact' = [coreArtifact EXCEPT ![projectRoot] = coreArtifact[deploymentRoot]]
        /\ terminal' = [terminal EXCEPT ![t] = AtPrompt]
        /\ UNCHANGED <<atRepository, tree, releaseConfig, releaseChain, releaseSeen>>
    BY <1>8 DEF FinishDeploy
  <2>2. ReleaseTypes'
    BY <1>0, <2>1 DEF ReleaseTypes, releaseChain
  <2>3. \A u \in Terminals : SourceKept(terminal[u])'
    BY <1>0, <2>1 DEF SourceKept, deploymentRoot
  <2>4. ReviewedIsBroadcast'
    BY <2>1 DEF ReleaseInv, ReviewedIsBroadcast, Undisturbed, releaseSeen
  <2>5. \A u \in Terminals : terminal'[u] = terminal[u] \/ terminal'[u].stage = "none"
    BY <1>0, <2>1
  <2> QED BY <2>1, <2>2, <2>3, <2>4, <2>5, ChainRests DEF releaseChain, releaseSeen
<1>9. ASSUME NEW t \in Terminals, CommandEnds(t) PROVE ReleaseInv'
  <2>1. /\ terminal' = [terminal EXCEPT ![t] = AtPrompt]
        /\ UNCHANGED <<atRepository, releaseFiles, releaseChain, releaseSeen>>
    BY <1>9 DEF CommandEnds
  <2>2. ReleaseTypes'
    BY <1>0, <2>1 DEF ReleaseTypes, releaseChain, releaseFiles
  <2>3. \A u \in Terminals : SourceKept(terminal[u])'
    BY <1>0, <2>1 DEF SourceKept, deploymentRoot, releaseFiles
  <2>4. ReviewedIsBroadcast'
    BY <2>1 DEF ReleaseInv, ReviewedIsBroadcast, Undisturbed, releaseSeen
  <2>5. \A u \in Terminals : terminal'[u] = terminal[u] \/ terminal'[u].stage = "none"
    BY <1>0, <2>1
  <2> QED BY <2>1, <2>2, <2>3, <2>4, <2>5, ChainRests DEF releaseChain, releaseSeen
<1>10. ASSUME NEW t \in Terminals, StartVerifyCore(t) PROVE ReleaseInv'
  <2> DEFINE found == coreArtifact[projectRoot]
             j == [AtPrompt EXCEPT !.stage = "verifying", !.config = releaseConfig,
                                   !.artifact = found]
  <2>1. /\ found \in Cores /\ releaseConfig \in ReleaseConfigs
        /\ terminal' = [terminal EXCEPT ![t] = j]
        /\ UNCHANGED <<atRepository, releaseFiles, releaseChain, releaseSeen>>
    BY <1>0, <1>10 DEF StartVerifyCore, ReleaseTypes
  <2> HIDE DEF found
  <2>2. /\ j \in TerminalRecords /\ j.stage = "verifying" /\ j.artifact = found
        /\ j.asked = {}
    BY <2>1 DEF AtPrompt, TerminalRecords
  <2> HIDE DEF j
  <2>3. ReleaseTypes'
    BY <1>0, <2>1, <2>2 DEF ReleaseTypes, releaseFiles, releaseChain
  <2>4. \A u \in Terminals : SourceKept(terminal[u])'
    BY <1>0, <2>1, <2>2 DEF SourceKept, deploymentRoot, releaseFiles
  <2>5. ReviewedIsBroadcast'
    BY <2>1 DEF ReleaseInv, ReviewedIsBroadcast, Undisturbed, releaseSeen
  <2>6. terminal'[t] = j /\ \A u \in Terminals \ {t} : terminal'[u] = terminal[u]
    BY <1>0, <2>1
  <2> QED BY <2>1, <2>2, <2>3, <2>4, <2>5, <2>6, ChainRests DEF releaseChain, releaseSeen
<1>11. ASSUME NEW t \in Terminals, Ask(t) PROVE ReleaseInv'
  <2> DEFINE j == terminal[t]
             question == NextQuestion(j.asked)
  <2>0. /\ j.stage = "verifying" /\ Answers(question, j.artifact) /\ j \in TerminalRecords
        /\ AnswersKept(j) /\ j.artifact \in Cores
        /\ UNCHANGED <<atRepository, releaseFiles, releaseChain, broadcastBuilds>>
    BY <1>0, <1>11 DEF Ask, ReleaseInv, AnswersKept
  <2>1. j.asked \in SUBSET {"code", "owners"} /\ (j.asked # {} => "code" \in j.asked)
    BY <2>0 DEF TerminalRecords, AnswersKept
  <2>2. ReviewedIsBroadcast'
    BY <2>0 DEF ReleaseInv, ReviewedIsBroadcast, Undisturbed
  <2>3. \/ j.asked = {} /\ question = "code"
        \/ j.asked = {"code"} /\ question = "owners"
        \/ {"code", "owners"} \subseteq j.asked /\ question = "wiring"
    BY <2>1 DEF NextQuestion
  <2>4. CASE question = "wiring"
    <3>1. /\ verifiedCores' = verifiedCores \cup {j.artifact}
          /\ terminal' = [terminal EXCEPT ![t] = AtPrompt]
      BY <1>11, <2>4 DEF Ask
    <3>2. MinedAt(j.artifact, VenuesHandedOff) /\ SameCode(j.artifact)
      BY <2>0, <2>3, <2>4 DEF AnswersKept, Answers
    <3>3. ReleaseTypes'
      BY <1>0, <2>0, <3>1 DEF ReleaseTypes, releaseChain, releaseFiles
    <3>4. \A u \in Terminals : terminal'[u] = terminal[u] \/ terminal'[u].stage = "none"
      BY <1>0, <3>1
    <3>5. /\ UNCHANGED <<core, nonceOnChain, atRepository, tree>>
          /\ deploymentRoot' = deploymentRoot
      BY <2>0 DEF releaseChain, releaseFiles, deploymentRoot
    <3>6. ASSUME NEW u \in Terminals
          PROVE  SourceKept(terminal[u])' /\ SentInOrder(terminal[u])' /\ AnswersKept(terminal[u])'
      BY <3>4, <3>5 DEF ReleaseInv, SourceKept, SentInOrder, AnswersKept, Answers, SameCode, MinedAt,
         Deployed
    <3>7. OneSender'
      BY <3>4 DEF ReleaseInv, OneSender
    <3>8. VerifiedIsHandedOff' /\ \A a \in verifiedCores' : a \in Cores
      BY <2>0, <3>1, <3>2, <3>5 DEF ReleaseInv, VerifiedIsHandedOff, SameCode, MinedAt, Deployed
    <3>9. \A n \in DOMAIN core' : n < nonceOnChain'
      BY <3>5 DEF ReleaseInv
    <3> QED BY <2>2, <3>3, <3>6, <3>7, <3>8, <3>9 DEF ReleaseInv
  <2>5. CASE question # "wiring"
    <3> DEFINE k == [j EXCEPT !.asked = @ \cup {question}]
    <3>1. terminal' = [terminal EXCEPT ![t] = k] /\ UNCHANGED verifiedCores
      BY <1>11, <2>5 DEF Ask
    <3>2. j.asked \cup {question} \in SUBSET {"code", "owners"}
      BY <2>1, <2>3, <2>5
    <3> HIDE DEF question
    <3>3. /\ k \in TerminalRecords /\ k.stage = "verifying" /\ k.artifact = j.artifact
          /\ k.asked = j.asked \cup {question}
      BY <2>0, <3>2 DEF TerminalRecords
    <3>4. terminal'[t] = k /\ \A u \in Terminals \ {t} : terminal'[u] = terminal[u]
      BY <1>0, <3>1
    <3> HIDE DEF k
    <3>5. /\ UNCHANGED <<core, nonceOnChain, atRepository, tree>>
          /\ deploymentRoot' = deploymentRoot
      BY <2>0 DEF releaseChain, releaseFiles, deploymentRoot
    <3>6. ReleaseTypes'
      BY <1>0, <2>0, <3>1, <3>3 DEF ReleaseTypes, releaseChain, releaseFiles
    <3>7. ASSUME NEW u \in Terminals
          PROVE  SourceKept(terminal[u])' /\ SentInOrder(terminal[u])' /\ AnswersKept(terminal[u])'
      <4>1. CASE u # t
        BY <3>4, <3>5, <4>1 DEF ReleaseInv, SourceKept, SentInOrder, AnswersKept, Answers, SameCode,
           MinedAt, Deployed
      <4>2. CASE u = t
        <5>1. SourceKept(terminal[u])' /\ SentInOrder(terminal[u])'
          BY <3>3, <3>4, <4>2 DEF SourceKept, SentInOrder
        <5>2. \A q \in k.asked : Answers(q, j.artifact)
          BY <2>0, <2>1, <2>3, <3>3 DEF AnswersKept
        <5>3. "code" \in k.asked
          BY <2>3, <2>5, <3>3
        <5>4. \A q, a : Answers(q, a) => Answers(q, a)'
          BY <3>5 DEF Answers, SameCode, MinedAt, Deployed
        <5> QED BY <2>0, <3>3, <3>4, <4>2, <5>1, <5>2, <5>3, <5>4 DEF AnswersKept
      <4> QED BY <4>1, <4>2
    <3>8. OneSender'
      BY <3>3, <3>4 DEF ReleaseInv, OneSender
    <3>9. VerifiedIsHandedOff' /\ \A a \in verifiedCores' : a \in Cores
      BY <3>1, <3>5 DEF ReleaseInv, VerifiedIsHandedOff, SameCode, MinedAt, Deployed
    <3>10. \A n \in DOMAIN core' : n < nonceOnChain'
      BY <3>5 DEF ReleaseInv
    <3> QED BY <2>2, <3>6, <3>7, <3>8, <3>9, <3>10 DEF ReleaseInv
  <2> QED BY <2>4, <2>5
<1>12. ASSUME UNCHANGED releaseVars PROVE ReleaseInv'
  BY <1>12 DEF releaseVars, releaseFiles, releaseChain, releaseSeen, ReleaseInv, ReleaseTypes,
     SourceKept, SentInOrder, AnswersKept, Answers, SameCode, MinedAt, Deployed, OneSender, deploymentRoot,
     ReviewedIsBroadcast, Undisturbed, VerifiedIsHandedOff
<1> QED BY <1>1, <1>2, <1>3, <1>4, <1>5, <1>6, <1>7, <1>8, <1>9, <1>10, <1>11, <1>12
        DEF ReleaseNext

(* What terminals have checked, prepared and sent stays tied to the chain   *)
(* and to the sources.                                                      *)
THEOREM ReleaseInvHolds == ReleaseSpec => []ReleaseInv
  BY ReleaseStart, ReleaseStep, PTL DEF ReleaseSpec

(* The contracts that are broadcast are those that were hashed and          *)
(* reviewed, for any number of terminals, edits and deployments, unless     *)
(* files of the tree changed after the hash or another tree was named. Of   *)
(* the deployer, which is not hashed, nothing like it can be said.          *)
THEOREM BroadcastIsReviewed == ReleaseSpec => []ReviewedIsBroadcast
<1>1. ReleaseInv => ReviewedIsBroadcast
  BY DEF ReleaseInv
<1> QED BY <1>1, ReleaseInvHolds, PTL

(* A core that is reported ready is on chain as its artifact says, and      *)
(* handed off to the Safe.                                                  *)
THEOREM ReadyIsHandedOff == ReleaseSpec => []VerifiedIsHandedOff
<1>1. ReleaseInv => VerifiedIsHandedOff
  BY DEF ReleaseInv
<1> QED BY <1>1, ReleaseInvHolds, PTL

-----------------------------------------------------------------------------
(* The deployment studio.  What a command keeps over its await is good for   *)
(* as long as no edit or deployment overtook it.                             *)

Commands ==
    {"doctor", "plan", "deploy", "verify", "onboard", "ports", "spawn", "health",
     "save", "confirm", "withdraw", "stop", "failing"}
Readings == [files: Contents, artifact: Nat]
StudioPlans == [files: Contents, rpcUrl: Rpcs]
StudioJobRecords ==
    [action: Commands \cup {NoFiles}, read: Readings \cup {NoFiles},
     fingerprint: Contents \cup {NoFiles}, object: Nat, rpcUrl: Rpcs \cup {NoFiles},
     edits: Nat, overtaken: BOOLEAN, stops: Nat]
Evidences == [doctor: Contents \cup {NoFiles}, plan: StudioPlans \cup {NoFiles}]
Deployments == [files: Contents, rpcUrl: Rpcs \cup {NoFiles}, demo: BOOLEAN]

StudioTypes ==
    /\ projectFiles \in Contents /\ artifact \in Nat /\ edits \in Nat
    /\ deployment \in Deployments \cup {NoFiles}
    /\ objects \in Seq(Evidences) /\ evidence \in 0..Len(objects)
    /\ job \in [StudioJobs -> StudioJobRecords]
    /\ children \in Nat /\ launches \in Nat

Named == verified \cup misnamed

(* A dry run that no edit overtook has read what it names; what is onboarded *)
(* was named verified as it was deployed, what is launched as it is.         *)
GoodJob(q) ==
    /\ q.action = "plan" =>
          /\ q.object \in 1..Len(objects) /\ q.fingerprint \in Contents /\ q.rpcUrl \in Rpcs
          /\ q.edits <= edits
          /\ q.edits = edits => /\ q.fingerprint = projectFiles
                                /\ q.read = NoFiles \/ q.read.files = projectFiles
    /\ q.action = "onboard" /\ ~q.overtaken =>
          [files |-> deployment.files, artifact |-> artifact] \in Named
    /\ q.action \in {"ports", "spawn"} /\ ~q.overtaken => Present \in Named
    /\ q.action = "confirm" => q.read \in Named

PlansWereRun ==
    \A i \in DOMAIN objects : objects[i].plan \in dryRuns \cup overtaken \cup {NoFiles}

WhoListensIsVerified ==
    listening # NoListener => listening.overtaken \/ listening.serves \in Named

StudioInv ==
    /\ StudioTypes
    /\ \A j \in StudioJobs : GoodJob(job[j])
    /\ PlansWereRun /\ WhoListensIsVerified
    /\ activation \in Named \cup {NoFiles}
    /\ PlannedIsDeployed /\ RunningIsVerified

(* Nothing runs at rest. *)
LEMMA AtRestInTheStudio ==
  /\ NoJob \in StudioJobRecords
  /\ NoJob.action = NoFiles /\ NoFiles \notin Commands
<1>1. NoJob \in StudioJobRecords /\ NoJob.action = NoFiles
  BY DEF NoJob, StudioJobRecords
<1>2. NoFiles \notin Commands
  BY StudioAssumption DEF Commands
<1> QED BY <1>1, <1>2

LEMMA StudioStarts == StudioInit => StudioInv
<1> SUFFICES ASSUME StudioInit PROVE StudioInv
  OBVIOUS
<1>1. projectFiles \in Contents
  BY StudioAssumption DEF StudioInit
<1>2. objects = <<>> /\ objects \in Seq(Evidences) /\ evidence \in 0..Len(objects)
  BY DEF StudioInit
<1>3. job \in [StudioJobs -> StudioJobRecords]
      /\ \A j \in StudioJobs : job[j].action \notin Commands
  BY AtRestInTheStudio DEF StudioInit
<1>4. \A j \in StudioJobs : GoodJob(job[j])
  BY <1>3 DEF GoodJob, Commands
<1>5. StudioTypes
  BY <1>1, <1>2, <1>3 DEF StudioInit, StudioTypes
<1> QED BY <1>2, <1>4, <1>5 DEF StudioInit, StudioInv, PlansWereRun, WhoListensIsVerified,
     PlannedIsDeployed, RunningIsVerified, Named

(* A step that leaves the files and what was checked of them alone keeps the *)
(* invariant when the jobs it leaves are good.                               *)
LEMMA QuietSteps ==
  ASSUME StudioInv, UNCHANGED <<persisted, edits, Named>>,
         UNCHANGED <<inMemory, dryRuns, overtaken>>,
         job' \in [StudioJobs -> StudioJobRecords], children' \in Nat, launches' \in Nat,
         \A j \in StudioJobs : job'[j] = job[j] \/ GoodJob(job'[j]),
         WhoListensIsVerified', PlannedIsDeployed', RunningIsVerified'
  PROVE  StudioInv'
<1>1. StudioTypes'
  BY DEF StudioInv, StudioTypes, persisted, inMemory
<1>2. ASSUME NEW j \in StudioJobs PROVE GoodJob(job[j])'
  <2>1. GoodJob(job'[j])
    BY DEF StudioInv
  <2>2. UNCHANGED <<objects, edits, projectFiles, deployment, artifact, Named, Present>>
    BY DEF persisted, inMemory, Present
  <2> QED BY <2>1, <2>2 DEF GoodJob
<1>3. PlansWereRun'
  BY DEF StudioInv, PlansWereRun, inMemory
<1>4. (activation \in Named \cup {NoFiles})'
  BY DEF StudioInv, persisted
<1> QED BY <1>1, <1>2, <1>3, <1>4 DEF StudioInv

(* The manager's steps that start nothing. *)
LEMMA ManagersStop ==
  ASSUME StudioInv, UNCHANGED <<Named, broadcasts, dryRuns, overtaken, served>>,
         listening' \in {NoListener, listening}
  PROVE  WhoListensIsVerified' /\ PlannedIsDeployed' /\ RunningIsVerified'
BY DEF StudioInv, WhoListensIsVerified, PlannedIsDeployed, RunningIsVerified, Named

(* One job is replaced. *)
LEMMA OneJob ==
  ASSUME StudioTypes, NEW j \in StudioJobs, NEW q \in StudioJobRecords,
         job' = [job EXCEPT ![j] = q]
  PROVE  /\ job' \in [StudioJobs -> StudioJobRecords]
         /\ job'[j] = q /\ \A i \in StudioJobs \ {j} : job'[i] = job[i]
BY DEF StudioTypes

LEMMA DoneIsGood ==
  ASSUME StudioTypes, NEW j \in StudioJobs, Done(j)
  PROVE  /\ job' \in [StudioJobs -> StudioJobRecords]
         /\ \A i \in StudioJobs : job'[i] = job[i] \/ job'[i] = NoJob
BY AtRestInTheStudio, OneJob DEF Done

LEMMA NoJobIsGood == GoodJob(NoJob)
BY AtRestInTheStudio DEF GoodJob, Commands

(* A request that waits for services to end, or goes on.                     *)
LEMMA StopsKeepJobs ==
  ASSUME StudioInv, NEW j \in StudioJobs, NEW q \in StudioJobRecords, GoodJob(q), q.action # NoFiles,
         StopFor(j, q) \/ stopProjectRuntime(j, q)
  PROVE  /\ job' \in [StudioJobs -> StudioJobRecords]
         /\ \A i \in StudioJobs : job'[i] = job[i] \/ GoodJob(job'[i])
         /\ \A i \in StudioJobs \ {j} : job'[i] = job[i]
         /\ job'[j].action = q.action
         /\ children' \in Nat /\ launches' \in Nat /\ UNCHANGED <<listening, served>>
<1> DEFINE k == [q EXCEPT !.stops = children]
<1>1. children \in Nat /\ launches \in Nat /\ StudioTypes
  BY DEF StudioInv, StudioTypes
<1>2. /\ k \in StudioJobRecords /\ k.action = q.action /\ k.object = q.object
      /\ k.fingerprint = q.fingerprint /\ k.rpcUrl = q.rpcUrl /\ k.edits = q.edits
      /\ k.read = q.read /\ k.overtaken = q.overtaken
  BY <1>1 DEF StudioJobRecords
<1>3. /\ job' = [job EXCEPT ![j] = k] \/ job' = [job EXCEPT ![j] = q]
      /\ children' \in {0, children} /\ UNCHANGED <<launches, listening, served>>
  BY DEF StopFor, stopProjectRuntime, manager
<1> HIDE DEF k
<1>4. GoodJob(k)
  BY <1>2 DEF GoodJob
<1> QED BY <1>1, <1>2, <1>3, <1>4, OneJob

(* Jobs that end, and what reads the files. *)
LEMMA JobsEnd ==
  ASSUME StudioInv, NEW j \in StudioJobs,
         ReadFiles(j) \/ CommandFails(j) \/ PortTaken(j)
  PROVE  StudioInv'
<1>1. /\ UNCHANGED <<persisted, edits, Named>> /\ UNCHANGED <<inMemory, dryRuns, overtaken>>
      /\ UNCHANGED <<Named, broadcasts, dryRuns, overtaken, served>>
      /\ listening' \in {NoListener, listening}
      /\ children' \in Nat /\ launches' \in Nat
  BY DEF ReadFiles, CommandFails, PortTaken, observed, confirmed, Named, manager, StudioInv,
     StudioTypes
<1>2. /\ job' \in [StudioJobs -> StudioJobRecords]
      /\ \A i \in StudioJobs : job'[i] = job[i] \/ GoodJob(job'[i])
  <2>1. CASE ReadFiles(j)
    <3> DEFINE q == [job[j] EXCEPT !.read = Present]
    <3>1. Present \in Readings /\ Present.files = projectFiles
      BY DEF Present, Readings, StudioInv, StudioTypes
    <3>2. /\ q \in StudioJobRecords /\ q.read = Present
          /\ q.action = job[j].action /\ q.object = job[j].object
          /\ q.fingerprint = job[j].fingerprint /\ q.rpcUrl = job[j].rpcUrl
          /\ q.edits = job[j].edits /\ q.overtaken = job[j].overtaken
      BY <3>1 DEF StudioInv, StudioTypes, StudioJobRecords
    <3>3. job' = [job EXCEPT ![j] = q] /\ job[j].action # "confirm"
      BY <2>1 DEF ReadFiles, Children
    <3> HIDE DEF q
    <3>4. GoodJob(q)
      <4>1. GoodJob(job[j])
        BY DEF StudioInv
      <4> QED BY <3>1, <3>2, <3>3, <4>1 DEF GoodJob
    <3> QED BY <3>2, <3>3, <3>4, OneJob DEF StudioInv
  <2>2. CASE Done(j)
    BY <2>2, DoneIsGood, NoJobIsGood DEF StudioInv
  <2> QED BY <2>1, <2>2 DEF CommandFails, PortTaken
<1> QED BY <1>1, <1>2, QuietSteps, ManagersStop

(* A launch that fails, a stop and what waits for it. *)
LEMMA StopsEnd ==
  ASSUME StudioInv, NEW j \in StudioJobs,
         LaunchFails(j) \/ StopRequested(j) \/ Handoff(j) \/ Exited(j)
  PROVE  StudioInv'
<1>1. /\ UNCHANGED <<persisted, edits, Named>> /\ UNCHANGED <<inMemory, dryRuns, overtaken>>
      /\ UNCHANGED <<Named, broadcasts, dryRuns, overtaken, served>>
      /\ listening' \in {NoListener, listening}
      /\ children' \in Nat /\ launches' \in Nat
  BY DEF LaunchFails, StopRequested, Handoff, Exited, Stop, StopFor, Ended, observed, confirmed,
     Named, StudioInv, StudioTypes
<1>2. children \in Nat /\ job[j] \in StudioJobRecords /\ GoodJob(job[j])
  BY DEF StudioInv, StudioTypes
<1> DEFINE waits(a) == [[NoJob EXCEPT !.action = a] EXCEPT !.stops = children]
           resumed == [job[j] EXCEPT !.stops = 0]
<1>3. ASSUME NEW a \in {"stop", "failing"}
      PROVE  waits(a) \in StudioJobRecords /\ GoodJob(waits(a))
  <2>1. waits(a) \in StudioJobRecords /\ waits(a).action = a
    BY <1>2 DEF NoJob, StudioJobRecords, Commands
  <2> HIDE DEF waits
  <2> QED BY <2>1 DEF GoodJob
<1>4. resumed \in StudioJobRecords /\ GoodJob(resumed)
  <2>1. /\ resumed \in StudioJobRecords /\ resumed.action = job[j].action
        /\ resumed.object = job[j].object
        /\ resumed.fingerprint = job[j].fingerprint /\ resumed.rpcUrl = job[j].rpcUrl
        /\ resumed.edits = job[j].edits /\ resumed.read = job[j].read
        /\ resumed.overtaken = job[j].overtaken
    BY <1>2 DEF StudioJobRecords
  <2> HIDE DEF resumed
  <2> QED BY <1>2, <2>1 DEF GoodJob
<1>5. PICK q \in {NoJob, resumed, waits("stop"), waits("failing")} : job' = [job EXCEPT ![j] = q]
  <2>1. CASE LaunchFails(j)
    <3>1. [NoJob EXCEPT !.action = "failing", !.stops = children] = waits("failing")
      BY DEF NoJob
    <3> QED BY <2>1, <3>1 DEF LaunchFails
  <2>2. CASE StopRequested(j) \/ Handoff(j)
    <3>1. Stop(j)
      BY <2>2 DEF StopRequested, Handoff
    <3>2. CASE children = 0
      <4>1. [NoJob EXCEPT !.stops = children] = NoJob
        <5>1. ASSUME NEW r \in StudioJobRecords, r.stops = children
              PROVE  [r EXCEPT !.stops = children] = r
          BY <5>1 DEF StudioJobRecords
        <5>2. NoJob \in StudioJobRecords
          BY AtRestInTheStudio
        <5>3. NoJob.stops = children
          BY <3>2 DEF NoJob
        <5> QED BY <5>1, <5>2, <5>3
      <4> QED BY <3>1, <3>2, <4>1 DEF Stop, StopFor
    <3>3. CASE children # 0
      BY <3>1, <3>3 DEF Stop, StopFor
    <3> QED BY <3>2, <3>3
  <2>3. CASE Exited(j)
    <3>1. job' = [job EXCEPT ![j] = IF job[j].action \in {"stop", "failing"} THEN NoJob
                                    ELSE resumed]
      BY <2>3 DEF Exited
    <3>2. CASE job[j].action \in {"stop", "failing"}
      BY <3>1, <3>2
    <3>3. CASE job[j].action \notin {"stop", "failing"}
      BY <3>1, <3>3
    <3> QED BY <3>2, <3>3
  <2> HIDE DEF waits, resumed
  <2> QED BY <2>1, <2>2, <2>3
<1>6. q \in StudioJobRecords /\ GoodJob(q)
  BY <1>3, <1>4, NoJobIsGood, AtRestInTheStudio
<1> HIDE DEF waits, resumed
<1>7. /\ job' \in [StudioJobs -> StudioJobRecords]
      /\ \A i \in StudioJobs : job'[i] = job[i] \/ GoodJob(job'[i])
  BY <1>5, <1>6, OneJob DEF StudioInv
<1> QED BY <1>1, <1>7, QuietSteps, ManagersStop

(* Commands that start without a look at the evidence. *)
LEMMA CommandsBegin ==
  ASSUME StudioInv, NEW j \in StudioJobs, StartDoctor(j) \/ StartVerify(j) \/ StartSave(j)
  PROVE  StudioInv'
<1>1. /\ UNCHANGED <<persisted, edits, Named>> /\ UNCHANGED <<inMemory, dryRuns, overtaken>>
      /\ UNCHANGED <<Named, broadcasts, dryRuns, overtaken>>
  BY DEF StartDoctor, StartVerify, StartSave, Run, observed, confirmed, Named
<1>2. PICK a \in {"doctor", "verify", "save"} :
         \/ job' = [job EXCEPT ![j] = [NoJob EXCEPT !.action = a]] /\ UNCHANGED manager
         \/ stopProjectRuntime(j, [NoJob EXCEPT !.action = a])
  BY DEF StartDoctor, StartVerify, StartSave, Run
<1> DEFINE q == [NoJob EXCEPT !.action = a]
<1>3. q \in StudioJobRecords /\ q.action = a
  BY AtRestInTheStudio DEF StudioJobRecords, Commands
<1> HIDE DEF q
<1>4. GoodJob(q)
  BY <1>3 DEF GoodJob
<1>5. /\ job' \in [StudioJobs -> StudioJobRecords]
      /\ \A i \in StudioJobs : job'[i] = job[i] \/ GoodJob(job'[i])
      /\ children' \in Nat /\ launches' \in Nat /\ UNCHANGED <<listening, served>>
  <2>1. CASE job' = [job EXCEPT ![j] = q] /\ UNCHANGED manager
    BY <1>3, <1>4, <2>1, OneJob DEF StudioInv, StudioTypes, manager
  <2>2. CASE stopProjectRuntime(j, q)
    <3>1. q.action # NoFiles
      BY <1>3, AtRestInTheStudio DEF Commands
    <3> QED BY <1>3, <1>4, <2>2, <3>1, StopsKeepJobs
  <2> QED BY <1>2, <2>1, <2>2 DEF q
<1> QED BY <1>1, <1>5, QuietSteps, ManagersStop

(* The body of an activation is awaited with what was verified.              *)
LEMMA ActivationsBegin ==
  ASSUME StudioInv, NEW j \in StudioJobs, StartActivation(j)
  PROVE  StudioInv'
<1>1. /\ UNCHANGED <<persisted, edits, Named>> /\ UNCHANGED <<inMemory, dryRuns, overtaken>>
      /\ UNCHANGED <<Named, broadcasts, dryRuns, overtaken, served, listening>>
      /\ children' \in Nat /\ launches' \in Nat
  BY DEF StartActivation, observed, confirmed, Named, manager, StudioInv, StudioTypes
<1>2. Present \in Readings /\ Present # NoFiles
  BY StudioAssumption DEF Present, Readings, StudioInv, StudioTypes
<1>3. PICK a \in {"confirm", "withdraw"} :
         /\ a = "confirm" => activation = Present
         /\ job' = [job EXCEPT ![j] = [NoJob EXCEPT !.action = a, !.read = Present]]
  BY DEF StartActivation, Verified
<1> DEFINE q == [NoJob EXCEPT !.action = a, !.read = Present]
<1>4. q \in StudioJobRecords /\ q.action = a /\ q.read = Present
  BY <1>2 DEF NoJob, StudioJobRecords, Commands
<1>5. a = "confirm" => Present \in Named
  BY <1>2, <1>3 DEF StudioInv
<1>6. job' = [job EXCEPT ![j] = q]
  BY <1>3
<1> HIDE DEF q
<1>7. GoodJob(q)
  BY <1>4, <1>5 DEF GoodJob
<1>8. /\ job' \in [StudioJobs -> StudioJobRecords]
      /\ \A i \in StudioJobs : job'[i] = job[i] \/ GoodJob(job'[i])
  BY <1>4, <1>6, <1>7, OneJob DEF StudioInv
<1> QED BY <1>1, <1>8, QuietSteps, ManagersStop

(* A dry run remembers the files that doctor has seen. *)
LEMMA PlansBegin ==
  ASSUME StudioInv, NEW j \in StudioJobs, NEW rpcUrl \in Rpcs, StartPlan(j, rpcUrl)
  PROVE  StudioInv'
<1>1. /\ UNCHANGED <<persisted, edits, Named>> /\ UNCHANGED <<inMemory, dryRuns, overtaken>>
      /\ UNCHANGED <<Named, broadcasts, dryRuns, overtaken, served>>
      /\ listening' \in {NoListener, listening}
      /\ children' \in Nat /\ launches' \in Nat
  BY DEF StartPlan, Run, observed, confirmed, Named, manager, StudioInv, StudioTypes
<1> DEFINE q == [NoJob EXCEPT !.action = "plan", !.fingerprint = projectFiles,
                              !.object = evidence, !.rpcUrl = rpcUrl, !.edits = edits]
<1>2. /\ q \in StudioJobRecords /\ q.action = "plan" /\ q.fingerprint = projectFiles
      /\ q.object = evidence /\ q.rpcUrl = rpcUrl /\ q.edits = edits /\ q.read = NoFiles
  <2>1. projectFiles \in Contents /\ evidence \in Nat /\ edits \in Nat
    BY DEF StudioInv, StudioTypes
  <2>2. "plan" \in Commands
    BY DEF Commands
  <2> QED BY <2>1, <2>2 DEF StudioJobRecords, NoJob
<1>3. job' = [job EXCEPT ![j] = q] /\ evidence # 0
  BY DEF StartPlan, Run
<1> HIDE DEF q
<1>4. GoodJob(q)
  BY <1>2, <1>3 DEF GoodJob, StudioInv, StudioTypes
<1>5. /\ job' \in [StudioJobs -> StudioJobRecords]
      /\ \A i \in StudioJobs : job'[i] = job[i] \/ GoodJob(job'[i])
  BY <1>2, <1>3, <1>4, OneJob DEF StudioInv
<1> QED BY <1>1, <1>5, QuietSteps, ManagersStop

(* A deployment is accepted on a plan that names the files there are. *)
LEMMA DeploysBegin ==
  ASSUME StudioInv, NEW j \in StudioJobs, NEW rpcUrl \in Rpcs, StartDeploy(j, rpcUrl)
  PROVE  StudioInv'
<1>1. /\ UNCHANGED <<persisted, edits, Named>> /\ UNCHANGED <<inMemory, dryRuns, overtaken>>
  BY DEF StartDeploy, confirmed, Named
<1> DEFINE q == [NoJob EXCEPT !.action = "deploy", !.rpcUrl = rpcUrl]
           plan == [files |-> projectFiles, rpcUrl |-> rpcUrl]
<1>2. q \in StudioJobRecords /\ q.action = "deploy" /\ q.action # NoFiles
  BY AtRestInTheStudio DEF NoJob, StudioJobRecords, Commands
<1>3. /\ stopProjectRuntime(j, q) /\ evidence # 0
      /\ objects[evidence].plan = plan /\ broadcasts' = broadcasts \cup {plan}
  BY DEF StartDeploy, Planned
<1> HIDE DEF q
<1>4. GoodJob(q)
  BY <1>2 DEF GoodJob
<1>5. /\ job' \in [StudioJobs -> StudioJobRecords]
      /\ \A i \in StudioJobs : job'[i] = job[i] \/ GoodJob(job'[i])
      /\ children' \in Nat /\ launches' \in Nat /\ UNCHANGED <<listening, served>>
  BY <1>2, <1>3, <1>4, StopsKeepJobs
<1>6. plan \in dryRuns \cup overtaken
  <2>1. evidence \in DOMAIN objects
    BY <1>3 DEF StudioInv, StudioTypes
  <2>2. plan # NoFiles
    BY StudioAssumption DEF StudioInv, StudioTypes
  <2> QED BY <1>3, <2>1, <2>2 DEF StudioInv, PlansWereRun
<1>7. PlannedIsDeployed'
  BY <1>1, <1>3, <1>6 DEF StudioInv, PlannedIsDeployed
<1>8. WhoListensIsVerified' /\ RunningIsVerified'
  BY <1>1, <1>5 DEF StudioInv, WhoListensIsVerified, RunningIsVerified, Named
<1> QED BY <1>1, <1>5, <1>7, <1>8, QuietSteps

(* Doctor's answer goes to the object that is current by then, or to a new one. *)
LEMMA DoctorsEnd ==
  ASSUME StudioInv, NEW j \in StudioJobs, EndDoctor(j)
  PROVE  StudioInv'
<1> DEFINE current == IF evidence = 0 THEN Len(objects) + 1 ELSE evidence
           before == IF evidence = 0 THEN Append(objects, NothingChecked) ELSE objects
           good == dryRuns \cup overtaken \cup {NoFiles}
<1>1. NothingChecked \in Evidences /\ NothingChecked.plan = NoFiles
  BY DEF NothingChecked, Evidences
<1>2. /\ before \in Seq(Evidences) /\ current \in 1..Len(before) /\ Len(before) >= Len(objects)
      /\ \A i \in 1..Len(before) : before[i].plan \in good
  <2>1. CASE evidence = 0
    <3>1. /\ before \in Seq(Evidences) /\ Len(before) = Len(objects) + 1
          /\ \A i \in 1..Len(objects) : before[i] = objects[i]
          /\ before[Len(objects) + 1] = NothingChecked
      BY <1>1, <2>1 DEF StudioInv, StudioTypes
    <3>2. \A i \in 1..Len(objects) : objects[i].plan \in good
      BY DEF StudioInv, StudioTypes, PlansWereRun
    <3>3. Len(objects) \in Nat
      BY DEF StudioInv, StudioTypes
    <3> HIDE DEF before
    <3> QED BY <1>1, <2>1, <3>1, <3>2, <3>3
  <2>2. CASE evidence # 0
    BY <2>2 DEF StudioInv, StudioTypes, PlansWereRun
  <2> QED BY <2>1, <2>2
<1>3. /\ evidence' = current /\ Done(j)
      /\ \/ objects' = [before EXCEPT ![current].doctor = projectFiles]
         \/ objects' = [before EXCEPT ![current] = NothingChecked]
      /\ UNCHANGED <<persisted, manager, edits, observed>>
  BY DEF EndDoctor
<1> HIDE DEF current, before
<1>4. /\ objects' \in Seq(Evidences) /\ Len(objects') = Len(before)
      /\ \A i \in 1..Len(before) : objects'[i].plan \in good
  <2>1. PICK e \in Evidences : objects' = [before EXCEPT ![current] = e] /\ e.plan \in good
    <3>1. CASE objects' = [before EXCEPT ![current] = NothingChecked]
      BY <1>1, <3>1
    <3>2. CASE objects' = [before EXCEPT ![current].doctor = projectFiles]
      <4> DEFINE e == [before[current] EXCEPT !.doctor = projectFiles]
      <4>1. before[current] \in Evidences /\ before[current].plan \in good
        BY <1>2
      <4>2. projectFiles \in Contents
        BY DEF StudioInv, StudioTypes
      <4>3. e \in Evidences /\ e.plan = before[current].plan
        BY <4>1, <4>2 DEF Evidences
      <4> QED BY <3>2, <4>1, <4>3
    <3> QED BY <1>3, <3>1, <3>2
  <2> HIDE DEF good
  <2> QED BY <1>2, <2>1
<1>5. UNCHANGED <<projectFiles, artifact, activation, deployment, edits, Named, dryRuns,
                  overtaken, broadcasts, served, listening, children, launches>>
  BY <1>3 DEF persisted, manager, observed, confirmed, Named
<1>6. /\ job' \in [StudioJobs -> StudioJobRecords]
      /\ \A i \in StudioJobs : job'[i] = job[i] \/ job'[i] = NoJob
  BY <1>3, DoneIsGood DEF StudioInv
<1>7. StudioTypes'
  BY <1>2, <1>3, <1>4, <1>5, <1>6 DEF StudioInv, StudioTypes
<1>8. ASSUME NEW i \in StudioJobs PROVE GoodJob(job[i])'
  <2>1. GoodJob(job'[i])
    BY <1>6, NoJobIsGood DEF StudioInv
  <2>2. Len(objects) <= Len(objects') /\ Len(objects) \in Nat /\ Len(objects') \in Nat
    BY <1>2, <1>4 DEF StudioInv, StudioTypes
  <2> QED BY <1>5, <2>1, <2>2 DEF GoodJob, Present
<1>9. PlansWereRun'
  BY <1>4, <1>5 DEF PlansWereRun
<1>10. /\ WhoListensIsVerified' /\ PlannedIsDeployed' /\ RunningIsVerified'
       /\ (activation \in Named \cup {NoFiles})'
  BY <1>5 DEF StudioInv, WhoListensIsVerified, PlannedIsDeployed, RunningIsVerified, Named
<1> QED BY <1>7, <1>8, <1>9, <1>10 DEF StudioInv

(* A plan that is kept names the files its run read, or an edit overtook it. *)
LEMMA PlansEnd ==
  ASSUME StudioInv, NEW j \in StudioJobs, EndPlan(j)
  PROVE  StudioInv'
<1> DEFINE q == job[j]
           plan == [files |-> q.fingerprint, rpcUrl |-> q.rpcUrl]
           good == dryRuns' \cup overtaken' \cup {NoFiles}
<1>1. /\ q.action = "plan" /\ q.read # NoFiles /\ GoodJob(q) /\ q \in StudioJobRecords
  BY DEF EndPlan, Running, StudioInv, StudioTypes
<1>2. /\ objects' = [objects EXCEPT ![q.object].plan = plan] /\ evidence' = q.object
      /\ dryRuns' = dryRuns \cup {[plan EXCEPT !.files = q.read.files]}
      /\ overtaken' = overtaken \cup (IF edits # q.edits THEN {plan} ELSE {})
      /\ Done(j)
      /\ UNCHANGED <<persisted, manager, edits, broadcasts, Named>>
  BY DEF EndPlan, confirmed, Named
<1>3. plan \in StudioPlans /\ q.object \in 1..Len(objects)
  BY <1>1 DEF GoodJob, StudioPlans
<1>4. plan \in good
  <2>1. CASE edits # q.edits
    BY <1>2, <2>1
  <2>2. CASE edits = q.edits
    <3>1. q.read.files = q.fingerprint
      BY <1>1, <2>2 DEF GoodJob
    <3>2. [plan EXCEPT !.files = q.read.files] = plan
      BY <3>1
    <3> QED BY <1>2, <3>2
  <2> QED BY <2>1, <2>2
<1> HIDE DEF q, plan
<1>5. /\ objects' \in Seq(Evidences) /\ Len(objects') = Len(objects)
      /\ \A i \in 1..Len(objects) : objects'[i].plan \in good
  <2> DEFINE e == [objects[q.object] EXCEPT !.plan = plan]
  <2>1. objects \in Seq(Evidences) /\ objects[q.object] \in Evidences
    BY <1>3 DEF StudioInv, StudioTypes
  <2>2. e \in Evidences /\ e.plan = plan
    BY <1>3, <2>1 DEF Evidences
  <2>3. objects' = [objects EXCEPT ![q.object] = e]
    BY <1>2
  <2>4. \A i \in 1..Len(objects) : objects[i].plan \in good
    BY <1>2, <2>1 DEF StudioInv, PlansWereRun
  <2> HIDE DEF e, good
  <2> QED BY <1>3, <1>4, <2>1, <2>2, <2>3, <2>4
<1>6. UNCHANGED <<projectFiles, artifact, activation, deployment, edits, Named,
                  broadcasts, served, listening, children, launches>>
  BY <1>2 DEF persisted, manager
<1>7. /\ job' \in [StudioJobs -> StudioJobRecords]
      /\ \A i \in StudioJobs : job'[i] = job[i] \/ job'[i] = NoJob
  BY <1>2, DoneIsGood DEF StudioInv
<1>8. StudioTypes'
  BY <1>2, <1>3, <1>5, <1>6, <1>7 DEF StudioInv, StudioTypes
<1>9. ASSUME NEW i \in StudioJobs PROVE GoodJob(job[i])'
  <2>1. GoodJob(job'[i])
    BY <1>7, NoJobIsGood DEF StudioInv
  <2> QED BY <1>5, <1>6, <2>1 DEF GoodJob, Present
<1>10. PlansWereRun'
  BY <1>5 DEF PlansWereRun
<1>11. PlannedIsDeployed'
  BY <1>2 DEF StudioInv, PlannedIsDeployed
<1>12. WhoListensIsVerified' /\ RunningIsVerified' /\ (activation \in Named \cup {NoFiles})'
  BY <1>6 DEF StudioInv, WhoListensIsVerified, RunningIsVerified, Named
<1> QED BY <1>8, <1>9, <1>10, <1>11, <1>12 DEF StudioInv

(* What activation.json names was verified, or changed while it was.         *)
LEMMA ConfirmationsEnd ==
  ASSUME StudioInv, NEW j \in StudioJobs, EndVerify(j) \/ SaveActivation(j)
  PROVE  StudioInv'
<1>1. /\ Done(j)
      /\ UNCHANGED <<projectFiles, artifact, deployment, objects, evidence, edits, dryRuns,
                     overtaken, broadcasts, served, listening, children, launches>>
  BY DEF EndVerify, SaveActivation, inMemory, manager
<1>2. Named \subseteq Named' /\ activation' \in Named' \cup {NoFiles}
  <2>1. CASE EndVerify(j)
    BY <2>1 DEF EndVerify, Confirm, Named
  <2>2. CASE SaveActivation(j)
    <3>1. CASE Running(j, "confirm") /\ Confirm(j)
      <4>1. job[j].read \in Named
        BY <3>1 DEF StudioInv, GoodJob, Running
      <4>2. /\ activation' = Present /\ UNCHANGED verified
            /\ misnamed' = misnamed \cup IF job[j].read = Present THEN {} ELSE {Present}
        BY <2>2, <3>1 DEF SaveActivation, Confirm
      <4> QED BY <4>1, <4>2 DEF Named
    <3>2. CASE activation' = NoFiles /\ UNCHANGED misnamed
      BY <2>2, <3>2 DEF SaveActivation, Named
    <3> QED BY <2>2, <3>1, <3>2 DEF SaveActivation
  <2> QED BY <2>1, <2>2
<1>3. /\ job' \in [StudioJobs -> StudioJobRecords]
      /\ \A i \in StudioJobs : job'[i] = job[i] \/ job'[i] = NoJob
  BY <1>1, DoneIsGood DEF StudioInv
<1>4. StudioTypes'
  BY <1>1, <1>3 DEF StudioInv, StudioTypes
<1>5. ASSUME NEW i \in StudioJobs PROVE GoodJob(job[i])'
  <2>1. GoodJob(job'[i])
    BY <1>3, NoJobIsGood DEF StudioInv
  <2> QED BY <1>1, <1>2, <2>1 DEF GoodJob, Present
<1>6. PlansWereRun' /\ PlannedIsDeployed'
  BY <1>1 DEF StudioInv, PlansWereRun, PlannedIsDeployed
<1>7. WhoListensIsVerified' /\ RunningIsVerified'
  BY <1>1, <1>2 DEF StudioInv, WhoListensIsVerified, RunningIsVerified, Named
<1> QED BY <1>2, <1>4, <1>5, <1>6, <1>7 DEF StudioInv

(* An edit overtakes what is launched, and by its number what is planned. *)
LEMMA EditsOvertake ==
  ASSUME StudioInv, NEW j \in StudioJobs, NEW contents \in Contents, SaveFiles(j, contents)
  PROVE  StudioInv'
<1>1. /\ edits' = edits + 1 /\ projectFiles' = contents /\ activation' = NoFiles
      /\ evidence' = 0
      /\ UNCHANGED <<artifact, deployment, objects, Named, dryRuns, overtaken, broadcasts,
                     served, listening, children, launches>>
  BY DEF SaveFiles, manager, observed, confirmed, Named
<1> DEFINE Late(q) == IF q.action \in {"ports", "spawn"} THEN [q EXCEPT !.overtaken = TRUE] ELSE q
<1>2. job' = [i \in StudioJobs |-> IF i = j THEN NoJob ELSE Late(job[i])]
  BY DEF SaveFiles, OvertakeLaunches
<1>3. ASSUME NEW i \in StudioJobs
      PROVE  /\ job'[i] \in StudioJobRecords
             /\ job'[i].action \in {job[i].action, NoFiles}
             /\ job'[i].action = job[i].action =>
                  /\ job'[i].object = job[i].object /\ job'[i].fingerprint = job[i].fingerprint
                  /\ job'[i].rpcUrl = job[i].rpcUrl /\ job'[i].edits = job[i].edits
                  /\ job'[i].read = job[i].read
                  /\ job[i].overtaken => job'[i].overtaken
             /\ job'[i].action \in {"ports", "spawn"} => job'[i].overtaken
  <2>1. job[i] \in StudioJobRecords
    BY DEF StudioInv, StudioTypes
  <2>2. CASE i = j
    <3>1. job'[i] = NoJob /\ job[i].action = "save"
      BY <1>2, <2>2 DEF SaveFiles, Running
    <3> QED BY <3>1, AtRestInTheStudio DEF Commands
  <2>3. CASE i # j
    <3>1. job'[i] = Late(job[i])
      BY <1>2, <2>3
    <3> QED BY <2>1, <3>1 DEF StudioJobRecords
  <2> QED BY <2>2, <2>3
<1>9. job' \in [StudioJobs -> StudioJobRecords]
  <2>1. job' = [i \in StudioJobs |-> job'[i]]
    BY <1>2
  <2> QED BY <1>3, <2>1
<1>4. StudioTypes'
  BY <1>1, <1>9 DEF StudioInv, StudioTypes
<1>5. ASSUME NEW i \in StudioJobs PROVE GoodJob(job[i])'
  <2>1. /\ GoodJob(job[i]) /\ job[i].edits \in Nat /\ edits \in Nat
        /\ NoFiles \notin Commands
    BY AtRestInTheStudio DEF StudioInv, StudioTypes, StudioJobRecords
  <2> QED BY <1>1, <1>3, <2>1 DEF GoodJob, Commands
<1>6. /\ PlansWereRun' /\ WhoListensIsVerified' /\ PlannedIsDeployed' /\ RunningIsVerified'
      /\ (activation \in Named \cup {NoFiles})'
  BY <1>1 DEF StudioInv, PlansWereRun, WhoListensIsVerified, PlannedIsDeployed, RunningIsVerified, Named
<1> QED BY <1>4, <1>5, <1>6 DEF StudioInv

(* A deployment overtakes what is launched or onboarded. *)
LEMMA DeploysEnd ==
  ASSUME StudioInv, NEW j \in StudioJobs, EndDeploy(j)
  PROVE  StudioInv'
<1> DEFINE Late(q) == IF q.action \in {"onboard", "ports", "spawn"}
                      THEN [q EXCEPT !.overtaken = TRUE] ELSE q
<1>1. /\ artifact' = artifact + 1
      /\ deployment' = [files |-> projectFiles, rpcUrl |-> job[j].rpcUrl, demo |-> FALSE]
      /\ UNCHANGED <<projectFiles, activation, objects, evidence, edits, dryRuns, overtaken,
                     broadcasts, Named, served, listening, children, launches>>
  BY DEF EndDeploy, inMemory, manager, observed, confirmed, Named
<1>2. job' = [i \in StudioJobs |-> IF i = j THEN NoJob ELSE Late(job[i])]
  BY DEF EndDeploy, OvertakeLaunches
<1>3. ASSUME NEW i \in StudioJobs
      PROVE  /\ job'[i] \in StudioJobRecords
             /\ job'[i].action \in {job[i].action, NoFiles}
             /\ job'[i].action = job[i].action =>
                  /\ job'[i].object = job[i].object /\ job'[i].fingerprint = job[i].fingerprint
                  /\ job'[i].rpcUrl = job[i].rpcUrl /\ job'[i].edits = job[i].edits
                  /\ job'[i].read = job[i].read
             /\ job'[i].action \in {"onboard", "ports", "spawn"} => job'[i].overtaken
  <2>1. job[i] \in StudioJobRecords
    BY DEF StudioInv, StudioTypes
  <2>2. CASE i = j
    <3>1. job'[i] = NoJob
      BY <1>2, <2>2
    <3>2. job[i].action = "deploy"
      BY <2>2 DEF EndDeploy, Running
    <3> QED BY <3>1, <3>2, AtRestInTheStudio DEF Commands
  <2>3. CASE i # j
    <3>1. job'[i] = Late(job[i])
      BY <1>2, <2>3
    <3> QED BY <2>1, <3>1 DEF StudioJobRecords
  <2> QED BY <2>2, <2>3
<1>4. job' \in [StudioJobs -> StudioJobRecords]
  <2>1. job' = [i \in StudioJobs |-> job'[i]]
    BY <1>2
  <2> QED BY <1>3, <2>1
<1>5. StudioTypes'
  <2>1. job[j].rpcUrl \in Rpcs \cup {NoFiles}
    BY DEF StudioInv, StudioTypes, StudioJobRecords
  <2> QED BY <1>1, <1>4, <2>1 DEF StudioInv, StudioTypes, Deployments
<1>6. ASSUME NEW i \in StudioJobs PROVE GoodJob(job[i])'
  <2>1. GoodJob(job[i]) /\ NoFiles \notin Commands
    BY AtRestInTheStudio DEF StudioInv
  <2> QED BY <1>1, <1>3, <2>1 DEF GoodJob, Commands
<1>7. /\ PlansWereRun' /\ WhoListensIsVerified' /\ PlannedIsDeployed' /\ RunningIsVerified'
      /\ (activation \in Named \cup {NoFiles})'
  BY <1>1 DEF StudioInv, PlansWereRun, WhoListensIsVerified, PlannedIsDeployed, RunningIsVerified, Named
<1> QED BY <1>5, <1>6, <1>7 DEF StudioInv

(* A restart forgets plans and jobs. *)
LEMMA RestartsForget ==
  ASSUME StudioInv, StudioRestart
  PROVE  StudioInv'
<1>1. /\ objects' = <<>> /\ evidence' = 0 /\ job' = [i \in StudioJobs |-> NoJob]
      /\ listening' \in {NoListener, listening} /\ children' = 0 /\ UNCHANGED launches
      /\ UNCHANGED <<projectFiles, artifact, activation, deployment, served, edits, dryRuns,
                     overtaken, broadcasts, Named>>
  BY DEF StudioRestart, persisted, observed, confirmed, Named, Ended
<1>2. objects' \in Seq(Evidences) /\ Len(objects') = 0 /\ DOMAIN objects' = {}
  BY <1>1
<1>3. StudioTypes'
  BY <1>1, <1>2, AtRestInTheStudio DEF StudioInv, StudioTypes
<1>4. ASSUME NEW i \in StudioJobs PROVE GoodJob(job[i])'
  BY <1>1, AtRestInTheStudio DEF GoodJob, Commands
<1>5. /\ PlansWereRun' /\ WhoListensIsVerified' /\ PlannedIsDeployed' /\ RunningIsVerified'
      /\ (activation \in Named \cup {NoFiles})'
  BY <1>1, <1>2 DEF StudioInv, PlansWereRun, WhoListensIsVerified, PlannedIsDeployed,
     RunningIsVerified, Named
<1> QED BY <1>3, <1>4, <1>5 DEF StudioInv

(* What start launches was verified as it is. *)
LEMMA LaunchesAreGood ==
  ASSUME StudioInv, NEW j \in StudioJobs, Launch(j),
         job[j].overtaken \/ Present \in Named
  PROVE  /\ job' \in [StudioJobs -> StudioJobRecords]
         /\ \A i \in StudioJobs : job'[i] = job[i] \/ GoodJob(job'[i])
         /\ \A i \in StudioJobs \ {j} : job'[i] = job[i]
         /\ job'[j].action \in {NoFiles, "ports"}
         /\ children' \in Nat /\ launches' \in Nat /\ UNCHANGED <<listening, served>>
<1> DEFINE q == [NoJob EXCEPT !.action = "ports", !.overtaken = job[j].overtaken]
<1>1. /\ q \in StudioJobRecords /\ q.action = "ports" /\ q.overtaken = job[j].overtaken
  <2>1. job[j].overtaken \in BOOLEAN
    BY DEF StudioInv, StudioTypes, StudioJobRecords
  <2>2. "ports" \in Commands
    BY DEF Commands
  <2> QED BY <2>1, <2>2 DEF NoJob, StudioJobRecords
<1>2. (job' = [job EXCEPT ![j] = NoJob] /\ UNCHANGED manager) \/ StopFor(j, q)
  BY DEF Launch, q
<1> HIDE DEF q
<1>3. GoodJob(q) /\ q.action # NoFiles
  BY <1>1, AtRestInTheStudio DEF GoodJob, Commands
<1>4. CASE job' = [job EXCEPT ![j] = NoJob] /\ UNCHANGED manager
  BY <1>4, OneJob, NoJobIsGood, AtRestInTheStudio DEF StudioInv, StudioTypes, manager
<1>5. CASE StopFor(j, q)
  BY <1>1, <1>3, <1>5, StopsKeepJobs
<1> QED BY <1>2, <1>4, <1>5

LEMMA StartsAreGood ==
  ASSUME StudioInv, NEW j \in StudioJobs, StartRuntime(j)
  PROVE  StudioInv'
<1>1. /\ UNCHANGED <<persisted, edits, Named>> /\ UNCHANGED <<inMemory, dryRuns, overtaken>>
      /\ UNCHANGED <<Named, broadcasts, dryRuns, overtaken>>
  BY DEF StartRuntime, Run, observed, confirmed, Named
<1>2. Present \in Named /\ deployment.files = projectFiles
  <2>1. activation = Present /\ deployment.files = projectFiles
    BY DEF StartRuntime, Verified, Bound
  <2>2. Present # NoFiles
    BY StudioAssumption DEF StudioInv, StudioTypes, Present
  <2> QED BY <2>1, <2>2 DEF StudioInv
<1>3. /\ job' \in [StudioJobs -> StudioJobRecords]
      /\ \A i \in StudioJobs : job'[i] = job[i] \/ GoodJob(job'[i])
      /\ children' \in Nat /\ launches' \in Nat /\ UNCHANGED <<listening, served>>
  <2>1. CASE Launch(j)
    BY <1>2, <2>1, LaunchesAreGood
  <2>2. CASE Run(j, [NoJob EXCEPT !.action = "onboard"]) /\ UNCHANGED manager
    <3> DEFINE q == [NoJob EXCEPT !.action = "onboard"]
    <3>1. q \in StudioJobRecords /\ q.action = "onboard"
      BY AtRestInTheStudio DEF StudioJobRecords, Commands
    <3>2. job' = [job EXCEPT ![j] = q]
      BY <2>2 DEF Run
    <3> HIDE DEF q
    <3>3. GoodJob(q)
      BY <1>2, <3>1 DEF GoodJob, Present
    <3> QED BY <2>2, <3>1, <3>2, <3>3, OneJob DEF StudioInv, StudioTypes, manager
  <2> QED BY <2>1, <2>2 DEF StartRuntime
<1> QED BY <1>1, <1>3, QuietSteps, ManagersStop

(* What was onboarded is launched as it was verified, if nothing was deployed. *)
LEMMA OnboardingsEnd ==
  ASSUME StudioInv, NEW j \in StudioJobs, EndOnboard(j)
  PROVE  StudioInv'
<1>1. /\ UNCHANGED <<projectFiles, artifact, activation, objects, evidence, edits, dryRuns,
                     overtaken, broadcasts, Named>>
      /\ deployment' = [deployment EXCEPT !.demo = TRUE]
      /\ deployment # NoFiles /\ deployment.files = projectFiles
      /\ job[j].action = "onboard" /\ Launch(j)
  BY DEF EndOnboard, inMemory, observed, confirmed, Named, StillBound, Bound, Running
<1>2. deployment' \in Deployments /\ deployment'.files = deployment.files
  <2>1. deployment \in Deployments
    BY <1>1 DEF StudioInv, StudioTypes
  <2> QED BY <1>1, <2>1 DEF Deployments
<1>3. job[j].overtaken \/ Present \in Named
  BY <1>1 DEF StudioInv, GoodJob, Present
<1>4. /\ job' \in [StudioJobs -> StudioJobRecords]
      /\ \A i \in StudioJobs : job'[i] = job[i] \/ GoodJob(job'[i])
      /\ children' \in Nat /\ launches' \in Nat /\ UNCHANGED <<listening, served>>
  BY <1>1, <1>3, LaunchesAreGood
<1>5. StudioTypes'
  BY <1>1, <1>2, <1>4 DEF StudioInv, StudioTypes
<1>6. ASSUME NEW i \in StudioJobs PROVE GoodJob(job[i])'
  <2>1. GoodJob(job'[i])
    BY <1>4 DEF StudioInv
  <2> QED BY <1>1, <1>2, <2>1 DEF GoodJob, Present
<1>7. /\ WhoListensIsVerified' /\ PlannedIsDeployed' /\ RunningIsVerified'
  BY <1>1, <1>4, ManagersStop
<1>8. PlansWereRun' /\ (activation \in Named \cup {NoFiles})'
  BY <1>1 DEF StudioInv, PlansWereRun
<1> QED BY <1>5, <1>6, <1>7, <1>8 DEF StudioInv

(* What is spawned was verified, unless it was overtaken, and so is what answers. *)
LEMMA ServicesStart ==
  ASSUME StudioInv, NEW j \in StudioJobs, PortsFree(j) \/ Spawn(j) \/ Healthy(j)
  PROVE  StudioInv'
<1>1. /\ UNCHANGED <<persisted, edits, Named>> /\ UNCHANGED <<inMemory, dryRuns, overtaken>>
      /\ UNCHANGED <<Named, broadcasts, dryRuns, overtaken>>
  BY DEF PortsFree, Spawn, Healthy, observed, confirmed, Named
<1>2. job[j] \in StudioJobRecords /\ GoodJob(job[j])
  BY DEF StudioInv, StudioTypes
<1>3. /\ job' \in [StudioJobs -> StudioJobRecords]
      /\ \A i \in StudioJobs : job'[i] = job[i] \/ GoodJob(job'[i])
  <2>1. CASE Healthy(j)
    BY <2>1, DoneIsGood, NoJobIsGood DEF StudioInv, Healthy
  <2>2. CASE PortsFree(j) \/ Spawn(j)
    <3>1. PICK a \in {"spawn", "health"} :
             /\ job' = [job EXCEPT ![j].action = a]
             /\ a = "spawn" => job[j].action = "ports"
      BY <2>2 DEF PortsFree, Spawn, Running
    <3> DEFINE q == [job[j] EXCEPT !.action = a]
    <3>2. q \in StudioJobRecords /\ q.action = a /\ q.overtaken = job[j].overtaken
      BY <1>2 DEF StudioJobRecords, Commands
    <3>3. job' = [job EXCEPT ![j] = q]
      BY <3>1
    <3> HIDE DEF q
    <3>4. GoodJob(q)
      BY <1>2, <3>1, <3>2 DEF GoodJob
    <3> QED BY <3>2, <3>3, <3>4, OneJob DEF StudioInv
  <2> QED BY <2>1, <2>2
<1>6. children' \in Nat /\ launches' \in Nat
  BY DEF PortsFree, Spawn, Healthy, manager, StudioInv, StudioTypes
<1>4. WhoListensIsVerified' /\ RunningIsVerified'
  <2>1. CASE PortsFree(j)
    BY <2>1 DEF PortsFree, manager, observed, confirmed, StudioInv, WhoListensIsVerified, RunningIsVerified, Named
  <2>2. CASE Spawn(j)
    <3>1. listening' # listening =>
             listening' = [launch |-> launches + 1, overtaken |-> job[j].overtaken,
                           serves |-> Present]
      BY <2>2 DEF Spawn, Present
    <3>2. job[j].overtaken \/ Present \in Named
      BY <1>2, <2>2 DEF GoodJob, Spawn, Running
    <3>3. UNCHANGED <<Named, served>>
      BY <2>2 DEF Spawn, observed, confirmed, Named
    <3> QED BY <3>1, <3>2, <3>3 DEF StudioInv, WhoListensIsVerified, RunningIsVerified, Named
  <2>3. CASE Healthy(j)
    <3>1. /\ listening # NoListener /\ UNCHANGED <<listening, Named>>
          /\ served' \subseteq served \cup
                {[serves |-> listening.serves, overtaken |-> listening.overtaken]}
      BY <2>3 DEF Healthy, observed, confirmed, Named
    <3> QED BY <3>1 DEF StudioInv, WhoListensIsVerified, RunningIsVerified, Named
  <2> QED BY <2>1, <2>2, <2>3
<1>5. PlannedIsDeployed'
  BY <1>1 DEF StudioInv, PlannedIsDeployed
<1> QED BY <1>1, <1>3, <1>4, <1>5, <1>6, QuietSteps

(* A service ends by itself. *)
LEMMA ServicesEnd ==
  ASSUME StudioInv, ServiceExits
  PROVE  StudioInv'
<1>1. /\ UNCHANGED <<persisted, edits, Named>> /\ UNCHANGED <<inMemory, dryRuns, overtaken>>
      /\ UNCHANGED <<Named, broadcasts, dryRuns, overtaken, served>>
      /\ listening' \in {NoListener, listening} /\ UNCHANGED <<job, children, launches>>
  BY DEF ServiceExits, observed, confirmed, Named
<1>2. /\ job' \in [StudioJobs -> StudioJobRecords] /\ \A i \in StudioJobs : job'[i] = job[i]
      /\ children' \in Nat /\ launches' \in Nat
  BY <1>1 DEF StudioInv, StudioTypes
<1> QED BY <1>1, <1>2, QuietSteps, ManagersStop

LEMMA StudioSteps == StudioInv /\ [StudioNext]_studioVars => StudioInv'
<1> SUFFICES ASSUME StudioInv, [StudioNext]_studioVars PROVE StudioInv'
  OBVIOUS
<1>1. CASE UNCHANGED studioVars
  <2>1. UNCHANGED <<projectFiles, artifact, activation, deployment, objects, evidence, job, edits,
                    dryRuns, overtaken, broadcasts, Named, listening, served, children, launches>>
    BY <1>1 DEF studioVars, manager, Named
  <2> QED BY <2>1 DEF StudioInv, StudioTypes, GoodJob, Present, PlansWereRun, WhoListensIsVerified,
       PlannedIsDeployed, RunningIsVerified, Named
<1>2. CASE StudioRestart
  BY <1>2, RestartsForget
<1>3. CASE ServiceExits
  BY <1>3, ServicesEnd
<1>4. ASSUME NEW j \in StudioJobs, StudioStep(j) PROVE StudioInv'
  <2>1. CASE ReadFiles(j) \/ CommandFails(j) \/ PortTaken(j)
    BY <2>1, JobsEnd
  <2>2. CASE StartDoctor(j) \/ StartVerify(j) \/ StartSave(j)
    BY <2>2, CommandsBegin
  <2>3. CASE EndDoctor(j) \/ EndPlan(j) \/ EndVerify(j) \/ SaveActivation(j) \/ EndDeploy(j)
    BY <2>3, DoctorsEnd, PlansEnd, ConfirmationsEnd, DeploysEnd
  <2>4. CASE \E rpcUrl \in Rpcs : StartPlan(j, rpcUrl) \/ StartDeploy(j, rpcUrl)
    BY <2>4, PlansBegin, DeploysBegin
  <2>5. CASE StartRuntime(j) \/ EndOnboard(j)
    BY <2>5, StartsAreGood, OnboardingsEnd
  <2>6. CASE PortsFree(j) \/ Spawn(j) \/ Healthy(j)
    BY <2>6, ServicesStart
  <2>7. CASE LaunchFails(j) \/ StopRequested(j) \/ Handoff(j) \/ Exited(j)
    BY <2>7, StopsEnd
  <2>8. CASE StartActivation(j)
    BY <2>8, ActivationsBegin
  <2>9. CASE \E contents \in Contents : SaveFiles(j, contents)
    BY <2>9, EditsOvertake
  <2> QED BY <1>4, <2>1, <2>2, <2>3, <2>4, <2>5, <2>6, <2>7, <2>8, <2>9 DEF StudioStep
<1> QED BY <1>1, <1>2, <1>3, <1>4 DEF StudioNext

(* Evidence, jobs and services of the studio agree with what was checked.    *)
THEOREM StudioInvHolds == StudioSpec => []StudioInv
  BY StudioStarts, StudioSteps, PTL DEF StudioSpec

(* A deployment is accepted only for files and an RPC that a dry run passed  *)
(* on, however edits, doctors, plans and restarts interleave: but for plans  *)
(* whose run an edit overtook.                                               *)
THEOREM DeployedIsPlanned == StudioSpec => []PlannedIsDeployed
<1>1. StudioInv => PlannedIsDeployed
  BY DEF StudioInv
<1> QED BY <1>1, StudioInvHolds, PTL

(* What the handoff calls running serves files and an artifact that one      *)
(* verification read together, unless an edit or a deployment overtook the   *)
(* start, or the verification or activation that named them.                 *)
THEOREM RunningWasVerified == StudioSpec => []RunningIsVerified
<1>1. StudioInv => RunningIsVerified
  BY DEF StudioInv
<1> QED BY <1>1, StudioInvHolds, PTL

-----------------------------------------------------------------------------
(* The onboarding plan.  The chain is what the transactions that were mined  *)
(* make of it, whichever lane they came from.                                *)

PolicyStatuses == {"UNKNOWN", "PROPOSED", "ACTIVE", "SUSPENDED", "RETIRED"}

PlanTypes ==
    /\ config \in Config /\ executed \subseteq Transactions
    /\ planTime \in Nat \ {0}
    /\ policy \in [status: PolicyStatuses, version: Nat, updateAt: Nat]
    /\ delegateAt \in [at: Nat, active: BOOLEAN]
    /\ checkpoint \in [status: PolicyStatuses, version: Nat]
    /\ venueOn \in BOOLEAN /\ makerApproved \in BOOLEAN

InOrder == \A tx \in executed : dependsOn(tx) \subseteq executed

RegistriesAre ==
    /\ \A e \in elementsOn : e \in PlanElements
    /\ \A e \in PlanElements :
           e \in elementsOn <=> e \notin config.newElements \/ <<"element", e>> \in executed
    /\ \A r \in recipesOn : r \in PlanRecipes
    /\ \A r \in PlanRecipes :
           r \in recipesOn <=> r \notin config.newRecipes \/ <<"recipe", r>> \in executed

PolicyIs ==
    /\ ManifestTx \notin executed =>
          /\ policy.updateAt = 0
          /\ policy.status = IF Registers THEN "UNKNOWN" ELSE config.postStatus
          /\ policy.version = IF Registers THEN 0 ELSE 1
    /\ ManifestTx \in executed /\ Activation \notin executed =>
          /\ policy.updateAt = 0 <=> Registers
          /\ policy.status = IF Registers THEN "PROPOSED" ELSE config.postStatus
          /\ policy.version = 1
    /\ Activation \in executed =>
          /\ policy.updateAt = 0 /\ policy.status = config.postStatus
          /\ policy.version = intendedPolicyVersion

CounterpartiesAre ==
    /\ venueOn <=> ~Registers \/ Venue \in executed
    /\ makerApproved <=> config.maker /\ (~Registers \/ Maker \in executed)
    /\ delegateAt.active <=> config.maker /\ (~Registers \/ Execute \in executed)
    /\ delegateAt.at # 0 <=> Schedule \in executed /\ Execute \notin executed

CheckpointIs ==
    IF Checkpoint \in executed
    THEN checkpoint.status = config.postStatus /\ checkpoint.version = intendedPolicyVersion
    ELSE checkpoint.version = 0

OnboardingInv ==
    /\ PlanTypes /\ InOrder /\ RegistriesAre /\ PolicyIs /\ CounterpartiesAre /\ CheckpointIs
    /\ ElementsReachManifest => reverted = {}

(* The config's parts. *)
LEMMA ConfigParts ==
  ASSUME config \in Config
  PROVE  /\ config.newElements \subseteq PlanElements /\ config.newRecipes \subseteq PlanRecipes
         /\ config.recipeBindings \subseteq PlanRecipes
         /\ \A r \in PlanRecipes : config.requiredElements[r] \subseteq PlanElements
         /\ config.maker \in BOOLEAN
         /\ config.action \in {"REGISTER", "UPDATE"}
         /\ config.postStatus \in {"ACTIVE", "SUSPENDED"}
         /\ Registers => config.postStatus = "ACTIVE"
BY DEF Config, Registers, Nonempty

(* No two kinds of transactions meet. *)
LEMMA KindsDiffer ==
  /\ \A tx \in ElementTxs : tx[1] = "element" /\ tx[2] \in config.newElements /\ tx = <<"element", tx[2]>>
  /\ \A tx \in RecipeTxs : tx[1] = "recipe" /\ tx[2] \in config.newRecipes /\ tx = <<"recipe", tx[2]>>
  /\ \A tx \in {ManifestTx, Activation, Checkpoint, Venue, Maker, Schedule, Execute} :
         tx[1] \notin {"element", "recipe"}
  /\ ManifestTx # Activation /\ Schedule # Execute
  /\ ManifestTx[1] = "manifest" /\ Activation[1] = "manifest" /\ Checkpoint[1] = "policy"
  /\ Venue[1] = "venue" /\ Maker[1] = "maker" /\ Schedule[1] = "signer" /\ Execute[1] = "signer"
BY DEF ElementTxs, RecipeTxs, ManifestTx, Activation, Checkpoint, Venue, Maker, Schedule, Execute

LEMMA PlanStarts == OnboardingInit => OnboardingInv
<1> SUFFICES ASSUME OnboardingInit PROVE OnboardingInv
  OBVIOUS
<1>1. config \in Config /\ executed = {} /\ reverted = {} /\ planTime = 1
  BY DEF OnboardingInit
<1>2. PlanTypes
  BY <1>1, ConfigParts DEF OnboardingInit, PlanTypes, PolicyStatuses
<1>3. RegistriesAre
  BY <1>1, ConfigParts DEF OnboardingInit, RegistriesAre
<1>4. PolicyIs
  BY <1>1 DEF OnboardingInit, PolicyIs
<1>5. CounterpartiesAre /\ CheckpointIs
  BY <1>1, ConfigParts DEF OnboardingInit, CounterpartiesAre, CheckpointIs
<1> QED BY <1>1, <1>2, <1>3, <1>4, <1>5 DEF OnboardingInv, InOrder

(* What each kind of transaction depends on. *)
LEMMA Dependencies ==
  /\ \A tx \in ElementTxs : dependsOn(tx) = {}
  /\ \A tx \in RecipeTxs : dependsOn(tx) = ElementTxs
  /\ dependsOn(ManifestTx) = RecipeTxs /\ dependsOn(Activation) = {ManifestTx}
  /\ dependsOn(Checkpoint) = {Activation} /\ dependsOn(Venue) = {Checkpoint}
  /\ dependsOn(Maker) = {Venue} /\ dependsOn(Schedule) = {Maker}
  /\ dependsOn(Execute) = {Schedule}
<1>1. \A tx \in ElementTxs : dependsOn(tx) = {}
  BY KindsDiffer DEF dependsOn
<1>2. \A tx \in RecipeTxs : dependsOn(tx) = ElementTxs
  BY KindsDiffer DEF dependsOn
<1>3. dependsOn(ManifestTx) = RecipeTxs
  BY KindsDiffer DEF dependsOn, ManifestDependsOn
<1>4. dependsOn(Activation) = {ManifestTx}
  BY KindsDiffer DEF dependsOn
<1>5. dependsOn(Checkpoint) = {Activation}
  BY KindsDiffer DEF dependsOn
<1>6. dependsOn(Venue) = {Checkpoint} /\ dependsOn(Maker) = {Venue}
  BY KindsDiffer DEF dependsOn
<1>7. dependsOn(Schedule) = {Maker} /\ dependsOn(Execute) = {Schedule}
  BY KindsDiffer DEF dependsOn
<1> QED BY <1>1, <1>2, <1>3, <1>4, <1>5, <1>6, <1>7

(* A manifest whose dependencies were mined compiles. *)
LEMMA MinedCompiles ==
  ASSUME OnboardingInv, ElementsReachManifest, RecipeTxs \subseteq executed
  PROVE  Compiles
<1>1. config.newElements # {} => ElementTxs \subseteq executed
  <2> SUFFICES ASSUME config.newElements # {} PROVE ElementTxs \subseteq executed
    OBVIOUS
  <2>1. PICK r \in config.newRecipes : <<"recipe", r>> \in RecipeTxs
    BY DEF ElementsReachManifest, RecipeTxs
  <2>2. dependsOn(<<"recipe", r>>) = ElementTxs
    BY <2>1, Dependencies
  <2> QED BY <2>1, <2>2 DEF OnboardingInv, InOrder
<1>2. \A e \in PlanElements : e \in elementsOn
  <2>1. \A e \in config.newElements : <<"element", e>> \in executed
    BY <1>1 DEF ElementTxs
  <2> QED BY <2>1 DEF OnboardingInv, RegistriesAre
<1>3. \A r \in PlanRecipes : r \in recipesOn
  <2>1. \A r \in config.newRecipes : <<"recipe", r>> \in executed
    BY DEF RecipeTxs
  <2> QED BY <2>1 DEF OnboardingInv, RegistriesAre
<1> QED BY <1>2, <1>3, ConfigParts DEF Compiles, OnboardingInv, PlanTypes

(* What is sent in the order of the plan, at its time, is not refused. *)
LEMMA SentIsAccepted ==
  ASSUME OnboardingInv, ElementsReachManifest, NEW tx \in Transactions \ executed,
         dependsOn(tx) \subseteq executed, planTime >= earliestExecution(tx)
  PROVE  Accepted(tx)
<1>1. CASE tx \in ElementTxs
  <2>1. tx[2] \in config.newElements /\ tx = <<"element", tx[2]>>
    BY <1>1, KindsDiffer
  <2>2. tx[2] \notin elementsOn
    BY <2>1, ConfigParts DEF OnboardingInv, RegistriesAre, PlanTypes
  <2> QED BY <1>1, <2>2, KindsDiffer DEF Accepted
<1>2. CASE tx \in RecipeTxs
  <2>1. tx[2] \in config.newRecipes /\ tx = <<"recipe", tx[2]>>
    BY <1>2, KindsDiffer
  <2>2. tx[2] \notin recipesOn
    BY <2>1, ConfigParts DEF OnboardingInv, RegistriesAre, PlanTypes
  <2> QED BY <1>2, <2>2, KindsDiffer DEF Accepted
<1>3. CASE tx = ManifestTx
  <2>1. Compiles
    BY <1>3, Dependencies, MinedCompiles
  <2>2. /\ policy.updateAt = 0
        /\ policy.status \in IF Registers THEN {"UNKNOWN", "RETIRED"} ELSE {"ACTIVE", "SUSPENDED"}
    BY <1>3, ConfigParts DEF OnboardingInv, PolicyIs, PlanTypes
  <2> QED BY <1>3, <2>1, <2>2, KindsDiffer DEF Accepted
<1>4. CASE tx = Activation
  <2>1. ManifestTx \in executed
    BY <1>4, Dependencies
  <2>2. planTime >= policy.updateAt
    BY <1>4, KindsDiffer DEF earliestExecution
  <2>3. IF Registers THEN policy.status = "PROPOSED"
        ELSE policy.updateAt # 0 /\ planTime >= policy.updateAt
    BY <1>4, <2>1, <2>2 DEF OnboardingInv, PolicyIs
  <2> QED BY <1>4, <2>3, KindsDiffer DEF Accepted
<1>5. CASE tx = Checkpoint
  <2>1. Activation \in executed
    BY <1>5, Dependencies
  <2>2. policy.version # 0
    BY <2>1 DEF OnboardingInv, PolicyIs, intendedPolicyVersion
  <2> QED BY <1>5, <2>2, KindsDiffer DEF Accepted
<1>6. CASE tx = Schedule
  <2>1. Registers /\ Schedule \notin executed /\ Execute \notin executed
    <3>1. Registers
      BY <1>6, KindsDiffer DEF Transactions
    <3>2. Execute \in executed => Schedule \in executed
      BY Dependencies DEF OnboardingInv, InOrder
    <3> QED BY <1>6, <3>1, <3>2
  <2>2. ~delegateAt.active /\ delegateAt.at = 0
    BY <2>1 DEF OnboardingInv, CounterpartiesAre
  <2> QED BY <1>6, <2>2, KindsDiffer DEF Accepted
<1>7. CASE tx = Execute
  <2>1. Schedule \in executed /\ Execute \notin executed
    BY <1>7, Dependencies
  <2>2. delegateAt.at # 0
    BY <2>1 DEF OnboardingInv, CounterpartiesAre
  <2>3. planTime >= delegateAt.at
    BY <1>7, KindsDiffer DEF earliestExecution
  <2> QED BY <1>7, <2>2, <2>3, KindsDiffer DEF Accepted
<1>8. CASE tx \in {Venue, Maker}
  BY <1>8, KindsDiffer DEF Accepted
<1> QED BY <1>1, <1>2, <1>3, <1>4, <1>5, <1>6, <1>7, <1>8 DEF Transactions, SignerTxs

(* The plan is a function of the config, which never changes. *)
LEMMA SamePlan ==
  ASSUME config' = config
  PROVE  /\ Transactions' = Transactions /\ (Registers' <=> Registers)
         /\ ElementTxs' = ElementTxs /\ RecipeTxs' = RecipeTxs
         /\ intendedPolicyVersion' = intendedPolicyVersion
         /\ \A tx : dependsOn(tx)' = dependsOn(tx)
<1>1. ElementTxs' = ElementTxs /\ RecipeTxs' = RecipeTxs /\ Registers' = Registers
  BY DEF ElementTxs, RecipeTxs, Registers
<1>2. /\ ManifestTx' = ManifestTx /\ Activation' = Activation /\ Checkpoint' = Checkpoint
      /\ Venue' = Venue /\ Maker' = Maker /\ Schedule' = Schedule /\ Execute' = Execute
  BY DEF ManifestTx, Activation, Checkpoint, Venue, Maker, Schedule, Execute
<1> QED BY <1>1, <1>2 DEF Transactions, SignerTxs, dependsOn, ManifestDependsOn, intendedPolicyVersion

(* A transaction that is mined makes of the chain what it is for. *)
LEMMA MinedKeeps ==
  ASSUME OnboardingInv, NEW tx \in Transactions \ executed, dependsOn(tx) \subseteq executed,
         Accepted(tx),
         executed' = executed \cup {tx},
         elementsOn' = elementsOn \cup IF tx \in ElementTxs THEN {tx[2]} ELSE {},
         recipesOn' = recipesOn \cup IF tx \in RecipeTxs THEN {tx[2]} ELSE {},
         policy' = policyAfter(tx),
         venueOn' = (venueOn \/ tx = Venue),
         makerApproved' = (makerApproved \/ tx = Maker),
         delegateAt' = delegateAfter(tx),
         checkpoint' = IF tx = Checkpoint
                       THEN [status |-> policy.status, version |-> policy.version]
                       ELSE checkpoint,
         UNCHANGED <<config, reverted, planTime>>
  PROVE  OnboardingInv'
<1>1. InOrder'
  BY SamePlan DEF OnboardingInv, InOrder
<1>2. RegistriesAre'
  <2>1. CASE tx \in ElementTxs
    <3>1. tx = <<"element", tx[2]>> /\ tx[2] \in config.newElements /\ tx \notin RecipeTxs
          /\ tx[2] \in PlanElements
      BY <2>1, KindsDiffer, ConfigParts DEF OnboardingInv, PlanTypes
    <3>2. \A r : <<"recipe", r>> # tx
      BY <3>1
    <3>3. \A e : <<"element", e>> = tx <=> e = tx[2]
      BY <3>1
    <3> QED BY <2>1, <3>1, <3>2, <3>3 DEF OnboardingInv, RegistriesAre
  <2>2. CASE tx \in RecipeTxs
    <3>1. tx = <<"recipe", tx[2]>> /\ tx[2] \in config.newRecipes /\ tx \notin ElementTxs
          /\ tx[2] \in PlanRecipes
      BY <2>2, KindsDiffer, ConfigParts DEF OnboardingInv, PlanTypes
    <3>2. \A e : <<"element", e>> # tx
      BY <3>1
    <3>3. \A r : <<"recipe", r>> = tx <=> r = tx[2]
      BY <3>1
    <3> QED BY <2>2, <3>1, <3>2, <3>3 DEF OnboardingInv, RegistriesAre
  <2>3. CASE tx \notin ElementTxs \cup RecipeTxs
    <3>1. tx[1] \notin {"element", "recipe"}
      BY <2>3, KindsDiffer DEF Transactions, SignerTxs
    <3>2. \A x : <<"element", x>> # tx /\ <<"recipe", x>> # tx
      BY <3>1
    <3>3. elementsOn' = elementsOn /\ recipesOn' = recipesOn
      BY <2>3
    <3> QED BY <3>2, <3>3 DEF OnboardingInv, RegistriesAre
  <2> QED BY <2>1, <2>2, <2>3
<1>3. PolicyIs' /\ policy' \in [status: PolicyStatuses, version: Nat, updateAt: Nat]
  <2> DEFINE P == [status: PolicyStatuses, version: Nat, updateAt: Nat]
  <2>1. /\ policy \in P /\ PolicyIs /\ planTime \in Nat \ {0} /\ config \in Config
    BY DEF OnboardingInv, PlanTypes
  <2>2. Activation \in executed => ManifestTx \in executed
    BY Dependencies DEF OnboardingInv, InOrder
  <2>3. (Registers' <=> Registers) /\ intendedPolicyVersion' = intendedPolicyVersion
    BY SamePlan
  <2>4. CASE tx = ManifestTx
    <3>1. Activation \notin executed'
      BY <2>2, <2>4, KindsDiffer
    <3>2. policy.version = IF Registers THEN 0 ELSE 1
      BY <2>1, <2>4 DEF PolicyIs
    <3>3. CASE Registers
      <4>1. policy' = [policy EXCEPT !.status = "PROPOSED", !.version = policy.version + 1]
        BY <2>4, <3>3, KindsDiffer DEF policyAfter
      <4>2. /\ policy' \in P /\ policy'.status = "PROPOSED" /\ policy'.version = 1
            /\ policy'.updateAt = 0
        <5>1. policy.version = 0 /\ policy.updateAt = 0
          BY <2>1, <2>4, <3>2, <3>3 DEF PolicyIs
        <5>2. policy' = [policy EXCEPT !.status = "PROPOSED", !.version = 1]
          BY <4>1, <5>1
        <5>3. policy' = [status |-> "PROPOSED", version |-> 1, updateAt |-> 0]
          BY <2>1, <5>1, <5>2
        <5>4. policy' \in P
          BY <5>3 DEF PolicyStatuses
        <5> QED BY <5>3, <5>4
      <4> QED BY <2>3, <2>4, <3>1, <3>3, <4>2 DEF PolicyIs
    <3>4. CASE ~Registers
      <4>1. policy' = [policy EXCEPT !.updateAt = planTime + PlanDelay]
        BY <2>4, <3>4, KindsDiffer DEF policyAfter
      <4>2. /\ policy' \in P /\ policy'.status = config.postStatus /\ policy'.version = 1
            /\ policy'.updateAt # 0
        BY <2>1, <2>4, <3>2, <3>4, <4>1, PlanAssumption DEF PolicyIs
      <4> QED BY <2>3, <2>4, <3>1, <3>4, <4>2 DEF PolicyIs
    <3> QED BY <3>3, <3>4
  <2>5. CASE tx = Activation
    <3>1. ManifestTx \in executed /\ Activation \notin executed
      BY <2>5, Dependencies
    <3>2. policy.version = 1 /\ policy.status = (IF Registers THEN "PROPOSED" ELSE config.postStatus)
          /\ (policy.updateAt = 0 <=> Registers)
      BY <2>1, <3>1 DEF PolicyIs
    <3>3. CASE Registers
      <4>1. policy' = [policy EXCEPT !.status = "ACTIVE"]
        BY <2>5, <3>3, KindsDiffer DEF policyAfter
      <4>2. /\ policy' \in P /\ policy'.status = config.postStatus /\ policy'.version = 1
            /\ policy'.updateAt = 0
        BY <2>1, <3>2, <3>3, <4>1, ConfigParts DEF PolicyStatuses
      <4> QED BY <2>3, <2>5, <3>1, <3>3, <4>2 DEF PolicyIs, intendedPolicyVersion
    <3>4. CASE ~Registers
      <4>1. policy' = [policy EXCEPT !.version = policy.version + 1, !.updateAt = 0]
        BY <2>5, <3>4, KindsDiffer DEF policyAfter
      <4>2. /\ policy' \in P /\ policy'.status = config.postStatus /\ policy'.version = 2
            /\ policy'.updateAt = 0
        <5>1. policy' = [policy EXCEPT !.version = 2, !.updateAt = 0]
          BY <3>2, <4>1
        <5>2. policy' = [status |-> policy.status, version |-> 2, updateAt |-> 0]
          BY <2>1, <5>1
        <5>3. policy.status \in PolicyStatuses
          BY <2>1
        <5>4. policy' \in P
          BY <5>2, <5>3
        <5> QED BY <3>2, <3>4, <5>2, <5>4
      <4> QED BY <2>3, <2>5, <3>1, <3>4, <4>2 DEF PolicyIs, intendedPolicyVersion
    <3> QED BY <3>3, <3>4
  <2>6. CASE tx \notin {ManifestTx, Activation}
    <3>1. policy' = policy
      BY <2>6 DEF policyAfter
    <3> QED BY <2>1, <2>3, <2>6, <3>1 DEF PolicyIs
  <2> QED BY <2>4, <2>5, <2>6
<1>4. CounterpartiesAre' /\ delegateAt' \in [at: Nat, active: BOOLEAN]
  <2>1. /\ CounterpartiesAre /\ planTime \in Nat \ {0} /\ config.maker \in BOOLEAN
        /\ delegateAt \in [at: Nat, active: BOOLEAN] /\ (Registers' <=> Registers)
    BY SamePlan, ConfigParts DEF OnboardingInv, PlanTypes
  <2>2. /\ Execute \in executed => Schedule \in executed
        /\ tx = Execute => Schedule \in executed
        /\ Schedule \in executed' => tx = Schedule \/ Schedule \in executed
        /\ tx = Schedule => Execute \notin executed'
    BY Dependencies, KindsDiffer DEF OnboardingInv, InOrder
  <2>3. tx \in {Maker, Schedule, Execute} => Registers /\ config.maker
    BY KindsDiffer DEF Transactions
  <2>4. tx = Venue => Registers
    BY KindsDiffer DEF Transactions, SignerTxs
  <2>5. CASE tx = Schedule
    <3>1. delegateAt' = [delegateAt EXCEPT !.at = planTime + PlanDelay]
      BY <2>5, KindsDiffer DEF delegateAfter
    <3>2. delegateAt' \in [at: Nat, active: BOOLEAN] /\ delegateAt'.at # 0
          /\ delegateAt'.active = delegateAt.active
      BY <2>1, <3>1, PlanAssumption
    <3> QED BY <2>1, <2>2, <2>5, <3>2, KindsDiffer DEF CounterpartiesAre
  <2>6. CASE tx = Execute
    <3>1. delegateAt' = [at |-> 0, active |-> TRUE]
      BY <2>6, KindsDiffer DEF delegateAfter
    <3>2. delegateAt'.at = 0 /\ delegateAt'.active = TRUE
      BY <3>1
    <3>3. /\ venueOn' = venueOn /\ makerApproved' = makerApproved
          /\ Venue \in executed' <=> Venue \in executed
          /\ Maker \in executed' <=> Maker \in executed
      BY <2>6, KindsDiffer DEF OnboardingInv, PlanTypes
    <3>4. delegateAt'.active <=> config.maker' /\ (~Registers' \/ Execute \in executed')
      BY <2>1, <2>3, <2>6, <3>2
    <3>5. delegateAt'.at # 0 <=> Schedule \in executed' /\ Execute \notin executed'
      BY <2>6, <3>2
    <3> QED BY <2>1, <3>1, <3>3, <3>4, <3>5 DEF CounterpartiesAre
  <2>7. CASE tx \notin {Schedule, Execute}
    <3>1. delegateAt' = delegateAt
      BY <2>7 DEF delegateAfter
    <3> QED BY <2>1, <2>3, <2>4, <2>7, <3>1, KindsDiffer DEF CounterpartiesAre
  <2> QED BY <2>5, <2>6, <2>7
<1>5. CheckpointIs' /\ checkpoint' \in [status: PolicyStatuses, version: Nat]
  <2>1. intendedPolicyVersion' = intendedPolicyVersion
    BY SamePlan
  <2>2. CASE tx = Checkpoint
    <3>1. Activation \in executed
      BY <2>2, Dependencies
    <3>2. policy.status = config.postStatus /\ policy.version = intendedPolicyVersion
      BY <3>1 DEF OnboardingInv, PolicyIs
    <3> QED BY <2>1, <2>2, <3>2 DEF CheckpointIs, OnboardingInv, PlanTypes
  <2>3. CASE tx # Checkpoint
    BY <2>1, <2>3 DEF CheckpointIs, OnboardingInv, PlanTypes
  <2> QED BY <2>2, <2>3
<1>6. PlanTypes'
  BY <1>3, <1>4, <1>5, SamePlan DEF OnboardingInv, PlanTypes
<1>7. (ElementsReachManifest => reverted = {})'
  BY DEF OnboardingInv, ElementsReachManifest
<1> QED BY <1>1, <1>2, <1>3, <1>4, <1>5, <1>6, <1>7 DEF OnboardingInv

(* Time passes, a transaction is refused, or nothing happens. *)
LEMMA RestKeeps ==
  ASSUME OnboardingInv, planTime' \in Nat \ {0}, (ElementsReachManifest => reverted = {})',
         UNCHANGED <<config, elementsOn, recipesOn, policy, venueOn, makerApproved>>,
         UNCHANGED <<delegateAt, checkpoint, executed>>
  PROVE  OnboardingInv'
<1>1. PlanTypes' /\ InOrder'
  BY SamePlan DEF OnboardingInv, PlanTypes, InOrder
<1>2. RegistriesAre' /\ PolicyIs' /\ CounterpartiesAre' /\ CheckpointIs'
  BY SamePlan DEF OnboardingInv, RegistriesAre, PolicyIs, CounterpartiesAre, CheckpointIs
<1> QED BY <1>1, <1>2 DEF OnboardingInv

LEMMA PlanSteps == OnboardingInv /\ [OnboardingNext]_onboardingVars => OnboardingInv'
<1> SUFFICES ASSUME OnboardingInv, [OnboardingNext]_onboardingVars PROVE OnboardingInv'
  OBVIOUS
<1>1. CASE PlanTick
  BY <1>1, RestKeeps DEF PlanTick, OnboardingInv, PlanTypes, ElementsReachManifest
<1>2. ASSUME NEW tx \in Transactions, Send(tx) PROVE OnboardingInv'
  <2>1. CASE Accepted(tx)
    BY <1>2, <2>1, MinedKeeps DEF Send
  <2>2. CASE ~Accepted(tx)
    <3>1. ~ElementsReachManifest
      BY <1>2, <2>2, SentIsAccepted DEF Send
    <3> QED BY <1>2, <2>2, <3>1, RestKeeps DEF Send, OnboardingInv, PlanTypes, ElementsReachManifest
  <2> QED BY <2>1, <2>2
<1>3. CASE UNCHANGED onboardingVars
  BY <1>3, RestKeeps DEF onboardingVars, OnboardingInv, PlanTypes, ElementsReachManifest
<1> QED BY <1>1, <1>2, <1>3 DEF OnboardingNext

(* Every transaction of an onboarding plan that was mined had its effect, and *)
(* nothing else did.                                                          *)
THEOREM OnboardingInvHolds == OnboardingSpec => []OnboardingInv
  BY PlanStarts, PlanSteps, PTL DEF OnboardingSpec

(* In whatever order the lanes are sent, for any elements, recipes and delay,  *)
(* the chain refuses nothing of a plan in which new elements come with a new   *)
(* recipe, the checkpoint records the policy of the config, and a plan that    *)
(* was sent to its end verifies.                                               *)
THEOREM PlansReachTheirConfig == OnboardingSpec => []PlanReachesItsConfig
<1>1. OnboardingInv => PlanReachesItsConfig
  <2> SUFFICES ASSUME OnboardingInv, ElementsReachManifest PROVE PlanReachesItsConfig
    BY DEF PlanReachesItsConfig
  <2>1. checkpoint.version # 0 =>
            checkpoint = [status |-> config.postStatus, version |-> intendedPolicyVersion]
    BY DEF OnboardingInv, PlanTypes, CheckpointIs
  <2>2. ASSUME executed = Transactions PROVE OnboardingReady
    <3>1. elementsOn = PlanElements /\ recipesOn = PlanRecipes
      BY <2>2 DEF OnboardingInv, RegistriesAre, Transactions, ElementTxs, RecipeTxs
    <3>2. Activation \in executed
      BY <2>2 DEF Transactions
    <3>3. policy = [status |-> config.postStatus, version |-> intendedPolicyVersion, updateAt |-> 0]
      BY <3>2 DEF OnboardingInv, PlanTypes, PolicyIs
    <3>4. venueOn /\ makerApproved = config.maker
      BY <2>2, ConfigParts DEF OnboardingInv, PlanTypes, CounterpartiesAre, Transactions, SignerTxs
    <3>5. delegateAt.active = config.maker /\ delegateAt.at = 0
      <4>1. Schedule \in executed => Execute \in executed
        BY <2>2, KindsDiffer DEF Transactions, SignerTxs
      <4>2. Registers /\ config.maker => Execute \in executed
        BY <2>2 DEF Transactions, SignerTxs
      <4> QED BY <4>1, <4>2, ConfigParts DEF OnboardingInv, PlanTypes, CounterpartiesAre
    <3>6. delegateAt = [at |-> 0, active |-> config.maker]
      BY <3>5 DEF OnboardingInv, PlanTypes
    <3> QED BY <3>1, <3>3, <3>4, <3>6 DEF OnboardingReady
  <2> QED BY <2>1, <2>2 DEF PlanReachesItsConfig, OnboardingInv
<1> QED BY <1>1, OnboardingInvHolds, PTL

===============================================================================
