# Corner Store: a TLA+ model with checked properties and proofs

Corner Store trades regulated tokens. A maker's service signs quotes (RFQ), a
router settles them on chain after a compliance engine has permitted the trade,
and owners and operators can pause, suspend and revoke. Around that stand
services that collect the evidence operators attest, index what happened, and
prepare, review and deploy a configuration. This directory models the parts
whose correctness depends on the order of events, checks them with TLC and
proves what matters most with TLAPS.

Read it in this order: *Inventory* for the system, *Modules* for what is
modelled and how it corresponds to the code, *Runs* and *Proofs* for what is
shown and under which assumptions, *Not modelled* for the rest.

    tlc -workers 2 -config QuoteCalls.cfg MCQuote    # any run: cfg and its module
    tlapm QuoteCoordinatorProofs.tla                  # any module *Proofs

`PROJECT.json` says which module each cfg belongs to, and maps each definition
to the lines it was translated from. Paths below are relative to the repository.

## Inventory

### On chain (src/)

| Component | State | Operations | What is hard |
|---|---|---|---|
| `OperatorRegistry` | three kinds of pause flags, a pending unpause with its effective time for each, a running history hash | pause (operator), schedule, cancel and execute an unpause (owner), after `MIN_UNPAUSE_DELAY` | a scope is paused again while its unpause is pending or due |
| `MakerAuthorizer` | delegates of each maker, pending authorisations | schedule, cancel, execute (owner), revoke (operator) | a revocation between scheduling and execution |
| `TokenPolicyRegistry` | a manifest per token: status, content hash, facts, compiled plan, version; pending update, plan and resumption; a history hash | register, approve, set facts, suspend, delayed resume, delayed update, retire, (un)mark unregulated; compiles bindings, overrides and parameters into a plan | notices given under one status that fall due under another; a token registered again after it was retired; two compilers that must agree |
| `ElementRegistry`, `RecipeRegistry` | append-only catalogues with the code hash of every entry | register | versions; what must be there before a manifest names it |
| `ComplianceEngine` | its router, audit checkpoints | evaluate (view), commit (router only) | stateful elements are committed after the tokens have moved, by a plan that is read again |
| `HolderCount`, `FraudSurveillance` | counts per asset class, balances per identity; flags and running totals per group | `onTransfer` from the engine, setters, a case workflow | counters that mirror balances while identities and accreditations change; windows |
| The 25 other elements | claims, dates, thresholds, each with operators' setters | check (view) and setters | the edges of ages and terms; overlays switched on in any order; a person who changes wallets |
| Recipes | lists of elements | none | none over time |
| `ExecutionRouter` | used taker nonces | execute | a maker may be called back by a token in the middle of a trade |
| `RFQAdapter` | approved makers, used quote nonces, its router | execute (router only), cancelQuoteNonce (maker), setters | one nonce for fills and cancellations, with two routers over time |
| `UniswapV3Adapter`, `OrderBookAdapter` | none | one swap; always reverts | none |
| `VenueRegistry`, `VenueSelector` | venue configurations | register, select | none over time |
| `CornerStoreFactory`, `UniswapV3VenueFactory` | addresses | forwards to registries it owns, after a check that the policy fits the venue | what is scheduled through it under one policy falls due under another |
| `AttestedAcquisitionSource`, loggers | attested times | one setter, events | none over time |

### Off chain (services/)

| Component | State | Operations | What is hard |
|---|---|---|---|
| `RFQQuoteCoordinator` (rfq) | none of its own; a call keeps what it has read across awaits | `quote`, `quoteWithEvidence` | calls with one idempotency key interleave; a call that stopped is resumed by another; pricing, risk or signer fail |
| `LocalFileQuoteCoordinatorStore` (rfq) | one JSON file: records by key and nonce, last nonce, inventory; a lock directory | reserve, markSigned, markSignFailed, markObserved, reconcile, expire, revoke | inventory leases released by eight paths; processes that die inside the lock |
| RFQ host | rate limiter, the life of the process | authenticate, limit, quote, audit, reply; a bounded stop | the quote is persisted before its audit; ports that never answer |
| KYC evidence (compliance-data) | current evidence per subject | refresh from a provider, materialise | overlapping refreshes, timeouts |
| Audit chain, person groups, acquisitions (compliance-data) | files | append; commit; resolve a clock | memory and file disagree after a failed append; replayed commits, month ends; lineage |
| Event indexer (operator-api) | event file, cursor | sync, whenever its caller calls it | a crash between the events and the cursor; reorganisations; syncs that overlap on their awaits |
| Operator API runtime (operator-api) | a snapshot of reviewed files | start, serve, readiness | files replaced between the reads |
| Deployment studio | doctor and plan evidence in memory, activation and deployment files, child processes | edit, doctor, plan, deploy, verify, onboard, start, stop | files edited while a command runs on them; overlapping starts |
| Production onboarding (toolkit) | none: it computes a plan of transactions | plan, verify; the plan is executed by its signers | the order in which the plan's transactions may be sent; its own compiler of policies |
| Policy audit trail (toolkit) | a directory of artifacts named by hash | build, store, reconstruct, export | a process killed between opening and writing a file |
| Production release (cli) | source trees, the artifact, the chain | preflight, deploy, verify | trees edited after review; runs side by side; an artifact written before the broadcast |
| Operator CLI | quote file, its transactions on the way | register, update, activate, suspend, resume, quote, buy, swap, investor set-up | several terminals with one account, killed between transactions |
| Demonstration desk (rfq-demo-backend) | a queue of operations | trades and refusals with their evidence | operations that fail half-way |
| Rest of toolkit and CLI, dashboards, test net demonstration, RFQ SDK | none, files | generate, validate, print, present | none that is the system's own |

### How they interact

A caller asks the host, the host the coordinator, the coordinator its pricing,
risk and signer modules and, between those awaits, its store; every store call
is atomic under the lock directory. The signed quote goes to a taker, who gives
it to `ExecutionRouter.execute`. That reads the pause gates, asks the engine,
which reads the manifest's plan and the elements, and calls `RFQAdapter`, which
checks expiry, nonce, maker approval, the signer (`MakerAuthorizer`) and
`policyId`, and moves the tokens; then the engine commits to the stateful
elements. The adapter's events come back through the indexer to
`markObserved`, and `reconcile` closes the record at the confirmation depth.
Owners and operators act on the registries at any time between transactions,
by transactions the toolkit plans and the CLI or the studio sends, on the
evidence that compliance-data collects.

### What makes them correct

* Coordinator: one quote per key, one record per nonce, leases that never exceed
  the inventory, are never lost and never released twice, and records that
  close only once and agree with the canonical chain.
* Store: what was acknowledged is never overwritten; every call returns.
* Pause gates and delegates: a stop acts at once and cannot be lifted without a
  full new delay; the recorded history is the truth.
* Manifests: nothing scheduled for one manifest reaches another; a version names
  one meaning; a live manifest has a plan, the one its reviewers committed to.
* Settlement: a nonce settles once; what a stop found outstanding is dead for the
  delay that follows.
* Compliance: counts are those of the holders and stay within their caps; time
  alone heals only what an element waits for; a restriction never opens a trade.
* Evidence: audited before it is read; nothing older undoes a revocation; what
  is acknowledged is on record.
* Services: no quote leaves unaudited, a key gets one quote; the index has what
  its cursor claims; a stop ends.
* Tools: what is deployed, served and reached is what was reviewed, planned and
  verified.

`PROJECT.json` lists every place where one of these could go wrong unnoticed by
a test ("hazards"), with the properties that would notice.

## Modules

    QuoteBook <-- QuoteCoordinator <-- MCQuote
                        <- QuoteCoordinatorProofs

    DelayedGate <-- PauseControl, MakerAuthority -> Governed <- ManifestLifecycle
    Governance  = PauseControl | MakerAuthority | ManifestLifecycle | PolicyCompiler
                | OperatorRuntime | RateLimiter | DeploymentStudio | Onboarding
                | PolicyAudit | ProductionRelease | OperatorCommands
                                             <- GovernanceProofs, ToolProofs
    TradeGates  = Settlement (uses DelayedGate)                 <- SettlementProofs
                | Elements = InvestorElements, AssetElements, ConductElements
                             over ElementChecks                 <- ElementProofs
                | Operations
    Operations  = TradeCompliance (ComplianceEngine over HolderCount | FraudSurveillance)
                | KycEvidence | AuditChain | PersonGroups | Acquisitions
                                                                <- OperationsProofs
    Services    = EventIndexer | RfqHost | StoreLock | DemoDesk <- ServiceProofs
                | QuoteCoordinator
    SumLemmas   (least elements, sums over finite sets)
                     <- QuoteCoordinatorProofs, ElementProofs, OperationsProofs

A bar separates parts that share no state. A module that puts such parts side by
side has one selector variable that never changes (`active` in Governance,
`follows` in TradeGates, `side` in Operations, with `contract` in
TradeCompliance, and `service` in Services): a behaviour follows the part it
names and the rest keeps its initial state. Nothing is lost by that. What one
part gives another is a free input of the other (a registry takes any call of
any account, the engine any attestation, a reader any file), so every
interleaving of two parts projects to behaviours of each that the model has.

**QuoteCoordinator** is `services/rfq/src/coordinator.ts`. `rec`, `lastNonce` and
`reserved` are the store's file; `call` holds what each running call keeps in
local variables across its awaits, with `pc` naming the await it is at. One
action is the code between two awaits: `Begin`, `Lookup`, `Price`, `Reserve`,
`Resume`, `Sign`, `Publish`/`SignerFails`, `MarkSignFailed`, `ExpireOwn`,
`RevokeOwn`. `Crash` ends a call anywhere. The workers' operations are
`Expire`, `Revoke`, `MarkObserved` and `Reconcile`. The chain (`head`, `canon`,
`onchain`) and the event feed are the environment: blocks, reorganisations
shallower than the confirmation depth, and events that come late, repeatedly
and from branches that no longer exist. Timestamps that are taken before the
store's lock is won may be old when they are used (`Recent`).
Hashing, validation and the comparison of the configured inventory are left out.
Request, key and signature are model values; a signer may answer twice with
different signatures. **QuoteBook** is what that promises, with no calls, no
clock and no chain: an entry opens with a fresh nonce and room for its amount,
gets at most one quote, only that quote is ever replied, and it closes once.
The mapping (`Book`) ends QuoteCoordinator; **MCQuote** has the values for TLC and
two scenarios, of which a behaviour keeps to one: plain calls under two keys, or
calls of both kinds under one.

**StoreLock** looks inside the one atomic step: `withLock` of the file store,
mkdir, stat, rm, read, write, rm, one action each, with processes that die. The
ages are relative to the limits they are compared with. Time never makes a
*living* holder look stale (`LockTick`), which is the least a deployment has to
provide, and `MaxWaiters` says how many calls wait for the directory of a dead
process, which is the other.

**Governed** has the roles of the governed contracts and their clock `time`.
**DelayedGate** is the abstract promise of a gate that shuts at once and reopens
after notice. **PauseControl** is `OperatorRegistry`, its three copies of each
method folded into one over scopes; its history is the sequence the history hash
commits to. **MakerAuthority** is `MakerAuthorizer`; `revokedAt` is the time of
the last `DelegateRevoked` event. **ManifestLifecycle** is `TokenPolicyRegistry`
without its compiler: a plan is one opaque value, since it is a function of the
manifest and of catalogues that only grow. Every transition, notice, version
bump and history entry is there. **PolicyCompiler** is that compiler beside the
toolkit's, which share no code, over one draft of bindings, overrides and
parameters.

**Onboarding** executes the toolkit's plan in every order its `dependsOn`, signers
and delays allow, against what the registries refuse. **PolicyAudit** is the
directory of artifacts with commands that open and write in two steps.
**ProductionRelease** follows production-deploy and production-verify in several
terminals over shared trees and one deployer's nonce. A source tree is what
`productionContractsHash` reads and what it does not: ProductionCoreDeployer.sol,
which forge builds with the rest. Edits of the deployer that change which
transactions are sent are not followed, nor is production-verify's own
`--rpc-url` (services/cli/src/commands.ts:530). **OperatorCommands** is the
CLI's commands for one token with the factory they go through, several
transactions each. **DeploymentStudio** has the handlers of the studio with the
evidence objects they keep across awaits, and its runtime manager. A request
that saves files stops the runtime, awaits its body and then writes; PUT
activation looks at the verification, awaits its body and then writes; a stop
awaits the end of the processes and then resets the status, whatever was
started meanwhile. `verified` is what a verification has read, `misnamed` what
activation.json was given instead.
**OperatorRuntime** is the start and readiness of the operator API,
**RateLimiter** the reference limiter of the host.

**Settlement** puts the settlement of a quote together: `Execute` is
`ExecutionRouter.execute` with the adapter's up to its token transfers,
`CommitExecution` the rest, and between them the maker may be called back and cancel
nonces. (`execute` itself is not reentered: the router is `nonReentrant`, and a
call through a second router fails the adapter's `onlyRouter`.) `Revert`
restores what the transaction changed. The gates are `DelayedGate` with the
scopes of the trade and the maker's delegate; who may move them is left to
PauseControl and MakerAuthority, which implement that module; `stopped` keeps
for each quote when a gate of its was last shut while it was outstanding. The engine's
decision is `policy` and `permitted`, which may change between transactions as
the manifest does. Amounts, the cap, the slippage bound and balances only make a
transaction revert, which is always possible here.

**Elements** has, for each of the 25 elements that check, its storage at
deployment, its operators' calls and the ordered list of its refusals
(InvestorElements, AssetElements, ConductElements; **ElementChecks** is what they
share), under a clock and calls in every order.

**ComplianceEngine** is evaluate and commit over path groups of bindings, with
the tokens moving in between; **HolderCount** the stateful element it tells,
with identities bound to one wallet each and accreditations that change.
**FraudSurveillance** is the monitor's windows and flags. **KycEvidence**,
**AuditChain**, **PersonGroups** and **Acquisitions** are the four parts of
compliance-data; a timestamp of PersonGroups is a day of the real calendar and
a moment of that day, both of which the window's start keeps. **EventIndexer**
is the finality-aware indexer with its file, each await of `sync` in two steps:
the reader's answer, which sees the chain, and its use, which sees the cursor
as other calls have left it. Each add of an event is counted. **RfqHost** is
the request handler and the life of its process, **DemoDesk** the
demonstration's queue and the evidence it returns.

## Runs

Passing runs:

| Run | Question | Bounds |
|---|---|---|
| `QuoteCalls` | Do leases stay within the inventory; does every caller of one key get the one persisted quote; does the coordinator implement the book? | two callers, two signatures, time to 2 or 3. Under two keys: amounts 1 and 2 of an inventory of 3 (two large quotes do not fit, and an expiry makes room). Under one key: two requests (a key conflict), both kinds of call, evidence that outlives the lease or not |
| `Governance` | Do the histories replay to what is stored; is what the registry compiles what the reviewers committed to; is what the tools deploy, serve and reach what was reviewed, planned or verified? | two accounts that exchange roles, two scopes, two delegates, one token with two hashes, delays of 2; drafts of two bindings and two overrides; each tool with two actors and the fewest edits, commands and blocks in which they meet (`Governance.cfg`) |
| `Trades` | Does a nonce settle once; how long does a stop kill what is outstanding; does an element heal by time alone only as it should, does a restriction open a trade, does a refusal follow its person; are holders counted and capped; are doubled transfers flagged; do revocations stick, is evidence audited first, is what was acknowledged listed, do volumes and clocks count each sale and purchase? | two quotes, one nonce, two routers, one taker nonce, a delay and a validity of 2, time to 3; an element through six moments and four calls, with terms of two to four moments; three wallets, one identity, three trades, caps of one and two; two sellers over four days; two overlapping refreshes; four audit lines, one edit; sales on 28 February, 1 March and 2 April, at two times of day, seen until June; three lots |
| `Services` | Is the index exact and does it catch up; is a quote audited before it leaves, does a retry get the same one, does a stop end; is what was acknowledged stored, does each call of the lock return; is the desk's evidence that of its trade; do final records agree with the chain, is the counter the sum of the leases, does an observed lease wait, are leases given back, do orphaned observations leave? | two syncs, three blocks of which two become final, one crash, one confirmation and reorganisations as deep; two handlers, three requests of two takers on one key, one stop; three callers, one death, one waiter; three operations of the desk; one key and caller, three blocks over the first, depth 2, two reorganisations (the second may hit what the first rebuilt) |

Each violated run checks one statement of the repository's documentation or
comments against what the code does:

| Run | What TLC finds |
|---|---|
| `QuoteOverlap` | The store gives a lease back at `expiresAt <= now`, the adapter fills up to and including the expiry: in that second two quotes for one inventory can be filled. |
| `QuoteRevokeRace` | Stale evidence revokes by nonce, after an await; a quote another caller published meanwhile is revoked and its lease released. |
| `StoreLockTwoWaiters` | Two calls find a dead process's directory stale, one removes it and takes the lock, the other removes that new lock: two calls inside, and an acknowledged record is overwritten. |
| `ManifestShortcut` | A suspended token is retired, registered and approved with no delay at all. |
| `CommitSkipsPath` | A path option that counts holders and wants the amount free at the sender passes before the tokens move and not after: the commit goes through without telling its counter. |
| `OneHashTwoTrees` | The deployer script is edited between two deployments of one reviewed configuration. The hash is the same, as the script is not part of it, and the second broadcast sends what nobody reviewed. |
| `HandoffUnverified` | Files are edited while verify runs on them, or while PUT activation awaits its body; what is recorded as verified, and enables the handoff, are the edited ones. |
| `StopsEnd` | A quote that lives as long as the delay is stopped, its gate is announced at once and opens again in the quote's last second, in which it trades: the stop invalidated it for a time only. |

**Why the bounds are enough.** Each is the smallest in which the case the
property is about happens, and one more of most of them: two actors for a race,
two waiters for the lock, two keys for an inventory they share. Clocks run past
the longest lease or delay and leave time for a second one. Every bound is a
constant that appears in a guard. Where a theorem below states the property, the
bound is no more than a help to find mistakes early. `CHECK_DEADLOCK FALSE` is
in every configuration since a bounded clock, bounded histories and a bounded
number of calls do come to an end. Symmetry is used for callers and signatures
(`QuoteCalls`), for routers and for sellers and the wallets other than the
issuer's (`Trades`), and for the scopes, terminals and whatever else acts in
twos beside its like (`Governance`), which nothing distinguishes, and only in
runs without liveness properties. In Governance the first owner and the first
source tree are chosen instead, and parts that rest begin in one state. For the
indexer two final blocks are enough: of two calls one may be at either block, or
before both, while the other moves the cursor from one to the next.

**Fairness.** In QuoteCoordinator (in `Services`) the clock and the chain go on,
and the operator's reconciliation worker and event feed keep running, which
services/rfq/README.md:92-94 and
docs/product-specs/production-rfq-policy.md:289 require of a deployment.
Callers are given none: they may stop anywhere. Leases are given back anyway.
In `Services` each step of a living call of the lock eventually runs (the event
loop) and time passes; a weak condition for each process is enough because a
call that waits is never disabled: it alternates between mkdir and stat. The
indexer's reads return. That sync is called again is no fairness of the model but
a hypothesis of `CatchesUp` (`CalledAgain`), about a caller the repository does
not have: its server never starts the indexer, only
services/operator-api/test/smoke.ts calls `sync`
(docs/operations/op-stack-chain-semantics.md:164-168), and
docs/architecture/deployment-operations.md:133-136 leaves it to a deployment. That
caller has to call again also after sync threw, since an overlapping call may
report a reorganisation that did not happen. The host's shutdown timer
(services/rfq-host/src/runtime.ts:311) fires, and nothing else of the host is
assumed, not even that a port ever answers. The desk has no fairness.

## Proofs

TLAPS proves the following for all values of the constants that satisfy the
named assumptions (`CoordinatorAssumption` and so on, in the module that
declares the constants; they say which constants are numbers, which sets are
finite where something is counted, and which values are distinct). The last
step of each is temporal; the rest is that an inductive invariant holds at the
start, is kept by every action, and implies the property.

*QuoteCoordinatorProofs* (`IInv`, then `ChainInv`). `OneQuotePerKey`,
`StrictQuotesCarryEvidence`, `NonceUnique`, `ReleasedIsTerminal` and
`TerminalIsFinal` rest on `IInv`: the types; the shape of every record by its
state (a reservation has no signature, a published, observed or settled record
has one, a lease is released exactly in a terminal state, an absent key is
blank); that an absent key has had no reply; and that a strict call which is
about to sign works on a record with evidence. A delivered quote is then the
signature of a record that can never be replaced, since only `RESERVED` records
are signed and no step returns to it. `FinalMatchesChain` and
`ObservedLeaseWaits` need the chain too. Each reorganisation gives the blocks it
rebuilds the next branch number, so `ChainInv` says that no block's number is
larger than the number of reorganisations (a block that was replaced never
becomes canonical again), that an observed or settled record names a transaction
of its own kind, that a settled one's block is canonical at the depth, and that
any transaction heard of that is canonical is the one the chain holds.

The second invariant, `InventoryInv`, is about the leases: `ReservedIsHeld` and
`NoOverReservation`, `TypeOK` with counters that stay natural numbers, and
`ImplementsBook`. All four are about a sum of leases, a fold over a set of keys.
The induction theorems of the library take an operator as a parameter and
cannot be used here, so the facts about sums (*SumLemmas*) are proved from a least
counterexample: a finite set for which a fact fails has a subset of least
cardinality for which it fails, and one element less gives the contradiction.
The steps of the coordinator then have four shapes (a lease is taken, leases are
released, a quote is published and replied, a persisted quote is replied), and
each shape is a step of the book or a stutter.

*GovernanceProofs* (`PauseInv`, `AuthorityInv`, `ManifestInv`, `CompilerInv`).
`UnpauseAfterNotice`, `RevocationRestartsDelay`: a pending notice belongs to a
shut gate and lies at least the delay after everything recorded against that
gate, which shutting it again keeps by dropping the notice. Both contracts are
proved to implement `DelayedGate`, step by step. `NoticesAreLive`, `LiveHasPlan`,
`VersionNamesSemantics`, `ResumeAfterNotice`: suspensions in the history are past
and a pending resumption lies `Delay` after them, and tokens without a manifest
have no hash. `HistoriesReplay` holds of the composition. `CommitmentIsCompiled`
has an invariant that says little (what was exported passed the toolkit's
checks); the work is in lemmas about the two compilers. The toolkit keeps the
last entry with a key and the registry takes the first; keys being distinct, they
are one. What does not throw in the one does not revert in the other, and a
binding that resolves has the version the config lists.

*SettlementProofs.* `SettledOnce` by an invariant on the ledger that also speaks
of the snapshot a revert returns to. `StopsKillOutstanding`: a gate that is shut
has no notice that falls due before a delay after the last stop it took, so a
quote it stopped at a time t cannot trade before t and the delay, and a quote
that has expired by then cannot trade at all. Nothing is assumed about how long
quotes live. Those that live as long as the delay do trade again, since
`normalizeTtlSeconds` (services/rfq/src/validation.ts:28-31) has no maximum and
the adapter looks at the quote's own expiry only: `StopsEnd` shows one, against
what MakerAuthorizer.sol:12-13 and docs/product-specs/production-rfq-policy.md:248-249
say.

*ElementProofs* (`FactsHold`). `OnlyWaitingHeals`, `RestrictionsBite`,
`PersonKeepsRefusal`. An element refuses by the first entry of a list that
applies, so that the verdict after a step is 0 only if nothing applies any more.
Lemmas named for an element ("tightens") show that each entry that applied
before applies after: a date that has passed stays passed, a set of what is
forbidden has grown. One entry of three elements is the exception, a lock or a
delay that ends, and it is the code 4 that the property names. `FactsHold` says
that storage keeps its fields and that the dates in it are numbers, for every
operator call of every element.

*OperationsProofs* (`EngineInv`, `KycInv`, `LogInv`, `FraudInv`). `CapsHold`:
the counters are the cardinalities of the holders and of the counted
non-accredited holders in the recorded balances, whatever trades, transfers and
rebindings do, and the commit itself refuses the holder that would pass a cap.
`HoldersAreCounted` says more: that the recorded balances are those of the
wallets. It needs that every trade is heard exactly once, and so it is proved
under `CountsArePathsOfTheirOwn`: no path option that blocks on the count also
blocks on the amount being free at the sender. Then an option of a group that
counts which passed before the tokens moved passes after, so the commit finds an
option in each such group, the one of least rank, and every option of such a
group counts: the counter hears of the trade exactly once. Manifests without
that hypothesis are those of the run `CommitSkipsPath`, in which the counter is
not told. Mirroring is stated by wallet, with at most one wallet for each
person, which is how `IdentityUniqueness` binds them. `RevocationSticks` and
`AuditedBeforePublished` rest on `KycInv`: what waits to be stored has its
audit, and nothing negative is later than what the store holds. `AckedIsListed`:
as long as nobody reopens it the file may be anything, so `LogInv` says what it
can still become. It is torn at its end, or it ends in the last hash of some
chain that lists everything acknowledged. A hash commits to the whole chain
before it, so a file that validates and ends in that hash is that chain (two
chains with the same last hash are one, from a least place at which they
differ); an altered line, or one taken out before the last, cannot lead to it.
`DoubleIsFlagged`: while nobody is flagged the small pieces of the window that
runs are below the threshold, since one piece is and from the second on the
window's total decides. Two windows of a group begin further apart than the
setting, so what a span as long as the setting holds of the time before the
window lies in one earlier window and is below the threshold as well
(`FraudInv`). `ClockIsThatOfPurchases`: the recursion along the lineage has one
solution (of two, take a set of visited lots where they part that leaves the
fewest to visit: they part one lot further on as well). A solution is the clock
of the purchase reached from a lot, which is stated without recursion, by the
least set that holds a lot and the lots its lineage names; a cycle or a cut
lineage reaches none. `VolumeCountsExecutions` has two halves (`GroupsInv`). On
the calendar the months follow each other and cover every day, so the day on
which a window starts is never earlier than that of the day before. The moment
is: the last four days of May have windows that start on 28 February, each at
its own time of day, so a sale of that day leaves the window at noon and is back
in it at midnight. The property therefore counts a sale until the day of its
window's start has passed it, and on its own day until its time of day. In the
ledger executions and places are one to one, so the sum over the places in the
window is that over the executions: a sum does not depend on names, nor on which
element is taken first.

*ServiceProofs* (`HostInv`, `LimiterInv`, `DeskInv`, `LockInv`, `IndexInv`).
`AuditedBeforeDelivered` counts: replies sent and replies that may still be sent
are together no more than the audit records. `RetryGetsTheSameQuote`: a handler
past its binding asks for its own principal and carries the quote of the book,
which never changes. `LimiterIsFair`: a bucket knows at least what was let through
since its start, and that its start was. A window of the same principal begins
only after the previous one is over, whose first request is then older than a
window, so the last window's length before a start holds at most all but one of
the limit; an interval that reaches into both has less than twice the limit. That
keeps also what the sweep forgets. `EvidenceIsHonest`: only the head of the queue has begun,
and what it read still stands. `AckedIsStored` is proved for `MaxWaiters <= 1`,
since with two waiters it is false (run `StoreLockTwoWaiters`): who is inside
holds the directory, the one that removes it removes a dead process's, and
nobody else waits. `IndexIsExact` is proved for `MaxReorg <= confirmations`,
which is what an operator chooses `confirmations` for: final blocks then stay,
and every sync covers what its target needs together with its batch, wherever
another sync has moved the cursor. Unless calls ever overlapped (`AloneAt`), the
one that is under way has asked for the hash of the block that the cursor still
names, so that it raises no false alarm, and has added nothing up to the cursor,
so that an event is stored once, and once more at most for each crash. With
overlapping calls both fail, false alarms and events stored any number of times,
and only the rest of the property is claimed.

*ToolProofs* (`CommandInv`, `AuditInv`, `RuntimeInv`, `ReleaseInv`, `StudioInv`,
`OnboardingInv`).
`LockupStaysOffPools`: the live policy and the waiting one both fit the venues.
`CommittedIsReconstructible`: a file a command has opened is torn and nobody else
has it open, and what is stored under a hash is what it names.
`ReadyServesReviewed`: what was loaded is what was captured or that content is
gone. `ReviewedIsBroadcast`, `VerifiedIsHandedOff`: what each stage of a command
may still rely on of trees, artifact and chain, with one sender for each
deployment; answers that came in stay true. Of the deployer, which the hash does
not read, `ReviewedIsBroadcast` says nothing (`OneHashTwoTrees`).
`PlannedIsDeployed`, `RunningIsVerified`: a dry run that no edit overtook has read
the files it names; what is launched is what activation.json names, and that one
verification has read, unless the files changed while verify ran or a body was
awaited (`misnamed`, and `HandoffUnverified` for what that does).
`PlanReachesItsConfig`: registries, policy, counterparties and checkpoint are a
function of the set of transactions that were mined, and a transaction whose
dependencies were mined finds what the contracts require. For the manifest that
takes a new recipe where there are new elements (`ElementsReachManifest`).

**Only proved**, as no run spends time on them: `NonceUnique`,
`StrictQuotesCarryEvidence`, `ReleasedIsTerminal`, `TerminalIsFinal`,
`UnpauseAfterNotice`, `RevocationRestartsDelay`, `PausesAreGates`,
`DelegatesAreGates`, `NoticesAreLive`, `LiveHasPlan`, `VersionNamesSemantics`,
`ResumeAfterNotice` and the type invariants.

**Only model-checked.** All liveness properties (`LeasesAreReleased`,
`OrphanedObservationLeaves`, `CatchesUp`, `ShutdownEnds`, `CallsReturn`): the
prover handles neither fairness nor ENABLED. Every other property that a passing
run checks is also a theorem, three of them under a hypothesis on the constants
that the theorem names: `HoldersAreCounted` (`CountsArePathsOfTheirOwn`),
`AckedIsStored` (one waiter at most) and `IndexIsExact` (no reorganisation deeper
than the confirmations). The passing runs stay within all three; `CommitSkipsPath` shows the
trade that the first one excludes and `StoreLockTwoWaiters` the record that is
lost without the second.

**Two readings of `@`.** TLAPS takes `@` in an EXCEPT with several keys as the
value of the original function, TLC as that of the function updated so far. They
differ when two keys are equal, as for a transfer from a wallet to itself; such
updates are written as two nested ones (`Moved` in HolderCount, `after` in
ComplianceEngine).

## Not modelled

Adapters without state, loggers, parsing, formatting and printing, the web pages
and the test net demonstration: nothing in them depends on an order of events.
Cryptography is abstracted to who signed, hashes to what they commit to.
Case work on surveillance flags is left out: nothing modelled reads it. (An
extension of a deadline can make an overdue flag not overdue.)

Met while modelling and not covered by a property:

* `policyId` carries no version of the policy, so a quote survives an update
  that keeps the id.
* An onboarding update with new elements and no new recipe gives the manifest an
  empty `dependsOn` (services/toolkit/src/production-onboarding.ts:591), and
  nobody looks whether the previous artifact of an update is stored.
* A direct role hides the role of the cluster (RegMIssuerBuying.sol:330-337).
  Code 3 of EngineSelection and code 1 of OperatorSelfDealing are unreachable.
* Binding a new wallet seeds a claim where none is left (IdentityUniqueness.sol:163).
* The CLI's onboarding retires a manifest before it registers the next; a failure
  in between leaves the token RETIRED. Its watch skips block numbers that a
  reverted local chain uses again, and its list of events lacks
  `ManifestSemanticUpdateActivated`.
* The deployer stays operator of the registry, so that a registration past the
  factory's venue check is possible.
* Studio: the production preflight sets its evidence for a config saved meanwhile
  (api.ts:587-605); a deployment that lands during an onboarding marks the new
  binding as activated (api.ts:426); overlapping starts orphan children, and a
  stop that ends late resets the project of a newer start (runtime.ts:158-165),
  so that the handoff does not show what runs.
* `--contracts X` in the repository's root hashes X and builds the root
  (commands.ts:486-488). forge writes the artifact before it broadcasts.
* Indexer: its files are overwritten in place, and one that a crash leaves torn
  cannot be read again; the model's writes are whole.
* A torn artifact is refused for ever (policy-audit.ts:174); the checkpoint's hash
  omits nested fields (checkpoint.ts:45).

## Plan

What is left, in this order:

1. Proofs. `HoldersAreCounted`, `AckedIsStored` and `IndexIsExact` are false
   without their hypotheses; those could be weakened further (an option that is
   free of the sender's balance before and after, a stale directory that one of
   two waiters leaves alone).
2. Breadth. The production preflight of the studio, the routes of the operator
   API, the desk's set-up of the chain, the case workflow of surveillance flags
   and the audit checkpoints of the engine.
