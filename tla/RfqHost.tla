-------------------------------- MODULE RfqHost --------------------------------
(***************************************************************************)
(* services/rfq-host: handleRequest of server.ts over its ports, and the   *)
(* life of the process in runtime.ts. A request is a chain of awaits, any  *)
(* of which may fail or never end; clients retry with the same key; the    *)
(* process stops in an orderly way, stops with requests in flight, dies    *)
(* and starts again. Quotes and audit records outlive it.                  *)
(*                                                                         *)
(* The coordinator is the book of QuoteBook: one record for a key, replied *)
(* again to the same intent, refused to another, and closed for good when  *)
(* it expires. Authenticator, limiter, readiness probe, policy resolver    *)
(* and audit sink are ports that answer anything or fail.                  *)
(***************************************************************************)
EXTENDS Naturals, FiniteSets

CONSTANTS
    HostRequests,   \* requests that may be in flight together
    Takers,
    HostKeys,       \* idempotency keys
    Policies,       \* what resolvePolicyId may answer
    HostSignatures, \* what the signer may answer
    NoValue,        \* undefined
    Probed,         \* REQUIRED_READINESS_COMPONENTS
    MaxRequests,    \* bound of the requests
    MaxStops        \* bound of the crashes and shutdowns

Quote == [taker: Takers, policy: Policies, signature: HostSignatures]

ASSUME HostAssumption ==
    /\ IsFiniteSet(HostRequests) /\ NoValue \notin Quote
    /\ MaxRequests \in Nat /\ MaxStops \in Nat

VARIABLES
    phase,      \* "up", "stopping", "stopped" (shutdown() settled) or "down"
    closing,    \* safeClose(dependencies.close) has not settled
    severed,    \* closeAllConnections: no reply reaches its client
    request,    \* local state of each handler
    book,       \* records of the coordinator's store
    closedKeys, \* keys whose record is closed
    audits,     \* success records of the audit sink, for each key
    replies,    \* observation: quotes that reached a client
    sent,       \* observation: how many did, for each key
    begun, stops

hostVars == <<phase, closing, severed, request, book, closedKeys, audits,
              replies, sent, begun, stops>>
durable == <<book, closedKeys, audits>>
process == <<phase, closing, severed, stops>>
observed == <<replies, sent>>

NoRequest == [stage |-> "idle", from |-> NoValue, taker |-> NoValue, key |-> NoValue,
         policy |-> NoValue, quote |-> NoValue]

HostInit ==
    /\ phase = "up" /\ closing = FALSE /\ severed = FALSE
    /\ request = [r \in HostRequests |-> NoRequest]
    /\ book = [k \in HostKeys |-> NoValue]
    /\ closedKeys = {}
    /\ audits = [k \in HostKeys |-> 0] /\ sent = [k \in HostKeys |-> 0]
    /\ replies = {}
    /\ begun = 0 /\ stops = 0

-----------------------------------------------------------------------------
At(r, stage) == request[r].stage = stage
Goes(r, stage) == request' = [request EXCEPT ![r].stage = stage]

(* A body that passes normalizeQuoteBody and names "taker", from a principal *)
(* who is bound to "principal"; anything else ends in a refusal.             *)
BoundTo(principal, taker) == principal = taker

Receive(r, principal, taker, k) ==
    /\ phase = "up" /\ At(r, "idle") /\ begun < MaxRequests
    /\ begun' = begun + 1
    /\ request' = [request EXCEPT ![r] =
          [NoRequest EXCEPT !.stage = IF BoundTo(principal, taker) THEN "limiting" ELSE "failing",
                       !.from = principal, !.taker = taker, !.key = k]]
    /\ UNCHANGED <<process, durable, observed>>

(* rateLimiter.check; 429 when it refuses.                                   *)
Limit(r) ==
    /\ At(r, "limiting")
    /\ Goes(r, "probing") \/ Goes(r, "failing")
    /\ UNCHANGED <<process, durable, observed, begun>>

(* A probe may report a component it has not got, leave one out, repeat one, *)
(* say something else than a report, fail, or outlive the timeout ("none").  *)
Reports == [ready: BOOLEAN, up: SUBSET Probed, shape: {"report", "malformed", "none"}]
ready(report) == report.shape = "report" /\ report.ready /\ report.up = Probed

ReadReadiness(r) ==
    /\ At(r, "probing")
    /\ \E report \in Reports : Goes(r, IF ready(report) THEN "resolving" ELSE "failing")
    /\ UNCHANGED <<process, durable, observed, begun>>

ResolvePolicyId(r) ==
    /\ At(r, "resolving")
    /\ \/ \E p \in Policies :
             request' = [request EXCEPT ![r].stage = "quoting", ![r].policy = p]
       \/ Goes(r, "failing")
    /\ UNCHANGED <<process, durable, observed, begun>>

(* quoteWithEvidence, which pricing, risk, inventory, signer or store may    *)
(* fail; 409 for a key with another intent.                                  *)
(* Mutation: the policy alone is the intent. *)
SamePolicy(r, quote) == quote.policy = request[r].policy
SameIntent(r, quote) == quote.policy = request[r].policy /\ quote.taker = request[r].taker

Issuable(k) == IF book[k] = NoValue THEN Quote ELSE {book[k]}

QuoteWithEvidence(r) ==
    LET k == request[r].key IN
    /\ At(r, "quoting")
    /\ \/ /\ k \notin closedKeys
          /\ \E quote \in Issuable(k) :
                /\ SameIntent(r, quote)
                /\ book' = [book EXCEPT ![k] = quote]
                /\ request' = [request EXCEPT ![r].stage = "auditing", ![r].quote = quote]
       \/ Goes(r, "failing") /\ UNCHANGED book
    /\ UNCHANGED <<process, closedKeys, audits, observed, begun>>

(* strictRecordAudit: a failure is reported as an incident and ends in 503.  *)
(* It may also be the answer alone that fails.                               *)
(* Mutation: the failure is reported and the quote replied. *)
StageAfterLostAudit == "replying"
StageAfterFailedAudit == "failing"

StrictRecordAudit(r) ==
    /\ At(r, "auditing")
    /\ \/ /\ audits' = [audits EXCEPT ![request[r].key] = @ + 1]
          /\ Goes(r, "replying") \/ Goes(r, "failing")
       \/ Goes(r, StageAfterFailedAudit) /\ UNCHANGED audits
    /\ UNCHANGED <<process, book, closedKeys, observed, begun>>

(* sendJson. The client may have gone, and is when connections were severed. *)
SendReply(r) ==
    /\ At(r, "replying")
    /\ request' = [request EXCEPT ![r] = NoRequest]
    /\ \/ /\ ~severed
          /\ sent' = [sent EXCEPT ![request[r].key] = @ + 1]
          /\ replies' = replies \cup {[to |-> request[r].from, key |-> request[r].key,
                                       quote |-> request[r].quote]}
       \/ UNCHANGED observed
    /\ UNCHANGED <<process, durable, begun>>

(* The catch block: incident and audit are tried, the status is sent.        *)
Refuse(r) ==
    /\ At(r, "failing")
    /\ request' = [request EXCEPT ![r] = NoRequest]
    /\ UNCHANGED <<process, durable, observed, begun>>

(* The store's workers expire or revoke a record.                            *)
CloseRecord(k) ==
    /\ book[k] # NoValue /\ k \notin closedKeys
    /\ closedKeys' = closedKeys \cup {k}
    /\ UNCHANGED <<process, request, book, audits, observed, begun>>

-----------------------------------------------------------------------------
(* shutdown: no new requests, and dependencies are closed while handlers may *)
(* still use them. A second signal gets the promise of the first.            *)
Shutdown ==
    /\ phase = "up" /\ stops < MaxStops
    /\ phase' = "stopping" /\ closing' = TRUE /\ stops' = stops + 1
    /\ UNCHANGED <<severed, request, durable, observed, begun>>

DependenciesClosed ==
    /\ closing
    /\ closing' = FALSE
    /\ UNCHANGED <<phase, severed, stops, request, durable, observed, begun>>

Stopped ==
    /\ phase = "stopping" /\ ~closing
    /\ \A r \in HostRequests : At(r, "idle")
    /\ phase' = "stopped"
    /\ UNCHANGED <<closing, severed, stops, request, durable, observed, begun>>

(* settleWithin: the timer wins over what has not settled.                   *)
(* Mutation: shutdown waits for everything to settle. *)
NoTimer == FALSE
Timer == phase = "stopping"
ShutdownTimeout ==
    /\ Timer
    /\ phase' = "stopped" /\ severed' = TRUE
    /\ UNCHANGED <<closing, stops, request, durable, observed, begun>>

(* The process ends, by itself once it has stopped, or dies.                 *)
Exit ==
    /\ phase # "down"
    /\ phase = "stopped" \/ stops < MaxStops
    /\ stops' = IF phase = "stopped" THEN stops ELSE stops + 1
    /\ phase' = "down" /\ closing' = FALSE /\ severed' = FALSE
    /\ request' = [r \in HostRequests |-> NoRequest]
    /\ UNCHANGED <<durable, observed, begun>>

(* startProductionRFQRuntime; a start that fails leaves the process down.    *)
StartHost ==
    /\ phase = "down"
    /\ phase' = "up"
    /\ UNCHANGED <<closing, severed, stops, request, durable, observed, begun>>

HandlerStep(r) ==
    \/ Limit(r) \/ ReadReadiness(r) \/ ResolvePolicyId(r) \/ QuoteWithEvidence(r)
    \/ StrictRecordAudit(r) \/ SendReply(r) \/ Refuse(r)

LifeStep ==
    Shutdown \/ DependenciesClosed \/ Stopped \/ ShutdownTimeout \/ Exit \/ StartHost

HostNext ==
    \/ \E r \in HostRequests, principal, taker \in Takers, k \in HostKeys :
          Receive(r, principal, taker, k)
    \/ \E r \in HostRequests : HandlerStep(r)
    \/ \E k \in HostKeys : CloseRecord(k)
    \/ LifeStep

(* Only the timer of the shutdown is sure to fire; no port is sure to answer. *)
HostFairness == WF_hostVars(ShutdownTimeout)

HostSpec == HostInit /\ [][HostNext]_hostVars /\ HostFairness

-----------------------------------------------------------------------------
(* Each quote a client holds was recorded by the audit before it left, each   *)
(* time it left: no failure of the sink, retry or restart gets one past it.   *)
AuditedBeforeDelivered == \A k \in HostKeys : sent[k] <= audits[k]

(* A key stands for one quote towards its clients, although its first reply   *)
(* was lost to an audit that failed, a timeout or a crash, although the       *)
(* policy, the signer's answer and the process have changed since, and        *)
(* although another taker uses the same key: each quote reaches its taker.    *)
RetryGetsTheSameQuote ==
    \A a, b \in replies :
        /\ a.quote.taker = a.to
        /\ a.key = b.key => a.quote = b.quote

(* shutdown() settles, whatever hangs.                                        *)
ShutdownEnds == phase = "stopping" ~> phase # "stopping"
=============================================================================
