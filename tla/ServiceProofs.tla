---------------------------- MODULE ServiceProofs -----------------------------
(***************************************************************************)
(* The processes that must keep going, for any numbers of requests, syncs, *)
(* callers and actions: an inductive invariant for each, and what it keeps. *)
(***************************************************************************)
EXTENDS EventIndexer, RfqHost, StoreLock, DemoDesk, RateLimiter, FiniteSetTheorems, TLAPS

(* The RFQ host.  Each reply that may still be sent has an audit of its own, *)
(* and each quote on its way is the one the book holds.                      *)

Stages == {"idle", "limiting", "probing", "resolving", "quoting", "auditing", "replying",
           "failing"}
Handlers ==
    [stage: Stages, from: Takers \cup {NoValue}, taker: Takers \cup {NoValue},
     key: HostKeys \cup {NoValue}, policy: Policies \cup {NoValue}, quote: Quote \cup {NoValue}]

HostTypes ==
    /\ request \in [HostRequests -> Handlers]
    /\ book \in [HostKeys -> Quote \cup {NoValue}]
    /\ audits \in [HostKeys -> Nat] /\ sent \in [HostKeys -> Nat]

(* A handler that got past the binding asks for its own principal, and one   *)
(* that has a quote has the one of the book.                                 *)
Handles(r) ==
    LET j == request[r] IN
    /\ j.stage \notin {"idle", "failing"} => j.from = j.taker /\ j.key \in HostKeys
    /\ j.stage \in {"auditing", "replying"} =>
          j.quote # NoValue /\ j.quote = book[j.key] /\ j.quote.taker = j.from

RepliesAreOfTheBook ==
    \A a \in replies :
        /\ a.key \in HostKeys /\ a.quote = book[a.key] /\ a.quote # NoValue
        /\ a.quote.taker = a.to

(* The replies that an audit let pass and that are still to be sent.         *)
Replying(k) == {r \in HostRequests : request[r].stage = "replying" /\ request[r].key = k}
AuditsCoverReplies == \A k \in HostKeys : sent[k] + Cardinality(Replying(k)) <= audits[k]

HostInv ==
    /\ HostTypes
    /\ \A r \in HostRequests : Handles(r)
    /\ RepliesAreOfTheBook
    /\ AuditsCoverReplies

(* Handlers that reply on one key are finitely many. *)
LEMMA ReplyingIsFinite ==
  ASSUME NEW k
  PROVE  IsFiniteSet(Replying(k)) /\ Cardinality(Replying(k)) \in Nat
<1>1. Replying(k) \subseteq HostRequests
  BY DEF Replying
<1> QED BY <1>1, HostAssumption, FS_Subset, FS_CardinalityType

(* A process that starts has no requests and no audit records. *)
LEMMA HostStarts == HostInit => HostInv
<1> SUFFICES ASSUME HostInit PROVE HostInv
  OBVIOUS
<1>1. NoRequest \in Handlers /\ NoRequest.stage = "idle"
  BY DEF NoRequest, Handlers, Stages
<1>2. HostTypes
  BY <1>1 DEF HostInit, HostTypes
<1>3. \A r \in HostRequests : request[r] = NoRequest
  BY DEF HostInit
<1>4. \A r \in HostRequests : Handles(r)
  BY <1>1, <1>3 DEF Handles
<1>5. \A k \in HostKeys : Replying(k) = {}
  BY <1>1, <1>3 DEF Replying
<1>6. AuditsCoverReplies
  BY <1>5, FS_EmptySet DEF AuditsCoverReplies, HostInit
<1> QED BY <1>2, <1>4, <1>6 DEF HostInv, RepliesAreOfTheBook, HostInit

(* One handler moves, and is not replying before or after.                   *)
LEMMA HandlerMoves ==
  ASSUME HostInv, NEW r \in HostRequests, NEW j \in Handlers,
         request' = [request EXCEPT ![r] = j],
         request[r].stage # "replying", j.stage # "replying",
         j.stage \notin {"idle", "failing"} => j.from = j.taker /\ j.key \in HostKeys,
         j.stage # "auditing",
         UNCHANGED <<book, audits, observed>>
  PROVE  HostInv'
<1>0. HostTypes /\ UNCHANGED <<book, audits, sent, replies>>
  BY DEF HostInv, observed
<1>1. request'[r] = j /\ \A u \in HostRequests \ {r} : request'[u] = request[u]
  BY <1>0 DEF HostTypes
<1>2. HostTypes'
  BY <1>0 DEF HostTypes
<1>3. \A u \in HostRequests : Handles(u)'
  BY <1>0, <1>1 DEF HostInv, Handles
<1>4. \A k \in HostKeys : Replying(k)' = Replying(k)
  BY <1>1 DEF Replying
<1>5. AuditsCoverReplies'
  BY <1>0, <1>4 DEF HostInv, AuditsCoverReplies
<1> QED BY <1>0, <1>2, <1>3, <1>5 DEF HostInv, RepliesAreOfTheBook

(* Handlers rest, or are gone with their process.                            *)
LEMMA ProcessChanges ==
  ASSUME HostInv, request' = request \/ request' = [r \in HostRequests |-> NoRequest],
         UNCHANGED <<book, audits, observed>>
  PROVE  HostInv'
<1>0. HostTypes /\ UNCHANGED <<book, audits, sent, replies>>
  BY DEF HostInv, observed
<1>1. NoRequest \in Handlers /\ NoRequest.stage = "idle"
  BY DEF NoRequest, Handlers, Stages
<1>2. HostTypes'
  BY <1>0, <1>1 DEF HostTypes
<1>3. \A r \in HostRequests : Handles(r)'
  BY <1>0, <1>1 DEF HostInv, Handles
<1>4. AuditsCoverReplies'
  <2>1. CASE request' = request
    BY <1>0, <2>1 DEF HostInv, AuditsCoverReplies, Replying
  <2>2. CASE request' = [r \in HostRequests |-> NoRequest]
    <3>1. \A k \in HostKeys : Replying(k)' = {}
      BY <1>1, <2>2 DEF Replying
    <3>2. ASSUME NEW k \in HostKeys PROVE sent[k] + 0 <= audits[k]
      BY <1>0, ReplyingIsFinite DEF HostInv, HostTypes, AuditsCoverReplies
    <3> QED BY <1>0, <3>1, <3>2, FS_EmptySet DEF AuditsCoverReplies
  <2> QED BY <2>1, <2>2
<1> QED BY <1>0, <1>2, <1>3, <1>4 DEF HostInv, RepliesAreOfTheBook

(* The invariant is inductive. *)
LEMMA HostStep == HostInv /\ [HostNext]_hostVars => HostInv'
<1> SUFFICES ASSUME HostInv, [HostNext]_hostVars PROVE HostInv'
  OBVIOUS
<1>0. /\ HostTypes /\ \A r \in HostRequests : request[r] \in Handlers /\ Handles(r)
      /\ AuditsCoverReplies /\ RepliesAreOfTheBook
  BY DEF HostInv, HostTypes
<1>1. ASSUME NEW r \in HostRequests, NEW principal \in Takers, NEW taker \in Takers,
             NEW k \in HostKeys, Receive(r, principal, taker, k)
      PROVE  HostInv'
  <2> DEFINE stage == IF BoundTo(principal, taker) THEN "limiting" ELSE "failing"
             j == [NoRequest EXCEPT !.stage = stage, !.from = principal, !.taker = taker, !.key = k]
  <2>1. /\ request[r].stage = "idle" /\ request' = [request EXCEPT ![r] = j]
        /\ UNCHANGED <<book, audits, observed>>
    BY <1>1 DEF Receive, At, durable
  <2>2. NoRequest \in Handlers
    BY DEF NoRequest, Handlers, Stages
  <2>3. stage \in {"limiting", "failing"} /\ (stage = "limiting" => principal = taker)
    BY DEF BoundTo
  <2> HIDE DEF stage
  <2>4. /\ j \in Handlers /\ j.stage = stage /\ j.from = principal /\ j.taker = taker
        /\ j.key = k
    BY <2>2, <2>3 DEF Handlers, Stages
  <2> HIDE DEF j
  <2> QED BY <2>1, <2>3, <2>4, HandlerMoves
<1>2. ASSUME NEW r \in HostRequests, NEW stage \in {"probing", "resolving", "quoting", "failing"},
             request[r].stage \notin {"idle", "replying", "failing"},
             Goes(r, stage), UNCHANGED <<book, audits, observed>>
      PROVE  HostInv'
  <2> DEFINE j == [request[r] EXCEPT !.stage = stage]
  <2>1. request' = [request EXCEPT ![r] = j]
    BY <1>2 DEF Goes
  <2>2. /\ j \in Handlers /\ j.stage = stage /\ j.from = request[r].from
        /\ j.taker = request[r].taker /\ j.key = request[r].key
    BY <1>0, <1>2 DEF Handlers, Stages
  <2>3. request[r].from = request[r].taker /\ request[r].key \in HostKeys
    BY <1>0, <1>2 DEF Handles
  <2> HIDE DEF j
  <2> QED BY <1>2, <2>1, <2>2, <2>3, HandlerMoves
<1>3. ASSUME NEW r \in HostRequests, ResolvePolicyId(r) PROVE HostInv'
  <2>0. request[r].stage = "resolving" /\ UNCHANGED <<book, audits, observed>>
    BY <1>3 DEF ResolvePolicyId, At, durable
  <2>1. CASE Goes(r, "failing")
    BY <1>2, <2>0, <2>1
  <2>2. ASSUME NEW p \in Policies,
               request' = [request EXCEPT ![r].stage = "quoting", ![r].policy = p]
        PROVE  HostInv'
    <3> DEFINE j == [request[r] EXCEPT !.stage = "quoting", !.policy = p]
    <3>1. request' = [request EXCEPT ![r] = j]
      BY <1>0, <2>2 DEF HostTypes
    <3>2. /\ j \in Handlers /\ j.stage = "quoting" /\ j.from = request[r].from
          /\ j.taker = request[r].taker /\ j.key = request[r].key
      BY <1>0 DEF Handlers, Stages
    <3>3. request[r].from = request[r].taker /\ request[r].key \in HostKeys
      BY <1>0, <2>0 DEF Handles
    <3> HIDE DEF j
    <3> QED BY <2>0, <3>1, <3>2, <3>3, HandlerMoves
  <2> QED BY <1>3, <2>1, <2>2 DEF ResolvePolicyId
<1>4. ASSUME NEW r \in HostRequests, QuoteWithEvidence(r) PROVE HostInv'
  <2> DEFINE k == request[r].key
  <2>0. /\ request[r].stage = "quoting" /\ UNCHANGED <<audits, sent, replies>>
        /\ k \in HostKeys /\ request[r].from = request[r].taker
    BY <1>0, <1>4 DEF QuoteWithEvidence, At, Handles, observed
  <2>1. CASE Goes(r, "failing") /\ UNCHANGED book
    BY <1>2, <2>0, <2>1 DEF observed
  <2>2. ASSUME NEW quote \in Issuable(k), SameIntent(r, quote),
               book' = [book EXCEPT ![k] = quote],
               request' = [request EXCEPT ![r].stage = "auditing", ![r].quote = quote]
        PROVE  HostInv'
    <3> DEFINE j == [request[r] EXCEPT !.stage = "auditing", !.quote = quote]
    <3>1. request' = [request EXCEPT ![r] = j]
      BY <1>0, <2>2 DEF HostTypes
    <3>2. quote \in Quote /\ quote # NoValue /\ (book[k] # NoValue => quote = book[k])
      BY <1>0, <2>0, <2>2, HostAssumption DEF Issuable, HostTypes
    <3>3. quote.taker = request[r].from
      BY <2>0, <2>2 DEF SameIntent
    <3>4. /\ j \in Handlers /\ j.stage = "auditing" /\ j.from = request[r].from
          /\ j.taker = request[r].taker /\ j.key = k /\ j.quote = quote
      BY <1>0, <3>2 DEF Handlers, Stages
    <3> HIDE DEF j
    <3>5. request'[r] = j /\ \A u \in HostRequests \ {r} : request'[u] = request[u]
      BY <1>0, <3>1 DEF HostTypes
    <3>6. \A m \in HostKeys : book[m] # NoValue => book'[m] = book[m]
      BY <1>0, <2>2, <3>2 DEF HostTypes
    <3>7. book'[k] = quote
      BY <1>0, <2>0, <2>2 DEF HostTypes
    <3>8. HostTypes'
      BY <1>0, <2>0, <2>2, <3>1, <3>2, <3>4 DEF HostTypes
    <3>9. ASSUME NEW u \in HostRequests PROVE Handles(u)'
      <4>1. CASE u = r
        BY <2>0, <3>2, <3>3, <3>4, <3>5, <3>7, <4>1 DEF Handles
      <4>2. CASE u # r
        BY <1>0, <3>5, <3>6, <4>2 DEF Handles
      <4> QED BY <4>1, <4>2
    <3>10. RepliesAreOfTheBook'
      BY <1>0, <2>0, <3>6 DEF RepliesAreOfTheBook
    <3>11. \A m \in HostKeys : Replying(m)' = Replying(m)
      BY <2>0, <3>4, <3>5 DEF Replying
    <3>12. AuditsCoverReplies'
      BY <1>0, <2>0, <3>11 DEF AuditsCoverReplies
    <3> QED BY <3>8, <3>9, <3>10, <3>12 DEF HostInv
  <2> QED BY <1>4, <2>1, <2>2 DEF QuoteWithEvidence
<1>5. ASSUME NEW r \in HostRequests, StrictRecordAudit(r) PROVE HostInv'
  <2> DEFINE k == request[r].key
  <2>0. /\ request[r].stage = "auditing" /\ UNCHANGED <<book, sent, replies>>
        /\ k \in HostKeys
    BY <1>0, <1>5 DEF StrictRecordAudit, At, Handles, observed
  <2>1. CASE Goes(r, "failing") /\ UNCHANGED audits
    BY <1>2, <2>0, <2>1 DEF observed
  <2>2. ASSUME audits' = [audits EXCEPT ![k] = @ + 1],
               NEW stage \in {"replying", "failing"}, Goes(r, stage)
        PROVE  HostInv'
    <3> DEFINE j == [request[r] EXCEPT !.stage = stage]
    <3>1. request' = [request EXCEPT ![r] = j]
      BY <2>2 DEF Goes
    <3>2. /\ j \in Handlers /\ j.stage = stage /\ j.from = request[r].from
          /\ j.taker = request[r].taker /\ j.key = k /\ j.quote = request[r].quote
      BY <1>0, <2>2 DEF Handlers, Stages
    <3> HIDE DEF j
    <3>3. request'[r] = j /\ \A u \in HostRequests \ {r} : request'[u] = request[u]
      BY <1>0, <3>1 DEF HostTypes
    <3>4. HostTypes'
      BY <1>0, <2>0, <2>2, <3>1, <3>2 DEF HostTypes
    <3>5. ASSUME NEW u \in HostRequests PROVE Handles(u)'
      BY <1>0, <2>0, <3>2, <3>3 DEF Handles
    <3>6. ASSUME NEW m \in HostKeys PROVE sent'[m] + Cardinality(Replying(m))' <= audits'[m]
      <4>1. /\ sent[m] + Cardinality(Replying(m)) <= audits[m]
            /\ sent[m] \in Nat /\ audits[m] \in Nat /\ Cardinality(Replying(m)) \in Nat
            /\ IsFiniteSet(Replying(m)) /\ sent'[m] = sent[m]
        BY <1>0, <2>0, ReplyingIsFinite DEF AuditsCoverReplies, HostTypes
      <4>2. CASE m = k /\ stage = "replying"
        <5>1. Replying(m)' = Replying(m) \cup {r} /\ r \notin Replying(m)
          BY <2>0, <3>2, <3>3, <4>2 DEF Replying
        <5>2. Cardinality(Replying(m))' = Cardinality(Replying(m)) + 1
          BY <4>1, <5>1, FS_AddElement
        <5>3. audits'[m] = audits[m] + 1
          BY <1>0, <2>2, <4>2 DEF HostTypes
        <5> QED BY <4>1, <5>2, <5>3
      <4>3. CASE ~(m = k /\ stage = "replying")
        <5>1. Replying(m)' = Replying(m)
          BY <2>0, <2>2, <3>2, <3>3, <4>3 DEF Replying
        <5>2. audits'[m] \in Nat /\ audits'[m] >= audits[m]
          BY <1>0, <2>2, <4>1 DEF HostTypes
        <5> QED BY <4>1, <5>1, <5>2
      <4> QED BY <4>2, <4>3
    <3>7. AuditsCoverReplies'
      BY <3>6 DEF AuditsCoverReplies
    <3> QED BY <1>0, <2>0, <3>4, <3>5, <3>7 DEF HostInv, RepliesAreOfTheBook
  <2> QED BY <1>5, <2>1, <2>2 DEF StrictRecordAudit, StageAfterFailedAudit
<1>6. ASSUME NEW r \in HostRequests, SendReply(r) PROVE HostInv'
  <2> DEFINE k == request[r].key
             answer == [to |-> request[r].from, key |-> k, quote |-> request[r].quote]
  <2>0. /\ request[r].stage = "replying" /\ UNCHANGED <<book, audits>>
        /\ k \in HostKeys /\ request' = [request EXCEPT ![r] = NoRequest]
        /\ answer.quote = book[k] /\ answer.quote # NoValue /\ answer.quote.taker = answer.to
        /\ answer.key = k
    BY <1>0, <1>6 DEF SendReply, At, Handles, durable
  <2>1. \/ sent' = [sent EXCEPT ![k] = @ + 1] /\ replies' = replies \cup {answer}
        \/ UNCHANGED <<sent, replies>>
    BY <1>6 DEF SendReply, observed
  <2> HIDE DEF answer
  <2>2. NoRequest \in Handlers /\ NoRequest.stage = "idle"
    BY DEF NoRequest, Handlers, Stages
  <2>3. request'[r] = NoRequest /\ \A u \in HostRequests \ {r} : request'[u] = request[u]
    BY <1>0, <2>0 DEF HostTypes
  <2>4. HostTypes'
    <3>1. sent' \in [HostKeys -> Nat]
      BY <1>0, <2>0, <2>1 DEF HostTypes
    <3> QED BY <1>0, <2>0, <2>2, <3>1 DEF HostTypes
  <2>5. \A u \in HostRequests : Handles(u)'
    BY <1>0, <2>0, <2>2, <2>3 DEF Handles
  <2>6. RepliesAreOfTheBook'
    BY <1>0, <2>0, <2>1 DEF RepliesAreOfTheBook
  <2>7. ASSUME NEW m \in HostKeys PROVE sent'[m] + Cardinality(Replying(m))' <= audits'[m]
    <3>1. /\ sent[m] + Cardinality(Replying(m)) <= audits[m]
          /\ sent[m] \in Nat /\ audits[m] \in Nat /\ Cardinality(Replying(m)) \in Nat
          /\ IsFiniteSet(Replying(m)) /\ audits'[m] = audits[m]
      BY <1>0, <2>0, ReplyingIsFinite DEF AuditsCoverReplies, HostTypes
    <3>2. CASE m = k
      <4>1. Replying(m)' = Replying(m) \ {r} /\ r \in Replying(m)
        BY <2>0, <2>2, <2>3, <3>2 DEF Replying
      <4>2. Cardinality(Replying(m))' = Cardinality(Replying(m)) - 1
        BY <3>1, <4>1, FS_RemoveElement
      <4>3. sent'[m] = sent[m] + 1 \/ sent'[m] = sent[m]
        BY <1>0, <2>0, <2>1, <3>2 DEF HostTypes
      <4> QED BY <3>1, <4>2, <4>3
    <3>3. CASE m # k
      <4>1. Replying(m)' = Replying(m)
        BY <2>0, <2>2, <2>3, <3>3 DEF Replying
      <4>2. sent'[m] = sent[m]
        BY <1>0, <2>1, <3>3 DEF HostTypes
      <4> QED BY <3>1, <4>1, <4>2
    <3> QED BY <3>2, <3>3
  <2>8. AuditsCoverReplies'
    BY <2>7 DEF AuditsCoverReplies
  <2> QED BY <2>4, <2>5, <2>6, <2>8 DEF HostInv
<1>7. ASSUME NEW r \in HostRequests, Refuse(r) PROVE HostInv'
  <2>1. NoRequest \in Handlers /\ NoRequest.stage = "idle"
    BY DEF NoRequest, Handlers, Stages
  <2>2. /\ request[r].stage = "failing" /\ request' = [request EXCEPT ![r] = NoRequest]
        /\ UNCHANGED <<book, audits, observed>>
    BY <1>7 DEF Refuse, At, durable
  <2> QED BY <2>1, <2>2, HandlerMoves
<1>8. ASSUME NEW k \in HostKeys, CloseRecord(k) PROVE HostInv'
  BY <1>8, ProcessChanges DEF CloseRecord
<1>9. ASSUME LifeStep PROVE HostInv'
  BY <1>9, ProcessChanges DEF LifeStep, Shutdown, DependenciesClosed, Stopped, ShutdownTimeout,
     Exit, StartHost, durable
<1>10. ASSUME UNCHANGED hostVars PROVE HostInv'
  BY <1>10, ProcessChanges DEF hostVars, observed
<1>11. ASSUME NEW r \in HostRequests, Limit(r) \/ ReadReadiness(r) PROVE HostInv'
  <2>1. /\ request[r].stage \in {"limiting", "probing"}
        /\ \E stage \in {"probing", "resolving", "failing"} : Goes(r, stage)
        /\ UNCHANGED <<book, audits, observed>>
    BY <1>11 DEF Limit, ReadReadiness, At, durable
  <2> QED BY <1>2, <2>1
<1> QED BY <1>1, <1>3, <1>4, <1>5, <1>6, <1>7, <1>8, <1>9, <1>10, <1>11
        DEF HostNext, HandlerStep

(* HostRequests in flight, audit records and delivered replies agree at all     *)
(* times.                                                                   *)
THEOREM HostInvHolds == HostSpec => []HostInv
  BY HostStarts, HostStep, PTL DEF HostSpec

(* No taker receives a quote the audit sink has not recorded, however       *)
(* requests, failures and shutdowns interleave.                             *)
THEOREM DeliveriesAreAudited == HostSpec => []AuditedBeforeDelivered
<1>1. HostInv => AuditedBeforeDelivered
  BY ReplyingIsFinite DEF HostInv, HostTypes, AuditsCoverReplies, AuditedBeforeDelivered
<1> QED BY <1>1, HostInvHolds, PTL

(* Each quote reaches its taker, and a key stands for one quote towards     *)
(* all its clients.                                                         *)
THEOREM RetriesGetTheSameQuote == HostSpec => []RetryGetsTheSameQuote
<1>1. HostInv => RetryGetsTheSameQuote
  BY DEF HostInv, RepliesAreOfTheBook, RetryGetsTheSameQuote
<1> QED BY <1>1, HostInvHolds, PTL

-----------------------------------------------------------------------------
(* The demo desk.  Operations wait in a queue, so a reading stands until the *)
(* transaction of the operation that took it.                                *)

Outcomes == {"settled", "ComplianceRejected", "RFQMakerNotApproved", "NotAuthorized"}
DeskStages == {"none", "start", "wallets", "reading", "simulating", "sending", "mined"}
DeskRecords ==
    [kind: Operations \cup {NoReading}, stage: DeskStages, before: Nat \cup {NoReading},
     verified: Outcomes \cup {NoReading}, mined: Outcomes \cup {NoReading}]

DeskTypes ==
    /\ moved \in Nat
    /\ actionQueue \in Seq(DeskActions)
    /\ desk \in [DeskActions -> DeskRecords]

Queued(a) == \E i \in DOMAIN actionQueue : actionQueue[i] = a
Refusable == {"revoked-maker", "compliance-proof", "adapter-boundary"}

(* What an operation has read is what its own transaction changed, or did not. *)
ReadingHolds(j, balance) ==
    /\ j.stage \in {"reading", "simulating", "sending", "mined"} => j.kind \in {"settle"} \cup Refusable
    /\ j.stage \in {"simulating", "sending"} => j.before = balance
    /\ j.stage = "mined" =>
          /\ j.before \in Nat /\ j.mined \in Outcomes
          /\ balance = j.before + (IF j.mined = "settled" THEN 1 ELSE 0)

(* Every operation is in the queue, and only the first has begun.            *)
OneAtATime ==
    \A a \in DeskActions :
        /\ desk[a].stage # "none" => Queued(a)
        /\ desk[a].stage \notin {"none", "start"} => Turn(a)

DeskInv ==
    /\ DeskTypes
    /\ OneAtATime
    /\ \A a \in DeskActions : ReadingHolds(desk[a], moved)
    /\ EvidenceIsHonest

(* An action that was not asked for is a record of the desk. *)
LEMMA FreshAction == NoAction \in DeskRecords /\ NoAction.stage = "none"
BY DEF NoAction, DeskRecords, DeskStages

(* The desk starts with nothing queued. *)
LEMMA DeskStarts == DeskInit => DeskInv
<1> SUFFICES ASSUME DeskInit PROVE DeskInv
  OBVIOUS
<1>1. DeskTypes
  BY FreshAction DEF DeskInit, DeskTypes
<1>2. \A a \in DeskActions : desk[a].stage = "none"
  BY FreshAction DEF DeskInit
<1> QED BY <1>1, <1>2 DEF DeskInv, OneAtATime, ReadingHolds, EvidenceIsHonest, DeskInit

(* The operation at the head of the queue takes a step.                      *)
LEMMA HeadMoves ==
  ASSUME DeskInv, NEW a \in DeskActions, Turn(a), desk[a].stage # "none",
         NEW j \in DeskRecords, desk' = [desk EXCEPT ![a] = j], j.stage # "none",
         ReadingHolds(j, moved'), moved' \in Nat, UNCHANGED <<actionQueue, evidenced>>
  PROVE  DeskInv'
<1>0. DeskTypes /\ OneAtATime
  BY DEF DeskInv
<1>1. desk'[a] = j /\ \A b \in DeskActions \ {a} : desk'[b] = desk[b]
  BY <1>0 DEF DeskTypes
<1>2. DeskTypes'
  BY <1>0 DEF DeskTypes
<1>3. OneAtATime'
  BY <1>0, <1>1 DEF OneAtATime, Queued, Turn
<1>4. ASSUME NEW b \in DeskActions PROVE ReadingHolds(desk[b], moved)'
  <2>1. CASE b = a
    BY <1>1, <2>1
  <2>2. CASE b # a
    <3>1. desk[b].stage \in {"none", "start"}
      BY <1>0, <2>2 DEF OneAtATime, Turn
    <3> QED BY <1>1, <2>2, <3>1 DEF ReadingHolds
  <2> QED BY <2>1, <2>2
<1>5. EvidenceIsHonest'
  BY DEF DeskInv, EvidenceIsHonest
<1> QED BY <1>2, <1>3, <1>4, <1>5 DEF DeskInv

(* It ends, and shows what it read.                                          *)
LEMMA HeadEnds ==
  ASSUME DeskInv, NEW a \in DeskActions, Turn(a), desk[a].stage # "none",
         SettlePromise(a), UNCHANGED moved, EvidenceIsHonest'
  PROVE  DeskInv'
<1>0. DeskTypes /\ OneAtATime
  BY DEF DeskInv
<1>1. actionQueue' = Tail(actionQueue) /\ desk' = [desk EXCEPT ![a] = NoAction]
  BY DEF SettlePromise
<1>2. desk'[a] = NoAction /\ \A b \in DeskActions \ {a} : desk'[b] = desk[b]
  BY <1>0, <1>1 DEF DeskTypes
<1>3. Queued(a)
  BY <1>0 DEF OneAtATime
<1> DEFINE q == actionQueue
<1>4. /\ q \in Seq(DeskActions) /\ Len(q) \in Nat /\ Len(q) > 0 /\ DOMAIN q = 1..Len(q)
  BY <1>0, <1>3 DEF DeskTypes, Queued
<1>5. q[1] = a
  BY <1>4 DEF Turn
<1> HIDE DEF q
<1>6. /\ Tail(q) \in Seq(DeskActions) /\ Len(Tail(q)) = Len(q) - 1
      /\ DOMAIN Tail(q) = 1..(Len(q) - 1)
      /\ \A i \in 1..(Len(q) - 1) : Tail(q)[i] = q[i + 1]
  BY <1>4
<1>7. DeskTypes'
  BY <1>0, <1>1, <1>6, FreshAction DEF DeskTypes, q
<1>8. ASSUME NEW b \in DeskActions PROVE desk'[b].stage \in {"none", "start"}
  BY <1>0, <1>2, FreshAction DEF OneAtATime, Turn
<1>9. ASSUME NEW b \in DeskActions, desk'[b].stage # "none" PROVE Queued(b)'
  <2>1. b # a /\ desk[b].stage # "none"
    BY <1>2, <1>9, FreshAction
  <2>2. PICK i \in 1..Len(q) : q[i] = b
    BY <1>0, <1>4, <2>1 DEF OneAtATime, Queued, q
  <2>3. i - 1 \in 1..(Len(q) - 1) /\ (i - 1) + 1 = i
    BY <1>4, <1>5, <2>1, <2>2
  <2>4. Tail(q)[i - 1] = b
    BY <1>6, <2>2, <2>3
  <2> QED BY <1>1, <1>6, <2>3, <2>4 DEF Queued, q
<1>10. OneAtATime'
  BY <1>8, <1>9 DEF OneAtATime
<1>11. \A b \in DeskActions : ReadingHolds(desk[b], moved)'
  BY <1>8 DEF ReadingHolds
<1> QED BY <1>7, <1>10, <1>11 DEF DeskInv

(* The invariant is inductive. *)
LEMMA DeskStep == DeskInv /\ [DeskNext]_deskVars => DeskInv'
<1> SUFFICES ASSUME DeskInv, [DeskNext]_deskVars PROVE DeskInv'
  OBVIOUS
<1>0. /\ DeskTypes /\ OneAtATime /\ EvidenceIsHonest /\ moved \in Nat
      /\ \A a \in DeskActions : desk[a] \in DeskRecords /\ ReadingHolds(desk[a], moved)
  BY DEF DeskInv, DeskTypes
<1>1. ASSUME NEW a \in DeskActions, NEW kind \in Operations, Enqueue(a, kind) PROVE DeskInv'
  <2> DEFINE j == [NoAction EXCEPT !.kind = kind, !.stage = "start"]
             q == actionQueue
  <2>1. /\ desk[a] = NoAction /\ actionQueue' = Append(q, a)
        /\ desk' = [desk EXCEPT ![a] = j] /\ UNCHANGED <<moved, evidenced>>
    BY <1>1 DEF Enqueue, deskChain
  <2>2. j \in DeskRecords /\ j.stage = "start"
    BY FreshAction DEF DeskRecords, DeskStages
  <2> HIDE DEF j
  <2>3. desk'[a] = j /\ \A b \in DeskActions \ {a} : desk'[b] = desk[b]
    BY <1>0, <2>1 DEF DeskTypes
  <2>4. q \in Seq(DeskActions) /\ Len(q) \in Nat /\ DOMAIN q = 1..Len(q)
    BY <1>0 DEF DeskTypes
  <2> HIDE DEF q
  <2>5. /\ Append(q, a) \in Seq(DeskActions) /\ DOMAIN Append(q, a) = 1..(Len(q) + 1)
        /\ Append(q, a)[Len(q) + 1] = a
        /\ \A i \in 1..Len(q) : Append(q, a)[i] = q[i]
    BY <2>4
  <2>6. DeskTypes'
    BY <1>0, <2>1, <2>2, <2>5 DEF DeskTypes
  <2>7. ASSUME NEW b \in DeskActions, desk'[b].stage # "none" PROVE Queued(b)'
    <3>1. CASE b = a
      <4>1. Len(q) + 1 \in 1..(Len(q) + 1)
        BY <2>4
      <4> QED BY <2>1, <2>5, <3>1, <4>1 DEF Queued
    <3>2. CASE b # a
      <4>1. PICK i \in 1..Len(q) : q[i] = b
        BY <1>0, <2>3, <2>4, <2>7, <3>2 DEF OneAtATime, Queued, q
      <4>2. i \in 1..(Len(q) + 1)
        BY <2>4
      <4> QED BY <2>1, <2>5, <4>1, <4>2 DEF Queued
    <3> QED BY <3>1, <3>2
  <2>8. ASSUME NEW b \in DeskActions, desk'[b].stage \notin {"none", "start"} PROVE Turn(b)'
    <3>1. desk[b].stage \notin {"none", "start"} /\ b # a
      BY <2>2, <2>3, <2>8
    <3>2. Queued(b) /\ Head(q) = b
      BY <1>0, <3>1 DEF OneAtATime, Turn, q
    <3>3. Len(q) > 0
      BY <2>4, <3>2 DEF Queued, q
    <3>4. Head(Append(q, a)) = Head(q)
      BY <2>4, <3>3
    <3> QED BY <2>1, <3>2, <3>4 DEF Turn
  <2>9. \A b \in DeskActions : ReadingHolds(desk[b], moved)'
    BY <1>0, <2>1, <2>2, <2>3 DEF ReadingHolds
  <2>10. EvidenceIsHonest'
    BY <1>0, <2>1 DEF EvidenceIsHonest
  <2> QED BY <2>6, <2>7, <2>8, <2>9, <2>10 DEF DeskInv, OneAtATime
<1>2. ASSUME NEW a \in DeskActions, OperationFails(a) \/ Administer(a) PROVE DeskInv'
  <2>1. /\ desk[a].stage # "none" /\ Turn(a) /\ SettlePromise(a)
        /\ UNCHANGED <<moved, evidenced>>
    BY <1>2 DEF OperationFails, Administer, InTurn, deskChain
  <2>2. EvidenceIsHonest'
    BY <1>0, <2>1 DEF EvidenceIsHonest
  <2> QED BY <2>1, <2>2, HeadEnds
<1>3. ASSUME NEW a \in DeskActions, Prepare(a) PROVE DeskInv'
  <2>1. CASE InTurn(a, "wallets") /\ SettlePromise(a) /\ UNCHANGED <<moved, evidenced>>
    <3>1. EvidenceIsHonest'
      BY <1>0, <2>1 DEF EvidenceIsHonest
    <3> QED BY <2>1, <3>1, HeadEnds DEF InTurn
  <2>2. CASE InTurn(a, "start") /\ Proceed(a, "wallets")
             /\ UNCHANGED <<moved, actionQueue, evidenced>>
    <3> DEFINE j == [desk[a] EXCEPT !.stage = "wallets"]
    <3>1. j \in DeskRecords /\ j.stage = "wallets"
      BY <1>0 DEF DeskRecords, DeskStages
    <3>2. ReadingHolds(j, moved')
      BY <3>1 DEF ReadingHolds
    <3>3. desk' = [desk EXCEPT ![a] = j]
      BY <2>2 DEF Proceed
    <3> HIDE DEF j
    <3> QED BY <1>0, <2>2, <3>1, <3>2, <3>3, HeadMoves DEF InTurn
  <2> QED BY <1>3, <2>1, <2>2 DEF Prepare
<1>4. ASSUME NEW a \in DeskActions, StartTrade(a) PROVE DeskInv'
  <2> DEFINE j == [desk[a] EXCEPT !.stage = "reading"]
  <2>1. /\ desk[a].stage = "start" /\ Turn(a) /\ desk[a].kind \in {"settle"} \cup Refusable
        /\ desk' = [desk EXCEPT ![a] = j] /\ UNCHANGED <<moved, actionQueue, evidenced>>
    BY <1>4 DEF StartTrade, InTurn, Proceed, Trades, Refusable
  <2>2. j \in DeskRecords /\ j.stage = "reading" /\ j.kind = desk[a].kind
    BY <1>0 DEF DeskRecords, DeskStages
  <2> HIDE DEF j
  <2>3. ReadingHolds(j, moved')
    BY <2>1, <2>2 DEF ReadingHolds
  <2> QED BY <1>0, <2>1, <2>2, <2>3, HeadMoves
<1>5. ASSUME NEW a \in DeskActions, ReadBefore(a) PROVE DeskInv'
  <2> DEFINE stage == IF desk[a].kind = "settle" THEN "sending" ELSE "simulating"
             j == [desk[a] EXCEPT !.before = moved, !.stage = stage]
  <2>1. /\ desk[a].stage = "reading" /\ Turn(a)
        /\ desk' = [desk EXCEPT ![a].before = moved, ![a].stage = stage]
        /\ UNCHANGED <<moved, actionQueue, evidenced>>
    BY <1>5 DEF ReadBefore, InTurn, deskChain
  <2>2. desk[a].kind \in {"settle"} \cup Refusable
    BY <1>0, <2>1 DEF ReadingHolds
  <2>3. stage \in {"sending", "simulating"}
    OBVIOUS
  <2> HIDE DEF stage
  <2>4. desk' = [desk EXCEPT ![a] = j]
    BY <1>0, <2>1 DEF DeskTypes
  <2>5. j \in DeskRecords /\ j.stage = stage /\ j.kind = desk[a].kind /\ j.before = moved
    BY <1>0, <2>3 DEF DeskRecords, DeskStages
  <2> HIDE DEF j
  <2>6. ReadingHolds(j, moved')
    BY <2>1, <2>2, <2>3, <2>5 DEF ReadingHolds
  <2> QED BY <1>0, <2>1, <2>3, <2>4, <2>5, <2>6, HeadMoves
<1>6. ASSUME NEW a \in DeskActions, Simulate(a) PROVE DeskInv'
  <2> DEFINE j == [desk[a] EXCEPT !.stage = "sending", !.verified = Reverts(a)]
  <2>1. /\ desk[a].stage = "simulating" /\ Turn(a)
        /\ desk' = [desk EXCEPT ![a].stage = "sending", ![a].verified = Reverts(a)]
        /\ UNCHANGED <<moved, actionQueue, evidenced>>
    BY <1>6 DEF Simulate, InTurn, deskChain
  <2>2. Reverts(a) \in Outcomes
    BY DEF Reverts, RouterVerdict, Outcomes
  <2>3. desk' = [desk EXCEPT ![a] = j]
    BY <1>0, <2>1 DEF DeskTypes
  <2>4. /\ j \in DeskRecords /\ j.stage = "sending" /\ j.kind = desk[a].kind
        /\ j.before = desk[a].before
    BY <1>0, <2>2 DEF DeskRecords, DeskStages
  <2> HIDE DEF j
  <2>5. ReadingHolds(j, moved')
    BY <1>0, <2>1, <2>4 DEF ReadingHolds
  <2> QED BY <1>0, <2>1, <2>3, <2>4, <2>5, HeadMoves
<1>7. ASSUME NEW a \in DeskActions, Mined(a) PROVE DeskInv'
  <2> DEFINE j == [desk[a] EXCEPT !.stage = "mined", !.mined = Reverts(a)]
  <2>1. /\ desk[a].stage = "sending" /\ Turn(a)
        /\ desk' = [desk EXCEPT ![a].stage = "mined", ![a].mined = Reverts(a)]
        /\ moved' = IF Reverts(a) = "settled" THEN moved + 1 ELSE moved
        /\ UNCHANGED <<actionQueue, evidenced>>
    BY <1>7 DEF Mined, InTurn
  <2>2. Reverts(a) \in Outcomes
    BY DEF Reverts, RouterVerdict, Outcomes
  <2>3. desk' = [desk EXCEPT ![a] = j]
    BY <1>0, <2>1 DEF DeskTypes
  <2>4. /\ j \in DeskRecords /\ j.stage = "mined" /\ j.kind = desk[a].kind
        /\ j.before = desk[a].before /\ j.mined = Reverts(a)
    BY <1>0, <2>2 DEF DeskRecords, DeskStages
  <2>5. desk[a].before = moved /\ desk[a].kind \in {"settle"} \cup Refusable
    BY <1>0, <2>1 DEF ReadingHolds
  <2> HIDE DEF j
  <2>6. moved' \in Nat /\ ReadingHolds(j, moved')
    BY <1>0, <2>1, <2>2, <2>4, <2>5 DEF ReadingHolds
  <2> QED BY <2>1, <2>3, <2>4, <2>6, HeadMoves
<1>8. ASSUME NEW a \in DeskActions, ReturnSettled(a) \/ ReturnRefused(a) PROVE DeskInv'
  <2>1. /\ desk[a].stage = "mined" /\ Turn(a) /\ SettlePromise(a) /\ UNCHANGED moved
    BY <1>8 DEF ReturnSettled, ReturnRefused, InTurn, deskChain
  <2>2. /\ desk[a].before \in Nat /\ desk[a].kind \in {"settle"} \cup Refusable
        /\ moved = desk[a].before + (IF desk[a].mined = "settled" THEN 1 ELSE 0)
    BY <1>0, <2>1 DEF ReadingHolds
  <2>3. CASE ReturnSettled(a)
    <3>1. /\ evidenced' = evidenced \cup {[kind |-> desk[a].kind,
                                delta |-> moved - desk[a].before, shown |-> "settled"]}
          /\ desk[a].mined = "settled"
      BY <2>3 DEF ReturnSettled
    <3>2. moved - desk[a].before = 1
      BY <1>0, <2>2, <3>1
    <3>3. EvidenceIsHonest'
      BY <1>0, <3>1, <3>2 DEF EvidenceIsHonest
    <3> QED BY <2>1, <3>3, HeadEnds
  <2>4. CASE ReturnRefused(a)
    <3>1. /\ evidenced' = evidenced \cup {[kind |-> desk[a].kind,
                  delta |-> moved - desk[a].before, shown |-> Expected(desk[a].kind)]}
          /\ desk[a].mined # "settled" /\ desk[a].kind # "settle"
      BY <2>4 DEF ReturnRefused, Refused
    <3>2. moved - desk[a].before = 0
      BY <1>0, <2>2, <3>1
    <3>3. Expected(desk[a].kind) # "settled"
      BY <2>2, <3>1 DEF Expected, Refusable
    <3>4. EvidenceIsHonest'
      BY <1>0, <3>1, <3>2, <3>3 DEF EvidenceIsHonest
    <3> QED BY <2>1, <3>4, HeadEnds
  <2> QED BY <1>8, <2>3, <2>4
<1>9. ASSUME ClaimAges \/ UNCHANGED deskVars PROVE DeskInv'
  <2>1. UNCHANGED <<moved, actionQueue, desk, evidenced>>
    BY <1>9 DEF ClaimAges, deskVars, deskChain
  <2> QED BY <1>0, <2>1 DEF DeskInv, DeskTypes, OneAtATime, Queued, Turn, ReadingHolds,
          EvidenceIsHonest
<1> QED BY <1>1, <1>2, <1>3, <1>4, <1>5, <1>6, <1>7, <1>8, <1>9 DEF DeskNext, Operate

(* The desk performs one action at a time, and what it read last still      *)
(* stands while it does.                                                    *)
THEOREM DeskInvHolds == DeskSpec => []DeskInv
  BY DeskStarts, DeskStep, PTL DEF DeskSpec

(* The evidence the desk shows of an action is what the action did, for     *)
(* any number of actions.                                                   *)
THEOREM ShownIsWhatMoved == DeskSpec => []EvidenceIsHonest
<1>1. DeskInv => EvidenceIsHonest
  BY DEF DeskInv
<1> QED BY <1>1, DeskInvHolds, PTL

-----------------------------------------------------------------------------
(* The lock of the quote store, while at most one caller waits: the file is  *)
(* what the one inside has read, until it writes.                            *)

Places == {"idle", "dead", "mkdir", "stat", "steal"} \cup Inside

LockTypes ==
    /\ lock \in Procs \cup {NoProc} /\ lockAge \in Nat /\ called \in Nat
    /\ pc \in [Procs -> Places]
    /\ op \in [Procs -> Nat]
    /\ readState \in [Procs -> Seq(Nat)]
    /\ store \in Seq(Nat)

Waiters == {p \in Procs : pc[p] \in {"mkdir", "stat", "steal"}}

(* Who is inside holds the lock, and it does not look stale.                 *)
HolderIsInside ==
    /\ \A p \in Procs : pc[p] \in Inside => lock = p /\ lockAge <= StaleAfter
    /\ lock # NoProc => pc[lock] \in Inside \cup {"dead"}

(* Who is about to remove a directory removes a dead process's, and nobody   *)
(* else is near it.                                                          *)
StealsFromTheDead ==
    /\ \A p \in Procs : pc[p] = "steal" => Orphaned
    /\ Orphaned => \A p, q \in Waiters : p = q

(* The state the holder works on is the file's.                              *)
WorksOnTheFile ==
    \A p \in Procs :
        /\ pc[p] = "write" => readState[p] = store
        /\ pc[p] = "unlock" => store = Append(readState[p], op[p])

LockInv ==
    /\ LockTypes /\ HolderIsInside /\ StealsFromTheDead /\ WorksOnTheFile
    /\ acked \subseteq Nat \X Nat /\ AckedIsStored

(* Where one process waits at most, two that wait are the same. *)
LEMMA OneWaiter ==
  ASSUME MaxWaiters <= 1, NEW S \in SUBSET Procs, Cardinality(S) <= MaxWaiters
  PROVE  \A p, q \in S : p = q
<1> SUFFICES ASSUME NEW p \in S, NEW q \in S, p # q PROVE FALSE
  OBVIOUS
<1>1. IsFiniteSet(S)
  BY StoreLockAssumption, FS_Subset
<1>2. IsFiniteSet({q}) /\ Cardinality({q}) = 1
  BY FS_Singleton
<1>3. Cardinality({q} \cup {p}) = 2
  BY <1>2, FS_AddElement
<1>4. Cardinality({q} \cup {p}) <= Cardinality(S)
  BY <1>1, FS_Subset
<1>5. MaxWaiters \in Nat /\ Cardinality(S) \in Nat
  BY <1>1, StoreLockAssumption, FS_CardinalityType
<1> QED BY <1>3, <1>4, <1>5

(* At first the lock is free and nobody is inside. *)
LEMMA LockStarts == LockInit => LockInv
<1> SUFFICES ASSUME LockInit PROVE LockInv
  OBVIOUS
<1>1. \A p \in Procs : pc[p] = "idle"
  BY DEF LockInit
<1>2. LockTypes
  BY DEF LockInit, LockTypes, Places
<1>3. lock = NoProc /\ acked = {}
  BY DEF LockInit
<1> QED BY <1>1, <1>2, <1>3 DEF LockInv, HolderIsInside, StealsFromTheDead, WorksOnTheFile,
        Inside, Orphaned, Waiters, AckedIsStored

(* The invariant is inductive while one process waits at most. *)
LEMMA LockSteps ==
  ASSUME MaxWaiters <= 1, LockInv, [LockNext]_lockVars
  PROVE  LockInv'
<1>0. /\ LockTypes /\ HolderIsInside /\ StealsFromTheDead /\ WorksOnTheFile
      /\ acked \subseteq Nat \X Nat /\ AckedIsStored
      /\ NoProc \notin Procs /\ StaleAfter \in Nat
  BY StoreLockAssumption DEF LockInv
<1>1. ASSUME NEW p \in Procs, WithLock(p) PROVE LockInv'
  <2>1. /\ pc[p] = "idle" /\ pc' = [pc EXCEPT ![p] = "mkdir"] /\ called' = called + 1
        /\ op' = [op EXCEPT ![p] = called']
        /\ UNCHANGED <<lock, lockAge, readState, store, acked>> /\ Uncrowded'
    BY <1>1 DEF WithLock
  <2>2. pc'[p] = "mkdir" /\ \A q \in Procs \ {p} : pc'[q] = pc[q] /\ op'[q] = op[q]
    BY <1>0, <2>1 DEF LockTypes
  <2>3. LockTypes'
    BY <1>0, <2>1 DEF LockTypes, Places
  <2>4. HolderIsInside'
    BY <1>0, <2>1, <2>2 DEF HolderIsInside, Inside, LockTypes
  <2>5. (Orphaned => \A a, b \in Waiters : a = b)'
    <3>1. Waiters' \in SUBSET Procs /\ (Orphaned' => Cardinality(Waiters') <= MaxWaiters)
      BY <2>1 DEF Uncrowded, Waiters
    <3> QED BY <3>1, OneWaiter
  <2>6. StealsFromTheDead'
    BY <1>0, <2>1, <2>2, <2>5 DEF StealsFromTheDead, Orphaned
  <2>7. WorksOnTheFile'
    BY <1>0, <2>1, <2>2 DEF WorksOnTheFile
  <2> QED BY <1>0, <2>1, <2>3, <2>4, <2>6, <2>7 DEF LockInv, AckedIsStored
<1>2. ASSUME NEW p \in Procs, Mkdir(p) PROVE LockInv'
  <2>1. pc[p] = "mkdir" /\ UNCHANGED <<op, readState, store, acked, called>>
    BY <1>2 DEF Mkdir
  <2>2. CASE lock = NoProc
    <3>1. lock' = p /\ lockAge' = 0 /\ pc' = [pc EXCEPT ![p] = "read"]
      BY <1>2, <2>2 DEF Mkdir
    <3>2. pc'[p] = "read" /\ \A q \in Procs \ {p} : pc'[q] = pc[q]
      BY <1>0, <3>1 DEF LockTypes
    <3>3. \A q \in Procs : pc[q] \notin Inside /\ pc[q] # "steal"
      BY <1>0, <2>2 DEF HolderIsInside, StealsFromTheDead, Orphaned
    <3>4. LockTypes'
      BY <1>0, <2>1, <3>1 DEF LockTypes, Places, Inside
    <3>5. HolderIsInside'
      BY <1>0, <3>1, <3>2, <3>3 DEF HolderIsInside, Inside
    <3>6. StealsFromTheDead'
      BY <1>0, <3>1, <3>2, <3>3 DEF StealsFromTheDead, Orphaned
    <3>7. WorksOnTheFile'
      BY <2>1, <3>2, <3>3 DEF WorksOnTheFile, Inside
    <3> QED BY <1>0, <2>1, <3>4, <3>5, <3>6, <3>7 DEF LockInv, AckedIsStored
  <2>3. CASE lock # NoProc
    <3>1. pc' = [pc EXCEPT ![p] = "stat"] /\ UNCHANGED <<lock, lockAge>>
      BY <1>2, <2>3 DEF Mkdir
    <3>2. pc'[p] = "stat" /\ \A q \in Procs \ {p} : pc'[q] = pc[q]
      BY <1>0, <3>1 DEF LockTypes
    <3>3. LockTypes'
      BY <1>0, <2>1, <3>1 DEF LockTypes, Places
    <3>4. HolderIsInside'
      BY <1>0, <2>1, <3>1, <3>2 DEF HolderIsInside, Inside, LockTypes
    <3>5. StealsFromTheDead'
      BY <1>0, <2>1, <3>1, <3>2 DEF StealsFromTheDead, Orphaned, Waiters, LockTypes
    <3>6. WorksOnTheFile'
      BY <1>0, <2>1, <3>2 DEF WorksOnTheFile
    <3> QED BY <1>0, <2>1, <3>3, <3>4, <3>5, <3>6 DEF LockInv, AckedIsStored
  <2> QED BY <2>2, <2>3
<1>3. ASSUME NEW p \in Procs, Stat(p) PROVE LockInv'
  <2>1. pc[p] = "stat" /\ UNCHANGED <<lock, lockAge, store, acked, called>>
    BY <1>3 DEF Stat
  <2>2. PICK place \in {"idle", "steal", "mkdir"} :
          /\ pc' = [pc EXCEPT ![p] = place]
          /\ place = "steal" => IsStaleLock(p)
          /\ op' = op \/ op' = [op EXCEPT ![p] = 0]
          /\ readState' = readState \/ readState' = [readState EXCEPT ![p] = <<>>]
    BY <1>3 DEF Stat, Leave
  <2>3. pc'[p] = place /\ \A q \in Procs \ {p} :
            pc'[q] = pc[q] /\ op'[q] = op[q] /\ readState'[q] = readState[q]
    BY <1>0, <2>2 DEF LockTypes
  <2>4. LockTypes'
    <3>1. pc' \in [Procs -> Places]
      BY <1>0, <2>2 DEF LockTypes, Places
    <3>2. op' \in [Procs -> Nat]
      BY <1>0, <2>2 DEF LockTypes
    <3>3. <<>> \in Seq(Nat)
      OBVIOUS
    <3>4. readState' \in [Procs -> Seq(Nat)]
      BY <1>0, <2>2, <3>3 DEF LockTypes
    <3> QED BY <1>0, <2>1, <3>1, <3>2, <3>4 DEF LockTypes
  <2>5. HolderIsInside'
    BY <1>0, <2>1, <2>3 DEF HolderIsInside, Inside, LockTypes
  <2>6. place = "steal" => Orphaned
    BY <1>0, <2>2 DEF IsStaleLock, HolderIsInside, Orphaned, LockTypes
  <2>7. Orphaned' <=> Orphaned
    BY <1>0, <2>1, <2>3 DEF Orphaned, LockTypes, HolderIsInside, Inside
  <2>8. Waiters' \subseteq Waiters
    BY <2>1, <2>3 DEF Waiters
  <2>9. StealsFromTheDead'
    BY <1>0, <2>3, <2>6, <2>7, <2>8 DEF StealsFromTheDead
  <2>10. WorksOnTheFile'
    BY <1>0, <2>1, <2>3 DEF WorksOnTheFile
  <2> QED BY <1>0, <2>1, <2>4, <2>5, <2>9, <2>10 DEF LockInv, AckedIsStored
<1>4. ASSUME NEW p \in Procs, Steal(p) PROVE LockInv'
  <2>1. /\ pc[p] = "steal" /\ lock' = NoProc /\ pc' = [pc EXCEPT ![p] = "mkdir"]
        /\ UNCHANGED <<lockAge, op, readState, store, acked, called>>
    BY <1>4 DEF Steal
  <2>2. pc'[p] = "mkdir" /\ \A q \in Procs \ {p} : pc'[q] = pc[q]
    BY <1>0, <2>1 DEF LockTypes
  <2>3. Orphaned /\ \A q \in Procs : pc[q] = "steal" => q = p
    BY <1>0, <2>1 DEF StealsFromTheDead, Waiters
  <2>4. \A q \in Procs : pc[q] \notin Inside
    BY <1>0, <2>3 DEF Orphaned, HolderIsInside, Inside
  <2>5. LockTypes'
    BY <1>0, <2>1 DEF LockTypes, Places
  <2>6. HolderIsInside' /\ StealsFromTheDead' /\ WorksOnTheFile'
    BY <2>1, <2>2, <2>3, <2>4 DEF HolderIsInside, StealsFromTheDead, WorksOnTheFile, Inside,
       Orphaned
  <2> QED BY <1>0, <2>1, <2>5, <2>6 DEF LockInv, AckedIsStored
<1>5. ASSUME NEW p \in Procs, ReadState(p) PROVE LockInv'
  <2>1. /\ pc[p] = "read" /\ readState' = [readState EXCEPT ![p] = store]
        /\ pc' = [pc EXCEPT ![p] = "write"]
        /\ UNCHANGED <<lock, lockAge, op, store, acked, called>>
    BY <1>5 DEF ReadState
  <2>2. /\ pc'[p] = "write" /\ readState'[p] = store
        /\ \A q \in Procs \ {p} : pc'[q] = pc[q] /\ readState'[q] = readState[q]
    BY <1>0, <2>1 DEF LockTypes
  <2>3. LockTypes'
    BY <1>0, <2>1 DEF LockTypes, Places, Inside
  <2>4. HolderIsInside' /\ StealsFromTheDead' /\ WorksOnTheFile'
    BY <1>0, <2>1, <2>2 DEF HolderIsInside, StealsFromTheDead, WorksOnTheFile, Inside,
       Orphaned
  <2> QED BY <1>0, <2>1, <2>3, <2>4 DEF LockInv, AckedIsStored
<1>6. ASSUME NEW p \in Procs, WriteState(p) PROVE LockInv'
  <2>1. /\ pc[p] = "write" /\ store' = Append(readState[p], op[p])
        /\ pc' = [pc EXCEPT ![p] = "unlock"]
        /\ UNCHANGED <<lock, lockAge, op, readState, acked, called>>
    BY <1>6 DEF WriteState
  <2>2. pc'[p] = "unlock" /\ \A q \in Procs \ {p} : pc'[q] = pc[q]
    BY <1>0, <2>1 DEF LockTypes
  <2>3. lock = p /\ readState[p] = store /\ \A q \in Procs \ {p} : pc[q] \notin Inside
    BY <1>0, <2>1 DEF HolderIsInside, WorksOnTheFile, Inside
  <2>4. /\ store \in Seq(Nat) /\ op[p] \in Nat /\ store' = Append(store, op[p])
        /\ store' \in Seq(Nat) /\ Len(store') = Len(store) + 1 /\ Len(store) \in Nat
        /\ \A i \in 1..Len(store) : store'[i] = store[i]
    BY <1>0, <2>1, <2>3 DEF LockTypes
  <2>5. LockTypes'
    BY <1>0, <2>1, <2>4 DEF LockTypes, Places, Inside
  <2>6. HolderIsInside' /\ StealsFromTheDead' /\ WorksOnTheFile'
    BY <1>0, <2>1, <2>2, <2>3 DEF HolderIsInside, StealsFromTheDead, WorksOnTheFile, Inside,
       Orphaned
  <2>7. AckedIsStored'
    BY <1>0, <2>1, <2>4 DEF AckedIsStored
  <2> QED BY <1>0, <2>1, <2>5, <2>6, <2>7 DEF LockInv
<1>7. ASSUME NEW p \in Procs, Unlock(p) PROVE LockInv'
  <2>1. /\ pc[p] = "unlock" /\ lock' = NoProc /\ pc' = [pc EXCEPT ![p] = "idle"]
        /\ acked' = acked \cup {<<op[p], Len(readState[p]) + 1>>}
        /\ op' = [op EXCEPT ![p] = 0] /\ readState' = [readState EXCEPT ![p] = <<>>]
        /\ UNCHANGED <<lockAge, store, called>>
    BY <1>7 DEF Unlock, Leave
  <2>2. pc'[p] = "idle" /\ \A q \in Procs \ {p} : pc'[q] = pc[q]
    BY <1>0, <2>1 DEF LockTypes
  <2>3. /\ lock = p /\ store = Append(readState[p], op[p])
        /\ \A q \in Procs \ {p} : pc[q] \notin Inside
    BY <1>0, <2>1 DEF HolderIsInside, WorksOnTheFile, Inside
  <2>4. \A q \in Procs : pc[q] # "steal"
    BY <1>0, <2>1, <2>3 DEF StealsFromTheDead, Orphaned
  <2>5. readState[p] \in Seq(Nat) /\ op[p] \in Nat /\ Len(readState[p]) \in Nat
    BY <1>0 DEF LockTypes
  <2>6. /\ Len(readState[p]) + 1 \in 1..Len(store)
        /\ store[Len(readState[p]) + 1] = op[p]
    BY <2>3, <2>5
  <2>7. LockTypes'
    BY <1>0, <2>1 DEF LockTypes, Places
  <2>8. HolderIsInside' /\ StealsFromTheDead' /\ WorksOnTheFile'
    BY <2>1, <2>2, <2>3, <2>4 DEF HolderIsInside, StealsFromTheDead, WorksOnTheFile, Inside,
       Orphaned
  <2>9. AckedIsStored' /\ acked' \subseteq Nat \X Nat
    BY <1>0, <2>1, <2>5, <2>6 DEF AckedIsStored
  <2> QED BY <2>7, <2>8, <2>9 DEF LockInv
<1>8. ASSUME NEW p \in Procs, Die(p) PROVE LockInv'
  <2>1. /\ pc' = [pc EXCEPT ![p] = "dead"]
        /\ op' = [op EXCEPT ![p] = 0] /\ readState' = [readState EXCEPT ![p] = <<>>]
        /\ UNCHANGED <<lock, lockAge, store, acked, called>> /\ Uncrowded'
    BY <1>8 DEF Die, Leave
  <2>2. pc'[p] = "dead" /\ \A q \in Procs \ {p} :
            pc'[q] = pc[q] /\ op'[q] = op[q] /\ readState'[q] = readState[q]
    BY <1>0, <2>1 DEF LockTypes
  <2>3. LockTypes'
    BY <1>0, <2>1 DEF LockTypes, Places
  <2>4. HolderIsInside'
    BY <1>0, <2>1, <2>2 DEF HolderIsInside, Inside, LockTypes
  <2>5. (Orphaned => \A a, b \in Waiters : a = b)'
    <3>1. Waiters' \in SUBSET Procs /\ (Orphaned' => Cardinality(Waiters') <= MaxWaiters)
      BY <2>1 DEF Uncrowded, Waiters
    <3> QED BY <3>1, OneWaiter
  <2>6. StealsFromTheDead'
    BY <1>0, <2>1, <2>2, <2>5 DEF StealsFromTheDead, Orphaned, LockTypes
  <2>7. WorksOnTheFile'
    BY <1>0, <2>1, <2>2 DEF WorksOnTheFile
  <2> QED BY <1>0, <2>1, <2>3, <2>4, <2>6, <2>7 DEF LockInv, AckedIsStored
<1>9. ASSUME LockTick PROVE LockInv'
  <2>1. /\ \A p \in Procs : lock = p /\ pc[p] \in Inside => lockAge < StaleAfter
        /\ lockAge' = IF lock # NoProc /\ lockAge <= StaleAfter THEN lockAge + 1 ELSE lockAge
        /\ UNCHANGED <<lock, pc, op, readState, store, acked, called>>
    BY <1>9 DEF LockTick
  <2>2. lockAge' \in Nat
    BY <1>0, <2>1 DEF LockTypes
  <2>3. LockTypes'
    BY <1>0, <2>1, <2>2 DEF LockTypes
  <2>4. ASSUME NEW p \in Procs, pc[p] \in Inside PROVE lock = p /\ lockAge' <= StaleAfter
    <3>1. lock = p /\ lockAge < StaleAfter
      BY <1>0, <2>1, <2>4 DEF HolderIsInside
    <3> QED BY <1>0, <2>1, <3>1 DEF LockTypes
  <2>5. HolderIsInside'
    BY <1>0, <2>1, <2>4 DEF HolderIsInside
  <2> QED BY <1>0, <2>1, <2>3, <2>5 DEF LockInv, StealsFromTheDead, Orphaned, Waiters,
          WorksOnTheFile, AckedIsStored
<1>10. ASSUME UNCHANGED lockVars PROVE LockInv'
  BY <1>0, <1>10 DEF lockVars, LockInv, LockTypes, HolderIsInside, StealsFromTheDead, Orphaned,
     Waiters, WorksOnTheFile, AckedIsStored
<1> QED BY <1>1, <1>2, <1>3, <1>4, <1>5, <1>6, <1>7, <1>8, <1>9, <1>10 DEF LockNext, LockStep

(* With one waiter at most, who holds the lock is the only one inside,      *)
(* and a lock is only stolen from the dead.                                 *)
THEOREM LockInvHolds == ASSUME MaxWaiters <= 1 PROVE LockSpec => []LockInv
<1>1. LockInv /\ [LockNext]_lockVars => LockInv'
  BY LockSteps
<1> QED BY <1>1, LockStarts, PTL DEF LockSpec

(* With one waiter at most, every operation that was acknowledged is in     *)
(* the stored file. With two it is not: run StoreLockTwoWaiters.            *)
THEOREM AcknowledgedIsStored == ASSUME MaxWaiters <= 1 PROVE LockSpec => []AckedIsStored
<1>1. LockInv => AckedIsStored
  BY DEF LockInv
<1> QED BY <1>1, LockInvHolds, PTL

-----------------------------------------------------------------------------
(* The event indexer, while reorganisations stay within the confirmations:   *)
(* final blocks stay, so whatever syncs interleave store only what is final. *)

Hashes == [block: Int, version: Int]
SyncRecords ==
    [pc: {"idle", "starting", "asking", "checking", "listing", "adding", "hashing", "pinning"},
     target: Int, block: Int, hash: Hashes, batch: SUBSET Event]

IndexTypes ==
    /\ chain \in Seq(1..MaxVersion) /\ Len(chain) \in 1..(MaxChainHead + 1)
    /\ stored \in [Event -> Nat]
    /\ cursor.block \in Int /\ cursor.block >= -1
    /\ sync \in [Syncs -> SyncRecords]
    /\ crashes \in Nat

Final == 0..(chainHead - confirmations)
FinalEvent(e) == e.block \in Final /\ e = blockHash(e.block)
Covered(n, batch) == \A h \in 0..n : stored[blockHash(h)] > 0 \/ blockHash(h) \in batch

(* Nothing but the events of final blocks is stored, and the cursor names a  *)
(* final block up to which all of them are.                                  *)
CursorIsFinal ==
    /\ cursor.block >= 0 => cursor.block \in Final /\ cursor.hash = blockHash(cursor.block)
    /\ Covered(cursor.block, {})
StoredIsFinal == \A e \in Event : stored[e] > 0 => FinalEvent(e)

(* A sync works on final blocks, the hashes it was told are theirs, and what *)
(* it has still to add is all that is missing up to its target, wherever the *)
(* cursor has gone meanwhile.                                                *)
SyncCovers(s) ==
    LET j == sync[s] IN
    /\ j.pc = "starting" /\ j.target >= 0 => j.target \in Final
    /\ j.pc \notin {"idle", "starting"} => j.target \in Final
    /\ j.pc \in {"asking", "checking"} => j.block \in Final
    /\ j.pc = "checking" => j.hash = blockHash(j.block)
    /\ j.pc = "listing" =>
          (j.block - 1 = -1 \/ j.block - 1 \in Final) /\ Covered(j.block - 1, {})
    /\ j.pc = "adding" => (\A e \in j.batch : FinalEvent(e)) /\ Covered(j.target, j.batch)
    /\ j.pc \in {"hashing", "pinning"} => Covered(j.target, {})
    /\ j.pc = "pinning" => j.hash = blockHash(j.target)

(* A sync that no other overlaps finds the cursor where it read it, and adds *)
(* only what lies beyond it, which was stored by syncs that died at most.    *)
AloneAt(s) ==
    LET j == sync[s] IN
    /\ \A u \in Syncs \ {s} : sync[u].pc = "idle"
    /\ j.pc \in {"asking", "checking"} => cursor.block >= 0 /\ j.block = cursor.block
    /\ j.pc = "listing" => j.block = cursor.block + 1
    /\ j.pc = "adding" => \A e \in j.batch : e.block > cursor.block /\ e.block <= j.target
    /\ j.pc \notin {"idle", "starting"} => j.target > cursor.block
    /\ \A e \in Event : stored[e] > crashes =>
          e.block <= cursor.block \/ (j.pc \in {"hashing", "pinning"} /\ e.block <= j.target)
Alone ==
    /\ ~rewind
    /\ \A e \in Event : stored[e] <= 1 + crashes
    /\ \E s \in Syncs : AloneAt(s)

IndexInv ==
    /\ IndexTypes /\ CursorIsFinal /\ StoredIsFinal
    /\ \A s \in Syncs : SyncCovers(s)
    /\ overlapped \/ Alone

(* A final block has a hash, which is an event, as every block below it.     *)
LEMMA FinalBlocks ==
  ASSUME IndexTypes, NEW h \in Final
  PROVE  /\ h \in Int /\ h >= 0 /\ h + 1 \in 1..Len(chain)
         /\ blockHash(h) \in Event /\ blockHash(h) \in Hashes /\ FinalEvent(blockHash(h))
         /\ blockHash(h).block = h /\ blockHash(h).version = chain[h + 1]
         /\ \A g \in 0..h : g \in Final
<1>1. /\ chain \in Seq(1..MaxVersion) /\ Len(chain) \in Nat /\ Len(chain) <= MaxChainHead + 1
      /\ confirmations \in Nat /\ MaxChainHead \in Nat /\ MaxVersion \in Nat
  BY IndexerAssumption DEF IndexTypes
<1>2. h \in Int /\ h >= 0 /\ h <= Len(chain) - 1 - confirmations
  BY <1>1 DEF Final, chainHead
<1>3. h + 1 \in 1..Len(chain) /\ h \in 0..MaxChainHead
  BY <1>1, <1>2
<1>4. chain[h + 1] \in 1..MaxVersion
  <2>1. \A i \in 1..Len(chain) : chain[i] \in 1..MaxVersion
    BY <1>1
  <2> QED BY <1>3, <2>1
<1>5. \A g \in 0..h : g \in Final
  BY <1>1, <1>2 DEF Final, chainHead
<1>6. blockHash(h).block = h /\ blockHash(h).version = chain[h + 1]
  BY DEF blockHash
<1>7. blockHash(h) \in Event /\ blockHash(h) \in Hashes
  BY <1>2, <1>3, <1>4 DEF Event, Hashes, blockHash
<1> QED BY <1>2, <1>3, <1>5, <1>6, <1>7 DEF FinalEvent

(* An empty index covers the chain it starts with. *)
LEMMA IndexStarts == IndexerInit => IndexInv
<1> SUFFICES ASSUME IndexerInit PROVE IndexInv
  OBVIOUS
<1>1. \A s \in Syncs : sync[s] = Resting
  BY DEF IndexerInit
<1>2. Resting \in SyncRecords /\ Resting.pc = "idle"
  BY DEF Resting, SyncRecords, NoBlock, Hashes
<1>3. 1 \in 1..MaxVersion /\ 1 \in 1..(MaxChainHead + 1)
  BY IndexerAssumption
<1>4. chain \in Seq(1..MaxVersion) /\ Len(chain) = 1
  BY <1>3 DEF IndexerInit
<1>5. cursor.block = -1
  BY DEF IndexerInit, NoCursor
<1>6. IndexTypes
  BY <1>1, <1>2, <1>3, <1>4, <1>5 DEF IndexTypes, IndexerInit
<1>7. CursorIsFinal
  BY <1>5 DEF CursorIsFinal, Covered
<1>8. StoredIsFinal
  BY DEF StoredIsFinal, IndexerInit
<1>9. \A e \in Event : stored[e] = 0 /\ crashes = 0 /\ ~rewind
  BY DEF IndexerInit
<1>10. PICK s \in Syncs : TRUE
  BY IndexerAssumption
<1>11. AloneAt(s)
  BY <1>1, <1>2, <1>9 DEF AloneAt, IndexerInit
<1>12. Alone
  BY <1>9, <1>11 DEF Alone, IndexerInit
<1> QED BY <1>1, <1>2, <1>6, <1>7, <1>8, <1>12 DEF IndexInv, SyncCovers, IndexerInit

(* The chain moves on and leaves final blocks as they are.                   *)
LEMMA FinalStays ==
  ASSUME IndexInv, IndexTypes',
         \A h \in Final : h \in Final' /\ blockHash(h)' = blockHash(h),
         UNCHANGED indexVars
  PROVE  IndexInv'
<1>0. /\ IndexTypes /\ CursorIsFinal /\ StoredIsFinal /\ \A s \in Syncs : SyncCovers(s)
      /\ UNCHANGED <<stored, cursor, sync, rewind, overlapped, crashes>>
  BY DEF IndexInv, indexVars
<1>1. \A e : FinalEvent(e) => FinalEvent(e)'
  BY DEF FinalEvent
<1>2. \A n, batch : (n = -1 \/ n \in Final) /\ Covered(n, batch) => Covered(n, batch)'
  <2>1. SUFFICES ASSUME NEW n, NEW batch, n = -1 \/ n \in Final, Covered(n, batch), NEW h \in 0..n
                 PROVE  stored'[blockHash(h)'] > 0 \/ blockHash(h)' \in batch
    BY DEF Covered
  <2>2. h \in Final
    <3>1. n # -1
      BY <2>1
    <3> QED BY <1>0, <2>1, <3>1, FinalBlocks
  <2>3. blockHash(h)' = blockHash(h)
    BY <2>2
  <2> QED BY <1>0, <2>1, <2>3 DEF Covered
<1>3. CursorIsFinal'
  <2>1. cursor.block = -1 \/ cursor.block \in Final
    BY <1>0 DEF CursorIsFinal, IndexTypes
  <2>2. Covered(cursor.block, {})'
    BY <1>0, <1>2, <2>1 DEF CursorIsFinal
  <2> QED BY <1>0, <2>2 DEF CursorIsFinal
<1>4. StoredIsFinal'
  BY <1>0, <1>1 DEF StoredIsFinal
<1>5. ASSUME NEW s \in Syncs PROVE SyncCovers(s)'
  <2> DEFINE j == sync[s]
  <2>1. SyncCovers(s) /\ j \in SyncRecords /\ sync'[s] = j
    BY <1>0 DEF IndexTypes
  <2> HIDE DEF j
  <2>2. SyncCovers(s)' <=>
          /\ j.pc = "starting" /\ j.target >= 0 => j.target \in Final'
          /\ j.pc \notin {"idle", "starting"} => j.target \in Final'
          /\ j.pc \in {"asking", "checking"} => j.block \in Final'
          /\ j.pc = "checking" => j.hash = blockHash(j.block)'
          /\ j.pc = "listing" =>
                (j.block - 1 = -1 \/ j.block - 1 \in Final') /\ Covered(j.block - 1, {})'
          /\ j.pc = "adding" => (\A e \in j.batch : FinalEvent(e)') /\ Covered(j.target, j.batch)'
          /\ j.pc \in {"hashing", "pinning"} => Covered(j.target, {})'
          /\ j.pc = "pinning" => j.hash = blockHash(j.target)'
    BY <2>1 DEF SyncCovers, j
  <2> QED BY <1>1, <1>2, <2>1, <2>2 DEF SyncCovers, j
<1>6. (overlapped \/ Alone)'
  BY <1>0 DEF IndexInv, Alone, AloneAt
<1> QED BY <1>3, <1>4, <1>5, <1>6 DEF IndexInv

(* One sync moves, and events of final blocks may be added.                  *)
LEMMA SyncMoves ==
  ASSUME IndexInv, NEW s \in Syncs, NEW j \in SyncRecords,
         sync' = [sync EXCEPT ![s] = j], UNCHANGED <<chain, cursor, crashes>>,
         stored' \in [Event -> Nat],
         \A e \in Event : stored[e] > 0 => stored'[e] > 0,
         \A e \in Event : stored'[e] > 0 => FinalEvent(e),
         SyncCovers(s)', (overlapped \/ Alone)'
  PROVE  IndexInv'
<1>0. IndexTypes /\ CursorIsFinal /\ StoredIsFinal /\ \A u \in Syncs : SyncCovers(u)
  BY DEF IndexInv
<1>1. Final' = Final /\ \A h : blockHash(h)' = blockHash(h)
  BY DEF Final, chainHead, blockHash
<1>2. \A e : FinalEvent(e)' <=> FinalEvent(e)
  BY <1>1 DEF FinalEvent
<1>3. \A n, batch : (n = -1 \/ n \in Final) /\ Covered(n, batch) => Covered(n, batch)'
  <2>1. SUFFICES ASSUME NEW n, NEW batch, n = -1 \/ n \in Final, Covered(n, batch), NEW h \in 0..n
                 PROVE  stored'[blockHash(h)'] > 0 \/ blockHash(h)' \in batch
    BY DEF Covered
  <2>2. n # -1
    BY <2>1
  <2>3. blockHash(h) \in Event
    BY <1>0, <2>1, <2>2, FinalBlocks
  <2>4. blockHash(h)' = blockHash(h)
    BY <1>1
  <2> QED BY <2>1, <2>3, <2>4 DEF Covered
<1>4. IndexTypes'
  BY <1>0 DEF IndexTypes
<1>5. CursorIsFinal'
  <2>1. cursor.block = -1 \/ cursor.block \in Final
    BY <1>0 DEF CursorIsFinal, IndexTypes
  <2>2. Covered(cursor.block, {})'
    BY <1>0, <1>3, <2>1 DEF CursorIsFinal
  <2> QED BY <1>0, <1>1, <2>2 DEF CursorIsFinal
<1>6. StoredIsFinal'
  BY <1>2 DEF StoredIsFinal
<1>7. ASSUME NEW u \in Syncs, u # s PROVE SyncCovers(u)'
  <2>1. sync'[u] = sync[u] /\ SyncCovers(u)
    BY <1>0, <1>7 DEF IndexTypes
  <2> DEFINE i == sync[u]
  <2> HIDE DEF i
  <2>2. SyncCovers(u)' <=>
          /\ i.pc = "starting" /\ i.target >= 0 => i.target \in Final'
          /\ i.pc \notin {"idle", "starting"} => i.target \in Final'
          /\ i.pc \in {"asking", "checking"} => i.block \in Final'
          /\ i.pc = "checking" => i.hash = blockHash(i.block)'
          /\ i.pc = "listing" =>
                (i.block - 1 = -1 \/ i.block - 1 \in Final') /\ Covered(i.block - 1, {})'
          /\ i.pc = "adding" => (\A e \in i.batch : FinalEvent(e)') /\ Covered(i.target, i.batch)'
          /\ i.pc \in {"hashing", "pinning"} => Covered(i.target, {})'
          /\ i.pc = "pinning" => i.hash = blockHash(i.target)'
    BY <2>1 DEF SyncCovers, i
  <2> QED BY <1>1, <1>2, <1>3, <2>1, <2>2 DEF SyncCovers, i
<1> QED BY <1>4, <1>5, <1>6, <1>7 DEF IndexInv

(* A call that steps while no other is under way leaves it so.               *)
LEMMA StaysAlone ==
  ASSUME IndexTypes, Alone, NEW s \in Syncs, NEW j \in SyncRecords,
         sync' = [sync EXCEPT ![s] = j], j.pc # "idle" \/ sync[s].pc # "idle",
         \A u \in Syncs \ {s} : sync[u].pc = "idle"
  PROVE  /\ AloneAt(s) /\ \A u \in Syncs \ {s} : sync'[u].pc = "idle"
         /\ sync'[s] = j
<1>1. sync'[s] = j /\ \A u \in Syncs \ {s} : sync'[u] = sync[u]
  BY DEF IndexTypes
<1>2. PICK a \in Syncs : AloneAt(a)
  BY DEF Alone
<1>3. CASE a = s
  BY <1>1, <1>2, <1>3
<1>4. CASE a # s
  <2>1. sync[a].pc = "idle" /\ sync[s].pc = "idle"
    BY <1>2, <1>4 DEF AloneAt
  <2>2. AloneAt(s)
    BY <1>2, <2>1 DEF AloneAt
  <2> QED BY <1>1, <2>2
<1> QED BY <1>3, <1>4

(* The invariant is inductive. *)
LEMMA IndexSteps ==
  ASSUME MaxReorg <= confirmations, IndexInv, [IndexerNext]_indexerVars
  PROVE  IndexInv'
<1>0. /\ IndexTypes /\ CursorIsFinal /\ StoredIsFinal
      /\ \A s \in Syncs : SyncCovers(s) /\ sync[s] \in SyncRecords
      /\ overlapped \/ Alone
  BY DEF IndexInv, IndexTypes
<1>1. /\ chain \in Seq(1..MaxVersion) /\ Len(chain) \in 1..(MaxChainHead + 1) /\ Len(chain) \in Nat
      /\ DOMAIN chain = 1..Len(chain)
      /\ confirmations \in Nat /\ MaxReorg \in Nat /\ MaxChainHead \in Nat /\ MaxVersion \in Nat
      /\ 1 \in 1..MaxVersion /\ crashes \in Nat /\ stored \in [Event -> Nat]
      /\ cursor.block \in Int /\ cursor.block >= -1
  BY <1>0, IndexerAssumption DEF IndexTypes
<1>2. ASSUME NewBlock PROVE IndexInv'
  <2>1. Len(chain) - 1 < MaxChainHead /\ chain' = Append(chain, 1) /\ UNCHANGED indexVars
    BY <1>2 DEF NewBlock, chainHead
  <2>2. /\ chain' \in Seq(1..MaxVersion) /\ Len(chain') = Len(chain) + 1
        /\ \A i \in 1..Len(chain) : chain'[i] = chain[i]
    BY <1>1, <2>1
  <2>3. IndexTypes'
    BY <1>0, <1>1, <2>1, <2>2 DEF IndexTypes, indexVars
  <2>4. ASSUME NEW h \in Final PROVE h \in Final' /\ blockHash(h)' = blockHash(h)
    <3>1. h \in Int /\ h >= 0 /\ h + 1 \in 1..Len(chain)
      BY <1>0, FinalBlocks
    <3> QED BY <1>1, <2>2, <3>1 DEF Final, chainHead, blockHash
  <2> QED BY <2>1, <2>3, <2>4, FinalStays
<1>3. ASSUME ChainReorg PROVE IndexInv'
  <2>1. PICK depth \in 1..MaxReorg :
          /\ depth <= Len(chain)
          /\ chain' = [h \in 1..Len(chain) |->
                          IF h > Len(chain) - depth /\ chain[h] < MaxVersion
                          THEN chain[h] + 1 ELSE chain[h]]
    BY <1>3 DEF ChainReorg
  <2>2. UNCHANGED indexVars
    BY <1>3 DEF ChainReorg
  <2>3. \A i \in 1..Len(chain) : chain[i] \in 1..MaxVersion
    BY <1>1
  <2>4. \A i \in 1..Len(chain) : chain'[i] \in 1..MaxVersion
    BY <1>1, <2>1, <2>3
  <2>5. /\ chain' \in [1..Len(chain) -> 1..MaxVersion]
    BY <2>1, <2>4
  <2>6. chain' \in Seq(1..MaxVersion) /\ Len(chain') = Len(chain)
    BY <1>1, <2>5
  <2>7. IndexTypes'
    BY <1>0, <1>1, <2>2, <2>6 DEF IndexTypes, indexVars
  <2>8. ASSUME NEW h \in Final PROVE h \in Final' /\ blockHash(h)' = blockHash(h)
    <3>1. h \in Int /\ h >= 0 /\ h + 1 \in 1..Len(chain)
      BY <1>0, FinalBlocks
    <3>2. ~(h + 1 > Len(chain) - depth)
      BY <1>1, <2>1, <3>1 DEF Final, chainHead
    <3>3. chain'[h + 1] = chain[h + 1]
      BY <2>1, <3>1, <3>2
    <3>4. Final' = Final
      BY <2>6 DEF Final, chainHead
    <3> QED BY <3>3, <3>4 DEF blockHash
  <2> QED BY <2>2, <2>7, <2>8, FinalStays
<1>4. ASSUME NEW s \in Syncs, HeadAnswered(s) PROVE IndexInv'
  <2> DEFINE goal == chainHead - confirmations
             j == [pc |-> "starting", target |-> goal, block |-> -1, hash |-> NoBlock,
                   batch |-> {}]
  <2>1. /\ sync[s].pc = "idle" /\ sync' = [sync EXCEPT ![s] = j]
        /\ overlapped' = (overlapped \/ \E u \in Syncs \ {s} : sync[u].pc # "idle")
        /\ UNCHANGED <<chain, stored, cursor, crashes, rewind>>
    BY <1>4 DEF HeadAnswered, finalTarget, Move, fileVars
  <2>2. goal \in Int /\ (goal >= 0 => goal \in Final)
    BY <1>1 DEF Final, chainHead
  <2> HIDE DEF goal
  <2>3. j \in SyncRecords /\ j.pc = "starting" /\ j.target = goal
    <3>1. NoBlock \in Hashes
      BY DEF NoBlock, Hashes
    <3> QED BY <2>2, <3>1 DEF SyncRecords
  <2> HIDE DEF j
  <2>4. sync'[s] = j
    BY <1>0, <2>1 DEF IndexTypes
  <2>5. SyncCovers(s)'
    <3>1. Final' = Final
      BY <2>1 DEF Final, chainHead
    <3> QED BY <2>2, <2>3, <2>4, <3>1 DEF SyncCovers
  <2>6. ASSUME ~overlapped' PROVE Alone'
    <3>1. Alone /\ \A u \in Syncs \ {s} : sync[u].pc = "idle"
      BY <1>0, <2>1, <2>6
    <3>2. AloneAt(s) /\ \A u \in Syncs \ {s} : sync'[u].pc = "idle"
      BY <1>0, <2>1, <2>3, <3>1, StaysAlone
    <3>3. AloneAt(s)'
      BY <2>1, <2>3, <2>4, <3>2 DEF AloneAt
    <3> QED BY <2>1, <3>1, <3>3 DEF Alone
  <2> QED BY <1>0, <1>1, <2>1, <2>3, <2>5, <2>6, SyncMoves DEF StoredIsFinal
<1>5. ASSUME NEW s \in Syncs, NEW j \in SyncRecords, sync[s].pc # "idle", ~overlapped,
             sync' = [sync EXCEPT ![s] = j]
      PROVE  /\ AloneAt(s) /\ Alone /\ \A u \in Syncs \ {s} : sync'[u].pc = "idle"
             /\ sync'[s] = j
  <2>1. PICK a \in Syncs : AloneAt(a)
    BY <1>0, <1>5 DEF Alone
  <2>2. \A u \in Syncs \ {s} : sync[u].pc = "idle"
    BY <1>5, <2>1 DEF AloneAt
  <2> QED BY <1>0, <1>5, <2>2, StaysAlone
<1>6. ASSUME NEW s \in Syncs, Start(s) PROVE IndexInv'
  <2> DEFINE goal == sync[s].target
             j == IF ~Behind(goal) THEN Resting
                  ELSE IF cursor.block >= 0
                  THEN [sync[s] EXCEPT !.pc = "asking", !.block = cursor.block]
                  ELSE [sync[s] EXCEPT !.pc = "listing", !.block = 0]
  <2>1. /\ sync[s].pc = "starting" /\ sync' = [sync EXCEPT ![s] = j]
        /\ UNCHANGED <<chain, stored, cursor, crashes, rewind, overlapped>>
    BY <1>6 DEF Start, Move, fileVars
  <2>2. goal \in Int /\ (goal >= 0 => goal \in Final)
    BY <1>0, <2>1 DEF SyncCovers, SyncRecords
  <2> HIDE DEF goal
  <2>3. /\ j \in SyncRecords
        /\ \/ j.pc = "idle"
           \/ /\ goal >= 0 /\ goal > cursor.block /\ j.target = goal
              /\ \/ j.pc = "asking" /\ j.block = cursor.block /\ cursor.block >= 0
                 \/ j.pc = "listing" /\ j.block = 0 /\ cursor.block = -1
    <3>1. CASE ~Behind(goal)
      BY <3>1 DEF SyncRecords, Resting, NoBlock, Hashes
    <3>2. CASE Behind(goal) /\ cursor.block >= 0
      BY <1>0, <1>1, <3>2 DEF SyncRecords, Behind, goal
    <3>3. CASE Behind(goal) /\ ~(cursor.block >= 0)
      <4>1. cursor.block = -1
        BY <1>1, <3>3
      <4>2. j = [sync[s] EXCEPT !.pc = "listing", !.block = 0]
        BY <3>3
      <4>3. goal >= 0 /\ goal > cursor.block
        BY <3>3 DEF Behind
      <4>4. sync[s] \in SyncRecords /\ 0 \in Int
        BY <1>0
      <4>5. j \in SyncRecords /\ j.pc = "listing" /\ j.block = 0 /\ j.target = sync[s].target
        BY <4>2, <4>4 DEF SyncRecords
      <4> QED BY <4>1, <4>3, <4>5 DEF goal
    <3> QED BY <3>1, <3>2, <3>3
  <2> HIDE DEF j
  <2>4. sync'[s] = j
    BY <1>0, <2>1 DEF IndexTypes
  <2>5. SyncCovers(s)'
    <3>1. Final' = Final
      BY <2>1 DEF Final, chainHead
    <3>2. cursor.block >= 0 => cursor.block \in Final
      BY <1>0 DEF CursorIsFinal
    <3> QED BY <1>1, <2>2, <2>3, <2>4, <3>1, <3>2 DEF SyncCovers, Covered
  <2>6. ASSUME ~overlapped' PROVE Alone'
    <3>1. AloneAt(s) /\ Alone /\ \A u \in Syncs \ {s} : sync'[u].pc = "idle"
      BY <1>5, <2>1, <2>3, <2>6
    <3>2. AloneAt(s)'
      BY <1>1, <2>1, <2>3, <2>4, <3>1 DEF AloneAt
    <3> QED BY <2>1, <3>1, <3>2 DEF Alone
  <2> QED BY <1>0, <1>1, <2>1, <2>3, <2>5, <2>6, SyncMoves DEF StoredIsFinal
<1>7. ASSUME NEW s \in Syncs, HashAnswered(s) PROVE IndexInv'
  <2> DEFINE told == blockHash(sync[s].block)
             j == [sync[s] EXCEPT !.pc = "checking", !.hash = told]
  <2>1. /\ sync[s].pc = "asking" /\ sync' = [sync EXCEPT ![s] = j]
        /\ UNCHANGED <<chain, stored, cursor, crashes, rewind, overlapped>>
    BY <1>7 DEF HashAnswered, Move, fileVars
  <2>2. sync[s].block \in Final /\ sync[s].target \in Final /\ told \in Hashes
    BY <1>0, <2>1, FinalBlocks DEF SyncCovers
  <2>3. told' = blockHash(sync[s].block)'
    OBVIOUS
  <2>4. blockHash(sync[s].block) = told
    OBVIOUS
  <2> HIDE DEF told
  <2>5. /\ j \in SyncRecords /\ j.pc = "checking" /\ j.hash = told
        /\ j.block = sync[s].block /\ j.target = sync[s].target
    BY <1>0, <2>2 DEF SyncRecords
  <2> HIDE DEF j
  <2>6. sync'[s] = j
    BY <1>0, <2>1 DEF IndexTypes
  <2>7. SyncCovers(s)'
    <3>1. Final' = Final /\ \A h : blockHash(h)' = blockHash(h)
      BY <2>1 DEF Final, chainHead, blockHash
    <3> QED BY <2>2, <2>4, <2>5, <2>6, <3>1 DEF SyncCovers
  <2>8. ASSUME ~overlapped' PROVE Alone'
    <3>1. AloneAt(s) /\ Alone /\ \A u \in Syncs \ {s} : sync'[u].pc = "idle"
      BY <1>5, <2>1, <2>5, <2>8
    <3>2. AloneAt(s)'
      BY <2>1, <2>5, <2>6, <3>1 DEF AloneAt
    <3> QED BY <2>1, <3>1, <3>2 DEF Alone
  <2> QED BY <1>0, <1>1, <2>1, <2>5, <2>7, <2>8, SyncMoves DEF StoredIsFinal
<1>8. ASSUME NEW s \in Syncs, CheckCursor(s) PROVE IndexInv'
  <2>1. sync[s].pc = "checking" /\ UNCHANGED <<chain, stored, cursor, crashes, overlapped>>
    BY <1>8 DEF CheckCursor, fileVars
  <2>2. /\ sync[s].block \in Final /\ sync[s].target \in Final
        /\ sync[s].hash = blockHash(sync[s].block)
    BY <1>0, <2>1 DEF SyncCovers
  <2>3. Final' = Final /\ \A n, batch : Covered(n, batch)' <=> Covered(n, batch)
    BY <2>1 DEF Final, chainHead, Covered, blockHash
  <2>4. CASE sync[s].hash # cursor.hash
    <3>1. sync' = [sync EXCEPT ![s] = Resting]
      BY <1>8, <2>4 DEF CheckCursor, Move
    <3>2. Resting \in SyncRecords /\ Resting.pc = "idle"
      BY DEF SyncRecords, Resting, NoBlock, Hashes
    <3>3. sync'[s] = Resting
      BY <1>0, <3>1 DEF IndexTypes
    <3>4. SyncCovers(s)'
      BY <3>2, <3>3 DEF SyncCovers
    <3>5. overlapped'
      <4> SUFFICES ASSUME ~overlapped PROVE FALSE
        BY <2>1
      <4>1. AloneAt(s)
        BY <1>5, <2>1, <3>1, <3>2
      <4>2. cursor.block >= 0 /\ sync[s].block = cursor.block
        BY <2>1, <4>1 DEF AloneAt
      <4> QED BY <1>0, <2>2, <2>4, <4>2 DEF CursorIsFinal
    <3> QED BY <1>0, <1>1, <2>1, <3>1, <3>2, <3>4, <3>5, SyncMoves DEF StoredIsFinal
  <2>5. CASE sync[s].hash = cursor.hash
    <3> DEFINE j == [sync[s] EXCEPT !.pc = "listing", !.block = cursor.block + 1]
    <3>1. sync' = [sync EXCEPT ![s] = j] /\ rewind' = rewind
      BY <1>8, <2>5 DEF CheckCursor, Move, fromBlock
    <3>2. /\ j \in SyncRecords /\ j.pc = "listing" /\ j.block = cursor.block + 1
          /\ j.target = sync[s].target
      <4>1. sync[s] \in SyncRecords /\ cursor.block + 1 \in Int
        BY <1>0, <1>1
      <4> QED BY <4>1 DEF SyncRecords
    <3> HIDE DEF j
    <3>3. sync'[s] = j
      BY <1>0, <3>1 DEF IndexTypes
    <3>4. SyncCovers(s)'
      <4>1. Covered(cursor.block, {}) /\ (cursor.block = -1 \/ cursor.block \in Final)
        BY <1>0, <1>1 DEF CursorIsFinal
      <4>2. j.block - 1 = cursor.block
        BY <1>1, <3>2
      <4>3. Covered(cursor.block, {})'
        BY <2>1, <2>3, <4>1 DEF Covered, blockHash
      <4> QED BY <2>1, <2>2, <2>3, <3>2, <3>3, <4>1, <4>2, <4>3 DEF SyncCovers
    <3>5. ASSUME ~overlapped' PROVE Alone'
      <4>1. AloneAt(s) /\ Alone /\ \A u \in Syncs \ {s} : sync'[u].pc = "idle"
        BY <1>5, <2>1, <3>1, <3>2, <3>5
      <4>2. AloneAt(s)'
        BY <2>1, <3>2, <3>3, <4>1 DEF AloneAt
      <4> QED BY <2>1, <3>1, <4>1, <4>2 DEF Alone
    <3> QED BY <1>0, <1>1, <2>1, <3>1, <3>2, <3>4, <3>5, SyncMoves DEF StoredIsFinal
  <2> QED BY <2>4, <2>5
<1>9. ASSUME NEW s \in Syncs, EventsAnswered(s) PROVE IndexInv'
  <2> DEFINE goal == sync[s].target
             from == sync[s].block
             batch == EventsIn(from, goal)
             j == [sync[s] EXCEPT !.pc = "adding", !.batch = batch]
  <2>1. /\ sync[s].pc = "listing" /\ sync' = [sync EXCEPT ![s] = j]
        /\ UNCHANGED <<chain, stored, cursor, crashes, rewind, overlapped>>
    BY <1>9 DEF EventsAnswered, Move, fileVars
  <2>2. /\ goal \in Final /\ Covered(from - 1, {})
        /\ from \in Int /\ from >= 0 /\ goal \in Int
    <3>1. goal \in Final /\ (from - 1 = -1 \/ from - 1 \in Final) /\ Covered(from - 1, {})
      BY <1>0, <2>1 DEF SyncCovers
    <3>2. goal \in Int /\ from \in Int
      BY <1>0 DEF SyncRecords
    <3>3. from >= 0
      BY <1>0, <3>1, <3>2, FinalBlocks
    <3> QED BY <3>1, <3>2, <3>3
  <2>3. batch = {blockHash(h) : h \in from..goal}
    BY DEF EventsIn
  <2> HIDE DEF batch, from
  <2>4. ASSUME NEW e \in batch
        PROVE  e \in Event /\ FinalEvent(e) /\ e.block >= from /\ e.block <= goal
    <3>1. PICK h \in from..goal : e = blockHash(h)
      BY <2>3
    <3>2. h \in 0..goal
      BY <2>2, <3>1
    <3>3. h \in Final
      BY <1>0, <2>2, <3>2, FinalBlocks
    <3> QED BY <1>0, <2>2, <3>1, <3>3, FinalBlocks
  <2>5. Covered(goal, batch)
    <3>1. SUFFICES ASSUME NEW h \in 0..goal PROVE stored[blockHash(h)] > 0 \/ blockHash(h) \in batch
      BY DEF Covered
    <3>2. CASE h \in 0..(from - 1)
      BY <2>2, <3>2 DEF Covered
    <3>3. CASE h \notin 0..(from - 1)
      <4>1. h \in from..goal
        BY <2>2, <3>3
      <4> QED BY <2>3, <4>1
    <3> QED BY <3>2, <3>3
  <2>6. /\ j \in SyncRecords /\ j.pc = "adding" /\ j.target = goal /\ j.batch = batch
    BY <1>0, <2>4 DEF SyncRecords
  <2> HIDE DEF j, goal
  <2>7. sync'[s] = j
    BY <1>0, <2>1 DEF IndexTypes
  <2>8. SyncCovers(s)'
    <3>1. /\ Final' = Final /\ \A h : blockHash(h)' = blockHash(h)
          /\ \A e : FinalEvent(e)' <=> FinalEvent(e)
      BY <2>1 DEF Final, chainHead, FinalEvent, blockHash
    <3>2. \A h \in 0..goal : stored'[blockHash(h)'] > 0 \/ blockHash(h)' \in batch
      BY <2>1, <2>5, <3>1 DEF Covered
    <3> QED BY <2>2, <2>4, <2>6, <2>7, <3>1, <3>2 DEF SyncCovers, Covered
  <2>9. ASSUME ~overlapped' PROVE Alone'
    <3>1. AloneAt(s) /\ Alone /\ \A u \in Syncs \ {s} : sync'[u].pc = "idle"
      BY <1>5, <2>1, <2>6, <2>9
    <3>2. from = cursor.block + 1 /\ goal > cursor.block
      BY <2>1, <3>1 DEF AloneAt, from, goal
    <3>3. \A e \in batch : e.block > cursor.block /\ e.block <= goal
      <4> SUFFICES ASSUME NEW e \in batch PROVE e.block > cursor.block /\ e.block <= goal
        OBVIOUS
      <4>1. e.block \in Int /\ e.block >= from /\ e.block <= goal
        BY <1>1, <2>4 DEF Event
      <4> QED BY <1>1, <3>2, <4>1
    <3>4. AloneAt(s)'
      BY <2>1, <2>6, <2>7, <3>1, <3>2, <3>3 DEF AloneAt
    <3> QED BY <2>1, <3>1, <3>4 DEF Alone
  <2> QED BY <1>0, <1>1, <2>1, <2>6, <2>8, <2>9, SyncMoves DEF StoredIsFinal
<1>10. ASSUME NEW batch \in SUBSET Event, \A e \in batch : FinalEvent(e)
      PROVE  /\ Added(batch) \in [Event -> Nat]
             /\ \A e \in Event : stored[e] > 0 => Added(batch)[e] > 0
             /\ \A e \in batch : Added(batch)[e] > 0
             /\ \A e \in Event : Added(batch)[e] > 0 => FinalEvent(e)
             /\ \A e \in Event : Added(batch)[e] = stored[e] \/ (e \in batch /\ Added(batch)[e] = stored[e] + 1)
  BY <1>0, <1>1, <1>10 DEF Added, StoredIsFinal
<1>11. ASSUME NEW s \in Syncs, AddEvents(s) PROVE IndexInv'
  <2> DEFINE goal == sync[s].target
             batch == sync[s].batch
             j == [sync[s] EXCEPT !.pc = "hashing", !.batch = {}]
  <2>1. /\ sync[s].pc = "adding" /\ stored' = Added(batch) /\ sync' = [sync EXCEPT ![s] = j]
        /\ UNCHANGED <<chain, cursor, rewind, overlapped, crashes>>
    BY <1>11 DEF AddEvents, Move
  <2>2. /\ goal \in Final /\ Covered(goal, batch) /\ \A e \in batch : FinalEvent(e)
        /\ batch \in SUBSET Event
    BY <1>0, <2>1 DEF SyncCovers, SyncRecords
  <2>3. j \in SyncRecords /\ j.pc = "hashing" /\ j.target = goal
    BY <1>0 DEF SyncRecords
  <2>4. sync'[s] = j
    BY <1>0, <2>1 DEF IndexTypes
  <2> HIDE DEF j, goal, batch
  <2>5. /\ stored' \in [Event -> Nat]
        /\ \A e \in Event : stored[e] > 0 => stored'[e] > 0
        /\ \A e \in batch : stored'[e] > 0
        /\ \A e \in Event : stored'[e] > 0 => FinalEvent(e)
        /\ \A e \in Event : stored'[e] = stored[e] \/ (e \in batch /\ stored'[e] = stored[e] + 1)
    <3> HIDE DEF Added
    <3> QED BY <1>10, <2>1, <2>2
  <2>6. \A h \in 0..goal : blockHash(h) \in Event
    BY <1>0, <2>2, FinalBlocks
  <2>7. Final' = Final /\ \A h : blockHash(h)' = blockHash(h)
    BY <2>1 DEF Final, chainHead, blockHash
  <2>8. \A h \in 0..goal : stored'[blockHash(h)'] > 0
    BY <2>2, <2>5, <2>6, <2>7 DEF Covered
  <2>9. SyncCovers(s)'
    BY <2>2, <2>3, <2>4, <2>7, <2>8 DEF SyncCovers, Covered
  <2>10. ASSUME ~overlapped' PROVE Alone'
    <3>1. AloneAt(s) /\ Alone /\ \A u \in Syncs \ {s} : sync'[u].pc = "idle"
      BY <1>5, <2>1, <2>3, <2>10
    <3>2. /\ goal > cursor.block
          /\ \A e \in batch : e.block > cursor.block /\ e.block <= goal
      BY <2>1, <3>1 DEF AloneAt, goal, batch
    <3>3. ASSUME NEW e \in batch PROVE stored[e] <= crashes /\ e.block <= goal
      <4>1. e \in Event
        BY <2>2, <3>3
      <4>2. e.block \in Int /\ stored[e] \in Nat
        <5>1. stored[e] \in Nat
          BY <1>1, <4>1
        <5>2. e.block \in 0..MaxChainHead
          BY <4>1 DEF Event
        <5> QED BY <1>1, <5>1, <5>2
      <4>3. ~(e.block <= cursor.block)
        BY <1>1, <3>2, <3>3, <4>2
      <4>4. ~(stored[e] > crashes)
        BY <2>1, <3>1, <4>1, <4>3 DEF AloneAt
      <4> QED BY <1>1, <3>2, <3>3, <4>2, <4>4
    <3>4. \A e \in Event : stored'[e] <= 1 + crashes
      <4> SUFFICES ASSUME NEW e \in Event PROVE stored'[e] <= 1 + crashes
        OBVIOUS
      <4>1. stored[e] \in Nat /\ stored[e] <= 1 + crashes
        BY <1>1, <3>1 DEF Alone
      <4> QED BY <1>1, <2>5, <3>3, <4>1
    <3>5. ASSUME NEW e \in Event, stored'[e] > crashes
          PROVE  e.block <= cursor.block \/ e.block <= goal
      <4>1. CASE e \in batch
        BY <3>3, <4>1
      <4>2. CASE e \notin batch
        <5>1. stored[e] > crashes
          BY <2>5, <3>5, <4>2
        <5> QED BY <2>1, <3>1, <5>1 DEF AloneAt
      <4> QED BY <4>1, <4>2
    <3>6. AloneAt(s)'
      BY <2>1, <2>3, <2>4, <3>1, <3>2, <3>5 DEF AloneAt
    <3> QED BY <2>1, <3>1, <3>4, <3>6 DEF Alone
  <2> QED BY <2>1, <2>3, <2>5, <2>9, <2>10, SyncMoves
<1>12. ASSUME NEW s \in Syncs, TargetAnswered(s) PROVE IndexInv'
  <2> DEFINE goal == sync[s].target
             told == blockHash(goal)
             j == [sync[s] EXCEPT !.pc = "pinning", !.hash = told]
  <2>1. /\ sync[s].pc = "hashing" /\ sync' = [sync EXCEPT ![s] = j]
        /\ UNCHANGED <<chain, stored, cursor, crashes, rewind, overlapped>>
    BY <1>12 DEF TargetAnswered, Move, fileVars
  <2>2. goal \in Final /\ Covered(goal, {}) /\ told \in Hashes
    BY <1>0, <2>1, FinalBlocks DEF SyncCovers
  <2>3. blockHash(goal) = told
    OBVIOUS
  <2> HIDE DEF told
  <2>4. j \in SyncRecords /\ j.pc = "pinning" /\ j.hash = told /\ j.target = goal
    BY <1>0, <2>2 DEF SyncRecords
  <2> HIDE DEF j
  <2>5. sync'[s] = j
    BY <1>0, <2>1 DEF IndexTypes
  <2> HIDE DEF goal
  <2>6. SyncCovers(s)'
    <3>1. Final' = Final /\ \A h : blockHash(h)' = blockHash(h)
      BY <2>1 DEF Final, chainHead, blockHash
    <3>2. \A h \in 0..goal : stored'[blockHash(h)'] > 0
      BY <2>1, <2>2, <3>1 DEF Covered
    <3> QED BY <2>2, <2>3, <2>4, <2>5, <3>1, <3>2 DEF SyncCovers, Covered
  <2>7. ASSUME ~overlapped' PROVE Alone'
    <3>1. AloneAt(s) /\ Alone /\ \A u \in Syncs \ {s} : sync'[u].pc = "idle"
      BY <1>5, <2>1, <2>4, <2>7
    <3>2. AloneAt(s)'
      BY <2>1, <2>4, <2>5, <3>1 DEF AloneAt, goal
    <3> QED BY <2>1, <3>1, <3>2 DEF Alone
  <2> QED BY <1>0, <1>1, <2>1, <2>4, <2>6, <2>7, SyncMoves DEF StoredIsFinal
<1>13. ASSUME NEW s \in Syncs, PinCursor(s) PROVE IndexInv'
  <2> DEFINE goal == sync[s].target
  <2>1. /\ sync[s].pc = "pinning" /\ cursor' = [block |-> goal, hash |-> sync[s].hash]
        /\ sync' = [sync EXCEPT ![s] = Resting]
        /\ UNCHANGED <<chain, stored, rewind, overlapped, crashes>>
    BY <1>13 DEF PinCursor, Move
  <2>2. /\ goal \in Final /\ Covered(goal, {}) /\ goal \in Int /\ goal >= 0
        /\ sync[s].hash = blockHash(goal)
    BY <1>0, <2>1, FinalBlocks DEF SyncCovers
  <2>3. Resting \in SyncRecords /\ Resting.pc = "idle"
    BY DEF Resting, SyncRecords, NoBlock, Hashes
  <2>4. cursor'.block = goal /\ cursor'.hash = blockHash(goal)
    BY <2>1, <2>2
  <2>5. /\ Final' = Final /\ \A h : blockHash(h)' = blockHash(h)
        /\ \A e : FinalEvent(e)' <=> FinalEvent(e)
        /\ \A n, batch : Covered(n, batch)' <=> Covered(n, batch)
    BY <2>1 DEF Final, chainHead, FinalEvent, blockHash, Covered
  <2>6. IndexTypes'
    BY <1>0, <2>1, <2>2, <2>3, <2>4 DEF IndexTypes
  <2>7. Covered(cursor.block, {})'
    BY <2>1, <2>2, <2>4, <2>5 DEF Covered
  <2>8. CursorIsFinal' /\ StoredIsFinal'
    BY <1>0, <2>1, <2>2, <2>4, <2>5, <2>7 DEF CursorIsFinal, StoredIsFinal
  <2>9. ASSUME NEW u \in Syncs PROVE SyncCovers(u)'
    <3>1. CASE u = s
      BY <1>0, <2>1, <2>3, <3>1 DEF SyncCovers, IndexTypes
    <3>2. CASE u # s
      <4>1. sync'[u] = sync[u] /\ SyncCovers(u)
        BY <1>0, <2>1, <3>2 DEF IndexTypes
      <4> DEFINE i == sync[u]
      <4> HIDE DEF i
      <4>2. SyncCovers(u)' <=>
              /\ i.pc = "starting" /\ i.target >= 0 => i.target \in Final'
              /\ i.pc \notin {"idle", "starting"} => i.target \in Final'
              /\ i.pc \in {"asking", "checking"} => i.block \in Final'
              /\ i.pc = "checking" => i.hash = blockHash(i.block)'
              /\ i.pc = "listing" =>
                    (i.block - 1 = -1 \/ i.block - 1 \in Final') /\ Covered(i.block - 1, {})'
              /\ i.pc = "adding" => (\A e \in i.batch : FinalEvent(e)') /\ Covered(i.target, i.batch)'
              /\ i.pc \in {"hashing", "pinning"} => Covered(i.target, {})'
              /\ i.pc = "pinning" => i.hash = blockHash(i.target)'
        BY <4>1 DEF SyncCovers, i
      <4>3. \A n, batch : Covered(n, batch) => Covered(n, batch)'
        BY <2>5
      <4> QED BY <2>5, <4>1, <4>2, <4>3 DEF SyncCovers, i
    <3> QED BY <3>1, <3>2
  <2>10. ASSUME ~overlapped' PROVE Alone'
    <3>1. AloneAt(s) /\ Alone /\ \A u \in Syncs \ {s} : sync'[u].pc = "idle"
      BY <1>5, <2>1, <2>3, <2>10
    <3>2. goal > cursor.block
      BY <2>1, <3>1 DEF AloneAt
    <3>3. sync'[s] = Resting
      BY <1>0, <2>1 DEF IndexTypes
    <3>4. ASSUME NEW e \in Event, stored[e] > crashes PROVE e.block <= goal
      <4>1. e.block <= cursor.block \/ e.block <= goal
        BY <3>1, <3>4 DEF AloneAt
      <4>2. e.block \in Int
        BY <1>1 DEF Event
      <4> QED BY <1>1, <2>2, <3>2, <4>1, <4>2
    <3>5. AloneAt(s)'
      BY <2>1, <2>3, <2>4, <3>1, <3>3, <3>4 DEF AloneAt
    <3> QED BY <2>1, <3>1, <3>5 DEF Alone
  <2> QED BY <2>6, <2>8, <2>9, <2>10 DEF IndexInv
<1>14. ASSUME Restart PROVE IndexInv'
  <2>1. /\ sync' = [u \in Syncs |-> Resting] /\ crashes' = crashes + 1
        /\ UNCHANGED <<chain, cursor, rewind, overlapped>>
    BY <1>14 DEF Restart
  <2>2. /\ stored' \in [Event -> Nat]
        /\ \A e \in Event : stored[e] > 0 => stored'[e] > 0
        /\ \A e \in Event : stored'[e] > 0 => FinalEvent(e)
        /\ ~overlapped => \A e \in Event : stored'[e] <= crashes + 1
    <3>1. CASE UNCHANGED stored
      <4>1. ~overlapped => \A e \in Event : stored'[e] <= crashes + 1
        BY <1>0, <1>1, <3>1 DEF Alone
      <4> QED BY <1>0, <1>1, <3>1, <4>1 DEF StoredIsFinal
    <3>2. CASE ~UNCHANGED stored
      <4>1. PICK s \in Syncs : \E written \in SUBSET sync[s].batch :
              sync[s].pc = "adding" /\ stored' = Added(written)
        BY <1>14, <3>2 DEF Restart
      <4>2. PICK written \in SUBSET sync[s].batch :
              sync[s].pc = "adding" /\ stored' = Added(written)
        BY <4>1
      <4>3. written \in SUBSET Event /\ \A e \in written : FinalEvent(e) /\ e \in sync[s].batch
        BY <1>0, <4>2 DEF SyncCovers, SyncRecords
      <4>4. /\ stored' \in [Event -> Nat]
            /\ \A e \in Event : stored[e] > 0 => stored'[e] > 0
            /\ \A e \in Event : stored'[e] > 0 => FinalEvent(e)
            /\ \A e \in Event : stored'[e] = stored[e] \/ (e \in written /\ stored'[e] = stored[e] + 1)
        <5> HIDE DEF Added
        <5> QED BY <1>10, <4>2, <4>3
      <4>5. ASSUME ~overlapped, NEW e \in Event PROVE stored'[e] <= crashes + 1
        <5>1. PICK a \in Syncs : AloneAt(a)
          BY <1>0, <4>5 DEF Alone
        <5>2. a = s
          BY <4>2, <5>1 DEF AloneAt
        <5>3. stored[e] \in Nat /\ stored[e] <= 1 + crashes
          BY <1>0, <1>1, <4>5 DEF Alone
        <5>4. CASE e \in written
          <6>1. e.block \in Int /\ e.block > cursor.block
            BY <1>1, <4>2, <4>3, <5>1, <5>2, <5>4 DEF AloneAt, Event
          <6>2. ~(stored[e] > crashes)
            <7>1. stored[e] > crashes =>
                    \/ e.block <= cursor.block
                    \/ sync[s].pc \in {"hashing", "pinning"} /\ e.block <= sync[s].target
              BY <5>1, <5>2 DEF AloneAt
            <7>2. cursor.block \in Int
              BY <1>1
            <7> QED BY <4>2, <6>1, <7>1, <7>2
          <6>3. stored'[e] = stored[e] \/ stored'[e] = stored[e] + 1
            BY <4>4
          <6> QED BY <1>1, <5>3, <6>2, <6>3
        <5>5. CASE e \notin written
          BY <1>1, <4>4, <5>3, <5>5
        <5> QED BY <5>4, <5>5
      <4> QED BY <4>4, <4>5
    <3> QED BY <3>1, <3>2
  <2>3. Resting \in SyncRecords /\ Resting.pc = "idle"
    BY DEF Resting, SyncRecords, NoBlock, Hashes
  <2>4. IndexTypes'
    BY <1>0, <1>1, <2>1, <2>2, <2>3 DEF IndexTypes
  <2>5. /\ Final' = Final /\ \A h : blockHash(h)' = blockHash(h)
        /\ \A e : FinalEvent(e)' <=> FinalEvent(e)
    BY <2>1 DEF Final, chainHead, FinalEvent, blockHash
  <2>6. Covered(cursor.block, {})'
    <3>1. SUFFICES ASSUME NEW h \in 0..cursor.block PROVE stored'[blockHash(h)] > 0
      BY <2>1, <2>5 DEF Covered
    <3>2. cursor.block \in Final
      BY <1>0, <1>1, <3>1 DEF CursorIsFinal
    <3>3. blockHash(h) \in Event
      BY <1>0, <3>1, <3>2, FinalBlocks
    <3>4. stored[blockHash(h)] > 0
      BY <1>0, <3>1 DEF CursorIsFinal, Covered
    <3> QED BY <2>2, <3>3, <3>4
  <2>7. CursorIsFinal' /\ StoredIsFinal'
    BY <1>0, <2>1, <2>2, <2>5, <2>6 DEF CursorIsFinal, StoredIsFinal
  <2>8. \A u \in Syncs : sync'[u] = Resting
    BY <2>1
  <2>9. \A u \in Syncs : SyncCovers(u)'
    BY <2>3, <2>8 DEF SyncCovers
  <2>10. ASSUME ~overlapped' PROVE Alone'
    <3>1. \A e \in Event : stored'[e] \in Nat /\ stored'[e] <= crashes'
      BY <2>1, <2>2, <2>10
    <3>2. \A e \in Event : stored'[e] <= 1 + crashes' /\ ~(stored'[e] > crashes')
      BY <1>1, <2>1, <3>1
    <3>3. PICK s \in Syncs : TRUE
      BY IndexerAssumption
    <3>4. AloneAt(s)'
      BY <2>3, <2>8, <3>2 DEF AloneAt
    <3> QED BY <1>0, <2>1, <2>10, <3>2, <3>4 DEF Alone
  <2> QED BY <2>4, <2>7, <2>9, <2>10 DEF IndexInv
<1>15. ASSUME UNCHANGED indexerVars PROVE IndexInv'
  <2>1. UNCHANGED <<chain, stored, cursor, sync, rewind, overlapped, crashes>>
    BY <1>15 DEF indexerVars
  <2>2. IndexTypes'
    BY <1>0, <2>1 DEF IndexTypes
  <2>3. \A h \in Final : h \in Final' /\ blockHash(h)' = blockHash(h)
    BY <2>1 DEF Final, chainHead, blockHash
  <2> QED BY <2>1, <2>2, <2>3, FinalStays DEF indexVars
<1> QED BY <1>2, <1>3, <1>4, <1>6, <1>7, <1>8, <1>9, <1>11, <1>12, <1>13, <1>14, <1>15
        DEF IndexerNext, SyncStep

(* What is stored, and what a sync is about to store, is final on the       *)
(* chain; a sync that no other overlaps adds only what lies beyond the       *)
(* cursor.                                                                   *)
THEOREM IndexInvHolds == ASSUME MaxReorg <= confirmations PROVE IndexerSpec => []IndexInv
<1>1. IndexInv /\ [IndexerNext]_indexerVars => IndexInv'
  BY IndexSteps
<1> QED BY <1>1, IndexStarts, PTL DEF IndexerSpec

(* An index that covers what is final, and stores nothing else, is exact. *)
LEMMA CoveredIsExact == IndexInv => IndexIsExact
<1> SUFFICES ASSUME IndexInv PROVE IndexIsExact
  OBVIOUS
<1>1. IndexTypes /\ CursorIsFinal /\ StoredIsFinal /\ (overlapped \/ Alone)
  BY DEF IndexInv
<1>2. ASSUME NEW h \in 0..cursor.block, NEW v \in 1..MaxVersion
      PROVE  stored[[block |-> h, version |-> v]] > 0 <=> v = chain[h + 1]
  <2>1. cursor.block \in Final
    BY <1>1, <1>2 DEF CursorIsFinal, IndexTypes
  <2>2. h \in Final
    BY <1>1, <1>2, <2>1, FinalBlocks
  <2>3. blockHash(h) \in Event /\ stored[blockHash(h)] > 0
    BY <1>1, <1>2, <2>2, FinalBlocks DEF CursorIsFinal, Covered
  <2> DEFINE e == [block |-> h, version |-> v]
  <2>4. e \in Event /\ e.block = h /\ e.version = v
    BY <2>3 DEF Event, blockHash
  <2>5. stored[e] > 0 => v = chain[h + 1]
    BY <1>1, <2>4 DEF StoredIsFinal, FinalEvent, blockHash
  <2>6. v = chain[h + 1] => stored[e] > 0
    BY <2>3 DEF blockHash
  <2> QED BY <2>5, <2>6
<1> QED BY <1>1, <1>2 DEF IndexIsExact, CursorIsFinal, Alone

(* The cursor names a canonical block, and up to it the index holds each     *)
(* final event and no other version, for any number of syncs that crash and  *)
(* overlap; without overlap none reports a reorganisation and each event is  *)
(* stored once, and once more at most for each crash, while reorganisations  *)
(* stay within the confirmations awaited.                                    *)
THEOREM IndexStaysExact == ASSUME MaxReorg <= confirmations PROVE IndexerSpec => []IndexIsExact
  BY CoveredIsExact, IndexInvHolds, PTL

-----------------------------------------------------------------------------
(* The rate limiter.  A bucket knows all that was let through since its      *)
(* start, and of the window before it at most all but its first request.     *)

LimiterTypes ==
    /\ nowMs \in Nat \ {0}
    /\ admitted \in Seq([of: Principals, at: Nat])
    /\ \A i \in DOMAIN admitted : admitted[i].at <= nowMs
    /\ DOMAIN buckets \subseteq Principals
    /\ \A p \in DOMAIN buckets :
          buckets[p] \in [start: Nat, count: Nat] /\ buckets[p].start <= nowMs
    /\ retryAt \in [Principals -> Nat]

BucketIs(p) ==
    LET start == buckets[p].start
    IN /\ \E i \in DOMAIN admitted : admitted[i].of = p /\ admitted[i].at = start
       /\ \A i \in DOMAIN admitted : admitted[i].of = p => admitted[i].at < start + windowMs
       /\ Cardinality(AdmittedIn(p, start, nowMs)) <= buckets[p].count
       /\ Cardinality(AdmittedIn(p, start, nowMs)) <= maxRequests
       /\ Cardinality(AdmittedIn(p, start - windowMs + 1, start - 1)) <= maxRequests - 1
       /\ retryAt[p] # 0 => retryAt[p] >= start + windowMs

(* Who has no bucket may begin a window of his own. *)
MayBegin(p) ==
    /\ \A i \in DOMAIN admitted : admitted[i].of = p => admitted[i].at < nowMs
    /\ Cardinality(AdmittedIn(p, nowMs - windowMs + 1, nowMs)) <= maxRequests - 1

LessThanTwice(p, t) == Cardinality(AdmittedIn(p, t, t + windowMs - 1)) < 2 * maxRequests

LimiterInv ==
    /\ LimiterTypes
    /\ \A p \in DOMAIN buckets : BucketIs(p)
    /\ \A p \in Principals \ DOMAIN buckets : MayBegin(p)
    /\ \A p \in Principals, t \in Nat : LessThanTwice(p, t)

(* Retry-After covers the milliseconds it is for. *)
LEMMA SecondsCover ==
  ASSUME NEW ms \in Nat
  PROVE  Seconds(ms) \in Nat /\ Seconds(ms) * Second >= ms
<1> DEFINE s == (ms + Second - 1) \div Second
<1>1. Second \in Nat \ {0}
  BY LimiterAssumption
<1>2. s \in Nat /\ s * Second >= ms
  <2>1. ms + Second - 1 \in Nat
    BY <1>1
  <2>2. ms + Second - 1 = Second * s + ((ms + Second - 1) % Second) /\ s \in Nat
    BY <1>1, <2>1
  <2>3. (ms + Second - 1) % Second \in 0..(Second - 1)
    BY <1>1, <2>1
  <2>4. Second * s = s * Second
    BY <1>1, <2>2
  <2> HIDE DEF s
  <2>5. s * Second \in Nat
    BY <1>1, <2>2
  <2> QED BY <1>1, <2>2, <2>3, <2>4, <2>5
<1> HIDE DEF s
<1>3. \E x \in {1, s} : \A y \in {1, s} : x >= y
  BY <1>2
<1>4. Max({1, s}) \in {1, s} /\ Max({1, s}) >= s
  BY <1>3 DEF Max
<1>5. Seconds(ms) = Max({1, s})
  BY DEF Seconds, s
<1>6. \A x \in Nat : x >= s => x * Second >= s * Second
  BY <1>1, <1>2
<1>7. Max({1, s}) \in Nat /\ Max({1, s}) * Second \in Nat /\ s * Second \in Nat
  BY <1>1, <1>2, <1>4
<1> QED BY <1>2, <1>4, <1>5, <1>6, <1>7

(* HostRequests that were let through have a principal and a time. *)
LEMMA Entries ==
  ASSUME NEW s \in Seq([of: Principals, at: Nat])
  PROVE  \A i \in DOMAIN s : s[i].of \in Principals /\ s[i].at \in Nat
<1> DEFINE E == [of: Principals, at: Nat]
<1>1. \A i \in DOMAIN s : s[i] \in E
  <2> HIDE DEF E
  <2>1. s \in Seq(E)
    BY DEF E
  <2> QED BY <2>1
<1> QED BY <1>1

(* What was let through in an interval is finite, and the less the shorter.  *)
LEMMA Counts ==
  ASSUME LimiterTypes, NEW p, NEW from \in Int, NEW to \in Int
  PROVE  /\ IsFiniteSet(AdmittedIn(p, from, to)) /\ Cardinality(AdmittedIn(p, from, to)) \in Nat
         /\ \A S : S \subseteq AdmittedIn(p, from, to) =>
                IsFiniteSet(S) /\ Cardinality(S) \in Nat
                /\ Cardinality(S) <= Cardinality(AdmittedIn(p, from, to))
<1>1. AdmittedIn(p, from, to) \subseteq 1..Len(admitted) /\ Len(admitted) \in Nat
  BY DEF LimiterTypes, AdmittedIn
<1>2. IsFiniteSet(1..Len(admitted))
  BY <1>1, FS_Interval
<1>3. IsFiniteSet(AdmittedIn(p, from, to))
  BY <1>1, <1>2, FS_Subset
<1> QED BY <1>3, FS_Subset, FS_CardinalityType

LEMMA CountsAfter ==
  ASSUME LimiterTypes', NEW p, NEW from \in Int, NEW to \in Int
  PROVE  /\ IsFiniteSet(AdmittedIn(p, from, to)') /\ Cardinality(AdmittedIn(p, from, to)') \in Nat
         /\ \A S : S \subseteq AdmittedIn(p, from, to)' =>
                IsFiniteSet(S) /\ Cardinality(S) \in Nat
                /\ Cardinality(S) <= Cardinality(AdmittedIn(p, from, to)')
<1>1. AdmittedIn(p, from, to)' \subseteq 1..Len(admitted') /\ Len(admitted') \in Nat
  BY DEF LimiterTypes, AdmittedIn
<1>2. IsFiniteSet(1..Len(admitted'))
  BY <1>1, FS_Interval
<1>3. IsFiniteSet(AdmittedIn(p, from, to)')
  BY <1>1, <1>2, FS_Subset
<1> QED BY <1>3, FS_Subset, FS_CardinalityType

LEMMA LimiterStarts == LimiterInit => LimiterInv
<1> SUFFICES ASSUME LimiterInit PROVE LimiterInv
  OBVIOUS
<1>1. admitted = <<>> /\ DOMAIN admitted = {} /\ DOMAIN buckets = {} /\ nowMs = 1
  BY DEF LimiterInit
<1>2. LimiterTypes
  BY <1>1 DEF LimiterInit, LimiterTypes
<1>3. \A p, from, to : AdmittedIn(p, from, to) = {}
  BY <1>1 DEF AdmittedIn
<1>4. Cardinality({}) = 0
  BY FS_EmptySet
<1>5. maxRequests \in Nat \ {0} /\ 0 <= maxRequests - 1 /\ 0 < 2 * maxRequests
  BY LimiterAssumption
<1>6. \A p, t : MayBegin(p) /\ LessThanTwice(p, t)
  BY <1>1, <1>3, <1>4, <1>5 DEF MayBegin, LessThanTwice
<1> QED BY <1>1, <1>2, <1>6 DEF LimiterInv

(* Who is not kept by the sweep may begin a window. *)
LEMMA SweptMayBegin ==
  ASSUME LimiterInv, NEW p \in Principals \ DOMAIN sweep
  PROVE  MayBegin(p)
<1>1. CASE p \notin DOMAIN buckets
  BY <1>1 DEF LimiterInv
<1>2. CASE p \in DOMAIN buckets
  <2> DEFINE start == buckets[p].start
             S == AdmittedIn(p, start, nowMs)
             R == AdmittedIn(p, nowMs - windowMs + 1, nowMs)
  <2>1. /\ LimiterTypes /\ BucketIs(p) /\ start \in Nat /\ nowMs \in Nat /\ start <= nowMs
        /\ windowMs \in Nat \ {0} /\ maxRequests \in Nat
    BY <1>2, LimiterAssumption DEF LimiterInv, LimiterTypes
  <2>2. nowMs - start >= windowMs
    BY <1>2 DEF sweep, Over
  <2>3. PICK i \in DOMAIN admitted : admitted[i].of = p /\ admitted[i].at = start
    BY <2>1 DEF BucketIs
  <2>4. \A j \in DOMAIN admitted : admitted[j].at \in Nat
    BY <2>1, Entries DEF LimiterTypes
  <2>5. i \in S /\ R \subseteq S \ {i}
    BY <2>1, <2>2, <2>3, <2>4 DEF AdmittedIn
  <2>6. IsFiniteSet(S) /\ Cardinality(S) \in Nat /\ Cardinality(S) <= maxRequests
    BY <2>1, Counts DEF BucketIs
  <2>7. \A j \in DOMAIN admitted : admitted[j].of = p => admitted[j].at < nowMs
    BY <2>1, <2>2, <2>4 DEF BucketIs
  <2> HIDE DEF S, R
  <2>8. IsFiniteSet(S \ {i}) /\ Cardinality(S \ {i}) = Cardinality(S) - 1
    BY <2>5, <2>6, FS_RemoveElement
  <2>9. Cardinality(R) <= Cardinality(S \ {i}) /\ Cardinality(R) \in Nat
    BY <2>5, <2>8, FS_Subset, FS_CardinalityType
  <2>10. Cardinality(R) <= maxRequests - 1
    BY <2>1, <2>6, <2>8, <2>9
  <2> QED BY <2>7, <2>10 DEF MayBegin, R
<1> QED BY <1>1, <1>2

(* An interval that reaches into a window has less than twice the limit. *)
LEMMA WindowsAreLess ==
  ASSUME LimiterTypes', NEW p \in Principals, p \in DOMAIN buckets', BucketIs(p)',
         NEW t \in Nat, nowMs' \in t..(t + windowMs - 1)
  PROVE  LessThanTwice(p, t)'
<1> DEFINE start == buckets[p].start
           S == AdmittedIn(p, start, nowMs)'
           R == AdmittedIn(p, start - windowMs + 1, start - 1)'
           I == AdmittedIn(p, t, t + windowMs - 1)'
<1>1. /\ start' \in Nat /\ nowMs' \in Nat /\ start' <= nowMs' /\ windowMs \in Nat \ {0} /\ maxRequests \in Nat \ {0}
      /\ \A i \in DOMAIN admitted' : admitted'[i].at \in Nat /\ admitted'[i].at <= nowMs'
  BY LimiterAssumption, Entries DEF LimiterTypes
<1>2. I \subseteq S \cup R
  <2> SUFFICES ASSUME NEW i \in I PROVE i \in S \/ i \in R
    OBVIOUS
  <2>1. /\ i \in DOMAIN admitted' /\ admitted'[i].of = p
        /\ admitted'[i].at \in t..(t + windowMs - 1)
    BY DEF AdmittedIn
  <2>2. admitted'[i].at \in start'..nowMs' \/ admitted'[i].at \in (start' - windowMs + 1)..(start' - 1)
    <3>1. /\ admitted'[i].at \in Nat /\ admitted'[i].at <= nowMs' /\ admitted'[i].at >= t
          /\ nowMs' <= t + windowMs - 1
      BY <1>1, <2>1
    <3> HIDE DEF start
    <3> QED BY <1>1, <3>1
  <2> QED BY <2>1, <2>2 DEF AdmittedIn
<1>3. /\ S \subseteq 1..Len(admitted') /\ R \subseteq 1..Len(admitted') /\ Len(admitted') \in Nat
  <2>1. DOMAIN admitted' = 1..Len(admitted') /\ Len(admitted') \in Nat
    BY DEF LimiterTypes
  <2>2. S \subseteq DOMAIN admitted' /\ R \subseteq DOMAIN admitted'
    BY DEF AdmittedIn
  <2> QED BY <2>1, <2>2
<1>4. /\ IsFiniteSet(S) /\ IsFiniteSet(R) /\ Cardinality(S) \in Nat /\ Cardinality(R) \in Nat
  <2> HIDE DEF S, R
  <2>1. IsFiniteSet(1..Len(admitted'))
    BY <1>3, FS_Interval
  <2> QED BY <1>3, <2>1, FS_Subset, FS_CardinalityType
<1>5. Cardinality(S) <= maxRequests /\ Cardinality(R) <= maxRequests - 1
  BY DEF BucketIs
<1> HIDE DEF S, R, I
<1>6. IsFiniteSet(S \cup R) /\ Cardinality(S \cup R) <= Cardinality(S) + Cardinality(R)
  <2>1. /\ IsFiniteSet(S \cup R)
        /\ Cardinality(S \cup R) = Cardinality(S) + Cardinality(R) - Cardinality(S \cap R)
    BY <1>4, FS_Union
  <2>2. Cardinality(S \cap R) \in Nat
    BY <1>4, FS_Intersection, FS_CardinalityType
  <2> QED BY <1>4, <2>1, <2>2
<1>7. Cardinality(I) <= Cardinality(S \cup R) /\ Cardinality(I) \in Nat /\ Cardinality(S \cup R) \in Nat
  BY <1>2, <1>6, FS_Subset, FS_CardinalityType
<1>8. Cardinality(I) < 2 * maxRequests
  BY <1>1, <1>4, <1>5, <1>6, <1>7
<1> QED BY <1>8 DEF LessThanTwice, I

(* Time passes: nothing new is let through. *)
LEMMA LimiterTicks ==
  ASSUME LimiterInv, LimiterTick
  PROVE  LimiterInv'
<1>1. /\ nowMs' = nowMs + 1 /\ UNCHANGED <<buckets, admitted, retryAt>>
      /\ LimiterTypes /\ nowMs \in Nat /\ windowMs \in Nat \ {0} /\ maxRequests \in Nat
      /\ \A i \in DOMAIN admitted : admitted[i].at \in Nat /\ admitted[i].at <= nowMs
  BY LimiterAssumption, Entries DEF LimiterTick, LimiterInv, LimiterTypes
<1>2. LimiterTypes'
  BY <1>1 DEF LimiterTypes
<1>3. ASSUME NEW p \in DOMAIN buckets' PROVE BucketIs(p)'
  <2>1. BucketIs(p) /\ buckets[p].start \in Nat
    BY <1>1, <1>3 DEF LimiterInv, LimiterTypes
  <2>2. AdmittedIn(p, buckets[p].start, nowMs)' = AdmittedIn(p, buckets[p].start, nowMs)
    BY <1>1, <2>1 DEF AdmittedIn
  <2>3. AdmittedIn(p, buckets[p].start - windowMs + 1, buckets[p].start - 1)'
          = AdmittedIn(p, buckets[p].start - windowMs + 1, buckets[p].start - 1)
    BY <1>1 DEF AdmittedIn
  <2> QED BY <1>1, <2>1, <2>2, <2>3 DEF BucketIs
<1>4. ASSUME NEW p \in Principals \ DOMAIN buckets' PROVE MayBegin(p)'
  <2> DEFINE from == nowMs - windowMs + 1
  <2>1. MayBegin(p) /\ from \in Int
    BY <1>1, <1>4 DEF LimiterInv
  <2>2. AdmittedIn(p, from, nowMs)' \subseteq AdmittedIn(p, from, nowMs)
    BY <1>1 DEF AdmittedIn
  <2>3. Cardinality(AdmittedIn(p, from, nowMs)') <= Cardinality(AdmittedIn(p, from, nowMs))
        /\ Cardinality(AdmittedIn(p, from, nowMs)') \in Nat
        /\ Cardinality(AdmittedIn(p, from, nowMs)) \in Nat
    BY <1>1, <2>1, <2>2, Counts
  <2>4. Cardinality(AdmittedIn(p, from, nowMs)) <= maxRequests - 1
    BY <2>1 DEF MayBegin
  <2>5. Cardinality(AdmittedIn(p, from, nowMs)') <= maxRequests - 1
    BY <1>1, <2>3, <2>4
  <2>6. \A i \in DOMAIN admitted' : admitted'[i].of = p => admitted'[i].at < nowMs'
    BY <1>1
  <2> QED BY <2>5, <2>6 DEF MayBegin
<1>5. ASSUME NEW p \in Principals, NEW t \in Nat PROVE LessThanTwice(p, t)'
  BY <1>1 DEF LimiterInv, LessThanTwice, AdmittedIn
<1> QED BY <1>2, <1>3, <1>4, <1>5 DEF LimiterInv

(* A request that is let through counts in the intervals around its time. *)
LEMMA OneMore ==
  ASSUME LimiterTypes, NEW p \in Principals,
         admitted' = Append(admitted, [of |-> p, at |-> nowMs]),
         NEW q, NEW from \in Int, NEW to \in Int
  PROVE  /\ q # p \/ nowMs \notin from..to =>
                AdmittedIn(q, from, to)' = AdmittedIn(q, from, to)
         /\ q = p /\ nowMs \in from..to =>
                Cardinality(AdmittedIn(q, from, to)') = Cardinality(AdmittedIn(q, from, to)) + 1
<1> DEFINE n == Len(admitted) + 1
           E == [of: Principals, at: Nat]
           e == [of |-> p, at |-> nowMs]
<1>1. /\ DOMAIN admitted = 1..Len(admitted) /\ Len(admitted) \in Nat
      /\ DOMAIN admitted' = 1..n /\ admitted'[n] = e
      /\ \A i \in DOMAIN admitted : admitted'[i] = admitted[i]
  <2>1. admitted \in Seq(E) /\ e \in E /\ admitted' = Append(admitted, e)
    BY DEF LimiterTypes
  <2> HIDE DEF E, e
  <2> QED BY <2>1
<1>2. e.of = p /\ e.at = nowMs
  OBVIOUS
<1> HIDE DEF e
<1>3. n \notin DOMAIN admitted /\ DOMAIN admitted' = DOMAIN admitted \cup {n}
  BY <1>1
<1> HIDE DEF n
<1>4. ASSUME q # p \/ nowMs \notin from..to
      PROVE  AdmittedIn(q, from, to)' = AdmittedIn(q, from, to)
  BY <1>1, <1>2, <1>3, <1>4 DEF AdmittedIn
<1>5. ASSUME q = p, nowMs \in from..to
      PROVE  Cardinality(AdmittedIn(q, from, to)') = Cardinality(AdmittedIn(q, from, to)) + 1
  <2>1. /\ AdmittedIn(q, from, to)' = AdmittedIn(q, from, to) \cup {n}
        /\ n \notin AdmittedIn(q, from, to)
    BY <1>1, <1>2, <1>3, <1>5 DEF AdmittedIn
  <2> QED BY <2>1, Counts, FS_AddElement
<1> QED BY <1>4, <1>5

(* A request is let through into a bucket that is as it should be. *)
LEMMA AdmittingIsFair ==
  ASSUME LimiterInv, LimiterTypes', NEW p \in Principals, UNCHANGED nowMs,
         admitted' = Append(admitted, [of |-> p, at |-> nowMs]),
         p \in DOMAIN buckets', BucketIs(p)'
  PROVE  \A q \in Principals, t \in Nat : LessThanTwice(q, t)'
<1>1. ASSUME NEW q \in Principals, NEW t \in Nat PROVE LessThanTwice(q, t)'
  <2>1. LimiterTypes /\ nowMs \in Nat /\ windowMs \in Nat \ {0} /\ t + windowMs - 1 \in Int
    BY LimiterAssumption DEF LimiterInv, LimiterTypes
  <2>2. CASE q # p \/ nowMs \notin t..(t + windowMs - 1)
    <3>1. AdmittedIn(q, t, t + windowMs - 1)' = AdmittedIn(q, t, t + windowMs - 1)
      BY <2>1, <2>2, OneMore
    <3> QED BY <3>1 DEF LimiterInv, LessThanTwice
  <2>3. CASE q = p /\ nowMs \in t..(t + windowMs - 1)
    BY <2>3, WindowsAreLess
  <2> QED BY <2>2, <2>3
<1> QED BY <1>1

(* The sweep keeps the buckets of windows that are not over. *)
LEMMA SweepShape ==
  ASSUME LimiterInv
  PROVE  /\ DOMAIN sweep \subseteq DOMAIN buckets /\ DOMAIN sweep \subseteq Principals
         /\ \A q \in DOMAIN sweep :
               /\ sweep[q] = buckets[q] /\ buckets[q] \in [start: Nat, count: Nat]
               /\ buckets[q].start <= nowMs /\ nowMs - buckets[q].start < windowMs
<1>1. /\ DOMAIN sweep \subseteq DOMAIN buckets
      /\ \A q \in DOMAIN sweep : sweep[q] = buckets[q] /\ ~(nowMs - buckets[q].start >= windowMs)
  BY DEF sweep, Over
<1>2. /\ DOMAIN buckets \subseteq Principals /\ nowMs \in Nat /\ windowMs \in Nat
      /\ \A q \in DOMAIN buckets : buckets[q] \in [start: Nat, count: Nat]
                                      /\ buckets[q].start <= nowMs
  BY LimiterAssumption DEF LimiterInv, LimiterTypes
<1> QED BY <1>1, <1>2

(* Of whom nothing new is let through. *)
LEMMA UntouchedKeeps ==
  ASSUME LimiterInv, UNCHANGED nowMs, NEW q \in Principals,
         \A from, to \in Int : AdmittedIn(q, from, to)' = AdmittedIn(q, from, to),
         \A i \in DOMAIN admitted : i \in DOMAIN admitted' /\ admitted'[i] = admitted[i],
         \A i \in DOMAIN admitted' : admitted'[i].of = q => i \in DOMAIN admitted
  PROVE  /\ q \in DOMAIN sweep /\ buckets'[q] = sweep[q] /\ retryAt'[q] = retryAt[q] => BucketIs(q)'
         /\ q \notin DOMAIN sweep => MayBegin(q)'
<1>1. nowMs \in Nat /\ windowMs \in Nat
  BY LimiterAssumption DEF LimiterInv, LimiterTypes
<1>2. ASSUME q \in DOMAIN sweep, buckets'[q] = sweep[q], retryAt'[q] = retryAt[q]
      PROVE  BucketIs(q)'
  <2> DEFINE start == buckets[q].start
  <2>1. BucketIs(q) /\ start \in Nat /\ buckets'[q] = buckets[q]
    BY <1>2, SweepShape DEF LimiterInv
  <2>2. /\ AdmittedIn(q, start, nowMs)' = AdmittedIn(q, start, nowMs)
        /\ AdmittedIn(q, start - windowMs + 1, start - 1)'
              = AdmittedIn(q, start - windowMs + 1, start - 1)
    <3>1. \A from, to \in Int :
            {i \in DOMAIN admitted' : admitted'[i].of = q /\ admitted'[i].at \in from..to}
              = {i \in DOMAIN admitted : admitted[i].of = q /\ admitted[i].at \in from..to}
      BY DEF AdmittedIn
    <3>2. /\ start - windowMs + 1 \in Int /\ start - 1 \in Int /\ start \in Int /\ nowMs \in Int
      BY <1>1, <2>1
    <3>3. start' = start
      BY <2>1
    <3> QED BY <3>1, <3>2, <3>3 DEF AdmittedIn
  <2> QED BY <1>2, <2>1, <2>2 DEF BucketIs
<1>3. ASSUME q \notin DOMAIN sweep PROVE MayBegin(q)'
  <2>1. MayBegin(q)
    BY <1>3, SweptMayBegin
  <2>2. AdmittedIn(q, nowMs - windowMs + 1, nowMs)' = AdmittedIn(q, nowMs - windowMs + 1, nowMs)
    BY <1>1 DEF AdmittedIn
  <2> QED BY <2>1, <2>2 DEF MayBegin
<1> QED BY <1>2, <1>3

(* A principal that is turned away finds no more in his bucket than before. *)
LEMMA RefusalsKeep ==
  ASSUME LimiterInv, NEW p \in Principals, check(p), Verdict(p) # "allowed"
  PROVE  LimiterInv'
<1>1. /\ UNCHANGED <<nowMs, admitted>> /\ retryAt \in [Principals -> Nat]
      /\ retryAt' = [retryAt EXCEPT ![p] = nowMs + RetryAfter(p) * Second]
      /\ nowMs \in Nat \ {0} /\ windowMs \in Nat \ {0} /\ maxRequests \in Nat \ {0}
      /\ Second \in Nat
  BY LimiterAssumption DEF check, LimiterInv, LimiterTypes
<1>2. \A q \in Principals :
        /\ q \in DOMAIN sweep /\ buckets'[q] = sweep[q] /\ retryAt'[q] = retryAt[q] => BucketIs(q)'
        /\ q \notin DOMAIN sweep => MayBegin(q)'
  BY <1>1, UntouchedKeeps DEF AdmittedIn
<1>3. \A q \in Principals, t \in Nat : LessThanTwice(q, t)'
  BY <1>1 DEF LimiterInv, LessThanTwice, AdmittedIn
<1>4. CASE Verdict(p) = "rate_limiter_capacity"
  <2>1. buckets' = sweep /\ p \notin DOMAIN sweep
    BY <1>4 DEF check, Verdict
  <2>2. RetryAfter(p) \in Nat
    BY <1>1, <1>4, SecondsCover DEF RetryAfter
  <2>3. retryAt' \in [Principals -> Nat] /\ \A q \in Principals \ {p} : retryAt'[q] = retryAt[q]
    BY <1>1, <2>2
  <2>4. LimiterTypes'
    BY <1>1, <2>1, <2>3, SweepShape DEF LimiterInv, LimiterTypes
  <2>5. \A q \in DOMAIN buckets' : BucketIs(q)'
    BY <1>2, <2>1, <2>3, SweepShape
  <2>6. \A q \in Principals \ DOMAIN buckets' : MayBegin(q)'
    BY <1>2, <2>1
  <2> QED BY <1>3, <2>4, <2>5, <2>6 DEF LimiterInv
<1>5. CASE Verdict(p) # "rate_limiter_capacity"
  <2> DEFINE b == buckets[p]
             n == [b EXCEPT !.count = b.count + 1]
             left == windowMs - (nowMs - b.start)
  <2>1. /\ p \in DOMAIN sweep /\ buckets' = WithBucket(p)
    BY <1>5 DEF check, Verdict
  <2>2. /\ sweep[p] = b /\ b \in [start: Nat, count: Nat] /\ b.start <= nowMs
        /\ nowMs - b.start < windowMs /\ BucketIs(p)
    BY <2>1, SweepShape DEF LimiterInv
  <2>3. /\ DOMAIN buckets' = DOMAIN sweep /\ buckets'[p] = n
        /\ \A q \in DOMAIN sweep \ {p} : buckets'[q] = sweep[q]
    BY <2>1, <2>2 DEF WithBucket
  <2>4. n \in [start: Nat, count: Nat] /\ n.start = b.start /\ n.count = b.count + 1
    BY <2>2
  <2>5. left \in Nat /\ RetryAfter(p) = Seconds(left)
    BY <1>1, <1>5, <2>2 DEF RetryAfter
  <2>6. RetryAfter(p) \in Nat /\ RetryAfter(p) * Second >= left
    BY <2>5, SecondsCover
  <2>7. nowMs + RetryAfter(p) * Second \in Nat
        /\ nowMs + RetryAfter(p) * Second >= b.start + windowMs
    <3>1. RetryAfter(p) * Second \in Nat
      BY <1>1, <2>6
    <3>2. b.start \in Nat
      BY <2>2
    <3> QED BY <1>1, <2>6, <3>1, <3>2
  <2>8. /\ retryAt' \in [Principals -> Nat] /\ retryAt'[p] = nowMs + RetryAfter(p) * Second
        /\ \A q \in Principals \ {p} : retryAt'[q] = retryAt[q]
    BY <1>1, <2>7
  <2> HIDE DEF n, left
  <2>9. LimiterTypes'
    BY <1>1, <2>2, <2>3, <2>4, <2>8, SweepShape DEF LimiterInv, LimiterTypes
  <2>10. BucketIs(p)'
    <3>1. AdmittedIn(p, b.start, nowMs)' = AdmittedIn(p, b.start, nowMs)
      BY <1>1, <2>3, <2>4 DEF AdmittedIn
    <3>2. AdmittedIn(p, b.start - windowMs + 1, b.start - 1)'
            = AdmittedIn(p, b.start - windowMs + 1, b.start - 1)
      BY <1>1, <2>3, <2>4 DEF AdmittedIn
    <3>3. Cardinality(AdmittedIn(p, b.start, nowMs)) \in Nat
      BY <1>1, <2>2, Counts DEF LimiterInv
    <3> QED BY <1>1, <2>2, <2>3, <2>4, <2>7, <2>8, <3>1, <3>2, <3>3 DEF BucketIs
  <2>11. \A q \in DOMAIN buckets' : BucketIs(q)'
    BY <1>2, <2>3, <2>8, <2>10, SweepShape
  <2>12. \A q \in Principals \ DOMAIN buckets' : MayBegin(q)'
    BY <1>2, <2>3
  <2> QED BY <1>3, <2>9, <2>11, <2>12 DEF LimiterInv
<1> QED BY <1>4, <1>5

(* A principal that is let through joins his bucket or begins one. *)
LEMMA AdmissionsKeep ==
  ASSUME LimiterInv, NEW p \in Principals, check(p), Verdict(p) = "allowed"
  PROVE  LimiterInv'
<1> DEFINE E == [of: Principals, at: Nat]
           e == [of |-> p, at |-> nowMs]
           b == buckets'[p]
<1>1. /\ UNCHANGED nowMs /\ retryAt \in [Principals -> Nat] /\ LimiterTypes
      /\ admitted' = Append(admitted, e) /\ retryAt' = [retryAt EXCEPT ![p] = 0]
      /\ buckets' = WithBucket(p)
      /\ nowMs \in Nat \ {0} /\ windowMs \in Nat \ {0} /\ maxRequests \in Nat \ {0}
  BY LimiterAssumption DEF check, LimiterInv, LimiterTypes
<1>2. /\ DOMAIN buckets' = DOMAIN sweep \cup {p}
      /\ \A q \in DOMAIN sweep \ {p} : buckets'[q] = sweep[q]
      /\ p \in DOMAIN sweep => /\ b = [buckets[p] EXCEPT !.count = buckets[p].count + 1]
                               /\ buckets[p].count + 1 <= maxRequests
      /\ p \notin DOMAIN sweep => b = [start |-> nowMs, count |-> 1]
  <2>1. p \in DOMAIN sweep => sweep[p] = buckets[p] /\ buckets[p].count \in Nat
    BY SweepShape
  <2>2. p \in DOMAIN sweep => ~(buckets[p].count + 1 > maxRequests)
    BY <2>1 DEF Verdict
  <2>3. /\ DOMAIN buckets' = DOMAIN sweep \cup {p}
        /\ \A q \in DOMAIN sweep \ {p} : buckets'[q] = sweep[q]
    BY <1>1 DEF WithBucket
  <2>4. /\ p \in DOMAIN sweep => b = [sweep[p] EXCEPT !.count = sweep[p].count + 1]
        /\ p \notin DOMAIN sweep => b = [start |-> nowMs, count |-> 1]
    BY <1>1 DEF WithBucket
  <2>5. p \in DOMAIN sweep => buckets[p].count + 1 <= maxRequests
    BY <1>1, <2>1, <2>2
  <2> QED BY <2>1, <2>3, <2>4, <2>5
<1>3. /\ retryAt' \in [Principals -> Nat] /\ retryAt'[p] = 0
      /\ \A q \in Principals \ {p} : retryAt'[q] = retryAt[q]
  BY <1>1
<1>4. /\ DOMAIN admitted = 1..Len(admitted) /\ Len(admitted) \in Nat
      /\ DOMAIN admitted' = 1..(Len(admitted) + 1) /\ admitted'[Len(admitted) + 1] = e
      /\ \A i \in DOMAIN admitted : admitted'[i] = admitted[i]
      /\ admitted' \in Seq(E)
  <2>1. admitted \in Seq(E) /\ e \in E
    BY <1>1 DEF LimiterTypes
  <2> HIDE DEF E, e
  <2> QED BY <1>1, <2>1
<1>5. /\ DOMAIN admitted' = DOMAIN admitted \cup {Len(admitted) + 1}
      /\ e.of = p /\ e.at = nowMs
  BY <1>4
<1>6. b \in [start: Nat, count: Nat] /\ b.start <= nowMs
  <2>1. CASE p \in DOMAIN sweep
    BY <1>2, <2>1, SweepShape
  <2>2. CASE p \notin DOMAIN sweep
    BY <1>1, <1>2, <2>2
  <2> QED BY <2>1, <2>2
<1> HIDE DEF b, e
<1>7. LimiterTypes'
  <2>1. \A i \in DOMAIN admitted' : admitted'[i].at <= nowMs'
    BY <1>1, <1>4, <1>5 DEF LimiterTypes
  <2>2. \A q \in DOMAIN buckets' : q \in Principals /\ buckets'[q] \in [start: Nat, count: Nat]
                                   /\ buckets'[q].start <= nowMs'
    BY <1>1, <1>2, <1>6, SweepShape DEF b
  <2> QED BY <1>1, <1>3, <1>4, <2>1, <2>2 DEF LimiterTypes
<1>8. ASSUME NEW q \in Principals \ {p}
      PROVE  /\ q \in DOMAIN buckets' => BucketIs(q)'
             /\ q \notin DOMAIN buckets' => MayBegin(q)'
  <2>1. \A from, to \in Int : AdmittedIn(q, from, to)' = AdmittedIn(q, from, to)
    BY <1>1, <1>8, OneMore DEF e
  <2>2. /\ \A i \in DOMAIN admitted : i \in DOMAIN admitted' /\ admitted'[i] = admitted[i]
        /\ \A i \in DOMAIN admitted' : admitted'[i].of = q => i \in DOMAIN admitted
    BY <1>4, <1>5, <1>8
  <2> QED BY <1>1, <1>2, <1>3, <1>8, <2>1, <2>2, UntouchedKeeps
<1>9. BucketIs(p)'
  <2> DEFINE S == AdmittedIn(p, b.start, nowMs)
             R == AdmittedIn(p, b.start - windowMs + 1, b.start - 1)
             Admitted(from, to) == {i \in DOMAIN admitted' :
                                        admitted'[i].of = p /\ admitted'[i].at \in from..to}
  <2>1. /\ b.start \in Nat /\ b.count \in Nat /\ nowMs \in b.start..nowMs
        /\ nowMs \notin (b.start - windowMs + 1)..(b.start - 1)
        /\ b.start - windowMs + 1 \in Int /\ b.start - 1 \in Int
    BY <1>1, <1>6
  <2>2. /\ \E i \in DOMAIN admitted' : admitted'[i].of = p /\ admitted'[i].at = b.start
        /\ \A i \in DOMAIN admitted' : admitted'[i].of = p => admitted'[i].at < b.start + windowMs
        /\ Cardinality(S) + 1 <= b.count /\ b.count <= maxRequests
        /\ Cardinality(R) <= maxRequests - 1
    <3>1. CASE p \in DOMAIN sweep
      <4>1. /\ BucketIs(p) /\ b.start = buckets[p].start /\ b.count = buckets[p].count + 1
            /\ nowMs < b.start + windowMs /\ buckets[p].count \in Nat
        <5>1. /\ BucketIs(p) /\ buckets[p] \in [start: Nat, count: Nat]
              /\ nowMs - buckets[p].start < windowMs
          BY <3>1, SweepShape DEF LimiterInv
        <5>2. b = [buckets[p] EXCEPT !.count = buckets[p].count + 1]
          BY <1>2, <3>1
        <5>3. b.start = buckets[p].start /\ b.count = buckets[p].count + 1
          BY <5>1, <5>2
        <5> QED BY <1>1, <5>1, <5>3
      <4>2. Cardinality(S) \in Nat
        BY <1>1, <2>1, Counts
      <4>3. /\ Cardinality(S) <= buckets[p].count /\ Cardinality(R) <= maxRequests - 1
        BY <4>1 DEF BucketIs
      <4>4. PICK i \in DOMAIN admitted : admitted[i].of = p /\ admitted[i].at = b.start
        BY <4>1 DEF BucketIs
      <4>5. \A j \in DOMAIN admitted' : admitted'[j].of = p => admitted'[j].at < b.start + windowMs
        BY <1>4, <1>5, <4>1 DEF BucketIs
      <4> QED BY <1>2, <1>4, <1>5, <3>1, <4>1, <4>2, <4>3, <4>4, <4>5
    <3>2. CASE p \notin DOMAIN sweep
      <4>1. MayBegin(p) /\ b.start = nowMs /\ b.count = 1
        BY <1>2, <3>2, SweptMayBegin
      <4>2. S = {}
        BY <1>1, <4>1 DEF MayBegin, AdmittedIn
      <4>3. Cardinality(S) = 0
        BY <4>2, FS_EmptySet
      <4>4. Cardinality(R) <= maxRequests - 1
        <5>1. R \subseteq AdmittedIn(p, nowMs - windowMs + 1, nowMs)
          BY <1>1, <4>1 DEF AdmittedIn
        <5>2. nowMs - windowMs + 1 \in Int /\ nowMs \in Int
          BY <1>1
        <5> HIDE DEF R
        <5> QED BY <1>1, <4>1, <5>1, <5>2, Counts DEF MayBegin
      <4>5. \A j \in DOMAIN admitted' : admitted'[j].of = p => admitted'[j].at < b.start + windowMs
        <5>1. \A j \in DOMAIN admitted : admitted[j].at \in Nat
          BY <1>1, Entries DEF LimiterTypes
        <5>2. \A j \in DOMAIN admitted : admitted[j].of = p => admitted[j].at < nowMs
          BY <4>1 DEF MayBegin
        <5>3. \A j \in DOMAIN admitted : admitted[j].of = p => admitted[j].at < b.start + windowMs
          BY <1>1, <4>1, <5>1, <5>2
        <5>4. nowMs < b.start + windowMs
          BY <1>1, <4>1
        <5> QED BY <1>4, <1>5, <5>3, <5>4
      <4>6. admitted'[Len(admitted) + 1].of = p /\ admitted'[Len(admitted) + 1].at = b.start
        BY <1>4, <1>5, <4>1
      <4> QED BY <1>1, <1>5, <4>1, <4>3, <4>4, <4>5, <4>6
    <3> QED BY <3>1, <3>2
  <2>3. /\ Cardinality(Admitted(b.start, nowMs)) = Cardinality(S) + 1
        /\ Admitted(b.start - windowMs + 1, b.start - 1) = R
    <3>1. PICK from \in Nat, to \in Nat : from = b.start /\ to = nowMs
      BY <1>1, <2>1
    <3>2. /\ Cardinality(AdmittedIn(p, from, to)') = Cardinality(AdmittedIn(p, from, to)) + 1
          /\ AdmittedIn(p, from - windowMs + 1, from - 1)'
                = AdmittedIn(p, from - windowMs + 1, from - 1)
      BY <1>1, <2>1, <3>1, OneMore DEF e
    <3>3. /\ Admitted(from, to) = AdmittedIn(p, from, to)'
          /\ Admitted(from - windowMs + 1, from - 1) = AdmittedIn(p, from - windowMs + 1, from - 1)'
      BY DEF AdmittedIn
    <3> QED BY <3>1, <3>2, <3>3
  <2>4. /\ Admitted(b.start, nowMs) = AdmittedIn(p, buckets[p].start, nowMs)'
        /\ Admitted(b.start - windowMs + 1, b.start - 1)
              = AdmittedIn(p, buckets[p].start - windowMs + 1, buckets[p].start - 1)'
    BY <1>1 DEF AdmittedIn, b
  <2> HIDE DEF S, R, Admitted
  <2>5. /\ \E i \in DOMAIN admitted' : admitted'[i].of = p /\ admitted'[i].at = buckets'[p].start
        /\ \A i \in DOMAIN admitted' :
              admitted'[i].of = p => admitted'[i].at < buckets'[p].start + windowMs
        /\ Cardinality(S) + 1 <= buckets'[p].count /\ Cardinality(S) + 1 <= maxRequests
        /\ Cardinality(R) <= maxRequests - 1
    <3>1. Cardinality(S) + 1 <= maxRequests
      <4>1. Cardinality(S) \in Nat
        BY <1>1, <2>1, Counts DEF S
      <4> QED BY <1>1, <2>1, <2>2, <4>1
    <3> QED BY <2>2, <3>1 DEF b
  <2> QED BY <1>3, <2>3, <2>4, <2>5 DEF BucketIs
<1>10. \A q \in DOMAIN buckets' : BucketIs(q)'
  BY <1>7, <1>8, <1>9 DEF LimiterTypes
<1>11. \A q \in Principals \ DOMAIN buckets' : MayBegin(q)'
  BY <1>2, <1>8
<1>12. \A q \in Principals, t \in Nat : LessThanTwice(q, t)'
  BY <1>1, <1>2, <1>7, <1>9, AdmittingIsFair DEF e
<1> QED BY <1>7, <1>10, <1>11, <1>12 DEF LimiterInv

LEMMA LimiterSteps == LimiterInv /\ [LimiterNext]_limiterVars => LimiterInv'
<1> SUFFICES ASSUME LimiterInv, [LimiterNext]_limiterVars PROVE LimiterInv'
  OBVIOUS
<1>1. CASE LimiterTick
  BY <1>1, LimiterTicks
<1>2. ASSUME NEW p \in Principals, Check(p) PROVE LimiterInv'
  BY <1>2, RefusalsKeep, AdmissionsKeep DEF Check
<1>3. CASE UNCHANGED limiterVars
  <2>1. /\ UNCHANGED <<nowMs, buckets, admitted, retryAt>>
        /\ \A p, from, to : AdmittedIn(p, from, to)' = AdmittedIn(p, from, to)
    BY <1>3 DEF limiterVars, AdmittedIn
  <2>2. LimiterTypes'
    BY <2>1 DEF LimiterInv, LimiterTypes
  <2>3. ASSUME NEW p \in DOMAIN buckets' PROVE BucketIs(p)'
    BY <2>1 DEF LimiterInv, BucketIs, AdmittedIn
  <2>4. ASSUME NEW p \in Principals \ DOMAIN buckets' PROVE MayBegin(p)'
    BY <2>1 DEF LimiterInv, MayBegin, AdmittedIn
  <2>5. ASSUME NEW p \in Principals, NEW t \in Nat PROVE LessThanTwice(p, t)'
    BY <2>1 DEF LimiterInv, LessThanTwice, AdmittedIn
  <2> QED BY <2>2, <2>3, <2>4, <2>5 DEF LimiterInv
<1> QED BY <1>1, <1>2, <1>3 DEF LimiterNext

(* A bucket counts what was let through since its start, and its window      *)
(* follows one that has ended.                                               *)
THEOREM LimiterInvHolds == LimiterSpec => []LimiterInv
  BY LimiterStarts, LimiterSteps, PTL DEF LimiterSpec

(* For any window, limit, table and principals: less than twice the limit    *)
(* passes in any interval as long as the window, capacity is refused only    *)
(* while the table is in use, and who obeys Retry-After is not over the limit. *)
THEOREM TheLimiterIsFair == LimiterSpec => []LimiterIsFair
<1>1. LimiterInv => LimiterIsFair
  <2> SUFFICES ASSUME LimiterInv PROVE LimiterIsFair
    OBVIOUS
  <2>1. nowMs \in Nat /\ windowMs \in Nat \ {0} /\ LimiterTypes
    BY LimiterAssumption DEF LimiterInv, LimiterTypes
  <2>2. LessThanTwiceTheLimit
    BY <2>1 DEF LimiterInv, LessThanTwice, LessThanTwiceTheLimit
  <2>3. ASSUME NEW p \in Principals, Verdict(p) = "rate_limiter_capacity"
        PROVE  Cardinality({q \in Principals \ {p} :
                   AdmittedIn(q, nowMs - windowMs + 1, nowMs) # {}}) >= maxBuckets
    <3> DEFINE Q == {q \in Principals \ {p} : AdmittedIn(q, nowMs - windowMs + 1, nowMs) # {}}
               of == [i \in DOMAIN admitted |-> admitted[i].of]
               O == {of[i] : i \in DOMAIN admitted}
    <3>1. p \notin DOMAIN sweep /\ Cardinality(DOMAIN sweep) >= maxBuckets
      BY <2>3 DEF Verdict
    <3>2. DOMAIN sweep \subseteq Q
      <4> SUFFICES ASSUME NEW q \in DOMAIN sweep PROVE q \in Q
        OBVIOUS
      <4>1. /\ q \in Principals \ {p} /\ BucketIs(q) /\ buckets[q].start \in Nat
            /\ buckets[q].start <= nowMs /\ nowMs - buckets[q].start < windowMs
        BY <3>1, SweepShape DEF LimiterInv
      <4>2. PICK i \in DOMAIN admitted : admitted[i].of = q /\ admitted[i].at = buckets[q].start
        BY <4>1 DEF BucketIs
      <4>3. i \in AdmittedIn(q, nowMs - windowMs + 1, nowMs)
        BY <2>1, <4>1, <4>2 DEF AdmittedIn
      <4> QED BY <4>1, <4>3
    <3>3. IsFiniteSet(Q)
      <4>1. DOMAIN admitted = 1..Len(admitted) /\ Len(admitted) \in Nat
        BY <2>1 DEF LimiterTypes
      <4>2. IsFiniteSet(O)
        <5>1. IsFiniteSet(DOMAIN admitted)
          BY <4>1, FS_Interval
        <5>2. of \in Surjection(DOMAIN admitted, O)
          BY DEF Surjection
        <5> QED BY <5>1, <5>2, FS_Surjection
      <4>3. Q \subseteq O
        BY DEF AdmittedIn
      <4> QED BY <4>2, <4>3, FS_Subset
    <3> HIDE DEF Q
    <3>4. Cardinality(DOMAIN sweep) <= Cardinality(Q)
          /\ Cardinality(DOMAIN sweep) \in Nat /\ Cardinality(Q) \in Nat
      BY <3>2, <3>3, FS_Subset, FS_CardinalityType
    <3>5. maxBuckets \in Nat
      BY LimiterAssumption
    <3> QED BY <3>1, <3>4, <3>5 DEF Q
  <2>4. ASSUME NEW p \in Principals, retryAt[p] # 0, nowMs >= retryAt[p],
               Verdict(p) = "rate_limit_exceeded"
        PROVE  FALSE
    <3>1. p \in DOMAIN sweep
      BY <2>4 DEF Verdict
    <3>2. /\ BucketIs(p) /\ buckets[p].start \in Nat /\ nowMs - buckets[p].start < windowMs
      BY <3>1, SweepShape DEF LimiterInv
    <3>3. retryAt[p] >= buckets[p].start + windowMs /\ retryAt[p] \in Nat
      BY <2>1, <2>4, <3>2 DEF BucketIs, LimiterTypes
    <3> QED BY <2>1, <2>4, <3>2, <3>3
  <2> QED BY <2>2, <2>3, <2>4 DEF LimiterIsFair, CapacityIsInUse, RetryAfterIsEnough
<1> QED BY <1>1, LimiterInvHolds, PTL

===============================================================================
