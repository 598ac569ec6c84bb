-------------------------- MODULE QuoteCoordinator --------------------------
(***************************************************************************)
(* The durable RFQ quote coordinator of services/rfq: callers that ask for *)
(* a signed quote under an idempotency key, the record store in which      *)
(* every quote goes through its lifecycle while it holds an inventory      *)
(* lease, and the workers that expire, revoke, observe and reconcile.      *)
(*                                                                         *)
(* Every method of LocalFileQuoteCoordinatorStore runs under the store's   *)
(* lock and is one atomic step here (module StoreLock looks inside that    *)
(* lock).  Every await of RFQQuoteCoordinator between two store calls is a *)
(* separate step, so that callers, workers and the clock interleave there. *)
(***************************************************************************)
EXTENDS Integers, FiniteSets, Functions

CONSTANTS
    Keys,        \* idempotency key hashes, all in one (chain, adapter, maker) scope
    Callers,     \* concurrent quote() / quoteWithEvidence() calls
    Requests,    \* normalised intents (their hash is the request hash)
    Buckets,     \* maker:token:venue inventory buckets
    BucketOf,    \* [Requests -> Buckets]
    TtlOf,       \* [Requests -> Nat \ {0}], ttlSeconds of the request
    Available,   \* [Buckets -> Nat], configured inventory
    Amounts,     \* amountOut values the pricing module may return
    Validities,  \* how long pricing and risk evidence is valid when it is produced
    Modes,       \* SUBSET BOOLEAN: TRUE for quoteWithEvidence, FALSE for quote
    Sigs,        \* signatures the signer may return (a signer may be randomised)
    NoSig,       \* no persisted signature
    NoTx,        \* no settlement transaction
    Depth,       \* confirmationDepth
    MaxLag,      \* how old a timestamp may be when the store lock is won
    MaxTime,     \* bound on the clock
    MaxHead,     \* bound on the chain head
    MaxForks     \* bound on the number of reorganisations

ASSUME CoordinatorAssumption ==
    /\ Keys # {} /\ IsFiniteSet(Keys) /\ Requests # {}
    /\ BucketOf \in [Requests -> Buckets]
    /\ TtlOf \in [Requests -> Nat \ {0}]
    /\ Available \in [Buckets -> Nat]
    /\ Amounts \subseteq Nat \ {0}
    /\ Validities \subseteq Nat \ {0}
    /\ NoTx \notin [kind: {"fill", "cancel"}, block: Nat, branch: Nat]
    /\ Modes \subseteq BOOLEAN
    /\ NoSig \notin Sigs
    /\ Depth \in Nat \ {0}
    /\ {MaxLag, MaxTime, MaxHead, MaxForks} \subseteq Nat

VARIABLES
    rec,        \* the persisted quote record of each key
    lastNonce,  \* lastNonceByScope
    reserved,   \* inventoryByScope[b].reserved
    call,       \* what each caller is doing
    delivered,  \* signed quotes ever returned to callers, per key
    now,        \* the time source
    head,       \* number of the latest block
    canon,      \* branch identifier of each canonical block (its hash)
    forks,      \* reorganisations so far
    onchain,    \* canonical settlement transaction of each key's quote
    feed        \* settlement events the indexer has yet to report, per key

storeVars == <<rec, lastNonce, reserved>>
chainVars == <<head, canon, forks, onchain>>
vars == <<rec, lastNonce, reserved, call, delivered, now,
          head, canon, forks, onchain, feed>>

-----------------------------------------------------------------------------
(* Quote records *)

Observed == {"FILL_OBSERVED", "CANCEL_OBSERVED"}
Terminal == {"FILLED", "CANCELLED", "EXPIRED", "SIGN_FAILED", "REVOKED"}
States   == {"ABSENT", "RESERVED", "PUBLISHED"} \cup Observed \cup Terminal

NoEvidence == 0      \* productionEvidence is undefined
Tx == [kind: {"fill", "cancel"}, block: 1..MaxHead, branch: 0..MaxForks]

Record == [state: States, req: Requests, nonce: Nat, amount: Nat, expiresAt: Nat,
           evidence: Nat, released: BOOLEAN, sig: Sigs \cup {NoSig}, obs: Tx \cup {NoTx}]

Absent == [state |-> "ABSENT", req |-> CHOOSE r \in Requests : TRUE, nonce |-> 0,
           amount |-> 0, expiresAt |-> 0, evidence |-> NoEvidence,
           released |-> FALSE, sig |-> NoSig, obs |-> NoTx]

Holds(R) == R.state # "ABSENT" /\ ~R.released

(* Mutation: the states revoke accepts, without its return on a terminal record. *)
OpenOrTerminal(R) == R.state \notin {"ABSENT"} \cup Observed

(* Neither observed nor terminal: what expire and revoke accept. *)
Open(R) == R.state \in {"RESERVED", "PUBLISHED"}

(* A record that reaches a terminal state and gives its lease back. *)
Close(R, final) == [R EXCEPT !.state = final, !.released = TRUE]

(* Mutations: observed quotes lose their lease too; only unsigned ones do. *)
LeaseExpiredAny(R, t) == Holds(R) /\ R.expiresAt <= t /\ R.state \notin Terminal
LeaseExpiredUnsigned(R, t) == Holds(R) /\ R.expiresAt <= t /\ R.state = "RESERVED"

(* releaseExpiredLeases: every unobserved lease whose expiry has been reached. *)
LeaseExpired(R, t) == Holds(R) /\ R.expiresAt <= t /\ R.state \notin Observed \cup Terminal
ReleaseExpired(recs, t) ==
    [k \in Keys |-> IF LeaseExpired(recs[k], t) THEN Close(recs[k], "EXPIRED") ELSE recs[k]]

(* Mutation: releaseLease without its return on a released lease. *)
FreedAgain(b, before, after) ==
    SumFunction([k \in Keys |->
        IF after[k].released /\ BucketOf[before[k].req] = b THEN before[k].amount ELSE 0])

(* What a bucket's reserved counter loses when the records before become after. *)
FreedIn(b, before, after) ==
    SumFunction([k \in Keys |->
        IF Holds(before[k]) /\ after[k].released /\ BucketOf[before[k].req] = b
        THEN before[k].amount ELSE 0])
ReservedAfter(before, after) ==
    [b \in Buckets |-> reserved[b] - FreedIn(b, before, after)]

(* Replace one record, moving the reserved counter with its lease. *)
Store(k, R) ==
    /\ rec' = [rec EXCEPT ![k] = R]
    /\ reserved' = ReservedAfter(rec, [rec EXCEPT ![k] = R])
    /\ UNCHANGED lastNonce

(* Timestamps are read before the lock is taken: the store may see an old one. *)
Recent == {t \in 0..now : now - t <= MaxLag}

-----------------------------------------------------------------------------
(* Calls *)

Idle == [pc |-> "idle", key |-> CHOOSE k \in Keys : TRUE, req |-> CHOOSE r \in Requests : TRUE,
         strict |-> FALSE, t0 |-> 0, amount |-> 0, evidence |-> NoEvidence]

Pcs == {"idle", "lookup", "price", "reserve", "resume", "sign", "signing",
        "signFailed", "expire", "revoke"}

Call == [pc: Pcs, key: Keys, req: Requests, strict: BOOLEAN, t0: Nat, amount: Nat, evidence: Nat]

Goto(c, pc) == call' = [call EXCEPT ![c].pc = pc]
Return(c) == call' = [call EXCEPT ![c] = Idle]

(* The signed quote of R goes back to the caller. *)
Reply == [nonce: Nat, sig: Sigs, strict: BOOLEAN]
Deliver(c, R) ==
    /\ delivered' = [delivered EXCEPT ![call[c].key] =
                        @ \cup {[nonce |-> R.nonce, sig |-> R.sig, strict |-> call[c].strict]}]
    /\ Return(c)

Fail(c) == Return(c) /\ UNCHANGED delivered

(* responseOrResumeExisting, up to its first await. *)
RespondExisting(c, R) ==
    \/ R.req # call[c].req /\ Fail(c)
    \/ /\ R.req = call[c].req
       /\ \/ R.sig # NoSig /\ (call[c].strict => R.evidence # NoEvidence) /\ Deliver(c, R)
          \/ R.sig # NoSig /\ call[c].strict /\ R.evidence = NoEvidence /\ Fail(c)
          \/ R.sig = NoSig /\ R.state = "RESERVED" /\ Goto(c, "resume") /\ UNCHANGED delivered
          \/ R.sig = NoSig /\ R.state # "RESERVED" /\ Fail(c)

Begin(c, k, r, s) ==
    /\ call[c].pc = "idle"
    /\ now + TtlOf[r] <= MaxTime
    /\ call' = [call EXCEPT ![c] = [Idle EXCEPT !.pc = "lookup", !.key = k, !.req = r,
                                                !.strict = s, !.t0 = now]]
    /\ UNCHANGED <<storeVars, delivered, now, chainVars, feed>>

Lookup(c) ==
    /\ call[c].pc = "lookup"
    /\ \/ rec[call[c].key].state = "ABSENT" /\ Goto(c, "price") /\ UNCHANGED delivered
       \/ rec[call[c].key].state # "ABSENT" /\ RespondExisting(c, rec[call[c].key])
    /\ UNCHANGED <<storeVars, now, chainVars, feed>>

(* Pricing and risk answer, or fail; a strict call validates their evidence *)
(* against the time its policy carries, which the host reads at the start.  *)
Price(c) ==
    /\ call[c].pc = "price"
    /\ \/ Fail(c)
       \/ \E a \in Amounts, v \in Validities :
             /\ call' = [call EXCEPT ![c].pc = "reserve", ![c].amount = a,
                           ![c].evidence = IF call[c].strict THEN call[c].t0 + v ELSE NoEvidence]
             /\ UNCHANGED delivered
    /\ UNCHANGED <<storeVars, now, chainVars, feed>>

(* Mutation: the nonce is derived from the records that are still open. *)
NonceFromOpen == 1 + Cardinality({k \in Keys : Holds(rec[k])})
NextNonce == lastNonce + 1

NewRecord(c) ==
    [state |-> "RESERVED", req |-> call[c].req, nonce |-> NextNonce,
     amount |-> call[c].amount, expiresAt |-> call[c].t0 + TtlOf[call[c].req],
     evidence |-> call[c].evidence, released |-> FALSE, sig |-> NoSig, obs |-> NoTx]

(* Mutation: off by one at the limit. *)
RoomOffByOne(b, taken, amount) == Available[b] - taken[b] + 1 >= amount
Room(b, taken, amount) == Available[b] - taken[b] >= amount

(* reserveOrReturnExisting.  When the inventory does not suffice the method *)
(* throws before the state is written: the leases it released come back.    *)
Reserve(c) ==
    LET k     == call[c].key
        b     == BucketOf[call[c].req]
        freed == ReleaseExpired(rec, call[c].t0)
        left  == ReservedAfter(rec, freed)
        room  == Room(b, left, call[c].amount)
    IN  /\ call[c].pc = "reserve"
        /\ \/ /\ rec[k].state # "ABSENT"
              /\ RespondExisting(c, rec[k])
              /\ UNCHANGED storeVars
           \/ /\ rec[k].state = "ABSENT" /\ ~room
              /\ Fail(c)
              /\ UNCHANGED storeVars
           \/ /\ rec[k].state = "ABSENT" /\ room
              /\ rec' = [freed EXCEPT ![k] = NewRecord(c)]
              /\ reserved' = [left EXCEPT ![b] = @ + call[c].amount]
              /\ lastNonce' = NextNonce
              /\ Goto(c, "sign")
              /\ UNCHANGED delivered
        /\ UNCHANGED <<now, chainVars, feed>>

Stale(c, R) == call[c].strict /\ R.evidence <= call[c].t0

(* The rest of responseOrResumeExisting, for a record that was RESERVED when *)
(* it was read: a strict call revalidates the persisted evidence first.      *)
Resume(c) ==
    LET R == rec[call[c].key]
    IN  /\ call[c].pc = "resume"
        /\ Goto(c, IF Stale(c, R) THEN "revoke" ELSE IF R.expiresAt <= now THEN "expire" ELSE "sign")
        /\ UNCHANGED <<storeVars, delivered, now, chainVars, feed>>

(* signReservedRecord up to the call of the signer. *)
Sign(c) ==
    /\ call[c].pc = "sign"
    /\ Goto(c, IF rec[call[c].key].expiresAt <= now THEN "expire" ELSE "signing")
    /\ UNCHANGED <<storeVars, delivered, now, chainVars, feed>>

(* The signer throws, its signature does not verify, or markSigned times out. *)
SignerFails(c) ==
    /\ call[c].pc = "signing"
    /\ Goto(c, "signFailed")
    /\ UNCHANGED <<storeVars, delivered, now, chainVars, feed>>

(* Mutation: markSigned also replaces a signature that is already published. *)
SignableAgain(R) == Open(R)
Signable(R) == R.state = "RESERVED"

(* markSigned, with the signature s and the timestamp t taken before it. *)
Publish(c, s, t) ==
    LET k == call[c].key
        R == rec[k]
        P == [R EXCEPT !.state = "PUBLISHED", !.sig = s]
    IN  /\ call[c].pc = "signing"
        /\ \/ Signable(R) /\ R.expiresAt > t /\ Store(k, P) /\ Deliver(c, P)
           \/ /\ Signable(R) /\ R.expiresAt <= t
              /\ Store(k, Close(R, "EXPIRED"))
              /\ Goto(c, "signFailed") /\ UNCHANGED delivered
           \/ ~Signable(R) /\ R.state = "PUBLISHED" /\ Deliver(c, R) /\ UNCHANGED storeVars
           \/ /\ ~Open(R)
              /\ Goto(c, "signFailed") /\ UNCHANGED <<storeVars, delivered>>
        /\ UNCHANGED <<now, chainVars, feed>>

MarkSignFailed(c) ==
    LET k == call[c].key
    IN  /\ call[c].pc = "signFailed"
        /\ IF rec[k].state = "RESERVED"
           THEN Store(k, Close(rec[k], "SIGN_FAILED"))
           ELSE UNCHANGED storeVars
        /\ Fail(c)
        /\ UNCHANGED <<now, chainVars, feed>>

(* The process dies, or the caller gives up on the store lock. *)
Crash(c) ==
    /\ call[c].pc # "idle"
    /\ Fail(c)
    /\ UNCHANGED <<storeVars, now, chainVars, feed>>

-----------------------------------------------------------------------------
(* expire and revoke of the store, used by callers and by operator workers *)

CanExpire(R, t) == Open(R) /\ (R.sig # NoSig => t >= R.expiresAt)

(* The caller passes the timestamp at which it found the lease expired. *)
ExpireOwn(c) ==
    LET k == call[c].key
    IN  /\ call[c].pc = "expire"
        /\ IF CanExpire(rec[k], rec[k].expiresAt) THEN Store(k, Close(rec[k], "EXPIRED")) ELSE UNCHANGED storeVars
        /\ Fail(c)
        /\ UNCHANGED <<now, chainVars, feed>>

RevokeOwn(c) ==
    LET k == call[c].key
    IN  /\ call[c].pc = "revoke"
        /\ IF Open(rec[k]) THEN Store(k, Close(rec[k], "REVOKED")) ELSE UNCHANGED storeVars
        /\ Fail(c)
        /\ UNCHANGED <<now, chainVars, feed>>

Expire(k, t) ==
    /\ CanExpire(rec[k], t)
    /\ Store(k, Close(rec[k], "EXPIRED"))
    /\ UNCHANGED <<call, delivered, now, chainVars, feed>>

Revoke(k) ==
    /\ Open(rec[k])
    /\ Store(k, Close(rec[k], "REVOKED"))
    /\ UNCHANGED <<call, delivered, now, chainVars, feed>>

-----------------------------------------------------------------------------
(* Observation and reconciliation *)

ObservedState(o) == IF o.kind = "fill" THEN "FILL_OBSERVED" ELSE "CANCEL_OBSERVED"
FinalState(R) == IF R.state = "FILL_OBSERVED" THEN "FILLED" ELSE "CANCELLED"

(* markObserved of an event the indexer reports: it changes only a PUBLISHED *)
(* record; a terminal record ignores it and an unpublished one rejects it.   *)
MarkObserved(k, o) ==
    /\ o \in feed[k]
    /\ feed' = [feed EXCEPT ![k] = @ \ {o}]
    /\ IF rec[k].state = "PUBLISHED"
       THEN rec' = [rec EXCEPT ![k].state = ObservedState(o), ![k].obs = o]
       ELSE UNCHANGED rec
    /\ UNCHANGED <<lastNonce, reserved, call, delivered, now, chainVars>>

(* Mutations: the canonical hash is not compared; a reorganised observation *)
(* stays.                                                                   *)
SettledUnchecked(R, known) ==
    IF R.state \in Observed /\ head - R.obs.block + 1 >= Depth THEN Close(R, FinalState(R)) ELSE R
SettledNoRollback(R, known) ==
    IF /\ R.state \in Observed /\ known /\ canon[R.obs.block] = R.obs.branch
       /\ head - R.obs.block + 1 >= Depth
    THEN Close(R, FinalState(R)) ELSE R

(* reconcile: expired leases go first, whatever happens to this record.  *)
(* known says whether the caller supplies a canonical block hash.        *)
Settled(R, known) ==
    IF R.state \notin Observed \/ ~known THEN R
    ELSE IF canon[R.obs.block] # R.obs.branch
    THEN [R EXCEPT !.state = "PUBLISHED", !.obs = NoTx]
    ELSE IF head - R.obs.block + 1 >= Depth THEN Close(R, FinalState(R)) ELSE R

Reconcile(k, t, known) ==
    LET freed == ReleaseExpired(rec, t)
        after == [freed EXCEPT ![k] = Settled(freed[k], known)]
    IN  /\ rec[k].state # "ABSENT"
        /\ rec' = after
        /\ reserved' = ReservedAfter(rec, after)
        /\ UNCHANGED <<lastNonce, call, delivered, now, chainVars, feed>>

-----------------------------------------------------------------------------
(* The chain and the clock *)

(* A quote its taker holds fills while RFQAdapter accepts it: at any time up *)
(* to and including its expiry, once.                                        *)
Fillable(k) ==
    /\ delivered[k] # {}
    /\ onchain[k] = NoTx
    /\ now <= rec[k].expiresAt

Settle(k, kind) ==
    LET tx == [kind |-> kind, block |-> head, branch |-> canon[head]]
    IN  /\ head \in 1..(MaxHead - Depth + 1)
        /\ rec[k].state # "ABSENT" /\ onchain[k] = NoTx
        /\ kind = "fill" => Fillable(k)
        /\ onchain' = [onchain EXCEPT ![k] = tx]
        /\ feed' = [feed EXCEPT ![k] = @ \cup {tx}]
        /\ UNCHANGED <<storeVars, call, delivered, now, head, canon, forks>>

Mine ==
    /\ head < MaxHead
    /\ head' = head + 1
    /\ UNCHANGED <<storeVars, call, delivered, now, canon, forks, onchain, feed>>

(* A reorganisation shallower than the confirmation depth replaces block b *)
(* and every later one; the transactions in them are no longer canonical.  *)
Reorg(b) ==
    /\ forks < MaxForks
    /\ b \in 1..head /\ head - b + 1 < Depth
    /\ forks' = forks + 1
    /\ canon' = [x \in 1..MaxHead |-> IF x >= b THEN forks + 1 ELSE canon[x]]
    /\ onchain' = [k \in Keys |->
                     IF onchain[k] # NoTx /\ onchain[k].block >= b THEN NoTx ELSE onchain[k]]
    /\ UNCHANGED <<storeVars, call, delivered, now, head, feed>>

(* A restarted indexer reports a canonical transaction again. *)
Redeliver(k) ==
    /\ onchain[k] # NoTx
    /\ feed' = [feed EXCEPT ![k] = @ \cup {onchain[k]}]
    /\ UNCHANGED <<storeVars, call, delivered, now, chainVars>>

Tick ==
    /\ now < MaxTime
    /\ now' = now + 1
    /\ UNCHANGED <<storeVars, call, delivered, chainVars, feed>>

-----------------------------------------------------------------------------
Init ==
    /\ rec = [k \in Keys |-> Absent]
    /\ lastNonce = 0
    /\ reserved = [b \in Buckets |-> 0]
    /\ call = [c \in Callers |-> Idle]
    /\ delivered = [k \in Keys |-> {}]
    /\ now = 0
    /\ head = 0
    /\ canon = [b \in 1..MaxHead |-> 0]
    /\ forks = 0
    /\ onchain = [k \in Keys |-> NoTx]
    /\ feed = [k \in Keys |-> {}]

CallerStep(c) ==
    \/ Lookup(c) \/ Price(c) \/ Reserve(c) \/ Resume(c) \/ Sign(c)
    \/ SignerFails(c) \/ MarkSignFailed(c) \/ RevokeOwn(c) \/ ExpireOwn(c)
    \/ \E t \in Recent, s \in Sigs : Publish(c, s, t)

WorkerStep(k) ==
    \/ Revoke(k)
    \/ \E t \in Recent : Expire(k, t)
    \/ \E o \in feed[k] : MarkObserved(k, o)
    \/ \E t \in Recent, known \in BOOLEAN : Reconcile(k, t, known)

ChainStep ==
    \/ \E k \in Keys, kind \in {"fill", "cancel"} : Settle(k, kind)
    \/ \E k \in Keys : Redeliver(k)
    \/ \E b \in 1..MaxHead : Reorg(b)
    \/ Mine

Next ==
    \/ \E c \in Callers, k \in Keys, r \in Requests, s \in Modes : Begin(c, k, r, s)
    \/ \E c \in Callers : CallerStep(c) \/ Crash(c)
    \/ \E k \in Keys : WorkerStep(k)
    \/ ChainStep
    \/ Tick

Spec == Init /\ [][Next]_vars

-----------------------------------------------------------------------------
(* Properties *)

(* The fields of every record, call, reply and transaction have their types. *)
Types ==
    /\ rec \in [Keys -> Record]
    /\ lastNonce \in Nat
    /\ call \in [Callers -> Call]
    /\ delivered \in [Keys -> SUBSET Reply]
    /\ now \in 0..MaxTime
    /\ head \in 0..MaxHead
    /\ canon \in [1..MaxHead -> 0..MaxForks]
    /\ forks \in 0..MaxForks
    /\ onchain \in [Keys -> Tx \cup {NoTx}]
    /\ feed \in [Keys -> SUBSET Tx]

(* Types, and a reserved counter that never goes below zero: the underflow   *)
(* releaseLease checks for does not happen.                                  *)
TypeOK == Types /\ reserved \in [Buckets -> Nat]

HeldIn(b) ==
    SumFunction([k \in Keys |->
        IF Holds(rec[k]) /\ BucketOf[rec[k].req] = b THEN rec[k].amount ELSE 0])

(* The reserved counter the store keeps beside the records is the sum of the *)
(* leases that are still held, whichever of the eight release paths ran.     *)
ReservedIsHeld == \A b \in Buckets : reserved[b] = HeldIn(b)

(* Open quotes never promise more than the inventory of their bucket, also   *)
(* when two callers reserve while leases expire under them.                  *)
NoOverReservation == \A b \in Buckets : HeldIn(b) <= Available[b]

(* A nonce is given to one record only and stays below the counter, also     *)
(* after signer failures, expiries and abandoned calls (UNIQUE of the policy). *)
NonceUnique ==
    \A k \in Keys : rec[k].state # "ABSENT" =>
        /\ rec[k].nonce \in 1..lastNonce
        /\ \A l \in Keys \ {k} : rec[l].nonce # rec[k].nonce

(* All callers of an idempotency key get the one quote that is persisted,    *)
(* also when several of them sign the same reservation concurrently.         *)
OneQuotePerKey ==
    \A k \in Keys : \A d \in delivered[k] : d.nonce = rec[k].nonce /\ d.sig = rec[k].sig

(* quoteWithEvidence never returns a quote without persisted evidence, even  *)
(* when the reservation it resumes was made by a call without any.           *)
StrictQuotesCarryEvidence ==
    \A k \in Keys : \A d \in delivered[k] : d.strict => rec[k].evidence # NoEvidence

(* A lease is released exactly when its record is terminal: nothing holds    *)
(* inventory for ever and nothing open is without its lease.                 *)
ReleasedIsTerminal == \A k \in Keys : rec[k].released <=> rec[k].state \in Terminal

(* A record that reached a terminal state never changes again: a late        *)
(* signature, event, expiry or revocation finds it closed.                   *)
TerminalIsFinal ==
    [][\A k \in Keys : rec[k].state \in Terminal => rec'[k] = rec[k]]_vars

Confirmed(o) == canon[o.block] = o.branch /\ head - o.block + 1 >= Depth

(* A quote is FILLED or CANCELLED only by a transaction of that kind that is *)
(* on the canonical chain, across every reorganisation shallower than Depth. *)
FinalMatchesChain ==
    \A k \in Keys : rec[k].state \in {"FILLED", "CANCELLED"} =>
        /\ onchain[k] = rec[k].obs
        /\ rec[k].obs.kind = IF rec[k].state = "FILLED" THEN "fill" ELSE "cancel"

(* The lease of an observed quote is released at the confirmation depth of   *)
(* its transaction and in no other way.                                      *)
ObservedLeaseWaits ==
    [][\A k \in Keys : rec[k].state \in Observed /\ rec'[k].released =>
          Confirmed(rec[k].obs)]_vars

(* Stale evidence revokes reservations, never a quote that another call has  *)
(* published in the meantime (services/rfq/README.md).                       *)
EvidenceRevokesOnlyReservations ==
    [][\A c \in Callers :
          call[c].pc = "revoke" /\ call'[c].pc = "idle" /\ rec' # rec =>
              rec[call[c].key].state = "RESERVED"]_vars

(* The quotes that takers can still fill, and that nobody revoked, never     *)
(* promise more than the inventory: "the lease prevents concurrent           *)
(* over-quoting inside the RFQ service" (production-rfq-policy.md).          *)
NoOverQuoting ==
    \A b \in Buckets :
        SumFunction([k \in Keys |->
            IF Fillable(k) /\ rec[k].state # "REVOKED" /\ BucketOf[rec[k].req] = b
            THEN rec[k].amount ELSE 0]) <= Available[b]

-----------------------------------------------------------------------------
(* Liveness, under the fairness of the operator's reconciliation worker, its *)
(* event indexer, the clock and the chain; callers need none.                *)

Fairness ==
    /\ WF_vars(Tick)
    /\ WF_vars(Mine)
    /\ \A k \in Keys : WF_vars(\E o \in feed[k] : MarkObserved(k, o))
    /\ \A k \in Keys : WF_vars(Reconcile(k, now, TRUE))

FairSpec == Spec /\ Fairness

(* Every lease is given back: by publication failure, expiry, revocation or  *)
(* a confirmed settlement, whatever callers that crashed left behind.        *)
LeasesAreReleased == \A k \in Keys : Holds(rec[k]) ~> ~Holds(rec[k])

(* An observation that a reorganisation removed does not stay: the record    *)
(* returns to PUBLISHED, or a new observation replaces it.                   *)
OrphanedObservationLeaves ==
    \A k \in Keys :
        rec[k].state \in Observed /\ onchain[k] # rec[k].obs
            ~> ~(rec[k].state \in Observed /\ onchain[k] # rec[k].obs)

-----------------------------------------------------------------------------
(* The coordinator implements the book of module QuoteBook. *)

BookStatus(R) ==
    CASE R.state = "ABSENT"                        -> "none"
      [] R.state = "RESERVED"                      -> "held"
      [] R.state \in {"PUBLISHED"} \cup Observed -> "quoted"
      [] R.state \in Terminal                      -> "closed"

BookTerms(R) == [bucket |-> BucketOf[R.req], amount |-> R.amount, nonce |-> R.nonce]

Book == INSTANCE QuoteBook WITH
    Quotes  <- Sigs,
    NoQuote <- NoSig,
    status  <- [k \in Keys |-> BookStatus(rec[k])],
    terms   <- [k \in Keys |-> BookTerms(rec[k])],
    quote   <- [k \in Keys |-> rec[k].sig],
    replies <- [k \in Keys |-> {d.sig : d \in delivered[k]}]

(* Every step of the coordinator is a step of the book or leaves it alone:  *)
(* entries open once with a fresh nonce and room for their inventory, get   *)
(* at most one quote, reply only that quote, and close once.                *)
ImplementsBook == Book!Spec
=============================================================================
