----------------------------- MODULE Settlement -----------------------------
(***************************************************************************)
(* The settlement of RFQ quotes on chain: ExecutionRouter.execute, which    *)
(* calls RFQAdapter.execute and, once the tokens have moved, the            *)
(* ComplianceEngine's commit.  The pause scopes a trade depends on and the  *)
(* maker's delegate are the delayed gates that OperatorRegistry and         *)
(* MakerAuthorizer implement; the token policy changes as                   *)
(* TokenPolicyRegistry lets it.  A transaction is two steps: up to the      *)
(* token transfers, which may call back, and from them to its end.          *)
(***************************************************************************)
EXTENDS Integers, FiniteSets

CONSTANTS
    Scopes,       \* the pause scopes of the trade: global, its two assets, its venue
    Delegate,     \* the maker's delegate: the gate that is open while it may sign
    Maker,        \* the maker's own key
    Delay,        \* the notice a gate reopens with
    Policies,     \* policyIds of the token pair
    Nonces,       \* the maker's quote nonces
    Routers,      \* deployments of ExecutionRouter
    TakerNonces,  \* the taker's request nonces
    MaxTtl,       \* the longest a quote is valid
    MaxOffers, MaxTime,  \* bounds on the quotes signed and on the block timestamp
    NoTx

ASSUME SettlementAssumption ==
    /\ Delay \in Nat \ {0} /\ MaxTtl \in Nat /\ MaxTime \in Nat /\ MaxOffers \in Nat
    /\ Delegate \notin Scopes /\ Maker # Delegate

Gates == Scopes \cup {Delegate}

VARIABLES
    shut, notice, time,  \* of the gates, and block.timestamp
    policy, permitted,   \* what evaluate decides under: the policyId, and whether it allows
    offers,              \* the quotes that have been signed
    stopped,             \* when a gate they depend on was last shut under them
    approved,            \* approvedMaker
    venueActive,         \* the venue's config names this adapter
    router,              \* RFQAdapter.router
    engineRouter,        \* ComplianceEngine.router
    usedQuote,           \* usedQuoteNonce
    usedTaker,           \* usedNonce of each router
    settled,             \* RFQFilled and RFQQuoteCancelled events, per quote nonce
    tx                   \* the transaction in its transfers, or NoTx

gateVars == <<shut, notice>>
ruleVars == <<policy, permitted, approved, venueActive, router, engineRouter>>
quoteVars == <<offers, stopped>>
ledgerVars == <<usedQuote, usedTaker, settled, tx>>
settlementVars == <<shut, notice, time, policy, permitted, offers, stopped, approved, venueActive,
          router, engineRouter, usedQuote, usedTaker, settled, tx>>

Controls == INSTANCE DelayedGate

Quote == [nonce : Nonces, policy : Policies, signer : {Maker, Delegate}, expiry : Nat]

Transaction ==
    [router : Routers, taker : TakerNonces, quote : Quote,
     used : SUBSET Nonces, settled : [Nonces -> Nat]]

ASSUME NoTxAssumption == NoTx \notin Transaction

DependsOn(q) == IF q.signer = Delegate THEN Gates ELSE Scopes

-----------------------------------------------------------------------------
(* RFQAdapter._validateQuote. *)

(* Mutation: the adapter accepts a quote whatever its expiry. *)
UnexpiredAlways(q) == TRUE
Unexpired(q) == time <= q.expiry

(* isAuthorizedSigner. *)
Authorized(q) == q.signer = Maker \/ ~shut[Delegate]

ValidQuote(q) ==
    /\ Unexpired(q) /\ q.nonce \notin usedQuote /\ approved /\ Authorized(q)
    /\ q.policy = policy

(* Mutation: the quote's nonce is marked only when the tokens have moved. *)
MarkedAfterwards(q) == usedQuote
Marked(q) == usedQuote \cup {q.nonce}

(* execute, up to the adapter's transfers. *)
Execute(r, n, q) ==
    /\ tx = NoTx
    /\ \A s \in Scopes : ~shut[s]
    /\ n \notin usedTaker[r]
    /\ permitted /\ venueActive
    /\ r = router /\ ValidQuote(q)
    /\ usedTaker' = [usedTaker EXCEPT ![r] = @ \cup {n}]
    /\ usedQuote' = Marked(q)
    /\ tx' = [router |-> r, taker |-> n, quote |-> q, used |-> usedQuote, settled |-> settled]
    /\ UNCHANGED <<gateVars, time, ruleVars, quoteVars, settled>>

(* The rest of it, once the transfers return: RFQFilled, the commit. *)
CommitExecution ==
    /\ tx # NoTx
    /\ tx.router = engineRouter
    /\ usedQuote' = usedQuote \cup {tx.quote.nonce}
    /\ settled' = [settled EXCEPT ![tx.quote.nonce] = @ + 1]
    /\ tx' = NoTx
    /\ UNCHANGED <<gateVars, time, ruleVars, quoteVars, usedTaker>>

(* A transfer, the slippage bound or the commit reverts the transaction. *)
Revert ==
    /\ tx # NoTx
    /\ usedQuote' = tx.used /\ settled' = tx.settled
    /\ usedTaker' = [usedTaker EXCEPT ![tx.router] = @ \ {tx.taker}]
    /\ tx' = NoTx
    /\ UNCHANGED <<gateVars, time, ruleVars, quoteVars>>

(* cancelQuoteNonce, in a transaction of its own or from a transfer of the    *)
(* trade: the maker may be called when it receives or sends the tokens.  The  *)
(* call of a nonce that is used changes nothing.                              *)
CancelQuoteNonce(k) ==
    /\ k \notin usedQuote
    /\ usedQuote' = usedQuote \cup {k}
    /\ settled' = [settled EXCEPT ![k] = @ + 1]
    /\ UNCHANGED <<gateVars, time, ruleVars, quoteVars, usedTaker, tx>>

-----------------------------------------------------------------------------
(* What else happens between transactions. *)

SignQuote(k, signer, ttl) ==
    LET q == [nonce |-> k, policy |-> policy, signer |-> signer, expiry |-> time + ttl] IN
    /\ Cardinality(offers) < MaxOffers /\ q \notin offers
    /\ offers' = offers \cup {q}
    /\ UNCHANGED <<gateVars, time, ruleVars, stopped, ledgerVars>>

(* Mutation: a stop leaves the notice of a reopening that was given before.   *)
StopGateOnly(g) ==
    /\ shut' = [shut EXCEPT ![g] = TRUE]
    /\ UNCHANGED <<notice, time>>
StopGate(g) == Controls!Shut(g)

ShutGate(g) ==
    /\ StopGate(g)
    /\ stopped' = {s \in stopped : g \notin DependsOn(s.quote)}
                    \cup {[quote |-> q, at |-> time] : q \in {o \in offers : g \in DependsOn(o)}}
    /\ UNCHANGED <<ruleVars, offers, ledgerVars>>

MoveGate(g) ==
    /\ Controls!Announce(g) \/ Controls!Withdraw(g) \/ Controls!Reopen(g)
    /\ UNCHANGED <<ruleVars, quoteVars, ledgerVars>>

(* A Manifest step of TokenPolicyRegistry, as evaluate sees it. *)
ChangePolicy(p, allowed) ==
    /\ policy' = p /\ permitted' = allowed
    /\ UNCHANGED <<gateVars, time, quoteVars, approved, venueActive, router, engineRouter,
                   ledgerVars>>

SetMakerApproved(b) ==
    /\ approved' = b
    /\ UNCHANGED <<gateVars, time, quoteVars, policy, permitted, venueActive, router,
                   engineRouter, ledgerVars>>

RegisterVenue(active) ==
    /\ venueActive' = active
    /\ UNCHANGED <<gateVars, time, quoteVars, policy, permitted, approved, router,
                   engineRouter, ledgerVars>>

(* setRouter of the adapter, and of the engine. *)
SetRouter(r) ==
    /\ router' = r
    /\ UNCHANGED <<gateVars, time, quoteVars, policy, permitted, approved, venueActive,
                   engineRouter, ledgerVars>>

SetEngineRouter(r) ==
    /\ engineRouter' = r
    /\ UNCHANGED <<gateVars, time, quoteVars, policy, permitted, approved, venueActive,
                   router, ledgerVars>>

SettlementTick ==
    /\ time < MaxTime
    /\ time' = time + 1
    /\ UNCHANGED <<gateVars, ruleVars, quoteVars, ledgerVars>>

SettlementInit ==
    /\ shut = [g \in Gates |-> FALSE] /\ notice = [g \in Gates |-> 0]
    /\ time = 1
    /\ policy \in Policies /\ permitted = TRUE
    /\ offers = {} /\ stopped = {}
    /\ approved = TRUE /\ venueActive = TRUE
    /\ router \in Routers /\ engineRouter = router
    /\ usedQuote = {} /\ usedTaker = [r \in Routers |-> {}]
    /\ settled = [k \in Nonces |-> 0]
    /\ tx = NoTx

Between ==
    \/ \E k \in Nonces, s \in {Maker, Delegate}, ttl \in 1..MaxTtl : SignQuote(k, s, ttl)
    \/ \E g \in Gates : ShutGate(g) \/ MoveGate(g)
    \/ \E p \in Policies, b \in BOOLEAN : ChangePolicy(p, b)
    \/ \E b \in BOOLEAN : SetMakerApproved(b) \/ RegisterVenue(b)
    \/ \E r \in Routers : SetRouter(r) \/ SetEngineRouter(r)
    \/ SettlementTick

SettlementNext ==
    \/ tx = NoTx /\ Between
    \/ \E r \in Routers, n \in TakerNonces, q \in offers : Execute(r, n, q)
    \/ CommitExecution
    \/ Revert
    \/ \E k \in Nonces : CancelQuoteNonce(k)

SettlementSpec == SettlementInit /\ [][SettlementNext]_settlementVars

-----------------------------------------------------------------------------
SettlementTypeOK ==
    /\ shut \in [Gates -> BOOLEAN] /\ notice \in [Gates -> Nat] /\ time \in Nat
    /\ policy \in Policies /\ permitted \in BOOLEAN
    /\ offers \subseteq Quote /\ stopped \subseteq [quote : offers, at : Nat]
    /\ approved \in BOOLEAN /\ venueActive \in BOOLEAN
    /\ router \in Routers /\ engineRouter \in Routers
    /\ usedQuote \subseteq Nonces /\ usedTaker \in [Routers -> SUBSET TakerNonces]
    /\ settled \in [Nonces -> Nat]
    /\ tx \in Transaction \cup {NoTx}

(* A quote nonce is filled or cancelled, and once: whatever the taker         *)
(* nonces, the router that is current and the callbacks of the transfers,     *)
(* the adapter emits one RFQFilled or RFQQuoteCancelled for it, and none for  *)
(* a nonce that is unused.  The quote service settles its records by them.    *)
SettledOnce ==
    /\ \A k \in Nonces : settled[k] <= 1
    /\ tx = NoTx => usedQuote = {k \in Nonces : settled[k] = 1}

(* A quote that was outstanding when a scope of its trade was paused or its   *)
(* signer was revoked is dead for the whole Delay that follows the last such  *)
(* stop, whatever notices were given, withdrawn or given again before and     *)
(* since: only one that is still valid after that can ever trade.             *)
StopsKillOutstanding ==
    tx # NoTx => \A s \in stopped :
        s.quote = tx.quote => s.at + Delay <= time /\ s.at + Delay <= tx.quote.expiry

=============================================================================
