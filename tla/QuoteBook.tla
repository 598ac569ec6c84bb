----------------------------- MODULE QuoteBook -----------------------------
(***************************************************************************)
(* What the quote coordinator promises its callers and its maker, without  *)
(* locks, clocks, callers or chain: a book with one entry per idempotency  *)
(* key.  An entry takes inventory when it is opened and gives it back when *)
(* it is closed; in between it may get one quote, which never changes, and *)
(* only that quote is ever replied.  QuoteCoordinator implements it.       *)
(***************************************************************************)
EXTENDS Integers, Functions

CONSTANTS
    Keys, Buckets,
    Available,  \* [Buckets -> Nat]
    Quotes,
    NoQuote     \* an entry without a quote; not in Quotes

VARIABLES
    status,   \* "none", "held", "quoted" or "closed"
    terms,    \* bucket, amount and nonce of each entry
    quote,    \* the quote of each entry
    replies   \* quotes replied under each key

vars == <<status, terms, quote, replies>>

Taken(st, tm, b) ==
    SumFunction([k \in Keys |->
        IF st[k] \in {"held", "quoted"} /\ tm[k].bucket = b THEN tm[k].amount ELSE 0])

Used == {terms[k].nonce : k \in {l \in Keys : status[l] # "none"}}

Closing(S) == [k \in Keys |-> IF k \in S THEN "closed" ELSE status[k]]
Opened == {k \in Keys : status[k] \in {"held", "quoted"}}

Init ==
    /\ status = [k \in Keys |-> "none"]
    /\ terms \in [Keys -> [bucket: Buckets, amount: {0}, nonce: {0}]]
    /\ quote = [k \in Keys |-> NoQuote]
    /\ replies = [k \in Keys |-> {}]

(* Entries may close when another one opens: their inventory is reused. *)
Open(k) ==
    /\ status[k] = "none"
    /\ \E S \in SUBSET Opened : status' = [Closing(S) EXCEPT ![k] = "held"]
    /\ terms'[k].nonce \notin Used
    /\ \A l \in Keys \ {k} : terms'[l] = terms[l]
    /\ DOMAIN terms' = Keys
    /\ \A b \in Buckets : Taken(status', terms', b) <= Available[b]
    /\ UNCHANGED <<quote, replies>>

CloseSome ==
    /\ \E S \in SUBSET Opened : status' = Closing(S)
    /\ UNCHANGED <<terms, quote, replies>>

Publish(k) ==
    /\ status[k] = "held"
    /\ status' = [status EXCEPT ![k] = "quoted"]
    /\ \E q \in Quotes : quote' = [quote EXCEPT ![k] = q]
    /\ replies' = [replies EXCEPT ![k] = {quote'[k]}]
    /\ UNCHANGED terms

Reply(k) ==
    /\ quote[k] # NoQuote
    /\ replies' = [replies EXCEPT ![k] = {quote[k]}]
    /\ UNCHANGED <<status, terms, quote>>

Next == CloseSome \/ \E k \in Keys : Open(k) \/ Publish(k) \/ Reply(k)

Spec == Init /\ [][Next]_vars
=============================================================================
