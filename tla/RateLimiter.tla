------------------------------ MODULE RateLimiter ------------------------------
(***************************************************************************)
(* InMemoryRateLimiter of services/rfq-host/src/server.ts: a bucket with a *)
(* fixed window for each principal (of the one route), and a bounded table *)
(* of buckets.                                                             *)
(***************************************************************************)
EXTENDS Integers, Sequences, FiniteSets, FiniteSetsExt

CONSTANTS
    Principals,
    windowMs, maxRequests, maxBuckets,
    Second,         \* milliseconds of a second: Retry-After is in seconds
    LimiterMaxTime, \* bound of the clock
    MaxChecks       \* bound of the checks

ASSUME LimiterAssumption ==
    /\ windowMs \in Nat \ {0} /\ maxRequests \in Nat \ {0} /\ maxBuckets \in Nat \ {0}
    /\ Second \in Nat \ {0} /\ LimiterMaxTime \in Nat /\ MaxChecks \in Nat

VARIABLES
    nowMs,
    buckets,    \* principal -> [start, count], for those that have one
    admitted,   \* observation: principal and time of every request let through
    retryAt,    \* observation: when a principal that was limited may come back; 0: none
    checks      \* checks so far

limiterVars == <<nowMs, buckets, admitted, retryAt, checks>>

LimiterInit ==
    /\ nowMs = 1
    /\ buckets = <<>>
    /\ admitted = <<>>
    /\ retryAt = [p \in Principals |-> 0]
    /\ checks = 0

-----------------------------------------------------------------------------
Over(bucket) == nowMs - bucket.start >= windowMs
sweep == [p \in {q \in DOMAIN buckets : ~Over(buckets[q])} |-> buckets[p]]

(* Mutation: the seconds left are rounded down. *)
SecondsDown(ms) == Max({1, ms \div Second})
Seconds(ms) == Max({1, (ms + Second - 1) \div Second})

Verdict(p) ==
    IF p \notin DOMAIN sweep
    THEN IF Cardinality(DOMAIN sweep) >= maxBuckets THEN "rate_limiter_capacity" ELSE "allowed"
    ELSE IF sweep[p].count + 1 > maxRequests THEN "rate_limit_exceeded" ELSE "allowed"

WithBucket(p) ==
    [q \in DOMAIN sweep \cup {p} |->
        IF q # p THEN sweep[q]
        ELSE IF p \in DOMAIN sweep THEN [sweep[p] EXCEPT !.count = @ + 1]
        ELSE [start |-> nowMs, count |-> 1]]

RetryAfter(p) ==
    Seconds(IF Verdict(p) = "rate_limiter_capacity" THEN windowMs
            ELSE windowMs - (nowMs - sweep[p].start))

check(p) ==
    /\ buckets' = IF Verdict(p) = "rate_limiter_capacity" THEN sweep ELSE WithBucket(p)
    /\ IF Verdict(p) = "allowed"
       THEN /\ admitted' = Append(admitted, [of |-> p, at |-> nowMs])
            /\ retryAt' = [retryAt EXCEPT ![p] = 0]
       ELSE /\ retryAt' = [retryAt EXCEPT ![p] = nowMs + RetryAfter(p) * Second]
            /\ UNCHANGED admitted
    /\ UNCHANGED nowMs

Check(p) == checks < MaxChecks /\ checks' = checks + 1 /\ check(p)

LimiterTick ==
    /\ nowMs < LimiterMaxTime
    /\ nowMs' = nowMs + 1
    /\ UNCHANGED <<buckets, admitted, retryAt, checks>>

LimiterNext == LimiterTick \/ \E p \in Principals : Check(p)

LimiterSpec == LimiterInit /\ [][LimiterNext]_limiterVars

-----------------------------------------------------------------------------
AdmittedIn(p, from, to) ==
    {i \in DOMAIN admitted : admitted[i].of = p /\ admitted[i].at \in from..to}

(* The table of buckets promises three things that edges of the window and   *)
(* the sweep could break, however a principal places requests around the end  *)
(* of a window. Less than twice the limit pass in any interval as long as the *)
(* window.                                                                   *)
LessThanTwiceTheLimit ==
    \A p \in Principals, t \in 1..nowMs :
        Cardinality(AdmittedIn(p, t, t + windowMs - 1)) < 2 * maxRequests

(* A principal without a bucket is turned away only while the table is full  *)
(* of others who each had a request admitted within the last window.         *)
CapacityIsInUse ==
    \A p \in Principals :
        Verdict(p) = "rate_limiter_capacity" =>
            Cardinality({q \in Principals \ {p} :
                AdmittedIn(q, nowMs - windowMs + 1, nowMs) # {}}) >= maxBuckets

(* Who waits as long as Retry-After told him is not over the limit any more,  *)
(* whatever he tried meanwhile.                                              *)
RetryAfterIsEnough ==
    \A p \in Principals :
        retryAt[p] # 0 /\ nowMs >= retryAt[p] => Verdict(p) # "rate_limit_exceeded"

(* The limiter keeps all three: bursts stay bounded, who left does not keep   *)
(* others out, and a client that obeys Retry-After is served.                *)
LimiterIsFair == LessThanTwiceTheLimit /\ CapacityIsInUse /\ RetryAfterIsEnough
=============================================================================
