------------------------------ MODULE MCQuote ------------------------------
(***************************************************************************)
(* Model values, small functions and the two scenarios of the runs of       *)
(* QuoteCoordinator, which a behaviour keeps to:                           *)
(*   inventory: plain calls for small requests under two keys, for which    *)
(*              the bucket may not hold enough;                            *)
(*   replay:    calls of both kinds with two requests under one key.        *)
(***************************************************************************)
EXTENDS QuoteCoordinator, TLC

CONSTANTS k1, k2, c1, c2, s1, s2, small, large, Scenarios

VARIABLE scenario

MCBucketOf == [r \in Requests |-> "bucket"]
MCTtlOf == [r \in Requests |-> IF r = small THEN 1 ELSE 2]
MCAvailable == [b \in Buckets |-> 3]
Interchangeable == Permutations(Callers) \cup Permutations(Sigs)

Active == {c \in Callers : call[c].pc # "idle"}
InScenario ==
    IF scenario = "inventory"
    THEN /\ now <= 2
         /\ \A c \in Active : call[c].req = small /\ ~call[c].strict /\ call[c].t0 < 2
    ELSE \A c \in Active : call[c].key = k1 /\ call[c].amount # 1

MCInit == Init /\ scenario \in Scenarios
MCNext == Next /\ UNCHANGED scenario /\ InScenario'
MCSpec == MCInit /\ [][MCNext]_<<vars, scenario>>
=============================================================================
