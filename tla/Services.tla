-------------------------------- MODULE Services --------------------------------
(***************************************************************************)
(* The processes that must keep going: the RFQ host, the lock of its quote *)
(* store, the coordinator with the workers that settle its quotes, the     *)
(* indexer that fills the event file of the operator API, and the demo     *)
(* desk. None of them calls another in this project's models (the host     *)
(* asks a limiter and a coordinator that may answer anything, and the      *)
(* coordinator's store is atomic), so a behaviour follows one, named by    *)
(* "service", while the others rest.                                       *)
(***************************************************************************)
EXTENDS EventIndexer, RfqHost, StoreLock, DemoDesk, QuoteCoordinator

VARIABLE service

restVars == <<hostVars, lockVars, deskVars>>
serviceVars == <<service, indexerVars, restVars, vars>>

(* The quotes a coordinator is asked for: one bucket, which holds any of them. *)
QuoteBucket == [r \in Requests |-> CHOOSE b \in Buckets : TRUE]
QuoteTtl == [r \in Requests |-> 2]
QuoteInventory == [b \in Buckets |-> 3]

(* Of the desk's initial states, one that rests is at the first. *)
ServicesInit ==
    /\ service \in {"indexer", "host", "store", "desk", "quotes"}
    /\ IndexerInit /\ HostInit /\ LockInit /\ DeskInit /\ Init
    /\ service # "desk" => makerOn /\ claim = "valid"

ServicesNext ==
    /\ UNCHANGED service
    /\ \/ service = "indexer" /\ IndexerNext /\ UNCHANGED <<restVars, vars>>
       \/ service = "quotes" /\ Next /\ UNCHANGED <<indexerVars, restVars>>
       \/ service = "host" /\ HostNext /\ UNCHANGED <<indexerVars, lockVars, deskVars, vars>>
       \/ service = "store" /\ LockNext /\ UNCHANGED <<indexerVars, hostVars, deskVars, vars>>
       \/ service = "desk" /\ DeskNext /\ UNCHANGED <<indexerVars, hostVars, lockVars, vars>>

(* Each fairness condition speaks of the part that runs: the steps of a part  *)
(* that rests are not possible at its initial state. The chain and the clock  *)
(* of the coordinator are, so its Fairness says when it runs.                *)
QuotesRun(step) == service = "quotes" /\ step
QuoteFairness ==
    /\ WF_vars(QuotesRun(Tick))
    /\ WF_vars(QuotesRun(Mine))
    /\ \A k \in Keys : WF_vars(QuotesRun(\E o \in feed[k] : MarkObserved(k, o)))
    /\ \A k \in Keys : WF_vars(QuotesRun(Reconcile(k, now, TRUE)))

ServicesSpec ==
    /\ ServicesInit /\ [][ServicesNext]_serviceVars
    /\ IndexerFairness /\ HostFairness /\ LockFairness
    /\ QuoteFairness
=============================================================================
