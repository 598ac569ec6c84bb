------------------------------- MODULE Operations -------------------------------
(***************************************************************************)
(* Two sides of a trade that is judged: the contracts that decide about    *)
(* it, and services/compliance-data with the evidence, the audit chain,    *)
(* the person groups and the acquisition lots from which operators decide  *)
(* what to attest.  Contracts take what operators attest, which is         *)
(* anything, and the four parts of the service share no state, so a        *)
(* behaviour follows one, named by "side", and the rest rest.              *)
(***************************************************************************)
EXTENDS TradeCompliance, KycEvidence, AuditChain, PersonGroups, Acquisitions

VARIABLE side

dataVars == <<kycVars, auditVars, groupVars, lots>>
operationsVars == <<side, complianceVars, dataVars>>

OperationsInit ==
    /\ side \in {"contracts", "kyc", "audit", "groups", "acquisitions"}
    /\ side # "contracts" =>
            contract = "surveillance" /\ structuringWindow = FirstOf(StructuringWindows)
    /\ side # "groups" => asOf = [day |-> FirstAsOf, moment |-> 0]
    /\ ComplianceInit /\ KycInit /\ AuditInit /\ GroupsInit /\ AcquisitionInit

DataNext ==
    \/ side = "kyc" /\ KycNext /\ UNCHANGED <<auditVars, groupVars, lots>>
    \/ side = "audit" /\ AuditNext /\ UNCHANGED <<kycVars, groupVars, lots>>
    \/ side = "groups" /\ GroupsNext /\ UNCHANGED <<kycVars, auditVars, lots>>
    \/ side = "acquisitions" /\ AcquisitionNext /\ UNCHANGED <<kycVars, auditVars, groupVars>>

OperationsNext ==
    /\ UNCHANGED side
    /\ \/ side = "contracts" /\ ComplianceNext /\ UNCHANGED dataVars
       \/ DataNext /\ UNCHANGED complianceVars

OperationsSpec == OperationsInit /\ [][OperationsNext]_operationsVars
=============================================================================
