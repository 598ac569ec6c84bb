----------------------------- MODULE TradeCompliance ----------------------------
(***************************************************************************)
(* What the compliance contracts make of a trade: the engine with the       *)
(* holder counter its plan names, and the fraud monitor.  The monitor hears *)
(* any transfers, so what the engine lets through is already in its         *)
(* behaviours: a behaviour follows one, named by "contract", while the      *)
(* other rests.                                                             *)
(***************************************************************************)
EXTENDS ComplianceEngine, FraudSurveillance, TLC

VARIABLE contract

complianceVars == <<contract, engineVars, fraudVars>>

(* What rests begins in one state. *)
FirstOf(S) == CHOOSE x \in S : TRUE

ComplianceInit ==
    /\ contract \in {"engine", "surveillance"}
    /\ contract = "surveillance" =>
            bindings = FirstOf(Manifests) /\ capMode = FirstOf(CapModes)
    /\ contract = "engine" => structuringWindow = FirstOf(StructuringWindows)
    /\ EngineInit /\ FraudInit

ComplianceNext ==
    /\ UNCHANGED contract
    /\ \/ contract = "engine" /\ EngineNext /\ UNCHANGED fraudVars
       \/ contract = "surveillance" /\ FraudNext /\ UNCHANGED engineVars

ComplianceSpec == ComplianceInit /\ [][ComplianceNext]_complianceVars

-----------------------------------------------------------------------------
(* Manifests for TLC. *)

Rule(e, a) == [element |-> e, action |-> a]
Blocking(es) == [k \in DOMAIN es |-> Rule(es[k], "BLOCK")]
Required(r, rules) ==
    [mode |-> "REQUIRED_BLOCKING", group |-> 0, priority |-> 1, recipe |-> r, rules |-> rules]
Observed(r, rules) ==
    [mode |-> "FLAG_ONLY", group |-> 0, priority |-> 1, recipe |-> r, rules |-> rules]
Path(g, p, r, rules) ==
    [mode |-> "PATH_OPTION", group |-> g, priority |-> p, recipe |-> r, rules |-> rules]

(* The count is required, required twice, or part of each way to trade. *)
CountingManifests ==
    { <<Required(1, Blocking(<<"free", "count">>)), Observed(2, Blocking(<<"count">>))>>,
      <<Required(1, Blocking(<<"count">>)), Path(1, 1, 2, Blocking(<<"attested", "count">>))>>,
      <<Path(1, 2, 1, Blocking(<<"attested", "count">>)),
        Path(1, 1, 2, <<Rule("count", "BLOCK"), Rule("attested", "FLAG_ONLY")>>)>> }

(* One way to trade wants the asset to be free in the sender's hands. *)
NativePath ==
    { <<Path(1, 2, 1, Blocking(<<"free", "count">>)),
        Path(1, 1, 2, Blocking(<<"attested", "count">>))>> }

Modes == {"TWELVE_G", "THREE_C_1"}

(* Wallets are interchangeable but for the issuer's, and so are sellers. *)
Interchangeable == Permutations(Wallets \ {Issuer}) \cup Permutations(Sellers)
=============================================================================
