------------------------------ MODULE Acquisitions ------------------------------
(***************************************************************************)
(* AcquisitionResolver of services/compliance-data/src/acquisition.ts: the *)
(* clock of a holder's lots, some of which descend from others, compiled   *)
(* from whatever books the transfer agent has at the time.                 *)
(***************************************************************************)
EXTENDS Naturals, FiniteSets, FiniteSetsExt

CONSTANTS
    Lots,        \* lot identifiers of one holder and asset
    NoLot        \* the transfer agent has no lot of this identifier

VARIABLE
    lots         \* what the transfer agent's provider.lots returns

-----------------------------------------------------------------------------
(* A lot is bought, with its clock, or derived (a dividend, a gift, ...)     *)
(* from the lot its lineageRef names; validateLot refuses a purchase with a  *)
(* lineage.                                                                  *)
Lot == [clock: 1..2, derived: BOOLEAN, lineage: Lots \cup {NoLot}]

Holdings == {h \in [Lots -> Lot \cup {NoLot}] :
                \A l \in Lots : h[l] # NoLot /\ ~h[l].derived => h[l].lineage = NoLot}

ASSUME LotsAssumption == IsFiniteSet(Lots) /\ NoLot \notin Lots \cup Lot

(* resolveClock: 0 stands for undefined.                                     *)
(* Mutation: a derived lot starts a clock of its own. *)
OwnClock(h, lot) ==
    IF h[lot].derived /\ h[lot].lineage = NoLot THEN 0 ELSE h[lot].clock
resolveClock(h, lot) ==
    LET clock[visiting \in SUBSET Lots] == [l \in Lots \cup {NoLot} |->
            IF l \in visiting \cup {NoLot} THEN 0
            ELSE IF h[l] = NoLot THEN 0
            ELSE IF ~h[l].derived THEN h[l].clock
            ELSE clock[visiting \cup {l}][h[l].lineage]]
    IN clock[{}][lot]

(* compile: the snapshot's status and its clock, the latest of all lots.     *)
compile(h) ==
    LET held == {l \in Lots : h[l] # NoLot}
        clocks == {resolveClock(h, l) : l \in held}
    IN IF held = {} THEN [status |-> "MISSING", clockStart |-> 0]
       ELSE IF 0 \in clocks THEN [status |-> "LINEAGE_BROKEN", clockStart |-> 0]
       ELSE [status |-> "VALID", clockStart |-> Max(clocks)]

(* The transfer agent's books change between two compilations.               *)
Book(l) ==
    /\ \E lot \in Lot \cup {NoLot} : lots' = [lots EXCEPT ![l] = lot]
    /\ lots' \in Holdings
    /\ lots' # lots

AcquisitionInit == lots = [l \in Lots |-> NoLot]

AcquisitionNext == \E l \in Lots : Book(l)

AcquisitionSpec == AcquisitionInit /\ [][AcquisitionNext]_lots

-----------------------------------------------------------------------------
(* The lots a lot descends from, itself included: the least set that holds    *)
(* the lot and, with a lot, the one it names.                               *)
ClosedUnderLineage(S) == \A l \in S \cap Lots : lots[l] # NoLot => lots[l].lineage \in S

Ancestry(lot) ==
    {l \in Lots : \A S \in SUBSET (Lots \cup {NoLot}) :
                    lot \in S /\ ClosedUnderLineage(S) => l \in S}

(* A snapshot is valid exactly when every lot descends from a purchase, and  *)
(* its clock is then no earlier than any of those purchases: pledges, gifts  *)
(* and dividends neither restart a holding period nor shorten one, and       *)
(* lineages that are cut or go round in circles are never valid.             *)
ClockIsThatOfPurchases ==
    LET held == {l \in Lots : lots[l] # NoLot}
        roots(l) == {k \in Ancestry(l) \cap held : ~lots[k].derived}
    IN /\ compile(lots).status = "VALID" <=> held # {} /\ \A l \in held : roots(l) # {}
       /\ compile(lots).status = "VALID" =>
             compile(lots).clockStart = Max({lots[k].clock : k \in UNION {roots(l) : l \in held}})
=============================================================================
