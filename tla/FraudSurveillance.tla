-------------------------- MODULE FraudSurveillance --------------------------
(***************************************************************************)
(* The monitoring element FraudSurveillance (F-03): the engine tells it of  *)
(* each settled transfer, it sums the transfers of a seller's identity      *)
(* group over a window and opens a flag for a pattern of structuring.  What *)
(* operators do with a flag is left out: nothing here reads it.             *)
(***************************************************************************)
EXTENDS Integers

CONSTANTS
    Sellers, IdentityGroups,
    SAR_THRESHOLD,
    StructuringWindows,      \* the settings of structuringWindow
    MaxTransfers, LastTradingDay    \* bounds on the transfers and the clock

ASSUME FraudAssumption ==
    /\ Sellers \cap IdentityGroups = {}
    /\ SAR_THRESHOLD \in Nat \ {0}
    /\ StructuringWindows \subseteq Nat
    /\ LastTradingDay \in Nat \ {0}

VARIABLES
    today,               \* block.timestamp
    structuringWindow,
    identityGroupOf,     \* the group of a wallet, itself when it has none
    window,              \* _window, per group: [start, total, count]
    flagSeq,             \* _flagSeq: the flags opened
    sold,                \* history: what a group sold up to each day in pieces below
                         \* the threshold, since a flag was last opened for it or
                         \* the setting of the window changed
    transfers            \* how many there were

fraudVars == <<today, structuringWindow, identityGroupOf, window, flagSeq, sold, transfers>>

GroupKeys == Sellers \cup IdentityGroups
NoWindow == [start |-> 0, total |-> 0, count |-> 0]
Days == 0..LastTradingDay
NoPieces == [d \in Days |-> 0]
OnePieceMore(pieces, amount) ==
    [d \in Days |-> IF d >= today THEN pieces[d] + amount ELSE pieces[d]]

(* The window a transfer of this key falls into.  Mutation: each transfer     *)
(* starts its window again.                                                   *)
CurrentOnlyIfSameDay(key) ==
    IF window[key].start # today THEN [NoWindow EXCEPT !.start = today] ELSE window[key]
Current(key) ==
    IF window[key].start = 0 \/ today - window[key].start > structuringWindow
    THEN [NoWindow EXCEPT !.start = today] ELSE window[key]

Structured(w, amount) == amount < SAR_THRESHOLD /\ w.count >= 2 /\ w.total >= SAR_THRESHOLD

(* onTransfer, of a seller. *)
OnSale(from, amount) ==
    LET key == identityGroupOf[from]
        c == Current(key)
        w == [start |-> c.start, total |-> c.total + amount, count |-> c.count + 1]
    IN
    /\ transfers < MaxTransfers /\ transfers' = transfers + 1
    /\ IF Structured(w, amount)
       THEN /\ flagSeq' = flagSeq + 1
            /\ window' = [window EXCEPT ![key] = NoWindow]
            /\ sold' = [sold EXCEPT ![key] = NoPieces]
       ELSE /\ window' = [window EXCEPT ![key] = w]
            /\ sold' = IF amount < SAR_THRESHOLD
                       THEN [sold EXCEPT ![key] = OnePieceMore(@, amount)]
                       ELSE sold
            /\ UNCHANGED flagSeq
    /\ UNCHANGED <<today, structuringWindow, identityGroupOf>>

SetIdentityGroup(w, g) ==
    /\ identityGroupOf' = [identityGroupOf EXCEPT ![w] = g]
    /\ UNCHANGED <<today, structuringWindow, window, flagSeq, sold, transfers>>

SetStructuringWindow(d) ==
    /\ structuringWindow' = d /\ d # structuringWindow
    /\ sold' = [k \in GroupKeys |-> NoPieces]
    /\ UNCHANGED <<today, identityGroupOf, window, flagSeq, transfers>>

NextTradingDay ==
    /\ today < LastTradingDay
    /\ today' = today + 1
    /\ UNCHANGED <<structuringWindow, identityGroupOf, window, flagSeq, sold, transfers>>

FraudInit ==
    /\ today = 1
    /\ structuringWindow \in StructuringWindows
    /\ identityGroupOf = [s \in Sellers |-> s]
    /\ window = [k \in GroupKeys |-> NoWindow]
    /\ flagSeq = 0 /\ transfers = 0
    /\ sold = [k \in GroupKeys |-> NoPieces]

FraudNext ==
    \/ \E s \in Sellers, a \in 1..SAR_THRESHOLD : OnSale(s, a)
    \/ \E s \in Sellers : \E g \in IdentityGroups \cup {s} : SetIdentityGroup(s, g)
    \/ \E d \in StructuringWindows : SetStructuringWindow(d)
    \/ NextTradingDay

FraudSpec == FraudInit /\ [][FraudNext]_fraudVars

-----------------------------------------------------------------------------
(* The small pieces of a group in the days from d on, as long as the window.  *)
SpanEnd(d) == IF d + structuringWindow > LastTradingDay THEN LastTradingDay ELSE d + structuringWindow
SmallTotal(key, d) == sold[key][SpanEnd(d)] - sold[key][d - 1]

(* The windows do not overlap, so a span as long as one touches at most two:  *)
(* a group that sells twice the threshold in small pieces within such a span  *)
(* is flagged, wherever the windows begin, and whoever of the group sold.     *)
DoubleIsFlagged == \A key \in GroupKeys, d \in 1..today : SmallTotal(key, d) < 2 * SAR_THRESHOLD
=============================================================================
