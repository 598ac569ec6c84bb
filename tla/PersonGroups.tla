------------------------------ MODULE PersonGroups ------------------------------
(***************************************************************************)
(* PersonGroupLedger of services/compliance-data/src/state.ts: what a       *)
(* person group sold over three calendar months. The calendar is the real  *)
(* one, because the window is computed on it; a timestamp is a day and a   *)
(* moment of that day, which the window keeps.                             *)
(***************************************************************************)
EXTENDS Naturals, Sequences, Functions, FiniteSetsExt

CONSTANTS
    Executions,  \* executionId values
    Groups,      \* person groups
    SaleDays,    \* days on which sales are committed
    MomentsPerDay, \* seconds of a day
    LastDay      \* bound of the day counter; day 0 is 1 January 2027

ASSUME GroupsAssumption ==
    /\ LastDay \in Nat \ (0..89) /\ SaleDays \subseteq 0..LastDay
    /\ MomentsPerDay \in Nat \ {0}

VARIABLES
    asOf,        \* asOf of the queries
    commits,     \* executionId -> the input committed under it
    volumes      \* volumes, in the order of the commits

groupVars == <<asOf, commits, volumes>>

-----------------------------------------------------------------------------
(* The calendar of a Date: months are counted from January 2027 = 0.        *)
MonthLength(m) ==
    LET month == m % 12  year == 2027 + m \div 12 IN
    IF month \in {3, 5, 8, 10} THEN 30
    ELSE IF month # 1 THEN 31
    ELSE IF year % 4 = 0 THEN 29 ELSE 28

FirstDay[m \in 0..(LastDay \div 28 + 1)] == IF m = 0 THEN 0 ELSE FirstDay[m - 1] + MonthLength(m - 1)
MonthOf(d) == CHOOSE m \in 0..(d \div 28) : FirstDay[m] <= d /\ d < FirstDay[m + 1]
DayOfMonth(d) == d - FirstDay[MonthOf(d)] + 1

(* Dates before January 2027 do not occur: the first three months have no   *)
(* window start in the model.                                               *)
FirstAsOf == FirstDay[3]

(* The day three months before, or the last day of a shorter month.         *)
(* Mutation: a day the month lacks runs over into the next month. *)
RunsOver(d) == FirstDay[MonthOf(d) - 3] + DayOfMonth(d) - 1
clampedDay(d) ==
    LET m == MonthOf(d) - 3 IN FirstDay[m] + Min({DayOfMonth(d), MonthLength(m)}) - 1

windowDay == [d \in FirstAsOf..LastDay |-> clampedDay(d)]

(* A timestamp, and the order of two. *)
Moments == 0..(MomentsPerDay - 1)
AtOrBefore(s, t) == s.day < t.day \/ (s.day = t.day /\ s.moment <= t.moment)

threeCalendarMonthsBefore(t) == [day |-> windowDay[t.day], moment |-> t.moment]

rollingThreeCalendarMonthVolume(g, t) ==
    LET inWindow(p) == /\ p.group = g
                       /\ AtOrBefore(threeCalendarMonthsBefore(t), p.timestamp)
                       /\ AtOrBefore(p.timestamp, t)
    IN SumFunction([i \in {j \in DOMAIN volumes : inWindow(volumes[j])} |-> volumes[i].amount])

Input == [group: Groups, timestamp: [day: SaleDays, moment: Moments], amount: 1..2]

(* commit: a replay of the same input changes nothing, a replay with        *)
(* another input throws.                                                    *)
isNew(x) == x \notin DOMAIN commits

Commit(x, input) ==
    /\ isNew(x)
    /\ commits' = [y \in DOMAIN commits \cup {x} |-> IF y = x THEN input ELSE commits[y]]
    /\ volumes' = Append(volumes, input)
    /\ UNCHANGED <<asOf>>

NextMoment ==
    /\ asOf.day < LastDay
    /\ asOf' = IF asOf.moment + 1 < MomentsPerDay
               THEN [day |-> asOf.day, moment |-> asOf.moment + 1]
               ELSE [day |-> asOf.day + 1, moment |-> 0]
    /\ UNCHANGED <<commits, volumes>>

GroupsInit ==
    /\ asOf \in [day: FirstAsOf..LastDay, moment: Moments]
    /\ commits = <<>> /\ volumes = <<>>

GroupsNext ==
    \/ \E x \in Executions, input \in Input : Commit(x, input)
    \/ NextMoment

GroupsSpec == GroupsInit /\ [][GroupsNext]_groupVars

-----------------------------------------------------------------------------
(* A sale counts once for its group, however often its commit is repeated,    *)
(* until the first day whose window starts on a later day than its own, and   *)
(* from then on never again. On a day whose window starts on its own day,     *)
(* which several are at the end of a month that is longer than that day's, it *)
(* counts until its own time of the day.                                      *)
VolumeCountsExecutions ==
    \A g \in Groups :
        LET counts(x) ==
              LET sold == commits[x].timestamp IN
              /\ commits[x].group = g /\ AtOrBefore(sold, asOf)
              /\ \A d \in sold.day..asOf.day : d >= FirstAsOf => windowDay[d] <= sold.day
              /\ windowDay[asOf.day] = sold.day => asOf.moment <= sold.moment
        IN rollingThreeCalendarMonthVolume(g, asOf)
             = SumFunction([x \in {y \in DOMAIN commits : counts(y)} |-> commits[x].amount])
=============================================================================
