---------------------------- MODULE PauseControl ----------------------------
(***************************************************************************)
(* OperatorRegistry: the central pause gates.  The contract has the same   *)
(* three methods and one setter for the global, the asset and the venue    *)
(* scopes; a scope here is one global, asset or venue flag.  The history   *)
(* is the sequence of entries pauseHistoryHash commits to.                 *)
(***************************************************************************)
EXTENDS Governed

CONSTANTS
    Scopes,
    UnpauseDelay,    \* MIN_UNPAUSE_DELAY
    PauseMaxTime,    \* bound on the block timestamp
    PauseMaxHistory  \* bound on the recorded pause actions

ASSUME PauseControlAssumption ==
    UnpauseDelay \in Nat \ {0} /\ PauseMaxTime \in Nat /\ PauseMaxHistory \in Nat

VARIABLES
    paused,         \* _globalPaused, _assetSuspended, _venueSuspended
    pendingUnpause,  \* effectiveTime of the pending unpause; 0: none
    pauseHistory    \* what pauseHistoryHash commits to

pauseVars == <<paused, pendingUnpause, pauseHistory>>
pauseControlVars == <<owner, isOperator, paused, pendingUnpause, pauseHistory, time>>

PauseEntry == [scope: Scopes, old: BOOLEAN, new: BOOLEAN, by: Accounts, at: Nat]

Record(s, old, new, sender, at) ==
    /\ Len(pauseHistory) < PauseMaxHistory
    /\ pauseHistory' = Append(pauseHistory, [scope |-> s, old |-> old, new |-> new,
                                   by |-> sender, at |-> at])

DropUnpause(s) == [pendingUnpause EXCEPT ![s] = 0]

(* setGlobalPaused, setAssetSuspended and setVenueSuspended with TRUE.     *)
Pause(sender, s) ==
    /\ OnlyOperator(sender)
    /\ paused' = [paused EXCEPT ![s] = TRUE]
    /\ pendingUnpause' = DropUnpause(s)
    /\ Record(s, paused[s], TRUE, sender, time)
    /\ UNCHANGED <<roleVars, time>>

UnpauseSchedulable(s) == paused[s] /\ pendingUnpause[s] = 0

ScheduleUnpause(sender, s) ==
    /\ OnlyOwner(sender)
    /\ UnpauseSchedulable(s)
    /\ pendingUnpause' = [pendingUnpause EXCEPT ![s] = time + UnpauseDelay]
    /\ UNCHANGED <<roleVars, paused, pauseHistory, time>>

CancelUnpause(sender, s) ==
    /\ OnlyOwner(sender)
    /\ pendingUnpause[s] # 0
    /\ pendingUnpause' = [pendingUnpause EXCEPT ![s] = 0]
    /\ UNCHANGED <<roleVars, paused, pauseHistory, time>>

(* Mutation: the delay is not awaited. *)
UnpauseReadyAtOnce(at) == at # 0
UnpauseReady(at) == at # 0 /\ time >= at

(* executeXUnpause, and the setters with FALSE, which only the owner may use. *)
ExecuteUnpause(sender, s) ==
    /\ OnlyOwner(sender)
    /\ UnpauseReady(pendingUnpause[s])
    /\ paused' = [paused EXCEPT ![s] = FALSE]
    /\ pendingUnpause' = [pendingUnpause EXCEPT ![s] = 0]
    /\ Record(s, TRUE, FALSE, sender, pendingUnpause[s])
    /\ UNCHANGED <<roleVars, time>>

PauseTick ==
    /\ time < PauseMaxTime
    /\ time' = time + 1
    /\ UNCHANGED <<roleVars, pauseVars>>

PauseInit ==
    /\ RoleInit
    /\ paused = [s \in Scopes |-> FALSE]
    /\ pendingUnpause = [s \in Scopes |-> 0]
    /\ pauseHistory = <<>>
    /\ time = 1

PauseStep(sender) ==
    \E s \in Scopes :
        \/ Pause(sender, s)
        \/ ScheduleUnpause(sender, s)
        \/ CancelUnpause(sender, s)
        \/ ExecuteUnpause(sender, s)

PauseNext ==
    \/ \E sender \in Accounts : PauseStep(sender)
    \/ \E sender \in Accounts : RoleStep(sender) /\ UNCHANGED <<pauseVars, time>>
    \/ PauseTick

PauseSpec == PauseInit /\ [][PauseNext]_pauseControlVars

-----------------------------------------------------------------------------
PauseTypeOK ==
    /\ RoleTypes
    /\ paused \in [Scopes -> BOOLEAN]
    /\ pendingUnpause \in [Scopes -> Nat]
    /\ pauseHistory \in Seq(PauseEntry)
    /\ time \in Nat \ {0}

(* No scope is unpaused before Delay has passed since every pause recorded *)
(* for it, also when it is paused again after its unpause was scheduled.   *)
UnpauseAfterNotice ==
    [][\A s \in Scopes : paused[s] /\ ~paused'[s] =>
          \A i \in DOMAIN pauseHistory :
              pauseHistory[i].scope = s /\ pauseHistory[i].new =>
                  time >= pauseHistory[i].at + UnpauseDelay]_pauseControlVars

SameScope(i, j) == pauseHistory[i].scope = pauseHistory[j].scope
Latest(i) == \A j \in DOMAIN pauseHistory : j > i => ~SameScope(i, j)
First(i) == \A j \in DOMAIN pauseHistory : j < i => ~SameScope(i, j)
Successor(i, j) ==
    /\ i < j /\ SameScope(i, j)
    /\ \A k \in DOMAIN pauseHistory : i < k /\ k < j => ~SameScope(i, k)

(* An auditor who replays the history of a scope gets the flag the contract *)
(* holds: each entry starts from the value the entry before it left, in the  *)
(* order of their effective times, and the last one left the current value.  *)
PauseHistoryReplays ==
    /\ \A s \in Scopes : (\A i \in DOMAIN pauseHistory : pauseHistory[i].scope # s) => ~paused[s]
    /\ \A i \in DOMAIN pauseHistory : Latest(i) => paused[pauseHistory[i].scope] = pauseHistory[i].new
    /\ \A i \in DOMAIN pauseHistory : First(i) => ~pauseHistory[i].old
    /\ \A i, j \in DOMAIN pauseHistory : Successor(i, j) =>
          pauseHistory[j].old = pauseHistory[i].new /\ pauseHistory[j].at >= pauseHistory[i].at

PauseGate == INSTANCE DelayedGate WITH Delay <- UnpauseDelay, Gates <- Scopes, shut <- paused, notice <- pendingUnpause

(* OperatorRegistry is a delayed gate per scope, whoever owns and operates it. *)
PausesAreGates == PauseGate!Spec
=============================================================================
