----------------------------- MODULE StoreLock -----------------------------
(***************************************************************************)
(* The lock directory of LocalFileQuoteCoordinatorStore (services/rfq):    *)
(* withLock creates it with mkdir, reads the state file, runs the method,  *)
(* replaces the file with a rename, and removes the directory.  A waiter   *)
(* that finds the directory old enough removes it and tries again.         *)
(*                                                                         *)
(* Ages are kept relative and saturate one unit past the limit they are    *)
(* compared with, so the clock needs no bound.  The method run under the   *)
(* lock is reserveOrReturnExisting, reduced to what the lock protects: it  *)
(* appends a record, whose position is its nonce.                          *)
(***************************************************************************)
EXTENDS Integers, Sequences, FiniteSets

CONSTANTS
    Procs,       \* concurrent withLock calls, in one or several processes
    NoProc,
    StaleAfter,  \* staleLockMs
    Timeout,     \* lockTimeoutMs; the default staleLockMs is at least twice it
    MaxWaiters,  \* most calls that wait while the directory is a dead process's
    MaxOps,      \* bound on the calls made
    MaxDeaths    \* bound on the processes that die

ASSUME StoreLockAssumption ==
    /\ NoProc \notin Procs /\ IsFiniteSet(Procs)
    /\ {StaleAfter, Timeout} \subseteq Nat \ {0}
    /\ {MaxWaiters, MaxOps, MaxDeaths} \subseteq Nat

VARIABLES
    lock,     \* who created the lock directory that exists, or NoProc
    lockAge,  \* Date.now() - mtimeMs of that directory
    pc,       \* where each call is in withLock
    op,       \* the idempotency key each call works for
    waited,   \* Date.now() - started
    readState, \* the state each call has read
    store,    \* the state file
    acked,    \* <<key, nonce>> of the calls that returned
    called,   \* calls made so far
    deaths    \* processes that died so far

lockVars == <<lock, lockAge, pc, op, waited, readState, store, acked, called, deaths>>

Inside == {"read", "write", "unlock"}
Waiting(p) == pc[p] \notin {"idle", "dead"}

(* What the deployment has to keep: few wait for a directory that is orphaned. *)
Orphaned == lock # NoProc /\ pc[lock] = "dead"
Uncrowded ==
    Orphaned => Cardinality({p \in Procs : pc[p] \in {"mkdir", "stat", "steal"}}) <= MaxWaiters

(* The call is over and its local variables are gone. *)
Leave(p, where) ==
    /\ pc' = [pc EXCEPT ![p] = where]
    /\ op' = [op EXCEPT ![p] = 0]
    /\ waited' = [waited EXCEPT ![p] = 0]
    /\ readState' = [readState EXCEPT ![p] = <<>>]

WithLock(p) ==
    /\ pc[p] = "idle"
    /\ called < MaxOps
    /\ called' = called + 1
    /\ op' = [op EXCEPT ![p] = called']
    /\ waited' = [waited EXCEPT ![p] = 0]
    /\ pc' = [pc EXCEPT ![p] = "mkdir"]
    /\ UNCHANGED <<lock, lockAge, readState, store, acked, deaths>>
    /\ Uncrowded'

Mkdir(p) ==
    /\ pc[p] = "mkdir"
    /\ IF lock = NoProc
       THEN lock' = p /\ lockAge' = 0 /\ pc' = [pc EXCEPT ![p] = "read"]
       ELSE pc' = [pc EXCEPT ![p] = "stat"] /\ UNCHANGED <<lock, lockAge>>
    /\ UNCHANGED <<op, waited, readState, store, acked, called, deaths>>

(* Mutation: the lock is taken for stale as soon as the caller has waited. *)
StaleWhenWaited(p) == lock # NoProc /\ waited[p] >= 1
IsStaleLock(p) == lock # NoProc /\ lockAge > StaleAfter

(* A lock that disappeared meanwhile is not stale; the timeout is checked on *)
(* every round that finds the lock fresh.                                    *)
Stat(p) ==
    /\ pc[p] = "stat"
    /\ IF ~IsStaleLock(p) /\ waited[p] > Timeout
       THEN Leave(p, "idle")
       ELSE /\ pc' = [pc EXCEPT ![p] = IF IsStaleLock(p) THEN "steal" ELSE "mkdir"]
            /\ UNCHANGED <<op, waited, readState>>
    /\ UNCHANGED <<lock, lockAge, store, acked, called, deaths>>

(* Mutation: the removal fails silently. *)
StealNothing(p) ==
    /\ pc[p] = "steal"
    /\ pc' = [pc EXCEPT ![p] = "mkdir"]
    /\ UNCHANGED <<lock, lockAge, op, waited, readState, store, acked, called, deaths>>

Steal(p) ==
    /\ pc[p] = "steal"
    /\ lock' = NoProc
    /\ pc' = [pc EXCEPT ![p] = "mkdir"]
    /\ UNCHANGED <<lockAge, op, waited, readState, store, acked, called, deaths>>

ReadState(p) ==
    /\ pc[p] = "read"
    /\ readState' = [readState EXCEPT ![p] = store]
    /\ pc' = [pc EXCEPT ![p] = "write"]
    /\ UNCHANGED <<lock, lockAge, op, waited, store, acked, called, deaths>>

(* The method, and writeState with its rename. *)
WriteState(p) ==
    /\ pc[p] = "write"
    /\ store' = Append(readState[p], op[p])
    /\ pc' = [pc EXCEPT ![p] = "unlock"]
    /\ UNCHANGED <<lock, lockAge, op, waited, readState, acked, called, deaths>>

(* The finally block removes whichever directory exists. *)
Unlock(p) ==
    /\ pc[p] = "unlock"
    /\ lock' = NoProc
    /\ acked' = acked \cup {<<op[p], Len(readState[p]) + 1>>}
    /\ Leave(p, "idle")
    /\ UNCHANGED <<lockAge, store, called, deaths>>

(* A process dies between two steps; the directory stays. *)
Die(p) ==
    /\ Waiting(p)
    /\ deaths < MaxDeaths
    /\ deaths' = deaths + 1
    /\ Leave(p, "dead")
    /\ UNCHANGED <<lock, lockAge, store, acked, called>>
    /\ Uncrowded'

(* Time passes, but never so much that a holder that is alive looks stale:  *)
(* what goes wrong here does so although every holder is fast.              *)
LockTick ==
    /\ \E p \in Procs : Waiting(p)
    /\ \A p \in Procs : lock = p /\ pc[p] \in Inside => lockAge < StaleAfter
    /\ lockAge' = IF lock # NoProc /\ lockAge <= StaleAfter THEN lockAge + 1 ELSE lockAge
    /\ waited' = [p \in Procs |->
                    IF Waiting(p) /\ waited[p] <= Timeout THEN waited[p] + 1 ELSE waited[p]]
    /\ UNCHANGED <<lock, pc, op, readState, store, acked, called, deaths>>

LockInit ==
    /\ lock = NoProc
    /\ lockAge = 0
    /\ pc = [p \in Procs |-> "idle"]
    /\ op = [p \in Procs |-> 0]
    /\ waited = [p \in Procs |-> 0]
    /\ readState = [p \in Procs |-> <<>>]
    /\ store = <<>>
    /\ acked = {}
    /\ called = 0
    /\ deaths = 0

LockStep(p) == Mkdir(p) \/ Stat(p) \/ Steal(p) \/ ReadState(p) \/ WriteState(p) \/ Unlock(p)

LockNext == LockTick \/ \E p \in Procs : WithLock(p) \/ LockStep(p) \/ Die(p)

LockSpec == LockInit /\ [][LockNext]_lockVars

(* The event loop runs every pending step, and time passes. *)
LockFairness == WF_lockVars(LockTick) /\ \A p \in Procs : WF_lockVars(LockStep(p))

-----------------------------------------------------------------------------
(* A call that returned a nonce finds its record at that nonce for ever: no  *)
(* later call overwrites it and no other key gets the same nonce.            *)
AckedIsStored ==
    \A a \in acked : a[2] \in 1..Len(store) /\ store[a[2]] = a[1]

(* Every call returns: it gets the lock or its timeout, also when the holder *)
(* of the lock is dead.                                                      *)
CallsReturn == \A p \in Procs : pc[p] # "idle" ~> pc[p] \in {"idle", "dead"}
=============================================================================
