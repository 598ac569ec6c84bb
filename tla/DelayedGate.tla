---------------------------- MODULE DelayedGate ----------------------------
(***************************************************************************)
(* What the emergency controls promise, whoever holds which role: a gate   *)
(* shuts at once, and reopens only when notice of it was given after it    *)
(* was last shut and has run for Delay.  OperatorRegistry (PauseControl)   *)
(* and MakerAuthorizer (MakerAuthority) implement it; Settlement uses it.  *)
(***************************************************************************)
EXTENDS Integers

CONSTANTS
    Gates,
    Delay   \* a positive number of time units, the same for every gate

VARIABLES
    shut,    \* whether each gate is shut
    notice,  \* when a reopening that was announced may happen; 0: none was
    time     \* block timestamp

gateVars == <<shut, notice>>
vars == <<shut, notice, time>>

Init ==
    /\ shut \in [Gates -> BOOLEAN]
    /\ notice = [g \in Gates |-> 0]
    /\ time \in Nat

Shut(g) ==
    /\ shut' = [shut EXCEPT ![g] = TRUE]
    /\ notice' = [notice EXCEPT ![g] = 0]
    /\ UNCHANGED time

Announce(g) ==
    /\ shut[g] /\ notice[g] = 0
    /\ notice' = [notice EXCEPT ![g] = time + Delay]
    /\ UNCHANGED <<shut, time>>

Withdraw(g) ==
    /\ notice[g] # 0
    /\ notice' = [notice EXCEPT ![g] = 0]
    /\ UNCHANGED <<shut, time>>

Reopen(g) ==
    /\ notice[g] # 0 /\ time >= notice[g]
    /\ shut' = [shut EXCEPT ![g] = FALSE]
    /\ notice' = [notice EXCEPT ![g] = 0]
    /\ UNCHANGED time

Wait ==
    /\ time' \in Nat /\ time' > time
    /\ UNCHANGED gateVars

GateStep(g) == Shut(g) \/ Announce(g) \/ Withdraw(g) \/ Reopen(g)

Next == Wait \/ \E g \in Gates : GateStep(g)

Spec == Init /\ [][Next]_vars
=============================================================================
