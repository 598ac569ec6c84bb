--------------------------- MODULE MakerAuthority ---------------------------
(***************************************************************************)
(* MakerAuthorizer: the EOA delegates that may sign quotes for a maker.    *)
(* A pair is a (maker, delegate) that _requireValidPair accepts.           *)
(***************************************************************************)
EXTENDS Governed

CONSTANTS
    Pairs,
    AuthorizationDelay,      \* AUTHORIZATION_DELAY
    AuthorityMaxTime     \* bound on the block timestamp

ASSUME MakerAuthorityAssumption == AuthorizationDelay \in Nat \ {0} /\ AuthorityMaxTime \in Nat

VARIABLES
    isDelegate,
    pendingReadyAt,    \* pendingDelegateReadyAt
    revokedAt          \* block timestamp of the latest DelegateRevoked event; 0: none

authVars == <<isDelegate, pendingReadyAt, revokedAt>>
authorityVars == <<owner, isOperator, isDelegate, pendingReadyAt, revokedAt, time>>

(* Mutation: a delegate that is authorised may be scheduled again. *)
DelegateSchedulableAgain(p) == pendingReadyAt[p] = 0
DelegateSchedulable(p) == ~isDelegate[p] /\ pendingReadyAt[p] = 0

ScheduleDelegate(sender, p) ==
    /\ OnlyOwner(sender)
    /\ DelegateSchedulable(p)
    /\ pendingReadyAt' = [pendingReadyAt EXCEPT ![p] = time + AuthorizationDelay]
    /\ UNCHANGED <<roleVars, isDelegate, revokedAt, time>>

CancelDelegateAuthorization(sender, p) ==
    /\ OnlyOwner(sender)
    /\ pendingReadyAt[p] # 0
    /\ pendingReadyAt' = [pendingReadyAt EXCEPT ![p] = 0]
    /\ UNCHANGED <<roleVars, isDelegate, revokedAt, time>>

ExecuteDelegateAuthorization(sender, p) ==
    /\ OnlyOwner(sender)
    /\ pendingReadyAt[p] # 0 /\ time >= pendingReadyAt[p]
    /\ pendingReadyAt' = [pendingReadyAt EXCEPT ![p] = 0]
    /\ isDelegate' = [isDelegate EXCEPT ![p] = TRUE]
    /\ UNCHANGED <<roleVars, revokedAt, time>>

DropAuthorization(p) == [pendingReadyAt EXCEPT ![p] = 0]

RevokeDelegate(sender, p) ==
    /\ OnlyOperator(sender)
    /\ isDelegate[p] \/ pendingReadyAt[p] # 0
    /\ isDelegate' = [isDelegate EXCEPT ![p] = FALSE]
    /\ pendingReadyAt' = DropAuthorization(p)
    /\ revokedAt' = [revokedAt EXCEPT ![p] = time]
    /\ UNCHANGED <<roleVars, time>>

AuthorityTick ==
    /\ time < AuthorityMaxTime
    /\ time' = time + 1
    /\ UNCHANGED <<roleVars, authVars>>

AuthorityInit ==
    /\ RoleInit
    /\ isDelegate = [p \in Pairs |-> FALSE]
    /\ pendingReadyAt = [p \in Pairs |-> 0]
    /\ revokedAt = [p \in Pairs |-> 0]
    /\ time = 1

AuthStep(sender) ==
    \E p \in Pairs :
        \/ ScheduleDelegate(sender, p)
        \/ CancelDelegateAuthorization(sender, p)
        \/ ExecuteDelegateAuthorization(sender, p)
        \/ RevokeDelegate(sender, p)

AuthorityNext ==
    \/ \E sender \in Accounts : AuthStep(sender)
    \/ \E sender \in Accounts : RoleStep(sender) /\ UNCHANGED <<authVars, time>>
    \/ AuthorityTick

AuthoritySpec == AuthorityInit /\ [][AuthorityNext]_authorityVars

-----------------------------------------------------------------------------
AuthorityTypeOK ==
    /\ RoleTypes
    /\ isDelegate \in [Pairs -> BOOLEAN]
    /\ pendingReadyAt \in [Pairs -> Nat]
    /\ revokedAt \in [Pairs -> Nat]
    /\ time \in Nat

(* A delegate that was revoked, or whose authorisation was revoked on its  *)
(* way, signs for the maker again only after a full new Delay.             *)
RevocationRestartsDelay ==
    [][\A p \in Pairs : ~isDelegate[p] /\ isDelegate'[p] /\ revokedAt[p] # 0 =>
          time >= revokedAt[p] + AuthorizationDelay]_authorityVars

DelegateGate == INSTANCE DelayedGate WITH
    Delay  <- AuthorizationDelay,
    Gates  <- Pairs,
    shut   <- [p \in Pairs |-> ~isDelegate[p]],
    notice <- pendingReadyAt

(* MakerAuthorizer is a delayed gate per pair, open while the delegate signs. *)
DelegatesAreGates == DelegateGate!Spec
=============================================================================
