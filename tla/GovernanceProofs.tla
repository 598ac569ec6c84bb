--------------------------- MODULE GovernanceProofs ---------------------------
(***************************************************************************)
(* The registries keep their promises for any accounts, scopes, pairs,     *)
(* tokens and delays: one inductive invariant for each, and from the two   *)
(* that keep a history, that the histories of the deployment replay.       *)
(***************************************************************************)
EXTENDS Governance, TLAPS

(* The pause gates of OperatorRegistry.  The inductive invariant ties the    *)
(* notice that is pending to the history: it exists only while its scope is  *)
(* paused, and lies the delay after every entry of it.                       *)

NoticeWhilePaused == \A s \in Scopes : pendingUnpause[s] # 0 => paused[s] = TRUE

NoticeCoversHistory ==
    \A s \in Scopes : pendingUnpause[s] # 0 =>
        \A i \in DOMAIN pauseHistory : pauseHistory[i].scope = s => pendingUnpause[s] >= pauseHistory[i].at + UnpauseDelay

HistoryIsPast == \A i \in DOMAIN pauseHistory : pauseHistory[i].at <= time

PauseInv ==
    /\ PauseTypeOK
    /\ NoticeWhilePaused
    /\ NoticeCoversHistory
    /\ HistoryIsPast
    /\ PauseHistoryReplays

-----------------------------------------------------------------------------
(* An entry that starts from the current flag of its scope, and is not     *)
(* earlier than the entries before it, keeps the history replayable.       *)
LEMMA AppendReplays ==
    ASSUME NEW s \in Scopes, NEW e \in PauseEntry,
           PauseTypeOK, PauseHistoryReplays,
           e.scope = s, e.old = paused[s],
           pauseHistory' = Append(pauseHistory, e),
           paused' = [paused EXCEPT ![s] = e.new],
           \A i \in DOMAIN pauseHistory : pauseHistory[i].scope = s => pauseHistory[i].at <= e.at
    PROVE  PauseHistoryReplays'
<1> DEFINE n == Len(pauseHistory)
<1>1. /\ n \in Nat /\ DOMAIN pauseHistory = 1..n
      /\ DOMAIN pauseHistory' = 1..(n+1)
      /\ \A i \in 1..n : pauseHistory'[i] = pauseHistory[i]
      /\ pauseHistory'[n+1] = e
      /\ \A i \in 1..n : pauseHistory[i] \in PauseEntry
  BY DEF PauseTypeOK
<1>2. ASSUME NEW r \in Scopes, \A i \in DOMAIN pauseHistory' : pauseHistory'[i].scope # r
      PROVE  ~paused'[r]
  <2>1. r # s /\ \A i \in 1..n : pauseHistory[i].scope # r
    BY <1>1, <1>2
  <2> QED BY <1>1, <2>1 DEF PauseHistoryReplays, PauseTypeOK
<1>3. ASSUME NEW i \in DOMAIN pauseHistory', Latest(i)'
      PROVE  paused'[pauseHistory'[i].scope] = pauseHistory'[i].new
  <2>1. CASE i = n + 1
    BY <1>1, <2>1 DEF PauseTypeOK
  <2>2. CASE i # n + 1
    <3>1. i \in 1..n /\ pauseHistory'[i].scope # s
      BY <1>1, <1>3, <2>2 DEF Latest, SameScope
    <3>2. Latest(i)
      BY <1>1, <1>3, <3>1 DEF Latest, SameScope
    <3> QED BY <1>1, <3>1, <3>2 DEF PauseHistoryReplays, PauseTypeOK, PauseEntry
  <2> QED BY <2>1, <2>2
<1>4. ASSUME NEW i \in DOMAIN pauseHistory', First(i)'
      PROVE  ~pauseHistory'[i].old
  <2>1. CASE i = n + 1
    <3>1. \A j \in 1..n : pauseHistory[j].scope # s
      BY <1>1, <1>4, <2>1 DEF First, SameScope
    <3> QED BY <1>1, <2>1, <3>1 DEF PauseHistoryReplays
  <2>2. CASE i # n + 1
    <3>1. i \in 1..n /\ First(i)
      BY <1>1, <1>4, <2>2 DEF First, SameScope
    <3> QED BY <1>1, <3>1 DEF PauseHistoryReplays
  <2> QED BY <2>1, <2>2
<1>5. ASSUME NEW i \in DOMAIN pauseHistory', NEW j \in DOMAIN pauseHistory', Successor(i, j)'
      PROVE  pauseHistory'[j].old = pauseHistory'[i].new /\ pauseHistory'[j].at >= pauseHistory'[i].at
  <2>1. i \in 1..n
    BY <1>1, <1>5 DEF Successor
  <2>2. CASE j = n + 1
    <3>1. pauseHistory[i].scope = s /\ Latest(i)
      BY <1>1, <1>5, <2>1, <2>2 DEF Successor, SameScope, Latest
    <3> QED BY <1>1, <2>1, <2>2, <3>1 DEF PauseHistoryReplays, PauseEntry
  <2>3. CASE j # n + 1
    <3>1. j \in 1..n /\ Successor(i, j)
      BY <1>1, <1>5, <2>1, <2>3 DEF Successor, SameScope
    <3> QED BY <1>1, <2>1, <3>1 DEF PauseHistoryReplays
  <2> QED BY <2>2, <2>3
<1> QED BY <1>2, <1>3, <1>4, <1>5 DEF PauseHistoryReplays

(* The times of the entries are numbers. *)
LEMMA PauseEntriesHaveTimes ==
    ASSUME PauseTypeOK
    PROVE  \A i \in DOMAIN pauseHistory : pauseHistory[i] \in PauseEntry /\ pauseHistory[i].at \in Nat
<1>1. \A i \in DOMAIN pauseHistory : pauseHistory[i] \in PauseEntry
  BY DEF PauseTypeOK
<1> QED BY <1>1 DEF PauseEntry

(* What does not touch flags or history keeps the history replayable.      *)
LEMMA PauseSameReplays ==
    ASSUME PauseHistoryReplays, UNCHANGED <<paused, pauseHistory>>
    PROVE  PauseHistoryReplays'
BY DEF PauseHistoryReplays, Latest, First, Successor, SameScope

-----------------------------------------------------------------------------
(* Nothing is paused, and nothing recorded, at first. *)
LEMMA PauseStarts == PauseInit => PauseInv
BY PauseControlAssumption
   DEF PauseInit, PauseInv, PauseTypeOK, RoleInit, RoleTypes, NoticeWhilePaused, NoticeCoversHistory,
       HistoryIsPast, PauseHistoryReplays

(* Each action keeps the invariant. *)
LEMMA PauseKeeps ==
    ASSUME PauseInv, NEW sender \in Accounts, NEW s \in Scopes, Pause(sender, s)
    PROVE  PauseInv'
<1> DEFINE e == [scope |-> s, old |-> paused[s], new |-> TRUE, by |-> sender, at |-> time]
<1>1. /\ e \in PauseEntry /\ pauseHistory' = Append(pauseHistory, e)
      /\ paused' = [paused EXCEPT ![s] = TRUE]
      /\ pendingUnpause' = [pendingUnpause EXCEPT ![s] = 0]
      /\ UNCHANGED <<owner, isOperator, time>>
  BY DEF Pause, Record, DropUnpause, PauseEntry, PauseInv, PauseTypeOK, roleVars
<1>2. PauseTypeOK'
  BY <1>1 DEF PauseInv, PauseTypeOK, RoleTypes
<1>3. DOMAIN pauseHistory' = 1..(Len(pauseHistory) + 1) /\ Len(pauseHistory) \in Nat
      /\ DOMAIN pauseHistory = 1..Len(pauseHistory)
      /\ \A i \in 1..Len(pauseHistory) : pauseHistory'[i] = pauseHistory[i] /\ pauseHistory[i] \in PauseEntry
      /\ pauseHistory'[Len(pauseHistory) + 1] = e
  BY <1>1 DEF PauseInv, PauseTypeOK
<1>4. NoticeWhilePaused'
  BY <1>1 DEF PauseInv, PauseTypeOK, NoticeWhilePaused
<1>5. NoticeCoversHistory'
  BY <1>1, <1>3 DEF PauseInv, PauseTypeOK, NoticeCoversHistory
<1>6. HistoryIsPast'
  BY <1>1, <1>3 DEF PauseInv, PauseTypeOK, HistoryIsPast
<1>7. \A i \in DOMAIN pauseHistory : pauseHistory[i].scope = s => pauseHistory[i].at <= e.at
  BY DEF PauseInv, HistoryIsPast
<1>8. PauseHistoryReplays'
  BY <1>1, <1>7, AppendReplays DEF PauseInv
<1> QED BY <1>2, <1>4, <1>5, <1>6, <1>8 DEF PauseInv

LEMMA ScheduleKeeps ==
    ASSUME PauseInv, NEW sender \in Accounts, NEW s \in Scopes, ScheduleUnpause(sender, s)
    PROVE  PauseInv'
<1>1. /\ paused[s] = TRUE
      /\ pendingUnpause' = [pendingUnpause EXCEPT ![s] = time + UnpauseDelay]
      /\ UNCHANGED <<owner, isOperator, paused, pauseHistory, time>>
  BY DEF ScheduleUnpause, UnpauseSchedulable, roleVars, PauseInv, PauseTypeOK
<1>2. PauseTypeOK'
  BY <1>1, PauseControlAssumption DEF PauseInv, PauseTypeOK, RoleTypes
<1>3. NoticeWhilePaused'
  BY <1>1 DEF PauseInv, PauseTypeOK, NoticeWhilePaused
<1>4. NoticeCoversHistory' /\ HistoryIsPast'
  <2>1. \A i \in DOMAIN pauseHistory : pauseHistory[i].at \in Nat /\ time + UnpauseDelay >= pauseHistory[i].at + UnpauseDelay
    BY PauseControlAssumption, PauseEntriesHaveTimes DEF PauseInv, PauseTypeOK, HistoryIsPast
  <2> QED BY <1>1, <2>1 DEF PauseInv, PauseTypeOK, NoticeCoversHistory, HistoryIsPast
<1>5. PauseHistoryReplays'
  BY <1>1, PauseSameReplays DEF PauseInv
<1> QED BY <1>2, <1>3, <1>4, <1>5 DEF PauseInv

LEMMA CancelKeeps ==
    ASSUME PauseInv, NEW sender \in Accounts, NEW s \in Scopes, CancelUnpause(sender, s)
    PROVE  PauseInv'
<1>1. /\ pendingUnpause' = [pendingUnpause EXCEPT ![s] = 0]
      /\ UNCHANGED <<owner, isOperator, paused, pauseHistory, time>>
  BY DEF CancelUnpause, roleVars
<1>2. PauseTypeOK' /\ NoticeWhilePaused' /\ NoticeCoversHistory' /\ HistoryIsPast'
  BY <1>1 DEF PauseInv, PauseTypeOK, RoleTypes, NoticeWhilePaused, NoticeCoversHistory, HistoryIsPast
<1> QED BY <1>1, <1>2, PauseSameReplays DEF PauseInv

LEMMA ExecuteKeeps ==
    ASSUME PauseInv, NEW sender \in Accounts, NEW s \in Scopes, ExecuteUnpause(sender, s)
    PROVE  PauseInv'
<1> DEFINE e == [scope |-> s, old |-> TRUE, new |-> FALSE, by |-> sender, at |-> pendingUnpause[s]]
<1>1. /\ e \in PauseEntry /\ pauseHistory' = Append(pauseHistory, e)
      /\ pendingUnpause[s] # 0 /\ time >= pendingUnpause[s] /\ pendingUnpause[s] \in Nat
      /\ paused' = [paused EXCEPT ![s] = FALSE]
      /\ pendingUnpause' = [pendingUnpause EXCEPT ![s] = 0]
      /\ UNCHANGED <<owner, isOperator, time>>
  BY DEF ExecuteUnpause, UnpauseReady, Record, PauseEntry, PauseInv, PauseTypeOK, roleVars
<1>2. PauseTypeOK'
  BY <1>1 DEF PauseInv, PauseTypeOK, RoleTypes
<1>3. DOMAIN pauseHistory' = 1..(Len(pauseHistory) + 1) /\ Len(pauseHistory) \in Nat
      /\ DOMAIN pauseHistory = 1..Len(pauseHistory)
      /\ \A i \in 1..Len(pauseHistory) : pauseHistory'[i] = pauseHistory[i] /\ pauseHistory[i] \in PauseEntry
      /\ pauseHistory'[Len(pauseHistory) + 1] = e
  BY <1>1 DEF PauseInv, PauseTypeOK
<1>4. NoticeWhilePaused'
  BY <1>1 DEF PauseInv, PauseTypeOK, NoticeWhilePaused
<1>5. NoticeCoversHistory'
  BY <1>1, <1>3 DEF PauseInv, PauseTypeOK, NoticeCoversHistory
<1>6. HistoryIsPast'
  BY <1>1, <1>3 DEF PauseInv, PauseTypeOK, HistoryIsPast
<1>7. \A i \in DOMAIN pauseHistory : pauseHistory[i].scope = s => pauseHistory[i].at <= e.at
  BY <1>1, <1>3, PauseControlAssumption DEF PauseInv, PauseTypeOK, NoticeCoversHistory, PauseEntry
<1>8. paused[s] = TRUE
  BY <1>1 DEF PauseInv, NoticeWhilePaused
<1>9. PauseHistoryReplays'
  BY <1>1, <1>7, <1>8, AppendReplays DEF PauseInv
<1> QED BY <1>2, <1>4, <1>5, <1>6, <1>9 DEF PauseInv

LEMMA PauseRestKeeps ==
    ASSUME PauseInv,
           \/ PauseTick
           \/ UNCHANGED pauseControlVars
           \/ \E sender \in Accounts : RoleStep(sender) /\ UNCHANGED <<pauseVars, time>>
    PROVE  PauseInv'
<1>1. /\ UNCHANGED <<paused, pendingUnpause, pauseHistory>>
      /\ time' \in Nat \ {0} /\ time' >= time
      /\ RoleTypes'
  <2>1. CASE PauseTick
    BY <2>1 DEF PauseTick, pauseVars, roleVars, PauseInv, PauseTypeOK, RoleTypes
  <2>2. CASE UNCHANGED pauseControlVars
    BY <2>2 DEF pauseControlVars, PauseInv, PauseTypeOK, RoleTypes
  <2>3. CASE \E sender \in Accounts : RoleStep(sender) /\ UNCHANGED <<pauseVars, time>>
    BY <2>3 DEF RoleStep, SetOperator, TransferOwnership, pauseVars, PauseInv, PauseTypeOK, RoleTypes
  <2> QED BY <2>1, <2>2, <2>3
<1>2. PauseTypeOK' /\ NoticeWhilePaused' /\ NoticeCoversHistory'
  BY <1>1 DEF PauseInv, PauseTypeOK, NoticeWhilePaused, NoticeCoversHistory
<1>3. HistoryIsPast'
  BY <1>1, PauseEntriesHaveTimes DEF PauseInv, PauseTypeOK, HistoryIsPast
<1> QED BY <1>1, <1>2, <1>3, PauseSameReplays DEF PauseInv

(* The invariant is inductive. *)
LEMMA PauseSteps == PauseInv /\ [PauseNext]_pauseControlVars => PauseInv'
BY PauseKeeps, ScheduleKeeps, CancelKeeps, ExecuteKeeps, PauseRestKeeps DEF PauseNext, PauseStep

(* The inductive invariant holds in every behaviour. *)
THEOREM PauseInvHolds == PauseSpec => []PauseInv
BY PauseStarts, PauseSteps, PTL DEF PauseSpec

(* Type correctness of OperatorRegistry's state. *)
THEOREM PauseTypesHold == PauseSpec => []PauseTypeOK
BY PauseInvHolds, PTL DEF PauseInv

(* The pause history replays to the flags, for every number of entries.    *)
THEOREM PauseHistoryIsTruthful == PauseSpec => []PauseHistoryReplays
BY PauseInvHolds, PTL DEF PauseInv

-----------------------------------------------------------------------------
(* No unpause without a notice given Delay before it, and after every pause.        *)
THEOREM UnpauseNeedsNotice == PauseSpec => UnpauseAfterNotice
<1>1. ASSUME PauseInv, [PauseNext]_pauseControlVars, NEW s \in Scopes, paused[s], ~paused'[s],
             NEW i \in DOMAIN pauseHistory, pauseHistory[i].scope = s, pauseHistory[i].new
      PROVE  time >= pauseHistory[i].at + UnpauseDelay
  <2>1. PICK sender \in Accounts : ExecuteUnpause(sender, s)
    <3>1. paused' # paused
      BY <1>1
    <3>2. PICK sender \in Accounts, r \in Scopes : Pause(sender, r) \/ ExecuteUnpause(sender, r)
      BY <1>1, <3>1 DEF PauseNext, PauseStep, ScheduleUnpause, CancelUnpause, PauseTick, pauseControlVars, pauseVars
    <3>3. ~Pause(sender, r)
      BY <1>1, <3>2 DEF Pause, PauseInv, PauseTypeOK
    <3>4. r = s
      BY <1>1, <3>2, <3>3 DEF ExecuteUnpause, PauseInv, PauseTypeOK
    <3> QED BY <3>2, <3>3, <3>4
  <2>2. pendingUnpause[s] # 0 /\ time >= pendingUnpause[s]
    BY <2>1 DEF ExecuteUnpause, UnpauseReady
  <2>3. pendingUnpause[s] >= pauseHistory[i].at + UnpauseDelay
    BY <1>1, <2>2 DEF PauseInv, NoticeCoversHistory
  <2>4. pauseHistory[i].at \in Nat /\ pendingUnpause[s] \in Nat /\ time \in Nat
    BY <1>1, PauseEntriesHaveTimes DEF PauseInv, PauseTypeOK
  <2> QED BY <2>2, <2>3, <2>4, PauseControlAssumption
<1>2. PauseInv /\ [PauseNext]_pauseControlVars =>
        [\A s \in Scopes : paused[s] /\ ~paused'[s] =>
            \A i \in DOMAIN pauseHistory :
                pauseHistory[i].scope = s /\ pauseHistory[i].new => time >= pauseHistory[i].at + UnpauseDelay]_pauseControlVars
  BY <1>1
<1> QED BY <1>2, PauseInvHolds, PTL DEF PauseSpec, UnpauseAfterNotice

(* OperatorRegistry implements the delayed gate, for any roles and scopes. *)
THEOREM PauseControlIsGate == PauseSpec => PausesAreGates
<1>1. PauseInit => PauseGate!Init
  BY DEF PauseInit, PauseGate!Init
<1>2. PauseInv /\ [PauseNext]_pauseControlVars => [PauseGate!Next]_(PauseGate!vars)
  <2> SUFFICES ASSUME PauseInv, [PauseNext]_pauseControlVars PROVE [PauseGate!Next]_(PauseGate!vars)
    OBVIOUS
  <2>1. ASSUME NEW sender \in Accounts, NEW s \in Scopes, Pause(sender, s)
        PROVE  PauseGate!Shut(s)
    BY <2>1 DEF Pause, DropUnpause, PauseGate!Shut
  <2>2. ASSUME NEW sender \in Accounts, NEW s \in Scopes, ScheduleUnpause(sender, s)
        PROVE  PauseGate!Announce(s)
    BY <2>2 DEF ScheduleUnpause, UnpauseSchedulable, PauseGate!Announce
  <2>3. ASSUME NEW sender \in Accounts, NEW s \in Scopes, CancelUnpause(sender, s)
        PROVE  PauseGate!Withdraw(s)
    BY <2>3 DEF CancelUnpause, PauseGate!Withdraw
  <2>4. ASSUME NEW sender \in Accounts, NEW s \in Scopes, ExecuteUnpause(sender, s)
        PROVE  PauseGate!Reopen(s)
    BY <2>4 DEF ExecuteUnpause, UnpauseReady, PauseGate!Reopen
  <2>5. CASE PauseTick
    BY <2>5 DEF PauseTick, pauseVars, PauseInv, PauseTypeOK, PauseGate!Next, PauseGate!Wait, PauseGate!gateVars
  <2>6. CASE \E sender \in Accounts : RoleStep(sender) /\ UNCHANGED <<pauseVars, time>>
    BY <2>6 DEF pauseVars, PauseGate!vars
  <2>7. CASE UNCHANGED pauseControlVars
    BY <2>7 DEF pauseControlVars, PauseGate!vars
  <2>8. CASE \E sender \in Accounts : PauseStep(sender)
    BY <2>1, <2>2, <2>3, <2>4, <2>8 DEF PauseStep, PauseGate!Next, PauseGate!GateStep
  <2> QED BY <2>5, <2>6, <2>7, <2>8 DEF PauseNext
<1> QED BY <1>1, <1>2, PauseInvHolds, PTL DEF PauseSpec, PausesAreGates, PauseGate!Spec

-----------------------------------------------------------------------------
(* The delegates of makers.  A pending authorisation belongs to a delegate   *)
(* that has none, and was scheduled after its last revocation.               *)

AuthorityInv ==
    /\ AuthorityTypeOK
    /\ \A p \in Pairs : revokedAt[p] <= time
    /\ \A p \in Pairs : pendingReadyAt[p] # 0 =>
          isDelegate[p] = FALSE /\ pendingReadyAt[p] >= revokedAt[p] + AuthorizationDelay

(* No delegate signs at first. *)
LEMMA AuthorityStarts == AuthorityInit => AuthorityInv
BY DEF AuthorityInit, AuthorityInv, AuthorityTypeOK, RoleInit, RoleTypes

(* Each action keeps the invariant. *)
LEMMA AuthStepKeeps ==
    ASSUME AuthorityInv, NEW sender \in Accounts, AuthStep(sender)
    PROVE  AuthorityInv'
<1>1. PICK p \in Pairs :
        \/ ScheduleDelegate(sender, p)
        \/ CancelDelegateAuthorization(sender, p)
        \/ ExecuteDelegateAuthorization(sender, p)
        \/ RevokeDelegate(sender, p)
  BY DEF AuthStep
<1>2. CASE ScheduleDelegate(sender, p)
  <2>1. time + AuthorizationDelay \in Nat /\ time + AuthorizationDelay >= revokedAt[p] + AuthorizationDelay /\ isDelegate[p] = FALSE
    BY <1>2, MakerAuthorityAssumption DEF AuthorityInv, AuthorityTypeOK, ScheduleDelegate, DelegateSchedulable
  <2> QED BY <1>2, <2>1 DEF AuthorityInv, AuthorityTypeOK, RoleTypes, ScheduleDelegate, roleVars
<1>3. CASE CancelDelegateAuthorization(sender, p)
  BY <1>3 DEF AuthorityInv, AuthorityTypeOK, RoleTypes, CancelDelegateAuthorization, roleVars
<1>4. CASE ExecuteDelegateAuthorization(sender, p)
  BY <1>4 DEF AuthorityInv, AuthorityTypeOK, RoleTypes, ExecuteDelegateAuthorization, roleVars
<1>5. CASE RevokeDelegate(sender, p)
  BY <1>5 DEF AuthorityInv, AuthorityTypeOK, RoleTypes, RevokeDelegate, DropAuthorization, roleVars
<1> QED BY <1>1, <1>2, <1>3, <1>4, <1>5

(* The invariant is inductive. *)
LEMMA AuthoritySteps == AuthorityInv /\ [AuthorityNext]_authorityVars => AuthorityInv'
<1> SUFFICES ASSUME AuthorityInv, [AuthorityNext]_authorityVars PROVE AuthorityInv'
  OBVIOUS
<1>1. CASE \E sender \in Accounts : AuthStep(sender)
  BY <1>1, AuthStepKeeps
<1>2. CASE \E sender \in Accounts : RoleStep(sender) /\ UNCHANGED <<authVars, time>>
  BY <1>2 DEF RoleStep, SetOperator, TransferOwnership, authVars, AuthorityInv, AuthorityTypeOK, RoleTypes
<1>3. CASE AuthorityTick
  BY <1>3 DEF AuthorityTick, authVars, roleVars, AuthorityInv, AuthorityTypeOK, RoleTypes
<1>4. CASE UNCHANGED authorityVars
  BY <1>4 DEF authorityVars, AuthorityInv, AuthorityTypeOK, RoleTypes
<1> QED BY <1>1, <1>2, <1>3, <1>4 DEF AuthorityNext

(* The inductive invariant holds in every behaviour. *)
THEOREM AuthorityInvHolds == AuthoritySpec => []AuthorityInv
BY AuthorityStarts, AuthoritySteps, PTL DEF AuthoritySpec

(* Type correctness of MakerAuthorizer's state. *)
THEOREM AuthorityTypesHold == AuthoritySpec => []AuthorityTypeOK
BY AuthorityInvHolds, PTL DEF AuthorityInv

(* A revoked delegate waits for the whole delay again. *)
THEOREM RevocationIsFresh == AuthoritySpec => RevocationRestartsDelay
<1>1. ASSUME AuthorityInv, [AuthorityNext]_authorityVars, NEW p \in Pairs, ~isDelegate[p], isDelegate'[p], revokedAt[p] # 0
      PROVE  time >= revokedAt[p] + AuthorizationDelay
  <2>1. isDelegate' # isDelegate
    BY <1>1
  <2>2. PICK sender \in Accounts, q \in Pairs :
          ExecuteDelegateAuthorization(sender, q) \/ RevokeDelegate(sender, q)
    BY <1>1, <2>1 DEF AuthorityNext, AuthStep, ScheduleDelegate, CancelDelegateAuthorization, AuthorityTick,
                      authorityVars, authVars
  <2>3. ~RevokeDelegate(sender, q)
    BY <1>1 DEF RevokeDelegate, AuthorityInv, AuthorityTypeOK
  <2>4. q = p /\ pendingReadyAt[p] # 0 /\ time >= pendingReadyAt[p]
    BY <1>1, <2>2, <2>3 DEF ExecuteDelegateAuthorization, AuthorityInv, AuthorityTypeOK
  <2> QED BY <1>1, <2>4, MakerAuthorityAssumption DEF AuthorityInv, AuthorityTypeOK
<1>2. AuthorityInv /\ [AuthorityNext]_authorityVars =>
        [\A p \in Pairs : ~isDelegate[p] /\ isDelegate'[p] /\ revokedAt[p] # 0 =>
            time >= revokedAt[p] + AuthorizationDelay]_authorityVars
  BY <1>1
<1> QED BY <1>2, AuthorityInvHolds, PTL DEF AuthoritySpec, RevocationRestartsDelay

(* MakerAuthorizer implements the delayed gate, for any roles and pairs.   *)
THEOREM MakerAuthorityIsGate == AuthoritySpec => DelegatesAreGates
<1> DEFINE shutOf(d) == [p \in Pairs |-> ~d[p]]
<1>1. AuthorityInit => DelegateGate!Init
  BY DEF AuthorityInit, DelegateGate!Init
<1>2. AuthorityInv /\ [AuthorityNext]_authorityVars => [DelegateGate!Next]_(DelegateGate!vars)
  <2> SUFFICES ASSUME AuthorityInv, [AuthorityNext]_authorityVars PROVE [DelegateGate!Next]_(DelegateGate!vars)
    OBVIOUS
  <2>1. ASSUME NEW sender \in Accounts, NEW p \in Pairs, ScheduleDelegate(sender, p)
        PROVE  DelegateGate!Announce(p)
    BY <2>1 DEF ScheduleDelegate, DelegateSchedulable, DelegateGate!Announce
  <2>2. ASSUME NEW sender \in Accounts, NEW p \in Pairs, CancelDelegateAuthorization(sender, p)
        PROVE  DelegateGate!Withdraw(p)
    BY <2>2 DEF CancelDelegateAuthorization, DelegateGate!Withdraw
  <2>3. ASSUME NEW sender \in Accounts, NEW p \in Pairs, ExecuteDelegateAuthorization(sender, p)
        PROVE  DelegateGate!Reopen(p)
    <3>1. shutOf(isDelegate') = [shutOf(isDelegate) EXCEPT ![p] = FALSE]
      BY <2>3 DEF ExecuteDelegateAuthorization, AuthorityInv, AuthorityTypeOK
    <3> QED BY <2>3, <3>1 DEF ExecuteDelegateAuthorization, DelegateGate!Reopen
  <2>4. ASSUME NEW sender \in Accounts, NEW p \in Pairs, RevokeDelegate(sender, p)
        PROVE  DelegateGate!Shut(p)
    <3>1. shutOf(isDelegate') = [shutOf(isDelegate) EXCEPT ![p] = TRUE]
      BY <2>4 DEF RevokeDelegate, AuthorityInv, AuthorityTypeOK
    <3> QED BY <2>4, <3>1 DEF RevokeDelegate, DropAuthorization, DelegateGate!Shut
  <2>5. CASE AuthorityTick
    BY <2>5 DEF AuthorityTick, authVars, AuthorityInv, AuthorityTypeOK, DelegateGate!Next, DelegateGate!Wait, DelegateGate!gateVars
  <2>6. CASE \E sender \in Accounts : RoleStep(sender) /\ UNCHANGED <<authVars, time>>
    BY <2>6 DEF authVars, DelegateGate!vars
  <2>7. CASE UNCHANGED authorityVars
    BY <2>7 DEF authorityVars, DelegateGate!vars
  <2>8. CASE \E sender \in Accounts : AuthStep(sender)
    BY <2>1, <2>2, <2>3, <2>4, <2>8 DEF AuthStep, DelegateGate!Next, DelegateGate!GateStep
  <2> QED BY <2>5, <2>6, <2>7, <2>8 DEF AuthorityNext
<1> QED BY <1>1, <1>2, AuthorityInvHolds, PTL DEF AuthoritySpec, DelegatesAreGates, DelegateGate!Spec

-----------------------------------------------------------------------------
(* The manifest lifecycle.  The strengthening: a token that is not regulated *)
(* has no manifest hash (so the zero hashes setUnregulated records are true),*)
(* suspensions in the history are past, and a pending resumption lies Delay  *)
(* after all of them.                                                        *)

PlainHasNoHash ==
    \A t \in Tokens : status[t] \in {"UNKNOWN", "UNREGULATED"} => manifest[t].hash = NoHash

SuspensionsArePast ==
    \A t \in Tokens : \A i \in DOMAIN history[t] : SuspendedAt(t, i) => history[t][i].at <= time

ResumeCoversHistory ==
    \A t \in Tokens : resume[t] # 0 =>
        \A i \in DOMAIN history[t] : SuspendedAt(t, i) => resume[t] >= history[t][i].at + Delay

ManifestInv ==
    /\ TypeOK
    /\ PlainHasNoHash
    /\ NoticesAreLive
    /\ LiveHasPlan
    /\ HistoryReplays
    /\ SuspensionsArePast
    /\ ResumeCoversHistory

-----------------------------------------------------------------------------
(* What recording an entry does to the histories and versions. *)
LEMMA RecordFacts ==
    ASSUME TypeOK, NEW t \in Tokens, NEW e \in Entry,
           history' = [history EXCEPT ![t] = Append(history[t], e)],
           version' = [version EXCEPT ![t] = e.version]
    PROVE  /\ history' \in [Tokens -> Seq(Entry)] /\ version' \in [Tokens -> Nat]
           /\ version'[t] = e.version
           /\ Len(history[t]) \in Nat /\ Len(history'[t]) = Len(history[t]) + 1
           /\ DOMAIN history[t] = 1..Len(history[t])
           /\ DOMAIN history'[t] = 1..(Len(history[t]) + 1)
           /\ \A i \in 1..Len(history[t]) : history'[t][i] = history[t][i]
           /\ history'[t][Len(history[t]) + 1] = e
           /\ \A u \in Tokens \ {t} : history'[u] = history[u] /\ version'[u] = version[u]
<1>1. history[t] \in Seq(Entry) /\ e.version \in Nat
  BY DEF TypeOK, Entry
<1>2. /\ history'[t] = Append(history[t], e)
      /\ Append(history[t], e) \in Seq(Entry)
      /\ \A u \in Tokens \ {t} : history'[u] = history[u]
  BY <1>1 DEF TypeOK
<1>3. /\ history' \in [Tokens -> Seq(Entry)] /\ version' \in [Tokens -> Nat]
      /\ version'[t] = e.version
      /\ \A u \in Tokens \ {t} : version'[u] = version[u]
  BY <1>1, <1>2 DEF TypeOK
<1> QED BY <1>1, <1>2, <1>3

(* An entry that starts where the registry is and ends where it goes keeps   *)
(* the history replayable.                                                   *)
LEMMA RecordReplays ==
    ASSUME TypeOK, HistoryReplays, NEW t \in Tokens, NEW e \in Entry,
           history' = [history EXCEPT ![t] = Append(history[t], e)],
           version' = [version EXCEPT ![t] = e.version],
           e.old = status[t], e.oldHash = manifest[t].hash,
           e.version \in {version[t], version[t] + 1},
           e.new = status'[t], e.newHash = manifest'[t].hash,
           \A u \in Tokens \ {t} : status'[u] = status[u] /\ manifest'[u] = manifest[u]
    PROVE  HistoryReplays'
<1> DEFINE n == Len(history[t])
<1>1. /\ n \in Nat /\ Len(history'[t]) = n + 1
      /\ \A i \in 1..n : history'[t][i] = history[t][i]
      /\ history'[t][n+1] = e
      /\ version'[t] = e.version
      /\ \A u \in Tokens \ {t} : history'[u] = history[u] /\ version'[u] = version[u]
  BY RecordFacts
<1>2. EndsIn(history'[t], status'[t], manifest'[t].hash, version'[t])
  BY <1>1 DEF EndsIn
<1>3. ASSUME NEW i \in 1..n
      PROVE  /\ history'[t][i+1].old = history'[t][i].new
             /\ history'[t][i+1].oldHash = history'[t][i].newHash
             /\ history'[t][i+1].version \in {history'[t][i].version, history'[t][i].version + 1}
  <2>1. CASE i = n
    <3>1. /\ history[t][n].new = status[t]
          /\ history[t][n].newHash = manifest[t].hash
          /\ history[t][n].version = version[t]
      BY <1>1, <2>1 DEF HistoryReplays, EndsIn
    <3>2. history'[t][i+1] = e /\ history'[t][i] = history[t][n]
      BY <1>1, <2>1
    <3> QED BY <3>1, <3>2
  <2>2. CASE i # n
    <3>1. i \in 1..n-1 /\ i + 1 \in 1..n
      BY <1>1, <2>2
    <3>2. history'[t][i+1] = history[t][i+1] /\ history'[t][i] = history[t][i]
      BY <1>1, <3>1
    <3> QED BY <3>1, <3>2 DEF HistoryReplays, Chained
  <2> QED BY <2>1, <2>2
<1>4. Chained(history'[t])
  <2>1. Len(history'[t]) - 1 = n
    BY <1>1
  <2> HIDE DEF n
  <2> QED BY <1>3, <2>1 DEF Chained
<1>5. ASSUME NEW u \in Tokens, u # t
      PROVE  Chained(history'[u]) /\ EndsIn(history'[u], status'[u], manifest'[u].hash, version'[u])
  <2>1. /\ history'[u] = history[u] /\ version'[u] = version[u]
        /\ status'[u] = status[u] /\ manifest'[u] = manifest[u]
    BY <1>1, <1>5
  <2> QED BY <2>1 DEF HistoryReplays
<1> QED BY <1>2, <1>4, <1>5 DEF HistoryReplays

(* The suspensions in the history stay past, and stay covered by resume,    *)
(* when the new entry is no suspension or the notice is dropped.             *)
LEMMA RecordCovers ==
    ASSUME TypeOK, SuspensionsArePast, ResumeCoversHistory, NEW t \in Tokens, NEW e \in Entry,
           history' = [history EXCEPT ![t] = Append(history[t], e)],
           version' = [version EXCEPT ![t] = e.version],
           time' = time,
           \A u \in Tokens : resume'[u] = 0 \/ resume'[u] = resume[u],
           e.new = "SUSPENDED" /\ e.old = "ACTIVE" => e.at <= time /\ resume'[t] = 0
    PROVE  SuspensionsArePast' /\ ResumeCoversHistory'
<1> DEFINE n == Len(history[t])
<1>1. /\ n \in Nat
      /\ DOMAIN history[t] = 1..n /\ DOMAIN history'[t] = 1..(n+1)
      /\ \A i \in 1..n : history'[t][i] = history[t][i]
      /\ history'[t][n+1] = e
      /\ \A u \in Tokens \ {t} : history'[u] = history[u]
  BY RecordFacts
<1>2. ASSUME NEW u \in Tokens, NEW i \in DOMAIN history'[u], SuspendedAt(u, i)'
      PROVE  /\ history'[u][i].at <= time'
             /\ resume'[u] # 0 => resume'[u] >= history'[u][i].at + Delay
  <2>1. CASE u # t \/ i \in 1..n
    <3>1. i \in DOMAIN history[u] /\ history'[u][i] = history[u][i]
      BY <1>1, <1>2, <2>1
    <3>2. SuspendedAt(u, i)
      BY <1>2, <3>1 DEF SuspendedAt
    <3>3. resume'[u] # 0 => resume'[u] = resume[u]
      OBVIOUS
    <3> QED BY <3>1, <3>2, <3>3 DEF SuspensionsArePast, ResumeCoversHistory
  <2>2. CASE u = t /\ i = n + 1
    BY <1>1, <1>2, <2>2 DEF SuspendedAt
  <2> QED BY <1>1, <1>2, <2>1, <2>2
<1> QED BY <1>2 DEF SuspensionsArePast, ResumeCoversHistory

(* The times of the entries are numbers. *)
LEMMA ManifestEntriesHaveTimes ==
    ASSUME TypeOK, NEW t \in Tokens
    PROVE  \A i \in DOMAIN history[t] : history[t][i] \in Entry /\ history[t][i].at \in Nat
<1>1. \A i \in DOMAIN history[t] : history[t][i] \in Entry
  BY DEF TypeOK
<1> QED BY <1>1 DEF Entry

(* What leaves status, hashes, versions and history alone keeps it replayable. *)
LEMMA ManifestSameReplays ==
    ASSUME HistoryReplays, UNCHANGED <<status, version, history>>,
           \A u \in Tokens : manifest'[u].hash = manifest[u].hash
    PROVE  HistoryReplays'
BY DEF HistoryReplays

-----------------------------------------------------------------------------
(* One lemma per operation.  Each names the entry it records, if any, and    *)
(* splits the invariant into types, notices, plans and history.              *)

LEMMA ManifestStarts == Init => ManifestInv
BY DEF Init, ManifestInv, TypeOK, RoleInit, RoleTypes, PlainHasNoHash, NoticesAreLive, LiveHasPlan,
       HistoryReplays, Chained, EndsIn, SuspensionsArePast, ResumeCoversHistory,
       Statuses, Live, Manifest, NoManifest, Update, NoUpdate

(* Each action that records history keeps the invariant. *)
LEMMA RegisterKeeps ==
    ASSUME ManifestInv, NEW sender \in Accounts, NEW t \in Tokens, NEW m \in Manifest, NEW p \in Plans,
           RegisterManifest(sender, t, m, p)
    PROVE  ManifestInv'
<1> DEFINE e == [old |-> status[t], new |-> "PROPOSED", oldHash |-> manifest[t].hash,
                 newHash |-> m.hash, version |-> version[t] + 1, at |-> time]
<1>1. status[t] \in {"UNKNOWN", "RETIRED"}
  BY DEF RegisterManifest, Registrable, ManifestInv, TypeOK
<1>2. /\ history' = [history EXCEPT ![t] = Append(history[t], e)]
      /\ version' = [version EXCEPT ![t] = e.version]
  BY DEF RegisterManifest, Registrable, RecordHistory
<1>3. e \in Entry /\ e.version \in {version[t], version[t] + 1}
  BY <1>1 DEF ManifestInv, TypeOK, Manifest, Entry, Update, Statuses, Live
<1>4. /\ status' = [status EXCEPT ![t] = "PROPOSED"]
      /\ manifest' = [manifest EXCEPT ![t] = m]
      /\ plan' = [plan EXCEPT ![t] = p]
      /\ UNCHANGED <<owner, isOperator, update, nextPlan, resume, time>>
  BY DEF RegisterManifest, Registrable, SetStatus, roleVars
<1> HIDE DEF e
<1>5. TypeOK'
  <2>1. history' \in [Tokens -> Seq(Entry)] /\ version' \in [Tokens -> Nat]
    BY <1>2, <1>3, RecordFacts DEF ManifestInv
  <2> QED BY <1>1, <1>4, <2>1 DEF ManifestInv, TypeOK, RoleTypes, Manifest, Update, NoUpdate, NoManifest, Statuses
<1>6. PlainHasNoHash' /\ NoticesAreLive' /\ LiveHasPlan'
  BY <1>1, <1>4 DEF ManifestInv, TypeOK, PlainHasNoHash, NoticesAreLive, LiveHasPlan, Live, NoUpdate
<1>7. HistoryReplays'
  <2>1. /\ e.old = status[t] /\ e.oldHash = manifest[t].hash
        /\ e.new = status'[t] /\ e.newHash = manifest'[t].hash
        /\ \A u \in Tokens \ {t} : status'[u] = status[u] /\ manifest'[u] = manifest[u]
    BY <1>1, <1>4 DEF e, ManifestInv, TypeOK, PlainHasNoHash
  <2> QED BY <1>2, <1>3, <2>1, RecordReplays DEF ManifestInv
<1>8. SuspensionsArePast' /\ ResumeCoversHistory'
  <2>1. e.new = "SUSPENDED" /\ e.old = "ACTIVE" => e.at <= time /\ resume'[t] = 0
    BY <1>1, <1>4 DEF e, ManifestInv, TypeOK
  <2>2. time' = time /\ \A u \in Tokens : resume'[u] = 0 \/ resume'[u] = resume[u]
    BY <1>4 DEF ManifestInv, TypeOK
  <2> QED BY <1>2, <1>3, <2>1, <2>2, RecordCovers DEF ManifestInv
<1> QED BY <1>5, <1>6, <1>7, <1>8 DEF ManifestInv

LEMMA ApproveKeeps ==
    ASSUME ManifestInv, NEW sender \in Accounts, NEW t \in Tokens,
           ApproveManifest(sender, t)
    PROVE  ManifestInv'
<1> DEFINE e == [old |-> status[t], new |-> "ACTIVE", oldHash |-> manifest[t].hash,
                 newHash |-> manifest[t].hash, version |-> version[t] + 0, at |-> time]
<1>1. status[t] = "PROPOSED" /\ plan[t] # NoPlan
  BY DEF ApproveManifest, ManifestInv, TypeOK
<1>2. /\ history' = [history EXCEPT ![t] = Append(history[t], e)]
      /\ version' = [version EXCEPT ![t] = e.version]
  BY DEF ApproveManifest, RecordHistory
<1>3. e \in Entry /\ e.version \in {version[t], version[t] + 1}
  BY <1>1 DEF ManifestInv, TypeOK, Manifest, Entry, Update, Statuses, Live
<1>4. /\ status' = [status EXCEPT ![t] = "ACTIVE"]
      /\ UNCHANGED <<owner, isOperator, manifest, plan, update, nextPlan, resume, time>>
  BY DEF ApproveManifest, SetStatus, roleVars
<1> HIDE DEF e
<1>5. TypeOK'
  <2>1. history' \in [Tokens -> Seq(Entry)] /\ version' \in [Tokens -> Nat]
    BY <1>2, <1>3, RecordFacts DEF ManifestInv
  <2> QED BY <1>1, <1>4, <2>1 DEF ManifestInv, TypeOK, RoleTypes, Manifest, Update, NoUpdate, NoManifest, Statuses
<1>6. PlainHasNoHash' /\ NoticesAreLive' /\ LiveHasPlan'
  BY <1>1, <1>4 DEF ManifestInv, TypeOK, PlainHasNoHash, NoticesAreLive, LiveHasPlan, Live, NoUpdate
<1>7. HistoryReplays'
  <2>1. /\ e.old = status[t] /\ e.oldHash = manifest[t].hash
        /\ e.new = status'[t] /\ e.newHash = manifest'[t].hash
        /\ \A u \in Tokens \ {t} : status'[u] = status[u] /\ manifest'[u] = manifest[u]
    BY <1>1, <1>4 DEF e, ManifestInv, TypeOK, PlainHasNoHash
  <2> QED BY <1>2, <1>3, <2>1, RecordReplays DEF ManifestInv
<1>8. SuspensionsArePast' /\ ResumeCoversHistory'
  <2>1. e.new = "SUSPENDED" /\ e.old = "ACTIVE" => e.at <= time /\ resume'[t] = 0
    BY <1>1, <1>4 DEF e, ManifestInv, TypeOK
  <2>2. time' = time /\ \A u \in Tokens : resume'[u] = 0 \/ resume'[u] = resume[u]
    BY <1>4 DEF ManifestInv, TypeOK
  <2> QED BY <1>2, <1>3, <2>1, <2>2, RecordCovers DEF ManifestInv
<1> QED BY <1>5, <1>6, <1>7, <1>8 DEF ManifestInv

LEMMA SuspendKeeps ==
    ASSUME ManifestInv, NEW sender \in Accounts, NEW t \in Tokens,
           SuspendManifest(sender, t)
    PROVE  ManifestInv'
<1> DEFINE e == [old |-> status[t], new |-> "SUSPENDED", oldHash |-> manifest[t].hash,
                 newHash |-> manifest[t].hash, version |-> version[t] + 0, at |-> time]
<1>1. status[t] = "ACTIVE"
  BY DEF SuspendManifest, ManifestInv, TypeOK
<1>2. /\ history' = [history EXCEPT ![t] = Append(history[t], e)]
      /\ version' = [version EXCEPT ![t] = e.version]
  BY DEF SuspendManifest, RecordHistory
<1>3. e \in Entry /\ e.version \in {version[t], version[t] + 1}
  BY <1>1 DEF ManifestInv, TypeOK, Manifest, Entry, Update, Statuses, Live
<1>4. /\ status' = [status EXCEPT ![t] = "SUSPENDED"]
      /\ resume' = [resume EXCEPT ![t] = 0]
      /\ UNCHANGED <<owner, isOperator, manifest, plan, update, nextPlan, time>>
  BY DEF SuspendManifest, SetStatus, roleVars
<1> HIDE DEF e
<1>5. TypeOK'
  <2>1. history' \in [Tokens -> Seq(Entry)] /\ version' \in [Tokens -> Nat]
    BY <1>2, <1>3, RecordFacts DEF ManifestInv
  <2> QED BY <1>1, <1>4, <2>1 DEF ManifestInv, TypeOK, RoleTypes, Manifest, Update, NoUpdate, NoManifest, Statuses
<1>6. PlainHasNoHash' /\ NoticesAreLive' /\ LiveHasPlan'
  BY <1>1, <1>4 DEF ManifestInv, TypeOK, PlainHasNoHash, NoticesAreLive, LiveHasPlan, Live, NoUpdate
<1>7. HistoryReplays'
  <2>1. /\ e.old = status[t] /\ e.oldHash = manifest[t].hash
        /\ e.new = status'[t] /\ e.newHash = manifest'[t].hash
        /\ \A u \in Tokens \ {t} : status'[u] = status[u] /\ manifest'[u] = manifest[u]
    BY <1>1, <1>4 DEF e, ManifestInv, TypeOK, PlainHasNoHash
  <2> QED BY <1>2, <1>3, <2>1, RecordReplays DEF ManifestInv
<1>8. SuspensionsArePast' /\ ResumeCoversHistory'
  <2>1. e.new = "SUSPENDED" /\ e.old = "ACTIVE" => e.at <= time /\ resume'[t] = 0
    BY <1>1, <1>4 DEF e, ManifestInv, TypeOK
  <2>2. time' = time /\ \A u \in Tokens : resume'[u] = 0 \/ resume'[u] = resume[u]
    BY <1>4 DEF ManifestInv, TypeOK
  <2> QED BY <1>2, <1>3, <2>1, <2>2, RecordCovers DEF ManifestInv
<1> QED BY <1>5, <1>6, <1>7, <1>8 DEF ManifestInv

LEMMA ResumeKeeps ==
    ASSUME ManifestInv, NEW sender \in Accounts, NEW t \in Tokens,
           ResumeManifest(sender, t)
    PROVE  ManifestInv'
<1> DEFINE e == [old |-> status[t], new |-> "ACTIVE", oldHash |-> manifest[t].hash,
                 newHash |-> manifest[t].hash, version |-> version[t] + 0, at |-> resume[t]]
<1>1. status[t] = "SUSPENDED" /\ resume[t] \in Nat
  BY DEF ResumeManifest, ManifestInv, TypeOK
<1>2. /\ history' = [history EXCEPT ![t] = Append(history[t], e)]
      /\ version' = [version EXCEPT ![t] = e.version]
  BY DEF ResumeManifest, RecordHistory
<1>3. e \in Entry /\ e.version \in {version[t], version[t] + 1}
  BY <1>1 DEF ManifestInv, TypeOK, Manifest, Entry, Update, Statuses, Live
<1>4. /\ status' = [status EXCEPT ![t] = "ACTIVE"]
      /\ resume' = [resume EXCEPT ![t] = 0]
      /\ UNCHANGED <<owner, isOperator, manifest, plan, update, nextPlan, time>>
  BY DEF ResumeManifest, SetStatus, roleVars
<1> HIDE DEF e
<1>5. TypeOK'
  <2>1. history' \in [Tokens -> Seq(Entry)] /\ version' \in [Tokens -> Nat]
    BY <1>2, <1>3, RecordFacts DEF ManifestInv
  <2> QED BY <1>1, <1>4, <2>1 DEF ManifestInv, TypeOK, RoleTypes, Manifest, Update, NoUpdate, NoManifest, Statuses
<1>6. PlainHasNoHash' /\ NoticesAreLive' /\ LiveHasPlan'
  BY <1>1, <1>4 DEF ManifestInv, TypeOK, PlainHasNoHash, NoticesAreLive, LiveHasPlan, Live, NoUpdate
<1>7. HistoryReplays'
  <2>1. /\ e.old = status[t] /\ e.oldHash = manifest[t].hash
        /\ e.new = status'[t] /\ e.newHash = manifest'[t].hash
        /\ \A u \in Tokens \ {t} : status'[u] = status[u] /\ manifest'[u] = manifest[u]
    BY <1>1, <1>4 DEF e, ManifestInv, TypeOK, PlainHasNoHash
  <2> QED BY <1>2, <1>3, <2>1, RecordReplays DEF ManifestInv
<1>8. SuspensionsArePast' /\ ResumeCoversHistory'
  <2>1. e.new = "SUSPENDED" /\ e.old = "ACTIVE" => e.at <= time /\ resume'[t] = 0
    BY <1>1, <1>4 DEF e, ManifestInv, TypeOK
  <2>2. time' = time /\ \A u \in Tokens : resume'[u] = 0 \/ resume'[u] = resume[u]
    BY <1>4 DEF ManifestInv, TypeOK
  <2> QED BY <1>2, <1>3, <2>1, <2>2, RecordCovers DEF ManifestInv
<1> QED BY <1>5, <1>6, <1>7, <1>8 DEF ManifestInv

LEMMA ActivateKeeps ==
    ASSUME ManifestInv, NEW sender \in Accounts, NEW t \in Tokens,
           ActivateManifestUpdate(sender, t)
    PROVE  ManifestInv'
<1> DEFINE e == [old |-> status[t], new |-> status[t], oldHash |-> manifest[t].hash,
                 newHash |-> update[t].m.hash, version |-> version[t] + 1, at |-> update[t].at]
<1>1. status[t] \in Live /\ update[t].at # 0
  BY DEF ActivateManifestUpdate, Ready, UpdateBump, ActivatedHash, ManifestInv, TypeOK
<1>2. /\ history' = [history EXCEPT ![t] = Append(history[t], e)]
      /\ version' = [version EXCEPT ![t] = e.version]
  BY DEF ActivateManifestUpdate, Ready, UpdateBump, ActivatedHash, RecordHistory
<1>3. e \in Entry /\ e.version \in {version[t], version[t] + 1}
  BY <1>1 DEF ManifestInv, TypeOK, Manifest, Entry, Update, Statuses, Live
<1>4. /\ manifest' = [manifest EXCEPT ![t] = update[t].m]
      /\ plan' = [plan EXCEPT ![t] = nextPlan[t]]
      /\ update' = [update EXCEPT ![t] = NoUpdate]
      /\ nextPlan' = [nextPlan EXCEPT ![t] = NoPlan]
      /\ UNCHANGED <<owner, isOperator, status, resume, time>>
  BY DEF ActivateManifestUpdate, Ready, UpdateBump, ActivatedHash, SetStatus, roleVars, DropUpdate, ActivatedPlan
<1> HIDE DEF e
<1>5. TypeOK'
  <2>1. history' \in [Tokens -> Seq(Entry)] /\ version' \in [Tokens -> Nat]
    BY <1>2, <1>3, RecordFacts DEF ManifestInv
  <2> QED BY <1>1, <1>4, <2>1 DEF ManifestInv, TypeOK, RoleTypes, Manifest, Update, NoUpdate, NoManifest, Statuses
<1>6. PlainHasNoHash' /\ NoticesAreLive' /\ LiveHasPlan'
  BY <1>1, <1>4 DEF ManifestInv, TypeOK, PlainHasNoHash, NoticesAreLive, LiveHasPlan, Live, NoUpdate
<1>7. HistoryReplays'
  <2>1. /\ e.old = status[t] /\ e.oldHash = manifest[t].hash
        /\ e.new = status'[t] /\ e.newHash = manifest'[t].hash
        /\ \A u \in Tokens \ {t} : status'[u] = status[u] /\ manifest'[u] = manifest[u]
    BY <1>1, <1>4 DEF e, ManifestInv, TypeOK, PlainHasNoHash
  <2> QED BY <1>2, <1>3, <2>1, RecordReplays DEF ManifestInv
<1>8. SuspensionsArePast' /\ ResumeCoversHistory'
  <2>1. e.new = "SUSPENDED" /\ e.old = "ACTIVE" => e.at <= time /\ resume'[t] = 0
    BY <1>1, <1>4 DEF e, ManifestInv, TypeOK
  <2>2. time' = time /\ \A u \in Tokens : resume'[u] = 0 \/ resume'[u] = resume[u]
    BY <1>4 DEF ManifestInv, TypeOK
  <2> QED BY <1>2, <1>3, <2>1, <2>2, RecordCovers DEF ManifestInv
<1> QED BY <1>5, <1>6, <1>7, <1>8 DEF ManifestInv

LEMMA RetireKeeps ==
    ASSUME ManifestInv, NEW sender \in Accounts, NEW t \in Tokens,
           RetireManifest(sender, t)
    PROVE  ManifestInv'
<1> DEFINE e == [old |-> status[t], new |-> "RETIRED", oldHash |-> manifest[t].hash,
                 newHash |-> manifest[t].hash, version |-> version[t] + 0, at |-> time]
<1>1. status[t] \in Live
  BY DEF RetireManifest, ManifestInv, TypeOK
<1>2. /\ history' = [history EXCEPT ![t] = Append(history[t], e)]
      /\ version' = [version EXCEPT ![t] = e.version]
  BY DEF RetireManifest, RecordHistory
<1>3. e \in Entry /\ e.version \in {version[t], version[t] + 1}
  BY <1>1 DEF ManifestInv, TypeOK, Manifest, Entry, Update, Statuses, Live
<1>4. /\ status' = [status EXCEPT ![t] = "RETIRED"]
      /\ update' = [update EXCEPT ![t] = NoUpdate]
      /\ nextPlan' = [nextPlan EXCEPT ![t] = NoPlan]
      /\ resume' = [resume EXCEPT ![t] = 0]
      /\ UNCHANGED <<owner, isOperator, manifest, plan, time>>
  BY DEF RetireManifest, SetStatus, roleVars, DropPending, DropUpdate
<1> HIDE DEF e
<1>5. TypeOK'
  <2>1. history' \in [Tokens -> Seq(Entry)] /\ version' \in [Tokens -> Nat]
    BY <1>2, <1>3, RecordFacts DEF ManifestInv
  <2> QED BY <1>1, <1>4, <2>1 DEF ManifestInv, TypeOK, RoleTypes, Manifest, Update, NoUpdate, NoManifest, Statuses
<1>6. PlainHasNoHash' /\ NoticesAreLive' /\ LiveHasPlan'
  BY <1>1, <1>4 DEF ManifestInv, TypeOK, PlainHasNoHash, NoticesAreLive, LiveHasPlan, Live, NoUpdate
<1>7. HistoryReplays'
  <2>1. /\ e.old = status[t] /\ e.oldHash = manifest[t].hash
        /\ e.new = status'[t] /\ e.newHash = manifest'[t].hash
        /\ \A u \in Tokens \ {t} : status'[u] = status[u] /\ manifest'[u] = manifest[u]
    BY <1>1, <1>4 DEF e, ManifestInv, TypeOK, PlainHasNoHash
  <2> QED BY <1>2, <1>3, <2>1, RecordReplays DEF ManifestInv
<1>8. SuspensionsArePast' /\ ResumeCoversHistory'
  <2>1. e.new = "SUSPENDED" /\ e.old = "ACTIVE" => e.at <= time /\ resume'[t] = 0
    BY <1>1, <1>4 DEF e, ManifestInv, TypeOK
  <2>2. time' = time /\ \A u \in Tokens : resume'[u] = 0 \/ resume'[u] = resume[u]
    BY <1>4 DEF ManifestInv, TypeOK
  <2> QED BY <1>2, <1>3, <2>1, <2>2, RecordCovers DEF ManifestInv
<1> QED BY <1>5, <1>6, <1>7, <1>8 DEF ManifestInv

LEMMA SetUnregulatedKeeps ==
    ASSUME ManifestInv, NEW sender \in Accounts, NEW t \in Tokens, NEW set \in BOOLEAN,
           SetUnregulated(sender, t, set)
    PROVE  ManifestInv'
<1> DEFINE e == [old |-> status[t], new |-> (IF set THEN "UNREGULATED" ELSE "UNKNOWN"), oldHash |-> NoHash,
                 newHash |-> NoHash, version |-> version[t] + 0, at |-> time]
<1>1. status[t] = IF set THEN "UNKNOWN" ELSE "UNREGULATED"
  BY DEF SetUnregulated, ManifestInv, TypeOK
<1>2. /\ history' = [history EXCEPT ![t] = Append(history[t], e)]
      /\ version' = [version EXCEPT ![t] = e.version]
  BY DEF SetUnregulated, RecordHistory
<1>3. e \in Entry /\ e.version \in {version[t], version[t] + 1}
  BY <1>1 DEF ManifestInv, TypeOK, Manifest, Entry, Update, Statuses, Live
<1>4. /\ status' = [status EXCEPT ![t] = IF set THEN "UNREGULATED" ELSE "UNKNOWN"]
      /\ UNCHANGED <<owner, isOperator, manifest, plan, update, nextPlan, resume, time>>
  BY DEF SetUnregulated, SetStatus, roleVars
<1> HIDE DEF e
<1>5. TypeOK'
  <2>1. history' \in [Tokens -> Seq(Entry)] /\ version' \in [Tokens -> Nat]
    BY <1>2, <1>3, RecordFacts DEF ManifestInv
  <2> QED BY <1>1, <1>4, <2>1 DEF ManifestInv, TypeOK, RoleTypes, Manifest, Update, NoUpdate, NoManifest, Statuses
<1>6. PlainHasNoHash' /\ NoticesAreLive' /\ LiveHasPlan'
  BY <1>1, <1>4 DEF ManifestInv, TypeOK, PlainHasNoHash, NoticesAreLive, LiveHasPlan, Live, NoUpdate
<1>7. HistoryReplays'
  <2>1. /\ e.old = status[t] /\ e.oldHash = manifest[t].hash
        /\ e.new = status'[t] /\ e.newHash = manifest'[t].hash
        /\ \A u \in Tokens \ {t} : status'[u] = status[u] /\ manifest'[u] = manifest[u]
    BY <1>1, <1>4 DEF e, ManifestInv, TypeOK, PlainHasNoHash
  <2> QED BY <1>2, <1>3, <2>1, RecordReplays DEF ManifestInv
<1>8. SuspensionsArePast' /\ ResumeCoversHistory'
  <2>1. e.new = "SUSPENDED" /\ e.old = "ACTIVE" => e.at <= time /\ resume'[t] = 0
    BY <1>1, <1>4 DEF e, ManifestInv, TypeOK
  <2>2. time' = time /\ \A u \in Tokens : resume'[u] = 0 \/ resume'[u] = resume[u]
    BY <1>4 DEF ManifestInv, TypeOK
  <2> QED BY <1>2, <1>3, <2>1, <2>2, RecordCovers DEF ManifestInv
<1> QED BY <1>5, <1>6, <1>7, <1>8 DEF ManifestInv

(* What records nothing and leaves status, version and history alone. *)
LEMMA QuietKeeps ==
    ASSUME ManifestInv, NEW sender \in Accounts, NEW t \in Tokens,
           \/ \E facts \in SUBSET Facts : SetFact(sender, t, facts)
           \/ ScheduleManifestResume(sender, t) \/ CancelManifestResume(sender, t)
           \/ \E m \in Manifest, p \in Plans : ScheduleManifestUpdate(sender, t, m, p)
           \/ CancelManifestUpdate(sender, t)
    PROVE  ManifestInv'
<1>1. UNCHANGED <<owner, isOperator, status, plan, version, history, time>>
  BY DEF SetFact, ScheduleManifestResume, CancelManifestResume, ScheduleManifestUpdate,
         CancelManifestUpdate, roleVars
<1>2. CASE \E facts \in SUBSET Facts : SetFact(sender, t, facts)
  <2>1. PICK facts \in SUBSET Facts : manifest' = [manifest EXCEPT ![t].facts = facts]
    BY <1>2 DEF SetFact
  <2>2. manifest' \in [Tokens -> Manifest] /\ \A u \in Tokens : manifest'[u].hash = manifest[u].hash
    BY <2>1 DEF ManifestInv, TypeOK, Manifest
  <2>3. UNCHANGED <<update, nextPlan, resume>>
    BY <1>2 DEF SetFact
  <2>4. HistoryReplays'
    BY <1>1, <2>2, ManifestSameReplays DEF ManifestInv
  <2> QED BY <1>1, <2>2, <2>3, <2>4 DEF ManifestInv, TypeOK, RoleTypes, PlainHasNoHash, NoticesAreLive,
                LiveHasPlan, SuspensionsArePast, ResumeCoversHistory, SuspendedAt
<1>3. CASE ScheduleManifestResume(sender, t)
  <2>1. /\ status[t] = "SUSPENDED"
        /\ resume' = [resume EXCEPT ![t] = time + Delay]
        /\ UNCHANGED <<manifest, update, nextPlan>>
    BY <1>3 DEF ScheduleManifestResume
  <2>2. time + Delay \in Nat
        /\ \A i \in DOMAIN history[t] : SuspendedAt(t, i) => time + Delay >= history[t][i].at + Delay
    BY ManifestAssumption, ManifestEntriesHaveTimes DEF ManifestInv, TypeOK, SuspensionsArePast
  <2>3. ResumeCoversHistory'
    BY <1>1, <2>1, <2>2 DEF ManifestInv, TypeOK, ResumeCoversHistory, SuspendedAt
  <2>4. HistoryReplays'
    BY <1>1, <2>1, ManifestSameReplays DEF ManifestInv
  <2> QED BY <1>1, <2>1, <2>2, <2>3, <2>4 DEF ManifestInv, TypeOK, RoleTypes, PlainHasNoHash,
                NoticesAreLive, LiveHasPlan, SuspensionsArePast, SuspendedAt
<1>4. CASE CancelManifestResume(sender, t)
  <2>1. resume' = [resume EXCEPT ![t] = 0] /\ UNCHANGED <<manifest, update, nextPlan>>
    BY <1>4 DEF CancelManifestResume
  <2>2. HistoryReplays'
    BY <1>1, <2>1, ManifestSameReplays DEF ManifestInv
  <2> QED BY <1>1, <2>1, <2>2 DEF ManifestInv, TypeOK, RoleTypes, PlainHasNoHash, NoticesAreLive,
                LiveHasPlan, SuspensionsArePast, ResumeCoversHistory, SuspendedAt
<1>5. CASE \E m \in Manifest, p \in Plans : ScheduleManifestUpdate(sender, t, m, p)
  <2>1. PICK m \in Manifest, p \in Plans :
           /\ status[t] \in Live
           /\ update' = [update EXCEPT ![t] = [m |-> m, at |-> time + Delay]]
           /\ nextPlan' = [nextPlan EXCEPT ![t] = p]
           /\ UNCHANGED <<manifest, resume>>
    BY <1>5 DEF ScheduleManifestUpdate
  <2>2. [m |-> m, at |-> time + Delay] \in Update /\ p # NoPlan
    BY ManifestAssumption DEF ManifestInv, TypeOK, Update
  <2>3. HistoryReplays'
    BY <1>1, <2>1, ManifestSameReplays DEF ManifestInv
  <2> QED BY <1>1, <2>1, <2>2, <2>3 DEF ManifestInv, TypeOK, RoleTypes, PlainHasNoHash, NoticesAreLive,
                LiveHasPlan, SuspensionsArePast, ResumeCoversHistory, SuspendedAt
<1>6. CASE CancelManifestUpdate(sender, t)
  <2>1. /\ update' = [update EXCEPT ![t] = NoUpdate]
        /\ nextPlan' = [nextPlan EXCEPT ![t] = NoPlan]
        /\ UNCHANGED <<manifest, resume>>
    BY <1>6 DEF CancelManifestUpdate, DropUpdate
  <2>2. NoUpdate \in Update /\ NoUpdate.at = 0
    BY DEF NoUpdate, NoManifest, Update, Manifest
  <2>3. HistoryReplays'
    BY <1>1, <2>1, ManifestSameReplays DEF ManifestInv
  <2> QED BY <1>1, <2>1, <2>2, <2>3 DEF ManifestInv, TypeOK, RoleTypes, PlainHasNoHash, NoticesAreLive,
                LiveHasPlan, SuspensionsArePast, ResumeCoversHistory, SuspendedAt
<1> QED BY <1>2, <1>3, <1>4, <1>5, <1>6

(* Time and roles are not about manifests. *)
LEMMA ManifestRestKeeps ==
    ASSUME ManifestInv,
           \/ Tick
           \/ UNCHANGED vars
           \/ \E sender \in Accounts : RoleStep(sender) /\ UNCHANGED <<manifestVars, time>>
    PROVE  ManifestInv'
<1>1. /\ UNCHANGED <<status, manifest, plan, version, history, update, nextPlan, resume>>
      /\ time' \in Nat \ {0} /\ time' >= time
      /\ RoleTypes'
  <2>1. CASE Tick
    BY <2>1 DEF Tick, manifestVars, roleVars, ManifestInv, TypeOK, RoleTypes
  <2>2. CASE UNCHANGED vars
    BY <2>2 DEF vars, ManifestInv, TypeOK, RoleTypes
  <2>3. CASE \E sender \in Accounts : RoleStep(sender) /\ UNCHANGED <<manifestVars, time>>
    BY <2>3 DEF RoleStep, SetOperator, TransferOwnership, manifestVars, ManifestInv, TypeOK, RoleTypes
  <2> QED BY <2>1, <2>2, <2>3
<1>2. SuspensionsArePast'
  BY <1>1, ManifestEntriesHaveTimes DEF ManifestInv, TypeOK, SuspensionsArePast, SuspendedAt
<1>3. HistoryReplays'
  BY <1>1, ManifestSameReplays DEF ManifestInv
<1> QED BY <1>1, <1>2, <1>3 DEF ManifestInv, TypeOK, PlainHasNoHash, NoticesAreLive, LiveHasPlan,
              ResumeCoversHistory, SuspendedAt

(* The invariant is inductive. *)
LEMMA ManifestSteps == ManifestInv /\ [Next]_vars => ManifestInv'
BY RegisterKeeps, ApproveKeeps, SuspendKeeps, ResumeKeeps, ActivateKeeps, RetireKeeps,
   SetUnregulatedKeeps, QuietKeeps, ManifestRestKeeps DEF Next, ManifestStep

(* The inductive invariant holds in every behaviour. *)
THEOREM ManifestInvHolds == Spec => []ManifestInv
BY ManifestStarts, ManifestSteps, PTL DEF Spec

(* Type correctness of TokenPolicyRegistry's state. *)
THEOREM ManifestTypesHold == Spec => []TypeOK
BY ManifestInvHolds, PTL DEF ManifestInv

(* A notice never survives the manifest it was given for. *)
THEOREM NoticesBelongToLiveManifests == Spec => []NoticesAreLive
BY ManifestInvHolds, PTL DEF ManifestInv

(* The engine never meets an executable manifest without a compiled plan. *)
THEOREM LiveManifestsHavePlans == Spec => []LiveHasPlan
BY ManifestInvHolds, PTL DEF ManifestInv

(* The manifest history replays to the registry, for every length. *)
THEOREM ManifestHistoryIsTruthful == Spec => []HistoryReplays
BY ManifestInvHolds, PTL DEF ManifestInv

(* Every step of another token, role or clock leaves a token's manifest. *)
LEMMA OnlyOwnSteps ==
    ASSUME [Next]_vars, NEW t \in Tokens, TypeOK,
           \/ status'[t] # status[t] \/ manifest'[t] # manifest[t] \/ plan'[t] # plan[t]
    PROVE  \E sender \in Accounts : ManifestStep(sender, t)
<1>1. PICK sender \in Accounts, u \in Tokens : ManifestStep(sender, u)
  BY DEF Next, Tick, vars, manifestVars
<1>2. ASSUME u # t
      PROVE  status'[t] = status[t] /\ manifest'[t] = manifest[t] /\ plan'[t] = plan[t]
  BY <1>1, <1>2 DEF ManifestStep, RegisterManifest, ScheduleManifestUpdate, SetFact, SetUnregulated,
       ApproveManifest, SuspendManifest, ScheduleManifestResume, CancelManifestResume,
       ResumeManifest, CancelManifestUpdate, ActivateManifestUpdate, RetireManifest,
       SetStatus, TypeOK
<1> QED BY <1>1, <1>2

(* Approved manifests change their semantics only with their version. *)
THEOREM VersionsNameSemantics == Spec => VersionNamesSemantics
<1>1. ASSUME ManifestInv, [Next]_vars, NEW t \in Tokens,
             status[t] \in Live \cup {"RETIRED"}, Semantics(t)' # Semantics(t)
      PROVE  version'[t] = version[t] + 1
  <2>1. manifest'[t] # manifest[t] \/ plan'[t] # plan[t]
    BY <1>1 DEF Semantics
  <2>2. PICK sender \in Accounts : ManifestStep(sender, t)
    BY <1>1, <2>1, OnlyOwnSteps DEF ManifestInv
  <2>3. \/ \E m \in Manifest, p \in Plans : RegisterManifest(sender, t, m, p)
        \/ ActivateManifestUpdate(sender, t)
    BY <1>1, <2>1, <2>2 DEF ManifestStep, ScheduleManifestUpdate, SetFact, SetUnregulated,
         ApproveManifest, SuspendManifest, ScheduleManifestResume, CancelManifestResume,
         ResumeManifest, CancelManifestUpdate, RetireManifest, Live
  <2>4. version' = [version EXCEPT ![t] = version[t] + 1]
    BY <2>3 DEF RegisterManifest, ActivateManifestUpdate, RecordHistory, UpdateBump
  <2> QED BY <1>1, <2>4 DEF ManifestInv, TypeOK
<1>2. ManifestInv /\ [Next]_vars =>
        [\A t \in Tokens :
            status[t] \in Live \cup {"RETIRED"} /\ Semantics(t)' # Semantics(t)
                => version'[t] = version[t] + 1]_vars
  BY <1>1
<1> QED BY <1>2, ManifestInvHolds, PTL DEF Spec, VersionNamesSemantics

(* A suspension that ends in resumption lasted for the delay. *)
THEOREM ResumptionsHaveNotice == Spec => ResumeAfterNotice
<1>1. ASSUME ManifestInv, [Next]_vars, NEW t \in Tokens, status[t] = "SUSPENDED", status'[t] = "ACTIVE",
             NEW i \in DOMAIN history[t], SuspendedAt(t, i)
      PROVE  time >= history[t][i].at + Delay
  <2>1. PICK sender \in Accounts : ManifestStep(sender, t)
    BY <1>1, OnlyOwnSteps DEF ManifestInv
  <2>2. ResumeManifest(sender, t)
    BY <1>1, <2>1 DEF ManifestStep, RegisterManifest, Registrable, ScheduleManifestUpdate, SetFact,
         SetUnregulated, ApproveManifest, SuspendManifest, ScheduleManifestResume,
         CancelManifestResume, CancelManifestUpdate, ActivateManifestUpdate, RetireManifest,
         SetStatus, ManifestInv, TypeOK
  <2>3. resume[t] # 0 /\ time >= resume[t]
    BY <2>2 DEF ResumeManifest, Ready
  <2>4. resume[t] >= history[t][i].at + Delay
    BY <1>1, <2>3 DEF ManifestInv, ResumeCoversHistory
  <2>5. history[t][i].at \in Nat /\ resume[t] \in Nat /\ time \in Nat
    BY <1>1, ManifestEntriesHaveTimes DEF ManifestInv, TypeOK
  <2> QED BY <2>3, <2>4, <2>5, ManifestAssumption
<1>2. ManifestInv /\ [Next]_vars =>
        [\A t \in Tokens : status[t] = "SUSPENDED" /\ status'[t] = "ACTIVE" =>
            \A i \in DOMAIN history[t] : SuspendedAt(t, i) => time >= history[t][i].at + Delay]_vars
  BY <1>1
<1> QED BY <1>2, ManifestInvHolds, PTL DEF Spec, ResumeAfterNotice

-----------------------------------------------------------------------------
(* A deployment has both registries, and each records only its own steps.    *)

NoPauseYet == paused = [s \in Scopes |-> FALSE] /\ pauseHistory = <<>>
NoManifestYet == history = [t \in Tokens |-> <<>>]

GovernanceInv ==
    /\ IF active = "OperatorRegistry" THEN PauseInv ELSE NoPauseYet
    /\ IF active = "TokenPolicyRegistry" THEN ManifestInv ELSE NoManifestYet

(* A deployment keeps the invariant of the registry that acts, and the other *)
(* stays empty.                                                              *)
LEMMA GovernanceSteps == GovernanceInv /\ [GovernanceNext]_governanceVars => GovernanceInv'
<1> SUFFICES ASSUME GovernanceInv, [GovernanceNext]_governanceVars PROVE GovernanceInv'
  OBVIOUS
<1>1. UNCHANGED active
  BY DEF GovernanceNext, RegistryNext, ToolNext, registryVars, governanceVars
<1>2. CASE active = "OperatorRegistry"
  <2>1. [PauseNext]_pauseControlVars /\ UNCHANGED manifestVars
    BY <1>2 DEF GovernanceNext, RegistryNext, ToolNext, registryVars, governanceVars,
                pauseControlVars, pauseVars, roleVars
  <2>2. PauseInv'
    BY <1>2, <2>1, PauseSteps DEF GovernanceInv
  <2> QED BY <1>1, <1>2, <2>1, <2>2 DEF GovernanceInv, NoManifestYet, manifestVars
<1>3. CASE active = "TokenPolicyRegistry"
  <2>1. [Next]_vars /\ UNCHANGED pauseVars
    BY <1>3 DEF GovernanceNext, RegistryNext, ToolNext, registryVars, governanceVars,
                vars, manifestVars, roleVars
  <2>2. ManifestInv'
    BY <1>3, <2>1, ManifestSteps DEF GovernanceInv
  <2> QED BY <1>1, <1>3, <2>1, <2>2 DEF GovernanceInv, NoPauseYet, pauseVars
<1>4. CASE active \notin {"OperatorRegistry", "TokenPolicyRegistry"}
  <2>1. UNCHANGED <<pauseVars, manifestVars>>
    BY <1>4 DEF GovernanceNext, RegistryNext, ToolNext, registryVars, governanceVars
  <2> QED BY <1>1, <1>4, <2>1 DEF GovernanceInv, NoPauseYet, NoManifestYet, pauseVars, manifestVars
<1> QED BY <1>2, <1>3, <1>4

(* Whatever governs a deployment does, the history it keeps replays: of each *)
(* scope of OperatorRegistry and of each token of TokenPolicyRegistry.       *)
THEOREM HistoriesAreTruthful == GovernanceSpec => []HistoriesReplay
<1>1. GovernanceInit => GovernanceInv
  BY PauseStarts, ManifestStarts
     DEF GovernanceInit, PauseInit, Init, GovernanceInv, NoPauseYet, NoManifestYet
<1>2. GovernanceInv => HistoriesReplay
  <2> SUFFICES ASSUME GovernanceInv PROVE PauseHistoryReplays /\ HistoryReplays
    BY DEF HistoriesReplay
  <2>1. NoPauseYet => PauseHistoryReplays
    BY DEF NoPauseYet, PauseHistoryReplays
  <2>2. NoManifestYet => HistoryReplays
    BY DEF NoManifestYet, HistoryReplays, Chained, EndsIn
  <2> QED BY <2>1, <2>2 DEF GovernanceInv, PauseInv, ManifestInv
<1> QED BY <1>1, <1>2, GovernanceSteps, PTL DEF GovernanceSpec

-----------------------------------------------------------------------------
(* The two compilers of a policy.  What the toolkit exports is distinct,     *)
(* in place and resolves, so of the entries with one key the first is the    *)
(* last.                                                                     *)

CompilerInv ==
    /\ draft \in Drafts \cup {NoDraft}
    /\ commitment # NoDraft =>
          /\ draft # NoDraft /\ draft \in Drafts /\ Exportable
          /\ commitment = compilePlanCommitment
    /\ CommitmentIsCompiled

(* Any list of a config: its places, and what is in them. *)
LEMMA ConfigLists ==
  ASSUME draft \in Drafts
  PROVE  /\ DOMAIN draft.overrides \subseteq Nat
         /\ \A j \in DOMAIN draft.overrides : draft.overrides[j] \in Overrides
         /\ DOMAIN draft.elementParameters \subseteq Nat
         /\ \A j \in DOMAIN draft.elementParameters : draft.elementParameters[j] \in Parameters
         /\ \A i \in DOMAIN draft.bindings : draft.bindings[i].recipeId \in RecipeIds
         /\ \A r \in RecipeIds : <<r, draft.version[r]>> \in RecipeVersions
         /\ draft.requires \in [RecipeVersions -> Required]
         /\ draft.default \in Actions
<1>1. /\ draft.overrides \in OverrideLists /\ draft.elementParameters \in ParameterLists
      /\ draft.bindings \in BindingLists /\ draft.default \in Actions
      /\ \A r \in RecipeIds : <<r, draft.version[r]>> \in RecipeVersions
      /\ draft.requires \in [RecipeVersions -> Required]
  <2>1. CASE draft \in DraftsOf(Actions, {"optional"}, OverrideLists, {<<>>})
    BY <2>1 DEF DraftsOf, ParameterLists
  <2>2. CASE draft \in DraftsOf({"BLOCK"}, {"none", "optional", "required"}, {<<>>}, ParameterLists)
    BY <2>2 DEF DraftsOf, OverrideLists, Actions
  <2> QED BY <2>1, <2>2 DEF Drafts
<1>2. /\ DOMAIN draft.overrides \subseteq Nat
      /\ \A j \in DOMAIN draft.overrides : draft.overrides[j] \in Overrides
  <2>1. CASE draft.overrides = <<>>
    BY <2>1
  <2>2. ASSUME NEW o \in Overrides, draft.overrides = <<o>>
        PROVE  <1>2!1 /\ <1>2!2
    BY <2>2
  <2>3. ASSUME NEW o \in Overrides, NEW mode \in OverrideModes,
               draft.overrides = <<o, [o EXCEPT !.mode = mode]>>
        PROVE  <1>2!1 /\ <1>2!2
    <3>1. [o EXCEPT !.mode = mode] \in Overrides
      BY DEF Overrides
    <3> QED BY <2>3, <3>1
  <2> QED BY <1>1, <2>1, <2>2, <2>3 DEF OverrideLists
<1>3. /\ DOMAIN draft.elementParameters \subseteq Nat
      /\ \A j \in DOMAIN draft.elementParameters : draft.elementParameters[j] \in Parameters
  BY <1>1 DEF ParameterLists
<1>4. \A i \in DOMAIN draft.bindings : draft.bindings[i].recipeId \in RecipeIds
  BY <1>1 DEF BindingLists, BindingOf, RecipeIds
<1> QED BY <1>1, <1>2, <1>3, <1>4

(* Of one entry the first is the last. *)
LEMMA OnlyEntry ==
  ASSUME NEW s, DOMAIN s \subseteq Nat, Distinct(Keys(s)), NEW i, NEW e, NEW j \in At(s, i, e)
  PROVE  /\ At(s, i, e) = {j} /\ Max(At(s, i, e)) = j /\ Min(At(s, i, e)) = j
         /\ j \in DOMAIN s /\ s[j].bindingIndex = i /\ s[j].elementId = e
<1>1. j \in DOMAIN s /\ j \in Nat /\ Key(s[j]) = <<i, e>>
  BY DEF At
<1>2. At(s, i, e) = {j}
  BY <1>1 DEF At, Distinct, Keys
<1>3. Max({j}) = j /\ Min({j}) = j
  BY <1>1 DEF Max, Min
<1> QED BY <1>1, <1>2, <1>3 DEF Key

(* What the toolkit resolves is what the registry finds. *)
LEMMA SameRecipe ==
  ASSUME draft \in Drafts, Exportable, NEW i \in DOMAIN draft.bindings
  PROVE  /\ _recipeElements(i) = requiredElements(draft.bindings[i])
         /\ _recipeElements(i) \in Required
         /\ <<draft.bindings[i].recipeId, draft.bindings[i].recipeVersion>> \in Listed
<1>1. draft.bindings[i].recipeVersion = draft.version[draft.bindings[i].recipeId]
  BY DEF Exportable, Resolves, Members
<1> QED BY <1>1, ConfigLists DEF _recipeElements, requiredElements, recipeOf, Listed

(* Both compile an override to the same action. *)
LEMMA SameAction ==
  ASSUME draft \in Drafts, Exportable, NEW i \in DOMAIN draft.bindings, NEW e
  PROVE  LET mine == At(draft.overrides, i, e)
         IN /\ _compiledAction(i, e) =
                 IF mine = {} THEN default(e)
                 ELSE compileAction(default(e), draft.overrides[Max(mine)].mode)
            /\ _compiledAction(i, e) # "reverts"
<1> DEFINE mine == At(draft.overrides, i, e)
<1>1. default(e) \in Actions
  BY ConfigLists DEF default, Actions
<1>2. CASE mine = {}
  BY <1>1, <1>2 DEF _compiledAction, Actions
<1>3. ASSUME NEW j \in mine
      PROVE  /\ _compiledAction(i, e) = compileAction(default(e), draft.overrides[Max(mine)].mode)
             /\ _compiledAction(i, e) # "reverts"
  <2> DEFINE mode == draft.overrides[j].mode
  <2>1. /\ mine # {} /\ Max(mine) = j /\ Min(mine) = j
        /\ j \in DOMAIN draft.overrides /\ draft.overrides[j].elementId = e
    BY <1>3, OnlyEntry, ConfigLists DEF Exportable, validateOverrides
  <2>2. mode \in OverrideModes
    BY <2>1, ConfigLists DEF Overrides
  <2>3. compileAction(default(e), mode) # "throws"
    BY <2>1 DEF Exportable, validateOverrides, Members
  <2>4. _compiledAction(i, e) =
          LET loosened ==
                  \/ mode = "ESCALATE_TO_OPERATOR_REVIEW" /\ default(e) = "BLOCK"
                  \/ mode = "FORCE_FLAG_ONLY" /\ default(e) # "FLAG_ONLY"
          IN IF loosened THEN "reverts"
             ELSE IF mode = "ESCALATE_TO_BLOCK" THEN "BLOCK"
             ELSE IF mode = "ESCALATE_TO_OPERATOR_REVIEW" THEN "OPERATOR_REVIEW"
             ELSE default(e)
    BY <2>1 DEF _compiledAction
  <2> HIDE DEF mode
  <2>5. /\ _compiledAction(i, e) = compileAction(default(e), mode)
        /\ _compiledAction(i, e) # "reverts"
    BY <1>1, <2>2, <2>3, <2>4 DEF compileAction, Actions, OverrideModes
  <2> QED BY <2>1, <2>5 DEF mode
<1> QED BY <1>2, <1>3

(* Both compile a parameter to the same bytes. *)
LEMMA SameParameter ==
  ASSUME draft \in Drafts, Exportable, NEW i \in DOMAIN draft.bindings,
         NEW e \in Members(_recipeElements(i))
  PROVE  LET mine == At(draft.elementParameters, i, e)
         IN /\ _parameterFor(i, e) =
                 IF mine = {} THEN "0x" ELSE draft.elementParameters[Max(mine)].parameters
            /\ _parameterFor(i, e) # "reverts"
<1> DEFINE mine == At(draft.elementParameters, i, e)
<1>1. e \in Elements /\ e \in Members(requiredElements(draft.bindings[i]))
  <2>1. _recipeElements(i) \in Required /\ _recipeElements(i) = requiredElements(draft.bindings[i])
    BY SameRecipe
  <2> QED BY <2>1 DEF Required, Members, Elements
<1>2. CASE mine = {}
  <2>1. takes(e) # "required"
    BY <1>1, <1>2 DEF Exportable, validatePolicyConfig
  <2> QED BY <1>2, <2>1 DEF _parameterFor
<1>3. ASSUME NEW j \in mine
      PROVE  /\ _parameterFor(i, e) = draft.elementParameters[Max(mine)].parameters
             /\ _parameterFor(i, e) # "reverts"
  <2>1. /\ mine # {} /\ Max(mine) = j /\ Min(mine) = j
        /\ j \in DOMAIN draft.elementParameters /\ draft.elementParameters[j].elementId = e
    BY <1>3, OnlyEntry, ConfigLists DEF Exportable, validatePolicyConfig
  <2>2. takes(e) # "none" /\ draft.elementParameters[j].parameters = "fits"
    BY <2>1 DEF Exportable, validatePolicyConfig, Members
  <2> QED BY <2>1, <2>2 DEF _parameterFor
<1> QED BY <1>2, <1>3

(* The registry refuses nothing of a binding that was exported. *)
LEMMA ExportedIsAccepted ==
  ASSUME draft \in Drafts, Exportable, NEW i \in DOMAIN draft.bindings
  PROVE  _accepted(i)
<1>1. _recipeElements(i) = requiredElements(draft.bindings[i])
  BY SameRecipe
<1>2. ASSUME NEW j \in DOMAIN draft.overrides, draft.overrides[j].bindingIndex = i
      PROVE  draft.overrides[j].elementId \in Members(_recipeElements(i))
  BY <1>1, <1>2 DEF Exportable, validateOverrides, InPlace, Members
<1>3. ASSUME NEW j \in DOMAIN draft.elementParameters, draft.elementParameters[j].bindingIndex = i
      PROVE  draft.elementParameters[j].elementId \in Members(_recipeElements(i))
  BY <1>1, <1>3 DEF Exportable, validatePolicyConfig, InPlace, Members
<1>4. ASSUME NEW j \in DOMAIN draft.overrides, NEW k \in DOMAIN draft.overrides, j # k,
             draft.overrides[j].bindingIndex = i, draft.overrides[k].bindingIndex = i
      PROVE  draft.overrides[j].elementId # draft.overrides[k].elementId
  BY <1>4 DEF Exportable, validateOverrides, Distinct, Keys, Key
<1>5. \A e \in Members(_recipeElements(i)) :
        "reverts" \notin {_compiledAction(i, e), _parameterFor(i, e)}
  BY SameAction, SameParameter
<1> QED BY <1>2, <1>3, <1>4, <1>5 DEF _accepted

(* The registry makes of an exported plan what the toolkit committed to. *)
LEMMA SamePlanCompiled ==
  ASSUME draft \in Drafts, Exportable
  PROVE  _compileInto = compilePlanCommitment
<1>1. ASSUME NEW i \in DOMAIN draft.bindings
      PROVE  _compileInto[i] = compilePlanCommitment[i]
  <2> DEFINE required == requiredElements(draft.bindings[i])
  <2>1. _recipeElements(i) = required
    BY SameRecipe
  <2>2. ASSUME NEW r \in DOMAIN required
        PROVE  /\ _compiledAction(i, required[r]) =
                    LET mine == At(draft.overrides, i, required[r])
                    IN IF mine = {} THEN default(required[r])
                       ELSE compileAction(default(required[r]), draft.overrides[Max(mine)].mode)
               /\ _parameterFor(i, required[r]) =
                    LET mine == At(draft.elementParameters, i, required[r])
                    IN IF mine = {} THEN "0x" ELSE draft.elementParameters[Max(mine)].parameters
    <3>1. required[r] \in Members(_recipeElements(i))
      BY <2>1 DEF Members
    <3> QED BY <3>1, SameAction, SameParameter
  <2> HIDE DEF required
  <2> QED BY <2>1, <2>2 DEF _compileInto, compilePlanCommitment, required
<1> QED BY <1>1 DEF _compileInto, compilePlanCommitment

(* Checks and commitment depend on the draft alone. *)
LEMMA SameDraft ==
  ASSUME UNCHANGED draft
  PROVE  Exportable' = Exportable /\ compilePlanCommitment' = compilePlanCommitment
<1>1. /\ \A b : requiredElements(b)' = requiredElements(b)
      /\ \A e : default(e)' = default(e) /\ takes(e)' = takes(e)
      /\ \A b : Resolves(b)' = Resolves(b)
  BY DEF requiredElements, recipeOf, default, takes, Resolves
<1>2. /\ validateOverrides' = validateOverrides /\ validatePolicyConfig' = validatePolicyConfig
  BY <1>1 DEF validateOverrides, validatePolicyConfig, InPlace
<1> QED BY <1>1, <1>2 DEF Exportable, compilePlanCommitment

LEMMA CompilerSteps == CompilerInv /\ [CompilerNext]_compilerVars => CompilerInv'
<1> SUFFICES ASSUME CompilerInv, [CompilerNext]_compilerVars PROVE CompilerInv'
  OBVIOUS
<1>1. CASE Write
  BY <1>1 DEF Write, CompilerInv, CommitmentIsCompiled
<1>2. CASE Export
  <2>1. /\ draft # NoDraft /\ draft \in Drafts /\ Exportable /\ UNCHANGED <<draft, compiled>>
        /\ commitment' = compilePlanCommitment /\ compiled = NoDraft
    BY <1>2 DEF Export, CompilerInv, CommitmentIsCompiled
  <2>2. Exportable' /\ commitment' = compilePlanCommitment'
    BY <2>1, SameDraft
  <2> QED BY <2>1, <2>2 DEF CompilerInv, CommitmentIsCompiled
<1>3. ASSUME NEW registered, Compile(registered) PROVE CompilerInv'
  <2>1. /\ draft # NoDraft /\ draft \in Drafts /\ Exportable
        /\ commitment = compilePlanCommitment /\ UNCHANGED <<draft, commitment>>
        /\ Listed \subseteq registered
    BY <1>3 DEF Compile, CompilerInv
  <2>2. _validateBindings
    BY <2>1 DEF Exportable, _validateBindings
  <2>3. _validatePolicyConfig
    BY <2>1 DEF Exportable, validatePolicyConfig, _validatePolicyConfig, InPlace
  <2>4. \A b \in Members(draft.bindings) : <<b.recipeId, b.recipeVersion>> \in registered
    BY <2>1, SameRecipe DEF Members
  <2>5. \A i \in DOMAIN draft.bindings : _accepted(i)
    BY <2>1, ExportedIsAccepted
  <2>6. \A o \in Members(draft.overrides) : o.bindingIndex <= Len(draft.bindings)
    BY <2>1 DEF Exportable, validateOverrides, InPlace
  <2>7. compiled' = _compileInto
    BY <1>3, <2>2, <2>3, <2>4, <2>5, <2>6 DEF Compile
  <2>8. compiled' = commitment'
    BY <2>1, <2>7, SamePlanCompiled
  <2>9. Exportable' /\ compilePlanCommitment' = compilePlanCommitment
    BY <2>1, SameDraft
  <2> QED BY <2>1, <2>8, <2>9 DEF CompilerInv, CommitmentIsCompiled
<1>4. CASE UNCHANGED compilerVars
  <2>1. UNCHANGED <<draft, commitment, compiled>>
    BY <1>4 DEF compilerVars
  <2>2. Exportable' = Exportable /\ compilePlanCommitment' = compilePlanCommitment
    BY <2>1, SameDraft
  <2> QED BY <2>1, <2>2 DEF CompilerInv, CommitmentIsCompiled
<1> QED BY <1>1, <1>2, <1>3, <1>4 DEF CompilerNext

LEMMA CompilerStarts == CompilerInit => CompilerInv
  BY DEF CompilerInit, CompilerInv, CommitmentIsCompiled

(* What was exported passed the toolkit's checks and is the plan it names.   *)
THEOREM CompilerInvHolds == CompilerSpec => []CompilerInv
  BY CompilerStarts, CompilerSteps, PTL DEF CompilerSpec

(* The registry takes every plan the toolkit exports and compiles from it    *)
(* what the toolkit committed to, whatever recipes and versions exist and    *)
(* whichever of them are registered when the plan is sent.                   *)
THEOREM CommitmentsAreCompiled == CompilerSpec => []CommitmentIsCompiled
<1>1. CompilerInv => CommitmentIsCompiled
  BY DEF CompilerInv
<1> QED BY <1>1, CompilerInvHolds, PTL

===============================================================================
