----------------------- MODULE QuoteCoordinatorProofs -----------------------
(***************************************************************************)
(* What the quote coordinator guarantees for every number of keys, callers *)
(* and buckets, every timing and every chain.  The inductive invariant     *)
(* joins the types, the shape of single records, and what relates records  *)
(* to nonces, replies and calls; a second one adds up the leases.          *)
(***************************************************************************)
EXTENDS QuoteCoordinator, SumLemmas, TLAPS

(* What holds of a record whatever happened to it. *)
GoodRecord(R) ==
    /\ R \in Record
    /\ R.state = "ABSENT" => R = Absent
    /\ R.released <=> R.state \in Terminal
    /\ R.state = "RESERVED" => R.sig = NoSig
    /\ R.state \in {"PUBLISHED", "FILLED", "CANCELLED"} \cup Observed => R.sig # NoSig

(* A call that may sign for a strict caller works on a record with evidence. *)
MaySign(x) ==
    x.strict =>
        /\ x.pc = "reserve" => x.evidence # NoEvidence
        /\ x.pc \in {"sign", "signing"} =>
             rec[x.key].state # "ABSENT" /\ rec[x.key].evidence # NoEvidence

SignsWithEvidence == \A c \in Callers : MaySign(call[c])

EnvironmentTypes ==
    /\ now \in 0..MaxTime
    /\ head \in 0..MaxHead
    /\ canon \in [1..MaxHead -> 0..MaxForks]
    /\ forks \in 0..MaxForks
    /\ onchain \in [Keys -> Tx \cup {NoTx}]
    /\ feed \in [Keys -> SUBSET Tx]

IInv ==
    /\ Types
    /\ \A k \in Keys : GoodRecord(rec[k])
    /\ \A k \in Keys : rec[k].state = "ABSENT" => delivered[k] = {}
    /\ NonceUnique
    /\ OneQuotePerKey
    /\ StrictQuotesCarryEvidence
    /\ SignsWithEvidence

-----------------------------------------------------------------------------
(* What a record keeps when it is updated. *)
Keeps(R, Q) ==
    /\ R.state \notin Terminal \cup {"ABSENT"}
    /\ GoodRecord(Q)
    /\ Q.state # "ABSENT"
    /\ Q.nonce = R.nonce /\ Q.evidence = R.evidence
    /\ Q.req = R.req /\ Q.amount = R.amount
    /\ Q.sig = R.sig \/ R.sig = NoSig

(* A step in which every record is left alone or keeps its quote. *)
KeepsAll ==
    /\ rec' = [k \in Keys |-> rec'[k]]
    /\ \A k \in Keys : rec'[k] = rec[k] \/ Keeps(rec[k], rec'[k])

(* Closing an open record without a settlement keeps its quote. *)
LEMMA CloseKeeps ==
    ASSUME NEW R, GoodRecord(R), Open(R), NEW f \in {"EXPIRED", "SIGN_FAILED", "REVOKED"}
    PROVE  Keeps(R, Close(R, f))
  BY DEF GoodRecord, Open, Keeps, Close, Record, States, Terminal, Observed

(* A lease that expires is that of an open record. *)
LEMMA ExpiredIsOpen ==
    ASSUME NEW R, GoodRecord(R), NEW t, LeaseExpired(R, t)
    PROVE  Open(R)
  BY DEF GoodRecord, Open, LeaseExpired, Holds, Record, States, Terminal, Observed

(* releaseExpiredLeases keeps every quote. *)
LEMMA ReleaseKeeps ==
    ASSUME NEW t, \A k \in Keys : GoodRecord(rec[k]), NEW k \in Keys
    PROVE  ReleaseExpired(rec, t)[k] = rec[k] \/ Keeps(rec[k], ReleaseExpired(rec, t)[k])
  <1>1. CASE LeaseExpired(rec[k], t)
    BY <1>1, ExpiredIsOpen, CloseKeeps DEF ReleaseExpired
  <1>2. CASE ~LeaseExpired(rec[k], t)
    BY <1>2 DEF ReleaseExpired
  <1> QED BY <1>1, <1>2

(* reconcile's treatment of an observation keeps the quote. *)
LEMMA SettledKeeps ==
    ASSUME NEW R, GoodRecord(R), NEW known
    PROVE  Settled(R, known) = R \/ Keeps(R, Settled(R, known))
  <1>1. CASE R.state \notin Observed \/ ~known
    BY <1>1 DEF Settled
  <1>2. CASE R.state \in Observed /\ Settled(R, known) = [R EXCEPT !.state = "PUBLISHED", !.obs = NoTx]
    BY <1>2 DEF GoodRecord, Keeps, Record, States, Terminal, Observed
  <1>3. CASE R.state \in Observed /\ Settled(R, known) = Close(R, FinalState(R))
    BY <1>3 DEF GoodRecord, Keeps, Record, States, Terminal, Observed, Close, FinalState
  <1> QED BY <1>1, <1>2, <1>3 DEF Settled

-----------------------------------------------------------------------------
(* What the calls and the replies look like after a step. *)

GoodCalls ==
    /\ call' \in [Callers -> Call]
    /\ \A c \in Callers : call'[c] = call[c] \/ MaySign(call[c])'

GoodReplies ==
    /\ delivered' \in [Keys -> SUBSET Reply]
    /\ \A k \in Keys : \A d \in delivered'[k] :
          \/ d \in delivered[k]
          \/ /\ rec[k].state # "ABSENT"
             /\ d.nonce = rec'[k].nonce /\ d.sig = rec'[k].sig
             /\ d.strict => rec'[k].evidence # NoEvidence

FinalStep == \A k \in Keys : rec[k].state \in Terminal => rec'[k] = rec[k]

(* A step that keeps every quote preserves the invariant. *)
LEMMA KeepingPreserves ==
    ASSUME IInv, KeepsAll, GoodCalls, GoodReplies, UNCHANGED lastNonce, EnvironmentTypes'
    PROVE  IInv' /\ FinalStep
  <1>1. \A k \in Keys : GoodRecord(rec'[k])
    BY DEF IInv, KeepsAll, Keeps
  <1>2. rec' \in [Keys -> Record]
    BY <1>1 DEF KeepsAll, GoodRecord
  <1>3. Types'
    BY <1>2 DEF IInv, Types, GoodCalls, GoodReplies, EnvironmentTypes
  <1>4. \A k \in Keys : rec'[k].nonce = rec[k].nonce /\ rec'[k].evidence = rec[k].evidence
    BY DEF KeepsAll, Keeps
  <1>5. \A k \in Keys : rec'[k].state = "ABSENT" <=> rec[k].state = "ABSENT"
    BY DEF KeepsAll, Keeps
  <1>6. \A k \in Keys : rec'[k].state = "ABSENT" => delivered'[k] = {}
    BY <1>5 DEF IInv, GoodReplies
  <1>7. NonceUnique'
    BY <1>4, <1>5 DEF IInv, NonceUnique
  <1>8. ASSUME NEW k \in Keys, NEW d \in delivered'[k]
        PROVE  d.nonce = rec'[k].nonce /\ d.sig = rec'[k].sig
    <2>1. CASE d \in delivered[k]
      <3>1. d.nonce = rec[k].nonce /\ d.sig = rec[k].sig /\ d.sig # NoSig
        BY <2>1, CoordinatorAssumption DEF IInv, OneQuotePerKey, Types, Reply
      <3> QED BY <3>1, <1>4 DEF KeepsAll, Keeps
    <2> QED BY <2>1 DEF GoodReplies
  <1>9. ASSUME NEW k \in Keys, NEW d \in delivered'[k]
        PROVE  d.strict => rec'[k].evidence # NoEvidence
    BY <1>4 DEF IInv, StrictQuotesCarryEvidence, GoodReplies
  <1>10. ASSUME NEW c \in Callers PROVE MaySign(call[c])'
    <2>1. call[c].key \in Keys
      BY DEF IInv, Types, Call
    <2> QED BY <2>1, <1>4, <1>5 DEF IInv, SignsWithEvidence, MaySign, GoodCalls
  <1>11. FinalStep
    BY DEF KeepsAll, Keeps, FinalStep
  <1> QED BY <1>1, <1>3, <1>6, <1>7, <1>8, <1>9, <1>10, <1>11
          DEF IInv, OneQuotePerKey, StrictQuotesCarryEvidence, SignsWithEvidence

(* Moving to another program point changes nothing else of the calls. *)
LEMMA GotoShape ==
    ASSUME IInv, NEW c \in Callers, NEW pc \in Pcs, Goto(c, pc)
    PROVE  /\ call' \in [Callers -> Call] /\ call'[c].pc = pc
           /\ \A d \in Callers \ {c} : call'[d] = call[d]
  <1> DEFINE q == [call[c] EXCEPT !.pc = pc]
  <1>1. call \in [Callers -> Call] /\ call[c] \in Call
    BY DEF IInv, Types
  <1>2. q \in Call /\ q.pc = pc
    BY <1>1 DEF Call
  <1>3. call' = [call EXCEPT ![c] = q]
    BY <1>1 DEF Goto
  <1> HIDE DEF q
  <1> QED BY <1>1, <1>2, <1>3

(* Moving to a program point that neither reserves nor signs. *)
LEMMA GotoGood ==
    ASSUME IInv, NEW c \in Callers, NEW pc \in Pcs \ {"reserve", "sign", "signing"}, Goto(c, pc)
    PROVE  GoodCalls
  <1>1. /\ call' \in [Callers -> Call] /\ call'[c].pc = pc
        /\ \A d \in Callers \ {c} : call'[d] = call[d]
    BY GotoShape
  <1>2. MaySign(call[c])'
    BY <1>1 DEF MaySign
  <1> QED BY <1>1, <1>2 DEF GoodCalls

(* A reply that satisfies the promises about replies keeps them all. *)
LEMMA ReturnGood ==
    ASSUME IInv, NEW c \in Callers, Return(c)
    PROVE  GoodCalls
  <1>1. Idle \in Call
    BY CoordinatorAssumption DEF Idle, Call, Pcs, NoEvidence
  <1>2. Idle.strict = FALSE
    BY DEF Idle
  <1> QED BY <1>1, <1>2 DEF IInv, Types, Return, GoodCalls, MaySign

(* Nothing is delivered, so what was promised of the replies stands. *)
LEMMA SameReplies ==
    ASSUME IInv, UNCHANGED delivered
    PROVE  GoodReplies
  BY DEF IInv, Types, GoodReplies

(* Delivering the quote that is persisted after the step. *)
LEMMA DeliverGood ==
    ASSUME IInv, NEW c \in Callers, NEW R \in Record, Deliver(c, R),
           rec[call[c].key].state # "ABSENT", rec'[call[c].key] = R,
           R.sig # NoSig, call[c].strict => R.evidence # NoEvidence
    PROVE  GoodCalls /\ GoodReplies
  <1>1. GoodCalls
    BY ReturnGood DEF Deliver
  <1>2. call[c].key \in Keys /\ call[c].strict \in BOOLEAN
    BY DEF IInv, Types, Call
  <1>3. [nonce |-> R.nonce, sig |-> R.sig, strict |-> call[c].strict] \in Reply
    BY <1>2 DEF Reply, Record
  <1> QED BY <1>1, <1>2, <1>3 DEF IInv, Types, Deliver, GoodReplies

(* responseOrResumeExisting on a record that exists. *)
LEMMA RespondGood ==
    ASSUME IInv, NEW c \in Callers, UNCHANGED rec, rec[call[c].key].state # "ABSENT",
           RespondExisting(c, rec[call[c].key])
    PROVE  GoodCalls /\ GoodReplies
  <1> DEFINE R == rec[call[c].key]
  <1>1. R \in Record
    BY DEF IInv, Types, Call
  <1>2. CASE Fail(c)
    BY <1>2, ReturnGood, SameReplies DEF Fail
  <1>3. CASE R.sig # NoSig /\ (call[c].strict => R.evidence # NoEvidence) /\ Deliver(c, R)
    BY <1>1, <1>3, DeliverGood
  <1>4. CASE Goto(c, "resume") /\ UNCHANGED delivered
    BY <1>4, GotoGood, SameReplies DEF Pcs
  <1> QED BY <1>2, <1>3, <1>4 DEF RespondExisting

-----------------------------------------------------------------------------
(* One lemma per kind of step. *)

(* A step that leaves the records alone keeps every quote. *)
LEMMA SameKeeps ==
    ASSUME IInv, UNCHANGED rec
    PROVE  KeepsAll
  BY DEF IInv, Types, KeepsAll

(* Replacing one record by one that keeps its quote. *)
LEMMA StoreKeeps ==
    ASSUME IInv, NEW k \in Keys, NEW R, Store(k, R), Keeps(rec[k], R)
    PROVE  KeepsAll /\ UNCHANGED lastNonce
  BY DEF IInv, Types, Store, KeepsAll

(* Clock, chain and indexer stay within their types. *)
LEMMA EnvironmentKept ==
    ASSUME IInv, UNCHANGED <<now, chainVars, feed>>
    PROVE  EnvironmentTypes'
  BY DEF IInv, Types, EnvironmentTypes, chainVars

(* The fields of a call. *)
LEMMA CallFields ==
    ASSUME IInv, NEW c \in Callers
    PROVE  /\ call[c].key \in Keys /\ call[c].req \in Requests
           /\ call[c].strict \in BOOLEAN /\ call[c].t0 \in Nat
           /\ call[c].amount \in Nat /\ call[c].evidence \in Nat
           /\ GoodRecord(rec[call[c].key])
  BY DEF IInv, Types, Call

(* Each step of a caller, in turn, keeps the invariant. *)
LEMMA BeginStep ==
    ASSUME IInv, NEW c \in Callers, NEW k \in Keys, NEW r \in Requests, NEW s \in Modes,
           Begin(c, k, r, s)
    PROVE  IInv' /\ FinalStep
  <1>1. [Idle EXCEPT !.pc = "lookup", !.key = k, !.req = r, !.strict = s, !.t0 = now] \in Call
    <2>1. Idle \in Call
      BY CoordinatorAssumption DEF Idle, Call, Pcs, NoEvidence
    <2>2. s \in BOOLEAN /\ now \in Nat
      BY CoordinatorAssumption DEF IInv, Types
    <2> QED BY <2>1, <2>2 DEF Call, Pcs
  <1>2. [Idle EXCEPT !.pc = "lookup", !.key = k, !.req = r, !.strict = s, !.t0 = now].pc = "lookup"
    BY DEF Idle
  <1>3. GoodCalls
    BY <1>1, <1>2 DEF IInv, Types, Begin, GoodCalls, MaySign
  <1> QED BY <1>3, SameKeeps, SameReplies, EnvironmentKept, KeepingPreserves
          DEF Begin, storeVars

LEMMA LookupStep ==
    ASSUME IInv, NEW c \in Callers, Lookup(c)
    PROVE  IInv' /\ FinalStep
  <1>1. GoodCalls /\ GoodReplies
    BY GotoGood, SameReplies, RespondGood DEF Lookup, storeVars, Pcs
  <1> QED BY <1>1, SameKeeps, EnvironmentKept, KeepingPreserves DEF Lookup, storeVars

LEMMA PriceStep ==
    ASSUME IInv, NEW c \in Callers, Price(c)
    PROVE  IInv' /\ FinalStep
  <1>1. GoodCalls /\ GoodReplies
    <2>1. CASE Fail(c)
      BY <2>1, ReturnGood, SameReplies DEF Fail
    <2>2. CASE ~Fail(c)
      <3>1. PICK a \in Amounts, v \in Validities :
              /\ call' = [call EXCEPT ![c].pc = "reserve", ![c].amount = a,
                           ![c].evidence = IF call[c].strict THEN call[c].t0 + v ELSE NoEvidence]
              /\ UNCHANGED delivered
        BY <2>2 DEF Price
      <3> DEFINE e == IF call[c].strict THEN call[c].t0 + v ELSE NoEvidence
      <3>2. e \in Nat /\ a \in Nat /\ (call[c].strict => e # NoEvidence)
        BY CoordinatorAssumption, CallFields DEF NoEvidence
      <3> HIDE DEF e
      <3>3. call' = [call EXCEPT ![c].pc = "reserve", ![c].amount = a, ![c].evidence = e]
        BY <3>1 DEF e
      <3>4. call' \in [Callers -> Call]
        <4>1. call[c] \in Call
          BY DEF IInv, Types
        <4>2. [call[c] EXCEPT !.pc = "reserve", !.amount = a, !.evidence = e] \in Call
          BY <3>2, <4>1 DEF Call, Pcs
        <4>3. call' = [call EXCEPT ![c] =
                         [call[c] EXCEPT !.pc = "reserve", !.amount = a, !.evidence = e]]
          BY <3>3, <4>1 DEF IInv, Types, Call
        <4> QED BY <4>2, <4>3 DEF IInv, Types
      <3>5. \A d \in Callers : call'[d] = call[d] \/ MaySign(call[d])'
        BY <3>2, <3>3 DEF IInv, Types, Call, MaySign
      <3> QED BY <3>1, <3>4, <3>5, SameReplies DEF GoodCalls
    <2> QED BY <2>1, <2>2
  <1> QED BY <1>1, SameKeeps, EnvironmentKept, KeepingPreserves DEF Price, storeVars

(* A new record: the released leases keep their quotes, the nonce is fresh, *)
(* and nothing was ever delivered under the key.                            *)
LEMMA ReserveNew ==
    ASSUME IInv, NEW c \in Callers, rec[call[c].key].state = "ABSENT",
           call[c].pc = "reserve",
           rec' = [ReleaseExpired(rec, call[c].t0) EXCEPT ![call[c].key] = NewRecord(c)],
           lastNonce' = NextNonce, Goto(c, "sign"), UNCHANGED delivered, EnvironmentTypes'
    PROVE  IInv' /\ FinalStep
  <1> DEFINE k == call[c].key
             N == NewRecord(c)
  <1>1. k \in Keys /\ lastNonce \in Nat /\ lastNonce' = lastNonce + 1
    BY CallFields DEF IInv, Types, NextNonce
  <1>2. N.nonce = lastNonce + 1 /\ N.state = "RESERVED" /\ N.evidence = call[c].evidence
    BY DEF NewRecord, NextNonce
  <1>3. TtlOf[call[c].req] \in Nat
    BY CallFields, CoordinatorAssumption
  <1>4. GoodRecord(N)
    BY <1>1, <1>3, CallFields
    DEF NewRecord, NextNonce, GoodRecord, Record, States, Terminal, Observed
  <1> HIDE DEF N
  <1>5. rec'[k] = N
    BY <1>1 DEF ReleaseExpired, N
  <1>6. \A l \in Keys \ {k} : rec'[l] = rec[l] \/ Keeps(rec[l], rec'[l])
    BY ReleaseKeeps DEF IInv, ReleaseExpired
  <1>7. DOMAIN rec' = Keys /\ rec' = [l \in Keys |-> rec'[l]]
    BY DEF ReleaseExpired
  <1>8. \A l \in Keys : GoodRecord(rec'[l])
    BY <1>4, <1>5, <1>6 DEF IInv, Keeps
  <1>9. rec' \in [Keys -> Record]
    BY <1>7, <1>8 DEF GoodRecord
  <1>10. call' \in [Callers -> Call]
    <2>1. "sign" \in Pcs
      BY DEF Pcs
    <2> QED BY <2>1, GotoShape
  <1>11. Types'
    BY <1>1, <1>9, <1>10 DEF IInv, Types, EnvironmentTypes
  <1>12. \A l \in Keys \ {k} :
           /\ rec'[l].nonce = rec[l].nonce /\ rec'[l].evidence = rec[l].evidence
           /\ rec'[l].state = "ABSENT" <=> rec[l].state = "ABSENT"
    BY <1>6 DEF Keeps
  <1>13. delivered[k] = {}
    BY <1>1 DEF IInv
  <1>14. \A l \in Keys : rec'[l].state = "ABSENT" => delivered'[l] = {}
    BY <1>12, <1>13 DEF IInv
  <1>15. NonceUnique'
    <2>1. \A l \in Keys \ {k} : rec[l].state # "ABSENT" => rec[l].nonce \in 1..lastNonce
      BY DEF IInv, NonceUnique
    <2>2. \A l \in Keys \ {k} : rec[l].state = "ABSENT" => rec[l].nonce = 0
      <3>1. Absent.nonce = 0
        BY DEF Absent
      <3> QED BY <3>1 DEF IInv, GoodRecord
    <2>3. \A l \in Keys \ {k} : rec'[l].nonce = rec[l].nonce /\ rec'[l].nonce # rec'[k].nonce
      BY <1>1, <1>2, <1>5, <1>12, <2>1, <2>2
    <2>4. ASSUME NEW l \in Keys, rec'[l].state # "ABSENT"
          PROVE  rec'[l].nonce \in 1..lastNonce'
      BY <1>1, <1>2, <1>5, <1>12, <2>1, <2>4
    <2>5. ASSUME NEW l \in Keys, rec'[l].state # "ABSENT", NEW m \in Keys \ {l}
          PROVE  rec'[m].nonce # rec'[l].nonce
      <3>1. CASE l = k \/ m = k
        BY <3>1, <2>3, <1>1
      <3>2. CASE l # k /\ m # k
        BY <3>2, <2>3, <2>5, <1>12 DEF IInv, NonceUnique
      <3> QED BY <3>1, <3>2
    <2> QED BY <2>4, <2>5 DEF NonceUnique
  <1>16. ASSUME NEW l \in Keys, NEW d \in delivered'[l]
         PROVE  /\ d.nonce = rec'[l].nonce /\ d.sig = rec'[l].sig
                /\ d.strict => rec'[l].evidence # NoEvidence
    <2>1. l # k /\ d \in delivered[l]
      BY <1>13
    <2>2. d.sig # NoSig /\ d.sig = rec[l].sig /\ d.nonce = rec[l].nonce
      BY <2>1, CoordinatorAssumption DEF IInv, Types, Reply, OneQuotePerKey
    <2>3. rec'[l].sig = rec[l].sig
      BY <2>1, <2>2, <1>6 DEF Keeps
    <2> QED BY <2>1, <2>2, <2>3, <1>12 DEF IInv, StrictQuotesCarryEvidence
  <1>17. ASSUME NEW d \in Callers PROVE MaySign(call[d])'
    <2>1. CASE d = c
      <3>1. /\ call'[c].strict = call[c].strict /\ call'[c].pc = "sign"
            /\ call'[c].key = k
        BY DEF Goto, IInv, Types, Call
      <3>2. call[c].strict => call[c].evidence # NoEvidence
        BY DEF IInv, SignsWithEvidence, MaySign
      <3> QED BY <2>1, <3>1, <3>2, <1>2, <1>5 DEF MaySign
    <2>2. CASE d # c
      <3>1. call'[d] = call[d] /\ call[d].key \in Keys
        BY <2>2, CallFields DEF Goto, IInv, Types
      <3>2. MaySign(call[d])
        BY DEF IInv, SignsWithEvidence
      <3>3. CASE call[d].key = k
        BY <3>1, <3>2, <3>3, <1>1, <1>5, <1>2 DEF MaySign
      <3>4. CASE call[d].key # k
        BY <3>1, <3>2, <3>4, <1>12 DEF MaySign
      <3> QED BY <3>3, <3>4
    <2> QED BY <2>1, <2>2
  <1>18. FinalStep
    BY <1>6 DEF FinalStep, Keeps, Terminal
  <1> QED BY <1>8, <1>11, <1>14, <1>15, <1>16, <1>17, <1>18
          DEF IInv, OneQuotePerKey, StrictQuotesCarryEvidence, SignsWithEvidence

LEMMA ReserveStep ==
    ASSUME IInv, NEW c \in Callers, Reserve(c)
    PROVE  IInv' /\ FinalStep
  <1>1. CASE UNCHANGED storeVars
    <2>1. GoodCalls /\ GoodReplies
      <3>1. CASE Fail(c)
        BY <3>1, ReturnGood, SameReplies DEF Fail
      <3>2. CASE rec[call[c].key].state # "ABSENT" /\ RespondExisting(c, rec[call[c].key])
        BY <3>2, <1>1, RespondGood DEF storeVars
      <3>3. CASE lastNonce' = lastNonce + 1
        BY <3>3, <1>1 DEF storeVars, IInv, Types
      <3> QED BY <3>1, <3>2, <3>3 DEF Reserve, NextNonce
    <2> QED BY <1>1, <2>1, SameKeeps, EnvironmentKept, KeepingPreserves DEF Reserve, storeVars
  <1>2. CASE ~UNCHANGED storeVars
    BY <1>2, ReserveNew, EnvironmentKept DEF Reserve
  <1> QED BY <1>1, <1>2

(* A call that passes its checks signs with the evidence it checked. *)
LEMMA SignerGood ==
    ASSUME IInv, NEW c \in Callers, NEW pc \in {"sign", "signing"}, Goto(c, pc), UNCHANGED rec,
           call[c].strict => /\ rec[call[c].key].state # "ABSENT"
                             /\ rec[call[c].key].evidence # NoEvidence
    PROVE  GoodCalls
  <1>1. /\ call' \in [Callers -> Call]
        /\ \A d \in Callers \ {c} : call'[d] = call[d]
        /\ call'[c].strict = call[c].strict /\ call'[c].key = call[c].key
        /\ call'[c].pc = pc
    BY DEF IInv, Types, Call, Pcs, Goto
  <1>2. MaySign(call[c])'
    BY <1>1 DEF MaySign
  <1> QED BY <1>1, <1>2 DEF GoodCalls

LEMMA ResumeStep ==
    ASSUME IInv, NEW c \in Callers, Resume(c)
    PROVE  IInv' /\ FinalStep
  <1> DEFINE R == rec[call[c].key]
  <1>1. GoodCalls
    <2>1. CASE Goto(c, "sign") /\ ~Stale(c, R)
      <3>1. call[c].strict => R.evidence # NoEvidence
        BY <2>1, CallFields DEF Stale, NoEvidence, GoodRecord, Record
      <3>2. Absent.evidence = NoEvidence
        BY DEF Absent
      <3>3. call[c].strict => R.state # "ABSENT"
        BY <3>1, <3>2, CallFields DEF GoodRecord
      <3> QED BY <2>1, <3>1, <3>3, SignerGood DEF Resume, storeVars
    <2>2. CASE Goto(c, "revoke") \/ Goto(c, "expire")
      BY <2>2, GotoGood DEF Pcs
    <2> QED BY <2>1, <2>2 DEF Resume
  <1> QED BY <1>1, SameReplies, SameKeeps, EnvironmentKept, KeepingPreserves
          DEF Resume, storeVars

LEMMA SignStep ==
    ASSUME IInv, NEW c \in Callers, Sign(c) \/ SignerFails(c)
    PROVE  IInv' /\ FinalStep
  <1>1. GoodCalls
    <2>1. CASE Goto(c, "signing") /\ call[c].pc = "sign" /\ UNCHANGED storeVars
      BY <2>1, SignerGood DEF storeVars, IInv, SignsWithEvidence, MaySign
    <2>2. CASE Goto(c, "expire") \/ Goto(c, "signFailed")
      BY <2>2, GotoGood DEF Pcs
    <2> QED BY <2>1, <2>2 DEF Sign, SignerFails
  <1> QED BY <1>1, SameReplies, SameKeeps, EnvironmentKept, KeepingPreserves
          DEF Sign, SignerFails, storeVars

LEMMA PublishStep ==
    ASSUME IInv, NEW c \in Callers, NEW s \in Sigs, NEW t, Publish(c, s, t)
    PROVE  IInv' /\ FinalStep
  <1> DEFINE k == call[c].key
             R == rec[k]
             P == [R EXCEPT !.state = "PUBLISHED", !.sig = s]
  <1>1. k \in Keys /\ GoodRecord(R) /\ EnvironmentTypes'
    BY CallFields, EnvironmentKept DEF Publish
  <1>2. call[c].strict => R.evidence # NoEvidence
    BY DEF IInv, SignsWithEvidence, MaySign, Publish
  <1>3. CASE R.state = "RESERVED" /\ Store(k, P) /\ Deliver(c, P)
    <2>1. /\ P \in Record /\ P.sig = s /\ s # NoSig /\ P.state = "PUBLISHED"
          /\ P.nonce = R.nonce /\ P.evidence = R.evidence /\ P.released = R.released
          /\ P.req = R.req /\ P.amount = R.amount
      BY <1>1, <1>3, CoordinatorAssumption DEF GoodRecord, Record, States
    <2>2. Keeps(R, P)
      BY <1>1, <1>3, <2>1 DEF Keeps, GoodRecord, Terminal, Observed
    <2>3. rec'[k] = P
      BY <1>1, <1>3 DEF Store, IInv, Types
    <2>4. GoodCalls /\ GoodReplies
      BY <1>2, <1>3, <2>1, <2>3, DeliverGood
    <2> QED BY <1>1, <1>3, <2>2, <2>4, StoreKeeps, KeepingPreserves
  <1>4. CASE R.state = "RESERVED" /\ Store(k, Close(R, "EXPIRED")) /\ Goto(c, "signFailed") /\ UNCHANGED delivered
    BY <1>1, <1>4, CloseKeeps, StoreKeeps, GotoGood, SameReplies, KeepingPreserves DEF Open, Pcs
  <1>5. CASE R.state = "PUBLISHED" /\ Deliver(c, R) /\ UNCHANGED storeVars
    <2>1. R.sig # NoSig /\ R \in Record
      BY <1>1, <1>5 DEF GoodRecord
    <2>2. GoodCalls /\ GoodReplies
      BY <1>2, <1>5, <2>1, DeliverGood DEF storeVars
    <2> QED BY <1>1, <1>5, <2>2, SameKeeps, KeepingPreserves DEF storeVars
  <1>6. CASE Goto(c, "signFailed") /\ UNCHANGED <<storeVars, delivered>>
    BY <1>1, <1>6, GotoGood, SameReplies, SameKeeps, KeepingPreserves DEF storeVars, Pcs
  <1> QED BY <1>3, <1>4, <1>5, <1>6 DEF Publish, Signable

(* Steps of a call that close its record, or find it closed, and fail. *)
LEMMA FailingStep ==
    ASSUME IInv, NEW c \in Callers,
           Crash(c) \/ MarkSignFailed(c) \/ ExpireOwn(c) \/ RevokeOwn(c)
    PROVE  IInv' /\ FinalStep
  <1>1. GoodCalls /\ GoodReplies /\ EnvironmentTypes'
    BY ReturnGood, SameReplies, EnvironmentKept
    DEF Fail, Crash, MarkSignFailed, ExpireOwn, RevokeOwn
  <1>2. CASE UNCHANGED storeVars
    BY <1>1, <1>2, SameKeeps, KeepingPreserves DEF storeVars
  <1>3. CASE ~UNCHANGED storeVars
    <2>1. PICK f \in {"EXPIRED", "SIGN_FAILED", "REVOKED"} :
            Store(call[c].key, Close(rec[call[c].key], f)) /\ Open(rec[call[c].key])
      BY <1>3 DEF Crash, MarkSignFailed, ExpireOwn, RevokeOwn, CanExpire, Open
    <2> QED BY <1>1, <2>1, CallFields, CloseKeeps, StoreKeeps, KeepingPreserves
  <1> QED BY <1>2, <1>3

(* Callers that rest may still sign what they could sign. *)
LEMMA SameCalls ==
    ASSUME IInv, UNCHANGED call
    PROVE  GoodCalls
  BY DEF IInv, Types, GoodCalls

(* reconcile keeps every quote. *)
LEMMA ReconcileKeeps ==
    ASSUME IInv, NEW k \in Keys, NEW t, NEW known, Reconcile(k, t, known)
    PROVE  KeepsAll
  <1> DEFINE freed == ReleaseExpired(rec, t)
  <1>1. \A l \in Keys : freed[l] = rec[l] \/ Keeps(rec[l], freed[l])
    BY ReleaseKeeps DEF IInv
  <1>2. DOMAIN freed = Keys
    BY DEF ReleaseExpired
  <1> HIDE DEF freed
  <1>3. rec' = [freed EXCEPT ![k] = Settled(freed[k], known)]
    BY DEF Reconcile, freed
  <1>4. Settled(freed[k], known) = rec[k] \/ Keeps(rec[k], Settled(freed[k], known))
    <2>1. CASE freed[k] = rec[k]
      BY <2>1, SettledKeeps DEF IInv
    <2>2. CASE Keeps(rec[k], freed[k]) /\ freed[k] # rec[k]
      <3>1. freed[k].state \notin Observed
        BY <1>2, <2>2 DEF freed, ReleaseExpired, Close, Observed, IInv, Types, Record, States
      <3> QED BY <2>2, <3>1 DEF Settled
    <2> QED BY <1>1, <2>1, <2>2
  <1>5. rec' = [l \in Keys |-> rec'[l]]
    BY <1>2, <1>3 DEF freed, ReleaseExpired
  <1>6. \A l \in Keys : rec'[l] = rec[l] \/ Keeps(rec[l], rec'[l])
    BY <1>1, <1>2, <1>3, <1>4
  <1> QED BY <1>5, <1>6 DEF KeepsAll

(* An observation keeps every quote. *)
LEMMA ObservedKeeps ==
    ASSUME IInv, NEW k \in Keys, NEW o \in feed[k], MarkObserved(k, o)
    PROVE  KeepsAll
  <1>1. CASE UNCHANGED rec
    BY <1>1, SameKeeps
  <1>2. CASE rec[k].state = "PUBLISHED" /\ rec' = [rec EXCEPT ![k].state = ObservedState(o), ![k].obs = o]
    <2> DEFINE Q == [rec[k] EXCEPT !.state = ObservedState(o), !.obs = o]
    <2>1. Q \in Record
      <3>1. rec[k] \in Record /\ o \in Tx /\ ObservedState(o) \in States
        BY DEF IInv, Types, States, Observed, ObservedState
      <3> QED BY <3>1 DEF Record
    <2>2. /\ Q.nonce = rec[k].nonce /\ Q.sig = rec[k].sig /\ Q.evidence = rec[k].evidence
          /\ Q.released = rec[k].released /\ Q.state = ObservedState(o)
          /\ Q.req = rec[k].req /\ Q.amount = rec[k].amount
      BY DEF IInv, Types, Record
    <2>3. GoodRecord(rec[k])
      BY DEF IInv
    <2> HIDE DEF Q
    <2>4. Keeps(rec[k], Q)
      BY <1>2, <2>1, <2>2, <2>3 DEF Keeps, GoodRecord, ObservedState, Terminal, Observed
    <2>5. rec' = [rec EXCEPT ![k] = Q]
      BY <1>2 DEF IInv, Types, Q
    <2>6. KeepsAll
      BY <2>4, <2>5 DEF KeepsAll, IInv, Types
    <2> QED BY <2>6
  <1> QED BY <1>1, <1>2 DEF MarkObserved

(* So do the steps of the workers of the store, *)
LEMMA WorkerSteps ==
    ASSUME IInv, NEW k \in Keys, WorkerStep(k)
    PROVE  IInv' /\ FinalStep
  <1>1. CASE Revoke(k) \/ \E t \in Recent : Expire(k, t)
    <2>1. PICK f \in {"EXPIRED", "REVOKED"} : Store(k, Close(rec[k], f)) /\ Open(rec[k])
      BY <1>1 DEF Revoke, Expire, CanExpire
    <2>2. Keeps(rec[k], Close(rec[k], f))
      BY <2>1, CloseKeeps DEF IInv
    <2>3. UNCHANGED <<call, delivered>> /\ EnvironmentTypes'
      BY <1>1, EnvironmentKept DEF Revoke, Expire
    <2> QED BY <2>1, <2>2, <2>3, StoreKeeps, SameCalls, SameReplies, KeepingPreserves
  <1>2. ASSUME NEW o \in feed[k], MarkObserved(k, o) PROVE IInv' /\ FinalStep
    <2>1. EnvironmentTypes'
      BY <1>2 DEF IInv, Types, EnvironmentTypes, MarkObserved, chainVars
    <2> QED BY <1>2, <2>1, ObservedKeeps, SameCalls, SameReplies, KeepingPreserves DEF MarkObserved
  <1>3. ASSUME NEW t \in Recent, NEW known \in BOOLEAN, Reconcile(k, t, known) PROVE IInv' /\ FinalStep
    BY <1>3, ReconcileKeeps, SameCalls, SameReplies, EnvironmentKept, KeepingPreserves DEF Reconcile
  <1> QED BY <1>1, <1>2, <1>3 DEF WorkerStep

(* and those of the chain and the indexer. *)
LEMMA ChainSteps ==
    ASSUME IInv, ChainStep \/ Tick
    PROVE  IInv' /\ FinalStep
  <1>1. UNCHANGED <<storeVars, call, delivered>>
    BY DEF ChainStep, Tick, Settle, Redeliver, Reorg, Mine
  <1>2. CoordinatorAssumption /\ EnvironmentTypes
    BY CoordinatorAssumption DEF IInv, Types, EnvironmentTypes
  <1>3. EnvironmentTypes'
    <2>1. ASSUME NEW k \in Keys, NEW kind \in {"fill", "cancel"}, Settle(k, kind)
          PROVE  EnvironmentTypes'
      <3> DEFINE tx == [kind |-> kind, block |-> head, branch |-> canon[head]]
      <3>1. head \in 1..MaxHead
        BY <1>2, <2>1 DEF Settle, CoordinatorAssumption, EnvironmentTypes
      <3>2. tx \in Tx
        BY <1>2, <3>1 DEF EnvironmentTypes, Tx
      <3> HIDE DEF tx
      <3>3. onchain' = [onchain EXCEPT ![k] = tx] /\ feed' = [feed EXCEPT ![k] = @ \cup {tx}]
        BY <2>1 DEF Settle, tx
      <3> QED BY <1>2, <2>1, <3>2, <3>3 DEF Settle, EnvironmentTypes
    <2>2. ASSUME NEW k \in Keys, Redeliver(k) PROVE EnvironmentTypes'
      BY <1>2, <2>2 DEF Redeliver, EnvironmentTypes, chainVars
    <2>3. ASSUME NEW b \in 1..MaxHead, Reorg(b) PROVE EnvironmentTypes'
      BY <1>2, <2>3 DEF Reorg, EnvironmentTypes, CoordinatorAssumption
    <2>4. CASE Mine
      BY <1>2, <2>4 DEF Mine, EnvironmentTypes, CoordinatorAssumption
    <2>5. CASE Tick
      BY <1>2, <2>5 DEF Tick, EnvironmentTypes, chainVars, CoordinatorAssumption
    <2> QED BY <2>1, <2>2, <2>3, <2>4, <2>5 DEF ChainStep
  <1> QED BY <1>1, <1>3, SameKeeps, SameCalls, SameReplies, KeepingPreserves DEF storeVars

-----------------------------------------------------------------------------
(* The invariant holds initially and every step preserves it. *)
LEMMA InitIInv == Init => IInv
  <1> SUFFICES ASSUME Init PROVE IInv
    OBVIOUS
  <1>1. Absent \in Record /\ GoodRecord(Absent) /\ Absent.state = "ABSENT"
    BY CoordinatorAssumption
    DEF Absent, GoodRecord, Record, States, Terminal, Observed, NoEvidence
  <1>2. Idle \in Call /\ Idle.strict = FALSE
    BY CoordinatorAssumption DEF Idle, Call, Pcs, NoEvidence
  <1>3. Types
    BY <1>1, <1>2, CoordinatorAssumption DEF Init, Types
  <1> QED BY <1>1, <1>2, <1>3
          DEF Init, IInv, NonceUnique, OneQuotePerKey, StrictQuotesCarryEvidence,
              SignsWithEvidence, MaySign

(* The invariant is inductive, and a terminal record is final. *)
LEMMA NextIInv == IInv /\ [Next]_vars => IInv' /\ FinalStep
  <1> SUFFICES ASSUME IInv, [Next]_vars PROVE IInv' /\ FinalStep
    OBVIOUS
  <1>1. CASE UNCHANGED vars
    <2>1. UNCHANGED <<rec, lastNonce, call, delivered, now, chainVars, feed>>
      BY <1>1 DEF vars, chainVars
    <2> QED BY <2>1, SameKeeps, SameCalls, SameReplies, EnvironmentKept, KeepingPreserves
  <1>2. ASSUME NEW c \in Callers, CallerStep(c) \/ Crash(c) PROVE IInv' /\ FinalStep
    BY <1>2, LookupStep, PriceStep, ReserveStep, ResumeStep, SignStep, PublishStep, FailingStep
    DEF CallerStep
  <1> QED BY <1>1, <1>2, BeginStep, WorkerSteps, ChainSteps DEF Next

(* The inductive invariant of the coordinator holds of every behaviour. *)
THEOREM IInvHolds == Spec => []IInv
  BY InitIInv, NextIInv, PTL DEF Spec

(* Every record, call, reply and transaction has its type at all times. *)
THEOREM TypesHold == Spec => []Types
  <1>1. IInv => Types
    BY DEF IInv
  <1> QED BY <1>1, IInvHolds, PTL

(* No two records ever share a nonce, for any number of callers. *)
THEOREM NoncesAreUnique == Spec => []NonceUnique
  <1>1. IInv => NonceUnique
    BY DEF IInv
  <1> QED BY <1>1, IInvHolds, PTL

(* One quote per idempotency key, however many callers sign concurrently. *)
THEOREM EveryCallerGetsOneQuote == Spec => []OneQuotePerKey
  <1>1. IInv => OneQuotePerKey
    BY DEF IInv
  <1> QED BY <1>1, IInvHolds, PTL

(* A strict caller only gets quotes with persisted evidence. *)
THEOREM StrictCallersGetEvidence == Spec => []StrictQuotesCarryEvidence
  <1>1. IInv => StrictQuotesCarryEvidence
    BY DEF IInv
  <1> QED BY <1>1, IInvHolds, PTL

(* A lease is released exactly when its record is terminal. *)
THEOREM LeasesEndWithRecords == Spec => []ReleasedIsTerminal
  <1>1. IInv => ReleasedIsTerminal
    BY DEF IInv, GoodRecord, ReleasedIsTerminal
  <1> QED BY <1>1, IInvHolds, PTL

(* A terminal record never changes again. *)
THEOREM TerminalRecordsStay == Spec => TerminalIsFinal
  <1>1. IInv /\ [Next]_vars =>
          [\A k \in Keys : rec[k].state \in Terminal => rec'[k] = rec[k]]_vars
    BY NextIInv DEF FinalStep
  <1> QED BY <1>1, IInvHolds, PTL DEF Spec, TerminalIsFinal

-----------------------------------------------------------------------------
(* What records say about the chain: an observation that is canonical is the *)
(* transaction of the chain, and a settlement is confirmed.                   *)

Settlement == {"FILLED", "CANCELLED"}
KindOf(R) == IF R.state \in {"FILLED", "FILL_OBSERVED"} THEN "fill" ELSE "cancel"

SoundRecord(R) ==
    /\ R.state \in Observed \cup Settlement => R.obs \in Tx /\ R.obs.kind = KindOf(R)
    /\ R.state \in Settlement => Confirmed(R.obs)

(* Transactions of k that the chain, the indexer or the record knows. *)
Seen(k) == feed[k] \cup ({rec[k].obs, onchain[k]} \ {NoTx})

SoundTx(k, o) ==
    /\ o.branch <= forks
    /\ canon[o.block] = o.branch => onchain[k] = o

(* Branches are numbered in their order, so a block that was replaced never *)
(* becomes canonical again.                                                  *)
ChainInv ==
    /\ \A x \in 1..MaxHead : canon[x] <= forks
    /\ \A k \in Keys : SoundRecord(rec[k])
    /\ \A k \in Keys : \A o \in Seen(k) : SoundTx(k, o)

(* The ways a record may change: it is not about the chain, or an observation *)
(* is settled at its depth, or the indexer's event is recorded.               *)
Quiet(R, Q) ==
    \/ Q = R
    \/ /\ Q.state \notin Observed \cup Settlement
       /\ Q.obs \in {R.obs, NoTx}
       /\ R.state \in Observed => ~Q.released
Settles(R, Q) == R.state \in Observed /\ Confirmed(R.obs) /\ Q = Close(R, FinalState(R))
Observes(k, R, Q) ==
    \E o \in feed[k] : R.state = "PUBLISHED" /\ Q.state = ObservedState(o) /\ Q.obs = o

ObservationStep ==
    /\ \A k \in Keys : \/ Quiet(rec[k], rec'[k])
                       \/ Settles(rec[k], rec'[k])
                       \/ Observes(k, rec[k], rec'[k])
    /\ UNCHANGED chainVars
    /\ \A k \in Keys : feed'[k] \subseteq feed[k]

(* Closing an open record says nothing about the chain. *)
LEMMA CloseQuiet ==
    ASSUME NEW R, GoodRecord(R), Open(R), NEW f \in {"EXPIRED", "SIGN_FAILED", "REVOKED"}
    PROVE  Quiet(R, Close(R, f))
  BY DEF GoodRecord, Open, Quiet, Close, Record, Observed, Settlement

(* Nor does releasing the leases that have expired. *)
LEMMA ReleaseQuiet ==
    ASSUME NEW t, \A k \in Keys : GoodRecord(rec[k]), NEW k \in Keys
    PROVE  Quiet(rec[k], ReleaseExpired(rec, t)[k])
  <1>1. CASE LeaseExpired(rec[k], t)
    BY <1>1, ExpiredIsOpen, CloseQuiet DEF ReleaseExpired
  <1>2. CASE ~LeaseExpired(rec[k], t)
    BY <1>2 DEF ReleaseExpired, Quiet
  <1> QED BY <1>1, <1>2

(* One record is replaced by one that says the same about the chain. *)
LEMMA StoreQuiet ==
    ASSUME IInv, NEW k \in Keys, NEW R, Store(k, R), Quiet(rec[k], R),
           UNCHANGED <<chainVars, feed>>
    PROVE  ObservationStep
  BY DEF IInv, Types, Store, ObservationStep, Quiet

(* A step that leaves the records alone observes nothing. *)
LEMMA SameObservations ==
    ASSUME IInv, UNCHANGED <<rec, chainVars, feed>>
    PROVE  ObservationStep
  BY DEF ObservationStep, Quiet

(* A new record has no transaction, and what it releases was open. *)
LEMMA ReserveObserves ==
    ASSUME IInv, NEW c \in Callers, Reserve(c)
    PROVE  ObservationStep
  <1>1. CASE UNCHANGED rec
    BY <1>1, SameObservations DEF Reserve
  <1>2. CASE rec' # rec
    <2> DEFINE k == call[c].key
    <2>1. /\ rec' = [ReleaseExpired(rec, call[c].t0) EXCEPT ![k] = NewRecord(c)]
          /\ rec[k].state = "ABSENT"
      BY <1>2 DEF Reserve, storeVars
    <2>2. k \in Keys /\ rec[k].obs = NoTx
      <3>1. Absent.obs = NoTx
        BY DEF Absent
      <3> QED BY <2>1, <3>1, CallFields DEF GoodRecord
    <2>3. NewRecord(c).state = "RESERVED" /\ NewRecord(c).obs = NoTx
      BY DEF NewRecord
    <2>4. rec'[k] = NewRecord(c)
      BY <2>1, <2>2 DEF ReleaseExpired
    <2>5. Quiet(rec[k], rec'[k])
      BY <2>1, <2>2, <2>3, <2>4 DEF Quiet, Observed, Settlement
    <2>6. ASSUME NEW l \in Keys \ {k} PROVE Quiet(rec[l], rec'[l])
      <3>1. rec'[l] = ReleaseExpired(rec, call[c].t0)[l]
        BY <2>1 DEF ReleaseExpired
      <3> QED BY <3>1, ReleaseQuiet DEF IInv
    <2> QED BY <2>5, <2>6 DEF ObservationStep, Reserve
  <1> QED BY <1>1, <1>2

(* Everything a caller or a worker does that closes or leaves its record. *)
LEMMA ClosingObserves ==
    ASSUME IInv, NEW k \in Keys, NEW f \in {"EXPIRED", "SIGN_FAILED", "REVOKED"},
           Store(k, Close(rec[k], f)), Open(rec[k]), UNCHANGED <<chainVars, feed>>
    PROVE  ObservationStep
  BY CloseQuiet, StoreQuiet DEF IInv

(* A published quote has no transaction yet. *)
LEMMA PublishObserves ==
    ASSUME IInv, NEW c \in Callers, NEW s \in Sigs, NEW t, Publish(c, s, t)
    PROVE  ObservationStep
  <1> DEFINE k == call[c].key
             R == rec[k]
             P == [R EXCEPT !.state = "PUBLISHED", !.sig = s]
  <1>1. k \in Keys /\ GoodRecord(R)
    BY CallFields
  <1>2. CASE R.state = "RESERVED" /\ Store(k, P)
    <2>1. P.state = "PUBLISHED" /\ P.obs = R.obs
      BY <1>1 DEF GoodRecord, Record
    <2>2. Quiet(R, P)
      BY <1>2, <2>1 DEF Quiet, Observed, Settlement
    <2> QED BY <1>1, <1>2, <2>2, StoreQuiet DEF Publish
  <1>3. CASE R.state = "RESERVED" /\ Store(k, Close(R, "EXPIRED"))
    BY <1>1, <1>3, ClosingObserves DEF Publish, Open
  <1>4. CASE UNCHANGED rec
    BY <1>4, SameObservations DEF Publish
  <1> QED BY <1>2, <1>3, <1>4 DEF Publish, Signable, storeVars

(* No step of a caller observes a transaction, *)
LEMMA CallerObserves ==
    ASSUME IInv, NEW c \in Callers, CallerStep(c) \/ Crash(c)
    PROVE  ObservationStep
  <1>1. CASE UNCHANGED <<rec, chainVars, feed>>
    BY <1>1, SameObservations
  <1>2. CASE MarkSignFailed(c) \/ ExpireOwn(c) \/ RevokeOwn(c)
    <2>1. CASE UNCHANGED rec
      BY <1>2, <2>1, SameObservations DEF MarkSignFailed, ExpireOwn, RevokeOwn
    <2>2. CASE rec' # rec
      <3>1. PICK f \in {"EXPIRED", "SIGN_FAILED", "REVOKED"} :
              Store(call[c].key, Close(rec[call[c].key], f)) /\ Open(rec[call[c].key])
        BY <1>2, <2>2 DEF MarkSignFailed, ExpireOwn, RevokeOwn, CanExpire, Open, storeVars
      <3> QED BY <1>2, <3>1, CallFields, ClosingObserves DEF MarkSignFailed, ExpireOwn, RevokeOwn
    <2> QED BY <2>1, <2>2
  <1>3. CASE Lookup(c) \/ Crash(c)
    <2>1. UNCHANGED <<rec, chainVars, feed>>
      BY <1>3 DEF Lookup, Crash, storeVars
    <2> QED BY <1>1, <2>1
  <1>4. CASE Price(c)
    <2>1. UNCHANGED <<storeVars, now, chainVars, feed>>
      BY <1>4, Zenon DEF Price
    <2> QED BY <1>1, <2>1 DEF storeVars
  <1>5. CASE Resume(c) \/ Sign(c) \/ SignerFails(c)
    <2>1. UNCHANGED <<rec, chainVars, feed>>
      BY <1>5 DEF Resume, Sign, SignerFails, storeVars
    <2> QED BY <1>1, <2>1
  <1> QED BY <1>2, <1>3, <1>4, <1>5, ReserveObserves, PublishObserves DEF CallerStep

(* a reconciliation settles what is confirmed or takes it back, *)
LEMMA ReconcileObserves ==
    ASSUME IInv, NEW k \in Keys, NEW t, NEW known, Reconcile(k, t, known)
    PROVE  ObservationStep
  <1> DEFINE freed == ReleaseExpired(rec, t)
  <1>1. /\ rec' = [freed EXCEPT ![k] = Settled(freed[k], known)]
        /\ UNCHANGED <<chainVars, feed>>
    BY DEF Reconcile
  <1>2. \A l \in Keys : Quiet(rec[l], freed[l])
    BY ReleaseQuiet DEF IInv
  <1>3. DOMAIN freed = Keys
    BY DEF ReleaseExpired
  <1>4. freed[k] = rec[k] \/ freed[k].state = "EXPIRED"
    BY DEF ReleaseExpired, Close, IInv, Types, Record
  <1> HIDE DEF freed
  <1>5. rec'[k] = Settled(freed[k], known) /\ \A l \in Keys \ {k} : rec'[l] = freed[l]
    BY <1>1, <1>3
  <1>6. Quiet(rec[k], rec'[k]) \/ Settles(rec[k], rec'[k])
    <2>1. CASE freed[k].state \notin Observed \/ ~known
      BY <2>1, <1>2, <1>5 DEF Settled
    <2>2. CASE freed[k].state \in Observed
      <3>1. freed[k] = rec[k] /\ GoodRecord(rec[k])
        BY <1>4, <2>2 DEF Observed, IInv
      <3>2. CASE rec'[k] = [rec[k] EXCEPT !.state = "PUBLISHED", !.obs = NoTx]
        <4>1. /\ rec'[k].state = "PUBLISHED" /\ rec'[k].obs = NoTx
              /\ rec'[k].released = rec[k].released
          BY <3>1, <3>2 DEF GoodRecord, Record
        <4>2. ~rec[k].released
          BY <2>2, <3>1 DEF GoodRecord, Observed, Terminal
        <4> QED BY <4>1, <4>2 DEF Quiet, Observed, Settlement
      <3>3. CASE rec'[k] = rec[k]
        BY <3>3 DEF Quiet
      <3>4. CASE Confirmed(rec[k].obs) /\ rec'[k] = Close(rec[k], FinalState(rec[k]))
        BY <2>2, <3>1, <3>4 DEF Settles
      <3> QED BY <1>5, <3>1, <3>2, <3>3, <3>4 DEF Settled, Confirmed
    <2> QED BY <2>1, <2>2
  <1> QED BY <1>1, <1>2, <1>5, <1>6 DEF ObservationStep

(* and only the indexer's event makes a record observe one. *)
LEMMA WorkerObserves ==
    ASSUME IInv, NEW k \in Keys, WorkerStep(k)
    PROVE  ObservationStep
  <1>1. CASE Revoke(k) \/ \E t \in Recent : Expire(k, t)
    BY <1>1, ClosingObserves DEF Revoke, Expire, CanExpire
  <1>2. ASSUME NEW o \in feed[k], MarkObserved(k, o) PROVE ObservationStep
    <2>1. \A l \in Keys : feed'[l] \subseteq feed[l]
      BY <1>2 DEF MarkObserved, IInv, Types
    <2>2. \A l \in Keys \ {k} : rec'[l] = rec[l]
      BY <1>2 DEF MarkObserved, IInv, Types
    <2>3. rec'[k] = rec[k] \/ Observes(k, rec[k], rec'[k])
      <3> DEFINE Q == [rec[k] EXCEPT !.state = ObservedState(o), !.obs = o]
      <3>1. Q.state = ObservedState(o) /\ Q.obs = o
        BY DEF IInv, Types, Record
      <3>2. rec' = rec \/ (rec[k].state = "PUBLISHED" /\ rec'[k] = Q)
        BY <1>2 DEF MarkObserved, IInv, Types
      <3> HIDE DEF Q
      <3> QED BY <3>1, <3>2 DEF Observes
    <2> QED BY <1>2, <2>1, <2>2, <2>3 DEF ObservationStep, Quiet, MarkObserved
  <1> QED BY <1>1, <1>2, ReconcileObserves DEF WorkerStep

(* Every step is about the store, or leaves the records alone. *)
LEMMA NextObserves ==
    ASSUME IInv, [Next]_vars
    PROVE  ObservationStep \/ (ChainStep /\ UNCHANGED rec)
  <1>1. CASE ChainStep
    BY <1>1 DEF ChainStep, Settle, Redeliver, Reorg, Mine, storeVars
  <1>2. CASE UNCHANGED <<rec, chainVars, feed>>
    BY <1>2, SameObservations
  <1>3. CASE Tick
    BY <1>2, <1>3 DEF Tick, storeVars
  <1>5. ASSUME NEW c \in Callers, NEW k \in Keys, NEW r \in Requests, NEW s \in Modes, Begin(c, k, r, s)
        PROVE  ObservationStep
    <2>1. UNCHANGED <<rec, chainVars, feed>>
      BY <1>5 DEF Begin, storeVars
    <2> QED BY <2>1, SameObservations
  <1>4. CASE UNCHANGED vars
    BY <1>2, <1>4 DEF vars, chainVars
  <1> QED BY <1>1, <1>3, <1>4, <1>5, CallerObserves, WorkerObserves DEF Next

(* At first nothing is on the chain, and no record says there is. *)
LEMMA InitChain == Init => ChainInv
  <1> SUFFICES ASSUME Init PROVE ChainInv
    OBVIOUS
  <1>1. Absent.state = "ABSENT" /\ Absent.obs = NoTx
    BY DEF Absent
  <1>2. \A k \in Keys : rec[k] = Absent /\ feed[k] = {} /\ onchain[k] = NoTx
    BY DEF Init
  <1>3. \A x \in 1..MaxHead : canon[x] <= forks
    BY DEF Init
  <1>4. \A k \in Keys : Seen(k) = {}
    BY <1>1, <1>2 DEF Seen
  <1>5. \A k \in Keys : SoundRecord(rec[k])
    BY <1>1, <1>2 DEF SoundRecord, Observed, Settlement
  <1> QED BY <1>3, <1>4, <1>5 DEF ChainInv

(* A step of the store says only what was already sound. *)
LEMMA ObservationKeepsChain ==
    ASSUME IInv, ChainInv, ObservationStep
    PROVE  ChainInv'
  <1>1. UNCHANGED <<head, canon, forks, onchain>>
    BY DEF ObservationStep, chainVars
  <1>2. ASSUME NEW k \in Keys PROVE SoundRecord(rec[k])'
    <2>1. SoundRecord(rec[k]) /\ rec[k] \in Record
      BY DEF ChainInv, IInv, Types
    <2>2. CASE Quiet(rec[k], rec'[k])
      BY <1>1, <2>1, <2>2 DEF Quiet, SoundRecord, Confirmed, KindOf
    <2>3. CASE Settles(rec[k], rec'[k])
      <3>1. /\ rec'[k].state = FinalState(rec[k]) /\ rec'[k].obs = rec[k].obs
        BY <2>1, <2>3 DEF Settles, Close, Record
      <3>2. KindOf(rec[k]) = KindOf(rec[k])'
        BY <2>3, <3>1 DEF KindOf, FinalState, Settles, Observed
      <3> QED BY <1>1, <2>1, <2>3, <3>1, <3>2 DEF Settles, SoundRecord, Confirmed
    <2>4. CASE Observes(k, rec[k], rec'[k])
      <3>1. PICK o \in feed[k] :
              rec'[k].state = ObservedState(o) /\ rec'[k].obs = o
        BY <2>4 DEF Observes
      <3>2. o \in Tx
        BY DEF IInv, Types
      <3> QED BY <3>1, <3>2 DEF SoundRecord, KindOf, ObservedState, Observed, Settlement, Tx
    <2> QED BY <2>2, <2>3, <2>4 DEF ObservationStep
  <1>3. ASSUME NEW k \in Keys, NEW o \in Seen(k)' PROVE SoundTx(k, o)'
    <2>1. rec'[k].obs \in {rec[k].obs, NoTx} \cup feed[k]
      <3>1. rec[k] \in Record
        BY DEF IInv, Types
      <3>2. CASE Quiet(rec[k], rec'[k])
        BY <3>2 DEF Quiet
      <3>3. CASE Settles(rec[k], rec'[k])
        BY <3>1, <3>3 DEF Settles, Close, Record
      <3>4. CASE Observes(k, rec[k], rec'[k])
        BY <3>1, <3>4 DEF Observes, Record
      <3> QED BY <3>2, <3>3, <3>4 DEF ObservationStep
    <2>2. o \in Seen(k)
      BY <1>1, <2>1 DEF Seen, ObservationStep
    <2> QED BY <1>1, <2>2 DEF ChainInv, SoundTx
  <1> QED BY <1>1, <1>2, <1>3 DEF ChainInv

(* A transaction enters at the head, on its canonical branch. *)
LEMMA SettleKeepsChain ==
    ASSUME IInv, ChainInv, NEW k \in Keys, NEW kind \in {"fill", "cancel"}, Settle(k, kind)
    PROVE  ChainInv'
  <1> DEFINE tx == [kind |-> kind, block |-> head, branch |-> canon[head]]
  <1>1. /\ UNCHANGED <<rec, head, canon, forks>> /\ onchain[k] = NoTx
        /\ onchain' = [onchain EXCEPT ![k] = tx] /\ feed' = [feed EXCEPT ![k] = @ \cup {tx}]
    BY DEF Settle, storeVars
  <1>2. head \in 1..MaxHead /\ canon[head] <= forks
    BY CoordinatorAssumption DEF Settle, ChainInv, IInv, Types
  <1>3. tx.block = head /\ tx.branch = canon[head]
    OBVIOUS
  <1> HIDE DEF tx
  <1>4. ASSUME NEW l \in Keys PROVE SoundRecord(rec[l])'
    BY <1>1 DEF ChainInv, SoundRecord, Confirmed, KindOf
  <1>5. ASSUME NEW l \in Keys, NEW o \in Seen(l)' PROVE SoundTx(l, o)'
    <2>1. CASE l # k
      BY <1>1, <2>1 DEF Seen, ChainInv, SoundTx, IInv, Types
    <2>2. CASE l = k /\ o = tx
      BY <1>1, <1>2, <1>3, <2>2 DEF SoundTx, IInv, Types
    <2>3. CASE l = k /\ o # tx
      <3>1. o \in feed[k] \cup ({rec[k].obs} \ {NoTx})
        BY <1>1, <2>3 DEF Seen, IInv, Types
      <3>2. o \in Tx /\ o \in Seen(k) /\ o # NoTx
        <4>1. feed[k] \subseteq Tx /\ rec[k].obs \in Tx \cup {NoTx}
          BY DEF IInv, Types, Record
        <4>2. NoTx \notin Tx
          BY CoordinatorAssumption DEF Tx
        <4> QED BY <3>1, <4>1, <4>2 DEF Seen
      <3> QED BY <1>1, <2>3, <3>2 DEF ChainInv, SoundTx
    <2> QED BY <2>1, <2>2, <2>3
  <1> QED BY <1>1, <1>4, <1>5 DEF ChainInv

(* A reorganisation numbers its branch past all before it. *)
LEMMA ReorgKeepsChain ==
    ASSUME IInv, ChainInv, NEW b \in 1..MaxHead, Reorg(b)
    PROVE  ChainInv'
  <1>1. /\ UNCHANGED <<rec, head, feed>> /\ forks' = forks + 1 /\ forks \in Nat
        /\ canon' = [x \in 1..MaxHead |-> IF x >= b THEN forks + 1 ELSE canon[x]]
        /\ onchain' = [k \in Keys |->
             IF onchain[k] # NoTx /\ onchain[k].block >= b THEN NoTx ELSE onchain[k]]
        /\ head - b + 1 < Depth
    BY CoordinatorAssumption DEF Reorg, storeVars, IInv, Types
  <1>2. /\ head \in Nat /\ Depth \in Nat /\ MaxHead \in Nat
        /\ \A x \in 1..MaxHead : canon[x] \in Nat /\ canon[x] <= forks
    <2>1. Depth \in Nat /\ MaxHead \in Nat /\ MaxForks \in Nat
      BY CoordinatorAssumption
    <2>2. head \in 0..MaxHead /\ canon \in [1..MaxHead -> 0..MaxForks]
      BY DEF IInv, Types
    <2>3. \A x \in 1..MaxHead : canon[x] <= forks
      BY DEF ChainInv
    <2> QED BY <2>1, <2>2, <2>3
  <1>3. \A x \in 1..MaxHead : canon'[x] <= forks'
    BY <1>1, <1>2
  <1>4. ASSUME NEW k \in Keys PROVE SoundRecord(rec[k])'
    <2>1. SoundRecord(rec[k])
      BY DEF ChainInv
    <2>2. ASSUME rec[k].state \in Settlement PROVE Confirmed(rec[k].obs)'
      <3>1. rec[k].obs.block \in 1..MaxHead /\ Confirmed(rec[k].obs)
        BY <2>1, <2>2 DEF SoundRecord, Tx
      <3>2. rec[k].obs.block < b
        <4>1. head - rec[k].obs.block + 1 >= Depth
          BY <3>1 DEF Confirmed
        <4>2. head - b + 1 < Depth
          BY <1>1
        <4>3. rec[k].obs.block \in Nat /\ head \in Nat /\ Depth \in Nat /\ b \in Nat
          BY <1>2, <3>1
        <4> QED BY <4>1, <4>2, <4>3
      <3> QED BY <1>1, <1>2, <3>1, <3>2 DEF Confirmed
    <2> QED BY <1>1, <2>1, <2>2 DEF SoundRecord, KindOf
  <1>5. ASSUME NEW k \in Keys, NEW o \in Seen(k)' PROVE SoundTx(k, o)'
    <2>1. o \in Seen(k) /\ o \in Tx
      <3>1. /\ feed[k] \subseteq Tx /\ rec[k].obs \in Tx \cup {NoTx}
            /\ onchain[k] \in Tx \cup {NoTx}
        BY DEF IInv, Types, Record
      <3> QED BY <1>1, <3>1 DEF Seen
    <2>2. SoundTx(k, o) /\ o.block \in 1..MaxHead /\ o.branch \in Nat
      BY <1>2, <2>1, CoordinatorAssumption DEF ChainInv, Tx
    <2>3. CASE o.block >= b
      BY <1>1, <2>2, <2>3 DEF SoundTx
    <2>4. CASE o.block < b
      <3>1. canon'[o.block] = canon[o.block]
        BY <1>1, <2>2, <2>4
      <3>2. onchain[k] = o => onchain'[k] = o
        BY <1>1, <2>2, <2>4
      <3> QED BY <1>1, <2>2, <3>1, <3>2 DEF SoundTx
    <2> QED BY <1>2, <2>2, <2>3, <2>4
  <1> QED BY <1>3, <1>4, <1>5 DEF ChainInv

(* The chain and the indexer keep what records say of them sound. *)
LEMMA ChainKeepsChain ==
    ASSUME IInv, ChainInv, ChainStep, UNCHANGED rec
    PROVE  ChainInv'
  <1>1. CASE Mine
    <2>1. UNCHANGED <<rec, canon, forks, onchain, feed>> /\ head' = head + 1 /\ head \in Nat
      BY <1>1, CoordinatorAssumption DEF Mine, storeVars, IInv, Types
    <2>2. ASSUME NEW k \in Keys PROVE SoundRecord(rec[k])'
      <3>1. rec[k].state \in Settlement => Confirmed(rec[k].obs)'
        BY <2>1, CoordinatorAssumption DEF ChainInv, SoundRecord, Confirmed, Tx
      <3> QED BY <2>1, <3>1 DEF ChainInv, SoundRecord, KindOf
    <2> QED BY <2>1, <2>2 DEF ChainInv, Seen, SoundTx
  <1>2. ASSUME NEW k \in Keys, Redeliver(k) PROVE ChainInv'
    <2>1. /\ UNCHANGED <<rec, head, canon, forks, onchain>>
          /\ feed' = [feed EXCEPT ![k] = @ \cup {onchain[k]}] /\ onchain[k] # NoTx
      BY <1>2 DEF Redeliver, storeVars, chainVars
    <2>2. \A l \in Keys : Seen(l)' = Seen(l)
      BY <2>1 DEF Seen, IInv, Types
    <2> QED BY <2>1, <2>2 DEF ChainInv, SoundRecord, Confirmed, KindOf, SoundTx
  <1> QED BY <1>1, <1>2, SettleKeepsChain, ReorgKeepsChain DEF ChainStep

(* What records say about the chain is sound at all times. *)
THEOREM ChainInvHolds == Spec => []ChainInv
  <1>1. IInv /\ ChainInv /\ [Next]_vars => ChainInv'
    BY NextObserves, ObservationKeepsChain, ChainKeepsChain
  <1> QED BY <1>1, InitChain, IInvHolds, PTL DEF Spec

(* A settlement that a record tells of is on the canonical chain, across every *)
(* reorganisation shallower than the confirmation depth.                       *)
THEOREM SettlementsMatchTheChain == Spec => []FinalMatchesChain
  <1>1. IInv /\ ChainInv => FinalMatchesChain
    <2> SUFFICES ASSUME IInv, ChainInv, NEW k \in Keys, rec[k].state \in Settlement
                 PROVE  /\ onchain[k] = rec[k].obs
                        /\ rec[k].obs.kind = IF rec[k].state = "FILLED" THEN "fill" ELSE "cancel"
      BY DEF FinalMatchesChain, Settlement
    <2>1. SoundRecord(rec[k])
      BY DEF ChainInv
    <2>2. rec[k].obs \in Seen(k)
      <3>1. rec[k].obs \in Tx /\ NoTx \notin Tx
        BY <2>1, CoordinatorAssumption DEF SoundRecord, Tx
      <3> QED BY <3>1 DEF Seen
    <2>3. onchain[k] = rec[k].obs
      BY <2>1, <2>2 DEF ChainInv, SoundTx, SoundRecord, Confirmed
    <2> QED BY <2>1, <2>3 DEF SoundRecord, KindOf, Settlement
  <1> QED BY <1>1, IInvHolds, ChainInvHolds, PTL

(* An observed quote gives its lease back only for a confirmed transaction. *)
THEOREM ObservedLeasesWait == Spec => ObservedLeaseWaits
  <1>1. IInv /\ [Next]_vars =>
          [\A k \in Keys : rec[k].state \in Observed /\ rec'[k].released =>
              Confirmed(rec[k].obs)]_vars
    <2> SUFFICES ASSUME IInv, [Next]_vars, NEW k \in Keys,
                        rec[k].state \in Observed, rec'[k].released
                 PROVE  Confirmed(rec[k].obs)
      OBVIOUS
    <2>1. ~rec[k].released
      BY DEF IInv, GoodRecord, Observed, Terminal
    <2>2. rec'[k] # rec[k] /\ ObservationStep
      BY <2>1, NextObserves
    <2>3. ~Observes(k, rec[k], rec'[k])
      BY DEF Observes, Observed
    <2>4. ~Quiet(rec[k], rec'[k])
      BY <2>2 DEF Quiet
    <2> QED BY <2>2, <2>3, <2>4 DEF ObservationStep, Settles
  <1> QED BY <1>1, IInvHolds, PTL DEF Spec, ObservedLeaseWaits

-----------------------------------------------------------------------------
(* The inventory of the quote coordinator, for every finite set of keys: the *)
(* reserved counter of a bucket is the sum of the leases that are held and  *)
(* never exceeds the inventory, and the coordinator implements the abstract *)
(* book of module QuoteBook.                                                *)

(* What the steps of the coordinator do to leases, quotes and replies. *)

HeldOf(recs, b) ==
    [k \in Keys |-> IF Holds(recs[k]) /\ BucketOf[recs[k].req] = b THEN recs[k].amount ELSE 0]

(* The counter follows the leases that the step releases. *)
LeasesCounted ==
    \/ reserved' = ReservedAfter(rec, rec')
    \/ UNCHANGED reserved /\ \A k \in Keys : rec'[k].released = rec[k].released

(* Records close, or change without a new lease or quote. *)
Closes ==
    /\ KeepsAll /\ LeasesCounted
    /\ \A k \in Keys : rec'[k].sig = rec[k].sig
    /\ UNCHANGED delivered

(* A call returns the quote that is persisted. *)
Replies(c) ==
    /\ UNCHANGED <<rec, reserved>>
    /\ rec[call[c].key].sig # NoSig
    /\ Deliver(c, rec[call[c].key])

(* A call publishes its signature and returns it. *)
Publishes(c, s) ==
    LET R == rec[call[c].key]
        P == [R EXCEPT !.state = "PUBLISHED", !.sig = s]
    IN  /\ R.state = "RESERVED"
        /\ Store(call[c].key, P)
        /\ Deliver(c, P)

(* A call reserves inventory, after the leases that have expired are released. *)
Leases(c) ==
    LET k == call[c].key
        b == BucketOf[call[c].req]
        freed == ReleaseExpired(rec, call[c].t0)
        left  == ReservedAfter(rec, freed)
    IN  /\ call[c].pc = "reserve"
        /\ rec[k].state = "ABSENT" /\ Room(b, left, call[c].amount)
        /\ rec' = [freed EXCEPT ![k] = NewRecord(c)]
        /\ reserved' = [left EXCEPT ![b] = @ + call[c].amount]
        /\ UNCHANGED delivered

(* A step that leaves the store alone closes nothing. *)
LEMMA SameCloses ==
    ASSUME IInv, UNCHANGED <<rec, reserved, delivered>>
    PROVE  Closes
  BY SameKeeps DEF Closes, LeasesCounted

(* One record is replaced by one that keeps its terms. *)
LEMMA StoreCloses ==
    ASSUME IInv, NEW k \in Keys, NEW f \in {"EXPIRED", "SIGN_FAILED", "REVOKED"}, Open(rec[k]),
           Store(k, Close(rec[k], f)), UNCHANGED delivered
    PROVE  Closes
  <1>1. KeepsAll
    BY CloseKeeps, StoreKeeps DEF IInv
  <1>2. rec' = [rec EXCEPT ![k] = Close(rec[k], f)] /\ reserved' = ReservedAfter(rec, rec')
    BY DEF Store
  <1>3. Close(rec[k], f).sig = rec[k].sig
    BY DEF Close, IInv, Types, Record
  <1>4. \A l \in Keys : rec'[l].sig = rec[l].sig
    BY <1>2, <1>3 DEF IInv, Types
  <1> QED BY <1>1, <1>2, <1>4 DEF Closes, LeasesCounted

(* Each step of the system is one of four: see NextShape. *)
LEMMA RespondShape ==
    ASSUME IInv, NEW c \in Callers, RespondExisting(c, rec[call[c].key]), UNCHANGED storeVars
    PROVE  Closes \/ Replies(c)
  BY SameCloses DEF RespondExisting, Fail, storeVars, Replies

LEMMA ReserveShape ==
    ASSUME IInv, NEW c \in Callers, Reserve(c)
    PROVE  Closes \/ Replies(c) \/ Leases(c)
  <1>1. CASE UNCHANGED storeVars /\ Fail(c)
    BY <1>1, SameCloses DEF storeVars, Fail
  <1>2. CASE UNCHANGED storeVars /\ RespondExisting(c, rec[call[c].key])
    BY <1>2, RespondShape
  <1>3. CASE ~UNCHANGED storeVars
    BY <1>3 DEF Reserve, Leases
  <1>4. UNCHANGED storeVars => Fail(c) \/ RespondExisting(c, rec[call[c].key])
    BY DEF Reserve, storeVars, NextNonce, IInv, Types
  <1> QED BY <1>1, <1>2, <1>3, <1>4

LEMMA PublishShape ==
    ASSUME IInv, NEW c \in Callers, NEW s \in Sigs, NEW t, Publish(c, s, t)
    PROVE  Closes \/ Replies(c) \/ Publishes(c, s)
  <1> DEFINE k == call[c].key
             R == rec[k]
             P == [R EXCEPT !.state = "PUBLISHED", !.sig = s]
  <1>1. k \in Keys /\ GoodRecord(R)
    BY CallFields
  <1>2. CASE R.state = "RESERVED" /\ Store(k, P) /\ Deliver(c, P)
    BY <1>2 DEF Publishes
  <1>3. CASE R.state = "RESERVED" /\ Store(k, Close(R, "EXPIRED")) /\ UNCHANGED delivered
    BY <1>1, <1>3, StoreCloses DEF Open
  <1>4. CASE R.state = "PUBLISHED" /\ Deliver(c, R) /\ UNCHANGED storeVars
    BY <1>1, <1>4 DEF Replies, storeVars, GoodRecord
  <1>5. CASE UNCHANGED <<storeVars, delivered>>
    BY <1>5, SameCloses DEF storeVars
  <1> QED BY <1>2, <1>3, <1>4, <1>5 DEF Publish, Signable

LEMMA CallerShape ==
    ASSUME IInv, NEW c \in Callers, CallerStep(c) \/ Crash(c)
    PROVE  Closes \/ Replies(c) \/ Leases(c) \/ \E s \in Sigs : Publishes(c, s)
  <1>1. CASE Lookup(c)
    BY <1>1, SameCloses, RespondShape DEF Lookup, storeVars
  <1>2. CASE Price(c)
    <2>1. UNCHANGED <<storeVars, delivered>>
      BY <1>2, Zenon DEF Price, Fail
    <2> QED BY <2>1, SameCloses DEF storeVars
  <1>3. CASE Resume(c) \/ Sign(c) \/ SignerFails(c) \/ Crash(c)
    <2>1. UNCHANGED <<rec, reserved, delivered>>
      BY <1>3 DEF Resume, Sign, SignerFails, Crash, Fail, storeVars
    <2> QED BY <2>1, SameCloses
  <1>4. CASE MarkSignFailed(c) \/ ExpireOwn(c) \/ RevokeOwn(c)
    <2>1. UNCHANGED delivered
      BY <1>4 DEF MarkSignFailed, ExpireOwn, RevokeOwn, Fail
    <2>2. CASE UNCHANGED storeVars
      BY <2>1, <2>2, SameCloses DEF storeVars
    <2>3. CASE ~UNCHANGED storeVars
      <3>1. PICK f \in {"EXPIRED", "SIGN_FAILED", "REVOKED"} :
              Store(call[c].key, Close(rec[call[c].key], f)) /\ Open(rec[call[c].key])
        BY <1>4, <2>3 DEF MarkSignFailed, ExpireOwn, RevokeOwn, CanExpire, Open
      <3> QED BY <2>1, <3>1, CallFields, StoreCloses
    <2> QED BY <2>2, <2>3
  <1> QED BY <1>1, <1>2, <1>3, <1>4, ReserveShape, PublishShape DEF CallerStep

LEMMA ReconcileShape ==
    ASSUME IInv, NEW k \in Keys, NEW t, NEW known, Reconcile(k, t, known)
    PROVE  Closes
  <1> DEFINE freed == ReleaseExpired(rec, t)
  <1>1. /\ rec' = [freed EXCEPT ![k] = Settled(freed[k], known)]
        /\ reserved' = ReservedAfter(rec, rec') /\ UNCHANGED delivered
    BY DEF Reconcile
  <1>2. KeepsAll
    BY ReconcileKeeps
  <1>3. \A l \in Keys : freed[l].sig = rec[l].sig /\ freed[l] \in Record
    <2>1. ASSUME NEW l \in Keys PROVE freed[l].sig = rec[l].sig /\ freed[l] \in Record
      <3>1. rec[l] \in Record
        BY DEF IInv, Types
      <3>2. CASE freed[l] = rec[l]
        BY <3>1, <3>2
      <3>3. CASE freed[l] # rec[l]
        <4>1. Keeps(rec[l], freed[l])
          BY <3>3, ReleaseKeeps DEF IInv
        <4>2. freed[l] = Close(rec[l], "EXPIRED")
          BY <3>3 DEF ReleaseExpired
        <4>3. Close(rec[l], "EXPIRED").sig = rec[l].sig
          BY <3>1 DEF Close, Record
        <4> QED BY <4>1, <4>2, <4>3 DEF Keeps, GoodRecord
      <3> QED BY <3>2, <3>3
    <2> QED BY <2>1
  <1>4. DOMAIN freed = Keys
    BY DEF ReleaseExpired
  <1> HIDE DEF freed
  <1>5. Settled(freed[k], known).sig = freed[k].sig
    BY <1>3 DEF Settled, Close, Record
  <1>6. \A l \in Keys : rec'[l].sig = rec[l].sig
    BY <1>1, <1>3, <1>4, <1>5
  <1> QED BY <1>1, <1>2, <1>6 DEF Closes, LeasesCounted

LEMMA WorkerShape ==
    ASSUME IInv, NEW k \in Keys, WorkerStep(k)
    PROVE  Closes
  <1>1. CASE Revoke(k) \/ \E t \in Recent : Expire(k, t)
    BY <1>1, StoreCloses DEF Revoke, Expire, CanExpire
  <1>2. ASSUME NEW o \in feed[k], MarkObserved(k, o) PROVE Closes
    <2>1. KeepsAll /\ UNCHANGED <<reserved, delivered>>
      BY <1>2, ObservedKeeps DEF MarkObserved
    <2>2. \A l \in Keys : rec'[l].sig = rec[l].sig /\ rec'[l].released = rec[l].released
      <3> DEFINE Q == [rec[k] EXCEPT !.state = ObservedState(o), !.obs = o]
      <3>1. Q.sig = rec[k].sig /\ Q.released = rec[k].released
        BY DEF IInv, Types, Record
      <3>2. rec' = rec \/ rec' = [rec EXCEPT ![k] = Q]
        BY <1>2 DEF MarkObserved, IInv, Types
      <3> HIDE DEF Q
      <3> QED BY <3>1, <3>2 DEF IInv, Types
    <2> QED BY <2>1, <2>2 DEF Closes, LeasesCounted
  <1> QED BY <1>1, <1>2, ReconcileShape DEF WorkerStep

(* Every step of the coordinator has one of the four shapes. *)
LEMMA NextShape ==
    ASSUME IInv, [Next]_vars
    PROVE  \/ Closes
           \/ \E c \in Callers : Replies(c) \/ Leases(c) \/ \E s \in Sigs : Publishes(c, s)
  <1>1. CASE UNCHANGED vars
    BY <1>1, SameCloses DEF vars
  <1>2. ASSUME NEW c \in Callers, NEW k \in Keys, NEW r \in Requests, NEW s \in Modes, Begin(c, k, r, s)
        PROVE  Closes
    <2>1. UNCHANGED <<rec, reserved, delivered>>
      BY <1>2 DEF Begin, storeVars
    <2> QED BY <2>1, SameCloses
  <1>3. CASE ChainStep \/ Tick
    <2>1. UNCHANGED <<storeVars, delivered>>
      BY <1>3 DEF ChainStep, Tick, Settle, Redeliver, Reorg, Mine
    <2> QED BY <2>1, SameCloses DEF storeVars
  <1> QED BY <1>1, <1>2, <1>3, CallerShape, WorkerShape DEF Next

-----------------------------------------------------------------------------
(* The reserved counters. *)

InventoryInv ==
    /\ reserved \in [Buckets -> Int]
    /\ ReservedIsHeld
    /\ NoOverReservation

(* A record that gives its lease back, or holds the same as before. *)
LeaseKept(R, Q) ==
    /\ R \in Record /\ Q \in Record
    /\ Q.req = R.req /\ Q.amount = R.amount
    /\ Holds(Q) <=> Holds(R) /\ ~Q.released

(* What a record that is kept holds is what it held, less what was          *)
(* released.                                                                *)
LEMMA KeepsLease ==
    ASSUME NEW R, NEW Q, GoodRecord(R), Q = R \/ Keeps(R, Q)
    PROVE  LeaseKept(R, Q)
  <1>1. CASE Q = R
    BY <1>1 DEF LeaseKept, GoodRecord, Holds
  <1>2. CASE Keeps(R, Q)
    BY <1>2 DEF LeaseKept, GoodRecord, Holds, Keeps
  <1> QED BY <1>1, <1>2

(* What the records hold after leases were given back is what they held less *)
(* what was freed.                                                            *)
LEMMA HeldAfter ==
    ASSUME NEW before, NEW after, \A k \in Keys : LeaseKept(before[k], after[k]), NEW b \in Buckets
    PROVE  /\ SumFunction(HeldOf(before, b)) \in Nat
           /\ SumFunction(HeldOf(after, b)) \in Nat
           /\ FreedIn(b, before, after) \in Nat
           /\ SumFunction(HeldOf(before, b)) =
                SumFunction(HeldOf(after, b)) + FreedIn(b, before, after)
  <1> DEFINE F == [k \in Keys |->
                     IF Holds(before[k]) /\ after[k].released /\ BucketOf[before[k].req] = b
                     THEN before[k].amount ELSE 0]
  <1>1. /\ HeldOf(before, b) \in [Keys -> Nat] /\ HeldOf(after, b) \in [Keys -> Nat]
        /\ F \in [Keys -> Nat]
    BY DEF HeldOf, LeaseKept, Record
  <1>2. \A k \in Keys : HeldOf(before, b)[k] = HeldOf(after, b)[k] + F[k]
    BY DEF HeldOf, LeaseKept, Record
  <1>3. FreedIn(b, before, after) = SumFunction(F)
    BY DEF FreedIn
  <1> HIDE DEF F
  <1>4. /\ HeldOf(before, b) \in [Keys -> Int] /\ HeldOf(after, b) \in [Keys -> Int]
        /\ F \in [Keys -> Int]
    BY <1>1
  <1>5. IsFiniteSet(Keys)
    BY CoordinatorAssumption
  <1>6. /\ SumFunction(HeldOf(before, b)) \in Nat /\ SumFunction(HeldOf(after, b)) \in Nat
        /\ SumFunction(F) \in Nat
    BY <1>1, <1>4, <1>5, SumIsInteger
  <1>7. SumFunction(HeldOf(before, b)) = SumFunction(HeldOf(after, b)) + SumFunction(F)
    BY <1>2, <1>4, <1>5, SumOfSums
  <1> QED BY <1>3, <1>6, <1>7

(* What is held of a bucket is a sum over the keys, before a step *)
LEMMA HeldIsSum == \A b \in Buckets : HeldIn(b) = SumFunction(HeldOf(rec, b))
  BY DEF HeldIn, HeldOf

(* and after it. *)
LEMMA HeldIsSumAfter == \A b \in Buckets : HeldIn(b)' = SumFunction(HeldOf(rec', b))
  BY DEF HeldIn, HeldOf

(* Closing leases gives back to each bucket what they held of it. *)
LEMMA ClosesInventory ==
    ASSUME IInv, InventoryInv, Closes
    PROVE  InventoryInv'
  <1>1. \A k \in Keys : LeaseKept(rec[k], rec'[k])
    BY KeepsLease DEF IInv, Closes, KeepsAll
  <1>2. ASSUME NEW b \in Buckets
        PROVE  reserved'[b] = HeldIn(b)' /\ HeldIn(b)' <= Available[b] /\ reserved'[b] \in Int
    <2>1. /\ HeldIn(b) \in Nat /\ HeldIn(b)' \in Nat /\ FreedIn(b, rec, rec') \in Nat
          /\ HeldIn(b) = HeldIn(b)' + FreedIn(b, rec, rec')
      BY <1>1, HeldAfter, HeldIsSum, HeldIsSumAfter
    <2>2. reserved[b] = HeldIn(b) /\ HeldIn(b) <= Available[b] /\ Available[b] \in Nat
      BY CoordinatorAssumption DEF InventoryInv, ReservedIsHeld, NoOverReservation
    <2>3. CASE reserved' = ReservedAfter(rec, rec')
      <3>1. reserved'[b] = reserved[b] - FreedIn(b, rec, rec')
        BY <2>3 DEF ReservedAfter
      <3> QED BY <2>1, <2>2, <3>1
    <2>4. CASE UNCHANGED reserved /\ \A k \in Keys : rec'[k].released = rec[k].released
      <3>1. \A k \in Keys : Holds(rec'[k]) <=> Holds(rec[k])
        BY <1>1, <2>4 DEF LeaseKept, Holds
      <3>2. HeldOf(rec', b) = HeldOf(rec, b)
        BY <1>1, <3>1 DEF HeldOf, LeaseKept
      <3>3. HeldIn(b)' = HeldIn(b)
        BY <3>2, HeldIsSum, HeldIsSumAfter
      <3> QED BY <2>1, <2>2, <2>4, <3>3
    <2> QED BY <2>3, <2>4 DEF Closes, LeasesCounted
  <1>3. reserved' \in [Buckets -> Int]
    BY <1>2 DEF Closes, LeasesCounted, ReservedAfter, InventoryInv
  <1> QED BY <1>2, <1>3 DEF InventoryInv, ReservedIsHeld, NoOverReservation

(* A new lease is counted in its bucket, which had room for it. *)
LEMMA LeasesInventory ==
    ASSUME IInv, InventoryInv, NEW c \in Callers, Leases(c)
    PROVE  InventoryInv'
  <1> DEFINE k == call[c].key
             b == BucketOf[call[c].req]
             freed == ReleaseExpired(rec, call[c].t0)
             left == ReservedAfter(rec, freed)
             amount == call[c].amount
  <1>1. k \in Keys /\ b \in Buckets /\ amount \in Nat /\ call[c].req \in Requests
    BY CallFields, CoordinatorAssumption
  <1>2. \A l \in Keys : LeaseKept(rec[l], freed[l])
    BY ReleaseKeeps, KeepsLease DEF IInv
  <1>3. freed[k] = rec[k] /\ ~Holds(rec[k])
    BY <1>1 DEF Leases, ReleaseExpired, LeaseExpired, Holds
  <1>4. rec' = [freed EXCEPT ![k] = NewRecord(c)] /\ DOMAIN freed = Keys
    BY DEF Leases, ReleaseExpired
  <1>5. /\ Holds(NewRecord(c)) /\ NewRecord(c).amount = amount /\ NewRecord(c).req = call[c].req
    BY DEF NewRecord, Holds
  <1>6. /\ reserved' = [left EXCEPT ![b] = @ + amount] /\ Available[b] - left[b] >= amount
    BY DEF Leases, Room
  <1>7. \A a \in Buckets : left[a] = reserved[a] - FreedIn(a, rec, freed)
    BY DEF ReservedAfter
  <1>8. DOMAIN left = Buckets
    BY DEF ReservedAfter
  <1> HIDE DEF freed, left
  <1>9. ASSUME NEW a \in Buckets
        PROVE  /\ left[a] = SumFunction(HeldOf(freed, a)) /\ left[a] \in Nat
               /\ left[a] <= Available[a] /\ Available[a] \in Nat
    <2>1. /\ SumFunction(HeldOf(rec, a)) \in Nat /\ SumFunction(HeldOf(freed, a)) \in Nat
          /\ FreedIn(a, rec, freed) \in Nat
          /\ SumFunction(HeldOf(rec, a)) =
                SumFunction(HeldOf(freed, a)) + FreedIn(a, rec, freed)
      BY <1>2, HeldAfter
    <2>2. reserved[a] = SumFunction(HeldOf(rec, a)) /\ reserved[a] <= Available[a]
      BY HeldIsSum DEF InventoryInv, ReservedIsHeld, NoOverReservation
    <2>3. Available[a] \in Nat
      BY CoordinatorAssumption
    <2> QED BY <1>7, <2>1, <2>2, <2>3
  <1>10. ASSUME NEW a \in Buckets \ {b}
         PROVE  HeldOf(rec', a) = HeldOf(freed, a)
    <2>1. ~(Holds(rec'[k]) /\ BucketOf[rec'[k].req] = a)
      BY <1>1, <1>4, <1>5
    <2>2. HeldOf(freed, a)[k] = 0
      BY <1>1, <1>3 DEF HeldOf
    <2>3. \A l \in Keys \ {k} : rec'[l] = freed[l]
      BY <1>4
    <2>4. HeldOf(rec', a)[k] = 0
      BY <1>1, <2>1 DEF HeldOf
    <2> QED BY <2>2, <2>3, <2>4 DEF HeldOf
  <1>11. SumFunction(HeldOf(rec', b)) = SumFunction(HeldOf(freed, b)) + amount
    <2> DEFINE One == [l \in Keys |-> IF l = k THEN amount ELSE 0]
    <2>1. One \in [Keys -> Int] /\ One[k] = amount /\ \A l \in Keys \ {k} : One[l] = 0
      BY <1>1
    <2> HIDE DEF One
    <2>2. HeldOf(freed, b) \in [Keys -> Int]
      BY <1>2 DEF HeldOf, LeaseKept, Record
    <2>3. HeldOf(freed, b)[k] = 0
      BY <1>1, <1>3 DEF HeldOf
    <2>4. HeldOf(rec', b)[k] = amount
      BY <1>1, <1>4, <1>5 DEF HeldOf
    <2>5. \A l \in Keys \ {k} : HeldOf(rec', b)[l] = HeldOf(freed, b)[l]
      BY <1>4 DEF HeldOf
    <2>6. HeldOf(rec', b) \in [Keys -> Int]
      <3>1. DOMAIN HeldOf(rec', b) = Keys /\ HeldOf(rec', b) = [l \in Keys |-> HeldOf(rec', b)[l]]
        BY DEF HeldOf
      <3> QED BY <1>1, <2>2, <2>4, <2>5, <3>1
    <2>7. \A l \in Keys : HeldOf(rec', b)[l] = HeldOf(freed, b)[l] + One[l]
      BY <1>1, <2>1, <2>2, <2>3, <2>4, <2>5
    <2>8. IsFiniteSet(Keys)
      BY CoordinatorAssumption
    <2>9. SumFunction(One) = amount
      BY <1>1, <2>1, <2>8, SumOfOne
    <2> QED BY <2>1, <2>2, <2>6, <2>7, <2>8, <2>9, SumOfSums
  <1>12. ASSUME NEW a \in Buckets
         PROVE  reserved'[a] = HeldIn(a)' /\ HeldIn(a)' <= Available[a] /\ reserved'[a] \in Int
    <2>1. CASE a = b
      BY <1>1, <1>6, <1>8, <1>9, <1>11, <2>1, HeldIsSumAfter
    <2>2. CASE a # b
      BY <1>6, <1>8, <1>9, <1>10, <2>2, HeldIsSumAfter
    <2> QED BY <2>1, <2>2
  <1>13. reserved' \in [Buckets -> Int]
    BY <1>6, <1>8, <1>12
  <1> QED BY <1>12, <1>13 DEF InventoryInv, ReservedIsHeld, NoOverReservation

(* Publishing a quote moves nothing. *)
LEMMA PublishesInventory ==
    ASSUME IInv, InventoryInv, NEW c \in Callers, NEW s \in Sigs, Publishes(c, s)
    PROVE  InventoryInv'
  <1> DEFINE k == call[c].key
             R == rec[k]
             P == [R EXCEPT !.state = "PUBLISHED", !.sig = s]
  <1>1. k \in Keys /\ R \in Record /\ R.state = "RESERVED"
    BY CallFields DEF GoodRecord, Publishes
  <1>2. rec' = [rec EXCEPT ![k] = P] /\ reserved' = ReservedAfter(rec, rec')
    BY DEF Publishes, Store
  <1>3. LeaseKept(R, P)
    BY <1>1 DEF LeaseKept, Record, Holds, States
  <1> HIDE DEF P
  <1>4. \A l \in Keys : LeaseKept(rec[l], rec'[l])
    BY <1>1, <1>2, <1>3, KeepsLease DEF IInv, Types
  <1>5. ASSUME NEW b \in Buckets
        PROVE  reserved'[b] = HeldIn(b)' /\ HeldIn(b)' <= Available[b] /\ reserved'[b] \in Int
    <2>1. /\ HeldIn(b) \in Nat /\ HeldIn(b)' \in Nat /\ FreedIn(b, rec, rec') \in Nat
          /\ HeldIn(b) = HeldIn(b)' + FreedIn(b, rec, rec')
      BY <1>4, HeldAfter, HeldIsSum, HeldIsSumAfter
    <2>2. reserved[b] = HeldIn(b) /\ HeldIn(b) <= Available[b] /\ Available[b] \in Nat
      BY CoordinatorAssumption DEF InventoryInv, ReservedIsHeld, NoOverReservation
    <2>3. reserved'[b] = reserved[b] - FreedIn(b, rec, rec')
      BY <1>2 DEF ReservedAfter
    <2> QED BY <2>1, <2>2, <2>3
  <1>6. reserved' \in [Buckets -> Int]
    BY <1>2, <1>5 DEF ReservedAfter
  <1> QED BY <1>5, <1>6 DEF InventoryInv, ReservedIsHeld, NoOverReservation

(* At first nothing is held. *)
LEMMA InitInventory == Init => InventoryInv
  <1> SUFFICES ASSUME Init PROVE InventoryInv
    OBVIOUS
  <1>1. \A k \in Keys : ~Holds(rec[k])
    BY DEF Init, Holds, Absent
  <1>2. ASSUME NEW b \in Buckets PROVE HeldIn(b) = 0
    <2>1. HeldOf(rec, b) \in [Keys -> Int] /\ \A k \in Keys : HeldOf(rec, b)[k] = 0
      BY <1>1 DEF HeldOf
    <2>2. PICK k \in Keys : TRUE
      BY CoordinatorAssumption
    <2>3. SumFunction(HeldOf(rec, b)) = HeldOf(rec, b)[k]
      BY <2>1, CoordinatorAssumption, SumOfOne
    <2> QED BY <2>1, <2>3, HeldIsSum
  <1>3. reserved \in [Buckets -> Int] /\ \A b \in Buckets : reserved[b] = 0
    BY DEF Init
  <1>4. \A b \in Buckets : Available[b] >= 0
    BY CoordinatorAssumption
  <1> QED BY <1>2, <1>3, <1>4 DEF InventoryInv, ReservedIsHeld, NoOverReservation

(* Each of the four kinds of steps keeps the counters those of the          *)
(* leases.                                                                  *)
LEMMA NextInventory ==
    ASSUME IInv, InventoryInv, [Next]_vars
    PROVE  InventoryInv'
  <1>1. ASSUME NEW c \in Callers, Replies(c) PROVE InventoryInv'
    <2>1. UNCHANGED <<rec, reserved>>
      BY <1>1 DEF Replies
    <2> QED BY <2>1 DEF InventoryInv, ReservedIsHeld, NoOverReservation, HeldIn
  <1> QED BY <1>1, NextShape, ClosesInventory, LeasesInventory, PublishesInventory

(* The counters of the inventory are those of the leases at all times. *)
THEOREM InventoryInvHolds == Spec => []InventoryInv
  <1>1. IInv /\ InventoryInv /\ [Next]_vars => InventoryInv'
    BY NextInventory
  <1> QED BY <1>1, InitInventory, IInvHolds, PTL DEF Spec

(* The reserved counter of a bucket is the sum of the leases held in it. *)
THEOREM CountersMatchLeases == Spec => []ReservedIsHeld
  <1>1. InventoryInv => ReservedIsHeld
    BY DEF InventoryInv
  <1> QED BY <1>1, InventoryInvHolds, PTL

(* The leases of a bucket never exceed its inventory. *)
THEOREM InventoryIsNeverOverReserved == Spec => []NoOverReservation
  <1>1. InventoryInv => NoOverReservation
    BY DEF InventoryInv
  <1> QED BY <1>1, InventoryInvHolds, PTL

(* The counters never go below zero, so releaseLease never refuses. *)
THEOREM CountersStayNatural == Spec => []TypeOK
  <1>1. IInv /\ InventoryInv => TypeOK
    <2> SUFFICES ASSUME IInv, InventoryInv, NEW b \in Buckets PROVE reserved[b] \in Nat
      BY DEF TypeOK, IInv, InventoryInv
    <2>1. \A k \in Keys : LeaseKept(rec[k], rec[k])
      BY KeepsLease DEF IInv
    <2>2. SumFunction(HeldOf(rec, b)) \in Nat
      BY <2>1, HeldAfter
    <2> QED BY <2>2, HeldIsSum DEF InventoryInv, ReservedIsHeld
  <1> QED BY <1>1, IInvHolds, InventoryInvHolds, PTL

-----------------------------------------------------------------------------
(* The coordinator implements the book. *)

bookStatus  == [k \in Keys |-> BookStatus(rec[k])]
bookTerms   == [k \in Keys |-> BookTerms(rec[k])]
bookQuote   == [k \in Keys |-> rec[k].sig]
bookReplies == [k \in Keys |-> {d.sig : d \in delivered[k]}]

(* What the state of a record says about its entry in the book. *)
LEMMA StatusOfState ==
    ASSUME NEW R \in Record
    PROVE  /\ R.state = "ABSENT" <=> BookStatus(R) = "none"
           /\ R.state = "RESERVED" <=> BookStatus(R) = "held"
           /\ R.state \in {"PUBLISHED"} \cup Observed <=> BookStatus(R) = "quoted"
           /\ R.state \in Terminal <=> BookStatus(R) = "closed"
  <1>1. R.state \in States
    BY DEF Record
  <1>2. CASE R.state = "ABSENT"
    BY <1>2 DEF BookStatus, Observed, Terminal
  <1>3. CASE R.state = "RESERVED"
    BY <1>3 DEF BookStatus, Observed, Terminal
  <1>4. CASE R.state \in {"PUBLISHED"} \cup Observed
    BY <1>4 DEF BookStatus, Observed, Terminal
  <1>5. CASE R.state \in Terminal
    BY <1>5 DEF BookStatus, Observed, Terminal
  <1> QED BY <1>1, <1>2, <1>3, <1>4, <1>5 DEF States

(* An entry is open exactly while its record holds a lease. *)
LEMMA OpenIsHeld ==
    ASSUME NEW R, GoodRecord(R)
    PROVE  BookStatus(R) \in {"held", "quoted"} <=> Holds(R)
  <1>1. R \in Record /\ R.state \in States
    BY DEF GoodRecord, Record
  <1> QED BY <1>1, StatusOfState DEF GoodRecord, Holds, States, Observed, Terminal

(* A record that keeps its quote keeps its entry, or closes it. *)
LEMMA EntryKept ==
    ASSUME NEW R, NEW Q, GoodRecord(R), Q = R \/ Keeps(R, Q)
    PROVE  /\ BookTerms(Q) = BookTerms(R)
           /\ Q.sig = R.sig => \/ BookStatus(Q) = BookStatus(R)
                               \/ /\ BookStatus(Q) = "closed"
                                  /\ BookStatus(R) \in {"held", "quoted"}
  <1>1. CASE Q = R
    BY <1>1
  <1>2. CASE Keeps(R, Q)
    <2>1. R \in Record /\ Q \in Record /\ R.state \in States /\ Q.state \in States
      BY <1>2 DEF Keeps, GoodRecord, Record
    <2>2. BookTerms(Q) = BookTerms(R)
      BY <1>2 DEF Keeps, BookTerms
    <2>3. R.state \in {"RESERVED", "PUBLISHED"} \cup Observed /\ Q.state # "ABSENT"
      BY <1>2, <2>1 DEF Keeps, States
    <2>4. ASSUME Q.sig = R.sig, Q.state \notin Terminal
          PROVE  R.state = "RESERVED" <=> Q.state = "RESERVED"
      BY <1>2, <2>1, <2>3, <2>4 DEF Keeps, GoodRecord, States
    <2>5. ASSUME Q.sig = R.sig, Q.state \in Terminal
          PROVE  BookStatus(Q) = "closed" /\ BookStatus(R) \in {"held", "quoted"}
      BY <2>1, <2>3, <2>5, StatusOfState
    <2>6. ASSUME Q.sig = R.sig, Q.state \notin Terminal PROVE BookStatus(Q) = BookStatus(R)
      <3>1. CASE Q.state = "RESERVED"
        BY <2>1, <2>4, <2>6, <3>1, StatusOfState
      <3>2. CASE Q.state # "RESERVED"
        <4>1. Q.state \in {"PUBLISHED"} \cup Observed /\ R.state \in {"PUBLISHED"} \cup Observed
          BY <2>1, <2>3, <2>4, <2>6, <3>2 DEF States
        <4> QED BY <2>1, <4>1, StatusOfState
      <3> QED BY <3>1, <3>2
    <2> QED BY <2>2, <2>5, <2>6
  <1> QED BY <1>1, <1>2

(* The coordinator starts as an empty book. *)
LEMMA InitBook == Init => Book!Init
  <1> SUFFICES ASSUME Init PROVE Book!Init
    OBVIOUS
  <1>1. \A k \in Keys : rec[k] = Absent /\ delivered[k] = {}
    BY DEF Init
  <1>2. Absent \in Record /\ Absent.state = "ABSENT" /\ Absent.sig = NoSig
    <2>1. PICK k \in Keys : TRUE
      BY CoordinatorAssumption
    <2>2. rec[k] \in Record
      BY InitIInv DEF IInv, Types
    <2> QED BY <1>1, <2>2 DEF Absent
  <1>3. BookStatus(Absent) = "none"
    BY <1>2, StatusOfState
  <1>4. BookTerms(Absent) \in [bucket: Buckets, amount: {0}, nonce: {0}]
    <2>1. (CHOOSE r \in Requests : TRUE) \in Requests
      BY CoordinatorAssumption
    <2>2. BucketOf[CHOOSE r \in Requests : TRUE] \in Buckets
      BY <2>1, CoordinatorAssumption
    <2> QED BY <2>2 DEF BookTerms, Absent
  <1>5. bookStatus = [k \in Keys |-> "none"]
    BY <1>1, <1>3 DEF bookStatus
  <1>6. bookTerms \in [Keys -> [bucket: Buckets, amount: {0}, nonce: {0}]]
    BY <1>1, <1>4 DEF bookTerms
  <1>7. bookQuote = [k \in Keys |-> NoSig]
    BY <1>1, <1>2 DEF bookQuote
  <1>8. bookReplies = [k \in Keys |-> {}]
    BY <1>1 DEF bookReplies
  <1> QED BY <1>5, <1>6, <1>7, <1>8
          DEF Book!Init, bookStatus, bookTerms, bookQuote, bookReplies

(* Closing records is closing entries of the book, *)
LEMMA ClosesBook ==
    ASSUME IInv, Closes
    PROVE  Book!CloseSome
  <1>1. \A k \in Keys : GoodRecord(rec[k]) /\ (rec'[k] = rec[k] \/ Keeps(rec[k], rec'[k]))
    BY DEF IInv, Closes, KeepsAll
  <1>2. \A k \in Keys : /\ BookTerms(rec'[k]) = BookTerms(rec[k])
                        /\ \/ BookStatus(rec'[k]) = BookStatus(rec[k])
                           \/ /\ BookStatus(rec'[k]) = "closed"
                              /\ BookStatus(rec[k]) \in {"held", "quoted"}
    BY <1>1, EntryKept DEF Closes
  <1> DEFINE S == {k \in Keys : BookStatus(rec'[k]) # BookStatus(rec[k])}
  <1>3. S \subseteq {k \in Keys : bookStatus[k] \in {"held", "quoted"}}
    BY <1>2 DEF bookStatus
  <1>4. bookStatus' = [k \in Keys |-> IF k \in S THEN "closed" ELSE bookStatus[k]]
    BY <1>2 DEF bookStatus
  <1>5. bookTerms' = bookTerms
    BY <1>2 DEF bookTerms
  <1>6. bookQuote' = bookQuote
    BY DEF bookQuote, Closes
  <1>7. bookReplies' = bookReplies
    BY DEF bookReplies, Closes
  <1> QED BY <1>3, <1>4, <1>5, <1>6, <1>7
          DEF Book!CloseSome, Book!Opened, Book!Closing,
              bookStatus, bookTerms, bookQuote, bookReplies

(* After a delivery the replies of a key are its one quote. *)
LEMMA DeliveredReplies ==
    ASSUME IInv, NEW c \in Callers, NEW R, Deliver(c, R),
           \A d \in delivered[call[c].key] : d.sig = R.sig
    PROVE  bookReplies' = [bookReplies EXCEPT ![call[c].key] = {R.sig}]
  <1> DEFINE k == call[c].key
             n == [nonce |-> R.nonce, sig |-> R.sig, strict |-> call[c].strict]
  <1>1. k \in Keys /\ DOMAIN delivered = Keys
    BY CallFields DEF IInv, Types
  <1>2. delivered' = [delivered EXCEPT ![k] = @ \cup {n}] /\ n.sig = R.sig
    BY DEF Deliver
  <1> HIDE DEF n
  <1>3. {d.sig : d \in delivered'[k]} = {R.sig}
    BY <1>1, <1>2
  <1>4. \A l \in Keys \ {k} : delivered'[l] = delivered[l]
    BY <1>1, <1>2
  <1> QED BY <1>1, <1>3, <1>4 DEF bookReplies

(* a repeated reply is a reply of the book, *)
LEMMA RepliesBook ==
    ASSUME IInv, NEW c \in Callers, Replies(c),
           NEW k \in Keys, k = call[c].key
    PROVE  Book!Reply(k)
  <1>1. k \in Keys /\ rec[k].sig # NoSig /\ rec' = rec /\ Deliver(c, rec[k])
    BY CallFields DEF Replies
  <1>2. \A d \in delivered[k] : d.sig = rec[k].sig
    BY <1>1 DEF IInv, OneQuotePerKey
  <1>3. bookReplies' = [bookReplies EXCEPT ![k] = {rec[k].sig}]
    BY <1>1, <1>2, DeliveredReplies
  <1>4. bookQuote[k] = rec[k].sig
    BY <1>1 DEF bookQuote
  <1>5. bookStatus' = bookStatus /\ bookTerms' = bookTerms /\ bookQuote' = bookQuote
    BY <1>1 DEF bookStatus, bookTerms, bookQuote
  <1> QED BY <1>1, <1>3, <1>4, <1>5
          DEF Book!Reply, bookStatus, bookTerms, bookQuote, bookReplies

(* publishing is publishing, *)
LEMMA PublishesBook ==
    ASSUME IInv, NEW c \in Callers, NEW s \in Sigs, Publishes(c, s),
           NEW k \in Keys, k = call[c].key
    PROVE  Book!Publish(k)
  <1> DEFINE R == rec[k]
             P == [R EXCEPT !.state = "PUBLISHED", !.sig = s]
  <1>1. k \in Keys /\ R \in Record /\ R.state = "RESERVED" /\ R.sig = NoSig
    BY CallFields DEF GoodRecord, Publishes
  <1>2. rec' = [rec EXCEPT ![k] = P] /\ Deliver(c, P)
    BY DEF Publishes, Store
  <1>3. /\ P \in Record /\ P.state = "PUBLISHED" /\ P.sig = s
        /\ P.req = R.req /\ P.amount = R.amount /\ P.nonce = R.nonce
    BY <1>1 DEF Record, States
  <1> HIDE DEF P
  <1>4. rec'[k] = P /\ \A l \in Keys \ {k} : rec'[l] = rec[l]
    BY <1>1, <1>2 DEF IInv, Types
  <1>5. delivered[k] = {}
    <2>1. \A d \in delivered[k] : d.sig = NoSig /\ d.sig \in Sigs
      BY <1>1 DEF IInv, OneQuotePerKey, Types, Reply
    <2> QED BY <2>1, CoordinatorAssumption
  <1>6. bookReplies' = [bookReplies EXCEPT ![k] = {s}]
    BY <1>2, <1>3, <1>5, DeliveredReplies
  <1>7. bookStatus[k] = "held" /\ bookStatus' = [bookStatus EXCEPT ![k] = "quoted"]
    <2>1. BookStatus(R) = "held" /\ BookStatus(P) = "quoted"
      BY <1>1, <1>3, StatusOfState
    <2> QED BY <1>1, <1>4, <2>1 DEF bookStatus
  <1>8. bookTerms' = bookTerms
    <2>1. BookTerms(P) = BookTerms(R)
      BY <1>3 DEF BookTerms
    <2> QED BY <1>1, <1>4, <2>1 DEF bookTerms
  <1>9. bookQuote' = [bookQuote EXCEPT ![k] = s] /\ bookQuote'[k] = s
    BY <1>1, <1>3, <1>4 DEF bookQuote
  <1> QED BY <1>6, <1>7, <1>8, <1>9
          DEF Book!Publish, bookStatus, bookTerms, bookQuote, bookReplies

(* The book and the coordinator add up in the same way. *)
LEMMA SameSums ==
    ASSUME NEW f
    PROVE  Book!SumFunction(f) = SumFunction(f)
  BY DEF SumFunction, SumFunctionOnSet, FoldFunctionOnSet, MapThenFoldSet,
         Book!SumFunction, Book!SumFunctionOnSet, Book!FoldFunctionOnSet, Book!MapThenFoldSet

(* The inventory that open entries take is what the records hold. *)
LEMMA TakenIsHeld ==
    ASSUME IInv', NEW b \in Buckets
    PROVE  Book!Taken(bookStatus', bookTerms', b) = HeldIn(b)'
  <1>1. \A k \in Keys : BookStatus(rec'[k]) \in {"held", "quoted"} <=> Holds(rec'[k])
    BY OpenIsHeld DEF IInv
  <1>2. \A k \in Keys : /\ bookTerms'[k].bucket = BucketOf[rec'[k].req]
                        /\ bookTerms'[k].amount = rec'[k].amount
                        /\ bookStatus'[k] = BookStatus(rec'[k])
    BY DEF bookTerms, bookStatus, BookTerms
  <1> DEFINE T == [k \in Keys |->
                     IF bookStatus'[k] \in {"held", "quoted"} /\ bookTerms'[k].bucket = b
                     THEN bookTerms'[k].amount ELSE 0]
  <1>3. Book!Taken(bookStatus', bookTerms', b) = Book!SumFunction(T)
    BY DEF Book!Taken
  <1>4. T = HeldOf(rec', b)
    BY <1>1, <1>2 DEF HeldOf
  <1> HIDE DEF T
  <1> QED BY <1>3, <1>4, SameSums, HeldIsSumAfter

(* and a reservation opens an entry within what is available. *)
LEMMA LeasesBook ==
    ASSUME IInv, IInv', InventoryInv', NEW c \in Callers, Leases(c),
           NEW k \in Keys, k = call[c].key
    PROVE  Book!Open(k)
  <1> DEFINE freed == ReleaseExpired(rec, call[c].t0)
             N == NewRecord(c)
  <1>1. /\ k \in Keys /\ rec[k] = Absent /\ rec[k].state = "ABSENT" /\ lastNonce \in Nat
    BY CallFields DEF GoodRecord, Leases, IInv, Types
  <1>2. N.nonce = lastNonce + 1 /\ N.state = "RESERVED" /\ N.sig = NoSig
    BY DEF NewRecord, NextNonce
  <1>3. rec' = [freed EXCEPT ![k] = N] /\ DOMAIN freed = Keys /\ UNCHANGED delivered
    BY DEF Leases, ReleaseExpired
  <1>4. ASSUME NEW l \in Keys
        PROVE  /\ BookTerms(freed[l]) = BookTerms(rec[l]) /\ freed[l].sig = rec[l].sig
               /\ \/ BookStatus(freed[l]) = BookStatus(rec[l])
                  \/ /\ BookStatus(freed[l]) = "closed"
                     /\ BookStatus(rec[l]) \in {"held", "quoted"}
    <2>1. freed[l].sig = rec[l].sig
      BY DEF ReleaseExpired, Close, IInv, Types, Record
    <2> QED BY <2>1, ReleaseKeeps, EntryKept DEF IInv
  <1> HIDE DEF freed, N
  <1>5. rec'[k] = N /\ \A l \in Keys \ {k} : rec'[l] = freed[l]
    BY <1>1, <1>3
  <1>6. N \in Record
    BY <1>1, <1>5 DEF IInv, Types
  <1>7. BookStatus(rec[k]) = "none" /\ BookStatus(N) = "held"
    <2>1. rec[k] \in Record
      BY <1>1 DEF IInv, Types
    <2> QED BY <1>1, <1>2, <1>6, <2>1, StatusOfState
  <1> DEFINE S == {l \in Keys \ {k} : BookStatus(rec'[l]) # BookStatus(rec[l])}
  <1>8. S \subseteq {l \in Keys : bookStatus[l] \in {"held", "quoted"}}
    BY <1>4, <1>5 DEF bookStatus
  <1>9. bookStatus' = [[l \in Keys |-> IF l \in S THEN "closed" ELSE bookStatus[l]]
                         EXCEPT ![k] = "held"]
    BY <1>1, <1>4, <1>5, <1>7 DEF bookStatus
  <1>10. bookTerms'[k].nonce = lastNonce + 1
    BY <1>1, <1>2, <1>5 DEF bookTerms, BookTerms
  <1>11. \A l \in Keys \ {k} : bookTerms'[l] = bookTerms[l]
    BY <1>4, <1>5 DEF bookTerms
  <1>12. lastNonce + 1 \notin {bookTerms[l].nonce : l \in {m \in Keys : bookStatus[m] # "none"}}
    <2>1. ASSUME NEW l \in Keys, bookStatus[l] # "none"
          PROVE  bookTerms[l].nonce \in 1..lastNonce
      <3>1. rec[l] \in Record /\ BookStatus(rec[l]) # "none"
        BY <2>1 DEF bookStatus, IInv, Types
      <3>2. rec[l].state # "ABSENT"
        BY <3>1, StatusOfState
      <3> QED BY <3>2 DEF bookTerms, BookTerms, IInv, NonceUnique
    <2> QED BY <1>1, <2>1
  <1>13. \A b \in Buckets : Book!Taken(bookStatus', bookTerms', b) <= Available[b]
    BY TakenIsHeld DEF InventoryInv, NoOverReservation
  <1>14. bookQuote' = bookQuote
    <2>1. rec[k].sig = NoSig
      BY <1>1 DEF Absent
    <2> QED BY <1>1, <1>2, <1>4, <1>5, <2>1 DEF bookQuote
  <1>15. bookReplies' = bookReplies
    BY <1>3 DEF bookReplies
  <1>16. bookStatus[k] = "none" /\ DOMAIN bookTerms' = Keys
    BY <1>1, <1>7 DEF bookStatus, bookTerms
  <1> HIDE DEF S
  <1> QED
    BY <1>8, <1>9, <1>10, <1>11, <1>12, <1>13, <1>14, <1>15, <1>16
       DEF Book!Open, Book!Opened, Book!Closing, Book!Used,
           bookStatus, bookTerms, bookQuote, bookReplies

(* Every behaviour of the coordinator is a behaviour of the book. *)
THEOREM CoordinatorImplementsBook == Spec => ImplementsBook
  <1>1. IInv /\ InventoryInv /\ [Next]_vars => [Book!Next]_Book!vars
    <2> SUFFICES ASSUME IInv, InventoryInv, [Next]_vars PROVE Book!Next
      OBVIOUS
    <2>1. IInv' /\ InventoryInv'
      BY NextIInv, NextInventory
    <2>2. CASE Closes
      BY <2>2, ClosesBook DEF Book!Next
    <2>3. ASSUME NEW c \in Callers, Replies(c) \/ Leases(c) \/ \E s \in Sigs : Publishes(c, s)
          PROVE  Book!Next
      <3>1. PICK k \in Keys : k = call[c].key
        BY CallFields
      <3>2. Book!Open(k) \/ Book!Publish(k) \/ Book!Reply(k)
        BY <2>1, <2>3, <3>1, RepliesBook, LeasesBook, PublishesBook
      <3> QED BY <3>2 DEF Book!Next
    <2> QED BY <2>2, <2>3, NextShape
  <1> QED BY <1>1, InitBook, IInvHolds, InventoryInvHolds, PTL DEF Spec, ImplementsBook, Book!Spec
=============================================================================
