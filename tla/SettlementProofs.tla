-------------------------- MODULE SettlementProofs --------------------------
(***************************************************************************)
(* Proofs about Settlement.  The ledger balances outside a transaction; in  *)
(* one, the quote's nonce is marked but not yet told, and the snapshot the  *)
(* transaction would revert to balances.  A quote that was stopped waits    *)
(* behind a shut gate whose notice, if any, was given after the stop.       *)
(***************************************************************************)
EXTENDS Settlement, TLAPS

Balanced(used, told) == \A k \in Nonces : told[k] = IF k \in used THEN 1 ELSE 0

Ledger ==
    /\ tx = NoTx => Balanced(usedQuote, settled)
    /\ tx # NoTx =>
         /\ Balanced(tx.used, tx.settled)
         /\ tx.quote.nonce \in usedQuote
         /\ Balanced(usedQuote \ {tx.quote.nonce}, settled)

Held(s) ==
    \/ time >= s.at + Delay
    \/ \E g \in DependsOn(s.quote) : shut[g] /\ (notice[g] # 0 => notice[g] >= s.at + Delay)

Stops ==
    /\ \A s \in stopped : s.at <= time /\ Held(s)
    /\ StopsKillOutstanding

(* What the constants are. *)
LEMMA Assumptions ==
    /\ Delay \in Nat \ {0} /\ MaxTtl \in Nat
    /\ Delegate \notin Scopes /\ Maker # Delegate
    /\ Delegate \in Gates /\ Scopes \subseteq Gates
    /\ NoTx \notin Transaction
BY SettlementAssumption, NoTxAssumption DEF Gates

-----------------------------------------------------------------------------
(* The types hold at first, and after each action. *)
LEMMA InitTypes == SettlementInit => SettlementTypeOK
BY DEF SettlementInit, SettlementTypeOK

LEMMA SignTypes ==
    ASSUME SettlementTypeOK, NEW k \in Nonces, NEW s \in {Maker, Delegate}, NEW ttl \in 1..MaxTtl,
           SignQuote(k, s, ttl)
    PROVE  SettlementTypeOK'
<1> DEFINE q == [nonce |-> k, policy |-> policy, signer |-> s, expiry |-> time + ttl]
<1>1. q \in Quote BY Assumptions DEF SettlementTypeOK, Quote
<1>2. offers' = offers \cup {q} BY DEF SignQuote
<1> HIDE DEF q
<1>3. offers' \subseteq Quote /\ stopped' \subseteq [quote : offers', at : Nat]
  BY <1>1, <1>2 DEF SettlementTypeOK, SignQuote
<1> QED BY <1>3 DEF SettlementTypeOK, SignQuote, gateVars, ruleVars, ledgerVars

LEMMA GateTypes ==
    ASSUME SettlementTypeOK, NEW g \in Gates, ShutGate(g) \/ MoveGate(g)
    PROVE  SettlementTypeOK'
<1>1. shut' \in [Gates -> BOOLEAN] /\ notice' \in [Gates -> Nat] /\ time' = time
  <2>1. CASE Controls!Shut(g) BY <2>1 DEF SettlementTypeOK, Controls!Shut
  <2>2. CASE Controls!Announce(g)
    <3>1. time + Delay \in Nat BY Assumptions DEF SettlementTypeOK
    <3> QED BY <2>2, <3>1 DEF SettlementTypeOK, Controls!Announce
  <2>3. CASE Controls!Withdraw(g) BY <2>3 DEF SettlementTypeOK, Controls!Withdraw
  <2>4. CASE Controls!Reopen(g) BY <2>4 DEF SettlementTypeOK, Controls!Reopen
  <2> QED BY <2>1, <2>2, <2>3, <2>4 DEF ShutGate, StopGate, MoveGate
<1>2. stopped' \subseteq [quote : offers', at : Nat]
  BY DEF SettlementTypeOK, ShutGate, MoveGate, quoteVars
<1> QED BY <1>1, <1>2 DEF SettlementTypeOK, ShutGate, MoveGate, ruleVars, quoteVars, ledgerVars

LEMMA ExecuteTypes ==
    ASSUME SettlementTypeOK, NEW r \in Routers, NEW n \in TakerNonces, NEW q \in offers,
           Execute(r, n, q)
    PROVE  SettlementTypeOK'
<1>1. q \in Quote /\ q.nonce \in Nonces BY DEF SettlementTypeOK, Quote
<1>2. tx' \in Transaction BY <1>1 DEF SettlementTypeOK, Execute, Transaction
<1>3. usedQuote' \subseteq Nonces BY <1>1 DEF SettlementTypeOK, Execute, Marked
<1>4. usedTaker' \in [Routers -> SUBSET TakerNonces] BY DEF SettlementTypeOK, Execute
<1> QED BY <1>2, <1>3, <1>4 DEF SettlementTypeOK, Execute, gateVars, ruleVars, quoteVars

LEMMA EndTypes ==
    ASSUME SettlementTypeOK, CommitExecution \/ Revert
    PROVE  SettlementTypeOK'
<1>1. tx \in Transaction BY DEF SettlementTypeOK, CommitExecution, Revert
<1>2. /\ tx.quote.nonce \in Nonces /\ tx.router \in Routers
      /\ tx.used \subseteq Nonces /\ tx.settled \in [Nonces -> Nat]
  BY <1>1 DEF Transaction, Quote
<1>3. /\ usedQuote' \subseteq Nonces /\ settled' \in [Nonces -> Nat]
      /\ usedTaker' \in [Routers -> SUBSET TakerNonces]
  BY <1>2 DEF SettlementTypeOK, CommitExecution, Revert
<1> QED BY <1>3 DEF SettlementTypeOK, CommitExecution, Revert, gateVars, ruleVars, quoteVars

(* So the types are an invariant. *)
LEMMA StepTypes == SettlementTypeOK /\ [SettlementNext]_settlementVars => SettlementTypeOK'
<1> SUFFICES ASSUME SettlementTypeOK, [SettlementNext]_settlementVars PROVE SettlementTypeOK' OBVIOUS
<1>1. CASE Between
  <2>1. ASSUME NEW k \in Nonces, NEW s \in {Maker, Delegate}, NEW ttl \in 1..MaxTtl,
               SignQuote(k, s, ttl)
        PROVE  SettlementTypeOK'
    BY <2>1, SignTypes
  <2>2. ASSUME NEW g \in Gates, ShutGate(g) \/ MoveGate(g) PROVE SettlementTypeOK'
    BY <2>2, GateTypes
  <2>3. ASSUME NEW p \in Policies, NEW b \in BOOLEAN, ChangePolicy(p, b) PROVE SettlementTypeOK'
    BY <2>3 DEF SettlementTypeOK, ChangePolicy, gateVars, quoteVars, ledgerVars
  <2>4. ASSUME NEW b \in BOOLEAN, SetMakerApproved(b) \/ RegisterVenue(b) PROVE SettlementTypeOK'
    BY <2>4 DEF SettlementTypeOK, SetMakerApproved, RegisterVenue, gateVars, quoteVars, ledgerVars
  <2>5. ASSUME NEW r \in Routers, SetRouter(r) \/ SetEngineRouter(r) PROVE SettlementTypeOK'
    BY <2>5 DEF SettlementTypeOK, SetRouter, SetEngineRouter, gateVars, quoteVars, ledgerVars
  <2>6. CASE SettlementTick
    BY <2>6 DEF SettlementTypeOK, SettlementTick, gateVars, ruleVars, quoteVars, ledgerVars
  <2> QED BY <1>1, <2>1, <2>2, <2>3, <2>4, <2>5, <2>6 DEF Between
<1>2. ASSUME NEW r \in Routers, NEW n \in TakerNonces, NEW q \in offers, Execute(r, n, q)
      PROVE  SettlementTypeOK'
  BY <1>2, ExecuteTypes
<1>3. CASE CommitExecution \/ Revert BY <1>3, EndTypes
<1>4. ASSUME NEW k \in Nonces, CancelQuoteNonce(k) PROVE SettlementTypeOK'
  BY <1>4 DEF SettlementTypeOK, CancelQuoteNonce, gateVars, ruleVars, quoteVars
<1>5. CASE UNCHANGED settlementVars BY <1>5 DEF SettlementTypeOK, settlementVars
<1> QED BY <1>1, <1>2, <1>3, <1>4, <1>5 DEF SettlementNext

(* Every variable keeps its type. *)
THEOREM TypesHold == SettlementSpec => []SettlementTypeOK
<1> QED BY InitTypes, StepTypes, PTL DEF SettlementSpec

-----------------------------------------------------------------------------
(* Each step keeps the ledger of nonces. *)
LEMMA StepLedger ==
    ASSUME SettlementTypeOK, Ledger, [SettlementNext]_settlementVars
    PROVE  Ledger'
<1>1. CASE Between
  BY <1>1 DEF Between, Ledger, Balanced, SignQuote, ShutGate, MoveGate, ChangePolicy,
     SetMakerApproved, RegisterVenue, SetRouter, SetEngineRouter, SettlementTick, ledgerVars
<1>2. ASSUME NEW r \in Routers, NEW n \in TakerNonces, NEW q \in offers, Execute(r, n, q)
      PROVE  Ledger'
  <2>1. Balanced(usedQuote, settled) /\ q.nonce \notin usedQuote
    BY <1>2 DEF Execute, Ledger, ValidQuote
  <2>2. /\ tx'.used = usedQuote /\ tx'.settled = settled /\ tx'.quote = q
        /\ usedQuote' = usedQuote \cup {q.nonce} /\ settled' = settled
    BY <1>2 DEF Execute, Marked
  <2>3. usedQuote' \ {q.nonce} = usedQuote BY <2>1, <2>2
  <2>4. tx' # NoTx
    <3>1. tx' \in Transaction
      BY <1>2 DEF Execute, SettlementTypeOK, Transaction
    <3> QED BY <3>1, Assumptions
  <2> QED BY <2>1, <2>2, <2>3, <2>4 DEF Ledger, Balanced
<1>3. CASE CommitExecution
  <2>1. /\ tx.quote.nonce \in usedQuote /\ tx.quote.nonce \in Nonces
        /\ Balanced(usedQuote \ {tx.quote.nonce}, settled)
    BY <1>3 DEF CommitExecution, Ledger, SettlementTypeOK
  <2>2. /\ tx' = NoTx /\ usedQuote' = usedQuote
        /\ settled' = [settled EXCEPT ![tx.quote.nonce] = @ + 1]
    BY <1>3, <2>1 DEF CommitExecution
  <2>3. Balanced(usedQuote', settled')
    BY <2>1, <2>2 DEF Balanced, SettlementTypeOK
  <2> QED BY <2>2, <2>3 DEF Ledger
<1>4. CASE Revert
  BY <1>4 DEF Revert, Ledger
<1>5. ASSUME NEW k \in Nonces, CancelQuoteNonce(k) PROVE Ledger'
  <2>1. /\ tx' = tx /\ k \notin usedQuote /\ usedQuote' = usedQuote \cup {k}
        /\ settled' = [settled EXCEPT ![k] = @ + 1]
    BY <1>5 DEF CancelQuoteNonce
  <2>2. CASE tx = NoTx
    BY <2>1, <2>2 DEF Ledger, Balanced, SettlementTypeOK
  <2>3. CASE tx # NoTx
    <3>1. tx.quote.nonce # k BY <2>1, <2>3 DEF Ledger
    <3>2. Balanced(usedQuote' \ {tx.quote.nonce}, settled')
      BY <2>1, <2>3, <3>1 DEF Ledger, Balanced, SettlementTypeOK
    <3> QED BY <2>1, <2>3, <3>2 DEF Ledger
  <2> QED BY <2>2, <2>3
<1>6. CASE UNCHANGED settlementVars BY <1>6 DEF Ledger, Balanced, settlementVars
<1> QED BY <1>1, <1>2, <1>3, <1>4, <1>5, <1>6 DEF SettlementNext

(* Where the ledger is right, no nonce settles twice. *)
LEMMA LedgerImplies == SettlementTypeOK /\ Ledger => SettledOnce
<1> SUFFICES ASSUME SettlementTypeOK, Ledger PROVE SettledOnce OBVIOUS
<1>1. \A k \in Nonces : settled[k] <= 1
  BY DEF Ledger, Balanced
<1>2. tx = NoTx => usedQuote = {k \in Nonces : settled[k] = 1}
  BY DEF Ledger, Balanced, SettlementTypeOK
<1> QED BY <1>1, <1>2 DEF SettledOnce

(* A quote nonce is filled or cancelled at most once, and is used exactly if  *)
(* the event that says so was emitted, for any number of quotes, routers,     *)
(* taker nonces and callbacks.                                                *)
THEOREM NoncesSettleOnce == SettlementSpec => []SettledOnce
<1>1. SettlementInit => Ledger BY DEF SettlementInit, Ledger, Balanced
<1>2. SettlementTypeOK /\ Ledger /\ [SettlementNext]_settlementVars => Ledger' BY StepLedger
<1> QED BY <1>1, <1>2, TypesHold, LedgerImplies, PTL DEF SettlementSpec

-----------------------------------------------------------------------------
(* A gate that was shut stays shut for its Delay, *)
LEMMA GateStops ==
    ASSUME SettlementTypeOK, Stops, tx = NoTx,
           NEW g \in Gates, ShutGate(g) \/ MoveGate(g)
    PROVE  Stops'
<1>1. offers' = offers /\ time' = time /\ tx' = tx
  BY DEF ShutGate, StopGate, MoveGate, Controls!Shut, Controls!Announce, Controls!Withdraw,
     Controls!Reopen, quoteVars, ledgerVars
<1>2. time \in Nat /\ Delay \in Nat \ {0}
      /\ shut \in [Gates -> BOOLEAN] /\ notice \in [Gates -> Nat]
  BY Assumptions DEF SettlementTypeOK
<1>3. ASSUME NEW s \in stopped' PROVE s.at <= time /\ Held(s)'
  <2>1. CASE ShutGate(g)
    <3>1. /\ shut' = [shut EXCEPT ![g] = TRUE] /\ notice' = [notice EXCEPT ![g] = 0]
      BY <2>1 DEF ShutGate, StopGate, Controls!Shut
    <3>2. CASE s \in stopped /\ g \notin DependsOn(s.quote)
      <4>1. s.at \in Nat /\ s.at <= time /\ Held(s)
        BY <3>2 DEF Stops, SettlementTypeOK
      <4> QED BY <1>1, <1>2, <3>1, <3>2, <4>1 DEF Held, DependsOn
    <3>3. CASE \E q \in offers : g \in DependsOn(q) /\ s = [quote |-> q, at |-> time]
      <4>1. s.at = time /\ g \in DependsOn(s.quote) BY <3>3
      <4>2. shut'[g] /\ notice'[g] = 0 BY <1>2, <3>1
      <4> QED BY <1>2, <4>1, <4>2 DEF Held, DependsOn
    <3> QED BY <2>1, <3>2, <3>3 DEF ShutGate
  <2>2. CASE MoveGate(g)
    <3>1. /\ s.at \in Nat /\ s.at <= time /\ Held(s)
          /\ DependsOn(s.quote) \subseteq Gates
      BY <2>2 DEF MoveGate, quoteVars, Stops, SettlementTypeOK, DependsOn, Gates
    <3>2. CASE time >= s.at + Delay
      <4>1. time' >= s.at + Delay BY <1>1, <3>2
      <4> QED BY <3>1, <4>1 DEF Held
    <3>3. CASE \E h \in DependsOn(s.quote) :
                  shut[h] /\ (notice[h] # 0 => notice[h] >= s.at + Delay)
      <4>1. PICK h \in DependsOn(s.quote) :
                  shut[h] /\ (notice[h] # 0 => notice[h] >= s.at + Delay)
        BY <3>3
      <4> DEFINE kept == shut'[h] /\ (notice'[h] # 0 => notice'[h] >= s.at + Delay)
      <4>2. h \in DependsOn(s.quote)' /\ h \in Gates BY <3>1, <4>1 DEF DependsOn
      <4>3. ASSUME Controls!Announce(g) PROVE kept
        <5>1. time + Delay >= s.at + Delay BY <1>2, <3>1
        <5>2. shut' = shut /\ notice' = [notice EXCEPT ![g] = time + Delay]
          BY <4>3 DEF Controls!Announce
        <5>3. notice'[h] # 0 => notice'[h] >= s.at + Delay
          BY <1>2, <4>1, <4>2, <5>1, <5>2
        <5> QED BY <4>1, <5>2, <5>3
      <4>4. ASSUME Controls!Withdraw(g) PROVE kept
        BY <1>2, <4>1, <4>2, <4>4 DEF Controls!Withdraw
      <4>5. ASSUME Controls!Reopen(g) PROVE kept \/ time' >= s.at + Delay
        <5>1. CASE h = g
          BY <1>1, <1>2, <3>1, <4>1, <4>2, <4>5, <5>1 DEF Controls!Reopen
        <5>2. CASE h # g
          BY <1>2, <4>1, <4>2, <4>5, <5>2 DEF Controls!Reopen
        <5> QED BY <5>1, <5>2
      <4>6. kept \/ time' >= s.at + Delay
        BY <2>2, <4>3, <4>4, <4>5 DEF MoveGate
      <4> QED BY <3>1, <4>2, <4>6 DEF Held
    <3> QED BY <3>1, <3>2, <3>3 DEF Held
  <2> QED BY <2>1, <2>2
<1>4. StopsKillOutstanding' BY Assumptions, <1>1 DEF StopsKillOutstanding
<1> QED BY <1>1, <1>3, <1>4 DEF Stops

(* a settlement needs its gates open, *)
LEMMA ExecuteStops ==
    ASSUME SettlementTypeOK, Stops, NEW r \in Routers, NEW n \in TakerNonces, NEW q \in offers,
           Execute(r, n, q)
    PROVE  Stops'
<1>1. UNCHANGED <<shut, notice, time, offers, stopped>> /\ tx'.quote = q
  BY DEF Execute, gateVars, quoteVars
<1>2. time <= q.expiry /\ time \in Nat /\ q.expiry \in Nat /\ Delay \in Nat
  BY Assumptions DEF Execute, ValidQuote, Unexpired, SettlementTypeOK, Quote
<1>3. \A g \in DependsOn(q) : ~shut[g]
  BY Assumptions DEF Execute, ValidQuote, Authorized, DependsOn, Gates
<1>4. ASSUME NEW s \in stopped, s.quote = q
      PROVE  s.at + Delay <= time /\ s.at + Delay <= q.expiry
  <2>1. s.at \in Nat BY DEF SettlementTypeOK
  <2>2. s.at + Delay <= time BY <1>2, <1>3, <1>4, <2>1 DEF Stops, Held
  <2> QED BY <1>2, <2>1, <2>2
<1>5. StopsKillOutstanding' BY <1>1, <1>4 DEF StopsKillOutstanding
<1> QED BY <1>1, <1>5 DEF Stops, Held, DependsOn

(* and no other step settles. *)
LEMMA StepStops ==
    ASSUME SettlementTypeOK, Stops, [SettlementNext]_settlementVars
    PROVE  Stops'
<1>1. ASSUME UNCHANGED <<shut, notice, time, stopped>>, tx' = tx \/ tx' = NoTx
      PROVE  Stops'
  BY <1>1 DEF Stops, StopsKillOutstanding, Held, DependsOn
<1>2. ASSUME NEW k \in Nonces, NEW s \in {Maker, Delegate},
             NEW ttl \in 1..MaxTtl, SignQuote(k, s, ttl)
      PROVE  Stops'
  BY <1>1, <1>2 DEF SignQuote, gateVars, ledgerVars
<1>3. ASSUME tx = NoTx, NEW g \in Gates, ShutGate(g) \/ MoveGate(g) PROVE Stops'
  BY <1>3, GateStops
<1>4. CASE tx = NoTx /\ SettlementTick
  <2>1. /\ time \in Nat /\ time' = time + 1 /\ Delay \in Nat
        /\ UNCHANGED <<shut, notice, stopped, tx>>
    BY Assumptions, <1>4
       DEF SettlementTick, SettlementTypeOK, gateVars, quoteVars, ledgerVars
  <2>2. ASSUME NEW s \in stopped PROVE s.at <= time' /\ Held(s)'
    <3>1. s.at \in Nat /\ s.at <= time /\ Held(s)
      BY DEF SettlementTypeOK, Stops
    <3> QED BY <2>1, <3>1 DEF Held, DependsOn
  <2> QED BY <1>4, <2>1, <2>2 DEF Stops, StopsKillOutstanding
<1>5. ASSUME NEW p \in Policies, NEW b \in BOOLEAN, ChangePolicy(p, b) PROVE Stops'
  BY <1>1, <1>5 DEF ChangePolicy, gateVars, quoteVars, ledgerVars
<1>6. ASSUME NEW b \in BOOLEAN, SetMakerApproved(b) \/ RegisterVenue(b) PROVE Stops'
  BY <1>1, <1>6 DEF SetMakerApproved, RegisterVenue, gateVars, quoteVars, ledgerVars
<1>7. ASSUME NEW r \in Routers, SetRouter(r) \/ SetEngineRouter(r) PROVE Stops'
  BY <1>1, <1>7 DEF SetRouter, SetEngineRouter, gateVars, quoteVars, ledgerVars
<1>8. ASSUME NEW r \in Routers, NEW n \in TakerNonces, NEW q \in offers, Execute(r, n, q)
      PROVE  Stops'
  BY <1>8, ExecuteStops
<1>9. CASE CommitExecution \/ Revert
  BY <1>1, <1>9 DEF CommitExecution, Revert, gateVars, quoteVars
<1>10. ASSUME NEW k \in Nonces, CancelQuoteNonce(k) PROVE Stops'
  BY <1>1, <1>10 DEF CancelQuoteNonce, gateVars, quoteVars
<1>11. CASE UNCHANGED settlementVars BY <1>1, <1>11 DEF settlementVars
<1> QED
  BY <1>2, <1>3, <1>4, <1>5, <1>6, <1>7, <1>8, <1>9, <1>10, <1>11 DEF SettlementNext, Between

(* A quote that a pause or a revocation found outstanding does not trade      *)
(* before the Delay has run from the last such stop, and never if it expires  *)
(* by then: for any number of scopes, quotes, policies, routers and nonces,   *)
(* and whether quotes live shorter or longer than the Delay.                  *)
THEOREM StopsAreFinal == SettlementSpec => []StopsKillOutstanding
<1>1. SettlementInit => Stops BY DEF SettlementInit, Stops, StopsKillOutstanding
<1>2. SettlementTypeOK /\ Stops /\ [SettlementNext]_settlementVars => Stops' BY StepStops
<1>3. Stops => StopsKillOutstanding BY DEF Stops
<1> QED BY <1>1, <1>2, <1>3, TypesHold, PTL DEF SettlementSpec
=============================================================================
