--------------------------- MODULE OperationsProofs ---------------------------
(***************************************************************************)
(* The two sides of a trade that is judged, and the data it is judged by, for *)
(* any wallets, identities, caps, plans, subjects, refreshes, lots and sales: *)
(* an inductive invariant for each, and what it keeps.                      *)
(***************************************************************************)
EXTENDS Operations, SumLemmas, SequenceTheorems, TLAPS

(* HolderCount under the engine.  The counters are those of the balances in  *)
(* every state; that the balances are those of the wallets needs the trades  *)
(* to be heard, and persons that do not share a wallet.                      *)

Holders == {p \in Persons : balanceOfIdentity[p] > 0}

HolderTypes ==
    /\ identityOf \in [Wallets -> Identities \cup {NoIdentity}]
    /\ balanceOfIdentity \in [Persons -> Nat]
    /\ countedNonAi \subseteq Persons
    /\ held \in [Wallets -> Nat]
    /\ bindings \in Manifests

(* A person has one wallet, and the issuer's is bound to nobody.             *)
OneWalletEach ==
    /\ \A v, w \in Wallets : Person(v) = Person(w) => v = w
    /\ identityOf[Issuer] = NoIdentity

(* MirrorsHoldings, by wallet.                                               *)
Mirrored ==
    seen => /\ \A w \in Wallets \ {Issuer} : balanceOfIdentity[Person(w)] = held[w]
            /\ \A p \in Persons :
                  (\A w \in Wallets : Person(w) # p) => balanceOfIdentity[p] = 0

EngineInv == HolderTypes /\ OneWalletEach /\ CountersMatchBalances

-----------------------------------------------------------------------------
(* A wallet is someone's. *)
LEMMA PersonsOfWallets ==
  ASSUME HolderTypes, NEW w \in Wallets
  PROVE  Person(w) \in Persons
BY DEF HolderTypes, Person, Persons

(* Holders are finitely many, and counted. *)
LEMMA FiniteHolders ==
  ASSUME EngineInv
  PROVE  /\ IsFiniteSet(Holders) /\ IsFiniteSet(countedNonAi)
         /\ holderCount = Cardinality(Holders) /\ nonAiCount = Cardinality(countedNonAi)
         /\ holderCount \in Nat /\ nonAiCount \in Nat
<1>1. IsFiniteSet(Persons)
  BY HolderCountAssumption, FS_Union DEF Persons
<1>2. IsFiniteSet(Holders) /\ IsFiniteSet(countedNonAi)
  BY <1>1, FS_Subset DEF Holders, EngineInv, HolderTypes
<1> QED BY <1>2, FS_CardinalityType DEF EngineInv, CountersMatchBalances, Holders

(* What a transfer does to the balances, when it is of something.            *)
LEMMA MovedBalances ==
  ASSUME HolderTypes, NEW from \in Wallets, NEW to \in Wallets, NEW amount \in Nat,
         amount > 0
  PROVE  LET left == Moved(from, to, amount) IN
         /\ left \in [Persons -> Nat]
         /\ left[Person(to)] > 0
         /\ Person(from) # Person(to) =>
               /\ left[Person(to)] = balanceOfIdentity[Person(to)] + amount
               /\ left[Person(from)] = IF amount > balanceOfIdentity[Person(from)] THEN 0
                                       ELSE balanceOfIdentity[Person(from)] - amount
         /\ Person(from) = Person(to) /\ amount <= balanceOfIdentity[Person(from)] =>
               left = balanceOfIdentity
         /\ \A p \in Persons \ {Person(from), Person(to)} : left[p] = balanceOfIdentity[p]
<1> DEFINE f == Person(from)
           g == Person(to)
           b == balanceOfIdentity
           floored == IF amount > b[f] THEN 0 ELSE b[f] - amount
           once == [b EXCEPT ![f] = IF amount > @ THEN 0 ELSE @ - amount]
<1>1. f \in Persons /\ g \in Persons /\ b \in [Persons -> Nat]
  BY PersonsOfWallets DEF HolderTypes
<1>2. Moved(from, to, amount) = [once EXCEPT ![g] = @ + amount]
  BY DEF Moved
<1>9. once = [b EXCEPT ![f] = floored]
  OBVIOUS
<1> HIDE DEF f, g, b
<1>3. floored \in Nat
  BY <1>1
<1>4. amount <= b[f] => floored + amount = b[f]
  BY <1>1
<1> HIDE DEF floored
<1>5. once \in [Persons -> Nat] /\ once[f] = floored /\ \A p \in Persons \ {f} : once[p] = b[p]
  BY <1>1, <1>3, <1>9
<1> HIDE DEF once
<1> DEFINE left == [once EXCEPT ![g] = @ + amount]
<1>6. /\ left \in [Persons -> Nat] /\ left[g] = once[g] + amount
      /\ \A p \in Persons \ {g} : left[p] = once[p]
  BY <1>1, <1>5
<1>7. left[g] > 0
  BY <1>1, <1>5, <1>6
<1> HIDE DEF left
<1>8. f = g /\ amount <= b[f] => left = b
  BY <1>1, <1>4, <1>5, <1>6
<1> QED BY <1>1, <1>2, <1>5, <1>6, <1>7, <1>8 DEF f, g, b, left, floored

(* Entries and exits are counted once.                                       *)
LEMMA TransferCounts ==
  ASSUME EngineInv, NEW from \in Wallets, NEW to \in Wallets, NEW amount \in Nat,
         OnTransfer(from, to, amount)
  PROVE  /\ CountersMatchBalances' /\ balanceOfIdentity' \in [Persons -> Nat]
         /\ countedNonAi' \subseteq Persons
         /\ holderCount' > holderCount =>
               ~CapBreached(to) /\ holderCount' = holderCount + 1
         /\ nonAiCount' > nonAiCount =>
               ~CapBreached(to) /\ to \notin accredited /\ nonAiCount' = nonAiCount + 1
<1>0. HolderTypes /\ CountersMatchBalances
  BY DEF EngineInv
<1>1. CASE amount = 0
  <2>1. UNCHANGED <<balanceOfIdentity, holderCount, nonAiCount, countedNonAi>>
    BY <1>1, FiniteHolders DEF OnTransfer
  <2> QED BY <1>0, <2>1, FiniteHolders DEF CountersMatchBalances, HolderTypes
<1>2. CASE amount # 0
  <2> DEFINE f == Person(from)
             g == Person(to)
             b == balanceOfIdentity
             left == Moved(from, to, amount)
             enters == b[g] = 0
             exits == b[f] > 0 /\ left[f] = 0
             H == Holders
             C == countedNonAi
  <2>1. /\ amount > 0 /\ b \in [Persons -> Nat] /\ f \in Persons /\ g \in Persons
        /\ C \subseteq H /\ H \subseteq Persons
    BY <1>0, <1>2, PersonsOfWallets DEF HolderTypes, CountersMatchBalances, Holders
  <2>2. /\ left \in [Persons -> Nat] /\ left[g] > 0
        /\ \A p \in Persons \ {f, g} : left[p] = b[p]
        /\ f # g => left[f] = IF amount > b[f] THEN 0 ELSE b[f] - amount
    BY <1>0, <2>1, MovedBalances
  <2>3. /\ balanceOfIdentity' = left
        /\ enters => ~CapBreached(to)
        /\ holderCount' = holderCount + (IF enters THEN 1 ELSE 0) - (IF exits THEN 1 ELSE 0)
        /\ nonAiCount' = nonAiCount + (IF enters /\ to \notin accredited THEN 1 ELSE 0)
                                    - (IF exits /\ f \in C THEN 1 ELSE 0)
        /\ countedNonAi' = (IF enters /\ to \notin accredited THEN C \cup {g}
                            ELSE C \ {p \in {g} : enters}) \ {p \in {f} : exits}
    BY <1>2, <2>1 DEF OnTransfer, Enters, TransferReverts, WasNonAi
  <2>4. /\ IsFiniteSet(H) /\ IsFiniteSet(C) /\ holderCount = Cardinality(H)
        /\ nonAiCount = Cardinality(C) /\ Cardinality(H) \in Nat /\ Cardinality(C) \in Nat
    BY FiniteHolders
  <2>5. \A p \in Persons : p \in H <=> b[p] > 0
    BY DEF Holders
  <2> HIDE DEF f, g, b, left, H, C
  <2>6. enters <=> g \notin H
    BY <2>1, <2>5
  <2>7. exits => f \in H /\ f # g
    BY <2>1, <2>2, <2>5
  <2>8. {p \in Persons : left[p] > 0} = (H \cup {g}) \ (IF exits THEN {f} ELSE {})
    <3>1. CASE exits
      <4>1. left[f] = 0
        BY <3>1
      <4> QED BY <2>1, <2>2, <2>5, <2>7, <3>1, <4>1
    <3>2. CASE ~exits
      <4>1. f \in H => left[f] > 0
        BY <2>1, <2>2, <2>5, <3>2
      <4>2. f \notin H => ~(left[f] > 0) \/ f = g
        BY <2>1, <2>2, <2>5
      <4> QED BY <2>1, <2>2, <2>5, <3>2, <4>1, <4>2
    <3> QED BY <3>1, <3>2
  <2> HIDE DEF enters, exits
  <2>9. Cardinality({p \in Persons : left[p] > 0}) = holderCount'
    <3>1. /\ IsFiniteSet(H \cup {g})
          /\ Cardinality(H \cup {g}) = Cardinality(H) + (IF enters THEN 1 ELSE 0)
      BY <2>4, <2>6, FS_AddElement
    <3>4. holderCount' = Cardinality(H) + (IF enters THEN 1 ELSE 0) - (IF exits THEN 1 ELSE 0)
      BY <2>3, <2>4
    <3>5. Cardinality(H) \in Nat
      BY <2>4
    <3>2. CASE exits
      <4>1. Cardinality((H \cup {g}) \ {f}) = Cardinality(H \cup {g}) - 1
        BY <2>7, <3>1, <3>2, FS_RemoveElement
      <4>2. {p \in Persons : left[p] > 0} = (H \cup {g}) \ {f}
        BY <2>8, <3>2
      <4> DEFINE size == Cardinality(H)
                 grown == Cardinality(H \cup {g})
                 kept == Cardinality((H \cup {g}) \ {f})
                 step == IF enters THEN 1 ELSE 0
      <4>3. grown = size + step /\ kept = grown - 1 /\ holderCount' = size + step - 1
            /\ size \in Nat /\ step \in {0, 1}
        BY <3>1, <3>2, <3>4, <3>5, <4>1
      <4> HIDE DEF size, grown, kept, step
      <4>4. kept = holderCount'
        BY <4>3
      <4> QED BY <4>2, <4>4 DEF kept
    <3>3. CASE ~exits
      <4>1. {p \in Persons : left[p] > 0} = H \cup {g}
        BY <2>8, <3>3
      <4> DEFINE size == Cardinality(H)
                 step == IF enters THEN 1 ELSE 0
      <4>2. Cardinality(H \cup {g}) = size + step /\ holderCount' = size + step - 0
            /\ size \in Nat /\ step \in {0, 1}
        BY <3>1, <3>3, <3>4, <3>5
      <4> HIDE DEF size, step
      <4>3. holderCount' = size + step
        BY <4>2
      <4> QED BY <4>1, <4>2, <4>3
    <3> QED BY <3>2, <3>3
  <2> DEFINE D == IF enters /\ to \notin accredited THEN C \cup {g} ELSE C
  <2>10. countedNonAi' = D \ {p \in {f} : exits}
    BY <2>1, <2>3, <2>6
  <2>11. /\ IsFiniteSet(D) /\ Cardinality(D) \in Nat
         /\ Cardinality(D) = Cardinality(C) + (IF enters /\ to \notin accredited THEN 1 ELSE 0)
    <3>1. CASE enters /\ to \notin accredited
      <4>1. g \notin C
        BY <2>1, <2>6, <3>1
      <4> QED BY <2>4, <3>1, <4>1, FS_AddElement
    <3>2. CASE ~(enters /\ to \notin accredited)
      BY <2>4, <3>2
    <3> QED BY <3>1, <3>2
  <2>12. f # g => (f \in D <=> f \in C)
    OBVIOUS
  <2>13. D \subseteq H \cup {g} /\ D \subseteq Persons
    BY <2>1
  <2> HIDE DEF D
  <2>14. Cardinality(countedNonAi') = nonAiCount'
    <3>1. CASE exits
      <4>1. countedNonAi' = D \ {f}
        BY <2>10, <3>1
      <4>2. Cardinality(D \ {f}) = IF f \in D THEN Cardinality(D) - 1 ELSE Cardinality(D)
        BY <2>11, FS_RemoveElement
      <4> QED BY <2>3, <2>4, <2>7, <2>11, <2>12, <3>1, <4>1, <4>2
    <3>2. CASE ~exits
      <4>1. countedNonAi' = D
        BY <2>10, <3>2
      <4> QED BY <2>3, <2>4, <2>11, <3>2, <4>1
    <3> QED BY <3>1, <3>2
  <2>15. \A p \in countedNonAi' : left[p] > 0
    <3>1. countedNonAi' \subseteq (H \cup {g}) \ (IF exits THEN {f} ELSE {})
      BY <2>10, <2>13
    <3> QED BY <2>8, <3>1
  <2>16. CountersMatchBalances'
    BY <2>3, <2>9, <2>14, <2>15 DEF CountersMatchBalances
  <2>17. countedNonAi' \subseteq Persons
    BY <2>10, <2>13
  <2>18. /\ holderCount' > holderCount => enters /\ holderCount' = holderCount + 1
         /\ nonAiCount' > nonAiCount =>
               enters /\ to \notin accredited /\ nonAiCount' = nonAiCount + 1
    BY <2>3, <2>4
  <2> QED BY <2>2, <2>3, <2>16, <2>17, <2>18
<1> QED BY <1>1, <1>2

(* Who counts as whom changes for a wallet that is no one else's person.     *)
LEMMA RebindingKeepsPersonsApart ==
  ASSUME EngineInv, NEW w \in Investors,
         (\E i \in Identities : BindIdentity(w, i)) \/ UnbindIdentity(w)
  PROVE  /\ UNCHANGED <<held, bindings>> => EngineInv'
         /\ UNCHANGED counterVars
         /\ Mirrored /\ UNCHANGED held /\ (seen' => seen /\ held[w] = 0) => Mirrored'
<1>1. /\ HolderTypes /\ OneWalletEach /\ CountersMatchBalances /\ w \in Wallets /\ w # Issuer
      /\ Issuer \in Wallets /\ NoIdentity \notin Wallets \cup Identities
      /\ Wallets \cap Identities = {}
  <2>1. Issuer \in Wallets
    BY EngineAssumption
  <2>2. NoIdentity \notin Wallets \cup Identities /\ Wallets \cap Identities = {}
    BY HolderCountAssumption
  <2> QED BY <2>1, <2>2 DEF EngineInv, Investors
<1>2. PICK i \in Identities \cup {NoIdentity} :
        /\ identityOf' = [identityOf EXCEPT ![w] = i]
        /\ i = NoIdentity \/ (identityOf[w] = NoIdentity /\ \A v \in Wallets : identityOf[v] # i)
        /\ i = NoIdentity => identityOf[w] # NoIdentity
  <2>1. CASE \E i \in Identities : BindIdentity(w, i)
    <3>1. PICK i \in Identities : BindIdentity(w, i)
      BY <2>1
    <3> QED BY <1>1, <3>1 DEF BindIdentity
  <2>2. CASE UnbindIdentity(w)
    <3>1. /\ identityOf[w] # NoIdentity
          /\ identityOf' = [identityOf EXCEPT ![w] = NoIdentity]
      BY <2>2 DEF UnbindIdentity
    <3> QED BY <3>1
  <2> QED BY <2>1, <2>2
<1>3. UNCHANGED counterVars /\ UNCHANGED <<capMode, assetGateMet>>
  BY DEF BindIdentity, UnbindIdentity
<1>4. /\ identityOf' \in [Wallets -> Identities \cup {NoIdentity}] /\ identityOf'[w] = i
      /\ \A v \in Wallets \ {w} : identityOf'[v] = identityOf[v]
  BY <1>1, <1>2 DEF HolderTypes
<1> DEFINE new == IF i = NoIdentity THEN w ELSE i
<1>5. /\ Person(w)' = new /\ \A v \in Wallets \ {w} : Person(v)' = Person(v)
  BY <1>1, <1>4 DEF Person
<1>6. \A v \in Wallets \ {w} : Person(v) # new
  BY <1>1, <1>2 DEF Person, HolderTypes
<1>7. Person(Issuer) = Issuer /\ Person(Issuer)' = Issuer
  BY <1>1, <1>4 DEF Person, OneWalletEach
<1>8. new \in Persons /\ new # Person(w) /\ \A v \in Wallets : Person(v) # new
  BY <1>1, <1>2, <1>6 DEF Person, Persons, HolderTypes
<1> HIDE DEF new
<1>9. OneWalletEach'
  <2>1. \A v, u \in Wallets : Person(v)' = Person(u)' => v = u
    BY <1>1, <1>5, <1>6 DEF OneWalletEach
  <2> QED BY <1>1, <1>4, <2>1 DEF OneWalletEach
<1>10. CountersMatchBalances'
  BY <1>1, <1>3 DEF CountersMatchBalances, counterVars
<1>11. ASSUME UNCHANGED held, UNCHANGED bindings PROVE HolderTypes'
  BY <1>1, <1>3, <1>4, <1>11 DEF HolderTypes, counterVars
<1>12. ASSUME Mirrored, UNCHANGED held, seen' => seen /\ held[w] = 0 PROVE Mirrored'
  <2> SUFFICES ASSUME seen'
               PROVE  /\ \A v \in Wallets \ {Issuer} : balanceOfIdentity[Person(v)'] = held[v]
                      /\ \A p \in Persons :
                            (\A v \in Wallets : Person(v)' # p) => balanceOfIdentity[p] = 0
    BY <1>3, <1>12 DEF Mirrored, counterVars
  <2>1. /\ \A v \in Wallets \ {Issuer} : balanceOfIdentity[Person(v)] = held[v]
        /\ \A p \in Persons : (\A v \in Wallets : Person(v) # p) => balanceOfIdentity[p] = 0
        /\ held[w] = 0
    BY <1>12 DEF Mirrored
  <2>2. balanceOfIdentity[new] = 0 /\ balanceOfIdentity[Person(w)] = 0
    BY <1>1, <1>8, <2>1
  <2>3. \A v \in Wallets \ {Issuer} : balanceOfIdentity[Person(v)'] = held[v]
    BY <1>5, <2>1, <2>2
  <2>4. ASSUME NEW p \in Persons, \A v \in Wallets : Person(v)' # p
        PROVE  balanceOfIdentity[p] = 0
    <3>1. CASE p = Person(w)
      BY <2>2, <3>1
    <3>2. CASE p # Person(w)
      BY <1>5, <2>1, <2>4, <3>2
    <3> QED BY <3>1, <3>2
  <2> QED BY <2>3, <2>4
<1> QED BY <1>3, <1>9, <1>10, <1>11, <1>12 DEF EngineInv

(* A trade that counts keeps the balances those of the wallets.              *)
LEMMA TradesAreMirrored ==
  ASSUME EngineInv, Mirrored, NEW from \in Wallets, NEW to \in Wallets, NEW amount \in Nat,
         OnTransfer(from, to, amount), amount <= held[from], UNCHANGED identityOf,
         LET debited == [held EXCEPT ![from] = @ - amount] IN
           held' = [debited EXCEPT ![to] = @ + amount],
         seen' => seen
  PROVE  Mirrored'
<1>1. /\ HolderTypes /\ OneWalletEach /\ Issuer \in Wallets
  <2>1. Issuer \in Wallets
    BY EngineAssumption
  <2> QED BY <2>1 DEF EngineInv
<1> DEFINE f == Person(from)
           g == Person(to)
           b == balanceOfIdentity
           left == Moved(from, to, amount)
<1>2. /\ f \in Persons /\ g \in Persons /\ b \in [Persons -> Nat]
      /\ held \in [Wallets -> Nat] /\ (f = g => from = to)
      /\ Person(Issuer) = Issuer
  BY <1>1, PersonsOfWallets DEF HolderTypes, OneWalletEach, Person
<1>3. /\ \A v \in Wallets \ {from, to} : held'[v] = held[v]
      /\ from # to => held'[from] = held[from] - amount /\ held'[to] = held[to] + amount
      /\ from = to => held'[from] = held[from]
  BY <1>2
<1>4. \A v \in Wallets : Person(v)' = Person(v)
  BY DEF Person
<1> SUFFICES ASSUME seen'
             PROVE  /\ \A v \in Wallets \ {Issuer} : balanceOfIdentity'[Person(v)] = held'[v]
                    /\ \A p \in Persons :
                          (\A v \in Wallets : Person(v) # p) => balanceOfIdentity'[p] = 0
  BY <1>4 DEF Mirrored
<1>5. /\ \A v \in Wallets \ {Issuer} : b[Person(v)] = held[v]
      /\ \A p \in Persons : (\A v \in Wallets : Person(v) # p) => b[p] = 0
  BY DEF Mirrored
<1>6. CASE amount = 0
  <2>1. balanceOfIdentity' = b
    BY <1>6 DEF OnTransfer
  <2>2. \A v \in Wallets : held'[v] = held[v]
    BY <1>2, <1>3, <1>6
  <2> QED BY <1>5, <2>1, <2>2
<1>7. CASE amount # 0
  <2>1. balanceOfIdentity' = left
    BY <1>7 DEF OnTransfer
  <2>2. /\ \A p \in Persons \ {f, g} : left[p] = b[p]
        /\ f # g => /\ left[g] = b[g] + amount
                    /\ left[f] = IF amount > b[f] THEN 0 ELSE b[f] - amount
        /\ f = g /\ amount <= b[f] => left = b
    BY <1>1, <1>7, MovedBalances
  <2> HIDE DEF left
  <2>3. ASSUME NEW v \in Wallets \ {Issuer} PROVE left[Person(v)] = held'[v]
    <3>1. Person(v) \in Persons /\ b[Person(v)] = held[v] /\ held[v] \in Nat
      BY <1>1, <1>2, <1>5, PersonsOfWallets
    <3>2. /\ v # from => Person(v) # f
          /\ v # to => Person(v) # g
      BY <1>1 DEF OneWalletEach
    <3>3. CASE v \notin {from, to}
      BY <1>3, <2>2, <3>1, <3>2, <3>3
    <3>4. CASE v = from /\ v # to
      BY <1>2, <1>3, <2>2, <3>1, <3>2, <3>4
    <3>5. CASE v = to /\ v # from
      BY <1>2, <1>3, <2>2, <3>1, <3>2, <3>5
    <3>6. CASE v = from /\ v = to
      BY <1>2, <1>3, <2>2, <3>1, <3>6
    <3> QED BY <3>3, <3>4, <3>5, <3>6
  <2>4. \A p \in Persons : (\A v \in Wallets : Person(v) # p) => left[p] = 0
    BY <1>5, <2>2
  <2> QED BY <2>1, <2>3, <2>4
<1> QED BY <1>6, <1>7

-----------------------------------------------------------------------------
(* Priority first, then recipe, is a total order: each group with an option  *)
(* has a preferred one.                                                      *)
LEMMA SomeOptionIsPreferred ==
  ASSUME bindings \in Manifests, NEW options \in SUBSET DOMAIN bindings, options # {}
  PROVE  \E i \in options : \A j \in options : Preferred(i, j)
<1> DEFINE rank(i) == 65536 * (255 - bindings[i].priority) + bindings[i].recipe
           ranks == {rank(i) : i \in options}
<1>1. \A i \in options :
        /\ bindings[i].priority \in Nat /\ bindings[i].priority < 256
        /\ bindings[i].recipe \in Nat /\ bindings[i].recipe < 65536
  BY EngineAssumption
<1>2. \A i \in options : rank(i) \in Nat
  BY <1>1
<1>3. ranks \subseteq Nat /\ ranks # {}
  BY <1>2
<1> HIDE DEF ranks
<1>4. PICK n \in ranks : \A m \in ranks : n <= m
  BY <1>3, LeastNatural
<1> USE DEF ranks
<1>5. PICK i \in options : \A j \in options : rank(i) <= rank(j)
  BY <1>4
<1>6. ASSUME NEW j \in options PROVE Preferred(i, j)
  <2>1. /\ bindings[i].priority \in Nat /\ bindings[i].recipe \in Nat
        /\ bindings[j].priority \in Nat /\ bindings[j].recipe \in Nat
        /\ bindings[i].recipe < 65536 /\ bindings[j].recipe < 65536
    BY <1>1
  <2>2. 65536 * (255 - bindings[i].priority) + bindings[i].recipe
          <= 65536 * (255 - bindings[j].priority) + bindings[j].recipe
    BY <1>5
  <2> QED BY <2>1, <2>2 DEF Preferred
<1> QED BY <1>6

(* No option that counts also asks whether the sender is free to sell: such  *)
(* a rule may pass before the asset moves and fail after it, and commit then *)
(* passes over the option the trade was allowed on.                          *)
CountsArePathsOfTheirOwn ==
    \A m \in Manifests : \A i \in DOMAIN m :
        m[i].mode = "PATH_OPTION" =>
            ~ \E r, q \in DOMAIN m[i].rules :
                /\ m[i].rules[r].action = "BLOCK" /\ m[i].rules[r].element = "count"
                /\ m[i].rules[q].action = "BLOCK" /\ m[i].rules[q].element = "free"

(* A trade under a plan that counts is one the element hears of.             *)
LEMMA CountingTradesAreHeard ==
  ASSUME bindings \in Manifests, CountsArePathsOfTheirOwn,
         NEW applicable \in SUBSET DOMAIN bindings, NEW t, NEW h,
         Allowed(applicable, t), CountIsBinding(applicable)
  PROVE  "count" \in Elements(Committed(applicable, t, h))
<1>1. CASE \E i \in Of("REQUIRED_BLOCKING") \cap applicable : "count" \in BlockingElements(i)
  BY <1>1 DEF Elements, Committed
<1>2. CASE \E g \in PathGroups : \A i \in Of("PATH_OPTION") :
              bindings[i].group = g => "count" \in BlockingElements(i)
  <2>1. PICK g \in PathGroups : \A i \in Of("PATH_OPTION") :
              bindings[i].group = g => "count" \in BlockingElements(i)
    BY <1>2
  <2>2. PICK i \in Options(g, applicable, t, held) : TRUE
    BY DEF Allowed
  <2>3. /\ i \in Of("PATH_OPTION") /\ i \in applicable /\ bindings[i].group = g
        /\ RecipePasses(i, t, held) /\ "count" \in BlockingElements(i)
        /\ i \in DOMAIN bindings /\ bindings[i].mode = "PATH_OPTION"
    BY <2>1, <2>2 DEF Options, Of
  <2>4. ASSUME NEW q \in DOMAIN bindings[i].rules, bindings[i].rules[q].action = "BLOCK"
        PROVE  bindings[i].rules[q].element # "free"
    BY <2>3, <2>4 DEF CountsArePathsOfTheirOwn, BlockingElements
  <2>5. RecipePasses(i, t, h)
    BY <2>3, <2>4 DEF RecipePasses, ElementPasses
  <2> DEFINE options == Options(g, applicable, t, h)
  <2>6. options # {} /\ options \in SUBSET DOMAIN bindings
    BY <2>3, <2>5 DEF Options, Of
  <2> HIDE DEF options
  <2>7. PICK j \in options : \A k \in options : Preferred(j, k)
    BY <2>6, SomeOptionIsPreferred
  <2>8. j \in Selected(applicable, t, h)
    BY <2>7 DEF Selected, options
  <2>9. j \in Of("PATH_OPTION") /\ bindings[j].group = g
    BY <2>7 DEF options, Options
  <2> QED BY <2>1, <2>8, <2>9 DEF Elements, Committed
<1> QED BY <1>1, <1>2 DEF CountIsBinding

-----------------------------------------------------------------------------
(* At first nobody holds the asset but the issuer, who is not counted. *)
LEMMA EngineStarts ==
  ASSUME EngineInit
  PROVE  EngineInv /\ Mirrored
<1>1. Issuer \in Wallets /\ Supply \in Nat
  BY EngineAssumption
<1>2. \A w \in Wallets : identityOf[w] = NoIdentity /\ Person(w) = w
  BY DEF EngineInit, HolderCountInit, Person
<1>3. \A p \in Persons : balanceOfIdentity[p] = 0
  BY DEF EngineInit, HolderCountInit
<1>4. HolderTypes
  BY <1>1 DEF EngineInit, HolderCountInit, HolderTypes
<1>5. OneWalletEach
  BY <1>1, <1>2 DEF OneWalletEach
<1>6. {p \in Persons : balanceOfIdentity[p] > 0} = {}
  BY <1>3
<1>7. CountersMatchBalances
  BY <1>6, FS_EmptySet DEF EngineInit, HolderCountInit, CountersMatchBalances
<1>8. Mirrored
  <2>1. \A w \in Wallets \ {Issuer} : held[w] = 0 /\ w \in Persons
    BY DEF EngineInit, Persons
  <2> QED BY <1>2, <1>3, <2>1 DEF Mirrored
<1> QED BY <1>4, <1>5, <1>7, <1>8 DEF EngineInv

(* What moves in a trade, and where it leaves the wallets.                   *)
LEMMA AssetMoves ==
  ASSUME held \in [Wallets -> Nat], NEW from \in Wallets, NEW to \in Wallets,
         NEW amount \in Nat, amount <= held[from]
  PROVE  LET debited == [held EXCEPT ![from] = @ - amount] IN
         [debited EXCEPT ![to] = @ + amount] \in [Wallets -> Nat]
<1> DEFINE debited == [held EXCEPT ![from] = @ - amount]
<1>1. debited \in [Wallets -> Nat]
  OBVIOUS
<1> HIDE DEF debited
<1>2. [debited EXCEPT ![to] = @ + amount] \in [Wallets -> Nat]
  BY <1>1
<1> QED BY <1>2 DEF debited

(* A trade keeps the counters those of the balances, whether or not the     *)
(* element hears of it.                                                     *)
LEMMA TradesKeepTheCount ==
  ASSUME EngineInv, NEW t \in Trades, NEW applicable \in SUBSET DOMAIN bindings,
         ExecuteTrade(t, applicable)
  PROVE  /\ EngineInv'
         /\ Mirrored /\ CountsArePathsOfTheirOwn => Mirrored'
<1>1. /\ HolderTypes /\ OneWalletEach /\ CountersMatchBalances
      /\ t.from \in Wallets /\ t.to \in Wallets /\ t.amount \in Nat /\ t.amount <= held[t.from]
  BY EngineAssumption DEF EngineInv, Trades, ExecuteTrade
<1> DEFINE debited == [held EXCEPT ![t.from] = @ - t.amount]
           after == [debited EXCEPT ![t.to] = @ + t.amount]
           heard == "count" \in Elements(Committed(applicable, t, after))
<1>2. /\ held' = after /\ UNCHANGED <<identityOf, bindings>>
      /\ IF heard THEN OnTransfer(t.from, t.to, t.amount) ELSE UNCHANGED counterVars
      /\ Allowed(applicable, t) /\ seen' = (seen /\ CountIsBinding(applicable))
  BY DEF ExecuteTrade, holderFactVars
<1>3. after \in [Wallets -> Nat]
  BY <1>1, AssetMoves DEF HolderTypes
<1>4. CountersMatchBalances' /\ balanceOfIdentity' \in [Persons -> Nat] /\ countedNonAi' \subseteq Persons
  <2>1. CASE heard
    BY <1>1, <1>2, <2>1, TransferCounts
  <2>2. CASE ~heard
    <3>1. UNCHANGED counterVars
      BY <1>2, <2>2
    <3> QED BY <1>1, <3>1 DEF counterVars, CountersMatchBalances, HolderTypes
  <2> QED BY <2>1, <2>2
<1>5. HolderTypes'
  BY <1>1, <1>2, <1>3, <1>4 DEF HolderTypes
<1>6. OneWalletEach'
  BY <1>1, <1>2 DEF OneWalletEach, Person
<1>7. ASSUME Mirrored, CountsArePathsOfTheirOwn PROVE Mirrored'
  <2>1. CASE ~seen'
    BY <2>1 DEF Mirrored
  <2>2. CASE seen'
    <3>1. heard
      BY <1>1, <1>2, <1>7, <2>2, CountingTradesAreHeard DEF HolderTypes
    <3> HIDE DEF heard
    <3>2. OnTransfer(t.from, t.to, t.amount)
      BY <1>2, <3>1
    <3> QED BY <1>1, <1>2, <1>7, <3>2, TradesAreMirrored
  <2> QED BY <2>1, <2>2
<1> QED BY <1>4, <1>5, <1>6, <1>7 DEF EngineInv

(* The invariant is inductive. *)
LEMMA EngineSteps ==
  ASSUME EngineInv, [EngineNext]_engineVars
  PROVE  EngineInv' /\ (Mirrored /\ CountsArePathsOfTheirOwn => Mirrored')
<1>0. HolderTypes /\ OneWalletEach /\ CountersMatchBalances
  BY DEF EngineInv
<1>1. CASE \E t \in Trades, applicable \in SUBSET DOMAIN bindings : ExecuteTrade(t, applicable)
  BY <1>1, TradesKeepTheCount
<1>2. CASE \E from \in Wallets, to \in Wallets, amount \in 1..Supply :
              TransferOutside(from, to, amount)
  <2>1. PICK from \in Wallets, to \in Wallets, amount \in 1..Supply :
              TransferOutside(from, to, amount)
    BY <1>2
  <2>2. /\ held' = [held EXCEPT ![from] = @ - amount, ![to] = @ + amount]
        /\ amount \in Nat /\ amount <= held[from] /\ from # to /\ seen' = FALSE
        /\ UNCHANGED <<counterVars, identityOf, bindings>>
    <3>1. held[from] \in Nat
      BY <1>0 DEF HolderTypes
    <3> QED BY <2>1, <3>1 DEF TransferOutside, holderFactVars
  <2>3. held' \in [Wallets -> Nat]
    BY <1>0, <2>2 DEF HolderTypes
  <2> QED BY <1>0, <2>2, <2>3 DEF EngineInv, HolderTypes, OneWalletEach, Person,
              CountersMatchBalances, Mirrored, counterVars
<1>3. CASE \E w \in Investors : Rebind(w)
  <2>1. PICK w \in Investors : Rebind(w)
    BY <1>3
  <2>2. /\ (\E i \in Identities : BindIdentity(w, i)) \/ UnbindIdentity(w)
        /\ seen' = (seen /\ held[w] = 0) /\ UNCHANGED <<held, bindings>>
    BY <2>1 DEF Rebind, assetVars
  <2> QED BY <2>2, RebindingKeepsPersonsApart
<1>4. CASE Operate \/ UNCHANGED engineVars
  <2>1. UNCHANGED <<counterVars, identityOf, held, bindings, seen>>
    BY <1>4 DEF Operate, SetCapMode, SetAssetGateMet, SetAccredited, assetVars, engineVars,
                holderFactVars
  <2> QED BY <1>0, <2>1 DEF EngineInv, HolderTypes, OneWalletEach, Person,
              CountersMatchBalances, Mirrored, counterVars
<1> QED BY <1>1, <1>2, <1>3, <1>4 DEF EngineNext

(* The counters are those of the balances, whatever governance, trades and   *)
(* transfers outside the router do.                                          *)
THEOREM EngineInvHolds == EngineSpec => []EngineInv
<1>1. EngineInit => EngineInv
  BY EngineStarts
<1>2. EngineInv /\ [EngineNext]_engineVars => EngineInv'
  BY EngineSteps
<1> QED BY <1>1, <1>2, PTL DEF EngineSpec

(* onTransfer takes no holder past the cap of the regime, from whichever     *)
(* side of the trade the new holder is.                                      *)
THEOREM CapsAreKept == EngineSpec => CapsHold
<1> DEFINE Within ==
       /\ holderCount' > holderCount =>
            /\ capMode = "TWELVE_G" /\ assetGateMet => holderCount' < CAP_12G_TOTAL
            /\ capMode = "THREE_C_1" => holderCount' <= CAP_3C1
            /\ capMode = "FIVE_06_B" => holderCount' <= CAP_506B
       /\ nonAiCount' > nonAiCount =>
            (capMode = "TWELVE_G" /\ assetGateMet => nonAiCount' < CAP_12G_NONAI)
<1>1. ASSUME EngineInv, [EngineNext]_engineVars PROVE Within
  <2>1. holderCount \in Nat /\ nonAiCount \in Nat
    BY <1>1, FiniteHolders
  <2>2. CASE UNCHANGED <<holderCount, nonAiCount>>
    BY <2>1, <2>2
  <2>3. CASE \E t \in Trades, applicable \in SUBSET DOMAIN bindings : ExecuteTrade(t, applicable)
    <3>1. PICK t \in Trades, applicable \in SUBSET DOMAIN bindings : ExecuteTrade(t, applicable)
      BY <2>3
    <3>2. CASE OnTransfer(t.from, t.to, t.amount)
      <4>1. t.from \in Wallets /\ t.to \in Wallets /\ t.amount \in Nat
        BY EngineAssumption DEF Trades
      <4>2. /\ holderCount' > holderCount => ~CapBreached(t.to) /\ holderCount' = holderCount + 1
            /\ nonAiCount' > nonAiCount =>
                  ~CapBreached(t.to) /\ t.to \notin accredited /\ nonAiCount' = nonAiCount + 1
        BY <1>1, <3>2, <4>1, TransferCounts
      <4>3. {CAP_12G_TOTAL, CAP_12G_NONAI, CAP_3C1, CAP_506B} \subseteq Nat
        BY HolderCountAssumption
      <4> QED BY <2>1, <4>2, <4>3 DEF CapBreached
    <3>3. CASE ~OnTransfer(t.from, t.to, t.amount)
      BY <2>2, <3>1, <3>3 DEF ExecuteTrade, counterVars
    <3> QED BY <3>2, <3>3
  <2>4. CASE ~ \E t \in Trades, applicable \in SUBSET DOMAIN bindings : ExecuteTrade(t, applicable)
    BY <1>1, <2>2, <2>4 DEF EngineNext, TransferOutside, Rebind, BindIdentity, UnbindIdentity,
        Operate, SetCapMode, SetAssetGateMet, SetAccredited, counterVars, engineVars
  <2> QED BY <2>3, <2>4
<1> QED BY <1>1, EngineInvHolds, PTL DEF EngineSpec, CapsHold

(* Under plans whose counting options ask nothing that moving the asset      *)
(* changes, the counts are those of the wallets that hold the asset.         *)
THEOREM HoldersAreThoseCounted ==
  ASSUME CountsArePathsOfTheirOwn
  PROVE  EngineSpec => []HoldersAreCounted
<1>1. EngineInit => EngineInv /\ Mirrored
  BY EngineStarts
<1>2. EngineInv /\ Mirrored /\ [EngineNext]_engineVars => EngineInv' /\ Mirrored'
  BY EngineSteps
<1>3. EngineInv /\ Mirrored => HoldersAreCounted
  <2> SUFFICES ASSUME EngineInv, Mirrored, seen, NEW p \in Persons \ {Issuer, Person(Issuer)}
               PROVE  balanceOfIdentity[p] =
                        IF \E w \in Wallets : Person(w) = p
                        THEN held[CHOOSE w \in Wallets : Person(w) = p] ELSE 0
    BY DEF HoldersAreCounted, MirrorsHoldings, EngineInv
  <2>1. CASE \E w \in Wallets : Person(w) = p
    <3> DEFINE w == CHOOSE w \in Wallets : Person(w) = p
    <3>1. w \in Wallets /\ Person(w) = p
      BY <2>1
    <3> HIDE DEF w
    <3>2. w # Issuer
      BY <3>1
    <3> QED BY <2>1, <3>1, <3>2 DEF Mirrored, w
  <2>2. CASE ~ \E w \in Wallets : Person(w) = p
    BY <2>2 DEF Mirrored
  <2> QED BY <2>1, <2>2
<1> QED BY <1>1, <1>2, <1>3, PTL DEF EngineSpec

-----------------------------------------------------------------------------
(* KYC evidence.  What waits to be stored was audited, and the store compares *)
(* it with what is there.                                                    *)

KycTypes ==
    /\ current \in [Subjects -> Evidence \cup {NoEvidence}]
    /\ worst \in [Subjects -> Nat]
    /\ call \in [KycCallers -> [stage: Stages, subject: Subjects \cup {NoEvidence}, at: Nat,
                                answer: Evidence \cup {NoEvidence}]]
    /\ kycNow \in Nat

(* Nothing negative is later than what the store holds, and nothing that     *)
(* holds good is at the same instant.                                        *)
WorstIsNotLater ==
    \A s \in Subjects :
        /\ current[s] = NoEvidence => worst[s] = 0
        /\ current[s] # NoEvidence => worst[s] <= current[s].observedAt + 1

(* What waits to be stored has its audit.                                    *)
StoresAudited ==
    \A c \in KycCallers :
        /\ call[c].stage \in {"auditing", "storing"} => call[c].answer \in Evidence
        /\ StrictAudit /\ call[c].stage = "storing" /\ eligible(call[c].answer)
              => call[c].answer \in audited

KycInv ==
    /\ KycTypes /\ WorstIsNotLater /\ StoresAudited
    /\ RevocationSticks /\ AuditedBeforePublished

(* The stages of a call have different names. *)
LEMMA LocalStates ==
  /\ \A stage \in Stages : /\ At(stage).stage = stage
                           /\ At(stage) \in [stage: Stages, subject: Subjects \cup {NoEvidence},
                                             at: Nat, answer: Evidence \cup {NoEvidence}]
  /\ \A stage \in Stages, e \in Evidence :
        /\ With(stage, e).stage = stage /\ With(stage, e).answer = e
        /\ With(stage, e) \in [stage: Stages, subject: Subjects \cup {NoEvidence},
                               at: Nat, answer: Evidence \cup {NoEvidence}]
BY DEF At, With

(* At first nothing is stored and nobody calls. *)
LEMMA KycStarts == KycInit => KycInv
<1> SUFFICES ASSUME KycInit PROVE KycInv
  OBVIOUS
<1>1. "idle" \in Stages
  BY DEF Stages
<1>2. KycTypes
  BY <1>1, LocalStates DEF KycTypes, KycInit
<1>3. \A c \in KycCallers : call[c].stage = "idle"
  BY <1>1, LocalStates DEF KycInit
<1> QED BY <1>2, <1>3 DEF KycInv, KycInit, WorstIsNotLater, StoresAudited, RevocationSticks,
        AuditedBeforePublished

(* A call moves, and leaves the store alone.                                 *)
LEMMA CallMoves ==
  ASSUME KycInv, NEW c \in KycCallers,
         NEW j \in [stage: Stages, subject: Subjects \cup {NoEvidence}, at: Nat,
                    answer: Evidence \cup {NoEvidence}],
         Becomes(c, j), UNCHANGED <<kycNow, current, worst>>, audited \subseteq audited',
         j.stage \in {"auditing", "storing"} => j.answer \in Evidence,
         StrictAudit /\ j.stage = "storing" /\ eligible(j.answer) => j.answer \in audited'
  PROVE  KycInv'
<1>1. KycTypes'
  BY DEF KycInv, KycTypes, Becomes
<1>2. call'[c] = j /\ \A d \in KycCallers \ {c} : call'[d] = call[d]
  BY DEF KycInv, KycTypes, Becomes
<1>3. StoresAudited'
  BY <1>2 DEF KycInv, StoresAudited, eligible
<1> QED BY <1>1, <1>3 DEF KycInv, WorstIsNotLater, RevocationSticks, AuditedBeforePublished,
        eligible

(* The invariant is inductive. *)
LEMMA KycSteps == KycInv /\ [KycNext]_kycVars => KycInv'
<1> SUFFICES ASSUME KycInv, [KycNext]_kycVars PROVE KycInv'
  OBVIOUS
<1>0. KycTypes /\ WorstIsNotLater /\ StoresAudited /\ RevocationSticks /\ AuditedBeforePublished
  BY DEF KycInv
<1>1. ASSUME NEW c \in KycCallers, NEW s \in Subjects, Refresh(c, s) PROVE KycInv'
  <2>1. UNCHANGED <<kycNow, current, audited, worst>> /\ kycNow \in Nat
    BY <1>0, <1>1 DEF Refresh, KycTypes
  <2> DEFINE j == [At("asking") EXCEPT !.subject = s, !.at = kycNow]
  <2>2. /\ j.stage = "asking"
        /\ j \in [stage: Stages, subject: Subjects \cup {NoEvidence}, at: Nat,
                  answer: Evidence \cup {NoEvidence}]
    BY <2>1 DEF At, Stages
  <2>3. CASE Becomes(c, j)
    <3> HIDE DEF j
    <3> QED BY <2>1, <2>2, <2>3, CallMoves
  <2>4. CASE Becomes(c, At("failing"))
    BY <2>1, <2>4, CallMoves, LocalStates DEF Stages
  <2> QED BY <1>1, <2>3, <2>4 DEF Refresh
<1>2. ASSUME NEW c \in KycCallers, NEW e \in Evidence, Assess(c, e) PROVE KycInv'
  <2>1. Becomes(c, Assessed(c, e)) /\ UNCHANGED <<kycNow, current, audited, worst>>
    BY <1>2 DEF Assess
  <2>2. CASE Assessed(c, e) = At("failing")
    BY <2>1, <2>2, CallMoves, LocalStates DEF Stages
  <2>3. CASE Assessed(c, e) = With("auditing", e)
    BY <2>1, <2>3, CallMoves, LocalStates DEF Stages
  <2>4. CASE Assessed(c, e) = With("storing", e) /\ ~eligible(e)
    BY <2>1, <2>4, CallMoves, LocalStates DEF Stages
  <2> QED BY <2>2, <2>3, <2>4 DEF Assessed
<1>3. ASSUME NEW c \in KycCallers, ProviderFails(c) \/ Return(c) PROVE KycInv'
  <2>1. UNCHANGED <<kycNow, current, audited, worst>>
    BY <1>3 DEF ProviderFails, Return
  <2>2. Becomes(c, At("failing")) \/ Becomes(c, At("idle"))
    BY <1>3 DEF ProviderFails, Return
  <2> QED BY <2>1, <2>2, CallMoves, LocalStates DEF Stages
<1>4. ASSUME NEW c \in KycCallers, Audit(c) PROVE KycInv'
  <2> DEFINE e == call[c].answer
  <2>1. e \in Evidence /\ UNCHANGED <<kycNow, current, worst>>
    BY <1>0, <1>4 DEF Audit, StoresAudited
  <2> HIDE DEF e
  <2>2. CASE audited' = audited \cup {e} /\ Becomes(c, With("storing", e))
    BY <2>1, <2>2, CallMoves, LocalStates DEF Stages
  <2>3. CASE audited' = audited /\ Becomes(c, At("failing"))
    BY <2>1, <2>3, CallMoves, LocalStates DEF Stages
  <2>4. CASE audited' = audited /\ ~StrictAudit /\ Becomes(c, With("storing", e))
    BY <2>1, <2>4, CallMoves, LocalStates DEF Stages
  <2> QED BY <1>4, <2>2, <2>3, <2>4 DEF Audit, e
<1>5. ASSUME NEW c \in KycCallers, Store(c) PROVE KycInv'
  <2> DEFINE e == call[c].answer
             s == e.subject
  <2>1. /\ call[c].stage = "storing" /\ UNCHANGED <<kycNow, audited>> /\ e \in Evidence
        /\ StrictAudit /\ eligible(e) => e \in audited
    BY <1>0, <1>5 DEF Store, StoresAudited
  <2>2. CASE UNCHANGED <<current, worst>>
    <3>1. Becomes(c, At("failing")) \/ Becomes(c, At("stored"))
      BY <1>5 DEF Store
    <3> QED BY <2>1, <2>2, <3>1, CallMoves, LocalStates DEF Stages
  <2>3. CASE ~UNCHANGED <<current, worst>>
    <3>1. /\ Accepts(e) /\ current[s] # e
          /\ current' = [current EXCEPT ![s] = e]
          /\ worst' = IF eligible(e) \/ worst[s] > e.observedAt THEN worst
                      ELSE [worst EXCEPT ![s] = e.observedAt + 1]
          /\ Becomes(c, At("stored")) \/ Becomes(c, At("failing"))
      BY <1>5, <2>3 DEF Store, replaceCurrent
    <3>2. /\ s \in Subjects /\ e.observedAt \in Nat /\ e # NoEvidence
          /\ worst[s] \in Nat /\ current[s] \in Evidence \cup {NoEvidence}
      BY <1>0, <2>1, KycAssumption DEF Evidence, KycTypes
    <3> HIDE DEF e, s
    (* The new evidence is not older than what was held, and later if it is good. *)
    <3>3. /\ worst[s] <= e.observedAt + 1
          /\ eligible(e) => worst[s] <= e.observedAt
      <4>1. CASE current[s] = NoEvidence
        BY <1>0, <3>2, <4>1 DEF WorstIsNotLater
      <4>2. CASE current[s] # NoEvidence
        <5>1. /\ canReplace(current[s], e) /\ worst[s] <= current[s].observedAt + 1
              /\ current[s].observedAt \in Nat
          BY <1>0, <3>1, <3>2, <4>2 DEF Accepts, WorstIsNotLater, Evidence, s
        <5>2. eligible(e) => statusRank(e) = 1
          BY DEF eligible, statusRank
        <5>3. statusRank(current[s]) >= 1
          BY DEF statusRank
        <5>4. statusRank(current[s]) \in Nat
          BY DEF statusRank
        <5> QED BY <3>2, <5>1, <5>2, <5>3, <5>4 DEF canReplace
      <4> QED BY <4>1, <4>2
    <3>4. /\ worst'[s] \in Nat /\ worst'[s] <= e.observedAt + 1
          /\ eligible(e) => worst'[s] <= e.observedAt
          /\ \A u \in Subjects \ {s} : worst'[u] = worst[u] /\ current'[u] = current[u]
          /\ current'[s] = e
          /\ worst' \in [Subjects -> Nat]
      BY <1>0, <3>1, <3>2, <3>3 DEF KycTypes
    <3>5. KycTypes'
      BY <1>0, <2>1, <3>1, <3>4, LocalStates DEF KycTypes, Becomes, Stages
    <3>6. WorstIsNotLater' /\ RevocationSticks'
      BY <1>0, <3>2, <3>4 DEF WorstIsNotLater, RevocationSticks, eligible
    <3>7. AuditedBeforePublished'
      BY <1>0, <2>1, <3>4 DEF AuditedBeforePublished, eligible
    <3>8. StoresAudited'
      <4>1. \A d \in KycCallers : \/ call'[d] = call[d]
                                  \/ call'[d].stage \in {"stored", "failing"}
        BY <1>0, <3>1, LocalStates DEF Becomes, KycTypes, Stages
      <4> QED BY <1>0, <2>1, <4>1 DEF StoresAudited, eligible
    <3> QED BY <3>5, <3>6, <3>7, <3>8 DEF KycInv
  <2> QED BY <2>2, <2>3
<1>6. ASSUME KycTick PROVE KycInv'
  BY <1>0, <1>6 DEF KycTick, KycInv, KycTypes, WorstIsNotLater, StoresAudited, RevocationSticks,
     AuditedBeforePublished, eligible
<1>7. ASSUME UNCHANGED kycVars PROVE KycInv'
  BY <1>0, <1>7 DEF kycVars, KycInv, KycTypes, WorstIsNotLater, StoresAudited, RevocationSticks,
     AuditedBeforePublished, eligible
<1> QED BY <1>1, <1>2, <1>3, <1>4, <1>5, <1>6, <1>7 DEF KycNext, KycStep

(* Nothing negative is later than what the store holds of a subject, and    *)
(* what waits to be stored has its audit.                                   *)
THEOREM KycInvHolds == KycSpec => []KycInv
  BY KycStarts, KycSteps, PTL DEF KycSpec

(* Eligible evidence in the store is no older than any negative evidence    *)
(* the store took of the subject, for any number of refreshes that          *)
(* overlap.                                                                 *)
THEOREM RevocationsStick == KycSpec => []RevocationSticks
<1>1. KycInv => RevocationSticks
  BY DEF KycInv
<1> QED BY <1>1, KycInvHolds, PTL

(* With a strict audit, nobody reads eligible evidence that has no audit    *)
(* record.                                                                  *)
THEOREM PublishedIsAudited == KycSpec => []AuditedBeforePublished
<1>1. KycInv => AuditedBeforePublished
  BY DEF KycInv
<1> QED BY <1>1, KycInvHolds, PTL

-----------------------------------------------------------------------------
(* The audit chain.  A file that ends in a whole line has its last hash from *)
(* a chain that was in memory when the line was written, and that chain has  *)
(* everything acknowledged since.  A hash commits to all that is before it,  *)
(* so that the file, if it is a chain at all, is that one.                   *)

IsLog(log) ==
    /\ log \in Seq(Range(log))
    /\ \A i \in DOMAIN log :
          log[i] = [sequence |-> log[i].sequence, previousHash |-> log[i].previousHash,
                    recordHash |-> log[i].recordHash, record |-> log[i].record]

Chained(log) == IsLog(log) /\ assertValid(log)

(* Listed, of any acknowledgements.                                          *)
Lists(log, acks) ==
    /\ \A i \in DOMAIN acks : /\ acks[i].sequence \in DOMAIN log
                              /\ log[acks[i].sequence] = acks[i]
    /\ \A i, j \in DOMAIN acks : i < j => acks[i].sequence < acks[j].sequence

AccountedFor(lines, acks) ==
    \/ lines # <<>> /\ Last(lines) = Torn
    \/ lines = <<>> /\ acks = <<>>
    \/ /\ lines # <<>>
       /\ \E log : /\ Chained(log) /\ log # <<>> /\ Lists(log, acks)
                    /\ Last(lines).recordHash = Last(log).recordHash

LogInv ==
    /\ IsLog(entries) /\ IsLog(file) /\ acked \in Seq(Range(acked))
    /\ logState = "open" => Chained(entries) /\ Lists(entries, acked)
    /\ AccountedFor(file, acked)

(* A log is a sequence. *)
LEMMA LogIsSequence ==
  ASSUME NEW log, log \in Seq(Range(log))
  PROVE  /\ Len(log) \in Nat /\ DOMAIN log = 1..Len(log)
         /\ log # <<>> => Len(log) \in 1..Len(log) /\ Last(log) = log[Len(log)]
         /\ log = [i \in 1..Len(log) |-> log[i]]
         /\ log = <<>> <=> Len(log) = 0
BY DEF Last

(* What precedes a line is the hash of the line before. *)
LEMMA PreviousHash ==
  ASSUME NEW log, log \in Seq(Range(log)), NEW i \in 1..Len(log)
  PROVE  lastHash(SubSeq(log, 1, i - 1)) =
           IF i = 1 THEN ZERO_HASH ELSE log[i - 1].recordHash
<1> DEFINE before == SubSeq(log, 1, i - 1)
<1>1. /\ Len(before) = i - 1 /\ i - 1 \in Nat
      /\ \A k \in 1..(i - 1) : before[k] = log[k]
  BY LogIsSequence
<1>2. before \in Seq(Range(log))
  BY LogIsSequence DEF Range
<1> HIDE DEF before
<1>3. CASE i = 1
  <2>1. before = <<>>
    BY <1>1, <1>2, <1>3
  <2> QED BY <1>3, <2>1 DEF lastHash, before
<1>4. CASE i # 1
  <2>1. before # <<>> /\ i - 1 \in 1..(i - 1)
    BY <1>1, <1>2, <1>4
  <2>2. Last(before) = log[i - 1]
    BY <1>1, <2>1 DEF Last
  <2> QED BY <1>4, <2>1, <2>2 DEF lastHash, before
<1> QED BY <1>3, <1>4

(* A hash commits to all it is taken of. *)
LEMMA HashCommits ==
  ASSUME NEW s, NEW t, NEW p, NEW q, NEW r, NEW u, hash(s, p, r) = hash(t, q, u)
  PROVE  s = t /\ p = q /\ r = u
BY DEF hash

(* Two chains with the same last hash are one: their last difference would   *)
(* be hashed into a line they share.                                         *)
LEMMA OneHashOneChain ==
  ASSUME NEW a, NEW b, Chained(a), Chained(b), a # <<>>, b # <<>>,
         Last(a).recordHash = Last(b).recordHash
  PROVE  a = b
<1>0. /\ a \in Seq(Range(a)) /\ b \in Seq(Range(b))
      /\ assertValid(a) /\ assertValid(b)
  BY DEF Chained, IsLog
<1> DEFINE n == Len(a)
<1>1. n \in Nat /\ n \in 1..n /\ Len(b) \in Nat /\ Len(b) \in 1..Len(b)
      /\ DOMAIN a = 1..n /\ DOMAIN b = 1..Len(b)
      /\ Last(a) = a[n] /\ Last(b) = b[Len(b)]
  BY <1>0, LogIsSequence
<1>2. n = Len(b)
  <2>1. a[n].recordHash = hash(n, lastHash(SubSeq(a, 1, n - 1)), a[n].record)
    BY <1>0, <1>1 DEF assertValid
  <2>2. b[Len(b)].recordHash =
          hash(Len(b), lastHash(SubSeq(b, 1, Len(b) - 1)), b[Len(b)].record)
    BY <1>0, <1>1 DEF assertValid
  <2>3. hash(n, lastHash(SubSeq(a, 1, n - 1)), a[n].record) =
          hash(Len(b), lastHash(SubSeq(b, 1, Len(b) - 1)), b[Len(b)].record)
    BY <1>1, <2>1, <2>2
  <2> QED BY <2>3, HashCommits
(* Lines with one hash are equal, and so are the hashes before them. *)
<1>3. ASSUME NEW i \in 1..n, a[i].recordHash = b[i].recordHash
      PROVE  /\ a[i] = b[i]
             /\ lastHash(SubSeq(a, 1, i - 1)) = lastHash(SubSeq(b, 1, i - 1))
  <2> DEFINE p == lastHash(SubSeq(a, 1, i - 1))
             q == lastHash(SubSeq(b, 1, i - 1))
  <2>1. /\ a[i].sequence = i /\ a[i].previousHash = p
        /\ a[i].recordHash = hash(i, p, a[i].record)
    BY <1>0, <1>1 DEF assertValid
  <2>2. /\ b[i].sequence = i /\ b[i].previousHash = q
        /\ b[i].recordHash = hash(i, q, b[i].record)
    BY <1>0, <1>1, <1>2 DEF assertValid
  <2> HIDE DEF p, q
  <2>3. p = q /\ a[i].record = b[i].record
    <3>1. hash(i, p, a[i].record) = hash(i, q, b[i].record)
      BY <1>3, <2>1, <2>2
    <3> QED BY <3>1, HashCommits
  <2>4. /\ a[i] = [sequence |-> a[i].sequence, previousHash |-> a[i].previousHash,
                   recordHash |-> a[i].recordHash, record |-> a[i].record]
        /\ b[i] = [sequence |-> b[i].sequence, previousHash |-> b[i].previousHash,
                   recordHash |-> b[i].recordHash, record |-> b[i].record]
    BY <1>1, <1>2 DEF Chained, IsLog
  <2>5. a[i] = b[i]
    BY <1>3, <2>1, <2>2, <2>3, <2>4
  <2> QED BY <2>3, <2>5 DEF p, q
<1> DEFINE FromTheEnd == {k \in 0..(n - 1) : a[n - k] # b[n - k]}
<1>4. FromTheEnd = {}
  <2> SUFFICES ASSUME FromTheEnd # {} PROVE FALSE
    OBVIOUS
  <2>1. FromTheEnd \subseteq Nat
    BY <1>1
  <2>2. PICK k \in FromTheEnd : \A m \in FromTheEnd : k <= m
    BY <2>1, LeastNatural
  <2>3. k \in 0..(n - 1) /\ a[n - k] # b[n - k]
    OBVIOUS
  <2>4. k # 0
    BY <1>1, <1>2, <1>3, <2>3
  <2> DEFINE i == n - k + 1
  <2>5. i \in 1..n /\ i # 1 /\ i - 1 \in 1..n /\ i - 1 = n - k /\ k - 1 \in 0..(n - 1)
        /\ n - (k - 1) = i /\ ~ (k <= k - 1)
    BY <1>1, <2>3, <2>4
  <2>6. a[i] = b[i]
    BY <2>2, <2>5
  <2>7. lastHash(SubSeq(a, 1, i - 1)) = lastHash(SubSeq(b, 1, i - 1))
    BY <1>3, <2>5, <2>6
  <2>8. a[i - 1].recordHash = b[i - 1].recordHash
    BY <1>0, <1>2, <2>5, <2>7, PreviousHash
  <2>9. a[i - 1] = b[i - 1]
    BY <1>3, <2>5, <2>8
  <2> QED BY <2>3, <2>5, <2>9
<1>5. ASSUME NEW i \in 1..n PROVE a[i] = b[i]
  <2>1. n - i \in 0..(n - 1) /\ n - (n - i) = i
    BY <1>1
  <2> QED BY <1>4, <2>1
<1> QED BY <1>0, <1>1, <1>2, <1>5, LogIsSequence

(* A sequence is one of its own elements. *)
LEMMA OfItsOwn ==
  ASSUME NEW S, NEW log \in Seq(S)
  PROVE  log \in Seq(Range(log))
BY DEF Range

(* A log grows by an entry. *)
LEMMA GrownLog ==
  ASSUME NEW log, IsLog(log), NEW e,
         e = [sequence |-> e.sequence, previousHash |-> e.previousHash,
              recordHash |-> e.recordHash, record |-> e.record]
  PROVE  /\ IsLog(Append(log, e)) /\ Append(log, e) # <<>>
         /\ Len(Append(log, e)) = Len(log) + 1 /\ Last(Append(log, e)) = e
         /\ \A i \in DOMAIN log : i \in DOMAIN Append(log, e) /\ Append(log, e)[i] = log[i]
<1> DEFINE grown == Append(log, e)
<1>0. log \in Seq(Range(log))
  BY DEF IsLog
<1>1. /\ grown \in Seq(Range(log) \cup {e})
      /\ Len(grown) = Len(log) + 1 /\ grown[Len(log) + 1] = e
      /\ \A i \in 1..Len(log) : grown[i] = log[i]
      /\ Len(log) \in Nat
  BY <1>0
<1> HIDE DEF grown
<1>2. DOMAIN grown = 1..(Len(log) + 1) /\ DOMAIN log = 1..Len(log)
  BY <1>0, <1>1
<1>3. \A i \in DOMAIN grown : i \in DOMAIN log \/ i = Len(log) + 1
  BY <1>1, <1>2
<1>4. \A i \in DOMAIN log : i \in DOMAIN grown
  BY <1>1, <1>2
<1>5. grown \in Seq(Range(grown))
  BY <1>1 DEF Range
<1>6. \A i \in DOMAIN grown :
        grown[i] = [sequence |-> grown[i].sequence, previousHash |-> grown[i].previousHash,
                    recordHash |-> grown[i].recordHash, record |-> grown[i].record]
  <2> SUFFICES ASSUME NEW i \in DOMAIN grown
               PROVE  grown[i] = [sequence |-> grown[i].sequence,
                                  previousHash |-> grown[i].previousHash,
                                  recordHash |-> grown[i].recordHash,
                                  record |-> grown[i].record]
    OBVIOUS
  <2>1. CASE i \in DOMAIN log
    <3>1. grown[i] = log[i]
      BY <1>1, <1>2, <2>1
    <3> QED BY <2>1, <3>1 DEF IsLog
  <2>2. CASE i = Len(log) + 1
    BY <1>1, <2>2
  <2> QED BY <1>3, <2>1, <2>2
<1>7. grown # <<>> /\ Last(grown) = e
  BY <1>1 DEF Last
<1> QED BY <1>1, <1>2, <1>4, <1>5, <1>6, <1>7 DEF IsLog, grown

(* The entry that append makes continues the chain in memory. *)
LEMMA EntryContinues ==
  ASSUME Chained(entries), NEW record
  PROVE  Chained(Append(entries, Entry(record)))
<1> DEFINE e == Entry(record)
           grown == Append(entries, e)
           n == Len(entries)
<1>0. IsLog(entries) /\ assertValid(entries) /\ entries \in Seq(Range(entries))
  BY DEF Chained, IsLog
<1>1. /\ e = [sequence |-> e.sequence, previousHash |-> e.previousHash,
              recordHash |-> e.recordHash, record |-> e.record]
      /\ e.sequence = n + 1 /\ e.previousHash = lastHash(entries)
      /\ e.recordHash = hash(n + 1, lastHash(entries), e.record)
  BY DEF Entry
<1>2. n \in Nat /\ DOMAIN entries = 1..n
  BY <1>0, LogIsSequence
<1>3. e # Torn
  BY <1>1, <1>2 DEF Torn
<1> HIDE DEF e
<1>4. /\ IsLog(grown) /\ Len(grown) = n + 1 /\ Last(grown) = e
      /\ \A i \in DOMAIN entries : i \in DOMAIN grown /\ grown[i] = entries[i]
  BY <1>0, <1>1, GrownLog
<1> HIDE DEF grown
<1>5. /\ grown \in Seq(Range(grown)) /\ DOMAIN grown = 1..(n + 1) /\ grown[n + 1] = e
  BY <1>4, LogIsSequence DEF IsLog, Last
<1>6. ASSUME NEW i \in DOMAIN grown
      PROVE  /\ grown[i] # Torn /\ grown[i].sequence = i
             /\ grown[i].previousHash = lastHash(SubSeq(grown, 1, i - 1))
             /\ grown[i].recordHash =
                   hash(i, lastHash(SubSeq(grown, 1, i - 1)), grown[i].record)
  <2>1. i \in 1..Len(grown)
    BY <1>4, <1>5
  <2>2. lastHash(SubSeq(grown, 1, i - 1)) =
          IF i = 1 THEN ZERO_HASH ELSE grown[i - 1].recordHash
    BY <1>5, <2>1, PreviousHash
  <2>3. CASE i \in 1..n
    <3>1. i = 1 \/ i - 1 \in 1..n
      BY <1>2, <2>3
    <3>2. lastHash(SubSeq(grown, 1, i - 1)) = lastHash(SubSeq(entries, 1, i - 1))
      BY <1>0, <1>2, <1>4, <2>2, <2>3, <3>1, PreviousHash
    <3> QED BY <1>0, <1>2, <1>4, <2>3, <3>2 DEF assertValid
  <2>4. CASE i = n + 1
    <3>1. lastHash(SubSeq(grown, 1, i - 1)) = lastHash(entries)
      <4>1. CASE n = 0
        BY <1>0, <2>2, <2>4, <4>1, LogIsSequence DEF lastHash
      <4>2. CASE n # 0
        <5>1. i # 1 /\ i - 1 = n /\ n \in 1..n /\ entries # <<>>
          BY <1>0, <1>2, <2>4, <4>2, LogIsSequence
        <5> QED BY <1>2, <1>4, <2>2, <5>1 DEF lastHash, Last
      <4> QED BY <4>1, <4>2
    <3> QED BY <1>1, <1>3, <1>5, <2>4, <3>1
  <2> QED BY <1>2, <1>5, <2>3, <2>4
<1> QED BY <1>4, <1>6 DEF Chained, assertValid, grown, e

(* A longer log lists what it listed, and its new entry if that is           *)
(* acknowledged.                                                             *)
LEMMA ListedGrows ==
  ASSUME NEW log, IsLog(log), NEW acks, acks \in Seq(Range(acks)), Lists(log, acks), NEW e,
         e = [sequence |-> Len(log) + 1, previousHash |-> e.previousHash,
              recordHash |-> e.recordHash, record |-> e.record]
  PROVE  /\ Lists(Append(log, e), acks)
         /\ Lists(Append(log, e), Append(acks, e))
         /\ Append(acks, e) \in Seq(Range(Append(acks, e)))
<1> DEFINE grown == Append(log, e)
           more == Append(acks, e)
           n == Len(acks)
<1>0. /\ e.sequence = Len(log) + 1
      /\ log \in Seq(Range(log)) /\ DOMAIN log = 1..Len(log) /\ Len(log) \in Nat
      /\ DOMAIN acks = 1..n /\ n \in Nat
  BY LogIsSequence DEF IsLog
<1>1. /\ IsLog(grown) /\ Len(grown) = Len(log) + 1 /\ Last(grown) = e
      /\ \A i \in DOMAIN log : i \in DOMAIN grown /\ grown[i] = log[i]
  <2>1. e = [sequence |-> e.sequence, previousHash |-> e.previousHash,
             recordHash |-> e.recordHash, record |-> e.record]
    BY <1>0
  <2> QED BY <2>1, GrownLog
<1>2. /\ more \in Seq(Range(acks) \cup {e})
      /\ Len(more) = n + 1 /\ more[n + 1] = e
      /\ \A i \in 1..n : more[i] = acks[i]
  BY <1>0
<1> HIDE DEF grown, more
<1>3. Len(log) + 1 \in DOMAIN grown /\ grown[Len(log) + 1] = e
  BY <1>0, <1>1, LogIsSequence DEF IsLog, Last
<1>4. /\ DOMAIN more = 1..(n + 1)
      /\ \A i \in DOMAIN more : i \in 1..n \/ i = n + 1
  BY <1>0, <1>2
<1>5. more \in Seq(Range(more))
  BY <1>2, <1>4 DEF Range
<1>6. Lists(grown, acks)
  BY <1>1 DEF Lists
<1>7. ASSUME NEW i \in DOMAIN more
      PROVE  more[i].sequence \in DOMAIN grown /\ grown[more[i].sequence] = more[i]
  BY <1>0, <1>2, <1>3, <1>4, <1>6 DEF Lists
<1>8. ASSUME NEW i \in DOMAIN more, NEW j \in DOMAIN more, i < j
      PROVE  more[i].sequence < more[j].sequence
  <2>1. i \in 1..n
    BY <1>0, <1>4, <1>8
  <2>2. more[i] = acks[i] /\ acks[i].sequence \in 1..Len(log)
    BY <1>0, <1>2, <2>1 DEF Lists
  <2>3. CASE j \in 1..n
    BY <1>0, <1>2, <1>8, <2>1, <2>3 DEF Lists
  <2>4. CASE j = n + 1
    BY <1>0, <1>2, <2>2, <2>4
  <2> QED BY <1>4, <2>3, <2>4
<1> QED BY <1>5, <1>6, <1>7, <1>8 DEF Lists, grown, more

(* A line is at the end of the file, or merged with a torn one that was.     *)
LEMMA WrittenLine ==
  ASSUME IsLog(file), NEW e,
         e = [sequence |-> e.sequence, previousHash |-> e.previousHash,
              recordHash |-> e.recordHash, record |-> e.record]
  PROVE  IsLog(Written(e)) /\ Written(e) # <<>> /\ Last(Written(e)) \in {e, Torn}
<1>1. CASE file # <<>> /\ Last(file) = Torn
  BY <1>1 DEF Written
<1>2. CASE ~(file # <<>> /\ Last(file) = Torn)
  <2>1. Written(e) = Append(file, e)
    BY <1>2 DEF Written
  <2> QED BY <2>1, GrownLog
<1> QED BY <1>1, <1>2

(* A log without one of the lines before its last is a log with that last.   *)
LEMMA RemovedLine ==
  ASSUME NEW log, IsLog(log), NEW i \in DOMAIN log, i < Len(log)
  PROVE  /\ IsLog(RemoveAt(log, i)) /\ RemoveAt(log, i) # <<>>
         /\ Last(RemoveAt(log, i)) = Last(log)
<1> DEFINE n == Len(log)
           low == SubSeq(log, 1, i - 1)
           high == SubSeq(log, i + 1, n)
           rest == RemoveAt(log, i)
<1>1. log \in Seq(Range(log)) /\ n \in Nat /\ i \in 1..n /\ DOMAIN log = 1..n
  BY LogIsSequence DEF IsLog
<1>2. /\ low \in Seq(Range(log)) /\ Len(low) = i - 1
      /\ \A k \in 1..(i - 1) : low[k] = log[k]
  BY <1>1 DEF Range
<1>3. /\ high \in Seq(Range(log)) /\ Len(high) = n - i
      /\ \A k \in 1..(n - i) : high[k] = log[k + i]
  <2>1. \A k \in (i + 1)..n : log[k] \in Range(log)
    BY <1>1 DEF Range
  <2>2. /\ high \in Seq(Range(log))
        /\ Len(high) = IF i + 1 <= n THEN n - (i + 1) + 1 ELSE 0
        /\ \A k \in 1..(n - (i + 1) + 1) : high[k] = log[i + 1 + k - 1]
    BY <1>1, <2>1, SubSeqProperties
  <2>3. n - (i + 1) + 1 = n - i /\ i + 1 <= n /\ \A k \in 1..(n - i) : i + 1 + k - 1 = k + i
    BY <1>1
  <2> HIDE DEF high
  <2> QED BY <2>2, <2>3
<1>4. rest = low \o high
  BY DEF RemoveAt
<1> HIDE DEF low, high, rest
<1>5. /\ rest \in Seq(Range(log)) /\ Len(rest) = n - 1
      /\ \A k \in 1..(n - 1) :
            rest[k] = IF k <= i - 1 THEN low[k] ELSE high[k - (i - 1)]
  <2>1. /\ low \o high \in Seq(Range(log)) /\ Len(low \o high) = Len(low) + Len(high)
        /\ \A k \in 1..(Len(low) + Len(high)) :
              (low \o high)[k] = IF k <= Len(low) THEN low[k] ELSE high[k - Len(low)]
    BY <1>2, <1>3, ConcatProperties
  <2>2. Len(low) + Len(high) = n - 1
    BY <1>1, <1>2, <1>3
  <2> QED BY <1>2, <1>4, <2>1, <2>2
<1>6. DOMAIN rest = 1..(n - 1)
  BY <1>1, <1>5
<1>7. \A k \in 1..(n - 1) : rest[k] = IF k <= i - 1 THEN log[k] ELSE log[k + 1]
  <2> SUFFICES ASSUME NEW k \in 1..(n - 1)
               PROVE  rest[k] = IF k <= i - 1 THEN log[k] ELSE log[k + 1]
    OBVIOUS
  <2>1. CASE k <= i - 1
    <3>1. k \in 1..(i - 1)
      BY <1>1, <2>1
    <3> QED BY <1>2, <1>5, <2>1, <3>1
  <2>2. CASE ~(k <= i - 1)
    <3>1. k - (i - 1) \in 1..(n - i) /\ (k - (i - 1)) + i = k + 1
      BY <1>1, <2>2
    <3> QED BY <1>3, <1>5, <2>2, <3>1
  <2> QED BY <2>1, <2>2
<1>8. rest \in Seq(Range(rest))
  BY <1>5 DEF Range
<1>9. \A k \in 1..(n - 1) :
        rest[k] = [sequence |-> rest[k].sequence, previousHash |-> rest[k].previousHash,
                   recordHash |-> rest[k].recordHash, record |-> rest[k].record]
  <2> SUFFICES ASSUME NEW k \in 1..(n - 1)
               PROVE  \E m \in DOMAIN log : rest[k] = log[m]
    BY DEF IsLog
  <2>1. k \in 1..n /\ k + 1 \in 1..n
    BY <1>1
  <2> QED BY <1>1, <1>7, <2>1
<1>10. rest # <<>> /\ Last(rest) = Last(log)
  <2>1. n - 1 \in 1..(n - 1) /\ ~(n - 1 <= i - 1) /\ (n - 1) + 1 = n
    BY <1>1
  <2> QED BY <1>5, <1>6, <1>7, <2>1 DEF Last
<1> QED BY <1>6, <1>8, <1>9, <1>10 DEF IsLog, rest

(* A line with another record keeps its hash. *)
LEMMA AlteredLine ==
  ASSUME IsLog(file), NEW i \in DOMAIN file, NEW r, file' = [file EXCEPT ![i].record = r]
  PROVE  /\ IsLog(file') /\ file' # <<>>
         /\ Last(file').recordHash = Last(file).recordHash
         /\ i # Len(file) => Last(file') = Last(file)
<1> DEFINE line == [sequence |-> file[i].sequence, previousHash |-> file[i].previousHash,
                    recordHash |-> file[i].recordHash, record |-> r]
<1>1. file \in Seq(Range(file)) /\ Len(file) \in Nat /\ DOMAIN file = 1..Len(file)
  BY LogIsSequence DEF IsLog
<1>2. [file[i] EXCEPT !.record = r] = line
  <2>1. file[i] = [sequence |-> file[i].sequence, previousHash |-> file[i].previousHash,
                   recordHash |-> file[i].recordHash, record |-> file[i].record]
    BY DEF IsLog
  <2> QED BY <2>1
<1>3. file' = [file EXCEPT ![i] = line]
  BY <1>2
<1>4. /\ line.recordHash = file[i].recordHash
      /\ line = [sequence |-> line.sequence, previousHash |-> line.previousHash,
                 recordHash |-> line.recordHash, record |-> line.record]
  OBVIOUS
<1> HIDE DEF line
<1>5. /\ file' \in Seq(Range(file) \cup {line}) /\ Len(file') = Len(file)
      /\ file'[i] = line /\ \A k \in DOMAIN file \ {i} : file'[k] = file[k]
  BY <1>1, <1>3
<1>6. DOMAIN file' = DOMAIN file
  BY <1>3
<1>7. file' \in Seq(Range(file'))
  BY <1>5, OfItsOwn
<1>8. \A k \in DOMAIN file :
        file'[k] = [sequence |-> file'[k].sequence, previousHash |-> file'[k].previousHash,
                    recordHash |-> file'[k].recordHash, record |-> file'[k].record]
  <2> SUFFICES ASSUME NEW k \in DOMAIN file
               PROVE  file'[k] = [sequence |-> file'[k].sequence,
                                  previousHash |-> file'[k].previousHash,
                                  recordHash |-> file'[k].recordHash,
                                  record |-> file'[k].record]
    OBVIOUS
  <2>1. CASE k = i
    BY <1>4, <1>5, <2>1
  <2>2. CASE k # i
    <3>1. file'[k] = file[k]
      BY <1>5, <2>2
    <3> QED BY <3>1 DEF IsLog
  <2> QED BY <2>1, <2>2
<1>9. file' # <<>> /\ Len(file) \in DOMAIN file
  BY <1>1, <1>6
<1>10. /\ Last(file') = file'[Len(file)] /\ Last(file) = file[Len(file)]
  BY <1>5 DEF Last
<1> QED BY <1>4, <1>5, <1>6, <1>7, <1>8, <1>9, <1>10 DEF IsLog

LEMMA LogStarts == AuditInit => LogInv
<1> SUFFICES ASSUME AuditInit PROVE LogInv
  OBVIOUS
<1>1. entries = <<>> /\ file = <<>> /\ acked = <<>>
  BY DEF AuditInit
<1>2. <<>> \in Seq(Range(<<>>)) /\ DOMAIN <<>> = {}
  OBVIOUS
<1> QED BY <1>1, <1>2 DEF LogInv, IsLog, Chained, assertValid, Lists, AccountedFor

LEMMA LogSteps == LogInv /\ [AuditNext]_auditVars => LogInv'
<1> SUFFICES ASSUME LogInv, [AuditNext]_auditVars PROVE LogInv'
  OBVIOUS
<1>0. /\ IsLog(entries) /\ IsLog(file) /\ acked \in Seq(Range(acked))
      /\ logState = "open" => Chained(entries) /\ Lists(entries, acked)
      /\ AccountedFor(file, acked)
  BY DEF LogInv
<1>e. IsLog(<<>>)
  BY DEF IsLog
(* An entry, in memory and as a line. *)
<1>1. ASSUME NEW record, logState = "open"
      PROVE  /\ Chained(Append(entries, Entry(record)))
             /\ Append(entries, Entry(record)) # <<>>
             /\ Last(Append(entries, Entry(record))) = Entry(record)
             /\ Lists(Append(entries, Entry(record)), acked)
             /\ Lists(Append(entries, Entry(record)), Append(acked, Entry(record)))
             /\ Append(acked, Entry(record)) \in Seq(Range(Append(acked, Entry(record))))
             /\ IsLog(Written(Entry(record))) /\ IsLog(Written(Torn))
             /\ AccountedFor(Written(Entry(record)), acked)
             /\ AccountedFor(Written(Entry(record)), Append(acked, Entry(record)))
             /\ AccountedFor(Written(Torn), acked)
  <2> DEFINE e == Entry(record)
             grown == Append(entries, e)
             more == Append(acked, e)
  <2>1. /\ e = [sequence |-> e.sequence, previousHash |-> e.previousHash,
                recordHash |-> e.recordHash, record |-> e.record]
        /\ e = [sequence |-> Len(entries) + 1, previousHash |-> e.previousHash,
                recordHash |-> e.recordHash, record |-> e.record]
    BY DEF Entry
  <2>2. Chained(grown)
    BY <1>0, <1>1, EntryContinues
  <2> HIDE DEF e
  <2>3. grown # <<>> /\ Last(grown) = e
    BY <1>0, <2>1, GrownLog
  <2>4. Lists(grown, acked) /\ Lists(grown, more) /\ more \in Seq(Range(more))
    BY <1>0, <1>1, <2>1, ListedGrows
  <2>5. IsLog(Written(e)) /\ Written(e) # <<>> /\ Last(Written(e)) \in {e, Torn}
    BY <1>0, <2>1, WrittenLine
  <2>6. IsLog(Written(Torn)) /\ Written(Torn) # <<>> /\ Last(Written(Torn)) = Torn
    <3>1. Torn = [sequence |-> Torn.sequence, previousHash |-> Torn.previousHash,
                  recordHash |-> Torn.recordHash, record |-> Torn.record]
      BY DEF Torn
    <3> QED BY <1>0, <3>1, WrittenLine
  <2> HIDE DEF grown, more
  <2>7. AccountedFor(Written(e), acked) /\ AccountedFor(Written(e), more)
    BY <2>2, <2>3, <2>4, <2>5 DEF AccountedFor
  <2>8. AccountedFor(Written(Torn), acked)
    BY <2>6 DEF AccountedFor
  <2> QED BY <2>2, <2>3, <2>4, <2>5, <2>6, <2>7, <2>8 DEF e, grown, more
<1>2. ASSUME NEW record, AppendEntry(record) PROVE LogInv'
  <2> DEFINE e == Entry(record)
             grown == Append(entries, e)
  <2>1. /\ logState = "open" /\ logState' = "open" /\ entries' = grown
        /\ \/ file' = Written(e) /\ acked' = Append(acked, e)
           \/ file' \in {file, Written(Torn)} /\ acked' = acked
    BY <1>2 DEF AppendEntry, AckedIf
  <2>2. /\ Chained(grown) /\ Lists(grown, acked) /\ Lists(grown, Append(acked, e))
        /\ Append(acked, e) \in Seq(Range(Append(acked, e)))
        /\ IsLog(Written(e)) /\ IsLog(Written(Torn))
        /\ AccountedFor(Written(e), Append(acked, e)) /\ AccountedFor(Written(Torn), acked)
    BY <1>1, <2>1
  <2> HIDE DEF grown, e
  <2>3. IsLog(grown)
    BY <2>2 DEF Chained
  <2> QED BY <1>0, <2>1, <2>2, <2>3 DEF LogInv
<1>3. ASSUME NEW record, CrashInAppend(record) PROVE LogInv'
  <2> DEFINE e == Entry(record)
  <2>1. /\ logState = "open" /\ logState' = "down" /\ entries' = <<>> /\ acked' = acked
        /\ file' \in {file, Written(Torn), Written(e)}
    BY <1>3 DEF CrashInAppend
  <2>2. /\ IsLog(Written(e)) /\ IsLog(Written(Torn))
        /\ AccountedFor(Written(e), acked) /\ AccountedFor(Written(Torn), acked)
    BY <1>1, <2>1
  <2> HIDE DEF e
  <2> QED BY <1>0, <1>e, <2>1, <2>2 DEF LogInv
<1>4. ASSUME Stop PROVE LogInv'
  BY <1>0, <1>e, <1>4 DEF Stop, LogInv
<1>5. ASSUME Tamper PROVE LogInv'
  <2>1. /\ logState = "down" /\ logState' = "down" /\ entries' = entries /\ acked' = acked
    BY <1>5 DEF Tamper
  <2>2. PICK i \in DOMAIN file :
          /\ file[i] # Torn
          /\ \/ \E r \in Records \ {file[i].record} : file' = [file EXCEPT ![i].record = r]
             \/ i < Len(file) /\ file' = RemoveAt(file, i)
    BY <1>5 DEF Tamper
  <2>3. file # <<>> /\ Last(file) = file[Len(file)]
    BY DEF Last
  <2> DEFINE Kept(lines) ==
               /\ IsLog(lines) /\ lines # <<>> /\ Last(lines).recordHash = Last(file).recordHash
               /\ Last(file) = Torn => Last(lines) = Torn
  <2>4. Kept(file')
    <3>1. ASSUME NEW r, file' = [file EXCEPT ![i].record = r] PROVE Kept(file')
      <4>1. Last(file) = Torn => i # Len(file)
        BY <2>2, <2>3
      <4> QED BY <1>0, <3>1, <4>1, AlteredLine
    <3>2. ASSUME i < Len(file), file' = RemoveAt(file, i) PROVE Kept(file')
      BY <1>0, <3>2, RemovedLine
    <3> QED BY <2>2, <3>1, <3>2
  <2>5. AccountedFor(file', acked)
    BY <1>0, <2>3, <2>4 DEF AccountedFor
  <2> QED BY <1>0, <2>1, <2>4, <2>5 DEF LogInv
(* A file that is a chain is the one that has its last hash. *)
<1>6. ASSUME Reopen PROVE LogInv'
  <2>1. file' = file /\ acked' = acked
    BY <1>6 DEF Reopen
  <2>2. CASE assertValid(file)
    <3>1. logState' = "open" /\ entries' = file
      BY <1>6, <2>2 DEF Reopen
    <3>2. Chained(file)
      BY <1>0, <2>2 DEF Chained
    <3>3. ~(file # <<>> /\ Last(file) = Torn)
      BY <1>0, <2>2, LogIsSequence DEF IsLog, assertValid
    <3>4. Lists(file, acked)
      <4>1. CASE file = <<>> /\ acked = <<>>
        BY <4>1 DEF Lists
      <4>2. CASE ~(file = <<>> /\ acked = <<>>)
        <5>1. PICK log : /\ Chained(log) /\ log # <<>> /\ Lists(log, acked)
                         /\ Last(file).recordHash = Last(log).recordHash /\ file # <<>>
          BY <1>0, <3>3, <4>2 DEF AccountedFor
        <5>2. file = log
          BY <3>2, <5>1, OneHashOneChain
        <5> QED BY <5>1, <5>2
      <4> QED BY <4>1, <4>2
    <3> QED BY <1>0, <2>1, <3>1, <3>2, <3>4 DEF LogInv
  <2>3. CASE ~assertValid(file)
    <3>1. logState' = "refused" /\ entries' = <<>>
      BY <1>6, <2>3 DEF Reopen
    <3> QED BY <1>0, <1>e, <2>1, <3>1 DEF LogInv
  <2> QED BY <2>2, <2>3
<1>7. CASE UNCHANGED auditVars
  BY <1>0, <1>7 DEF LogInv, auditVars
<1>8. ASSUME NEW r, NEW route, Observe(route, r) PROVE LogInv'
  BY <1>2, <1>8 DEF Observe
<1> QED BY <1>2, <1>3, <1>4, <1>5, <1>6, <1>7, <1>8 DEF AuditNext

(* The chain in memory has what was acknowledged, and the file ends in a     *)
(* line of a chain that has it, or in a torn one.                            *)
THEOREM LogInvHolds == AuditSpec => []LogInv
  BY LogStarts, LogSteps, PTL DEF AuditSpec

(* A log that opens has every acknowledged entry at its place, across failed *)
(* writes, crashes and altered files, for any records and any length.        *)
THEOREM AcknowledgedIsListed == AuditSpec => []AckedIsListed
<1>1. LogInv => AckedIsListed
  BY DEF LogInv, AckedIsListed, Lists, Listed
<1> QED BY <1>1, LogInvHolds, PTL

-----------------------------------------------------------------------------
(* The fraud monitor.  The small pieces of the window that runs are within   *)
(* its total, so that they are below the threshold while nobody is flagged;  *)
(* what a span holds of the time before is in one earlier window, because    *)
(* two windows begin further apart than a span is long.                      *)

FraudTypes ==
    /\ today \in 1..LastTradingDay
    /\ structuringWindow \in Nat
    /\ identityGroupOf \in [Sellers -> GroupKeys]
    /\ window \in [GroupKeys -> [start: 0..today, total: Nat, count: Nat]]
    /\ sold \in [GroupKeys -> [Days -> Nat]]

(* What was sold up to a day only grows, and not after today.                *)
Cumulative(pieces, last) ==
    /\ pieces[0] = 0
    /\ \A d, e \in Days : d <= e => pieces[d] <= pieces[e]
    /\ \A d \in Days : d >= last => pieces[d] = pieces[last]

(* The window that runs, with the pieces of its days and those before.       *)
WindowHolds(w, pieces, last, span) ==
    IF w.start = 0 THEN pieces[last] = 0
    ELSE /\ w.count > 0
         /\ pieces[last] - pieces[w.start - 1] <= w.total
         /\ pieces[last] - pieces[w.start - 1] < SAR_THRESHOLD
         /\ \A d \in Days : d >= w.start + span => pieces[d] = pieces[last]
         /\ \A d \in 1..(w.start - 1) :
               d + span >= w.start =>
                  pieces[w.start - 1] - pieces[d - 1] < SAR_THRESHOLD

SpansHold(pieces, last, span) ==
    \A d \in 1..last, e \in Days :
        e <= d + span => pieces[e] - pieces[d - 1] < 2 * SAR_THRESHOLD

KeyHolds(w, pieces, last, span) ==
    /\ Cumulative(pieces, last) /\ WindowHolds(w, pieces, last, span)
    /\ SpansHold(pieces, last, span)

FraudInv ==
    /\ FraudTypes
    /\ \A key \in GroupKeys : KeyHolds(window[key], sold[key], today, structuringWindow)

(* Nothing sold is nothing to flag. *)
LEMMA NothingSold ==
  ASSUME NEW span \in Nat, NEW last \in 1..LastTradingDay, NEW w,
         w.start \in 0..last, w.total \in Nat, w.start # 0 => w.count > 0
  PROVE  NoPieces \in [Days -> Nat] /\ KeyHolds(w, NoPieces, last, span)
<1>1. /\ LastTradingDay \in Nat \ {0} /\ SAR_THRESHOLD \in Nat \ {0}
  BY FraudAssumption
<1>2. \A d \in Days : NoPieces[d] = 0
  BY DEF NoPieces
<1>3. \A d \in 1..last : d - 1 \in Days
  BY <1>1 DEF Days
<1>4. NoPieces \in [Days -> Nat] /\ last \in Days /\ 0 \in Days
  BY <1>1 DEF NoPieces, Days
<1>5. Cumulative(NoPieces, last)
  BY <1>2, <1>4 DEF Cumulative
<1>7. SpansHold(NoPieces, last, span)
  <2> SUFFICES ASSUME NEW d \in 1..last, NEW e \in Days
               PROVE  NoPieces[e] - NoPieces[d - 1] < 2 * SAR_THRESHOLD
    BY DEF SpansHold
  <2>1. NoPieces[e] = 0 /\ NoPieces[d - 1] = 0
    BY <1>2, <1>3
  <2> QED BY <1>1, <2>1
<1>6. WindowHolds(w, NoPieces, last, span)
  <2>1. \A d \in 1..(w.start - 1) : d - 1 \in Days
    BY <1>1 DEF Days
  <2>2. w.start # 0 => w.start - 1 \in Days
    BY <1>1 DEF Days
  <2> QED BY <1>1, <1>2, <1>4, <2>1, <2>2 DEF WindowHolds
<1> QED BY <1>4, <1>5, <1>6, <1>7 DEF KeyHolds

(* A piece, of no amount when it is a large one, in the window it falls      *)
(* into, if that does not flag it.                                           *)
LEMMA OnePiece ==
  ASSUME NEW span \in Nat, today \in 1..LastTradingDay,
         NEW pieces \in [Days -> Nat], NEW old,
         old.start \in 0..today, old.total \in Nat, old.count \in Nat,
         KeyHolds(old, pieces, today, span),
         NEW amount \in Nat, NEW small \in 0..amount, small < SAR_THRESHOLD,
         NEW w, w.total \in Nat, w.count \in Nat, w.start \in 1..today,
         IF old.start = 0 \/ today - old.start > span
         THEN w.start = today /\ w.total = amount /\ w.count = 1
         ELSE w.start = old.start /\ w.total = old.total + amount /\ w.count = old.count + 1,
         small > 0 => ~(w.count >= 2 /\ w.total >= SAR_THRESHOLD)
  PROVE  OnePieceMore(pieces, small) \in [Days -> Nat] /\ KeyHolds(w, OnePieceMore(pieces, small), today, span)
<1> DEFINE more == OnePieceMore(pieces, small)
           L == LastTradingDay
<1>0. /\ L \in Nat \ {0} /\ SAR_THRESHOLD \in Nat \ {0} /\ today \in 1..L /\ span \in Nat
  BY FraudAssumption
<1>1. /\ pieces[0] = 0
      /\ \A d, e \in Days : d <= e => pieces[d] <= pieces[e]
      /\ \A d \in Days : d >= today => pieces[d] = pieces[today]
      /\ \A d \in Days : pieces[d] \in Nat
      /\ WindowHolds(old, pieces, today, span) /\ SpansHold(pieces, today, span)
  BY DEF KeyHolds, Cumulative
<1>2. /\ more \in [Days -> Nat]
      /\ \A d \in Days : more[d] = IF d >= today THEN pieces[d] + small ELSE pieces[d]
  BY <1>0, <1>1 DEF OnePieceMore, Days
<1> HIDE DEF more
<1>3. /\ today \in Days /\ today - 1 \in Days /\ 0 \in Days /\ w.start \in Days /\ w.start - 1 \in Days
      /\ w.start \in Nat /\ old.start \in Nat /\ today \in Nat /\ small \in Nat
      /\ \A d \in 1..today : d \in Days /\ d - 1 \in Days
      /\ \A d \in Days : d \in Nat
  <2>1. today \in Days /\ today - 1 \in Days /\ 0 \in Days /\ today \in Nat
    <3>1. today \in 0..L /\ today - 1 \in 0..L /\ 0 \in 0..L /\ today \in Nat
      BY <1>0
    <3> QED BY <3>1 DEF Days
  <2>2. w.start \in Days /\ w.start - 1 \in Days /\ w.start \in Nat
    <3>1. w.start \in 0..L /\ w.start - 1 \in 0..L /\ w.start \in Nat
      BY <1>0
    <3> QED BY <3>1 DEF Days
  <2>3. old.start \in Nat /\ small \in Nat
    BY <1>0
  <2>4. ASSUME NEW d \in 1..today PROVE d \in Days /\ d - 1 \in Days
    <3>1. d \in Nat /\ 1 <= d /\ d <= LastTradingDay /\ d - 1 \in Nat
      BY <1>0
    <3> QED BY <1>0, <3>1 DEF Days
  <2>5. ASSUME NEW d \in Days PROVE d \in Nat
    BY <1>0 DEF Days
  <2> QED BY <2>1, <2>2, <2>3, <2>4, <2>5
<1>4. /\ more[today] = pieces[today] + small
      /\ \A d \in Days : d >= today => more[d] = more[today]
      /\ \A d \in Days : d < today => more[d] = pieces[d]
      /\ \A d \in Days : more[d] \in Nat
  BY <1>1, <1>2, <1>3
<1>5. Cumulative(more, today)
  <2>1. more[0] = 0
    BY <1>0, <1>1, <1>2, <1>3
  <2>2. ASSUME NEW d \in Days, NEW e \in Days, d <= e PROVE more[d] <= more[e]
    BY <1>1, <1>2, <1>3, <2>2
  <2> QED BY <1>4, <2>1, <2>2 DEF Cumulative
<1>6. more[w.start - 1] = pieces[w.start - 1]
  BY <1>3, <1>4
(* The pieces of the window, and those of an earlier one in a span.          *)
<1>7. /\ more[today] - more[w.start - 1] <= w.total
      /\ more[today] - more[w.start - 1] < SAR_THRESHOLD
      /\ \A d \in Days : d >= w.start + span => more[d] = more[today]
      /\ \A d \in 1..(w.start - 1) :
            d + span >= w.start => more[w.start - 1] - more[d - 1] < SAR_THRESHOLD
  <2>1. CASE old.start = 0
    <3>1. pieces[today] = 0 /\ w.start = today /\ w.total = amount
      BY <1>1, <2>1 DEF WindowHolds
    <3>2. \A d \in Days : pieces[d] = 0
      <4>1. \A d \in Days : d <= today => pieces[d] <= pieces[today]
        BY <1>1, <1>3
      <4>2. \A d \in Days : d >= today => pieces[d] = pieces[today]
        BY <1>1
      <4> QED BY <1>1, <1>3, <3>1, <4>1, <4>2
    <3>3. \A d \in 1..(w.start - 1) : d - 1 \in Days /\ d - 1 < today
      BY <1>3, <3>1
    <3> QED BY <1>0, <1>3, <1>4, <1>6, <3>1, <3>2, <3>3
  <2>2. CASE old.start # 0 /\ today - old.start > span
    <3>1. /\ w.start = today /\ w.total = amount /\ old.start \in 1..today
          /\ pieces[today] - pieces[old.start - 1] < SAR_THRESHOLD
          /\ \A d \in Days : d >= old.start + span => pieces[d] = pieces[today]
      BY <1>1, <1>3, <2>2 DEF WindowHolds
    <3>2. pieces[today - 1] = pieces[today]
      BY <1>0, <1>3, <2>2, <3>1
    <3>3. ASSUME NEW d \in 1..(w.start - 1), d + span >= w.start
          PROVE  more[w.start - 1] - more[d - 1] < SAR_THRESHOLD
      <4>1. /\ d - 1 \in Days /\ d - 1 < today /\ old.start - 1 \in Days /\ old.start - 1 <= d - 1
        <5>1. d \in Nat /\ 1 <= d /\ d < today /\ old.start < d
          BY <1>0, <1>3, <2>2, <3>1, <3>3
        <5>2. d - 1 \in 0..L /\ old.start - 1 \in 0..L
          BY <1>0, <1>3, <3>1, <5>1
        <5> QED BY <1>3, <5>1, <5>2 DEF Days
      <4>2. pieces[old.start - 1] <= pieces[d - 1] /\ more[d - 1] = pieces[d - 1]
        BY <1>1, <1>4, <4>1
      <4> QED BY <1>0, <1>1, <1>3, <1>6, <3>1, <3>2, <4>1, <4>2
    <3>4. more[today] - more[w.start - 1] = small
      BY <1>1, <1>3, <1>4, <1>6, <3>1, <3>2
    <3> QED BY <1>0, <1>3, <1>4, <3>1, <3>3, <3>4
  <2>3. CASE old.start # 0 /\ ~(today - old.start > span)
    <3>1. /\ w.start = old.start /\ w.total = old.total + amount /\ w.count = old.count + 1
          /\ pieces[today] - pieces[old.start - 1] <= old.total
          /\ pieces[today] - pieces[old.start - 1] < SAR_THRESHOLD
          /\ old.count > 0
          /\ \A d \in 1..(old.start - 1) :
                d + span >= old.start =>
                   pieces[old.start - 1] - pieces[d - 1] < SAR_THRESHOLD
      BY <1>1, <1>3, <2>3 DEF WindowHolds
    <3>2. more[today] - more[w.start - 1] = (pieces[today] - pieces[old.start - 1]) + small
      BY <1>1, <1>3, <1>4, <1>6, <3>1
    <3>3. more[today] - more[w.start - 1] <= w.total
      BY <1>1, <1>3, <3>1, <3>2
    <3>4. more[today] - more[w.start - 1] < SAR_THRESHOLD
      <4>1. w.count >= 2
        BY <3>1
      <4> QED BY <1>0, <1>1, <1>3, <3>1, <3>2, <3>3, <4>1
    <3>5. ASSUME NEW d \in 1..(w.start - 1) PROVE d - 1 \in Days /\ more[d - 1] = pieces[d - 1]
      <4>1. d \in 1..today /\ d - 1 < today
        BY <1>0, <1>3
      <4> QED BY <1>3, <1>4, <4>1
    <3>6. \A d \in Days : d >= w.start + span => more[d] = more[today]
      BY <1>0, <1>3, <1>4, <2>3, <3>1
    <3> QED BY <1>6, <3>1, <3>3, <3>4, <3>5, <3>6
  <2> QED BY <2>1, <2>2, <2>3
<1>8. WindowHolds(w, more, today, span)
  BY <1>3, <1>7 DEF WindowHolds
<1>9. SpansHold(more, today, span)
  <2> SUFFICES ASSUME NEW d \in 1..today, NEW e \in Days, e <= d + span
               PROVE  more[e] - more[d - 1] < 2 * SAR_THRESHOLD
    BY DEF SpansHold
  <2>1. e \in Nat /\ d - 1 \in Days /\ d - 1 < today /\ d \in Nat
    BY <1>3
  <2>2. more[d - 1] = pieces[d - 1] /\ pieces[d - 1] \in Nat /\ more[today] \in Nat
    BY <1>1, <1>3, <1>4, <2>1
  <2>3. CASE e < today
    BY <1>1, <1>4, <2>1, <2>2, <2>3 DEF SpansHold
  <2>4. CASE ~(e < today)
    <3>1. more[e] = more[today]
      BY <1>3, <1>4, <2>1, <2>4
    <3>2. CASE d >= w.start
      <4>1. pieces[w.start - 1] <= pieces[d - 1]
        BY <1>1, <1>3, <2>1, <3>2
      <4> QED BY <1>0, <1>1, <1>3, <1>6, <1>7, <2>2, <3>1, <4>1
    <3>3. CASE d < w.start
      <4>1. d \in 1..(w.start - 1) /\ d + span >= w.start
        BY <1>0, <1>3, <2>1, <2>4, <3>3
      <4>2. more[w.start - 1] - more[d - 1] < SAR_THRESHOLD
        BY <1>7, <4>1
      <4> QED BY <1>0, <1>3, <1>4, <1>7, <2>1, <3>1, <4>2
    <3> QED BY <1>3, <2>1, <3>2, <3>3
  <2> QED BY <1>3, <2>1, <2>3, <2>4
<1> QED BY <1>2, <1>5, <1>8, <1>9 DEF KeyHolds, more

LEMMA FraudStarts == FraudInit => FraudInv
<1> SUFFICES ASSUME FraudInit PROVE FraudInv
  OBVIOUS
<1>1. /\ today = 1 /\ structuringWindow \in Nat /\ 1 \in 1..LastTradingDay
      /\ identityGroupOf = [s \in Sellers |-> s]
      /\ window = [k \in GroupKeys |-> NoWindow] /\ sold = [k \in GroupKeys |-> NoPieces]
  BY FraudAssumption DEF FraudInit
<1>2. NoWindow \in [start: 0..today, total: Nat, count: Nat] /\ NoWindow.start = 0
  BY <1>1 DEF NoWindow
<1>3. NoPieces \in [Days -> Nat] /\ KeyHolds(NoWindow, NoPieces, today, structuringWindow)
  BY <1>1, <1>2, NothingSold
<1>4. FraudTypes
  BY <1>1, <1>2, <1>3 DEF FraudTypes, GroupKeys
<1>5. \A key \in GroupKeys : window[key] = NoWindow /\ sold[key] = NoPieces
  BY <1>1
<1> QED BY <1>3, <1>4, <1>5 DEF FraudInv

LEMMA SalesKeepWindows ==
  ASSUME FraudInv, NEW from \in Sellers, NEW amount \in 1..SAR_THRESHOLD, OnSale(from, amount)
  PROVE  FraudInv'
<1> DEFINE key == identityGroupOf[from]
           old == window[key]
           fresh == old.start = 0 \/ today - old.start > structuringWindow
           c == Current(key)
           w == [start |-> c.start, total |-> c.total + amount, count |-> c.count + 1]
           flagged == Structured(w, amount)
           small == IF amount < SAR_THRESHOLD THEN amount ELSE 0
<1>0. /\ FraudTypes /\ SAR_THRESHOLD \in Nat \ {0}
      /\ \A k \in GroupKeys : KeyHolds(window[k], sold[k], today, structuringWindow)
  BY FraudAssumption DEF FraudInv
<1>1. /\ key \in GroupKeys /\ sold[key] \in [Days -> Nat] /\ today \in 1..LastTradingDay
      /\ old = [start |-> old.start, total |-> old.total, count |-> old.count]
      /\ old.start \in 0..today /\ old.total \in Nat /\ old.count \in Nat
      /\ structuringWindow \in Nat
  BY <1>0 DEF FraudTypes
<1>2. /\ today' = today /\ structuringWindow' = structuringWindow
      /\ identityGroupOf' = identityGroupOf
      /\ flagged => /\ window' = [window EXCEPT ![key] = NoWindow]
                    /\ sold' = [sold EXCEPT ![key] = NoPieces]
      /\ ~flagged => /\ window' = [window EXCEPT ![key] = w]
                     /\ sold' = IF amount < SAR_THRESHOLD
                                THEN [sold EXCEPT ![key] = OnePieceMore(sold[key], amount)]
                                ELSE sold
  BY DEF OnSale
<1>3. w = IF fresh THEN [start |-> today, total |-> 0 + amount, count |-> 0 + 1]
          ELSE [start |-> old.start, total |-> old.total + amount, count |-> old.count + 1]
  BY DEF Current, NoWindow
<1>4. /\ w \in [start: 0..today, total: Nat, count: Nat]
      /\ w.total \in Nat /\ w.count \in Nat /\ w.start \in 1..today
      /\ IF fresh THEN w.start = today /\ w.total = amount /\ w.count = 1
         ELSE w.start = old.start /\ w.total = old.total + amount /\ w.count = old.count + 1
  BY <1>1, <1>3
<1>5. small \in 0..amount /\ small < SAR_THRESHOLD /\ amount \in Nat
  BY <1>0
<1>6. flagged <=> amount < SAR_THRESHOLD /\ w.count >= 2 /\ w.total >= SAR_THRESHOLD
  BY DEF Structured
<1>7. KeyHolds(old, sold[key], today, structuringWindow)
  BY <1>0, <1>1
<1>8. NoWindow \in [start: 0..today, total: Nat, count: Nat] /\ NoWindow.start = 0
  BY <1>1 DEF NoWindow
<1>9. NoPieces \in [Days -> Nat] /\ KeyHolds(NoWindow, NoPieces, today, structuringWindow)
  BY <1>1, <1>8, NothingSold
<1> HIDE DEF w, flagged, key, old
<1>10. CASE flagged
  <2>0. window' = [window EXCEPT ![key] = NoWindow] /\ sold' = [sold EXCEPT ![key] = NoPieces]
    BY <1>2, <1>10
  <2>1. /\ window' \in [GroupKeys -> [start: 0..today, total: Nat, count: Nat]]
        /\ sold' \in [GroupKeys -> [Days -> Nat]]
        /\ \A k \in GroupKeys : \/ k = key /\ window'[k] = NoWindow /\ sold'[k] = NoPieces
                                \/ window'[k] = window[k] /\ sold'[k] = sold[k]
    <3>1. window' \in [GroupKeys -> [start: 0..today, total: Nat, count: Nat]]
      BY <1>0, <1>8, <2>0 DEF FraudTypes
    <3>2. sold' \in [GroupKeys -> [Days -> Nat]]
      BY <1>0, <1>9, <2>0 DEF FraudTypes
    <3>3. \A k \in GroupKeys : \/ k = key /\ window'[k] = NoWindow /\ sold'[k] = NoPieces
                               \/ window'[k] = window[k] /\ sold'[k] = sold[k]
      BY <1>0, <1>1, <2>0 DEF FraudTypes
    <3> QED BY <3>1, <3>2, <3>3
  <2> QED
    <3>1. \A k \in GroupKeys : KeyHolds(window'[k], sold'[k], today, structuringWindow)
      BY <1>0, <1>9, <2>1
    <3> QED BY <1>0, <1>2, <2>1, <3>1 DEF FraudInv, FraudTypes
<1>11. CASE ~flagged
  <2> DEFINE more == OnePieceMore(sold[key], small)
  <2>1. small > 0 => ~(w.count >= 2 /\ w.total >= SAR_THRESHOLD)
    BY <1>6, <1>11
  <2>2. more \in [Days -> Nat] /\ KeyHolds(w, more, today, structuringWindow)
    BY <1>1, <1>4, <1>5, <1>7, <2>1, OnePiece
  <2>3. amount < SAR_THRESHOLD => small = amount
    OBVIOUS
  <2>4. ~(amount < SAR_THRESHOLD) => more = sold[key]
    BY <1>1 DEF OnePieceMore
  <2>5. sold' = [sold EXCEPT ![key] = more]
    BY <1>0, <1>1, <1>2, <1>11, <2>3, <2>4 DEF FraudTypes
  <2> HIDE DEF more
  <2>6. /\ window' \in [GroupKeys -> [start: 0..today, total: Nat, count: Nat]]
        /\ sold' \in [GroupKeys -> [Days -> Nat]]
        /\ \A k \in GroupKeys : \/ k = key /\ window'[k] = w /\ sold'[k] = more
                                \/ window'[k] = window[k] /\ sold'[k] = sold[k]
    BY <1>0, <1>1, <1>2, <1>4, <1>11, <2>2, <2>5 DEF FraudTypes
  <2>7. \A k \in GroupKeys : KeyHolds(window'[k], sold'[k], today, structuringWindow)
    BY <1>0, <2>2, <2>6
  <2> QED BY <1>0, <1>2, <2>6, <2>7 DEF FraudInv, FraudTypes
<1> QED BY <1>10, <1>11

LEMMA FraudSteps == FraudInv /\ [FraudNext]_fraudVars => FraudInv'
<1> SUFFICES ASSUME FraudInv, [FraudNext]_fraudVars PROVE FraudInv'
  OBVIOUS
<1>0. /\ FraudTypes /\ SAR_THRESHOLD \in Nat \ {0} /\ LastTradingDay \in Nat \ {0}
      /\ \A k \in GroupKeys : KeyHolds(window[k], sold[k], today, structuringWindow)
  BY FraudAssumption DEF FraudInv
<1>1. ASSUME NEW s \in Sellers, NEW a \in 1..SAR_THRESHOLD, OnSale(s, a) PROVE FraudInv'
  BY <1>1, SalesKeepWindows
<1>2. ASSUME NEW s \in Sellers, NEW g \in IdentityGroups \cup {s}, SetIdentityGroup(s, g)
      PROVE  FraudInv'
  <2>1. identityGroupOf' \in [Sellers -> GroupKeys]
    BY <1>0, <1>2 DEF SetIdentityGroup, FraudTypes, GroupKeys
  <2>2. UNCHANGED <<today, structuringWindow, window, sold>>
    BY <1>2 DEF SetIdentityGroup
  <2> QED BY <1>0, <2>1, <2>2 DEF FraudInv, FraudTypes
(* Another setting of the window begins the observation again. *)
<1>3. ASSUME NEW d \in StructuringWindows, SetStructuringWindow(d) PROVE FraudInv'
  <2>1. /\ structuringWindow' = d /\ d \in Nat /\ sold' = [k \in GroupKeys |-> NoPieces]
        /\ UNCHANGED <<today, window, identityGroupOf>>
    BY <1>3, FraudAssumption DEF SetStructuringWindow
  <2>2. \A k \in GroupKeys :
          NoPieces \in [Days -> Nat] /\ KeyHolds(window[k], NoPieces, today, d)
    <3> SUFFICES ASSUME NEW k \in GroupKeys
                 PROVE  NoPieces \in [Days -> Nat] /\ KeyHolds(window[k], NoPieces, today, d)
      OBVIOUS
    <3>1. /\ today \in 1..LastTradingDay /\ window[k].start \in 0..today
          /\ window[k].total \in Nat
      BY <1>0 DEF FraudTypes
    <3>2. window[k].start # 0 => window[k].count > 0
      BY <1>0 DEF KeyHolds, WindowHolds
    <3> QED BY <2>1, <3>1, <3>2, NothingSold
  <2> QED BY <1>0, <2>1, <2>2 DEF FraudInv, FraudTypes
(* Nothing was sold yet tomorrow. *)
<1>4. ASSUME NextTradingDay PROVE FraudInv'
  <2>1. /\ today \in 1..LastTradingDay /\ today' = today + 1 /\ today' \in 1..LastTradingDay
        /\ UNCHANGED <<structuringWindow, identityGroupOf, window, sold>>
    BY <1>0, <1>4 DEF NextTradingDay, FraudTypes
  <2>2. FraudTypes'
    <3>1. 0..today \subseteq 0..(today + 1)
      BY <2>1
    <3> QED BY <1>0, <2>1, <3>1 DEF FraudTypes
  <2>3. ASSUME NEW k \in GroupKeys
        PROVE  KeyHolds(window[k], sold[k], today + 1, structuringWindow)
    <3>1. /\ sold[k] \in [Days -> Nat] /\ window[k].start \in 0..today
          /\ structuringWindow \in Nat /\ today \in Days /\ today + 1 \in Days
          /\ \A d \in Days : d \in Nat
      BY <1>0, <2>1 DEF FraudTypes, Days
    <3>2. /\ Cumulative(sold[k], today) /\ WindowHolds(window[k], sold[k], today, structuringWindow)
          /\ SpansHold(sold[k], today, structuringWindow)
      BY <1>0 DEF KeyHolds
    <3>3. /\ sold[k][today + 1] = sold[k][today]
          /\ \A d \in Days : d >= today + 1 => sold[k][d] = sold[k][today + 1]
      BY <2>1, <3>1, <3>2 DEF Cumulative
    <3>4. Cumulative(sold[k], today + 1)
      BY <3>2, <3>3 DEF Cumulative
    <3>5. WindowHolds(window[k], sold[k], today + 1, structuringWindow)
      BY <3>2, <3>3 DEF WindowHolds
    <3>6. SpansHold(sold[k], today + 1, structuringWindow)
      <4> SUFFICES ASSUME NEW d \in 1..(today + 1), NEW e \in Days, e <= d + structuringWindow
                   PROVE  sold[k][e] - sold[k][d - 1] < 2 * SAR_THRESHOLD
        BY DEF SpansHold
      <4>1. CASE d \in 1..today
        BY <3>2, <4>1 DEF SpansHold
      <4>2. CASE d = today + 1
        <5>1. sold[k][e] <= sold[k][today] /\ d - 1 = today
          BY <2>1, <3>1, <3>2, <4>2 DEF Cumulative
        <5> QED BY <1>0, <3>1, <5>1
      <4> QED BY <2>1, <4>1, <4>2
    <3> QED BY <3>4, <3>5, <3>6 DEF KeyHolds
  <2> QED BY <2>1, <2>2, <2>3 DEF FraudInv
<1>5. CASE UNCHANGED fraudVars
  BY <1>0, <1>5 DEF fraudVars, FraudInv, FraudTypes
<1> QED BY <1>1, <1>2, <1>3, <1>4, <1>5 DEF FraudNext

(* Of each group the windows hold what they should, and so do the spans.     *)
THEOREM FraudInvHolds == FraudSpec => []FraudInv
  BY FraudStarts, FraudSteps, PTL DEF FraudSpec

(* A group that sells twice the threshold in small pieces within a span as   *)
(* long as the window is flagged, for any threshold, settings and groups,    *)
(* wherever the windows begin.                                               *)
THEOREM DoublesAreFlagged == FraudSpec => []DoubleIsFlagged
<1>1. FraudInv => DoubleIsFlagged
  <2> SUFFICES ASSUME FraudInv, NEW key \in GroupKeys, NEW d \in 1..today
               PROVE  SmallTotal(key, d) < 2 * SAR_THRESHOLD
    BY DEF DoubleIsFlagged
  <2>1. /\ today \in 1..LastTradingDay /\ structuringWindow \in Nat
        /\ SpansHold(sold[key], today, structuringWindow)
    BY DEF FraudInv, FraudTypes, KeyHolds
  <2>2. SpanEnd(d) \in Days /\ SpanEnd(d) <= d + structuringWindow
    BY <2>1, FraudAssumption DEF SpanEnd, Days
  <2> QED BY <2>1, <2>2 DEF SmallTotal, SpansHold
<1> QED BY <1>1, FraudInvHolds, PTL

-----------------------------------------------------------------------------
(* Acquisitions.  From a lot, "path" is the least set that holds it and, with *)
(* a derived lot that is not being visited, the lot it names; "Roots" are     *)
(* the purchases on it.                                                     *)

LotOrNone == Lots \cup {NoLot}

Onward(h, V, S) == \A m \in S : m \in Lots \ V /\ h[m] # NoLot /\ h[m].derived => h[m].lineage \in S

Reached(h, V, l) == {m \in LotOrNone : \A S \in SUBSET LotOrNone : l \in S /\ Onward(h, V, S) => m \in S}

Roots(h, V, l) == {k \in Reached(h, V, l) : k \in Lots \ V /\ h[k] # NoLot /\ ~h[k].derived}

(* What resolveClock computes, and what it amounts to. *)
Clock(h, g, V, l) ==
    IF l \in V \cup {NoLot} THEN 0
    ELSE IF h[l] = NoLot THEN 0
    ELSE IF ~h[l].derived THEN h[l].clock
    ELSE g[V \cup {l}][h[l].lineage]

IsClock(g, h) == g = [V \in SUBSET Lots |-> [l \in Lots \cup {NoLot} |->
                        IF l \in V \cup {NoLot} THEN 0
                        ELSE IF h[l] = NoLot THEN 0
                        ELSE IF ~h[l].derived THEN h[l].clock
                        ELSE g[V \cup {l}][h[l].lineage]]]

TheClock(h) == CHOOSE g : IsClock(g, h)

RootClock(h, V, l) ==
    IF Roots(h, V, l) = {} THEN 0 ELSE h[CHOOSE k \in Roots(h, V, l) : TRUE].clock

LEMMA ResolvedByTheClock ==
  ASSUME NEW h, NEW l
  PROVE  resolveClock(h, l) = TheClock(h)[{}][l]
BY DEF resolveClock, TheClock, IsClock

LEMMA LotsAreThere ==
  ASSUME NEW h \in Holdings, NEW l \in Lots, h[l] # NoLot
  PROVE  /\ h[l].clock \in 1..2 /\ h[l].derived \in BOOLEAN /\ h[l].lineage \in LotOrNone
         /\ ~h[l].derived => h[l].lineage = NoLot
BY DEF Holdings, Lot, LotOrNone

(* The least such set is one. *)
LEMMA ReachedIsLeast ==
  ASSUME NEW h, NEW V, NEW l \in LotOrNone
  PROVE  /\ l \in Reached(h, V, l)
         /\ \A S \in SUBSET LotOrNone : l \in S /\ Onward(h, V, S) => Reached(h, V, l) \subseteq S
BY DEF Reached

LEMMA ReachedGoesOn ==
  ASSUME NEW h \in Holdings, NEW V, NEW l \in LotOrNone
  PROVE  Reached(h, V, l) \in SUBSET LotOrNone /\ Onward(h, V, Reached(h, V, l))
<1>1. ASSUME NEW m \in Reached(h, V, l), m \in Lots \ V, h[m] # NoLot, h[m].derived
      PROVE  h[m].lineage \in Reached(h, V, l)
  <2>1. h[m].lineage \in LotOrNone
    BY <1>1, LotsAreThere
  <2>2. ASSUME NEW S \in SUBSET LotOrNone, l \in S, Onward(h, V, S) PROVE h[m].lineage \in S
    BY <1>1, <2>2 DEF Reached, Onward
  <2> QED BY <2>1, <2>2 DEF Reached
<1> QED BY <1>1 DEF Onward, Reached

(* What is being visited, and what is no lot, has no root. *)
LEMMA NoRoots ==
  ASSUME NEW h \in Holdings, NEW V \in SUBSET Lots, NEW l \in LotOrNone, l \in V \cup {NoLot} \/ h[l] = NoLot
  PROVE  Roots(h, V, l) = {}
<1>1. Onward(h, V, {l}) /\ {l} \in SUBSET LotOrNone
  BY LotsAssumption DEF Onward
<1>2. Reached(h, V, l) \subseteq {l}
  BY <1>1, ReachedIsLeast
<1> QED BY <1>2, LotsAssumption DEF Roots

(* A purchase is its own root, and the only one. *)
LEMMA PurchaseIsRoot ==
  ASSUME NEW h \in Holdings, NEW V \in SUBSET Lots, NEW l \in Lots \ V, h[l] # NoLot, ~h[l].derived
  PROVE  Roots(h, V, l) = {l}
<1>1. Onward(h, V, {l}) /\ {l} \in SUBSET LotOrNone /\ l \in LotOrNone
  BY DEF Onward, LotOrNone
<1>2. Reached(h, V, l) = {l}
  BY <1>1, ReachedIsLeast
<1> QED BY <1>2 DEF Roots

(* A derived lot has the roots of the lot it names: the way to them does not  *)
(* come back to it.                                                         *)
LEMMA DerivedHasRootsOf ==
  ASSUME NEW h \in Holdings, NEW V \in SUBSET Lots, NEW l \in Lots \ V, h[l] # NoLot, h[l].derived
  PROVE  Roots(h, V, l) = Roots(h, V \cup {l}, h[l].lineage)
<1> DEFINE next == h[l].lineage
           W == V \cup {l}
<1>1. l \in LotOrNone /\ next \in LotOrNone
  BY LotsAreThere DEF LotOrNone
<1>2. Reached(h, W, next) \subseteq Reached(h, V, l)
  <2>1. next \in Reached(h, V, l)
    BY <1>1, ReachedIsLeast, ReachedGoesOn DEF Onward
  <2>2. Onward(h, W, Reached(h, V, l)) /\ Reached(h, V, l) \in SUBSET LotOrNone
    BY <1>1, ReachedGoesOn DEF Onward
  <2> QED BY <1>1, <2>1, <2>2, ReachedIsLeast
<1>3. Reached(h, V, l) \subseteq Reached(h, W, next) \cup {l}
  <2>1. Reached(h, W, next) \in SUBSET LotOrNone /\ Onward(h, W, Reached(h, W, next)) /\ next \in Reached(h, W, next)
    BY <1>1, ReachedIsLeast, ReachedGoesOn
  <2>2. Onward(h, V, Reached(h, W, next) \cup {l})
    BY <2>1 DEF Onward
  <2> QED BY <1>1, <2>1, <2>2, ReachedIsLeast
<1> QED BY <1>2, <1>3 DEF Roots

LEMMA ClockSteps ==
  ASSUME NEW h, NEW g, IsClock(g, h), NEW V \in SUBSET Lots, NEW l \in LotOrNone
  PROVE  g[V][l] = Clock(h, g, V, l)
<1>1. g = [W \in SUBSET Lots |-> [m \in Lots \cup {NoLot} |-> Clock(h, g, W, m)]]
  BY Zenon DEF IsClock, Clock
<1>2. g[V] = [m \in Lots \cup {NoLot} |-> Clock(h, g, V, m)]
  BY <1>1
<1> QED BY <1>2 DEF LotOrNone

LEMMA RootClockIsClock ==
  ASSUME NEW h \in Holdings
  PROVE  IsClock([V \in SUBSET Lots |-> [l \in Lots \cup {NoLot} |-> RootClock(h, V, l)]], h)
<1> DEFINE g == [V \in SUBSET Lots |-> [l \in Lots \cup {NoLot} |-> RootClock(h, V, l)]]
<1>1. ASSUME NEW V \in SUBSET Lots, NEW l \in Lots \cup {NoLot}
      PROVE  RootClock(h, V, l) = Clock(h, g, V, l)
  <2>0. l \in LotOrNone
    BY DEF LotOrNone
  <2>1. CASE l \in V \cup {NoLot} \/ h[l] = NoLot
    BY <2>0, <2>1, NoRoots DEF RootClock, Clock
  <2>2. CASE l \notin V \cup {NoLot} /\ h[l] # NoLot /\ ~h[l].derived
    <3>1. Roots(h, V, l) = {l}
      BY <2>2, PurchaseIsRoot
    <3> QED BY <2>2, <3>1 DEF RootClock, Clock
  <2>3. CASE l \notin V \cup {NoLot} /\ h[l] # NoLot /\ h[l].derived
    <3>1. Roots(h, V, l) = Roots(h, V \cup {l}, h[l].lineage)
      BY <2>3, DerivedHasRootsOf
    <3>2. h[l].lineage \in Lots \cup {NoLot} /\ V \cup {l} \in SUBSET Lots
      BY <2>3, LotsAreThere DEF LotOrNone
    <3>3. g[V \cup {l}][h[l].lineage] = RootClock(h, V \cup {l}, h[l].lineage)
      BY <3>2
    <3> HIDE DEF g
    <3> QED BY <2>3, <3>1, <3>3 DEF RootClock, Clock
  <2> QED BY <2>1, <2>2, <2>3
<1>2. g = [V \in SUBSET Lots |-> [l \in Lots \cup {NoLot} |-> Clock(h, g, V, l)]]
  BY <1>1
<1> HIDE DEF g
<1>3. IsClock(g, h)
  BY <1>2, Zenon DEF IsClock, Clock
<1> QED BY <1>3 DEF g

LEMMA ClocksPartOnDerived ==
  ASSUME NEW h, NEW f, NEW g, NEW V, NEW l, Clock(h, f, V, l) # Clock(h, g, V, l)
  PROVE  /\ l \notin V \cup {NoLot} /\ h[l] # NoLot /\ h[l].derived
         /\ f[V \cup {l}][h[l].lineage] # g[V \cup {l}][h[l].lineage]
BY DEF Clock

(* The equation has one solution: the fewer lots are left to visit, the       *)
(* shorter the way.                                                         *)
LEMMA ClocksAreOne ==
  ASSUME NEW h \in Holdings, NEW f, NEW g, IsClock(f, h), IsClock(g, h), NEW l \in LotOrNone
  PROVE  f[{}][l] = g[{}][l]
<1> DEFINE Left(V) == Cardinality(Lots \ V)
           Wrong == {V \in SUBSET Lots : \E m \in LotOrNone : f[V][m] # g[V][m]}
<1>0. ASSUME NEW V \in SUBSET Lots, NEW m \in LotOrNone
      PROVE  f[V][m] = Clock(h, f, V, m) /\ g[V][m] = Clock(h, g, V, m)
  BY ClockSteps
<1>1. SUFFICES ASSUME Wrong # {} PROVE FALSE
  OBVIOUS
<1>2. \A V \in SUBSET Lots : Left(V) \in Nat /\ IsFiniteSet(Lots \ V)
  BY LotsAssumption, FS_Difference, FS_CardinalityType
<1>3. PICK V \in Wrong : \A W \in Wrong : Left(V) <= Left(W)
  <2> DEFINE sizes == {Left(V) : V \in Wrong}
  <2>1. sizes \subseteq Nat /\ sizes # {}
    BY <1>1, <1>2
  <2> HIDE DEF sizes
  <2>2. PICK n \in sizes : \A m \in sizes : n <= m
    BY <2>1, LeastNatural
  <2> QED BY <2>2 DEF sizes
<1>4. PICK m \in LotOrNone : f[V][m] # g[V][m]
  OBVIOUS
<1>5. /\ m \notin V \cup {NoLot} /\ h[m] # NoLot /\ h[m].derived
      /\ f[V \cup {m}][h[m].lineage] # g[V \cup {m}][h[m].lineage]
  <2>1. V \in SUBSET Lots
    OBVIOUS
  <2>2. Clock(h, f, V, m) # Clock(h, g, V, m)
    BY <1>0, <1>4, <2>1
  <2> QED BY <2>2, ClocksPartOnDerived
<1>6. m \in Lots \ V /\ h[m].lineage \in LotOrNone
  BY <1>5, LotsAreThere DEF LotOrNone
<1>7. V \cup {m} \in Wrong
  BY <1>5, <1>6
<1>8. V \in SUBSET Lots /\ V \cup {m} \in SUBSET Lots
  BY <1>6
<1>9. Lots \ (V \cup {m}) = (Lots \ V) \ {m}
  OBVIOUS
<1>10. Left(V \cup {m}) = Left(V) - 1
  <2> DEFINE rest == Lots \ V
  <2>1. IsFiniteSet(rest) /\ m \in rest /\ Lots \ (V \cup {m}) = rest \ {m}
    BY <1>2, <1>6, <1>8, <1>9
  <2> HIDE DEF rest
  <2>2. Cardinality(rest \ {m}) = Cardinality(rest) - 1
    BY <2>1, FS_RemoveElement, Zenon
  <2>3. Left(V \cup {m}) = Cardinality(rest \ {m})
    BY <2>1
  <2> QED BY <2>2, <2>3 DEF rest
<1>11. Left(V) \in Nat /\ Left(V) <= Left(V \cup {m})
  BY <1>2, <1>3, <1>7, <1>8
<1> QED BY <1>10, <1>11

LEMMA ResolvesToRoot ==
  ASSUME NEW h \in Holdings, NEW l \in Lots
  PROVE  resolveClock(h, l) = RootClock(h, {}, l)
<1> DEFINE g == [V \in SUBSET Lots |-> [m \in Lots \cup {NoLot} |-> RootClock(h, V, m)]]
<1>1. IsClock(g, h) /\ g[{}][l] = RootClock(h, {}, l)
  BY RootClockIsClock
<1> HIDE DEF g
<1>2. IsClock(TheClock(h), h)
  BY <1>1, Zenon DEF TheClock
<1>3. l \in LotOrNone
  BY DEF LotOrNone
<1>4. TheClock(h)[{}][l] = g[{}][l]
  BY <1>1, <1>2, <1>3, ClocksAreOne
<1> QED BY <1>1, <1>4, ResolvedByTheClock

(* The purchases among the ancestors are the roots. *)
LEMMA AncestryHasTheRoots ==
  ASSUME lots \in Holdings, NEW l \in Lots
  PROVE  {k \in Ancestry(l) \cap {m \in Lots : lots[m] # NoLot} : ~lots[k].derived} = Roots(lots, {}, l)
<1>0. l \in LotOrNone
  BY DEF LotOrNone
<1>1. ASSUME NEW k \in Roots(lots, {}, l)
      PROVE  k \in Ancestry(l) /\ k \in Lots /\ lots[k] # NoLot /\ ~lots[k].derived
  <2>1. ASSUME NEW S \in SUBSET (Lots \cup {NoLot}), l \in S, ClosedUnderLineage(S) PROVE k \in S
    <3>1. Onward(lots, {}, S) /\ S \in SUBSET LotOrNone
      BY <2>1 DEF Onward, ClosedUnderLineage, LotOrNone
    <3> QED BY <1>0, <2>1, <3>1, ReachedIsLeast DEF Roots
  <2> QED BY <2>1 DEF Roots, Ancestry
<1>2. ASSUME NEW k \in Ancestry(l), lots[k] # NoLot, ~lots[k].derived
      PROVE  k \in Roots(lots, {}, l)
  <2> DEFINE S == Reached(lots, {}, l) \cup {NoLot}
  <2>1. Onward(lots, {}, Reached(lots, {}, l)) /\ Reached(lots, {}, l) \in SUBSET LotOrNone
    BY <1>0, ReachedGoesOn
  <2>2. ASSUME NEW m \in S \cap Lots, lots[m] # NoLot PROVE lots[m].lineage \in S
    BY <2>1, <2>2, LotsAreThere, LotsAssumption DEF Onward
  <2>3. S \in SUBSET (Lots \cup {NoLot}) /\ l \in S
    BY <1>0, <2>1, ReachedIsLeast DEF LotOrNone
  <2>4. k \in S
    BY <2>2, <2>3 DEF Ancestry, ClosedUnderLineage
  <2>5. k \in Lots /\ k # NoLot
    BY LotsAssumption DEF Ancestry
  <2> QED BY <1>2, <2>4, <2>5 DEF Roots
<1> QED BY <1>1, <1>2 DEF Ancestry

LEMMA CompiledClock == lots \in Holdings => ClockIsThatOfPurchases
<1> SUFFICES ASSUME lots \in Holdings PROVE ClockIsThatOfPurchases
  OBVIOUS
<1> DEFINE present == {l \in Lots : lots[l] # NoLot}
           roots(l) == {k \in Ancestry(l) \cap present : ~lots[k].derived}
           clocks == {resolveClock(lots, l) : l \in present}
           purchases == {lots[k].clock : k \in UNION {roots(l) : l \in present}}
<1>1. \A l \in present : roots(l) = Roots(lots, {}, l)
  BY AncestryHasTheRoots
<1>2. \A l \in present : \A k \in roots(l) : k \in present /\ ~lots[k].derived
  OBVIOUS
<1> HIDE DEF roots
<1>3. \A l \in present : resolveClock(lots, l) =
          IF roots(l) = {} THEN 0 ELSE lots[CHOOSE k \in roots(l) : TRUE].clock
  BY <1>1, ResolvesToRoot DEF RootClock
<1>4. \A l \in present : lots[l].clock \in 1..2
  BY LotsAreThere
<1>5. 0 \in clocks <=> \E l \in present : roots(l) = {}
  BY <1>2, <1>3, <1>4
<1>6. ASSUME 0 \notin clocks PROVE clocks = purchases
  <2>1. ASSUME NEW l \in present PROVE resolveClock(lots, l) \in purchases
    <3>1. roots(l) # {}
      BY <1>5, <1>6
    <3> DEFINE k == CHOOSE k \in roots(l) : TRUE
    <3>2. k \in roots(l)
      BY <3>1
    <3> HIDE DEF k
    <3>3. resolveClock(lots, l) = lots[k].clock
      BY <1>3, <3>1 DEF k
    <3> QED BY <3>2, <3>3
  <2>2. ASSUME NEW l \in present, NEW k \in roots(l) PROVE lots[k].clock \in clocks
    <3>1. k \in present /\ ~lots[k].derived /\ k \in Lots \ {}
      BY <1>2
    <3>2. Roots(lots, {}, k) = {k}
      BY <3>1, PurchaseIsRoot
    <3>3. resolveClock(lots, k) = lots[k].clock
      BY <3>1, <3>2, ResolvesToRoot DEF RootClock
    <3> QED BY <3>1, <3>3
  <2> QED BY <2>1, <2>2
<1>7. compile(lots) = IF present = {} THEN [status |-> "MISSING", clockStart |-> 0]
                      ELSE IF 0 \in clocks THEN [status |-> "LINEAGE_BROKEN", clockStart |-> 0]
                      ELSE [status |-> "VALID", clockStart |-> Max(clocks)]
  BY DEF compile
<1>8. ClockIsThatOfPurchases <=>
        /\ compile(lots).status = "VALID" <=> present # {} /\ \A l \in present : roots(l) # {}
        /\ compile(lots).status = "VALID" => compile(lots).clockStart = Max(purchases)
  BY Zenon DEF ClockIsThatOfPurchases, roots
<1> HIDE DEF present, clocks, purchases
<1> QED BY <1>5, <1>6, <1>7, <1>8

(* For any finite set of lots, a snapshot is valid exactly when every lot     *)
(* descends from a purchase, and starts the latest of the purchases' clocks. *)
THEOREM ClocksAreOfPurchases == AcquisitionSpec => []ClockIsThatOfPurchases
<1>1. AcquisitionInit => lots \in Holdings
  BY DEF AcquisitionInit, Holdings
<1>2. lots \in Holdings /\ [AcquisitionNext]_lots => (lots \in Holdings)'
  BY DEF AcquisitionNext, Book
<1> QED BY <1>1, <1>2, CompiledClock, PTL DEF AcquisitionSpec

-----------------------------------------------------------------------------
(* PersonGroups.  The calendar first: the months follow each other and cover *)
(* the days, so that no window starts on an earlier day than that of the day   *)
(* before, although it may start at an earlier moment of that day.           *)

LEMMA MonthLengths == \A m \in Nat : MonthLength(m) \in 28..31
BY DEF MonthLength

IsCalendar(g, n) == g = [m \in 0..n |-> IF m = 0 THEN 0 ELSE g[m - 1] + MonthLength(m - 1)]

LEMMA CalendarExists == \A n \in Nat : \E g : IsCalendar(g, n)
<1> DEFINE Bad == {n \in Nat : ~ \E g : IsCalendar(g, n)}
<1>1. SUFFICES ASSUME Bad # {} PROVE FALSE
  OBVIOUS
<1>2. PICK n \in Bad : \A m \in Bad : n <= m
  BY <1>1, LeastNatural
<1>3. n # 0
  <2>1. SUFFICES ASSUME n = 0 PROVE FALSE
    OBVIOUS
  <2> DEFINE g == [m \in 0..0 |-> 0]
  <2>2. g = [m \in 0..0 |-> IF m = 0 THEN 0 ELSE g[m - 1] + MonthLength(m - 1)]
    OBVIOUS
  <2>3. IsCalendar(g, 0)
    BY <2>2 DEF IsCalendar
  <2> QED BY <2>1, <2>3
<1>4. PICK h : IsCalendar(h, n - 1)
  <2>1. n - 1 \in Nat /\ n - 1 \notin Bad
    BY <1>2, <1>3
  <2> QED BY <2>1
<1> DEFINE g == [m \in 0..n |-> IF m = 0 THEN 0 ELSE h[m - 1] + MonthLength(m - 1)]
<1>5. ASSUME NEW m \in 0..n
      PROVE  g[m] = IF m = 0 THEN 0 ELSE g[m - 1] + MonthLength(m - 1)
  <2>1. CASE m = 0
    BY <2>1
  <2>2. CASE m # 0
    <3>1. m - 1 \in 0..(n - 1) /\ m - 1 \in 0..n
      BY <2>2
    <3>2. h[m - 1] = IF m - 1 = 0 THEN 0 ELSE h[m - 1 - 1] + MonthLength(m - 1 - 1)
      BY <1>4, <3>1 DEF IsCalendar
    <3>3. g[m - 1] = h[m - 1]
      BY <3>1, <3>2
    <3>4. g[m] = h[m - 1] + MonthLength(m - 1)
      BY <2>2
    <3> QED BY <2>2, <3>3, <3>4
  <2> QED BY <2>1, <2>2
<1>6. g = [m \in 0..n |-> g[m]]
  OBVIOUS
<1> HIDE DEF g
<1>7. IsCalendar(g, n)
  BY <1>5, <1>6, Zenon DEF IsCalendar
<1> QED BY <1>2, <1>7

LastMonth == LastDay \div 28 + 1

LEMMA MonthsFollow ==
  /\ LastMonth \in Nat /\ LastMonth >= 4
  /\ FirstDay[0] = 0
  /\ \A m \in 0..(LastMonth - 1) : FirstDay[m + 1] = FirstDay[m] + MonthLength(m)
<1>1. LastMonth \in Nat /\ LastMonth >= 4
  BY GroupsAssumption DEF LastMonth
<1>2. PICK g : IsCalendar(g, LastMonth)
  BY <1>1, CalendarExists
<1>3. IsCalendar(FirstDay, LastMonth)
  BY <1>2, Zenon DEF FirstDay, IsCalendar, LastMonth
<1> DEFINE F == FirstDay
<1> HIDE DEF F
<1>4. F = [m \in 0..LastMonth |-> IF m = 0 THEN 0 ELSE F[m - 1] + MonthLength(m - 1)]
  BY <1>3 DEF IsCalendar, F
<1> HIDE DEF LastMonth
<1>5. F[0] = 0
  BY <1>1, <1>4
<1>6. ASSUME NEW m \in 0..(LastMonth - 1) PROVE F[m + 1] = F[m] + MonthLength(m)
  <2>1. m + 1 \in 0..LastMonth /\ m + 1 # 0 /\ (m + 1) - 1 = m
    BY <1>1
  <2>2. F[m + 1] = F[(m + 1) - 1] + MonthLength((m + 1) - 1)
    BY <1>4, <2>1
  <2> QED BY <2>1, <2>2
<1> QED BY <1>1, <1>5, <1>6 DEF F

LEMMA MonthsGrow ==
  /\ \A m \in 0..LastMonth : FirstDay[m] \in Nat /\ FirstDay[m] >= 28 * m
  /\ \A m, n \in 0..LastMonth : m < n => FirstDay[m] + MonthLength(m) <= FirstDay[n]
<1> DEFINE Good(n) == /\ FirstDay[n] \in Nat /\ FirstDay[n] >= 28 * n
                      /\ \A m \in 0..(n - 1) : FirstDay[m] + MonthLength(m) <= FirstDay[n]
           Bad == {n \in 0..LastMonth : ~ Good(n)}
<1>1. SUFFICES ASSUME Bad # {} PROVE FALSE
  <2>1. \A n \in 0..LastMonth : Good(n)
    BY <1>1
  <2>2. \A m, n \in 0..LastMonth : m < n => m \in 0..(n - 1)
    BY MonthsFollow
  <2> QED BY <2>1, <2>2
<1>2. PICK n \in Bad : \A m \in Bad : n <= m
  <2>1. Bad \subseteq Nat
    BY MonthsFollow
  <2> HIDE DEF Bad
  <2> QED BY <1>1, <2>1, LeastNatural
<1>3. n \in 0..LastMonth /\ ~Good(n) /\ n \in Nat
  BY <1>2, MonthsFollow
<1>4. n # 0
  BY <1>3, MonthsFollow
<1> DEFINE p == n - 1
<1>5. p \in 0..(LastMonth - 1) /\ p \in 0..LastMonth /\ p \in Nat /\ p + 1 = n /\ p < n
  BY <1>3, <1>4, MonthsFollow
<1>6. Good(p)
  <2>1. p \notin Bad
    BY <1>2, <1>5
  <2> QED BY <1>5, <2>1
<1>7. FirstDay[n] = FirstDay[p] + MonthLength(p)
  BY <1>5, MonthsFollow
<1>8. MonthLength(p) \in 28..31
  BY <1>5, MonthLengths
<1> HIDE DEF p
<1>9. FirstDay[n] \in Nat /\ FirstDay[n] >= 28 * n
  BY <1>5, <1>6, <1>7, <1>8
<1>10. ASSUME NEW m \in 0..(n - 1) PROVE FirstDay[m] + MonthLength(m) <= FirstDay[n]
  <2>1. CASE m = p
    BY <1>6, <1>7, <1>8, <2>1
  <2>2. CASE m # p
    <3>1. m \in 0..(p - 1)
      BY <1>5, <2>2
    <3>2. m \in Nat /\ m < n /\ m \in 0..LastMonth
      BY <1>3, MonthsFollow
    <3>5. m \notin Bad
      BY <1>2, <1>3, <3>2
    <3>3. FirstDay[m] \in Nat /\ MonthLength(m) \in 28..31
      BY <3>2, <3>5, MonthLengths
    <3>4. FirstDay[m] + MonthLength(m) <= FirstDay[p]
      BY <1>6, <3>1
    <3> QED BY <1>6, <1>7, <1>8, <3>3, <3>4
  <2> QED BY <2>1, <2>2
<1> QED BY <1>3, <1>9, <1>10

(* Every day is a day of a month.                                           *)
LEMMA DaysHaveMonths ==
  ASSUME NEW d \in 0..LastDay
  PROVE  /\ MonthOf(d) \in 0..(LastMonth - 1)
         /\ FirstDay[MonthOf(d)] <= d /\ d < FirstDay[MonthOf(d) + 1]
<1> DEFINE T == {m \in 0..(d \div 28) : d < FirstDay[m + 1]}
<1>1. d \in Nat /\ d \div 28 \in Nat /\ d < 28 * (d \div 28 + 1) /\ d \div 28 <= LastMonth - 1
  BY GroupsAssumption DEF LastMonth
<1>2. LastMonth \in Nat /\ LastMonth >= 4
  BY MonthsFollow
<1> DEFINE q == d \div 28
<1> HIDE DEF q
<1>3. q \in Nat /\ d < 28 * (q + 1) /\ q + 1 \in 0..LastMonth
  BY <1>1, <1>2 DEF q
<1>4. d < FirstDay[q + 1]
  BY <1>1, <1>3, MonthsGrow
<1>5. T \subseteq Nat /\ T # {}
  BY <1>3, <1>4 DEF q
<1>6. PICK m \in T : \A k \in T : m <= k
  <2> HIDE DEF T
  <2> QED BY <1>5, LeastNatural
<1>7. m \in 0..q /\ d < FirstDay[m + 1]
  BY DEF q
<1>8. FirstDay[m] <= d
  <2>1. CASE m = 0
    BY <1>1, <2>1, MonthsFollow
  <2>2. CASE m # 0
    <3>1. m - 1 \in 0..q /\ m - 1 \notin T /\ m - 1 + 1 = m
      BY <1>3, <1>6, <1>7, <2>2
    <3>2. ~ (d < FirstDay[m])
      BY <3>1 DEF q
    <3>3. m \in 0..LastMonth
      BY <1>2, <1>3, <1>7
    <3>4. FirstDay[m] \in Nat
      BY <3>3, MonthsGrow
    <3> QED BY <1>1, <3>2, <3>4
  <2> QED BY <2>1, <2>2
<1>9. MonthOf(d) \in 0..q /\ FirstDay[MonthOf(d)] <= d /\ d < FirstDay[MonthOf(d) + 1]
  <2>1. \E k \in 0..q : FirstDay[k] <= d /\ d < FirstDay[k + 1]
    BY <1>7, <1>8
  <2>2. MonthOf(d) = CHOOSE k \in 0..q : FirstDay[k] <= d /\ d < FirstDay[k + 1]
    BY Zenon DEF MonthOf, q
  <2> QED BY <2>1, <2>2
<1> QED BY <1>1, <1>2, <1>3, <1>9 DEF q

LEMMA SmallerOfTwo ==
  ASSUME NEW a \in Int, NEW b \in Int
  PROVE  Min({a, b}) = IF a <= b THEN a ELSE b
BY DEF Min

(* Where the window of a day starts, from its month and its day of it.      *)
LEMMA WindowStarts ==
  ASSUME NEW d \in FirstAsOf..LastDay
  PROVE  LET m == MonthOf(d) IN
         /\ m \in 3..(LastMonth - 1) /\ d \in 0..LastDay
         /\ DayOfMonth(d) \in 1..31 /\ d = FirstDay[m] + DayOfMonth(d) - 1
         /\ windowDay[d] = FirstDay[m - 3] + Min({DayOfMonth(d), MonthLength(m - 3)}) - 1
<1> DEFINE m == MonthOf(d)
<1>0. LastMonth \in Nat /\ LastMonth >= 4 /\ 3 \in 0..LastMonth
  BY MonthsFollow
<1>1. FirstAsOf \in Nat /\ d \in 0..LastDay /\ FirstAsOf = FirstDay[3]
  BY <1>0, GroupsAssumption, MonthsGrow DEF FirstAsOf
<1>2. m \in 0..(LastMonth - 1) /\ FirstDay[m] <= d /\ d < FirstDay[m + 1]
  BY <1>1, DaysHaveMonths
<1> HIDE DEF m
<1>3. FirstDay[m + 1] = FirstDay[m] + MonthLength(m) /\ MonthLength(m) \in 28..31
  BY <1>0, <1>2, MonthsFollow, MonthLengths
<1>4. m \in 0..LastMonth /\ m + 1 \in 0..LastMonth /\ FirstDay[m] \in Nat /\ FirstDay[m + 1] \in Nat
  BY <1>0, <1>2, MonthsGrow
<1>5. m >= 3
  <2>1. SUFFICES ASSUME m + 1 <= 3 PROVE FALSE
    BY <1>2
  <2>2. FirstDay[m + 1] <= FirstDay[3]
    <3>1. CASE m + 1 = 3
      BY <1>1, <3>1
    <3>2. CASE m + 1 < 3
      <4>1. FirstDay[m + 1] + MonthLength(m + 1) <= FirstDay[3]
        BY <1>0, <1>4, <3>2, MonthsGrow
      <4>2. MonthLength(m + 1) \in 28..31
        BY <1>4, MonthLengths
      <4> QED BY <1>1, <1>4, <4>1, <4>2
    <3> QED BY <1>2, <2>1, <3>1, <3>2
  <2> QED BY <1>1, <1>2, <1>4, <2>2
<1>6. DayOfMonth(d) = d - FirstDay[m] + 1
  BY DEF DayOfMonth, m
<1>7. DayOfMonth(d) \in 1..31 /\ d = FirstDay[m] + DayOfMonth(d) - 1
  BY <1>1, <1>2, <1>3, <1>4, <1>6
<1>8. windowDay[d] = FirstDay[m - 3] + Min({DayOfMonth(d), MonthLength(m - 3)}) - 1
  BY DEF windowDay, clampedDay, m
<1> QED BY <1>0, <1>1, <1>2, <1>5, <1>7, <1>8 DEF m

(* No window starts on a day before that of an earlier day's.               *)
LEMMA WindowsMoveOn ==
  ASSUME NEW d \in FirstAsOf..LastDay, NEW e \in FirstAsOf..LastDay, d <= e
  PROVE  windowDay[d] \in Nat /\ windowDay[e] \in Nat /\ windowDay[d] <= windowDay[e]
<1> DEFINE m == MonthOf(d)  n == MonthOf(e)
           a == DayOfMonth(d)  b == DayOfMonth(e)
<1>1. /\ m \in 3..(LastMonth - 1) /\ a \in 1..31 /\ d = FirstDay[m] + a - 1 /\ d \in 0..LastDay
      /\ windowDay[d] = FirstDay[m - 3] + Min({a, MonthLength(m - 3)}) - 1
      /\ n \in 3..(LastMonth - 1) /\ b \in 1..31 /\ e = FirstDay[n] + b - 1 /\ e \in 0..LastDay
      /\ windowDay[e] = FirstDay[n - 3] + Min({b, MonthLength(n - 3)}) - 1
  BY WindowStarts
<1>2. d < FirstDay[m + 1] /\ d >= FirstDay[m] /\ e < FirstDay[n + 1] /\ e >= FirstDay[n]
  BY <1>1, DaysHaveMonths
<1> HIDE DEF m, n, a, b
<1>3. LastMonth \in Nat
  BY MonthsFollow
<1>4. /\ {m - 3, n - 3, m, n, m + 1, n + 1} \subseteq 0..LastMonth
      /\ m \in Nat /\ n \in Nat
  BY <1>1, <1>3
<1>5. /\ FirstDay[m - 3] \in Nat /\ FirstDay[n - 3] \in Nat /\ FirstDay[m] \in Nat /\ FirstDay[n] \in Nat
      /\ FirstDay[m + 1] \in Nat /\ FirstDay[n + 1] \in Nat
  BY <1>4, MonthsGrow
<1>6. MonthLength(m - 3) \in 28..31 /\ MonthLength(n - 3) \in 28..31
  BY <1>1, MonthLengths
<1>7. /\ Min({a, MonthLength(m - 3)}) = IF a <= MonthLength(m - 3) THEN a ELSE MonthLength(m - 3)
      /\ Min({b, MonthLength(n - 3)}) = IF b <= MonthLength(n - 3) THEN b ELSE MonthLength(n - 3)
  BY <1>1, <1>6, SmallerOfTwo
<1>8. windowDay[d] \in Nat /\ windowDay[e] \in Nat
  BY <1>1, <1>5, <1>6, <1>7
<1>9. CASE m = n
  <2>1. a <= b
    BY <1>1, <1>5, <1>9
  <2> QED BY <1>1, <1>5, <1>6, <1>7, <1>8, <1>9, <2>1
<1>10. CASE m < n
  <2>1. FirstDay[m - 3] + MonthLength(m - 3) <= FirstDay[n - 3]
    BY <1>4, <1>10, MonthsGrow
  <2> QED BY <1>1, <1>5, <1>6, <1>7, <1>8, <2>1
<1>11. CASE n < m
  <2>1. FirstDay[n + 1] <= FirstDay[m]
    <3>1. CASE n + 1 = m
      BY <1>5, <3>1
    <3>2. CASE n + 1 < m
      <4>1. FirstDay[n + 1] + MonthLength(n + 1) <= FirstDay[m]
        BY <1>4, <3>2, MonthsGrow
      <4>2. MonthLength(n + 1) \in 28..31
        BY <1>4, MonthLengths
      <4> QED BY <1>5, <4>1, <4>2
    <3> QED BY <1>4, <1>11, <3>1, <3>2
  <2>2. d \in Nat /\ e \in Nat
    BY <1>1, GroupsAssumption
  <2> QED BY <1>2, <1>5, <2>1, <2>2
<1> QED BY <1>4, <1>9, <1>10, <1>11

-----------------------------------------------------------------------------
(* Each execution has a place of its own in the volumes, and each place is   *)
(* that of an execution.                                                    *)
IsPlacing(place) ==
    /\ place \in [DOMAIN commits -> DOMAIN volumes]
    /\ \A x, y \in DOMAIN commits : place[x] = place[y] => x = y
    /\ \A i \in DOMAIN volumes : \E x \in DOMAIN commits : place[x] = i
    /\ \A x \in DOMAIN commits : volumes[place[x]] = commits[x]

GroupsInv ==
    /\ asOf.day \in FirstAsOf..LastDay /\ asOf.moment \in Nat
    /\ volumes \in Seq(Input)
    /\ IsFiniteSet(DOMAIN commits) /\ commits \in [DOMAIN commits -> Input]
    /\ \E place : IsPlacing(place)

LEMMA FirstAsOfIsDay == FirstAsOf \in Nat /\ FirstAsOf <= LastDay
<1>1. /\ LastMonth \in Nat /\ LastMonth >= 4 /\ {0, 1, 2} \subseteq 0..(LastMonth - 1)
      /\ FirstDay[0] = 0
  BY MonthsFollow
<1>2. FirstDay[0 + 1] = FirstDay[0] + MonthLength(0)
  BY <1>1, MonthsFollow
<1>3. FirstDay[1 + 1] = FirstDay[1] + MonthLength(1)
  BY <1>1, MonthsFollow
<1>4. FirstDay[2 + 1] = FirstDay[2] + MonthLength(2)
  BY <1>1, MonthsFollow
<1>5. MonthLength(0) = 31 /\ MonthLength(1) = 28 /\ MonthLength(2) = 31
  BY DEF MonthLength
<1>6. FirstDay[3] = 90
  BY <1>1, <1>2, <1>3, <1>4, <1>5
<1> QED BY <1>6, GroupsAssumption DEF FirstAsOf

LEMMA GroupsStart == GroupsInit => GroupsInv
<1> SUFFICES ASSUME GroupsInit PROVE GroupsInv
  OBVIOUS
<1>1. DOMAIN commits = {} /\ DOMAIN volumes = {} /\ volumes = <<>>
  BY DEF GroupsInit
<1>3. asOf.day \in FirstAsOf..LastDay /\ asOf.moment \in Nat
  <2>1. asOf \in [day: FirstAsOf..LastDay, moment: Moments]
    BY DEF GroupsInit
  <2>2. Moments \subseteq Nat
    BY GroupsAssumption DEF Moments
  <2> QED BY <2>1, <2>2
<1>4. volumes \in Seq(Input)
  BY <1>1
<1>5. IsFiniteSet(DOMAIN commits) /\ commits \in [DOMAIN commits -> Input]
  <2>1. commits = [x \in DOMAIN commits |-> commits[x]]
    BY DEF GroupsInit
  <2> QED BY <1>1, <2>1, FS_EmptySet
<1>6. IsPlacing([x \in {} |-> 0])
  BY <1>1 DEF IsPlacing
<1> QED BY <1>3, <1>4, <1>5, <1>6 DEF GroupsInv

LEMMA GroupsSteps == GroupsInv /\ [GroupsNext]_groupVars => GroupsInv'
<1> SUFFICES ASSUME GroupsInv, [GroupsNext]_groupVars PROVE GroupsInv'
  OBVIOUS
<1>0. PICK place : IsPlacing(place)
  BY DEF GroupsInv
<1>1. ASSUME NEW x \in Executions, NEW input \in Input, Commit(x, input) PROVE GroupsInv'
  <2> DEFINE dom == DOMAIN commits
             n == Len(volumes)
  <2>1. /\ x \notin dom /\ volumes' = Append(volumes, input) /\ asOf' = asOf
        /\ commits' = [y \in dom \cup {x} |-> IF y = x THEN input ELSE commits[y]]
    BY <1>1 DEF Commit, isNew
  <2>2. /\ volumes \in Seq(Input) /\ asOf.day \in FirstAsOf..LastDay /\ asOf.moment \in Nat
        /\ IsFiniteSet(dom) /\ commits \in [dom -> Input]
    BY DEF GroupsInv
  <2>3. /\ n \in Nat /\ DOMAIN volumes = 1..n /\ volumes' \in Seq(Input) /\ DOMAIN volumes' = 1..(n + 1)
        /\ volumes'[n + 1] = input /\ \A i \in 1..n : volumes'[i] = volumes[i]
    BY <2>1, <2>2
  <2> HIDE DEF n
  <2>4. DOMAIN commits' = dom \cup {x} /\ commits' \in [dom \cup {x} -> Input] /\ IsFiniteSet(dom \cup {x})
    BY <2>1, <2>2, FS_AddElement
  <2>5. /\ place \in [dom -> 1..n]
        /\ \A y, z \in dom : place[y] = place[z] => y = z
        /\ \A i \in 1..n : \E y \in dom : place[y] = i
        /\ \A y \in dom : volumes[place[y]] = commits[y]
    BY <1>0, <2>3 DEF IsPlacing
  <2> DEFINE longer == [y \in dom \cup {x} |-> IF y = x THEN n + 1 ELSE place[y]]
  <2>6. longer \in [dom \cup {x} -> 1..(n + 1)]
    BY <2>3, <2>5
  <2>7. \A y \in dom : longer[y] = place[y] /\ place[y] \in 1..n /\ commits'[y] = commits[y]
    BY <2>1, <2>5
  <2>8. longer[x] = n + 1 /\ commits'[x] = input
    BY <2>1
  <2>14. PICK next : next = longer
    OBVIOUS
  <2> HIDE DEF longer, dom
  <2>9. ASSUME NEW y \in dom \cup {x}, NEW z \in dom \cup {x}, next[y] = next[z] PROVE y = z
    <3>1. n + 1 \notin 1..n
      BY <2>3
    <3> QED BY <2>5, <2>7, <2>8, <2>9, <2>14, <3>1
  <2>10. ASSUME NEW i \in 1..(n + 1) PROVE \E y \in dom \cup {x} : next[y] = i
    <3>1. i \in 1..n \/ i = n + 1
      BY <2>3
    <3> QED BY <2>5, <2>7, <2>8, <2>14, <3>1
  <2>11. ASSUME NEW y \in dom \cup {x} PROVE volumes'[next[y]] = commits'[y]
    BY <2>3, <2>5, <2>7, <2>8, <2>14
  <2>12. IsPlacing(next)'
    BY <2>3, <2>4, <2>6, <2>9, <2>10, <2>11, <2>14 DEF IsPlacing
  <2>13. (\E p : IsPlacing(p))'
    BY <2>12
  <2> QED BY <2>1, <2>2, <2>3, <2>4, <2>13 DEF GroupsInv
<1>2. CASE NextMoment
  <2>0. asOf.day \in FirstAsOf..LastDay /\ asOf.moment \in Nat /\ LastDay \in Nat
    BY GroupsAssumption DEF GroupsInv
  <2>1. /\ commits' = commits /\ volumes' = volumes /\ asOf.day < LastDay
        /\ \/ asOf' = [day |-> asOf.day, moment |-> asOf.moment + 1]
           \/ asOf' = [day |-> asOf.day + 1, moment |-> 0]
    BY <1>2 DEF NextMoment
  <2>2. asOf'.day \in FirstAsOf..LastDay /\ asOf'.moment \in Nat
    <3>1. CASE asOf' = [day |-> asOf.day, moment |-> asOf.moment + 1]
      BY <2>0, <3>1
    <3>2. CASE asOf' = [day |-> asOf.day + 1, moment |-> 0]
      <4>1. asOf'.day = asOf.day + 1 /\ asOf'.moment = 0
        BY <3>2
      <4> QED BY <2>0, <2>1, <4>1, FirstAsOfIsDay
    <3> QED BY <2>1, <3>1, <3>2
  <2>3. IsPlacing(place)'
    BY <1>0, <2>1 DEF IsPlacing
  <2> QED BY <2>1, <2>2, <2>3 DEF GroupsInv
<1>3. CASE UNCHANGED groupVars
  <2>1. IsPlacing(place)'
    BY <1>0, <1>3 DEF IsPlacing, groupVars
  <2> QED BY <1>3, <2>1 DEF GroupsInv, groupVars
<1> QED BY <1>1, <1>2, <1>3 DEF GroupsNext

(* Not to have been left behind by a day's window is what the last window    *)
(* says: the days on which windows start only move on.                       *)
LEMMA StaysIsInWindow ==
  ASSUME GroupsInv, NEW s \in SaleDays, s <= asOf.day
  PROVE  (\A d \in s..asOf.day : d >= FirstAsOf => windowDay[d] <= s) <=> windowDay[asOf.day] <= s
<1>1. asOf.day \in FirstAsOf..LastDay /\ s \in 0..LastDay /\ LastDay \in Nat
  BY GroupsAssumption DEF GroupsInv
<1>2. FirstAsOf \in Nat
  BY MonthsFollow, MonthsGrow DEF FirstAsOf
<1>3. ASSUME NEW d \in s..asOf.day, d >= FirstAsOf, windowDay[asOf.day] <= s PROVE windowDay[d] <= s
  <2>1. d \in FirstAsOf..LastDay /\ d <= asOf.day
    BY <1>1, <1>2, <1>3
  <2>2. windowDay[d] \in Nat /\ windowDay[asOf.day] \in Nat /\ windowDay[d] <= windowDay[asOf.day]
    BY <1>1, <2>1, WindowsMoveOn
  <2> QED BY <1>1, <1>3, <2>2
<1>4. asOf.day \in s..asOf.day /\ asOf.day >= FirstAsOf
  BY <1>1, <1>2
<1> QED BY <1>3, <1>4

LEMMA VolumesCount == GroupsInv => VolumeCountsExecutions
<1> DEFINE counts(g, x) ==
             LET when == commits[x].timestamp IN
             /\ commits[x].group = g /\ AtOrBefore(when, asOf)
             /\ \A d \in when.day..asOf.day : d >= FirstAsOf => windowDay[d] <= when.day
             /\ windowDay[asOf.day] = when.day => asOf.moment <= when.moment
<1> SUFFICES ASSUME GroupsInv, NEW g \in Groups
             PROVE  rollingThreeCalendarMonthVolume(g, asOf)
                      = SumFunction([x \in {y \in DOMAIN commits : counts(g, y)} |-> commits[x].amount])
  BY DEF VolumeCountsExecutions
<1> DEFINE inWindow == {x \in DOMAIN commits : counts(g, x)}
           In(p) == /\ p.group = g
                    /\ AtOrBefore(threeCalendarMonthsBefore(asOf), p.timestamp)
                    /\ AtOrBefore(p.timestamp, asOf)
           places == {j \in DOMAIN volumes : In(volumes[j])}
           f == [x \in inWindow |-> commits[x].amount]
           h == [i \in places |-> volumes[i].amount]
<1>0. PICK place : IsPlacing(place)
  BY DEF GroupsInv
<1>1. /\ volumes \in Seq(Input) /\ IsFiniteSet(DOMAIN commits) /\ commits \in [DOMAIN commits -> Input]
      /\ asOf.day \in FirstAsOf..LastDay /\ asOf.moment \in Nat
  BY DEF GroupsInv
<1>2. ASSUME NEW x \in DOMAIN commits
      PROVE  /\ commits[x].timestamp.day \in SaleDays /\ commits[x].timestamp.moment \in Nat
             /\ commits[x].amount \in Int
  <2>1. commits[x] \in Input
    BY <1>1
  <2> QED BY <2>1 DEF Input, Moments
<1>3. ASSUME NEW i \in DOMAIN volumes PROVE volumes[i].amount \in Int
  <2>1. volumes[i] \in Input
    BY <1>1
  <2> QED BY <2>1 DEF Input
<1>4. ASSUME NEW x \in DOMAIN commits PROVE x \in inWindow <=> In(commits[x])
  <2> DEFINE s == commits[x].timestamp.day
             m == commits[x].timestamp.moment
  <2>1. s \in SaleDays /\ s \in Nat /\ m \in Nat
    <3>1. s \in SaleDays /\ m \in Nat
      BY <1>2
    <3>2. SaleDays \subseteq Nat
      BY GroupsAssumption
    <3> QED BY <3>1, <3>2
  <2>2. windowDay[asOf.day] \in Nat /\ asOf.day \in Nat
    <3>1. asOf.day \in Nat
      BY <1>1, FirstAsOfIsDay
    <3> QED BY <1>1, <3>1, WindowsMoveOn
  <2>3. AtOrBefore(commits[x].timestamp, asOf) => s <= asOf.day
    BY <2>1, <2>2 DEF AtOrBefore
  <2>4. AtOrBefore(threeCalendarMonthsBefore(asOf), commits[x].timestamp)
          <=> windowDay[asOf.day] < s \/ (windowDay[asOf.day] = s /\ asOf.moment <= m)
    BY DEF AtOrBefore, threeCalendarMonthsBefore
  <2>5. counts(g, x) <=>
          /\ commits[x].group = g /\ AtOrBefore(commits[x].timestamp, asOf)
          /\ \A d \in s..asOf.day : d >= FirstAsOf => windowDay[d] <= s
          /\ windowDay[asOf.day] = s => asOf.moment <= m
    OBVIOUS
  <2>6. In(commits[x]) <=>
          /\ commits[x].group = g /\ AtOrBefore(commits[x].timestamp, asOf)
          /\ windowDay[asOf.day] < s \/ (windowDay[asOf.day] = s /\ asOf.moment <= m)
    BY <2>4
  <2>7. x \in inWindow <=> counts(g, x)
    OBVIOUS
  <2> HIDE DEF s, m, counts, In, inWindow
  <2>8. CASE s <= asOf.day
    <3>1. (\A d \in s..asOf.day : d >= FirstAsOf => windowDay[d] <= s) <=> windowDay[asOf.day] <= s
      BY <2>1, <2>8, StaysIsInWindow
    <3>2. windowDay[asOf.day] <= s
            <=> windowDay[asOf.day] < s \/ windowDay[asOf.day] = s
      BY <2>1, <2>2
    <3>3. windowDay[asOf.day] < s => windowDay[asOf.day] # s
      BY <2>1, <2>2
    <3> QED BY <2>5, <2>6, <2>7, <3>1, <3>2, <3>3
  <2>9. CASE ~(s <= asOf.day)
    BY <2>3, <2>5, <2>6, <2>7, <2>9
  <2> QED BY <2>8, <2>9
<1>5. DOMAIN volumes = 1..Len(volumes) /\ IsFiniteSet(DOMAIN volumes)
  <2>1. DOMAIN volumes = 1..Len(volumes) /\ Len(volumes) \in Int
    BY <1>1
  <2> QED BY <2>1, FS_Interval
<1>6. IsFiniteSet(inWindow) /\ IsFiniteSet(places)
  BY <1>1, <1>5, FS_Subset
<1>7. f \in [inWindow -> Int] /\ h \in [places -> Int]
  BY <1>2, <1>3
<1> DEFINE b == [x \in inWindow |-> place[x]]
<1>8. inWindow \subseteq DOMAIN commits /\ places \subseteq DOMAIN volumes
  OBVIOUS
<1>9. \A i \in DOMAIN volumes : i \in places <=> In(volumes[i])
  OBVIOUS
<1>10. \A x \in inWindow : f[x] = commits[x].amount
  OBVIOUS
<1>11. \A i \in places : h[i] = volumes[i].amount
  OBVIOUS
<1>12. rollingThreeCalendarMonthVolume(g, asOf) = SumFunction(h)
  BY Zenon DEF rollingThreeCalendarMonthVolume, h
<1> HIDE DEF inWindow, places, In, f, h
<1>13. b \in [inWindow -> places]
  BY <1>0, <1>4, <1>8, <1>9 DEF IsPlacing
<1>14. \A x, y \in inWindow : b[x] = b[y] => x = y
  BY <1>0, <1>8 DEF IsPlacing
<1>15. \A i \in places : \E x \in inWindow : b[x] = i
  BY <1>0, <1>4, <1>8, <1>9 DEF IsPlacing
<1>16. \A x \in inWindow : f[x] = h[b[x]]
  BY <1>0, <1>8, <1>10, <1>11, <1>13 DEF IsPlacing
<1> HIDE DEF b
<1>17. SumFunction(f) = SumFunction(h)
  BY <1>6, <1>7, <1>13, <1>14, <1>15, <1>16, SumOfRenamed
<1> QED BY <1>12, <1>17 DEF f, inWindow

(* The rolling volume of a group is that of the executions committed for it, *)
(* each counted once, that no window since has started on a later day than,  *)
(* and on a day whose window starts on their own, not at a later moment.     *)
THEOREM VolumesCountExecutions == GroupsSpec => []VolumeCountsExecutions
  BY GroupsStart, GroupsSteps, VolumesCount, PTL DEF GroupsSpec
=============================================================================
