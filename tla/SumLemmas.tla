------------------------------- MODULE SumLemmas -------------------------------
(***************************************************************************)
(* Least elements, and sums over finite sets: what the proofs about the     *)
(* inventory, the elements, the audit log and the sales of a group share.  *)
(* A lemma by least counterexample stands for an induction.                 *)
(***************************************************************************)
EXTENDS Integers, FiniteSets, Functions, FiniteSetTheorems, WellFoundedInduction, TLAPS

(* Sums over finite sets.  SumFunction folds a function with a recursive   *)
(* function on the subsets of its domain; the facts below rest on the      *)
(* subset of least cardinality for which they might fail.                  *)

(* A non-empty set of naturals has a least element. *)
LEMMA LeastNatural ==
  ASSUME NEW T, T \subseteq Nat, T # {}
  PROVE  \E n \in T : \A m \in T : n <= m
<1>1. PICK n \in T : \A m \in T : ~ (<<m, n>> \in OpToRel(<, Nat))
  BY NatLessThanWellFounded, WFMin
<1>2. ASSUME NEW m \in T PROVE n <= m
  <2>1. m \in Nat /\ n \in Nat
    OBVIOUS
  <2>2. ~ (m < n)
    BY <1>1, <2>1 DEF OpToRel
  <2> QED BY <2>1, <2>2
<1> QED BY <1>2

(* The element a sum takes out of a set first. *)
Pick(s) == CHOOSE x \in s : TRUE

Small(S, n) == {s \in SUBSET S : Cardinality(s) <= n}

(* g is the sum of f over every set of D. *)
IsSum(g, f, D) ==
  g = [s \in D |-> IF s = {} THEN 0
                   ELSE f[Pick(s)] + g[s \ {Pick(s)}]]

(* What is left of a small set without one element is smaller. *)
LEMMA SmallerSet ==
  ASSUME NEW S, IsFiniteSet(S), NEW s \in SUBSET S, s # {}
  PROVE  /\ Pick(s) \in s
         /\ s \ {Pick(s)} \in SUBSET S
         /\ IsFiniteSet(s)
         /\ Cardinality(s) \in Nat
         /\ Cardinality(s \ {Pick(s)}) = Cardinality(s) - 1
<1>1. IsFiniteSet(s)
  BY FS_Subset
<1>2. Pick(s) \in s
  BY DEF Pick
<1> QED BY <1>1, <1>2, FS_RemoveElement, FS_CardinalityType

(* Sums exist over all sets up to any size: a least size without them has   *)
(* none below it.                                                           *)
LEMMA PartialSumExists ==
  ASSUME NEW S, IsFiniteSet(S), NEW f
  PROVE  \A n \in Nat : \E g : IsSum(g, f, Small(S, n))
<1> DEFINE Bad == {n \in Nat : ~ \E g : IsSum(g, f, Small(S, n))}
<1>1. SUFFICES ASSUME Bad # {} PROVE FALSE
  OBVIOUS
<1>2. PICK n \in Bad : \A m \in Bad : n <= m
  BY <1>1, LeastNatural
<1>3. \A s \in SUBSET S : Cardinality(s) \in Nat /\ (Cardinality(s) = 0 <=> s = {})
  BY FS_Subset, FS_EmptySet, FS_CardinalityType
<1>4. n # 0
  <2>1. SUFFICES ASSUME n = 0 PROVE FALSE
    OBVIOUS
  <2>2. \A s \in Small(S, 0) : s = {}
    BY <1>3 DEF Small
  <2> DEFINE g == [s \in Small(S, 0) |-> 0]
  <2>3. g = [s \in Small(S, 0) |-> IF s = {} THEN 0
                   ELSE f[Pick(s)] + g[s \ {Pick(s)}]]
    BY <2>2
  <2>4. IsSum(g, f, Small(S, 0))
    BY <2>3 DEF IsSum
  <2> QED BY <2>1, <2>4
<1>5. PICK h : IsSum(h, f, Small(S, n - 1))
  <2>1. n - 1 \in Nat /\ n - 1 \notin Bad
    BY <1>2, <1>4
  <2> QED BY <2>1
<1> DEFINE g == [s \in Small(S, n) |-> IF s = {} THEN 0
                   ELSE f[Pick(s)] + h[s \ {Pick(s)}]]
<1>6. ASSUME NEW s \in Small(S, n), s # {}
      PROVE  g[s \ {Pick(s)}] = h[s \ {Pick(s)}]
  <2> DEFINE r == s \ {Pick(s)}
  <2>1. r \in Small(S, n - 1) /\ r \in Small(S, n)
    BY <1>6, SmallerSet DEF Small
  <2>2. h[r] = IF r = {} THEN 0
                   ELSE f[Pick(r)] + h[r \ {Pick(r)}]
    BY <1>5, <2>1 DEF IsSum
  <2> QED BY <2>1, <2>2
<1>7. ASSUME NEW s \in Small(S, n)
      PROVE  g[s] = IF s = {} THEN 0
                    ELSE f[Pick(s)] + g[s \ {Pick(s)}]
  <2>1. g[s] = IF s = {} THEN 0
               ELSE f[Pick(s)] + h[s \ {Pick(s)}]
    OBVIOUS
  <2> HIDE DEF g
  <2> QED BY <1>6, <2>1
<1>8. g = [s \in Small(S, n) |-> g[s]]
  OBVIOUS
<1> HIDE DEF g
<1>9. IsSum(g, f, Small(S, n))
  BY <1>7, <1>8, Zenon DEF IsSum
<1> QED BY <1>2, <1>9

(* So they exist over a whole finite set, *)
LEMMA SumExists ==
  ASSUME NEW S, IsFiniteSet(S), NEW f
  PROVE  \E g : IsSum(g, f, SUBSET S)
<1>1. Cardinality(S) \in Nat /\ \A s \in SUBSET S : Cardinality(s) <= Cardinality(S)
  BY FS_Subset, FS_CardinalityType
<1>2. Small(S, Cardinality(S)) = SUBSET S
  BY <1>1 DEF Small
<1> QED BY <1>1, <1>2, PartialSumExists

TheSum(f, S) == CHOOSE g : IsSum(g, f, SUBSET S)

(* and the folding function of the library is such a sum. *)
LEMMA SumIsTheSum ==
  ASSUME NEW S, NEW f
  PROVE  SumFunctionOnSet(f, S) = TheSum(f, S)[S]
BY DEF Pick, SumFunctionOnSet, FoldFunctionOnSet, MapThenFoldSet, TheSum, IsSum

(* A sum is the element taken first, and the sum of the rest. *)
LEMMA SumUnfolds ==
  ASSUME NEW S, IsFiniteSet(S), NEW f, NEW s \in SUBSET S
  PROVE  TheSum(f, S)[s] =
           IF s = {} THEN 0
           ELSE f[Pick(s)] + TheSum(f, S)[s \ {Pick(s)}]
<1>1. IsSum(TheSum(f, S), f, SUBSET S)
  BY SumExists, Zenon DEF TheSum
<1> DEFINE g == TheSum(f, S)
<1> HIDE DEF g
<1>2. g = [r \in SUBSET S |-> IF r = {} THEN 0
                   ELSE f[Pick(r)] + g[r \ {Pick(r)}]]
  BY <1>1 DEF IsSum, g
<1>3. g[s] = IF s = {} THEN 0
                   ELSE f[Pick(s)] + g[s \ {Pick(s)}]
  BY <1>2
<1> QED BY <1>3 DEF g

(* SumFunction is the sum over the domain. *)
LEMMA SumOfFunction ==
  ASSUME NEW S, NEW f, DOMAIN f = S
  PROVE  SumFunction(f) = TheSum(f, S)[S]
BY SumIsTheSum DEF SumFunction

(* A statement that fails of a finite set fails of one all of whose parts   *)
(* satisfy it.                                                              *)
LEMMA SmallestSet ==
  ASSUME NEW S, IsFiniteSet(S), NEW T, T \subseteq SUBSET S, T # {}
  PROVE  \E s \in T : s \in SUBSET S /\ \A t \in SUBSET S : Cardinality(t) < Cardinality(s) => t \notin T
<1> DEFINE C == {Cardinality(s) : s \in T}
<1>1. \A s \in SUBSET S : Cardinality(s) \in Nat
  BY FS_Subset, FS_CardinalityType
<1>2. C \subseteq Nat /\ C # {}
  BY <1>1
<1>3. PICK n \in C : \A m \in C : n <= m
  BY <1>2, LeastNatural
<1>4. PICK s \in T : Cardinality(s) = n
  BY <1>3
<1>5. ASSUME NEW t \in SUBSET S, Cardinality(t) < Cardinality(s), t \in T PROVE FALSE
  <2>1. Cardinality(t) \in C
    BY <1>5
  <2>2. n <= Cardinality(t) /\ n \in Nat /\ Cardinality(t) \in Nat
    BY <1>1, <1>2, <1>3, <2>1
  <2> QED BY <1>4, <1>5, <2>2
<1> QED BY <1>4, <1>5

(* Integers add up to an integer, *)
LEMMA SumIsInteger ==
  ASSUME NEW S, IsFiniteSet(S), NEW f \in [S -> Int]
  PROVE  /\ SumFunction(f) \in Int
         /\ f \in [S -> Nat] => SumFunction(f) \in Nat
<1> DEFINE g == TheSum(f, S)
           Good(s) == g[s] \in Int /\ (f \in [S -> Nat] => g[s] \in Nat)
           Bad == {s \in SUBSET S : ~ Good(s)}
<1>1. SUFFICES ASSUME Bad # {} PROVE FALSE
  BY SumOfFunction
<1>2. PICK s \in Bad : \A t \in SUBSET S : Cardinality(t) < Cardinality(s) => t \notin Bad
  <2>1. Bad \subseteq SUBSET S
    OBVIOUS
  <2> HIDE DEF Bad
  <2> QED BY <1>1, <2>1, SmallestSet
<1> DEFINE x == Pick(s)
<1>3. g[s] = IF s = {} THEN 0 ELSE f[x] + g[s \ {x}]
  BY SumUnfolds
<1>4. s # {} => x \in S /\ Good(s \ {x})
  BY <1>2, SmallerSet
<1> HIDE DEF g, x
<1>5. Good(s)
  BY <1>3, <1>4
<1> QED BY <1>2, <1>5

(* the sum of two functions is the sum of their sums, *)
LEMMA SumOfSums ==
  ASSUME NEW S, IsFiniteSet(S), NEW e \in [S -> Int], NEW f \in [S -> Int], NEW h \in [S -> Int],
         \A k \in S : h[k] = e[k] + f[k]
  PROVE  SumFunction(h) = SumFunction(e) + SumFunction(f)
<1> DEFINE ge == TheSum(e, S)
           gf == TheSum(f, S)
           gh == TheSum(h, S)
           Good(s) == ge[s] \in Int /\ gf[s] \in Int /\ gh[s] = ge[s] + gf[s]
           Bad == {s \in SUBSET S : ~ Good(s)}
<1>1. SUFFICES ASSUME Bad # {} PROVE FALSE
  BY SumOfFunction
<1>2. PICK s \in Bad : \A t \in SUBSET S : Cardinality(t) < Cardinality(s) => t \notin Bad
  <2>1. Bad \subseteq SUBSET S
    OBVIOUS
  <2> HIDE DEF Bad
  <2> QED BY <1>1, <2>1, SmallestSet
<1> DEFINE x == Pick(s)
<1>3. /\ ge[s] = IF s = {} THEN 0 ELSE e[x] + ge[s \ {x}]
      /\ gf[s] = IF s = {} THEN 0 ELSE f[x] + gf[s \ {x}]
      /\ gh[s] = IF s = {} THEN 0 ELSE h[x] + gh[s \ {x}]
  <2>1. s \in SUBSET S
    OBVIOUS
  <2> HIDE DEF Good, Bad
  <2>2. \A q : TheSum(q, S)[s] = IF s = {} THEN 0 ELSE q[x] + TheSum(q, S)[s \ {x}]
    BY <2>1, SumUnfolds
  <2> HIDE DEF x
  <2> QED BY <2>2
<1>4. s # {} => x \in S /\ Good(s \ {x})
  BY <1>2, SmallerSet
<1> HIDE DEF ge, gf, gh, x
<1>5. Good(s)
  BY <1>3, <1>4
<1> QED BY <1>2, <1>5

(* and a function that is zero but at one point adds up to its value        *)
(* there.                                                                   *)
LEMMA SumOfOne ==
  ASSUME NEW S, IsFiniteSet(S), NEW f \in [S -> Int], NEW k \in S,
         \A l \in S \ {k} : f[l] = 0
  PROVE  SumFunction(f) = f[k]
<1> DEFINE g == TheSum(f, S)
           Good(s) == g[s] = IF k \in s THEN f[k] ELSE 0
           Bad == {s \in SUBSET S : ~ Good(s)}
<1>1. SUFFICES ASSUME Bad # {} PROVE FALSE
  BY SumOfFunction
<1>2. PICK s \in Bad : \A t \in SUBSET S : Cardinality(t) < Cardinality(s) => t \notin Bad
  <2>1. Bad \subseteq SUBSET S
    OBVIOUS
  <2> HIDE DEF Bad
  <2> QED BY <1>1, <2>1, SmallestSet
<1> DEFINE x == Pick(s)
<1>3. g[s] = IF s = {} THEN 0 ELSE f[x] + g[s \ {x}]
  BY SumUnfolds
<1>4. s # {} => x \in s /\ Good(s \ {x})
  BY <1>2, SmallerSet
<1> HIDE DEF g, x
<1>5. Good(s)
  BY <1>3, <1>4
<1> QED BY <1>2, <1>5

LEMMA SumGrows ==
  ASSUME NEW S, IsFiniteSet(S), NEW e \in [S -> Int], NEW h \in [S -> Int],
         \A k \in S : e[k] <= h[k]
  PROVE  SumFunction(e) <= SumFunction(h)
<1> DEFINE d == [k \in S |-> h[k] - e[k]]
<1>1. d \in [S -> Int] /\ d \in [S -> Nat] /\ \A k \in S : h[k] = e[k] + d[k]
  OBVIOUS
<1> HIDE DEF d
<1>2. SumFunction(h) = SumFunction(e) + SumFunction(d)
  BY <1>1, SumOfSums
<1>3. SumFunction(d) \in Nat /\ SumFunction(e) \in Int
  BY <1>1, SumIsInteger
<1> QED BY <1>2, <1>3

LEMMA PartsAreIntegers ==
  ASSUME NEW S, IsFiniteSet(S), NEW f \in [S -> Int], NEW r \in SUBSET S
  PROVE  TheSum(f, S)[r] \in Int
<1> DEFINE g == TheSum(f, S)
           Bad == {s \in SUBSET S : g[s] \notin Int}
<1>1. SUFFICES ASSUME Bad # {} PROVE FALSE
  OBVIOUS
<1>2. PICK s \in Bad : \A t \in SUBSET S : Cardinality(t) < Cardinality(s) => t \notin Bad
  <2>1. Bad \subseteq SUBSET S
    OBVIOUS
  <2> HIDE DEF Bad
  <2> QED BY <1>1, <2>1, SmallestSet
<1> DEFINE x == Pick(s)
<1>3. g[s] = IF s = {} THEN 0 ELSE f[x] + g[s \ {x}]
  BY SumUnfolds
<1>4. s # {} => x \in S /\ g[s \ {x}] \in Int
  BY <1>2, SmallerSet
<1> HIDE DEF g, x
<1>5. g[s] \in Int
  BY <1>3, <1>4
<1> QED BY <1>2, <1>5

(* Any element may be taken first.                                          *)
LEMMA AnyMayBeFirst ==
  ASSUME NEW S, IsFiniteSet(S), NEW f \in [S -> Int], NEW r \in SUBSET S, NEW k \in r
  PROVE  TheSum(f, S)[r] = f[k] + TheSum(f, S)[r \ {k}]
<1> DEFINE g == TheSum(f, S)
           Good(s) == \A l \in s : g[s] = f[l] + g[s \ {l}]
           Bad == {s \in SUBSET S : ~ Good(s)}
<1>1. SUFFICES ASSUME Bad # {} PROVE FALSE
  OBVIOUS
<1>2. PICK s \in Bad : \A t \in SUBSET S : Cardinality(t) < Cardinality(s) => t \notin Bad
  <2>1. Bad \subseteq SUBSET S
    OBVIOUS
  <2> HIDE DEF Bad
  <2> QED BY <1>1, <2>1, SmallestSet
<1>3. PICK l \in s : g[s] # f[l] + g[s \ {l}]
  BY <1>2
<1> DEFINE x == Pick(s)
<1>4. s \in SUBSET S /\ s # {} /\ x \in s /\ IsFiniteSet(s) /\ Cardinality(s) \in Nat
  BY <1>3, SmallerSet
<1>5. g[s] = f[x] + g[s \ {x}]
  BY <1>4, SumUnfolds
<1>6. x # l
  BY <1>3, <1>5
<1>7. ASSUME NEW y \in s PROVE s \ {y} \in SUBSET S /\ Good(s \ {y})
  <2>1. Cardinality(s \ {y}) = Cardinality(s) - 1
    BY <1>4, <1>7, FS_RemoveElement
  <2>2. s \ {y} \in SUBSET S /\ s \ {y} \notin Bad
    BY <1>2, <1>4, <2>1
  <2> QED BY <2>2
<1>8. \A t \in SUBSET S : g[t] \in Int
  BY PartsAreIntegers
<1> HIDE DEF g, x
<1>9. g[s \ {x}] = f[l] + g[(s \ {x}) \ {l}]
  BY <1>4, <1>6, <1>7
<1>10. g[s \ {l}] = f[x] + g[(s \ {l}) \ {x}]
  BY <1>4, <1>6, <1>7
<1>11. (s \ {x}) \ {l} = (s \ {l}) \ {x}
  OBVIOUS
<1>12. f[x] \in Int /\ f[l] \in Int /\ g[(s \ {x}) \ {l}] \in Int
  BY <1>4, <1>8
<1>13. \A a, b, c \in Int : a + (b + c) = b + (a + c)
  OBVIOUS
<1> HIDE DEF Good, Bad
<1>14. g[s] = f[x] + (f[l] + g[(s \ {x}) \ {l}])
  BY <1>5, <1>9
<1>15. f[l] + g[s \ {l}] = f[l] + (f[x] + g[(s \ {x}) \ {l}])
  BY <1>10, <1>11
<1> QED BY <1>3, <1>12, <1>13, <1>14, <1>15

(* Two functions that are one but for the names of their arguments add up   *)
(* to the same.                                                             *)
LEMMA SumOfRenamed ==
  ASSUME NEW S, IsFiniteSet(S), NEW R, IsFiniteSet(R),
         NEW f \in [S -> Int], NEW h \in [R -> Int], NEW b \in [S -> R],
         \A x, y \in S : b[x] = b[y] => x = y,
         \A z \in R : \E x \in S : b[x] = z,
         \A x \in S : f[x] = h[b[x]]
  PROVE  SumFunction(f) = SumFunction(h)
<1> DEFINE gf == TheSum(f, S)
           gh == TheSum(h, R)
           Image(s) == {b[x] : x \in s}
           Bad == {s \in SUBSET S : gf[s] # gh[Image(s)]}
<1>0. Image(S) = R
  OBVIOUS
<1>1. SUFFICES ASSUME Bad # {} PROVE FALSE
  <2>1. gf[S] = gh[R]
    BY <1>0, <1>1
  <2>2. SumFunction(f) = gf[S] /\ SumFunction(h) = gh[R]
    BY SumOfFunction
  <2> QED BY <2>1, <2>2
<1>2. PICK s \in Bad : \A t \in SUBSET S : Cardinality(t) < Cardinality(s) => t \notin Bad
  <2>1. Bad \subseteq SUBSET S
    OBVIOUS
  <2> HIDE DEF Bad
  <2> QED BY <1>1, <2>1, SmallestSet
<1>3. s \in SUBSET S /\ gf[s] # gh[Image(s)]
  BY <1>2
<1>4. CASE s = {}
  <2>1. gf[s] = 0
    BY <1>3, <1>4, SumUnfolds
  <2>2. Image(s) = {}
    BY <1>4
  <2>3. gh[{}] = 0
    BY SumUnfolds
  <2> QED BY <1>3, <2>1, <2>2, <2>3
<1>5. CASE s # {}
  <2> DEFINE x == Pick(s)
  <2>1. /\ x \in s /\ s \ {x} \in SUBSET S /\ Cardinality(s) \in Nat
        /\ Cardinality(s \ {x}) = Cardinality(s) - 1
    BY <1>3, <1>5, SmallerSet
  <2>2. gf[s] = f[x] + gf[s \ {x}]
    <3>1. \A q : TheSum(q, S)[s] = IF s = {} THEN 0 ELSE q[x] + TheSum(q, S)[s \ {x}]
      BY <1>3, SumUnfolds
    <3> HIDE DEF x
    <3> QED BY <1>5, <3>1
  <2>3. gf[s \ {x}] = gh[Image(s \ {x})]
    BY <1>2, <2>1
  <2> HIDE DEF x
  <2>4. Image(s) \in SUBSET R /\ b[x] \in Image(s) /\ Image(s) \ {b[x]} = Image(s \ {x})
    BY <1>3, <2>1
  <2> HIDE DEF Image
  <2>5. gh[Image(s)] = h[b[x]] + gh[Image(s) \ {b[x]}]
    <3> DEFINE T == Image(s)
               y == b[x]
    <3>1. T \in SUBSET R /\ y \in T
      BY <2>4
    <3> HIDE DEF T, y
    <3>2. TheSum(h, R)[T] = h[y] + TheSum(h, R)[T \ {y}]
      BY <3>1, AnyMayBeFirst
    <3> QED BY <3>2 DEF T, y
  <2>6. f[x] = h[b[x]]
    BY <1>3, <2>1
  <2> HIDE DEF gf, gh
  <2> QED BY <1>3, <2>2, <2>3, <2>4, <2>5, <2>6
<1> QED BY <1>4, <1>5
===============================================================================
