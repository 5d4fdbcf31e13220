-------------------------- MODULE StockLedgerProofs --------------------------
(***************************************************************************)
(* Lemmas about the stock ledger, on which the theorems about the          *)
(* warehouse and about the orders rest.                                    *)
(*                                                                         *)
(* All of them are about sums over lots and rows, which the library folds  *)
(* by a recursion on finite sets.  The first part is a theory of such      *)
(* sums: that the recursion defines a function, that the order of the      *)
(* summands is no matter, that sums split, and what a greedy plan takes in *)
(* all (Greedy).  In place of induction, each lemma looks at a smallest    *)
(* set it would fail for (Smallest).                                       *)
(*                                                                         *)
(* The second part follows the primitives of StockLedger from a sound      *)
(* ledger (Sound) to a sound ledger, and says what each changes of the     *)
(* sums: a consumption and a reversal take what was asked for, from the    *)
(* lots and rows that are next.                                            *)
(***************************************************************************)
EXTENDS StockLedger, FiniteSetTheorems, TLAPS

-----------------------------------------------------------------------------
(***************************************************************************)
(* Sums over finite sets.                                                  *)
(***************************************************************************)
\* What is not so of every subset of a finite set is not so of a smallest one.
LEMMA Smallest ==
  ASSUME NEW S, IsFiniteSet(S), NEW Bad \in SUBSET (SUBSET S), Bad # {}
  PROVE \E T \in Bad : \A U \in SUBSET T : U # T => U \notin Bad
<1>1. IsWellFoundedOn(StrictSubsetOrdering(S), SUBSET S)
  BY FS_StrictSubsetOrderingWellFounded, FS_FiniteSubsetsOfFinite
<1>2. PICK T \in Bad : \A U \in Bad : ~ (<<U, T>> \in StrictSubsetOrdering(S))
  BY <1>1, WFMin
<1> QED BY <1>2 DEF StrictSubsetOrdering

Less == {ss \in Nat \X Nat : ss[1] < ss[2]}
LEMMA SmallestNumber ==
  ASSUME NEW Bad \in SUBSET Nat, Bad # {}
  PROVE \E n \in Bad : \A m \in Nat : m < n => m \notin Bad
<1>1. IsWellFoundedOn(Less, Nat)
  BY NatLessThanWellFounded DEF OpToRel, Less
<1>2. PICK n \in Bad : \A m \in Bad : ~ (<<m, n>> \in Less)
  BY <1>1, WFMin
<1> QED BY <1>2 DEF Less

Pick(s) == CHOOSE x \in s : TRUE
Adds(g, f, S) == g = [s \in SUBSET S |-> IF s = {} THEN 0 ELSE f[Pick(s)] + g[s \ {Pick(s)}]]

Sum(f, S) == SumFunctionOnSet(f, S)

LEMMA SumIsFold == ASSUME NEW f, NEW S PROVE Sum(f, S) = (CHOOSE g : Adds(g, f, S))[S]
  BY DEF Sum, SumFunctionOnSet, FoldFunctionOnSet, MapThenFoldSet, Adds, Pick

LEMMA Picked == ASSUME NEW S, S # {} PROVE Pick(S) \in S
  BY DEF Pick

\* The library's recursion defines a function.
LEMMA FoldExists == ASSUME NEW f, NEW S, IsFiniteSet(S) PROVE \E g : Adds(g, f, S)
<1> DEFINE Body(g, s) == IF s = {} THEN 0 ELSE f[Pick(s)] + g[s \ {Pick(s)}]
           Good(g, n) == /\ g = [s \in SUBSET S |-> g[s]]
                         /\ \A s \in SUBSET S : Cardinality(s) <= n => g[s] = Body(g, s)
           Bad == {n \in Nat : ~ \E g : Good(g, n)}
<1>0. \A s \in SUBSET S : IsFiniteSet(s) /\ Cardinality(s) \in Nat /\ Cardinality(s) <= Cardinality(S)
  BY FS_Subset, FS_CardinalityType
<1>1. Bad = {}
  <2> SUFFICES ASSUME Bad # {} PROVE FALSE
    OBVIOUS
  <2>1. PICK n \in Bad : \A m \in Nat : m < n => m \notin Bad
    <3> HIDE DEF Bad
    <3>1. Bad \in SUBSET Nat
      BY DEF Bad
    <3> QED BY <3>1, SmallestNumber
  <2>2. n # 0
    <3> SUFFICES ASSUME n = 0 PROVE FALSE
      OBVIOUS
    <3> DEFINE g == [s \in SUBSET S |-> 0]
    <3>1. g = [s \in SUBSET S |-> g[s]]
      OBVIOUS
    <3>2. ASSUME NEW s \in SUBSET S, Cardinality(s) <= 0 PROVE g[s] = Body(g, s)
      <4>1. s = {}
        BY <1>0, <3>2, FS_EmptySet
      <4> QED BY <4>1
    <3>3. Good(g, 0)
      BY <3>1, <3>2
    <3> QED
      <4> HIDE DEF g
      <4> QED BY <3>3
  <2>a. n - 1 \in Nat /\ n - 1 < n
    BY <2>1, <2>2
  <2>b. n - 1 \notin Bad
    BY <2>1, <2>a
  <2>3. PICK g : Good(g, n - 1)
    BY <2>a, <2>b
  <2> DEFINE h == [s \in SUBSET S |-> IF Cardinality(s) = n THEN Body(g, s) ELSE g[s]]
  <2>4. h = [s \in SUBSET S |-> h[s]]
    OBVIOUS
  <2>5. ASSUME NEW s \in SUBSET S, Cardinality(s) <= n PROVE h[s] = Body(h, s)
    <3>1. CASE s = {}
      <4>1. Cardinality(s) = 0
        BY <3>1, FS_EmptySet
      <4>2. h[s] = g[s]
        BY <2>2, <4>1
      <4>3. g[s] = Body(g, s)
        <5>1. Cardinality(s) <= n - 1
          BY <2>a, <4>1
        <5> QED BY <2>3, <2>5, <5>1
      <4> QED BY <3>1, <4>2, <4>3
    <3>2. CASE s # {}
      <4> DEFINE t == s \ {Pick(s)}
      <4>1. Pick(s) \in s /\ t \in SUBSET S
        BY <3>2, Picked
      <4>2. Cardinality(t) = Cardinality(s) - 1
        BY <1>0, <4>1, FS_RemoveElement
      <4>3. h[t] = g[t]
        BY <1>0, <2>1, <2>5, <4>1, <4>2
      <4>4. Body(h, s) = Body(g, s)
        BY <3>2, <4>3
      <4>5. CASE Cardinality(s) = n
        BY <4>4, <4>5
      <4>6. CASE Cardinality(s) # n
        <5>1. Cardinality(s) <= n - 1
          BY <1>0, <2>1, <2>5, <4>6
        <5>2. g[s] = Body(g, s)
          BY <2>3, <5>1
        <5> QED BY <4>4, <4>6, <5>2
      <4> QED BY <4>5, <4>6
    <3> QED BY <3>1, <3>2
  <2>6. Good(h, n)
    BY <2>4, <2>5
  <2> QED
    <3> HIDE DEF h
    <3> QED BY <2>1, <2>6
<1>2. PICK g : Good(g, Cardinality(S))
  <2>1. Cardinality(S) \in Nat
    BY FS_CardinalityType
  <2> QED BY <1>1, <2>1
<1>3. \A s \in SUBSET S : g[s] = Body(g, s)
  BY <1>0, <1>2
<1>4. g = [s \in SUBSET S |-> Body(g, s)]
  BY <1>2, <1>3
<1> QED BY <1>4 DEF Adds

\* It depends on the values in the set alone.
LEMMA FoldsAgree ==
  ASSUME NEW e, NEW f, NEW S, NEW T, NEW g, NEW h, IsFiniteSet(S), S \subseteq T,
         \A x \in S : e[x] = f[x], Adds(g, e, S), Adds(h, f, T)
  PROVE g[S] = h[S]
<1> DEFINE Bad == {U \in SUBSET S : g[U] # h[U]}
<1> SUFFICES ASSUME Bad # {} PROVE FALSE
  OBVIOUS
<1>1. PICK U \in Bad : \A V \in SUBSET U : V # U => V \notin Bad
  <2>1. Bad \in SUBSET (SUBSET S)
    OBVIOUS
  <2> HIDE DEF Bad
  <2> QED BY <2>1, Smallest
<1>2. U \in SUBSET S /\ U \in SUBSET T
  BY <1>1
<1>3. g[U] = IF U = {} THEN 0 ELSE e[Pick(U)] + g[U \ {Pick(U)}]
  BY <1>2, Zenon DEF Adds
<1>4. h[U] = IF U = {} THEN 0 ELSE f[Pick(U)] + h[U \ {Pick(U)}]
  BY <1>2, Zenon DEF Adds
<1>5. U # {}
  BY <1>1, <1>3, <1>4
<1>6. Pick(U) \in U /\ Pick(U) \in S
  BY <1>2, <1>5, Picked
<1>7. g[U \ {Pick(U)}] = h[U \ {Pick(U)}]
  BY <1>1, <1>2, <1>6
<1> QED BY <1>1, <1>3, <1>4, <1>6, <1>7

LEMMA SumFolds == ASSUME NEW f, NEW S, IsFiniteSet(S) PROVE \E g : Adds(g, f, S) /\ Sum(f, S) = g[S]
  BY FoldExists, SumIsFold, Zenon

LEMMA SumSame ==
  ASSUME NEW e, NEW f, NEW S, IsFiniteSet(S), \A x \in S : e[x] = f[x]
  PROVE Sum(e, S) = Sum(f, S)
<1>1. PICK g : Adds(g, e, S) /\ Sum(e, S) = g[S]
  BY SumFolds
<1>2. PICK h : Adds(h, f, S) /\ Sum(f, S) = h[S]
  BY SumFolds
<1>3. S \subseteq S
  OBVIOUS
<1>4. g[S] = h[S]
  BY <1>1, <1>2, <1>3, FoldsAgree
<1> QED BY <1>1, <1>2, <1>4

LEMMA SumEmpty == ASSUME NEW f PROVE Sum(f, {}) = 0
<1>1. PICK g : Adds(g, f, {}) /\ Sum(f, {}) = g[{}]
  BY SumFolds, FS_EmptySet
<1> QED BY <1>1 DEF Adds

LEMMA SumPick ==
  ASSUME NEW f, NEW S, IsFiniteSet(S), S # {}
  PROVE Sum(f, S) = f[Pick(S)] + Sum(f, S \ {Pick(S)})
<1>1. PICK g : Adds(g, f, S) /\ Sum(f, S) = g[S]
  BY SumFolds
<1>2. IsFiniteSet(S \ {Pick(S)})
  BY FS_RemoveElement
<1>3. PICK h : Adds(h, f, S \ {Pick(S)}) /\ Sum(f, S \ {Pick(S)}) = h[S \ {Pick(S)}]
  BY <1>2, SumFolds
<1>4. h[S \ {Pick(S)}] = g[S \ {Pick(S)}]
  <2>1. S \ {Pick(S)} \subseteq S
    OBVIOUS
  <2> QED BY <1>1, <1>2, <1>3, <2>1, FoldsAgree
<1>5. S \in SUBSET S
  OBVIOUS
<1>6. g[S] = IF S = {} THEN 0 ELSE f[Pick(S)] + g[S \ {Pick(S)}]
  BY <1>1, <1>5, Zenon DEF Adds
<1> QED BY <1>1, <1>3, <1>4, <1>6

LEMMA SumType ==
  ASSUME NEW f, NEW S, IsFiniteSet(S), NEW D \in {Nat, Int}, \A x \in S : f[x] \in D
  PROVE Sum(f, S) \in D
<1> DEFINE Bad == {U \in SUBSET S : Sum(f, U) \notin D}
<1> SUFFICES ASSUME Bad # {} PROVE FALSE
  OBVIOUS
<1>1. PICK U \in Bad : \A V \in SUBSET U : V # U => V \notin Bad
  <2>1. Bad \in SUBSET (SUBSET S)
    OBVIOUS
  <2> HIDE DEF Bad
  <2> QED BY <2>1, Smallest
<1>2. U # {}
  <2> SUFFICES ASSUME U = {} PROVE FALSE
    OBVIOUS
  <2>1. Sum(f, U) = 0
    BY SumEmpty
  <2> QED BY <1>1, <2>1
<1>3. IsFiniteSet(U) /\ Pick(U) \in U
  BY <1>1, <1>2, FS_Subset, Picked
<1>4. Sum(f, U) = f[Pick(U)] + Sum(f, U \ {Pick(U)})
  BY <1>2, <1>3, SumPick
<1>5. Sum(f, U \ {Pick(U)}) \in D
  BY <1>1, <1>3
<1> QED BY <1>1, <1>3, <1>4, <1>5

\* The order of summation does not matter.
LEMMA SumTake ==
  ASSUME NEW f, NEW S, IsFiniteSet(S), \A y \in S : f[y] \in Int, NEW x \in S
  PROVE Sum(f, S) = f[x] + Sum(f, S \ {x})
<1> DEFINE Bad == {U \in SUBSET S : \E y \in U : Sum(f, U) # f[y] + Sum(f, U \ {y})}
<1> SUFFICES ASSUME Bad # {} PROVE FALSE
  OBVIOUS
<1>1. PICK U \in Bad : \A V \in SUBSET U : V # U => V \notin Bad
  <2>1. Bad \in SUBSET (SUBSET S)
    OBVIOUS
  <2> HIDE DEF Bad
  <2> QED BY <2>1, Smallest
<1>2. PICK y \in U : Sum(f, U) # f[y] + Sum(f, U \ {y})
  BY <1>1
<1>3. PICK p : p = Pick(U)
  OBVIOUS
<1>4. p \in U
  BY <1>2, <1>3, Picked
<1>5. \A V \in SUBSET U : IsFiniteSet(V) /\ Sum(f, V) \in Int
  BY <1>1, FS_Subset, SumType
<1>6. Sum(f, U) = f[p] + Sum(f, U \ {p})
  BY <1>2, <1>3, <1>5, SumPick
<1>7. p # y
  BY <1>2, <1>6
<1>8. Sum(f, U \ {p}) = f[y] + Sum(f, (U \ {p}) \ {y})
  BY <1>1, <1>2, <1>4, <1>7
<1>9. Sum(f, U \ {y}) = f[p] + Sum(f, (U \ {y}) \ {p})
  BY <1>1, <1>2, <1>4, <1>7
<1>10. (U \ {p}) \ {y} = (U \ {y}) \ {p}
  OBVIOUS
<1>11. f[p] \in Int /\ f[y] \in Int /\ Sum(f, (U \ {y}) \ {p}) \in Int
  BY <1>1, <1>2, <1>4, <1>5
<1> HIDE DEF Bad
<1>12. PICK a, b, c, u, v, w :
          /\ a = Sum(f, U) /\ b = Sum(f, U \ {p}) /\ c = Sum(f, U \ {y}) /\ u = f[p] /\ v = f[y]
          /\ w = Sum(f, (U \ {y}) \ {p})
  OBVIOUS
<1>13. a = u + b /\ b = v + w /\ c = u + w /\ u \in Int /\ v \in Int /\ w \in Int
  BY <1>6, <1>8, <1>9, <1>10, <1>11, <1>12
<1>14. a = v + c
  BY ONLY <1>13
<1> QED BY <1>2, <1>12, <1>14

LEMMA SumPut ==
  ASSUME NEW f, NEW S, IsFiniteSet(S), NEW x, x \notin S, \A y \in S \cup {x} : f[y] \in Int
  PROVE Sum(f, S \cup {x}) = f[x] + Sum(f, S)
<1>1. IsFiniteSet(S \cup {x}) /\ (S \cup {x}) \ {x} = S
  BY FS_AddElement
<1>2. x \in S \cup {x}
  OBVIOUS
<1>3. Sum(f, S \cup {x}) = f[x] + Sum(f, (S \cup {x}) \ {x})
  BY <1>1, <1>2, SumTake
<1> QED BY <1>1, <1>3

LEMMA SumUnion ==
  ASSUME NEW f, NEW S, NEW T, IsFiniteSet(S), IsFiniteSet(T), S \cap T = {}, \A x \in S \cup T : f[x] \in Int
  PROVE Sum(f, S \cup T) = Sum(f, S) + Sum(f, T)
<1> DEFINE Bad == {U \in SUBSET T : Sum(f, S \cup U) # Sum(f, S) + Sum(f, U)}
<1> SUFFICES ASSUME Bad # {} PROVE FALSE
  OBVIOUS
<1>1. PICK U \in Bad : \A V \in SUBSET U : V # U => V \notin Bad
  <2>1. Bad \in SUBSET (SUBSET T)
    OBVIOUS
  <2> HIDE DEF Bad
  <2> QED BY <2>1, Smallest
<1>2. Sum(f, S) \in Int /\ \A V \in SUBSET T : IsFiniteSet(V) /\ Sum(f, V) \in Int /\ IsFiniteSet(S \cup V) /\ Sum(f, S \cup V) \in Int
  <2>1. Sum(f, S) \in Int
    BY SumType
  <2>2. ASSUME NEW V \in SUBSET T PROVE IsFiniteSet(V) /\ Sum(f, V) \in Int /\ IsFiniteSet(S \cup V) /\ Sum(f, S \cup V) \in Int
    <3>1. IsFiniteSet(V) /\ IsFiniteSet(S \cup V)
      BY FS_Subset, FS_Union
    <3>2. \A x \in V : f[x] \in Int
      OBVIOUS
    <3>3. \A x \in S \cup V : f[x] \in Int
      OBVIOUS
    <3> QED BY <3>1, <3>2, <3>3, SumType
  <2> QED BY <2>1, <2>2
<1>3. U # {}
  <2> SUFFICES ASSUME U = {} PROVE FALSE
    OBVIOUS
  <2>1. S \cup U = S /\ Sum(f, U) = 0
    BY SumEmpty
  <2> QED BY <1>1, <1>2, <2>1
<1>4. PICK x \in U : TRUE
  BY <1>3
<1>5. Sum(f, U) = f[x] + Sum(f, U \ {x})
  <2>1. IsFiniteSet(U) /\ x \in U /\ \A y \in U : f[y] \in Int
    BY <1>1, <1>2
  <2> QED BY <2>1, SumTake
<1>6. Sum(f, S \cup U) = f[x] + Sum(f, (S \cup U) \ {x})
  <2>1. IsFiniteSet(S \cup U) /\ x \in S \cup U /\ \A y \in S \cup U : f[y] \in Int
    BY <1>1, <1>2
  <2> QED BY <2>1, SumTake
<1>7. (S \cup U) \ {x} = S \cup (U \ {x})
  BY <1>1
<1>8. Sum(f, S \cup (U \ {x})) = Sum(f, S) + Sum(f, U \ {x})
  BY <1>1
<1>9. f[x] \in Int /\ Sum(f, U \ {x}) \in Int
  BY <1>1, <1>2
<1> QED BY <1>1, <1>2, <1>5, <1>6, <1>7, <1>8, <1>9

LEMMA SumPlus ==
  ASSUME NEW e, NEW f, NEW g, NEW S, IsFiniteSet(S),
         \A x \in S : e[x] \in Int /\ f[x] \in Int /\ g[x] = e[x] + f[x]
  PROVE Sum(g, S) = Sum(e, S) + Sum(f, S)
<1> DEFINE E(U) == Sum(e, U)
           F(U) == Sum(f, U)
           G(U) == Sum(g, U)
           Bad == {U \in SUBSET S : G(U) # E(U) + F(U)}
<1> SUFFICES ASSUME Bad # {} PROVE FALSE
  OBVIOUS
<1>1. PICK U \in Bad : \A V \in SUBSET U : V # U => V \notin Bad
  <2>1. Bad \in SUBSET (SUBSET S)
    OBVIOUS
  <2> HIDE DEF Bad
  <2> QED BY <2>1, Smallest
<1>2. \A V \in SUBSET U : IsFiniteSet(V) /\ E(V) \in Int /\ F(V) \in Int /\ G(V) \in Int
  BY <1>1, FS_Subset, SumType
<1>3. U # {}
  <2> SUFFICES ASSUME U = {} PROVE FALSE
    OBVIOUS
  <2>1. E(U) = 0 /\ F(U) = 0 /\ G(U) = 0
    BY SumEmpty
  <2> QED BY <1>1, <2>1
<1>4. PICK x \in U : TRUE
  BY <1>3
<1>5. E(U) = e[x] + E(U \ {x}) /\ F(U) = f[x] + F(U \ {x}) /\ G(U) = g[x] + G(U \ {x})
  BY <1>1, <1>2, SumTake
<1>6. G(U \ {x}) = E(U \ {x}) + F(U \ {x})
  BY <1>1
<1>7. E(U \ {x}) \in Int /\ F(U \ {x}) \in Int /\ e[x] \in Int /\ f[x] \in Int /\ g[x] = e[x] + f[x]
  BY <1>1, <1>2
<1> HIDE DEF E, F, G
<1> QED BY <1>1, <1>5, <1>6, <1>7

LEMMA SumPart ==
  ASSUME NEW f, NEW S, IsFiniteSet(S), NEW T \in SUBSET S, \A x \in S : f[x] \in Nat
  PROVE Sum(f, T) <= Sum(f, S)
<1>1. IsFiniteSet(T) /\ IsFiniteSet(S \ T) /\ T \cap (S \ T) = {} /\ T \cup (S \ T) = S
  BY FS_Subset
<1>2. Sum(f, S) = Sum(f, T) + Sum(f, S \ T)
  <2>1. \A x \in T \cup (S \ T) : f[x] \in Int
    OBVIOUS
  <2>2. Sum(f, T \cup (S \ T)) = Sum(f, T) + Sum(f, S \ T)
    BY <1>1, <2>1, SumUnion
  <2> QED BY <1>1, <2>2
<1>3. Sum(f, T) \in Nat /\ Sum(f, S \ T) \in Nat
  BY <1>1, SumType
<1> QED BY <1>2, <1>3

LEMMA SumZero ==
  ASSUME NEW f, NEW S, IsFiniteSet(S), \A x \in S : f[x] = 0
  PROVE Sum(f, S) = 0
<1>0. \A x \in S : f[x] \in Int /\ f[x] \in Int /\ f[x] = f[x] + f[x]
  OBVIOUS
<1>1. Sum(f, S) = Sum(f, S) + Sum(f, S)
  BY <1>0, SumPlus
<1>2. Sum(f, S) \in Int
  BY <1>0, SumType
<1>3. PICK v \in Int : v = Sum(f, S)
  BY <1>2
<1>4. v = v + v
  BY <1>1, <1>3
<1>5. v = 0
  BY ONLY <1>4, v \in Int
<1> QED BY ONLY <1>3, <1>5

LEMMA ImageFinite == ASSUME NEW S, IsFiniteSet(S), NEW m PROVE IsFiniteSet({m[x] : x \in S})
<1>1. PICK f, T : T = {m[x] : x \in S} /\ f = [x \in S |-> m[x]]
  OBVIOUS
<1>2. f \in Surjection(S, T)
  BY <1>1 DEF Surjection
<1> QED BY <1>1, <1>2, FS_Surjection

\* A sum over renamed summands.
LEMMA SumRenamed ==
  ASSUME NEW e, NEW f, NEW S, IsFiniteSet(S), NEW m,
         \A x, y \in S : m[x] = m[y] => x = y, \A x \in S : e[x] \in Int /\ f[m[x]] = e[x]
  PROVE Sum(f, {m[x] : x \in S}) = Sum(e, S)
<1> DEFINE Image(U) == {m[x] : x \in U}
           E(U) == Sum(e, U)
           F(U) == Sum(f, Image(U))
           Bad == {U \in SUBSET S : ~(IsFiniteSet(Image(U)) /\ F(U) = E(U))}
<1> SUFFICES ASSUME Bad # {} PROVE FALSE
  OBVIOUS
<1>1. PICK U \in Bad : \A V \in SUBSET U : V # U => V \notin Bad
  <2>1. Bad \in SUBSET (SUBSET S)
    OBVIOUS
  <2> HIDE DEF Bad
  <2> QED BY <2>1, Smallest
<1>2. \A V \in SUBSET U : IsFiniteSet(V) /\ E(V) \in Int
  BY <1>1, FS_Subset, SumType
<1>3. U # {}
  <2> SUFFICES ASSUME U = {} PROVE FALSE
    OBVIOUS
  <2>1. Image(U) = {}
    OBVIOUS
  <2> QED BY <1>1, <2>1, SumEmpty, FS_EmptySet
<1>4. PICK x \in U : TRUE
  BY <1>3
<1>5. E(U) = e[x] + E(U \ {x})
  <2>1. IsFiniteSet(U) /\ x \in U /\ \A y \in U : e[y] \in Int
    BY <1>1, <1>2
  <2> QED BY <2>1, SumTake
<1>6. IsFiniteSet(Image(U \ {x})) /\ F(U \ {x}) = E(U \ {x})
  BY <1>1
<1>7. Image(U) = Image(U \ {x}) \cup {m[x]} /\ m[x] \notin Image(U \ {x})
  BY <1>1
<1>8. \A y \in Image(U) : f[y] \in Int
  BY <1>1
<1>9. Sum(f, Image(U \ {x}) \cup {m[x]}) = f[m[x]] + F(U \ {x})
  <2>1. \A y \in Image(U \ {x}) \cup {m[x]} : f[y] \in Int
    BY <1>7, <1>8
  <2> HIDE DEF Image
  <2> QED BY <1>6, <1>7, <2>1, SumPut
<1>10. IsFiniteSet(Image(U))
  <2>1. PICK I, y : I = Image(U \ {x}) /\ y = m[x]
    OBVIOUS
  <2>2. IsFiniteSet(I)
    BY <1>6, <2>1
  <2>3. IsFiniteSet(I \cup {y})
    BY <2>2, FS_AddElement
  <2> QED BY <1>7, <2>1, <2>3
<1>11. f[m[x]] = e[x]
  BY <1>1
<1>12. F(U) = E(U)
  <2> HIDE DEF Image
  <2> QED BY <1>5, <1>6, <1>7, <1>9, <1>11
<1> QED BY <1>1, <1>10, <1>12

\* What adds nothing may be left out.
LEMMA SumNarrow ==
  ASSUME NEW f, NEW S, IsFiniteSet(S), NEW T \in SUBSET S, \A x \in S : f[x] \in Int, \A x \in S \ T : f[x] = 0
  PROVE  Sum(f, S) = Sum(f, T)
<1>1. IsFiniteSet(T) /\ IsFiniteSet(S \ T) /\ T \cap (S \ T) = {} /\ T \cup (S \ T) = S
  BY FS_Subset
<1>2. \A x \in T \cup (S \ T) : f[x] \in Int
  OBVIOUS
<1>3. Sum(f, T \cup (S \ T)) = Sum(f, T) + Sum(f, S \ T)
  BY <1>1, <1>2, SumUnion
<1>4. Sum(f, S \ T) = 0
  BY <1>1, SumZero
<1>5. PICK a \in Int : a = Sum(f, T)
  BY <1>1, <1>2, SumType
<1>6. Sum(f, S) = a + 0
  BY <1>1, <1>3, <1>4, <1>5
<1>7. a + 0 = a
  OBVIOUS
<1> QED BY <1>5, <1>6, <1>7

\* g[k] is the sum over the part P[k], and the parts are disjoint.
Parted(f, K, P, g) ==
  /\ \A k \in K : IsFiniteSet(P[k]) /\ g[k] = Sum(f, P[k]) /\ \A x \in P[k] : f[x] \in Int
  /\ \A j, k \in K : j # k => P[j] \cap P[k] = {}

LEMMA SumParts ==
  ASSUME NEW f, NEW K, IsFiniteSet(K), NEW P, NEW g, Parted(f, K, P, g)
  PROVE  IsFiniteSet(UNION {P[k] : k \in K}) /\ Sum(f, UNION {P[k] : k \in K}) = Sum(g, K)
<1> USE DEF Parted
<1> DEFINE Parts(J) == UNION {P[k] : k \in J}
           Bad == {J \in SUBSET K : ~(IsFiniteSet(Parts(J)) /\ Sum(f, Parts(J)) = Sum(g, J))}
<1> SUFFICES ASSUME Bad # {} PROVE FALSE
  OBVIOUS
<1>1. PICK J \in Bad : \A V \in SUBSET J : V # J => V \notin Bad
  <2>1. Bad \in SUBSET (SUBSET K)
    OBVIOUS
  <2> HIDE DEF Bad
  <2> QED BY <2>1, Smallest
<1>2. J # {}
  <2> SUFFICES ASSUME J = {} PROVE FALSE
    OBVIOUS
  <2>1. Parts(J) = {}
    OBVIOUS
  <2>2. Sum(f, {}) = 0 /\ Sum(g, {}) = 0 /\ IsFiniteSet({})
    BY SumEmpty, FS_EmptySet
  <2> QED BY <1>1, <2>1, <2>2
<1>3. PICK k \in J : TRUE
  BY <1>2
<1>4. IsFiniteSet(Parts(J \ {k})) /\ Sum(f, Parts(J \ {k})) = Sum(g, J \ {k})
  BY <1>1, <1>3
<1>5. Parts(J) = Parts(J \ {k}) \cup P[k] /\ Parts(J \ {k}) \cap P[k] = {}
  BY <1>1, <1>3
<1>6. IsFiniteSet(P[k]) /\ g[k] = Sum(f, P[k]) /\ \A x \in Parts(J \ {k}) \cup P[k] : f[x] \in Int
  BY <1>1, <1>3
<1>7. \A j \in K : g[j] \in Int
  BY SumType
<1>8. Sum(g, J) = g[k] + Sum(g, J \ {k})
  <2>1. IsFiniteSet(J) /\ k \in J /\ \A j \in J : g[j] \in Int
    BY <1>1, <1>3, <1>7, FS_Subset
  <2> QED BY <2>1, SumTake
<1>9. g[k] \in Int /\ Sum(g, J \ {k}) \in Int
  <2>1. IsFiniteSet(J \ {k}) /\ \A j \in J \ {k} : g[j] \in Int
    BY <1>1, <1>7, FS_Subset
  <2> QED BY <1>1, <1>3, <1>7, <2>1, SumType
<1> HIDE DEF Parts
<1>10. Sum(f, Parts(J)) = Sum(g, J)
  <2>1. PICK A, B : A = Parts(J \ {k}) /\ B = P[k]
    OBVIOUS
  <2>2. IsFiniteSet(A) /\ IsFiniteSet(B) /\ A \cap B = {} /\ \A x \in A \cup B : f[x] \in Int
    BY <1>4, <1>5, <1>6, <2>1
  <2>3. Sum(f, A \cup B) = Sum(f, A) + Sum(f, B)
    BY <2>2, SumUnion
  <2>4. PICK a, b \in Int : a = g[k] /\ b = Sum(g, J \ {k})
    BY <1>9
  <2>5. Sum(f, A) = b /\ Sum(f, B) = a /\ Sum(g, J) = a + b
    BY <1>4, <1>6, <1>8, <2>1, <2>4
  <2>6. Sum(f, Parts(J)) = b + a
    BY <1>5, <2>1, <2>3, <2>5
  <2>7. b + a = a + b
    OBVIOUS
  <2> QED BY <2>5, <2>6, <2>7
<1>11. IsFiniteSet(Parts(J))
  <2>1. IsFiniteSet(Parts(J \ {k}) \cup P[k])
    BY <1>4, <1>6, FS_Union
  <2> QED BY <1>5, <2>1
<1> QED BY <1>1, <1>10, <1>11

\* The last element of a finite set in a strict total order.
Ordered(R, S) ==
  /\ \A x \in S : <<x, x>> \notin R
  /\ \A x, y \in S : x # y => <<x, y>> \in R \/ <<y, x>> \in R
  /\ \A x, y, z \in S : <<x, y>> \in R /\ <<y, z>> \in R => <<x, z>> \in R

LEMMA LastOne ==
  ASSUME NEW S, IsFiniteSet(S), S # {}, NEW R, Ordered(R, S)
  PROVE  \E m \in S : \A x \in S \ {m} : <<x, m>> \in R
<1> DEFINE Bad == {U \in SUBSET S : U # {} /\ ~ \E m \in U : \A x \in U \ {m} : <<x, m>> \in R}
<1> SUFFICES ASSUME Bad # {} PROVE FALSE
  OBVIOUS
<1>1. PICK U \in Bad : \A V \in SUBSET U : V # U => V \notin Bad
  <2>1. Bad \in SUBSET (SUBSET S)
    OBVIOUS
  <2> HIDE DEF Bad
  <2> QED BY <2>1, Smallest
<1>2. PICK x \in U : TRUE
  BY <1>1
<1>3. U \ {x} # {}
  BY <1>1, <1>2
<1>4. PICK m \in U \ {x} : \A y \in (U \ {x}) \ {m} : <<y, m>> \in R
  <2>1. PICK V : V = U \ {x}
    OBVIOUS
  <2>2. V \notin Bad /\ V \in SUBSET S /\ V # {}
    <3>1. V \in SUBSET U /\ V # U /\ U \in SUBSET S /\ V # {}
      BY <1>1, <1>2, <1>3, <2>1
    <3> HIDE DEF Bad
    <3> QED BY <1>1, <3>1
  <2>3. \E m \in V : \A y \in V \ {m} : <<y, m>> \in R
    BY ONLY <2>2, Zenon
  <2> QED BY <2>1, <2>3
<1>5. CASE <<x, m>> \in R
  BY <1>1, <1>2, <1>4, <1>5
<1>6. CASE <<m, x>> \in R
  <2>1. \A y \in U \ {x} : <<y, x>> \in R
    BY <1>1, <1>2, <1>4, <1>6 DEF Ordered
  <2> QED BY <1>1, <1>2, <2>1
<1> QED BY <1>1, <1>2, <1>4, <1>5, <1>6 DEF Ordered

\* A greedy plan gives what is asked for, as far as there is something to give:
\* each element what those before it leave uncovered.
LEMMA Greedy ==
  ASSUME NEW S, IsFiniteSet(S), NEW R, Ordered(R, S), NEW w, \A x \in S : w[x] \in Nat, NEW need \in Nat,
         NEW g, \A x \in S : g[x] = Clamp(need - Sum(w, {y \in S : <<y, x>> \in R}), w[x])
  PROVE  Sum(g, S) = IF need <= Sum(w, S) THEN need ELSE Sum(w, S)
<1> DEFINE Before(x) == {y \in S : <<y, x>> \in R}
           Bad == {U \in SUBSET S : (\A x \in U : Before(x) \subseteq U)
                                     /\ Sum(g, U) # (IF need <= Sum(w, U) THEN need ELSE Sum(w, U))}
<1> SUFFICES ASSUME Bad # {} PROVE FALSE
  OBVIOUS
<1>1. PICK U \in Bad : \A V \in SUBSET U : V # U => V \notin Bad
  <2>1. Bad \in SUBSET (SUBSET S)
    OBVIOUS
  <2> HIDE DEF Bad
  <2> QED BY <2>1, Smallest
<1>2. U # {}
  <2> SUFFICES ASSUME U = {} PROVE FALSE
    OBVIOUS
  <2>1. Sum(g, U) = 0 /\ Sum(w, U) = 0
    BY SumEmpty
  <2> QED BY <1>1, <2>1
<1>3. U \in SUBSET S /\ IsFiniteSet(U) /\ Ordered(R, U)
  BY <1>1, FS_Subset DEF Ordered
<1>4. PICK m \in U : \A x \in U \ {m} : <<x, m>> \in R
  BY <1>2, <1>3, LastOne
<1> DEFINE V == U \ {m}
<1>5. \A x \in V : Before(x) \subseteq V
  BY <1>1, <1>3, <1>4 DEF Ordered
<1>6. Before(m) = V
  BY <1>1, <1>3, <1>4 DEF Ordered
<1>7. Sum(g, V) = IF need <= Sum(w, V) THEN need ELSE Sum(w, V)
  BY <1>1, <1>4, <1>5
<1>8. g[m] = Clamp(need - Sum(w, V), w[m]) /\ w[m] \in Nat
  BY <1>3, <1>6
<1>9. \A x \in S : Sum(w, {y \in S : <<y, x>> \in R}) \in Nat
  <2> SUFFICES ASSUME NEW x \in S PROVE Sum(w, {y \in S : <<y, x>> \in R}) \in Nat
    OBVIOUS
  <2>1. IsFiniteSet({y \in S : <<y, x>> \in R}) /\ \A y \in {y \in S : <<y, x>> \in R} : w[y] \in Nat
    BY FS_Subset
  <2> QED BY <2>1, SumType
<1>10. \A x \in S : g[x] \in Int
  <2> SUFFICES ASSUME NEW x \in S PROVE g[x] \in Int
    OBVIOUS
  <2>1. PICK a \in Nat : a = Sum(w, {y \in S : <<y, x>> \in R})
    BY <1>9
  <2>2. PICK b \in Nat : b = w[x]
    OBVIOUS
  <2>3. g[x] = Clamp(need - a, b)
    BY <2>1, <2>2
  <2> QED BY ONLY <2>3, need \in Nat, a \in Nat, b \in Nat DEF Clamp
<1>11. Sum(g, U) = g[m] + Sum(g, V) /\ Sum(w, U) = w[m] + Sum(w, V)
  <2>1. (\A x \in U : g[x] \in Int) /\ (\A x \in U : w[x] \in Int)
    BY <1>3, <1>10
  <2> QED BY <1>3, <2>1, SumTake
<1>12. Sum(w, V) \in Nat
  <2>1. IsFiniteSet(V) /\ \A x \in V : w[x] \in Nat
    BY <1>3, FS_Subset
  <2> QED BY <2>1, SumType
<1>13. Sum(g, U) # (IF need <= Sum(w, U) THEN need ELSE Sum(w, U))
  BY <1>1
<1> HIDE DEF Bad, V, Before
<1>14. PICK a, b, c, e, h : a = Sum(g, U) /\ b = Sum(w, U) /\ c = Sum(w, V) /\ e = g[m] /\ h = w[m]
  OBVIOUS
<1>15. /\ e = Clamp(need - c, h) /\ h \in Nat /\ c \in Nat /\ b = h + c /\ a = e + (IF need <= c THEN need ELSE c)
       /\ a # (IF need <= b THEN need ELSE b)
  BY <1>7, <1>8, <1>11, <1>12, <1>13, <1>14
<1> QED BY ONLY <1>15, need \in Nat DEF Clamp

-----------------------------------------------------------------------------
(***************************************************************************)
(* Ledgers.                                                                *)
(***************************************************************************)
ItemType == [qty : Nat, avgCost : Nat, moved : Int, qtyAfter : Int,
             created : BOOLEAN, deleted : BOOLEAN, archived : BOOLEAN]
Owners == Suppliers \cup {Nobody}
LotType == [item : Items, initial : Nat \ {0}, left : Nat, cost : Nat, at : Nat, purchase : Nat,
            supplier : Owners, live : BOOLEAN]
Outlets == Lines \cup {NoLine}
RowKinds == {"SALE", "WRITE_OFF", "ADJUSTMENT", "RETURN_SUPPLIER"}
RowType == [batch : Nat, kind : RowKinds, lot : Nat, line : Outlets, qty : Nat, cost : Nat, back : Nat]
Ledger == [item : [Items -> ItemType], lots : Seq(LotType), rows : SUBSET RowType, batch : Nat]

Typed(s) == s \in Ledger /\ IsFiniteSet(s.rows)

\* The lots of an item, open or empty, and what lots and rows contribute to the sums.
Held(s, i) == {k \in DOMAIN s.lots : s.lots[k].item = i /\ s.lots[k].live}
Left(s) == [k \in DOMAIN s.lots |-> s.lots[k].left]
Rest == [r \in RowType |-> Remaining(r)]
On(s, k) == {r \in s.rows : r.lot = k}

RowsOk(s) ==
  /\ \A r \in s.rows : /\ r.batch \in 1..s.batch /\ r.lot \in DOMAIN s.lots /\ r.back <= r.qty
                       /\ r.line \in Lines => s.lots[r.lot].item = ItemOf[r.line]
                       /\ r.kind = "WRITE_OFF" => r.line = NoLine
  /\ \A q, r \in s.rows : q.batch = r.batch /\ q.lot = r.lot => q = r

LotsOk(s) ==
  \A k \in DOMAIN s.lots : /\ s.lots[k].left = s.lots[k].initial - Sum(Rest, On(s, k))
                           /\ ~s.lots[k].live => On(s, k) = {}
                           /\ s.item[s.lots[k].item].created

Cached(s, i) ==
  /\ s.item[i].qty = LotQty(s, i)
  /\ s.item[i].avgCost = IF LotQty(s, i) > 0 THEN RoundDiv(LotValue(s, i), LotQty(s, i)) ELSE 0

Journalled(s, i) ==
  /\ InStock(s, i) => s.item[i].qty = s.item[i].moved /\ s.item[i].qty = s.item[i].qtyAfter
  /\ ~s.item[i].created => s.item[i].moved = 0 /\ s.item[i].qtyAfter = 0

BooksOk(s) == \A i \in Items : Cached(s, i) /\ Journalled(s, i)

Sound(s) == Typed(s) /\ RowsOk(s) /\ LotsOk(s) /\ BooksOk(s)

\* A movement of d units that states the balance a, and the caches after it.
Moved(s, t, i, d, a) ==
  /\ Cached(t, i)
  /\ t.item[i].moved = s.item[i].moved + d /\ t.item[i].qtyAfter = a
  /\ t.item[i].created <=> s.item[i].created
  /\ t.item[i].deleted <=> s.item[i].deleted
  /\ \A j \in Items \ {i} : t.item[j] = s.item[j]

LEMMA NoSuchLine == NoLine \notin Lines
  BY StockAssumption

LEMMA LotsFinite ==
  ASSUME NEW s \in Ledger
  PROVE  /\ DOMAIN s.lots = 1..Len(s.lots) /\ Len(s.lots) \in Nat /\ IsFiniteSet(DOMAIN s.lots)
         /\ \A K \in SUBSET (DOMAIN s.lots) : IsFiniteSet(K)
         /\ \A k \in DOMAIN s.lots : s.lots[k] \in LotType
<1>1. s.lots \in Seq(LotType)
  BY DEF Ledger
<1>2. DOMAIN s.lots = 1..Len(s.lots) /\ Len(s.lots) \in Nat /\ \A k \in DOMAIN s.lots : s.lots[k] \in LotType
  BY <1>1
<1>3. IsFiniteSet(DOMAIN s.lots)
  BY <1>2, FS_Interval
<1> QED BY <1>2, <1>3, FS_Subset

LEMMA Lefts ==
  ASSUME NEW s \in Ledger, NEW k \in DOMAIN s.lots
  PROVE  Left(s)[k] = s.lots[k].left /\ Left(s)[k] \in Nat /\ Left(s)[k] \in Int
  BY LotsFinite DEF Left, LotType

\* Empty lots add nothing.
LEMMA HeldQty ==
  ASSUME NEW s \in Ledger, NEW i \in Items
  PROVE  LotQty(s, i) = Sum(Left(s), Held(s, i)) /\ LotQty(s, i) \in Nat
<1>1. OpenLots(s, i) \in SUBSET Held(s, i) /\ IsFiniteSet(Held(s, i)) /\ IsFiniteSet(OpenLots(s, i))
  BY LotsFinite DEF OpenLots, Held
<1>2. \A k \in Held(s, i) : Left(s)[k] = s.lots[k].left /\ Left(s)[k] \in Nat /\ Left(s)[k] \in Int
  BY LotsFinite DEF Held, Left, LotType
<1>3. \A k \in Held(s, i) \ OpenLots(s, i) : Left(s)[k] = 0
  BY <1>2 DEF Held, OpenLots
<1>4. Sum(Left(s), Held(s, i)) = Sum(Left(s), OpenLots(s, i))
  BY <1>1, <1>2, <1>3, SumNarrow
<1>5. PICK f : f = [k \in OpenLots(s, i) |-> s.lots[k].left]
  OBVIOUS
<1>6. LotQty(s, i) = Sum(f, OpenLots(s, i))
  BY <1>5 DEF LotQty, SumFunction, Sum
<1>7. \A k \in OpenLots(s, i) : f[k] = Left(s)[k]
  BY <1>1, <1>2, <1>5
<1>8. Sum(f, OpenLots(s, i)) = Sum(Left(s), OpenLots(s, i))
  BY <1>1, <1>7, SumSame
<1>9. Sum(Left(s), Held(s, i)) \in Nat
  BY <1>1, <1>2, SumType
<1> QED BY <1>4, <1>6, <1>8, <1>9

LEMMA Products == ASSUME NEW a \in Nat, NEW b \in Nat PROVE a * b \in Nat
  OBVIOUS

LEMMA Rounded == ASSUME NEW a \in Nat, NEW b \in Nat \ {0} PROVE RoundDiv(a, b) \in Nat
<1>1. 2 * a + b \in Nat /\ 2 * b \in Nat \ {0}
  OBVIOUS
<1>2. \A x \in Nat, y \in Nat \ {0} : x \div y \in Nat
  OBVIOUS
<1> QED BY <1>1, <1>2 DEF RoundDiv

LEMMA ValueType ==
  ASSUME NEW s \in Ledger, NEW i \in Items PROVE LotValue(s, i) \in Nat
<1>1. IsFiniteSet(OpenLots(s, i)) /\ OpenLots(s, i) \subseteq DOMAIN s.lots
  BY LotsFinite DEF OpenLots
<1>2. PICK f : f = [k \in OpenLots(s, i) |-> s.lots[k].left * s.lots[k].cost]
  OBVIOUS
<1>3. \A k \in OpenLots(s, i) : f[k] \in Nat
  <2> SUFFICES ASSUME NEW k \in OpenLots(s, i) PROVE f[k] \in Nat
    OBVIOUS
  <2>1. s.lots[k].left \in Nat /\ s.lots[k].cost \in Nat
    BY <1>1, LotsFinite DEF LotType
  <2> QED BY <1>2, <2>1, Products
<1>4. LotValue(s, i) = Sum(f, OpenLots(s, i))
  BY <1>2 DEF LotValue, SumFunction, Sum
<1> QED BY <1>1, <1>3, <1>4, SumType

\* Sums read the lots alone.
LEMMA SameLots ==
  ASSUME NEW s, NEW t, NEW i, s.lots = t.lots PROVE LotQty(s, i) = LotQty(t, i) /\ LotValue(s, i) = LotValue(t, i)
  BY DEF LotQty, LotValue, OpenLots

LEMMA Recorded ==
  ASSUME NEW s \in Ledger, NEW i \in Items, NEW d \in Int, NEW a \in Int, NEW t, t = RecordMovement(s, i, d, a)
  PROVE  /\ t.lots = s.lots /\ t.rows = s.rows /\ t.batch = s.batch
         /\ t.item[i].qty = s.item[i].qty
         /\ t.item[i].avgCost = s.item[i].avgCost
         /\ t.item[i].moved = s.item[i].moved + d /\ t.item[i].qtyAfter = a
         /\ t.item[i].created <=> s.item[i].created
         /\ t.item[i].deleted <=> s.item[i].deleted
         /\ \A j \in Items \ {i} : t.item[j] = s.item[j]
  BY DEF RecordMovement, Ledger, ItemType

LEMMA RecordedType ==
  ASSUME NEW s \in Ledger, NEW i \in Items, NEW d \in Int, NEW a \in Int PROVE RecordMovement(s, i, d, a) \in Ledger
<1>1. s.item[i] \in ItemType
  BY DEF Ledger
<1>2. PICK m : m = s.item[i].moved + d
  OBVIOUS
<1>3. m \in Int
  BY <1>1, <1>2 DEF ItemType
<1>4. PICK rec : rec = [s.item[i] EXCEPT !.moved = m, !.qtyAfter = a]
  OBVIOUS
<1>5. rec \in ItemType
  BY <1>1, <1>3, <1>4 DEF ItemType
<1>6. RecordMovement(s, i, d, a) = [s EXCEPT !.item[i] = rec]
  BY <1>2, <1>4 DEF RecordMovement, Ledger
<1> QED BY <1>5, <1>6 DEF Ledger

LEMMA Recomputed ==
  ASSUME NEW s \in Ledger, NEW i \in Items, NEW t, t = RecomputeCaches(s, i)
  PROVE  /\ t.lots = s.lots /\ t.rows = s.rows /\ t.batch = s.batch
         /\ t.item[i].qty = LotQty(s, i)
         /\ t.item[i].avgCost = IF LotQty(s, i) > 0 THEN RoundDiv(LotValue(s, i), LotQty(s, i)) ELSE 0
         /\ t.item[i].moved = s.item[i].moved /\ t.item[i].qtyAfter = s.item[i].qtyAfter
         /\ t.item[i].created <=> s.item[i].created
         /\ t.item[i].deleted <=> s.item[i].deleted
         /\ \A j \in Items \ {i} : t.item[j] = s.item[j]
  BY DEF RecomputeCaches, Ledger, ItemType

LEMMA RecomputedType ==
  ASSUME NEW s \in Ledger, NEW i \in Items PROVE RecomputeCaches(s, i) \in Ledger
<1>1. s.item[i] \in ItemType
  BY DEF Ledger
<1>2. PICK q, c : q = LotQty(s, i) /\ c = IF q > 0 THEN RoundDiv(LotValue(s, i), q) ELSE 0
  OBVIOUS
<1>3. q \in Nat /\ c \in Nat
  BY <1>2, HeldQty, ValueType, Rounded
<1>4. PICK rec : rec = [s.item[i] EXCEPT !.qty = q, !.avgCost = c]
  OBVIOUS
<1>5. rec \in ItemType
  BY <1>1, <1>3, <1>4 DEF ItemType
<1>6. RecomputeCaches(s, i) = [s EXCEPT !.item[i] = rec]
  BY <1>2, <1>4 DEF RecomputeCaches, Ledger
<1> QED BY <1>5, <1>6 DEF Ledger

\* The movement is recorded, the caches are still to be computed.
Noted(s, v, i, d, a) ==
  /\ v.item[i].moved = s.item[i].moved + d /\ v.item[i].qtyAfter = a
  /\ v.item[i].created <=> s.item[i].created
  /\ v.item[i].deleted <=> s.item[i].deleted
  /\ \A j \in Items \ {i} : v.item[j] = s.item[j]

LEMMA Entered ==
  ASSUME NEW s, NEW v \in Ledger, NEW i \in Items, NEW d, NEW a, Noted(s, v, i, d, a), NEW t, t = RecomputeCaches(v, i)
  PROVE  t \in Ledger /\ t.lots = v.lots /\ t.rows = v.rows /\ t.batch = v.batch /\ Moved(s, t, i, d, a)
<1>1. /\ t \in Ledger
      /\ t.lots = v.lots /\ t.rows = v.rows /\ t.batch = v.batch
      /\ t.item[i].qty = LotQty(v, i)
      /\ t.item[i].avgCost = IF LotQty(v, i) > 0 THEN RoundDiv(LotValue(v, i), LotQty(v, i)) ELSE 0
      /\ t.item[i].moved = v.item[i].moved /\ t.item[i].qtyAfter = v.item[i].qtyAfter
      /\ t.item[i].created <=> v.item[i].created
      /\ t.item[i].deleted <=> v.item[i].deleted
      /\ \A j \in Items \ {i} : t.item[j] = v.item[j]
  BY Recomputed, RecomputedType
<1>2. LotQty(t, i) = LotQty(v, i) /\ LotValue(t, i) = LotValue(v, i)
  BY <1>1, SameLots
<1> QED BY <1>1, <1>2 DEF Noted, Moved, Cached

\* The books stay right when the stock of an item moves by what is recorded and that
\* of the others does not.
LEMMA BooksKept ==
  ASSUME NEW s \in Ledger, NEW t \in Ledger, NEW i \in Items, NEW d \in Int, NEW a, BooksOk(s), Moved(s, t, i, d, a),
         \A j \in Items \ {i} : LotQty(t, j) = LotQty(s, j) /\ LotValue(t, j) = LotValue(s, j),
         s.item[i].created,
         InStock(s, i) => LotQty(t, i) = LotQty(s, i) + d /\ a = LotQty(t, i)
  PROVE  BooksOk(t)
<1>1. ASSUME NEW j \in Items, j # i PROVE Cached(t, j) /\ Journalled(t, j)
  <2>1. Cached(s, j) /\ Journalled(s, j) /\ t.item[j] = s.item[j] /\ LotQty(t, j) = LotQty(s, j) /\ LotValue(t, j) = LotValue(s, j)
    BY <1>1 DEF BooksOk, Moved
  <2> QED BY <2>1 DEF Cached, Journalled, InStock
<1>2. Cached(t, i)
  BY DEF Moved
<1>3. Journalled(t, i)
  <2>1. t.item[i].created
    BY DEF Moved
  <2>2. ASSUME InStock(t, i) PROVE t.item[i].qty = t.item[i].moved /\ t.item[i].qty = t.item[i].qtyAfter
    <3>1. InStock(s, i)
      BY <2>2 DEF InStock, Moved
    <3>2. s.item[i].moved = LotQty(s, i)
      BY <3>1 DEF BooksOk, Journalled, Cached
    <3> QED BY <3>1, <3>2 DEF Moved, Cached
  <2> QED BY <2>1, <2>2 DEF Journalled
<1> QED BY <1>1, <1>2, <1>3 DEF BooksOk

\* The sums of an item depend on its own lots.
LEMMA OtherLots ==
  ASSUME NEW s \in Ledger, NEW t \in Ledger, NEW j \in Items, OpenLots(t, j) = OpenLots(s, j),
         \A k \in OpenLots(s, j) : t.lots[k].left = s.lots[k].left /\ t.lots[k].cost = s.lots[k].cost
  PROVE  LotQty(t, j) = LotQty(s, j) /\ LotValue(t, j) = LotValue(s, j)
<1>1. [k \in OpenLots(t, j) |-> t.lots[k].left] = [k \in OpenLots(s, j) |-> s.lots[k].left]
  OBVIOUS
<1>2. [k \in OpenLots(t, j) |-> t.lots[k].left * t.lots[k].cost] = [k \in OpenLots(s, j) |-> s.lots[k].left * s.lots[k].cost]
  OBVIOUS
<1> QED BY <1>1, <1>2 DEF LotQty, LotValue

-----------------------------------------------------------------------------
(***************************************************************************)
(* An arrival.                                                             *)
(***************************************************************************)
LotMade(i, qty, cost, at, p, sup) ==
  [item |-> i, initial |-> qty, left |-> qty, cost |-> cost, at |-> at, purchase |-> p, supplier |-> sup, live |-> TRUE]

\* t is s with one more lot of item i, entered in the books.
Arrived(s, t, i, qty, lot) ==
  /\ t \in Ledger /\ t.lots = Append(s.lots, lot) /\ t.rows = s.rows
  /\ t.batch = s.batch /\ Moved(s, t, i, qty, s.item[i].qty + qty)

LEMMA Received1 ==
  ASSUME NEW s \in Ledger, NEW i \in Items, NEW qty \in Nat, qty # 0, NEW cost \in Nat, NEW at \in Nat, NEW p \in Nat,
         NEW sup \in Owners
  PROVE  Arrived(s, ReceiveLot(s, i, qty, cost, at, p, sup), i, qty, LotMade(i, qty, cost, at, p, sup))
<1> PICK t : t = ReceiveLot(s, i, qty, cost, at, p, sup)
  OBVIOUS
<1>1. PICK lot : lot = LotMade(i, qty, cost, at, p, sup)
  OBVIOUS
<1>2. lot \in LotType
  BY <1>1 DEF LotMade, LotType
<1>3. PICK lots : lots = Append(s.lots, lot)
  OBVIOUS
<1>4. lots \in Seq(LotType)
  <2>1. s.lots \in Seq(LotType)
    BY DEF Ledger
  <2> QED BY <1>2, <1>3, <2>1
<1>5. PICK c : c = CreateLot(s, i, qty, cost, at, p, sup)
  OBVIOUS
<1>6. c = [s EXCEPT !.lots = lots]
  BY <1>1, <1>3, <1>5 DEF CreateLot, LotMade, Ledger
<1>7. c \in Ledger /\ c.lots = lots /\ c.rows = s.rows /\ c.batch = s.batch /\ c.item = s.item
  BY <1>4, <1>6 DEF Ledger
<1>8. s.item[i].qty \in Nat
  BY DEF Ledger, ItemType
<1>9. PICK a \in Int : a = s.item[i].qty + qty
  BY <1>8
<1>10. PICK v : v = RecordMovement(c, i, qty, a)
  OBVIOUS
<1>11. v \in Ledger
  BY <1>7, <1>10, RecordedType
<1>12. /\ v.lots = c.lots /\ v.rows = c.rows /\ v.batch = c.batch
       /\ v.item[i].moved = c.item[i].moved + qty /\ v.item[i].qtyAfter = a
       /\ v.item[i].created <=> c.item[i].created
       /\ v.item[i].deleted <=> c.item[i].deleted
       /\ \A j \in Items \ {i} : v.item[j] = c.item[j]
  BY <1>7, <1>10, Recorded
<1>13. Noted(s, v, i, qty, a)
  BY <1>7, <1>12 DEF Noted
<1>14. t = RecomputeCaches(v, i)
  BY <1>5, <1>9, <1>10 DEF ReceiveLot
<1>15. t \in Ledger /\ t.lots = v.lots /\ t.rows = v.rows /\ t.batch = v.batch /\ Moved(s, t, i, qty, a)
  BY <1>11, <1>13, <1>14, Entered
<1>16. Arrived(s, t, i, qty, lot)
  BY <1>3, <1>7, <1>9, <1>12, <1>15 DEF Arrived
<1> QED BY <1>1, <1>16

LEMMA ReceivedSound ==
  ASSUME NEW s, Sound(s), NEW i \in Items, s.item[i].created, NEW qty \in Nat, qty # 0, NEW cost \in Nat, NEW at \in Nat,
         NEW p \in Nat, NEW sup \in Owners, NEW t, t = ReceiveLot(s, i, qty, cost, at, p, sup)
  PROVE  Sound(t)
<1>0. s \in Ledger
  BY DEF Sound, Typed
<1>1. PICK lot : lot = LotMade(i, qty, cost, at, p, sup)
  OBVIOUS
<1>2. /\ t \in Ledger /\ t.lots = Append(s.lots, lot) /\ t.rows = s.rows
      /\ t.batch = s.batch /\ Moved(s, t, i, qty, s.item[i].qty + qty)
  <2>1. Arrived(s, ReceiveLot(s, i, qty, cost, at, p, sup), i, qty, LotMade(i, qty, cost, at, p, sup))
    BY <1>0, Received1
  <2> QED BY <1>1, <2>1 DEF Arrived
<1>3. lot.item = i /\ lot.initial = qty /\ lot.left = qty /\ lot.cost = cost /\ lot.live
  BY <1>1 DEF LotMade
<1> DEFINE n == Len(s.lots) + 1
<1>4. /\ n \notin DOMAIN s.lots /\ DOMAIN t.lots = DOMAIN s.lots \cup {n} /\ t.lots[n] = lot
      /\ \A k \in DOMAIN s.lots : t.lots[k] = s.lots[k]
  <2>1. s.lots \in Seq(LotType)
    BY <1>0 DEF Ledger
  <2> QED BY <1>2, <2>1
<1> HIDE DEF n
<1>5. Typed(t)
  BY <1>2 DEF Sound, Typed
<1>6. RowsOk(t)
  BY <1>2, <1>4 DEF Sound, RowsOk
<1>7. LotsOk(t)
  <2>1. \A k \in DOMAIN t.lots : On(t, k) = On(s, k)
    BY <1>2 DEF On
  <2>2. On(s, n) = {}
    BY <1>4 DEF On, Sound, RowsOk
  <2>3. \A j \in Items : t.item[j].created <=> s.item[j].created
    BY <1>2 DEF Moved
  <2>4. \A k \in DOMAIN s.lots : s.lots[k].item \in Items
    BY <1>0, LotsFinite DEF LotType
  <2>5. Sum(Rest, On(s, n)) = 0
    BY <2>2, SumEmpty
  <2>6. lot.left = lot.initial - Sum(Rest, On(t, n))
    BY <1>3, <1>4, <2>1, <2>5
  <2> QED BY <1>3, <1>4, <2>1, <2>2, <2>3, <2>4, <2>6 DEF Sound, LotsOk
<1>8. \A j \in Items \ {i} : LotQty(t, j) = LotQty(s, j) /\ LotValue(t, j) = LotValue(s, j)
  <2> SUFFICES ASSUME NEW j \in Items \ {i} PROVE LotQty(t, j) = LotQty(s, j) /\ LotValue(t, j) = LotValue(s, j)
    OBVIOUS
  <2>1. OpenLots(t, j) = OpenLots(s, j)
    BY <1>3, <1>4 DEF OpenLots
  <2>2. \A k \in OpenLots(s, j) : t.lots[k].left = s.lots[k].left /\ t.lots[k].cost = s.lots[k].cost
    BY <1>4 DEF OpenLots
  <2> QED BY <1>0, <1>2, <2>1, <2>2, OtherLots
<1>9. LotQty(t, i) = LotQty(s, i) + qty
  <2>1. Held(t, i) = Held(s, i) \cup {n} /\ n \notin Held(s, i)
    BY <1>3, <1>4 DEF Held
  <2>2. LotQty(t, i) = Sum(Left(t), Held(t, i)) /\ LotQty(s, i) = Sum(Left(s), Held(s, i)) /\ LotQty(s, i) \in Nat
    BY <1>0, <1>2, HeldQty
  <2>3. IsFiniteSet(Held(s, i)) /\ IsFiniteSet(Held(t, i))
    BY <1>0, <1>2, LotsFinite DEF Held
  <2>4. \A k \in Held(s, i) : Left(t)[k] = Left(s)[k]
    BY <1>4 DEF Left, Held
  <2>5. \A k \in Held(s, i) \cup {n} : Left(t)[k] \in Int
    BY <1>2, <2>1, Lefts DEF Held
  <2>6. Left(t)[n] = qty
    BY <1>3, <1>4 DEF Left
  <2>7. Sum(Left(t), Held(s, i) \cup {n}) = Left(t)[n] + Sum(Left(t), Held(s, i))
    BY <2>1, <2>3, <2>5, SumPut
  <2>8. Sum(Left(t), Held(s, i)) = Sum(Left(s), Held(s, i))
    BY <2>3, <2>4, SumSame
  <2>9. LotQty(t, i) = qty + LotQty(s, i)
    BY <2>1, <2>2, <2>6, <2>7, <2>8
  <2> QED BY <2>2, <2>9
<1>10. s.item[i].qty = LotQty(s, i)
  BY DEF Sound, BooksOk, Cached
<1>11. BooksOk(t)
  BY <1>0, <1>2, <1>8, <1>9, <1>10, BooksKept DEF Sound
<1> QED BY <1>5, <1>6, <1>7, <1>11 DEF Sound

-----------------------------------------------------------------------------
(***************************************************************************)
(* The plan of a consumption.                                              *)
(***************************************************************************)
LEMMA Clamped ==
  ASSUME NEW a \in Int, NEW b \in Nat
  PROVE  /\ Clamp(a, b) \in Nat /\ Clamp(a, b) <= b /\ (Clamp(a, b) > 0 => a > 0) /\ (a >= b => Clamp(a, b) = b)
         /\ Clamp(a, b) > 0 /\ a < b => Clamp(a, b) = a
  BY DEF Clamp

Leaving(s, sup) == {p \in Nat \X Nat : LeavesBefore(s, sup, p[1], p[2])}

LEMMA Leaves ==
  ASSUME NEW s, NEW sup, NEW j \in Nat, NEW k \in Nat
  PROVE  <<j, k>> \in Leaving(s, sup) <=> LeavesBefore(s, sup, j, k)
<1>1. PICK p : p = <<j, k>>
  OBVIOUS
<1>2. p \in Nat \X Nat /\ p[1] = j /\ p[2] = k
  BY <1>1
<1>3. p \in Leaving(s, sup) <=> LeavesBefore(s, sup, p[1], p[2])
  BY <1>2, Zenon DEF Leaving
<1> QED BY <1>1, <1>2, <1>3, Zenon

LEMMA LeavingOrder ==
  ASSUME NEW s \in Ledger, NEW sup, NEW K \in SUBSET (DOMAIN s.lots) PROVE Ordered(Leaving(s, sup), K)
<1>1. \A k \in K : k \in Nat /\ k \in DOMAIN s.lots /\ s.lots[k].at \in Nat
  BY LotsFinite DEF LotType
<1>2. \A j, k \in K : <<j, k>> \in Leaving(s, sup) <=> LeavesBefore(s, sup, j, k)
  BY <1>1, Leaves
<1>3. \A k \in K : ~LeavesBefore(s, sup, k, k)
  BY <1>1 DEF LeavesBefore, ReceivedBefore
<1>4. \A j, k \in K : j # k => LeavesBefore(s, sup, j, k) \/ LeavesBefore(s, sup, k, j)
  BY <1>1 DEF LeavesBefore, ReceivedBefore
<1>5. \A j, k, l \in K : LeavesBefore(s, sup, j, k) /\ LeavesBefore(s, sup, k, l) => LeavesBefore(s, sup, j, l)
  BY <1>1 DEF LeavesBefore, ReceivedBefore
<1> QED BY <1>2, <1>3, <1>4, <1>5, Zenon DEF Ordered

Before(s, i, sup, k) == {j \in OpenLots(s, i) : LeavesBefore(s, sup, j, k)}
Plan(s, i, sup, need) == [k \in DOMAIN s.lots |-> Take(s, i, sup, need, k)]

LEMMA TakeIs ==
  ASSUME NEW s \in Ledger, NEW i, NEW sup, NEW need \in Nat, NEW k \in DOMAIN s.lots
  PROVE  /\ k \notin OpenLots(s, i) => Take(s, i, sup, need, k) = 0
         /\ k \in OpenLots(s, i) => Take(s, i, sup, need, k) = Clamp(need - Sum(Left(s), Before(s, i, sup, k)), Left(s)[k])
         /\ Sum(Left(s), Before(s, i, sup, k)) \in Nat
<1>1. Before(s, i, sup, k) \subseteq DOMAIN s.lots /\ IsFiniteSet(Before(s, i, sup, k))
  BY LotsFinite DEF Before, OpenLots
<1>2. PICK f : f = [j \in Before(s, i, sup, k) |-> s.lots[j].left]
  OBVIOUS
<1>3. \A j \in Before(s, i, sup, k) : f[j] = Left(s)[j]
  BY <1>1, <1>2, Lefts
<1>4. Sum(f, Before(s, i, sup, k)) = Sum(Left(s), Before(s, i, sup, k))
  BY <1>1, <1>3, SumSame
<1>5. SumFunction(f) = Sum(f, Before(s, i, sup, k))
  BY <1>2 DEF SumFunction, Sum
<1>6. Take(s, i, sup, need, k) = IF k \in OpenLots(s, i) THEN Clamp(need - SumFunction(f), s.lots[k].left) ELSE 0
  BY <1>2 DEF Take, Before
<1>7. \A j \in Before(s, i, sup, k) : Left(s)[j] \in Nat
  BY <1>1, Lefts
<1>8. Sum(Left(s), Before(s, i, sup, k)) \in Nat
  BY <1>1, <1>7, SumType
<1> QED BY <1>4, <1>5, <1>6, <1>8, Lefts

LEMMA PlanIs ==
  ASSUME NEW s \in Ledger, NEW i \in Items, NEW sup, NEW need \in Nat
  PROVE  /\ \A k \in DOMAIN s.lots :
              LET T == Plan(s, i, sup, need)
              IN T[k] \in Nat /\ T[k] <= s.lots[k].left /\ (T[k] > 0 => k \in OpenLots(s, i))
         /\ need <= LotQty(s, i) => Sum(Plan(s, i, sup, need), OpenLots(s, i)) = need
<1> DEFINE T == Plan(s, i, sup, need)
           S == OpenLots(s, i)
<1>1. S \in SUBSET (DOMAIN s.lots) /\ IsFiniteSet(S)
  BY LotsFinite DEF OpenLots
<1>2. ASSUME NEW k \in DOMAIN s.lots PROVE T[k] \in Nat /\ T[k] <= s.lots[k].left /\ (T[k] > 0 => k \in S)
  <2>1. T[k] = Take(s, i, sup, need, k)
    BY DEF Plan
  <2>2. PICK b \in Nat : b = Sum(Left(s), Before(s, i, sup, k))
    BY TakeIs
  <2>3. PICK l \in Nat : l = Left(s)[k] /\ l = s.lots[k].left
    BY Lefts
  <2>4. CASE k \in S
    <3>1. T[k] = Clamp(need - b, l)
      <4>1. T[k] = Clamp(need - Sum(Left(s), Before(s, i, sup, k)), Left(s)[k])
        BY <2>1, <2>4, TakeIs
      <4> QED BY ONLY <2>2, <2>3, <4>1, Zenon
    <3>2. need - b \in Int
      OBVIOUS
    <3>3. PICK c \in Nat : c = Clamp(need - b, l) /\ c <= l
      BY <3>2, Clamped
    <3> QED BY <2>3, <2>4, <3>1, <3>3
  <2>5. CASE k \notin S
    <3>1. T[k] = 0
      BY <2>1, <2>5, TakeIs
    <3> QED BY <2>3, <3>1
  <2> QED BY <2>4, <2>5
<1>3. ASSUME need <= LotQty(s, i) PROVE Sum(T, S) = need
  <2>1. Ordered(Leaving(s, sup), S)
    BY <1>1, LeavingOrder
  <2>2. \A k \in S : Left(s)[k] \in Nat
    BY <1>1, Lefts
  <2>3. ASSUME NEW k \in S PROVE T[k] = Clamp(need - Sum(Left(s), {j \in S : <<j, k>> \in Leaving(s, sup)}), Left(s)[k])
    <3>1. {j \in S : <<j, k>> \in Leaving(s, sup)} = Before(s, i, sup, k)
      <4>1. \A j \in S : j \in Nat /\ k \in Nat
        BY <1>1, LotsFinite
      <4>2. \A j \in S : <<j, k>> \in Leaving(s, sup) <=> LeavesBefore(s, sup, j, k)
        BY <4>1, Leaves
      <4> QED BY <4>2 DEF Before
    <3>2. T[k] = Take(s, i, sup, need, k)
      BY <1>1 DEF Plan
    <3> QED BY <1>1, <3>1, <3>2, TakeIs
  <2>4. Sum(Left(s), S) = LotQty(s, i)
    <3>1. S \in SUBSET Held(s, i) /\ IsFiniteSet(Held(s, i))
      BY LotsFinite DEF OpenLots, Held
    <3>2. \A k \in Held(s, i) : Left(s)[k] \in Int
      BY Lefts DEF Held
    <3>3. \A k \in Held(s, i) \ S : Left(s)[k] = 0
      BY LotsFinite, Lefts DEF Held, OpenLots, LotType
    <3>4. Sum(Left(s), Held(s, i)) = Sum(Left(s), S)
      BY <3>1, <3>2, <3>3, SumNarrow
    <3> QED BY <3>4, HeldQty
  <2>5. Sum(T, S) = IF need <= Sum(Left(s), S) THEN need ELSE Sum(Left(s), S)
    <3> HIDE DEF T, S
    <3>1. PICK w, R : w = Left(s) /\ R = Leaving(s, sup)
      OBVIOUS
    <3>2. /\ IsFiniteSet(S) /\ Ordered(R, S) /\ \A k \in S : w[k] \in Nat
          /\ \A k \in S : T[k] = Clamp(need - Sum(w, {j \in S : <<j, k>> \in R}), w[k])
      BY <1>1, <2>1, <2>2, <2>3, <3>1
    <3>3. Sum(T, S) = IF need <= Sum(w, S) THEN need ELSE Sum(w, S)
      BY <3>2, Greedy
    <3> QED BY <3>1, <3>3
  <2> QED BY <1>3, <2>4, <2>5
<1> QED BY <1>2, <1>3

-----------------------------------------------------------------------------
(***************************************************************************)
(* A consumption.                                                          *)
(***************************************************************************)
LEMMA Table ==
  ASSUME NEW S, NEW n \in Nat, NEW f, f = [k \in 1..n |-> f[k]], \A k \in 1..n : f[k] \in S PROVE f \in Seq(S) /\ DOMAIN f = 1..n
  OBVIOUS

\* The same lots, but for what is left of them.
Alike(s, t) ==
  /\ DOMAIN t.lots = DOMAIN s.lots
  /\ \A k \in DOMAIN s.lots :
       /\ t.lots[k].item = s.lots[k].item /\ t.lots[k].initial = s.lots[k].initial /\ t.lots[k].cost = s.lots[k].cost
       /\ t.lots[k].at = s.lots[k].at /\ t.lots[k].purchase = s.lots[k].purchase
       /\ t.lots[k].supplier = s.lots[k].supplier
       /\ t.lots[k].live <=> s.lots[k].live

\* The lots with g[k] more units in them.
More(s, g) == [k \in DOMAIN s.lots |-> [s.lots[k] EXCEPT !.left = s.lots[k].left + g[k]]]
Refills(s, lots, g) ==
  /\ lots \in Seq(LotType) /\ DOMAIN lots = DOMAIN s.lots
  /\ \A k \in DOMAIN s.lots :
       /\ lots[k].left = s.lots[k].left + g[k]
       /\ lots[k].item = s.lots[k].item /\ lots[k].initial = s.lots[k].initial /\ lots[k].cost = s.lots[k].cost
       /\ lots[k].at = s.lots[k].at /\ lots[k].purchase = s.lots[k].purchase
       /\ lots[k].supplier = s.lots[k].supplier
       /\ lots[k].live <=> s.lots[k].live

LEMMA Refilled ==
  ASSUME NEW s \in Ledger, NEW g, \A k \in DOMAIN s.lots : g[k] \in Int /\ s.lots[k].left + g[k] \in Nat
  PROVE  Refills(s, More(s, g), g)
<1> PICK lots : lots = More(s, g)
  OBVIOUS
<1>0. lots = [k \in DOMAIN s.lots |-> [s.lots[k] EXCEPT !.left = s.lots[k].left + g[k]]]
  BY DEF More
<1>1. ASSUME NEW k \in DOMAIN s.lots
      PROVE  /\ lots[k] \in LotType /\ lots[k].left = s.lots[k].left + g[k]
             /\ lots[k].item = s.lots[k].item /\ lots[k].initial = s.lots[k].initial /\ lots[k].cost = s.lots[k].cost
             /\ lots[k].at = s.lots[k].at /\ lots[k].purchase = s.lots[k].purchase
             /\ lots[k].supplier = s.lots[k].supplier
             /\ lots[k].live <=> s.lots[k].live
  <2>1. PICK l, m : l = s.lots[k] /\ m = s.lots[k].left + g[k] /\ m \in Nat
    OBVIOUS
  <2>2. l \in LotType
    BY <2>1, LotsFinite
  <2>3. lots[k] = [l EXCEPT !.left = m]
    BY <1>0, <2>1
  <2>4. PICK r : r = [l EXCEPT !.left = m]
    OBVIOUS
  <2>5. /\ r \in LotType /\ r.left = m
        /\ r.item = l.item /\ r.initial = l.initial /\ r.cost = l.cost
        /\ r.at = l.at /\ r.purchase = l.purchase
        /\ r.supplier = l.supplier
        /\ r.live <=> l.live
    BY ONLY <2>1, <2>2, <2>4 DEF LotType
  <2> QED BY <2>1, <2>3, <2>4, <2>5
<1>2. DOMAIN s.lots = 1..Len(s.lots) /\ Len(s.lots) \in Nat
  BY LotsFinite
<1>3. lots = [k \in 1..Len(s.lots) |-> lots[k]] /\ \A k \in 1..Len(s.lots) : lots[k] \in LotType
  BY <1>0, <1>1, <1>2
<1>4. lots \in Seq(LotType) /\ DOMAIN lots = 1..Len(s.lots)
  <2>1. PICK n \in Nat : n = Len(s.lots)
    BY <1>2
  <2>2. lots = [k \in 1..n |-> lots[k]] /\ \A k \in 1..n : lots[k] \in LotType
    BY <1>3, <2>1
  <2>3. lots \in Seq(LotType) /\ DOMAIN lots = 1..n
    BY ONLY <2>2, Table, n \in Nat
  <2> QED BY <2>1, <2>3
<1>5. Refills(s, lots, g)
  BY <1>1, <1>2, <1>4 DEF Refills
<1> QED BY <1>5

NewRow(s, kind, line, T, k) ==
  [batch |-> s.batch + 1, kind |-> kind, lot |-> k, line |-> line, qty |-> T[k], cost |-> s.lots[k].cost, back |-> 0]
Taken(s, T) == {k \in DOMAIN s.lots : T[k] > 0}
NewRowsOf(s, kind, line, T) == {NewRow(s, kind, line, T, k) : k \in Taken(s, T)}

Consumed(s, t, i, T, line, kind, need) ==
  /\ t \in Ledger /\ Alike(s, t) /\ \A k \in DOMAIN s.lots : t.lots[k].left = s.lots[k].left - T[k]
  /\ t.rows = s.rows \cup NewRowsOf(s, kind, line, T) /\ t.batch = s.batch + 1
  /\ Moved(s, t, i, -need, s.item[i].qty - need)

LEMMA NewRowIs ==
  ASSUME NEW s \in Ledger, NEW T, NEW k \in DOMAIN s.lots, T[k] \in Nat, NEW line \in Outlets, NEW kind \in RowKinds
  PROVE  LET r == NewRow(s, kind, line, T, k)
         IN /\ r \in RowType /\ r.batch = s.batch + 1 /\ r.kind = kind /\ r.lot = k /\ r.line = line /\ r.qty = T[k]
            /\ r.cost = s.lots[k].cost /\ r.back = 0
<1>1. s.batch + 1 \in Nat
  BY DEF Ledger
<1>2. k \in Nat /\ s.lots[k].cost \in Nat
  BY LotsFinite DEF LotType
<1>3. PICK b, c, q \in Nat : b = s.batch + 1 /\ c = s.lots[k].cost /\ q = T[k]
  BY <1>1, <1>2
<1>4. PICK r : r = [batch |-> b, kind |-> kind, lot |-> k, line |-> line, qty |-> q, cost |-> c, back |-> 0]
  OBVIOUS
<1>5. /\ r \in RowType /\ r.batch = b /\ r.kind = kind /\ r.lot = k /\ r.line = line /\ r.qty = q
      /\ r.cost = c /\ r.back = 0
  BY <1>2, <1>4 DEF RowType
<1>6. NewRow(s, kind, line, T, k) = r
  BY <1>3, <1>4 DEF NewRow
<1> QED BY <1>3, <1>5, <1>6

LEMMA ConsumeIs ==
  ASSUME NEW s \in Ledger, NEW i \in Items, NEW sup, NEW need \in Nat, NEW line \in Outlets, NEW kind \in RowKinds
  PROVE  Consumed(s, ConsumeLots(s, i, sup, need, line, kind), i, Plan(s, i, sup, need), line, kind, need)
<1>1. PICK T : T = Plan(s, i, sup, need)
  OBVIOUS
<1>2. \A k \in DOMAIN s.lots : T[k] \in Nat /\ T[k] <= s.lots[k].left /\ s.lots[k].left \in Nat
  BY <1>1, PlanIs, LotsFinite DEF LotType
<1>3. s.item[i].qty \in Nat /\ s.batch \in Nat
  BY DEF Ledger, ItemType
<1>4. PICK d, a \in Int : d = -need /\ a = s.item[i].qty - need
  BY <1>3
<1>5. PICK v : v = RecordMovement(s, i, d, a)
  OBVIOUS
<1>6. v \in Ledger /\ v.lots = s.lots /\ v.rows = s.rows /\ v.batch = s.batch /\ Noted(s, v, i, d, a)
  BY <1>5, Recorded, RecordedType DEF Noted
<1>7. PICK g : g = [k \in DOMAIN s.lots |-> -T[k]]
  OBVIOUS
<1>8. \A k \in DOMAIN s.lots : g[k] \in Int /\ s.lots[k].left + g[k] \in Nat /\ s.lots[k].left + g[k] = s.lots[k].left - T[k]
  BY <1>2, <1>7
<1>9. PICK lots : lots = More(s, g)
  OBVIOUS
<1>10. Refills(s, lots, g)
  <2>1. \A k \in DOMAIN s.lots : g[k] \in Int /\ s.lots[k].left + g[k] \in Nat
    BY <1>8
  <2> QED BY <1>9, <2>1, Refilled
<1>11. lots = [k \in DOMAIN s.lots |-> [s.lots[k] EXCEPT !.left = @ - T[k]]]
  BY <1>6, <1>8, <1>9 DEF More
<1>12. PICK rows : rows = s.rows \cup NewRowsOf(s, kind, line, T)
  OBVIOUS
<1>13. rows \in SUBSET RowType
  <2>1. \A k \in Taken(s, T) : NewRow(s, kind, line, T, k) \in RowType
    BY <1>2, NewRowIs DEF Taken
  <2>2. s.rows \in SUBSET RowType
    BY DEF Ledger
  <2> QED BY <1>12, <2>1, <2>2 DEF NewRowsOf
<1>14. PICK b \in Nat : b = s.batch + 1
  BY <1>3
<1>15. PICK w : w = [v EXCEPT !.lots = lots, !.rows = rows, !.batch = b]
  OBVIOUS
<1>16. w \in Ledger /\ w.lots = lots /\ w.rows = rows /\ w.batch = b /\ w.item = v.item
  BY <1>6, <1>10, <1>13, <1>15 DEF Ledger, Refills
<1>17. PICK t : t = ConsumeLots(s, i, sup, need, line, kind)
  OBVIOUS
<1>18. t = RecomputeCaches(w, i)
  <2>1. T = [k \in DOMAIN s.lots |-> Take(s, i, sup, need, k)] /\ DOMAIN T = DOMAIN s.lots
    BY <1>1 DEF Plan
  <2>2. NewRowsOf(s, kind, line, T) =
          {[batch |-> s.batch + 1, kind |-> kind, lot |-> k, line |-> line,
            qty |-> T[k], cost |-> s.lots[k].cost, back |-> 0] : k \in {k \in DOMAIN T : T[k] > 0}}
    BY <2>1 DEF NewRowsOf, NewRow, Taken
  <2>3. v = RecordMovement(s, i, -need, s.item[i].qty - need)
    BY <1>4, <1>5
  <2>4. w = [v EXCEPT !.lots = [k \in DOMAIN s.lots |-> [s.lots[k] EXCEPT !.left = @ - T[k]]],
                      !.rows = @ \cup NewRowsOf(s, kind, line, T),
                      !.batch = @ + 1]
    BY <1>6, <1>11, <1>12, <1>14, <1>15
  <2> QED BY <1>17, <2>1, <2>2, <2>3, <2>4 DEF ConsumeLots
<1>19. Noted(s, w, i, d, a)
  BY <1>6, <1>16 DEF Noted
<1>20. t \in Ledger /\ t.lots = w.lots /\ t.rows = w.rows /\ t.batch = w.batch /\ Moved(s, t, i, d, a)
  BY <1>16, <1>18, <1>19, Entered
<1>21. Consumed(s, t, i, T, line, kind, need)
  <2>1. Alike(s, t)
    BY <1>10, <1>16, <1>20 DEF Alike, Refills
  <2>2. \A k \in DOMAIN s.lots : t.lots[k].left = s.lots[k].left - T[k]
    BY <1>8, <1>10, <1>16, <1>20 DEF Refills
  <2>3. t.rows = s.rows \cup NewRowsOf(s, kind, line, T) /\ t.batch = s.batch + 1
    BY <1>12, <1>14, <1>16, <1>20
  <2>4. Moved(s, t, i, -need, s.item[i].qty - need)
    BY <1>4, <1>20
  <2> QED BY <1>20, <2>1, <2>2, <2>3, <2>4 DEF Consumed
<1> QED BY <1>1, <1>17, <1>21

LEMMA RowFacts ==
  ASSUME NEW s, Typed(s)
  PROVE  /\ \A r \in s.rows : r \in RowType /\ Rest[r] = Remaining(r) /\ Rest[r] \in Int /\ Remaining(r) = r.qty - r.back
         /\ \A R \in SUBSET s.rows : IsFiniteSet(R) /\ \A r \in R : Rest[r] \in Int
         /\ \A k : On(s, k) \in SUBSET s.rows
<1>1. \A r \in s.rows : r \in RowType
  BY DEF Typed, Ledger
<1>2. ASSUME NEW r \in RowType PROVE Rest[r] = Remaining(r) /\ Rest[r] \in Int /\ Remaining(r) = r.qty - r.back
  <2>1. r.qty \in Nat /\ r.back \in Nat
    BY DEF RowType
  <2>2. Rest[r] = Remaining(r) /\ Remaining(r) = r.qty - r.back
    BY DEF Rest, Remaining
  <2> QED BY <2>1, <2>2
<1>3. \A R \in SUBSET s.rows : IsFiniteSet(R)
  BY FS_Subset DEF Typed
<1>4. \A k : On(s, k) \in SUBSET s.rows
  BY DEF On
<1> QED BY <1>1, <1>2, <1>3, <1>4

\* The rows a consumption writes.
LEMMA NewRows1 ==
  ASSUME NEW s \in Ledger, NEW T, \A k \in DOMAIN s.lots : T[k] \in Nat, NEW line \in Outlets, NEW kind \in RowKinds,
         NEW N, N = NewRowsOf(s, kind, line, T)
  PROVE  /\ \A r \in N : /\ r \in RowType /\ r.batch = s.batch + 1 /\ r.kind = kind /\ r.lot \in Taken(s, T) /\ r.line = line
                         /\ r.qty = T[r.lot] /\ r.cost = s.lots[r.lot].cost /\ r.back = 0 /\ r = NewRow(s, kind, line, T, r.lot)
         /\ \A k \in Taken(s, T) : NewRow(s, kind, line, T, k) \in N /\ NewRow(s, kind, line, T, k).lot = k
         /\ IsFiniteSet(N) /\ IsFiniteSet(Taken(s, T))
<1>1. Taken(s, T) \in SUBSET (DOMAIN s.lots) /\ IsFiniteSet(Taken(s, T))
  BY LotsFinite DEF Taken
<1>2. ASSUME NEW k \in Taken(s, T)
      PROVE  LET r == NewRow(s, kind, line, T, k)
             IN /\ r \in RowType /\ r.batch = s.batch + 1 /\ r.kind = kind /\ r.lot = k /\ r.line = line /\ r.qty = T[k]
                /\ r.cost = s.lots[k].cost /\ r.back = 0
  <2>1. k \in DOMAIN s.lots /\ T[k] \in Nat
    BY <1>1
  <2> QED BY <2>1, NewRowIs
<1>3. IsFiniteSet(N)
  <2>1. PICK f : f = [k \in Taken(s, T) |-> NewRow(s, kind, line, T, k)]
    OBVIOUS
  <2>2. N = {f[k] : k \in Taken(s, T)}
    BY <2>1 DEF NewRowsOf
  <2> QED BY <1>1, <2>2, ImageFinite
<1>4. ASSUME NEW r \in N
      PROVE  /\ r \in RowType /\ r.batch = s.batch + 1 /\ r.kind = kind /\ r.lot \in Taken(s, T) /\ r.line = line
             /\ r.qty = T[r.lot] /\ r.cost = s.lots[r.lot].cost /\ r.back = 0 /\ r = NewRow(s, kind, line, T, r.lot)
  <2>1. PICK k \in Taken(s, T) : r = NewRow(s, kind, line, T, k)
    BY DEF NewRowsOf
  <2> QED BY <1>2, <2>1
<1>5. \A k \in Taken(s, T) : NewRow(s, kind, line, T, k) \in N
  BY DEF NewRowsOf
<1> QED BY <1>1, <1>2, <1>3, <1>4, <1>5

\* What a consumption of item i needs.
Consumes(s, t, i, sup, need, line, kind) ==
  /\ Sound(s) /\ InStock(s, i) /\ need <= LotQty(s, i)
  /\ line \in Lines => ItemOf[line] = i
  /\ kind = "WRITE_OFF" => line = NoLine
  /\ t = ConsumeLots(s, i, sup, need, line, kind)

\* What is known of the rows, the lots and the plan of a consumption.
ConsumedFacts(s, t, i, T, N, need, line, kind) ==
  /\ s \in Ledger /\ t \in Ledger /\ Alike(s, t)
  /\ \A k \in DOMAIN s.lots : /\ T[k] \in Nat /\ T[k] <= s.lots[k].left /\ (T[k] > 0 => k \in OpenLots(s, i))
                              /\ t.lots[k].left = s.lots[k].left - T[k]
  /\ Sum(T, OpenLots(s, i)) = need
  /\ t.rows = s.rows \cup N /\ t.batch = s.batch + 1
  /\ \A r \in N : /\ r \in RowType /\ r.batch = s.batch + 1 /\ r.kind = kind /\ r.lot \in Taken(s, T) /\ r.line = line
                  /\ r.qty = T[r.lot] /\ r.cost = s.lots[r.lot].cost /\ r.back = 0 /\ r = NewRow(s, kind, line, T, r.lot)
  /\ \A k \in Taken(s, T) : NewRow(s, kind, line, T, k) \in N /\ NewRow(s, kind, line, T, k).lot = k
  /\ IsFiniteSet(N) /\ IsFiniteSet(Taken(s, T)) /\ N \cap s.rows = {}
  /\ Moved(s, t, i, -need, s.item[i].qty - need)

LEMMA ConsumingIs ==
  ASSUME NEW s, NEW t, NEW i \in Items, NEW sup, NEW need \in Nat, NEW line \in Outlets, NEW kind \in RowKinds,
         Consumes(s, t, i, sup, need, line, kind)
  PROVE  ConsumedFacts(s, t, i, Plan(s, i, sup, need), NewRowsOf(s, kind, line, Plan(s, i, sup, need)), need, line, kind)
<1>1. s \in Ledger /\ need <= LotQty(s, i)
  BY DEF Consumes, Sound, Typed
<1>2. PICK T, N : T = Plan(s, i, sup, need) /\ N = NewRowsOf(s, kind, line, T)
  OBVIOUS
<1>3. Consumed(s, t, i, T, line, kind, need)
  BY <1>1, <1>2, ConsumeIs DEF Consumes
<1>4. \A k \in DOMAIN s.lots : T[k] \in Nat /\ T[k] <= s.lots[k].left /\ (T[k] > 0 => k \in OpenLots(s, i))
  BY <1>1, <1>2, PlanIs
<1>5. Sum(T, OpenLots(s, i)) = need
  BY <1>1, <1>2, PlanIs
<1>6. /\ \A r \in N : /\ r \in RowType /\ r.batch = s.batch + 1 /\ r.kind = kind /\ r.lot \in Taken(s, T) /\ r.line = line
                      /\ r.qty = T[r.lot] /\ r.cost = s.lots[r.lot].cost /\ r.back = 0 /\ r = NewRow(s, kind, line, T, r.lot)
      /\ \A k \in Taken(s, T) : NewRow(s, kind, line, T, k) \in N /\ NewRow(s, kind, line, T, k).lot = k
      /\ IsFiniteSet(N) /\ IsFiniteSet(Taken(s, T))
  <2>1. \A k \in DOMAIN s.lots : T[k] \in Nat
    BY <1>4
  <2> QED BY <1>1, <1>2, <2>1, NewRows1
<1>7. N \cap s.rows = {}
  <2>1. \A r \in s.rows : r.batch <= s.batch /\ r.batch \in Nat /\ s.batch \in Nat
    BY <1>1 DEF Consumes, Sound, RowsOk, Ledger
  <2> QED BY <1>6, <2>1
<1>8. ConsumedFacts(s, t, i, T, N, need, line, kind)
  BY <1>1, <1>2, <1>3, <1>4, <1>5, <1>6, <1>7 DEF Consumed, ConsumedFacts
<1> QED BY <1>2, <1>8

LEMMA ConsumedSound ==
  ASSUME NEW s, NEW t, NEW i \in Items, NEW sup, NEW need \in Nat, NEW line \in Outlets, NEW kind \in RowKinds,
         Consumes(s, t, i, sup, need, line, kind)
  PROVE  Sound(t)
<1>1. PICK T, N : ConsumedFacts(s, t, i, T, N, need, line, kind)
  BY ConsumingIs
<1>2. Typed(s) /\ RowsOk(s) /\ LotsOk(s) /\ BooksOk(s) /\ InStock(s, i) /\ s \in Ledger /\ t \in Ledger
  BY <1>1 DEF Consumes, Sound, Typed, ConsumedFacts
<1>3. Typed(t)
  <2>1. IsFiniteSet(s.rows \cup N)
    BY <1>1, <1>2, FS_Union DEF ConsumedFacts, Typed
  <2> QED BY <1>1, <1>2, <2>1 DEF ConsumedFacts, Typed
<1>4. Taken(s, T) \subseteq OpenLots(s, i)
  BY <1>1 DEF ConsumedFacts, Taken
<1>5. \A k \in DOMAIN s.lots : /\ t.lots[k].item = s.lots[k].item /\ t.lots[k].initial = s.lots[k].initial
                               /\ t.lots[k].cost = s.lots[k].cost
                               /\ t.lots[k].live <=> s.lots[k].live
  BY <1>1 DEF ConsumedFacts, Alike
<1>6. DOMAIN t.lots = DOMAIN s.lots
  BY <1>1 DEF ConsumedFacts, Alike
<1>7. RowsOk(t)
  <2>1. s.batch \in Nat /\ t.batch = s.batch + 1
    BY <1>1 DEF ConsumedFacts, Ledger
  <2>2. ASSUME NEW r \in t.rows
        PROVE  /\ r.batch \in 1..t.batch /\ r.lot \in DOMAIN t.lots /\ r.back <= r.qty
               /\ r.line \in Lines => t.lots[r.lot].item = ItemOf[r.line]
               /\ r.kind = "WRITE_OFF" => r.line = NoLine
    <3>1. CASE r \in s.rows
      BY <1>2, <1>5, <1>6, <2>1, <3>1 DEF RowsOk
    <3>2. CASE r \in N
      <4>1. /\ r.batch = s.batch + 1 /\ r.kind = kind /\ r.lot \in OpenLots(s, i) /\ r.line = line
            /\ r.back = 0 /\ r.qty \in Nat
        BY <1>1, <1>4, <3>2 DEF ConsumedFacts, RowType
      <4>2. r.lot \in DOMAIN s.lots /\ s.lots[r.lot].item = i
        BY <4>1 DEF OpenLots
      <4> QED BY <1>5, <1>6, <2>1, <4>1, <4>2 DEF Consumes
    <3> QED BY <1>1, <3>1, <3>2 DEF ConsumedFacts
  <2>3. ASSUME NEW q \in t.rows, NEW r \in t.rows, q.batch = r.batch, q.lot = r.lot PROVE q = r
    <3>1. CASE q \in s.rows /\ r \in s.rows
      BY <1>2, <2>3, <3>1 DEF RowsOk
    <3>2. CASE q \in N /\ r \in N
      <4>1. q = NewRow(s, kind, line, T, q.lot) /\ r = NewRow(s, kind, line, T, r.lot)
        BY <1>1, <3>2 DEF ConsumedFacts
      <4> QED BY <2>3, <4>1
    <3>3. \A x \in s.rows, y \in N : x.batch # y.batch
      <4>1. \A x \in s.rows : x.batch <= s.batch /\ x.batch \in Nat
        BY <1>2, <2>1 DEF RowsOk
      <4>2. \A y \in N : y.batch = s.batch + 1
        BY <1>1 DEF ConsumedFacts
      <4> QED BY <2>1, <4>1, <4>2
    <3> QED BY <1>1, <2>3, <3>1, <3>2, <3>3 DEF ConsumedFacts
  <2> QED BY <2>2, <2>3 DEF RowsOk
<1>8. LotsOk(t)
  <2> SUFFICES ASSUME NEW k \in DOMAIN s.lots
               PROVE  /\ t.lots[k].left = t.lots[k].initial - Sum(Rest, On(t, k))
                      /\ ~t.lots[k].live => On(t, k) = {}
                      /\ t.item[t.lots[k].item].created
    BY <1>6 DEF LotsOk
  <2>1. s.lots[k].item \in Items /\ s.lots[k].initial \in Nat
    BY <1>2, LotsFinite DEF LotType
  <2>2. t.item[t.lots[k].item].created
    BY <1>1, <1>2, <1>5, <2>1 DEF ConsumedFacts, Moved, LotsOk
  <2>3. s.lots[k].left = s.lots[k].initial - Sum(Rest, On(s, k)) /\ (~s.lots[k].live => On(s, k) = {})
    BY <1>2 DEF LotsOk
  <2>4. On(s, k) \in SUBSET s.rows /\ IsFiniteSet(On(s, k)) /\ \A r \in On(s, k) : Rest[r] \in Int
    BY <1>2, RowFacts
  <2>5. Sum(Rest, On(s, k)) \in Int
    BY <2>4, SumType
  <2>6. CASE k \in Taken(s, T)
    <3>1. PICK n : n = NewRow(s, kind, line, T, k)
      OBVIOUS
    <3>2. n \in N /\ n.lot = k /\ n \in RowType /\ n.qty = T[k] /\ n.back = 0 /\ n \notin s.rows /\ T[k] \in Nat
      BY <1>1, <2>6, <3>1 DEF ConsumedFacts
    <3>3. On(t, k) = On(s, k) \cup {n}
      <4>1. \A r \in N : r.lot = k => r = n
        BY <1>1, <3>1 DEF ConsumedFacts
      <4> QED BY <1>1, <3>2, <4>1 DEF ConsumedFacts, On
    <3>4. Rest[n] = T[k]
      BY <3>2 DEF Rest, Remaining
    <3>5. Sum(Rest, On(s, k) \cup {n}) = Rest[n] + Sum(Rest, On(s, k))
      <4>1. n \notin On(s, k) /\ \A r \in On(s, k) \cup {n} : Rest[r] \in Int
        BY <2>4, <3>2, <3>4
      <4> QED BY <2>4, <4>1, SumPut
    <3>6. PICK a, b, c \in Int : a = Sum(Rest, On(s, k)) /\ b = T[k] /\ c = s.lots[k].initial
      BY <2>1, <2>5, <3>2
    <3>7. Sum(Rest, On(t, k)) = b + a /\ s.lots[k].left = c - a
      BY <2>3, <3>3, <3>4, <3>5, <3>6
    <3>8. t.lots[k].left = c - a - b
      BY <1>1, <3>6, <3>7 DEF ConsumedFacts
    <3>9. t.lots[k].left = c - (b + a)
      BY <3>8
    <3>10. t.lots[k].live
      BY <1>4, <1>5, <2>6 DEF OpenLots
    <3> QED BY <1>5, <2>2, <3>6, <3>7, <3>9, <3>10
  <2>7. CASE k \notin Taken(s, T)
    <3>1. T[k] = 0 /\ s.lots[k].left \in Nat
      BY <1>1, <1>2, <2>7, LotsFinite DEF ConsumedFacts, Taken, LotType
    <3>2. On(t, k) = On(s, k)
      BY <1>1, <2>7 DEF ConsumedFacts, On
    <3>3. t.lots[k].left = s.lots[k].left
      BY <1>1, <3>1 DEF ConsumedFacts
    <3> QED BY <1>5, <2>2, <2>3, <3>2, <3>3
  <2> QED BY <2>6, <2>7
<1>9. \A j \in Items \ {i} : LotQty(t, j) = LotQty(s, j) /\ LotValue(t, j) = LotValue(s, j)
  <2> SUFFICES ASSUME NEW j \in Items \ {i} PROVE LotQty(t, j) = LotQty(s, j) /\ LotValue(t, j) = LotValue(s, j)
    OBVIOUS
  <2>1. \A k \in DOMAIN s.lots : s.lots[k].item = j => t.lots[k].left = s.lots[k].left
    <3> SUFFICES ASSUME NEW k \in DOMAIN s.lots, s.lots[k].item = j PROVE t.lots[k].left = s.lots[k].left
      OBVIOUS
    <3>1. T[k] = 0 /\ s.lots[k].left \in Nat
      BY <1>1, <1>2, LotsFinite DEF ConsumedFacts, OpenLots, LotType
    <3> QED BY <1>1, <3>1 DEF ConsumedFacts
  <2>2. OpenLots(t, j) = OpenLots(s, j)
    BY <1>5, <1>6, <2>1 DEF OpenLots
  <2>3. \A k \in OpenLots(s, j) : t.lots[k].left = s.lots[k].left /\ t.lots[k].cost = s.lots[k].cost
    BY <1>5, <2>1 DEF OpenLots
  <2> QED BY <1>2, <2>2, <2>3, OtherLots
<1>10. LotQty(s, i) = LotQty(t, i) + need /\ LotQty(s, i) \in Nat /\ LotQty(t, i) \in Nat
  <2>1. PICK H : H = Held(s, i)
    OBVIOUS
  <2>2. Held(t, i) = H /\ IsFiniteSet(H) /\ H \in SUBSET (DOMAIN s.lots)
    BY <1>2, <1>5, <1>6, <2>1, LotsFinite DEF Held
  <2>3. LotQty(s, i) = Sum(Left(s), H) /\ LotQty(t, i) = Sum(Left(t), H) /\ LotQty(s, i) \in Nat /\ LotQty(t, i) \in Nat
    BY <1>2, <2>1, <2>2, HeldQty
  <2>4. \A k \in H : Left(t)[k] \in Int /\ T[k] \in Int /\ Left(s)[k] = Left(t)[k] + T[k]
    <3> SUFFICES ASSUME NEW k \in H PROVE Left(t)[k] \in Int /\ T[k] \in Int /\ Left(s)[k] = Left(t)[k] + T[k]
      OBVIOUS
    <3>1. k \in DOMAIN s.lots
      BY <2>2
    <3>2. PICK a, b, c \in Nat : a = Left(s)[k] /\ b = T[k] /\ c = Left(t)[k]
      BY <1>1, <1>2, <1>6, <3>1, Lefts DEF ConsumedFacts
    <3>3. c = a - b
      BY <1>1, <1>2, <1>6, <3>1, <3>2, Lefts DEF ConsumedFacts
    <3> QED BY <3>2, <3>3
  <2>5. Sum(Left(s), H) = Sum(Left(t), H) + Sum(T, H)
    BY <2>2, <2>4, SumPlus
  <2>6. Sum(T, H) = Sum(T, OpenLots(s, i))
    <3>1. OpenLots(s, i) \in SUBSET H
      BY <2>1 DEF OpenLots, Held
    <3>2. \A k \in H \ OpenLots(s, i) : T[k] = 0
      BY <1>1, <2>2 DEF ConsumedFacts
    <3>3. \A k \in H : T[k] \in Int
      BY <2>4
    <3> QED BY <2>2, <3>1, <3>2, <3>3, SumNarrow
  <2>7. Sum(T, OpenLots(s, i)) = need
    BY <1>1 DEF ConsumedFacts
  <2> QED BY <2>3, <2>5, <2>6, <2>7
<1>11. BooksOk(t)
  <2>1. Moved(s, t, i, -need, s.item[i].qty - need)
    BY <1>1 DEF ConsumedFacts
  <2>2. s.item[i].qty = LotQty(s, i)
    BY <1>2 DEF BooksOk, Cached
  <2>3. s.item[i].created
    BY <1>2 DEF InStock
  <2>4. LotQty(t, i) = LotQty(s, i) + (-need) /\ s.item[i].qty - need = LotQty(t, i) /\ -need \in Int
    BY <1>10, <2>2
  <2> QED BY <1>2, <1>9, <2>1, <2>3, <2>4, BooksKept
<1> QED BY <1>3, <1>7, <1>8, <1>11 DEF Sound

-----------------------------------------------------------------------------
(***************************************************************************)
(* What can be reversed and what was written off.                          *)
(***************************************************************************)
LEMMA RestType ==
  ASSUME NEW s, Typed(s), RowsOk(s), NEW r \in s.rows
  PROVE  r \in RowType /\ Rest[r] = Remaining(r) /\ Rest[r] \in Nat /\ Rest[r] \in Int
<1>1. r \in RowType /\ r.back <= r.qty
  BY DEF Typed, Ledger, RowsOk
<1>2. PICK a, b \in Nat : a = r.qty /\ b = r.back
  BY <1>1 DEF RowType
<1>3. Rest[r] = Remaining(r) /\ Remaining(r) = a - b /\ b <= a
  BY <1>1, <1>2 DEF Rest, Remaining
<1> QED BY <1>1, <1>3

LEMMA ReversibleIs ==
  ASSUME NEW s, Typed(s), RowsOk(s), NEW l
  PROVE  /\ ReversibleQty(s, l) = Sum(Rest, RowsOf(s, l)) /\ ReversibleQty(s, l) \in Nat
         /\ Reversible(s, l) = {} => ReversibleQty(s, l) = 0
<1>1. /\ IsFiniteSet(RowsOf(s, l)) /\ IsFiniteSet(Reversible(s, l))
      /\ Reversible(s, l) \in SUBSET RowsOf(s, l) /\ RowsOf(s, l) \in SUBSET s.rows
  BY FS_Subset DEF RowsOf, Reversible, Typed
<1>2. \A r \in RowsOf(s, l) : Rest[r] = Remaining(r) /\ Rest[r] \in Nat /\ Rest[r] \in Int
  BY <1>1, RestType
<1>3. PICK f : f = [r \in Reversible(s, l) |-> Remaining(r)]
  OBVIOUS
<1>4. ReversibleQty(s, l) = Sum(f, Reversible(s, l))
  BY <1>3 DEF ReversibleQty, SumFunction, Sum
<1>5. Sum(f, Reversible(s, l)) = Sum(Rest, Reversible(s, l))
  <2>1. \A r \in Reversible(s, l) : f[r] = Rest[r]
    BY <1>1, <1>2, <1>3
  <2> QED BY <1>1, <2>1, SumSame
<1>6. Sum(Rest, RowsOf(s, l)) = Sum(Rest, Reversible(s, l))
  <2>1. \A r \in RowsOf(s, l) \ Reversible(s, l) : Rest[r] = 0
    BY <1>1, <1>2 DEF RowsOf, Reversible
  <2>2. \A r \in RowsOf(s, l) : Rest[r] \in Int
    BY <1>2
  <2> QED BY <1>1, <2>1, <2>2, SumNarrow
<1>7. Sum(Rest, RowsOf(s, l)) \in Nat
  BY <1>1, <1>2, SumType
<1> QED BY <1>4, <1>5, <1>6, <1>7, SumEmpty

\* What a row took and did not give back, at its cost.
Worth == [r \in RowType |-> Remaining(r) * r.cost]

LEMMA WorthType ==
  ASSUME NEW s, Typed(s), RowsOk(s), NEW r \in s.rows
  PROVE  Worth[r] = Remaining(r) * r.cost /\ Worth[r] \in Nat /\ Worth[r] \in Int
<1>1. r \in RowType /\ Remaining(r) \in Nat
  BY RestType
<1>2. PICK a, b \in Nat : a = Remaining(r) /\ b = r.cost
  BY <1>1 DEF RowType
<1>3. Worth[r] = a * b
  BY <1>1, <1>2 DEF Worth
<1> QED BY <1>2, <1>3, Products

RowsSum(s, i, T, N, need) ==
  /\ Sum(Rest, N) = need
  /\ Sum(Worth, N) = Sum([k \in DOMAIN s.lots |-> T[k] * s.lots[k].cost], OpenLots(s, i))
  /\ \A r \in N : Rest[r] \in Int /\ Worth[r] \in Int

\* The rows a consumption writes are worth what it takes.
LEMMA NewRowsSum ==
  ASSUME NEW s, NEW t, NEW i \in Items, NEW T, NEW N, NEW need \in Nat, NEW line, NEW kind,
         ConsumedFacts(s, t, i, T, N, need, line, kind)
  PROVE  RowsSum(s, i, T, N, need)
<1>1. PICK m : m = [k \in Taken(s, T) |-> NewRow(s, kind, line, T, k)]
  OBVIOUS
<1>2. N = {m[k] : k \in Taken(s, T)}
  BY <1>1 DEF ConsumedFacts
<1>3. \A j, k \in Taken(s, T) : m[j] = m[k] => j = k
  BY <1>1 DEF ConsumedFacts
<1>4. /\ OpenLots(s, i) \in SUBSET (DOMAIN s.lots) /\ IsFiniteSet(OpenLots(s, i))
      /\ Taken(s, T) \in SUBSET OpenLots(s, i) /\ IsFiniteSet(Taken(s, T))
  BY LotsFinite DEF ConsumedFacts, OpenLots, Taken
<1>5. PICK e : e = [k \in DOMAIN s.lots |-> T[k] * s.lots[k].cost]
  OBVIOUS
<1>6. \A k \in OpenLots(s, i) : T[k] \in Nat /\ T[k] \in Int /\ s.lots[k].cost \in Nat /\ e[k] = T[k] * s.lots[k].cost
  BY <1>4, <1>5, LotsFinite DEF ConsumedFacts, LotType
<1>7. \A k \in OpenLots(s, i) : e[k] \in Int
  BY <1>6, Products
<1>8. ASSUME NEW k \in OpenLots(s, i) \ Taken(s, T) PROVE T[k] = 0 /\ e[k] = 0
  BY <1>4, <1>6 DEF Taken
<1>9. ASSUME NEW k \in Taken(s, T) PROVE Rest[m[k]] = T[k] /\ Worth[m[k]] = e[k]
  <2>1. PICK r : r = m[k]
    OBVIOUS
  <2>2. r \in N /\ r.lot = k /\ r \in RowType /\ r.qty = T[k] /\ r.cost = s.lots[k].cost /\ r.back = 0
    BY <1>1, <2>1 DEF ConsumedFacts
  <2>3. T[k] \in Nat /\ e[k] = T[k] * s.lots[k].cost
    BY <1>4, <1>6
  <2>4. Remaining(r) = T[k]
    BY <2>2, <2>3 DEF Remaining
  <2> QED BY <2>1, <2>2, <2>3, <2>4 DEF Rest, Worth
<1>10. Sum(Rest, N) = Sum(T, Taken(s, T)) /\ Sum(Worth, N) = Sum(e, Taken(s, T))
  <2>1. (\A k \in Taken(s, T) : T[k] \in Int /\ Rest[m[k]] = T[k]) /\ (\A k \in Taken(s, T) : e[k] \in Int /\ Worth[m[k]] = e[k])
    BY <1>4, <1>6, <1>7, <1>9
  <2> QED BY <1>2, <1>3, <1>4, <2>1, SumRenamed
<1>11. Sum(T, Taken(s, T)) = Sum(T, OpenLots(s, i)) /\ Sum(e, Taken(s, T)) = Sum(e, OpenLots(s, i))
  <2>1. (\A k \in OpenLots(s, i) : T[k] \in Int) /\ (\A k \in OpenLots(s, i) : e[k] \in Int)
    BY <1>6, <1>7
  <2>2. (\A k \in OpenLots(s, i) \ Taken(s, T) : T[k] = 0) /\ (\A k \in OpenLots(s, i) \ Taken(s, T) : e[k] = 0)
    BY <1>8
  <2> QED BY <1>4, <2>1, <2>2, SumNarrow
<1>12. \A r \in N : Rest[r] \in Int /\ Worth[r] \in Int
  <2> SUFFICES ASSUME NEW r \in N PROVE Rest[r] \in Int /\ Worth[r] \in Int
    OBVIOUS
  <2>1. PICK k \in Taken(s, T) : r = m[k]
    BY <1>2
  <2>2. T[k] \in Int /\ e[k] \in Int
    BY <1>4, <1>6, <1>7
  <2> QED BY <1>9, <2>1, <2>2
<1> QED BY <1>5, <1>10, <1>11, <1>12 DEF ConsumedFacts, RowsSum

LEMMA ConsumedLines ==
  ASSUME NEW s, NEW t, NEW i \in Items, NEW sup, NEW need \in Nat, NEW line \in Outlets, NEW kind \in RowKinds,
         Consumes(s, t, i, sup, need, line, kind), NEW l
  PROVE  (l = line => ReversibleQty(t, l) = ReversibleQty(s, l) + need) /\ (l # line => ReversibleQty(t, l) = ReversibleQty(s, l))
<1>1. PICK T, N : ConsumedFacts(s, t, i, T, N, need, line, kind)
  BY ConsumingIs
<1>2. Sound(s) /\ Sound(t)
  BY ConsumedSound DEF Consumes
<1>3. /\ ReversibleQty(s, l) = Sum(Rest, RowsOf(s, l)) /\ ReversibleQty(s, l) \in Nat
      /\ ReversibleQty(t, l) = Sum(Rest, RowsOf(t, l))
  BY <1>2, ReversibleIs DEF Sound
<1>4. CASE l = line
  <2>1. RowsOf(t, l) = RowsOf(s, l) \cup N /\ RowsOf(s, l) \cap N = {}
    BY <1>1, <1>4 DEF ConsumedFacts, RowsOf
  <2>2. IsFiniteSet(RowsOf(s, l)) /\ IsFiniteSet(N)
    BY <1>1, <1>2, FS_Subset DEF RowsOf, Sound, Typed, ConsumedFacts
  <2>3. \A r \in RowsOf(s, l) : Rest[r] \in Int
    BY <1>2, RestType DEF Sound, RowsOf
  <2>4. Sum(Rest, N) = need /\ \A r \in N : Rest[r] \in Int
    <3>1. RowsSum(s, i, T, N, need)
      BY <1>1, NewRowsSum
    <3> QED BY <3>1 DEF RowsSum
  <2>5. \A r \in RowsOf(s, l) \cup N : Rest[r] \in Int
    BY <2>3, <2>4
  <2>6. Sum(Rest, RowsOf(s, l) \cup N) = Sum(Rest, RowsOf(s, l)) + Sum(Rest, N)
    BY <2>1, <2>2, <2>5, SumUnion
  <2> QED BY <1>3, <1>4, <2>1, <2>4, <2>6
<1>5. CASE l # line
  <2>1. RowsOf(t, l) = RowsOf(s, l)
    BY <1>1, <1>5 DEF ConsumedFacts, RowsOf
  <2> QED BY <1>3, <1>5, <2>1
<1> QED BY <1>4, <1>5

LEMMA PlanCostIs ==
  ASSUME NEW s \in Ledger, NEW i, NEW sup, NEW need
  PROVE  PlanCost(s, i, sup, need) = Sum([k \in DOMAIN s.lots |-> Plan(s, i, sup, need)[k] * s.lots[k].cost], OpenLots(s, i))
<1>1. PICK f : f = [k \in OpenLots(s, i) |-> Take(s, i, sup, need, k) * s.lots[k].cost]
  OBVIOUS
<1>2. PICK g : g = [k \in DOMAIN s.lots |-> Plan(s, i, sup, need)[k] * s.lots[k].cost]
  OBVIOUS
<1>3. OpenLots(s, i) \subseteq DOMAIN s.lots /\ IsFiniteSet(OpenLots(s, i))
  BY LotsFinite DEF OpenLots
<1>4. \A k \in OpenLots(s, i) : f[k] = g[k]
  BY <1>1, <1>2, <1>3 DEF Plan
<1>5. Sum(f, OpenLots(s, i)) = Sum(g, OpenLots(s, i))
  BY <1>3, <1>4, SumSame
<1> QED BY <1>1, <1>2, <1>5 DEF PlanCost, SumFunction, Sum

-----------------------------------------------------------------------------
(***************************************************************************)
(* The plan of a reversal.                                                 *)
(***************************************************************************)
Undoing(s) == {p \in RowType \X RowType : ReversedBefore(s, p[1], p[2])}
After(s, line, r) == {q \in Reversible(s, line) : ReversedBefore(s, q, r)}
Gives(s, line, qty) == [r \in RowType |-> GiveBack(s, line, qty, r)]

LEMMA Undoes ==
  ASSUME NEW s, NEW q \in RowType, NEW r \in RowType
  PROVE  <<q, r>> \in Undoing(s) <=> ReversedBefore(s, q, r)
<1>1. PICK p : p = <<q, r>>
  OBVIOUS
<1>2. p \in RowType \X RowType /\ p[1] = q /\ p[2] = r
  BY <1>1
<1>3. p \in Undoing(s) <=> ReversedBefore(s, p[1], p[2])
  BY <1>2, Zenon DEF Undoing
<1> QED BY <1>1, <1>2, <1>3, Zenon

LEMMA UndoingOrder ==
  ASSUME NEW s, Typed(s), RowsOk(s), NEW R \in SUBSET s.rows PROVE Ordered(Undoing(s), R)
<1>0. s \in Ledger
  BY DEF Typed
<1>1. \A r \in R : r \in RowType /\ r.batch \in Nat /\ r.lot \in Nat /\ s.lots[r.lot].at \in Nat
  <2> SUFFICES ASSUME NEW r \in R PROVE r \in RowType /\ r.batch \in Nat /\ r.lot \in Nat /\ s.lots[r.lot].at \in Nat
    OBVIOUS
  <2>1. r \in RowType /\ r.lot \in DOMAIN s.lots
    BY DEF Typed, Ledger, RowsOk
  <2> QED BY <1>0, <2>1, LotsFinite DEF RowType, LotType
<1>2. \A q, r \in R : <<q, r>> \in Undoing(s) <=> ReversedBefore(s, q, r)
  BY <1>1, Undoes
<1>3. \A r \in R : ~ReversedBefore(s, r, r)
  BY <1>1 DEF ReversedBefore, ReceivedBefore
<1>4. \A q, r \in R : q # r => ReversedBefore(s, q, r) \/ ReversedBefore(s, r, q)
  <2> SUFFICES ASSUME NEW q \in R, NEW r \in R, q # r PROVE ReversedBefore(s, q, r) \/ ReversedBefore(s, r, q)
    OBVIOUS
  <2>1. ~(q.batch = r.batch /\ q.lot = r.lot)
    BY DEF RowsOk
  <2> QED BY <1>1, <2>1 DEF ReversedBefore, ReceivedBefore
<1>5. \A p, q, r \in R : ReversedBefore(s, p, q) /\ ReversedBefore(s, q, r) => ReversedBefore(s, p, r)
  BY <1>1 DEF ReversedBefore, ReceivedBefore
<1> QED BY <1>2, <1>3, <1>4, <1>5, Zenon DEF Ordered

LEMMA GiveIs ==
  ASSUME NEW s, Typed(s), RowsOk(s), NEW line, NEW qty \in Nat, NEW r \in s.rows
  PROVE  /\ r \notin Reversible(s, line) => GiveBack(s, line, qty, r) = 0
         /\ r \in Reversible(s, line) => GiveBack(s, line, qty, r) = Clamp(qty - Sum(Rest, After(s, line, r)), Rest[r])
         /\ Sum(Rest, After(s, line, r)) \in Nat
<1>1. After(s, line, r) \in SUBSET s.rows /\ IsFiniteSet(After(s, line, r))
  BY FS_Subset DEF After, Reversible, Typed
<1>2. PICK f : f = [q \in After(s, line, r) |-> Remaining(q)]
  OBVIOUS
<1>3. \A q \in After(s, line, r) : f[q] = Rest[q]
  BY <1>1, <1>2, RestType
<1>4. Sum(f, After(s, line, r)) = Sum(Rest, After(s, line, r))
  BY <1>1, <1>3, SumSame
<1>5. SumFunction(f) = Sum(f, After(s, line, r))
  BY <1>2 DEF SumFunction, Sum
<1>6. GiveBack(s, line, qty, r) = IF r \in Reversible(s, line) THEN Clamp(qty - SumFunction(f), Remaining(r)) ELSE 0
  BY <1>2 DEF GiveBack, After
<1>7. \A q \in After(s, line, r) : Rest[q] \in Nat
  BY <1>1, RestType
<1>8. Sum(Rest, After(s, line, r)) \in Nat
  BY <1>1, <1>7, SumType
<1> QED BY <1>4, <1>5, <1>6, <1>8, RestType

LEMMA GivesIs ==
  ASSUME NEW s, Typed(s), RowsOk(s), NEW line, NEW qty \in Nat
  PROVE  /\ \A r \in s.rows : LET G == Gives(s, line, qty)
                              IN /\ G[r] = GiveBack(s, line, qty, r)
                                 /\ G[r] \in Nat /\ G[r] <= Rest[r] /\ (r \notin Reversible(s, line) => G[r] = 0)
         /\ qty <= ReversibleQty(s, line) => Sum(Gives(s, line, qty), Reversible(s, line)) = qty
<1> DEFINE G == Gives(s, line, qty)
           S == Reversible(s, line)
<1>1. S \in SUBSET s.rows /\ IsFiniteSet(S)
  BY FS_Subset DEF Reversible, Typed
<1>a. \A r \in s.rows : G[r] = GiveBack(s, line, qty, r)
  BY DEF Gives, Typed, Ledger
<1>2. ASSUME NEW r \in s.rows PROVE G[r] \in Nat /\ G[r] <= Rest[r] /\ (r \notin S => G[r] = 0)
  <2>1. G[r] = GiveBack(s, line, qty, r)
    BY <1>a
  <2>2. PICK b \in Nat : b = Sum(Rest, After(s, line, r))
    BY GiveIs
  <2>3. PICK l \in Nat : l = Rest[r]
    BY RestType
  <2>4. CASE r \in S
    <3>1. G[r] = Clamp(qty - b, l)
      <4>1. G[r] = Clamp(qty - Sum(Rest, After(s, line, r)), Rest[r])
        BY <2>1, <2>4, GiveIs
      <4> QED BY ONLY <2>2, <2>3, <4>1, Zenon
    <3>2. qty - b \in Int
      OBVIOUS
    <3>3. PICK c \in Nat : c = Clamp(qty - b, l) /\ c <= l
      BY <3>2, Clamped
    <3> QED BY <2>3, <2>4, <3>1, <3>3
  <2>5. CASE r \notin S
    <3>1. G[r] = 0
      BY <2>1, <2>5, GiveIs
    <3> QED BY <2>3, <3>1
  <2> QED BY <2>4, <2>5
<1>3. ASSUME qty <= ReversibleQty(s, line) PROVE Sum(G, S) = qty
  <2>1. Ordered(Undoing(s), S)
    BY <1>1, UndoingOrder
  <2>2. \A r \in S : Rest[r] \in Nat
    BY <1>1, RestType
  <2>3. ASSUME NEW r \in S PROVE G[r] = Clamp(qty - Sum(Rest, {q \in S : <<q, r>> \in Undoing(s)}), Rest[r])
    <3>1. {q \in S : <<q, r>> \in Undoing(s)} = After(s, line, r)
      <4>1. \A q \in S : <<q, r>> \in Undoing(s) <=> ReversedBefore(s, q, r)
        BY <1>1, RestType, Undoes
      <4> QED BY <4>1 DEF After
    <3>2. r \in s.rows /\ G[r] = GiveBack(s, line, qty, r)
      BY <1>1, <1>a
    <3>3. GiveBack(s, line, qty, r) = Clamp(qty - Sum(Rest, After(s, line, r)), Rest[r])
      BY <3>2, GiveIs
    <3> HIDE DEF G, S
    <3> QED BY <3>1, <3>2, <3>3
  <2>4. Sum(Rest, S) = ReversibleQty(s, line)
    <3>1. PICK f : f = [r \in S |-> Remaining(r)]
      OBVIOUS
    <3>2. \A r \in S : f[r] = Rest[r]
      BY <1>1, <3>1, RestType
    <3>3. Sum(f, S) = Sum(Rest, S)
      <4> HIDE DEF S
      <4> QED BY <1>1, <3>2, SumSame
    <3> QED BY <3>1, <3>3 DEF ReversibleQty, SumFunction, Sum
  <2>5. Sum(G, S) = IF qty <= Sum(Rest, S) THEN qty ELSE Sum(Rest, S)
    <3> HIDE DEF G, S
    <3>1. PICK w, R : w = Rest /\ R = Undoing(s)
      OBVIOUS
    <3>2. /\ IsFiniteSet(S) /\ Ordered(R, S) /\ \A r \in S : w[r] \in Nat
          /\ \A r \in S : G[r] = Clamp(qty - Sum(w, {q \in S : <<q, r>> \in R}), w[r])
      BY <1>1, <2>1, <2>2, <2>3, <3>1
    <3>3. Sum(G, S) = IF qty <= Sum(w, S) THEN qty ELSE Sum(w, S)
      BY <3>2, Greedy
    <3> QED BY <3>1, <3>3
  <2> QED BY <1>3, <2>4, <2>5
<1> QED BY <1>a, <1>2, <1>3

-----------------------------------------------------------------------------
(***************************************************************************)
(* A reversal.                                                             *)
(***************************************************************************)
\* What a reversal of an order line of item i needs.
Reverses(s, t, i, line, qty) ==
  /\ Sound(s) /\ InStock(s, i) /\ line \in Lines /\ ItemOf[line] = i
  /\ qty <= ReversibleQty(s, line)
  /\ t = ReverseConsumption(s, i, line, qty)

Given(G, r) == [r EXCEPT !.back = r.back + G[r]]
SameRow(q, r) ==
  /\ r \in RowType /\ r.batch = q.batch /\ r.kind = q.kind /\ r.lot = q.lot /\ r.line = q.line
  /\ r.qty = q.qty /\ r.cost = q.cost

\* The row r after the reversal is M[r], with G[r] more given back.
RowsGiven(s, t, G, M, line) ==
  /\ \A r \in s.rows : /\ SameRow(r, M[r]) /\ G[r] \in Nat /\ G[r] <= Rest[r] /\ M[r].back = r.back + G[r]
                       /\ M[r] = Given(G, r) /\ (G[r] = 0 => M[r] = r) /\ (G[r] > 0 => r \in Reversible(s, line))
  /\ t.rows = {M[r] : r \in s.rows}

LotsRefilled(s, t, G, H) ==
  \A k \in DOMAIN s.lots : /\ H[k] = Sum(G, On(s, k)) /\ H[k] \in Nat /\ t.lots[k].left = s.lots[k].left + H[k]
                           /\ \A r \in On(s, k) : G[r] \in Int

ReversedFacts(s, t, i, G, M, H, line, qty) ==
  /\ s \in Ledger /\ t \in Ledger /\ Alike(s, t)
  /\ RowsGiven(s, t, G, M, line) /\ LotsRefilled(s, t, G, H)
  /\ Sum(G, Reversible(s, line)) = qty /\ \A r \in s.rows : G[r] = GiveBack(s, line, qty, r)
  /\ t.batch = s.batch
  /\ Moved(s, t, i, qty, s.item[i].qty + qty)

LEMMA GivenIs ==
  ASSUME NEW r \in RowType, NEW G, G[r] \in Nat
  PROVE  /\ SameRow(r, Given(G, r)) /\ Given(G, r).back = r.back + G[r]
         /\ G[r] = 0 => Given(G, r) = r
<1>1. PICK b \in Nat : b = r.back + G[r]
  BY DEF RowType
<1>2. PICK m : m = [r EXCEPT !.back = b]
  OBVIOUS
<1>3. SameRow(r, m) /\ m.back = b
  BY <1>2 DEF SameRow, RowType
<1>4. Given(G, r) = m
  BY <1>1, <1>2 DEF Given
<1>5. ASSUME G[r] = 0 PROVE m = r
  <2>1. b = r.back
    BY <1>1, <1>5 DEF RowType
  <2>2. r = [batch |-> r.batch, kind |-> r.kind, lot |-> r.lot, line |-> r.line, qty |-> r.qty, cost |-> r.cost, back |-> r.back]
    BY DEF RowType
  <2> QED BY <1>2, <2>1, <2>2
<1> QED BY <1>1, <1>3, <1>4, <1>5

LEMMA ReversingIs ==
  ASSUME NEW s, NEW t, NEW i \in Items, NEW line, NEW qty \in Nat, Reverses(s, t, i, line, qty)
  PROVE  \E G, M, H : ReversedFacts(s, t, i, G, M, H, line, qty)
<1>1. s \in Ledger /\ Typed(s) /\ RowsOk(s) /\ LotsOk(s) /\ qty <= ReversibleQty(s, line)
  BY DEF Reverses, Sound, Typed
<1>2. PICK G : G = Gives(s, line, qty)
  OBVIOUS
<1>3. \A r \in s.rows : /\ r \in RowType /\ G[r] = GiveBack(s, line, qty, r)
                        /\ G[r] \in Nat /\ G[r] \in Int /\ G[r] <= Rest[r] /\ (r \notin Reversible(s, line) => G[r] = 0)
  BY <1>1, <1>2, GivesIs, RestType
<1>4. Sum(G, Reversible(s, line)) = qty
  BY <1>1, <1>2, GivesIs
<1>5. PICK M : M = [r \in s.rows |-> Given(G, r)]
  OBVIOUS
<1>6. ASSUME NEW r \in s.rows
      PROVE  /\ SameRow(r, M[r]) /\ G[r] \in Nat /\ G[r] <= Rest[r] /\ M[r].back = r.back + G[r]
             /\ M[r] = Given(G, r) /\ (G[r] = 0 => M[r] = r) /\ (G[r] > 0 => r \in Reversible(s, line))
  <2>1. r \in RowType /\ G[r] \in Nat
    BY <1>3
  <2> QED BY <1>3, <1>5, <2>1, GivenIs
<1>7. PICK H : H = [k \in DOMAIN s.lots |-> Sum(G, On(s, k))]
  OBVIOUS
<1>8. ASSUME NEW k \in DOMAIN s.lots
      PROVE  /\ H[k] \in Nat /\ H[k] \in Int
             /\ SumFunction([r \in {r \in Reversible(s, line) : r.lot = k} |-> GiveBack(s, line, qty, r)]) = H[k]
  <2>1. PICK F : F = {r \in Reversible(s, line) : r.lot = k}
    OBVIOUS
  <2>2. On(s, k) \in SUBSET s.rows /\ IsFiniteSet(On(s, k)) /\ F \in SUBSET On(s, k) /\ IsFiniteSet(F)
    BY <1>1, <2>1, FS_Subset DEF On, Reversible, Typed
  <2>3. \A r \in On(s, k) \ F : G[r] = 0
    BY <1>3, <2>1, <2>2 DEF On
  <2>4. \A r \in On(s, k) : G[r] \in Nat /\ G[r] \in Int
    BY <1>3, <2>2
  <2>5. Sum(G, On(s, k)) = Sum(G, F)
    BY <2>2, <2>3, <2>4, SumNarrow
  <2>6. PICK f : f = [r \in F |-> GiveBack(s, line, qty, r)]
    OBVIOUS
  <2>7. \A r \in F : f[r] = G[r]
    BY <1>3, <2>2, <2>6
  <2>8. Sum(f, F) = Sum(G, F)
    BY <2>2, <2>7, SumSame
  <2>9. SumFunction(f) = H[k]
    BY <1>7, <2>5, <2>6, <2>8 DEF SumFunction, Sum
  <2>10. H[k] \in Nat
    BY <1>7, <2>2, <2>4, SumType
  <2> QED BY <2>1, <2>6, <2>9, <2>10
<1>9. PICK lots : lots = More(s, H)
  OBVIOUS
<1>10. Refills(s, lots, H)
  <2>1. \A k \in DOMAIN s.lots : H[k] \in Int /\ s.lots[k].left + H[k] \in Nat
    <3> SUFFICES ASSUME NEW k \in DOMAIN s.lots PROVE H[k] \in Int /\ s.lots[k].left + H[k] \in Nat
      OBVIOUS
    <3>1. s.lots[k].left \in Nat
      BY <1>1, LotsFinite DEF LotType
    <3>2. PICK a, b \in Nat : a = s.lots[k].left /\ b = H[k]
      BY <1>8, <3>1
    <3> QED BY <3>2
  <2> QED BY <1>1, <1>9, <2>1, Refilled
<1>11. PICK rows : rows = {M[r] : r \in s.rows}
  OBVIOUS
<1>12. rows \in SUBSET RowType
  BY <1>6, <1>11 DEF SameRow
<1>13. PICK a \in Int : a = s.item[i].qty + qty
  BY <1>1 DEF Ledger, ItemType
<1>14. PICK v : v = RecordMovement(s, i, qty, a)
  OBVIOUS
<1>15. v \in Ledger /\ v.lots = s.lots /\ v.rows = s.rows /\ v.batch = s.batch /\ Noted(s, v, i, qty, a)
  BY <1>1, <1>14, Recorded, RecordedType DEF Noted
<1>16. PICK w : w = [v EXCEPT !.lots = lots, !.rows = rows]
  OBVIOUS
<1>17. w \in Ledger /\ w.lots = lots /\ w.rows = rows /\ w.batch = s.batch /\ w.item = v.item
  BY <1>10, <1>12, <1>15, <1>16 DEF Ledger, Refills
<1>18. t = RecomputeCaches(w, i)
  <2>1. lots = [k \in DOMAIN s.lots |-> [s.lots[k] EXCEPT
                  !.left = @ + SumFunction([r \in {r \in Reversible(s, line) : r.lot = k} |-> GiveBack(s, line, qty, r)])]]
    BY <1>8, <1>9 DEF More
  <2>2. rows = {[r EXCEPT !.back = @ + GiveBack(s, line, qty, r)] : r \in s.rows}
    <3>1. \A r \in s.rows : M[r] = [r EXCEPT !.back = @ + GiveBack(s, line, qty, r)]
      BY <1>3, <1>6 DEF Given
    <3> QED BY <1>11, <3>1
  <2>3. v = RecordMovement(s, i, qty, s.item[i].qty + qty)
    BY <1>13, <1>14
  <2> QED BY <1>16, <2>1, <2>2, <2>3 DEF Reverses, ReverseConsumption
<1>19. Noted(s, w, i, qty, a)
  BY <1>15, <1>17 DEF Noted
<1>20. t \in Ledger /\ t.lots = w.lots /\ t.rows = w.rows /\ t.batch = w.batch /\ Moved(s, t, i, qty, a)
  BY <1>17, <1>18, <1>19, Entered
<1>21. Alike(s, t)
  BY <1>10, <1>17, <1>20 DEF Alike, Refills
<1>22. RowsGiven(s, t, G, M, line)
  BY <1>6, <1>11, <1>17, <1>20 DEF RowsGiven
<1>23. LotsRefilled(s, t, G, H)
  <2>1. \A k \in DOMAIN s.lots : \A r \in On(s, k) : G[r] \in Int
    BY <1>3 DEF On
  <2> QED BY <1>7, <1>8, <1>10, <1>17, <1>20, <2>1 DEF LotsRefilled, Refills
<1>24. Moved(s, t, i, qty, s.item[i].qty + qty)
  BY <1>13, <1>20
<1>25. ReversedFacts(s, t, i, G, M, H, line, qty)
  BY <1>1, <1>3, <1>4, <1>17, <1>20, <1>21, <1>22, <1>23, <1>24 DEF ReversedFacts
<1> QED BY <1>25

\* What is still out of the rows R, before and after G is given back.
Still(G) == [r \in RowType |-> Rest[r] - G[r]]

LEMMA RowsSettled ==
  ASSUME NEW s, NEW t, NEW G, NEW M, NEW line, Typed(s), RowsOk(s), RowsGiven(s, t, G, M, line), NEW R \in SUBSET s.rows
  PROVE  /\ IsFiniteSet(R) /\ Sum(Rest, {M[r] : r \in R}) \in Int /\ Sum(G, R) \in Nat
         /\ Sum(Rest, R) = Sum(Rest, {M[r] : r \in R}) + Sum(G, R)
<1>1. IsFiniteSet(R)
  BY FS_Subset DEF Typed
<1>2. PICK e : e = Still(G)
  OBVIOUS
<1>3. ASSUME NEW r \in R
      PROVE  /\ e[r] \in Int /\ G[r] \in Int /\ G[r] \in Nat /\ Rest[r] = e[r] + G[r] /\ Rest[M[r]] = e[r]
             /\ Rest[r] \in Int
  <2>1. r \in s.rows /\ r \in RowType /\ Rest[r] = Remaining(r) /\ Rest[r] \in Nat
    BY RestType
  <2>2. SameRow(r, M[r]) /\ G[r] \in Nat /\ M[r].back = r.back + G[r]
    BY <2>1 DEF RowsGiven
  <2>3. e[r] = Rest[r] - G[r]
    BY <1>2, <2>1 DEF Still
  <2>4. PICK a, b, c \in Nat : a = r.qty /\ b = r.back /\ c = G[r]
    BY <2>1, <2>2 DEF RowType
  <2>5. Rest[r] = a - b
    BY <2>1, <2>4 DEF Remaining
  <2>6. Rest[M[r]] = a - (b + c)
    BY <2>2, <2>4 DEF SameRow, Rest, Remaining
  <2> QED BY <2>3, <2>4, <2>5, <2>6
<1>4. Sum(Rest, R) = Sum(e, R) + Sum(G, R)
  <2>1. \A r \in R : e[r] \in Int /\ G[r] \in Int /\ Rest[r] = e[r] + G[r]
    BY <1>3
  <2> QED BY <1>1, <2>1, SumPlus
<1>5. Sum(Rest, {M[r] : r \in R}) = Sum(e, R)
  <2>1. \A q, r \in R : M[q] = M[r] => q = r
    <3> SUFFICES ASSUME NEW q \in R, NEW r \in R, M[q] = M[r] PROVE q = r
      OBVIOUS
    <3>1. q.batch = r.batch /\ q.lot = r.lot
      BY DEF RowsGiven, SameRow
    <3> QED BY <3>1 DEF RowsOk
  <2>2. \A r \in R : e[r] \in Int /\ Rest[M[r]] = e[r]
    BY <1>3
  <2> QED BY <1>1, <2>1, <2>2, SumRenamed
<1>6. Sum(e, R) \in Int /\ Sum(G, R) \in Nat
  <2>1. (\A r \in R : e[r] \in Int) /\ (\A r \in R : G[r] \in Nat)
    BY <1>3
  <2> QED BY <1>1, <2>1, SumType
<1> QED BY <1>1, <1>4, <1>5, <1>6

\* Nothing is given back to the rows of another line.
LEMMA GivenTo ==
  ASSUME NEW s, NEW t, NEW G, NEW M, NEW line, Typed(s), RowsGiven(s, t, G, M, line), NEW R \in SUBSET s.rows
  PROVE  /\ Reversible(s, line) \subseteq R => Sum(G, R) = Sum(G, Reversible(s, line))
         /\ R \cap Reversible(s, line) = {} => Sum(G, R) = 0
<1>1. \A r \in R : G[r] \in Int /\ (r \notin Reversible(s, line) => G[r] = 0)
  BY DEF RowsGiven
<1>2. IsFiniteSet(R)
  BY FS_Subset DEF Typed
<1>3. ASSUME Reversible(s, line) \subseteq R PROVE Sum(G, R) = Sum(G, Reversible(s, line))
  BY <1>1, <1>2, <1>3, SumNarrow
<1>4. ASSUME R \cap Reversible(s, line) = {} PROVE Sum(G, R) = 0
  <2>1. \A r \in R : G[r] = 0
    BY <1>1, <1>4
  <2> QED BY <1>2, <2>1, SumZero
<1> QED BY <1>3, <1>4

LEMMA ReversedSound ==
  ASSUME NEW s, NEW t, NEW i \in Items, NEW line, NEW qty \in Nat, Reverses(s, t, i, line, qty)
  PROVE  Sound(t)
<1>1. PICK G, M, H : ReversedFacts(s, t, i, G, M, H, line, qty)
  BY ReversingIs
<1>2. /\ Typed(s) /\ RowsOk(s) /\ LotsOk(s) /\ BooksOk(s) /\ InStock(s, i) /\ s \in Ledger /\ t \in Ledger
      /\ line \in Lines /\ ItemOf[line] = i
  BY <1>1 DEF Reverses, Sound, Typed, ReversedFacts
<1>3. RowsGiven(s, t, G, M, line) /\ LotsRefilled(s, t, G, H) /\ t.batch = s.batch /\ Sum(G, Reversible(s, line)) = qty
  BY <1>1 DEF ReversedFacts
<1>4. t.rows = {M[r] : r \in s.rows} /\ \A r \in s.rows : SameRow(r, M[r])
  BY <1>3 DEF RowsGiven
<1>5. Typed(t)
  BY <1>2, <1>4, ImageFinite DEF Typed
<1>6. \A k \in DOMAIN s.lots : /\ t.lots[k].item = s.lots[k].item /\ t.lots[k].initial = s.lots[k].initial
                               /\ t.lots[k].cost = s.lots[k].cost
                               /\ t.lots[k].live <=> s.lots[k].live
  BY <1>1 DEF ReversedFacts, Alike
<1>7. DOMAIN t.lots = DOMAIN s.lots
  BY <1>1 DEF ReversedFacts, Alike
<1>8. RowsOk(t)
  <2>1. ASSUME NEW r \in s.rows PROVE M[r].back <= M[r].qty
    <3>1. r \in RowType /\ Rest[r] = Remaining(r)
      BY <1>2, RestType
    <3>2. M[r].back = r.back + G[r] /\ M[r].qty = r.qty /\ G[r] \in Nat /\ G[r] <= Rest[r]
      BY <1>3 DEF RowsGiven, SameRow
    <3>3. PICK a, b, c \in Nat : a = r.qty /\ b = r.back /\ c = G[r]
      BY <3>1, <3>2 DEF RowType
    <3>4. c <= a - b
      BY <3>1, <3>2, <3>3 DEF Remaining
    <3> QED BY <3>2, <3>3, <3>4
  <2>2. ASSUME NEW r \in s.rows
        PROVE  /\ M[r].batch \in 1..t.batch /\ M[r].lot \in DOMAIN t.lots /\ M[r].back <= M[r].qty
               /\ M[r].line \in Lines => t.lots[M[r].lot].item = ItemOf[M[r].line]
               /\ M[r].kind = "WRITE_OFF" => M[r].line = NoLine
    BY <1>2, <1>3, <1>4, <1>6, <1>7, <2>1 DEF RowsOk, SameRow
  <2>3. \A q, r \in s.rows : M[q].batch = M[r].batch /\ M[q].lot = M[r].lot => M[q] = M[r]
    BY <1>2, <1>4 DEF RowsOk, SameRow
  <2> QED BY <1>4, <2>2, <2>3 DEF RowsOk
<1>9. \A k \in DOMAIN s.lots : On(t, k) = {M[r] : r \in On(s, k)} /\ On(s, k) \in SUBSET s.rows
  BY <1>4 DEF On, SameRow
<1>10. LotsOk(t)
  <2> SUFFICES ASSUME NEW k \in DOMAIN s.lots
               PROVE  /\ t.lots[k].left = t.lots[k].initial - Sum(Rest, On(t, k))
                      /\ ~t.lots[k].live => On(t, k) = {}
                      /\ t.item[t.lots[k].item].created
    BY <1>7 DEF LotsOk
  <2>1. s.lots[k].item \in Items /\ s.lots[k].initial \in Nat
    BY <1>2, LotsFinite DEF LotType
  <2>2. t.item[t.lots[k].item].created
    BY <1>1, <1>2, <1>6, <2>1 DEF ReversedFacts, Moved, LotsOk
  <2>3. s.lots[k].left = s.lots[k].initial - Sum(Rest, On(s, k)) /\ (~s.lots[k].live => On(s, k) = {})
    BY <1>2 DEF LotsOk
  <2>4. ~t.lots[k].live => On(t, k) = {}
    BY <1>6, <1>9, <2>3
  <2>5. /\ Sum(Rest, On(t, k)) \in Int /\ Sum(G, On(s, k)) \in Nat
        /\ Sum(Rest, On(s, k)) = Sum(Rest, On(t, k)) + Sum(G, On(s, k))
    BY <1>2, <1>3, <1>9, RowsSettled
  <2>6. t.lots[k].left = s.lots[k].left + H[k] /\ H[k] = Sum(G, On(s, k))
    BY <1>3 DEF LotsRefilled
  <2>7. PICK a, b, c \in Int : a = Sum(Rest, On(t, k)) /\ b = Sum(G, On(s, k)) /\ c = s.lots[k].initial
    BY <2>1, <2>5
  <2>8. s.lots[k].left = c - (a + b)
    BY <2>3, <2>5, <2>7
  <2>9. t.lots[k].left = c - (a + b) + b
    BY <2>6, <2>7, <2>8
  <2>10. t.lots[k].left = c - a
    BY <2>9
  <2> QED BY <1>6, <2>2, <2>4, <2>7, <2>10
<1>11. \A r \in Reversible(s, line) : r \in s.rows /\ r.lot \in DOMAIN s.lots /\ s.lots[r.lot].item = i /\ r.lot \in Held(s, i)
  <2> SUFFICES ASSUME NEW r \in Reversible(s, line)
               PROVE  r \in s.rows /\ r.lot \in DOMAIN s.lots /\ s.lots[r.lot].item = i /\ r.lot \in Held(s, i)
    OBVIOUS
  <2>1. r \in s.rows /\ r.line = line
    BY DEF Reversible
  <2>2. r.lot \in DOMAIN s.lots /\ s.lots[r.lot].item = i
    BY <1>2, <2>1 DEF RowsOk
  <2>3. s.lots[r.lot].live
    BY <1>2, <2>1, <2>2 DEF LotsOk, On
  <2> QED BY <2>1, <2>2, <2>3 DEF Held
<1>12. \A j \in Items \ {i} : LotQty(t, j) = LotQty(s, j) /\ LotValue(t, j) = LotValue(s, j)
  <2> SUFFICES ASSUME NEW j \in Items \ {i} PROVE LotQty(t, j) = LotQty(s, j) /\ LotValue(t, j) = LotValue(s, j)
    OBVIOUS
  <2>1. ASSUME NEW k \in DOMAIN s.lots, s.lots[k].item = j PROVE t.lots[k].left = s.lots[k].left
    <3>1. On(s, k) \cap Reversible(s, line) = {}
      BY <1>11, <2>1 DEF On
    <3>2. H[k] = 0
      BY <1>2, <1>3, <1>9, <3>1, GivenTo DEF LotsRefilled
    <3>3. s.lots[k].left \in Nat
      BY <1>2, LotsFinite DEF LotType
    <3> QED BY <1>3, <3>2, <3>3 DEF LotsRefilled
  <2>2. OpenLots(t, j) = OpenLots(s, j)
    BY <1>6, <1>7, <2>1 DEF OpenLots
  <2>3. \A k \in OpenLots(s, j) : t.lots[k].left = s.lots[k].left /\ t.lots[k].cost = s.lots[k].cost
    BY <1>6, <2>1 DEF OpenLots
  <2> QED BY <1>2, <2>2, <2>3, OtherLots
<1>13. LotQty(t, i) = LotQty(s, i) + qty
  <2>1. PICK K : K = Held(s, i)
    OBVIOUS
  <2>2. Held(t, i) = K /\ IsFiniteSet(K) /\ K \in SUBSET (DOMAIN s.lots)
    BY <1>2, <1>6, <1>7, <2>1, LotsFinite DEF Held
  <2>3. LotQty(s, i) = Sum(Left(s), K) /\ LotQty(t, i) = Sum(Left(t), K)
    BY <1>2, <2>1, <2>2, HeldQty
  <2>4. ASSUME NEW k \in K PROVE Left(s)[k] \in Int /\ H[k] \in Int /\ Left(t)[k] = Left(s)[k] + H[k]
    BY <1>2, <1>3, <1>7, <2>2, Lefts DEF LotsRefilled
  <2>5. Sum(Left(t), K) = Sum(Left(s), K) + Sum(H, K)
    BY <2>2, <2>4, SumPlus
  <2>6. PICK P : P = [k \in K |-> On(s, k)]
    OBVIOUS
  <2>7. \A k \in K : IsFiniteSet(P[k]) /\ H[k] = Sum(G, P[k]) /\ \A r \in P[k] : G[r] \in Int
    <3> SUFFICES ASSUME NEW k \in K PROVE IsFiniteSet(P[k]) /\ H[k] = Sum(G, P[k]) /\ \A r \in P[k] : G[r] \in Int
      OBVIOUS
    <3>1. k \in DOMAIN s.lots /\ P[k] = On(s, k) /\ On(s, k) \in SUBSET s.rows
      BY <1>9, <2>2, <2>6
    <3>2. IsFiniteSet(On(s, k))
      BY <1>2, <3>1, FS_Subset DEF Typed
    <3> QED BY <1>3, <3>1, <3>2 DEF LotsRefilled
  <2>8. \A j, k \in K : j # k => P[j] \cap P[k] = {}
    BY <2>6 DEF On
  <2>9. PICK U : U = UNION {P[k] : k \in K}
    OBVIOUS
  <2>10. Sum(G, U) = Sum(H, K)
    <3>1. Parted(G, K, P, H)
      BY <2>7, <2>8 DEF Parted
    <3> QED BY <2>2, <2>9, <3>1, SumParts
  <2>11. U \in SUBSET s.rows /\ Reversible(s, line) \subseteq U
    <3>1. U \in SUBSET s.rows
      BY <2>6, <2>9 DEF On
    <3>2. \A r \in Reversible(s, line) : r \in P[r.lot] /\ r.lot \in K
      BY <1>11, <2>1, <2>6 DEF On
    <3> QED BY <2>9, <3>1, <3>2
  <2>12. Sum(G, U) = qty
    BY <1>2, <1>3, <2>11, GivenTo
  <2> QED BY <2>3, <2>5, <2>10, <2>12
<1>14. BooksOk(t)
  <2>1. Moved(s, t, i, qty, s.item[i].qty + qty)
    BY <1>1 DEF ReversedFacts
  <2>2. s.item[i].qty = LotQty(s, i)
    BY <1>2 DEF BooksOk, Cached
  <2>3. s.item[i].created
    BY <1>2 DEF InStock
  <2>4. s.item[i].qty + qty = LotQty(t, i)
    BY <1>13, <2>2
  <2> QED BY <1>2, <1>12, <1>13, <2>1, <2>3, <2>4, BooksKept
<1> QED BY <1>5, <1>8, <1>10, <1>14 DEF Sound

LEMMA ReversedLines ==
  ASSUME NEW s, NEW t, NEW i \in Items, NEW line, NEW qty \in Nat, Reverses(s, t, i, line, qty), NEW l
  PROVE  (l = line => ReversibleQty(s, l) = ReversibleQty(t, l) + qty) /\ (l # line => ReversibleQty(s, l) = ReversibleQty(t, l))
<1>1. PICK G, M, H : ReversedFacts(s, t, i, G, M, H, line, qty)
  BY ReversingIs
<1>2. Sound(s) /\ Sound(t)
  BY ReversedSound DEF Reverses
<1>3. /\ ReversibleQty(s, l) = Sum(Rest, RowsOf(s, l))
      /\ ReversibleQty(t, l) = Sum(Rest, RowsOf(t, l)) /\ ReversibleQty(t, l) \in Nat
  BY <1>2, ReversibleIs DEF Sound
<1>4. RowsGiven(s, t, G, M, line) /\ Sum(G, Reversible(s, line)) = qty
  BY <1>1 DEF ReversedFacts
<1>5. RowsOf(t, l) = {M[r] : r \in RowsOf(s, l)} /\ RowsOf(s, l) \in SUBSET s.rows
  BY <1>4 DEF RowsOf, RowsGiven, SameRow
<1>6. Sum(Rest, RowsOf(s, l)) = Sum(Rest, RowsOf(t, l)) + Sum(G, RowsOf(s, l))
  BY <1>2, <1>4, <1>5, RowsSettled DEF Sound
<1>7. Sum(G, RowsOf(s, l)) = IF l = line THEN qty ELSE 0
  <2>1. CASE l = line
    <3>1. Reversible(s, line) \subseteq RowsOf(s, l)
      BY <2>1 DEF Reversible, RowsOf
    <3> QED BY <1>2, <1>4, <1>5, <2>1, <3>1, GivenTo DEF Sound
  <2>2. CASE l # line
    <3>1. RowsOf(s, l) \cap Reversible(s, line) = {}
      BY <2>2 DEF Reversible, RowsOf
    <3> QED BY <1>2, <1>4, <1>5, <2>2, <3>1, GivenTo DEF Sound
  <2> QED BY <2>1, <2>2
<1> QED BY <1>3, <1>6, <1>7

\* A row gets something back only when the later rows of its line are settled.
LEMMA ReversedOrder ==
  ASSUME NEW s, NEW t, NEW i \in Items, NEW line, NEW qty \in Nat, Reverses(s, t, i, line, qty),
         NEW q \in s.rows, NEW r \in s.rows, q.line = r.line, r \notin t.rows, q.batch > r.batch
  PROVE  [q EXCEPT !.back = q.qty] \in t.rows
<1>1. PICK G, M, H : ReversedFacts(s, t, i, G, M, H, line, qty)
  BY ReversingIs
<1>2. /\ RowsGiven(s, t, G, M, line) /\ Typed(s) /\ RowsOk(s)
      /\ \A x \in s.rows : G[x] = GiveBack(s, line, qty, x)
  BY <1>1 DEF ReversedFacts, Reverses, Sound
<1>3. r \in Reversible(s, line) /\ G[r] > 0
  BY <1>2 DEF RowsGiven
<1>4. q \in RowType /\ Rest[q] = Remaining(q) /\ Rest[q] \in Nat /\ G[q] \in Nat /\ G[q] <= Rest[q] /\ q.qty \in Nat /\ q.back \in Nat
  BY <1>2, RestType DEF RowsGiven, RowType
<1>5. G[q] = Rest[q]
  <2>1. CASE q \notin Reversible(s, line)
    <3>1. q.line = line
      BY <1>3 DEF Reversible
    <3>2. ~(Remaining(q) > 0)
      BY <2>1, <3>1 DEF Reversible
    <3> QED BY <1>4, <3>2
  <2>2. CASE q \in Reversible(s, line)
    <3>1. PICK B, C : B = After(s, line, q) /\ C = After(s, line, r)
      OBVIOUS
    <3>2. Ordered(Undoing(s), s.rows)
      BY <1>2, UndoingOrder
    <3>3. \A x, y \in s.rows : <<x, y>> \in Undoing(s) <=> ReversedBefore(s, x, y)
      BY <1>2, RestType, Undoes
    <3>4. ReversedBefore(s, q, r)
      BY DEF ReversedBefore
    <3>5. B \cup {q} \in SUBSET C /\ q \notin B /\ C \in SUBSET s.rows
      BY <2>2, <3>1, <3>2, <3>3, <3>4 DEF Ordered, After, Reversible
    <3>6. IsFiniteSet(B) /\ IsFiniteSet(C)
      BY <1>2, <3>5, FS_Subset DEF Typed
    <3>7. \A x \in C : Rest[x] \in Nat /\ Rest[x] \in Int
      BY <1>2, <3>5, RestType
    <3>8. Sum(Rest, B \cup {q}) = Rest[q] + Sum(Rest, B)
      <4>1. \A x \in B \cup {q} : Rest[x] \in Int
        BY <3>5, <3>7
      <4> QED BY <3>5, <3>6, <4>1, SumPut
    <3>9. Sum(Rest, B \cup {q}) <= Sum(Rest, C)
      BY <3>5, <3>6, <3>7, SumPart
    <3>10. Sum(Rest, B) \in Nat /\ Sum(Rest, C) \in Nat
      BY <1>2, <3>1, GiveIs
    <3>11. PICK a, b, c \in Nat : a = Rest[q] /\ b = Sum(Rest, B) /\ c = Sum(Rest, C)
      BY <1>4, <3>10
    <3>12. G[q] = Clamp(qty - b, a)
      <4>1. GiveBack(s, line, qty, q) = Clamp(qty - Sum(Rest, After(s, line, q)), Rest[q])
        BY <1>2, <2>2, GiveIs
      <4> QED BY <1>2, <3>1, <3>11, <4>1
    <3>13. PICK d \in Nat : d = Rest[r]
      BY <1>2, RestType
    <3>14. G[r] = Clamp(qty - c, d)
      <4>1. GiveBack(s, line, qty, r) = Clamp(qty - Sum(Rest, After(s, line, r)), Rest[r])
        BY <1>2, <1>3, GiveIs
      <4> QED BY <1>2, <3>1, <3>11, <3>13, <4>1
    <3>15. a + b <= c
      BY <3>8, <3>9, <3>11
    <3>16. qty - c > 0
      BY <1>3, <3>14, Clamped
    <3>17. qty - b >= a /\ qty - b \in Int
      BY <3>15, <3>16
    <3>18. Clamp(qty - b, a) = a
      BY <3>17, Clamped
    <3> QED BY <3>11, <3>12, <3>18
  <2> QED BY <2>1, <2>2
<1>6. q.back + G[q] = q.qty
  BY <1>4, <1>5 DEF Remaining
<1>7. M[q] = [q EXCEPT !.back = q.qty]
  BY <1>2, <1>6 DEF RowsGiven, Given
<1> QED BY <1>2, <1>7 DEF RowsGiven

\* An earlier lot is empty when a later one gives something.
LEMMA ConsumedOrder ==
  ASSUME NEW s, NEW t, NEW i \in Items, NEW need \in Nat, NEW line \in Outlets, NEW kind \in RowKinds,
         Consumes(s, t, i, Nobody, need, line, kind),
         NEW r \in t.rows, r.batch > s.batch, NEW j \in OpenLots(s, s.lots[r.lot].item), ReceivedBefore(s, j, r.lot)
  PROVE  t.lots[j].left = 0
<1>1. PICK T, N : T = Plan(s, i, Nobody, need) /\ N = NewRowsOf(s, kind, line, T)
  OBVIOUS
<1>2. ConsumedFacts(s, t, i, T, N, need, line, kind)
  BY <1>1, ConsumingIs
<1>3. Sound(s) /\ s \in Ledger /\ s.batch \in Nat
  BY <1>2 DEF Consumes, ConsumedFacts, Ledger
<1>4. r \in N
  BY <1>2, <1>3 DEF ConsumedFacts, Sound, RowsOk
<1>5. PICK k \in Taken(s, T) : k = r.lot
  BY <1>2, <1>4 DEF ConsumedFacts
<1>6. k \in OpenLots(s, i) /\ k \in DOMAIN s.lots /\ T[k] > 0 /\ s.lots[k].item = i
  BY <1>2, <1>5 DEF ConsumedFacts, Taken, OpenLots
<1>7. j \in OpenLots(s, i) /\ j \in DOMAIN s.lots
  BY <1>5, <1>6 DEF OpenLots
<1>8. \A x, y : LeavesBefore(s, Nobody, x, y) <=> ReceivedBefore(s, x, y)
  BY DEF LeavesBefore
<1>9. PICK B, C : B = Before(s, i, Nobody, j) /\ C = Before(s, i, Nobody, k)
  OBVIOUS
<1>10. B \cup {j} \in SUBSET C /\ j \notin B /\ C \in SUBSET (DOMAIN s.lots) /\ IsFiniteSet(B) /\ IsFiniteSet(C)
  <2>1. \A x \in DOMAIN s.lots : x \in Nat /\ s.lots[x].at \in Nat
    BY <1>3, LotsFinite DEF LotType
  <2>2. ReceivedBefore(s, j, k) /\ ~ReceivedBefore(s, j, j)
    BY <1>5, <1>7, <2>1 DEF ReceivedBefore
  <2>3. \A x \in DOMAIN s.lots : ReceivedBefore(s, x, j) => ReceivedBefore(s, x, k)
    BY <1>6, <1>7, <2>1, <2>2 DEF ReceivedBefore
  <2>4. B = {x \in OpenLots(s, i) : ReceivedBefore(s, x, j)} /\ C = {x \in OpenLots(s, i) : ReceivedBefore(s, x, k)}
    BY <1>8, <1>9 DEF Before
  <2>5. OpenLots(s, i) \in SUBSET (DOMAIN s.lots)
    BY DEF OpenLots
  <2>6. B \cup {j} \in SUBSET C /\ j \notin B /\ C \in SUBSET (DOMAIN s.lots)
    BY <1>7, <2>2, <2>3, <2>4, <2>5
  <2> QED BY <1>3, <2>6, LotsFinite
<1>11. \A x \in C : Left(s)[x] \in Nat /\ Left(s)[x] \in Int
  BY <1>3, <1>10, Lefts
<1>12. Sum(Left(s), B \cup {j}) = Left(s)[j] + Sum(Left(s), B)
  <2>1. \A x \in B \cup {j} : Left(s)[x] \in Int
    BY <1>10, <1>11
  <2> QED BY <1>10, <2>1, SumPut
<1>13. Sum(Left(s), B \cup {j}) <= Sum(Left(s), C)
  BY <1>10, <1>11, SumPart
<1>14. Sum(Left(s), B) \in Nat /\ Sum(Left(s), C) \in Nat
  BY <1>3, <1>6, <1>7, <1>9, TakeIs
<1>15. Left(s)[j] \in Nat /\ Left(s)[k] \in Nat /\ Left(s)[j] = s.lots[j].left
  BY <1>3, <1>6, <1>7, Lefts
<1>16. PICK a, b, c, d \in Nat : a = Left(s)[j] /\ b = Sum(Left(s), B) /\ c = Sum(Left(s), C) /\ d = Left(s)[k]
  BY <1>14, <1>15
<1>17. T[j] = Clamp(need - b, a) /\ T[k] = Clamp(need - c, d)
  <2>1. T[j] = Take(s, i, Nobody, need, j) /\ T[k] = Take(s, i, Nobody, need, k)
    BY <1>1, <1>6, <1>7 DEF Plan
  <2>2. Take(s, i, Nobody, need, j) = Clamp(need - Sum(Left(s), Before(s, i, Nobody, j)), Left(s)[j])
    BY <1>3, <1>7, TakeIs
  <2>3. Take(s, i, Nobody, need, k) = Clamp(need - Sum(Left(s), Before(s, i, Nobody, k)), Left(s)[k])
    BY <1>3, <1>6, TakeIs
  <2> QED BY <1>9, <1>16, <2>1, <2>2, <2>3
<1>18. a + b <= c
  BY <1>12, <1>13, <1>16
<1>19. need - c > 0
  BY <1>6, <1>17, Clamped
<1>20. need - b >= a /\ need - b \in Int
  BY <1>18, <1>19
<1>21. T[j] = a
  BY <1>17, <1>20, Clamped
<1>22. t.lots[j].left = s.lots[j].left - T[j]
  BY <1>2, <1>7 DEF ConsumedFacts
<1> QED BY <1>15, <1>16, <1>21, <1>22

-----------------------------------------------------------------------------
(***************************************************************************)
(* The other operations on the ledger.                                     *)
(***************************************************************************)
\* The same stock and rows; an item may be new, or gone.
Flagged(s, t) ==
  /\ t \in Ledger /\ t.lots = s.lots /\ t.rows = s.rows /\ t.batch = s.batch
  /\ \A i \in Items : /\ t.item[i].qty = s.item[i].qty /\ t.item[i].avgCost = s.item[i].avgCost
                      /\ t.item[i].moved = s.item[i].moved /\ t.item[i].qtyAfter = s.item[i].qtyAfter
                      /\ s.item[i].created => t.item[i].created
                      /\ s.item[i].deleted => t.item[i].deleted

LEMMA Uncreated ==
  ASSUME NEW s, Sound(s), NEW i \in Items, ~s.item[i].created
  PROVE  s.item[i].qty = 0 /\ s.item[i].moved = 0 /\ s.item[i].qtyAfter = 0 /\ \A k \in DOMAIN s.lots : s.lots[k].item # i
<1>1. \A k \in DOMAIN s.lots : s.lots[k].item # i
  BY DEF Sound, LotsOk
<1>2. Held(s, i) = {}
  BY <1>1 DEF Held
<1>3. LotQty(s, i) = 0
  BY <1>2, HeldQty, SumEmpty DEF Sound, Typed
<1> QED BY <1>1, <1>3 DEF Sound, BooksOk, Cached, Journalled

LEMMA FlaggedSound == ASSUME NEW s, Sound(s), NEW t, Flagged(s, t) PROVE Sound(t)
<1>1. s \in Ledger /\ t \in Ledger /\ t.lots = s.lots /\ t.rows = s.rows /\ t.batch = s.batch
  BY DEF Flagged, Sound, Typed
<1>2. Typed(t) /\ RowsOk(t)
  BY <1>1 DEF Sound, Typed, RowsOk
<1>3. LotsOk(t)
  <2>1. \A k \in DOMAIN s.lots : s.lots[k].item \in Items
    BY <1>1, LotsFinite DEF LotType
  <2>2. \A k \in DOMAIN s.lots : On(t, k) = On(s, k)
    BY <1>1 DEF On
  <2> QED BY <1>1, <2>1, <2>2 DEF Sound, LotsOk, Flagged
<1>4. ASSUME NEW i \in Items PROVE Cached(t, i) /\ Journalled(t, i)
  <2>1. LotQty(t, i) = LotQty(s, i) /\ LotValue(t, i) = LotValue(s, i)
    BY <1>1, SameLots
  <2>2. Cached(s, i) /\ Journalled(s, i)
    BY DEF Sound, BooksOk
  <2>3. Cached(t, i)
    BY <2>1, <2>2 DEF Cached, Flagged
  <2>4. Journalled(t, i)
    <3>1. CASE s.item[i].created
      BY <2>2, <3>1 DEF Journalled, Flagged, InStock
    <3>2. CASE ~s.item[i].created
      BY <3>2, Uncreated DEF Journalled, Flagged
    <3> QED BY <3>1, <3>2
  <2> QED BY <2>3, <2>4
<1> QED BY <1>2, <1>3, <1>4 DEF Sound, BooksOk

\* A bare movement of an item that is gone.
LEMMA BareSound ==
  ASSUME NEW s, Sound(s), NEW i \in Items, ~InStock(s, i), s.item[i].created, NEW d \in Int, NEW a \in Int,
         NEW t, t = RecordMovement(s, i, d, a)
  PROVE  Sound(t) /\ t.lots = s.lots /\ t.rows = s.rows /\ t.batch = s.batch
<1>1. s \in Ledger
  BY DEF Sound, Typed
<1>2. /\ t \in Ledger /\ t.lots = s.lots /\ t.rows = s.rows /\ t.batch = s.batch
      /\ t.item[i].qty = s.item[i].qty
      /\ t.item[i].avgCost = s.item[i].avgCost
      /\ t.item[i].created <=> s.item[i].created
      /\ t.item[i].deleted <=> s.item[i].deleted
      /\ \A j \in Items \ {i} : t.item[j] = s.item[j]
  BY <1>1, Recorded, RecordedType
<1>3. Typed(t) /\ RowsOk(t)
  BY <1>2 DEF Sound, Typed, RowsOk
<1>4. LotsOk(t)
  <2>1. \A k \in DOMAIN s.lots : s.lots[k].item \in Items
    BY <1>1, LotsFinite DEF LotType
  <2>2. \A k \in DOMAIN s.lots : On(t, k) = On(s, k)
    BY <1>2 DEF On
  <2>3. \A j \in Items : t.item[j].created <=> s.item[j].created
    BY <1>2
  <2> QED BY <1>2, <2>1, <2>2, <2>3 DEF Sound, LotsOk
<1>5. ASSUME NEW j \in Items PROVE Cached(t, j) /\ Journalled(t, j)
  <2>1. LotQty(t, j) = LotQty(s, j) /\ LotValue(t, j) = LotValue(s, j)
    BY <1>2, SameLots
  <2>2. Cached(s, j) /\ Journalled(s, j)
    BY DEF Sound, BooksOk
  <2>3. Cached(t, j)
    BY <1>2, <2>1, <2>2 DEF Cached
  <2>4. CASE j = i
    <3>1. t.item[i].created /\ ~InStock(t, i)
      BY <1>2 DEF InStock
    <3> QED BY <2>3, <2>4, <3>1 DEF Journalled
  <2>5. CASE j # i
    BY <1>2, <2>2, <2>3, <2>5 DEF Journalled, InStock
  <2> QED BY <2>4, <2>5
<1> QED BY <1>2, <1>3, <1>4, <1>5 DEF Sound, BooksOk
=============================================================================
