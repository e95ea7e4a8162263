------------------------------ MODULE SumProofs ------------------------------
(***************************************************************************)
(* How the total over a finite set changes: with one amount, with one      *)
(* member, with none.                                                      *)
(***************************************************************************)
EXTENDS Sums, TLAPS, FiniteSetTheorems, WellFoundedInduction

Pick(S) == CHOOSE x \in S : TRUE

\* A set of naturals has a least element.
LEMMA LeastNat ==
  ASSUME NEW N \in SUBSET Nat, N # {}
  PROVE  \E n \in N : \A m \in N : n <= m
<1> DEFINE less == {ss \in Nat \X Nat : ss[1] < ss[2]}
<1>1. IsWellFoundedOn(less, Nat)
  BY NatLessThanWellFounded DEF OpToRel
<1>2. PICK n \in N : \A m \in N : ~ (<<m, n>> \in less)
  BY <1>1, WFMin
<1>3. ASSUME NEW m \in N PROVE n <= m
  <2>1. n \in Nat /\ m \in Nat
    OBVIOUS
  <2>2. ~ (<<m, n>> \in less)
    BY <1>2
  <2> QED
    BY <2>1, <2>2
<1> QED
  BY <1>3

\* Sums of the subsets of S, of at most n members.
Small(S, n) == {T \in SUBSET S : Cardinality(T) <= n}
SumsTo(f, S, n) ==
    \E h : h = [T \in Small(S, n) |-> IF T = {} THEN 0 ELSE f[Pick(T)] + h[T \ {Pick(T)}]]

\* Sums of the subsets of S of up to n members exist, for every n.
LEMMA SumsExist ==
  ASSUME NEW f, NEW S, IsFiniteSet(S), NEW n \in Nat
  PROVE  SumsTo(f, S, n)
<1> DEFINE Bad == {k \in Nat : ~SumsTo(f, S, k)}
<1>1. SUFFICES ASSUME Bad # {} PROVE FALSE
  OBVIOUS
<1>2. PICK k \in Bad : \A m \in Bad : k <= m
  BY <1>1, LeastNat
<1>3. \A T \in SUBSET S : /\ IsFiniteSet(T) /\ Cardinality(T) \in Nat
                          /\ T # {} => /\ Pick(T) \in T
                                       /\ Cardinality(T \ {Pick(T)}) = Cardinality(T) - 1
                          /\ Cardinality(T) = 0 <=> T = {}
  <2> SUFFICES ASSUME NEW T \in SUBSET S
               PROVE  /\ IsFiniteSet(T) /\ Cardinality(T) \in Nat
                      /\ T # {} => /\ Pick(T) \in T
                                   /\ Cardinality(T \ {Pick(T)}) = Cardinality(T) - 1
                      /\ Cardinality(T) = 0 <=> T = {}
    OBVIOUS
  <2>1. IsFiniteSet(T)
    BY FS_Subset
  <2>2. T # {} => Pick(T) \in T
    BY DEF Pick
  <2> QED
    BY <2>1, <2>2, FS_CardinalityType, FS_RemoveElement, FS_EmptySet
<1>4. CASE k = 0
  <2> DEFINE h == [T \in Small(S, 0) |-> 0]
  <2>1. h = [T \in Small(S, 0) |-> IF T = {} THEN 0 ELSE f[Pick(T)] + h[T \ {Pick(T)}]]
    BY <1>3 DEF Small
  <2> QED
    BY <1>2, <1>4, <2>1 DEF SumsTo
<1>5. CASE k # 0
  <2>1. k - 1 \in Nat /\ SumsTo(f, S, k - 1)
    BY <1>2, <1>5
  <2>2. PICK h : h = [T \in Small(S, k - 1) |->
                        IF T = {} THEN 0 ELSE f[Pick(T)] + h[T \ {Pick(T)}]]
    BY <2>1 DEF SumsTo
  <2> DEFINE g == [T \in Small(S, k) |-> IF T = {} THEN 0 ELSE f[Pick(T)] + h[T \ {Pick(T)}]]
  <2>3. \A T \in Small(S, k) : T # {} => T \ {Pick(T)} \in Small(S, k - 1)
    BY <1>2, <1>3 DEF Small
  <2>4. \A T \in Small(S, k - 1) : T \in Small(S, k) /\ g[T] = h[T]
    <3>1. \A T \in Small(S, k - 1) : T \in Small(S, k)
      <4> SUFFICES ASSUME NEW T \in SUBSET S, Cardinality(T) <= k - 1
                   PROVE  Cardinality(T) <= k
        BY DEF Small
      <4>1. Cardinality(T) \in Nat /\ k \in Nat
        BY <1>2, <1>3
      <4> QED
        BY <4>1
    <3>2. \A T \in Small(S, k - 1) :
             h[T] = IF T = {} THEN 0 ELSE f[Pick(T)] + h[T \ {Pick(T)}]
      BY <2>2
    <3> QED
      BY <3>1, <3>2
  <2>5. g = [T \in Small(S, k) |-> IF T = {} THEN 0 ELSE f[Pick(T)] + g[T \ {Pick(T)}]]
    BY <2>3, <2>4
  <2>6. SumsTo(f, S, k)
    BY <2>5 DEF SumsTo
  <2> QED
    BY <1>2, <2>6
<1> QED
  BY <1>4, <1>5

\* One function has the sums of all the subsets of S, and Total is its value at S.
SumTable(f, S) == CHOOSE h : h = [T \in SUBSET S |-> IF T = {} THEN 0
                                                 ELSE f[Pick(T)] + h[T \ {Pick(T)}]]

LEMMA SumsRecur ==
  ASSUME NEW f, NEW S, IsFiniteSet(S), NEW T \in SUBSET S
  PROVE  /\ T = {} => SumTable(f, S)[T] = 0
         /\ T # {} => SumTable(f, S)[T] = f[Pick(T)] + SumTable(f, S)[T \ {Pick(T)}]
<1> DEFINE n == Cardinality(S)
<1>1. n \in Nat /\ Small(S, n) = SUBSET S
  BY FS_CardinalityType, FS_Subset DEF Small
<1>2. \E h : h = [U \in SUBSET S |-> IF U = {} THEN 0 ELSE f[Pick(U)] + h[U \ {Pick(U)}]]
  <2> HIDE DEF n
  <2>1. SumsTo(f, S, n)
    BY <1>1, SumsExist
  <2>2. PICK h : h = [U \in Small(S, n) |-> IF U = {} THEN 0 ELSE f[Pick(U)] + h[U \ {Pick(U)}]]
    BY <2>1 DEF SumsTo
  <2>3. h = [U \in SUBSET S |-> IF U = {} THEN 0 ELSE f[Pick(U)] + h[U \ {Pick(U)}]]
    BY <2>2, <1>1
  <2> QED
    BY <2>3
<1> DEFINE h == SumTable(f, S)
<1>3. h = [U \in SUBSET S |-> IF U = {} THEN 0 ELSE f[Pick(U)] + h[U \ {Pick(U)}]]
  BY <1>2 DEF SumTable
<1> HIDE DEF h
<1>4. h[T] = IF T = {} THEN 0 ELSE f[Pick(T)] + h[T \ {Pick(T)}]
  BY <1>3
<1> QED
  BY <1>4 DEF h

LEMMA TotalIsSum == ASSUME NEW f, NEW S PROVE Total(f, S) = SumTable(f, S)[S]
BY DEF Total, FX!MapThenSumSet, FX!MapThenFoldSet, SumTable, Pick

-----------------------------------------------------------------------------
(* Induction on the subsets of a finite set, by taking one member away.      *)

LEMMA SubsetInduction ==
  ASSUME NEW S, IsFiniteSet(S), NEW G,
         \A T \in SUBSET S : (\A x \in T : T \ {x} \in G) => T \in G
  PROVE  \A T \in SUBSET S : T \in G
<1> DEFINE Sizes == {Cardinality(T) : T \in {U \in SUBSET S : U \notin G}}
<1>1. \A T \in SUBSET S : /\ IsFiniteSet(T) /\ Cardinality(T) \in Nat
                          /\ \A x \in T : Cardinality(T \ {x}) = Cardinality(T) - 1
  <2> SUFFICES ASSUME NEW T \in SUBSET S
               PROVE  /\ IsFiniteSet(T) /\ Cardinality(T) \in Nat
                      /\ \A x \in T : Cardinality(T \ {x}) = Cardinality(T) - 1
    OBVIOUS
  <2>1. IsFiniteSet(T)
    BY FS_Subset
  <2> QED
    BY <2>1, FS_CardinalityType, FS_RemoveElement
<1>2. SUFFICES ASSUME Sizes # {} PROVE FALSE
  OBVIOUS
<1>3. Sizes \in SUBSET Nat
  BY <1>1
<1>4. PICK n \in Sizes : \A m \in Sizes : n <= m
  <2> HIDE DEF Sizes
  <2> QED
    BY <1>2, <1>3, LeastNat
<1>5. PICK T \in SUBSET S : T \notin G /\ n = Cardinality(T)
  BY <1>4
<1>6. PICK x \in T : T \ {x} \notin G
  BY <1>5
<1>7. Cardinality(T \ {x}) \in Sizes
  BY <1>6
<1>8. n <= Cardinality(T \ {x})
  <2> HIDE DEF Sizes
  <2> QED
    BY <1>4, <1>7
<1> QED
  BY <1>1, <1>5, <1>8

\* A sum depends on the amounts of the members only.
LEMMA SumSame ==
  ASSUME NEW f, NEW g, NEW S, IsFiniteSet(S), NEW R, IsFiniteSet(R),
         NEW T \in SUBSET S, T \subseteq R, \A x \in T : f[x] = g[x]
  PROVE  SumTable(f, S)[T] = SumTable(g, R)[T]
<1> DEFINE G == {U \in SUBSET T : SumTable(f, S)[U] = SumTable(g, R)[U]}
<1>1. IsFiniteSet(T)
  BY FS_Subset
<1>2. ASSUME NEW U \in SUBSET T, \A x \in U : U \ {x} \in G
      PROVE  U \in G
  <2>1. U \in SUBSET S /\ U \in SUBSET R
    OBVIOUS
  <2>2. /\ U = {} => SumTable(f, S)[U] = 0
        /\ U # {} => SumTable(f, S)[U] = f[Pick(U)] + SumTable(f, S)[U \ {Pick(U)}]
    BY <2>1, SumsRecur
  <2>3. /\ U = {} => SumTable(g, R)[U] = 0
        /\ U # {} => SumTable(g, R)[U] = g[Pick(U)] + SumTable(g, R)[U \ {Pick(U)}]
    BY <2>1, SumsRecur
  <2>4. U # {} => Pick(U) \in U
    BY DEF Pick
  <2> QED
    BY <1>2, <2>2, <2>3, <2>4
<1>3. \A U \in SUBSET T : U \in G
  <2> HIDE DEF G
  <2> QED
    BY <1>1, <1>2, SubsetInduction
<1> QED
  BY <1>3

\* Sums of whole numbers are whole numbers, and no member is special.
LEMMA SumType ==
  ASSUME NEW f, NEW S, IsFiniteSet(S), \A x \in S : f[x] \in Int, NEW T \in SUBSET S
  PROVE  SumTable(f, S)[T] \in Int
<1> DEFINE G == {U \in SUBSET S : SumTable(f, S)[U] \in Int}
<1>1. ASSUME NEW U \in SUBSET S, \A x \in U : U \ {x} \in G
      PROVE  U \in G
  <2>1. /\ U = {} => SumTable(f, S)[U] = 0
        /\ U # {} => SumTable(f, S)[U] = f[Pick(U)] + SumTable(f, S)[U \ {Pick(U)}]
    BY SumsRecur
  <2>2. U # {} => Pick(U) \in U
    BY DEF Pick
  <2>3. CASE U = {}
    BY <2>1, <2>3
  <2>4. CASE U # {}
    <3>1. SumTable(f, S)[U \ {Pick(U)}] \in Int /\ f[Pick(U)] \in Int
      BY <1>1, <2>2, <2>4
    <3> QED
      BY <2>1, <2>4, <3>1
  <2> QED
    BY <2>3, <2>4
<1>2. \A U \in SUBSET S : U \in G
  <2> HIDE DEF G
  <2> QED
    BY <1>1, SubsetInduction
<1> QED
  BY <1>2

LEMMA SumRemove ==
  ASSUME NEW f, NEW S, IsFiniteSet(S), \A x \in S : f[x] \in Int,
         NEW T \in SUBSET S, NEW y \in T
  PROVE  SumTable(f, S)[T] = f[y] + SumTable(f, S)[T \ {y}]
<1> DEFINE h == SumTable(f, S)
<1> DEFINE G == {U \in SUBSET S : \A x \in U : h[U] = f[x] + h[U \ {x}]}
<1>0. \A U \in SUBSET S : /\ h[U] \in Int
                          /\ U # {} => h[U] = f[Pick(U)] + h[U \ {Pick(U)}]
  <2> SUFFICES ASSUME NEW U \in SUBSET S
               PROVE  /\ h[U] \in Int
                      /\ U # {} => h[U] = f[Pick(U)] + h[U \ {Pick(U)}]
    OBVIOUS
  <2>1. h[U] \in Int
    BY SumType
  <2>2. U # {} => h[U] = f[Pick(U)] + h[U \ {Pick(U)}]
    BY SumsRecur
  <2> QED
    BY <2>1, <2>2
<1> HIDE DEF h
<1>1. ASSUME NEW U \in SUBSET S, \A x \in U : U \ {x} \in G
      PROVE  U \in G
  <2> SUFFICES ASSUME NEW x \in U PROVE h[U] = f[x] + h[U \ {x}]
    OBVIOUS
  <2> DEFINE p == Pick(U)
  <2>1. p \in U
    BY DEF Pick
  <2>2. h[U] = f[p] + h[U \ {p}]
    BY <1>0
  <2>3. CASE p = x
    BY <2>2, <2>3
  <2>4. CASE p # x
    <3> HIDE DEF p
    <3>1. x \in U \ {p} /\ p \in U \ {x}
      BY <2>1, <2>4
    <3>2. h[U \ {p}] = f[x] + h[(U \ {p}) \ {x}]
      BY <1>1, <2>1, <3>1
    <3>3. h[U \ {x}] = f[p] + h[(U \ {x}) \ {p}]
      BY <1>1, <3>1
    <3>4. (U \ {p}) \ {x} = (U \ {x}) \ {p}
      OBVIOUS
    <3>5. h[(U \ {x}) \ {p}] \in Int /\ f[p] \in Int /\ f[x] \in Int
      BY <1>0, <2>1
    <3>6. f[p] + (f[x] + h[(U \ {x}) \ {p}]) = f[x] + (f[p] + h[(U \ {x}) \ {p}])
      BY <3>5
    <3> QED
      BY <2>2, <3>2, <3>3, <3>4, <3>6, Zenon
  <2> QED
    BY <2>3, <2>4
<1>2. \A U \in SUBSET S : U \in G
  <2> HIDE DEF G
  <2> QED
    BY <1>1, SubsetInduction
<1> QED
  BY <1>2 DEF h

-----------------------------------------------------------------------------
(* The same of totals. *)

LEMMA TotalSame ==
  ASSUME NEW f, NEW g, NEW S, IsFiniteSet(S), \A x \in S : f[x] = g[x]
  PROVE  Total(f, S) = Total(g, S)
<1>1. S \in SUBSET S
  OBVIOUS
<1> QED
  BY <1>1, SumSame, TotalIsSum

LEMMA TotalType ==
  ASSUME NEW f, NEW S, IsFiniteSet(S), \A x \in S : f[x] \in Int
  PROVE  Total(f, S) \in Int
<1>1. S \in SUBSET S
  OBVIOUS
<1> QED
  BY <1>1, SumType, TotalIsSum

LEMMA TotalEmpty == ASSUME NEW f PROVE Total(f, {}) = 0
<1>1. {} \in SUBSET {} /\ IsFiniteSet({})
  BY FS_EmptySet
<1> QED
  BY <1>1, SumsRecur, TotalIsSum

LEMMA TotalRemove ==
  ASSUME NEW f, NEW S, IsFiniteSet(S), \A x \in S : f[x] \in Int, NEW y \in S
  PROVE  Total(f, S) = f[y] + Total(f, S \ {y})
<1> DEFINE T == S \ {y}
<1>1. S \in SUBSET S /\ T \in SUBSET S /\ T \in SUBSET T /\ IsFiniteSet(T)
  BY FS_Subset
<1> HIDE DEF T
<1>2. SumTable(f, S)[T] = SumTable(f, T)[T]
  BY <1>1, SumSame
<1>3. SumTable(f, S)[S] = f[y] + SumTable(f, S)[T]
  BY <1>1, SumRemove DEF T
<1>4. Total(f, S) = SumTable(f, S)[S] /\ Total(f, T) = SumTable(f, T)[T]
  BY TotalIsSum
<1> QED
  BY <1>2, <1>3, <1>4 DEF T

\* A total changes by what the amount of one member changes.
LEMMA TotalChange ==
  ASSUME NEW f, NEW g, NEW S, IsFiniteSet(S), NEW y \in S,
         \A x \in S : f[x] \in Int /\ g[x] \in Int,
         \A x \in S \ {y} : f[x] = g[x]
  PROVE  Total(g, S) = Total(f, S) - f[y] + g[y]
<1>1. Total(f, S) = f[y] + Total(f, S \ {y}) /\ Total(g, S) = g[y] + Total(g, S \ {y})
  BY TotalRemove
<1>2. IsFiniteSet(S \ {y})
  BY FS_Subset
<1>3. Total(f, S \ {y}) = Total(g, S \ {y}) /\ Total(f, S \ {y}) \in Int
  BY <1>2, TotalSame, TotalType
<1> QED
  BY <1>1, <1>3

\* A total over amounts that are no less is no less.
LEMMA TotalOrder ==
  ASSUME NEW f, NEW g, NEW S, IsFiniteSet(S),
         \A x \in S : f[x] \in Int /\ g[x] \in Int /\ f[x] <= g[x]
  PROVE  Total(f, S) <= Total(g, S)
<1> DEFINE G == {U \in SUBSET S : Total(f, U) <= Total(g, U)}
<1>1. ASSUME NEW U \in SUBSET S, \A x \in U : U \ {x} \in G
      PROVE  U \in G
  <2>1. CASE U = {}
    BY <2>1, TotalEmpty
  <2>2. CASE U # {}
    <3>1. PICK x : x \in U
      BY <2>2
    <3>2. IsFiniteSet(U) /\ IsFiniteSet(U \ {x})
      BY FS_Subset
    <3>3. Total(f, U) = f[x] + Total(f, U \ {x}) /\ Total(g, U) = g[x] + Total(g, U \ {x})
      BY <3>1, <3>2, TotalRemove
    <3>4. Total(f, U \ {x}) \in Int /\ Total(g, U \ {x}) \in Int
      BY <3>2, TotalType
    <3>5. Total(f, U \ {x}) <= Total(g, U \ {x}) /\ f[x] <= g[x]
      BY <1>1, <3>1
    <3> QED
      BY <3>1, <3>3, <3>4, <3>5
  <2> QED
    BY <2>1, <2>2
<1>2. \A U \in SUBSET S : U \in G
  <2> HIDE DEF G
  <2> QED
    BY <1>1, SubsetInduction
<1> QED
  BY <1>2

LEMMA TotalZero ==
  ASSUME NEW f, NEW S, IsFiniteSet(S), \A x \in S : f[x] = 0
  PROVE  Total(f, S) = 0
<1> DEFINE G == {U \in SUBSET S : Total(f, U) = 0}
<1>1. ASSUME NEW U \in SUBSET S, \A x \in U : U \ {x} \in G
      PROVE  U \in G
  <2>1. CASE U = {}
    BY <2>1, TotalEmpty
  <2>2. CASE U # {}
    <3>1. PICK x : x \in U
      BY <2>2
    <3>2. IsFiniteSet(U)
      BY FS_Subset
    <3>3. \A z \in U : f[z] \in Int
      OBVIOUS
    <3>4. Total(f, U) = f[x] + Total(f, U \ {x})
      BY <3>1, <3>2, <3>3, TotalRemove
    <3> QED
      BY <1>1, <3>1, <3>4
  <2> QED
    BY <2>1, <2>2
<1>2. \A U \in SUBSET S : U \in G
  <2> HIDE DEF G
  <2> QED
    BY <1>1, SubsetInduction
<1> QED
  BY <1>2

\* No amount that is not negative exceeds the total of such amounts.
LEMMA TotalCovers ==
  ASSUME NEW f, NEW S, IsFiniteSet(S), \A x \in S : f[x] \in Nat
  PROVE  Total(f, S) \in Nat /\ \A y \in S : f[y] <= Total(f, S)
<1>1. \A x \in S : f[x] \in Int
  OBVIOUS
<1> DEFINE z == [x \in S |-> 0]
<1>2. ASSUME NEW T \in SUBSET S PROVE Total(f, T) \in Nat
  <2>1. IsFiniteSet(T)
    BY FS_Subset
  <2>2. Total(z, T) = 0
    BY <2>1, TotalZero
  <2>3. Total(z, T) <= Total(f, T)
    <3>1. \A x \in T : z[x] \in Int /\ f[x] \in Int /\ z[x] <= f[x]
      OBVIOUS
    <3> HIDE DEF z
    <3> QED
      BY <2>1, <3>1, TotalOrder
  <2>4. Total(f, T) \in Int
    BY <2>1, <1>1, TotalType
  <2> QED
    BY <2>2, <2>3, <2>4
<1>3. ASSUME NEW y \in S PROVE f[y] <= Total(f, S)
  <2>1. Total(f, S) = f[y] + Total(f, S \ {y})
    BY <1>1, TotalRemove
  <2>2. Total(f, S \ {y}) \in Nat
    BY <1>2
  <2> QED
    BY <2>1, <2>2
<1> QED
  BY <1>2, <1>3
=============================================================================
