----------------------------- MODULE SumsProofs -----------------------------
(***************************************************************************)
(* What the proofs about balances need to know of sums.                    *)
(***************************************************************************)
EXTENDS Sums, FiniteSetTheorems, FunctionTheorems, TLAPS

\* Induction for sets: a set of naturals that holds 0 and the successor of each of
\* its members holds them all.  What a recursive function computes is proved by it.
LEMMA SetInduction ==
  ASSUME NEW T \in SUBSET Nat, 0 \in T, \A n \in T : n + 1 \in T
  PROVE  T = Nat
<1> SUFFICES ASSUME Nat \ T # {} PROVE FALSE
  BY Zenon
<1> DEFINE R == OpToRel(<, Nat)
<1>1. PICK x \in Nat \ T : \A y \in Nat \ T : ~ (<<y, x>> \in R)
  <2>1. IsWellFoundedOn(R, Nat)
    BY NatLessThanWellFounded, Zenon
  <2> HIDE DEF R
  <2>. QED  BY <2>1, WFMin, Zenon
<1>2. x # 0 /\ x - 1 \in Nat /\ x - 1 < x
  BY SMT
<1>3. <<x - 1, x>> \in R
  BY <1>2, SMT DEF OpToRel
<1>4. x - 1 \in T
  BY <1>1, <1>2, <1>3, Zenon
<1>. QED  BY <1>2, <1>4

\* The units of finitely many naturals are finitely many.
LEMMA UnitsFinite ==
  ASSUME NEW S, IsFiniteSet(S), NEW f \in [S -> Nat]
  PROVE  IsFiniteSet(Units(S, f))
<1> DEFINE Row(a) == {a} \X (1 .. f[a])
           Rows == {Row(a) : a \in S}
           g == [a \in S |-> Row(a)]
<1>1. IsFiniteSet(Rows)
  <2>1. g \in Surjection(S, Rows)
    BY Zenon DEF Surjection
  <2>. QED  BY <2>1, FS_Surjection
<1>2. ASSUME NEW T \in Rows PROVE IsFiniteSet(T)
  <2>1. PICK a \in S : T = Row(a)
    OBVIOUS
  <2>2. IsFiniteSet({a})
    BY FS_Singleton, Zenon
  <2>3. IsFiniteSet(1 .. f[a])
    BY FS_Interval
  <2>. QED  BY <2>1, <2>2, <2>3, FS_Product, Zenon
<1>3. IsFiniteSet(UNION Rows)
  <2>. HIDE DEF Rows
  <2>. QED  BY <1>1, <1>2, FS_UNION
<1>. QED  BY <1>3 DEF Units

\* A sum of naturals is a natural.
LEMMA NatSumType ==
  ASSUME NEW S, IsFiniteSet(S), NEW f \in [S -> Nat]
  PROVE  NatSum(S, f) \in Nat
BY UnitsFinite, FS_CardinalityType DEF NatSum

\* A sum only depends on the values summed.
LEMMA NatSumEqual ==
  ASSUME NEW S, NEW f, NEW g, \A a \in S : f[a] = g[a]
  PROVE  NatSum(S, f) = NatSum(S, g)
<1>1. Units(S, f) = Units(S, g)
  BY DEF Units
<1>. QED  BY <1>1 DEF NatSum

\* A sum of nothing is zero.
LEMMA NatSumEmpty ==
  ASSUME NEW S, S = {}, NEW f
  PROVE  NatSum(S, f) = 0
<1>1. Units(S, f) = {}
  BY DEF Units
<1>. QED  BY <1>1, FS_EmptySet DEF NatSum

\* One term can be split off a sum.
LEMMA NatSumSplit ==
  ASSUME NEW S, IsFiniteSet(S), NEW f \in [S -> Nat], NEW a \in S
  PROVE  NatSum(S, f) = f[a] + NatSum(S \ {a}, f)
<1> DEFINE Row == {a} \X (1 .. f[a])
           Rest == Units(S \ {a}, f)
           h == [b \in S \ {a} |-> f[b]]
<1>1. Units(S, f) = Row \cup Rest
  BY DEF Units
<1>2. Row \cap Rest = {}
  BY DEF Units
<1>3. IsFiniteSet(Row) /\ Cardinality(Row) = f[a]
  <2>1. IsFiniteSet({a}) /\ Cardinality({a}) = 1
    BY FS_Singleton, Zenon
  <2>2. IsFiniteSet(1 .. f[a]) /\ Cardinality(1 .. f[a]) = f[a]
    BY FS_Interval
  <2>3. IsFiniteSet(Row) /\ Cardinality(Row) = Cardinality({a}) * Cardinality(1 .. f[a])
    BY <2>1, <2>2, FS_Product, Zenon
  <2>. QED  BY <2>1, <2>2, <2>3
<1>4. IsFiniteSet(Rest)
  <2>1. IsFiniteSet(S \ {a})
    BY FS_RemoveElement
  <2>2. h \in [S \ {a} -> Nat]
    OBVIOUS
  <2>3. IsFiniteSet(Units(S \ {a}, h))
    BY <2>1, <2>2, UnitsFinite
  <2>4. Units(S \ {a}, h) = Rest
    BY DEF Units
  <2>. QED  BY <2>3, <2>4
<1>5. Cardinality(Row \cup Rest) = Cardinality(Row) + Cardinality(Rest) - Cardinality({})
  <2>. HIDE DEF Row, Rest
  <2>. QED  BY <1>2, <1>3, <1>4, FS_Union
<1>6. Cardinality({}) = 0 /\ Cardinality(Rest) \in Nat
  BY <1>4, FS_EmptySet, FS_CardinalityType
<1>7. NatSum(S, f) = f[a] + Cardinality(Rest)
  <2>. HIDE DEF Row, Rest
  <2>. QED  BY <1>1, <1>3, <1>5, <1>6 DEF NatSum
<1>. QED  BY <1>7 DEF NatSum

\* Changing one term changes a sum of naturals by the difference.
LEMMA NatSumUpdate ==
  ASSUME NEW S, IsFiniteSet(S), NEW f \in [S -> Nat], NEW g \in [S -> Nat],
         NEW a \in S, \A b \in S \ {a} : g[b] = f[b]
  PROVE  NatSum(S, g) = NatSum(S, f) - f[a] + g[a]
<1> DEFINE h == [b \in S \ {a} |-> f[b]]
<1>1. NatSum(S, g) = g[a] + NatSum(S \ {a}, g)
  BY NatSumSplit
<1>2. NatSum(S, f) = f[a] + NatSum(S \ {a}, f)
  BY NatSumSplit
<1>3. NatSum(S \ {a}, g) = NatSum(S \ {a}, f)
  BY NatSumEqual
<1>4. NatSum(S \ {a}, f) \in Nat
  <2>1. IsFiniteSet(S \ {a})
    BY FS_RemoveElement
  <2>2. NatSum(S \ {a}, h) \in Nat
    BY <2>1, NatSumType
  <2>3. NatSum(S \ {a}, h) = NatSum(S \ {a}, f)
    BY NatSumEqual
  <2>. QED  BY <2>2, <2>3
<1>. QED  BY <1>1, <1>2, <1>3, <1>4

\* No single term exceeds a sum of naturals.
LEMMA NatSumTerm ==
  ASSUME NEW S, IsFiniteSet(S), NEW f \in [S -> Nat], NEW a \in S
  PROVE  f[a] <= NatSum(S, f)
<1> DEFINE h == [b \in S \ {a} |-> f[b]]
<1>1. NatSum(S, f) = f[a] + NatSum(S \ {a}, f)
  BY NatSumSplit
<1>2. NatSum(S \ {a}, f) \in Nat
  <2>1. IsFiniteSet(S \ {a})
    BY FS_RemoveElement
  <2>2. NatSum(S \ {a}, h) \in Nat
    BY <2>1, NatSumType
  <2>3. NatSum(S \ {a}, h) = NatSum(S \ {a}, f)
    BY NatSumEqual
  <2>. QED  BY <2>2, <2>3
<1>. QED  BY <1>1, <1>2

\* Adding a new term to a sum of naturals.
LEMMA NatSumAdd ==
  ASSUME NEW S, IsFiniteSet(S), NEW f \in [S -> Nat],
         NEW a, a \notin S, NEW T, T = S \cup {a}, NEW g \in [T -> Nat],
         \A b \in S : g[b] = f[b]
  PROVE  NatSum(T, g) = NatSum(S, f) + g[a]
<1>1. IsFiniteSet(T)
  BY FS_AddElement
<1>2. NatSum(T, g) = g[a] + NatSum(T \ {a}, g)
  BY <1>1, NatSumSplit
<1>3. T \ {a} = S
  OBVIOUS
<1>4. NatSum(S, g) = NatSum(S, f)
  BY NatSumEqual
<1>5. NatSum(S, f) \in Nat
  BY NatSumType
<1>. QED  BY <1>2, <1>3, <1>4, <1>5

\* A sum over a part is at most the sum over the whole.
LEMMA NatSumSubset ==
  ASSUME NEW T, IsFiniteSet(T), NEW g \in [T -> Nat],
         NEW S \in SUBSET T, NEW f \in [S -> Nat], \A b \in S : f[b] = g[b]
  PROVE  NatSum(S, f) <= NatSum(T, g)
<1>1. Units(S, f) \subseteq Units(T, g)
  BY DEF Units
<1>2. IsFiniteSet(Units(T, g))
  BY UnitsFinite
<1>. QED  BY <1>1, <1>2, FS_Subset DEF NatSum

\* A sum over part of a larger domain is a natural, too.
LEMMA NatSumPartType ==
  ASSUME NEW S, IsFiniteSet(S), NEW f, \A a \in S : f[a] \in Nat
  PROVE  NatSum(S, f) \in Nat /\ IsFiniteSet(Units(S, f))
<1> DEFINE h == [a \in S |-> f[a]]
<1>1. h \in [S -> Nat]
  OBVIOUS
<1>2. Units(S, f) = Units(S, h)
  BY DEF Units
<1> HIDE DEF h
<1>3. NatSum(S, h) \in Nat /\ IsFiniteSet(Units(S, h))
  BY <1>1, UnitsFinite, NatSumType
<1>. QED  BY <1>2, <1>3 DEF NatSum

\* The sum over two disjoint sets is the sum of their sums.
LEMMA NatSumUnion ==
  ASSUME NEW S, IsFiniteSet(S), NEW T, IsFiniteSet(T), S \cap T = {},
         NEW f, \A a \in S \cup T : f[a] \in Nat
  PROVE  NatSum(S \cup T, f) = NatSum(S, f) + NatSum(T, f)
<1>1. Units(S \cup T, f) = Units(S, f) \cup Units(T, f)
  BY DEF Units
<1>2. Units(S, f) \cap Units(T, f) = {}
  BY DEF Units
<1>3. IsFiniteSet(Units(S, f)) /\ IsFiniteSet(Units(T, f))
  BY NatSumPartType
<1>4. Cardinality(Units(S, f) \cup Units(T, f))
        = Cardinality(Units(S, f)) + Cardinality(Units(T, f)) - Cardinality({})
  BY <1>2, <1>3, FS_Union
<1>5. Cardinality({}) = 0 /\ Cardinality(Units(S, f)) \in Nat /\ Cardinality(Units(T, f)) \in Nat
  BY <1>3, FS_EmptySet, FS_CardinalityType
<1> DEFINE m == Cardinality(Units(S, f))  n == Cardinality(Units(T, f))
<1>6. NatSum(S \cup T, f) = Cardinality(Units(S, f) \cup Units(T, f))
  BY <1>1, Zenon DEF NatSum
<1>7. Cardinality(Units(S, f) \cup Units(T, f)) = m + n
  <2>1. m \in Nat /\ n \in Nat /\ Cardinality(Units(S, f) \cup Units(T, f)) = m + n - 0
    BY <1>4, <1>5
  <2> HIDE DEF m, n
  <2>. QED  BY <2>1
<1>. QED  BY <1>6, <1>7 DEF NatSum

\* The sum over a single element.
LEMMA NatSumSingle ==
  ASSUME NEW a, NEW f, f[a] \in Nat
  PROVE  NatSum({a}, f) = f[a]
<1>1. Units({a}, f) = {a} \X (1 .. f[a])
  BY DEF Units
<1>2. IsFiniteSet({a}) /\ Cardinality({a}) = 1
  BY FS_Singleton, Zenon
<1>3. IsFiniteSet(1 .. f[a]) /\ Cardinality(1 .. f[a]) = f[a]
  BY FS_Interval, SMTT(30)
<1>4. Cardinality({a} \X (1 .. f[a])) = Cardinality({a}) * Cardinality(1 .. f[a])
  BY <1>2, <1>3, FS_Product, Zenon
<1>5. Cardinality({a} \X (1 .. f[a])) = f[a]
  BY <1>2, <1>3, <1>4
<1>. QED  BY <1>1, <1>5 DEF NatSum

\* A sum over 1 .. k grows by one term at a time.
LEMMA NatSumNext ==
  ASSUME NEW k \in Nat, NEW f, \A i \in 1 .. k + 1 : f[i] \in Nat
  PROVE  NatSum(1 .. k + 1, f) = NatSum(1 .. k, f) + f[k + 1]
<1> DEFINE S == 1 .. k  T == {k + 1}
<1>1. 1 .. k + 1 = S \cup T /\ S \cap T = {}
  OBVIOUS
<1>2. IsFiniteSet(S)
  BY FS_Interval
<1>3. IsFiniteSet(T)
  BY FS_Singleton, Zenon
<1>4. \A i \in S \cup T : f[i] \in Nat
  BY <1>1
<1>5. NatSum(T, f) = f[k + 1]
  BY NatSumSingle
<1> HIDE DEF S, T
<1>6. NatSum(S \cup T, f) = NatSum(S, f) + NatSum(T, f)
  BY <1>1, <1>2, <1>3, <1>4, NatSumUnion
<1>. QED  BY Zenon, <1>1, <1>5, <1>6 DEF S

\* A sum of sums, term by term, is the sum of the two sums.
LEMMA NatSumPlus ==
  ASSUME NEW S, IsFiniteSet(S), NEW f, NEW g, NEW h,
         \A a \in S : f[a] \in Nat /\ g[a] \in Nat /\ h[a] \in Nat /\ f[a] = g[a] + h[a]
  PROVE  NatSum(S, f) = NatSum(S, g) + NatSum(S, h)
<1> DEFINE D == UNION {{a} \X (g[a] + 1 .. f[a]) : a \in S}
           up == [u \in Units(S, h) |-> <<u[1], u[2] + g[u[1]]>>]
<1>1. IsFiniteSet(Units(S, g)) /\ IsFiniteSet(Units(S, h))
  BY NatSumPartType
<1>2. Units(S, f) = Units(S, g) \cup D
  BY SMTT(30) DEF Units
<1>3. Units(S, g) \cap D = {}
  BY SMTT(30) DEF Units
<1>4. up \in Bijection(Units(S, h), D)
  <2>1. up \in [Units(S, h) -> D]
    BY SMTT(30) DEF Units
  <2>2. \A u, v \in Units(S, h) : up[u] = up[v] => u = v
    BY SMTT(30) DEF Units
  <2>3. \A d \in D : \E u \in Units(S, h) : up[u] = d
    <3> SUFFICES ASSUME NEW d \in D PROVE \E u \in Units(S, h) : up[u] = d
      OBVIOUS
    <3>1. PICK a \in S : \E j \in g[a] + 1 .. f[a] : d = <<a, j>>
      OBVIOUS
    <3>4. PICK j \in g[a] + 1 .. f[a] : d = <<a, j>>
      BY <3>1
    <3>2. <<a, j - g[a]>> \in Units(S, h)
      BY <3>4, SMTT(30) DEF Units
    <3>3. up[<<a, j - g[a]>>] = d
      BY <3>4, <3>2
    <3>. QED  BY <3>2, <3>3
  <2> HIDE DEF up, D
  <2>. QED  BY <2>1, <2>2, <2>3, Fun_IsBij, Zenon
<1> HIDE DEF D, up
<1>5. IsFiniteSet(D) /\ Cardinality(D) = Cardinality(Units(S, h))
  <2>1. ExistsBijection(Units(S, h), D)
    BY <1>4, Zenon DEF ExistsBijection
  <2>. QED  BY <1>1, <2>1, FS_Bijection, Zenon
<1>6. Cardinality(Units(S, g) \cup D) = Cardinality(Units(S, g)) + Cardinality(D) - Cardinality({})
  BY <1>1, <1>3, <1>5, FS_Union
<1>7. Cardinality({}) = 0 /\ NatSum(S, g) \in Nat /\ NatSum(S, h) \in Nat
  BY <1>1, FS_EmptySet, FS_CardinalityType DEF NatSum
<1>. QED  BY <1>2, <1>5, <1>6, <1>7 DEF NatSum

\* The two parts of a family of integers are families of naturals.
LEMMA PartsType ==
  ASSUME NEW S, NEW f \in [S -> Int]
  PROVE  /\ PositivePart(S, f) \in [S -> Nat]
         /\ NegativePart(S, f) \in [S -> Nat]
BY DEF PositivePart, NegativePart

\* A sum of integers is an integer.
LEMMA SumType ==
  ASSUME NEW S, IsFiniteSet(S), NEW f \in [S -> Int]
  PROVE  Sum(S, f) \in Int
BY PartsType, NatSumType DEF Sum

\* Changing one term changes a sum of integers by the difference.
LEMMA SumUpdate ==
  ASSUME NEW S, IsFiniteSet(S), NEW f \in [S -> Int], NEW g \in [S -> Int],
         NEW a \in S, \A b \in S \ {a} : g[b] = f[b]
  PROVE  Sum(S, g) = Sum(S, f) - f[a] + g[a]
<1> DEFINE pf == PositivePart(S, f)  nf == NegativePart(S, f)
           pg == PositivePart(S, g)  ng == NegativePart(S, g)
<1>1. /\ pf \in [S -> Nat] /\ nf \in [S -> Nat]
      /\ pg \in [S -> Nat] /\ ng \in [S -> Nat]
  BY PartsType
<1>2. pf[a] - nf[a] = f[a] /\ pg[a] - ng[a] = g[a]
  BY DEF PositivePart, NegativePart
<1>3. \A b \in S \ {a} : pg[b] = pf[b] /\ ng[b] = nf[b]
  BY DEF PositivePart, NegativePart
<1>4. Sum(S, f) = NatSum(S, pf) - NatSum(S, nf) /\ Sum(S, g) = NatSum(S, pg) - NatSum(S, ng)
  BY DEF Sum
<1> HIDE DEF pf, nf, pg, ng
<1>5. NatSum(S, pg) = NatSum(S, pf) - pf[a] + pg[a]
  BY <1>1, <1>3, NatSumUpdate
<1>6. NatSum(S, ng) = NatSum(S, nf) - nf[a] + ng[a]
  BY <1>1, <1>3, NatSumUpdate
<1>7. NatSum(S, pf) \in Nat /\ NatSum(S, nf) \in Nat
  BY <1>1, NatSumType
<1>8. pf[a] \in Nat /\ nf[a] \in Nat /\ pg[a] \in Nat /\ ng[a] \in Nat
  BY <1>1
<1>. QED  BY <1>2, <1>4, <1>5, <1>6, <1>7, <1>8

\* A movement from one account to another leaves the total unchanged: the
\* fact behind every conservation theorem (LedgerPosting.transfer).
LEMMA SumTransfer ==
  ASSUME NEW S, IsFiniteSet(S), NEW f \in [S -> Int], NEW g \in [S -> Int],
         NEW a \in S, NEW b \in S, a # b, NEW m \in Int,
         g[a] = f[a] - m, g[b] = f[b] + m,
         \A c \in S \ {a, b} : g[c] = f[c]
  PROVE  Sum(S, g) = Sum(S, f)
<1> DEFINE h == [c \in S |-> IF c = a THEN f[a] - m ELSE f[c]]
<1>1. h \in [S -> Int] /\ h[a] = f[a] - m /\ h[b] = f[b]
  OBVIOUS
<1>2. \A c \in S \ {a} : h[c] = f[c]
  OBVIOUS
<1>3. \A c \in S \ {b} : g[c] = h[c]
  OBVIOUS
<1> HIDE DEF h
<1>4. Sum(S, h) = Sum(S, f) - f[a] + h[a]
  BY <1>1, <1>2, SumUpdate
<1>5. Sum(S, g) = Sum(S, h) - h[b] + g[b]
  BY <1>1, <1>3, SumUpdate
<1>6. Sum(S, f) \in Int /\ Sum(S, h) \in Int
  BY <1>1, SumType
<1>. QED  BY <1>1, <1>4, <1>5, <1>6
=============================================================================
