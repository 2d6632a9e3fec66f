--------------------------- MODULE ShopStockProofs ---------------------------
(***************************************************************************)
(* ShopStock never promises stock twice: types, the bound of reserved by   *)
(* stock and what they rest on, for every shop.                            *)
(***************************************************************************)
EXTENDS ShopStockInv, FiniteSetTheorems, TLAPS

-----------------------------------------------------------------------------
(* Sums of quantities: a sum is the number of the units its lines stand    *)
(* for, so sums are compared by comparing sets of units, for any number of *)
(* lines.                                                                  *)

\* A sum of finitely many quantities is a natural number.
LEMMA TotalNat ==
    ASSUME NEW S, IsFiniteSet(S), NEW f, \A i \in S : f[i] \in Nat
    PROVE  IsFiniteSet(Units(S, f)) /\ Total(S, f) \in Nat
<1> DEFINE U(i) == {i} \X (1 .. f[i])
           T == {U(i) : i \in S}
           g == [i \in S |-> U(i)]
<1>1. \A i \in S : IsFiniteSet(U(i))
  <2> TAKE i \in S
  <2>1. IsFiniteSet(1 .. f[i])
    BY FS_Interval
  <2>2. IsFiniteSet({i})
    BY FS_Singleton, Zenon
  <2> QED BY <2>1, <2>2, FS_Product
<1>2. g \in Surjection(S, T)
  BY DEF Surjection
<1>3. IsFiniteSet(T)
  BY <1>2, FS_Surjection
<1>4. IsFiniteSet(UNION T)
  BY <1>1, <1>3, FS_UNION
<1>5. Units(S, f) = UNION T
  BY DEF Units
<1> QED BY <1>4, <1>5, FS_CardinalityType DEF Total

\* The units of S: one for every line and every number up to its quantity.
LEMMA UnitsDef ==
    ASSUME NEW S, NEW f
    PROVE  \A u : u \in Units(S, f) <=> \E i \in S : \E k \in 1 .. f[i] : u = <<i, k>>
BY DEF Units

LEMMA TotalOne ==
    ASSUME NEW i, NEW f, f[i] \in Nat
    PROVE  Total({i}, f) = f[i]
<1>1. Units({i}, f) = {i} \X (1 .. f[i])
  BY DEF Units
<1>2. /\ IsFiniteSet({i}) /\ Cardinality({i}) = 1
      /\ IsFiniteSet(1 .. f[i]) /\ Cardinality(1 .. f[i]) = f[i]
  <2>1. /\ IsFiniteSet(1 .. f[i])
        /\ Cardinality(1 .. f[i]) = IF 1 > f[i] THEN 0 ELSE f[i] - 1 + 1
    BY FS_Interval
  <2>2. IsFiniteSet({i}) /\ Cardinality({i}) = 1
    BY FS_Singleton, Zenon
  <2> QED BY <2>1, <2>2
<1>3. Cardinality({i} \X (1 .. f[i])) = Cardinality({i}) * Cardinality(1 .. f[i])
  BY <1>2, FS_Product
<1>4. Cardinality({i} \X (1 .. f[i])) = f[i]
  BY <1>2, <1>3
<1> QED BY <1>1, <1>4 DEF Total

LEMMA TotalNone == ASSUME NEW f PROVE Total({}, f) = 0
<1>1. Units({}, f) = {}
  BY DEF Units
<1> QED BY <1>1, FS_EmptySet DEF Total

\* Of two sums of the same quantities, the one over fewer lines is no greater.
LEMMA TotalSubset ==
    ASSUME NEW S, IsFiniteSet(S), NEW R, R \subseteq S, NEW f, \A i \in S : f[i] \in Nat
    PROVE  Total(R, f) <= Total(S, f)
<1>1. Units(R, f) \subseteq Units(S, f)
  BY UnitsDef
<1>2. IsFiniteSet(Units(S, f))
  BY TotalNat
<1>3. Cardinality(Units(R, f)) <= Cardinality(Units(S, f))
  BY <1>1, <1>2, FS_Subset
<1> QED BY <1>3 DEF Total

\* A sum that two families of quantities agree on, line by line.
LEMMA TotalSame ==
    ASSUME NEW S, NEW f, NEW g, \A i \in S : f[i] = g[i]
    PROVE  Total(S, f) = Total(S, g)
<1>1. Units(S, f) = Units(S, g)
  <2>1. \A u : u \in Units(S, f) <=> \E i \in S : \E k \in 1 .. f[i] : u = <<i, k>>
    BY UnitsDef
  <2>2. \A u : u \in Units(S, g) <=> \E i \in S : \E k \in 1 .. f[i] : u = <<i, k>>
    BY UnitsDef
  <2> QED BY <2>1, <2>2
<1> QED BY <1>1 DEF Total

\* A sum to which only the lines of R contribute.
LEMMA TotalZeroOutside ==
    ASSUME NEW S, NEW R, R \subseteq S, NEW f, \A i \in S \ R : f[i] = 0
    PROVE  Total(S, f) = Total(R, f)
<1>1. \A i \in S \ R : 1 .. f[i] = {}
  OBVIOUS
<1>2. Units(S, f) = Units(R, f)
  <2>1. \A u : u \in Units(S, f) <=> \E i \in S : \E k \in 1 .. f[i] : u = <<i, k>>
    BY UnitsDef
  <2>2. \A u : u \in Units(R, f) <=> \E i \in R : \E k \in 1 .. f[i] : u = <<i, k>>
    BY UnitsDef
  <2> QED BY <1>1, <2>1, <2>2
<1> QED BY <1>2 DEF Total

\* A sum is the sum over some of its lines and the sum over the others.
LEMMA TotalSplit ==
    ASSUME NEW S, IsFiniteSet(S), NEW R, R \subseteq S, NEW f, \A i \in S : f[i] \in Nat
    PROVE  /\ Total(R, f) \in Nat /\ Total(S \ R, f) \in Nat
           /\ Total(S, f) = Total(R, f) + Total(S \ R, f)
<1> DEFINE A == Units(R, f)
           B == Units(S \ R, f)
<1>1. IsFiniteSet(R) /\ IsFiniteSet(S \ R)
  BY FS_Subset
<1>2. /\ IsFiniteSet(A) /\ Cardinality(A) \in Nat
      /\ IsFiniteSet(B) /\ Cardinality(B) \in Nat
  BY <1>1, TotalNat DEF Total
<1>3. Units(S, f) = A \cup B /\ A \cap B = {}
  <2>1. \A u : u \in Units(S, f) <=> \E i \in S : \E k \in 1 .. f[i] : u = <<i, k>>
    BY UnitsDef
  <2>2. \A u : u \in A <=> \E i \in R : \E k \in 1 .. f[i] : u = <<i, k>>
    BY UnitsDef
  <2>3. \A u : u \in B <=> \E i \in S \ R : \E k \in 1 .. f[i] : u = <<i, k>>
    BY UnitsDef
  <2> HIDE DEF A, B
  <2>4. Units(S, f) = A \cup B
    BY <2>1, <2>2, <2>3
  <2>5. A \cap B = {}
    BY <2>2, <2>3
  <2> QED BY <2>4, <2>5
<1> HIDE DEF A, B
<1>4. Cardinality(A \cup B) = Cardinality(A) + Cardinality(B) - Cardinality(A \cap B)
  BY <1>2, FS_Union
<1>5. Cardinality(A \cap B) = 0
  BY <1>3, FS_EmptySet
<1> QED BY <1>2, <1>3, <1>4, <1>5 DEF Total, A, B

\* Quantities that two families of quantities add up to, line by line.
Adds(S, f, g, h) == \A i \in S : f[i] \in Nat /\ g[i] \in Nat /\ h[i] = f[i] + g[i]

\* Then the sums add up.
LEMMA TotalAdd ==
    ASSUME NEW S, IsFiniteSet(S), NEW f, NEW g, NEW h, Adds(S, f, g, h)
    PROVE  /\ Total(S, f) \in Nat /\ Total(S, g) \in Nat
           /\ Total(S, h) = Total(S, f) + Total(S, g)
<1> DEFINE A == Units(S, f)
           B == Units(S, g)
           C == Units(S, h)
           move == [u \in B |-> <<u[1], f[u[1]] + u[2]>>]
<1>0. \A i \in S : f[i] \in Nat /\ g[i] \in Nat /\ h[i] = f[i] + g[i]
  BY DEF Adds
<1>1. /\ IsFiniteSet(A) /\ Cardinality(A) \in Nat
      /\ IsFiniteSet(B) /\ Cardinality(B) \in Nat
      /\ IsFiniteSet(C) /\ Cardinality(C) \in Nat
  BY <1>0, TotalNat DEF Total
<1>2. A \subseteq C
  <2>1. \A i \in S : \A k \in 1 .. f[i] : k \in 1 .. h[i]
    BY <1>0
  <2> QED BY <2>1, UnitsDef
<1>3. \A u \in B : /\ u[1] \in S /\ u[2] \in 1 .. g[u[1]] /\ u = <<u[1], u[2]>>
                   /\ move[u] = <<u[1], f[u[1]] + u[2]>>
                   /\ f[u[1]] + u[2] \in 1 .. h[u[1]]
                   /\ f[u[1]] + u[2] \notin 1 .. f[u[1]]
  <2> TAKE u \in B
  <2>1. u[1] \in S /\ u[2] \in 1 .. g[u[1]] /\ u = <<u[1], u[2]>>
    BY UnitsDef
  <2> QED BY <1>0, <2>1
<1>4. move \in [B -> C \ A]
  <2>1. \A u \in B : move[u] \in C
    BY <1>3, UnitsDef
  <2>2. \A u \in B : move[u] \notin A
    <3> TAKE u \in B
    <3>1. ASSUME NEW i \in S, NEW k \in 1 .. f[i], <<u[1], f[u[1]] + u[2]>> = <<i, k>>
          PROVE  FALSE
      BY <1>3, <3>1
    <3> HIDE DEF B
    <3> QED BY <1>3, <3>1, UnitsDef
  <2> QED BY <2>1, <2>2
<1>5. \A u, v \in B : move[u] = move[v] => u = v
  <2> SUFFICES ASSUME NEW u \in B, NEW v \in B, move[u] = move[v] PROVE u = v
    OBVIOUS
  <2>1. u[1] = v[1] /\ f[u[1]] + u[2] = f[v[1]] + v[2]
    BY <1>3
  <2>2. u[2] = v[2]
    BY <1>0, <1>3, <2>1
  <2> QED BY <1>3, <2>1, <2>2
<1>6. \A x \in C \ A : \E u \in B : move[u] = x
  <2> TAKE x \in C \ A
  <2>1. PICK i \in S : \E k \in 1 .. h[i] : x = <<i, k>>
    BY UnitsDef
  <2>2. PICK k \in 1 .. h[i] : x = <<i, k>>
    BY <2>1
  <2>3. k \notin 1 .. f[i]
    BY <2>2, UnitsDef
  <2>4. k - f[i] \in 1 .. g[i] /\ f[i] + (k - f[i]) = k
    BY <1>0, <2>3
  <2>5. <<i, k - f[i]>> \in B
    BY <2>4, UnitsDef
  <2>6. move[<<i, k - f[i]>>] = x
    BY <2>2, <2>4, <2>5
  <2> QED BY <2>5, <2>6
<1> HIDE DEF A, B, C
<1>7. move \in Bijection(B, C \ A)
  <2> HIDE DEF move
  <2> QED BY <1>4, <1>5, <1>6 DEF Bijection, Injection, IsInjective, Surjection
<1>8. Cardinality(C \ A) = Cardinality(B)
  <2>1. ExistsBijection(B, C \ A)
    BY <1>7 DEF ExistsBijection
  <2> QED BY <1>1, <2>1, FS_Bijection
<1>9. Cardinality(C \ A) = Cardinality(C) - Cardinality(C \cap A)
  BY <1>1, FS_Difference
<1>10. Cardinality(C \cap A) = Cardinality(A)
  <2>1. C \cap A = A
    BY <1>2
  <2> QED BY <2>1, Zenon
<1>11. Cardinality(C) = Cardinality(A) + Cardinality(B)
  BY <1>1, <1>8, <1>9, <1>10
<1> QED BY <1>1, <1>11 DEF Total, A, B, C

\* A sum of greater quantities is no smaller.
LEMMA TotalMonotone ==
    ASSUME NEW S, IsFiniteSet(S), NEW f, NEW g,
           \A i \in S : f[i] \in Nat /\ g[i] \in Nat /\ f[i] <= g[i]
    PROVE  Total(S, f) <= Total(S, g)
<1>1. Units(S, f) \subseteq Units(S, g)
  <2>1. \A i \in S : \A k \in 1 .. f[i] : k \in 1 .. g[i]
    OBVIOUS
  <2> QED BY <2>1, UnitsDef
<1>2. IsFiniteSet(Units(S, g))
  BY TotalNat
<1> QED BY <1>1, <1>2, FS_Subset DEF Total

\* A sum of which one quantity is replaced.
LEMMA TotalPut ==
    ASSUME NEW S, IsFiniteSet(S), NEW b \in S, NEW f, NEW g,
           \A i \in S : f[i] \in Nat /\ g[i] \in Nat,
           \A i \in S \ {b} : g[i] = f[i]
    PROVE  /\ Total(S, f) \in Nat /\ Total(S, g) \in Nat
           /\ Total(S, g) = Total(S, f) - f[b] + g[b]
<1> DEFINE R == {b}
<1>1. /\ R \subseteq S
      /\ Total(R, f) = f[b] /\ Total(R, g) = g[b]
      /\ \A i \in S \ R : f[i] = g[i]
  BY TotalOne
<1> HIDE DEF R
<1>2. ASSUME NEW h, \A i \in S : h[i] \in Nat
      PROVE  Total(S \ R, h) \in Nat /\ Total(S, h) = Total(R, h) + Total(S \ R, h)
  BY <1>1, <1>2, TotalSplit
<1>3. /\ Total(S \ R, f) \in Nat /\ Total(S, f) = Total(R, f) + Total(S \ R, f)
      /\ Total(S, g) = Total(R, g) + Total(S \ R, g)
  BY <1>2
<1>4. Total(S \ R, f) = Total(S \ R, g)
  BY <1>1, TotalSame
<1> QED BY <1>1, <1>3, <1>4

\* The order of summation: when the lines of S take at most q[b] from every
\* lot b of T, they take at most the sum of the q[b] from all lots together.
\* a[b][i] is what line i takes from lot b.
LEMMA TotalCovered ==
    ASSUME NEW S, IsFiniteSet(S), NEW T, IsFiniteSet(T), NEW a, NEW q,
           \A b \in T : q[b] \in Nat /\ Total(S, a[b]) <= q[b],
           \A b \in T : \A i \in S : a[b][i] \in Nat
    PROVE  Total(S, [i \in S |-> Total(T, [b \in T |-> a[b][i]])]) <= Total(T, q)
<1> DEFINE row(i) == [b \in T |-> a[b][i]]
           c == [i \in S |-> Total(T, row(i))]
           D == Units(S, c)
           E == Units(T, q)
<1>1. \A i \in S : IsFiniteSet(Units(T, row(i))) /\ c[i] \in Nat
                   /\ c[i] = Cardinality(Units(T, row(i)))
  <2> TAKE i \in S
  <2>1. \A b \in T : row(i)[b] \in Nat
    OBVIOUS
  <2> HIDE DEF row
  <2> QED BY <2>1, TotalNat DEF Total
<1>2. \A i \in S : \E g : g \in Bijection(1 .. c[i], Units(T, row(i)))
  BY <1>1, FS_CardinalityType DEF ExistsBijection
<1>3. \A b \in T : \E h : h \in Injection(Units(S, a[b]), 1 .. q[b])
  <2> TAKE b \in T
  <2>1. IsFiniteSet(Units(S, a[b])) /\ Total(S, a[b]) \in Nat
    BY TotalNat
  <2>2. PICK g : g \in Bijection(1 .. Total(S, a[b]), Units(S, a[b]))
    BY <2>1, FS_CardinalityType DEF Total, ExistsBijection
  <2> DEFINE n == Total(S, a[b])
             h == [u \in Units(S, a[b]) |-> CHOOSE k \in 1 .. n : g[k] = u]
  <2>3. \A u \in Units(S, a[b]) : h[u] \in 1 .. n /\ g[h[u]] = u
    BY <2>2 DEF Bijection, Surjection
  <2>4. \A u, v \in Units(S, a[b]) : h[u] = h[v] => u = v
    BY <2>3
  <2>5. \A u \in Units(S, a[b]) : h[u] \in 1 .. q[b]
    BY <2>1, <2>3
  <2>6. h \in [Units(S, a[b]) -> 1 .. q[b]]
    BY <2>5
  <2> HIDE DEF h
  <2>7. h \in Injection(Units(S, a[b]), 1 .. q[b])
    BY <2>4, <2>6 DEF Injection, IsInjective
  <2> QED BY <2>7
<1> DEFINE G == [i \in S |-> CHOOSE g : g \in Bijection(1 .. c[i], Units(T, row(i)))]
           H == [b \in T |-> CHOOSE h : h \in Injection(Units(S, a[b]), 1 .. q[b])]
<1>4. \A i \in S : G[i] \in Bijection(1 .. c[i], Units(T, row(i)))
  BY <1>2
<1>5. \A b \in T : H[b] \in Injection(Units(S, a[b]), 1 .. q[b])
  BY <1>3
<1> HIDE DEF G, H, c
<1> DEFINE lot(u) == G[u[1]][u[2]][1]
           k(u) == G[u[1]][u[2]][2]
           F == [u \in D |-> <<lot(u), H[lot(u)][<<u[1], k(u)>>]>>]
\* Unit n of line i comes from a lot, where it is one of i's units.
<1>6. \A u \in D : /\ u[1] \in S /\ u[2] \in 1 .. c[u[1]] /\ u = <<u[1], u[2]>>
                   /\ lot(u) \in T /\ k(u) \in 1 .. a[lot(u)][u[1]]
                   /\ G[u[1]][u[2]] = <<lot(u), k(u)>>
                   /\ <<u[1], k(u)>> \in Units(S, a[lot(u)])
  <2> TAKE u \in D
  <2>1. u[1] \in S /\ u[2] \in 1 .. c[u[1]] /\ u = <<u[1], u[2]>>
    BY UnitsDef
  <2>2. G[u[1]][u[2]] \in Units(T, row(u[1]))
    BY <1>4, <2>1 DEF Bijection, Injection, IsInjective
  <2>3. PICK b \in T : \E n \in 1 .. a[b][u[1]] : G[u[1]][u[2]] = <<b, n>>
    BY <2>2, UnitsDef
  <2>4. lot(u) = b /\ k(u) \in 1 .. a[b][u[1]] /\ G[u[1]][u[2]] = <<lot(u), k(u)>>
    BY <2>3
  <2> HIDE DEF lot, k
  <2> QED BY <2>1, <2>3, <2>4, UnitsDef
<1>7. \A u \in D : F[u] \in E
  <2> TAKE u \in D
  <2> HIDE DEF lot, k
  <2>0. lot(u) \in T /\ <<u[1], k(u)>> \in Units(S, a[lot(u)])
    BY <1>6
  <2>1. H[lot(u)][<<u[1], k(u)>>] \in 1 .. q[lot(u)]
    <3>1. H[lot(u)] \in Injection(Units(S, a[lot(u)]), 1 .. q[lot(u)])
      BY <1>5, <2>0
    <3> QED BY <2>0, <3>1 DEF Injection, IsInjective
  <2> USE DEF lot, k
  <2> QED BY <1>6, <2>1, UnitsDef, ZenonT(60)
<1>8. \A u, v \in D : F[u] = F[v] => u = v
  <2> SUFFICES ASSUME NEW u \in D, NEW v \in D, F[u] = F[v]
               PROVE  u = v
    OBVIOUS
  <2>1. lot(u) = lot(v) /\ H[lot(u)][<<u[1], k(u)>>] = H[lot(u)][<<v[1], k(v)>>]
    OBVIOUS
  <2>2. <<u[1], k(u)>> = <<v[1], k(v)>>
    <3> HIDE DEF lot, k
    <3>1. /\ <<u[1], k(u)>> \in Units(S, a[lot(u)])
          /\ <<v[1], k(v)>> \in Units(S, a[lot(u)]) /\ lot(u) \in T
      BY <1>6, <2>1
    <3> QED BY <1>5, <2>1, <3>1 DEF Injection, IsInjective
  <2>3. u[1] = v[1] /\ k(u) = k(v)
    <3> HIDE DEF k
    <3> QED BY <2>2
  <2>4. G[u[1]][u[2]] = G[u[1]][v[2]]
    <3> HIDE DEF lot, k
    <3> QED BY <1>6, <2>1, <2>3
  <2>5. u[2] = v[2]
    <3> HIDE DEF lot, k
    <3> QED BY <1>4, <1>6, <2>3, <2>4 DEF Bijection, Injection, IsInjective
  <2> QED BY <1>6, <2>3, <2>5, ZenonT(60)
<1>9. F \in Injection(D, E)
  <2>1. F \in [D -> E]
    BY <1>7
  <2> HIDE DEF F
  <2> QED BY <1>8, <2>1 DEF Injection, IsInjective
<1>10. IsFiniteSet(E)
  BY TotalNat
<1>11. Cardinality(D) <= Cardinality(E)
  BY <1>9, <1>10, FS_Injection
<1> QED BY <1>11 DEF Total, c

-----------------------------------------------------------------------------
USE StockAssumption
USE DEF Statuses, Channels, Workflows, NotScanned

(* An order has at most one line for a product.                            *)

LEMMA FewLines ==
    ASSUME NEW o, NEW p, NEW R, R \subseteq ItemFor(o, p), NEW f,
           \A i \in R : f[i] \in Nat
    PROVE  \/ R = {} /\ Total(R, f) = 0
           \/ \E i \in R : R = {i} /\ Total(R, f) = f[i]
<1>1. CASE R = {}
  BY <1>1, TotalNone
<1>2. CASE R # {}
  <2>1. PICK i \in R : TRUE
    BY <1>2
  <2>2. R = {i}
    BY <2>1 DEF ItemFor, ItemsIn
  <2>3. Total({i}, f) = f[i]
    BY <2>1, TotalOne
  <2> QED BY <2>1, <2>2, <2>3
<1> QED BY <1>1, <1>2

LEMMA LineTotal ==
    ASSUME NEW o, NEW p, NEW f, \A i \in ItemsIn(o) : f[i] \in Nat
    PROVE  /\ Total(ItemFor(o, p), f) \in Nat
           /\ \/ Total(ItemFor(o, p), f) = 0
              \/ \E i \in ItemsIn(o) : ProductOf[i] = p /\ Total(ItemFor(o, p), f) = f[i]
<1>1. \A i \in ItemFor(o, p) : i \in ItemsIn(o) /\ ProductOf[i] = p /\ f[i] \in Nat
  BY DEF ItemFor
<1>2. \/ ItemFor(o, p) = {} /\ Total(ItemFor(o, p), f) = 0
      \/ \E i \in ItemFor(o, p) : Total(ItemFor(o, p), f) = f[i]
  BY <1>1, FewLines
<1> QED BY <1>1, <1>2

-----------------------------------------------------------------------------
(* The rows of each table.                                                 *)

Order == [status : Statuses, channel : Channels, paid : BOOLEAN, handed : BOOLEAN,
          workflow : Workflows]
Item == [quantity : Nat, fromStock : Nat, received : Nat,
         procurement : {"not_required", "to_order", "ordered", "received"}]
Ledger == [owned : Nat, shipped : Nat, restored : Nat]
Receipt == [status : {"none", "draft", "posted"}, lots : SUBSET Lots,
            quantity : [Lots -> Nat], alloc : [Lots -> [Items -> Nat]]]
Count == [status : {"none", "draft", "posted"},
          counted : [Products -> Nat \cup {NotScanned}]]

LEMMA Rows == TypeOK <=> /\ stock \in [Products -> Nat] /\ reserved \in [Products -> Nat]
                         /\ order \in [Orders -> Order] /\ item \in [Items -> Item]
                         /\ ledger \in [Items -> Ledger]
                         /\ receipt \in [Receipts -> Receipt]
                         /\ stirred \in [Receipts -> SUBSET Products]
                         /\ count \in [Counts -> Count]
BY DEF TypeOK, Order, Item, Ledger, Receipt, Count

LEMMA RowsAfter == TypeOK' <=> /\ stock' \in [Products -> Nat] /\ reserved' \in [Products -> Nat]
                         /\ order' \in [Orders -> Order] /\ item' \in [Items -> Item]
                         /\ ledger' \in [Items -> Ledger]
                         /\ receipt' \in [Receipts -> Receipt]
                         /\ stirred' \in [Receipts -> SUBSET Products]
                         /\ count' \in [Counts -> Count]
BY DEF TypeOK, Order, Item, Ledger, Receipt, Count

LEMMA HoldingNat == ASSUME TypeOK, NEW i \in Items PROVE Holding(i) \in Nat
<1>1. item[i] \in Item
  BY Rows
<1> QED BY <1>1 DEF Holding, Item

LEMMA StirType ==
    ASSUME TypeOK, NEW P, P \subseteq Products, Stir(P)
    PROVE  stirred' \in [Receipts -> SUBSET Products]
BY Rows DEF Stir

-----------------------------------------------------------------------------
(* Steps that leave stock and reservations alone.                          *)

LEMMA OrderStep ==
    ASSUME StockInv, NEW o \in Orders,
           \/ Confirm(o) \/ RecordPayment(o) \/ CompleteShop(o)
           \/ OpenResolution(o) \/ AttachParcelReturn(o) \/ CloseParcelReturn(o)
    PROVE  StockInv'
<1>0. order \in [Orders -> Order]
  BY Rows DEF StockInv
<1>1. /\ order' \in [Orders -> Order]
      /\ UNCHANGED <<stock, reserved, item, ledger, receipt, stirred, count>>
  <2>1. CASE Confirm(o)
    BY <1>0, <2>1 DEF Confirm, Order
  <2>2. CASE RecordPayment(o)
    <3> DEFINE s == IF order[o].channel = "shop" THEN "paid" ELSE order[o].status
    <3>1. s \in Statuses
      BY <1>0 DEF Order
    <3> DEFINE y == [order[o] EXCEPT !.paid = TRUE, !.status = s]
    <3>2. order' = [order EXCEPT ![o] = y]
      BY <1>0, <2>2 DEF RecordPayment
    <3> HIDE DEF s
    <3>3. y \in Order
      BY <1>0, <3>1 DEF Order
    <3> HIDE DEF y
    <3>4. order' \in [Orders -> Order]
      BY <1>0, <3>2, <3>3
    <3> QED BY <2>2, <3>4 DEF RecordPayment
  <2>3. CASE CompleteShop(o)
    BY <1>0, <2>3 DEF CompleteShop, Order
  <2>4. CASE OpenResolution(o)
    BY <1>0, <2>4 DEF OpenResolution, Order
  <2>5. CASE AttachParcelReturn(o)
    BY <1>0, <2>5 DEF AttachParcelReturn, Order
  <2>6. CASE CloseParcelReturn(o)
    <3> DEFINE s == IF order[o].paid THEN order[o].status ELSE "cancelled"
    <3>1. s \in Statuses
      BY <1>0 DEF Order
    <3> DEFINE y == [order[o] EXCEPT !.workflow = "closed", !.status = s]
    <3>2. order' = [order EXCEPT ![o] = y]
      BY <1>0, <2>6 DEF CloseParcelReturn
    <3> HIDE DEF s
    <3>3. y \in Order
      BY <1>0, <3>1 DEF Order
    <3> HIDE DEF y
    <3>4. order' \in [Orders -> Order]
      BY <1>0, <3>2, <3>3
    <3> QED BY <2>6, <3>4 DEF CloseParcelReturn
  <2> QED BY <2>1, <2>2, <2>3, <2>4, <2>5, <2>6
<1> QED BY <1>1, Rows, RowsAfter DEF StockInv, NoOversell, LotsMatch

LEMMA MarkStep ==
    ASSUME StockInv, NEW S \in SUBSET Items, MarkOrdered(S)
    PROVE  StockInv'
<1>1. item \in [Items -> Item]
  BY Rows DEF StockInv
<1>2. item' \in [Items -> Item]
  BY <1>1 DEF MarkOrdered, Item
<1> QED BY <1>2, Rows, RowsAfter DEF StockInv, NoOversell, LotsMatch, MarkOrdered

Matched(x) == \A b \in Lots : \A i \in Items :
    x.alloc[b][i] > 0 => ProductOf[i] = LotProduct[b]

\* A step that writes one well-formed receipt and nothing else.
LEMMA ReceiptRow ==
    ASSUME StockInv, NEW r \in Receipts, NEW x \in Receipt, Matched(x),
           receipt' = [receipt EXCEPT ![r] = x]
    PROVE  receipt' \in [Receipts -> Receipt] /\ LotsMatch'
<1>1. receipt \in [Receipts -> Receipt]
  BY Rows DEF StockInv
<1> QED BY <1>1 DEF StockInv, LotsMatch, Matched

LEMMA DraftStep ==
    ASSUME StockInv, NEW r \in Receipts,
           \/ CreateReceipt(r)
           \/ \E b \in Lots : \E n \in Quantity : \E al \in Allocations :
                AddReceiptItem(r, b, n, al) \/ EditDraft(r, b, n, al)
           \/ \E b \in Lots : DeleteDraftItem(r, b)
    PROVE  StockInv'
<1> DEFINE x == receipt[r]
           Done == /\ receipt' \in [Receipts -> Receipt] /\ LotsMatch'
                   /\ UNCHANGED <<stock, reserved, order, item, ledger, stirred, count>>
<1>0. receipt \in [Receipts -> Receipt] /\ x \in Receipt /\ Matched(x)
  BY Rows DEF StockInv, LotsMatch, Matched
<1>1. CASE CreateReceipt(r)
  <2> DEFINE y == [x EXCEPT !.status = "draft"]
  <2>1. y \in Receipt /\ Matched(y) /\ receipt' = [receipt EXCEPT ![r] = y]
    BY <1>0, <1>1 DEF CreateReceipt, Receipt, Matched
  <2> HIDE DEF y
  <2>2. Done
    BY <1>1, <2>1, ReceiptRow DEF CreateReceipt
  <2> QED BY <2>2, Rows, RowsAfter DEF StockInv, NoOversell
<1>2. ASSUME NEW b \in Lots, NEW n \in Quantity, NEW al \in Allocations,
             AddReceiptItem(r, b, n, al)
      PROVE  Done
  <2> DEFINE qs == [x.quantity EXCEPT ![b] = @ + n]
             sum == [i \in Items |-> x.alloc[b][i] + al[i]]
             as == [x.alloc EXCEPT ![b] = sum]
             y == [x EXCEPT !.lots = @ \cup {b}, !.quantity = qs, !.alloc = as]
  <2>1. n \in Nat /\ al \in [Items -> Nat]
    BY DEF Quantity, Allocations
  <2>2. sum \in [Items -> Nat] /\ \A i \in Items : sum[i] > 0 => ProductOf[i] = LotProduct[b]
    <3>1. x.alloc[b] \in [Items -> Nat]
      BY <1>0 DEF Receipt
    <3>2. \A i \in Items : al[i] > 0 => ProductOf[i] = LotProduct[b]
      BY <1>2 DEF AddReceiptItem, Allocatable
    <3> QED BY <1>0, <2>1, <3>1, <3>2 DEF Matched
  <2>3. receipt' = [receipt EXCEPT ![r] = y]
    BY <1>0, <1>2 DEF AddReceiptItem, Receipt
  <2> HIDE DEF sum
  <2>4. qs \in [Lots -> Nat] /\ as \in [Lots -> [Items -> Nat]]
    BY <1>0, <2>1, <2>2 DEF Receipt
  <2>5. \A c \in Lots : \A i \in Items : as[c][i] > 0 => ProductOf[i] = LotProduct[c]
    BY <1>0, <2>2 DEF Receipt, Matched
  <2> HIDE DEF qs, as
  <2>6. y \in Receipt /\ Matched(y)
    BY <1>0, <2>4, <2>5 DEF Receipt, Matched
  <2> HIDE DEF y
  <2> QED BY <1>2, <2>3, <2>6, ReceiptRow DEF AddReceiptItem
<1>3. ASSUME NEW b \in Lots, NEW n \in Quantity, NEW al \in Allocations,
             EditDraft(r, b, n, al)
      PROVE  Done
  <2> DEFINE qs == [x.quantity EXCEPT ![b] = n]
             as == [x.alloc EXCEPT ![b] = al]
             y == [x EXCEPT !.quantity = qs, !.alloc = as]
  <2>1. n \in Nat /\ al \in [Items -> Nat]
    BY DEF Quantity, Allocations
  <2>2. \A i \in Items : al[i] > 0 => ProductOf[i] = LotProduct[b]
    BY <1>3 DEF EditDraft, Allocatable
  <2>3. receipt' = [receipt EXCEPT ![r] = y]
    BY <1>0, <1>3 DEF EditDraft, Receipt
  <2>4. qs \in [Lots -> Nat] /\ as \in [Lots -> [Items -> Nat]]
    BY <1>0, <2>1 DEF Receipt
  <2>5. \A c \in Lots : \A i \in Items : as[c][i] > 0 => ProductOf[i] = LotProduct[c]
    BY <1>0, <2>2 DEF Receipt, Matched
  <2> HIDE DEF qs, as
  <2>6. y \in Receipt /\ Matched(y)
    BY <1>0, <2>4, <2>5 DEF Receipt, Matched
  <2> HIDE DEF y
  <2> QED BY <1>3, <2>3, <2>6, ReceiptRow DEF EditDraft
<1>4. ASSUME NEW b \in Lots, DeleteDraftItem(r, b)
      PROVE  Done
  <2> DEFINE zero == [i \in Items |-> 0]
             qs == [x.quantity EXCEPT ![b] = 0]
             as == [x.alloc EXCEPT ![b] = zero]
             y == [x EXCEPT !.lots = @ \ {b}, !.quantity = qs, !.alloc = as]
  <2>1. receipt' = [receipt EXCEPT ![r] = y]
    BY <1>0, <1>4 DEF DeleteDraftItem, Receipt
  <2>2. qs \in [Lots -> Nat] /\ as \in [Lots -> [Items -> Nat]]
    BY <1>0 DEF Receipt
  <2>3. \A c \in Lots : \A i \in Items : as[c][i] > 0 => ProductOf[i] = LotProduct[c]
    BY <1>0 DEF Receipt, Matched
  <2> HIDE DEF qs, as
  <2>4. y \in Receipt /\ Matched(y)
    BY <1>0, <2>2, <2>3 DEF Receipt, Matched
  <2> HIDE DEF y
  <2> QED BY <1>4, <2>1, <2>4, ReceiptRow DEF DeleteDraftItem
<1>5. Done => StockInv'
  BY Rows, RowsAfter DEF StockInv, NoOversell
<1> QED BY <1>1, <1>2, <1>3, <1>4, <1>5

LEMMA CountStep ==
    ASSUME StockInv, NEW c \in Counts,
           CreateCount(c) \/ \E p \in Products : \E n \in 0 .. MaxStock : SetCountItem(c, p, n)
    PROVE  StockInv'
<1>0. count \in [Counts -> Count]
  BY Rows DEF StockInv
<1>1. /\ count' \in [Counts -> Count]
      /\ UNCHANGED <<stock, reserved, order, item, ledger, receipt, stirred>>
  <2>1. CASE CreateCount(c)
    BY <1>0, <2>1 DEF CreateCount, Count
  <2>2. ASSUME NEW p \in Products, NEW n \in 0 .. MaxStock, SetCountItem(c, p, n)
        PROVE  /\ count' \in [Counts -> Count]
               /\ UNCHANGED <<stock, reserved, order, item, ledger, receipt, stirred>>
    <3> DEFINE cs == [count[c].counted EXCEPT ![p] = n]
    <3>1. cs \in [Products -> Nat \cup {NotScanned}]
      BY <1>0 DEF Count
    <3>2. count' = [count EXCEPT ![c] = [count[c] EXCEPT !.counted = cs]]
      BY <1>0, <2>2 DEF SetCountItem
    <3> HIDE DEF cs
    <3> QED BY <1>0, <2>2, <3>1, <3>2 DEF SetCountItem, Count
  <2> QED BY <2>1, <2>2
<1> QED BY <1>1, Rows, RowsAfter DEF StockInv, NoOversell, LotsMatch

-----------------------------------------------------------------------------
(* Steps of an order that move stock or reservations.                      *)

LEMMA CreateStep ==
    ASSUME StockInv, NEW o \in Orders, NEW channel \in Channels,
           NEW want \in [ItemsIn(o) -> Quantity], CreateOrder(o, channel, want)
    PROVE  StockInv'
<1> DEFINE taken == [i \in ItemsIn(o) |-> Least(want[i], Available(ProductOf[i]))]
           Reserve(q) == {i \in ItemFor(o, q) : taken[i] # 0}
<1>0. /\ stock \in [Products -> Nat] /\ reserved \in [Products -> Nat]
      /\ order \in [Orders -> Order] /\ item \in [Items -> Item]
      /\ ledger \in [Items -> Ledger]
      /\ \A p \in Products : reserved[p] <= stock[p]
  BY Rows DEF StockInv, NoOversell
<1>1. \A i \in ItemsIn(o) : /\ i \in Items /\ want[i] \in Nat /\ taken[i] \in Nat
                            /\ taken[i] <= Available(ProductOf[i])
  BY <1>0 DEF ItemsIn, Quantity, Least, Available
<1>2. /\ order' = [order EXCEPT ![o] = [NoOrder EXCEPT !.status = "pending", !.channel = channel]]
      /\ item' = [i \in Items |-> IF i \notin ItemsIn(o) THEN item[i] ELSE
           [quantity |-> want[i], fromStock |-> taken[i], received |-> 0,
            procurement |-> IF taken[i] < want[i] THEN "to_order" ELSE "not_required"]]
      /\ ledger' = [i \in Items |-> IF i \notin ItemsIn(o) THEN ledger[i] ELSE
           [NoLedger EXCEPT !.owned = taken[i]]]
      /\ reserved' = [q \in Products |-> reserved[q] + Total(Reserve(q), taken)]
      /\ Stir({q \in Products : Reserve(q) # {}})
      /\ UNCHANGED <<stock, receipt, count>>
  BY DEF CreateOrder
<1> HIDE DEF taken
<1>3. order' \in [Orders -> Order]
  BY <1>0, <1>2 DEF Order, NoOrder
<1>4. item' \in [Items -> Item]
  BY <1>0, <1>1, <1>2 DEF Item
<1>5. ledger' \in [Items -> Ledger]
  BY <1>0, <1>1, <1>2 DEF Ledger, NoLedger
<1>6. \A q \in Products : Total(Reserve(q), taken) \in 0 .. Available(q)
  <2> TAKE q \in Products
  <2>1. /\ Reserve(q) \subseteq ItemFor(o, q)
        /\ \A i \in Reserve(q) : i \in ItemsIn(o) /\ ProductOf[i] = q
    BY DEF ItemFor
  <2>2. Available(q) \in Nat
    BY <1>0 DEF Available
  <2> HIDE DEF Reserve
  <2>3. \/ Total(Reserve(q), taken) = 0
        \/ \E i \in Reserve(q) : Total(Reserve(q), taken) = taken[i]
    BY <1>1, <2>1, FewLines
  <2> QED BY <1>1, <2>1, <2>2, <2>3
<1> HIDE DEF Reserve
<1>7. /\ reserved' \in [Products -> Nat]
      /\ \A q \in Products : 0 <= reserved'[q] /\ reserved'[q] <= stock'[q]
  BY <1>0, <1>2, <1>6 DEF Available
<1>8. stirred' \in [Receipts -> SUBSET Products]
  BY <1>2, StirType DEF StockInv
<1> QED BY <1>2, <1>3, <1>4, <1>5, <1>7, <1>8, Rows, RowsAfter
        DEF StockInv, NoOversell, LotsMatch

\* Giving reservations back, which only lowers what is reserved.
LEMMA UnreserveFacts ==
    ASSUME StockInv, NEW o \in Orders, Unreserve(o),
           \A i \in ItemsIn(o) : Holding(i) <= reserved[ProductOf[i]]
    PROVE  /\ reserved' \in [Products -> Nat]
           /\ \A p \in Products : reserved'[p] <= reserved[p]
<1> DEFINE held == [i \in ItemsIn(o) |-> Holding(i)]
<1>1. /\ reserved \in [Products -> Nat]
      /\ \A i \in ItemsIn(o) : held[i] \in Nat /\ held[i] = Holding(i)
  BY Rows, HoldingNat DEF StockInv, ItemsIn
<1>2. reserved' = [p \in Products |-> reserved[p] - Total(ItemFor(o, p), held)]
  BY DEF Unreserve
<1> HIDE DEF held
<1>3. \A p \in Products : Total(ItemFor(o, p), held) \in 0 .. reserved[p]
  <2> TAKE p \in Products
  <2>1. /\ Total(ItemFor(o, p), held) \in Nat
        /\ \/ Total(ItemFor(o, p), held) = 0
           \/ \E i \in ItemsIn(o) : ProductOf[i] = p /\ Total(ItemFor(o, p), held) = held[i]
    BY <1>1, LineTotal
  <2> QED BY <1>1, <2>1
<1> QED BY <1>1, <1>2, <1>3

LEMMA ReleaseStep ==
    ASSUME StockInv, NEW o \in Orders, Cancel(o) \/ FinalizeResolution(o)
    PROVE  StockInv'
<1>0. /\ order \in [Orders -> Order] /\ item \in [Items -> Item]
      /\ ledger \in [Items -> Ledger]
      /\ stock \in [Products -> Nat] /\ \A p \in Products : reserved[p] <= stock[p]
      /\ reserved \in [Products -> Nat]
  BY Rows DEF StockInv, NoOversell
<1>1. /\ ReservationsOwned(o) /\ ReleaseLines(o)
      /\ order' = [order EXCEPT ![o].status = "cancelled"]
      /\ UNCHANGED <<stock, receipt, stirred, count>>
  BY DEF Cancel, FinalizeResolution
<1>2. order' \in [Orders -> Order]
  <2>1. /\ order \in [Orders -> Order]
        /\ order' = [order EXCEPT ![o].status = "cancelled"]
    BY <1>0, <1>1
  <2> QED BY <2>1 DEF Order
<1>3. item' \in [Items -> Item]
  <2>1. item' = [i \in Items |-> IF i \notin ItemsIn(o) THEN item[i]
                   ELSE [item[i] EXCEPT !.procurement = "not_required"]]
    BY <1>1 DEF ReleaseLines
  <2>2. \A i \in Items : item'[i] \in Item
    BY <1>0, <2>1 DEF Item
  <2> QED BY <2>1, <2>2
<1>4. ledger' \in [Items -> Ledger]
  <2>1. \A i \in ItemsIn(o) : ledger[i].owned - Holding(i) = 0
    BY <1>0, <1>1 DEF ReservationsOwned, ItemsIn, Ledger
  <2>2. \A i \in Items : ledger'[i] = IF i \notin ItemsIn(o) THEN ledger[i]
                           ELSE [ledger[i] EXCEPT !.owned = 0]
    BY <1>1, <2>1 DEF ReleaseLines
  <2>4. \A i \in Items : ledger'[i] \in Ledger
    <3> TAKE i \in Items
    <3> DEFINE y == [ledger[i] EXCEPT !.owned = 0]
    <3>1. ledger[i] \in Ledger /\ y \in Ledger
      BY <1>0 DEF Ledger
    <3>2. ledger'[i] = IF i \notin ItemsIn(o) THEN ledger[i] ELSE y
      BY <2>2
    <3> HIDE DEF y
    <3> QED BY <3>1, <3>2
  <2> QED BY <1>1, <2>4 DEF ReleaseLines
<1>5. /\ reserved' \in [Products -> Nat]
      /\ \A p \in Products : reserved'[p] <= reserved[p]
  BY <1>1, UnreserveFacts DEF ReleaseLines
<1>6. NoOversell'
  BY <1>0, <1>1, <1>5 DEF NoOversell
<1> QED BY <1>1, <1>2, <1>3, <1>4, <1>5, <1>6, Rows, RowsAfter DEF StockInv, LotsMatch

LEMMA ShipStep ==
    ASSUME StockInv, NEW o \in Orders,
           HandOverAtTill(o) \/ \E cod \in BOOLEAN : HandOverShop(o, cod)
    PROVE  StockInv'
<1> DEFINE held == [i \in ItemsIn(o) |-> Holding(i)]
<1>0. /\ order \in [Orders -> Order] /\ ledger \in [Items -> Ledger]
      /\ stock \in [Products -> Nat] /\ reserved \in [Products -> Nat]
      /\ \A p \in Products : reserved[p] <= stock[p]
  BY Rows DEF StockInv, NoOversell
<1>1. ReservationsOwned(o) /\ ShipLines(o)
  BY DEF HandOverAtTill, HandOverShop
<1>2. order' \in [Orders -> Order]
  <2>1. \/ order' = [order EXCEPT ![o].handed = TRUE, ![o].status = "completed"]
        \/ order' = [order EXCEPT ![o].handed = TRUE]
    BY DEF HandOverAtTill, HandOverShop
  <2> DEFINE x == order[o]
             y == [x EXCEPT !.handed = TRUE]
             z == [x EXCEPT !.handed = TRUE, !.status = "completed"]
  <2>2. y \in Order /\ z \in Order
    <3>1. x \in Order
      BY <1>0
    <3>2. "completed" \in Statuses
      BY DEF Statuses
    <3> HIDE DEF x
    <3>3. y \in Order
      BY <3>1 DEF Order
    <3>4. z \in Order
      BY <3>1, <3>2 DEF Order
    <3> QED BY <3>3, <3>4
  <2>3. order' = [order EXCEPT ![o] = y] \/ order' = [order EXCEPT ![o] = z]
    BY <1>0, <2>1
  <2> HIDE DEF y, z
  <2> QED BY <1>0, <2>2, <2>3
<1>3. ledger' \in [Items -> Ledger]
  <2>1. \A i \in ItemsIn(o) : /\ i \in Items /\ Holding(i) \in Nat
                              /\ ledger[i].owned - Holding(i) = 0
                              /\ ledger[i].shipped + Holding(i) \in Nat
    BY <1>0, <1>1, HoldingNat DEF StockInv, ReservationsOwned, ItemsIn, Ledger
  <2>2. \A i \in Items : ledger'[i] = IF i \notin ItemsIn(o) THEN ledger[i]
          ELSE [ledger[i] EXCEPT !.owned = 0, !.shipped = @ + Holding(i)]
    BY <1>1, <2>1 DEF ShipLines
  <2>4. \A i \in Items : ledger'[i] \in Ledger
    <3> TAKE i \in Items
    <3> DEFINE n == ledger[i].shipped + Holding(i)
               y == [ledger[i] EXCEPT !.owned = 0, !.shipped = n]
    <3>1. ledger[i] \in Ledger
      BY <1>0
    <3>2. ledger'[i] = IF i \notin ItemsIn(o) THEN ledger[i] ELSE y
      BY <2>2
    <3>3. CASE i \notin ItemsIn(o)
      BY <3>1, <3>2, <3>3
    <3>4. CASE i \in ItemsIn(o)
      <4>1. n \in Nat
        BY <2>1, <3>4
      <4> HIDE DEF n
      <4>2. y \in Ledger
        BY <3>1, <4>1 DEF Ledger
      <4> HIDE DEF y
      <4> QED BY <3>2, <3>4, <4>2
    <3> QED BY <3>3, <3>4
  <2> QED BY <1>1, <2>4 DEF ShipLines
<1>4. \A i \in ItemsIn(o) : held[i] \in Nat /\ held[i] = Holding(i)
  BY HoldingNat DEF StockInv, ItemsIn
<1>5. /\ stock' = [p \in Products |-> stock[p] - Total(ItemFor(o, p), held)]
      /\ reserved' = [p \in Products |-> reserved[p] - Total(ItemFor(o, p), held)]
  BY <1>1 DEF ShipLines, Unreserve
<1> HIDE DEF held
<1>6. \A p \in Products : /\ Total(ItemFor(o, p), held) \in 0 .. stock[p]
                          /\ Total(ItemFor(o, p), held) \in 0 .. reserved[p]
  <2> TAKE p \in Products
  <2>1. /\ Total(ItemFor(o, p), held) \in Nat
        /\ \/ Total(ItemFor(o, p), held) = 0
           \/ \E i \in ItemsIn(o) : ProductOf[i] = p /\ Total(ItemFor(o, p), held) = held[i]
    BY <1>4, LineTotal
  <2>2. \A i \in ItemsIn(o) : Holding(i) <= stock[ProductOf[i]] /\ Holding(i) <= reserved[ProductOf[i]]
    BY <1>1 DEF ShipLines
  <2> QED BY <1>0, <1>4, <2>1, <2>2
<1>7. stock' \in [Products -> Nat] /\ reserved' \in [Products -> Nat] /\ NoOversell'
  BY <1>0, <1>5, <1>6 DEF NoOversell
<1>8. stirred' \in [Receipts -> SUBSET Products]
  <2>1. {ProductOf[i] : i \in ItemsIn(o)} \subseteq Products
    BY DEF ItemsIn
  <2> QED BY <1>1, <2>1, StirType DEF StockInv, ShipLines
<1> QED BY <1>1, <1>2, <1>3, <1>7, <1>8, Rows, RowsAfter, ZenonT(60) DEF StockInv, LotsMatch, ShipLines

LEMMA ReturnStep ==
    ASSUME StockInv, NEW o \in Orders, NEW back \in Restocks(o),
           ReceiveReturn(o, back) \/ InspectParcel(o, back)
    PROVE  StockInv'
<1>0. /\ order \in [Orders -> Order] /\ ledger \in [Items -> Ledger]
      /\ stock \in [Products -> Nat] /\ reserved \in [Products -> Nat]
      /\ \A p \in Products : reserved[p] <= stock[p]
  BY Rows DEF StockInv, NoOversell
<1>1. PutBack(o, back)
  BY DEF ReceiveReturn, InspectParcel
<1>2. order' \in [Orders -> Order]
  <2>1. \A x \in Order : [x EXCEPT !.workflow = "inspected"] \in Order
    BY DEF Order
  <2> QED BY <1>0, <2>1 DEF ReceiveReturn, InspectParcel
<1>3. \A i \in ItemsIn(o) : i \in Items /\ back[i] \in Nat
  BY DEF Restocks, ItemsIn
<1>4. ledger' \in [Items -> Ledger]
  BY <1>0, <1>1, <1>3 DEF PutBack, Ledger
<1>5. \A p \in Products : Total(ItemFor(o, p), back) \in Nat
  BY <1>3, LineTotal
<1>6. stock' \in [Products -> Nat] /\ NoOversell'
  BY <1>0, <1>1, <1>5 DEF PutBack, NoOversell
<1> QED BY <1>1, <1>2, <1>4, <1>6, Rows, RowsAfter DEF StockInv, LotsMatch, PutBack

-----------------------------------------------------------------------------
(* Steps of staff: manual operations, corrections and counts.              *)

LEMMA ManualStep ==
    ASSUME StockInv,
           \/ \E p \in Products : \E n \in Quantity : ManualReceipt(p, n) \/ WriteOff(p, n)
           \/ \E i \in Items : \E n \in Quantity : ManualReturn(i, n)
    PROVE  StockInv'
<1>0. /\ stock \in [Products -> Nat] /\ reserved \in [Products -> Nat]
      /\ ledger \in [Items -> Ledger]
      /\ \A p \in Products : reserved[p] <= stock[p]
  BY Rows DEF StockInv, NoOversell
<1>1. ASSUME NEW p \in Products, NEW n \in Quantity, ManualReceipt(p, n)
      PROVE  StockInv'
  <2>1. stock' \in [Products -> Nat] /\ NoOversell'
    BY <1>0, <1>1 DEF ManualReceipt, NoOversell, Quantity
  <2> QED BY <1>1, <2>1, Rows, RowsAfter DEF StockInv, LotsMatch, ManualReceipt
<1>2. ASSUME NEW p \in Products, NEW n \in Quantity, WriteOff(p, n)
      PROVE  StockInv'
  <2>1. stock' \in [Products -> Nat] /\ NoOversell'
    BY <1>0, <1>2 DEF WriteOff, NoOversell, Quantity, Available
  <2>2. stirred' \in [Receipts -> SUBSET Products]
    BY <1>2, StirType DEF StockInv, WriteOff
  <2> QED BY <1>2, <2>1, <2>2, Rows, RowsAfter DEF StockInv, LotsMatch, WriteOff
<1>3. ASSUME NEW i \in Items, NEW n \in Quantity, ManualReturn(i, n)
      PROVE  StockInv'
  <2>1. stock' \in [Products -> Nat] /\ NoOversell'
    BY <1>0, <1>3 DEF ManualReturn, NoOversell, Quantity
  <2>2. ledger' \in [Items -> Ledger]
    BY <1>0, <1>3 DEF ManualReturn, Ledger, Quantity
  <2> QED BY <1>3, <2>1, <2>2, Rows, RowsAfter DEF StockInv, LotsMatch, ManualReturn
<1> QED BY <1>1, <1>2, <1>3

LEMMA CorrectStep ==
    ASSUME StockInv, NEW r \in Receipts, NEW b \in Lots, NEW n \in 0 .. MaxQuantity,
           CorrectReceipt(r, b, n)
    PROVE  StockInv'
<1> DEFINE p == LotProduct[b]
           x == receipt[r]
           delta == n - x.quantity[b]
           qs == [x.quantity EXCEPT ![b] = n]
           y == [x EXCEPT !.quantity = qs]
<1>0. /\ stock \in [Products -> Nat] /\ reserved \in [Products -> Nat]
      /\ \A q \in Products : reserved[q] <= stock[q]
      /\ receipt \in [Receipts -> Receipt] /\ x \in Receipt /\ Matched(x)
      /\ p \in Products /\ stirred \in [Receipts -> SUBSET Products]
  BY Rows DEF StockInv, NoOversell, LotsMatch, Matched
<1>1. /\ delta < 0 => Available(p) >= -delta
      /\ stock' = [stock EXCEPT ![p] = @ + delta]
      /\ UNCHANGED <<reserved, order, item, ledger, count>>
  BY DEF CorrectReceipt
<1>2. x.quantity[b] \in Nat /\ delta \in Int
  BY <1>0 DEF Receipt
<1>3. stock' \in [Products -> Nat] /\ NoOversell'
  <2> HIDE DEF delta, p
  <2> QED BY <1>0, <1>1, <1>2 DEF NoOversell, Available
<1>4. receipt' = [receipt EXCEPT ![r] = y]
  BY <1>0 DEF CorrectReceipt
<1>5. y \in Receipt /\ Matched(y)
  <2>1. qs \in [Lots -> Nat]
    BY <1>0 DEF Receipt
  <2> HIDE DEF qs
  <2> QED BY <1>0, <2>1 DEF Receipt, Matched
<1>6. receipt' \in [Receipts -> Receipt] /\ LotsMatch'
  <2> HIDE DEF y
  <2> QED BY <1>4, <1>5, ReceiptRow
<1>7. stirred' \in [Receipts -> SUBSET Products]
  BY <1>0 DEF CorrectReceipt
<1> QED BY <1>1, <1>3, <1>6, <1>7, Rows, RowsAfter DEF StockInv

LEMMA PostCountStep ==
    ASSUME StockInv, NEW c \in Counts, PostCount(c)
    PROVE  StockInv'
<1>0. /\ stock \in [Products -> Nat] /\ reserved \in [Products -> Nat]
      /\ \A p \in Products : reserved[p] <= stock[p]
      /\ count \in [Counts -> Count]
  BY Rows DEF StockInv, NoOversell
<1>1. \A p \in Scanned(c) : p \in Products /\ count[c].counted[p] \in Nat
  BY <1>0 DEF Scanned, Count
<1>2. stock' \in [Products -> Nat] /\ NoOversell'
  BY <1>0, <1>1 DEF PostCount, NoOversell
<1>3. stirred' \in [Receipts -> SUBSET Products]
  <2>1. {p \in Scanned(c) : count[c].counted[p] < stock[p]} \subseteq Products
    BY <1>1
  <2> QED BY <2>1, StirType DEF StockInv, PostCount
<1>4. count' \in [Counts -> Count]
  BY <1>0 DEF PostCount, Count
<1> QED BY <1>2, <1>3, <1>4, Rows, RowsAfter DEF StockInv, LotsMatch, PostCount

-----------------------------------------------------------------------------
(* Posting a receipt: what goes to order lines came with the receipt.      *)

LEMMA PlannedNat ==
    ASSUME TypeOK, NEW r \in Receipts, NEW i \in Items
    PROVE  Planned(r, i, {}) \in Nat
<1> DEFINE f == [b \in Lots |-> receipt[r].alloc[b][i]]
<1>1. receipt[r] \in Receipt
  BY Rows
<1>2. \A b \in Lots \ {} : f[b] \in Nat
  BY <1>1 DEF Receipt
<1>3. IsFiniteSet(Lots \ {})
  <2>1. Lots \ {} = Lots
    OBVIOUS
  <2> QED BY <2>1
<1> HIDE DEF f
<1>4. Total(Lots \ {}, f) \in Nat
  BY <1>2, <1>3, TotalNat
<1> QED BY <1>4 DEF Planned, f

\* The lines of a product take no more from a receipt than it brings of it.
LEMMA PlannedCovered ==
    ASSUME StockInv, NEW r \in Receipts, NEW p \in Products,
           \A b \in Lots : Total(Items, receipt[r].alloc[b]) <= receipt[r].quantity[b]
    PROVE  /\ Total(LotsOf(p), receipt[r].quantity) \in Nat
           /\ Total({i \in Items : ProductOf[i] = p}, [i \in Items |-> Planned(r, i, {})]) \in Nat
           /\ Total({i \in Items : ProductOf[i] = p}, [i \in Items |-> Planned(r, i, {})])
                <= Total(LotsOf(p), receipt[r].quantity)
<1> DEFINE S == {i \in Items : ProductOf[i] = p}
           T == LotsOf(p)
           a == receipt[r].alloc
           q == receipt[r].quantity
           cover == [i \in Items |-> Planned(r, i, {})]
           c == [i \in S |-> Total(T, [b \in T |-> a[b][i]])]
<1>1. /\ receipt[r] \in Receipt
      /\ \A b \in Lots : \A i \in Items : a[b][i] > 0 => ProductOf[i] = LotProduct[b]
  BY Rows DEF StockInv, LotsMatch
<1>2. /\ \A b \in Lots : q[b] \in Nat
      /\ \A b \in Lots : \A i \in Items : a[b][i] \in Nat
  BY <1>1 DEF Receipt
<1>3. IsFiniteSet(S) /\ IsFiniteSet(T) /\ S \subseteq Items /\ T \subseteq Lots
  BY FS_Subset DEF LotsOf
<1>4. \A i \in S : cover[i] = c[i]
  <2> TAKE i \in S
  <2> DEFINE f == [b \in Lots |-> a[b][i]]
             g == [b \in T |-> a[b][i]]
  <2>1. \A b \in Lots \ T : f[b] = 0
    <3> SUFFICES ASSUME NEW b \in Lots \ T PROVE a[b][i] = 0
      OBVIOUS
    <3>1. LotProduct[b] # p
      BY DEF LotsOf
    <3>2. a[b][i] \in Nat /\ ~(a[b][i] > 0)
      BY <1>1, <1>2, <3>1
    <3> QED BY <3>2
  <2>2. \A b \in T : f[b] = g[b]
    BY <1>3
  <2>3. cover[i] = Total(Lots, f)
    <3>1. Lots \ {} = Lots
      OBVIOUS
    <3> QED BY <3>1 DEF Planned
  <2> HIDE DEF f, g
  <2>4. Total(Lots, f) = Total(T, f)
    BY <1>3, <2>1, TotalZeroOutside
  <2>5. Total(T, f) = Total(T, g)
    BY <2>2, TotalSame
  <2> QED BY <2>3, <2>4, <2>5 DEF g
<1>5. \A b \in T : Total(S, a[b]) <= q[b]
  <2> TAKE b \in T
  <2>1. b \in Lots /\ Total(Items, a[b]) <= q[b]
    BY <1>3
  <2>2. \A i \in Items : a[b][i] \in Nat
    BY <1>2, <2>1
  <2>3. Total(S, a[b]) <= Total(Items, a[b])
    BY <1>3, <2>2, TotalSubset
  <2>4. Total(S, a[b]) \in Nat /\ Total(Items, a[b]) \in Nat /\ q[b] \in Nat
    BY <1>2, <1>3, <2>1, <2>2, TotalNat
  <2> QED BY <2>1, <2>3, <2>4
<1>6. /\ \A b \in T : q[b] \in Nat /\ Total(S, a[b]) <= q[b]
      /\ \A b \in T : \A i \in S : a[b][i] \in Nat
  BY <1>2, <1>3, <1>5
<1>7. Total(S, cover) = Total(S, c)
  <2> HIDE DEF cover, c
  <2> QED BY <1>4, TotalSame
<1>8. Total(S, c) <= Total(T, q)
  <2> HIDE DEF S, T, a, q
  <2> QED BY <1>3, <1>6, TotalCovered
<1>9. \A i \in S : cover[i] \in Nat
  BY PlannedNat DEF StockInv
<1>10. Total(S, cover) \in Nat
  <2> HIDE DEF cover
  <2> QED BY <1>3, <1>9, TotalNat
<1>11. Total(T, q) \in Nat
  BY <1>2, <1>3, TotalNat
<1> QED BY <1>7, <1>8, <1>10, <1>11

LEMMA PostStep ==
    ASSUME StockInv, NEW r \in Receipts, PostReceipt(r)
    PROVE  StockInv'
<1> DEFINE covered(i) == Planned(r, i, {})
           arrived(p) == Total(LotsOf(p), receipt[r].quantity)
           out(p) == Total({i \in Items : ProductOf[i] = p}, [i \in Items |-> covered(i)])
<1>0. /\ stock \in [Products -> Nat] /\ reserved \in [Products -> Nat]
      /\ \A p \in Products : reserved[p] <= stock[p]
      /\ item \in [Items -> Item] /\ ledger \in [Items -> Ledger]
      /\ receipt \in [Receipts -> Receipt] /\ Matched(receipt[r])
  BY Rows DEF StockInv, NoOversell, LotsMatch, Matched
<1>1. \A i \in Items : covered(i) \in Nat
  BY PlannedNat DEF StockInv
<1>2. \A p \in Products : arrived(p) \in Nat /\ out(p) \in Nat /\ out(p) <= arrived(p)
  BY PlannedCovered DEF PostReceipt
<1>3. /\ stock' = [p \in Products |-> stock[p] + arrived(p)]
      /\ reserved' = [p \in Products |-> reserved[p] + out(p)]
      /\ item' = [i \in Items |-> IF covered(i) = 0 THEN item[i] ELSE
           [item[i] EXCEPT !.received = @ + covered(i),
                           !.procurement = IF covered(i) = Remaining(i)
                                           THEN "received" ELSE "ordered"]]
      /\ ledger' = [i \in Items |-> [ledger[i] EXCEPT !.owned = @ + covered(i)]]
      /\ Stir({ProductOf[i] : i \in {k \in Items : covered(k) > 0}})
      /\ receipt' = [receipt EXCEPT ![r].status = "posted"]
      /\ UNCHANGED <<order, count>>
  BY DEF PostReceipt
<1>4. stock' \in [Products -> Nat] /\ reserved' \in [Products -> Nat] /\ NoOversell'
  <2>1. /\ stock' = [p \in Products |-> stock[p] + arrived(p)]
        /\ reserved' = [p \in Products |-> reserved[p] + out(p)]
    BY <1>3
  <2> HIDE DEF arrived, out
  <2>2. \A p \in Products : /\ stock'[p] \in Nat /\ reserved'[p] \in Nat
                            /\ 0 <= reserved'[p] /\ reserved'[p] <= stock'[p]
    BY <1>0, <1>2, <2>1
  <2> QED BY <2>1, <2>2 DEF NoOversell
<1>5. item' \in [Items -> Item]
  <2>1. \A i \in Items : item'[i] \in Item
    <3> TAKE i \in Items
    <3> DEFINE n == item[i].received + covered(i)
               s == IF covered(i) = Remaining(i) THEN "received" ELSE "ordered"
               y == [item[i] EXCEPT !.received = n, !.procurement = s]
    <3>1. item[i] \in Item /\ n \in Nat /\ s \in {"received", "ordered"}
      BY <1>0, <1>1 DEF Item
    <3>2. item'[i] = item[i] \/ item'[i] = y
      BY <1>3
    <3> HIDE DEF n, s
    <3>3. y \in Item
      BY <3>1 DEF Item
    <3> HIDE DEF y
    <3> QED BY <3>1, <3>2, <3>3
  <2> QED BY <1>3, <2>1
<1>6. ledger' \in [Items -> Ledger]
  <2>1. \A i \in Items : ledger'[i] \in Ledger
    <3> TAKE i \in Items
    <3> DEFINE n == ledger[i].owned + covered(i)
               y == [ledger[i] EXCEPT !.owned = n]
    <3>1. ledger[i] \in Ledger /\ n \in Nat
      BY <1>0, <1>1 DEF Ledger
    <3>2. ledger'[i] = y
      BY <1>3
    <3> HIDE DEF n
    <3> QED BY <3>1, <3>2 DEF Ledger
  <2> QED BY <1>3, <2>1
<1>7. receipt' \in [Receipts -> Receipt] /\ LotsMatch'
  <2> DEFINE y == [receipt[r] EXCEPT !.status = "posted"]
  <2>1. y \in Receipt /\ Matched(y) /\ receipt' = [receipt EXCEPT ![r] = y]
    <3>1. receipt' = [receipt EXCEPT ![r].status = "posted"]
      BY <1>3
    <3>2. receipt[r] \in Receipt /\ Matched(receipt[r])
      BY <1>0
    <3>3. y \in Receipt
      BY <3>2 DEF Receipt
    <3>4. y.alloc = receipt[r].alloc
      BY <3>2 DEF Receipt
    <3> HIDE DEF y
    <3>5. Matched(y)
      BY <3>2, <3>4 DEF Matched
    <3> QED BY <1>0, <3>1, <3>3, <3>5 DEF y
  <2> HIDE DEF y
  <2> QED BY <2>1, ReceiptRow
<1>8. stirred' \in [Receipts -> SUBSET Products]
  <2>1. {ProductOf[i] : i \in {k \in Items : covered(k) > 0}} \subseteq Products
    OBVIOUS
  <2> HIDE DEF covered
  <2> QED BY <1>3, <2>1, StirType DEF StockInv
<1>9. order' = order /\ count' = count
  BY <1>3
<1> QED BY <1>4, <1>5, <1>6, <1>7, <1>8, <1>9, Rows, RowsAfter DEF StockInv

-----------------------------------------------------------------------------

LEMMA InitStock == Init => StockInv
<1> SUFFICES ASSUME Init PROVE StockInv
  OBVIOUS
<1>1. /\ NoOrder \in Order /\ NoItem \in Item /\ NoLedger \in Ledger
      /\ NoReceipt \in Receipt /\ NoCount \in Count /\ Matched(NoReceipt)
  BY DEF NoOrder, NoItem, NoLedger, NoReceipt, NoCount, Order, Item, Ledger, Receipt, Count, Matched
<1>2. TypeOK
  BY <1>1, Rows DEF Init
<1> QED BY <1>1, <1>2 DEF Init, StockInv, NoOversell, LotsMatch, Matched

LEMMA StockStep == StockInv /\ [Next]_vars => StockInv'
<1> SUFFICES ASSUME StockInv, [Next]_vars PROVE StockInv'
  OBVIOUS
<1>1. CASE UNCHANGED vars
  BY <1>1, Rows, RowsAfter DEF StockInv, NoOversell, LotsMatch, vars
<1>2. CASE OrderNext
  BY <1>2, CreateStep, OrderStep, ReleaseStep, ShipStep DEF OrderNext
<1>3. CASE ReturnNext
  BY <1>3, ReturnStep, OrderStep DEF ReturnNext
<1>4. CASE ReceiptNext
  BY <1>4, MarkStep, DraftStep, PostStep, CorrectStep DEF ReceiptNext
<1>5. CASE ManualNext
  BY <1>5, ManualStep DEF ManualNext
<1>6. CASE CountNext
  BY <1>6, CountStep, PostCountStep DEF CountNext
<1> QED BY <1>1, <1>2, <1>3, <1>4, <1>5, <1>6 DEF Next

THEOREM StockInvariance == Spec => []StockInv
BY InitStock, StockStep, PTL DEF Spec

\* Types: no operation drives a stock, a reservation, a line's quantities or
\* its summed movements below zero.
THEOREM TypeCorrect == Spec => []TypeOK
<1>1. StockInv => TypeOK
  BY DEF StockInv
<1> QED BY <1>1, StockInvariance, PTL

\* What is reserved is in stock, whatever orders, receipts, corrections, manual
\* operations and counts interleave, for every shop: products' CHECK constraint
\* never has to refuse a commit.
THEOREM NeverOversold == Spec => []NoOversell
<1>1. StockInv => NoOversell
  BY DEF StockInv
<1> QED BY <1>1, StockInvariance, PTL
=============================================================================
