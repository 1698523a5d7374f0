---------------------------- MODULE TotalsProofs ----------------------------
(***************************************************************************)
(* How a total depends on the values it sums.                              *)
(***************************************************************************)
EXTENDS Totals, FiniteSetTheorems, TLAPS

(* The units of one element, and of a set of elements. *)
LEMMA UnitsOfOne ==
    ASSUME NEW f, NEW x, f[x] \in Nat
    PROVE  IsFiniteSet(UnitsOf(f, x)) /\ Cardinality(UnitsOf(f, x)) = f[x]
  <1>1. IsFiniteSet(1 .. f[x]) /\ Cardinality(1 .. f[x]) = f[x]
    BY FS_Interval
  <1>2. IsFiniteSet({x}) /\ Cardinality({x}) = 1
    BY FS_Singleton
  <1>3. IsFiniteSet(UnitsOf(f, x)) /\ Cardinality(UnitsOf(f, x)) = 1 * f[x]
    BY <1>1, <1>2, FS_Product DEF UnitsOf
  <1> QED
    BY <1>3

LEMMA UnitsAreFinite ==
    ASSUME NEW S, IsFiniteSet(S), NEW f, \A x \in S : f[x] \in Nat
    PROVE  IsFiniteSet(UnitsIn(S, f))
  <1> DEFINE units == {UnitsOf(f, x) : x \in S}
             unit == [x \in S |-> UnitsOf(f, x)]
  <1>1. unit \in Surjection(S, units)
    BY DEF Surjection
  <1>2. IsFiniteSet(units)
    BY <1>1, FS_Surjection
  <1>3. \A U \in units : IsFiniteSet(U)
    BY UnitsOfOne
  <1> QED
    BY <1>2, <1>3, FS_UNION DEF UnitsIn

LEMMA UnitsMembers ==
    ASSUME NEW S, NEW f, NEW u
    PROVE  u \in UnitsIn(S, f) <=> \E x \in S : \E i \in 1 .. f[x] : u = <<x, i>>
  BY DEF UnitsIn, UnitsOf

(* The total of a finite function is a natural number. *)
LEMMA TotalType ==
    ASSUME NEW S, IsFiniteSet(S), NEW f \in [S -> Nat]
    PROVE  Total(f) \in Nat
  BY UnitsAreFinite, FS_CardinalityType DEF Total

(* One element apart from the others. *)
LEMMA TotalSplit ==
    ASSUME NEW S, IsFiniteSet(S), NEW f \in [S -> Nat], NEW e \in S
    PROVE  /\ IsFiniteSet(UnitsIn(S \ {e}, f)) /\ Cardinality(UnitsIn(S \ {e}, f)) \in Nat
           /\ Total(f) = Cardinality(UnitsIn(S \ {e}, f)) + f[e]
  <1> DEFINE Rest == UnitsIn(S \ {e}, f)
  <1>1. IsFiniteSet(Rest) /\ Cardinality(Rest) \in Nat
    BY FS_Subset, UnitsAreFinite, FS_CardinalityType
  <1>2. IsFiniteSet(UnitsOf(f, e)) /\ Cardinality(UnitsOf(f, e)) = f[e]
    BY UnitsOfOne
  <1>3. UnitsIn(S, f) = Rest \cup UnitsOf(f, e)
    BY DEF UnitsIn
  <1>4. Rest \cap UnitsOf(f, e) = {}
    BY UnitsMembers DEF UnitsOf
  <1>5. Cardinality(Rest \cap UnitsOf(f, e)) = 0
    BY <1>4, FS_EmptySet
  <1>6. Cardinality(UnitsIn(S, f)) = Cardinality(Rest) + f[e] - 0
    BY <1>1, <1>2, <1>3, <1>5, FS_Union
  <1> QED
    BY <1>1, <1>6 DEF Total

(* The total changes as the value of the one element that changes.         *)
LEMMA TotalChange ==
    ASSUME NEW S, IsFiniteSet(S), NEW f \in [S -> Nat], NEW g \in [S -> Nat], NEW e \in S,
           \A x \in S \ {e} : g[x] = f[x]
    PROVE  Total(g) + f[e] = Total(f) + g[e]
  <1>1. UnitsIn(S \ {e}, g) = UnitsIn(S \ {e}, f)
    BY DEF UnitsIn, UnitsOf
  <1>2. PICK rest \in Nat : rest = Cardinality(UnitsIn(S \ {e}, f))
    BY TotalSplit
  <1>3. Total(f) = rest + f[e] /\ Total(g) = rest + g[e]
    BY <1>1, <1>2, TotalSplit
  <1> QED
    BY <1>2, <1>3

(* Two functions with the same values have the same total. *)
LEMMA TotalSame ==
    ASSUME NEW S, NEW f \in [S -> Nat], NEW g \in [S -> Nat], \A x \in S : g[x] = f[x]
    PROVE  Total(g) = Total(f)
  <1>1. f = g
    OBVIOUS
  <1> QED
    BY <1>1

LEMMA TotalZero ==
    ASSUME NEW S, NEW f \in [S -> Nat], \A x \in S : f[x] = 0
    PROVE  Total(f) = 0
  <1>1. \A u : u \notin UnitsIn(S, f)
    BY UnitsMembers
  <1>2. UnitsIn(S, f) = {}
    BY <1>1
  <1> QED
    BY <1>2, FS_EmptySet DEF Total

LEMMA TotalMonotone ==
    ASSUME NEW S, IsFiniteSet(S), NEW f \in [S -> Nat], NEW g \in [S -> Nat],
           \A x \in S : f[x] <= g[x]
    PROVE  Total(f) <= Total(g)
  <1>1. ASSUME NEW u \in UnitsIn(S, f)
        PROVE  u \in UnitsIn(S, g)
    <2>p1. PICK x \in S : \E i \in 1 .. f[x] : u = <<x, i>>
      BY UnitsMembers
    <2>1. PICK i \in 1 .. f[x] : u = <<x, i>>
      BY <2>p1
    <2>2. i \in 1 .. g[x]
      BY <2>1
    <2> QED
      BY <2>1, <2>2, UnitsMembers
  <1>2. UnitsIn(S, f) \in SUBSET UnitsIn(S, g)
    BY <1>1
  <1> QED
    BY <1>2, UnitsAreFinite, FS_Subset DEF Total

(* A total of sums is the sum of the totals: the units of h beyond those   *)
(* of f are as many as those of g.                                         *)
LEMMA TotalAdd ==
    ASSUME NEW S, IsFiniteSet(S), NEW f \in [S -> Nat], NEW g \in [S -> Nat], NEW h \in [S -> Nat],
           \A x \in S : h[x] = f[x] + g[x]
    PROVE  Total(h) = Total(f) + Total(g)
  <1> DEFINE F == UnitsIn(S, f)
             G == UnitsIn(S, g)
             H == UnitsIn(S, h)
             up == [u \in G |-> <<u[1], f[u[1]] + u[2]>>]
  <1>1. IsFiniteSet(F) /\ IsFiniteSet(G) /\ IsFiniteSet(H)
    BY UnitsAreFinite
  <1>2. F \cap H = F
    <2>1. ASSUME NEW u \in F PROVE u \in H
      <3>p1. PICK x \in S : \E i \in 1 .. f[x] : u = <<x, i>>
        BY UnitsMembers
      <3>1. PICK i \in 1 .. f[x] : u = <<x, i>>
        BY <3>p1
      <3>2. i \in 1 .. h[x]
        BY <3>1
      <3> QED
        BY <3>1, <3>2, UnitsMembers
    <2> QED
      BY <2>1
  <1>3. ASSUME NEW u \in G
        PROVE  up[u] \in H \ F
    <2>p1. PICK x \in S : \E i \in 1 .. g[x] : u = <<x, i>>
      BY UnitsMembers
    <2>1. PICK i \in 1 .. g[x] : u = <<x, i>>
      BY <2>p1
    <2>2. up[u] = <<x, f[x] + i>>
      BY <2>1
    <2>3. f[x] + i \in 1 .. h[x] /\ f[x] + i \notin 1 .. f[x]
      BY <2>1
    <2> QED
      BY <2>2, <2>3, UnitsMembers
  <1>4. ASSUME NEW v \in H \ F
        PROVE  \E u \in G : up[u] = v
    <2>p1. PICK x \in S : \E j \in 1 .. h[x] : v = <<x, j>>
      BY UnitsMembers
    <2>1. PICK j \in 1 .. h[x] : v = <<x, j>>
      BY <2>p1
    <2>2. j \notin 1 .. f[x]
      BY <2>1, UnitsMembers
    <2>3. j - f[x] \in 1 .. g[x] /\ f[x] + (j - f[x]) = j
      BY <2>1, <2>2
    <2>4. <<x, j - f[x]>> \in G
      BY <2>3, UnitsMembers
    <2>5. up[<<x, j - f[x]>>] = v
      BY <2>1, <2>3, <2>4
    <2> QED
      BY <2>4, <2>5
  <1>5. ASSUME NEW u \in G, NEW v \in G, up[u] = up[v]
        PROVE  u = v
    <2>p1. PICK x \in S : \E i \in 1 .. g[x] : u = <<x, i>>
      BY UnitsMembers
    <2>1. PICK i \in 1 .. g[x] : u = <<x, i>>
      BY <2>p1
    <2>p2. PICK y \in S : \E j \in 1 .. g[y] : v = <<y, j>>
      BY UnitsMembers
    <2>2. PICK j \in 1 .. g[y] : v = <<y, j>>
      BY <2>p2
    <2>3. x = y /\ f[x] + i = f[y] + j
      BY <1>5, <2>1, <2>2
    <2> QED
      BY <2>1, <2>2, <2>3
  <1>6. up \in Bijection(G, H \ F)
    BY <1>3, <1>4, <1>5 DEF Bijection, Injection, Surjection, IsInjective
  <1>7. Cardinality(H \ F) = Cardinality(G)
    BY <1>1, <1>6, FS_Bijection DEF ExistsBijection
  <1>8. Cardinality(H \ F) = Cardinality(H) - Cardinality(F)
    <2>1. H \cap F = F
      BY <1>2
    <2>2. IsFiniteSet(H)
      BY <1>1
    <2> HIDE DEF F, H
    <2>3. Cardinality(H \ F) = Cardinality(H) - Cardinality(H \cap F)
      BY <2>2, FS_Difference
    <2> QED
      BY <2>1, <2>3
  <1>9. Cardinality(F) \in Nat /\ Cardinality(G) \in Nat /\ Cardinality(H) \in Nat
    BY <1>1, FS_CardinalityType
  <1> QED
    BY <1>7, <1>8, <1>9 DEF Total

(* A total over two elements.                                              *)
LEMMA TotalTwo ==
    ASSUME NEW a, NEW b, a # b, NEW f \in [{a, b} -> Nat]
    PROVE  Total(f) = f[a] + f[b]
  <1> DEFINE S == {a, b}
             zero == [x \in S |-> 0]
             first == [x \in S |-> IF x = a THEN f[a] ELSE 0]
  <1>1. IsFiniteSet(S)
    <2>1. IsFiniteSet({a}) /\ S = {a} \cup {b}
      BY FS_Singleton
    <2> QED
      BY <2>1, FS_AddElement
  <1>2. zero \in [S -> Nat] /\ first \in [S -> Nat]
    OBVIOUS
  <1>3. Total(zero) = 0
    BY <1>2, TotalZero
  <1>4. Total(first) \in Nat /\ Total(f) \in Nat
    BY <1>1, <1>2, TotalType
  <1>5. Total(first) + zero[a] = Total(zero) + first[a]
    BY <1>1, <1>2, TotalChange
  <1>6. Total(f) + first[b] = Total(first) + f[b]
    BY <1>1, <1>2, TotalChange
  <1> QED
    BY <1>3, <1>4, <1>5, <1>6
=============================================================================
