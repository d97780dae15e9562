--------------------------- MODULE OperatorLemmas ---------------------------
(***************************************************************************)
(* Facts about the operators that several models are built from, for every *)
(* value of their arguments: sums over finite domains, a longer or shorter *)
(* sequence, loops written as functions of their iterations, and the types *)
(* of the circular sweep over the delegations.                             *)
(***************************************************************************)
EXTENDS Sums, RewardSweep, FiniteSetTheorems, TLAPS

-----------------------------------------------------------------------------
(* Sums, sequences and loops.                                              *)

\* There are finitely many units.
LEMMA SumType ==
  ASSUME NEW D, IsFiniteSet(D), NEW f \in [D -> Nat]
  PROVE  IsFiniteSet(Units(f)) /\ Sum(f) \in Nat
<1> DEFINE P == {{x} \X (1 .. f[x]) : x \in D}
           g == [x \in D |-> {x} \X (1 .. f[x])]
<1>1. g \in Surjection(D, P)
  BY Zenon DEF Surjection
<1>2. IsFiniteSet(P)
  BY <1>1, FS_Surjection
<1>3. ASSUME NEW x \in D
      PROVE  IsFiniteSet({x} \X (1 .. f[x]))
  <2>1. IsFiniteSet({x})
    BY FS_Singleton
  <2>2. IsFiniteSet(1 .. f[x])
    BY FS_Interval
  <2> QED  BY <2>1, <2>2, FS_Product, Zenon
<1>4. \A T \in P : IsFiniteSet(T)
  BY <1>3
<1>5. IsFiniteSet(UNION P)
  <2> HIDE DEF P
  <2> QED  BY <1>2, <1>4, FS_UNION
<1>6. Units(f) = UNION P
  BY DEF Units
<1> QED  BY <1>5, <1>6, FS_CardinalityType DEF Sum

\* Nothing adds up to nothing.
LEMMA SumZero ==
  ASSUME NEW D, NEW f \in [D -> Nat], \A x \in D : f[x] = 0
  PROVE  Sum(f) = 0
<1>1. Units(f) = {}
  BY DEF Units
<1> QED  BY <1>1, FS_EmptySet DEF Sum

\* The sum over two disjoint domains.
LEMMA SumUnion ==
  ASSUME NEW D, IsFiniteSet(D), NEW E, IsFiniteSet(E), \A x \in D : x \notin E
  PROVE  \A f \in [D -> Nat], g \in [E -> Nat], h \in [D \cup E -> Nat] :
           (\A x \in D : h[x] = f[x]) /\ (\A x \in E : h[x] = g[x])
             => Sum(h) = Sum(f) + Sum(g)
<1> SUFFICES ASSUME NEW f \in [D -> Nat], NEW g \in [E -> Nat], NEW h \in [D \cup E -> Nat],
                    \A x \in D : h[x] = f[x], \A x \in E : h[x] = g[x]
             PROVE  Sum(h) = Sum(f) + Sum(g)
  OBVIOUS
<1>1. IsFiniteSet(Units(f)) /\ IsFiniteSet(Units(g))
  BY SumType
<1>2. \A F, k : k \in [F -> Nat] => \A u : u \in Units(k) <=> \E x \in F : u \in {x} \X (1 .. k[x])
  BY DEF Units
<1>3. Units(h) = Units(f) \cup Units(g)
  <2>1. \A u : u \in Units(h) <=> \E x \in D \cup E : u \in {x} \X (1 .. h[x])
    BY <1>2
  <2>2. \A u : u \in Units(f) <=> \E x \in D : u \in {x} \X (1 .. f[x])
    BY <1>2
  <2>3. \A u : u \in Units(g) <=> \E x \in E : u \in {x} \X (1 .. g[x])
    BY <1>2
  <2> QED  BY <2>1, <2>2, <2>3
<1>4. Units(f) \cap Units(g) = {}
  <2>1. \A u \in Units(f) : u[1] \in D
    BY <1>2
  <2>2. \A u \in Units(g) : u[1] \in E
    BY <1>2
  <2> QED  BY <2>1, <2>2
<1>5. Cardinality(Units(f) \cup Units(g))
        = Cardinality(Units(f)) + Cardinality(Units(g)) - Cardinality(Units(f) \cap Units(g))
  BY <1>1, FS_Union
<1>6. Cardinality(Units(f) \cap Units(g)) = 0
  BY <1>4, FS_EmptySet
<1>7. Cardinality(Units(f)) \in Nat /\ Cardinality(Units(g)) \in Nat
  BY <1>1, FS_CardinalityType
<1> QED  BY <1>3, <1>5, <1>6, <1>7 DEF Sum

\* The sum of one amount.
LEMMA SumOne ==
  ASSUME NEW x, NEW f \in [{x} -> Nat]
  PROVE  Sum(f) = f[x]
<1>1. Units(f) = {x} \X (1 .. f[x])
  BY DEF Units
<1>2. IsFiniteSet({x}) /\ Cardinality({x}) = 1
  BY FS_Singleton, Zenon
<1>3. IsFiniteSet(1 .. f[x]) /\ Cardinality(1 .. f[x]) = f[x]
  BY FS_Interval
<1>4. Cardinality({x} \X (1 .. f[x])) = Cardinality({x}) * Cardinality(1 .. f[x])
  BY <1>2, <1>3, FS_Product, Zenon
<1>5. f[x] \in Nat
  OBVIOUS
<1>6. Cardinality({x} \X (1 .. f[x])) = f[x]
  BY <1>2, <1>3, <1>4, <1>5
<1> QED  BY <1>1, <1>6 DEF Sum

\* One more argument adds its amount.
LEMMA SumAdd ==
  ASSUME NEW D, IsFiniteSet(D), NEW f \in [D -> Nat], NEW x, x \notin D,
         NEW F, F = D \cup {x}, NEW h \in [F -> Nat], \A y \in D : h[y] = f[y]
  PROVE  Sum(h) = Sum(f) + h[x]
<1> DEFINE g == [y \in {x} |-> h[x]]
<1>1. g \in [{x} -> Nat] /\ g[x] = h[x]
  OBVIOUS
<1>2. IsFiniteSet({x}) /\ \A y \in D : y \notin {x}
  BY FS_Singleton, Zenon
<1>3. \A y \in {x} : h[y] = g[y]
  OBVIOUS
<1>4. Sum(g) = h[x]
  BY <1>1, SumOne
<1> HIDE DEF g
<1>5. Sum(h) = Sum(f) + Sum(g)
  BY <1>1, <1>2, <1>3, SumUnion
<1> QED  BY <1>4, <1>5

\* Changing one amount changes the sum by as much, and the sum is at least
\* that amount.
LEMMA SumExcept ==
  ASSUME NEW D, IsFiniteSet(D), NEW f \in [D -> Nat], NEW x \in D, NEW n \in Nat
  PROVE  /\ Sum([f EXCEPT ![x] = n]) = Sum(f) - f[x] + n
         /\ f[x] <= Sum(f)
<1> DEFINE r == [y \in D \ {x} |-> f[y]]
           h == [f EXCEPT ![x] = n]
<1>1. IsFiniteSet(D \ {x}) /\ (D \ {x}) \cup {x} = D
  BY FS_RemoveElement
<1>2. r \in [D \ {x} -> Nat] /\ h \in [D -> Nat] /\ h[x] = n
  OBVIOUS
<1>3. \A y \in D \ {x} : f[y] = r[y] /\ h[y] = r[y]
  OBVIOUS
<1>4. Sum(r) \in Nat
  BY <1>1, <1>2, SumType
<1> HIDE DEF r, h
<1>5. Sum(f) = Sum(r) + f[x]
  BY <1>1, <1>2, <1>3, SumAdd
<1>6. Sum(h) = Sum(r) + h[x]
  BY <1>1, <1>2, <1>3, SumAdd
<1>7. f[x] \in Nat
  OBVIOUS
<1> QED  BY <1>2, <1>4, <1>5, <1>6, <1>7 DEF h

\* Renumbering the arguments of a sequence of amounts does not change its sum.
LEMMA SumShift ==
  ASSUME NEW n \in Nat, NEW k \in Nat, NEW f \in [1 .. n -> Nat],
         NEW g \in [k + 1 .. k + n -> Nat], \A i \in 1 .. n : g[k + i] = f[i]
  PROVE  Sum(g) = Sum(f)
<1>1. IsFiniteSet(Units(f))
  BY SumType, FS_Interval
<1> DEFINE b == [u \in Units(f) |-> <<k + u[1], u[2]>>]
<1>2. \A u : u \in Units(f) <=> \E i \in 1 .. n : u \in {i} \X (1 .. f[i])
  BY DEF Units
<1>3. \A u : u \in Units(g) <=> \E i \in k + 1 .. k + n : u \in {i} \X (1 .. g[i])
  BY DEF Units
<1>4. ASSUME NEW u \in Units(f)
      PROVE  /\ <<k + u[1], u[2]>> \in Units(g) /\ u[1] \in 1 .. n /\ u = <<u[1], u[2]>>
  BY <1>2, <1>3
<1>5. ASSUME NEW w \in Units(g)
      PROVE  /\ <<w[1] - k, w[2]>> \in Units(f) /\ w = <<k + (w[1] - k), w[2]>>
  <2>1. PICK i \in k + 1 .. k + n : w \in {i} \X (1 .. g[i])
    BY <1>3
  <2>2. i - k \in 1 .. n /\ k + (i - k) = i
    OBVIOUS
  <2>3. g[i] = f[i - k]
    BY <2>2
  <2> QED  BY <1>2, <2>1, <2>2, <2>3
<1>6. b \in Injection(Units(f), Units(g))
  <2>1. b \in [Units(f) -> Units(g)]
    BY <1>4
  <2>2. ASSUME NEW u \in Units(f), NEW w \in Units(f), b[u] = b[w]
        PROVE  u = w
    <3>1. k + u[1] = k + w[1] /\ u[2] = w[2]
      BY <2>2
    <3>2. u[1] \in 1 .. n /\ w[1] \in 1 .. n /\ u = <<u[1], u[2]>> /\ w = <<w[1], w[2]>>
      BY <1>4, Zenon
    <3>3. u[1] = w[1]
      BY <3>1, <3>2
    <3> QED  BY <3>1, <3>2, <3>3
  <2> QED  BY <2>1, <2>2 DEF Injection, IsInjective
<1>7. b \in Surjection(Units(f), Units(g))
  <2>1. ASSUME NEW w \in Units(g)
        PROVE  \E u \in Units(f) : b[u] = w
    BY <1>5, Zenon
  <2> QED  BY <2>1, <1>4, Zenon DEF Surjection
<1>8. ExistsBijection(Units(f), Units(g))
  BY <1>6, <1>7 DEF ExistsBijection, Bijection
<1> QED  BY <1>1, <1>8, FS_Bijection DEF Sum

\* A sequence of amounts and one more.
LEMMA SumSnoc ==
  ASSUME NEW n, NEW f, NEW h
  PROVE  /\ n \in Nat /\ f \in [1 .. n -> Nat] /\ h \in [1 .. (n + 1) -> Nat]
         /\ \A i \in 1 .. n : h[i] = f[i]
         => Sum(h) = Sum(f) + h[n + 1]
<1>0. SUFFICES ASSUME n \in Nat, f \in [1 .. n -> Nat], h \in [1 .. (n + 1) -> Nat],
                      \A i \in 1 .. n : h[i] = f[i]
               PROVE  Sum(h) = Sum(f) + h[n + 1]
  OBVIOUS
<1> DEFINE D == 1 .. n
           x == n + 1
<1>1. 1 .. (n + 1) = D \cup {x}
  BY <1>0
<1>2. x \notin D /\ IsFiniteSet(D)
  BY <1>0, FS_Interval
<1> DEFINE F == 1 .. (n + 1)
<1>3. f \in [D -> Nat] /\ h \in [F -> Nat] /\ F = D \cup {x} /\ \A i \in D : h[i] = f[i]
  BY <1>0, <1>1
<1> HIDE DEF D, F, x
<1>4. Sum(h) = Sum(f) + h[x]
  BY <1>2, <1>3, SumAdd
<1> QED  BY <1>4 DEF x

\* Two sequences of amounts, one after the other.
LEMMA SumConcat ==
  ASSUME NEW k \in Nat, NEW m \in Nat, NEW f \in [1 .. k -> Nat], NEW g \in [1 .. m -> Nat],
         NEW h \in [1 .. (k + m) -> Nat],
         \A i \in 1 .. k : h[i] = f[i], \A i \in 1 .. m : h[k + i] = g[i]
  PROVE  Sum(h) = Sum(f) + Sum(g)
<1> DEFINE D == 1 .. k
           E == k + 1 .. k + m
           G == [i \in E |-> h[i]]
<1>1. 1 .. (k + m) = D \cup E
  OBVIOUS
<1>2. (\A i \in D : i \notin E) /\ IsFiniteSet(D) /\ IsFiniteSet(E)
  BY FS_Interval
<1>3. G \in [E -> Nat] /\ \A i \in 1 .. m : G[k + i] = g[i]
  OBVIOUS
<1>4. \A i \in E : h[i] = G[i]
  OBVIOUS
<1> HIDE DEF G
<1>5. Sum(G) = Sum(g)
  BY <1>3, SumShift, ZenonT(30)
<1>6. f \in [D -> Nat] /\ h \in [D \cup E -> Nat]
  BY <1>1
<1>7. \A i \in D : h[i] = f[i]
  OBVIOUS
<1> HIDE DEF D, E
<1>8. \A u \in [D -> Nat], v \in [E -> Nat], w \in [D \cup E -> Nat] :
        (\A x \in D : w[x] = u[x]) /\ (\A x \in E : w[x] = v[x]) => Sum(w) = Sum(u) + Sum(v)
  BY <1>2, SumUnion, ZenonT(30)
<1>9. Sum(h) = Sum(f) + Sum(G)
  BY <1>3, <1>4, <1>6, <1>7, <1>8, Zenon
<1> QED  BY <1>5, <1>9

\* A sequence and one more element: the new one is the last, the others stay.
LEMMA Appended ==
  ASSUME NEW S, NEW s \in Seq(S), NEW e \in S, NEW t, t = Append(s, e)
  PROVE  /\ Len(t) \in 1 .. Len(t) /\ t[Len(t)] = e
         /\ \A i \in 1 .. Len(s) : i \in 1 .. Len(t) /\ t[i] = s[i]
OBVIOUS

\* A sequence without its first k elements: the others keep their order.
LEMMA Dropped ==
  ASSUME NEW S, NEW s \in Seq(S), NEW k \in 0 .. Len(s), NEW t, t = SubSeq(s, k + 1, Len(s))
  PROVE  /\ Len(s) \in Nat /\ k \in Nat /\ k <= Len(s) /\ Len(t) = Len(s) - k
         /\ \A i \in 1 .. Len(s) - k : t[i] = s[k + i]
OBVIOUS

\* What holds before a loop and is kept by each of its iterations holds after
\* it: I is the set of the iterations after which it holds.
LEMMA LoopKeeps ==
  ASSUME NEW n \in Nat, NEW I, 0 \in I, \A i \in 1 .. n : i - 1 \in I => i \in I
  PROVE  \A i \in 0 .. n : i \in I
<1> SUFFICES ASSUME NEW k \in 0 .. n, k \notin I PROVE FALSE
  OBVIOUS
<1> DEFINE Bad == {i \in 0 .. n : i \notin I}
<1>1. Bad \in SUBSET Nat /\ Bad # {}
  OBVIOUS
<1>2. PICK m \in Bad : \A j \in Nat : j < m => j \notin Bad
  <2> HIDE DEF Bad
  <2>1. IsWellFoundedOn(OpToRel(<, Nat), Nat)
    BY NatLessThanWellFounded, Zenon
  <2>2. PICK m \in Bad : \A j \in Bad : ~(<<j, m>> \in OpToRel(<, Nat))
    BY <1>1, <2>1, WFMin, Zenon
  <2> QED  BY <1>1, <2>2, Zenon DEF OpToRel
<1>3. m \in 1 .. n /\ m - 1 \in Nat /\ m - 1 < m
  BY <1>2
<1>4. m - 1 \in I
  BY <1>2, <1>3
<1> QED  BY <1>2, <1>3, <1>4

\* A loop with n iterations that takes states of S to states of S: body holds
\* what iteration i does to a state, f what the state is after each.
IsBody(S, n, body) == body \in [(1 .. n) \X S -> S]
IsRun(S, n, s, body, f) ==
  f \in [0 .. n -> S] /\ f[0] = s /\ \A i \in 1 .. n : f[i] = body[<<i, f[i - 1]>>]

\* Such a loop runs.
LEMMA LoopRuns ==
  ASSUME NEW S, NEW n \in Nat, NEW s \in S, NEW body, IsBody(S, n, body)
  PROVE  \E f : IsRun(S, n, s, body, f)
<1>0. body \in [(1 .. n) \X S -> S]
  BY DEF IsBody
<1> DEFINE Runs(k) == \E f \in [0 .. k -> S] :
                        f[0] = s /\ \A i \in 1 .. k : f[i] = body[<<i, f[i - 1]>>]
           I == {k \in 0 .. n : Runs(k)}
<1>1. 0 \in I
  <2> DEFINE z == [i \in 0 .. 0 |-> s]
  <2>1. z \in [0 .. 0 -> S] /\ z[0] = s /\ \A i \in 1 .. 0 : z[i] = body[<<i, z[i - 1]>>]
    OBVIOUS
  <2> HIDE DEF z
  <2>2. Runs(0)
    BY <2>1
  <2> QED  BY <2>2
<1>2. ASSUME NEW k \in 1 .. n, k - 1 \in I
      PROVE  k \in I
  <2>1. PICK f \in [0 .. (k - 1) -> S] :
          f[0] = s /\ \A i \in 1 .. (k - 1) : f[i] = body[<<i, f[i - 1]>>]
    BY <1>2
  <2> DEFINE g == [i \in 0 .. k |-> IF i = k THEN body[<<k, f[k - 1]>>] ELSE f[i]]
  <2>2. f[k - 1] \in S
    BY <2>1
  <2>3. body[<<k, f[k - 1]>>] \in S
    BY <1>0, <2>2
  <2>4. g \in [0 .. k -> S]
    BY <2>3
  <2>5. g[0] = s /\ \A i \in 1 .. k : g[i] = body[<<i, g[i - 1]>>]
    <3>1. g[0] = s
      BY <2>1
    <3>2. ASSUME NEW i \in 1 .. k
          PROVE  g[i] = body[<<i, g[i - 1]>>]
      <4>1. g[i - 1] = f[i - 1]
        OBVIOUS
      <4>2. CASE i = k
        <5>1. g[k] = body[<<k, f[k - 1]>>]
          OBVIOUS
        <5> HIDE DEF g
        <5> QED  BY <4>1, <4>2, <5>1
      <4>3. CASE i # k
        <5>1. i \in 1 .. (k - 1)
          BY <4>3
        <5>2. g[i] = f[i]
          BY <4>3
        <5> QED  BY <2>1, <4>1, <5>1, <5>2, Zenon
      <4> QED  BY <4>2, <4>3
    <3> QED  BY <3>1, <3>2, Zenon
  <2> HIDE DEF g
  <2>6. Runs(k)
    BY <2>4, <2>5
  <2> QED  BY <2>6
<1>3. \A k \in 0 .. n : k \in I
  <2> HIDE DEF I
  <2> QED  BY <1>1, <1>2, LoopKeeps
<1> QED  BY <1>3 DEF IsRun

-----------------------------------------------------------------------------
(* The sweep.                                                              *)

\* The key order lists the members of a set, and nothing else: a member is at
\* the place that the number of smaller members gives it.
LEMMA KeyPlaces ==
  ASSUME NEW S, IsFiniteSet(S), S \subseteq Nat
  PROVE  /\ InKeyOrder(S) \in Seq(S)
         /\ \A x \in S :
              /\ Cardinality({y \in S : y < x}) + 1 \in 1 .. Len(InKeyOrder(S))
              /\ InKeyOrder(S)[Cardinality({y \in S : y < x}) + 1] = x
         /\ \A i, j \in 1 .. Len(InKeyOrder(S)) : InKeyOrder(S)[i] = InKeyOrder(S)[j] => i = j
<1> DEFINE n == Cardinality(S)
           Below(x) == {y \in S : y < x}
           r == [x \in S |-> Cardinality(Below(x))]
<1>1. n \in Nat
  BY FS_CardinalityType
<1>2. \A x : IsFiniteSet(Below(x)) /\ Cardinality(Below(x)) \in Nat
  <2> TAKE x
  <2>1. Below(x) \in SUBSET S
    OBVIOUS
  <2>2. IsFiniteSet(Below(x))
    BY <2>1, FS_Subset
  <2> QED  BY <2>2, FS_CardinalityType
<1>3. \A x \in S : Cardinality(Below(x)) < n
  <2> TAKE x \in S
  <2>1. IsFiniteSet(S \ {x}) /\ Cardinality(S \ {x}) = n - 1
    BY FS_RemoveElement
  <2>2. Below(x) \in SUBSET (S \ {x})
    OBVIOUS
  <2>3. Cardinality(Below(x)) <= Cardinality(S \ {x})
    BY <2>1, <2>2, FS_Subset
  <2> HIDE DEF n, Below
  <2> QED  BY <1>1, <1>2, <2>1, <2>3
<1>4. \A x, y \in S : x < y => Cardinality(Below(x)) < Cardinality(Below(y))
  <2> TAKE x, y \in S
  <2> HAVE x < y
  <2>1. Below(x) \in SUBSET Below(y) /\ x \in Below(y) /\ x \notin Below(x)
    <3>1. x \in Nat /\ y \in Nat /\ ~(x < x) /\ \A z \in S : z < x => z < y
      OBVIOUS
    <3> QED  BY <3>1, Zenon
  <2>2. /\ Cardinality(Below(x)) <= Cardinality(Below(y))
        /\ Cardinality(Below(y)) = Cardinality(Below(x)) => Below(y) = Below(x)
    BY <1>2, <2>1, FS_Subset
  <2> HIDE DEF Below
  <2> QED  BY <1>2, <2>1, <2>2
<1>5. r \in Injection(S, 0 .. n - 1)
  <2>1. r \in [S -> 0 .. n - 1]
    <3> HIDE DEF n, Below
    <3> QED  BY <1>1, <1>2, <1>3
  <2>2. \A x, y \in S : r[x] = r[y] => x = y
    <3> HIDE DEF Below
    <3> QED  BY <1>2, <1>4
  <2> HIDE DEF r
  <2> QED  BY <2>1, <2>2 DEF Injection, IsInjective
<1>6. IsFiniteSet(0 .. n - 1) /\ Cardinality(0 .. n - 1) = n
  <2> HIDE DEF n
  <2> QED  BY <1>1, FS_Interval
<1>7. r \in Surjection(S, 0 .. n - 1)
  <2> HIDE DEF r
  <2>1. n = Cardinality(0 .. n - 1) <=> r \in Surjection(S, 0 .. n - 1)
    BY <1>5, <1>6, FS_Injection
  <2> QED  BY <1>6, <2>1
<1>8. \A i \in 1 .. n : \E x \in S : Cardinality(Below(x)) = i - 1
  <2> TAKE i \in 1 .. n
  <2>1. i - 1 \in 0 .. n - 1
    BY <1>1
  <2>2. PICK x \in S : r[x] = i - 1
    BY <1>7, <2>1, Zenon DEF Surjection
  <2> QED  BY <2>2
<1> DEFINE At(i) == CHOOSE x \in S : Cardinality(Below(x)) = i - 1
<1>9. \A i \in 1 .. n : At(i) \in S /\ Cardinality(Below(At(i))) = i - 1
  BY <1>8, Zenon
<1>10. InKeyOrder(S) = [i \in 1 .. n |-> At(i)]
  BY DEF InKeyOrder
<1> DEFINE q == InKeyOrder(S)
<1>11. \A x, y \in S : Cardinality(Below(x)) = Cardinality(Below(y)) => x = y
  BY <1>5, Zenon DEF Injection, IsInjective
<1> HIDE DEF n, Below, At, q
<1>12. q \in Seq(S) /\ Len(q) = n /\ \A i \in 1 .. n : q[i] = At(i)
  BY <1>1, <1>9, <1>10 DEF q
<1>13. \A i, j \in 1 .. Len(q) : q[i] = q[j] => i = j
  BY <1>1, <1>9, <1>12
<1>14. \A x \in S : Cardinality(Below(x)) + 1 \in 1 .. Len(q) /\ q[Cardinality(Below(x)) + 1] = x
  <2> TAKE x \in S
  <2> DEFINE i == Cardinality(Below(x)) + 1
  <2>1. i \in 1 .. n /\ i - 1 = Cardinality(Below(x))
    BY <1>1, <1>2, <1>3
  <2>2. At(i) \in S /\ Cardinality(Below(At(i))) = Cardinality(Below(x))
    <3> HIDE DEF i
    <3> QED  BY <1>9, <2>1
  <2>3. At(i) = x
    BY <1>11, <2>2, Zenon
  <2> HIDE DEF i
  <2>4. i \in 1 .. Len(q) /\ q[i] = x
    BY <1>12, <2>1, <2>3
  <2> QED  BY <2>4 DEF i
<1> QED  BY <1>12, <1>13, <1>14 DEF q, Below

\* The key order is a sequence of members.
LEMMA KeyOrder ==
  ASSUME NEW S, IsFiniteSet(S), S \subseteq Nat
  PROVE  InKeyOrder(S) \in Seq(S)
BY KeyPlaces, Zenon

\* The state of the loop over the validators, which visits elements of V.
ValIndex(n) == {m \in Nat : n = 0 \/ m < n}
UpTo(bound) == 0 .. bound
SweepState(n, V, bound) ==
  [val : ValIndex(n), del : Nat, swept : UpTo(bound),
   visited : Seq(V), stop : BOOLEAN]

\* What the loop is given: validators, and for each of them its delegators,
\* all of them in V.
SweepInput(vs, dels, V) ==
  /\ vs = [i \in 1 .. Len(vs) |-> vs[i]] /\ Len(vs) \in Nat
  /\ \A i \in 1 .. Len(vs) :
       LET ds == dels[vs[i]] IN
       /\ Len(ds) \in Nat /\ ds = [j \in 1 .. Len(ds) |-> ds[j]]
       /\ \A j \in 1 .. Len(ds) : [val |-> vs[i], del |-> ds[j]] \in V

\* The fields that both ways out of an iteration assign.
LEMMA SweepExcept ==
  ASSUME NEW n, NEW V, NEW bound, NEW s \in SweepState(n, V, bound), NEW val \in ValIndex(n),
         NEW del \in Nat, NEW swept \in UpTo(bound), NEW seen \in Seq(V)
  PROVE  [s EXCEPT !.val = val, !.del = del, !.swept = swept, !.visited = seen]
           \in SweepState(n, V, bound)
BY Zenon DEF SweepState

\* Going on to the next validator.
LEMMA AdvanceType ==
  ASSUME NEW n \in Nat \ {0}, NEW V, NEW bound \in Nat, NEW s \in SweepState(n, V, bound),
         NEW visits \in Seq(V), s.swept + Len(visits) <= bound
  PROVE  Advance(n, s, visits) \in SweepState(n, V, bound)
<1>1. (s.val + 1) % n \in Nat /\ (s.val + 1) % n < n
  <2>1. s.val + 1 \in Nat
    BY DEF SweepState, ValIndex
  <2> QED  BY <2>1
<1>2. s.swept + Len(visits) \in 0 .. bound
  <2>1. s.swept \in Nat /\ Len(visits) \in Nat
    BY DEF SweepState, UpTo
  <2> QED  BY <2>1
<1>3. s.visited \o visits \in Seq(V)
  <2>1. s.visited \in Seq(V)
    BY DEF SweepState
  <2> QED  BY <2>1
<1> DEFINE next == (s.val + 1) % n
           swept == s.swept + Len(visits)
           seen == s.visited \o visits
<1>4. Advance(n, s, visits) = [s EXCEPT !.val = next, !.del = 0, !.swept = swept, !.visited = seen]
  BY DEF Advance, SweepState
<1>5. next \in ValIndex(n) /\ swept \in UpTo(bound) /\ seen \in Seq(V)
  BY <1>1, <1>2, <1>3 DEF ValIndex, UpTo
<1> HIDE DEF next, swept, seen
<1>6. [s EXCEPT !.val = next, !.del = 0, !.swept = swept, !.visited = seen] \in SweepState(n, V, bound)
  BY <1>5, SweepExcept, Zenon
<1> QED  BY <1>4, <1>6, Zenon

\* Stopping in the middle of a validator.
LEMMA StopType ==
  ASSUME NEW n \in Nat, NEW V, NEW bound \in Nat, NEW s \in SweepState(n, V, bound),
         NEW visits \in Seq(V)
  PROVE  StopPrematurely(s, visits) \in SweepState(n, V, bound)
<1> DEFINE del == s.del + Len(visits)
           seen == s.visited \o visits
<1>1. del \in Nat /\ seen \in Seq(V)
  <2>1. s.del \in Nat /\ s.visited \in Seq(V)
    BY DEF SweepState
  <2> QED  BY <2>1
<1>2. StopPrematurely(s, visits) = [s EXCEPT !.del = del, !.visited = seen, !.stop = TRUE]
  BY DEF StopPrematurely, SweepState
<1> HIDE DEF del, seen
<1> QED  BY <1>1, <1>2, Zenon DEF SweepState

\* One validator.
LEMMA SweepValidatorType ==
  ASSUME NEW vs, NEW dels, NEW V, SweepInput(vs, dels, V), Len(vs) # 0, NEW bound \in Nat,
         NEW jail, NEW s \in SweepState(Len(vs), V, bound)
  PROVE  SweepValidator(vs, jail, dels, bound, s) \in SweepState(Len(vs), V, bound)
<1> DEFINE n == Len(vs)
           v == vs[s.val + 1]
           ds == dels[v]
           rest == SubSeq(ds, s.del + 1, Len(ds))
           left == bound - s.swept
           Visits(m) == [i \in 1 .. m |-> [val |-> v, del |-> rest[i]]]
<1>1. n \in Nat \ {0} /\ s.val + 1 \in 1 .. n /\ s.del \in Nat /\ s.swept \in 0 .. bound /\ left \in Nat
  BY DEF SweepState, SweepInput, ValIndex, UpTo
<1>2. /\ Len(ds) \in Nat /\ ds = [j \in 1 .. Len(ds) |-> ds[j]]
      /\ \A j \in 1 .. Len(ds) : [val |-> v, del |-> ds[j]] \in V
  BY <1>1 DEF SweepInput
<1>3. SweepValidator(vs, jail, dels, bound, s)
        = IF s.stop THEN s
          ELSE IF v \in jail \/ s.del >= Len(ds) THEN Advance(n, s, << >>)
          ELSE IF Len(rest) > left THEN StopPrematurely(s, Visits(left))
               ELSE Advance(n, s, Visits(Len(rest)))
  BY DEF SweepValidator
<1>4. CASE s.stop
  BY <1>3, <1>4
<1>5. CASE ~s.stop /\ (v \in jail \/ s.del >= Len(ds))
  <2>1. << >> \in Seq(V) /\ s.swept + Len(<< >>) <= bound
    BY <1>1
  <2>2. Advance(n, s, << >>) \in SweepState(n, V, bound)
    BY <1>1, <2>1, AdvanceType, Zenon
  <2> QED  BY <1>3, <1>5, <2>2, Zenon
<1>6. CASE ~s.stop /\ ~(v \in jail \/ s.del >= Len(ds))
  <2> HIDE DEF n, v, ds, left
  <2>1. Len(rest) = Len(ds) - s.del /\ Len(rest) \in Nat
        /\ \A i \in 1 .. Len(rest) : rest[i] = ds[s.del + i] /\ s.del + i \in 1 .. Len(ds)
    <3>1. ds \in Seq({ds[j] : j \in 1 .. Len(ds)})
      BY <1>2
    <3>2. s.del < Len(ds)
      BY <1>1, <1>2, <1>6
    <3> DEFINE k == s.del
    <3>3. k \in Nat /\ k < Len(ds) /\ Len(ds) \in Nat
      BY <1>1, <1>2, <3>2
    <3> HIDE DEF k
    <3>4. \A i \in 1 .. Len(ds) - k : k + i \in 1 .. Len(ds)
      BY <3>3
    <3>5. /\ Len(SubSeq(ds, k + 1, Len(ds))) = Len(ds) - k
          /\ \A i \in 1 .. Len(ds) - k : SubSeq(ds, k + 1, Len(ds))[i] = ds[k + i]
      BY <3>1, <3>3
    <3>6. Len(ds) - k \in Nat
      BY <3>3
    <3> QED  BY <3>4, <3>5, <3>6, Zenon DEF k
  <2> DEFINE l == Len(rest)
  <2> HIDE DEF rest
  <2>2. ASSUME NEW m \in 0 .. Len(rest) PROVE Visits(m) \in Seq(V) /\ Len(Visits(m)) = m
    <3>1. \A i \in 1 .. m : [val |-> v, del |-> rest[i]] \in V
      <4> TAKE i \in 1 .. m
      <4>1. i \in 1 .. l
        <5>1. l \in Nat /\ m \in 0 .. l
          BY <2>1
        <5> HIDE DEF l
        <5> QED  BY <5>1
      <4> QED  BY <1>2, <2>1, <4>1
    <3>2. m \in Nat
      BY <2>1
    <3> QED  BY <3>1, <3>2
  <2>3. CASE Len(rest) > left
    <3>1. left \in 0 .. Len(rest)
      BY <1>1, <2>1, <2>3
    <3>2. Visits(left) \in Seq(V)
      BY <2>2, <3>1
    <3> HIDE DEF Visits
    <3>3. StopPrematurely(s, Visits(left)) \in SweepState(n, V, bound)
      BY <1>1, <3>2, StopType DEF n
    <3> QED  BY <1>3, <1>6, <2>3, <3>3, Zenon DEF n, rest
  <2>4. CASE ~(Len(rest) > left)
    <3>1. Visits(Len(rest)) \in Seq(V) /\ Len(Visits(Len(rest))) = Len(rest)
      <4>1. l \in 0 .. l
        <5>1. l \in Nat
          BY <2>1
        <5> HIDE DEF l
        <5> QED  BY <5>1
      <4> QED  BY <2>2, <4>1
    <3>2. s.swept + Len(rest) <= bound
      BY <1>1, <2>1, <2>4 DEF left
    <3> HIDE DEF Visits
    <3>3. Advance(n, s, Visits(Len(rest))) \in SweepState(n, V, bound)
      BY <1>1, <3>1, <3>2, AdvanceType DEF n
    <3> QED  BY <1>3, <1>6, <2>4, <3>3, Zenon DEF n, rest
  <2> QED  BY <2>3, <2>4
<1> QED  BY <1>4, <1>5, <1>6

\* The state of the loop before its first iteration, and a run of the loop with
\* the states between its iterations.
SweepStart(vs, cur) ==
  [val |-> StartCursor(vs, cur).val, del |-> StartCursor(vs, cur).del, swept |-> 0,
   visited |-> << >>, stop |-> FALSE]
SweepRun(vs, jail, dels, bound, cur, S, g) ==
  /\ g[0] = SweepStart(vs, cur)
  /\ \A i \in 1 .. Len(vs) : g[i] = SweepValidator(vs, jail, dels, bound, g[i - 1])
  /\ \A i \in 0 .. Len(vs) : g[i] \in S
  /\ SweepLoop(vs, jail, dels, bound, cur) = g[Len(vs)]

\* The loop runs: it only visits what it was given.
LEMMA SweepLoopRuns ==
  ASSUME NEW vs, NEW dels, NEW V, SweepInput(vs, dels, V), NEW bound \in Nat, NEW jail,
         NEW cur \in [val : Nat, del : Nat]
  PROVE  \E g : SweepRun(vs, jail, dels, bound, cur, SweepState(Len(vs), V, bound), g)
<1> DEFINE n == Len(vs)
           S == SweepState(n, V, bound)
           start == StartCursor(vs, cur)
           s == SweepStart(vs, cur)
           Body(t) == SweepValidator(vs, jail, dels, bound, t)
           Step(f) == [i \in 0 .. n |-> IF i = 0 THEN s ELSE Body(f[i - 1])]
           g == CHOOSE f : f = Step(f)
<1>1. n \in Nat
  BY DEF SweepInput
<1>2. SweepLoop(vs, jail, dels, bound, cur) = g[n]
  BY DEF SweepLoop, SweepStart
<1>3. s \in S
  <2>1. start \in [val : Nat, del : Nat] /\ (n = 0 \/ start.val < n)
    BY <1>1 DEF StartCursor
  <2>2. start.val \in ValIndex(n) /\ start.del \in Nat
    <3> HIDE DEF start
    <3> QED  BY <2>1 DEF ValIndex
  <2>3. 0 \in UpTo(bound) /\ << >> \in Seq(V)
    BY DEF UpTo
  <2> HIDE DEF start, n
  <2>4. s = [val |-> start.val, del |-> start.del, swept |-> 0, visited |-> << >>, stop |-> FALSE]
    BY DEF SweepStart, start
  <2> HIDE DEF s
  <2> QED  BY <2>2, <2>3, <2>4 DEF SweepState
<1>4. \A i \in 1 .. n, t \in S : Body(t) \in S
  <2> TAKE i \in 1 .. n, t \in S
  <2>1. Len(vs) # 0
    BY <1>1
  <2> QED  BY <2>1, SweepValidatorType
<1>5. ASSUME NEW f
      PROVE  f = Step(f) => f[0] = s /\ \A i \in 1 .. n : f[i] = Body(f[i - 1])
  <2> HIDE DEF Body, n, s
  <2> QED  BY <1>1
<1>6. ASSUME NEW f \in [0 .. n -> S], f[0] = s, \A i \in 1 .. n : f[i] = Body(f[i - 1])
      PROVE  f = Step(f)
  <2> HIDE DEF Body, n, s, S
  <2>1. \A i \in 0 .. n : i = 0 \/ i \in 1 .. n
    BY <1>1
  <2> QED  BY <1>1, <1>6, <2>1
<1> HIDE DEF Body, Step, n, s, S
<1> DEFINE body == [p \in (1 .. n) \X S |-> Body(p[2])]
<1>7. PICK w \in [0 .. n -> S] : w[0] = s /\ \A i \in 1 .. n : w[i] = body[<<i, w[i - 1]>>]
  <2>1. IsBody(S, n, body)
    BY <1>4 DEF IsBody
  <2> HIDE DEF body
  <2>2. PICK w : IsRun(S, n, s, body, w)
    BY <1>1, <1>3, <2>1, LoopRuns
  <2> QED  BY <2>2, Zenon DEF IsRun
<1>8. \A i \in 1 .. n : w[i] = Body(w[i - 1])
  <2> TAKE i \in 1 .. n
  <2>1. w[i - 1] \in S
    BY <1>1
  <2> QED  BY <1>7, <2>1, Zenon
<1>9. w = Step(w)
  BY <1>6, <1>7, <1>8, Zenon
<1>10. g = Step(g)
  BY <1>9, Zenon
<1> HIDE DEF g
<1>11. g[0] = s /\ \A i \in 1 .. n : g[i] = Body(g[i - 1])
  BY <1>5, <1>10
<1> DEFINE I == {i \in 0 .. n : g[i] \in S}
<1>12. \A i \in 0 .. n : i \in I
  <2>1. 0 \in I
    BY <1>1, <1>3, <1>11
  <2>2. \A i \in 1 .. n : i - 1 \in I => i \in I
    BY <1>1, <1>4, <1>11
  <2> HIDE DEF I
  <2> QED  BY <1>1, <2>1, <2>2, LoopKeeps, Zenon
<1>13. SweepRun(vs, jail, dels, bound, cur, S, g)
  BY <1>2, <1>11, <1>12 DEF SweepRun, Body, s, n
<1> QED  BY <1>13 DEF S, n

\* It ends in a state that has a cursor to save.
LEMMA SweepLoopType ==
  ASSUME NEW vs, NEW dels, NEW V, SweepInput(vs, dels, V), NEW bound \in Nat, NEW jail,
         NEW cur \in [val : Nat, del : Nat]
  PROVE  SweepLoop(vs, jail, dels, bound, cur) \in SweepState(Len(vs), V, bound)
<1>1. PICK g : SweepRun(vs, jail, dels, bound, cur, SweepState(Len(vs), V, bound), g)
  BY SweepLoopRuns
<1>2. Len(vs) \in 0 .. Len(vs)
  BY DEF SweepInput
<1> QED  BY <1>1, <1>2 DEF SweepRun
=============================================================================
