---------------------------- MODULE PayoutProofs ----------------------------
(***************************************************************************)
(* What the end of a block pays out: the sweep over the delegations, for   *)
(* any number of validators, delegators and any bound, and the UBI share   *)
(* of the emission on its way to the claimers of the UBIPool contract.     *)
(***************************************************************************)
EXTENDS RewardSweepFlow, Emission, OperatorLemmas

-----------------------------------------------------------------------------
(* What the sweep visits.                                                  *)

\* Counting on circularly among n places, from place c < n.
Place(n, c, i) == IF c + i < n THEN c + i ELSE c + i - n

\* The next place is what the loop computes with %.
LEMMA NextPlace ==
  ASSUME NEW n \in Nat \ {0}, NEW c \in 0 .. (n - 1), NEW i \in 1 .. n
  PROVE  Place(n, c, i - 1) \in 0 .. (n - 1) /\ (Place(n, c, i - 1) + 1) % n = Place(n, c, i)
<1> DEFINE p == Place(n, c, i - 1)
<1>1. p \in 0 .. (n - 1) /\ Place(n, c, i) = IF p + 1 = n THEN 0 ELSE p + 1
  BY DEF Place
<1> HIDE DEF p
<1>2. CASE p + 1 = n
  <2>1. n % n = 0
    OBVIOUS
  <2> QED  BY <1>1, <1>2, <2>1 DEF p
<1>3. CASE p + 1 # n
  <2>1. p + 1 \in 0 .. (n - 1)
    BY <1>1, <1>3
  <2>2. (p + 1) % n = p + 1
    BY <2>1
  <2> QED  BY <1>1, <1>3, <2>2 DEF p
<1> QED  BY <1>2, <1>3

\* Delegations of v from place from of its list on.
Chunk(v, ds, from, m) == [i \in 1 .. m |-> [val |-> v, del |-> ds[from + i]]]

\* One iteration from s to t visits m delegations, none of a jailed validator,
\* and stops at the bound or visits all that is left of the validator.
SweptOne(n, v, ds, jail, bound, s, t, m) ==
  /\ t.visited = s.visited \o Chunk(v, ds, s.del, m)
  /\ m = 0 \/ (v \notin jail /\ s.del + m <= Len(ds))
  /\ \/ t.stop /\ m = bound - s.swept
     \/ /\ ~t.stop /\ t.val = (s.val + 1) % n /\ t.del = 0 /\ t.swept = s.swept + m
        /\ v \in jail \/ s.del + m >= Len(ds)

\* Stopping keeps what was visited.
LEMMA StopFields ==
  ASSUME NEW k, NEW V, NEW bound, NEW s \in SweepState(k, V, bound), NEW visits
  PROVE  StopPrematurely(s, visits).visited = s.visited \o visits /\ StopPrematurely(s, visits).stop
BY DEF StopPrematurely, SweepState

\* Every iteration that is not broken off is of this kind.
LEMMA SweepStep ==
  ASSUME NEW vs, NEW lists, NEW V, SweepInput(vs, lists, V), Len(vs) # 0, NEW bound \in Nat,
         NEW jail, NEW s \in SweepState(Len(vs), V, bound), ~s.stop
  PROVE  \E m \in Nat :
           SweptOne(Len(vs), vs[s.val + 1], lists[vs[s.val + 1]], jail, bound, s,
                    SweepValidator(vs, jail, lists, bound, s), m)
<1> DEFINE n == Len(vs)
           v == vs[s.val + 1]
           ds == lists[v]
           todo == SubSeq(ds, s.del + 1, Len(ds))
           left == bound - s.swept
           t == SweepValidator(vs, jail, lists, bound, s)
           Visits(m) == [i \in 1 .. m |-> [val |-> v, del |-> todo[i]]]
<1>1. n \in Nat \ {0} /\ s.val + 1 \in 1 .. n /\ s.del \in Nat /\ s.swept \in 0 .. bound
      /\ left \in Nat /\ s.visited \in Seq(V)
  BY DEF SweepState, SweepInput, ValIndex, UpTo
<1>2. Len(ds) \in Nat /\ ds = [j \in 1 .. Len(ds) |-> ds[j]]
  BY <1>1, Zenon DEF SweepInput
<1>3. t = IF v \in jail \/ s.del >= Len(ds) THEN Advance(n, s, << >>)
          ELSE IF Len(todo) > left THEN StopPrematurely(s, Visits(left))
               ELSE Advance(n, s, Visits(Len(todo)))
  BY Zenon DEF SweepValidator
<1> HIDE DEF n, v, ds, left, t
<1>4. CASE v \in jail \/ s.del >= Len(ds)
  <2>1. Chunk(v, ds, s.del, 0) = << >>
    BY DEF Chunk
  <2> HIDE DEF todo, Visits
  <2>2. /\ t.visited = s.visited \o << >> /\ t.stop = FALSE /\ t.val = (s.val + 1) % n /\ t.del = 0
        /\ t.swept = s.swept + Len(<< >>)
    <3>1. t = Advance(n, s, << >>)
      BY <1>3, <1>4
    <3>2. s.stop = FALSE
      BY DEF SweepState
    <3>3. /\ Advance(n, s, << >>).visited = s.visited \o << >>
          /\ Advance(n, s, << >>).stop = s.stop
          /\ Advance(n, s, << >>).val = (s.val + 1) % n
          /\ Advance(n, s, << >>).del = 0
          /\ Advance(n, s, << >>).swept = s.swept + Len(<< >>)
      BY DEF Advance, SweepState
    <3> QED  BY <3>1, <3>2, <3>3, Zenon
  <2>3. t.swept = s.swept + 0
    BY <2>2
  <2>4. v \in jail \/ s.del + 0 >= Len(ds)
    BY <1>1, <1>4
  <2>5. SweptOne(n, v, ds, jail, bound, s, t, 0)
    BY <2>1, <2>2, <2>3, <2>4, Zenon DEF SweptOne
  <2> QED  BY <2>5 DEF n, v, ds, t
<1>5. CASE ~(v \in jail \/ s.del >= Len(ds))
  <2>1. /\ Len(todo) = Len(ds) - s.del /\ Len(todo) \in Nat
        /\ \A i \in 1 .. Len(todo) : todo[i] = ds[s.del + i]
    <3>1. ds \in Seq({ds[j] : j \in 1 .. Len(ds)})
      BY <1>2
    <3> DEFINE k == s.del
    <3>2. k \in Nat /\ k < Len(ds) /\ Len(ds) \in Nat
      BY <1>1, <1>2, <1>5
    <3> HIDE DEF k
    <3>3. /\ Len(SubSeq(ds, k + 1, Len(ds))) = Len(ds) - k
          /\ \A i \in 1 .. Len(ds) - k : SubSeq(ds, k + 1, Len(ds))[i] = ds[k + i]
      BY <3>1, <3>2
    <3>4. Len(ds) - k \in Nat
      BY <3>2
    <3> QED  BY <3>3, <3>4, Zenon DEF k
  <2> DEFINE l == Len(todo)
  <2> HIDE DEF todo
  <2>2. ASSUME NEW m \in 0 .. l PROVE Visits(m) = Chunk(v, ds, s.del, m) /\ Len(Visits(m)) = m
    <3>1. m \in Nat /\ \A i \in 1 .. m : i \in 1 .. l
      BY <2>1
    <3>2. \A i \in 1 .. m : todo[i] = ds[s.del + i]
      BY <2>1, <3>1
    <3>3. Visits(m) = Chunk(v, ds, s.del, m)
      BY <3>2 DEF Chunk
    <3> QED  BY <3>1, <3>3
  <2> HIDE DEF Visits
  <2>3. CASE l > left
    <3>1. left \in 0 .. l /\ left \in Nat /\ s.del + left <= Len(ds)
      BY <1>1, <1>2, <2>1, <2>3
    <3>2. t.visited = s.visited \o Chunk(v, ds, s.del, left) /\ t.stop
      <4>1. t = StopPrematurely(s, Visits(left))
        BY <1>3, <1>5, <2>3
      <4>2. Visits(left) = Chunk(v, ds, s.del, left)
        BY <2>2, <3>1
      <4> QED  BY <4>1, <4>2, StopFields, ZenonT(30)
    <3>3. SweptOne(n, v, ds, jail, bound, s, t, left)
      BY <1>5, <3>1, <3>2 DEF SweptOne, left
    <3> QED  BY <3>1, <3>3 DEF n, v, ds, t
  <2>4. CASE ~(l > left)
    <3>1. l \in 0 .. l /\ l \in Nat /\ s.del + l <= Len(ds) /\ s.del + l >= Len(ds)
      BY <1>1, <1>2, <2>1
    <3>2. Visits(l) = Chunk(v, ds, s.del, l) /\ Len(Visits(l)) = l
      BY <2>2, <3>1
    <3>3. /\ t.visited = s.visited \o Chunk(v, ds, s.del, l) /\ t.stop = FALSE
          /\ t.val = (s.val + 1) % n /\ t.del = 0 /\ t.swept = s.swept + l
      <4>1. t = Advance(n, s, Visits(l))
        BY <1>3, <1>5, <2>4
      <4>2. s.stop = FALSE
        BY DEF SweepState
      <4> DEFINE w == Visits(l)
      <4> HIDE DEF l, w
      <4>3. /\ Advance(n, s, w).visited = s.visited \o w /\ Advance(n, s, w).stop = s.stop
            /\ Advance(n, s, w).val = (s.val + 1) % n /\ Advance(n, s, w).del = 0
            /\ Advance(n, s, w).swept = s.swept + Len(w)
        BY DEF Advance, SweepState
      <4>4. t = Advance(n, s, w) /\ w = Chunk(v, ds, s.del, l) /\ Len(w) = l
        BY <3>2, <4>1 DEF w
      <4> QED  BY <4>2, <4>3, <4>4, Zenon
    <3>4. SweptOne(n, v, ds, jail, bound, s, t, l)
      BY <1>5, <3>1, <3>3 DEF SweptOne
    <3> QED  BY <3>1, <3>4 DEF n, v, ds, t
  <2> QED  BY <2>3, <2>4
<1> QED  BY <1>4, <1>5

\* A run of the sweep as the lemmas below take it: what it is given, where it
\* starts and its states.
SweepCase(vs, jail, lists, V, bound, c, d, g) ==
  /\ SweepInput(vs, lists, V) /\ Len(vs) \in Nat \ {0} /\ bound \in Nat
  /\ c \in 0 .. (Len(vs) - 1) /\ d \in Nat
  /\ g[0].val = c /\ g[0].del = d /\ g[0].swept = 0 /\ g[0].visited = << >> /\ ~g[0].stop
  /\ \A i \in 1 .. Len(vs) : g[i] = SweepValidator(vs, jail, lists, bound, g[i - 1])
  /\ \A i \in 0 .. Len(vs) : g[i] \in SweepState(Len(vs), V, bound)

\* Where an iteration finds the first delegation that it looks at.
First(d, i) == IF i = 0 THEN d ELSE 0

\* The validator of an iteration.
Turn(vs, c, i) == vs[Place(Len(vs), c, i) + 1]

\* After i iterations a loop that goes on is at the i-th validator after the
\* start and has counted what it visited; one that has stopped has visited as
\* many delegations as the bound says.
InTurn(vs, bound, c, d, s, i) ==
  /\ s.stop => Len(s.visited) = bound
  /\ ~s.stop => s.val = Place(Len(vs), c, i) /\ s.del = First(d, i) /\ Len(s.visited) = s.swept

\* An iteration that is not broken off, of a loop in turn.
LEMMA SweptTurn ==
  ASSUME NEW vs, NEW jail, NEW lists, NEW V, NEW bound, NEW c, NEW d, NEW g,
         SweepCase(vs, jail, lists, V, bound, c, d, g), NEW i \in 1 .. Len(vs),
         InTurn(vs, bound, c, d, g[i - 1], i - 1), ~g[i - 1].stop
  PROVE  \E m \in Nat :
           /\ SweptOne(Len(vs), Turn(vs, c, i - 1), lists[Turn(vs, c, i - 1)], jail, bound,
                       g[i - 1], g[i], m)
           /\ g[i - 1].del = First(d, i - 1)
<1> DEFINE s == g[i - 1]
           n == Len(vs)
<1>1. n # 0 /\ bound \in Nat /\ i - 1 \in 0 .. n /\ SweepInput(vs, lists, V)
  BY DEF SweepCase
<1>2. s \in SweepState(n, V, bound) /\ g[i] = SweepValidator(vs, jail, lists, bound, s)
  BY <1>1 DEF SweepCase
<1>3. s.val = Place(n, c, i - 1) /\ s.del = First(d, i - 1)
  BY DEF InTurn
<1> HIDE DEF s, n
<1>4. PICK m \in Nat : SweptOne(n, vs[s.val + 1], lists[vs[s.val + 1]], jail, bound, s, g[i], m)
  <2>1. ~s.stop
    BY DEF s
  <2>2. \E m \in Nat : SweptOne(n, vs[s.val + 1], lists[vs[s.val + 1]], jail, bound, s,
                                SweepValidator(vs, jail, lists, bound, s), m)
    BY <1>1, <1>2, <2>1, SweepStep DEF n
  <2> QED  BY <1>2, <2>2, Zenon
<1>5. vs[s.val + 1] = Turn(vs, c, i - 1)
  BY <1>3 DEF Turn, n
<1> QED  BY <1>3, <1>4, <1>5, Zenon DEF s, n

\* The loop is always in turn.
LEMMA SweepInTurn ==
  ASSUME NEW vs, NEW jail, NEW lists, NEW V, NEW bound, NEW c, NEW d, NEW g,
         SweepCase(vs, jail, lists, V, bound, c, d, g)
  PROVE  \A i \in 0 .. Len(vs) : InTurn(vs, bound, c, d, g[i], i)
<1> DEFINE n == Len(vs)
           I == {i \in 0 .. n : InTurn(vs, bound, c, d, g[i], i)}
<1>1. n \in Nat \ {0} /\ c \in 0 .. (n - 1) /\ bound \in Nat
  BY DEF SweepCase
<1>2. 0 \in I
  <2>1. /\ g[0].val = c /\ g[0].del = d /\ g[0].swept = 0 /\ g[0].visited = << >> /\ ~g[0].stop
    BY DEF SweepCase
  <2>2. Place(n, c, 0) = c /\ First(d, 0) = d
    BY <1>1 DEF Place, First
  <2>3. Len(g[0].visited) = 0
    BY <2>1
  <2>4. InTurn(vs, bound, c, d, g[0], 0)
    BY <2>1, <2>2, <2>3 DEF InTurn, n
  <2> QED  BY <1>1, <2>4
<1>3. ASSUME NEW i \in 1 .. n, i - 1 \in I
      PROVE  i \in I
  <2> DEFINE s == g[i - 1]
             t == g[i]
  <2>1. /\ InTurn(vs, bound, c, d, s, i - 1) /\ t = SweepValidator(vs, jail, lists, bound, s)
        /\ s \in SweepState(n, V, bound)
    <3>1. i - 1 \in 0 .. n
      BY <1>1
    <3> QED  BY <1>3, <3>1 DEF SweepCase
  <2>2. CASE s.stop
    <3>1. t = s
      BY <2>1, <2>2 DEF SweepValidator
    <3>2. InTurn(vs, bound, c, d, t, i)
      <4> HIDE DEF s, t
      <4> QED  BY <2>1, <2>2, <3>1 DEF InTurn
    <3> QED  BY <3>2
  <2>3. CASE ~s.stop
    <3> DEFINE v == Turn(vs, c, i - 1)
    <3>1. PICK m \in Nat : SweptOne(n, v, lists[v], jail, bound, s, t, m)
      <4>1. InTurn(vs, bound, c, d, g[i - 1], i - 1) /\ ~g[i - 1].stop
        BY <2>1, <2>3
      <4> QED  BY <4>1, SweptTurn
    <3> HIDE DEF s, t, v
    <3>2. s.visited \in Seq(V) /\ s.swept \in Nat /\ Len(s.visited) = s.swept
          /\ s.val = Place(n, c, i - 1)
      BY <2>1, <2>3 DEF SweepState, UpTo, InTurn, n
    <3>3. Len(t.visited) = s.swept + m
      <4> DEFINE w == Chunk(v, lists[v], s.del, m)
                 e == s.visited
                 W == V \cup {w[j] : j \in 1 .. m}
      <4>1. w = [j \in 1 .. m |-> w[j]] /\ Len(w) = m
        BY DEF Chunk
      <4>2. t.visited = e \o w
        BY <3>1 DEF SweptOne
      <4>3. e \in Seq(V) /\ Len(e) = s.swept
        BY <3>2
      <4> HIDE DEF w, e
      <4>4. w \in Seq(W) /\ e \in Seq(W)
        BY <4>1, <4>3
      <4> HIDE DEF W
      <4>5. Len(e \o w) = Len(e) + Len(w)
        BY <4>4
      <4> QED  BY <4>1, <4>2, <4>3, <4>5
    <3>4. (Place(n, c, i - 1) + 1) % n = Place(n, c, i)
      BY <1>1, NextPlace
    <3>5. InTurn(vs, bound, c, d, t, i)
      <4>1. CASE t.stop /\ m = bound - s.swept
        <5>1. Len(t.visited) = bound
          BY <1>1, <3>2, <3>3, <4>1
        <5> QED  BY <4>1, <5>1 DEF InTurn
      <4>2. CASE ~t.stop /\ t.val = (s.val + 1) % n /\ t.del = 0 /\ t.swept = s.swept + m
        <5>1. First(d, i) = 0
          BY DEF First
        <5> QED  BY <3>2, <3>3, <3>4, <4>2, <5>1 DEF InTurn, n
      <4> QED  BY <3>1, <4>1, <4>2 DEF SweptOne
    <3> QED  BY <3>5 DEF t
  <2> QED  BY <2>2, <2>3
<1>4. \A i \in 0 .. n : i \in I
  <2> HIDE DEF I
  <2> QED  BY <1>1, <1>2, <1>3, LoopKeeps, Zenon
<1> QED  BY <1>4

\* What is visited after i iterations: delegations of the validators that had
\* their turn and are not jailed, none of them twice.
VisitedOnce(vs, jail, c, s, i) ==
  /\ \A k \in 1 .. Len(s.visited) :
       /\ s.visited[k].val \notin jail
       /\ \E j \in 0 .. (i - 1) : s.visited[k].val = Turn(vs, c, j)
  /\ \A k, l \in 1 .. Len(s.visited) : s.visited[k] = s.visited[l] => k = l

\* What a loop that goes on has visited after i iterations: all delegations of
\* the validators that had their turn, but for those before the start.
VisitedAll(vs, jail, lists, c, d, s, i) ==
  ~s.stop =>
    \A j \in 0 .. (i - 1) : Turn(vs, c, j) \notin jail =>
      \A p \in 1 .. Len(lists[Turn(vs, c, j)]) : p > First(d, j) =>
        \E k \in 1 .. Len(s.visited) :
          s.visited[k] = [val |-> Turn(vs, c, j), del |-> lists[Turn(vs, c, j)][p]]

\* A sequence with a chunk added, and its elements.
WithChunk(e, v, ds, from, m, u) == u = e \o Chunk(v, ds, from, m)
HasChunk(e, v, ds, from, m, u) ==
  /\ Len(u) = Len(e) + m /\ Len(e) \in Nat
  /\ \A k \in 1 .. Len(e) : u[k] = e[k]
  /\ \A k \in 1 .. m : u[Len(e) + k] = [val |-> v, del |-> ds[from + k]]

\* The chunk comes after the elements there were.
LEMMA ChunkAdded ==
  ASSUME NEW V, NEW e \in Seq(V), NEW v, NEW ds, NEW from \in Nat, NEW m \in Nat,
         NEW u, WithChunk(e, v, ds, from, m, u)
  PROVE  HasChunk(e, v, ds, from, m, u)
<1> DEFINE w == Chunk(v, ds, from, m)
           W == V \cup {w[j] : j \in 1 .. m}
<1>1. /\ w = [j \in 1 .. m |-> w[j]] /\ Len(w) = m
      /\ \A k \in 1 .. m : w[k] = [val |-> v, del |-> ds[from + k]]
  BY DEF Chunk
<1> HIDE DEF w
<1>2. w \in Seq(W) /\ e \in Seq(W)
  BY <1>1
<1> HIDE DEF W
<1>3. /\ Len(e \o w) = Len(e) + Len(w) /\ Len(e) \in Nat
      /\ \A k \in 1 .. Len(e) : (e \o w)[k] = e[k]
      /\ \A k \in 1 .. Len(w) : (e \o w)[Len(e) + k] = w[k]
  BY <1>2
<1>4. u = e \o w
  BY DEF WithChunk, w
<1> QED  BY <1>1, <1>3, <1>4 DEF HasChunk

\* Two turns within one round are of two validators.
LEMMA TurnsDiffer ==
  ASSUME NEW vs, NEW c, Len(vs) \in Nat \ {0}, c \in 0 .. (Len(vs) - 1),
         \A k, l \in 1 .. Len(vs) : vs[k] = vs[l] => k = l,
         NEW i \in 0 .. (Len(vs) - 1), NEW j \in 0 .. (Len(vs) - 1), Turn(vs, c, i) = Turn(vs, c, j)
  PROVE  i = j
<1> DEFINE n == Len(vs)
           p == Place(n, c, i)
           q == Place(n, c, j)
<1>1. p + 1 \in 1 .. n /\ q + 1 \in 1 .. n /\ (p + 1 = q + 1 => i = j)
  BY DEF Place
<1> HIDE DEF p, q
<1>2. vs[p + 1] = vs[q + 1]
  BY DEF Turn, p, q
<1> QED  BY <1>1, <1>2

\* One more iteration visits none of the delegations visited before.
LEMMA ChunkOnce ==
  ASSUME NEW vs, NEW jail, NEW V, NEW c, Len(vs) \in Nat \ {0}, c \in 0 .. (Len(vs) - 1),
         \A k, l \in 1 .. Len(vs) : vs[k] = vs[l] => k = l,
         NEW i \in 1 .. Len(vs), NEW s, s.visited \in Seq(V), VisitedOnce(vs, jail, c, s, i - 1),
         NEW ds, Len(ds) \in Nat, \A k, l \in 1 .. Len(ds) : ds[k] = ds[l] => k = l,
         NEW from \in Nat, NEW m \in Nat,
         m = 0 \/ (Turn(vs, c, i - 1) \notin jail /\ from + m <= Len(ds)),
         NEW t, t.visited = s.visited \o Chunk(Turn(vs, c, i - 1), ds, from, m)
  PROVE  VisitedOnce(vs, jail, c, t, i)
<1> DEFINE n == Len(vs)
           v == Turn(vs, c, i - 1)
           e == s.visited
           u == t.visited
           a == Len(e)
<1>1. /\ Len(u) = a + m /\ a \in Nat
      /\ \A k \in 1 .. a : u[k] = e[k]
      /\ \A k \in 1 .. m : u[a + k] = [val |-> v, del |-> ds[from + k]]
  <2>1. e \in Seq(V) /\ WithChunk(e, v, ds, from, m, u)
    BY DEF WithChunk
  <2> HIDE DEF e, v, u
  <2>2. HasChunk(e, v, ds, from, m, u)
    BY <2>1, ChunkAdded, Zenon
  <2> QED  BY <2>2, Zenon DEF HasChunk
<1>2. /\ \A k \in 1 .. a : e[k].val \notin jail /\ \E j \in 0 .. (i - 2) : e[k].val = Turn(vs, c, j)
      /\ \A k, l \in 1 .. a : e[k] = e[l] => k = l
  <2>1. i - 1 - 1 = i - 2
    OBVIOUS
  <2> QED  BY <2>1 DEF VisitedOnce
<1>3. \A k \in 1 .. a : e[k].val # v
  <2> SUFFICES ASSUME NEW k \in 1 .. a, e[k].val = v PROVE FALSE
    OBVIOUS
  <2>1. PICK j \in 0 .. (i - 2) : e[k].val = Turn(vs, c, j)
    BY <1>2
  <2>2. j \in 0 .. (n - 1) /\ i - 1 \in 0 .. (n - 1) /\ j # i - 1
    OBVIOUS
  <2>3. j = i - 1
    BY <2>1, <2>2, TurnsDiffer, Zenon
  <2> QED  BY <2>2, <2>3
<1> HIDE DEF u, e, a, v
<1>4. \A k \in 1 .. (a + m) : k \in 1 .. a \/ \E x \in 1 .. m : k = a + x
  <2> TAKE k \in 1 .. (a + m)
  <2>1. CASE k <= a
    BY <1>1, <2>1
  <2>2. CASE ~(k <= a)
    <3>1. k - a \in 1 .. m /\ k = a + (k - a)
      BY <1>1, <2>2
    <3> QED  BY <3>1
  <2> QED  BY <2>1, <2>2
<1>5. \A k \in 1 .. m : u[a + k].val = v /\ u[a + k].del = ds[from + k] /\ v \notin jail
  <2> TAKE k \in 1 .. m
  <2>1. v \notin jail
    BY DEF v
  <2>2. u[a + k] = [val |-> v, del |-> ds[from + k]]
    BY <1>1, Zenon
  <2> DEFINE x == u[a + k]
             y == ds[from + k]
  <2>3. x = [val |-> v, del |-> y]
    BY <2>2
  <2> HIDE DEF x, y
  <2>4. x.val = v /\ x.del = y
    BY <2>3
  <2> QED  BY <2>1, <2>4 DEF x, y
<1>6. \A k \in 1 .. Len(u) : u[k].val \notin jail /\ \E j \in 0 .. (i - 1) : u[k].val = Turn(vs, c, j)
  <2> TAKE k \in 1 .. Len(u)
  <2>1. CASE k \in 1 .. a
    <3>1. PICK j \in 0 .. (i - 2) : e[k].val = Turn(vs, c, j)
      BY <1>2, <2>1
    <3>2. j \in 0 .. (i - 1)
      OBVIOUS
    <3> QED  BY <1>1, <1>2, <2>1, <3>1, <3>2
  <2>2. CASE \E x \in 1 .. m : k = a + x
    <3>1. i - 1 \in 0 .. (i - 1)
      OBVIOUS
    <3> QED  BY <1>5, <2>2, <3>1 DEF v
  <2> QED  BY <1>1, <1>4, <2>1, <2>2
<1>7. ASSUME NEW k \in 1 .. Len(u), NEW l \in 1 .. Len(u), u[k] = u[l]
      PROVE  k = l
  <2>1. CASE k \in 1 .. a /\ l \in 1 .. a
    BY <1>1, <1>2, <1>7, <2>1
  <2>2. ASSUME NEW x \in 1 .. a, NEW y \in 1 .. m, u[x] = u[a + y] PROVE FALSE
    <3>1. u[x].val # v /\ u[a + y].val = v
      BY <1>1, <1>3, <1>5, Zenon
    <3> QED  BY <2>2, <3>1
  <2>3. ASSUME NEW x \in 1 .. m, NEW y \in 1 .. m, u[a + x] = u[a + y] PROVE x = y
    <3>1. ds[from + x] = ds[from + y]
      BY <1>5, <2>3, Zenon
    <3>2. from + x \in 1 .. Len(ds) /\ from + y \in 1 .. Len(ds)
      OBVIOUS
    <3>3. from + x = from + y
      BY <3>1, <3>2
    <3> QED  BY <3>3
  <2>4. CASE \E x \in 1 .. m : k = a + x
    <3>1. PICK x \in 1 .. m : k = a + x
      BY <2>4
    <3>2. CASE l \in 1 .. a
      BY <1>7, <2>2, <3>1, <3>2
    <3>3. CASE \E y \in 1 .. m : l = a + y
      BY <1>7, <2>3, <3>1, <3>3, Zenon
    <3> QED  BY <1>1, <1>4, <3>2, <3>3, Zenon
  <2>5. CASE k \in 1 .. a /\ \E y \in 1 .. m : l = a + y
    BY <1>7, <2>2, <2>5
  <2> QED  BY <1>1, <1>4, <2>1, <2>4, <2>5, Zenon
<1> QED  BY <1>6, <1>7, Zenon DEF VisitedOnce, u

\* Neither list has an element twice.
NoRepeats(vs, lists) ==
  /\ \A k, l \in 1 .. Len(vs) : vs[k] = vs[l] => k = l
  /\ \A i \in 1 .. Len(vs) : \A k, l \in 1 .. Len(lists[vs[i]]) :
       lists[vs[i]][k] = lists[vs[i]][l] => k = l

\* The validator of a turn has a list of delegations.
LEMMA TurnInput ==
  ASSUME NEW vs, NEW jail, NEW lists, NEW V, NEW bound, NEW c, NEW d, NEW g,
         SweepCase(vs, jail, lists, V, bound, c, d, g), NEW i \in 1 .. Len(vs)
  PROVE  /\ Place(Len(vs), c, i - 1) + 1 \in 1 .. Len(vs)
         /\ Len(lists[Turn(vs, c, i - 1)]) \in Nat
         /\ i - 1 \in 0 .. Len(vs) /\ g[i - 1] \in SweepState(Len(vs), V, bound)
         /\ g[i] = SweepValidator(vs, jail, lists, bound, g[i - 1])
<1>1. Len(vs) \in Nat \ {0} /\ c \in 0 .. (Len(vs) - 1) /\ SweepInput(vs, lists, V)
  BY DEF SweepCase
<1>2. Place(Len(vs), c, i - 1) \in 0 .. (Len(vs) - 1)
  BY <1>1, NextPlace
<1>3. Place(Len(vs), c, i - 1) + 1 \in 1 .. Len(vs)
  BY <1>1, <1>2
<1>4. Len(lists[Turn(vs, c, i - 1)]) \in Nat
  BY <1>1, <1>3 DEF SweepInput, Turn
<1>5. i - 1 \in 0 .. Len(vs)
  BY <1>1
<1> QED  BY <1>3, <1>4, <1>5 DEF SweepCase

\* The sweep visits no delegation twice and none of a jailed validator.
LEMMA SweepOnce ==
  ASSUME NEW vs, NEW jail, NEW lists, NEW V, NEW bound, NEW c, NEW d, NEW g,
         SweepCase(vs, jail, lists, V, bound, c, d, g), NoRepeats(vs, lists)
  PROVE  \A i \in 0 .. Len(vs) : VisitedOnce(vs, jail, c, g[i], i)
<1> DEFINE n == Len(vs)
           I == {i \in 0 .. n : VisitedOnce(vs, jail, c, g[i], i)}
<1>1. n \in Nat \ {0} /\ c \in 0 .. (n - 1) /\ d \in Nat
  BY DEF SweepCase
<1>2. 0 \in I
  <2>1. g[0].visited = << >>
    BY DEF SweepCase
  <2>2. 1 .. Len(g[0].visited) = {}
    BY <2>1
  <2>3. VisitedOnce(vs, jail, c, g[0], 0)
    BY <2>2 DEF VisitedOnce
  <2> QED  BY <1>1, <2>3
<1>3. ASSUME NEW i \in 1 .. n, i - 1 \in I
      PROVE  i \in I
  <2> DEFINE s == g[i - 1]
             t == g[i]
             v == Turn(vs, c, i - 1)
             ds == lists[v]
  <2>1. /\ Place(n, c, i - 1) + 1 \in 1 .. n /\ Len(ds) \in Nat /\ i - 1 \in 0 .. n
        /\ s \in SweepState(n, V, bound) /\ t = SweepValidator(vs, jail, lists, bound, s)
    BY TurnInput
  <2>2. VisitedOnce(vs, jail, c, s, i - 1)
    BY <1>3
  <2>3. CASE s.stop
    <3>1. t = s
      BY <2>1, <2>3 DEF SweepValidator
    <3>2. \A j \in 0 .. (i - 1 - 1) : j \in 0 .. (i - 1)
      BY <1>1
    <3>3. VisitedOnce(vs, jail, c, s, i)
      <4> HIDE DEF s
      <4> QED  BY <2>2, <3>2 DEF VisitedOnce
    <3> QED  BY <3>1, <3>3
  <2>4. CASE ~s.stop
    <3>1. PICK m \in Nat : SweptOne(n, v, ds, jail, bound, s, t, m)
      <4>1. InTurn(vs, bound, c, d, g[i - 1], i - 1)
        BY <2>1, SweepInTurn
      <4> QED  BY <2>4, <4>1, SweptTurn
    <3>2. s.visited \in Seq(V) /\ s.del \in Nat
      BY <2>1 DEF SweepState
    <3>3. \A k, l \in 1 .. Len(ds) : ds[k] = ds[l] => k = l
      BY <2>1 DEF NoRepeats, Turn
    <3>4. \A k, l \in 1 .. n : vs[k] = vs[l] => k = l
      BY DEF NoRepeats
    <3> HIDE DEF s, t, ds
    <3>5. /\ t.visited = s.visited \o Chunk(v, ds, s.del, m)
          /\ m = 0 \/ (v \notin jail /\ s.del + m <= Len(ds))
      BY <3>1 DEF SweptOne
    <3>6. VisitedOnce(vs, jail, c, t, i)
      BY <1>1, <2>1, <2>2, <3>2, <3>3, <3>4, <3>5, ChunkOnce, Zenon
    <3> QED  BY <3>6 DEF t
  <2> QED  BY <2>3, <2>4
<1>4. \A i \in 0 .. n : i \in I
  <2> HIDE DEF I
  <2> QED  BY <1>1, <1>2, <1>3, LoopKeeps, Zenon
<1> QED  BY <1>4

\* A loop that goes on has visited every delegation it came by.
LEMMA SweepAll ==
  ASSUME NEW vs, NEW jail, NEW lists, NEW V, NEW bound, NEW c, NEW d, NEW g,
         SweepCase(vs, jail, lists, V, bound, c, d, g)
  PROVE  \A i \in 0 .. Len(vs) : VisitedAll(vs, jail, lists, c, d, g[i], i)
<1> DEFINE n == Len(vs)
           I == {i \in 0 .. n : VisitedAll(vs, jail, lists, c, d, g[i], i)}
<1>1. n \in Nat \ {0} /\ c \in 0 .. (n - 1) /\ d \in Nat
  BY DEF SweepCase
<1>2. 0 \in I
  <2>1. 0 .. (0 - 1) = {}
    OBVIOUS
  <2>2. VisitedAll(vs, jail, lists, c, d, g[0], 0)
    BY <2>1 DEF VisitedAll
  <2> QED  BY <1>1, <2>2
<1>3. ASSUME NEW i \in 1 .. n, i - 1 \in I
      PROVE  i \in I
  <2> DEFINE s == g[i - 1]
             t == g[i]
             v == Turn(vs, c, i - 1)
             ds == lists[v]
  <2>1. /\ Len(ds) \in Nat /\ i - 1 \in 0 .. n
        /\ s \in SweepState(n, V, bound) /\ t = SweepValidator(vs, jail, lists, bound, s)
    BY TurnInput
  <2>2. VisitedAll(vs, jail, lists, c, d, s, i - 1)
    BY <1>3
  <2>3. CASE t.stop
    BY <2>3 DEF VisitedAll
  <2>4. CASE ~t.stop
    <3>1. ~s.stop
      BY <2>1, <2>4, Zenon DEF SweepValidator
    <3>2. PICK m \in Nat : SweptOne(n, v, ds, jail, bound, s, t, m) /\ s.del = First(d, i - 1)
      <4>1. InTurn(vs, bound, c, d, g[i - 1], i - 1)
        BY <2>1, SweepInTurn
      <4> QED  BY <3>1, <4>1, SweptTurn
    <3>3. s.visited \in Seq(V) /\ s.del \in Nat
      BY <2>1 DEF SweepState
    <3> DEFINE e == s.visited
               u == t.visited
               from == s.del
               Old(j) == lists[Turn(vs, c, j)]
    <3>4. HasChunk(e, v, ds, from, m, u) /\ (v \in jail \/ from + m >= Len(ds))
      <4> HIDE DEF s, t, v, ds
      <4>1. WithChunk(e, v, ds, from, m, u) /\ (v \in jail \/ from + m >= Len(ds))
        BY <2>4, <3>2 DEF SweptOne, WithChunk
      <4> QED  BY <3>3, <4>1, ChunkAdded
    <3>5. ASSUME NEW j \in 0 .. (i - 1), Turn(vs, c, j) \notin jail,
                 NEW p \in 1 .. Len(Old(j)), p > First(d, j)
          PROVE  \E k \in 1 .. Len(u) : u[k] = [val |-> Turn(vs, c, j), del |-> Old(j)[p]]
      <4>1. CASE j \in 0 .. (i - 1 - 1)
        <5>1. PICK k \in 1 .. Len(e) : e[k] = [val |-> Turn(vs, c, j), del |-> Old(j)[p]]
          BY <2>2, <3>1, <3>5, <4>1, Zenon DEF VisitedAll
        <5> HIDE DEF e, u, v, ds, from
        <5>2. k \in 1 .. Len(u) /\ u[k] = e[k]
          BY <3>4, <5>1 DEF HasChunk
        <5> QED  BY <5>1, <5>2
      <4>2. CASE j = i - 1
        <5>1. p \in 1 .. Len(ds) /\ p > from /\ Turn(vs, c, j) = v /\ Old(j) = ds /\ v \notin jail
          BY <3>2, <3>5, <4>2
        <5> HIDE DEF e, u, v, ds, from, Old
        <5>2. from \in Nat /\ p - from \in 1 .. m /\ from + (p - from) = p
          <6>1. from \in Nat
            BY <3>3 DEF from
          <6> QED  BY <2>1, <3>4, <5>1, <6>1
        <5> DEFINE x == p - from
        <5>3. x \in 1 .. m /\ from + x = p
          BY <5>2
        <5> HIDE DEF x
        <5>4. Len(e) \in Nat /\ Len(u) = Len(e) + m
              /\ u[Len(e) + x] = [val |-> v, del |-> ds[from + x]]
          BY <3>4, <5>3 DEF HasChunk
        <5>5. Len(e) + x \in 1 .. Len(u)
          BY <5>3, <5>4
        <5>6. u[Len(e) + x] = [val |-> v, del |-> ds[p]]
          BY <5>3, <5>4
        <5> QED  BY <5>1, <5>5, <5>6
      <4> QED  BY <1>1, <4>1, <4>2
    <3> QED  BY <3>5 DEF VisitedAll
  <2> QED  BY <2>3, <2>4
<1>4. \A i \in 0 .. n : i \in I
  <2> HIDE DEF I
  <2> QED  BY <1>1, <1>2, <1>3, LoopKeeps, Zenon
<1> QED  BY <1>4

-----------------------------------------------------------------------------
(* The sweep from block to block.                                          *)

\* The cursor is a pair of numbers that need not fit the present lists.
SweepTyped ==
  /\ vals \subseteq Validators
  /\ dels \in [Validators -> SUBSET Delegators]
  /\ cursor \in [val : Nat, del : Nat]

\* The lists that the sweep reads, and the delegations in them.
ValList == InKeyOrder(vals)
DelLists == [v \in Validators |-> InKeyOrder(dels[v])]
Delegations == {x \in [val : vals, del : Delegators] : x.del \in dels[x.val]}

\* The lists hold every validator and every delegation once, in key order.
LEMMA ListsAre ==
  ASSUME SweepAssumption, SweepTyped
  PROVE  /\ SweepInput(ValList, DelLists, Delegations) /\ NoRepeats(ValList, DelLists)
         /\ \A v \in vals :
              /\ Cardinality({w \in vals : w < v}) + 1 \in 1 .. Len(ValList)
              /\ ValList[Cardinality({w \in vals : w < v}) + 1] = v
              /\ \A d \in dels[v] :
                   /\ Cardinality({e \in dels[v] : e < d}) + 1 \in 1 .. Len(DelLists[v])
                   /\ DelLists[v][Cardinality({e \in dels[v] : e < d}) + 1] = d
<1>1. vals \subseteq Nat /\ IsFiniteSet(vals)
  <2>1. vals \in SUBSET Validators /\ IsFiniteSet(Validators) /\ Validators \subseteq Nat
    BY DEF SweepTyped, SweepAssumption
  <2>2. IsFiniteSet(vals)
    BY <2>1, FS_Subset, Zenon
  <2> QED  BY <2>1, <2>2
<1>2. \A v \in Validators : dels[v] \subseteq Nat /\ IsFiniteSet(dels[v]) /\ dels[v] \subseteq Delegators
  <2> TAKE v \in Validators
  <2>1. dels[v] \in SUBSET Delegators /\ IsFiniteSet(Delegators) /\ Delegators \subseteq Nat
    BY DEF SweepTyped, SweepAssumption
  <2>2. IsFiniteSet(dels[v])
    BY <2>1, FS_Subset
  <2> QED  BY <2>1, <2>2, Zenon
<1>3. /\ ValList \in Seq(vals)
      /\ \A v \in vals :
           /\ Cardinality({w \in vals : w < v}) + 1 \in 1 .. Len(ValList)
           /\ ValList[Cardinality({w \in vals : w < v}) + 1] = v
      /\ \A i, j \in 1 .. Len(ValList) : ValList[i] = ValList[j] => i = j
  <2> DEFINE q == InKeyOrder(vals)
  <2>1. /\ q \in Seq(vals)
        /\ \A v \in vals :
             /\ Cardinality({w \in vals : w < v}) + 1 \in 1 .. Len(q)
             /\ q[Cardinality({w \in vals : w < v}) + 1] = v
        /\ \A i, j \in 1 .. Len(q) : q[i] = q[j] => i = j
    BY <1>1, KeyPlaces, Zenon
  <2> QED  BY <2>1 DEF ValList
<1>4. ASSUME NEW v \in vals
      PROVE  /\ DelLists[v] \in Seq(dels[v])
             /\ \A d \in dels[v] :
                  /\ Cardinality({e \in dels[v] : e < d}) + 1 \in 1 .. Len(DelLists[v])
                  /\ DelLists[v][Cardinality({e \in dels[v] : e < d}) + 1] = d
             /\ \A i, j \in 1 .. Len(DelLists[v]) : DelLists[v][i] = DelLists[v][j] => i = j
  <2>1. v \in Validators
    BY DEF SweepTyped
  <2> DEFINE S == dels[v]
             q == InKeyOrder(S)
  <2>2. S \subseteq Nat /\ IsFiniteSet(S)
    BY <1>2, <2>1
  <2> HIDE DEF S
  <2>3. /\ q \in Seq(S)
        /\ \A d \in S : /\ Cardinality({e \in S : e < d}) + 1 \in 1 .. Len(q)
                        /\ q[Cardinality({e \in S : e < d}) + 1] = d
        /\ \A i, j \in 1 .. Len(q) : q[i] = q[j] => i = j
    BY <2>2, KeyPlaces, Zenon
  <2>4. DelLists[v] = q
    BY <2>1 DEF DelLists, S
  <2> HIDE DEF q
  <2> QED  BY <2>3, <2>4 DEF S
<1>5. \A i \in 1 .. Len(ValList) : ValList[i] \in vals
  BY <1>3
<1>6. NoRepeats(ValList, DelLists)
  BY <1>3, <1>4, <1>5 DEF NoRepeats
<1>7. SweepInput(ValList, DelLists, Delegations)
  <2>1. ValList = [i \in 1 .. Len(ValList) |-> ValList[i]] /\ Len(ValList) \in Nat
    BY <1>3
  <2>2. ASSUME NEW i \in 1 .. Len(ValList)
        PROVE  LET ds == DelLists[ValList[i]] IN
               /\ Len(ds) \in Nat /\ ds = [j \in 1 .. Len(ds) |-> ds[j]]
               /\ \A j \in 1 .. Len(ds) : [val |-> ValList[i], del |-> ds[j]] \in Delegations
    <3> DEFINE v == ValList[i]
               ds == DelLists[v]
               S == dels[v]
    <3>1. v \in vals /\ v \in Validators
      BY <1>5, Zenon DEF SweepTyped
    <3> HIDE DEF v
    <3>2. ds \in Seq(S) /\ S \subseteq Delegators
      BY <1>2, <1>4, <3>1
    <3>3. \A d \in S : [val |-> v, del |-> d] \in Delegations
      BY <3>1, <3>2 DEF Delegations
    <3> HIDE DEF ds, S
    <3>4. Len(ds) \in Nat /\ ds = [j \in 1 .. Len(ds) |-> ds[j]] /\ \A j \in 1 .. Len(ds) : ds[j] \in S
      BY <3>2
    <3> QED  BY <3>3, <3>4 DEF ds, v
  <2> QED  BY <2>1, <2>2, Zenon DEF SweepInput
<1> QED  BY <1>3, <1>4, <1>6, <1>7, Zenon

\* What the sweep leaves: a cursor, at most MaxSweepPerBlock visits, and the
\* state of its loop after the last validator.
LEMMA SweepRan ==
  ASSUME SweepAssumption, SweepTyped, ProcessRewardWithdrawals
  PROVE  /\ UNCHANGED sets /\ cursor' \in [val : Nat, del : Nat]
         /\ visited' \in Seq(Delegations) /\ Len(ValList) \in Nat
         /\ Len(ValList) = 0 => visited' = << >>
         /\ Len(ValList) # 0 =>
              LET n == Len(ValList)
                  c == StartCursor(ValList, cursor)
              IN  \E s : /\ visited' = s.visited /\ s.swept \in 0 .. MaxSweepPerBlock
                         /\ c.val \in 0 .. (n - 1) /\ c.del \in Nat
                         /\ InTurn(ValList, MaxSweepPerBlock, c.val, c.del, s, n)
                         /\ VisitedOnce(ValList, jailed, c.val, s, n)
                         /\ VisitedAll(ValList, jailed, DelLists, c.val, c.del, s, n)
<1> DEFINE n == Len(ValList)
           c == StartCursor(ValList, cursor)
           loop == SweepLoop(ValList, jailed, DelLists, MaxSweepPerBlock, cursor)
<1>1. /\ cursor' = [val |-> loop.val, del |-> loop.del] /\ visited' = loop.visited /\ UNCHANGED sets
  BY DEF ProcessRewardWithdrawals, ValList, DelLists
<1>2. /\ SweepInput(ValList, DelLists, Delegations) /\ NoRepeats(ValList, DelLists)
      /\ MaxSweepPerBlock \in Nat /\ cursor \in [val : Nat, del : Nat]
  BY ListsAre DEF SweepTyped, SweepAssumption
<1>3. n \in Nat
  BY <1>2 DEF SweepInput
<1>4. PICK g : SweepRun(ValList, jailed, DelLists, MaxSweepPerBlock, cursor,
                        SweepState(n, Delegations, MaxSweepPerBlock), g)
  BY <1>2, SweepLoopRuns
<1>5. /\ g[0] = SweepStart(ValList, cursor) /\ loop = g[n]
      /\ \A i \in 1 .. n : g[i] = SweepValidator(ValList, jailed, DelLists, MaxSweepPerBlock, g[i - 1])
      /\ \A i \in 0 .. n : g[i] \in SweepState(n, Delegations, MaxSweepPerBlock)
  BY <1>4 DEF SweepRun
<1> HIDE DEF loop
<1>6. loop \in SweepState(n, Delegations, MaxSweepPerBlock)
  BY <1>3, <1>5
<1>7. cursor' \in [val : Nat, del : Nat] /\ visited' \in Seq(Delegations)
      /\ loop.swept \in 0 .. MaxSweepPerBlock
  <2>1. /\ loop.val \in Nat /\ loop.del \in Nat /\ loop.visited \in Seq(Delegations)
        /\ loop.swept \in 0 .. MaxSweepPerBlock
    BY <1>6 DEF SweepState, ValIndex, UpTo
  <2> QED  BY <1>1, <2>1
<1>8. /\ g[0].val = c.val /\ g[0].del = c.del /\ g[0].swept = 0 /\ g[0].visited = << >>
      /\ ~g[0].stop
  BY <1>5 DEF SweepStart
<1>9. ASSUME n = 0 PROVE visited' = << >>
  BY <1>1, <1>5, <1>8, <1>9
<1>10. ASSUME n # 0
       PROVE  /\ c.val \in 0 .. (n - 1) /\ c.del \in Nat
              /\ InTurn(ValList, MaxSweepPerBlock, c.val, c.del, loop, n)
              /\ VisitedOnce(ValList, jailed, c.val, loop, n)
              /\ VisitedAll(ValList, jailed, DelLists, c.val, c.del, loop, n)
  <2>1. c.val \in 0 .. (n - 1) /\ c.del \in Nat
    BY <1>2, <1>3, <1>10 DEF StartCursor
  <2>2. SweepCase(ValList, jailed, DelLists, Delegations, MaxSweepPerBlock, c.val, c.del, g)
    BY <1>2, <1>3, <1>5, <1>8, <1>10, <2>1 DEF SweepCase
  <2>3. n \in 0 .. n
    BY <1>3
  <2> QED  BY <1>2, <1>5, <2>1, <2>2, <2>3, SweepInTurn, SweepOnce, SweepAll
<1> QED  BY <1>1, <1>3, <1>7, <1>9, <1>10, Zenon

\* The initial state and every step keep the types.
LEMMA SweepTypes ==
  ASSUME SweepAssumption
  PROVE  (Init => SweepTyped) /\ (SweepTyped /\ [Next]_vars => SweepTyped')
<1>1. Init => SweepTyped
  BY DEF Init, SweepTyped
<1>2. ASSUME SweepTyped, [Next]_vars
      PROVE  SweepTyped'
  <2>1. CASE UNCHANGED vars
    BY <1>2, <2>1 DEF vars, SweepTyped
  <2>2. ASSUME NEW v \in Validators, CreateValidator(v) \/ RemoveValidator(v) \/ Jail(v) \/ Unjail(v)
        PROVE  SweepTyped'
    BY <1>2, <2>2, Zenon DEF SweepTyped, CreateValidator, RemoveValidator, Jail, Unjail
  <2>3. ASSUME NEW v \in Validators, NEW d \in Delegators, Delegate(d, v) \/ Undelegate(d, v)
        PROVE  SweepTyped'
    <3>1. dels[v] \cup {d} \in SUBSET Delegators /\ dels[v] \ {d} \in SUBSET Delegators
      BY <1>2 DEF SweepTyped
    <3>2. dels' \in [Validators -> SUBSET Delegators] /\ vals' = vals /\ cursor' = cursor
      BY <1>2, <2>3, <3>1 DEF SweepTyped, Delegate, Undelegate
    <3> QED  BY <1>2, <3>2 DEF SweepTyped
  <2>4. CASE ProcessRewardWithdrawals
    <3>1. UNCHANGED sets /\ cursor' \in [val : Nat, del : Nat]
      BY <1>2, <2>4, SweepRan
    <3> QED  BY <1>2, <3>1, Zenon DEF SweepTyped, sets
  <2> QED  BY <1>2, <2>1, <2>2, <2>3, <2>4 DEF Next
<1> QED  BY <1>1, <1>2

\* Only the sweep leaves validators, jailings and delegations as they are.
LEMMA OnlySweep ==
  ASSUME SweepTyped, Next, UNCHANGED sets
  PROVE  ProcessRewardWithdrawals
<1>1. ASSUME NEW v \in Validators, CreateValidator(v) \/ RemoveValidator(v) \/ Jail(v) \/ Unjail(v)
      PROVE  FALSE
  BY <1>1 DEF CreateValidator, RemoveValidator, Jail, Unjail, sets
<1>2. ASSUME NEW v \in Validators, NEW d \in Delegators, Delegate(d, v) \/ Undelegate(d, v)
      PROVE  FALSE
  <2>1. dels \in [Validators -> SUBSET Delegators] /\ dels' = dels
    BY DEF SweepTyped, sets
  <2>2. CASE Delegate(d, v)
    <3>1. d \notin dels[v] /\ dels'[v] = dels[v] \cup {d}
      BY <2>1, <2>2 DEF Delegate
    <3> QED  BY <2>1, <3>1
  <2>3. CASE Undelegate(d, v)
    <3>1. d \in dels[v] /\ dels'[v] = dels[v] \ {d}
      BY <2>1, <2>3 DEF Undelegate
    <3> QED  BY <2>1, <3>1
  <2> QED  BY <1>2, <2>2, <2>3
<1> QED  BY <1>1, <1>2 DEF Next

\* The sweep of a block visits each delegation at most once.
LEMMA SweepVisitsOnce ==
  ASSUME SweepAssumption, SweepTyped, ProcessRewardWithdrawals
  PROVE  /\ Len(visited') <= MaxSweepPerBlock
         /\ \A i, j \in 1 .. Len(visited') : visited'[i] = visited'[j] => i = j
         /\ \A i \in 1 .. Len(visited') :
              /\ visited'[i].val \in vals \ jailed
              /\ visited'[i].del \in dels[visited'[i].val]
<1> DEFINE n == Len(ValList)
           c == StartCursor(ValList, cursor)
           e == visited'
<1>1. n \in Nat /\ e \in Seq(Delegations) /\ MaxSweepPerBlock \in Nat
  BY SweepRan DEF SweepAssumption
<1>2. \A i \in 1 .. Len(e) : e[i].val \in vals /\ e[i].del \in dels[e[i].val]
  <2> HIDE DEF e
  <2>1. \A i \in 1 .. Len(e) : e[i] \in Delegations
    BY <1>1
  <2> QED  BY <2>1 DEF Delegations
<1>3. CASE n = 0
  <2>1. e = << >>
    BY <1>3, SweepRan
  <2> HIDE DEF e
  <2>2. Len(e) = 0 /\ 1 .. Len(e) = {}
    BY <2>1
  <2>3. Len(e) <= MaxSweepPerBlock
    BY <1>1, <2>2
  <2> QED  BY <2>2, <2>3, ZenonT(30) DEF e
<1>4. CASE n # 0
  <2>1. PICK s : /\ e = s.visited /\ s.swept \in 0 .. MaxSweepPerBlock
                 /\ InTurn(ValList, MaxSweepPerBlock, c.val, c.del, s, n)
                 /\ VisitedOnce(ValList, jailed, c.val, s, n)
    BY <1>4, SweepRan, Zenon
  <2> HIDE DEF e, c, n
  <2>2. Len(e) <= MaxSweepPerBlock
    BY <1>1, <2>1 DEF InTurn
  <2>3. /\ \A i \in 1 .. Len(e) : e[i].val \notin jailed
        /\ \A i, j \in 1 .. Len(e) : e[i] = e[j] => i = j
    BY <2>1 DEF VisitedOnce
  <2> QED  BY <1>2, <2>2, <2>3 DEF e
<1> QED  BY <1>3, <1>4, ZenonT(30)

\* A sweep that ends below the bound has visited all delegations that are not
\* before the cursor.
LEMMA ShortSweepVisitsAll ==
  ASSUME SweepAssumption, SweepTyped, ProcessRewardWithdrawals, Len(visited') < MaxSweepPerBlock,
         NEW v \in vals \ jailed, NEW d \in dels[v]
  PROVE  \/ \E i \in 1 .. Len(visited') : visited'[i] = [val |-> v, del |-> d]
         \/ /\ cursor.val = Cardinality({w \in vals : w < v})
            /\ cursor.del > Cardinality({e \in dels[v] : e < d})
<1> DEFINE n == Len(ValList)
           c == StartCursor(ValList, cursor)
           x == Cardinality({w \in vals : w < v})
           y == Cardinality({e \in dels[v] : e < d})
           j == IF c.val <= x THEN x - c.val ELSE x - c.val + n
<1>1. /\ x + 1 \in 1 .. n /\ ValList[x + 1] = v
      /\ y + 1 \in 1 .. Len(DelLists[v]) /\ DelLists[v][y + 1] = d
  BY ListsAre, ZenonT(30)
<1>2. n \in Nat /\ n # 0 /\ cursor.val \in Nat /\ cursor.del \in Nat /\ x \in Int /\ y \in Int
  <2>1. n \in Nat
    BY SweepRan
  <2>2. IsFiniteSet({w \in vals : w < v}) /\ IsFiniteSet({e \in dels[v] : e < d})
    <3>1. /\ {w \in vals : w < v} \in SUBSET Validators /\ {e \in dels[v] : e < d} \in SUBSET Delegators
          /\ IsFiniteSet(Validators) /\ IsFiniteSet(Delegators)
      BY Zenon DEF SweepTyped, SweepAssumption
    <3> QED  BY <3>1, FS_Subset
  <2>3. x \in Nat /\ y \in Nat
    BY <2>2, FS_CardinalityType
  <2> HIDE DEF n, x, y
  <2> QED  BY <1>1, <2>1, <2>3 DEF SweepTyped
<1>3. PICK s : /\ visited' = s.visited
               /\ c.val \in 0 .. (n - 1) /\ c.del \in Nat
               /\ InTurn(ValList, MaxSweepPerBlock, c.val, c.del, s, n)
               /\ VisitedAll(ValList, jailed, DelLists, c.val, c.del, s, n)
  BY <1>2, SweepRan, ZenonT(30)
<1>4. ~s.stop
  <2>1. MaxSweepPerBlock \in Nat
    BY DEF SweepAssumption
  <2> QED  BY <1>3, <2>1 DEF InTurn
<1>5. c = IF cursor.val >= n THEN [val |-> 0, del |-> 0] ELSE cursor
  BY DEF StartCursor
<1> HIDE DEF n, x, y, c
<1>6. j \in 0 .. (n - 1) /\ Place(n, c.val, j) = x
  <2> DEFINE p == c.val
  <2>1. p \in 0 .. (n - 1) /\ x \in 0 .. (n - 1) /\ n \in Nat
    BY <1>1, <1>2, <1>3
  <2> HIDE DEF p
  <2>2. LET k == IF p <= x THEN x - p ELSE x - p + n IN k \in 0 .. (n - 1) /\ Place(n, p, k) = x
    BY <2>1 DEF Place
  <2> QED  BY <2>2 DEF p
<1>7. Turn(ValList, c.val, j) = v
  BY <1>1, <1>6, Zenon DEF Turn, n
<1>8. CASE y + 1 > First(c.del, j)
  <2> HIDE DEF j
  <2>1. \E k \in 1 .. Len(s.visited) : s.visited[k] = [val |-> v, del |-> DelLists[v][y + 1]]
    BY <1>1, <1>3, <1>4, <1>6, <1>7, <1>8 DEF VisitedAll
  <2> QED  BY <1>1, <1>3, <2>1, ZenonT(30)
<1>9. CASE ~(y + 1 > First(c.del, j))
  <2>1. j = 0 /\ c.del > y /\ c.del # 0
    BY <1>1, <1>2, <1>3, <1>9 DEF First
  <2>2. x = c.val
    BY <1>1, <1>2, <1>3, <2>1
  <2>3. c = cursor
    BY <1>5, <2>1
  <2> QED  BY <2>1, <2>2, <2>3 DEF x, y
<1> QED  BY <1>8, <1>9

\* For every set of validators and delegators and every bound, a block visits
\* no delegation twice, no more than the bound and none of a jailed validator,
\* wherever the saved cursor points in the present lists.
THEOREM SweepsOnce == Spec => OneSweepPerBlock
<1> DEFINE A == UNCHANGED sets =>
                  /\ Len(visited') <= MaxSweepPerBlock
                  /\ \A i, j \in 1 .. Len(visited') : visited'[i] = visited'[j] => i = j
                  /\ \A i \in 1 .. Len(visited') :
                       /\ visited'[i].val \in vals \ jailed
                       /\ visited'[i].del \in dels[visited'[i].val]
<1>1. SweepTyped /\ [Next]_vars => [A]_vars
  <2> SUFFICES ASSUME SweepTyped, Next, UNCHANGED sets PROVE A
    BY DEF vars
  <2> QED  BY OnlySweep, SweepVisitsOnce, SweepAssumption
<1>2. SweepAssumption
  BY SweepAssumption
<1> QED  BY <1>1, <1>2, SweepTypes, PTL DEF Spec, OneSweepPerBlock

\* A block that ends below the bound has visited every delegation of every
\* validator that is not jailed, but for those before the saved cursor.
THEOREM ShortSweeps == Spec => ShortSweepIsComplete
<1> DEFINE A == UNCHANGED sets /\ Len(visited') < MaxSweepPerBlock =>
                  \A v \in vals \ jailed : \A d \in dels[v] :
                    \/ \E i \in 1 .. Len(visited') : visited'[i] = [val |-> v, del |-> d]
                    \/ /\ cursor.val = Cardinality({w \in vals : w < v})
                       /\ cursor.del > Cardinality({e \in dels[v] : e < d})
<1>1. SweepTyped /\ [Next]_vars => [A]_vars
  <2> SUFFICES ASSUME SweepTyped, Next, UNCHANGED sets, Len(visited') < MaxSweepPerBlock PROVE A
    BY DEF vars
  <2>1. ProcessRewardWithdrawals
    BY OnlySweep
  <2> QED  BY <2>1, ShortSweepVisitsAll, SweepAssumption, Zenon
<1> QED  BY <1>1, SweepAssumption, SweepTypes, PTL DEF Spec, ShortSweepIsComplete

-----------------------------------------------------------------------------
(* The UBI share: sums over the distributions of the pool.                 *)

\* An amount for every distribution and key.
IsTable(a) == a \in [Ids -> [Keys -> Nat]]

\* The sum of a table.
LEMMA TotalType ==
  ASSUME PoolConstants, NEW a, IsTable(a)
  PROVE  /\ Total(a) \in Nat /\ [id \in Ids |-> Sum(a[id])] \in [Ids -> Nat] /\ IsFiniteSet(Ids)
         /\ \A id \in Ids : a[id] \in [Keys -> Nat] /\ Sum(a[id]) \in Nat
<1>1. IsFiniteSet(Ids) /\ IsFiniteSet(Keys)
  BY FS_Interval DEF Ids, PoolConstants
<1>2. \A id \in Ids : a[id] \in [Keys -> Nat] /\ Sum(a[id]) \in Nat
  <2> TAKE id \in Ids
  <2>1. a[id] \in [Keys -> Nat]
    BY DEF IsTable
  <2> QED  BY <1>1, <2>1, SumType
<1> DEFINE f == [id \in Ids |-> Sum(a[id])]
<1>3. f \in [Ids -> Nat]
  BY <1>2
<1>4. Total(a) = Sum(f)
  BY DEF Total
<1> HIDE DEF f
<1>5. Total(a) \in Nat
  BY <1>1, <1>3, <1>4, SumType
<1> QED  BY <1>1, <1>2, <1>3, <1>5 DEF f

\* A row of the table is replaced.
RowSet(a, id, r, b) == b = [a EXCEPT ![id] = r]

\* The sum changes with the sum of the row.
LEMMA TotalRow ==
  ASSUME PoolConstants, NEW a, IsTable(a), NEW id \in Ids, NEW r \in [Keys -> Nat],
         NEW b, RowSet(a, id, r, b)
  PROVE  /\ IsTable(b) /\ Total(b) = Total(a) - Sum(a[id]) + Sum(r)
         /\ Sum(a[id]) <= Total(a) /\ Sum(r) \in Nat
<1> DEFINE f == [x \in Ids |-> Sum(a[x])]
           g == [x \in Ids |-> Sum(b[x])]
           n == Sum(r)
<1>1. IsFiniteSet(Ids) /\ f \in [Ids -> Nat] /\ \A x \in Ids : a[x] \in [Keys -> Nat]
  BY TotalType
<1>2. n \in Nat
  BY SumType DEF PoolConstants
<1>3. IsTable(b) /\ b[id] = r /\ \A x \in Ids : x # id => b[x] = a[x]
  BY DEF IsTable, RowSet
<1>4. Total(a) = Sum(f) /\ Total(b) = Sum(g) /\ f[id] = Sum(a[id])
  BY DEF Total
<1>5. g = [f EXCEPT ![id] = n]
  <2>1. \A x \in Ids : g[x] = IF x = id THEN n ELSE f[x]
    BY <1>3
  <2>2. g = [x \in Ids |-> g[x]] /\ f = [x \in Ids |-> f[x]]
    OBVIOUS
  <2> HIDE DEF f, g, n
  <2> QED  BY <2>1, <2>2
<1> HIDE DEF f, g, n
<1>6. Sum([f EXCEPT ![id] = n]) = Sum(f) - f[id] + n /\ f[id] <= Sum(f)
  BY <1>1, <1>2, SumExcept, ZenonT(30)
<1> QED  BY <1>2, <1>3, <1>4, <1>5, <1>6 DEF n

\* One entry of the table is replaced, and what that changes.
EntryIs(a, id, k, n, b) == b = [a EXCEPT ![id][k] = n]
EntryChanged(a, id, k, n, b) ==
  /\ IsTable(b) /\ Total(b) = Total(a) - a[id][k] + n
  /\ a[id][k] <= Total(a) /\ a[id][k] \in Nat
  /\ \A x \in Ids, y \in Keys : b[x][y] = IF x = id /\ y = k THEN n ELSE a[x][y]

\* The sum changes with the entry.
LEMMA TotalEntry ==
  ASSUME PoolConstants, NEW a, IsTable(a), NEW id \in Ids, NEW k \in Keys, NEW n \in Nat,
         NEW b, EntryIs(a, id, k, n, b)
  PROVE  EntryChanged(a, id, k, n, b)
<1> DEFINE r == a[id]
           s == [r EXCEPT ![k] = n]
<1>1. r \in [Keys -> Nat] /\ Sum(r) \in Nat /\ Total(a) \in Nat
  BY TotalType
<1>2. b = [a EXCEPT ![id] = s]
  BY DEF IsTable, EntryIs
<1>3. a[id][k] \in Nat /\ a[id][k] = r[k]
  BY <1>1
<1> HIDE DEF r
<1>4. Sum(s) = Sum(r) - r[k] + n /\ r[k] <= Sum(r) /\ s \in [Keys -> Nat]
  BY <1>1, SumExcept, ZenonT(30) DEF PoolConstants
<1>5. \A y \in Keys : s[y] = IF y = k THEN n ELSE r[y]
  BY <1>1
<1> HIDE DEF s
<1>6. IsTable(b) /\ Total(b) = Total(a) - Sum(r) + Sum(s) /\ Sum(r) <= Total(a) /\ Sum(s) \in Nat
  <2>1. RowSet(a, id, s, b)
    BY <1>2, Zenon DEF RowSet
  <2>2. /\ IsTable(b) /\ Total(b) = Total(a) - Sum(a[id]) + Sum(s)
        /\ Sum(a[id]) <= Total(a) /\ Sum(s) \in Nat
    BY <1>4, <2>1, TotalRow, ZenonT(30)
  <2> QED  BY <2>2 DEF r
<1>7. \A x \in Ids, y \in Keys : b[x][y] = IF x = id /\ y = k THEN n ELSE a[x][y]
  <2> TAKE x \in Ids, y \in Keys
  <2>1. CASE x = id
    BY <1>2, <1>5, <2>1 DEF IsTable, r
  <2>2. CASE x # id
    BY <1>2, <2>2 DEF IsTable
  <2> QED  BY <2>1, <2>2
<1>8. Total(b) = Total(a) - r[k] + n /\ r[k] <= Total(a)
  BY <1>1, <1>3, <1>4, <1>6
<1> QED  BY <1>3, <1>6, <1>7, <1>8, Zenon DEF EntryChanged

\* A sequence of amounts with one more, and without its first.
LEMMA SumAppend ==
  ASSUME NEW q \in Seq(Nat), NEW n \in Nat
  PROVE  Sum(Append(q, n)) = Sum(q) + n /\ Append(q, n) \in Seq(Nat) /\ Sum(q) \in Nat
<1> DEFINE l == Len(q)
           h == Append(q, n)
<1>1. l \in Nat /\ q \in [1 .. l -> Nat]
  OBVIOUS
<1>2. h \in Seq(Nat) /\ h \in [1 .. (l + 1) -> Nat] /\ h[l + 1] = n /\ \A i \in 1 .. l : h[i] = q[i]
  <2>1. h \in Seq(Nat) /\ Len(h) = l + 1
    OBVIOUS
  <2>2. h[l + 1] = n /\ \A i \in 1 .. l : h[i] = q[i]
    OBVIOUS
  <2> HIDE DEF h, l
  <2>3. h \in [1 .. Len(h) -> Nat]
    BY <2>1
  <2> QED  BY <2>1, <2>2, <2>3
<1> HIDE DEF h, l
<1>3. Sum(h) = Sum(q) + h[l + 1]
  BY <1>1, <1>2, SumSnoc, Zenon
<1>4. Sum(q) \in Nat
  BY <1>1, FS_Interval, SumType
<1> QED  BY <1>2, <1>3, <1>4 DEF h

\* Amounts in a sequence have a sum.
LEMMA SumOfSeq ==
  ASSUME NEW q \in Seq(Nat)
  PROVE  Sum(q) \in Nat
<1>1. 0 \in Nat
  OBVIOUS
<1> QED  BY <1>1, SumAppend

\* The first of the amounts and the others.
LEMMA SumTail ==
  ASSUME NEW q \in Seq(Nat), q # << >>
  PROVE  /\ Sum(q) = Head(q) + Sum(Tail(q)) /\ Head(q) \in Nat
         /\ Tail(q) \in Seq(Nat) /\ Sum(Tail(q)) \in Nat
<1> DEFINE m == Len(q) - 1
           a == Head(q)
           f == [i \in 1 .. 1 |-> a]
           g == Tail(q)
<1>1. /\ m \in Nat /\ a \in Nat /\ g \in Seq(Nat) /\ Len(g) = m /\ Len(q) = 1 + m
      /\ q[1] = a /\ \A i \in 1 .. m : q[1 + i] = g[i]
  <2>1. Len(q) \in Nat /\ Len(q) # 0
    OBVIOUS
  <2>2. Head(q) = q[1] /\ Head(q) \in Nat /\ Tail(q) \in Seq(Nat) /\ Len(Tail(q)) = Len(q) - 1
    BY <2>1
  <2>3. \A i \in 1 .. (Len(q) - 1) : q[1 + i] = Tail(q)[i]
    BY <2>1
  <2> QED  BY <2>1, <2>2, <2>3
<1> DEFINE k == 1
           h == q
<1>2. /\ k = 1 /\ k \in Nat /\ f \in [1 .. k -> Nat] /\ \A i \in 1 .. k : h[i] = f[i]
      /\ \A i \in 1 .. m : h[k + i] = g[i]
  BY <1>1
<1>3. h \in [1 .. (k + m) -> Nat] /\ g \in [1 .. m -> Nat]
  <2>1. h \in [1 .. Len(h) -> Nat]
    OBVIOUS
  <2> HIDE DEF g
  <2>2. g \in [1 .. Len(g) -> Nat]
    BY <1>1
  <2> QED  BY <1>1, <2>1, <2>2
<1>4. Sum(f) = a
  <2>1. 1 .. 1 = {1} /\ f \in [{1} -> Nat] /\ f[1] = a
    BY <1>1
  <2> HIDE DEF f
  <2> QED  BY <2>1, SumOne, Zenon
<1> HIDE DEF m, a, f, g, k, h
<1>5. Sum(h) = Sum(f) + Sum(g)
  BY <1>1, <1>2, <1>3, SumConcat, ZenonT(30)
<1>6. Sum(g) \in Nat
  <2>1. IsFiniteSet(1 .. m)
    BY <1>1, FS_Interval
  <2> QED  BY <1>3, <2>1, SumType, Zenon
<1> QED  BY <1>1, <1>4, <1>5, <1>6 DEF a, g, h

\* The loop of setUBIDistribution never sets more than it counts: an entry that
\* is overwritten is counted all the same.
SetStates == {x \in [amounts : [Keys -> Nat], accAmount : Nat] : Sum(x.amounts) <= x.accAmount}

\* One entry.
LEMMA EntrySet ==
  ASSUME PoolConstants, NEW x \in SetStates, NEW e \in [key : Keys, amount : Nat]
  PROVE  [amounts |-> [x.amounts EXCEPT ![e.key] = e.amount], accAmount |-> x.accAmount + e.amount]
           \in SetStates
<1> DEFINE f == x.amounts
           k == e.key
           n == e.amount
           c == x.accAmount
           h == [f EXCEPT ![k] = n]
<1>1. f \in [Keys -> Nat] /\ c \in Nat /\ Sum(f) <= c /\ k \in Keys /\ n \in Nat /\ IsFiniteSet(Keys)
  BY DEF SetStates, PoolConstants
<1> HIDE DEF f, k, n, c
<1>2. Sum(h) = Sum(f) - f[k] + n /\ h \in [Keys -> Nat] /\ f[k] \in Nat /\ Sum(f) \in Nat
  BY <1>1, SumExcept, SumType, ZenonT(30)
<1> HIDE DEF h
<1>3. Sum(h) <= c + n /\ c + n \in Nat
  BY <1>1, <1>2
<1>4. [amounts |-> h, accAmount |-> c + n] \in SetStates
  BY <1>2, <1>3 DEF SetStates
<1> QED  BY <1>4 DEF f, k, n, c, h

\* All entries.
LEMMA DistributionLoopIs ==
  ASSUME PoolConstants, NEW entries \in Entries
  PROVE  DistributionLoop(entries) \in SetStates
<1> DEFINE n == Len(entries)
           z == [amounts |-> [k \in Keys |-> 0], accAmount |-> 0]
           Body(i, x) == [amounts   |-> [x.amounts EXCEPT ![entries[i].key] = entries[i].amount],
                          accAmount |-> x.accAmount + entries[i].amount]
           Step(f) == [i \in 0 .. n |-> IF i = 0 THEN z ELSE Body(i, f[i - 1])]
           g == CHOOSE f : f = Step(f)
<1>1. n \in Nat /\ \A i \in 1 .. n : entries[i] \in [key : Keys, amount : Nat]
  BY DEF Entries, PoolConstants
<1>2. DistributionLoop(entries) = g[n]
  BY DEF DistributionLoop
<1>3. z \in SetStates
  <2> DEFINE y == [k \in Keys |-> 0]
  <2>1. y \in [Keys -> Nat] /\ \A k \in Keys : y[k] = 0
    OBVIOUS
  <2>2. z = [amounts |-> y, accAmount |-> 0]
    OBVIOUS
  <2> HIDE DEF y, z
  <2>3. Sum(y) = 0
    BY <2>1, SumZero
  <2> QED  BY <2>1, <2>2, <2>3 DEF SetStates
<1>4. \A i \in 1 .. n, x \in SetStates : Body(i, x) \in SetStates
  BY <1>1, EntrySet
<1>5. ASSUME NEW f
      PROVE  f = Step(f) => f[0] = z /\ \A i \in 1 .. n : f[i] = Body(i, f[i - 1])
  <2> HIDE DEF Body, n, z
  <2> QED  BY <1>1
<1>6. ASSUME NEW f \in [0 .. n -> SetStates], f[0] = z, \A i \in 1 .. n : f[i] = Body(i, f[i - 1])
      PROVE  f = Step(f)
  <2> HIDE DEF Body, n, z
  <2>1. \A i \in 0 .. n : i = 0 \/ i \in 1 .. n
    BY <1>1
  <2> QED  BY <1>1, <1>6, <2>1
<1> HIDE DEF Body, Step, n, z
<1> DEFINE body == [p \in (1 .. n) \X SetStates |-> Body(p[1], p[2])]
<1>7. PICK w \in [0 .. n -> SetStates] : w[0] = z /\ \A i \in 1 .. n : w[i] = body[<<i, w[i - 1]>>]
  <2>1. IsBody(SetStates, n, body)
    BY <1>4 DEF IsBody
  <2> HIDE DEF body
  <2>2. PICK w : IsRun(SetStates, n, z, body, w)
    BY <1>1, <1>3, <2>1, LoopRuns
  <2> QED  BY <2>2, Zenon DEF IsRun
<1>8. \A i \in 1 .. n : w[i] = Body(i, w[i - 1])
  <2> TAKE i \in 1 .. n
  <2>1. w[i - 1] \in SetStates
    BY <1>1
  <2> QED  BY <1>7, <2>1, Zenon
<1>9. w = Step(w)
  BY <1>6, <1>7, <1>8, Zenon
<1>10. g = Step(g)
  BY <1>9, Zenon
<1> HIDE DEF g
<1>11. g[0] = z /\ \A i \in 1 .. n : g[i] = Body(i, g[i - 1])
  BY <1>5, <1>10
<1> DEFINE I == {i \in 0 .. n : g[i] \in SetStates}
<1>12. \A i \in 0 .. n : i \in I
  <2>1. 0 \in I
    BY <1>1, <1>3, <1>11
  <2>2. \A i \in 1 .. n : i - 1 \in I => i \in I
    BY <1>1, <1>4, <1>11
  <2> HIDE DEF I
  <2> QED  BY <1>1, <2>1, <2>2, LoopKeeps, Zenon
<1>13. g[n] \in SetStates
  BY <1>1, <1>12
<1> QED  BY <1>2, <1>13

\* The percentages of the logs of a block leave a percentage.
LEMMA ProcessUBIEventsIs ==
  ASSUME percentage \in Nat, logs \in Seq(Nat)
  PROVE  ProcessUBIEvents \in Nat
<1> DEFINE n == Len(logs)
           Body(i, x) == ProcessUBIPercentageSet(logs[i], x)
           Step(f) == [i \in 0 .. n |-> IF i = 0 THEN percentage ELSE Body(i, f[i - 1])]
           g == CHOOSE f : f = Step(f)
<1>1. n \in Nat /\ \A i \in 1 .. n : logs[i] \in Nat
  OBVIOUS
<1>2. ProcessUBIEvents = g[n]
  BY DEF ProcessUBIEvents
<1>4. \A i \in 1 .. n, x \in Nat : Body(i, x) \in Nat
  BY <1>1 DEF ProcessUBIPercentageSet
<1>5. ASSUME NEW f
      PROVE  f = Step(f) => f[0] = percentage /\ \A i \in 1 .. n : f[i] = Body(i, f[i - 1])
  <2> HIDE DEF Body, n
  <2> QED  BY <1>1
<1>6. ASSUME NEW f \in [0 .. n -> Nat], f[0] = percentage, \A i \in 1 .. n : f[i] = Body(i, f[i - 1])
      PROVE  f = Step(f)
  <2> HIDE DEF Body, n
  <2>1. \A i \in 0 .. n : i = 0 \/ i \in 1 .. n
    BY <1>1
  <2> QED  BY <1>1, <1>6, <2>1
<1> HIDE DEF Body, Step, n
<1> DEFINE body == [p \in (1 .. n) \X Nat |-> Body(p[1], p[2])]
<1>7. PICK w \in [0 .. n -> Nat] : w[0] = percentage /\ \A i \in 1 .. n : w[i] = body[<<i, w[i - 1]>>]
  <2>1. IsBody(Nat, n, body)
    BY <1>4, Zenon DEF IsBody
  <2> HIDE DEF body
  <2>2. PICK w : IsRun(Nat, n, percentage, body, w)
    BY <1>1, <2>1, LoopRuns, Zenon
  <2> QED  BY <2>2, Zenon DEF IsRun
<1>8. \A i \in 1 .. n : w[i] = Body(i, w[i - 1])
  <2> TAKE i \in 1 .. n
  <2>1. w[i - 1] \in Nat
    BY <1>1
  <2> QED  BY <1>7, <2>1, Zenon
<1>9. w = Step(w)
  BY <1>6, <1>7, <1>8, Zenon
<1>10. g = Step(g)
  BY <1>9, Zenon
<1> HIDE DEF g
<1>11. g[0] = percentage /\ \A i \in 1 .. n : g[i] = Body(i, g[i - 1])
  BY <1>5, <1>10
<1> DEFINE I == {i \in 0 .. n : g[i] \in Nat}
<1>12. \A i \in 0 .. n : i \in I
  <2>1. 0 \in I
    BY <1>1, <1>11
  <2>2. ASSUME NEW i \in 1 .. n, i - 1 \in I PROVE i \in I
    <3>1. i \in 0 .. n /\ g[i - 1] \in Nat /\ g[i] = Body(i, g[i - 1])
      BY <1>1, <1>11, <2>2
    <3>2. Body(i, g[i - 1]) \in Nat
      BY <1>4, <3>1, Zenon
    <3> QED  BY <3>1, <3>2
  <2> HIDE DEF I
  <2> QED  BY <1>1, <2>1, <2>2, LoopKeeps, Zenon
<1>13. g[n] \in Nat
  BY <1>1, <1>12
<1> QED  BY <1>2, <1>13

-----------------------------------------------------------------------------
(* The UBI share: the inductive invariant.                                 *)

\* What the pool and the modules on the way to it hold.
PoolTyped ==
  /\ balance \in Nat /\ currentDistributionId \in 0 .. MaxDistributions
  /\ totalPendingClaims \in Nat
  /\ IsTable(validatorUBIAmounts) /\ IsTable(promised) /\ IsTable(paid)
  /\ calls \in Seq(Nat) /\ emitted \in Seq(Nat)
ConsensusTyped ==
  /\ height \in Nat /\ percentage \in Nat /\ minted \in Nat /\ rest \in Int /\ ubi \in Nat
  /\ queued \in Seq(Nat) /\ logs \in Seq(Nat)

\* Nothing is set or paid for a distribution that there is not yet.
Unset ==
  \A id \in Ids : id > currentDistributionId =>
    \A k \in Keys : validatorUBIAmounts[id][k] = 0 /\ paid[id][k] = 0

PoolInv == PoolTyped /\ Unset /\ Solvent /\ PromisedIsPaidOrClaimable
EmissionInv == PoolInv /\ ConsensusTyped /\ EmissionAccounted

\* The last of the amounts and the others.
LEMMA SumFront ==
  ASSUME NEW q \in Seq(Nat), q # << >>
  PROVE  LET front == SubSeq(q, 1, Len(q) - 1)
         IN  /\ front \in Seq(Nat) /\ Sum(front) \in Nat /\ q[Len(q)] \in Nat
             /\ Sum(q) = Sum(front) + q[Len(q)]
<1> DEFINE n == Len(q) - 1
           f == SubSeq(q, 1, Len(q) - 1)
           h == q
<1>1. n \in Nat /\ Len(q) = n + 1
  OBVIOUS
<1>2. f \in Seq(Nat) /\ Len(f) = n /\ \A i \in 1 .. n : h[i] = f[i]
  BY <1>1
<1>3. h \in [1 .. Len(h) -> Nat] /\ h[Len(q)] \in Nat
  BY <1>1
<1>4. h \in [1 .. (n + 1) -> Nat]
  BY <1>1, <1>3
<1> HIDE DEF n, f, h
<1>5. f \in [1 .. n -> Nat]
  BY <1>2
<1>6. Sum(h) = Sum(f) + h[n + 1]
  BY <1>1, <1>2, <1>4, <1>5, SumSnoc, Zenon
<1>7. Sum(f) \in Nat
  <2>1. IsFiniteSet(1 .. n)
    BY <1>1, FS_Interval
  <2> QED  BY <1>5, <2>1, SumType, Zenon
<1>8. q[Len(q)] = h[n + 1]
  BY <1>1 DEF h
<1> QED  BY <1>2, <1>3, <1>6, <1>7, <1>8 DEF f, h

\* A new distribution is covered by money that no other one counts on.
LEMMA DistributionKeeps ==
  ASSUME PoolConstants, PoolInv, NEW entries \in Entries, NEW totalUBI \in Nat,
         setUBIDistribution(totalUBI, entries)
  PROVE  PoolInv' /\ balance' = balance /\ paid' = paid
<1> DEFINE id == currentDistributionId + 1
           r == DistributionLoop(entries).amounts
           a == validatorUBIAmounts
           a2 == validatorUBIAmounts'
<1>1. /\ id \in Ids /\ currentDistributionId' = id
      /\ a2 = [a EXCEPT ![id] = r] /\ promised' = [promised EXCEPT ![id] = r]
      /\ totalUBI + totalPendingClaims <= balance
      /\ totalPendingClaims' = totalPendingClaims + totalUBI
      /\ balance' = balance /\ emitted' = emitted /\ calls' = calls /\ paid' = paid
  BY DEF setUBIDistribution, notEnoughBalance, PoolInv, PoolTyped, Ids, PoolConstants
<1>2. r \in [Keys -> Nat] /\ Sum(r) <= totalUBI
  <2>1. DistributionLoop(entries) \in SetStates /\ DistributionLoop(entries).accAmount = totalUBI
    BY DistributionLoopIs DEF setUBIDistribution
  <2> QED  BY <2>1, ZenonT(30) DEF SetStates
<1> HIDE DEF r
<1>3. \A k \in Keys : a[id][k] = 0 /\ paid[id][k] = 0
  <2>1. id > currentDistributionId
    BY DEF PoolInv, PoolTyped
  <2> QED  BY <1>1, <2>1 DEF PoolInv, Unset
<1>4. /\ IsTable(a) /\ IsTable(promised) /\ IsTable(paid) /\ calls \in Seq(Nat)
      /\ balance \in Nat /\ totalPendingClaims \in Nat /\ emitted \in Seq(Nat)
  BY DEF PoolInv, PoolTyped
<1>5. Total(a) \in Nat /\ a[id] \in [Keys -> Nat] /\ Sum(a[id]) = 0
  <2>1. Total(a) \in Nat /\ a[id] \in [Keys -> Nat]
    BY <1>1, <1>4, TotalType, Zenon
  <2> QED  BY <1>3, <2>1, SumZero, Zenon
<1>6. IsTable(a2) /\ Total(a2) = Total(a) + Sum(r) /\ Sum(r) \in Nat
  <2>1. RowSet(a, id, r, a2)
    BY <1>1 DEF RowSet
  <2>2. IsTable(a2) /\ Total(a2) = Total(a) - Sum(a[id]) + Sum(r) /\ Sum(r) \in Nat
    BY <1>1, <1>2, <1>4, <2>1, TotalRow, ZenonT(30)
  <2> QED  BY <1>5, <2>2
<1>7. IsTable(promised')
  <2>1. RowSet(promised, id, r, promised')
    BY <1>1 DEF RowSet
  <2> QED  BY <1>1, <1>2, <1>4, <2>1, TotalRow, ZenonT(30)
<1>8. PoolTyped'
  <2>1. id \in 0 .. MaxDistributions
    BY <1>1 DEF Ids
  <2> QED  BY <1>1, <1>4, <1>6, <1>7, <2>1 DEF PoolTyped
<1>9. Solvent'
  <2>1. Sum(calls) \in Nat
    BY <1>4, SumOfSeq
  <2> DEFINE c == Sum(calls)
             t == Total(a)
             t2 == Total(a2)
             x == Sum(r)
  <2>2. c \in Nat /\ t \in Nat /\ t2 = t + x /\ x \in Nat /\ x <= totalUBI
        /\ t <= totalPendingClaims - c /\ totalPendingClaims - c <= balance
    BY <1>2, <1>5, <1>6, <2>1, Zenon DEF PoolInv, Solvent
  <2>3. /\ totalUBI + totalPendingClaims <= balance /\ totalPendingClaims \in Nat /\ balance \in Nat
        /\ balance' = balance /\ totalPendingClaims' = totalPendingClaims + totalUBI
        /\ Sum(calls') = c /\ Total(validatorUBIAmounts') = t2
    BY <1>1, <1>4
  <2> HIDE DEF a, a2, id, c, t, t2, x
  <2>4. /\ t2 <= totalPendingClaims + totalUBI - c
        /\ totalPendingClaims + totalUBI - c <= balance
    BY <2>2, <2>3
  <2>5. /\ Total(validatorUBIAmounts') <= totalPendingClaims' - Sum(calls')
        /\ totalPendingClaims' - Sum(calls') <= balance'
    BY <2>2, <2>3, <2>4
  <2> QED  BY <2>5 DEF Solvent
<1>10. /\ a2[id] = r /\ promised'[id] = r
       /\ \A x \in Ids : x # id => a2[x] = a[x] /\ promised'[x] = promised[x]
  BY <1>1, <1>4, Zenon DEF IsTable
<1>11. PromisedIsPaidOrClaimable'
  <2> SUFFICES ASSUME NEW x \in Ids, NEW k \in Keys
               PROVE  paid[x][k] + a2[x][k] = promised'[x][k]
    BY <1>1, ZenonT(30) DEF PromisedIsPaidOrClaimable
  <2>1. CASE x = id
    <3>1. r[k] \in Nat
      BY <1>2
    <3> QED  BY <1>3, <1>10, <2>1, <3>1, SMTT(30)
  <2>2. CASE x # id
    BY <1>10, <2>2, ZenonT(30) DEF PoolInv, PromisedIsPaidOrClaimable
  <2> QED  BY <2>1, <2>2
<1>12. Unset'
  <2> SUFFICES ASSUME NEW x \in Ids, x > id, NEW k \in Keys
               PROVE  a2[x][k] = 0 /\ paid[x][k] = 0
    BY <1>1 DEF Unset
  <2>1. x > currentDistributionId /\ x # id
    BY <1>1 DEF PoolInv, PoolTyped, Ids
  <2> QED  BY <1>10, <2>1 DEF PoolInv, Unset
<1> QED  BY <1>1, <1>8, <1>9, <1>11, <1>12, Zenon DEF PoolInv

\* A claim takes what it pays out of the table and out of the balance.
LEMMA ClaimKeepsPool ==
  ASSUME PoolConstants, PoolInv, NEW id \in Ids, NEW k \in Keys, claimUBI(id, k)
  PROVE  PoolInv' /\ balance' + Total(paid') = balance + Total(paid) /\ Total(paid) \in Nat
<1> DEFINE a == validatorUBIAmounts
           a2 == validatorUBIAmounts'
           n == a[id][k]
           m == paid[id][k] + n
<1>1. /\ n > 0 /\ n <= balance /\ calls = << >>
      /\ a2 = [a EXCEPT ![id][k] = 0] /\ balance' = balance - n /\ calls' = Append(calls, n)
      /\ currentDistributionId' = currentDistributionId /\ totalPendingClaims' = totalPendingClaims
      /\ emitted' = emitted /\ promised' = promised
  BY DEF claimUBI
<1>2. /\ IsTable(a) /\ IsTable(promised) /\ IsTable(paid) /\ calls \in Seq(Nat)
      /\ balance \in Nat /\ totalPendingClaims \in Nat
  BY DEF PoolInv, PoolTyped
<1>3. a[id][k] \in Nat /\ paid[id][k] \in Nat /\ Total(a) \in Nat /\ Total(paid) \in Nat
  <2>1. a[id] \in [Keys -> Nat] /\ paid[id] \in [Keys -> Nat]
    BY <1>2 DEF IsTable
  <2> QED  BY <1>2, <2>1, TotalType
<1>4. paid' = [paid EXCEPT ![id][k] = m]
  BY <1>2, ZenonT(30) DEF claimUBI, IsTable
<1>5. m \in Nat /\ n \in Nat
  BY <1>3
<1>6. /\ IsTable(a2) /\ Total(a2) = Total(a) - a[id][k] + 0
      /\ \A x \in Ids, y \in Keys : a2[x][y] = IF x = id /\ y = k THEN 0 ELSE a[x][y]
  <2>1. EntryIs(a, id, k, 0, a2)
    BY <1>1 DEF EntryIs
  <2>2. EntryChanged(a, id, k, 0, a2)
    BY <1>2, <2>1, TotalEntry, ZenonT(30)
  <2> QED  BY <2>2, Zenon DEF EntryChanged
<1>7. /\ IsTable(paid') /\ Total(paid') = Total(paid) - paid[id][k] + m
      /\ \A x \in Ids, y \in Keys : paid'[x][y] = IF x = id /\ y = k THEN m ELSE paid[x][y]
  <2>1. EntryIs(paid, id, k, m, paid')
    BY <1>4 DEF EntryIs
  <2> HIDE DEF m
  <2>2. EntryChanged(paid, id, k, m, paid')
    BY <1>2, <1>5, <2>1, TotalEntry, ZenonT(30)
  <2> QED  BY <2>2, Zenon DEF EntryChanged
<1>8. calls' \in Seq(Nat) /\ Sum(calls') = Sum(calls) + n /\ Sum(calls) \in Nat
  BY <1>1, <1>2, <1>5, SumAppend, ZenonT(30)
<1> DEFINE b == paid[id][k]
<1>9. /\ Total(a2) = Total(a) - n /\ Total(paid') = Total(paid) + n
      /\ balance' \in Nat /\ balance' = balance - n
  <2>1. /\ Total(a2) = Total(a) - n + 0 /\ Total(paid') = Total(paid) - b + (b + n)
        /\ b \in Nat /\ n \in Nat /\ Total(a) \in Nat /\ Total(paid) \in Nat
        /\ balance' = balance - n /\ n <= balance /\ balance \in Nat
    BY <1>1, <1>2, <1>3, <1>6, <1>7, ZenonT(30)
  <2> HIDE DEF a, a2, n, b, m
  <2> QED  BY <2>1
<1>10. PoolTyped'
  BY <1>1, <1>2, <1>6, <1>7, <1>8, <1>9, ZenonT(30) DEF PoolInv, PoolTyped
<1>11. Solvent'
  <2>1. Total(a) <= totalPendingClaims - Sum(calls) /\ totalPendingClaims - Sum(calls) <= balance
    BY DEF PoolInv, Solvent
  <2>2. /\ totalPendingClaims' = totalPendingClaims /\ totalPendingClaims \in Nat /\ balance \in Nat
        /\ n \in Nat /\ Total(a) \in Nat
    BY <1>1, <1>2, <1>3, <1>5
  <2> HIDE DEF a, n
  <2>3. /\ Total(a2) <= totalPendingClaims' - Sum(calls')
        /\ totalPendingClaims' - Sum(calls') <= balance'
    BY <1>8, <1>9, <2>1, <2>2, SMTT(30)
  <2> QED  BY <2>3 DEF Solvent
<1>12. PromisedIsPaidOrClaimable'
  <2> SUFFICES ASSUME NEW x \in Ids, NEW y \in Keys
               PROVE  paid'[x][y] + a2[x][y] = promised[x][y]
    BY <1>1 DEF PromisedIsPaidOrClaimable
  <2>1. paid[x][y] + a[x][y] = promised[x][y]
    BY ZenonT(30) DEF PoolInv, PromisedIsPaidOrClaimable
  <2>2. CASE x = id /\ y = k
    <3>1. paid'[x][y] = paid[x][y] + a[x][y] /\ a2[x][y] = 0
      BY <1>6, <1>7, <2>2, ZenonT(30)
    <3>2. paid'[x][y] \in Nat
      BY <1>5, <1>7, <2>2, ZenonT(30)
    <3> QED  BY <2>1, <3>1, <3>2
  <2>3. CASE ~(x = id /\ y = k)
    BY <1>6, <1>7, <2>1, <2>3, ZenonT(30)
  <2> QED  BY <2>2, <2>3, ZenonT(30)
<1>13. Unset'
  <2> SUFFICES ASSUME NEW x \in Ids, x > currentDistributionId, NEW y \in Keys
               PROVE  a2[x][y] = 0 /\ paid'[x][y] = 0
    BY <1>1 DEF Unset
  <2>1. a[x][y] = 0 /\ paid[x][y] = 0
    BY DEF PoolInv, Unset
  <2>2. ~(x = id /\ y = k)
    BY <1>1, <2>1
  <2> QED  BY <1>6, <1>7, <2>1, <2>2, ZenonT(30)
<1>14. balance' + Total(paid') = balance + Total(paid)
  <2> HIDE DEF n
  <2> QED  BY <1>2, <1>3, <1>5, <1>9, SMTT(30)
<1> QED  BY <1>3, <1>10, <1>11, <1>12, <1>13, <1>14 DEF PoolInv

\* A claim that returns lowers the counter by what it has paid.
LEMMA ReturnKeepsPool ==
  ASSUME PoolInv, claimUBIReturns
  PROVE  PoolInv' /\ balance' = balance /\ paid' = paid
<1> DEFINE n == calls[Len(calls)]
<1>1. /\ calls # << >> /\ n <= totalPendingClaims /\ totalPendingClaims' = totalPendingClaims - n
      /\ calls' = SubSeq(calls, 1, Len(calls) - 1)
      /\ balance' = balance /\ currentDistributionId' = currentDistributionId
      /\ validatorUBIAmounts' = validatorUBIAmounts /\ emitted' = emitted
      /\ promised' = promised /\ paid' = paid
  BY DEF claimUBIReturns
<1>2. calls \in Seq(Nat) /\ totalPendingClaims \in Nat /\ balance \in Nat
  BY DEF PoolInv, PoolTyped
<1>3. calls' \in Seq(Nat) /\ Sum(calls') \in Nat /\ n \in Nat /\ Sum(calls) = Sum(calls') + n
  BY <1>1, <1>2, SumFront
<1> HIDE DEF n
<1>4. totalPendingClaims' \in Nat /\ totalPendingClaims' - Sum(calls') = totalPendingClaims - Sum(calls)
  BY <1>1, <1>2, <1>3
<1>5. PoolTyped'
  BY <1>1, <1>3, <1>4 DEF PoolInv, PoolTyped
<1>6. Solvent'
  <2>1. /\ Total(validatorUBIAmounts) <= totalPendingClaims - Sum(calls)
        /\ totalPendingClaims - Sum(calls) <= balance
    BY DEF PoolInv, Solvent
  <2>2. /\ Total(validatorUBIAmounts') <= totalPendingClaims' - Sum(calls')
        /\ totalPendingClaims' - Sum(calls') <= balance'
    BY <1>1, <1>4, <2>1, Zenon
  <2> QED  BY <2>2 DEF Solvent
<1>7. Unset' /\ PromisedIsPaidOrClaimable'
  BY <1>1 DEF PoolInv, Unset, PromisedIsPaidOrClaimable
<1> QED  BY <1>1, <1>5, <1>6, <1>7 DEF PoolInv

\* Money that arrives, and a log, leave the promises as they are.
LEMMA FrameKeepsPool ==
  ASSUME PoolInv, balance' \in Nat, balance <= balance', emitted' \in Seq(Nat), calls' = calls,
         currentDistributionId' = currentDistributionId, totalPendingClaims' = totalPendingClaims,
         validatorUBIAmounts' = validatorUBIAmounts, promised' = promised, paid' = paid
  PROVE  PoolInv'
<1>1. PoolTyped'
  BY DEF PoolInv, PoolTyped
<1>2. Solvent'
  <2> DEFINE x == totalPendingClaims - Sum(calls)
  <2>1. Total(validatorUBIAmounts) <= x /\ x <= balance /\ balance \in Nat /\ x \in Int
    <3>1. Sum(calls) \in Nat /\ totalPendingClaims \in Nat /\ balance \in Nat
      BY SumOfSeq DEF PoolInv, PoolTyped
    <3> QED  BY <3>1 DEF PoolInv, Solvent
  <2>2. totalPendingClaims' - Sum(calls') = x /\ Total(validatorUBIAmounts') = Total(validatorUBIAmounts)
    OBVIOUS
  <2> HIDE DEF x
  <2>3. /\ Total(validatorUBIAmounts') <= totalPendingClaims' - Sum(calls')
        /\ totalPendingClaims' - Sum(calls') <= balance'
    BY <2>1, <2>2
  <2> QED  BY <2>3 DEF Solvent
<1>3. Unset' /\ PromisedIsPaidOrClaimable'
  BY DEF PoolInv, Unset, PromisedIsPaidOrClaimable
<1> QED  BY <1>1, <1>2, <1>3 DEF PoolInv

\* Products of sums.
LEMMA Distributes ==
  ASSUME NEW x \in Int, NEW y \in Int, NEW z \in Int
  PROVE  /\ (x + y) * z = x * z + y * z /\ z * (x + y) = z * x + z * y
         /\ x * z \in Int /\ x * z = z * x
OBVIOUS

\* A quotient takes no more than there is.
LEMMA QuotientFits ==
  ASSUME NEW x \in Nat, NEW y \in Nat \ {0}
  PROVE  x \div y \in Nat /\ (x \div y) * y <= x /\ (x \div y) * y \in Nat
<1>1. x \div y \in Int
  OBVIOUS
<1>2. x \div y >= 0
  OBVIOUS
<1>3. (x \div y) * y <= x
  OBVIOUS
<1> DEFINE q == x \div y
<1> HIDE DEF q
<1>4. q \in Nat
  BY <1>1, <1>2 DEF q
<1>5. q * y \in Nat
  BY <1>4
<1> QED  BY <1>3, <1>4, <1>5 DEF q

\* What the end of a block takes out of the UBI part it adds to the queue.
LEMMA UbiWithdrawalIs ==
  ASSUME EmissionConstants, NEW u \in Nat
  PROVE  \E t \in Nat :
           /\ ProcessUbiWithdrawal(u).ubi = u - t * Parts
           /\ u - t * Parts \in Nat /\ t * Parts \in Nat
           /\ \A q \in Seq(Nat) :
                q \o ProcessUbiWithdrawal(u).add \in Seq(Nat)
                /\ Sum(q \o ProcessUbiWithdrawal(u).add) = Sum(q) + t
<1> DEFINE t == u \div Parts
<1>0. Parts \in Nat \ {0}
  BY DEF EmissionConstants
<1>1. t \in Nat /\ t * Parts <= u /\ t * Parts \in Nat
  BY <1>0, QuotientFits
<1>2. ProcessUbiWithdrawal(u)
        = IF t < MinPartialWithdrawalAmount THEN [ubi |-> u, add |-> << >>]
          ELSE [ubi |-> u - t * Parts, add |-> <<t>>]
  BY DEF ProcessUbiWithdrawal
<1> HIDE DEF t
<1>3. CASE t < MinPartialWithdrawalAmount
  <2>1. ProcessUbiWithdrawal(u).ubi = u /\ ProcessUbiWithdrawal(u).add = << >>
    BY <1>2, <1>3
  <2>2. 0 * Parts = 0 /\ u - 0 = u
    BY <1>0
  <2>3. \A q \in Seq(Nat) : q \o << >> \in Seq(Nat) /\ Sum(q \o << >>) = Sum(q) + 0
    <3> TAKE q \in Seq(Nat)
    <3>1. q \o << >> = q
      OBVIOUS
    <3>2. Sum(q) \in Nat
      BY SumOfSeq
    <3> QED  BY <3>1, <3>2
  <2> WITNESS 0 \in Nat
  <2> QED  BY <2>1, <2>2, <2>3
<1>4. CASE ~(t < MinPartialWithdrawalAmount)
  <2>1. ProcessUbiWithdrawal(u).ubi = u - t * Parts /\ ProcessUbiWithdrawal(u).add = <<t>>
    BY <1>2, <1>4
  <2>2. u - t * Parts \in Nat
    <3> DEFINE p == t * Parts
    <3>1. p \in Nat /\ p <= u
      BY <1>1
    <3> HIDE DEF p
    <3>2. u - p \in Nat
      BY <3>1
    <3> QED  BY <3>2 DEF p
  <2>3. \A q \in Seq(Nat) : q \o <<t>> \in Seq(Nat) /\ Sum(q \o <<t>>) = Sum(q) + t
    <3> TAKE q \in Seq(Nat)
    <3>1. q \o <<t>> = Append(q, t)
      BY <1>1
    <3>2. Append(q, t) \in Seq(Nat) /\ Sum(Append(q, t)) = Sum(q) + t
      BY <1>1, SumAppend
    <3> QED  BY <3>1, <3>2, Zenon
  <2> t \in Nat
    BY <1>1
  <2> WITNESS t \in Nat
  <2> QED  BY <1>1, <2>1, <2>2, <2>3
<1> QED  BY <1>3, <1>4

\* The blocks that have minted, one block later.
LEMMA MintsOnce ==
  ASSUME EmissionConstants, height \in Nat, height' = height + 1
  PROVE  /\ BeginBlockerMints(height + 1) \in Nat /\ MintingBlocks \in Nat
         /\ BeginBlockerMints(height + 1) * BlocksPerYear
              <= InflationsPerYear * MintingBlocks' - InflationsPerYear * MintingBlocks
<1> DEFINE i == InflationsPerYear
           b == BlocksPerYear
           n == MintingBlocks
           f == BeginBlockerMints(height + 1)
           g == i \div b
<1>1. i \in Nat /\ b \in Nat \ {0} /\ SingularityHeight \in Nat
  BY DEF EmissionConstants, Validate
<1>2. g \in Nat /\ g * b <= i /\ g * b \in Nat
  BY <1>1, QuotientFits
<1>3. n \in Nat
  BY <1>1 DEF MintingBlocks
<1>4. CASE height + 1 < SingularityHeight
  <2>1. f = 0 /\ MintingBlocks' = n
    BY <1>1, <1>4 DEF BeginBlockerMints, MintingBlocks
  <2>2. i * n \in Int
    BY <1>1, <1>3
  <2> HIDE DEF i, b, n, f
  <2>3. f * b = 0
    BY <1>1, <2>1
  <2>4. f * b <= i * MintingBlocks' - i * n
    BY <2>1, <2>2, <2>3
  <2> QED  BY <1>3, <2>1, <2>4 DEF i, b, n, f
<1>5. CASE ~(height + 1 < SingularityHeight)
  <2>1. f = g /\ MintingBlocks' = n + 1
    BY <1>1, <1>5 DEF BeginBlockerMints, MintingBlocks, DefaultInflationCalculationFn
  <2> HIDE DEF i, b, n, f, g
  <2>2. i * (n + 1) = i * n + i * 1 /\ i * n \in Int /\ i * 1 = i
    BY <1>1, <1>3, Distributes
  <2>3. f * b <= i * MintingBlocks' - i * n
    BY <1>1, <1>2, <2>1, <2>2
  <2> QED  BY <1>2, <1>3, <2>1, <2>3 DEF i, b, n, f
<1> QED  BY <1>4, <1>5

\* A block moves what it mints, and what it takes from the queue, without loss.
LEMMA BlockKeeps ==
  ASSUME PoolConstants, EmissionConstants, EmissionInv, Block
  PROVE  EmissionInv'
<1> DEFINE f == BeginBlockerMints(height + 1)
           p == f * percentage
           u == ubi + p
           out == ProcessUbiWithdrawal(u)
           head == IF queued = << >> THEN 0 ELSE Head(queued)
           tail == IF queued = << >> THEN << >> ELSE Tail(queued)
           Q == Sum(queued)
           P == Total(paid)
<1>1. /\ height' = height + 1 /\ minted' = minted + f /\ rest' = rest + f * Parts - p
      /\ ubi' = out.ubi /\ queued' = tail \o out.add /\ percentage' = ProcessUBIEvents
      /\ logs' = emitted /\ emitted' = << >> /\ balance' = balance + head
      /\ currentDistributionId' = currentDistributionId /\ paid' = paid
      /\ validatorUBIAmounts' = validatorUBIAmounts /\ promised' = promised
      /\ totalPendingClaims' = totalPendingClaims /\ calls' = calls
  BY DEF Block, ReceiveUBI, UbiPart
<1>2. /\ height \in Nat /\ percentage \in Nat /\ minted \in Nat /\ rest \in Int /\ ubi \in Nat
      /\ queued \in Seq(Nat) /\ logs \in Seq(Nat) /\ emitted \in Seq(Nat) /\ balance \in Nat
  BY DEF EmissionInv, PoolInv, PoolTyped, ConsensusTyped
<1>3. Parts \in Nat \ {0} /\ BlocksPerYear \in Nat \ {0} /\ InflationsPerYear \in Nat
  BY Zenon DEF EmissionConstants, Validate
<1>4. /\ f \in Nat /\ MintingBlocks \in Nat
      /\ f * BlocksPerYear <= InflationsPerYear * MintingBlocks' - InflationsPerYear * MintingBlocks
  BY <1>1, <1>2, MintsOnce
<1>5. p \in Nat /\ u \in Nat
  <2>1. p \in Nat
    <3> HIDE DEF f
    <3> QED  BY <1>2, <1>4
  <2> HIDE DEF p
  <2> QED  BY <1>2, <2>1
<1>6. head \in Nat /\ tail \in Seq(Nat) /\ Q \in Nat /\ Sum(tail) \in Nat /\ Q = head + Sum(tail)
  <2>1. CASE queued = << >>
    <3>1. head = 0 /\ tail = << >> /\ tail \in Seq(Nat) /\ Sum(tail) = Q
      BY <2>1
    <3>2. Sum(tail) \in Nat
      BY <3>1, SumOfSeq, Zenon
    <3> HIDE DEF head, tail, Q
    <3> QED  BY <3>1, <3>2
  <2>2. CASE queued # << >>
    <3>1. /\ Q = Head(queued) + Sum(Tail(queued)) /\ Head(queued) \in Nat
          /\ Tail(queued) \in Seq(Nat) /\ Sum(Tail(queued)) \in Nat
      BY <1>2, <2>2, SumTail
    <3>2. head = Head(queued) /\ tail = Tail(queued)
      BY <2>2
    <3> HIDE DEF head, tail, Q
    <3>3. head \in Nat /\ tail \in Seq(Nat) /\ Sum(tail) \in Nat /\ Q = head + Sum(tail)
      BY <3>1, <3>2, Zenon
    <3>4. Q \in Nat
      BY <3>3
    <3> QED  BY <3>3, <3>4, Zenon
  <2> QED  BY <2>1, <2>2
<1>7. PICK t \in Nat : /\ out.ubi = u - t * Parts /\ u - t * Parts \in Nat /\ t * Parts \in Nat
                       /\ tail \o out.add \in Seq(Nat) /\ Sum(tail \o out.add) = Sum(tail) + t
  <2> HIDE DEF u, tail
  <2> QED  BY <1>5, <1>6, UbiWithdrawalIs, ZenonT(30)
<1>8. P \in Nat
  BY TotalType, Zenon DEF EmissionInv, PoolInv, PoolTyped
<1> HIDE DEF f, p, u, out, head, tail, Q, P
<1>9. ConsensusTyped'
  <2>1. height' \in Nat /\ minted' \in Nat
    <3>1. height' = height + 1 /\ minted' = minted + f /\ f \in Nat
      BY <1>1, <1>4, ZenonT(30)
    <3> QED  BY <1>2, <3>1
  <2>2. rest' \in Int
    <3>1. f * Parts \in Int
      BY <1>3, <1>4
    <3>2. rest' = rest + f * Parts - p /\ rest \in Int /\ p \in Nat
      BY <1>1, <1>2, <1>5, Zenon
    <3> QED  BY <3>1, <3>2
  <2>3. ubi' \in Nat /\ queued' \in Seq(Nat) /\ logs' \in Seq(Nat)
    BY <1>1, <1>2, <1>7
  <2>4. percentage' \in Nat
    BY <1>1, <1>2, ProcessUBIEventsIs
  <2> QED  BY <2>1, <2>2, <2>3, <2>4 DEF ConsensusTyped
<1>10. PoolInv'
  <2>1. balance' \in Nat /\ balance <= balance' /\ emitted' \in Seq(Nat)
    BY <1>1, <1>2, <1>6
  <2> QED  BY <1>1, <2>1, FrameKeepsPool DEF EmissionInv
<1>11. minted' * Parts = rest' + ubi' + Parts * (Sum(queued') + balance' + Total(paid'))
  <2> DEFINE x == Q + balance + P
             y == Sum(queued') + balance' + Total(paid')
             a == minted * Parts
             b == f * Parts
             c == t * Parts
             d == Parts * x
  <2>1. a = rest + ubi + d
    BY DEF EmissionInv, EmissionAccounted, Q, P
  <2>2. (minted + f) * Parts = a + b /\ a \in Int
    BY <1>2, <1>3, <1>4, Distributes
  <2>3. y = x + t /\ x \in Int
    <3>1. Sum(queued') = Sum(tail) + t /\ balance' = balance + head /\ Total(paid') = P
      BY <1>1, <1>7 DEF P
    <3> DEFINE v == Sum(tail)
               w == Sum(queued')
    <3>2. w = v + t /\ v \in Nat /\ Q = head + v /\ head \in Nat /\ balance \in Nat
      BY <1>2, <1>6, <3>1
    <3> HIDE DEF v, w
    <3>3. w + (balance + head) + P = Q + balance + P + t /\ Q + balance + P \in Int
      BY <1>8, <3>2
    <3> QED  BY <3>1, <3>3, ZenonT(30) DEF w
  <2> HIDE DEF x, y
  <2>4. Parts * (x + t) = d + c /\ d \in Int
    <3>1. Parts * (x + t) = Parts * x + Parts * t
      BY <1>3, <2>3, Distributes
    <3>2. Parts * t = t * Parts /\ x * Parts = Parts * x /\ x * Parts \in Int
      BY <1>3, <2>3, Distributes
    <3> QED  BY <3>1, <3>2
  <2>5. b \in Int /\ c \in Int
    BY <1>3, <1>4, <1>7
  <2>6. minted' = minted + f /\ rest' = rest + b - p /\ ubi' = u - c
    BY <1>1, <1>7, Zenon
  <2> HIDE DEF a, b, c, d
  <2>7. u = ubi + p
    BY DEF u
  <2>8. a + b = rest' + ubi' + (d + c)
    BY <1>2, <1>5, <2>1, <2>2, <2>4, <2>5, <2>6, <2>7
  <2>9. minted' * Parts = rest' + ubi' + Parts * y
    BY <2>2, <2>3, <2>4, <2>6, <2>8, ZenonT(30)
  <2> QED  BY <2>9 DEF y
<1>12. minted' * BlocksPerYear <= InflationsPerYear * MintingBlocks'
  <2> DEFINE a == minted * BlocksPerYear
             b == f * BlocksPerYear
             x == InflationsPerYear * MintingBlocks
             y == InflationsPerYear * MintingBlocks'
  <2>1. a <= x
    BY DEF EmissionInv, EmissionAccounted
  <2>2. (minted + f) * BlocksPerYear = a + b /\ a \in Int /\ b \in Int
    BY <1>2, <1>3, <1>4, Distributes
  <2>3. x \in Int /\ y \in Int
    <3>1. MintingBlocks' \in Int
      <4>1. height' = height + 1 /\ height \in Nat /\ SingularityHeight \in Nat
        BY <1>1, <1>2, Zenon DEF EmissionConstants
      <4> QED  BY <4>1 DEF MintingBlocks
    <3> QED  BY <1>3, <1>4, <3>1
  <2>4. b <= y - x /\ minted' = minted + f
    BY <1>1, <1>4
  <2> HIDE DEF a, b, x, y
  <2>5. (minted + f) * BlocksPerYear <= y
    BY <2>1, <2>2, <2>3, <2>4
  <2> QED  BY <2>4, <2>5 DEF y
<1>13. EmissionAccounted'
  BY <1>11, <1>12 DEF EmissionAccounted
<1> QED  BY <1>9, <1>10, <1>13, ZenonT(30) DEF EmissionInv

\* The initial state.
LEMMA EmissionStarts ==
  ASSUME PoolConstants, EmissionConstants, EmissionInit
  PROVE  EmissionInv
<1> USE DEF EmissionInit, PoolInit
<1>1. IsTable(Zero) /\ \A id \in Ids, k \in Keys : Zero[id][k] = 0
  BY DEF IsTable, Zero
<1>2. Total(Zero) = 0
  <2> DEFINE s == [id \in Ids |-> Sum(Zero[id])]
  <2>1. s \in [Ids -> Nat]
    BY <1>1, TotalType
  <2>2. \A id \in Ids : Sum(Zero[id]) = 0
    <3> TAKE id \in Ids
    <3>1. Zero[id] \in [Keys -> Nat] /\ \A k \in Keys : Zero[id][k] = 0
      BY <1>1, TotalType
    <3> QED  BY <3>1, SumZero
  <2>3. \A id \in Ids : s[id] = 0
    BY <2>2
  <2>4. Total(Zero) = Sum(s)
    BY DEF Total
  <2> HIDE DEF s
  <2> QED  BY <2>1, <2>3, <2>4, SumZero, ZenonT(30)
<1>3. << >> \in Seq(Nat) /\ Sum(<< >>) = 0
  <2> DEFINE e == << >>
  <2>1. e \in Seq(Nat) /\ e \in [{} -> Nat]
    OBVIOUS
  <2> HIDE DEF e
  <2>2. Sum(e) = 0
    BY <2>1, SumZero, Zenon
  <2> QED  BY <2>1, <2>2 DEF e
<1>4. PoolTyped /\ ConsensusTyped
  BY <1>1, <1>3 DEF PoolTyped, ConsensusTyped, PoolConstants
<1>5. Unset /\ PromisedIsPaidOrClaimable
  BY <1>1 DEF Unset, PromisedIsPaidOrClaimable
<1>6. Solvent
  BY <1>2, <1>3 DEF Solvent
<1>7. EmissionAccounted
  <2>1. MintingBlocks \in Nat /\ InflationsPerYear \in Nat /\ BlocksPerYear \in Nat /\ Parts \in Nat
    BY DEF MintingBlocks, EmissionConstants, Validate
  <2>2. 0 * Parts = 0 /\ Parts * 0 = 0 /\ 0 * BlocksPerYear = 0
    BY <2>1
  <2>3. InflationsPerYear * MintingBlocks >= 0
    BY <2>1
  <2>4. Sum(queued) + balance + Total(paid) = 0
    BY <1>2, <1>3
  <2> QED  BY <2>2, <2>3, <2>4 DEF EmissionAccounted
<1> QED  BY <1>4, <1>5, <1>6, <1>7 DEF EmissionInv, PoolInv

\* A transaction with the pool leaves what the consensus layer has minted where
\* it was, or pays it to a claimer.
LEMMA TransactionKeeps ==
  ASSUME EmissionInv, PoolInv', UNCHANGED consensus,
         balance' + Total(paid') = balance + Total(paid),
         balance \in Nat, balance' \in Nat, Total(paid) \in Nat, Total(paid') \in Nat
  PROVE  EmissionInv'
<1>1. ConsensusTyped' /\ Sum(queued) \in Nat
  BY SumOfSeq DEF EmissionInv, ConsensusTyped, consensus
<1>2. Sum(queued') + balance' + Total(paid') = Sum(queued) + balance + Total(paid)
  <2>1. Sum(queued') = Sum(queued)
    BY DEF consensus
  <2> QED  BY <1>1, <2>1
<1>3. EmissionAccounted'
  BY <1>2 DEF EmissionInv, EmissionAccounted, consensus, MintingBlocks
<1> QED  BY <1>1, <1>3 DEF EmissionInv

\* Every step keeps the invariant.
LEMMA EmissionSteps ==
  ASSUME PoolConstants, EmissionConstants, EmissionInv, [EmissionNext]_<<poolVars, consensus>>
  PROVE  EmissionInv'
<1>0. PoolInv /\ balance \in Nat /\ Total(paid) \in Nat
  BY TotalType, Zenon DEF EmissionInv, PoolInv, PoolTyped
<1>t. PoolInv' => balance' \in Nat /\ Total(paid') \in Nat
  BY TotalType DEF PoolInv, PoolTyped
<1>1. CASE UNCHANGED <<poolVars, consensus>>
  BY <1>1, Zenon DEF poolVars, consensus, EmissionInv, PoolInv, PoolTyped, ConsensusTyped, Unset, Solvent,
              PromisedIsPaidOrClaimable, EmissionAccounted, MintingBlocks
<1>2. CASE Block
  BY <1>2, BlockKeeps
<1>3. ASSUME NEW p \in Percentages, SetPercentage(p)
      PROVE  EmissionInv'
  <2>1. /\ UNCHANGED consensus /\ emitted' = Append(emitted, p) /\ balance' = balance /\ paid' = paid
        /\ calls' = calls /\ currentDistributionId' = currentDistributionId
        /\ totalPendingClaims' = totalPendingClaims /\ promised' = promised
        /\ validatorUBIAmounts' = validatorUBIAmounts
    BY <1>3, Zenon DEF SetPercentage, setUBIPercentage
  <2>2. emitted' \in Seq(Nat) /\ balance' \in Nat /\ balance <= balance'
    BY <1>0, <2>1 DEF PoolInv, PoolTyped, EmissionConstants
  <2>3. PoolInv'
    BY <1>0, <2>1, <2>2, FrameKeepsPool, Zenon
  <2> QED  BY <1>0, <2>1, <2>3, TransactionKeeps, ZenonT(30)
<1>4. ASSUME NEW entries \in Entries, NEW totalUBI \in 0 .. MaxEntries * MaxAmount,
             setUBIDistribution(totalUBI, entries), UNCHANGED consensus
      PROVE  EmissionInv'
  <2>1. totalUBI \in Nat
    BY DEF PoolConstants
  <2>2. PoolInv' /\ balance' = balance /\ paid' = paid
    BY <1>0, <1>4, <2>1, DistributionKeeps, Zenon
  <2> QED  BY <1>0, <1>4, <2>2, TransactionKeeps
<1>5. ASSUME NEW id \in Ids, NEW k \in Keys, claimUBI(id, k), UNCHANGED consensus
      PROVE  EmissionInv'
  <2>1. PoolInv' /\ balance' + Total(paid') = balance + Total(paid)
    BY <1>0, <1>5, ClaimKeepsPool
  <2> QED  BY <1>0, <1>5, <1>t, <2>1, TransactionKeeps, ZenonT(30)
<1>6. CASE claimUBIReturns /\ UNCHANGED consensus
  <2>1. PoolInv' /\ balance' = balance /\ paid' = paid
    BY <1>0, <1>6, ReturnKeepsPool
  <2> QED  BY <1>0, <1>6, <2>1, TransactionKeeps
<1> QED  BY <1>1, <1>2, <1>3, <1>4, <1>5, <1>6, ZenonT(30) DEF EmissionNext, PoolNext

\* The invariant of the emission, the queue and the pool.
THEOREM EmissionInvariance == EmissionSpec => []EmissionInv
<1>1. EmissionInit => EmissionInv
  BY EmissionStarts, PoolConstants, EmissionConstants
<1>2. EmissionInv /\ [EmissionNext]_<<poolVars, consensus>> => EmissionInv'
  BY EmissionSteps, PoolConstants, EmissionConstants
<1> QED  BY <1>1, <1>2, PTL DEF EmissionSpec

\* The pool can always pay what can still be claimed, also when a claim's call
\* to the claimer is under way: setUBIDistribution never counts on money twice
\* and the subtraction at the end of claimUBI never reverts.
THEOREM PoolIsSolvent == EmissionSpec => []Solvent
<1>1. EmissionInv => Solvent
  BY DEF EmissionInv, PoolInv
<1> QED  BY <1>1, EmissionInvariance, PTL

\* Every amount that a distribution sets for a key is paid or can be claimed,
\* and is never paid twice.
THEOREM PromisesAreKept == EmissionSpec => []PromisedIsPaidOrClaimable
<1>1. EmissionInv => PromisedIsPaidOrClaimable
  BY DEF EmissionInv, PoolInv
<1> QED  BY <1>1, EmissionInvariance, PTL

\* No minted token is lost or made between the mint, the distribution module,
\* the withdrawal queue, the contract and its claimers, and no more is minted
\* than the inflation allows.
THEOREM EmissionIsAccounted == EmissionSpec => []EmissionAccounted
<1>1. EmissionInv => EmissionAccounted
  BY DEF EmissionInv
<1> QED  BY <1>1, EmissionInvariance, PTL
=============================================================================
