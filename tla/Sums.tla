------------------------------- MODULE Sums -------------------------------
(***************************************************************************)
(* Sums over finite sets, as the library's SumFunctionOnSet computes them, *)
(* and the laws that the proofs about quantities and amounts rest on.      *)
(*                                                                         *)
(* The library defines a sum by recursion on the set; what holds of every  *)
(* sum is shown for a smallest set that would violate it.                  *)
(***************************************************************************)
EXTENDS Integers, Sequences, FiniteSets, FiniteSetsExt, Functions, FiniteSetTheorems,
        WellFoundedInduction, TLAPS

\* The element that the recursion adds first.
First(s) == CHOOSE x \in s : TRUE

\* g is the table of that recursion: the sum of f over each subset of S.
Adds(g, f, S) ==
  g = [s \in SUBSET S |-> IF s = {} THEN 0 ELSE f[First(s)] + g[s \ {First(s)}]]

\* The sum that the library computes is the last value of that table.
LEMMA SumIs ==
  ASSUME NEW f, NEW S
  PROVE  SumFunctionOnSet(f, S) = (CHOOSE g : Adds(g, f, S))[S]
BY DEF SumFunctionOnSet, FoldFunctionOnSet, MapThenFoldSet, Adds, First

\* A set of subsets of a finite set has a smallest member: the induction on finite
\* sets that the proofs below use, as the search of a smallest counterexample.
LEMMA Smallest ==
  ASSUME NEW S, IsFiniteSet(S), NEW T, T \subseteq SUBSET S, T # {}
  PROVE  \E m \in T : \A y \in T : y \subseteq m => y = m
<1>1. T \subseteq FiniteSubsetsOf(S)
  BY FS_FiniteSubsetsOfFinite
<1>2. PICK m \in T : \A y \in T : ~ (<<y, m>> \in StrictSubsetOrdering(S))
  BY <1>1, WFMin, FS_StrictSubsetOrderingWellFounded
<1>3. \A y \in T : y \subseteq m => y = m
  BY <1>2 DEF StrictSubsetOrdering
<1> QED
  BY <1>3

\* So has a set of naturals: the induction on positions in a sequence.
LEMMA Least ==
  ASSUME NEW T, T \subseteq Nat, T # {}
  PROVE  \E m \in T : \A k \in T : ~(k < m)
<1>1. PICK m \in T : \A k \in T : ~ (<<k, m>> \in OpToRel(<, Nat))
  BY WFMin, NatLessThanWellFounded
<1> QED
  BY <1>1 DEF OpToRel

\* The least and the greatest member, as the library chooses them.
LEMMA MinIn ==
  ASSUME NEW S, S \subseteq Nat, S # {}
  PROVE  Min(S) \in S /\ \A x \in S : Min(S) <= x
<1>1. PICK m \in S : \A k \in S : ~(k < m)
  BY Least
<1>2. \A k \in S : m <= k
  BY <1>1
<1> QED
  BY <1>2 DEF Min

LEMMA MaxIn ==
  ASSUME NEW S, S \subseteq Nat, S # {}, NEW top \in Nat, \A x \in S : x <= top
  PROVE  Max(S) \in S /\ \A x \in S : x <= Max(S)
<1> DEFINE T == {top - x : x \in S}
<1>1. T \subseteq Nat /\ T # {}
  <2>1. \A x \in S : x \in Nat /\ x <= top
    OBVIOUS
  <2>2. \A x \in S : top - x \in Nat
    BY <2>1
  <2> QED
    BY <2>2
<1> HIDE DEF T
<1>2. PICK m \in T : \A k \in T : ~(k < m)
  BY <1>1, Least
<1>3. PICK x \in S : m = top - x
  BY DEF T
<1>4. \A y \in S : x >= y
  <2> TAKE y \in S
  <2>1. top - y \in T
    BY DEF T
  <2>2. ~(top - y < top - x) /\ x \in Nat /\ y \in Nat
    BY <1>2, <1>3, <2>1
  <2> QED
    BY <2>2
<1>5. Max(S) \in S /\ \A y \in S : Max(S) >= y
  BY <1>4 DEF Max
<1> QED
  BY <1>5

LEMMA MinPair ==
  ASSUME NEW a \in Int, NEW b \in Int
  PROVE  Min({a, b}) = IF a <= b THEN a ELSE b
<1>1. \E x \in {a, b} : \A y \in {a, b} : x <= y
  OBVIOUS
<1>2. Min({a, b}) \in {a, b} /\ \A y \in {a, b} : Min({a, b}) <= y
  BY <1>1 DEF Min
<1> QED
  BY <1>2

LEMMA MaxPair ==
  ASSUME NEW a \in Int, NEW b \in Int
  PROVE  Max({a, b}) = IF a <= b THEN b ELSE a
<1>1. \E x \in {a, b} : \A y \in {a, b} : x >= y
  OBVIOUS
<1>2. Max({a, b}) \in {a, b} /\ \A y \in {a, b} : Max({a, b}) >= y
  BY <1>1 DEF Max
<1> QED
  BY <1>2

\* Two such tables agree where both are defined.
LEMMA SumsAgree ==
  ASSUME NEW f, NEW S, NEW R, IsFiniteSet(S), NEW g, NEW h, Adds(g, f, S), Adds(h, f, R)
  PROVE  \A s \in SUBSET (S \intersect R) : g[s] = h[s]
<1> DEFINE T == {s \in SUBSET (S \intersect R) : g[s] # h[s]}
<1> SUFFICES ASSUME T # {} PROVE FALSE
  OBVIOUS
<1>1. PICK m \in T : \A y \in T : y \subseteq m => y = m
  <2>1. T \subseteq SUBSET S
    OBVIOUS
  <2> HIDE DEF T
  <2> QED
    BY <2>1, Smallest
<1>2. m # {}
  BY <1>1 DEF Adds
<1>3. First(m) \in m
  BY <1>2 DEF First
<1>4. m \ {First(m)} \notin T
  BY <1>1, <1>3
<1>5. g[m \ {First(m)}] = h[m \ {First(m)}]
  BY <1>4, <1>1
<1>6. g[m] = f[First(m)] + g[m \ {First(m)}]
  BY <1>1, <1>2 DEF Adds
<1>7. h[m] = f[First(m)] + h[m \ {First(m)}]
  BY <1>1, <1>2 DEF Adds
<1> QED
  BY <1>1, <1>5, <1>6, <1>7

\* There is such a table.
LEMMA SumExists ==
  ASSUME NEW f, NEW S, IsFiniteSet(S)
  PROVE  \E g : Adds(g, f, S)
<1> DEFINE T == {s \in SUBSET S : ~ \E g : Adds(g, f, s)}
<1> SUFFICES ASSUME T # {} PROVE FALSE
  OBVIOUS
<1>1. PICK m \in T : \A y \in T : y \subseteq m => y = m
  <2>1. T \subseteq SUBSET S
    OBVIOUS
  <2> HIDE DEF T
  <2> QED
    BY <2>1, Smallest
<1> DEFINE G(t) == CHOOSE g : Adds(g, f, t)
           h == [s \in SUBSET m |-> IF s = {} THEN 0
                                    ELSE f[First(s)] + G(s \ {First(s)})[s \ {First(s)}]]
<1>2. \A t \in SUBSET m : t # m => Adds(G(t), f, t) /\ IsFiniteSet(t)
  <2> TAKE t \in SUBSET m
  <2> HAVE t # m
  <2>1. t \notin T /\ t \in SUBSET S
    BY <1>1
  <2>2. \E g : Adds(g, f, t)
    BY <2>1
  <2> QED
    BY <2>1, <2>2, FS_Subset
<1>3. \A t \in SUBSET m : t # m => h[t] = G(t)[t]
  <2> TAKE t \in SUBSET m
  <2> HAVE t # m
  <2> DEFINE u == t \ {First(t)}
  <2>1. CASE t = {}
    <3>1. G(t)[t] = 0
      <4> HIDE DEF h
      <4>1. Adds(G(t), f, t)
        BY <1>2
      <4> HIDE DEF G
      <4> QED
        BY <4>1, <2>1 DEF Adds
    <3> QED
      BY <2>1, <3>1
  <2>2. CASE t # {}
    <3>1. First(t) \in t
      BY <2>2 DEF First
    <3>2. u \in SUBSET m /\ u # m /\ u \subseteq t
      BY <3>1
    <3>3. G(t)[t] = f[First(t)] + G(t)[u]
      <4> HIDE DEF h
      <4>1. Adds(G(t), f, t)
        BY <1>2
      <4> HIDE DEF G
      <4> QED
        BY <4>1, <2>2 DEF Adds
    <3>4. G(t)[u] = G(u)[u]
      <4>1. Adds(G(t), f, t) /\ IsFiniteSet(t) /\ Adds(G(u), f, u)
        BY <1>2, <3>2
      <4> HIDE DEF G, u, h
      <4> QED
        BY <4>1, <3>2, SumsAgree
    <3>5. h[t] = f[First(t)] + G(u)[u]
      BY <2>2
    <3> QED
      BY <3>3, <3>4, <3>5
  <2> QED
    BY <2>1, <2>2
<1>4. Adds(h, f, m)
  <2>1. ASSUME NEW s \in SUBSET m, s # {}
        PROVE  h[s] = f[First(s)] + h[s \ {First(s)}]
    <3>1. s \ {First(s)} \in SUBSET m /\ s \ {First(s)} # m
      BY <2>1 DEF First
    <3>2. h[s] = f[First(s)] + G(s \ {First(s)})[s \ {First(s)}]
      BY <2>1
    <3> HIDE DEF h, G
    <3> QED
      BY <3>1, <3>2, <1>3
  <2>2. {} \in SUBSET m /\ h[{}] = 0
    OBVIOUS
  <2>3. h = [s \in SUBSET m |-> h[s]]
    OBVIOUS
  <2> HIDE DEF h
  <2>4. h = [s \in SUBSET m |-> IF s = {} THEN 0 ELSE f[First(s)] + h[s \ {First(s)}]]
    BY <2>1, <2>2, <2>3
  <2> QED
    BY <2>4 DEF Adds
<1> QED
  BY <1>1, <1>4

\* One table gives the sums over all subsets.
LEMMA SumAdds ==
  ASSUME NEW f, NEW S, IsFiniteSet(S)
  PROVE  \E g : Adds(g, f, S) /\ \A s \in SUBSET S : SumFunctionOnSet(f, s) = g[s]
<1>1. PICK g : Adds(g, f, S)
  BY SumExists
<1>2. ASSUME NEW s \in SUBSET S
      PROVE  SumFunctionOnSet(f, s) = g[s]
  <2> DEFINE c == CHOOSE k : Adds(k, f, s)
  <2>1. IsFiniteSet(s)
    BY FS_Subset
  <2>2. Adds(c, f, s)
    BY <2>1, SumExists
  <2>3. SumFunctionOnSet(f, s) = c[s]
    BY SumIs
  <2> HIDE DEF c
  <2>4. s \in SUBSET (s \intersect S)
    OBVIOUS
  <2>5. c[s] = g[s]
    BY <2>1, <2>2, <2>4, <1>1, SumsAgree
  <2> QED
    BY <2>3, <2>5
<1> QED
  BY <1>1, <1>2

\* Nothing adds up to 0.
LEMMA SumEmpty ==
  ASSUME NEW f
  PROVE  SumFunctionOnSet(f, {}) = 0
<1>1. PICK g : Adds(g, f, {}) /\ \A s \in SUBSET {} : SumFunctionOnSet(f, s) = g[s]
  BY SumAdds, FS_EmptySet
<1> QED
  BY <1>1 DEF Adds

\* A sum is its first term and the sum of the others.
LEMMA SumFirst ==
  ASSUME NEW f, NEW S, IsFiniteSet(S), S # {}
  PROVE  First(S) \in S /\ SumFunctionOnSet(f, S) = f[First(S)] + SumFunctionOnSet(f, S \ {First(S)})
<1>1. PICK g : Adds(g, f, S) /\ \A s \in SUBSET S : SumFunctionOnSet(f, s) = g[s]
  BY SumAdds
<1>2. First(S) \in S
  BY DEF First
<1>3. g[S] = f[First(S)] + g[S \ {First(S)}]
  BY <1>1 DEF Adds
<1> QED
  BY <1>1, <1>2, <1>3

\* A set that is closed under addition holds the sums of its members.
LEMMA SumIn ==
  ASSUME NEW f, NEW S, IsFiniteSet(S), NEW D, 0 \in D, \A p, q \in D : p + q \in D,
         \A x \in S : f[x] \in D
  PROVE  SumFunctionOnSet(f, S) \in D
<1> DEFINE T == {s \in SUBSET S : SumFunctionOnSet(f, s) \notin D}
<1> SUFFICES ASSUME T # {} PROVE FALSE
  OBVIOUS
<1>1. PICK m \in T : \A y \in T : y \subseteq m => y = m
  <2>1. T \subseteq SUBSET S
    OBVIOUS
  <2> HIDE DEF T
  <2> QED
    BY <2>1, Smallest
<1>2. m \in SUBSET S /\ IsFiniteSet(m) /\ m # {}
  BY <1>1, FS_Subset, SumEmpty
<1>3. First(m) \in m /\ SumFunctionOnSet(f, m) = f[First(m)] + SumFunctionOnSet(f, m \ {First(m)})
  BY <1>2, SumFirst
<1>4. SumFunctionOnSet(f, m \ {First(m)}) \in D
  BY <1>1, <1>3
<1> QED
  BY <1>1, <1>2, <1>3, <1>4

\* Integers add up to an integer ...
LEMMA SumInt ==
  ASSUME NEW f, NEW S, IsFiniteSet(S), \A x \in S : f[x] \in Int
  PROVE  SumFunctionOnSet(f, S) \in Int
<1>1. 0 \in Int /\ \A p, q \in Int : p + q \in Int
  OBVIOUS
<1> DEFINE D == Int
<1> HIDE DEF D
<1>2. 0 \in D /\ (\A p, q \in D : p + q \in D) /\ \A x \in S : f[x] \in D
  BY <1>1 DEF D
<1>3. SumFunctionOnSet(f, S) \in D
  BY <1>2, SumIn
<1> QED
  BY <1>3 DEF D

\* ... and naturals to a natural.
LEMMA SumNat ==
  ASSUME NEW f, NEW S, IsFiniteSet(S), \A x \in S : f[x] \in Nat
  PROVE  SumFunctionOnSet(f, S) \in Nat
<1>1. 0 \in Nat /\ \A p, q \in Nat : p + q \in Nat
  OBVIOUS
<1> DEFINE D == Nat
<1> HIDE DEF D
<1>2. 0 \in D /\ (\A p, q \in D : p + q \in D) /\ \A x \in S : f[x] \in D
  BY <1>1 DEF D
<1>3. SumFunctionOnSet(f, S) \in D
  BY <1>2, SumIn
<1> QED
  BY <1>3 DEF D

\* A sum depends on the terms that are added only.
LEMMA SumSame ==
  ASSUME NEW f, NEW g, NEW S, IsFiniteSet(S), \A x \in S : f[x] = g[x]
  PROVE  SumFunctionOnSet(f, S) = SumFunctionOnSet(g, S)
<1> DEFINE T == {s \in SUBSET S : SumFunctionOnSet(f, s) # SumFunctionOnSet(g, s)}
<1> SUFFICES ASSUME T # {} PROVE FALSE
  OBVIOUS
<1>1. PICK m \in T : \A y \in T : y \subseteq m => y = m
  <2>1. T \subseteq SUBSET S
    OBVIOUS
  <2> HIDE DEF T
  <2> QED
    BY <2>1, Smallest
<1>2. m \in SUBSET S /\ IsFiniteSet(m) /\ m # {}
  BY <1>1, FS_Subset, SumEmpty
<1>3. /\ First(m) \in m
      /\ SumFunctionOnSet(f, m) = f[First(m)] + SumFunctionOnSet(f, m \ {First(m)})
      /\ SumFunctionOnSet(g, m) = g[First(m)] + SumFunctionOnSet(g, m \ {First(m)})
  BY <1>2, SumFirst
<1>4. SumFunctionOnSet(f, m \ {First(m)}) = SumFunctionOnSet(g, m \ {First(m)})
  BY <1>1, <1>3
<1> QED
  BY <1>1, <1>2, <1>3, <1>4

\* Larger terms have a larger sum.
LEMMA SumLess ==
  ASSUME NEW f, NEW g, NEW S, IsFiniteSet(S),
         \A x \in S : f[x] \in Int /\ g[x] \in Int /\ f[x] <= g[x]
  PROVE  SumFunctionOnSet(f, S) <= SumFunctionOnSet(g, S)
<1> DEFINE T == {s \in SUBSET S : ~ (SumFunctionOnSet(f, s) <= SumFunctionOnSet(g, s))}
<1> SUFFICES ASSUME T # {} PROVE FALSE
  OBVIOUS
<1>1. PICK m \in T : \A y \in T : y \subseteq m => y = m
  <2>1. T \subseteq SUBSET S
    OBVIOUS
  <2> HIDE DEF T
  <2> QED
    BY <2>1, Smallest
<1>2. m \in SUBSET S /\ IsFiniteSet(m) /\ m # {}
  <2>1. SumFunctionOnSet(f, {}) <= SumFunctionOnSet(g, {})
    BY SumEmpty
  <2> QED
    BY <1>1, <2>1, FS_Subset
<1>3. /\ First(m) \in m
      /\ SumFunctionOnSet(f, m) = f[First(m)] + SumFunctionOnSet(f, m \ {First(m)})
      /\ SumFunctionOnSet(g, m) = g[First(m)] + SumFunctionOnSet(g, m \ {First(m)})
  BY <1>2, SumFirst
<1>4. SumFunctionOnSet(f, m \ {First(m)}) <= SumFunctionOnSet(g, m \ {First(m)})
  BY <1>1, <1>3
<1>5. IsFiniteSet(m \ {First(m)})
  BY <1>2, FS_Subset
<1>6. SumFunctionOnSet(f, m \ {First(m)}) \in Int /\ SumFunctionOnSet(g, m \ {First(m)}) \in Int
  BY <1>2, <1>5, SumInt
<1>7. f[First(m)] \in Int /\ g[First(m)] \in Int /\ f[First(m)] <= g[First(m)]
  BY <1>2, <1>3
<1> QED
  BY <1>1, <1>3, <1>4, <1>6, <1>7

\* Any term may be taken out first: the order of the terms does not matter.
LEMMA SumPick ==
  ASSUME NEW f, NEW S, IsFiniteSet(S), \A x \in S : f[x] \in Int, NEW x \in S
  PROVE  SumFunctionOnSet(f, S) = f[x] + SumFunctionOnSet(f, S \ {x})
<1> DEFINE Sum(s) == SumFunctionOnSet(f, s)
           T == {s \in SUBSET S : \E y \in s : Sum(s) # f[y] + Sum(s \ {y})}
<1> SUFFICES ASSUME T # {} PROVE FALSE
  OBVIOUS
<1>1. PICK m \in T : \A y \in T : y \subseteq m => y = m
  <2>1. T \subseteq SUBSET S
    OBVIOUS
  <2> HIDE DEF T
  <2> QED
    BY <2>1, Smallest
<1>2. PICK b \in m : Sum(m) # f[b] + Sum(m \ {b})
  BY <1>1
<1> DEFINE a == First(m)
<1>3. m \in SUBSET S /\ IsFiniteSet(m) /\ m # {}
  BY <1>1, <1>2, FS_Subset
<1>4. a \in m /\ Sum(m) = f[a] + Sum(m \ {a})
  BY <1>3, SumFirst
<1>5. a # b
  BY <1>2, <1>4
<1>6. m \ {a} \notin T /\ m \ {b} \notin T
  BY <1>1, <1>2, <1>4
<1>7. Sum(m \ {a}) = f[b] + Sum((m \ {a}) \ {b}) /\ Sum(m \ {b}) = f[a] + Sum((m \ {b}) \ {a})
  BY <1>2, <1>3, <1>4, <1>5, <1>6
<1>8. (m \ {a}) \ {b} = (m \ {b}) \ {a}
  OBVIOUS
<1>9. IsFiniteSet((m \ {a}) \ {b})
  BY <1>3, FS_Subset
<1>10. Sum((m \ {a}) \ {b}) \in Int /\ f[a] \in Int /\ f[b] \in Int
  BY <1>2, <1>3, <1>4, <1>9, SumInt
<1> DEFINE rest == Sum((m \ {a}) \ {b})
<1>11. Sum(m) = f[a] + (f[b] + rest) /\ f[b] + Sum(m \ {b}) = f[b] + (f[a] + rest)
  BY <1>4, <1>7, <1>8
<1>12. \A p, q, r \in Int : p + (q + r) = q + (p + r)
  OBVIOUS
<1>13. rest \in Int /\ f[a] \in Int /\ f[b] \in Int
  BY <1>10
<1> HIDE DEF T, Sum, a, rest
<1>14. f[a] + (f[b] + rest) = f[b] + (f[a] + rest)
  BY <1>12, <1>13
<1> QED
  BY <1>2, <1>11, <1>14

\* What one term changes by, the sum changes by.
LEMMA SumChange ==
  ASSUME NEW f, NEW g, NEW S, IsFiniteSet(S), NEW x \in S,
         \A y \in S : f[y] \in Int, g[x] \in Int,
         \A y \in S \ {x} : g[y] = f[y]
  PROVE  SumFunctionOnSet(g, S) = SumFunctionOnSet(f, S) - f[x] + g[x]
<1>1. IsFiniteSet(S \ {x}) /\ \A y \in S : g[y] \in Int
  BY FS_Subset
<1>2. SumFunctionOnSet(f, S) = f[x] + SumFunctionOnSet(f, S \ {x})
  BY SumPick
<1>3. SumFunctionOnSet(g, S) = g[x] + SumFunctionOnSet(g, S \ {x})
  BY <1>1, SumPick
<1>4. SumFunctionOnSet(f, S \ {x}) = SumFunctionOnSet(g, S \ {x})
  BY <1>1, SumSame
<1>5. SumFunctionOnSet(f, S \ {x}) \in Int
  BY <1>1, SumInt
<1> QED
  BY <1>2, <1>3, <1>4, <1>5

\* One more term.
LEMMA SumAdd ==
  ASSUME NEW f, NEW S, IsFiniteSet(S), NEW x, x \notin S, \A y \in S \union {x} : f[y] \in Int
  PROVE  SumFunctionOnSet(f, S \union {x}) = f[x] + SumFunctionOnSet(f, S)
<1>1. IsFiniteSet(S \union {x}) /\ (S \union {x}) \ {x} = S
  BY FS_AddElement
<1> QED
  BY <1>1, SumPick

\* No term is larger than a sum of naturals.
LEMMA SumPart ==
  ASSUME NEW f, NEW S, IsFiniteSet(S), \A y \in S : f[y] \in Nat, NEW x \in S
  PROVE  f[x] <= SumFunctionOnSet(f, S)
<1>1. SumFunctionOnSet(f, S) = f[x] + SumFunctionOnSet(f, S \ {x})
  BY SumPick
<1>2. SumFunctionOnSet(f, S \ {x}) \in Nat
  BY FS_Subset, SumNat
<1> QED
  BY <1>1, <1>2

\* The sum over two parts is the sum of their sums.
LEMMA SumUnion ==
  ASSUME NEW f, NEW S, NEW T, IsFiniteSet(S), IsFiniteSet(T), S \intersect T = {},
         \A x \in S \union T : f[x] \in Int
  PROVE  SumFunctionOnSet(f, S \union T) = SumFunctionOnSet(f, S) + SumFunctionOnSet(f, T)
<1> DEFINE Sum(s) == SumFunctionOnSet(f, s)
           C == {u \in SUBSET T : Sum(S \union u) # Sum(S) + Sum(u)}
<1> SUFFICES ASSUME C # {} PROVE FALSE
  OBVIOUS
<1>1. PICK m \in C : \A y \in C : y \subseteq m => y = m
  <2>1. C \subseteq SUBSET T
    OBVIOUS
  <2> HIDE DEF C
  <2> QED
    BY <2>1, Smallest
<1>2. Sum(S) \in Int
  BY SumInt
<1>3. m # {}
  <2>1. Sum({}) = 0 /\ S \union {} = S
    BY SumEmpty
  <2>2. Sum(S \union {}) = Sum(S) + Sum({})
    BY <1>2, <2>1
  <2> HIDE DEF Sum
  <2> QED
    BY <1>1, <2>2
<1>4. PICK x \in m : TRUE
  BY <1>3
<1>5. /\ m \in SUBSET T /\ IsFiniteSet(m) /\ IsFiniteSet(S \union m) /\ IsFiniteSet(m \ {x})
      /\ (S \union m) \ {x} = S \union (m \ {x})
  BY <1>1, <1>4, FS_Subset, FS_Union
<1>6. Sum(S \union m) = f[x] + Sum(S \union (m \ {x}))
  BY <1>4, <1>5, SumPick
<1>7. Sum(m) = f[x] + Sum(m \ {x})
  BY <1>4, <1>5, SumPick
<1>8. Sum(S \union (m \ {x})) = Sum(S) + Sum(m \ {x})
  BY <1>1, <1>4, <1>5
<1>9. f[x] \in Int /\ Sum(m \ {x}) \in Int
  BY <1>4, <1>5, SumInt
<1> DEFINE rest == Sum(m \ {x})
<1>10. Sum(S \union m) = f[x] + (Sum(S) + rest) /\ Sum(S) + Sum(m) = Sum(S) + (f[x] + rest)
  BY <1>6, <1>7, <1>8
<1>11. \A p, q, r \in Int : p + (q + r) = q + (p + r)
  OBVIOUS
<1>12. Sum(S \union m) # Sum(S) + Sum(m)
  BY <1>1
<1>13. rest \in Int
  BY <1>9
<1> HIDE DEF Sum, rest
<1> QED
  BY <1>2, <1>9, <1>10, <1>11, <1>12, <1>13

\* The sum over many parts that do not meet: g holds the sum over the part A[r] of each r.
LEMMA SumCover ==
  ASSUME NEW f, NEW R, NEW A, NEW g, NEW U, IsFiniteSet(R),
         \A r \in R : IsFiniteSet(A[r]) /\ (\A x \in A[r] : f[x] \in Int)
                      /\ g[r] = SumFunctionOnSet(f, A[r]),
         \A r, s \in R : r # s => A[r] \intersect A[s] = {},
         \A x : x \in U <=> \E r \in R : x \in A[r]
  PROVE  IsFiniteSet(U) /\ SumFunctionOnSet(g, R) = SumFunctionOnSet(f, U)
<1> DEFINE All(u) == UNION {A[r] : r \in u}
           OK(u) == IsFiniteSet(All(u)) /\ SumFunctionOnSet(g, u) = SumFunctionOnSet(f, All(u))
           C == {u \in SUBSET R : ~OK(u)}
<1> SUFFICES ASSUME C # {} PROVE FALSE
  <2>1. U = All(R)
    OBVIOUS
  <2>2. R \in C => C # {}
    OBVIOUS
  <2>3. R \notin C => OK(R)
    OBVIOUS
  <2> HIDE DEF C, All
  <2> QED
    BY <2>1, <2>2, <2>3
<1>1. PICK m \in C : \A y \in C : y \subseteq m => y = m
  <2>1. C \subseteq SUBSET R
    OBVIOUS
  <2> HIDE DEF C
  <2> QED
    BY <2>1, Smallest
<1>2. m # {}
  <2>1. All({}) = {}
    OBVIOUS
  <2>2. OK({})
    BY <2>1, SumEmpty, FS_EmptySet
  <2> HIDE DEF OK
  <2> QED
    BY <1>1, <2>2
<1>3. PICK r \in m : TRUE
  BY <1>2
<1> DEFINE u == m \ {r}
<1>4. m \in SUBSET R /\ IsFiniteSet(m) /\ r \in R /\ u \in SUBSET R
  BY <1>1, <1>3, FS_Subset
<1>5. OK(u)
  <2> HIDE DEF OK
  <2> QED
    BY <1>1, <1>3, <1>4
<1>6. All(m) = A[r] \union All(u) /\ A[r] \intersect All(u) = {}
  BY <1>3, <1>4
<1>7. \A x \in A[r] \union All(u) : f[x] \in Int
  BY <1>4
<1>8. IsFiniteSet(A[r]) /\ IsFiniteSet(All(u)) /\ g[r] = SumFunctionOnSet(f, A[r])
  BY <1>4, <1>5
<1>9. IsFiniteSet(All(m))
  <2> DEFINE a == A[r]
             b == All(u)
  <2>1. IsFiniteSet(a) /\ IsFiniteSet(b) /\ All(m) = a \union b
    BY <1>6, <1>8
  <2> HIDE DEF All, u, OK, a, b
  <2>2. IsFiniteSet(a \union b)
    BY <2>1, FS_Union
  <2> QED
    BY <2>1, <2>2
<1>10. \A s \in m : g[s] \in Int
  BY <1>4, SumInt
<1>11. SumFunctionOnSet(g, m) = g[r] + SumFunctionOnSet(g, u)
  BY <1>3, <1>4, <1>10, SumPick
<1>12. SumFunctionOnSet(f, A[r] \union All(u)) = SumFunctionOnSet(f, A[r]) + SumFunctionOnSet(f, All(u))
  <2> HIDE DEF All, u, OK
  <2> QED
    BY <1>6, <1>7, <1>8, SumUnion
<1>13. OK(m)
  BY <1>5, <1>6, <1>8, <1>9, <1>11, <1>12
<1> HIDE DEF OK
<1> QED
  BY <1>1, <1>13

\* One term is its own sum.
LEMMA SumSingle ==
  ASSUME NEW f, NEW x, f[x] \in Int
  PROVE  SumFunctionOnSet(f, {x}) = f[x]
<1>1. IsFiniteSet({x}) /\ {x} \ {x} = {}
  BY FS_Singleton
<1>2. SumFunctionOnSet(f, {x}) = f[x] + SumFunctionOnSet(f, {})
  BY <1>1, SumPick
<1> QED
  BY <1>2, SumEmpty

\* Zeros add up to 0 ...
LEMMA SumZeros ==
  ASSUME NEW f, NEW S, IsFiniteSet(S), \A x \in S : f[x] = 0
  PROVE  SumFunctionOnSet(f, S) = 0
<1> DEFINE D == {0}
<1>1. 0 \in D /\ (\A p, q \in D : p + q \in D) /\ \A x \in S : f[x] \in D
  OBVIOUS
<1> HIDE DEF D
<1>2. SumFunctionOnSet(f, S) \in D
  BY <1>1, SumIn
<1> QED
  BY <1>2 DEF D

\* ... and ones to the number of terms.
LEMMA SumOnes ==
  ASSUME NEW f, NEW S, IsFiniteSet(S), \A x \in S : f[x] = 1
  PROVE  SumFunctionOnSet(f, S) = Cardinality(S)
<1> DEFINE C == {u \in SUBSET S : SumFunctionOnSet(f, u) # Cardinality(u)}
<1> SUFFICES ASSUME C # {} PROVE FALSE
  OBVIOUS
<1>1. PICK m \in C : \A y \in C : y \subseteq m => y = m
  <2>1. C \subseteq SUBSET S
    OBVIOUS
  <2> HIDE DEF C
  <2> QED
    BY <2>1, Smallest
<1>2. SumFunctionOnSet(f, {}) = Cardinality({})
  BY SumEmpty, FS_EmptySet
<1>3. m # {}
  BY <1>1, <1>2
<1>4. PICK x \in m : TRUE
  BY <1>3
<1>5. IsFiniteSet(m) /\ \A y \in m : f[y] \in Int
  BY <1>1, FS_Subset
<1>6. SumFunctionOnSet(f, m) = 1 + SumFunctionOnSet(f, m \ {x})
  BY <1>1, <1>4, <1>5, SumPick
<1>7. SumFunctionOnSet(f, m \ {x}) = Cardinality(m \ {x})
  BY <1>1, <1>4
<1>8. Cardinality(m \ {x}) = Cardinality(m) - 1 /\ Cardinality(m) \in Nat
  BY <1>4, <1>5, FS_RemoveElement, FS_CardinalityType
<1> QED
  BY <1>1, <1>6, <1>7, <1>8

\* The sum of two functions, term by term.
LEMMA SumPlus ==
  ASSUME NEW f, NEW g, NEW h, NEW S, IsFiniteSet(S),
         \A x \in S : f[x] \in Int /\ g[x] \in Int /\ h[x] = f[x] + g[x]
  PROVE  SumFunctionOnSet(h, S) = SumFunctionOnSet(f, S) + SumFunctionOnSet(g, S)
<1> DEFINE F(u) == SumFunctionOnSet(f, u)
           G(u) == SumFunctionOnSet(g, u)
           H(u) == SumFunctionOnSet(h, u)
           C == {u \in SUBSET S : H(u) # F(u) + G(u)}
<1> SUFFICES ASSUME C # {} PROVE FALSE
  OBVIOUS
<1>1. PICK m \in C : \A y \in C : y \subseteq m => y = m
  <2>1. C \subseteq SUBSET S
    OBVIOUS
  <2> HIDE DEF C
  <2> QED
    BY <2>1, Smallest
<1>2. H({}) = F({}) + G({})
  BY SumEmpty
<1>3. PICK x \in m : TRUE
  <2> HIDE DEF F, G, H
  <2> QED
    BY <1>1, <1>2
<1> DEFINE u == m \ {x}
<1>4. /\ IsFiniteSet(m) /\ IsFiniteSet(u)
      /\ \A y \in m : f[y] \in Int /\ g[y] \in Int /\ h[y] \in Int /\ h[y] = f[y] + g[y]
  BY <1>1, FS_Subset
<1>5. H(m) = h[x] + H(u) /\ F(m) = f[x] + F(u) /\ G(m) = g[x] + G(u)
  BY <1>3, <1>4, SumPick
<1>6. F(u) \in Int /\ G(u) \in Int
  BY <1>4, SumInt
<1>7. H(u) = F(u) + G(u)
  BY <1>1, <1>3
<1>8. h[x] = f[x] + g[x] /\ f[x] \in Int /\ g[x] \in Int
  BY <1>3, <1>4
<1>9. H(m) # F(m) + G(m)
  BY <1>1
<1> HIDE DEF F, G, H, u
<1>10. \A a, b, c, d \in Int : (a + b) + (c + d) = (a + c) + (b + d)
  OBVIOUS
<1>11. H(m) = (f[x] + g[x]) + (F(u) + G(u)) /\ F(m) + G(m) = (f[x] + F(u)) + (g[x] + G(u))
  BY <1>5, <1>7, <1>8
<1>12. (f[x] + g[x]) + (F(u) + G(u)) = (f[x] + F(u)) + (g[x] + G(u))
  BY <1>6, <1>8, <1>10
<1> QED
  BY <1>9, <1>11, <1>12

\* Terms may be named anew: g over the image of S is f over S.
LEMMA SumImage ==
  ASSUME NEW f, NEW g, NEW h, NEW S, IsFiniteSet(S),
         \A x \in S : f[x] \in Int /\ f[x] = g[h[x]],
         \A x, y \in S : h[x] = h[y] => x = y
  PROVE  SumFunctionOnSet(f, S) = SumFunctionOnSet(g, {h[x] : x \in S})
<1> DEFINE A == [x \in S |-> {h[x]}]
<1>1. ASSUME NEW x \in S
      PROVE  /\ IsFiniteSet(A[x]) /\ (\A y \in A[x] : g[y] \in Int)
             /\ f[x] = SumFunctionOnSet(g, A[x])
  <2>1. A[x] = {h[x]} /\ g[h[x]] = f[x] /\ g[h[x]] \in Int
    OBVIOUS
  <2>2. SumFunctionOnSet(g, {h[x]}) = g[h[x]]
    BY <2>1, SumSingle
  <2> QED
    BY <2>1, <2>2, FS_Singleton
<1>2. \A x, y \in S : x # y => A[x] \intersect A[y] = {}
  OBVIOUS
<1> DEFINE U == {h[x] : x \in S}
<1>3. \A y : y \in U <=> \E x \in S : y \in A[x]
  OBVIOUS
<1>4. \A x \in S : /\ IsFiniteSet(A[x]) /\ (\A y \in A[x] : g[y] \in Int)
                     /\ f[x] = SumFunctionOnSet(g, A[x])
  BY <1>1
<1>5. \A x, y \in S : x # y => A[x] \intersect A[y] = {}
  BY <1>2
<1> HIDE DEF A, U
<1>6. SumFunctionOnSet(f, S) = SumFunctionOnSet(g, U)
  BY <1>3, <1>4, <1>5, SumCover
<1> QED
  BY <1>6 DEF U

\* Opposite terms have opposite sums.
LEMMA SumMinus ==
  ASSUME NEW f, NEW g, NEW S, IsFiniteSet(S), \A x \in S : f[x] \in Int /\ g[x] = -f[x]
  PROVE  SumFunctionOnSet(g, S) = -SumFunctionOnSet(f, S)
<1> DEFINE zeros == [x \in S |-> 0]
<1>1. \A x \in S : zeros[x] = 0
  OBVIOUS
<1> HIDE DEF zeros
<1>2. \A x \in S : f[x] \in Int /\ g[x] \in Int /\ zeros[x] = f[x] + g[x]
  BY <1>1
<1>3. SumFunctionOnSet(zeros, S) = SumFunctionOnSet(f, S) + SumFunctionOnSet(g, S)
  BY <1>2, SumPlus
<1>4. SumFunctionOnSet(zeros, S) = 0
  BY <1>1, SumZeros
<1>5. SumFunctionOnSet(f, S) \in Int /\ SumFunctionOnSet(g, S) \in Int
  BY <1>2, SumInt
<1> QED
  BY <1>3, <1>4, <1>5

\* A sequence that is given one more term.
LEMMA SumAppend ==
  ASSUME NEW s \in Seq(Int), NEW x \in Int
  PROVE  /\ IsFiniteSet(DOMAIN s)
         /\ SumFunctionOnSet(s, DOMAIN s) \in Int
         /\ SumFunctionOnSet(Append(s, x), DOMAIN Append(s, x)) = SumFunctionOnSet(s, DOMAIN s) + x
<1> DEFINE n == Len(s)
           t == Append(s, x)
<1>1. n \in Nat /\ DOMAIN s = 1..n /\ \A k \in 1..n : s[k] \in Int
  OBVIOUS
<1>2. DOMAIN t = 1..(n + 1) /\ t[n + 1] = x /\ \A k \in 1..n : t[k] = s[k]
  OBVIOUS
<1> HIDE DEF n, t
<1>3. IsFiniteSet(1..n)
  BY <1>1, FS_Interval
<1>4. 1..(n + 1) = (1..n) \union {n + 1} /\ n + 1 \notin 1..n
  BY <1>1
<1>5. SumFunctionOnSet(t, 1..n) = SumFunctionOnSet(s, 1..n)
  BY <1>2, <1>3, SumSame
<1>6. SumFunctionOnSet(s, 1..n) \in Int
  BY <1>1, <1>3, SumInt
<1>7. \A k \in (1..n) \union {n + 1} : t[k] \in Int
  BY <1>1, <1>2
<1>8. SumFunctionOnSet(t, (1..n) \union {n + 1}) = t[n + 1] + SumFunctionOnSet(t, 1..n)
  BY <1>3, <1>4, <1>7, SumAdd
<1>9. SumFunctionOnSet(t, DOMAIN t) = x + SumFunctionOnSet(s, DOMAIN s)
  BY <1>1, <1>2, <1>4, <1>5, <1>8
<1>10. IsFiniteSet(DOMAIN s) /\ SumFunctionOnSet(s, DOMAIN s) \in Int
  BY <1>1, <1>3, <1>6
<1>11. SumFunctionOnSet(t, DOMAIN t) = SumFunctionOnSet(s, DOMAIN s) + x
  BY <1>9, <1>10
<1> QED
  BY <1>10, <1>11 DEF t
=============================================================================
