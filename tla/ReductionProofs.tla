--------------------------- MODULE ReductionProofs ---------------------------
(***************************************************************************)
(* The reductions of a pulse.  multi_func adds up sums and keeps the least *)
(* and the greatest value of what two events carry; ResultsExact speaks of *)
(* all processes at once.  The lemmas below are the bridge between the     *)
(* two: merging the reductions over two disjoint sets of processes gives   *)
(* the reduction over their union, and a process's subtree is the disjoint *)
(* union of itself and its children's subtrees.                            *)
(***************************************************************************)
EXTENDS AggregationProofs

(***************************************************************************)
(* Induction, with the set of cases that hold in place of a predicate.     *)
(***************************************************************************)
LEMMA NatInduct ==
  ASSUME NEW B, 0 \in B, \A n \in Nat : n \in B => n + 1 \in B
  PROVE  \A n \in Nat : n \in B
<1> DEFINE Bad == Nat \ B
<1> SUFFICES ASSUME Bad # {} PROVE FALSE  OBVIOUS
<1>1. Bad \in SUBSET Nat  OBVIOUS
<1> DEFINE k == Min(Bad)
<1>2. k \in Bad /\ \A j \in Bad : k <= j  BY <1>1, MinOfNaturals
<1> HIDE DEF k
<1>3. k \in Nat /\ k # 0  BY <1>2
<1>4. k - 1 \in Nat /\ k - 1 \notin Bad  BY <1>2, <1>3
<1>5. (k - 1) + 1 \in B  BY <1>4
<1> QED BY <1>2, <1>3, <1>5

\* A set of subsets that grows by one element at a time holds every finite
\* subset.
LEMMA SubsetInduct ==
  ASSUME NEW D, IsFiniteSet(D), NEW B, {} \in B,
         \A s \in SUBSET D : \A x \in D \ s : s \in B => s \cup {x} \in B
  PROVE  \A s \in SUBSET D : s \in B
<1> DEFINE C == {k \in Nat : \A s \in SUBSET D : Cardinality(s) = k => s \in B}
<1>1. \A s \in SUBSET D : IsFiniteSet(s) /\ Cardinality(s) \in Nat
  BY FS_Subset, FS_CardinalityType
<1>2. 0 \in C  BY <1>1, FS_EmptySet
<1>3. ASSUME NEW k \in Nat, k \in C PROVE k + 1 \in C
  <2> SUFFICES ASSUME NEW s \in SUBSET D, Cardinality(s) = k + 1
               PROVE  s \in B
    OBVIOUS
  <2>1. s # {}  BY <1>1, FS_EmptySet
  <2>2. PICK x \in s : TRUE  BY <2>1
  <2>3. Cardinality(s \ {x}) = k
    <3>1. Cardinality(s \ {x}) = Cardinality(s) - 1
      BY <1>1, FS_RemoveElement
    <3> QED BY <3>1
  <2>4. s \ {x} \in B  BY <1>3, <2>3
  <2>5. (s \ {x}) \cup {x} = s /\ x \in D \ (s \ {x})  OBVIOUS
  <2> QED BY <2>4, <2>5
<1> HIDE DEF C
<1>4. \A k \in Nat : k \in C  BY <1>2, <1>3, NatInduct
<1> QED BY <1>1, <1>4 DEF C
-----------------------------------------------------------------------------
(***************************************************************************)
(* The sum of a function's values: FoldFunction(+, 0, f) is the value at   *)
(* DOMAIN f of a function that is defined by recursion on the subsets of   *)
(* DOMAIN f.  It exists, and it does not depend on the order in which the  *)
(* elements are chosen.                                                    *)
(***************************************************************************)
Total(f) == FoldFunction(+, 0, f)

Pick(s) == CHOOSE x \in s : TRUE

\* g adds up f over each subset of D.
AddsUp(g, D, f) ==
  g = [s \in SUBSET D |-> IF s = {} THEN 0 ELSE f[Pick(s)] + g[s \ {Pick(s)}]]

\* Total, unfolded to the function that CHOOSE picks.
LEMMA TotalIsChosen ==
  ASSUME NEW f
  PROVE  Total(f) = (CHOOSE g : AddsUp(g, DOMAIN f, f))[DOMAIN f]
BY DEF Total, FoldFunction, FoldFunctionOnSet, MapThenFoldSet, AddsUp, Pick

\* An element of a set that has one.
LEMMA PickElement == ASSUME NEW s, s # {} PROVE Pick(s) \in s
BY DEF Pick

\* The subsets of D of at most k elements, and adding up over them.
Small(D, k) == {s \in SUBSET D : Cardinality(s) <= k}

\* By the size of the subset: there is such a function.
LEMMA AddsUpExists ==
  ASSUME NEW D, IsFiniteSet(D), NEW f \in [D -> Int]
  PROVE  \E g \in [SUBSET D -> Int] : AddsUp(g, D, f)
<1> DEFINE At(g, s) == IF s = {} THEN 0 ELSE f[Pick(s)] + g[s \ {Pick(s)}]
           B == {k \in Nat : \E g \in [Small(D, k) -> Int] :
                               \A s \in Small(D, k) : g[s] = At(g, s)}
<1>1. \A s \in SUBSET D : IsFiniteSet(s) /\ Cardinality(s) \in Nat
  BY FS_Subset, FS_CardinalityType
<1>2. 0 \in B
  <2> DEFINE g == [s \in Small(D, 0) |-> 0]
  <2>1. \A s \in Small(D, 0) : s = {}  BY <1>1, FS_EmptySet DEF Small
  <2>2. g \in [Small(D, 0) -> Int]  OBVIOUS
  <2>3. \A s \in Small(D, 0) : g[s] = At(g, s)  BY <2>1
  <2> QED BY <2>2, <2>3
<1>3. ASSUME NEW k \in Nat, k \in B PROVE k + 1 \in B
  <2>1. PICK g \in [Small(D, k) -> Int] :
               \A s \in Small(D, k) : g[s] = At(g, s)
    BY <1>3
  <2> DEFINE h == [s \in Small(D, k + 1) |-> At(g, s)]
  <2>2. ASSUME NEW s \in Small(D, k + 1), s # {}
        PROVE  Pick(s) \in D /\ s \ {Pick(s)} \in Small(D, k)
    <3>1. s \in SUBSET D /\ Cardinality(s) <= k + 1  BY DEF Small
    <3>2. Pick(s) \in s  BY <2>2, PickElement
    <3>3. Cardinality(s \ {Pick(s)}) = Cardinality(s) - 1
      BY <1>1, <3>1, <3>2, FS_RemoveElement
    <3>4. Cardinality(s \ {Pick(s)}) <= k  BY <1>1, <3>1, <3>3
    <3> QED BY <3>1, <3>2, <3>4 DEF Small
  <2>3. ASSUME NEW s \in Small(D, k + 1) PROVE At(g, s) \in Int
    BY <2>2
  <2>4. h \in [Small(D, k + 1) -> Int]  BY <2>3
  <2>5. ASSUME NEW s \in Small(D, k)
        PROVE  s \in Small(D, k + 1) /\ h[s] = g[s]
    <3>1. s \in Small(D, k + 1)  BY <1>1 DEF Small
    <3> QED BY <2>1, <3>1
  <2>6. ASSUME NEW s \in Small(D, k + 1) PROVE h[s] = At(h, s)
    <3>1. CASE s = {}  BY <3>1
    <3>2. CASE s # {}
      <4>1. h[s \ {Pick(s)}] = g[s \ {Pick(s)}]  BY <2>2, <2>5, <3>2
      <4> QED BY <3>2, <4>1
    <3> QED BY <3>1, <3>2
  <2> HIDE DEF h
  <2>7. \E u \in [Small(D, k + 1) -> Int] :
          \A s \in Small(D, k + 1) : u[s] = At(u, s)
    BY <2>4, <2>6
  <2> QED BY <2>7
<1> HIDE DEF B
<1>4. Cardinality(D) \in Nat  BY FS_CardinalityType
<1>5. Cardinality(D) \in B  BY <1>2, <1>3, <1>4, NatInduct
<1>6. Small(D, Cardinality(D)) = SUBSET D
  <2>1. \A s \in SUBSET D : Cardinality(s) <= Cardinality(D)  BY FS_Subset
  <2> QED BY <2>1 DEF Small
<1>7. PICK g \in [SUBSET D -> Int] : \A s \in SUBSET D : g[s] = At(g, s)
  BY <1>5, <1>6 DEF B
<1>8. g = [s \in SUBSET D |-> At(g, s)]  BY <1>7
<1> QED BY <1>8 DEF AddsUp

\* One turn of the recursion.
LEMMA AddsUpNone ==
  ASSUME NEW D, NEW f, NEW g, AddsUp(g, D, f)
  PROVE  g[{}] = 0
BY DEF AddsUp

\* One turn of it.
LEMMA AddsUpTurn ==
  ASSUME NEW D, NEW f, NEW g, AddsUp(g, D, f), NEW s \in SUBSET D, s # {}
  PROVE  Pick(s) \in s /\ g[s] = f[Pick(s)] + g[s \ {Pick(s)}]
BY PickElement DEF AddsUp

\* What it adds up to depends on the values over the subset only.
LEMMA AddsUpSame ==
  ASSUME NEW D, IsFiniteSet(D), NEW E, NEW f, NEW k, NEW g, NEW h,
         AddsUp(g, D, f), AddsUp(h, E, k), D \subseteq E,
         \A x \in D : f[x] = k[x]
  PROVE  \A s \in SUBSET D : g[s] = h[s]
<1>1. \A s \in SUBSET D : IsFiniteSet(s) /\ Cardinality(s) \in Nat
  BY FS_Subset, FS_CardinalityType
<1> DEFINE C == {n \in Nat : \A s \in SUBSET D :
                               Cardinality(s) = n => g[s] = h[s]}
<1>2. 0 \in C
  <2>1. \A s \in SUBSET D : Cardinality(s) = 0 => s = {}  BY <1>1, FS_EmptySet
  <2>2. g[{}] = 0  BY AddsUpNone
  <2>3. h[{}] = 0  BY AddsUpNone
  <2> QED BY <2>1, <2>2, <2>3
<1>3. ASSUME NEW n \in Nat, n \in C PROVE n + 1 \in C
  <2> SUFFICES ASSUME NEW s \in SUBSET D, Cardinality(s) = n + 1
               PROVE  g[s] = h[s]
    OBVIOUS
  <2>1. s # {}  BY <1>1, FS_EmptySet
  <2>2. Pick(s) \in s /\ g[s] = f[Pick(s)] + g[s \ {Pick(s)}]
    BY <2>1, AddsUpTurn
  <2>3. h[s] = k[Pick(s)] + h[s \ {Pick(s)}]
    <3>1. s \in SUBSET E  OBVIOUS
    <3> QED BY <2>1, <3>1, AddsUpTurn
  <2>4. Cardinality(s \ {Pick(s)}) = n
    <3>1. Cardinality(s \ {Pick(s)}) = Cardinality(s) - 1
      BY <1>1, <2>2, FS_RemoveElement
    <3> QED BY <3>1
  <2>5. g[s \ {Pick(s)}] = h[s \ {Pick(s)}]  BY <1>3, <2>4
  <2> QED BY <2>2, <2>3, <2>5
<1> HIDE DEF C
<1>4. \A n \in Nat : n \in C  BY <1>2, <1>3, NatInduct
<1> QED BY <1>1, <1>4 DEF C

\* Adding an element adds its value, whichever element was chosen first.
Additive(g, D, f) ==
  \A s \in SUBSET D : \A x \in D \ s : g[s \cup {x}] = g[s] + f[x]

\* Any element may be the one that is added, not only the one picked.
LEMMA AddsUpAdd ==
  ASSUME NEW D, IsFiniteSet(D), NEW f \in [D -> Int],
         NEW g \in [SUBSET D -> Int], AddsUp(g, D, f)
  PROVE  Additive(g, D, f)
<1> DEFINE B == {n \in Nat : \A s \in SUBSET D : Cardinality(s) = n =>
                   \A x \in D \ s : g[s \cup {x}] = g[s] + f[x]}
<1>1. \A s \in SUBSET D : IsFiniteSet(s) /\ Cardinality(s) \in Nat
  BY FS_Subset, FS_CardinalityType
<1>2. ASSUME NEW s \in SUBSET D, NEW x \in D \ s, Pick(s \cup {x}) = x
      PROVE  g[s \cup {x}] = g[s] + f[x]
  <2> DEFINE w == s \cup {x}
  <2>1. w \in SUBSET D /\ w # {} /\ Pick(w) = x  BY <1>2
  <2> HIDE DEF w
  <2>2. g[w] = f[x] + g[w \ {x}]  BY <2>1, AddsUpTurn
  <2> USE DEF w
  <2>3. (s \cup {x}) \ {x} = s  OBVIOUS
  <2>4. f[x] \in Int /\ g[s] \in Int  OBVIOUS
  <2>5. f[x] + g[s] = g[s] + f[x]  BY <2>4
  <2> QED BY <2>2, <2>3, <2>5, Zenon
<1>3. 0 \in B
  <2> SUFFICES ASSUME NEW s \in SUBSET D, Cardinality(s) = 0, NEW x \in D \ s
               PROVE  g[s \cup {x}] = g[s] + f[x]
    OBVIOUS
  <2>1. s \cup {x} = {x}  BY <1>1, FS_EmptySet
  <2>2. Pick(s \cup {x}) = x  BY <2>1, PickElement
  <2> QED BY <1>2, <2>2
<1>4. ASSUME NEW n \in Nat, n \in B PROVE n + 1 \in B
  <2> SUFFICES ASSUME NEW s \in SUBSET D, Cardinality(s) = n + 1,
                      NEW x \in D \ s
               PROVE  g[s \cup {x}] = g[s] + f[x]
    OBVIOUS
  <2> DEFINE y == Pick(s \cup {x})
             u == s \ {y}
  <2>1. y \in s \cup {x} /\ g[s \cup {x}] = f[y] + g[(s \cup {x}) \ {y}]
    <3> DEFINE w == s \cup {x}
    <3>1. w \in SUBSET D /\ w # {}  OBVIOUS
    <3> HIDE DEF w
    <3>2. Pick(w) \in w /\ g[w] = f[Pick(w)] + g[w \ {Pick(w)}]
      BY <3>1, AddsUpTurn
    <3> QED BY <3>2, Zenon DEF w
  <2>2. CASE y = x  BY <1>2, <2>2
  <2> HIDE DEF y
  <2>3. CASE y # x
    <3>1. y \in s /\ y \in D \ u /\ u \in SUBSET D /\ x \in D \ u
      BY <2>1, <2>3
    <3>2. Cardinality(u) = n
      <4>1. Cardinality(u) = Cardinality(s) - 1
        BY <1>1, <3>1, FS_RemoveElement
      <4> QED BY <4>1
    <3>3. (s \cup {x}) \ {y} = u \cup {x} /\ s = u \cup {y}
      BY <2>3, <3>1
    <3> HIDE DEF u
    <3>4. g[u \cup {x}] = g[u] + f[x] /\ g[u \cup {y}] = g[u] + f[y]
      BY <1>4, <3>1, <3>2
    <3>5. f[x] \in Int /\ f[y] \in Int /\ g[u] \in Int  BY <3>1
    <3>6. g[s \cup {x}] = f[y] + (g[u] + f[x])
      BY <2>1, <3>3, <3>4, Zenon
    <3>7. f[y] + (g[u] + f[x]) = (g[u] + f[y]) + f[x]  BY <3>5
    <3> QED BY <3>3, <3>4, <3>6, <3>7, Zenon
  <2> QED BY <2>2, <2>3
<1> HIDE DEF B
<1>5. \A n \in Nat : n \in B  BY <1>3, <1>4, NatInduct
<1> QED BY <1>1, <1>5 DEF B, Additive

\* ... and so does adding a disjoint set.
DisjointlyAdditive(g, D) ==
  \A S, T \in SUBSET D : S \cap T = {} => g[S \cup T] = g[S] + g[T]

\* Two disjoint sets add up to the sum of both.
LEMMA AddsUpUnion ==
  ASSUME NEW D, IsFiniteSet(D), NEW f \in [D -> Int],
         NEW g \in [SUBSET D -> Int], AddsUp(g, D, f)
  PROVE  DisjointlyAdditive(g, D)
<1> SUFFICES ASSUME NEW S \in SUBSET D, NEW T \in SUBSET D, S \cap T = {}
             PROVE  g[S \cup T] = g[S] + g[T]
  BY DEF DisjointlyAdditive
<1> DEFINE B == {s \in SUBSET T : g[S \cup s] = g[S] + g[s]}
<1>0. Additive(g, D, f)  BY AddsUpAdd
<1>1. g[S] \in Int  OBVIOUS
<1>2. {} \in B
  <2>1. g[{}] = 0  BY AddsUpNone
  <2>2. S \cup {} = S  OBVIOUS
  <2>3. g[S] + 0 = g[S]  BY <1>1
  <2>4. g[S \cup {}] = g[S] + g[{}]  BY <2>1, <2>2, <2>3, Zenon
  <2> QED BY <2>4
<1>3. ASSUME NEW s \in SUBSET T, NEW x \in T \ s, s \in B
      PROVE  s \cup {x} \in B
  <2>1. s \in SUBSET D /\ S \cup s \in SUBSET D /\ x \in D \ s
        /\ x \in D \ (S \cup s)
    OBVIOUS
  <2>2. g[s \cup {x}] = g[s] + f[x]  BY <1>0, <2>1 DEF Additive
  <2>3. g[(S \cup s) \cup {x}] = g[S \cup s] + f[x]  BY <1>0, <2>1 DEF Additive
  <2>4. (S \cup s) \cup {x} = S \cup (s \cup {x})  OBVIOUS
  <2>5. f[x] \in Int /\ g[s] \in Int  BY <2>1
  <2>6. g[S \cup s] = g[S] + g[s]  BY <1>3
  <2>7. (g[S] + g[s]) + f[x] = g[S] + (g[s] + f[x])  BY <1>1, <2>5
  <2>8. g[S \cup (s \cup {x})] = g[S] + g[s \cup {x}]
    BY <2>2, <2>3, <2>4, <2>6, <2>7, Zenon
  <2> QED BY <2>8
<1>4. IsFiniteSet(T)  BY FS_Subset
<1>5. \A s \in SUBSET T : s \in B
  <2> HIDE DEF B
  <2> QED BY <1>2, <1>3, <1>4, SubsetInduct
<1> QED BY <1>5
-----------------------------------------------------------------------------
(***************************************************************************)
(* The least and the greatest value of a finite set of integers.           *)
(***************************************************************************)
IsLeast(m, S) == m \in S /\ \A x \in S : m <= x

IsGreatest(m, S) == m \in S /\ \A x \in S : m >= x

\* A finite set of numbers has a least one, and Min is it.
LEMMA MinIsLeast ==
  ASSUME NEW S \in SUBSET Int, IsFiniteSet(S), S # {}
  PROVE  IsLeast(Min(S), S)
<1> DEFINE B == {s \in SUBSET S : s = {} \/ \E m \in s : IsLeast(m, s)}
<1>1. {} \in B  OBVIOUS
<1>2. ASSUME NEW s \in SUBSET S, NEW x \in S \ s, s \in B
      PROVE  s \cup {x} \in B
  <2>1. x \in Int /\ \A y \in s : y \in Int  OBVIOUS
  <2>2. CASE s = {}
    <3>1. IsLeast(x, s \cup {x})  BY <2>1, <2>2 DEF IsLeast
    <3> QED BY <3>1
  <2>3. CASE s # {}
    <3>1. PICK m \in s : IsLeast(m, s)  BY <1>2, <2>3
    <3>2. CASE m <= x
      <4>1. IsLeast(m, s \cup {x})  BY <2>1, <3>1, <3>2 DEF IsLeast
      <4> QED BY <4>1
    <3>3. CASE ~(m <= x)
      <4>1. \A y \in s : x <= y  BY <2>1, <3>1, <3>3 DEF IsLeast
      <4>2. IsLeast(x, s \cup {x})  BY <2>1, <4>1 DEF IsLeast
      <4> QED BY <4>2
    <3> QED BY <3>2, <3>3
  <2> QED BY <2>2, <2>3
<1>3. \A s \in SUBSET S : s \in B
  <2> HIDE DEF B
  <2> QED BY <1>1, <1>2, SubsetInduct
<1>4. \E m \in S : IsLeast(m, S)  BY <1>3
<1> QED BY <1>4, Zenon DEF Min, IsLeast

\* A finite set of numbers has a greatest one, and Max is it.
LEMMA MaxIsGreatest ==
  ASSUME NEW S \in SUBSET Int, IsFiniteSet(S), S # {}
  PROVE  IsGreatest(Max(S), S)
<1> DEFINE B == {s \in SUBSET S : s = {} \/ \E m \in s : IsGreatest(m, s)}
<1>1. {} \in B  OBVIOUS
<1>2. ASSUME NEW s \in SUBSET S, NEW x \in S \ s, s \in B
      PROVE  s \cup {x} \in B
  <2>1. x \in Int /\ \A y \in s : y \in Int  OBVIOUS
  <2>2. CASE s = {}
    <3>1. IsGreatest(x, s \cup {x})  BY <2>1, <2>2 DEF IsGreatest
    <3> QED BY <3>1
  <2>3. CASE s # {}
    <3>1. PICK m \in s : IsGreatest(m, s)  BY <1>2, <2>3
    <3>2. CASE m >= x
      <4>1. IsGreatest(m, s \cup {x})  BY <2>1, <3>1, <3>2 DEF IsGreatest
      <4> QED BY <4>1
    <3>3. CASE ~(m >= x)
      <4>1. \A y \in s : x >= y  BY <2>1, <3>1, <3>3 DEF IsGreatest
      <4>2. IsGreatest(x, s \cup {x})  BY <2>1, <4>1 DEF IsGreatest
      <4> QED BY <4>2
    <3> QED BY <3>2, <3>3
  <2> QED BY <2>2, <2>3
<1>3. \A s \in SUBSET S : s \in B
  <2> HIDE DEF B
  <2> QED BY <1>1, <1>2, SubsetInduct
<1>4. \E m \in S : IsGreatest(m, S)  BY <1>3
<1> QED BY <1>4, Zenon DEF Max, IsGreatest

\* Of two sets of integers: what the two comparisons of multi_func keep.
LEMMA ExtremesOfUnion ==
  ASSUME NEW S \in SUBSET Int, IsFiniteSet(S), S # {},
         NEW T \in SUBSET Int, IsFiniteSet(T), T # {}
  PROVE  /\ Min(S \cup T) = IF Min(S) > Min(T) THEN Min(T) ELSE Min(S)
         /\ Max(S \cup T) = IF Max(S) < Max(T) THEN Max(T) ELSE Max(S)
<1> DEFINE U == S \cup T
<1>1. U \in SUBSET Int /\ IsFiniteSet(U) /\ U # {}  BY FS_Union
<1> HIDE DEF U
<1>2. IsLeast(Min(S), S) /\ IsLeast(Min(T), T) /\ IsLeast(Min(U), U)
  BY <1>1, MinIsLeast
<1>3. IsGreatest(Max(S), S) /\ IsGreatest(Max(T), T) /\ IsGreatest(Max(U), U)
  BY <1>1, MaxIsGreatest
<1>4. \A x : x \in U <=> x \in S \/ x \in T  BY DEF U
<1>5. Min(U) = IF Min(S) > Min(T) THEN Min(T) ELSE Min(S)
  <2> DEFINE i == Min(S)
             j == Min(T)
             k == Min(U)
  <2>1. i \in Int /\ j \in Int /\ k \in Int  BY <1>1, <1>2 DEF IsLeast
  <2>2. k <= i /\ k <= j /\ (k \in S => i <= k) /\ (k \in T => j <= k)
    BY <1>2, <1>4 DEF IsLeast
  <2>3. k \in S \/ k \in T  BY <1>2, <1>4 DEF IsLeast
  <2> HIDE DEF i, j, k
  <2>4. k = IF i > j THEN j ELSE i  BY <2>1, <2>2, <2>3
  <2> QED BY <2>4 DEF i, j, k
<1>6. Max(U) = IF Max(S) < Max(T) THEN Max(T) ELSE Max(S)
  <2> DEFINE i == Max(S)
             j == Max(T)
             k == Max(U)
  <2>1. i \in Int /\ j \in Int /\ k \in Int  BY <1>1, <1>3 DEF IsGreatest
  <2>2. k >= i /\ k >= j /\ (k \in S => i >= k) /\ (k \in T => j >= k)
    BY <1>3, <1>4 DEF IsGreatest
  <2>3. k \in S \/ k \in T  BY <1>3, <1>4 DEF IsGreatest
  <2> HIDE DEF i, j, k
  <2>4. k = IF i < j THEN j ELSE i  BY <2>1, <2>2, <2>3
  <2> QED BY <2>4 DEF i, j, k
<1> QED BY <1>5, <1>6 DEF U
-----------------------------------------------------------------------------
(***************************************************************************)
(* What rank r measures for a pulse and a number of metrics that add up to *)
(* ts, and R(S, ts): the reduction of that over the processes of S.        *)
(***************************************************************************)
Sample(r, ts) == Metric[r][ts % 2]

\* What a process measures is an integer.
LEMMA SampleType ==
  ASSUME NEW r \in Rank, NEW ts \in Nat
  PROVE  Sample(r, ts) \in Int
<1>1. ts % 2 \in 0 .. 1  OBVIOUS
<1>2. Metric[r] \in [0 .. 1 -> Int]  BY AggregationAssumption
<1> QED BY <1>1, <1>2 DEF Sample

R(S, ts) == Reduced([r \in S |-> Sample(r, ts)])

\* The values measured by the processes of S.
Values(S, ts) == {Sample(r, ts) : r \in S}

\* There are finitely many processes.
LEMMA RankFinite == IsFiniteSet(Rank)
BY TopologyAssumption, FS_Interval DEF Rank

\* The three fields of what the processes of S measure at pulse ts.
LEMMA RFields ==
  ASSUME NEW S, NEW ts
  PROVE  R(S, ts) = [min |-> Min(Values(S, ts)), max |-> Max(Values(S, ts)),
                     sum |-> Total([r \in S |-> Sample(r, ts)])]
<1>1. Range([r \in S |-> Sample(r, ts)]) = Values(S, ts)
  BY DEF Range, Values
<1> QED BY <1>1 DEF R, Reduced, Total

\* One function gives the sums over all sets of processes.
LEMMA TotalOfRanks ==
  ASSUME NEW ts \in Nat
  PROVE  \E g \in [SUBSET Rank -> Int] :
           /\ AddsUp(g, Rank, [r \in Rank |-> Sample(r, ts)])
           /\ \A S \in SUBSET Rank :
                Total([r \in S |-> Sample(r, ts)]) = g[S]
<1> DEFINE F(S) == [r \in S |-> Sample(r, ts)]
<1>1. ASSUME NEW S \in SUBSET Rank
      PROVE  F(S) \in [S -> Int] /\ IsFiniteSet(S)
  BY SampleType, RankFinite, FS_Subset
<1>2. PICK g \in [SUBSET Rank -> Int] : AddsUp(g, Rank, F(Rank))
  <2> HIDE DEF F
  <2> QED BY <1>1, AddsUpExists
<1>3. ASSUME NEW S \in SUBSET Rank PROVE Total(F(S)) = g[S]
  <2> DEFINE h == CHOOSE u : AddsUp(u, S, F(S))
  <2>1. DOMAIN F(S) = S /\ \A r \in S : F(S)[r] = F(Rank)[r]  OBVIOUS
  <2> HIDE DEF F
  <2>2. AddsUp(h, S, F(S))  BY <1>1, AddsUpExists, Zenon
  <2>3. Total(F(S)) = h[S]  BY <2>1, TotalIsChosen, Zenon
  <2> HIDE DEF h
  <2>4. \A s \in SUBSET S : h[s] = g[s]
    BY <1>1, <1>2, <2>1, <2>2, AddsUpSame
  <2> QED BY <2>3, <2>4
<1> QED BY <1>2, <1>3

\* A process's own measurement is the reduction over itself.
LEMMA ROfOne ==
  ASSUME NEW n \in Rank, NEW t \in Nat, NEW number \in Nat
  PROVE  R({n}, t + number) = OwnInfo(n, t, number)
<1> DEFINE ts == t + number
           v == Sample(n, ts)
<1>0. ts \in Nat /\ v = Measured(n, t, number)  BY DEF Sample, Measured
<1> HIDE DEF ts
<1>1. v \in Int  BY <1>0, SampleType
<1>2. Values({n}, ts) = {v}  BY DEF Values
<1>3. IsFiniteSet({v})  BY FS_Singleton
<1> HIDE DEF v
<1>4. Min({v}) = v /\ Max({v}) = v
  BY <1>1, <1>3, MinIsLeast, MaxIsGreatest DEF IsLeast, IsGreatest
<1>5. Total([r \in {n} |-> Sample(r, ts)]) = v
  <2>1. PICK g \in [SUBSET Rank -> Int] :
               /\ AddsUp(g, Rank, [r \in Rank |-> Sample(r, ts)])
               /\ \A S \in SUBSET Rank :
                    Total([r \in S |-> Sample(r, ts)]) = g[S]
    BY <1>0, TotalOfRanks
  <2> DEFINE f == [r \in Rank |-> Sample(r, ts)]
             s == {n}
  <2>2. f[n] = v  BY DEF v
  <2>3. s \in SUBSET Rank /\ s # {} /\ s \ {n} = {} /\ \A x \in s : x = n
    OBVIOUS
  <2> HIDE DEF s, f
  <2>4. AddsUp(g, Rank, f)  BY <2>1 DEF f
  <2>5. Pick(s) \in s /\ g[s] = f[Pick(s)] + g[s \ {Pick(s)}]
    BY <2>3, <2>4, AddsUpTurn
  <2>6. g[{}] = 0  BY <2>4, AddsUpNone
  <2>7. g[s] = v + 0
    <3>1. Pick(s) = n  BY <2>3, <2>5
    <3> QED BY <2>2, <2>3, <2>5, <2>6, <3>1, Zenon
  <2>8. g[s] = v  BY <1>1, <2>7
  <2> QED BY <2>1, <2>3, <2>8 DEF s
<1>6. R({n}, ts) = [min |-> v, max |-> v, sum |-> v]
  BY <1>2, <1>4, <1>5, RFields
<1> QED BY <1>0, <1>6, Zenon DEF OwnInfo, ts

\* Merging two reductions reduces over the union.
LEMMA CombineR ==
  ASSUME NEW S \in SUBSET Rank, S # {}, NEW T \in SUBSET Rank, T # {},
         S \cap T = {}, NEW ts \in Nat
  PROVE  Combine(R(S, ts), R(T, ts)) = R(S \cup T, ts)
<1> DEFINE V == Values(S, ts)
           W == Values(T, ts)
           F(X) == [r \in X |-> Sample(r, ts)]
<1>1. ASSUME NEW X \in SUBSET Rank, X # {}
      PROVE  /\ Values(X, ts) \in SUBSET Int /\ Values(X, ts) # {}
             /\ IsFiniteSet(Values(X, ts))
  <2>1. IsFiniteSet(X)  BY RankFinite, FS_Subset
  <2>2. Values(X, ts) \in SUBSET Int /\ Values(X, ts) # {}
    BY <1>1, SampleType DEF Values
  <2>3. IsFiniteSet(Values(X, ts))
    <3> DEFINE f == [r \in X |-> Sample(r, ts)]
    <3>1. f \in Surjection(X, Values(X, ts))
      BY DEF Surjection, Values
    <3> HIDE DEF f
    <3> QED BY <2>1, <3>1, FS_Surjection
  <2> QED BY <2>2, <2>3
<1>2. Values(S \cup T, ts) = V \cup W  BY DEF Values
<1>3. /\ Min(V \cup W) = IF Min(V) > Min(W) THEN Min(W) ELSE Min(V)
      /\ Max(V \cup W) = IF Max(V) < Max(W) THEN Max(W) ELSE Max(V)
  <2> HIDE DEF V, W
  <2> QED BY <1>1, ExtremesOfUnion DEF V, W
<1>4. Total(F(S \cup T)) = Total(F(S)) + Total(F(T))
  <2>1. PICK g \in [SUBSET Rank -> Int] :
               /\ AddsUp(g, Rank, F(Rank))
               /\ \A X \in SUBSET Rank : Total(F(X)) = g[X]
    BY TotalOfRanks
  <2>2. F(Rank) \in [Rank -> Int]  BY SampleType
  <2> HIDE DEF F
  <2> DEFINE f == F(Rank)
  <2>3. f \in [Rank -> Int] /\ AddsUp(g, Rank, f)  BY <2>1, <2>2
  <2> HIDE DEF f
  <2>5. DisjointlyAdditive(g, Rank)  BY <2>3, RankFinite, AddsUpUnion
  <2>6. g[S \cup T] = g[S] + g[T]  BY <2>5 DEF DisjointlyAdditive
  <2>4. S \cup T \in SUBSET Rank  OBVIOUS
  <2> QED BY <2>1, <2>4, <2>6
<1> HIDE DEF V, W, F
<1>5. /\ R(S, ts) = [min |-> Min(V), max |-> Max(V), sum |-> Total(F(S))]
      /\ R(T, ts) = [min |-> Min(W), max |-> Max(W), sum |-> Total(F(T))]
      /\ R(S \cup T, ts) = [min |-> Min(V \cup W), max |-> Max(V \cup W),
                            sum |-> Total(F(S \cup T))]
  BY <1>2, RFields, Zenon DEF V, W, F
<1> QED BY <1>3, <1>4, <1>5 DEF Combine
-----------------------------------------------------------------------------
(***************************************************************************)
(* Sub(r): the processes of the subtree of r, the least set that holds r   *)
(* and the children of whatever it holds.                                  *)
(***************************************************************************)
Closed(S) == \A y \in S : children(y) \subseteq S

Sub(r) == {x \in Rank : \A S \in SUBSET Rank : r \in S /\ Closed(S) => x \in S}

\* The subtree is the least closed set that contains its root.
LEMMA SubLeast ==
  ASSUME NEW r \in Rank, NEW S \in SUBSET Rank, r \in S, Closed(S)
  PROVE  Sub(r) \subseteq S
BY DEF Sub

\* The subtree is itself closed and contains its root.
LEMMA SubClosed ==
  ASSUME NEW r \in Rank
  PROVE  /\ Sub(r) \in SUBSET Rank /\ r \in Sub(r) /\ Closed(Sub(r))
<1>1. Sub(r) \in SUBSET Rank /\ r \in Sub(r)  BY DEF Sub
<1>2. ASSUME NEW y \in Sub(r), NEW c \in children(y) PROVE c \in Sub(r)
  <2>1. y \in Rank  BY <1>1
  <2>2. c \in Rank  BY <2>1, ChildrenHaveParent
  <2>3. ASSUME NEW S \in SUBSET Rank, r \in S, Closed(S) PROVE c \in S
    BY <2>3 DEF Sub, Closed
  <2> QED BY <2>2, <2>3 DEF Sub
<1> QED BY <1>1, <1>2 DEF Closed

\* A child's subtree is part of its parent's.
LEMMA SubOfChild ==
  ASSUME NEW r \in Rank, NEW c \in children(r)
  PROVE  /\ c \in Rank /\ c # ROOT /\ get_parent(c) = r /\ r < c
         /\ Sub(c) \subseteq Sub(r)
<1>1. c \in Rank /\ c # ROOT /\ get_parent(c) = r  BY ChildrenHaveParent
<1>2. r < c  BY <1>1, ParentIsBelow
<1>3. c \in Sub(r)  BY SubClosed DEF Closed
<1> QED BY <1>1, <1>2, <1>3, SubClosed, SubLeast

\* A subtree is its top and the subtrees of the children.
LEMMA SubUnfold ==
  ASSUME NEW r \in Rank
  PROVE  Sub(r) = {r} \cup UNION {Sub(c) : c \in children(r)}
<1> DEFINE S == {r} \cup UNION {Sub(c) : c \in children(r)}
<1>1. S \subseteq Sub(r)  BY SubClosed, SubOfChild
<1>2. S \in SUBSET Rank /\ r \in S  BY <1>1, SubClosed
<1>3. ASSUME NEW y \in S, NEW x \in children(y) PROVE x \in S
  <2>1. CASE y = r
    <3>1. x \in children(r)  BY <2>1
    <3>2. x \in Rank  BY <3>1, SubOfChild
    <3>3. x \in Sub(x)  BY <3>2, SubClosed
    <3> QED BY <3>1, <3>3
  <2>2. ASSUME NEW c \in children(r), y \in Sub(c) PROVE x \in S
    <3>1. c \in Rank  BY SubOfChild
    <3>2. x \in Sub(c)  BY <2>2, <3>1, SubClosed DEF Closed
    <3> QED BY <3>2
  <2> QED BY <2>1, <2>2
<1>4. Sub(r) \subseteq S
  <2>1. Closed(S)  BY <1>3 DEF Closed
  <2> HIDE DEF S
  <2> QED BY <1>2, <2>1, SubLeast
<1> QED BY <1>1, <1>4

\* Ranks are numbers.
LEMMA RankInt == \A r \in Rank : r \in Int
BY RankType

\* A subtree lies above its top, and goes up to it from every other rank.
LEMMA SubUpwards ==
  ASSUME NEW r \in Rank, NEW x \in Sub(r)
  PROVE  /\ x \in Rank /\ x >= r
         /\ x # r => x # ROOT /\ get_parent(x) \in Sub(r)
<1> DEFINE S == {y \in Sub(r) : /\ y >= r
                                /\ y # r => y # ROOT /\ get_parent(y) \in Sub(r)}
<1>1. Sub(r) \in SUBSET Rank /\ r \in Sub(r) /\ Closed(Sub(r))
  BY SubClosed
<1>2. S \in SUBSET Rank /\ r \in S  BY <1>1, RankType
<1>3. ASSUME NEW y \in S, NEW c \in children(y) PROVE c \in S
  <2>1. y \in Rank /\ y \in Sub(r) /\ y >= r  BY <1>1
  <2>2. c \in Rank /\ c # ROOT /\ get_parent(c) = y /\ y < c
    BY <2>1, SubOfChild
  <2>3. c \in Sub(r)  BY <1>1, <2>1 DEF Closed
  <2>4. c >= r  BY <2>1, <2>2, RankType
  <2> QED BY <2>1, <2>2, <2>3, <2>4
<1>4. Sub(r) \subseteq S
  <2>1. Closed(S)  BY <1>3 DEF Closed
  <2> HIDE DEF S
  <2> QED BY <1>2, <2>1, SubLeast
<1> QED BY <1>1, <1>4

\* The subtrees of two children of a process have nothing in common.
LEMMA SiblingsDisjoint ==
  ASSUME NEW r \in Rank, NEW c \in children(r), NEW d \in children(r), c # d
  PROVE  Sub(c) \cap Sub(d) = {}
<1> DEFINE S == Sub(c) \cap Sub(d)
           x == Min(S)
<1>1. /\ c \in Rank /\ c # ROOT /\ get_parent(c) = r /\ r < c
      /\ d \in Rank /\ d # ROOT /\ get_parent(d) = r /\ r < d
  BY SubOfChild
<1> SUFFICES ASSUME S # {} PROVE FALSE  OBVIOUS
<1>2. S \in SUBSET Nat  BY <1>1, SubClosed, RankType
<1>3. x \in S /\ \A y \in S : x <= y  BY <1>2, MinOfNaturals
<1> HIDE DEF x
<1>4. /\ x \in Rank
      /\ x # c => x # ROOT /\ get_parent(x) \in Sub(c)
      /\ x # d => x # ROOT /\ get_parent(x) \in Sub(d)
  BY <1>1, <1>3, SubUpwards
<1>5. x # c
  <2> SUFFICES ASSUME x = c PROVE FALSE  OBVIOUS
  <2>1. r \in Sub(d)  BY <1>1, <1>4
  <2>2. r >= d  BY <1>1, <2>1, SubUpwards
  <2> QED BY <1>1, <2>2, RankType
<1>6. x # d
  <2> SUFFICES ASSUME x = d PROVE FALSE  OBVIOUS
  <2>1. r \in Sub(c)  BY <1>1, <1>4
  <2>2. r >= c  BY <1>1, <2>1, SubUpwards
  <2> QED BY <1>1, <2>2, RankType
<1>7. get_parent(x) \in S  BY <1>4, <1>5, <1>6
<1>8. get_parent(x) < x /\ get_parent(x) \in Rank
  BY <1>4, <1>5, ParentIsBelow
<1>9. x <= get_parent(x)  BY <1>3, <1>7
<1>10. x \in Int /\ get_parent(x) \in Int  BY <1>4, <1>8, RankInt
<1> HIDE DEF S
<1> QED BY <1>8, <1>9, <1>10

\* Every process is in the subtree of the root.
LEMMA SubOfRoot == Sub(ROOT) = Rank
<1> DEFINE S == Rank \ Sub(ROOT)
           x == Min(S)
<1>1. Sub(ROOT) \in SUBSET Rank /\ ROOT \in Sub(ROOT) /\ Closed(Sub(ROOT))
  BY RankType, SubClosed
<1> SUFFICES ASSUME S # {} PROVE FALSE  BY <1>1
<1>2. S \in SUBSET Nat  BY RankType
<1>3. x \in S /\ \A y \in S : x <= y  BY <1>2, MinOfNaturals
<1> HIDE DEF x
<1>4. x \in Rank /\ x # ROOT /\ x \notin Sub(ROOT)  BY <1>1, <1>3
<1>5. get_parent(x) \in Rank /\ get_parent(x) < x  BY <1>4, ParentIsBelow
<1>6. get_parent(x) \in Sub(ROOT)
  <2> SUFFICES ASSUME get_parent(x) \in S PROVE FALSE  BY <1>5
  <2>1. x <= get_parent(x)  BY <1>3
  <2>2. x \in Int /\ get_parent(x) \in Int  BY <1>4, <1>5, RankInt
  <2> HIDE DEF S
  <2> QED BY <1>5, <2>1, <2>2
<1>7. x \in children(get_parent(x))  BY <1>4, <1>5, ChildrenHaveParent
<1> QED BY <1>1, <1>4, <1>6, <1>7 DEF Closed

\* A leaf has no children, and is its subtree.
LEMMA SubOfLeaf ==
  ASSUME NEW l \in Leaf
  PROVE  children(l) = {} /\ Sub(l) = {l}
<1>1. l \in Rank  BY DEF Leaf
<1>2. ASSUME NEW c \in children(l) PROVE FALSE
  <2>1. c \in Rank /\ c # ROOT /\ get_parent(c) = l  BY <1>1, SubOfChild
  <2>2. l \in NonLeaf  BY <2>1, ParentIsNotLeaf
  <2> QED BY <2>2 DEF NonLeaf
<1>3. children(l) = {}  BY <1>2
<1> QED BY <1>1, <1>3, SubUnfold
-----------------------------------------------------------------------------
(***************************************************************************)
(* What multi_func of n merges in a pulse: the events of its children and  *)
(* its own.  Part(n, x) are the processes the event of x speaks for.       *)
(***************************************************************************)
Source(n) == children(n) \cup {n}

Part(n, x) == IF x = n THEN {n} ELSE Sub(x)

Cover(n, X) == UNION {Part(n, x) : x \in X}

\* A process has one source more than it has children: itself.
LEMMA SourceCount ==
  ASSUME NEW n \in Rank
  PROVE  /\ IsFiniteSet(Source(n)) /\ n \notin children(n)
         /\ Source(n) \in SUBSET Rank
         /\ Cardinality(Source(n)) = get_degree_node(n) + 1
<1>1. n \notin children(n)
  <2> SUFFICES ASSUME n \in children(n) PROVE FALSE  OBVIOUS
  <2>1. n < n  BY SubOfChild
  <2> QED BY <2>1, RankType
<1>2. IsFiniteSet(children(n)) /\ Cardinality(children(n)) = get_degree_node(n)
  BY ChildrenCount
<1>3. Source(n) \in SUBSET Rank  BY ChildrenHaveParent DEF Source
<1> QED BY <1>1, <1>2, <1>3, FS_AddElement DEF Source

\* No process is in the parts of two sources.
LEMMA PartsDisjoint ==
  ASSUME NEW n \in Rank, NEW x \in Source(n)
  PROVE  /\ Part(n, x) \in SUBSET Rank /\ Part(n, x) # {}
         /\ \A y \in Source(n) : y # x => Part(n, x) \cap Part(n, y) = {}
<1>1. n \notin children(n)  BY SourceCount
<1>2. ASSUME NEW c \in children(n)
      PROVE  /\ c # n /\ Part(n, c) = Sub(c) /\ n \notin Sub(c)
             /\ Sub(c) \in SUBSET Rank /\ c \in Sub(c)
  <2>1. c \in Rank /\ n < c  BY SubOfChild
  <2>2. n \notin Sub(c)
    <3> SUFFICES ASSUME n \in Sub(c) PROVE FALSE  OBVIOUS
    <3>1. n >= c  BY <2>1, SubUpwards
    <3> QED BY <2>1, <3>1, RankType
  <2>3. c # n  BY <1>1
  <2> QED BY <2>1, <2>2, <2>3, SubClosed DEF Part
<1>3. Part(n, n) = {n}  BY DEF Part
<1>4. Part(n, x) \in SUBSET Rank /\ Part(n, x) # {}
  BY <1>2, <1>3 DEF Source
<1>5. ASSUME NEW y \in Source(n), y # x
      PROVE  Part(n, x) \cap Part(n, y) = {}
  <2>1. CASE x = n
    <3>1. y \in children(n)  BY <1>5, <2>1 DEF Source
    <3> QED BY <1>2, <1>3, <2>1, <3>1
  <2>2. CASE y = n
    <3>1. x \in children(n)  BY <1>5, <2>2 DEF Source
    <3> QED BY <1>2, <1>3, <2>2, <3>1
  <2>3. CASE x # n /\ y # n
    <3>1. x \in children(n) /\ y \in children(n)  BY <2>3 DEF Source
    <3>2. Sub(x) \cap Sub(y) = {}  BY <1>5, <3>1, SiblingsDisjoint
    <3> QED BY <1>2, <3>1, <3>2
  <2> QED BY <2>1, <2>2, <2>3
<1> QED BY <1>4, <1>5

\* All of them together speak for the subtree of n.
LEMMA CoverAll ==
  ASSUME NEW n \in Rank
  PROVE  Cover(n, Source(n)) = Sub(n)
<1>1. n \notin children(n)  BY SourceCount
<1>2. Part(n, n) = {n}  BY DEF Part
<1>3. \A c \in children(n) : Part(n, c) = Sub(c)  BY <1>1 DEF Part
<1>4. Cover(n, Source(n)) = {n} \cup UNION {Sub(c) : c \in children(n)}
  BY <1>2, <1>3 DEF Cover, Source
<1> QED BY <1>4, SubUnfold

\* One source covers its part.
LEMMA CoverOne == ASSUME NEW n, NEW x PROVE Cover(n, {x}) = Part(n, x)
BY DEF Cover

\* One more event merged.
LEMMA CoverAdd ==
  ASSUME NEW n \in Rank, NEW X \in SUBSET Source(n), X # {},
         NEW x \in Source(n) \ X, NEW ts \in Nat
  PROVE  Combine(R(Cover(n, X), ts), R(Part(n, x), ts))
           = R(Cover(n, X \cup {x}), ts)
<1>1. Part(n, x) \in SUBSET Rank /\ Part(n, x) # {}  BY PartsDisjoint
<1>2. Cover(n, X) \in SUBSET Rank /\ Cover(n, X) # {}
  BY PartsDisjoint DEF Cover
<1>3. Cover(n, X) \cap Part(n, x) = {}
  <2> SUFFICES ASSUME NEW y \in X, NEW z, z \in Part(n, y), z \in Part(n, x)
               PROVE  FALSE
    BY DEF Cover
  <2>1. y \in Source(n) /\ x \in Source(n) /\ y # x  OBVIOUS
  <2>2. Part(n, x) \cap Part(n, y) = {}  BY <2>1, PartsDisjoint
  <2> QED BY <2>2
<1>4. Cover(n, X) \cup Part(n, x) = Cover(n, X \cup {x})  BY DEF Cover
<1> QED BY <1>1, <1>2, <1>3, <1>4, CombineR
=============================================================================
