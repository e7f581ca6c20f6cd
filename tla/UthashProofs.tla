---------------------------- MODULE UthashProofs ----------------------------
(***************************************************************************)
(* The hash table's pointers.  The table holds a sequence of elements that *)
(* its list of all elements spells, and every bucket another one, of those *)
(* of them that belong there.  What the program finds by following the     *)
(* pointers are these sequences, and each operation changes them as one    *)
(* expects, the doubling of the buckets included.                          *)
(***************************************************************************)
EXTENDS Uthash, FiniteSetTheorems, FunctionTheorems, SequenceTheorems,
        WellFoundedInduction, TLAPS

\* Induction, for sets of natural numbers.
LEMMA NatSet ==
  ASSUME NEW S, 0 \in S, \A n \in Nat : n \in S => n + 1 \in S
  PROVE  Nat \subseteq S
<1> DEFINE Below == {p \in Nat \X Nat : p[1] < p[2]}
<1>1. IsWellFoundedOn(Below, Nat)  BY NatLessThanWellFounded DEF OpToRel
<1>2. ASSUME Nat \ S # {} PROVE FALSE
  <2>1. PICK n \in Nat \ S : \A m \in Nat \ S : <<m, n>> \notin Below
    <3> HIDE DEF Below
    <3>1. Nat \ S \subseteq Nat  OBVIOUS
    <3> QED BY <1>1, <1>2, <3>1, WFMin
  <2>2. \A m \in Nat \ S : ~(m < n)  BY <2>1
  <2>3. n # 0  OBVIOUS
  <2>4. n - 1 \in S  BY <2>2, <2>3
  <2> QED BY <2>3, <2>4
<1> QED BY <1>2

\* And up to a bound.
LEMMA UpTo ==
  ASSUME NEW S, NEW m \in Nat, 0 \in S, \A n \in 0 .. m - 1 : n \in S => n + 1 \in S
  PROVE  0 .. m \subseteq S
<1> DEFINE T == {n \in Nat : n <= m => n \in S}
<1>1. 0 \in T  OBVIOUS
<1>2. ASSUME NEW n \in Nat, n \in T PROVE n + 1 \in T  BY <1>2
<1>3. Nat \subseteq T
  <2> HIDE DEF T
  <2> QED BY <1>1, <1>2, NatSet
<1> QED BY <1>3

\* A set of natural numbers has a least one, which Min is.
LEMMA MinIn ==
  ASSUME NEW S \in SUBSET Nat, S # {}
  PROVE  Min(S) \in S /\ \A n \in S : Min(S) <= n
<1> DEFINE Below == {p \in Nat \X Nat : p[1] < p[2]}
<1>1. IsWellFoundedOn(Below, Nat)  BY NatLessThanWellFounded DEF OpToRel
<1>2. PICK n \in S : \A m \in S : <<m, n>> \notin Below
  <2> HIDE DEF Below
  <2> QED BY <1>1, WFMin
<1>3. ASSUME NEW m \in S PROVE n <= m
  <2>1. m \in Nat /\ n \in Nat  OBVIOUS
  <2>2. ~(m < n)  BY <1>2, <2>1
  <2> QED BY <2>1, <2>2
<1> QED BY <1>3, Zenon DEF Min
-----------------------------------------------------------------------------
(***************************************************************************)
(* Doubly linked lists, as the sequence of their elements.                 *)
(***************************************************************************)
Entry(s, i) == IF i \in 1 .. Len(s) THEN s[i] ELSE NULL

IsList(s, start, next, prev) ==
  /\ s \in Seq(Elem)
  /\ \A i, j \in 1 .. Len(s) : s[i] = s[j] => i = j
  /\ start = Entry(s, 1)
  /\ \A i \in 1 .. Len(s) : /\ next[s[i]] = Entry(s, i + 1)
                            /\ prev[s[i]] = Entry(s, i - 1)

\* No longer than there are elements.
LEMMA NotLonger ==
  ASSUME NEW s \in Seq(Elem), \A i, j \in 1 .. Len(s) : s[i] = s[j] => i = j
  PROVE  /\ Len(s) <= Cardinality(Elem) /\ Cardinality(Elem) \in Nat
         /\ Len(s) = Cardinality(Range(s)) /\ Len(s) \in Nat
<1>1. PICK n \in Nat : n = Len(s)  OBVIOUS
<1>2. s \in [1 .. n -> Range(s)] /\ Range(s) \subseteq Elem  BY <1>1 DEF Range
<1>3. s \in Bijection(1 .. n, Range(s))
  <2>1. s \in Injection(1 .. n, Range(s))
    BY <1>1, <1>2 DEF Injection, IsInjective
  <2>2. s \in Surjection(1 .. n, Range(s))
    BY <1>1, <1>2 DEF Surjection, Range
  <2> QED BY <2>1, <2>2 DEF Bijection
<1>4. Cardinality(1 .. n) = n /\ IsFiniteSet(1 .. n)  BY FS_Interval
<1>5. ExistsBijection(1 .. n, Range(s))  BY <1>3 DEF ExistsBijection
<1>6. Cardinality(Range(s)) = n  BY <1>4, <1>5, FS_Bijection
<1>7. IsFiniteSet(Elem)  BY UthashAssumption
<1>8. Cardinality(Range(s)) <= Cardinality(Elem)  BY <1>2, <1>7, FS_Subset
<1> QED BY <1>1, <1>6, <1>7, <1>8, FS_CardinalityType

\* Following the pointers spells the list.
LEMMA WalkList ==
  ASSUME NEW s, NEW start, NEW next, NEW prev, IsList(s, start, next, prev)
  PROVE  Walk(start, next) = s
<1> DEFINE Follows(f) ==
             f = [i \in 0 .. Cardinality(Elem) |->
                    IF i = 0 THEN start
                    ELSE IF f[i - 1] = NULL THEN NULL ELSE next[f[i - 1]]]
           at == CHOOSE f : Follows(f)
<1>1. PICK N \in Nat : N = Cardinality(Elem)  BY NotLonger DEF IsList
<1>2. PICK n \in Nat : n = Len(s) /\ n <= N
  BY <1>1, NotLonger DEF IsList
<1>3. NULL \notin Elem /\ s \in [1 .. n -> Elem]
  BY <1>2, UthashAssumption DEF IsList
<1> DEFINE g == [i \in 0 .. N |-> Entry(s, i + 1)]
<1>4. \A i \in Nat : Entry(s, i) = IF i \in 1 .. n THEN s[i] ELSE NULL
  BY <1>2 DEF Entry
<1>5. Entry(s, 1) = start  BY DEF IsList
<1>6. ASSUME NEW i \in 1 .. N
      PROVE  g[i] = IF g[i - 1] = NULL THEN NULL ELSE next[g[i - 1]]
  <2>1. g[i - 1] = Entry(s, i) /\ g[i] = Entry(s, i + 1)  OBVIOUS
  <2>2. CASE i \in 1 .. n
    <3>1. Entry(s, i) = s[i] /\ s[i] # NULL  BY <1>3, <1>4, <2>2
    <3>2. next[s[i]] = Entry(s, i + 1)  BY <1>2, <2>2 DEF IsList
    <3> QED BY <2>1, <3>1, <3>2
  <2>3. CASE i \notin 1 .. n
    <3>1. Entry(s, i) = NULL /\ Entry(s, i + 1) = NULL
      BY <1>2, <1>4, <2>3
    <3> QED BY <2>1, <3>1
  <2> QED BY <2>2, <2>3
<1>7. Follows(g)
  <2>1. g[0] = start  BY <1>5
  <2>2. DOMAIN g = 0 .. N  OBVIOUS
  <2> HIDE DEF g
  <2>3. g = [i \in 0 .. N |-> IF i = 0 THEN start
                              ELSE IF g[i - 1] = NULL THEN NULL
                              ELSE next[g[i - 1]]]
    <3>1. g = [i \in 0 .. N |-> g[i]]  BY <2>2 DEF g
    <3>2. \A i \in 0 .. N : i = 0 \/ i \in 1 .. N  OBVIOUS
    <3> QED BY <1>6, <2>1, <3>1, <3>2
  <2> QED BY <1>1, <2>3
<1>8. Follows(at)
  <2> HIDE DEF Follows
  <2> QED BY <1>7, Zenon
<1>9. DOMAIN at = 0 .. N
  <2> HIDE DEF at
  <2> QED BY <1>1, <1>8
<1>10. \A i \in 0 .. N : at[i] = g[i]
  <2> DEFINE S == {i \in 0 .. N : at[i] = g[i]}
  <2> HIDE DEF at, g
  <2>1. 0 \in S
    <3>1. at[0] = start  BY <1>1, <1>8
    <3>2. g[0] = start  BY <1>1, <1>7
    <3> QED BY <3>1, <3>2
  <2>2. ASSUME NEW i \in 0 .. N - 1, i \in S PROVE i + 1 \in S
    <3>1. /\ i + 1 \in 0 .. N /\ i + 1 # 0 /\ (i + 1) - 1 = i
          /\ at[i] = g[i]
      BY <2>2
    <3>2. at[i + 1] = IF at[i] = NULL THEN NULL ELSE next[at[i]]
      BY <1>1, <1>8, <3>1
    <3>3. g[i + 1] = IF g[i] = NULL THEN NULL ELSE next[g[i]]
      BY <1>1, <1>7, <3>1
    <3> QED BY <3>1, <3>2, <3>3
  <2>3. 0 .. N \subseteq S
    <3> HIDE DEF S
    <3> QED BY <2>1, <2>2, UpTo
  <2> QED BY <2>3
<1>11. {j \in DOMAIN at : at[j] # NULL} = 0 .. n - 1
  <2> HIDE DEF at
  <2>1. \A j \in 0 .. N : at[j] # NULL <=> j + 1 \in 1 .. n
    <3> TAKE j \in 0 .. N
    <3>1. at[j] = Entry(s, j + 1)  BY <1>10
    <3> QED BY <1>3, <1>4, <3>1
  <2> QED BY <1>2, <1>9, <2>1
<1>12. Cardinality({j \in DOMAIN at : at[j] # NULL}) = n
  <2> HIDE DEF at
  <2>1. Cardinality(0 .. n - 1) = n  BY FS_Interval
  <2> QED BY <1>11, <2>1
<1>13. Walk(start, next) =
         [i \in 1 .. Cardinality({j \in DOMAIN at : at[j] # NULL}) |-> at[i - 1]]
  BY DEF Walk
<1>14. \A i \in 1 .. n : at[i - 1] = s[i]
  <2> HIDE DEF at
  <2> TAKE i \in 1 .. n
  <2>1. i - 1 \in 0 .. N /\ (i - 1) + 1 = i  BY <1>2
  <2>2. at[i - 1] = Entry(s, i)  BY <1>10, <2>1
  <2> QED BY <1>4, <2>2
<1> HIDE DEF at
<1> QED BY <1>3, <1>12, <1>13, <1>14

\* An element in front of a sequence,
LEMMA FrontSeq ==
  ASSUME NEW s \in Seq(Elem), NEW e \in Elem
  PROVE  /\ <<e>> \o s \in Seq(Elem)
         /\ Len(<<e>> \o s) = Len(s) + 1
         /\ \A i \in 1 .. Len(s) + 1 :
              (<<e>> \o s)[i] = IF i = 1 THEN e ELSE s[i - 1]
         /\ Range(<<e>> \o s) = Range(s) \cup {e}
<1>1. /\ <<e>> \o s \in Seq(Elem)
      /\ Len(<<e>> \o s) = Len(s) + 1
  OBVIOUS
<1>2. \A i \in 1 .. Len(s) + 1 :
        (<<e>> \o s)[i] = IF i = 1 THEN e ELSE s[i - 1]
  OBVIOUS
<1>3. PICK n \in Nat : n = Len(s)  OBVIOUS
<1>4. PICK r : r = <<e>> \o s  OBVIOUS
<1>5. DOMAIN s = 1 .. n /\ DOMAIN r = 1 .. n + 1  BY <1>1, <1>3, <1>4
<1>6. r[1] = e /\ \A i \in 1 .. n : r[i + 1] = s[i]
  BY <1>2, <1>3, <1>4
<1>7. \A i \in 2 .. n + 1 : r[i] = s[i - 1]
  BY <1>2, <1>3, <1>4
<1>8. Range(r) \subseteq Range(s) \cup {e}
  <2>1. \A i \in 1 .. n + 1 : i = 1 \/ (i \in 2 .. n + 1 /\ i - 1 \in 1 .. n)
    OBVIOUS
  <2>2. ASSUME NEW i \in 1 .. n + 1 PROVE r[i] \in Range(s) \cup {e}
    <3>1. CASE i = 1  BY <1>6, <3>1
    <3>2. CASE i \in 2 .. n + 1 /\ i - 1 \in 1 .. n
      BY <1>5, <1>7, <3>2 DEF Range
    <3> QED BY <2>1, <3>1, <3>2
  <2> QED BY <1>5, <2>2 DEF Range
<1>9. Range(s) \cup {e} \subseteq Range(r)
  <2>1. 1 \in 1 .. n + 1 /\ \A i \in 1 .. n : i + 1 \in 1 .. n + 1
    OBVIOUS
  <2> QED BY <1>5, <1>6, <2>1 DEF Range
<1> QED BY <1>1, <1>2, <1>4, <1>8, <1>9

\* behind it,
LEMMA BackSeq ==
  ASSUME NEW s \in Seq(Elem), NEW e \in Elem
  PROVE  /\ Append(s, e) \in Seq(Elem)
         /\ Len(Append(s, e)) = Len(s) + 1
         /\ \A i \in 1 .. Len(s) + 1 :
              Append(s, e)[i] = IF i = Len(s) + 1 THEN e ELSE s[i]
         /\ Range(Append(s, e)) = Range(s) \cup {e}
<1>1. /\ Append(s, e) \in Seq(Elem)
      /\ Len(Append(s, e)) = Len(s) + 1
      /\ \A i \in 1 .. Len(s) + 1 :
           Append(s, e)[i] = IF i = Len(s) + 1 THEN e ELSE s[i]
  OBVIOUS
<1>2. PICK n \in Nat : n = Len(s)  OBVIOUS
<1>3. PICK r : r = Append(s, e)  OBVIOUS
<1>4. DOMAIN s = 1 .. n /\ DOMAIN r = 1 .. n + 1  BY <1>1, <1>2, <1>3
<1>5. r[n + 1] = e /\ \A i \in 1 .. n : r[i] = s[i]
  BY <1>1, <1>2, <1>3
<1>6. 1 .. n + 1 = (1 .. n) \cup {n + 1}  OBVIOUS
<1>7. Range(r) = Range(s) \cup {e}  BY <1>4, <1>5, <1>6 DEF Range
<1> QED BY <1>1, <1>3, <1>7

\* and without one of its elements.
LEMMA RemoveSeq ==
  ASSUME NEW s \in Seq(Elem), NEW j \in 1 .. Len(s)
  PROVE  /\ RemoveAt(s, j) \in Seq(Elem)
         /\ Len(RemoveAt(s, j)) = Len(s) - 1
         /\ \A i \in 1 .. Len(s) - 1 :
              RemoveAt(s, j)[i] = IF i < j THEN s[i] ELSE s[i + 1]
         /\ (\A i, k \in 1 .. Len(s) : s[i] = s[k] => i = k)
              => Range(RemoveAt(s, j)) = Range(s) \ {s[j]}
<1>1. PICK n \in Nat : n = Len(s)  OBVIOUS
<1>2. PICK a, b : a = SubSeq(s, 1, j - 1) /\ b = SubSeq(s, j + 1, n)  OBVIOUS
<1>3. /\ a \in Seq(Elem) /\ Len(a) = j - 1
      /\ \A i \in 1 .. j - 1 : a[i] = s[i]
  BY <1>1, <1>2
<1>4. /\ b \in Seq(Elem) /\ Len(b) = n - j
      /\ \A i \in 1 .. n - j : b[i] = s[j + i]
  BY <1>1, <1>2
<1>5. PICK r : r = RemoveAt(s, j)  OBVIOUS
<1>6. r = a \o b  BY <1>1, <1>2, <1>5 DEF RemoveAt
<1>7. /\ r \in Seq(Elem) /\ Len(r) = n - 1
      /\ \A i \in 1 .. n - 1 :
           r[i] = IF i <= Len(a) THEN a[i] ELSE b[i - Len(a)]
  <2>1. Len(a) + Len(b) = n - 1  BY <1>1, <1>3, <1>4
  <2>2. /\ r \in Seq(Elem) /\ Len(r) = Len(a) + Len(b)
        /\ \A i \in 1 .. Len(a) + Len(b) :
             r[i] = IF i <= Len(a) THEN a[i] ELSE b[i - Len(a)]
    BY ONLY <1>3, <1>4, <1>6, ConcatProperties
  <2> QED BY <2>1, <2>2
<1>8. \A i \in 1 .. n - 1 : r[i] = IF i < j THEN s[i] ELSE s[i + 1]
  <2> TAKE i \in 1 .. n - 1
  <2>1. CASE i < j
    <3>1. i <= Len(a) /\ i \in 1 .. j - 1  BY <1>3, <2>1
    <3> QED BY <1>3, <1>7, <2>1, <3>1
  <2>2. CASE ~(i < j)
    <3>1. ~(i <= Len(a)) /\ i - Len(a) = i - j + 1 /\ i - j + 1 \in 1 .. n - j
          /\ j + (i - j + 1) = i + 1
      BY <1>1, <1>3, <2>2
    <3> QED BY <1>4, <1>7, <2>2, <3>1
  <2> QED BY <2>1, <2>2
<1>9. ASSUME \A i, k \in 1 .. n : s[i] = s[k] => i = k
      PROVE  Range(r) = Range(s) \ {s[j]}
  <2>1. DOMAIN r = 1 .. n - 1 /\ DOMAIN s = 1 .. n  BY <1>1, <1>7
  <2>2. ASSUME NEW i \in 1 .. n - 1 PROVE r[i] \in Range(s) \ {s[j]}
    <3>1. CASE i < j
      <4>1. r[i] = s[i] /\ i \in 1 .. n /\ i # j  BY <1>1, <1>8, <3>1
      <4> QED BY <1>1, <1>9, <2>1, <4>1 DEF Range
    <3>2. CASE ~(i < j)
      <4>1. r[i] = s[i + 1] /\ i + 1 \in 1 .. n /\ i + 1 # j
        BY <1>1, <1>8, <3>2
      <4> QED BY <1>1, <1>9, <2>1, <4>1 DEF Range
    <3> QED BY <3>1, <3>2
  <2>3. ASSUME NEW i \in 1 .. n, s[i] # s[j] PROVE s[i] \in Range(r)
    <3>1. CASE i < j
      <4>1. i \in 1 .. n - 1 /\ r[i] = s[i]  BY <1>1, <1>8, <3>1
      <4> QED BY <2>1, <4>1 DEF Range
    <3>2. CASE j < i
      <4>1. i - 1 \in 1 .. n - 1 /\ ~(i - 1 < j) /\ (i - 1) + 1 = i
        BY <1>1, <3>2
      <4>2. r[i - 1] = s[i]  BY <1>8, <4>1
      <4> QED BY <2>1, <4>1, <4>2 DEF Range
    <3>3. i # j  BY <2>3
    <3> QED BY <1>1, <3>1, <3>2, <3>3
  <2> QED BY <2>1, <2>2, <2>3 DEF Range
<1> QED BY <1>1, <1>5, <1>7, <1>8, <1>9

\* What is not in the list does not concern it.
LEMMA OtherList ==
  ASSUME NEW s, NEW start, NEW next, NEW prev, IsList(s, start, next, prev),
         NEW next2, NEW prev2,
         \A e \in Range(s) : next2[e] = next[e] /\ prev2[e] = prev[e]
  PROVE  IsList(s, start, next2, prev2)
<1>1. \A i \in 1 .. Len(s) : s[i] \in Range(s)  BY DEF IsList, Range
<1> QED BY <1>1 DEF IsList

\* HASH_ADD_TO_BKT and the moves of HASH_EXPAND_BUCKETS.
LEMMA FrontList ==
  ASSUME NEW s, NEW start, NEW next, NEW prev, IsList(s, start, next, prev),
         NEW e \in Elem, e \notin Range(s), NEW next2, NEW prev2,
         next2[e] = start, prev2[e] = NULL,
         start # NULL => prev2[start] = e,
         \A x \in Range(s) : next2[x] = next[x],
         \A x \in Range(s) : x # start => prev2[x] = prev[x]
  PROVE  IsList(<<e>> \o s, e, next2, prev2)
<1>1. PICK n \in Nat : n = Len(s)  BY DEF IsList
<1>2. PICK r : r = <<e>> \o s  OBVIOUS
<1>3. /\ r \in Seq(Elem) /\ Len(r) = n + 1
      /\ \A i \in 1 .. n + 1 : r[i] = IF i = 1 THEN e ELSE s[i - 1]
  BY <1>1, <1>2, FrontSeq DEF IsList
<1>4. r[1] = e /\ \A i \in 2 .. n + 1 : r[i] = s[i - 1]  BY <1>3
<1>5. \A i \in 1 .. n : s[i] \in Range(s)  BY <1>1 DEF IsList, Range
<1>6. \A i, j \in 1 .. n : s[i] = s[j] => i = j  BY <1>1 DEF IsList
<1>7. ASSUME NEW i \in 1 .. n + 1, NEW j \in 1 .. n + 1, r[i] = r[j]
      PROVE  i = j
  <2>1. \A k \in 1 .. n + 1 :
          k # 1 => k - 1 \in 1 .. n /\ r[k] = s[k - 1] /\ r[k] # e
    BY <1>4, <1>5
  <2>2. CASE i = 1  BY <1>4, <1>7, <2>1, <2>2
  <2>3. CASE j = 1  BY <1>4, <1>7, <2>1, <2>3
  <2>4. CASE i # 1 /\ j # 1
    <3>1. i - 1 \in 1 .. n /\ j - 1 \in 1 .. n /\ s[i - 1] = s[j - 1]
      BY <1>7, <2>1, <2>4
    <3>2. i - 1 = j - 1  BY <1>6, <3>1
    <3> QED BY <3>2
  <2> QED BY <2>2, <2>3, <2>4
<1>8. \A i \in Nat : Entry(s, i) = IF i \in 1 .. n THEN s[i] ELSE NULL
  BY <1>1 DEF Entry
<1>9. \A i \in Nat : Entry(r, i) = IF i \in 1 .. n + 1 THEN r[i] ELSE NULL
  BY <1>3 DEF Entry
<1>10. start = Entry(s, 1)  BY DEF IsList
<1>11. \A i \in 1 .. n + 1 : Entry(r, i + 1) = Entry(s, i)
  <2> TAKE i \in 1 .. n + 1
  <2>1. CASE i \in 1 .. n
    <3>1. i + 1 \in 2 .. n + 1 /\ i + 1 \in 1 .. n + 1 /\ (i + 1) - 1 = i
      BY <2>1
    <3> QED BY <1>4, <1>8, <1>9, <2>1, <3>1
  <2>2. CASE i = n + 1
    <3>1. i + 1 \notin 1 .. n + 1 /\ i \notin 1 .. n /\ i + 1 \in Nat
      BY <2>2
    <3> QED BY <1>8, <1>9, <3>1
  <2> QED BY <2>1, <2>2
<1>12. ASSUME NEW i \in 1 .. n + 1
       PROVE  next2[r[i]] = Entry(r, i + 1) /\ prev2[r[i]] = Entry(r, i - 1)
  <2>1. CASE i = 1
    <3>1. Entry(r, 0) = NULL  BY <1>9
    <3>2. i - 1 = 0  BY <2>1
    <3> QED BY <1>4, <1>10, <1>11, <2>1, <3>1, <3>2
  <2>2. CASE i # 1
    <3>1. PICK k \in 1 .. n : k = i - 1 /\ i = k + 1  BY <2>2
    <3>2. r[i] = s[k] /\ s[k] \in Range(s)  BY <1>4, <1>5, <2>2, <3>1
    <3>3. next[s[k]] = Entry(s, k + 1) /\ prev[s[k]] = Entry(s, k - 1)
      BY <1>1 DEF IsList
    <3>4. next2[r[i]] = Entry(r, i + 1)
      BY <1>11, <3>1, <3>2, <3>3
    <3>5. CASE k = 1
      <4>1. s[k] = start /\ s[k] # NULL
        <5>1. s[k] \in Elem  BY <1>1, <3>1 DEF IsList
        <5> QED BY <1>8, <1>10, <3>5, <5>1, UthashAssumption
      <4>2. prev2[r[i]] = e  BY <3>2, <4>1
      <4>3. Entry(r, i - 1) = e  BY <1>4, <1>9, <3>1, <3>5
      <4> QED BY <3>4, <4>2, <4>3
    <3>6. CASE k # 1
      <4>1. k - 1 \in 1 .. n /\ k - 1 \in 1 .. n + 1 /\ (k - 1) + 1 = k
        BY <3>6
      <4>2. start = s[1] /\ 1 \in 1 .. n  BY <1>8, <1>10
      <4>3. s[k] # start  BY <1>6, <3>6, <4>2
      <4>4. prev2[r[i]] = Entry(s, k - 1)  BY <3>2, <3>3, <4>3
      <4>5. Entry(r, k) = Entry(s, k - 1)  BY <1>11, <4>1
      <4> QED BY <3>1, <3>4, <4>4, <4>5
    <3> QED BY <3>5, <3>6
  <2> QED BY <2>1, <2>2
<1>13. e = Entry(r, 1)  BY <1>4, <1>9
<1> QED BY <1>2, <1>3, <1>7, <1>12, <1>13 DEF IsList

\* HASH_ADD_KEYPTR: behind the last one.
LEMMA BackList ==
  ASSUME NEW s, NEW start, NEW next, NEW prev, IsList(s, start, next, prev),
         NEW e \in Elem, e \notin Range(s), NEW next2, NEW prev2,
         next2[e] = NULL, prev2[e] = Entry(s, Len(s)),
         s # <<>> => next2[s[Len(s)]] = e,
         \A x \in Range(s) : x # Entry(s, Len(s)) => next2[x] = next[x],
         \A x \in Range(s) : prev2[x] = prev[x]
  PROVE  IsList(Append(s, e), IF s = <<>> THEN e ELSE start, next2, prev2)
<1>1. PICK n \in Nat : n = Len(s)  BY DEF IsList
<1>2. PICK r : r = Append(s, e)  OBVIOUS
<1>3. /\ r \in Seq(Elem) /\ Len(r) = n + 1
      /\ \A i \in 1 .. n + 1 : r[i] = IF i = n + 1 THEN e ELSE s[i]
  BY <1>1, <1>2, BackSeq DEF IsList
<1>4. r[n + 1] = e /\ \A i \in 1 .. n : r[i] = s[i]  BY <1>3
<1>5. \A i \in 1 .. n : s[i] \in Range(s)  BY <1>1 DEF IsList, Range
<1>6. \A i, j \in 1 .. n : s[i] = s[j] => i = j  BY <1>1 DEF IsList
<1>7. ASSUME NEW i \in 1 .. n + 1, NEW j \in 1 .. n + 1, r[i] = r[j]
      PROVE  i = j
  <2>1. \A k \in 1 .. n + 1 :
          k # n + 1 => k \in 1 .. n /\ r[k] = s[k] /\ r[k] # e
    BY <1>4, <1>5
  <2> QED BY <1>4, <1>6, <1>7, <2>1
<1>8. \A i \in Nat : Entry(s, i) = IF i \in 1 .. n THEN s[i] ELSE NULL
  BY <1>1 DEF Entry
<1>9. \A i \in Nat : Entry(r, i) = IF i \in 1 .. n + 1 THEN r[i] ELSE NULL
  BY <1>3 DEF Entry
<1>10. \A i \in 0 .. n : Entry(r, i) = Entry(s, i)  BY <1>4, <1>8, <1>9
<1>11. (IF s = <<>> THEN e ELSE start) = Entry(r, 1)
  <2>1. CASE n = 0
    <3>1. s \in Seq(Elem)  BY DEF IsList
    <3>2. s = <<>>  BY <1>1, <2>1, <3>1, EmptySeq
    <3> QED BY <1>4, <1>9, <2>1, <3>2
  <2>2. CASE n # 0
    <3>1. s # <<>> /\ 1 \in 0 .. n  BY <1>1, <2>2
    <3> QED BY <1>10, <3>1 DEF IsList
  <2> QED BY <2>1, <2>2
<1>12. ASSUME NEW i \in 1 .. n + 1
       PROVE  next2[r[i]] = Entry(r, i + 1) /\ prev2[r[i]] = Entry(r, i - 1)
  <2>1. CASE i = n + 1
    <3>1. Entry(r, i + 1) = NULL  BY <1>9, <2>1
    <3>2. Entry(r, i - 1) = Entry(s, n)
      <4>1. i - 1 = n /\ n \in 0 .. n  BY <2>1
      <4> QED BY <1>10, <4>1
    <3> QED BY <1>1, <1>4, <2>1, <3>1, <3>2
  <2>2. CASE i # n + 1
    <3>1. i \in 1 .. n /\ r[i] = s[i] /\ s[i] \in Range(s)
      BY <1>4, <1>5, <2>2
    <3>2. next[s[i]] = Entry(s, i + 1) /\ prev[s[i]] = Entry(s, i - 1)
      BY <1>1, <3>1 DEF IsList
    <3>3. prev2[r[i]] = Entry(r, i - 1)
      <4>1. i - 1 \in 0 .. n  BY <3>1
      <4> QED BY <1>10, <3>1, <3>2, <4>1
    <3>4. CASE i = n
      <4>1. s # <<>> /\ s[Len(s)] = r[i]  BY <1>1, <3>1, <3>4
      <4>2. Entry(r, i + 1) = e  BY <1>4, <1>9, <3>4
      <4> QED BY <3>3, <4>1, <4>2
    <3>5. CASE i # n
      <4>1. i + 1 \in 0 .. n /\ n \in 1 .. n  BY <3>1, <3>5
      <4>2. Entry(s, n) = s[n]  BY <1>8, <4>1
      <4>3. s[i] # Entry(s, Len(s))  BY <1>1, <1>6, <3>1, <3>5, <4>1, <4>2
      <4>4. next2[s[i]] = next[s[i]]  BY <3>1, <4>3
      <4> QED BY <1>10, <3>1, <3>2, <3>3, <4>1, <4>4
    <3> QED BY <3>4, <3>5
  <2> QED BY <2>1, <2>2
<1> QED BY <1>2, <1>3, <1>7, <1>11, <1>12 DEF IsList

\* HASH_DELETE and HASH_DEL_IN_BKT.
LEMMA RemoveList ==
  ASSUME NEW s, NEW start, NEW next, NEW prev, IsList(s, start, next, prev),
         NEW j \in 1 .. Len(s), NEW e, e = s[j], NEW next2, NEW prev2,
         prev[e] # NULL => next2[prev[e]] = next[e],
         next[e] # NULL => prev2[next[e]] = prev[e],
         \A x \in Range(s) : x # prev[e] /\ x # e => next2[x] = next[x],
         \A x \in Range(s) : x # next[e] /\ x # e => prev2[x] = prev[x]
  PROVE  IsList(RemoveAt(s, j), IF start = e THEN next[e] ELSE start,
                next2, prev2)
<1>1. PICK n \in Nat : n = Len(s)  BY DEF IsList
<1>2. PICK r : r = RemoveAt(s, j)  OBVIOUS
<1>3. /\ r \in Seq(Elem) /\ Len(r) = n - 1
      /\ \A i \in 1 .. n - 1 : r[i] = IF i < j THEN s[i] ELSE s[i + 1]
      /\ j \in 1 .. n
  BY <1>1, <1>2, RemoveSeq DEF IsList
<1>4. /\ \A i \in 1 .. n : s[i] \in Range(s) /\ s[i] \in Elem /\ s[i] # NULL
      /\ \A i, k \in 1 .. n : s[i] = s[k] => i = k
  <2>1. s \in Seq(Elem) /\ DOMAIN s = 1 .. n  BY <1>1 DEF IsList
  <2>2. \A i \in 1 .. n : s[i] \in Range(s) /\ s[i] \in Elem
    BY <2>1 DEF Range
  <2>3. \A i, k \in 1 .. n : s[i] = s[k] => i = k  BY <1>1 DEF IsList
  <2> QED BY <2>2, <2>3, UthashAssumption
<1>5. ASSUME NEW i \in 1 .. n - 1, NEW k \in 1 .. n - 1, r[i] = r[k]
      PROVE  i = k
  <2>1. \A m \in 1 .. n - 1 : m \in 1 .. n /\ m + 1 \in 1 .. n  OBVIOUS
  <2>2. CASE i < j /\ k < j  BY <1>3, <1>4, <1>5, <2>1, <2>2
  <2>3. CASE i < j /\ ~(k < j)
    <3>1. s[i] = s[k + 1]  BY <1>3, <1>5, <2>3
    <3>2. i = k + 1  BY <1>4, <2>1, <3>1
    <3> QED BY <1>3, <2>3, <3>2
  <2>4. CASE ~(i < j) /\ k < j
    <3>1. s[i + 1] = s[k]  BY <1>3, <1>5, <2>4
    <3>2. i + 1 = k  BY <1>4, <2>1, <3>1
    <3> QED BY <1>3, <2>4, <3>2
  <2>5. CASE ~(i < j) /\ ~(k < j)
    <3>1. s[i + 1] = s[k + 1]  BY <1>3, <1>5, <2>5
    <3>2. i + 1 = k + 1  BY <1>4, <2>1, <3>1
    <3> QED BY <3>2
  <2> QED BY <2>2, <2>3, <2>4, <2>5
<1>6. \A i \in Nat : Entry(s, i) = IF i \in 1 .. n THEN s[i] ELSE NULL
  BY <1>1 DEF Entry
<1>7. \A i \in Nat : Entry(r, i) = IF i \in 1 .. n - 1 THEN r[i] ELSE NULL
  BY <1>3 DEF Entry
<1>8. \A i \in Nat : Entry(r, i) = IF i < j THEN Entry(s, i) ELSE Entry(s, i + 1)
  <2> TAKE i \in Nat
  <2>1. CASE i < j
    <3>1. i \in 1 .. n => i \in 1 .. n - 1  BY <1>3, <2>1
    <3> QED BY <1>3, <1>6, <1>7, <2>1, <3>1
  <2>2. CASE ~(i < j)
    <3>1. /\ i + 1 \in 1 .. n <=> i \in 1 .. n - 1
          /\ i + 1 \in Nat
      BY <1>3, <2>2
    <3> QED BY <1>3, <1>6, <1>7, <2>2, <3>1
  <2> QED BY <2>1, <2>2
<1>9. /\ next[e] = Entry(s, j + 1) /\ prev[e] = Entry(s, j - 1)
      /\ start = Entry(s, 1)
  BY <1>1 DEF IsList
<1>10. (IF start = e THEN next[e] ELSE start) = Entry(r, 1)
  <2>1. start = s[1] /\ 1 \in 1 .. n  BY <1>3, <1>6, <1>9
  <2>2. CASE j = 1
    <3>1. Entry(r, 1) = Entry(s, 2)  BY <1>8, <2>2
    <3> QED BY <1>9, <2>1, <2>2, <3>1
  <2>3. CASE j # 1
    <3>1. start # e  BY <1>3, <1>4, <2>1, <2>3
    <3>2. 1 < j  BY <1>3, <2>3
    <3> QED BY <1>8, <1>9, <3>1, <3>2
  <2> QED BY <2>2, <2>3
\* Where an element of the rest was.
<1>11. ASSUME NEW i \in 1 .. n, i # j
       PROVE  /\ next2[s[i]] = IF i = j - 1 THEN Entry(s, j + 1)
                               ELSE Entry(s, i + 1)
              /\ prev2[s[i]] = IF i = j + 1 THEN Entry(s, j - 1)
                               ELSE Entry(s, i - 1)
  <2>1. /\ s[i] # e /\ s[i] \in Range(s) /\ s[i] # NULL
        /\ next[s[i]] = Entry(s, i + 1) /\ prev[s[i]] = Entry(s, i - 1)
    BY <1>1, <1>3, <1>4, <1>11 DEF IsList
  <2>2. CASE i = j - 1
    <3>1. prev[e] = s[i]  BY <1>6, <1>9, <2>2
    <3>2. next2[s[i]] = Entry(s, j + 1)  BY <1>9, <2>1, <3>1
    <3>3. s[i] # next[e]
      <4>1. CASE j + 1 \in 1 .. n
        <5>1. next[e] = s[j + 1]  BY <1>6, <1>9, <4>1
        <5>2. i # j + 1  BY <1>3, <2>2
        <5> QED BY <1>4, <4>1, <5>1, <5>2
      <4>2. CASE j + 1 \notin 1 .. n
        BY <1>3, <1>6, <1>9, <2>1, <4>2
      <4> QED BY <4>1, <4>2
    <3>4. i # j + 1  BY <1>3, <2>2
    <3> QED BY <2>1, <2>2, <3>2, <3>3, <3>4
  <2>3. CASE i = j + 1
    <3>1. next[e] = s[i]  BY <1>6, <1>9, <2>3
    <3>2. prev2[s[i]] = Entry(s, j - 1)  BY <1>9, <2>1, <3>1
    <3>3. s[i] # prev[e]
      <4>1. CASE j - 1 \in 1 .. n
        <5>1. prev[e] = s[j - 1]  BY <1>6, <1>9, <4>1
        <5>2. i # j - 1  BY <1>3, <2>3
        <5> QED BY <1>4, <4>1, <5>1, <5>2
      <4>2. CASE j - 1 \notin 1 .. n
        <5>1. j - 1 \in Nat  BY <1>3
        <5> QED BY <1>6, <1>9, <2>1, <4>2, <5>1
      <4> QED BY <4>1, <4>2
    <3>4. i # j - 1  BY <1>3, <2>3
    <3> QED BY <2>1, <2>3, <3>2, <3>3, <3>4
  <2>4. CASE i # j - 1 /\ i # j + 1
    <3>1. s[i] # next[e]
      <4>1. CASE j + 1 \in 1 .. n
        <5>1. next[e] = s[j + 1]  BY <1>6, <1>9, <4>1
        <5> QED BY <1>4, <2>4, <4>1, <5>1
      <4>2. CASE j + 1 \notin 1 .. n
        BY <1>3, <1>6, <1>9, <2>1, <4>2
      <4> QED BY <4>1, <4>2
    <3>2. s[i] # prev[e]
      <4>1. CASE j - 1 \in 1 .. n
        <5>1. prev[e] = s[j - 1]  BY <1>6, <1>9, <4>1
        <5> QED BY <1>4, <2>4, <4>1, <5>1
      <4>2. CASE j - 1 \notin 1 .. n
        <5>1. j - 1 \in Nat  BY <1>3
        <5> QED BY <1>6, <1>9, <2>1, <4>2, <5>1
      <4> QED BY <4>1, <4>2
    <3> QED BY <2>1, <2>4, <3>1, <3>2
  <2> QED BY <2>2, <2>3, <2>4
<1>12. ASSUME NEW i \in 1 .. n - 1
       PROVE  next2[r[i]] = Entry(r, i + 1) /\ prev2[r[i]] = Entry(r, i - 1)
  <2>1. i + 1 \in Nat /\ i - 1 \in Nat /\ (i - 1) + 1 = i  OBVIOUS
  <2>2. CASE i < j
    <3>1. i \in 1 .. n /\ i # j /\ r[i] = s[i] /\ i # j + 1 /\ i - 1 < j
      BY <1>3, <2>2
    <3>2. prev2[r[i]] = Entry(r, i - 1)  BY <1>8, <1>11, <2>1, <3>1
    <3>3. CASE i = j - 1
      <4>1. i + 1 = j  BY <3>3
      <4>2. Entry(r, i + 1) = Entry(s, j + 1)  BY <1>8, <2>1, <4>1
      <4> QED BY <1>11, <3>1, <3>2, <3>3, <4>2
    <3>4. CASE i # j - 1
      <4>1. i + 1 < j  BY <1>3, <2>2, <3>4
      <4>2. Entry(r, i + 1) = Entry(s, i + 1)  BY <1>8, <2>1, <4>1
      <4> QED BY <1>11, <3>1, <3>2, <3>4, <4>2
    <3> QED BY <3>3, <3>4
  <2>3. CASE ~(i < j)
    <3>1. PICK k \in 1 .. n : k = i + 1  OBVIOUS
    <3>2. k # j /\ k # j - 1 /\ r[i] = s[k] /\ ~(i + 1 < j) /\ k - 1 = i
      BY <1>3, <2>3, <3>1
    <3>3. Entry(r, i + 1) = Entry(s, k + 1)  BY <1>8, <2>1, <3>1, <3>2
    <3>4. next2[r[i]] = Entry(r, i + 1)  BY <1>11, <3>2, <3>3
    <3>5. CASE k = j + 1
      <4>1. i - 1 < j /\ i - 1 = j - 1  BY <3>1, <3>5
      <4>2. Entry(r, i - 1) = Entry(s, j - 1)  BY <1>8, <2>1, <4>1
      <4> QED BY <1>11, <3>2, <3>4, <3>5, <4>2
    <3>6. CASE k # j + 1
      <4>1. ~(i - 1 < j)  BY <1>3, <2>3, <3>1, <3>6
      <4>2. Entry(r, i - 1) = Entry(s, i)  BY <1>8, <2>1, <4>1
      <4> QED BY <1>11, <3>2, <3>4, <3>6, <4>2
    <3> QED BY <3>5, <3>6
  <2> QED BY <2>2, <2>3
<1> QED BY <1>2, <1>3, <1>5, <1>10, <1>12 DEF IsList

-----------------------------------------------------------------------------
(***************************************************************************)
(* Tables, and what the pieces of the operations do to them.               *)
(***************************************************************************)
Bkts == [hh_head : Pointer, count : Nat, expand_mult : Nat]

Tables ==
  {t \in [head : Pointer, tail : Pointer, num_items : Nat,
          num_buckets : Nat \ {0},
          buckets : UNION {[0 .. n - 1 -> Bkts] : n \in Nat},
          nonideal_items : Nat, ineff_expands : Nat, noexpand : BOOLEAN,
          node : [Elem -> Handles]] :
     DOMAIN t.buckets = 0 .. t.num_buckets - 1}

Nexts(t) == [e \in Elem |-> t.node[e].next]

Prevs(t) == [e \in Elem |-> t.node[e].prev]

HHNexts(t) == [e \in Elem |-> t.node[e].hh_next]

HHPrevs(t) == [e \in Elem |-> t.node[e].hh_prev]

\* The types of a table's parts.
LEMMA TablesType ==
  ASSUME NEW t \in Tables
  PROVE  /\ t.head \in Pointer /\ t.tail \in Pointer /\ t.num_items \in Nat
         /\ t.num_buckets \in Nat \ {0}
         /\ t.buckets \in [0 .. t.num_buckets - 1 -> Bkts]
         /\ t.nonideal_items \in Nat /\ t.ineff_expands \in Nat
         /\ t.noexpand \in BOOLEAN
         /\ t.node \in [Elem -> Handles]
BY DEF Tables

\* A table keeps its type under new buckets, as many as before, with new
\* handles or with a new nonideal_items.
LEMMA TablesKept ==
  ASSUME NEW t \in Tables,
         NEW k \in [0 .. t.num_buckets - 1 -> Bkts],
         NEW m \in [Elem -> Handles], NEW i \in Nat
  PROVE  /\ [t EXCEPT !.buckets = k, !.node = m] \in Tables
         /\ [t EXCEPT !.nonideal_items = i, !.buckets = k] \in Tables
<1>1. t.num_buckets \in Nat  BY TablesType
<1>2. PICK B : B = UNION {[0 .. n - 1 -> Bkts] : n \in Nat}  OBVIOUS
<1>3. k \in B  BY <1>1, <1>2
<1>4. DOMAIN k = 0 .. t.num_buckets - 1  OBVIOUS
<1>5. PICK R : R = [head : Pointer, tail : Pointer, num_items : Nat,
                    num_buckets : Nat \ {0}, buckets : B,
                    nonideal_items : Nat, ineff_expands : Nat,
                    noexpand : BOOLEAN, node : [Elem -> Handles]]
  OBVIOUS
<1>6. Tables = {s \in R : DOMAIN s.buckets = 0 .. s.num_buckets - 1}
  BY <1>2, <1>5 DEF Tables
<1>7. t \in R  BY <1>6
<1>8. PICK r : r = [t EXCEPT !.buckets = k, !.node = m]  OBVIOUS
<1>9. r \in R /\ r.buckets = k /\ r.num_buckets = t.num_buckets
  BY ONLY <1>3, <1>5, <1>7, <1>8, m \in [Elem -> Handles]
<1>10. PICK s : s = [t EXCEPT !.nonideal_items = i, !.buckets = k]  OBVIOUS
<1>11. s \in R /\ s.buckets = k /\ s.num_buckets = t.num_buckets
  BY ONLY <1>3, <1>5, <1>7, <1>10, i \in Nat
<1>12. r \in Tables  BY <1>4, <1>6, <1>9
<1>13. s \in Tables  BY <1>4, <1>6, <1>11
<1> QED BY <1>8, <1>10, <1>12, <1>13

\* An assignment through a pointer.
LEMMA SetIs ==
  ASSUME NEW m \in [Elem -> Handles], NEW p \in Pointer,
         NEW f \in {"next", "prev", "hh_next", "hh_prev"}, NEW v \in Pointer
  PROVE  /\ Set(m, p, f, v) \in [Elem -> Handles]
         /\ p = NULL => Set(m, p, f, v) = m
         /\ \A x \in Elem : x # p => Set(m, p, f, v)[x] = m[x]
         /\ p # NULL =>
              /\ Set(m, p, f, v)[p].next = IF f = "next" THEN v ELSE m[p].next
              /\ Set(m, p, f, v)[p].prev = IF f = "prev" THEN v ELSE m[p].prev
              /\ Set(m, p, f, v)[p].hh_next =
                   IF f = "hh_next" THEN v ELSE m[p].hh_next
              /\ Set(m, p, f, v)[p].hh_prev =
                   IF f = "hh_prev" THEN v ELSE m[p].hh_prev
BY DEF Set, Handles, Pointer

\* Putting an element first in its bucket.
LEMMA PushFrontIs ==
  ASSUME NEW t \in Tables, NEW b \in 0 .. t.num_buckets - 1, NEW e \in Elem,
         t.buckets[b].hh_head # e, NEW r, r = PushFront(t, b, e)
  PROVE  /\ r \in Tables
         /\ r.head = t.head /\ r.tail = t.tail /\ r.num_items = t.num_items
         /\ r.num_buckets = t.num_buckets
         /\ r.nonideal_items = t.nonideal_items
         /\ r.ineff_expands = t.ineff_expands /\ r.noexpand = t.noexpand
         /\ r.buckets[b].hh_head = e
         /\ r.buckets[b].count = t.buckets[b].count + 1
         /\ \A c \in 0 .. t.num_buckets - 1 : c # b => r.buckets[c] = t.buckets[c]
         /\ Nexts(r) = Nexts(t) /\ Prevs(r) = Prevs(t)
         /\ HHNexts(r)[e] = t.buckets[b].hh_head /\ HHPrevs(r)[e] = NULL
         /\ t.buckets[b].hh_head # NULL => HHPrevs(r)[t.buckets[b].hh_head] = e
         /\ \A x \in Elem : x # e => HHNexts(r)[x] = HHNexts(t)[x]
         /\ \A x \in Elem : x # e /\ x # t.buckets[b].hh_head
                              => HHPrevs(r)[x] = HHPrevs(t)[x]
<1>1. PICK first \in Pointer : first = t.buckets[b].hh_head
  BY TablesType DEF Bkts
<1>2. PICK m : m = [t.node EXCEPT ![e].hh_next = first, ![e].hh_prev = NULL]
  OBVIOUS
<1>3. /\ m \in [Elem -> Handles]
      /\ m[e].next = t.node[e].next /\ m[e].prev = t.node[e].prev
      /\ m[e].hh_next = first /\ m[e].hh_prev = NULL
      /\ \A x \in Elem : x # e => m[x] = t.node[x]
  BY <1>2, TablesType DEF Handles, Pointer
<1>4. PICK m2 : m2 = Set(m, first, "hh_prev", e)  OBVIOUS
<1>5. PICK k : k = [t.buckets EXCEPT ![b] = [t.buckets[b] EXCEPT !.hh_head = e,
                                             !.count = t.buckets[b].count + 1]]
  OBVIOUS
<1>6. r = [t EXCEPT !.buckets = k, !.node = m2]
  <2>1. r = [t EXCEPT !.buckets[b].hh_head = e,
                      !.buckets[b].count = @ + 1, !.node = m2]
    BY ONLY <1>1, <1>2, <1>4, r = PushFront(t, b, e) DEF PushFront
  <2>2. t.buckets[b] \in Bkts /\ t.buckets \in [0 .. t.num_buckets - 1 -> Bkts]
    BY TablesType
  <2>3. [t EXCEPT !.buckets[b].hh_head = e,
                  !.buckets[b].count = @ + 1, !.node = m2]
          = [t EXCEPT !.buckets = k, !.node = m2]
    BY ONLY <1>5, <2>2, b \in 0 .. t.num_buckets - 1, t \in Tables DEF Tables
  <2> QED BY ONLY <2>1, <2>3
<1>7. /\ k \in [0 .. t.num_buckets - 1 -> Bkts]
      /\ k[b].hh_head = e /\ k[b].count = t.buckets[b].count + 1
      /\ \A c \in 0 .. t.num_buckets - 1 : c # b => k[c] = t.buckets[c]
  <2>1. PICK a : a = [t.buckets[b] EXCEPT !.hh_head = e,
                                         !.count = t.buckets[b].count + 1]
    OBVIOUS
  <2>2. t.buckets[b] \in Bkts /\ t.buckets \in [0 .. t.num_buckets - 1 -> Bkts]
    BY TablesType
  <2>3. a \in Bkts /\ a.hh_head = e /\ a.count = t.buckets[b].count + 1
    <3>1. e \in Pointer  BY DEF Pointer
    <3>2. t.buckets[b].count + 1 \in Nat  BY <2>2 DEF Bkts
    <3>3. PICK o \in Bkts, n \in Nat : o = t.buckets[b] /\ n = o.count + 1
      BY <2>2, <3>2
    <3>4. a = [o EXCEPT !.hh_head = e, !.count = n]  BY <2>1, <3>3
    <3> QED BY <3>1, <3>3, <3>4 DEF Bkts
  <2>4. k = [t.buckets EXCEPT ![b] = a]  BY <1>5, <2>1
  <2> QED BY <2>2, <2>3, <2>4
<1>8. /\ m2 \in [Elem -> Handles]
      /\ first = NULL => m2 = m
      /\ first # NULL => m2[first].hh_prev = e
      /\ \A x \in Elem : /\ m2[x].next = m[x].next /\ m2[x].prev = m[x].prev
                         /\ m2[x].hh_next = m[x].hh_next
                         /\ x # first => m2[x].hh_prev = m[x].hh_prev
  <2>1. e \in Pointer  BY DEF Pointer
  <2>2. /\ m2 \in [Elem -> Handles]
        /\ first = NULL => m2 = m
        /\ \A x \in Elem : x # first => m2[x] = m[x]
        /\ first # NULL =>
             /\ m2[first].next = m[first].next
             /\ m2[first].prev = m[first].prev
             /\ m2[first].hh_next = m[first].hh_next
             /\ m2[first].hh_prev = e
    BY <1>3, <1>4, <2>1, SetIs
  <2> QED BY <2>2
<1>9. /\ r \in Tables /\ r.buckets = k /\ r.node = m2
      /\ r.head = t.head /\ r.tail = t.tail /\ r.num_items = t.num_items
      /\ r.num_buckets = t.num_buckets
      /\ r.nonideal_items = t.nonideal_items
      /\ r.ineff_expands = t.ineff_expands /\ r.noexpand = t.noexpand
  <2>1. k \in [0 .. t.num_buckets - 1 -> Bkts]  BY <1>7
  <2>2. m2 \in [Elem -> Handles]  BY <1>8
  <2> QED BY ONLY <1>6, <2>1, <2>2, t \in Tables DEF Tables
<1>10. Nexts(r) = Nexts(t) /\ Prevs(r) = Prevs(t)
  BY <1>3, <1>8, <1>9 DEF Nexts, Prevs
<1>11. /\ HHNexts(r)[e] = first /\ HHPrevs(r)[e] = NULL
       /\ first # NULL => HHPrevs(r)[first] = e
       /\ \A x \in Elem : x # e => HHNexts(r)[x] = HHNexts(t)[x]
       /\ \A x \in Elem : x # e /\ x # first => HHPrevs(r)[x] = HHPrevs(t)[x]
  BY <1>1, <1>3, <1>8, <1>9 DEF HHNexts, HHPrevs, Pointer
<1> QED BY <1>1, <1>7, <1>9, <1>10, <1>11

-----------------------------------------------------------------------------
(***************************************************************************)
(* The buckets hold the elements of S when each has the list of those that *)
(* belong there.                                                           *)
(***************************************************************************)
Belonging(t, S, b) == {e \in S : Bucket(t, e) = b}

InBucket(t, S, b, c) ==
  /\ IsList(c, t.buckets[b].hh_head, HHNexts(t), HHPrevs(t))
  /\ t.buckets[b].count = Len(c)
  /\ Range(c) = Belonging(t, S, b)

Chains(t, S) ==
  \A b \in 0 .. t.num_buckets - 1 : \E c : InBucket(t, S, b, c)

\* There is a bucket for each element.
LEMMA BucketType ==
  ASSUME NEW n \in Nat \ {0}, NEW k \in Keys
  PROVE  HASH_TO_BKT(HASH_FCN[k], n) \in 0 .. n - 1
<1>1. HASH_FCN[k] \in Nat  BY UthashAssumption
<1> QED BY <1>1 DEF HASH_TO_BKT

\* The first of a list is in it.
LEMMA FirstIn ==
  ASSUME NEW s, NEW start, NEW next, NEW prev, IsList(s, start, next, prev)
  PROVE  /\ start # NULL => start \in Range(s)
         /\ start = NULL <=> s = <<>>
         /\ Range(s) \subseteq Elem
<1>1. PICK n \in Nat : n = Len(s)  BY DEF IsList
<1>2. s \in Seq(Elem) /\ s \in [1 .. n -> Elem]  BY <1>1 DEF IsList
<1>3. start = IF 1 \in 1 .. n THEN s[1] ELSE NULL  BY <1>1 DEF IsList, Entry
<1>4. n = 0 <=> s = <<>>  BY <1>1, <1>2, EmptySeq
<1>5. CASE n = 0
  <2>1. start = NULL /\ s = <<>>  BY <1>3, <1>4, <1>5
  <2> QED BY <1>2, <2>1 DEF Range
<1>6. CASE n # 0
  <2>1. start = s[1] /\ 1 \in 1 .. n /\ s # <<>>  BY <1>3, <1>4, <1>6
  <2> QED BY <1>2, <2>1, UthashAssumption DEF Range
<1> QED BY <1>5, <1>6

\* An element more.
LEMMA PushFrontChains ==
  ASSUME NEW t \in Tables, NEW S \in SUBSET Elem, Chains(t, S),
         NEW e \in Elem, e \notin S,
         NEW b, b = Bucket(t, e), NEW r, r = PushFront(t, b, e)
  PROVE  /\ b \in 0 .. t.num_buckets - 1 /\ t.buckets[b].hh_head # e
         /\ Chains(r, S \cup {e})
<1>1. b \in 0 .. t.num_buckets - 1
  <2>1. key[e] \in Keys /\ t.num_buckets \in Nat \ {0}
    BY TablesType, UthashAssumption
  <2> QED BY <2>1, BucketType DEF Bucket
<1>2. PICK c : InBucket(t, S, b, c)  BY <1>1 DEF Chains
<1>3. PICK first : first = t.buckets[b].hh_head  OBVIOUS
<1>4. first # e /\ e \notin Range(c)
  <2>1. first # NULL => first \in Range(c)
    BY <1>2, <1>3, FirstIn DEF InBucket
  <2>2. Range(c) \subseteq S  BY <1>2 DEF InBucket, Belonging
  <2> QED BY <2>1, <2>2, UthashAssumption
<1>5. /\ r.num_buckets = t.num_buckets
      /\ r.buckets[b].hh_head = e
      /\ r.buckets[b].count = t.buckets[b].count + 1
      /\ \A d \in 0 .. t.num_buckets - 1 : d # b => r.buckets[d] = t.buckets[d]
      /\ HHNexts(r)[e] = first /\ HHPrevs(r)[e] = NULL
      /\ first # NULL => HHPrevs(r)[first] = e
      /\ \A x \in Elem : x # e => HHNexts(r)[x] = HHNexts(t)[x]
      /\ \A x \in Elem : x # e /\ x # first => HHPrevs(r)[x] = HHPrevs(t)[x]
  BY <1>1, <1>3, <1>4, PushFrontIs
<1>6. \A x : Bucket(r, x) = Bucket(t, x)  BY <1>5 DEF Bucket
<1>7. InBucket(r, S \cup {e}, b, <<e>> \o c)
  <2>1. IsList(c, first, HHNexts(t), HHPrevs(t)) /\ Range(c) \subseteq Elem
    BY <1>2, <1>3, FirstIn DEF InBucket
  <2>2. /\ \A x \in Range(c) : HHNexts(r)[x] = HHNexts(t)[x]
        /\ \A x \in Range(c) : x # first => HHPrevs(r)[x] = HHPrevs(t)[x]
    BY <1>4, <1>5, <2>1
  <2>3. IsList(<<e>> \o c, e, HHNexts(r), HHPrevs(r))
    BY <1>4, <1>5, <2>1, <2>2, FrontList
  <2>4. /\ Len(<<e>> \o c) = Len(c) + 1
        /\ Range(<<e>> \o c) = Range(c) \cup {e}
    BY <2>1, FrontSeq DEF IsList
  <2>5. Belonging(r, S \cup {e}, b) = Belonging(t, S, b) \cup {e}
    BY <1>6 DEF Belonging
  <2> QED BY <1>2, <1>5, <2>3, <2>4, <2>5 DEF InBucket
<1>8. ASSUME NEW d \in 0 .. t.num_buckets - 1, d # b
      PROVE  \E f : InBucket(r, S \cup {e}, d, f)
  <2>1. PICK f : InBucket(t, S, d, f)  BY DEF Chains
  <2>2. Range(f) \subseteq S /\ first \notin Range(f)
    <3>1. Range(f) = Belonging(t, S, d) /\ Range(c) = Belonging(t, S, b)
      BY <1>2, <2>1 DEF InBucket
    <3>2. first # NULL => first \in Range(c)
      BY <1>2, <1>3, FirstIn DEF InBucket
    <3>3. NULL \notin S  BY UthashAssumption
    <3> QED BY <1>8, <3>1, <3>2, <3>3 DEF Belonging
  <2>3. \A x \in Range(f) : /\ HHNexts(r)[x] = HHNexts(t)[x]
                            /\ HHPrevs(r)[x] = HHPrevs(t)[x]
    <3> TAKE x \in Range(f)
    <3>1. x \in Elem /\ x # e /\ x # first  BY <2>2
    <3> QED BY <1>5, <3>1
  <2>4. IsList(f, t.buckets[d].hh_head, HHNexts(r), HHPrevs(r))
    BY <2>1, <2>3, OtherList DEF InBucket
  <2>5. Belonging(r, S \cup {e}, d) = Belonging(t, S, d)
    BY <1>6, <1>8 DEF Belonging
  <2>6. r.buckets[d] = t.buckets[d]  BY <1>5, <1>8
  <2> QED BY <2>1, <2>4, <2>5, <2>6 DEF InBucket
<1> QED BY <1>1, <1>3, <1>4, <1>5, <1>7, <1>8 DEF Chains

-----------------------------------------------------------------------------
(***************************************************************************)
(* The order in which the elements move when the buckets double.           *)
(***************************************************************************)
\* Two sequences of different elements, one after the other.
LEMMA ConcatSeq ==
  ASSUME NEW a \in Seq(Elem), NEW b \in Seq(Elem),
         IsInjective(a), IsInjective(b), Range(a) \cap Range(b) = {}
  PROVE  /\ a \o b \in Seq(Elem) /\ IsInjective(a \o b)
         /\ Range(a \o b) = Range(a) \cup Range(b)
<1>1. PICK m \in Nat, n \in Nat : m = Len(a) /\ n = Len(b)  OBVIOUS
<1>2. PICK r : r = a \o b  OBVIOUS
<1>3. /\ r \in Seq(Elem) /\ Len(r) = m + n
      /\ \A i \in 1 .. m + n : r[i] = IF i <= m THEN a[i] ELSE b[i - m]
  BY <1>1, <1>2, ConcatProperties
<1>4. DOMAIN r = 1 .. m + n /\ DOMAIN a = 1 .. m /\ DOMAIN b = 1 .. n
  BY <1>1, <1>3
<1>5. /\ \A i \in 1 .. m : i \in 1 .. m + n /\ r[i] = a[i]
      /\ \A i \in 1 .. n : m + i \in 1 .. m + n /\ r[m + i] = b[i]
  <2>1. \A i \in 1 .. n : /\ m + i \in 1 .. m + n /\ ~(m + i <= m)
                          /\ (m + i) - m = i
    OBVIOUS
  <2> QED BY <1>3, <2>1
<1>6. \A i \in 1 .. m + n :
        i \in 1 .. m \/ \E k \in 1 .. n : i = m + k
  <2> TAKE i \in 1 .. m + n
  <2>1. i \notin 1 .. m => i - m \in 1 .. n /\ i = m + (i - m)  OBVIOUS
  <2> QED BY <2>1
<1>7. Range(r) = Range(a) \cup Range(b)
  <2>1. ASSUME NEW i \in 1 .. m + n PROVE r[i] \in Range(a) \cup Range(b)
    BY <1>4, <1>5, <1>6 DEF Range
  <2>2. ASSUME NEW i \in 1 .. m PROVE a[i] \in Range(r)
    BY <1>4, <1>5 DEF Range
  <2>3. ASSUME NEW i \in 1 .. n PROVE b[i] \in Range(r)
    BY <1>4, <1>5 DEF Range
  <2> QED BY <1>4, <2>1, <2>2, <2>3 DEF Range
<1>8. ASSUME NEW i \in 1 .. m + n, NEW j \in 1 .. m + n, r[i] = r[j]
      PROVE  i = j
  <2>1. \A k \in 1 .. m : a[k] \in Range(a) /\ a[k] \notin Range(b)
    BY <1>4 DEF Range
  <2>2. \A k \in 1 .. n : b[k] \in Range(b)  BY <1>4 DEF Range
  <2>3. CASE i \in 1 .. m /\ j \in 1 .. m
    BY <1>4, <1>5, <1>8, <2>3 DEF IsInjective
  <2>4. CASE i \in 1 .. m /\ j \notin 1 .. m
    <3>1. r[i] \in Range(a) /\ r[i] \notin Range(b)  BY <1>5, <2>1, <2>4
    <3>2. PICK k \in 1 .. n : j = m + k  BY <1>6, <2>4
    <3>3. r[j] \in Range(b)  BY <1>5, <2>2, <3>2
    <3> QED BY <1>8, <3>1, <3>3
  <2>5. CASE i \notin 1 .. m /\ j \in 1 .. m
    <3>1. r[j] \in Range(a) /\ r[j] \notin Range(b)  BY <1>5, <2>1, <2>5
    <3>2. PICK k \in 1 .. n : i = m + k  BY <1>6, <2>5
    <3>3. r[i] \in Range(b)  BY <1>5, <2>2, <3>2
    <3> QED BY <1>8, <3>1, <3>3
  <2>6. CASE i \notin 1 .. m /\ j \notin 1 .. m
    <3>1. PICK k \in 1 .. n, l \in 1 .. n : i = m + k /\ j = m + l
      BY <1>6, <2>6
    <3>2. b[k] = b[l]  BY <1>5, <1>8, <3>1
    <3> QED BY <1>4, <3>1, <3>2 DEF IsInjective
  <2> QED BY <2>3, <2>4, <2>5, <2>6
<1>9. IsInjective(r)  BY <1>4, <1>8 DEF IsInjective
<1> QED BY <1>2, <1>3, <1>7, <1>9

\* The first of n sequences, the first two one after the other, and so on.
Flattens(f, q, n) ==
  /\ f[1] = q[1]
  /\ \A i \in 1 .. n - 1 : f[i + 1] = f[i] \o q[i + 1]
  /\ FlattenSeq(q) = f[n]

\* What FlattenSeq computes step by step.
LEMMA FlattenIs ==
  ASSUME NEW n \in Nat \ {0}, NEW q, DOMAIN q = 1 .. n, Len(q) = n
  PROVE  \E f : Flattens(f, q, n)
<1> DEFINE Flat(f, m) ==
             f = [i \in 1 .. m |-> IF i = 1 THEN q[i] ELSE f[i - 1] \o q[i]]
           S == {m \in Nat : \E f : Flat(f, m)}
<1>1. 0 \in S
  <2>1. Flat([i \in 1 .. 0 |-> q[1]], 0)  OBVIOUS
  <2> QED BY <2>1
<1>2. ASSUME NEW m \in Nat, m \in S PROVE m + 1 \in S
  <2>1. PICK f : Flat(f, m)  BY <1>2
  <2> DEFINE g == [i \in 1 .. m + 1 |->
                     IF i = m + 1 THEN IF i = 1 THEN q[i] ELSE f[m] \o q[i]
                     ELSE f[i]]
  <2>2. ASSUME NEW i \in 1 .. m + 1
        PROVE  g[i] = IF i = 1 THEN q[i] ELSE g[i - 1] \o q[i]
    <3>1. CASE i = m + 1 /\ i = 1  BY <3>1
    <3>2. CASE i = m + 1 /\ i # 1
      <4>1. i - 1 = m /\ m \in 1 .. m + 1 /\ m # m + 1  BY <3>2
      <4>2. g[i - 1] = f[m]  BY <4>1
      <4> QED BY <3>2, <4>2
    <3>3. CASE i # m + 1
      <4>1. i \in 1 .. m /\ g[i] = f[i]  BY <3>3
      <4>2. f[i] = IF i = 1 THEN q[i] ELSE f[i - 1] \o q[i]
        BY <2>1, <4>1
      <4>3. i # 1 => g[i - 1] = f[i - 1]  BY <4>1
      <4> QED BY <4>1, <4>2, <4>3
    <3> QED BY <3>1, <3>2, <3>3
  <2>3. DOMAIN g = 1 .. m + 1 /\ g = [i \in DOMAIN g |-> g[i]]  OBVIOUS
  <2> HIDE DEF g
  <2>4. Flat(g, m + 1)  BY <2>2, <2>3
  <2>5. \E f2 : Flat(f2, m + 1)  BY <2>4, Zenon
  <2> HIDE DEF Flat
  <2> QED BY <2>5
<1>3. Nat \subseteq S
  <2> HIDE DEF S
  <2> QED BY <1>1, <1>2, NatSet
<1>4. PICK h : Flat(h, n)  BY <1>3
<1> DEFINE f == CHOOSE g : Flat(g, Len(q))
<1>5. Flat(h, Len(q))
  <2> HIDE DEF Flat
  <2> QED BY <1>4
<1>6. Flat(f, Len(q))
  <2> HIDE DEF Flat
  <2> QED BY <1>5, Zenon
<1>7. FlattenSeq(q) = f[Len(q)]  BY DEF FlattenSeq
<1> HIDE DEF f
<1>8. f[1] = q[1] /\ \A i \in 1 .. n - 1 : f[i + 1] = f[i] \o q[i + 1]
  <2>1. 1 \in 1 .. n  OBVIOUS
  <2>2. \A i \in 1 .. n - 1 :
          i + 1 \in 1 .. n /\ i + 1 # 1 /\ (i + 1) - 1 = i
    OBVIOUS
  <2> QED BY <1>6, <2>1, <2>2
<1>9. Flattens(f, q, n)  BY <1>7, <1>8 DEF Flattens
<1> QED BY <1>9, Zenon

\* A non-empty set of the first numbers has a greatest one, which Max is.
LEMMA MaxIn ==
  ASSUME NEW m \in Nat, NEW S \in SUBSET (1 .. m), S # {}
  PROVE  Max(S) \in S /\ \A n \in S : Max(S) >= n
<1> DEFINE T == {n \in 0 .. m : m - n \in S}
<1>1. T \in SUBSET Nat /\ T # {}
  <2>1. PICK n \in S : TRUE  OBVIOUS
  <2>2. m - n \in 0 .. m /\ m - (m - n) = n  OBVIOUS
  <2>3. m - n \in T  BY <2>2
  <2>4. T \subseteq Nat  OBVIOUS
  <2> QED BY <2>3, <2>4
<1>2. PICK k \in T : \A n \in T : k <= n
  <2> HIDE DEF T
  <2> QED BY <1>1, MinIn
<1>3. ASSUME NEW n \in S PROVE m - k >= n
  <2>1. n \in 1 .. m /\ m - n \in 0 .. m /\ m - (m - n) = n  OBVIOUS
  <2>2. m - n \in T  BY <2>1
  <2>3. k <= m - n /\ k \in 0 .. m  BY <1>2, <2>2
  <2> QED BY <2>1, <2>3
<1>4. m - k \in S  OBVIOUS
<1> QED BY <1>3, <1>4, Zenon DEF Max

\* Following the pointers of a bucket spells what is in it.
LEMMA ChainIs ==
  ASSUME NEW t, NEW S, NEW b, NEW c, InBucket(t, S, b, c)
  PROVE  /\ Chain(t, b) = c /\ c \in Seq(Elem) /\ IsInjective(c)
         /\ Range(c) = Belonging(t, S, b) /\ t.buckets[b].count = Len(c)
<1>1. PICK start, next, prev :
        /\ start = t.buckets[b].hh_head /\ next = HHNexts(t)
        /\ prev = HHPrevs(t)
  OBVIOUS
<1>2. IsList(c, start, next, prev)  BY <1>1 DEF InBucket
<1>3. Walk(start, next) = c  BY <1>2, WalkList
<1>4. Chain(t, b) = c  BY <1>1, <1>3 DEF Chain, HHNexts
<1>5. c \in Seq(Elem) /\ IsInjective(c)
  BY <1>2 DEF IsList, IsInjective
<1> QED BY <1>4, <1>5 DEF InBucket

\* The nested loops of HASH_EXPAND_BUCKETS meet every element once.
LEMMA ToMoveIs ==
  ASSUME NEW t \in Tables, NEW S \in SUBSET Elem, Chains(t, S)
  PROVE  /\ ToMove(t) \in Seq(Elem) /\ IsInjective(ToMove(t))
         /\ Range(ToMove(t)) = S
<1>1. PICK n \in Nat \ {0} : n = t.num_buckets  BY TablesType
<1>2. PICK q : q = [i \in 1 .. n |-> Chain(t, i - 1)]  OBVIOUS
<1>3. DOMAIN q = 1 .. n /\ Len(q) = n  BY <1>2
<1>4. PICK f : /\ f[1] = q[1]
               /\ \A i \in 1 .. n - 1 : f[i + 1] = f[i] \o q[i + 1]
               /\ FlattenSeq(q) = f[n]
  <2>1. PICK f : Flattens(f, q, n)  BY <1>3, FlattenIs
  <2> QED BY <2>1, Zenon DEF Flattens
<1>5. ASSUME NEW i \in 1 .. n
      PROVE  /\ q[i] \in Seq(Elem) /\ IsInjective(q[i])
             /\ Range(q[i]) = Belonging(t, S, i - 1)
  <2>1. i - 1 \in 0 .. n - 1  OBVIOUS
  <2>2. PICK c : InBucket(t, S, i - 1, c)  BY <1>1, <2>1 DEF Chains
  <2>3. q[i] = c  BY <1>2, <2>2, ChainIs
  <2> QED BY <2>2, <2>3, ChainIs
<1>6. \A e \in S : Bucket(t, e) \in 0 .. n - 1
  <2> TAKE e \in S
  <2>1. key[e] \in Keys  BY UthashAssumption
  <2> QED BY <1>1, <2>1, BucketType DEF Bucket
<1> DEFINE Upto(i) == {e \in S : Bucket(t, e) <= i - 1}
           Fine(i) == /\ f[i] \in Seq(Elem) /\ IsInjective(f[i])
                      /\ Range(f[i]) = Upto(i)
           T == {i \in 0 .. n : i = 0 \/ Fine(i)}
<1>7. 0 \in T  OBVIOUS
<1>8. ASSUME NEW m \in 0 .. n - 1, m \in T PROVE m + 1 \in T
  <2>1. CASE m = 0
    <3>1. 1 \in 1 .. n  OBVIOUS
    <3>2. Upto(1) = Belonging(t, S, 0)  BY <1>6 DEF Belonging
    <3>3. Fine(1)  BY <1>4, <1>5, <3>1, <3>2
    <3> QED BY <2>1, <3>3
  <2>2. CASE m # 0
    <3>1. m \in 1 .. n - 1 /\ m + 1 \in 1 .. n /\ (m + 1) - 1 = m
      BY <2>2
    <3>2. Fine(m)  BY <1>8, <2>2
    <3>3. PICK a, b : a = f[m] /\ b = q[m + 1]  OBVIOUS
    <3>4. /\ b \in Seq(Elem) /\ IsInjective(b)
          /\ Range(b) = Belonging(t, S, m)
      BY <1>5, <3>1, <3>3
    <3>5. a \in Seq(Elem) /\ IsInjective(a) /\ Range(a) = Upto(m)
      BY <3>2, <3>3
    <3>6. Upto(m) \cap Belonging(t, S, m) = {}
      BY <1>6, <3>1 DEF Belonging
    <3>7. Upto(m) \cup Belonging(t, S, m) = Upto(m + 1)
      BY <1>6, <3>1 DEF Belonging
    <3>8. /\ a \o b \in Seq(Elem) /\ IsInjective(a \o b)
          /\ Range(a \o b) = Upto(m + 1)
      <4> HIDE DEF Upto
      <4>1. Range(a) \cap Range(b) = {}  BY ONLY <3>4, <3>5, <3>6
      <4>2. /\ a \o b \in Seq(Elem) /\ IsInjective(a \o b)
            /\ Range(a \o b) = Range(a) \cup Range(b)
        BY ONLY <3>4, <3>5, <4>1, ConcatSeq
      <4> QED BY ONLY <3>4, <3>5, <3>7, <4>2
    <3>9. f[m + 1] = a \o b  BY <1>4, <3>1, <3>3
    <3>10. Fine(m + 1)
      <4> HIDE DEF Upto
      <4> QED BY <3>8, <3>9
    <3> HIDE DEF Fine
    <3> QED BY <3>1, <3>10
  <2> QED BY <2>1, <2>2
<1>9. 0 .. n \subseteq T
  <2> HIDE DEF T
  <2> QED BY <1>7, <1>8, UpTo
<1>10. Fine(n)
  <2> HIDE DEF Fine
  <2> QED BY <1>9
<1>11. Upto(n) = S  BY <1>6
<1>12. ToMove(t) = f[n]  BY <1>1, <1>2, <1>4 DEF ToMove
<1> QED BY <1>10, <1>11, <1>12

-----------------------------------------------------------------------------
(***************************************************************************)
(* Doubling the buckets.  None of it concerns the list of all elements.    *)
(***************************************************************************)
SameList(r, t) ==
  /\ r.head = t.head /\ r.tail = t.tail /\ r.num_items = t.num_items
  /\ Nexts(r) = Nexts(t) /\ Prevs(r) = Prevs(t)

\* Numbers about a bucket do not matter for what is in it.
LEMMA SameChains ==
  ASSUME NEW t \in Tables, NEW r, NEW S, Chains(t, S),
         r.num_buckets = t.num_buckets,
         \A b \in 0 .. t.num_buckets - 1 :
           /\ r.buckets[b].hh_head = t.buckets[b].hh_head
           /\ r.buckets[b].count = t.buckets[b].count,
         \A x \in S : /\ HHNexts(r)[x] = HHNexts(t)[x]
                      /\ HHPrevs(r)[x] = HHPrevs(t)[x]
  PROVE  Chains(r, S)
<1>1. \A b : Belonging(r, S, b) = Belonging(t, S, b)
  BY DEF Belonging, Bucket
<1>2. ASSUME NEW b \in 0 .. t.num_buckets - 1
      PROVE  \E c : InBucket(r, S, b, c)
  <2>1. PICK c : InBucket(t, S, b, c)  BY DEF Chains
  <2>2. \A x \in Range(c) : /\ HHNexts(r)[x] = HHNexts(t)[x]
                            /\ HHPrevs(r)[x] = HHPrevs(t)[x]
    BY <2>1 DEF InBucket, Belonging
  <2>3. IsList(c, t.buckets[b].hh_head, HHNexts(r), HHPrevs(r))
    BY <2>1, <2>2, OtherList DEF InBucket
  <2>4. InBucket(r, S, b, c)  BY <1>1, <2>1, <2>3 DEF InBucket
  <2> QED BY <2>4
<1> QED BY <1>2 DEF Chains

\* What the formula comes to.
LEMMA RoundedUp ==
  ASSUME NEW x \in Nat \ {0}, NEW d \in Nat \ {0}
  PROVE  (x \div d) + (IF x % d # 0 THEN 1 ELSE 0) \in Nat \ {0}
<1>1. x \div d \in Nat  OBVIOUS
<1>2. x % d \in Nat  OBVIOUS
<1>3. ASSUME x \div d = 0 PROVE x % d # 0  BY <1>3
<1>4. PICK k \in Nat, l \in Nat : k = x \div d /\ l = x % d
  BY <1>1, <1>2
<1>5. k = 0 => l # 0  BY <1>3, <1>4
<1>6. k + (IF l # 0 THEN 1 ELSE 0) \in Nat \ {0}  BY <1>5
<1> QED BY <1>4, <1>6

\* The share of a bucket is at least one element.
LEMMA IdealChainType ==
  ASSUME NEW t \in Tables, t.num_items # 0
  PROVE  IdealChain(t) \in Nat \ {0}
<1>1. PICK x \in Nat \ {0}, n \in Nat \ {0} :
        x = t.num_items /\ n = t.num_buckets
  BY TablesType
<1>2. 2 * n \in Nat \ {0}  OBVIOUS
<1>3. (x \div (2 * n)) + (IF x % (2 * n) # 0 THEN 1 ELSE 0) \in Nat \ {0}
  BY <1>2, RoundedUp
<1> QED BY <1>1, <1>3 DEF IdealChain

\* One move: only numbers change besides PushFront.
LEMMA MoveIs ==
  ASSUME NEW t \in Tables, NEW S \in SUBSET Elem, Chains(t, S),
         NEW e \in Elem, e \notin S, NEW ideal \in Nat \ {0},
         NEW r, r = Move(t, e, ideal)
  PROVE  r \in Tables /\ SameList(r, t) /\ Chains(r, S \cup {e})
<1>1. PICK b : b = Bucket(t, e)  OBVIOUS
<1>2. PICK m : m = PushFront(t, b, e)  OBVIOUS
<1>3. /\ b \in 0 .. t.num_buckets - 1 /\ t.buckets[b].hh_head # e
      /\ Chains(m, S \cup {e})
  BY <1>1, <1>2, PushFrontChains
<1>4. m \in Tables /\ SameList(m, t) /\ m.num_buckets = t.num_buckets
  <2>1. /\ m \in Tables
        /\ m.head = t.head /\ m.tail = t.tail /\ m.num_items = t.num_items
        /\ m.num_buckets = t.num_buckets
        /\ Nexts(m) = Nexts(t) /\ Prevs(m) = Prevs(t)
    BY <1>2, <1>3, PushFrontIs
  <2> QED BY <2>1 DEF SameList
<1>5. PICK count : count = m.buckets[b].count  OBVIOUS
<1>6. PICK mult : mult = count \div ideal  OBVIOUS
<1>7. m.buckets \in [0 .. m.num_buckets - 1 -> Bkts] /\ m.nonideal_items \in Nat
  BY <1>4, TablesType
<1>8. count \in Nat /\ m.buckets[b] \in Bkts
  BY <1>3, <1>4, <1>5, <1>7 DEF Bkts
<1>9. CASE r = m  BY <1>3, <1>4, <1>9
<1>10. CASE r # m
  <2>1. PICK a : a = [m.buckets[b] EXCEPT !.expand_mult = mult]  OBVIOUS
  <2>2. PICK k : k = [m.buckets EXCEPT ![b] = a]  OBVIOUS
  <2>3. PICK i : i = m.nonideal_items + 1  OBVIOUS
  <2>4. r = [m EXCEPT !.nonideal_items = i, !.buckets = k]
    <3>1. r = [m EXCEPT !.nonideal_items = @ + 1,
                        !.buckets[b].expand_mult = mult]
      BY <1>1, <1>2, <1>5, <1>6, <1>10 DEF Move
    <3> QED BY <2>1, <2>2, <2>3, <3>1, <1>4 DEF Tables
  <2>5. mult \in Nat /\ i \in Nat  BY <1>6, <1>7, <1>8, <2>3
  <2>6. /\ a \in Bkts /\ a.hh_head = m.buckets[b].hh_head
        /\ a.count = m.buckets[b].count
    BY <1>8, <2>1, <2>5 DEF Bkts
  <2>7. /\ k \in [0 .. m.num_buckets - 1 -> Bkts]
        /\ \A c \in 0 .. m.num_buckets - 1 :
             /\ k[c].hh_head = m.buckets[c].hh_head
             /\ k[c].count = m.buckets[c].count
    BY <1>7, <2>2, <2>6
  <2>8. /\ r \in Tables /\ r.buckets = k /\ r.node = m.node
        /\ r.head = m.head /\ r.tail = m.tail /\ r.num_items = m.num_items
        /\ r.num_buckets = m.num_buckets
    <3>1. m \in Tables  BY <1>4
    <3>2. k \in [0 .. m.num_buckets - 1 -> Bkts]  BY <2>7
    <3>3. i \in Nat  BY <2>5
    <3>4. /\ r.buckets = k /\ r.node = m.node
          /\ r.head = m.head /\ r.tail = m.tail
          /\ r.num_items = m.num_items /\ r.num_buckets = m.num_buckets
      BY ONLY <2>4, <3>1 DEF Tables
    <3>5. r \in Tables
      <4>1. m.node \in [Elem -> Handles]  BY <3>1, TablesType
      <4>2. [m EXCEPT !.nonideal_items = i, !.buckets = k] \in Tables
        BY <3>1, <3>2, <3>3, <4>1, TablesKept
      <4> QED BY ONLY <2>4, <4>2
    <3> QED BY <3>4, <3>5
  <2>9. /\ Nexts(r) = Nexts(m) /\ Prevs(r) = Prevs(m)
        /\ HHNexts(r) = HHNexts(m) /\ HHPrevs(r) = HHPrevs(m)
    BY <2>8 DEF Nexts, Prevs, HHNexts, HHPrevs
  <2>10. Chains(r, S \cup {e})
    <3>1. /\ r.num_buckets = m.num_buckets
          /\ \A c \in 0 .. m.num_buckets - 1 :
               /\ r.buckets[c].hh_head = m.buckets[c].hh_head
               /\ r.buckets[c].count = m.buckets[c].count
      BY <2>7, <2>8
    <3>2. \A x \in S \cup {e} : /\ HHNexts(r)[x] = HHNexts(m)[x]
                                /\ HHPrevs(r)[x] = HHPrevs(m)[x]
      BY <2>9
    <3>3. m \in Tables  BY <1>4
    <3> QED BY <1>3, <3>1, <3>2, <3>3, SameChains
  <2> QED BY <1>4, <2>8, <2>9, <2>10 DEF SameList
<1> QED BY <1>9, <1>10

\* The buckets doubled and empty,
Doubled(t) == [t EXCEPT !.num_buckets = 2 * @,
                        !.buckets = NoBuckets(2 * t.num_buckets),
                        !.nonideal_items = 0]

\* and what is left to do after the moves.
Judged(t, m) ==
  LET ineff == IF m.nonideal_items > t.num_items \div 2
               THEN t.ineff_expands + 1 ELSE 0
  IN  [m EXCEPT !.ineff_expands = ineff, !.noexpand = @ \/ ineff > 1]

\* HASH_EXPAND_BUCKETS step by step.
LEMMA ExpandSteps ==
  ASSUME NEW t, ToMove(t) \in Seq(Elem)
  PROVE  \E f : /\ f[0] = Doubled(t)
                /\ \A i \in 1 .. Len(ToMove(t)) :
                     f[i] = Move(f[i - 1], ToMove(t)[i], IdealChain(t))
                /\ HASH_EXPAND_BUCKETS(t) = Judged(t, f[Len(ToMove(t))])
<1> DEFINE o == ToMove(t)
           d == Doubled(t)
           ideal == IdealChain(t)
           Step(g, s) == IF s = {} THEN d
                         ELSE Move(g[s \ {Max(s)}], o[Max(s)], ideal)
           Fold(g, D) == g = [s \in SUBSET D |-> Step(g, s)]
           S == {m \in Nat : \E g : Fold(g, 1 .. m)}
           it == CHOOSE g : Fold(g, DOMAIN o)
<1>1. HASH_EXPAND_BUCKETS(t) = Judged(t, it[DOMAIN o])
  BY DEF FoldLeft, MapThenFoldSet, HASH_EXPAND_BUCKETS, Judged, Doubled
<1>2. o \in Seq(Elem)  OBVIOUS
<1> HIDE DEF it, o, d, ideal
<1>3. 0 \in S
  <2>1. 1 .. 0 = {}  OBVIOUS
  <2>2. \A s \in SUBSET (1 .. 0) : s = {}  BY <2>1
  <2>3. Fold([s \in SUBSET (1 .. 0) |-> d], 1 .. 0)  BY <2>2
  <2> HIDE DEF Fold
  <2>4. \E g : Fold(g, 1 .. 0)  BY <2>3, Zenon
  <2> QED BY <2>4
<1>4. ASSUME NEW m \in Nat, m \in S PROVE m + 1 \in S
  <2>1. PICK h : Fold(h, 1 .. m)
    <3> HIDE DEF Fold
    <3> QED BY <1>4
  <2> DEFINE g == [s \in SUBSET (1 .. m + 1) |->
                     IF m + 1 \in s THEN Move(h[s \ {m + 1}], o[m + 1], ideal)
                     ELSE h[s]]
  <2>2. \A s \in SUBSET (1 .. m) : s \in SUBSET (1 .. m + 1) /\ m + 1 \notin s
    OBVIOUS
  <2>3. \A s \in SUBSET (1 .. m) : g[s] = h[s] /\ h[s] = Step(h, s)
    <3> TAKE s \in SUBSET (1 .. m)
    <3>1. g[s] = h[s]  BY <2>2
    <3> HIDE DEF Step, g
    <3>2. h[s] = Step(h, s)  BY <2>1
    <3> QED BY <3>1, <3>2
  <2>4. ASSUME NEW s \in SUBSET (1 .. m + 1) PROVE g[s] = Step(g, s)
    <3>1. CASE m + 1 \in s
      <4>1. Max(s) \in s /\ \A n \in s : Max(s) >= n
        <5>1. m + 1 \in Nat /\ s # {}  BY <3>1
        <5> QED BY <5>1, MaxIn
      <4>2. Max(s) = m + 1
        <5>1. PICK x \in s : x = Max(s) /\ x >= m + 1  BY <3>1, <4>1
        <5> QED BY <5>1
      <4>3. s \ {m + 1} \in SUBSET (1 .. m)  OBVIOUS
      <4>4. g[s \ {m + 1}] = h[s \ {m + 1}]  BY <2>3, <4>3
      <4>5. g[s] = Move(h[s \ {m + 1}], o[m + 1], ideal)  BY <3>1
      <4> HIDE DEF g
      <4> QED BY <3>1, <4>2, <4>4, <4>5
    <3>2. CASE m + 1 \notin s
      <4>1. s \in SUBSET (1 .. m)  BY <3>2
      <4>2. s \ {Max(s)} \in SUBSET (1 .. m)  BY <4>1
      <4> HIDE DEF g
      <4>3. g[s] = Step(h, s) /\ g[s \ {Max(s)}] = h[s \ {Max(s)}]
        BY <2>3, <4>1, <4>2
      <4> QED BY <4>3
    <3> QED BY <3>1, <3>2
  <2>5. g = [s \in SUBSET (1 .. m + 1) |-> g[s]]  OBVIOUS
  <2> HIDE DEF g, Step
  <2>6. Fold(g, 1 .. m + 1)  BY <2>4, <2>5
  <2> HIDE DEF Fold
  <2>7. \E f : Fold(f, 1 .. m + 1)  BY <2>6, Zenon
  <2> QED BY <2>7
<1>5. Nat \subseteq S
  <2> HIDE DEF S
  <2> QED BY <1>3, <1>4, NatSet
<1>6. PICK n \in Nat : n = Len(o)  BY <1>2
<1>7. DOMAIN o = 1 .. n  BY <1>6, <1>2
<1>8. Fold(it, DOMAIN o)
  <2> HIDE DEF Fold
  <2>1. \E g : Fold(g, DOMAIN o)  BY <1>5, <1>7
  <2> QED BY <2>1, Zenon DEF it
<1>9. \A s \in SUBSET (1 .. n) : it[s] = Step(it, s)
  <2> HIDE DEF Step
  <2> QED BY <1>7, <1>8
<1> DEFINE f == [i \in 0 .. n |-> it[1 .. i]]
<1>10. f[0] = d
  <2>1. 1 .. 0 = {} /\ {} \in SUBSET (1 .. n)  OBVIOUS
  <2>2. it[{}] = d  BY <1>9, <2>1
  <2> QED BY <2>1, <2>2
<1>11. ASSUME NEW i \in 1 .. n PROVE f[i] = Move(f[i - 1], o[i], ideal)
  <2>1. 1 .. i \in SUBSET (1 .. n) /\ i \in 1 .. i /\ i \in Nat  OBVIOUS
  <2>2. Max(1 .. i) \in 1 .. i /\ \A k \in 1 .. i : Max(1 .. i) >= k
    BY <2>1, MaxIn
  <2>3. Max(1 .. i) = i  BY <2>1, <2>2
  <2>4. (1 .. i) \ {i} = 1 .. i - 1  OBVIOUS
  <2>5. it[1 .. i] = Move(it[1 .. i - 1], o[i], ideal)
    BY <1>9, <2>1, <2>3, <2>4
  <2> QED BY <2>5
<1>12. f[n] = it[DOMAIN o]  BY <1>7
<1>13. Judged(t, f[n]) = HASH_EXPAND_BUCKETS(t)  BY <1>1, <1>12
<1> HIDE DEF f
<1> QED BY <1>6, <1>10, <1>11, <1>13 DEF o, d, ideal

\* Empty buckets, twice as many.
LEMMA DoubledIs ==
  ASSUME NEW t \in Tables
  PROVE  /\ Doubled(t) \in Tables /\ SameList(Doubled(t), t)
         /\ Chains(Doubled(t), {})
<1>1. PICK n \in Nat \ {0} : n = 2 * t.num_buckets  BY TablesType
<1>2. PICK k : k = NoBuckets(n)  OBVIOUS
<1>3. PICK d : d = Doubled(t)  OBVIOUS
<1>4. /\ k \in [0 .. n - 1 -> Bkts]
      /\ \A b \in 0 .. n - 1 : k[b].hh_head = NULL /\ k[b].count = 0
  BY <1>2 DEF NoBuckets, Bkts, Pointer
<1>5. d = [t EXCEPT !.num_buckets = n, !.buckets = k, !.nonideal_items = 0]
  BY <1>1, <1>2, <1>3 DEF Doubled, Tables
<1>6. /\ d.num_buckets = n /\ d.buckets = k /\ d.node = t.node
      /\ d.head = t.head /\ d.tail = t.tail /\ d.num_items = t.num_items
  BY <1>5 DEF Tables
<1>7. d \in Tables
  <2>1. k \in [0 .. n - 1 -> Bkts]  BY <1>4
  <2> QED BY <1>5, <2>1 DEF Tables
<1>8. SameList(d, t)  BY <1>6 DEF SameList, Nexts, Prevs
<1>9. ASSUME NEW b \in 0 .. n - 1 PROVE \E c : InBucket(d, {}, b, c)
  <2>1. d.buckets[b].hh_head = NULL /\ d.buckets[b].count = 0
    BY <1>4, <1>6
  <2>2. Entry(<<>>, 1) = NULL  BY DEF Entry
  <2>3. IsList(<<>>, NULL, HHNexts(d), HHPrevs(d))  BY <2>2 DEF IsList
  <2>4. Range(<<>>) = {} /\ Len(<<>>) = 0  BY DEF Range
  <2>5. InBucket(d, {}, b, <<>>)
    BY <2>1, <2>3, <2>4 DEF InBucket, Belonging
  <2> QED BY <2>5, Zenon
<1>10. Chains(d, {})  BY <1>6, <1>9 DEF Chains
<1> QED BY <1>3, <1>7, <1>8, <1>10

\* After every move the buckets hold what has been moved; in the end, all.
LEMMA ExpandIs ==
  ASSUME NEW t \in Tables, NEW S \in SUBSET Elem, Chains(t, S),
         t.num_items # 0, NEW r, r = HASH_EXPAND_BUCKETS(t)
  PROVE  r \in Tables /\ SameList(r, t) /\ Chains(r, S)
<1>1. PICK o : o = ToMove(t)  OBVIOUS
<1>2. o \in Seq(Elem) /\ IsInjective(o) /\ Range(o) = S
  BY <1>1, ToMoveIs
<1>3. PICK n \in Nat : n = Len(o) /\ DOMAIN o = 1 .. n  BY <1>2
<1>4. PICK ideal \in Nat \ {0} : ideal = IdealChain(t)  BY IdealChainType
<1>5. PICK f : /\ f[0] = Doubled(t)
               /\ \A i \in 1 .. n : f[i] = Move(f[i - 1], o[i], ideal)
               /\ r = Judged(t, f[n])
  BY <1>1, <1>2, <1>3, <1>4, ExpandSteps
<1> DEFINE Moved(i) == {o[k] : k \in 1 .. i}
           Fine(i) == /\ f[i] \in Tables /\ SameList(f[i], t)
                      /\ Chains(f[i], Moved(i))
           T == {i \in 0 .. n : Fine(i)}
<1>6. 0 \in T
  <2>1. Moved(0) = {}  OBVIOUS
  <2>2. Fine(0)
    <3> HIDE DEF Moved
    <3> QED BY <1>5, <2>1, DoubledIs
  <2> HIDE DEF Fine
  <2> QED BY <2>2
<1>7. ASSUME NEW m \in 0 .. n - 1, m \in T PROVE m + 1 \in T
  <2>1. m + 1 \in 1 .. n /\ (m + 1) - 1 = m /\ m + 1 \in 0 .. n  OBVIOUS
  <2>2. PICK g, e, M : g = f[m] /\ e = o[m + 1] /\ M = Moved(m)  OBVIOUS
  <2>3. g \in Tables /\ SameList(g, t) /\ Chains(g, M)
    BY <1>7, <2>2
  <2>4. e \in Elem  BY <1>2, <1>3, <2>1, <2>2
  <2>5. M \in SUBSET Elem /\ e \notin M
    <3>1. \A k \in 1 .. m : k \in 1 .. n /\ k # m + 1  OBVIOUS
    <3>2. \A k \in 1 .. m : o[k] \in Elem /\ o[k] # o[m + 1]
      BY <1>2, <1>3, <2>1, <3>1 DEF IsInjective
    <3> QED BY <2>2, <3>2
  <2>6. PICK h : h = Move(g, e, ideal)  OBVIOUS
  <2>7. h \in Tables /\ SameList(h, g) /\ Chains(h, M \cup {e})
    BY <2>3, <2>4, <2>5, <2>6, MoveIs
  <2>8. M \cup {e} = Moved(m + 1)
    <3>1. 1 .. m + 1 = (1 .. m) \cup {m + 1}  OBVIOUS
    <3> QED BY <2>2, <3>1
  <2>9. f[m + 1] = h  BY <1>5, <2>1, <2>2, <2>6
  <2>10. SameList(h, t)  BY <2>3, <2>7 DEF SameList
  <2>11. Fine(m + 1)
    <3> HIDE DEF Moved
    <3> QED BY <2>7, <2>8, <2>9, <2>10
  <2> HIDE DEF Fine
  <2> QED BY <2>1, <2>11
<1>8. 0 .. n \subseteq T
  <2> HIDE DEF T
  <2> QED BY <1>6, <1>7, UpTo
<1>9. PICK g : g = f[n]  OBVIOUS
<1>10. g \in Tables /\ SameList(g, t) /\ Chains(g, S)
  <2>1. Fine(n)
    <3> HIDE DEF Fine
    <3> QED BY <1>8
  <2>2. Moved(n) = S  BY <1>2, <1>3 DEF Range
  <2> HIDE DEF Moved
  <2> QED BY <1>9, <2>1, <2>2
<1>11. PICK ineff \in Nat : r = [g EXCEPT !.ineff_expands = ineff,
                                          !.noexpand = @ \/ ineff > 1]
  <2>1. (IF g.nonideal_items > t.num_items \div 2
         THEN t.ineff_expands + 1 ELSE 0) \in Nat
    BY TablesType
  <2> QED BY <1>5, <1>9, <2>1 DEF Judged
<1>12. PICK stop \in BOOLEAN : stop = (g.noexpand \/ ineff > 1)  OBVIOUS
<1>13. r = [g EXCEPT !.ineff_expands = ineff, !.noexpand = stop]
  BY <1>10, <1>11, <1>12 DEF Tables
<1>14. /\ r.buckets = g.buckets /\ r.node = g.node /\ r.head = g.head
       /\ r.tail = g.tail /\ r.num_items = g.num_items
       /\ r.num_buckets = g.num_buckets
  BY <1>10, <1>13 DEF Tables
<1>15. r \in Tables  BY <1>10, <1>13 DEF Tables
<1>16. /\ Nexts(r) = Nexts(g) /\ Prevs(r) = Prevs(g)
       /\ HHNexts(r) = HHNexts(g) /\ HHPrevs(r) = HHPrevs(g)
  BY <1>14 DEF Nexts, Prevs, HHNexts, HHPrevs
<1>17. Chains(r, S)  BY <1>10, <1>14, <1>16, SameChains
<1> QED BY <1>10, <1>14, <1>15, <1>16, <1>17 DEF SameList

\* HASH_ADD_TO_BKT: in its bucket, and the buckets doubled if it is full.
LEMMA AddToBktIs ==
  ASSUME NEW t \in Tables, NEW S \in SUBSET Elem, Chains(t, S),
         NEW e \in Elem, e \notin S, t.num_items # 0,
         NEW r, r = HASH_ADD_TO_BKT(t, Bucket(t, e), e)
  PROVE  r \in Tables /\ SameList(r, t) /\ Chains(r, S \cup {e})
<1>1. PICK b : b = Bucket(t, e)  OBVIOUS
<1>2. PICK m : m = PushFront(t, b, e)  OBVIOUS
<1>3. /\ b \in 0 .. t.num_buckets - 1 /\ t.buckets[b].hh_head # e
      /\ Chains(m, S \cup {e})
  BY <1>1, <1>2, PushFrontChains
<1>4. m \in Tables /\ SameList(m, t)
  BY <1>2, <1>3, PushFrontIs DEF SameList
<1>5. r = m \/ r = HASH_EXPAND_BUCKETS(m)
  BY <1>1, <1>2 DEF HASH_ADD_TO_BKT
<1>6. CASE r = m  BY <1>3, <1>4, <1>6
<1>7. CASE r = HASH_EXPAND_BUCKETS(m)
  <2>1. m.num_items # 0  BY <1>4 DEF SameList
  <2>2. r \in Tables /\ SameList(r, m) /\ Chains(r, S \cup {e})
    BY <1>3, <1>4, <1>7, <2>1, ExpandIs
  <2> QED BY <1>4, <2>2 DEF SameList
<1> QED BY <1>5, <1>6, <1>7

-----------------------------------------------------------------------------
(***************************************************************************)
(* Taking an element out.                                                  *)
(***************************************************************************)
\* Where the pointers of an element of a list lead.
LEMMA NeighboursIn ==
  ASSUME NEW s, NEW start, NEW next, NEW prev, IsList(s, start, next, prev),
         NEW j \in 1 .. Len(s), NEW e, e = s[j]
  PROVE  /\ next[e] # NULL => next[e] \in Range(s) /\ next[e] # e
         /\ prev[e] # NULL => prev[e] \in Range(s) /\ prev[e] # e
         /\ next[e] = NULL <=> j = Len(s)
         /\ prev[e] = NULL <=> j = 1
         /\ start = e <=> j = 1
<1>1. PICK n \in Nat : n = Len(s)  BY DEF IsList
<1>2. /\ \A i \in 1 .. n : s[i] \in Range(s) /\ s[i] # NULL
      /\ \A i, k \in 1 .. n : s[i] = s[k] => i = k
  <2>1. s \in [1 .. n -> Elem] /\ DOMAIN s = 1 .. n
    BY <1>1 DEF IsList
  <2>2. \A i \in 1 .. n : s[i] \in Range(s)  BY <2>1 DEF Range
  <2>3. \A i \in 1 .. n : s[i] # NULL  BY <2>1, UthashAssumption
  <2>4. \A i, k \in 1 .. n : s[i] = s[k] => i = k  BY <1>1 DEF IsList
  <2> QED BY <2>2, <2>3, <2>4
<1>3. /\ next[e] = Entry(s, j + 1) /\ prev[e] = Entry(s, j - 1)
      /\ start = Entry(s, 1)
  BY DEF IsList
<1>4. \A i \in Nat : Entry(s, i) = IF i \in 1 .. n THEN s[i] ELSE NULL
  BY <1>1 DEF Entry
<1>5. j \in 1 .. n /\ j + 1 \in Nat /\ j - 1 \in Nat  BY <1>1
<1>6. /\ next[e] # NULL => next[e] \in Range(s) /\ next[e] # e
      /\ next[e] = NULL <=> j = n
  <2>1. CASE j = n  BY <1>3, <1>4, <1>5, <2>1
  <2>2. CASE j # n
    <3>1. j + 1 \in 1 .. n /\ j + 1 # j  BY <1>5, <2>2
    <3>2. next[e] = s[j + 1]  BY <1>3, <1>4, <3>1
    <3> QED BY <1>2, <1>5, <2>2, <3>1, <3>2
  <2> QED BY <2>1, <2>2
<1>7. /\ prev[e] # NULL => prev[e] \in Range(s) /\ prev[e] # e
      /\ prev[e] = NULL <=> j = 1
  <2>1. CASE j = 1  BY <1>3, <1>4, <1>5, <2>1
  <2>2. CASE j # 1
    <3>1. j - 1 \in 1 .. n /\ j - 1 # j  BY <1>5, <2>2
    <3>2. prev[e] = s[j - 1]  BY <1>3, <1>4, <3>1
    <3> QED BY <1>2, <1>5, <2>2, <3>1, <3>2
  <2> QED BY <2>1, <2>2
<1>8. start = e <=> j = 1
  <2>1. 1 \in 1 .. n  BY <1>5
  <2>2. start = s[1]  BY <1>3, <1>4, <2>1
  <2> QED BY <1>2, <1>5, <2>1, <2>2
<1> QED BY <1>1, <1>6, <1>7, <1>8

\* The neighbours in the bucket point past the element.
LEMMA UnchainedIs ==
  ASSUME NEW m \in [Elem -> Handles], NEW e \in Elem,
         NEW r, r = Unchained(m, e)
  PROVE  /\ r \in [Elem -> Handles]
         /\ m[e].hh_prev # NULL => r[m[e].hh_prev].hh_next = m[e].hh_next
         /\ m[e].hh_next # NULL => r[m[e].hh_next].hh_prev = m[e].hh_prev
         /\ \A x \in Elem :
              /\ r[x].next = m[x].next /\ r[x].prev = m[x].prev
              /\ x # m[e].hh_prev => r[x].hh_next = m[x].hh_next
              /\ x # m[e].hh_next => r[x].hh_prev = m[x].hh_prev
<1>1. PICK n \in Pointer, p \in Pointer : n = m[e].hh_next /\ p = m[e].hh_prev
  BY DEF Handles
<1>2. PICK a : a = Set(m, p, "hh_next", n)  OBVIOUS
<1>3. r = Set(a, n, "hh_prev", p)  BY <1>1, <1>2 DEF Unchained
<1>4. /\ a \in [Elem -> Handles]
      /\ p # NULL => a[p].hh_next = n
      /\ \A x \in Elem :
           /\ a[x].next = m[x].next /\ a[x].prev = m[x].prev
           /\ x # p => a[x].hh_next = m[x].hh_next
           /\ a[x].hh_prev = m[x].hh_prev
  <2>1. /\ a \in [Elem -> Handles]
        /\ p = NULL => a = m
        /\ \A x \in Elem : x # p => a[x] = m[x]
        /\ p # NULL => /\ a[p].next = m[p].next
                       /\ a[p].prev = m[p].prev
                       /\ a[p].hh_next = n
                       /\ a[p].hh_prev = m[p].hh_prev
    BY <1>2, SetIs
  <2> QED BY <2>1
<1>5. /\ r \in [Elem -> Handles]
      /\ n # NULL => r[n].hh_prev = p
      /\ \A x \in Elem :
           /\ r[x].next = a[x].next /\ r[x].prev = a[x].prev
           /\ r[x].hh_next = a[x].hh_next
           /\ x # n => r[x].hh_prev = a[x].hh_prev
  <2>1. /\ r \in [Elem -> Handles]
        /\ n = NULL => r = a
        /\ \A x \in Elem : x # n => r[x] = a[x]
        /\ n # NULL => /\ r[n].next = a[n].next
                       /\ r[n].prev = a[n].prev
                       /\ r[n].hh_next = a[n].hh_next
                       /\ r[n].hh_prev = p
    BY <1>3, <1>4, SetIs
  <2> QED BY <2>1
<1>6. p # NULL => p \in Elem  BY DEF Pointer
<1> QED BY <1>1, <1>4, <1>5, <1>6

\* HASH_DEL_IN_BKT.
LEMMA DelInBktIs ==
  ASSUME NEW t \in Tables, NEW S \in SUBSET Elem, Chains(t, S), NEW e \in S,
         NEW r, r = HASH_DEL_IN_BKT(t, Bucket(t, e), e)
  PROVE  r \in Tables /\ SameList(r, t) /\ Chains(r, S \ {e})
<1>1. PICK b : b = Bucket(t, e)  OBVIOUS
<1>2. b \in 0 .. t.num_buckets - 1
  <2>1. key[e] \in Keys /\ t.num_buckets \in Nat \ {0}
    BY TablesType, UthashAssumption
  <2> QED BY <1>1, <2>1, BucketType DEF Bucket
<1>3. PICK c : InBucket(t, S, b, c)  BY <1>2 DEF Chains
<1>4. PICK start, next, prev :
        /\ start = t.buckets[b].hh_head /\ next = HHNexts(t)
        /\ prev = HHPrevs(t)
  OBVIOUS
<1>5. IsList(c, start, next, prev) /\ Range(c) = Belonging(t, S, b)
      /\ t.buckets[b].count = Len(c) /\ c \in Seq(Elem)
  BY <1>3, <1>4 DEF InBucket, IsList
<1>6. e \in Range(c)  BY <1>1, <1>5 DEF Belonging
<1>7. PICK j \in 1 .. Len(c) : c[j] = e  BY <1>5, <1>6 DEF Range
<1>8. /\ next[e] # NULL => next[e] \in Range(c)
      /\ prev[e] # NULL => prev[e] \in Range(c)
  BY <1>5, <1>7, NeighboursIn
<1>9. PICK m : m = Unchained(t.node, e)  OBVIOUS
<1>10. t.node \in [Elem -> Handles] /\ t.node[e] \in Handles
  BY TablesType
<1>11. next[e] = t.node[e].hh_next /\ prev[e] = t.node[e].hh_prev
       /\ next[e] \in Pointer
  BY <1>4, <1>10 DEF HHNexts, HHPrevs, Handles
<1>12. /\ m \in [Elem -> Handles]
       /\ prev[e] # NULL => m[prev[e]].hh_next = next[e]
       /\ next[e] # NULL => m[next[e]].hh_prev = prev[e]
       /\ \A x \in Elem :
            /\ m[x].next = t.node[x].next /\ m[x].prev = t.node[x].prev
            /\ x # prev[e] => m[x].hh_next = t.node[x].hh_next
            /\ x # next[e] => m[x].hh_prev = t.node[x].hh_prev
  BY <1>9, <1>10, <1>11, UnchainedIs
<1>13. PICK first \in Pointer, n \in Nat :
         /\ first = IF start = e THEN next[e] ELSE start
         /\ n = Len(c) - 1
  <2>1. start \in Pointer
    <3>1. t.buckets[b] \in Bkts  BY <1>2, TablesType
    <3> QED BY <1>4, <3>1 DEF Bkts
  <2>2. (IF start = e THEN next[e] ELSE start) \in Pointer
    BY <1>11, <2>1
  <2>3. Len(c) - 1 \in Nat
    <3>1. PICK l \in Nat : l = Len(c)  BY <1>5
    <3>2. j \in 1 .. l  BY <3>1
    <3> QED BY <3>1, <3>2
  <2> QED BY <2>2, <2>3
<1>14. PICK a : a = [t.buckets[b] EXCEPT !.count = n, !.hh_head = first]
  OBVIOUS
<1>15. PICK k : k = [t.buckets EXCEPT ![b] = a]  OBVIOUS
<1>16. r = [t EXCEPT !.buckets = k, !.node = m]
  <2>1. t.buckets[b] \in Bkts  BY <1>2, TablesType
  <2>2. a = [t.buckets[b] EXCEPT !.count = @ - 1,
               !.hh_head = IF @ = e THEN t.node[e].hh_next ELSE @]
    BY <1>4, <1>5, <1>11, <1>13, <1>14, <2>1 DEF Bkts
  <2>3. r = [t EXCEPT !.buckets[b].count = @ - 1,
               !.buckets[b].hh_head =
                  IF @ = e THEN t.node[e].hh_next ELSE @,
               !.node = m]
    BY <1>1, <1>9 DEF HASH_DEL_IN_BKT
  <2>4. [t EXCEPT !.buckets[b].count = @ - 1,
                  !.buckets[b].hh_head =
                     IF @ = e THEN t.node[e].hh_next ELSE @,
                  !.node = m]
          = [t EXCEPT !.buckets = k, !.node = m]
    <3>1. PICK o : o = t.buckets[b]  OBVIOUS
    <3>2. PICK q : q = t.buckets  OBVIOUS
    <3>3. /\ q \in [0 .. t.num_buckets - 1 -> Bkts] /\ o = q[b]
          /\ b \in DOMAIN q
      BY <1>2, <3>1, <3>2, TablesType
    <3>4. k = [q EXCEPT ![b] = a]  BY <1>15, <3>2
    <3>5. [q EXCEPT ![b].count = @ - 1,
                    ![b].hh_head = IF @ = e THEN t.node[e].hh_next ELSE @]
            = k
      BY ONLY <2>1, <2>2, <3>1, <3>3, <3>4 DEF Bkts
    <3>6. [t EXCEPT !.buckets[b].count = @ - 1,
                    !.buckets[b].hh_head =
                       IF @ = e THEN t.node[e].hh_next ELSE @,
                    !.node = m]
            = [t EXCEPT !.buckets =
                 [q EXCEPT ![b].count = @ - 1,
                           ![b].hh_head =
                              IF @ = e THEN t.node[e].hh_next ELSE @],
                 !.node = m]
      BY ONLY <3>2, <3>3, <1>2, t \in Tables DEF Tables
    <3> QED BY ONLY <3>5, <3>6
  <2> QED BY ONLY <2>3, <2>4
<1>17. /\ k \in [0 .. t.num_buckets - 1 -> Bkts]
       /\ k[b].hh_head = first /\ k[b].count = n
       /\ \A d \in 0 .. t.num_buckets - 1 : d # b => k[d] = t.buckets[d]
  <2>1. t.buckets[b] \in Bkts /\ t.buckets \in [0 .. t.num_buckets - 1 -> Bkts]
    BY <1>2, TablesType
  <2>2. a \in Bkts /\ a.hh_head = first /\ a.count = n
    BY <1>14, <2>1 DEF Bkts
  <2> QED BY <1>2, <1>15, <2>1, <2>2
<1>18. /\ r.buckets = k /\ r.node = m
       /\ r.head = t.head /\ r.tail = t.tail /\ r.num_items = t.num_items
       /\ r.num_buckets = t.num_buckets
  BY <1>16 DEF Tables
<1>19. r \in Tables
  <2>1. k \in [0 .. t.num_buckets - 1 -> Bkts]  BY <1>17
  <2>2. m \in [Elem -> Handles]  BY <1>12
  <2>3. [t EXCEPT !.buckets = k, !.node = m] \in Tables
    BY <2>1, <2>2, TablesKept
  <2> QED BY ONLY <1>16, <2>3
<1>20. SameList(r, t)
  BY <1>12, <1>18 DEF SameList, Nexts, Prevs
<1>21. PICK next2, prev2 : next2 = HHNexts(r) /\ prev2 = HHPrevs(r)
  OBVIOUS
<1>22. /\ prev[e] # NULL => next2[prev[e]] = next[e]
       /\ next[e] # NULL => prev2[next[e]] = prev[e]
       /\ \A x \in Elem : /\ x # prev[e] => next2[x] = next[x]
                          /\ x # next[e] => prev2[x] = prev[x]
  <2>1. Range(c) \subseteq Elem  BY <1>5, FirstIn
  <2>2. \A x \in Elem : next2[x] = m[x].hh_next /\ prev2[x] = m[x].hh_prev
    BY <1>18, <1>21 DEF HHNexts, HHPrevs
  <2>3. \A x \in Elem : /\ next[x] = t.node[x].hh_next
                        /\ prev[x] = t.node[x].hh_prev
    BY <1>4 DEF HHNexts, HHPrevs
  <2> QED BY <1>8, <1>12, <2>1, <2>2, <2>3
<1>23. \A x : Bucket(r, x) = Bucket(t, x)  BY <1>18 DEF Bucket
<1>24. InBucket(r, S \ {e}, b, RemoveAt(c, j))
  <2>1. Range(c) \subseteq Elem  BY <1>5, FirstIn
  <2>2. /\ \A x \in Range(c) : x # prev[e] /\ x # e => next2[x] = next[x]
        /\ \A x \in Range(c) : x # next[e] /\ x # e => prev2[x] = prev[x]
    BY <1>22, <2>1
  <2>3. IsList(RemoveAt(c, j), first, next2, prev2)
    <3>1. IsList(RemoveAt(c, j), IF start = e THEN next[e] ELSE start,
                 next2, prev2)
      BY <1>5, <1>7, <1>22, <2>2, RemoveList
    <3> QED BY <1>13, <3>1
  <2>4. /\ Len(RemoveAt(c, j)) = n
        /\ Range(RemoveAt(c, j)) = Range(c) \ {e}
    <3>1. \A i, l \in 1 .. Len(c) : c[i] = c[l] => i = l
      BY <1>5 DEF IsList
    <3> QED BY <1>5, <1>7, <1>13, <3>1, RemoveSeq
  <2>5. Belonging(r, S \ {e}, b) = Belonging(t, S, b) \ {e}
    BY <1>23 DEF Belonging
  <2> QED BY <1>5, <1>17, <1>18, <1>21, <2>3, <2>4, <2>5 DEF InBucket
<1>25. ASSUME NEW d \in 0 .. t.num_buckets - 1, d # b
       PROVE  \E f : InBucket(r, S \ {e}, d, f)
  <2>1. PICK f : InBucket(t, S, d, f)  BY DEF Chains
  <2>2. /\ Range(f) \subseteq Elem
        /\ \A x \in Range(f) : x # next[e] /\ x # prev[e]
    <3>1. Range(f) = Belonging(t, S, d)  BY <2>1 DEF InBucket
    <3>2. NULL \notin Elem  BY UthashAssumption
    <3> QED BY <1>5, <1>8, <1>25, <3>1, <3>2 DEF Belonging
  <2>3. \A x \in Range(f) : next2[x] = next[x] /\ prev2[x] = prev[x]
    BY <1>22, <2>2
  <2>4. IsList(f, t.buckets[d].hh_head, next2, prev2)
    BY <1>4, <2>1, <2>3, OtherList DEF InBucket
  <2>5. Belonging(r, S \ {e}, d) = Belonging(t, S, d)
    BY <1>1, <1>23, <1>25 DEF Belonging
  <2>6. r.buckets[d] = t.buckets[d]  BY <1>17, <1>18, <1>25
  <2>7. InBucket(r, S \ {e}, d, f)
    BY <1>21, <2>1, <2>4, <2>5, <2>6 DEF InBucket
  <2> QED BY <2>7
<1>26. Chains(r, S \ {e})
  <2>1. ASSUME NEW d \in 0 .. t.num_buckets - 1
        PROVE  \E f : InBucket(r, S \ {e}, d, f)
    <3>1. CASE d = b  BY <1>24, <3>1
    <3>2. CASE d # b  BY <1>25, <3>2
    <3> QED BY <3>1, <3>2
  <2> QED BY <1>18, <2>1 DEF Chains
<1> QED BY <1>19, <1>20, <1>26

-----------------------------------------------------------------------------
(***************************************************************************)
(* The table holds the sequence s: its list spells it, its buckets hold    *)
(* its elements, and no two of them have the same key.  The handles of all *)
(* other elements may hold anything.                                       *)
(***************************************************************************)
Holds(t, s) ==
  /\ IsList(s, t.head, Nexts(t), Prevs(t))
  /\ t.tail = Entry(s, Len(s))
  /\ t.num_items = Len(s)
  /\ Chains(t, Range(s))
  /\ \A e, f \in Range(s) : key[e] = key[f] => e = f

\* The list of all elements, as the iteration finds it.
LEMMA InOrderIs ==
  ASSUME NEW t, NEW s, Holds(t, s)
  PROVE  /\ InOrder(t) = s /\ s \in Seq(Elem) /\ Range(s) \subseteq Elem
         /\ t.head = NULL <=> s = <<>>
<1>1. PICK start, next, prev :
        start = t.head /\ next = Nexts(t) /\ prev = Prevs(t)
  OBVIOUS
<1>2. IsList(s, start, next, prev)  BY <1>1 DEF Holds
<1>3. Walk(start, next) = s  BY <1>2, WalkList
<1>4. InOrder(t) = s  BY <1>1, <1>3 DEF InOrder, Nexts
<1>5. Range(s) \subseteq Elem /\ (start = NULL <=> s = <<>>)
  BY <1>2, FirstIn
<1> QED BY <1>1, <1>2, <1>4, <1>5 DEF IsList

\* A table that has just been made, or of which there is none.
LEMMA NoTableHolds == NoTable \in Tables /\ Holds(NoTable, <<>>)
<1>1. PICK n \in Nat \ {0} : n = HASH_INITIAL_NUM_BUCKETS
  BY UthashAssumption
<1>2. PICK k : k = NoBuckets(n)  OBVIOUS
<1>3. /\ k \in [0 .. n - 1 -> Bkts]
      /\ \A b \in 0 .. n - 1 : k[b].hh_head = NULL /\ k[b].count = 0
  BY <1>2 DEF NoBuckets, Bkts, Pointer
<1>4. PICK m : m = Garbage  OBVIOUS
<1>5. m \in [Elem -> Handles]  BY <1>4, UthashAssumption
<1>6. PICK t : t = NoTable  OBVIOUS
<1>7. t = [head |-> NULL, tail |-> NULL, num_items |-> 0, num_buckets |-> n,
           buckets |-> k, nonideal_items |-> 0, ineff_expands |-> 0,
           noexpand |-> FALSE, node |-> m]
  BY <1>1, <1>2, <1>4, <1>6 DEF NoTable
<1>8. t \in Tables
  <2>1. k \in [0 .. n - 1 -> Bkts]  BY <1>3
  <2> QED BY <1>5, <1>7, <2>1 DEF Tables, Pointer
<1>9. Len(<<>>) = 0 /\ Range(<<>>) = {} /\ <<>> \in Seq(Elem)  BY DEF Range
<1>10. \A i : Entry(<<>>, i) = NULL  BY DEF Entry
<1>11. \A next, prev : IsList(<<>>, NULL, next, prev)
  BY <1>9, <1>10 DEF IsList
<1>12. ASSUME NEW b \in 0 .. n - 1 PROVE InBucket(t, {}, b, <<>>)
  <2>1. t.buckets[b].hh_head = NULL /\ t.buckets[b].count = 0
    BY <1>3, <1>7
  <2> QED BY <1>9, <1>11, <2>1 DEF InBucket, Belonging
<1>13. Chains(t, {})
  <2>1. t.num_buckets = n  BY <1>7
  <2> QED BY <1>12, <2>1, Zenon DEF Chains
<1>14. t.head = NULL /\ t.tail = NULL /\ t.num_items = 0  BY <1>7
<1> QED BY <1>6, <1>8, <1>9, <1>10, <1>11, <1>13, <1>14 DEF Holds

\* HASH_FIND.
LEMMA FindIs ==
  ASSUME NEW t \in Tables, NEW s, Holds(t, s), NEW k \in Keys
  PROVE  /\ \A e \in Range(s) : key[e] = k => HASH_FIND(t, k) = e
         /\ (\A e \in Range(s) : key[e] # k) => HASH_FIND(t, k) = NULL
<1>1. CASE t.head = NULL
  <2>1. Range(s) = {}  BY <1>1, InOrderIs DEF Range
  <2> QED BY <1>1, <2>1 DEF HASH_FIND
<1>2. CASE t.head # NULL
  <2>1. PICK b : b = HASH_TO_BKT(HASH_FCN[k], t.num_buckets)  OBVIOUS
  <2>2. b \in 0 .. t.num_buckets - 1  BY <2>1, BucketType, TablesType
  <2>3. PICK c : InBucket(t, Range(s), b, c)
    BY <2>2 DEF Chains, Holds
  <2>4. /\ Chain(t, b) = c /\ c \in Seq(Elem)
        /\ Range(c) = Belonging(t, Range(s), b)
    BY <2>3, ChainIs
  <2>5. PICK I : I = {i \in 1 .. Len(c) : key[c[i]] = k}  OBVIOUS
  <2>6. PICK i : i = IF I # {} THEN Min(I) ELSE 0  OBVIOUS
  <2>7. SelectInSeq(c, LAMBDA e : key[e] = k) = i
    BY <2>5, <2>6 DEF SelectInSeq
  <2>8. HASH_FIND(t, k) = IF i = 0 THEN NULL ELSE c[i]
    BY <1>2, <2>1, <2>4, <2>7 DEF HASH_FIND, HASH_FIND_IN_BKT
  <2>9. I \in SUBSET Nat /\ 0 \notin I  BY <2>5
  <2>10. /\ I = {} => i = 0
         /\ I # {} => i \in I /\ i # 0
    BY <2>6, <2>9, MinIn
  <2>11. \A l \in 1 .. Len(c) : c[l] \in Range(s)
    BY <2>4 DEF Range, Belonging
  <2>12. ASSUME NEW e \in Range(s), key[e] = k PROVE HASH_FIND(t, k) = e
    <3>1. e \in Range(c)  BY <2>1, <2>4, <2>12 DEF Belonging, Bucket
    <3>2. PICK l \in 1 .. Len(c) : c[l] = e  BY <2>4, <3>1 DEF Range
    <3>3. I # {}  BY <2>5, <2>12, <3>2
    <3>4. i \in 1 .. Len(c) /\ key[c[i]] = k /\ i # 0
      BY <2>5, <2>10, <3>3
    <3>5. c[i] = e  BY <2>11, <2>12, <3>4 DEF Holds
    <3> QED BY <2>8, <3>4, <3>5
  <2>13. ASSUME \A e \in Range(s) : key[e] # k PROVE HASH_FIND(t, k) = NULL
    <3>1. I = {}  BY <2>5, <2>11, <2>13
    <3> QED BY <2>8, <2>10, <3>1
  <2> QED BY <2>12, <2>13
<1> QED BY <1>1, <1>2

\* HASH_ADD_KEYPTR up to the bucket: behind the tail.
Appended(t, e) == [Linked(t, e) EXCEPT !.num_items = @ + 1]

\* What it does.
LEMMA LinkedIs ==
  ASSUME NEW t \in Tables, NEW s, Holds(t, s), NEW e \in Elem, e \notin Range(s),
         NEW r, r = Appended(t, e)
  PROVE  /\ r \in Tables /\ r.num_buckets = t.num_buckets
         /\ IsList(Append(s, e), r.head, Nexts(r), Prevs(r))
         /\ r.tail = e /\ r.num_items = Len(s) + 1
         /\ Chains(r, Range(s))
<1>1. PICK start, next, prev :
        start = t.head /\ next = Nexts(t) /\ prev = Prevs(t)
  OBVIOUS
<1>2. /\ IsList(s, start, next, prev) /\ t.tail = Entry(s, Len(s))
      /\ t.num_items = Len(s) /\ Chains(t, Range(s)) /\ s \in Seq(Elem)
  BY <1>1 DEF Holds, IsList
<1>3. PICK n \in Nat : n = Len(s)  BY <1>2
<1>4. t.node \in [Elem -> Handles]  BY TablesType
<1>5. e \in Pointer /\ Range(s) \subseteq Elem
  BY <1>2, FirstIn DEF Pointer
<1>6. start = NULL <=> s = <<>>  BY <1>2, FirstIn
<1> DEFINE Fits(m, h) ==
             /\ r = [t EXCEPT !.head = h, !.tail = e, !.node = m,
                              !.num_items = n + 1]
             /\ h = IF s = <<>> THEN e ELSE start
             /\ m \in [Elem -> Handles] /\ h \in Pointer
             /\ m[e].next = NULL /\ m[e].prev = Entry(s, n)
             /\ s # <<>> => m[s[n]].next = e
             /\ \A x \in Elem : x # e =>
                  /\ x # Entry(s, n) => m[x].next = next[x]
                  /\ m[x].prev = prev[x]
             /\ \A x \in Elem : /\ m[x].hh_next = t.node[x].hh_next
                                /\ m[x].hh_prev = t.node[x].hh_prev
<1>7. PICK m, h : Fits(m, h)
  <2>1. \A x \in Elem : next[x] = t.node[x].next /\ prev[x] = t.node[x].prev
    BY <1>1 DEF Nexts, Prevs
  <2>2. CASE s = <<>>
    <3>1. n = 0 /\ Entry(s, n) = NULL  BY <1>3, <2>2 DEF Entry
    <3>2. t.head = NULL  BY <1>1, <1>6, <2>2
    <3>3. PICK m : m = [t.node EXCEPT ![e].next = NULL, ![e].prev = NULL]
      OBVIOUS
    <3>4. r = [t EXCEPT !.head = e, !.tail = e, !.node = m,
                        !.num_items = n + 1]
      <4>1. Linked(t, e) = [t EXCEPT !.head = e, !.tail = e,
                                     !.node[e].next = NULL, !.node[e].prev = NULL]
        BY <1>4, <3>2 DEF Linked, Tables, Handles
      <4>2. Linked(t, e) = [t EXCEPT !.head = e, !.tail = e, !.node = m]
        BY <1>4, <3>3, <4>1 DEF Tables
      <4>3. t.num_items = n  BY <1>2, <1>3
      <4> QED BY <4>2, <4>3 DEF Tables, Appended
    <3>5. /\ m \in [Elem -> Handles]
          /\ m[e].next = NULL /\ m[e].prev = NULL
          /\ m[e].hh_next = t.node[e].hh_next
          /\ m[e].hh_prev = t.node[e].hh_prev
          /\ \A x \in Elem : x # e => m[x] = t.node[x]
      BY <1>4, <3>3 DEF Handles, Pointer
    <3>6. Fits(m, e)
      BY <1>5, <2>1, <2>2, <3>1, <3>4, <3>5
    <3> HIDE DEF Fits
    <3> QED BY <3>6
  <2>3. CASE s # <<>>
    <3>1. n # 0
      <4>1. n = 0 => s = <<>>  BY <1>2, <1>3, EmptySeq
      <4> QED BY <2>3, <4>1
    <3>2. PICK p \in Elem : p = s[n] /\ p = Entry(s, n) /\ p # e
      <4>1. n \in 1 .. Len(s)  BY <1>3, <3>1
      <4>2. s[n] \in Range(s)  BY <1>2, <4>1 DEF Range
      <4> QED BY <1>5, <4>1, <4>2 DEF Entry
    <3>3. t.head # NULL /\ t.tail = p  BY <1>1, <1>2, <1>3, <1>6, <2>3, <3>2
    <3>4. PICK m : m = [t.node EXCEPT ![e].next = NULL, ![p].next = e,
                                      ![e].prev = p]
      OBVIOUS
    <3>5. r = [t EXCEPT !.head = t.head, !.tail = e, !.node = m,
                        !.num_items = n + 1]
      <4>1. Linked(t, e) = [t EXCEPT
                             !.node = [[t.node EXCEPT ![e].next = NULL]
                                         EXCEPT ![p].next = e, ![e].prev = p],
                             !.tail = e]
        BY <3>3 DEF Linked, Tables
      <4>2. Linked(t, e) = [t EXCEPT !.node = m, !.tail = e]
        BY <1>4, <3>4, <4>1 DEF Tables
      <4>3. t.num_items = n  BY <1>2, <1>3
      <4> QED BY <4>2, <4>3 DEF Tables, Appended
    <3>6. p \in Pointer  BY DEF Pointer
    <3>7. /\ m \in [Elem -> Handles]
          /\ m[p].next = e /\ m[p].prev = t.node[p].prev
          /\ m[p].hh_next = t.node[p].hh_next
          /\ m[p].hh_prev = t.node[p].hh_prev
          /\ m[e].prev = p /\ m[e].next = NULL
          /\ m[e].hh_next = t.node[e].hh_next
          /\ m[e].hh_prev = t.node[e].hh_prev
          /\ \A x \in Elem : x # e /\ x # p => m[x] = t.node[x]
      <4>1. PICK a \in Handles : a = [t.node[e] EXCEPT !.next = NULL, !.prev = p]
        BY <1>4, <3>6 DEF Handles, Pointer
      <4>2. PICK b \in Handles : b = [t.node[p] EXCEPT !.next = e]
        BY <1>4, <3>2 DEF Handles, Pointer
      <4>3. m = [t.node EXCEPT ![e] = a, ![p] = b]
        BY <1>4, <3>2, <3>4, <4>1, <4>2
      <4>4. m[e] = a /\ m[p] = b  BY <1>4, <3>2, <4>3
      <4>5. m \in [Elem -> Handles]  BY <1>4, <4>3
      <4>6. \A x \in Elem : x # e /\ x # p => m[x] = t.node[x]  BY <1>4, <4>3
      <4>7. /\ a.next = NULL /\ a.prev = p
            /\ a.hh_next = t.node[e].hh_next /\ a.hh_prev = t.node[e].hh_prev
        BY <1>4, <4>1 DEF Handles
      <4>8. /\ b.next = e /\ b.prev = t.node[p].prev
            /\ b.hh_next = t.node[p].hh_next /\ b.hh_prev = t.node[p].hh_prev
        BY <1>4, <3>2, <4>2 DEF Handles
      <4> QED BY <4>4, <4>5, <4>6, <4>7, <4>8
    <3>8. start \in Pointer  BY <1>1, TablesType
    <3>9. /\ \A x \in Elem : x # e =>
                /\ x # Entry(s, n) => m[x].next = next[x]
                /\ m[x].prev = prev[x]
          /\ \A x \in Elem : /\ m[x].hh_next = t.node[x].hh_next
                             /\ m[x].hh_prev = t.node[x].hh_prev
      BY <2>1, <3>2, <3>7
    <3>10. r = [t EXCEPT !.head = start, !.tail = e, !.node = m,
                         !.num_items = n + 1]
      BY <1>1, <3>5
    <3>11. Fits(m, start)
      BY <2>3, <3>2, <3>7, <3>8, <3>9, <3>10
    <3> HIDE DEF Fits
    <3> QED BY <3>11
  <2> QED BY <2>2, <2>3
<1>8. /\ r.head = h /\ r.tail = e /\ r.node = m /\ r.num_items = n + 1
      /\ r.buckets = t.buckets /\ r.num_buckets = t.num_buckets
  BY <1>7 DEF Tables
<1>9. r \in Tables
  <2>1. n + 1 \in Nat /\ e \in Pointer /\ h \in Pointer /\ m \in [Elem -> Handles]
    BY <1>5, <1>7
  <2>2. r = [t EXCEPT !.head = h, !.tail = e, !.node = m, !.num_items = n + 1]
    BY <1>7
  <2> QED BY ONLY <2>1, <2>2, t \in Tables DEF Tables
<1>10. PICK next2, prev2 : next2 = Nexts(r) /\ prev2 = Prevs(r)  OBVIOUS
<1>11. \A x \in Elem : next2[x] = m[x].next /\ prev2[x] = m[x].prev
  BY <1>8, <1>10 DEF Nexts, Prevs
<1>12. IsList(Append(s, e), h, next2, prev2)
  <2>1. next2[e] = NULL /\ prev2[e] = Entry(s, Len(s))
    BY <1>3, <1>7, <1>11
  <2>2. s # <<>> => next2[s[Len(s)]] = e
    <3>1. ASSUME s # <<>> PROVE s[n] \in Elem
      <4>1. n # 0  BY <1>2, <1>3, <3>1, EmptySeq
      <4>2. n \in 1 .. Len(s)  BY <1>3, <4>1
      <4> QED BY <1>2, <4>2
    <3> QED BY <1>3, <1>7, <1>11, <3>1
  <2>3. \A x \in Range(s) : x \in Elem /\ x # e  BY <1>5
  <2>4. /\ \A x \in Range(s) : x # Entry(s, Len(s)) => next2[x] = next[x]
        /\ \A x \in Range(s) : prev2[x] = prev[x]
    BY <1>3, <1>7, <1>11, <2>3
  <2>5. IsList(Append(s, e), IF s = <<>> THEN e ELSE start, next2, prev2)
    BY <1>2, <2>1, <2>2, <2>4, BackList
  <2> QED BY <1>7, <2>5
<1>13. Chains(r, Range(s))
  <2>1. \A x \in Range(s) : /\ HHNexts(r)[x] = HHNexts(t)[x]
                            /\ HHPrevs(r)[x] = HHPrevs(t)[x]
    BY <1>5, <1>7, <1>8 DEF HHNexts, HHPrevs
  <2>2. \A b \in 0 .. t.num_buckets - 1 :
          /\ r.buckets[b].hh_head = t.buckets[b].hh_head
          /\ r.buckets[b].count = t.buckets[b].count
    BY <1>8
  <2>3. r.num_buckets = t.num_buckets /\ Chains(t, Range(s))  BY <1>2, <1>8
  <2> QED BY <2>1, <2>2, <2>3, SameChains
<1> QED BY <1>3, <1>8, <1>9, <1>10, <1>12, <1>13

\* HASH_ADD_KEYPTR.
LEMMA AddIs ==
  ASSUME NEW t \in Tables, NEW s, Holds(t, s), NEW e \in Elem, e \notin Range(s),
         \A f \in Range(s) : key[f] # key[e],
         NEW r, r = HASH_ADD_KEYPTR(t, e)
  PROVE  r \in Tables /\ Holds(r, Append(s, e))
<1>1. PICK l : l = Appended(t, e)  OBVIOUS
<1>2. s \in Seq(Elem) /\ Range(s) \subseteq Elem  BY InOrderIs
<1> DEFINE a == Append(s, e)
<1>3. PICK n \in Nat : n = Len(s)  BY <1>2
<1>4. /\ a \in Seq(Elem) /\ Len(a) = n + 1 /\ a[n + 1] = e
      /\ Range(a) = Range(s) \cup {e}
  <2>1. n + 1 \in 1 .. n + 1  OBVIOUS
  <2> QED BY <1>2, <1>3, <2>1, BackSeq
<1> HIDE DEF a
<1>5. /\ l \in Tables /\ l.num_buckets = t.num_buckets
      /\ IsList(a, l.head, Nexts(l), Prevs(l))
      /\ l.tail = e /\ l.num_items = n + 1
      /\ Chains(l, Range(s))
  BY <1>1, <1>3, LinkedIs DEF a
<1>6. Bucket(t, e) = Bucket(l, e)  BY <1>5 DEF Bucket
<1>7. r = HASH_ADD_TO_BKT(l, Bucket(l, e), e)
  BY <1>1, <1>6 DEF HASH_ADD_KEYPTR, Appended
<1>8. r \in Tables /\ SameList(r, l) /\ Chains(r, Range(a))
  <2>1. l.num_items # 0  BY <1>5
  <2>2. r \in Tables /\ SameList(r, l) /\ Chains(r, Range(s) \cup {e})
    BY ONLY <1>2, <1>5, <1>7, <2>1, e \in Elem, e \notin Range(s), AddToBktIs
  <2> QED BY ONLY <1>4, <2>2
<1>9. /\ r.head = l.head /\ r.tail = e /\ r.num_items = n + 1
      /\ Nexts(r) = Nexts(l) /\ Prevs(r) = Prevs(l)
  BY <1>5, <1>8 DEF SameList
<1>10. IsList(a, r.head, Nexts(r), Prevs(r))  BY <1>5, <1>9
<1>11. r.tail = Entry(a, Len(a)) /\ r.num_items = Len(a)
  BY <1>4, <1>9 DEF Entry
<1>12. \A f, g \in Range(a) : key[f] = key[g] => f = g
  <2>1. \A f, g \in Range(s) : key[f] = key[g] => f = g  BY DEF Holds
  <2> QED BY <1>4, <2>1
<1>13. Holds(r, a)  BY <1>8, <1>10, <1>11, <1>12 DEF Holds
<1> QED BY <1>8, <1>13 DEF a

\* HASH_DELETE before the bucket: the neighbours point past the element.
LEMMA UnlinkedIs ==
  ASSUME NEW t \in Tables, NEW e \in Elem, NEW r, r = Unlinked(t, e),
         NEW next, next = Nexts(t), NEW prev, prev = Prevs(t),
         NEW next2, next2 = Nexts(r), NEW prev2, prev2 = Prevs(r)
  PROVE  /\ r \in Tables /\ r.num_items = t.num_items
         /\ r.num_buckets = t.num_buckets /\ r.buckets = t.buckets
         /\ HHNexts(r) = HHNexts(t) /\ HHPrevs(r) = HHPrevs(t)
         /\ r.head = IF prev[e] = NULL THEN next[e] ELSE t.head
         /\ r.tail = IF t.tail = e THEN prev[e] ELSE t.tail
         /\ prev[e] # NULL => next2[prev[e]] = next[e]
         /\ next[e] # NULL => prev2[next[e]] = prev[e]
         /\ \A x \in Elem : /\ x # prev[e] => next2[x] = next[x]
                            /\ x # next[e] => prev2[x] = prev[x]
<1>1. t.node \in [Elem -> Handles] /\ t.node[e] \in Handles  BY TablesType
<1>2. PICK n \in Pointer, p \in Pointer : n = t.node[e].next /\ p = t.node[e].prev
  BY <1>1 DEF Handles
<1>3. n = next[e] /\ p = prev[e]  BY <1>2 DEF Nexts, Prevs
<1>4. PICK a : a = Set(t.node, p, "next", n)  OBVIOUS
<1>5. PICK m : m = Set(a, n, "prev", p)  OBVIOUS
<1>6. /\ a \in [Elem -> Handles]
      /\ p # NULL => a[p].next = n
      /\ \A x \in Elem :
           /\ a[x].hh_next = t.node[x].hh_next
           /\ a[x].hh_prev = t.node[x].hh_prev
           /\ x # p => a[x].next = t.node[x].next
           /\ a[x].prev = t.node[x].prev
  <2>1. /\ a \in [Elem -> Handles]
        /\ p = NULL => a = t.node
        /\ \A x \in Elem : x # p => a[x] = t.node[x]
        /\ p # NULL => /\ a[p].next = n
                       /\ a[p].prev = t.node[p].prev
                       /\ a[p].hh_next = t.node[p].hh_next
                       /\ a[p].hh_prev = t.node[p].hh_prev
    <3>1. PICK o \in [Elem -> Handles] : o = t.node  BY <1>1
    <3>2. a = Set(o, p, "next", n)  BY <1>4, <3>1
    <3>3. /\ a \in [Elem -> Handles]
          /\ p = NULL => a = o
          /\ \A x \in Elem : x # p => a[x] = o[x]
          /\ p # NULL => /\ a[p].next = n
                         /\ a[p].prev = o[p].prev
                         /\ a[p].hh_next = o[p].hh_next
                         /\ a[p].hh_prev = o[p].hh_prev
      BY <3>2, SetIs
    <3> QED BY <3>1, <3>3
  <2> QED BY <2>1
<1>7. /\ m \in [Elem -> Handles]
      /\ n # NULL => m[n].prev = p
      /\ \A x \in Elem :
           /\ m[x].hh_next = a[x].hh_next /\ m[x].hh_prev = a[x].hh_prev
           /\ m[x].next = a[x].next
           /\ x # n => m[x].prev = a[x].prev
  <2>1. /\ m \in [Elem -> Handles]
        /\ n = NULL => m = a
        /\ \A x \in Elem : x # n => m[x] = a[x]
        /\ n # NULL => /\ m[n].next = a[n].next
                       /\ m[n].prev = p
                       /\ m[n].hh_next = a[n].hh_next
                       /\ m[n].hh_prev = a[n].hh_prev
    BY <1>5, <1>6, SetIs
  <2> QED BY <2>1
<1>8. PICK h, l : /\ h = IF p = NULL THEN n ELSE t.head
                  /\ l = IF t.tail = e THEN p ELSE t.tail
  OBVIOUS
<1>9. h \in Pointer /\ l \in Pointer  BY <1>8, TablesType
<1>10. r = [t EXCEPT !.tail = l, !.head = h, !.node = m]
  BY <1>2, <1>4, <1>5, <1>8 DEF Unlinked, NewTail, Tables
<1>11. /\ r.head = h /\ r.tail = l /\ r.node = m
       /\ r.num_items = t.num_items /\ r.num_buckets = t.num_buckets
       /\ r.buckets = t.buckets
  BY <1>10 DEF Tables
<1>12. r \in Tables
  <2>1. m \in [Elem -> Handles]  BY <1>7
  <2> QED BY ONLY <1>9, <1>10, <2>1, t \in Tables DEF Tables
<1>13. HHNexts(r) = HHNexts(t) /\ HHPrevs(r) = HHPrevs(t)
  BY <1>6, <1>7, <1>11 DEF HHNexts, HHPrevs
<1>14. \A x \in Elem : /\ next2[x] = m[x].next /\ prev2[x] = m[x].prev
                       /\ next[x] = t.node[x].next /\ prev[x] = t.node[x].prev
  BY <1>11 DEF Nexts, Prevs
<1>15. (n # NULL => n \in Elem) /\ (p # NULL => p \in Elem)  BY DEF Pointer
<1>16. /\ p # NULL => next2[p] = n
       /\ n # NULL => prev2[n] = p
       /\ \A x \in Elem : /\ x # p => next2[x] = next[x]
                          /\ x # n => prev2[x] = prev[x]
  BY <1>6, <1>7, <1>14, <1>15
<1> QED BY <1>3, <1>8, <1>11, <1>12, <1>13, <1>16

\* HASH_DELETE after the bucket, and free: one less, and a forgotten handle.
Forgotten(t, e) == free([t EXCEPT !.num_items = @ - 1], e)

\* What that does.
LEMMA ForgottenIs ==
  ASSUME NEW t \in Tables, t.num_items # 0, NEW e \in Elem,
         NEW r, r = Forgotten(t, e)
  PROVE  /\ r \in Tables /\ r.num_items = t.num_items - 1
         /\ r.head = t.head /\ r.tail = t.tail
         /\ r.num_buckets = t.num_buckets /\ r.buckets = t.buckets
         /\ \A x \in Elem : x # e =>
              /\ Nexts(r)[x] = Nexts(t)[x] /\ Prevs(r)[x] = Prevs(t)[x]
              /\ HHNexts(r)[x] = HHNexts(t)[x] /\ HHPrevs(r)[x] = HHPrevs(t)[x]
<1>1. t.node \in [Elem -> Handles] /\ t.num_items \in Nat  BY TablesType
<1>2. PICK n \in Nat : n = t.num_items - 1  BY <1>1
<1>3. PICK m : m = [t.node EXCEPT ![e] = Garbage[e]]  OBVIOUS
<1>4. Garbage[e] \in Handles  BY UthashAssumption
<1>5. /\ m \in [Elem -> Handles]
      /\ \A x \in Elem : x # e => m[x] = t.node[x]
  BY <1>1, <1>3, <1>4
<1>6. r = [t EXCEPT !.num_items = n, !.node = m]
  BY <1>2, <1>3 DEF Forgotten, free, Tables
<1>7. /\ r.num_items = n /\ r.node = m /\ r.head = t.head /\ r.tail = t.tail
      /\ r.num_buckets = t.num_buckets /\ r.buckets = t.buckets
  BY <1>6 DEF Tables
<1>8. r \in Tables
  <2>1. m \in [Elem -> Handles]  BY <1>5
  <2> QED BY ONLY <1>2, <1>6, <2>1, t \in Tables DEF Tables
<1> QED BY <1>2, <1>5, <1>7, <1>8 DEF Nexts, Prevs, HHNexts, HHPrevs

\* HASH_DELETE and free.
LEMMA DeleteIs ==
  ASSUME NEW t \in Tables, NEW s, Holds(t, s), NEW j \in 1 .. Len(s),
         NEW e, e = s[j], NEW r, r = free(HASH_DELETE(t, e), e)
  PROVE  r \in Tables /\ Holds(r, RemoveAt(s, j))
<1>1. PICK start, next, prev :
        start = t.head /\ next = Nexts(t) /\ prev = Prevs(t)
  OBVIOUS
<1>2. /\ IsList(s, start, next, prev) /\ t.tail = Entry(s, Len(s))
      /\ t.num_items = Len(s) /\ Chains(t, Range(s)) /\ s \in Seq(Elem)
      /\ \A x, y \in Range(s) : key[x] = key[y] => x = y
  BY <1>1 DEF Holds, IsList
<1>3. PICK n \in Nat : n = Len(s)  BY <1>2
<1>4. j \in 1 .. n /\ DOMAIN s = 1 .. n /\ s \in [1 .. n -> Elem]
  BY <1>2, <1>3
<1>5. e \in Range(s) /\ e \in Elem /\ Range(s) \subseteq Elem
  BY <1>4 DEF Range
<1>6. \A i, k \in 1 .. n : s[i] = s[k] => i = k  BY <1>2, <1>3 DEF IsList
<1>7. /\ next[e] # NULL => next[e] \in Range(s) /\ next[e] # e
      /\ prev[e] # NULL => prev[e] \in Range(s) /\ prev[e] # e
      /\ next[e] = NULL <=> j = n
      /\ prev[e] = NULL <=> j = 1
      /\ start = e <=> j = 1
      /\ next[e] = Entry(s, j + 1) /\ prev[e] = Entry(s, j - 1)
  <2>1. next[e] = Entry(s, j + 1) /\ prev[e] = Entry(s, j - 1)
    BY <1>2 DEF IsList
  <2> QED BY <1>2, <1>3, <2>1, NeighboursIn
<1>8. t.node[e].next = next[e] /\ t.node[e].prev = prev[e]
  BY <1>1, <1>5 DEF Nexts, Prevs
<1> DEFINE a == RemoveAt(s, j)
<1>9. /\ a \in Seq(Elem) /\ Len(a) = n - 1
      /\ \A i \in 1 .. n - 1 : a[i] = IF i < j THEN s[i] ELSE s[i + 1]
      /\ Range(a) = Range(s) \ {e}
  <2>1. /\ RemoveAt(s, j) \in Seq(Elem)
        /\ Len(RemoveAt(s, j)) = Len(s) - 1
        /\ \A i \in 1 .. Len(s) - 1 :
             RemoveAt(s, j)[i] = IF i < j THEN s[i] ELSE s[i + 1]
        /\ (\A i, k \in 1 .. Len(s) : s[i] = s[k] => i = k)
             => Range(RemoveAt(s, j)) = Range(s) \ {s[j]}
    BY <1>2, RemoveSeq
  <2> HIDE DEF a
  <2>2. a = RemoveAt(s, j)  BY DEF a
  <2> QED BY ONLY <1>3, <1>6, <2>1, <2>2, e = s[j]
<1>10. CASE n = 1
  <2>1. a = <<>>
    <3> HIDE DEF a
    <3>1. Len(a) = 0  BY <1>9, <1>10
    <3> QED BY <1>9, <3>1, EmptySeq
  <2>2. r = NoTable
    <3>1. HASH_DELETE(t, e) = NoTable
      BY <1>4, <1>7, <1>8, <1>10 DEF HASH_DELETE
    <3>2. Garbage = [Garbage EXCEPT ![e] = Garbage[e]]
      BY <1>5, UthashAssumption
    <3>3. NoTable.node = Garbage  BY DEF NoTable
    <3> QED BY <3>1, <3>2, <3>3 DEF free, NoTable
  <2> HIDE DEF a
  <2>3. r \in Tables /\ Holds(r, a)  BY <2>1, <2>2, NoTableHolds
  <2> QED BY <2>3 DEF a
<1>11. CASE n # 1
  <2> HIDE DEF a
  <2>1. PICK u : u = Unlinked(t, e)  OBVIOUS
  <2>2. PICK d : d = HASH_DEL_IN_BKT(u, Bucket(u, e), e)  OBVIOUS
  <2>3. PICK nextu, prevu : nextu = Nexts(u) /\ prevu = Prevs(u)  OBVIOUS
  <2>4. /\ u \in Tables /\ u.num_items = n
        /\ u.num_buckets = t.num_buckets /\ u.buckets = t.buckets
        /\ HHNexts(u) = HHNexts(t) /\ HHPrevs(u) = HHPrevs(t)
        /\ u.head = IF prev[e] = NULL THEN next[e] ELSE start
        /\ u.tail = IF t.tail = e THEN prev[e] ELSE t.tail
        /\ prev[e] # NULL => nextu[prev[e]] = next[e]
        /\ next[e] # NULL => prevu[next[e]] = prev[e]
        /\ \A x \in Elem : /\ x # prev[e] => nextu[x] = next[x]
                           /\ x # next[e] => prevu[x] = prev[x]
    <3>1. /\ u \in Tables /\ u.num_items = t.num_items
          /\ u.num_buckets = t.num_buckets /\ u.buckets = t.buckets
          /\ HHNexts(u) = HHNexts(t) /\ HHPrevs(u) = HHPrevs(t)
          /\ u.head = IF prev[e] = NULL THEN next[e] ELSE t.head
          /\ u.tail = IF t.tail = e THEN prev[e] ELSE t.tail
          /\ prev[e] # NULL => nextu[prev[e]] = next[e]
          /\ next[e] # NULL => prevu[next[e]] = prev[e]
          /\ \A x \in Elem : /\ x # prev[e] => nextu[x] = next[x]
                             /\ x # next[e] => prevu[x] = prev[x]
      BY ONLY t \in Tables, <1>1, <1>5, <2>1, <2>3, UnlinkedIs
    <3> QED BY <1>1, <1>2, <1>3, <3>1
  <2>5. Bucket(u, e) = Bucket(t, e)  BY <2>4 DEF Bucket
  <2>6. r = Forgotten(d, e)
    <3>1. ~(t.node[e].prev = NULL /\ t.node[e].next = NULL)
      BY <1>4, <1>7, <1>8, <1>11
    <3> QED BY <2>1, <2>2, <2>5, <3>1 DEF HASH_DELETE, Forgotten
  <2>7. Chains(u, Range(s))
    <3>1. /\ \A b \in 0 .. t.num_buckets - 1 :
               /\ u.buckets[b].hh_head = t.buckets[b].hh_head
               /\ u.buckets[b].count = t.buckets[b].count
          /\ \A x \in Range(s) : /\ HHNexts(u)[x] = HHNexts(t)[x]
                                 /\ HHPrevs(u)[x] = HHPrevs(t)[x]
      BY <2>4
    <3> QED BY <1>2, <2>4, <3>1, SameChains
  <2>8. d \in Tables /\ SameList(d, u) /\ Chains(d, Range(a))
    <3>1. d \in Tables /\ SameList(d, u) /\ Chains(d, Range(s) \ {e})
      BY ONLY <1>5, <2>2, <2>4, <2>7, DelInBktIs
    <3> QED BY ONLY <1>9, <3>1
  <2>9. /\ d.head = u.head /\ d.tail = u.tail /\ d.num_items = n
        /\ Nexts(d) = nextu /\ Prevs(d) = prevu
    BY <2>3, <2>4, <2>8 DEF SameList
  <2>10. PICK next2, prev2 : next2 = Nexts(r) /\ prev2 = Prevs(r)  OBVIOUS
  <2>11. /\ r \in Tables /\ r.num_items = n - 1
         /\ r.head = u.head /\ r.tail = u.tail
         /\ r.num_buckets = d.num_buckets /\ r.buckets = d.buckets
         /\ \A x \in Elem : x # e =>
              /\ next2[x] = nextu[x] /\ prev2[x] = prevu[x]
              /\ HHNexts(r)[x] = HHNexts(d)[x]
              /\ HHPrevs(r)[x] = HHPrevs(d)[x]
    <3>1. d.num_items # 0  BY <1>4, <2>9
    <3> QED BY <1>5, <2>6, <2>8, <2>9, <2>10, <3>1, ForgottenIs
  <2>12. Chains(r, Range(a))
    <3>1. /\ \A b \in 0 .. d.num_buckets - 1 :
               /\ r.buckets[b].hh_head = d.buckets[b].hh_head
               /\ r.buckets[b].count = d.buckets[b].count
          /\ \A x \in Range(a) : /\ HHNexts(r)[x] = HHNexts(d)[x]
                                 /\ HHPrevs(r)[x] = HHPrevs(d)[x]
      BY <1>5, <1>9, <2>11
    <3> QED BY <2>8, <2>11, <3>1, SameChains
  <2>13. IsList(a, r.head, next2, prev2)
    <3>1. /\ prev[e] # NULL => next2[prev[e]] = next[e]
          /\ next[e] # NULL => prev2[next[e]] = prev[e]
      BY <1>5, <1>7, <2>4, <2>11
    <3>2. /\ \A x \in Range(s) : x # prev[e] /\ x # e => next2[x] = next[x]
          /\ \A x \in Range(s) : x # next[e] /\ x # e => prev2[x] = prev[x]
      BY <1>5, <2>4, <2>11
    <3>3. IsList(a, IF start = e THEN next[e] ELSE start, next2, prev2)
      BY <1>2, <3>1, <3>2, RemoveList DEF a
    <3>4. (IF start = e THEN next[e] ELSE start) = r.head
      BY <1>7, <2>4, <2>11
    <3> QED BY <3>3, <3>4
  <2>14. r.tail = Entry(a, Len(a))
    <3>1. n - 1 \in 1 .. n - 1 /\ n \in 1 .. n /\ n - 1 \in 1 .. n
      BY <1>4, <1>11
    <3>2. Entry(a, Len(a)) = a[n - 1]  BY <1>9, <3>1 DEF Entry
    <3>3. t.tail = s[n]  BY <1>2, <1>3, <3>1 DEF Entry
    <3>4. CASE j = n
      <4>1. a[n - 1] = s[n - 1]  BY <1>9, <3>1, <3>4
      <4>2. t.tail = e  BY <3>3, <3>4
      <4>3. prev[e] = s[n - 1]  BY <1>3, <1>7, <3>1, <3>4 DEF Entry
      <4> QED BY <2>4, <2>11, <3>2, <4>1, <4>2, <4>3
    <3>5. CASE j # n
      <4>1. ~(n - 1 < j) /\ (n - 1) + 1 = n  BY <1>4, <3>5
      <4>2. a[n - 1] = s[n]  BY <1>9, <3>1, <4>1
      <4>3. t.tail # e  BY <1>4, <1>6, <3>1, <3>3, <3>5
      <4> QED BY <2>4, <2>11, <3>2, <3>3, <4>2, <4>3
    <3> QED BY <3>4, <3>5
  <2>15. \A x, y \in Range(a) : key[x] = key[y] => x = y  BY <1>2, <1>9
  <2>16. Holds(r, a)
    BY <1>9, <2>10, <2>11, <2>12, <2>13, <2>14, <2>15 DEF Holds
  <2> QED BY <2>11, <2>16 DEF a
<1> QED BY <1>10, <1>11

-----------------------------------------------------------------------------
(***************************************************************************)
(* The invariant: the table holds the sequence of its elements, and a loop *)
(* that is going on is at the first of them, with the second in hand.      *)
(***************************************************************************)
InLoop == el # NULL => el = table.head /\ tmp = NextOf(table, el)

UthashInv ==
  /\ table \in Tables
  /\ Holds(table, InOrder(table))
  /\ el \in Pointer
  /\ tmp \in Pointer
  /\ InLoop

\* The invariant holds of the empty table.
LEMMA UthashInit == Init => UthashInv /\ InOrder(table) = <<>>
<1> SUFFICES ASSUME Init PROVE UthashInv /\ InOrder(table) = <<>>  OBVIOUS
<1>1. table = NoTable /\ el = NULL /\ tmp = NULL  BY DEF Init
<1>2. table \in Tables /\ Holds(table, <<>>)  BY <1>1, NoTableHolds
<1>3. InOrder(table) = <<>>  BY <1>2, InOrderIs
<1> QED BY <1>1, <1>2, <1>3 DEF UthashInv, InLoop, Pointer

\* Adding, after a lookup that found nothing.
LEMMA CountStep ==
  ASSUME UthashInv, NEW e \in Elem, Count(e)
  PROVE  /\ UthashInv'
         /\ \A f \in Range(InOrder(table)) : key[f] # key[e]
         /\ InOrder(table)' = Append(InOrder(table), e)
<1>1. PICK t, s : t = table /\ s = InOrder(table)  OBVIOUS
<1>2. t \in Tables /\ Holds(t, s)  BY <1>1 DEF UthashInv
<1>3. s \in Seq(Elem) /\ Range(s) \subseteq Elem  BY <1>2, InOrderIs
<1>4. /\ el = NULL /\ e \notin Range(s) /\ HASH_FIND(t, key[e]) = NULL
      /\ table' = HASH_ADD_KEYPTR(t, e) /\ el' = el /\ tmp' = tmp
  BY <1>1 DEF Count, InTable
<1>5. key[e] \in Keys  BY UthashAssumption
<1>6. \A f \in Range(s) : key[f] # key[e]
  <2>1. \A f \in Range(s) : key[f] = key[e] => HASH_FIND(t, key[e]) = f
    BY <1>2, <1>5, FindIs
  <2> QED BY <1>3, <1>4, <2>1, UthashAssumption
<1>7. PICK r : r = HASH_ADD_KEYPTR(t, e)  OBVIOUS
<1>8. r \in Tables /\ Holds(r, Append(s, e))
  BY <1>2, <1>4, <1>6, <1>7, AddIs
<1>9. InOrder(r) = Append(s, e)  BY <1>8, InOrderIs
<1>10. table' = r  BY <1>4, <1>7
<1>11. InOrder(table)' = Append(s, e)  BY <1>9, <1>10
<1>12. UthashInv'
  <2>1. table' \in Tables /\ Holds(table', InOrder(table'))
    BY <1>8, <1>9, <1>10
  <2> QED BY <1>4, <2>1 DEF UthashInv, InLoop
<1> QED BY <1>1, <1>6, <1>11, <1>12

\* Deleting what a lookup has found.
LEMMA ForgetStep ==
  ASSUME UthashInv, NEW k \in Keys, Forget(k)
  PROVE  /\ UthashInv'
         /\ \E i \in DOMAIN InOrder(table) :
              InOrder(table)' = RemoveAt(InOrder(table), i)
<1>1. PICK t, s : t = table /\ s = InOrder(table)  OBVIOUS
<1>2. t \in Tables /\ Holds(t, s)  BY <1>1 DEF UthashInv
<1>3. s \in Seq(Elem)  BY <1>2, InOrderIs
<1>4. PICK e : e = HASH_FIND(t, k)  OBVIOUS
<1>5. /\ el = NULL /\ e # NULL /\ table' = free(HASH_DELETE(t, e), e)
      /\ el' = el /\ tmp' = tmp
  BY <1>1, <1>4 DEF Forget
<1>6. e \in Range(s)
  <2>1. /\ \A f \in Range(s) : key[f] = k => e = f
        /\ (\A f \in Range(s) : key[f] # k) => e = NULL
    BY <1>2, <1>4, FindIs
  <2> QED BY <1>5, <2>1
<1>7. PICK j \in 1 .. Len(s) : e = s[j]  BY <1>3, <1>6 DEF Range
<1>8. PICK r : r = free(HASH_DELETE(t, e), e)  OBVIOUS
<1>9. r \in Tables /\ Holds(r, RemoveAt(s, j))
  BY <1>2, <1>7, <1>8, DeleteIs
<1>10. InOrder(r) = RemoveAt(s, j)  BY <1>9, InOrderIs
<1>11. table' = r  BY <1>5, <1>8
<1>12. InOrder(table)' = RemoveAt(s, j)  BY <1>10, <1>11
<1>13. UthashInv'
  <2>1. table' \in Tables /\ Holds(table', InOrder(table'))
    BY <1>9, <1>10, <1>11
  <2> QED BY <1>5, <2>1 DEF UthashInv, InLoop
<1>14. j \in DOMAIN s  BY <1>3
<1> QED BY <1>1, <1>12, <1>13, <1>14

\* One round of the loop of HASH_ITER: on to what is the first element then.
LEMMA LoopStep ==
  ASSUME UthashInv, DeleteInLoop
  PROVE  /\ UthashInv' /\ el' = table'.head
         /\ \E i \in DOMAIN InOrder(table) :
              InOrder(table)' = RemoveAt(InOrder(table), i)
<1>1. PICK t, s : t = table /\ s = InOrder(table)  OBVIOUS
<1>2. t \in Tables /\ Holds(t, s)  BY <1>1 DEF UthashInv
<1>3. PICK n \in Nat : n = Len(s) /\ s \in Seq(Elem)  BY <1>2, InOrderIs
<1>4. /\ el # NULL /\ table' = free(HASH_DELETE(t, el), el) /\ el' = tmp
      /\ tmp' = NextOf(table', tmp)
      /\ el = t.head /\ tmp = NextOf(t, el)
  BY <1>1 DEF DeleteInLoop, Ahead, UthashInv, InLoop
<1>5. PICK start, next, prev :
        start = t.head /\ next = Nexts(t) /\ prev = Prevs(t)
  OBVIOUS
<1>6. IsList(s, start, next, prev)  BY <1>2, <1>5 DEF Holds
<1>7. 1 \in 1 .. n /\ el = s[1] /\ el \in Elem
  <2>1. el = Entry(s, 1)  BY <1>4, <1>5, <1>6 DEF IsList
  <2>2. 1 \in 1 .. n  BY <1>3, <1>4, <2>1 DEF Entry
  <2> QED BY <1>3, <2>1, <2>2 DEF Entry
<1>8. tmp = Entry(s, 2)
  <2>1. next[s[1]] = Entry(s, 1 + 1)  BY <1>3, <1>6, <1>7 DEF IsList
  <2>2. tmp = next[s[1]]  BY <1>4, <1>5, <1>7 DEF NextOf, Nexts
  <2> QED BY <2>1, <2>2
<1>9. PICK r, a : r = free(HASH_DELETE(t, el), el) /\ a = RemoveAt(s, 1)  OBVIOUS
<1>10. r \in Tables /\ Holds(r, a)
  BY <1>2, <1>3, <1>7, <1>9, DeleteIs
<1>11. InOrder(r) = a  BY <1>10, InOrderIs
<1>12. table' = r  BY <1>4, <1>9
<1>13. r.head = tmp
  <2>1. /\ Len(a) = n - 1
        /\ \A i \in 1 .. n - 1 : a[i] = IF i < 1 THEN s[i] ELSE s[i + 1]
    BY <1>3, <1>7, <1>9, RemoveSeq
  <2>2. r.head = Entry(a, 1)  BY <1>10 DEF Holds, IsList
  <2>3. CASE n = 1  BY <1>3, <1>8, <2>1, <2>2, <2>3 DEF Entry
  <2>4. CASE n # 1
    <3>1. 1 \in 1 .. n - 1 /\ 2 \in 1 .. n  BY <1>7, <2>4
    <3>2. a[1] = s[2]  BY <2>1, <3>1
    <3> QED BY <1>3, <1>8, <2>1, <2>2, <3>1, <3>2 DEF Entry
  <2> QED BY <2>3, <2>4
<1>14. r.head \in Pointer  BY <1>10, TablesType
<1>15. el' = table'.head  BY <1>4, <1>12, <1>13
<1>16. tmp' = NextOf(table', el') /\ tmp' \in Pointer
  <2>1. tmp' = NextOf(r, tmp)  BY <1>4, <1>12
  <2>2. NextOf(r, tmp) \in Pointer
    <3>1. r.node \in [Elem -> Handles]  BY <1>10, TablesType
    <3> QED BY <1>13, <1>14, <3>1 DEF NextOf, Pointer, Handles
  <2> QED BY <1>4, <2>1, <2>2
<1>17. UthashInv'
  <2>1. table' \in Tables /\ Holds(table', InOrder(table'))
    BY <1>10, <1>11, <1>12
  <2>2. el' \in Pointer  BY <1>12, <1>14, <1>15
  <2> QED BY <1>15, <1>16, <2>1, <2>2 DEF UthashInv, InLoop
<1>18. InOrder(table)' = RemoveAt(s, 1)  BY <1>9, <1>11, <1>12
<1>19. 1 \in DOMAIN s  BY <1>3, <1>7
<1> QED BY <1>1, <1>15, <1>17, <1>18, <1>19

\* The head of the loop.
LEMMA IterStep ==
  ASSUME UthashInv, HASH_ITER
  PROVE  UthashInv' /\ InOrder(table)' = InOrder(table)
<1>1. /\ el' = table.head /\ el' # NULL /\ table' = table
      /\ tmp' = NextOf(table, el')
  BY DEF HASH_ITER
<1>2. table \in Tables /\ Holds(table, InOrder(table))  BY DEF UthashInv
<1>3. el' \in Pointer  BY <1>1, <1>2, TablesType
<1>4. tmp' \in Pointer
  <2>1. table.node \in [Elem -> Handles]  BY <1>2, TablesType
  <2> QED BY <1>1, <1>3, <2>1 DEF NextOf, Pointer, Handles
<1>5. InOrder(table') = InOrder(table)  BY <1>1
<1> QED BY <1>1, <1>2, <1>3, <1>4, <1>5 DEF UthashInv, InLoop

\* All steps.
LEMMA UthashNext ==
  ASSUME UthashInv, [Next]_vars
  PROVE  UthashInv'
<1>1. ASSUME NEW e \in Elem, Count(e) PROVE UthashInv'  BY <1>1, CountStep
<1>2. ASSUME NEW k \in Keys, Forget(k) PROVE UthashInv'  BY <1>2, ForgetStep
<1>3. CASE HASH_ITER  BY <1>3, IterStep
<1>4. CASE DeleteInLoop  BY <1>4, LoopStep
<1>5. CASE UNCHANGED vars
  <2>1. table' = table /\ el' = el /\ tmp' = tmp  BY <1>5 DEF vars
  <2> QED BY <2>1 DEF UthashInv, InLoop
<1> QED BY <1>1, <1>2, <1>3, <1>4, <1>5 DEF Next

\* The invariant of the table: it holds the sequence of its elements, with
\* every pointer of both kinds of lists.
THEOREM UthashInvariant == Spec => []UthashInv
<1>1. Init => UthashInv  BY UthashInit
<1>2. UthashInv /\ [Next]_vars => UthashInv'  BY UthashNext
<1> QED BY <1>1, <1>2, PTL DEF Spec

-----------------------------------------------------------------------------
(***************************************************************************)
(* What follows from it.                                                   *)
(***************************************************************************)
\* The fields of the table, of its buckets and handles have the types the
\* operations rely on: HASH_DELETE never takes a count below zero.
THEOREM UthashTypeCorrect == Spec => []TypeOK
<1>1. ASSUME UthashInv PROVE TypeOK
  <2>1. table \in Tables /\ el \in Pointer /\ tmp \in Pointer
    BY <1>1 DEF UthashInv
  <2> QED BY <2>1, TablesType DEF TypeOK, Bkts, Handles
<1>2. UthashInv => TypeOK  BY <1>1
<1> QED BY <1>2, UthashInvariant, PTL

\* Both kinds of lists lead back the way they lead forth, counts are those
\* of the lists, and the tail is the last element: what HASH_FSCK checks.
THEOREM FsckCorrect == Spec => []Fsck
<1>1. ASSUME UthashInv PROVE Fsck
  <2>1. PICK t, s : t = table /\ s = InOrder(table)  OBVIOUS
  <2>2. t \in Tables /\ Holds(t, s)  BY <1>1, <2>1 DEF UthashInv
  <2>3. s \in Seq(Elem) /\ Range(s) \subseteq Elem /\ InOrder(t) = s
        /\ (t.head = NULL <=> s = <<>>)
    BY <2>2, InOrderIs
  <2>4. /\ IsList(s, t.head, Nexts(t), Prevs(t))
        /\ t.tail = Entry(s, Len(s)) /\ t.num_items = Len(s)
        /\ Chains(t, Range(s))
    BY <2>2 DEF Holds
  \* Each list leads back.
  <2>5. ASSUME NEW q, NEW start, NEW next, NEW prev,
               IsList(q, start, next, prev)
        PROVE  Backward(q, prev)
    <3>1. PICK n \in Nat : n = Len(q) /\ DOMAIN q = 1 .. n
      BY <2>5 DEF IsList
    <3>2. ASSUME NEW i \in 1 .. n
          PROVE  prev[q[i]] = IF i = 1 THEN NULL ELSE q[i - 1]
      <4>1. prev[q[i]] = Entry(q, i - 1)  BY <2>5, <3>1 DEF IsList
      <4>2. i # 1 => i - 1 \in 1 .. n  OBVIOUS
      <4>3. i = 1 => i - 1 \notin 1 .. n  OBVIOUS
      <4> QED BY <3>1, <4>1, <4>2, <4>3 DEF Entry
    <3> QED BY <3>1, <3>2 DEF Backward
  <2>6. ASSUME NEW b \in DOMAIN t.buckets
        PROVE  /\ Backward(Chain(t, b), [e \in Elem |-> t.node[e].hh_prev])
               /\ t.buckets[b].count = Len(Chain(t, b))
    <3>1. b \in 0 .. t.num_buckets - 1  BY <2>2, TablesType
    <3>2. PICK c : InBucket(t, Range(s), b, c)  BY <2>4, <3>1 DEF Chains
    <3>3. Chain(t, b) = c /\ t.buckets[b].count = Len(c)
      BY <3>2, ChainIs
    <3>4. Backward(c, HHPrevs(t))  BY <2>5, <3>2 DEF InBucket
    <3> QED BY <3>3, <3>4 DEF HHPrevs
  <2>7. Backward(s, [e \in Elem |-> t.node[e].prev])
    BY <2>4, <2>5 DEF Prevs
  <2>8. t.num_items = Len(ToMove(t))
    <3>1. PICK o : o = ToMove(t)  OBVIOUS
    <3>2. o \in Seq(Elem) /\ IsInjective(o) /\ Range(o) = Range(s)
      BY <2>2, <2>3, <2>4, <3>1, ToMoveIs
    <3>3. \A i, j \in 1 .. Len(o) : o[i] = o[j] => i = j
      BY <3>2 DEF IsInjective
    <3>4. Len(o) = Cardinality(Range(o))  BY <3>2, <3>3, NotLonger
    <3>5. \A i, j \in 1 .. Len(s) : s[i] = s[j] => i = j
      BY <2>4 DEF IsList
    <3>6. Len(s) = Cardinality(Range(s))  BY <2>3, <3>5, NotLonger
    <3> QED BY <2>4, <3>1, <3>2, <3>4, <3>6
  <2>9. t.head # NULL => t.tail = Last(s)
    <3>1. ASSUME t.head # NULL PROVE Entry(s, Len(s)) = s[Len(s)]
      <4>1. PICK n \in Nat : n = Len(s)  BY <2>3
      <4>2. n # 0  BY <2>3, <3>1, <4>1, EmptySeq
      <4>3. n \in 1 .. n  BY <4>2
      <4> QED BY <4>1, <4>3 DEF Entry
    <3> QED BY <2>4, <3>1 DEF Last
  <2> QED BY <2>1, <2>3, <2>4, <2>6, <2>7, <2>8, <2>9 DEF Fsck
<1>2. UthashInv => Fsck  BY <1>1
<1> QED BY <1>2, UthashInvariant, PTL

\* A lookup finds the element with that key whenever one has been added and
\* not deleted, however often the buckets have doubled in between.
THEOREM FindsExactlyCorrect == Spec => []FindsExactly
<1>1. ASSUME UthashInv PROVE FindsExactly
  <2>1. PICK t, s : t = table /\ s = InOrder(table)  OBVIOUS
  <2>2. t \in Tables /\ Holds(t, s)  BY <1>1, <2>1 DEF UthashInv
  <2>3. InTable = Range(s)  BY <2>1 DEF InTable
  <2>4. ASSUME NEW k \in Keys
        PROVE  LET with == {e \in Range(s) : key[e] = k}
               IN  IF with = {} THEN HASH_FIND(t, k) = NULL
                   ELSE HASH_FIND(t, k) \in with
    <3>1. /\ \A e \in Range(s) : key[e] = k => HASH_FIND(t, k) = e
          /\ (\A e \in Range(s) : key[e] # k) => HASH_FIND(t, k) = NULL
      BY <2>2, FindIs
    <3> QED BY <3>1
  <2> QED BY <2>1, <2>3, <2>4 DEF FindsExactly
<1>2. UthashInv => FindsExactly  BY <1>1
<1> QED BY <1>2, UthashInvariant, PTL

\* The loops of HASH_ITER delete what is first in the table each time, and
\* when they end the table is gone.
THEOREM IterationEmptiesCorrect == Spec => IterationEmpties
<1>1. UthashInv => (el # NULL => el = table.head)
  BY DEF UthashInv, InLoop
<1>2. UthashInv /\ [Next]_vars
        => [el # NULL /\ el' = NULL => table'.head = NULL]_vars
  <2> SUFFICES ASSUME UthashInv, Next, el # NULL, el' = NULL
               PROVE  table'.head = NULL
    OBVIOUS
  <2>1. DeleteInLoop  BY DEF Next, Count, Forget, HASH_ITER
  <2> QED BY <2>1, LoopStep
<1> QED BY <1>1, <1>2, UthashInvariant, PTL DEF Spec, IterationEmpties

\* The table implements the dictionary: the list in the order of addition
\* gains each element added at its end and loses the one deleted, whatever
\* happens to the buckets.
THEOREM DictionaryCorrect == Spec => ImplementsDictionary
<1>1. Init => Abstract!Init
  BY UthashInit DEF Init, Abstract!Init
<1>2. UthashInv /\ [Next]_vars => [Abstract!Next]_(Abstract!vars)
  <2> SUFFICES ASSUME UthashInv, [Next]_vars
               PROVE  Abstract!Next \/ UNCHANGED Abstract!vars
    OBVIOUS
  <2>1. ASSUME NEW e \in Elem, Count(e) PROVE Abstract!Next
    <3>1. /\ \A f \in Range(InOrder(table)) : key[f] # key[e]
          /\ InOrder(table)' = Append(InOrder(table), e)
      BY <2>1, CountStep
    <3>2. adds' = adds + 1  BY <2>1 DEF Count
    <3>3. Abstract!Present = Range(InOrder(table))
      BY DEF Abstract!Present, Range
    <3>4. Abstract!Add  BY <3>1, <3>2, <3>3 DEF Abstract!Add
    <3> QED BY <3>4 DEF Abstract!Next
  <2>2. ASSUME NEW k \in Keys, Forget(k) PROVE Abstract!Next
    <3>1. \E i \in DOMAIN InOrder(table) :
            InOrder(table)' = RemoveAt(InOrder(table), i)
      BY <2>2, ForgetStep
    <3>2. adds' = adds  BY <2>2 DEF Forget
    <3> QED BY <3>1, <3>2
        DEF Abstract!Next, Abstract!Delete, Abstract!RemoveAt, RemoveAt
  <2>3. CASE HASH_ITER
    <3>1. InOrder(table)' = InOrder(table)  BY <2>3, IterStep
    <3>2. adds' = adds  BY <2>3 DEF HASH_ITER
    <3> QED BY <3>1, <3>2 DEF Abstract!vars
  <2>4. ASSUME DeleteInLoop PROVE Abstract!Next
    <3>1. \E i \in DOMAIN InOrder(table) :
            InOrder(table)' = RemoveAt(InOrder(table), i)
      BY <2>4, LoopStep
    <3>2. adds' = adds  BY <2>4 DEF DeleteInLoop
    <3> QED BY <3>1, <3>2
        DEF Abstract!Next, Abstract!Delete, Abstract!RemoveAt, RemoveAt
  <2>5. CASE UNCHANGED vars
    <3>1. table' = table /\ adds' = adds  BY <2>5 DEF vars
    <3>2. InOrder(table)' = InOrder(table)  BY <3>1
    <3> QED BY <3>1, <3>2 DEF Abstract!vars
  <2> QED BY <2>1, <2>2, <2>3, <2>4, <2>5 DEF Next
<1> QED BY <1>1, <1>2, UthashInvariant, PTL
    DEF Spec, Abstract!Spec, ImplementsDictionary
=============================================================================
