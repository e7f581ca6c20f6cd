------------------------- MODULE AggregationProofs --------------------------
(***************************************************************************)
(* Theorems about a run of the monitoring tree, for every number of        *)
(* processes, degree, number of pulses, measured values and build: first   *)
(* the types, then the order of the pulses.                                *)
(***************************************************************************)
EXTENDS Aggregation, TLAPS, FiniteSetTheorems, SequenceTheorems,
        WellFoundedInduction

-----------------------------------------------------------------------------
(***************************************************************************)
(* The tree and the program of the multi_stone.  To begin with, a          *)
(* non-empty set of naturals has a least element, which is Min of          *)
(* FiniteSetsExt.                                                          *)
(***************************************************************************)
UpTo(S, i) == {j \in S : j <= i}

\* The naturals up to a bound are a finite set.
LEMMA UpToFinite ==
  ASSUME NEW S \in SUBSET Nat, NEW i \in S
  PROVE  UpTo(S, i) \in FiniteSubsetsOf(Nat)
<1>1. UpTo(S, i) \subseteq 0 .. i
  <2> SUFFICES ASSUME NEW j \in S, j <= i PROVE j \in 0 .. i  BY DEF UpTo
  <2>1. j \in Nat /\ i \in Nat  OBVIOUS
  <2> QED BY <2>1
<1>2. IsFiniteSet(0 .. i)  BY FS_Interval
<1>3. IsFiniteSet(UpTo(S, i))  BY <1>1, <1>2, FS_Subset
<1>4. UpTo(S, i) \subseteq Nat  BY DEF UpTo
<1> QED BY <1>3, <1>4 DEF FiniteSubsetsOf

\* Min returns the least element: what a scan of the queue finds first.
LEMMA MinOfNaturals ==
  ASSUME NEW S \in SUBSET Nat, S # {}
  PROVE  Min(S) \in S /\ \A j \in S : Min(S) <= j
<1> DEFINE R == StrictSubsetOrdering(Nat)
           T == {UpTo(S, i) : i \in S}
<1>1. T \subseteq FiniteSubsetsOf(Nat)  BY UpToFinite
<1>2. T # {}  OBVIOUS
<1>3. IsWellFoundedOn(R, FiniteSubsetsOf(Nat))
  BY FS_StrictSubsetOrderingWellFounded
<1>4. \E x \in T : \A y \in T : <<y, x>> \notin R
  <2> HIDE DEF R, T
  <2> QED BY <1>1, <1>2, <1>3, WFMin
<1>5. PICK i \in S : \A j \in S : <<UpTo(S, j), UpTo(S, i)>> \notin R
  BY <1>4
<1>6. ASSUME NEW j \in S, ~(i <= j) PROVE FALSE
  <2>1. i \in Nat /\ j \in Nat /\ j < i  BY <1>6
  <2>2. UpTo(S, j) \subseteq UpTo(S, i)
    <3> SUFFICES ASSUME NEW k \in S, k <= j PROVE k <= i  BY DEF UpTo
    <3>1. k \in Nat  OBVIOUS
    <3> QED BY <2>1, <3>1
  <2>3. i \in UpTo(S, i) /\ i \notin UpTo(S, j)  BY <2>1 DEF UpTo
  <2>4. UpTo(S, i) \in SUBSET Nat /\ UpTo(S, j) \in SUBSET Nat  BY DEF UpTo
  <2>5. <<UpTo(S, j), UpTo(S, i)>> \in R
    BY <2>2, <2>3, <2>4 DEF StrictSubsetOrdering
  <2> QED BY <1>5, <2>5
<1> HIDE DEF R, T
<1>7. \A j \in S : i <= j  BY <1>6
<1>8. Min(S) \in S /\ \A j \in S : Min(S) =< j  BY <1>7, Zenon DEF Min
<1> QED BY <1>8

-----------------------------------------------------------------------------
(***************************************************************************)
(* EVdiscard: the queue without the element at position i.                 *)
(***************************************************************************)
LEMMA RemoveAtProperties ==
  ASSUME NEW S, NEW s \in Seq(S), NEW i \in 1 .. Len(s)
  PROVE  /\ RemoveAt(s, i) \in Seq(S)
         /\ Len(RemoveAt(s, i)) = Len(s) - 1
         /\ \A j \in 1 .. Len(s) - 1 :
              RemoveAt(s, i)[j] = IF j < i THEN s[j] ELSE s[j + 1]
<1> DEFINE a == SubSeq(s, 1, i - 1)
           b == SubSeq(s, i + 1, Len(s))
<1>1. Len(s) \in Nat /\ \A k \in 1 .. Len(s) : s[k] \in S
  BY ElementOfSeq, LenProperties
<1>2. a \in Seq(S) /\ Len(a) = i - 1 /\ \A j \in 1 .. i - 1 : a[j] = s[j]
  BY <1>1, SubSeqProperties
<1>3. /\ b \in Seq(S)
      /\ Len(b) = Len(s) - i
      /\ \A j \in 1 .. Len(s) - i : b[j] = s[i + j]
  <2>1. \A k \in i + 1 .. Len(s) : s[k] \in S  BY <1>1
  <2>2. /\ b \in Seq(S)
        /\ Len(b) = IF i + 1 <= Len(s) THEN Len(s) - (i + 1) + 1 ELSE 0
        /\ \A j \in 1 .. Len(s) - (i + 1) + 1 : b[j] = s[i + 1 + j - 1]
    BY <1>1, <2>1, SubSeqProperties
  <2> QED BY <1>1, <2>2
<1>4. RemoveAt(s, i) = a \o b  BY DEF RemoveAt
<1> HIDE DEF a, b
<1>5. /\ a \o b \in Seq(S)
      /\ Len(a \o b) = Len(a) + Len(b)
      /\ \A j \in 1 .. Len(a) + Len(b) :
           (a \o b)[j] = IF j <= Len(a) THEN a[j] ELSE b[j - Len(a)]
  BY <1>2, <1>3, ConcatProperties
<1>6. Len(a) + Len(b) = Len(s) - 1  BY <1>1, <1>2, <1>3
<1>7. ASSUME NEW j \in 1 .. Len(s) - 1
      PROVE  (a \o b)[j] = IF j < i THEN s[j] ELSE s[j + 1]
  <2>1. CASE j < i  BY <1>1, <1>2, <1>5, <1>6, <2>1
  <2>2. CASE j >= i
    <3>1. (a \o b)[j] = b[j - (i - 1)]  BY <1>1, <1>2, <1>5, <1>6, <2>2
    <3>2. b[j - (i - 1)] = s[i + (j - (i - 1))]
      <4>1. j - (i - 1) \in 1 .. Len(s) - i  BY <1>1, <2>2
      <4> QED BY <1>3, <4>1
    <3>3. i + (j - (i - 1)) = j + 1  OBVIOUS
    <3>4. ~(j < i)  BY <1>1, <2>2
    <3> QED BY <3>1, <3>2, <3>3, <3>4
  <2>3. j < i \/ j >= i  BY <1>1
  <2> QED BY <2>1, <2>2, <2>3
<1> QED BY <1>4, <1>5, <1>6, <1>7
-----------------------------------------------------------------------------
(***************************************************************************)
(* The tree: degrees are naturals, whatever the rank they are asked for,   *)
(* and parents are ranks below their children.                             *)
(***************************************************************************)
\* get_degree_node returns a natural number.
LEMMA DegreeType ==
  ASSUME NEW r
  PROVE  IsFiniteSet(ChildOffsets(r)) /\ get_degree_node(r) \in Nat
<1>1. max_degree \in Nat  BY TopologyAssumption
<1>2. IsFiniteSet(1 .. max_degree)  BY <1>1, FS_Interval
<1>3. ChildOffsets(r) \subseteq 1 .. max_degree  BY DEF ChildOffsets
<1>4. IsFiniteSet(ChildOffsets(r))  BY <1>2, <1>3, FS_Subset
<1> QED BY <1>4, FS_CardinalityType DEF get_degree_node

\* get_parent returns an integer for every rank, even a negative one.
LEMMA ParentType ==
  ASSUME NEW r \in Int
  PROVE  get_parent(r) \in Int
BY TopologyAssumption DEF get_parent, ROOT

\* For any rank but the root, get_parent is the rounded-down quotient.
LEMMA ParentQuotient ==
  ASSUME NEW r \in Rank, r # ROOT
  PROVE  get_parent(r) = (r - 1) \div max_degree
BY DEF get_parent

\* The parent of a rank other than the root is a smaller rank.
LEMMA ParentIsBelow ==
  ASSUME NEW r \in Rank, r # ROOT
  PROVE  get_parent(r) \in Rank /\ get_parent(r) < r
<1>1. r \in Nat /\ r > 0 /\ r < nprocs /\ nprocs \in Nat
  BY TopologyAssumption DEF Rank, ROOT
<1>2. get_parent(r) = (r - 1) \div max_degree  BY ParentQuotient
<1>3. (r - 1) \div max_degree \in Nat /\ (r - 1) \div max_degree <= r - 1
  BY <1>1, TopologyAssumption
<1> QED BY <1>1, <1>2, <1>3 DEF Rank

\* A process that is the parent of another is no leaf: it has stones.
LEMMA ParentIsNotLeaf ==
  ASSUME NEW r \in Rank, r # ROOT
  PROVE  get_parent(r) \in NonLeaf
<1>1. r \in Nat /\ r > 0 /\ r < nprocs /\ nprocs \in Nat
  BY TopologyAssumption DEF Rank, ROOT
<1>2. get_parent(r) = (r - 1) \div max_degree  BY ParentQuotient
<1>3. ((r - 1) \div max_degree) * max_degree <= r - 1
  BY <1>1, TopologyAssumption
<1>4. ~is_leaf(get_parent(r))
  BY <1>1, <1>2, <1>3, ParentIsBelow, TopologyAssumption DEF is_leaf, Rank
<1> QED BY <1>4, ParentIsBelow DEF NonLeaf, Leaf

\* get_degree_node counts the first children, without a gap.
LEMMA OffsetsAreInterval ==
  ASSUME NEW r \in Nat
  PROVE  ChildOffsets(r) = 1 .. get_degree_node(r)
<1> DEFINE d == max_degree
           room == nprocs - 1 - r * d
           k == IF room < 0 THEN 0 ELSE IF room < d THEN room ELSE d
<1>1. nprocs \in Nat /\ d \in Nat /\ r * d \in Nat  BY TopologyAssumption
<1>2. room \in Int /\ k \in Nat  BY <1>1
<1>3. ASSUME NEW i \in 1 .. d PROVE r * d + i < nprocs <=> i <= k
  BY <1>1, <1>2
<1>4. k <= d  BY <1>1, <1>2
<1>5. ChildOffsets(r) = {i \in 1 .. d : r * d + i < nprocs}
  BY DEF ChildOffsets
<1> HIDE DEF k, room
<1>6. ChildOffsets(r) = 1 .. k  BY <1>1, <1>2, <1>3, <1>4, <1>5
<1>7. Cardinality(1 .. k) = k  BY <1>2, FS_Interval
<1> QED BY <1>6, <1>7 DEF get_degree_node

(***************************************************************************)
(* The ranks a process sends its address to are the ranks that take it for *)
(* their parent: the bridges the processes set up form the tree.           *)
(***************************************************************************)
THEOREM ChildrenHaveParent ==
  ASSUME NEW r \in Rank
  PROVE  children(r) = {c \in Rank : c # ROOT /\ get_parent(c) = r}
<1> DEFINE d == max_degree
<1>1. /\ nprocs \in Nat /\ d \in Nat /\ d > 0
      /\ r \in Nat /\ r < nprocs /\ r * d \in Nat
  BY TopologyAssumption DEF Rank
<1>2. children(r) = {r * d + i : i \in ChildOffsets(r)}
  BY <1>1, OffsetsAreInterval DEF children
<1>3. ASSUME NEW i \in ChildOffsets(r)
      PROVE  /\ r * d + i \in Rank
             /\ r * d + i # ROOT
             /\ get_parent(r * d + i) = r
  <2>1. i \in 1 .. d /\ r * d + i < nprocs  BY DEF ChildOffsets
  <2>2. r * d + i \in Rank /\ r * d + i # ROOT
    BY <1>1, <2>1 DEF Rank, ROOT
  <2>3. get_parent(r * d + i) = (r * d + i - 1) \div d
    BY <1>1, <2>1, <2>2, ParentQuotient
  <2>4. (r * d + i - 1) \div d = r  BY <1>1, <2>1
  <2> QED BY <2>2, <2>3, <2>4
<1>4. ASSUME NEW c \in Rank, c # ROOT, get_parent(c) = r
      PROVE  \E i \in ChildOffsets(r) : c = r * d + i
  <2>1. c \in Nat /\ c > 0 /\ c < nprocs  BY <1>1, <1>4 DEF Rank, ROOT
  <2>2. r = (c - 1) \div d  BY <1>4, ParentQuotient
  <2>3. r * d <= c - 1 /\ c - 1 < r * d + d  BY <1>1, <2>1, <2>2
  <2>4. c - r * d \in 1 .. d /\ r * d + (c - r * d) = c
    BY <1>1, <2>1, <2>3
  <2>5. c - r * d \in ChildOffsets(r)  BY <2>1, <2>4 DEF ChildOffsets
  <2> QED BY <2>4, <2>5
<1> HIDE DEF d
<1> QED BY <1>2, <1>3, <1>4
-----------------------------------------------------------------------------
(***************************************************************************)
(* Each part of the program maps multi_stone records to such records, so   *)
(* an activation does, and what it submits is an event.                    *)
(***************************************************************************)
\* The event multi_func finds is of its pulse, and none before it is.
LEMMA FirstMatch ==
  ASSUME NEW m \in multi_stone_t, NEW from \in Nat \ {0},
         Matches(m, from) # {}
  PROVE  LET i == Min(Matches(m, from))
         IN  /\ i \in 1 .. Len(m.queue) /\ i >= from
             /\ m.queue[i] \in metrics_t
             /\ m.queue[i].timestamp = m.pulse_timestamp
             /\ \A j \in from .. i - 1 :
                  m.queue[j].timestamp # m.pulse_timestamp
<1> DEFINE I == Matches(m, from)
<1>1. m.queue \in Seq(metrics_t) /\ Len(m.queue) \in Nat
  BY LenProperties DEF multi_stone_t
<1>2. I \in SUBSET Nat  BY <1>1 DEF Matches
<1>3. Min(I) \in I /\ \A j \in I : Min(I) <= j  BY <1>2, MinOfNaturals
<1>4. /\ Min(I) \in 1 .. Len(m.queue) /\ Min(I) >= from
      /\ m.queue[Min(I)].timestamp = m.pulse_timestamp
  BY <1>1, <1>3 DEF Matches
<1>5. m.queue[Min(I)] \in metrics_t  BY <1>1, <1>4, ElementOfSeq
<1>6. ASSUME NEW j \in from .. Min(I) - 1,
             m.queue[j].timestamp = m.pulse_timestamp
      PROVE  FALSE
  <2>1. j \in from .. Len(m.queue) /\ j < Min(I)  BY <1>1, <1>4
  <2>2. j \in I  BY <1>6, <2>1 DEF Matches
  <2> QED BY <1>3, <1>4, <2>1, <2>2
<1> QED BY <1>4, <1>5, <1>6

\* Merging two values of gather_info gives such a value.
LEMMA CombineType ==
  ASSUME NEW x \in Info, NEW y \in Info
  PROVE  Combine(x, y) \in Info
BY DEF Combine, Info

\* ... whether or not there is a metric to merge.
LEMMA IfMeasuredType ==
  ASSUME NEW a \in metrics_t, NEW m \in multi_stone_t, NEW value \in Info
  PROVE  IfMeasured(a, m, value) \in Info
BY DEF IfMeasured, multi_stone_t, metrics_t

\* The updates of a multi_stone record that the program makes keep its type.
LEMMA OpenFields ==
  ASSUME NEW m \in multi_stone_t, NEW e \in metrics_t, NEW i \in Nat \ {0},
         NEW k \in Nat, NEW q \in Seq(metrics_t)
  PROVE  [m EXCEPT !.aggregated_event = e, !.max_degree = max_degree,
                   !.first_found_index = i, !.current_node_degree = k,
                   !.count = 1, !.queue = q] \in multi_stone_t
BY DEF multi_stone_t

\* ... without an event to open with ...
LEMMA OpenOnNothingFields ==
  ASSUME NEW m \in multi_stone_t, NEW k \in Nat
  PROVE  [m EXCEPT !.current_node_degree = k, !.count = 1] \in multi_stone_t
BY DEF multi_stone_t

\* ... and for a new pulse.
LEMMA NextPulseFields ==
  ASSUME NEW m \in multi_stone_t, NEW p \in Nat
  PROVE  [m EXCEPT !.pulse_timestamp = p, !.first_found_index = NotFound,
                   !.count = 0] \in multi_stone_t
BY DEF multi_stone_t

\* Opening with the event at position i.
LEMMA OpenAtType ==
  ASSUME NEW m \in multi_stone_t, NEW i \in 1 .. Len(m.queue)
  PROVE  OpenAt(m, i) \in multi_stone_t
<1> DEFINE a == m.queue[i]
           g == IfMeasured(a, m, a.gather_info)
           e == [a EXCEPT !.parent_rank = get_parent(a.parent_rank),
                          !.gather_info = g]
           k == get_degree_node(a.parent_rank)
           q == RemoveAt(m.queue, i)
<1>1. m.queue \in Seq(metrics_t) /\ Len(m.queue) \in Nat
  BY LenProperties DEF multi_stone_t
<1>2. a \in metrics_t  BY <1>1, ElementOfSeq
<1>3. get_parent(a.parent_rank) \in Int  BY <1>2, ParentType DEF metrics_t
<1>4. e \in metrics_t
  <2>1. g \in Info
    <3>1. a.gather_info \in Info  BY <1>2 DEF metrics_t
    <3> QED BY <1>2, <3>1, IfMeasuredType
  <2> HIDE DEF a, g
  <2> QED BY <1>2, <1>3, <2>1 DEF metrics_t
<1>5. k \in Nat  BY DegreeType
<1>6. q \in Seq(metrics_t)  BY <1>1, RemoveAtProperties
<1>7. i \in Nat \ {0}  BY <1>1
<1>8. OpenAt(m, i) = [m EXCEPT !.aggregated_event = e,
                               !.max_degree = max_degree,
                               !.first_found_index = i,
                               !.current_node_degree = k,
                               !.count = 1, !.queue = q]
  BY Zenon DEF OpenAt
<1> HIDE DEF a, g, e, k, q
<1>9. [m EXCEPT !.aggregated_event = e, !.max_degree = max_degree,
                !.first_found_index = i, !.current_node_degree = k,
                !.count = 1, !.queue = q] \in multi_stone_t
  BY <1>4, <1>5, <1>6, <1>7, Zenon, OpenFields
<1> QED BY <1>8, <1>9, Zenon

\* Opening, whether or not the event is there.
LEMMA OpenType ==
  ASSUME NEW m \in multi_stone_t
  PROVE  Open(m) \in multi_stone_t
<1>1. CASE Matches(m, 1) # {}  BY <1>1, FirstMatch, OpenAtType DEF Open
<1>2. CASE Matches(m, 1) = {}
  <2> DEFINE k == IF m.max_degree = -1 THEN 0
                  ELSE get_degree_node(m.queue[Len(m.queue)].parent_rank)
  <2>1. k \in Nat  BY DegreeType
  <2>2. Open(m) = [m EXCEPT !.current_node_degree = k, !.count = 1]
    BY <1>2 DEF Open, OpenOnNothing
  <2> HIDE DEF k
  <2> QED BY <2>1, <2>2, OpenOnNothingFields
<1> QED BY <1>1, <1>2

\* Merging the event at position i.
LEMMA MergeAtType ==
  ASSUME NEW m \in multi_stone_t, NEW i \in 1 .. Len(m.queue)
  PROVE  MergeAt(m, i) \in multi_stone_t
<1> DEFINE g == IfMeasured(m.queue[i], m,
                           Combine(m.aggregated_event.gather_info,
                                   m.queue[i].gather_info))
           e == [m.aggregated_event EXCEPT !.gather_info = g]
<1>1. m.queue \in Seq(metrics_t) /\ Len(m.queue) \in Nat
  BY LenProperties DEF multi_stone_t
<1>2. m.queue[i] \in metrics_t  BY <1>1, ElementOfSeq
<1>3. m.aggregated_event \in metrics_t  BY DEF multi_stone_t
<1>4. g \in Info
  <2>1. /\ m.queue[i].gather_info \in Info
        /\ m.aggregated_event.gather_info \in Info
    BY <1>2, <1>3 DEF metrics_t
  <2> QED BY <1>2, <2>1, CombineType, IfMeasuredType
<1>5. e \in metrics_t  BY <1>3, <1>4 DEF metrics_t
<1>6. RemoveAt(m.queue, i) \in Seq(metrics_t)  BY <1>1, RemoveAtProperties
<1>7. i \in Nat \ {0} /\ m.count + 1 \in Nat  BY <1>1 DEF multi_stone_t
<1>8. MergeAt(m, i) = [m EXCEPT !.aggregated_event = e,
                                !.count = m.count + 1,
                                !.first_found_index = i,
                                !.queue = RemoveAt(m.queue, i)]
  BY DEF MergeAt, multi_stone_t
<1> HIDE DEF g, e
<1> QED BY <1>5, <1>6, <1>7, <1>8 DEF multi_stone_t

\* What one activation does with the queue.
LEMMA ConsumeType ==
  ASSUME NEW m \in multi_stone_t
  PROVE  Consume(m) \in multi_stone_t
<1>1. CASE m.first_found_index = NotFound  BY <1>1, OpenType DEF Consume
<1>2. CASE m.first_found_index # NotFound
  <2>1. m.first_found_index \in Nat \ {0}  BY <1>2 DEF multi_stone_t
  <2>2. Consume(m) = Merge(m)  BY <1>2 DEF Consume
  <2> QED BY <2>1, <2>2, FirstMatch, MergeAtType DEF Merge
<1> QED BY <1>1, <1>2

\* The same, with the event that caused the activation.
LEMMA ActivateType ==
  ASSUME NEW m \in multi_stone_t, NEW e \in metrics_t
  PROVE  Activate(m, e) \in multi_stone_t
<1>1. [m EXCEPT !.queue = Append(m.queue, e)] \in multi_stone_t
  BY AppendProperties DEF multi_stone_t
<1> QED BY <1>1, ConsumeType DEF Activate

\* Starting the next pulse, with "goto start".
LEMMA NextPulseType ==
  ASSUME NEW m \in multi_stone_t
  PROVE  NextPulse(m) \in multi_stone_t
<1> DEFINE r == [m EXCEPT !.pulse_timestamp = m.pulse_timestamp + 1,
                          !.first_found_index = NotFound, !.count = 0]
<1>1. m.pulse_timestamp + 1 \in Nat  BY DEF multi_stone_t
<1>2. r \in multi_stone_t  BY <1>1, NextPulseFields
<1> QED BY <1>2, OpenType DEF NextPulse

\* The whole program: the next record, and what it submits.
LEMMA multi_funcType ==
  ASSUME NEW m \in multi_stone_t, NEW e \in metrics_t
  PROVE  /\ multi_func(m, e) \in multi_stone_t
         /\ Submitted(m, e) \in Seq(metrics_t)
<1>1. Activate(m, e) \in multi_stone_t  BY ActivateType
<1>2. Activate(m, e).aggregated_event \in metrics_t
  BY <1>1 DEF multi_stone_t
<1>3. multi_func(m, e) \in multi_stone_t
  BY <1>1, NextPulseType DEF multi_func
<1>4. Submitted(m, e) \in Seq(metrics_t)  BY <1>2 DEF Submitted
<1> QED BY <1>3, <1>4
-----------------------------------------------------------------------------
(***************************************************************************)
(* The types of a run.                                                     *)
(***************************************************************************)
\* Ranks are natural numbers and the root is one.
LEMMA RankType == Rank \subseteq Nat /\ ROOT \in Rank
BY TopologyAssumption DEF Rank, ROOT

\* What a process measures is an integer.
LEMMA MeasuredType ==
  ASSUME NEW r \in Rank, NEW ts \in Nat, NEW number \in Nat
  PROVE  Measured(r, ts, number) \in Int
<1>1. (ts + number) % 2 \in 0 .. 1  OBVIOUS
<1>2. Metric[r] \in [0 .. 1 -> Int]  BY AggregationAssumption
<1> QED BY <1>1, <1>2 DEF Measured

\* ... and so are the fields compute_metric stores it in.
LEMMA OwnInfoType ==
  ASSUME NEW r \in Rank, NEW ts \in Nat, NEW number \in Nat
  PROVE  OwnInfo(r, ts, number) \in Info
BY MeasuredType DEF OwnInfo, Info

\* The zeroed statics of compute_own_metrics are an event.
LEMMA ZeroEventType == ZeroEvent \in metrics_t
BY DEF ZeroEvent, metrics_t, Info

\* The statics of multi_func start as a multi_stone record.
LEMMA InitialMultiType == InitialMulti \in multi_stone_t
BY ZeroEventType DEF InitialMulti, multi_stone_t

\* The state monitoring_initialize leaves behind has the types.
THEOREM InitTypeOK == Init => TypeOK
<1> SUFFICES ASSUME Init PROVE TypeOK  OBVIOUS
<1> USE DEF Init
<1>1. file \in AliasNumbers  OBVIOUS
<1>2. file_changes \in 0 .. MaxFileChanges  BY AggregationAssumption
<1>3. /\ leafs_finished \in [Leaf -> BOOLEAN]
      /\ running \in [Leaf -> BOOLEAN]
  OBVIOUS
<1>4. counter \in [Rank -> Nat] /\ total_metrics \in [Rank -> Nat]  OBVIOUS
<1>5. link \in [Rank -> Seq(metrics_t)]  OBVIOUS
<1>6. multi \in [NonLeaf -> multi_stone_t]  BY InitialMultiType
<1>7. stage \in [NonLeaf -> {"idle", "terminal", "submitted"}]  OBVIOUS
<1>8. inbox \in [NonLeaf -> metrics_t] /\ data \in [NonLeaf -> metrics_t]
  BY ZeroEventType
<1>9. /\ DOMAIN hash_ts = NonLeaf
      /\ \A n \in NonLeaf : DOMAIN hash_ts[n] = {}
  OBVIOUS
<1>10. first_pulse \in [NonLeaf -> BOOLEAN]  OBVIOUS
<1>11. pulse \in Nat  OBVIOUS
<1>12. monitoring_results \in [size : Nat, written : Nat, gather_info : Info]
  BY ZeroEventType DEF metrics_t
<1>13. results_available \in BOOLEAN /\ root_finished \in BOOLEAN  OBVIOUS
<1> QED BY <1>1, <1>2, <1>3, <1>4, <1>5, <1>6, <1>7, <1>8, <1>9, <1>10,
           <1>11, <1>12, <1>13 DEF TypeOK
-----------------------------------------------------------------------------
(***************************************************************************)
(* Events: what a leaf and an inner process send, and what a multi_stone   *)
(* submits.                                                                *)
(***************************************************************************)
\* A process with or without children is a rank.
LEMMA LeafRank == Leaf \subseteq Rank /\ NonLeaf \subseteq Rank
BY DEF Leaf, NonLeaf

\* The number in the aliases file is natural.
LEMMA FileType == ASSUME TypeOK PROVE file \in Nat
BY AggregationAssumption DEF TypeOK

\* What a leaf submits, and that start_communication's flag is a Boolean.
LEMMA QuitNowType ==
  ASSUME TypeOK, NEW l \in Leaf
  PROVE  QuitNow(l) \in BOOLEAN
BY DEF TypeOK, QuitNow, LastPulse

\* The events a leaf sends are typed.
LEMMA LeafEventType ==
  ASSUME TypeOK, NEW l \in Leaf, NEW quit \in BOOLEAN
  PROVE  [timestamp   |-> counter[l],
          quit        |-> quit,
          update_file |-> needs_sync(file, total_metrics[l]),
          parent_rank |-> get_parent(l),
          metrics_nr  |-> file,
          gather_info |-> OwnInfo(l, counter[l], file)] \in metrics_t
<1>1. l \in Rank /\ l \in Int  BY LeafRank, RankType
<1>2. counter[l] \in Nat  BY <1>1 DEF TypeOK
<1>4. needs_sync(file, total_metrics[l]) \in BOOLEAN  BY DEF needs_sync
<1>5. get_parent(l) \in Int  BY <1>1, ParentType
<1>6. OwnInfo(l, counter[l], file) \in Info  BY <1>1, <1>2, FileType, OwnInfoType
<1> QED BY <1>2, <1>4, <1>5, <1>6, FileType DEF metrics_t

\* The number of metrics that get_metrics_values puts in an event.
LEMMA NumberForType ==
  ASSUME TypeOK, NEW n \in NonLeaf, NEW event \in metrics_t
  PROVE  NumberFor(n, event) \in Nat
BY LeafRank, FileType DEF NumberFor, TypeOK

\* What get_metrics_values fills in.
LEMMA get_metrics_valuesType ==
  ASSUME TypeOK, NEW n \in NonLeaf, NEW event \in metrics_t, NEW ts \in Nat
  PROVE  get_metrics_values(n, event, ts) \in metrics_t
<1>1. n \in Rank /\ n \in Int  BY LeafRank, RankType
<1>2. NumberFor(n, event) \in Nat  BY NumberForType
<1>3. get_parent(n) \in Int  BY <1>1, ParentType
<1>4. OwnInfo(n, ts, NumberFor(n, event)) \in Info  BY <1>1, <1>2, OwnInfoType
<1>5. event.quit \in BOOLEAN /\ event.update_file \in BOOLEAN
  BY DEF metrics_t
<1> QED BY <1>2, <1>3, <1>4, <1>5 DEF get_metrics_values, metrics_t

\* What compute_own_metrics submits.
LEMMA OwnEventType ==
  ASSUME TypeOK, NEW n \in NonLeaf, NEW event \in metrics_t
  PROVE  OwnEvent(n, event) \in metrics_t
<1>1. counter[n] \in Nat /\ data[n] \in metrics_t  BY LeafRank DEF TypeOK
<1> QED BY <1>1, get_metrics_valuesType DEF OwnEvent

\* Counting an event in hash_ts leaves no entry with count zero.
LEMMA BumpType ==
  ASSUME NEW h, NEW ts \in Nat,
         DOMAIN h \subseteq Nat,
         \A t \in DOMAIN h : h[t] \in Nat \ {0}
  PROVE  /\ DOMAIN Bump(h, ts) \subseteq Nat
         /\ \A t \in DOMAIN Bump(h, ts) : Bump(h, ts)[t] \in Nat \ {0}
<1>1. DOMAIN Bump(h, ts) = DOMAIN h \cup {ts}  BY DEF Bump
<1>2. ASSUME NEW t \in DOMAIN h \cup {ts}
      PROVE  Bump(h, ts)[t] = IF t # ts THEN h[t]
                              ELSE IF t \in DOMAIN h THEN h[t] + 1 ELSE 1
  BY DEF Bump
<1> QED BY <1>1, <1>2

\* ... in particular counting the event at the terminal_stone.
LEMMA CountedType ==
  ASSUME TypeOK, NEW n \in NonLeaf
  PROVE  /\ DOMAIN Counted(n) \subseteq Nat
         /\ \A t \in DOMAIN Counted(n) : Counted(n)[t] \in Nat \ {0}
<1>1. inbox[n].timestamp \in Nat  BY DEF TypeOK, metrics_t
<1> QED BY <1>1, BumpType DEF Counted, TypeOK

-----------------------------------------------------------------------------
(***************************************************************************)
(* Every action keeps TypeOK.                                              *)
(***************************************************************************)
\* An edit of the aliases file.
LEMMA EditFileType == TypeOK /\ EditFile => TypeOK'
<1> SUFFICES ASSUME TypeOK, EditFile PROVE TypeOK'  OBVIOUS
<1>1. file' \in AliasNumbers  BY DEF EditFile
<1>2. file_changes' \in 0 .. MaxFileChanges
  BY AggregationAssumption DEF TypeOK, EditFile
<1> QED BY <1>1, <1>2
        DEF TypeOK, EditFile, leafVars, ownVars, rootVars

\* A leaf's main thread setting leafs_finished.
LEMMA monitoring_finalize_leafType ==
  ASSUME TypeOK, NEW l \in Leaf, monitoring_finalize_leaf(l)
  PROVE  TypeOK'
<1>1. leafs_finished' \in [Leaf -> BOOLEAN]
  BY DEF TypeOK, monitoring_finalize_leaf
<1> QED BY <1>1
        DEF TypeOK, monitoring_finalize_leaf, fileVars, ownVars, rootVars

\* A leaf's event, whichever loop sends it, and a turn of the loop in use.
LEMMA SendEventType ==
  ASSUME TypeOK, NEW l \in Leaf, NEW quit \in BOOLEAN, SendEvent(l, quit)
  PROVE  TypeOK'
<1> DEFINE e == [timestamp   |-> counter[l],
                 quit        |-> quit,
                 update_file |-> needs_sync(file, total_metrics[l]),
                 parent_rank |-> get_parent(l),
                 metrics_nr  |-> file,
                 gather_info |-> OwnInfo(l, counter[l], file)]
<1>1. l \in Rank  BY LeafRank
<1>2. e \in metrics_t  BY LeafEventType
<1>3. link' \in [Rank -> Seq(metrics_t)]
  <2>1. link' = [link EXCEPT ![l] = Append(link[l], e)]  BY DEF SendEvent
  <2> HIDE DEF e
  <2>2. Append(link[l], e) \in Seq(metrics_t)
    BY <1>1, <1>2, AppendProperties DEF TypeOK
  <2> QED BY <1>1, <2>1, <2>2 DEF TypeOK
<1>4. total_metrics' \in [Rank -> Nat]  BY <1>1, FileType DEF TypeOK, SendEvent
<1>5. counter' \in [Rank -> Nat]  BY <1>1 DEF TypeOK, SendEvent
<1>6. running' \in [Leaf -> BOOLEAN]
  <2>1. ~quit = TRUE \/ ~quit = FALSE  OBVIOUS
  <2>2. running' = [running EXCEPT ![l] = ~quit]  BY DEF SendEvent
  <2> QED BY <2>1, <2>2, Zenon DEF TypeOK
<1> QED BY <1>3, <1>4, <1>5, <1>6
        DEF TypeOK, SendEvent, fileVars, ownVars, rootVars

\* A leaf's turn keeps the types.
LEMMA start_communicationType ==
  ASSUME TypeOK, NEW l \in Leaf, start_communication(l)
  PROVE  TypeOK'
<1>1. QuitNow(l) \in BOOLEAN  BY QuitNowType
<1>2. SendEvent(l, QuitNow(l))  BY DEF start_communication
<1> QED BY <1>1, <1>2, SendEventType

\* An event at the split_stone of the parent.
LEMMA ArriveType ==
  ASSUME TypeOK, NEW c \in Rank, Arrive(c)
  PROVE  TypeOK'
<1> DEFINE n == get_parent(c)
           e == Head(link[c])
           s == link[n] \o Submitted(multi[n], e)
<1>1. n \in NonLeaf /\ n \in Rank /\ n # c
  BY ParentIsNotLeaf, ParentIsBelow, RankType DEF Arrive
<1>2. link[c] \in Seq(metrics_t) /\ link[c] # <<>>  BY DEF TypeOK, Arrive
<1>3. e \in metrics_t /\ Tail(link[c]) \in Seq(metrics_t)
  BY <1>2, HeadTailProperties
<1>4. multi[n] \in multi_stone_t /\ link[n] \in Seq(metrics_t)
  BY <1>1 DEF TypeOK
<1>5. /\ multi_func(multi[n], e) \in multi_stone_t
      /\ Submitted(multi[n], e) \in Seq(metrics_t)
  BY <1>3, <1>4, multi_funcType
<1>6. s \in Seq(metrics_t)  BY <1>4, <1>5, ConcatProperties
<1>7. link' \in [Rank -> Seq(metrics_t)]
  <2>1. link' = [link EXCEPT ![c] = Tail(link[c]), ![n] = s]
    BY <1>1, Zenon DEF Arrive, TypeOK
  <2> HIDE DEF n, e, s
  <2> QED BY <1>1, <1>3, <1>6, <2>1 DEF TypeOK
<1>8. multi' \in [NonLeaf -> multi_stone_t]
  <2>1. multi' = [multi EXCEPT ![n] = multi_func(multi[n], e)]
    BY DEF Arrive
  <2> HIDE DEF n, e
  <2> QED BY <1>1, <1>5, <2>1 DEF TypeOK
<1>9. inbox' \in [NonLeaf -> metrics_t]
  <2>1. inbox' = [inbox EXCEPT ![n] = e]  BY DEF Arrive
  <2> HIDE DEF n, e
  <2> QED BY <1>1, <1>3, <2>1 DEF TypeOK
<1>10. stage' \in [NonLeaf -> {"idle", "terminal", "submitted"}]
  BY <1>1 DEF TypeOK, Arrive
<1> QED BY <1>7, <1>8, <1>9, <1>10
        DEF TypeOK, Arrive, fileVars, leafVars, ownVars, rootVars

\* A result at the root.
LEMMA final_resultType == TypeOK /\ final_result => TypeOK'
<1> SUFFICES ASSUME TypeOK, final_result PROVE TypeOK'  OBVIOUS
<1> DEFINE event == Head(link[ROOT])
<1>1. link[ROOT] \in Seq(metrics_t) /\ link[ROOT] # <<>>
  BY RankType DEF TypeOK, final_result
<1>2. event \in metrics_t /\ Tail(link[ROOT]) \in Seq(metrics_t)
  BY <1>1, HeadTailProperties
<1>3. link' \in [Rank -> Seq(metrics_t)]
  BY <1>2, RankType DEF TypeOK, final_result
<1>4. /\ event.metrics_nr \in Nat /\ event.gather_info \in Info
      /\ event.update_file \in BOOLEAN
  BY <1>2 DEF metrics_t
<1>5. monitoring_results' \in [size : Nat, written : Nat, gather_info : Info]
  <2>1. CASE BENCHMARKING  BY <2>1 DEF TypeOK, final_result
  <2>2. CASE ~BENCHMARKING
    <3>1. monitoring_results' =
            [size        |-> IF Allocates(event) THEN event.metrics_nr
                             ELSE monitoring_results.size,
             written     |-> event.metrics_nr,
             gather_info |-> IF event.metrics_nr > 0 THEN event.gather_info
                             ELSE monitoring_results.gather_info]
      BY <2>2, Zenon DEF final_result
    <3>2. /\ monitoring_results.size \in Nat
          /\ monitoring_results.gather_info \in Info
      BY DEF TypeOK
    <3> HIDE DEF event
    <3> QED BY <1>4, <3>1, <3>2
  <2> QED BY <2>1, <2>2
<1>6. results_available' \in BOOLEAN
  BY <1>4 DEF TypeOK, final_result, Allocates
<1>7. pulse' \in Nat  BY DEF TypeOK, final_result
<1>8. root_finished' \in BOOLEAN
  BY DEF TypeOK, final_result, FinishesRoot
<1> QED BY <1>3, <1>5, <1>6, <1>7, <1>8
        DEF TypeOK, final_result, fileVars, leafVars, ownVars
\* The part of TypeOK about hash_ts, for an update of one entry.
LEMMA HashType ==
  ASSUME TypeOK, NEW n \in NonLeaf, NEW h,
         DOMAIN h \subseteq Nat,
         \A t \in DOMAIN h : h[t] \in Nat \ {0},
         hash_ts' = [hash_ts EXCEPT ![n] = h]
  PROVE  /\ DOMAIN hash_ts' = NonLeaf
         /\ \A k \in NonLeaf :
              /\ DOMAIN hash_ts'[k] \subseteq Nat
              /\ \A t \in DOMAIN hash_ts'[k] : hash_ts'[k][t] \in Nat \ {0}
<1>1. DOMAIN hash_ts' = NonLeaf  BY DEF TypeOK
<1>2. ASSUME NEW k \in NonLeaf
      PROVE  /\ DOMAIN hash_ts'[k] \subseteq Nat
             /\ \A t \in DOMAIN hash_ts'[k] : hash_ts'[k][t] \in Nat \ {0}
  <2>1. CASE k = n
    <3>1. hash_ts'[k] = h  BY <2>1 DEF TypeOK
    <3> QED BY <3>1
  <2>2. CASE k # n
    <3>1. hash_ts'[k] = hash_ts[k]  BY <2>2 DEF TypeOK
    <3> QED BY <3>1 DEF TypeOK
  <2> QED BY <2>1, <2>2
<1> QED BY <1>1, <1>2

\* Deleting an entry of hash_ts.
LEMMA ForgetType ==
  ASSUME NEW h, NEW ts,
         DOMAIN h \subseteq Nat,
         \A t \in DOMAIN h : h[t] \in Nat \ {0}
  PROVE  /\ DOMAIN Forget(h, ts) \subseteq Nat
         /\ \A t \in DOMAIN Forget(h, ts) : Forget(h, ts)[t] \in Nat \ {0}
BY DEF Forget

\* compute_own_metrics while events of the pulse are missing.
LEMMA WaitForOthersType ==
  ASSUME TypeOK, NEW n \in NonLeaf, WaitForOthers(n),
         hash_ts' = [hash_ts EXCEPT ![n] = Counted(n)],
         UNCHANGED <<fileVars, leafVars, counter, inbox, rootVars>>
  PROVE  TypeOK'
<1>1. /\ DOMAIN hash_ts' = NonLeaf
      /\ \A k \in NonLeaf :
           /\ DOMAIN hash_ts'[k] \subseteq Nat
           /\ \A t \in DOMAIN hash_ts'[k] : hash_ts'[k][t] \in Nat \ {0}
  BY CountedType, HashType
<1>2. stage' \in [NonLeaf -> {"idle", "terminal", "submitted"}]
  BY DEF TypeOK, WaitForOthers
<1> QED BY <1>1, <1>2
        DEF TypeOK, WaitForOthers, fileVars, leafVars, rootVars

\* compute_own_metrics with the last event of the pulse.
LEMMA SubmitOwnType ==
  ASSUME TypeOK, NEW n \in NonLeaf, SubmitOwn(n),
         hash_ts' = [hash_ts EXCEPT ![n] = Counted(n)],
         UNCHANGED <<fileVars, leafVars, counter, inbox, rootVars>>
  PROVE  TypeOK'
<1> DEFINE event == inbox[n]
           own   == OwnEvent(n, event)
           s     == link[n] \o Submitted(multi[n], own)
           k     == IF Recomputes(n, event) THEN own.metrics_nr
                    ELSE total_metrics[n]
<1>1. n \in Rank  BY LeafRank
<1>2. /\ event \in metrics_t /\ counter[n] \in Nat
      /\ multi[n] \in multi_stone_t /\ link[n] \in Seq(metrics_t)
      /\ total_metrics[n] \in Nat
  BY <1>1 DEF TypeOK
<1>3. own \in metrics_t  BY <1>2, OwnEventType
<1>4. /\ multi_func(multi[n], own) \in multi_stone_t
      /\ Submitted(multi[n], own) \in Seq(metrics_t)
  BY <1>2, <1>3, multi_funcType
<1>5. s \in Seq(metrics_t)  BY <1>2, <1>4, ConcatProperties
<1>6. k \in Nat  BY <1>2, <1>3 DEF metrics_t
<1>7. /\ multi' = [multi EXCEPT ![n] = multi_func(multi[n], own)]
      /\ link' = [link EXCEPT ![n] = s]
      /\ data' = [data EXCEPT ![n] = own]
      /\ first_pulse' = [first_pulse EXCEPT ![n] = FALSE]
      /\ total_metrics' = [total_metrics EXCEPT ![n] = k]
      /\ stage' = [stage EXCEPT ![n] = "submitted"]
  BY DEF SubmitOwn
<1> HIDE DEF event, own, s, k
<1>8. multi' \in [NonLeaf -> multi_stone_t]  BY <1>4, <1>7 DEF TypeOK
<1>9. link' \in [Rank -> Seq(metrics_t)]  BY <1>1, <1>5, <1>7 DEF TypeOK
<1>10. /\ DOMAIN hash_ts' = NonLeaf
       /\ \A r \in NonLeaf :
            /\ DOMAIN hash_ts'[r] \subseteq Nat
            /\ \A t \in DOMAIN hash_ts'[r] : hash_ts'[r][t] \in Nat \ {0}
  BY CountedType, HashType
<1>11. data' \in [NonLeaf -> metrics_t]  BY <1>3, <1>7 DEF TypeOK
<1>12. first_pulse' \in [NonLeaf -> BOOLEAN]  BY <1>7 DEF TypeOK
<1>13. total_metrics' \in [Rank -> Nat]  BY <1>1, <1>6, <1>7 DEF TypeOK
<1>14. stage' \in [NonLeaf -> {"idle", "terminal", "submitted"}]
  BY <1>7 DEF TypeOK
<1> QED BY <1>8, <1>9, <1>10, <1>11, <1>12, <1>13, <1>14
        DEF TypeOK, fileVars, leafVars, rootVars

\* compute_own_metrics in either case.
LEMMA compute_own_metricsType ==
  ASSUME TypeOK, NEW n \in NonLeaf, compute_own_metrics(n)
  PROVE  TypeOK'
BY WaitForOthersType, SubmitOwnType DEF compute_own_metrics

\* The rest of the handler, which may prepare the next own event.
LEMMA FinishPulseType ==
  ASSUME TypeOK, NEW n \in NonLeaf, FinishPulse(n)
  PROVE  TypeOK'
<1> DEFINE last == LastForNode(data[n], inbox[n])
           next == get_metrics_values(n, inbox[n], counter[n] + 1)
           d    == IF last THEN data[n] ELSE next
           k    == IF last THEN total_metrics[n] ELSE next.metrics_nr
           h    == IF BENCHMARKING THEN hash_ts[n]
                   ELSE Forget(hash_ts[n], counter[n])
<1>1. n \in Rank  BY LeafRank
<1>2. /\ inbox[n] \in metrics_t /\ counter[n] \in Nat
      /\ data[n] \in metrics_t /\ total_metrics[n] \in Nat
  BY <1>1 DEF TypeOK
<1>3. next \in metrics_t  BY <1>2, get_metrics_valuesType
<1>4. d \in metrics_t  BY <1>2, <1>3
<1>5. k \in Nat  BY <1>2, <1>3 DEF metrics_t
<1>6. DOMAIN h \subseteq Nat /\ \A t \in DOMAIN h : h[t] \in Nat \ {0}
  <2>1. /\ DOMAIN hash_ts[n] \subseteq Nat
        /\ \A t \in DOMAIN hash_ts[n] : hash_ts[n][t] \in Nat \ {0}
    BY DEF TypeOK
  <2> QED BY <2>1, ForgetType
<1>7. /\ counter' = [counter EXCEPT ![n] = counter[n] + 1]
      /\ hash_ts' = [hash_ts EXCEPT ![n] = h]
      /\ data' = [data EXCEPT ![n] = d]
      /\ total_metrics' = [total_metrics EXCEPT ![n] = k]
      /\ stage' = [stage EXCEPT ![n] = "idle"]
  BY DEF FinishPulse
<1> HIDE DEF last, next, d, k, h
<1>8. counter' \in [Rank -> Nat]  BY <1>1, <1>2, <1>7 DEF TypeOK
<1>9. /\ DOMAIN hash_ts' = NonLeaf
      /\ \A r \in NonLeaf :
           /\ DOMAIN hash_ts'[r] \subseteq Nat
           /\ \A t \in DOMAIN hash_ts'[r] : hash_ts'[r][t] \in Nat \ {0}
  BY <1>6, <1>7, HashType
<1>10. data' \in [NonLeaf -> metrics_t]  BY <1>4, <1>7 DEF TypeOK
<1>11. total_metrics' \in [Rank -> Nat]  BY <1>1, <1>5, <1>7 DEF TypeOK
<1>12. stage' \in [NonLeaf -> {"idle", "terminal", "submitted"}]
  BY <1>7 DEF TypeOK
<1> QED BY <1>8, <1>9, <1>10, <1>11, <1>12
        DEF TypeOK, FinishPulse, fileVars, leafVars, rootVars

\* No step loses a type.
LEMMA TypeKept == TypeOK /\ [Next]_vars => TypeOK'
<1> SUFFICES ASSUME TypeOK, [Next]_vars PROVE TypeOK'  OBVIOUS
<1>1. CASE EditFile  BY <1>1, EditFileType
<1>2. ASSUME NEW l \in Leaf, monitoring_finalize_leaf(l) PROVE TypeOK'
  BY <1>2, monitoring_finalize_leafType
<1>3. ASSUME NEW l \in Leaf, start_communication(l) PROVE TypeOK'
  BY <1>3, start_communicationType
<1>4. ASSUME NEW n \in NonLeaf, NEW c \in children(n), Arrive(c)
      PROVE  TypeOK'
  BY <1>4, LeafRank, ChildrenHaveParent, ArriveType
<1>5. ASSUME NEW n \in NonLeaf, compute_own_metrics(n) PROVE TypeOK'
  BY <1>5, compute_own_metricsType
<1>6. ASSUME NEW n \in NonLeaf, FinishPulse(n) PROVE TypeOK'
  BY <1>6, FinishPulseType
<1>7. CASE final_result  BY <1>7, final_resultType
<1>8. CASE UNCHANGED vars  BY <1>8 DEF vars, TypeOK
<1> QED BY <1>1, <1>2, <1>3, <1>4, <1>5, <1>6, <1>7, <1>8
        DEF Next, comm_thread

(***************************************************************************)
(* The variables always have their types: in particular first_found_index  *)
(* is -1 or a position that existed when it was set, and counts are never  *)
(* negative.                                                               *)
(***************************************************************************)
THEOREM TypeCorrect == Spec => []TypeOK
BY InitTypeOK, TypeKept, PTL DEF Spec

-----------------------------------------------------------------------------
(***************************************************************************)
(* Pulses stay in order: what travels on a link carries consecutive        *)
(* timestamps, and compute_own_metrics always finds the entry it waits     *)
(* for.                                                                    *)
(*                                                                         *)
(* The argument counts, for every process, the events its parent has taken *)
(* from it (Arrived).  The n-th event on a link is the one of pulse        *)
(* Arrived + n - 1, so hash_ts[n][t] is the number of children whose event *)
(* of pulse t has arrived, and it reaches the degree only when every child *)
(* is past t.  No child is ever behind counter, therefore.                 *)
(***************************************************************************)
\* A rank with at least one child, get_degree_node(x) > 0.
HasRoom(x) == x * max_degree + 1 < nprocs

\* What holds of every event in a queue or on a link.
Sound(e) == /\ HasRoom(e.parent_rank)
            /\ BENCHMARKING => e.timestamp < max_timestamps

\* The statics of multi_func: an open aggregate is of the current pulse, and
\* max_degree is unset only before the first event.
MultiInv(m) ==
  /\ \A i \in 1 .. Len(m.queue) : Sound(m.queue[i])
  /\ m.first_found_index # NotFound =>
       /\ m.aggregated_event.timestamp = m.pulse_timestamp
       /\ Sound(m.aggregated_event)
  /\ m.max_degree = -1 => /\ m.queue = <<>>
                          /\ m.pulse_timestamp = 0
                          /\ m.first_found_index = NotFound

\* The events a process has sent, and those its parent has taken.
Sent(c) == IF c \in Leaf THEN counter[c] ELSE multi[c].pulse_timestamp

Arrived(c) == Sent(c) - Len(link[c])

\* Consecutive timestamps, the first of which is given.
Consecutive(q, first) ==
  \A i \in 1 .. Len(q) : q[i].timestamp = first + i - 1 /\ Sound(q[i])

LinkInv(c) == Arrived(c) >= 0 /\ Consecutive(link[c], Arrived(c))

LeafInv(l) ==
  BENCHMARKING /\ running[l] => counter[l] < max_timestamps

StoneInv(n) ==
  /\ MultiInv(multi[n])
  /\ multi[n].max_degree = -1 => /\ stage[n] = "idle"
                                 /\ \A c \in children(n) : Arrived(c) = 0

\* With BENCHMARKING the own event that is ready, or has just been submitted,
\* is the one of counter.
OwnInv(n) ==
  /\ stage[n] # "idle" => HasRoom(n)
  /\ stage[n] = "submitted" => ~first_pulse[n]
  /\ ~first_pulse[n] => Sound(data[n])
  /\ BENCHMARKING =>
       /\ stage[n] = "submitted" => counter[n] < max_timestamps
       /\ ~first_pulse[n] /\ counter[n] < max_timestamps
            => data[n].timestamp = counter[n]

\* hash_ts with the event at the terminal_stone, if any, counted.
Hash(n) == IF stage[n] = "terminal" THEN Counted(n) ELSE hash_ts[n]

\* The children whose event of pulse t has arrived.
Past(n, t) == {c \in children(n) : Arrived(c) > t}

HashInv(n) ==
  /\ \A c \in children(n) : Arrived(c) >= submissions(n)
  /\ \A t \in Nat :
       t >= submissions(n) => CountOf(Hash(n), t) = Cardinality(Past(n, t))
  /\ stage[n] = "terminal" =>
       /\ inbox[n].timestamp >= counter[n]
       /\ BENCHMARKING => inbox[n].timestamp < max_timestamps
       /\ \E c \in children(n) : Arrived(c) = inbox[n].timestamp + 1

ProcessInv(n) == StoneInv(n) /\ OwnInv(n) /\ HashInv(n)

PulseInv == /\ TypeOK
            /\ pulse = Arrived(ROOT)
            /\ \A c \in Rank : LinkInv(c)
            /\ \A l \in Leaf : LeafInv(l)
            /\ \A n \in NonLeaf : ProcessInv(n)
-----------------------------------------------------------------------------
(***************************************************************************)
(* The tree.                                                               *)
(***************************************************************************)
\* The parent of a rank with children has children; so has what get_parent
\* makes of the root.
LEMMA RoomOfParent ==
  ASSUME NEW x \in Int, HasRoom(x)
  PROVE  HasRoom(get_parent(x))
<1> DEFINE d == max_degree
           y == get_parent(x)
<1>1. nprocs \in Nat \ {0} /\ d \in Nat \ {0}  BY TopologyAssumption
<1>2. CASE x = ROOT
  <2>1. y = -(1 \div d) /\ 1 \div d \in Nat
    BY <1>1, <1>2 DEF get_parent
  <2>2. y \in Int /\ y <= 0  BY <2>1
  <2>3. y * d <= 0  BY <1>1, <2>2
  <2>4. 1 < nprocs  BY <1>1, <1>2 DEF HasRoom, ROOT
  <2> QED BY <1>1, <2>2, <2>3, <2>4 DEF HasRoom
<1>3. CASE x # ROOT
  <2>1. y = (x - 1) \div d  BY <1>3 DEF get_parent
  <2>2. y \in Int /\ y * d \in Int /\ y * d <= x - 1  BY <1>1, <2>1
  <2>3. CASE x <= 0  BY <1>1, <2>2, <2>3 DEF HasRoom
  <2>4. CASE x > 0
    <3>1. x <= x * d /\ x * d \in Int  BY <1>1, <2>4
    <3> QED BY <1>1, <2>2, <3>1 DEF HasRoom
  <2> QED BY <2>3, <2>4
<1> QED BY <1>2, <1>3

\* The parent of an existing rank has a child.
LEMMA RoomOfChild ==
  ASSUME NEW c \in Rank, c # ROOT
  PROVE  HasRoom(get_parent(c))
<1>1. c \in Nat /\ c > 0 /\ c < nprocs /\ nprocs \in Nat
  BY TopologyAssumption DEF Rank, ROOT
<1>2. get_parent(c) = (c - 1) \div max_degree  BY ParentQuotient
<1>3. /\ ((c - 1) \div max_degree) * max_degree <= c - 1
      /\ ((c - 1) \div max_degree) * max_degree \in Int
  BY <1>1, TopologyAssumption
<1> QED BY <1>1, <1>2, <1>3 DEF HasRoom

\* A leaf has a parent.
LEMMA LeafIsNotRoot == ROOT \notin Leaf
BY TopologyAssumption DEF Leaf, is_leaf, ROOT

\* get_degree_node is not zero where there is room for a child.
LEMMA RoomDegree ==
  ASSUME NEW x \in Int, HasRoom(x)
  PROVE  get_degree_node(x) \in Nat \ {0}
<1>1. 1 \in ChildOffsets(x)
  BY TopologyAssumption DEF ChildOffsets, HasRoom
<1>2. IsFiniteSet(ChildOffsets(x)) /\ get_degree_node(x) \in Nat
  BY DegreeType
<1> QED BY <1>1, <1>2, FS_EmptySet DEF get_degree_node

\* get_degree_node is the number of children.
LEMMA ChildrenCount ==
  ASSUME NEW r \in Rank
  PROVE  /\ IsFiniteSet(children(r))
         /\ Cardinality(children(r)) = get_degree_node(r)
<1> DEFINE k == get_degree_node(r)
           f == [i \in 1 .. k |-> r * max_degree + i]
<1>1. k \in Nat  BY DegreeType
<1>2. r * max_degree \in Int  BY RankType, TopologyAssumption
<1>3. IsFiniteSet(1 .. k) /\ Cardinality(1 .. k) = k  BY <1>1, FS_Interval
<1>4. f \in Bijection(1 .. k, children(r))
  <2>1. children(r) = {r * max_degree + i : i \in 1 .. k}
    BY DEF children
  <2> HIDE DEF k
  <2>2. f \in [1 .. k -> children(r)]  BY <2>1
  <2>3. IsInjective(f)  BY <1>1, <1>2 DEF IsInjective
  <2> QED BY <2>1, <2>2, <2>3 DEF Bijection, Injection, Surjection
<1>5. ExistsBijection(1 .. k, children(r))  BY <1>4 DEF ExistsBijection
<1> QED BY <1>3, <1>5, FS_Bijection
-----------------------------------------------------------------------------
(***************************************************************************)
(* The program of the multi_stone.                                         *)
(***************************************************************************)
\* What is left after EVdiscard was in the queue before.
LEMMA QueueWithout ==
  ASSUME NEW q \in Seq(metrics_t), NEW i \in 1 .. Len(q),
         \A j \in 1 .. Len(q) : Sound(q[j])
  PROVE  \A j \in 1 .. Len(RemoveAt(q, i)) : Sound(RemoveAt(q, i)[j])
<1>1. Len(q) \in Nat  BY LenProperties
<1>2. /\ Len(RemoveAt(q, i)) = Len(q) - 1
      /\ \A j \in 1 .. Len(q) - 1 :
           RemoveAt(q, i)[j] = IF j < i THEN q[j] ELSE q[j + 1]
  BY <1>1, RemoveAtProperties
<1> SUFFICES ASSUME NEW j \in 1 .. Len(q) - 1
             PROVE  Sound(RemoveAt(q, i)[j])
  BY <1>2
<1>3. j \in 1 .. Len(q) /\ j + 1 \in 1 .. Len(q)  BY <1>1
<1>4. Sound(q[j]) /\ Sound(q[j + 1])  BY <1>3
<1> QED BY <1>2, <1>4

\* The aggregate takes its timestamp from the event that opens it.
LEMMA OpenAtInv ==
  ASSUME NEW m \in multi_stone_t, NEW i \in 1 .. Len(m.queue),
         \A j \in 1 .. Len(m.queue) : Sound(m.queue[j]),
         m.queue[i].timestamp = m.pulse_timestamp
  PROVE  LET r == OpenAt(m, i)
         IN  /\ MultiInv(r)
             /\ r.max_degree # -1
             /\ r.pulse_timestamp = m.pulse_timestamp
             /\ r.first_found_index # NotFound
<1> DEFINE a == m.queue[i]
           e == [a EXCEPT !.parent_rank = get_parent(a.parent_rank),
                          !.gather_info = IfMeasured(a, m, a.gather_info)]
           q == RemoveAt(m.queue, i)
           r == OpenAt(m, i)
<1>1. m.queue \in Seq(metrics_t) /\ Len(m.queue) \in Nat
  BY LenProperties DEF multi_stone_t
<1>2. a \in metrics_t /\ Sound(a)  BY <1>1, ElementOfSeq
<1>3. e.timestamp = a.timestamp /\ e.parent_rank = get_parent(a.parent_rank)
  BY <1>2 DEF metrics_t
<1>4. Sound(e)
  <2>1. HasRoom(get_parent(a.parent_rank))
    BY <1>2, RoomOfParent DEF Sound, metrics_t
  <2> QED BY <1>2, <1>3, <2>1 DEF Sound
<1>5. /\ r.aggregated_event = e /\ r.max_degree = max_degree
      /\ r.first_found_index = i /\ r.queue = q
      /\ r.pulse_timestamp = m.pulse_timestamp
  BY DEF OpenAt, multi_stone_t
<1>6. \A j \in 1 .. Len(q) : Sound(q[j])  BY <1>1, QueueWithout
<1>7. max_degree # -1 /\ i # NotFound
  BY <1>1, TopologyAssumption DEF NotFound
<1> HIDE DEF a, e, q, r
<1> QED BY <1>3, <1>4, <1>5, <1>6, <1>7 DEF MultiInv, r, a

\* Merging leaves the aggregate its timestamp.
LEMMA MergeAtInv ==
  ASSUME NEW m \in multi_stone_t, NEW i \in 1 .. Len(m.queue), MultiInv(m),
         m.first_found_index # NotFound
  PROVE  LET r == MergeAt(m, i)
         IN  /\ MultiInv(r)
             /\ r.max_degree # -1
             /\ r.pulse_timestamp = m.pulse_timestamp
             /\ r.first_found_index # NotFound
<1> DEFINE g == IfMeasured(m.queue[i], m,
                           Combine(m.aggregated_event.gather_info,
                                   m.queue[i].gather_info))
           q == RemoveAt(m.queue, i)
           r == MergeAt(m, i)
<1>1. m.queue \in Seq(metrics_t) /\ Len(m.queue) \in Nat
  BY LenProperties DEF multi_stone_t
<1>2. m.aggregated_event \in metrics_t  BY DEF multi_stone_t
<1>3. /\ r.aggregated_event = [m.aggregated_event EXCEPT !.gather_info = g]
      /\ r.first_found_index = i /\ r.queue = q
      /\ r.pulse_timestamp = m.pulse_timestamp /\ r.max_degree = m.max_degree
  BY DEF MergeAt, multi_stone_t
<1>4. \A j \in 1 .. Len(q) : Sound(q[j])
  BY <1>1, QueueWithout DEF MultiInv
<1>5. i # NotFound  BY <1>1 DEF NotFound
<1> HIDE DEF g, q, r
<1>6. /\ r.aggregated_event.timestamp = m.aggregated_event.timestamp
      /\ r.aggregated_event.parent_rank = m.aggregated_event.parent_rank
  BY <1>2, <1>3 DEF metrics_t
<1>7. Sound(r.aggregated_event)  BY <1>6 DEF MultiInv, Sound
<1> QED BY <1>3, <1>4, <1>5, <1>6, <1>7 DEF MultiInv, r

\* Without an event of the pulse nothing opens, and the pulse does not end:
\* the degree then taken from another event is not zero.
LEMMA OpenOnNothingInv ==
  ASSUME NEW m \in multi_stone_t, m.max_degree # -1,
         \A j \in 1 .. Len(m.queue) : Sound(m.queue[j]),
         m.first_found_index = NotFound, m.queue # <<>>
  PROVE  LET r == OpenOnNothing(m)
         IN  /\ MultiInv(r)
             /\ r.max_degree # -1
             /\ r.pulse_timestamp = m.pulse_timestamp
             /\ ~Completed(r)
<1> DEFINE e == m.queue[Len(m.queue)]
           r == OpenOnNothing(m)
<1>1. m.queue \in Seq(metrics_t) /\ Len(m.queue) \in Nat \ {0}
  BY EmptySeq DEF multi_stone_t
<1>2. e \in metrics_t /\ Sound(e)  BY <1>1, ElementOfSeq
<1>3. get_degree_node(e.parent_rank) \in Nat \ {0}
  BY <1>2, RoomDegree DEF Sound, metrics_t
<1>4. /\ r.current_node_degree = get_degree_node(e.parent_rank)
      /\ r.count = 1 /\ r.queue = m.queue
      /\ r.first_found_index = m.first_found_index
      /\ r.pulse_timestamp = m.pulse_timestamp /\ r.max_degree = m.max_degree
  BY DEF OpenOnNothing, multi_stone_t
<1>5. ~Completed(r)  BY <1>3, <1>4 DEF Completed
<1> HIDE DEF e, r
<1> QED BY <1>4, <1>5 DEF MultiInv, r

\* One activation completes no pulse that it, or one before, has not opened.
LEMMA ActivateInv ==
  ASSUME NEW m \in multi_stone_t, NEW e \in metrics_t, MultiInv(m), Sound(e),
         m.max_degree = -1 => e.timestamp = 0
  PROVE  LET r == Activate(m, e)
         IN  /\ MultiInv(r)
             /\ r.max_degree # -1
             /\ r.pulse_timestamp = m.pulse_timestamp
             /\ Completed(r) => r.first_found_index # NotFound
<1> DEFINE q == Append(m.queue, e)
           k == [m EXCEPT !.queue = q]
<1>1. m.queue \in Seq(metrics_t) /\ Len(m.queue) \in Nat
  BY LenProperties DEF multi_stone_t
<1>2. /\ q \in Seq(metrics_t) /\ q # <<>> /\ Len(q) = Len(m.queue) + 1
      /\ \A j \in 1 .. Len(m.queue) : q[j] = m.queue[j]
      /\ q[Len(m.queue) + 1] = e
  BY <1>1, AppendProperties
<1>3. ASSUME NEW j \in 1 .. Len(q) PROVE Sound(q[j])
  <2>1. CASE j \in 1 .. Len(m.queue)  BY <1>2, <2>1 DEF MultiInv
  <2>2. CASE j = Len(m.queue) + 1  BY <1>2, <2>2
  <2> QED BY <1>1, <1>2, <2>1, <2>2
<1>4. /\ k.queue = q /\ k.max_degree = m.max_degree
      /\ k.pulse_timestamp = m.pulse_timestamp
      /\ k.first_found_index = m.first_found_index
      /\ k.aggregated_event = m.aggregated_event
  BY DEF multi_stone_t
<1>5. k \in multi_stone_t
  <2> HIDE DEF q
  <2> QED BY <1>2 DEF multi_stone_t
<1>6. Activate(m, e) = Consume(k)  BY DEF Activate
<1>7. k.max_degree = -1 => Matches(k, 1) # {}
  <2> SUFFICES ASSUME k.max_degree = -1 PROVE Matches(k, 1) # {}  OBVIOUS
  <2>1. m.queue = <<>> /\ m.pulse_timestamp = 0 /\ e.timestamp = 0
    BY <1>4 DEF MultiInv
  <2>2. Len(q) = 1 /\ q[1] = e  BY <1>2, <2>1
  <2> QED BY <1>4, <2>1, <2>2 DEF Matches
<1> HIDE DEF k, q
<1>8. CASE k.first_found_index = NotFound /\ Matches(k, 1) # {}
  <2>1. Consume(k) = OpenAt(k, Min(Matches(k, 1)))
    BY <1>8 DEF Consume, Open
  <2>2. /\ Min(Matches(k, 1)) \in 1 .. Len(k.queue)
        /\ k.queue[Min(Matches(k, 1))].timestamp = k.pulse_timestamp
    BY <1>5, <1>8, FirstMatch
  <2> QED BY <1>3, <1>4, <1>5, <1>6, <2>1, <2>2, OpenAtInv
<1>9. CASE k.first_found_index = NotFound /\ Matches(k, 1) = {}
  <2>1. Consume(k) = OpenOnNothing(k)  BY <1>9 DEF Consume, Open
  <2> QED BY <1>2, <1>3, <1>4, <1>5, <1>6, <1>7, <1>9, <2>1, OpenOnNothingInv
<1>10. CASE k.first_found_index # NotFound
  <2>1. Consume(k) = Merge(k)  BY <1>10 DEF Consume
  <2>2. MultiInv(k) /\ k.max_degree # -1
    BY <1>3, <1>4, <1>10 DEF MultiInv
  <2> DEFINE I == Matches(k, k.first_found_index)
  <2>3. CASE Merge(k) = k
    BY <1>4, <1>6, <1>10, <2>1, <2>2, <2>3
  <2>4. CASE I # {} /\ Merge(k) = MergeAt(k, Min(I))
    <3>1. k.first_found_index \in Nat \ {0}
      BY <1>5, <1>10 DEF multi_stone_t
    <3>2. Min(I) \in 1 .. Len(k.queue)  BY <1>5, <2>4, <3>1, FirstMatch
    <3> HIDE DEF I
    <3> QED BY <1>4, <1>5, <1>6, <1>10, <2>1, <2>2, <2>4, <3>2, MergeAtInv
  <2> QED BY <2>3, <2>4 DEF Merge
<1> QED BY <1>8, <1>9, <1>10

\* The next pulse starts with nothing open, or with an event of its own.
LEMMA NextPulseInv ==
  ASSUME NEW m \in multi_stone_t, MultiInv(m), m.max_degree # -1
  PROVE  LET r == NextPulse(m)
         IN  /\ MultiInv(r)
             /\ r.max_degree # -1
             /\ r.pulse_timestamp = m.pulse_timestamp + 1
<1> DEFINE k == [m EXCEPT !.pulse_timestamp = m.pulse_timestamp + 1,
                          !.first_found_index = NotFound, !.count = 0]
<1>1. m.pulse_timestamp + 1 \in Nat  BY DEF multi_stone_t
<1>2. k \in multi_stone_t  BY <1>1, NextPulseFields
<1>3. /\ k.queue = m.queue /\ k.max_degree = m.max_degree
      /\ k.pulse_timestamp = m.pulse_timestamp + 1
      /\ k.first_found_index = NotFound
  BY DEF multi_stone_t
<1>4. NextPulse(m) = IF Matches(k, 1) # {} THEN Open(k) ELSE k
  BY DEF NextPulse
<1> HIDE DEF k
<1>5. CASE Matches(k, 1) = {}  BY <1>3, <1>4, <1>5 DEF MultiInv
<1>6. CASE Matches(k, 1) # {}
  <2>1. NextPulse(m) = OpenAt(k, Min(Matches(k, 1)))
    BY <1>4, <1>6 DEF Open
  <2>2. /\ Min(Matches(k, 1)) \in 1 .. Len(k.queue)
        /\ k.queue[Min(Matches(k, 1))].timestamp = k.pulse_timestamp
    BY <1>2, <1>6, FirstMatch
  <2>3. \A j \in 1 .. Len(k.queue) : Sound(k.queue[j])
    BY <1>3 DEF MultiInv
  <2> QED BY <1>2, <1>3, <2>1, <2>2, <2>3, OpenAtInv
<1> QED BY <1>5, <1>6

(***************************************************************************)
(* An activation either submits nothing and stays in its pulse, or submits *)
(* the aggregate of its pulse and goes on to the next.                     *)
(***************************************************************************)
LEMMA multi_funcInv ==
  ASSUME NEW m \in multi_stone_t, NEW e \in metrics_t, MultiInv(m), Sound(e),
         m.max_degree = -1 => e.timestamp = 0
  PROVE  LET r == multi_func(m, e)
             s == Submitted(m, e)
         IN  /\ MultiInv(r)
             /\ r.max_degree # -1
             /\ \/ s = <<>> /\ r.pulse_timestamp = m.pulse_timestamp
                \/ /\ r.pulse_timestamp = m.pulse_timestamp + 1
                   /\ \E a \in metrics_t : /\ s = <<a>>
                                           /\ a.timestamp = m.pulse_timestamp
                                           /\ Sound(a)
<1> DEFINE r == Activate(m, e)
<1>1. r \in multi_stone_t  BY ActivateType
<1>2. /\ MultiInv(r) /\ r.max_degree # -1
      /\ r.pulse_timestamp = m.pulse_timestamp
      /\ Completed(r) => r.first_found_index # NotFound
  BY ActivateInv
<1>3. CASE ~Completed(r)
  BY <1>2, <1>3 DEF multi_func, Submitted
<1>4. CASE Completed(r)
  <2>1. multi_func(m, e) = NextPulse(r)  BY <1>4 DEF multi_func
  <2>2. Submitted(m, e) = <<r.aggregated_event>>  BY <1>4 DEF Submitted
  <2>3. r.aggregated_event \in metrics_t  BY <1>1 DEF multi_stone_t
  <2>4. /\ r.aggregated_event.timestamp = m.pulse_timestamp
        /\ Sound(r.aggregated_event)
    BY <1>2, <1>4 DEF MultiInv
  <2>5. /\ MultiInv(NextPulse(r)) /\ NextPulse(r).max_degree # -1
        /\ NextPulse(r).pulse_timestamp = m.pulse_timestamp + 1
    BY <1>1, <1>2, NextPulseInv
  <2> HIDE DEF r
  <2> QED BY <2>1, <2>2, <2>3, <2>4, <2>5
<1> QED BY <1>3, <1>4
-----------------------------------------------------------------------------
(***************************************************************************)
(* Links.                                                                  *)
(***************************************************************************)
\* Sending the next event keeps the timestamps consecutive.
LEMMA ConsecutiveAppend ==
  ASSUME NEW q \in Seq(metrics_t), NEW e \in metrics_t, NEW first \in Int,
         Consecutive(q, first), e.timestamp = first + Len(q), Sound(e)
  PROVE  Consecutive(Append(q, e), first)
<1>1. Len(q) \in Nat  BY LenProperties
<1>2. /\ Len(Append(q, e)) = Len(q) + 1
      /\ \A i \in 1 .. Len(q) : Append(q, e)[i] = q[i]
      /\ Append(q, e)[Len(q) + 1] = e
  BY AppendProperties
<1> DEFINE p == Append(q, e)
<1> HIDE DEF p
<1> SUFFICES ASSUME NEW i \in 1 .. Len(p)
             PROVE  p[i].timestamp = first + i - 1 /\ Sound(p[i])
  BY DEF Consecutive, p
<1>3. CASE i \in 1 .. Len(q)  BY <1>2, <1>3 DEF Consecutive, p
<1>4. CASE i = Len(q) + 1
  <2>1. p[i] = e  BY <1>2, <1>4 DEF p
  <2> QED BY <1>1, <1>4, <2>1
<1> QED BY <1>1, <1>2, <1>3, <1>4 DEF p

\* Taking the first event off a link.
LEMMA ConsecutiveTail ==
  ASSUME NEW q \in Seq(metrics_t), q # <<>>, NEW first \in Int,
         Consecutive(q, first)
  PROVE  /\ Head(q) \in metrics_t
         /\ Head(q).timestamp = first /\ Sound(Head(q))
         /\ Tail(q) \in Seq(metrics_t) /\ Len(Tail(q)) = Len(q) - 1
         /\ Consecutive(Tail(q), first + 1)
<1>1. Len(q) \in Nat \ {0}  BY EmptySeq
<1>2. /\ Head(q) \in metrics_t /\ Tail(q) \in Seq(metrics_t)
      /\ Len(Tail(q)) = Len(q) - 1
      /\ \A i \in 1 .. Len(Tail(q)) : Tail(q)[i] = q[i + 1]
  BY HeadTailProperties
<1>3. Head(q) = q[1]  OBVIOUS
<1>4. Head(q).timestamp = first /\ Sound(Head(q))
  BY <1>1, <1>3 DEF Consecutive
<1>5. ASSUME NEW i \in 1 .. Len(Tail(q))
      PROVE  Tail(q)[i].timestamp = first + 1 + i - 1 /\ Sound(Tail(q)[i])
  <2>1. i + 1 \in 1 .. Len(q)  BY <1>1, <1>2
  <2>2. Tail(q)[i] = q[i + 1]  BY <1>2
  <2>3. q[i + 1].timestamp = first + (i + 1) - 1 /\ Sound(q[i + 1])
    BY <2>1 DEF Consecutive
  <2> QED BY <1>1, <2>2, <2>3
<1> QED BY <1>2, <1>4, <1>5 DEF Consecutive

\* The number of events a process has sent is a natural number.
LEMMA SentType ==
  ASSUME TypeOK, NEW c \in Rank
  PROVE  Sent(c) \in Nat /\ Len(link[c]) \in Nat /\ Arrived(c) \in Int
<1>1. Len(link[c]) \in Nat  BY LenProperties DEF TypeOK
<1>2. Sent(c) \in Nat
  <2>1. CASE c \in Leaf  BY <2>1 DEF Sent, TypeOK
  <2>2. CASE c \notin Leaf
    <3>1. multi[c] \in multi_stone_t  BY <2>2 DEF TypeOK, NonLeaf
    <3> QED BY <2>2, <3>1 DEF Sent, multi_stone_t
  <2> QED BY <2>1, <2>2
<1> QED BY <1>1, <1>2 DEF Arrived

(***************************************************************************)
(* An activation of the multi_stone of n, by a child's event or by its     *)
(* own: what it adds to the link of n follows what is there.               *)
(***************************************************************************)
LEMMA Activation ==
  ASSUME PulseInv, NEW n \in NonLeaf, NEW e \in metrics_t, Sound(e),
         multi[n].max_degree = -1 => e.timestamp = 0
  PROVE  LET r == multi_func(multi[n], e)
             q == link[n] \o Submitted(multi[n], e)
         IN  /\ MultiInv(r) /\ r.max_degree # -1
             /\ Consecutive(q, Arrived(n))
             /\ r.pulse_timestamp - Len(q) = Arrived(n)
<1> DEFINE r == multi_func(multi[n], e)
           s == Submitted(multi[n], e)
<1>1. /\ n \in Rank /\ n \notin Leaf /\ multi[n] \in multi_stone_t
      /\ link[n] \in Seq(metrics_t)
  BY LeafRank DEF PulseInv, TypeOK, NonLeaf
<1>2. MultiInv(multi[n]) /\ Consecutive(link[n], Arrived(n))
  BY <1>1 DEF PulseInv, ProcessInv, StoneInv, LinkInv
<1>3. /\ Len(link[n]) \in Nat /\ multi[n].pulse_timestamp \in Nat
      /\ Arrived(n) \in Int
      /\ Arrived(n) = multi[n].pulse_timestamp - Len(link[n])
  BY <1>1, SentType DEF PulseInv, Arrived, Sent, multi_stone_t
<1>4. /\ MultiInv(r) /\ r.max_degree # -1
      /\ \/ s = <<>> /\ r.pulse_timestamp = multi[n].pulse_timestamp
         \/ /\ r.pulse_timestamp = multi[n].pulse_timestamp + 1
            /\ \E a \in metrics_t : /\ s = <<a>>
                                    /\ a.timestamp = multi[n].pulse_timestamp
                                    /\ Sound(a)
  BY <1>1, <1>2, multi_funcInv
<1> HIDE DEF r, s
<1>5. CASE s = <<>> /\ r.pulse_timestamp = multi[n].pulse_timestamp
  <2>1. link[n] \o s = link[n]  BY <1>1, <1>5, ConcatEmptySeq
  <2> QED BY <1>2, <1>3, <1>4, <1>5, <2>1 DEF r, s
<1>6. ASSUME NEW a \in metrics_t, s = <<a>>,
             a.timestamp = multi[n].pulse_timestamp, Sound(a),
             r.pulse_timestamp = multi[n].pulse_timestamp + 1
      PROVE  /\ Consecutive(link[n] \o s, Arrived(n))
             /\ r.pulse_timestamp - Len(link[n] \o s) = Arrived(n)
  <2>1. link[n] \o s = Append(link[n], a)  BY <1>1, <1>6, AppendIsConcat
  <2>2. Len(Append(link[n], a)) = Len(link[n]) + 1
    BY <1>1, AppendProperties
  <2>3. a.timestamp = Arrived(n) + Len(link[n])  BY <1>3, <1>6
  <2>4. Consecutive(Append(link[n], a), Arrived(n))
    BY <1>1, <1>2, <1>3, <1>6, <2>3, ConsecutiveAppend
  <2>5. r.pulse_timestamp - Len(link[n] \o s) = Arrived(n)
    BY <1>3, <1>6, <2>1, <2>2, SMTT(20)
  <2> QED BY <2>1, <2>4, <2>5
<1> QED BY <1>4, <1>5, <1>6 DEF r, s

(***************************************************************************)
(* What a step leaves alone.                                               *)
(***************************************************************************)
\* The children of a process are ranks.
LEMMA ChildRank ==
  ASSUME NEW n \in NonLeaf, NEW c \in children(n)
  PROVE  c \in Rank /\ c # ROOT /\ get_parent(c) = n
BY LeafRank, ChildrenHaveParent

\* A process that the step does not touch, nor the arrivals from its
\* children.
LEMMA Untouched ==
  ASSUME NEW n \in NonLeaf, ProcessInv(n),
         multi'[n] = multi[n], stage'[n] = stage[n], inbox'[n] = inbox[n],
         hash_ts'[n] = hash_ts[n], counter'[n] = counter[n],
         first_pulse'[n] = first_pulse[n], data'[n] = data[n],
         \A c \in children(n) : Arrived(c)' = Arrived(c)
  PROVE  ProcessInv(n)'
<1>1. StoneInv(n)'  BY DEF ProcessInv, StoneInv, MultiInv, Sound, HasRoom
<1>2. OwnInv(n)'  BY DEF ProcessInv, OwnInv, Sound, HasRoom
<1>3. \A t \in Nat : Past(n, t)' = Past(n, t)  BY DEF Past
<1>4. Hash(n)' = Hash(n)  BY DEF Hash, Counted, Bump
<1>5. submissions(n)' = submissions(n)  BY DEF submissions
<1>6. HashInv(n)'  BY <1>3, <1>4, <1>5 DEF ProcessInv, HashInv, CountOf
<1> QED BY <1>1, <1>2, <1>6 DEF ProcessInv

\* A link that the step does not touch.
LEMMA SameLink ==
  ASSUME NEW c \in Rank, LinkInv(c), link'[c] = link[c], Sent(c)' = Sent(c)
  PROVE  LinkInv(c)' /\ Arrived(c)' = Arrived(c)
BY DEF LinkInv, Arrived, Consecutive, Sound, HasRoom

\* Steps that change nothing of all this.
LEMMA UnchangedInv ==
  ASSUME PulseInv, TypeOK',
         UNCHANGED <<counter, link, multi, stage, inbox, ownVars, pulse>>,
         \A l \in Leaf : running'[l] => running[l]
  PROVE  PulseInv' /\ \A c \in Rank : Arrived(c)' = Arrived(c)
<1>1. ASSUME NEW c \in Rank PROVE LinkInv(c)' /\ Arrived(c)' = Arrived(c)
  <2>1. Sent(c)' = Sent(c) /\ link'[c] = link[c]  BY DEF Sent
  <2> QED BY <2>1, SameLink DEF PulseInv
<1>2. pulse' = Arrived(ROOT)'  BY <1>1, RankType DEF PulseInv
<1>3. ASSUME NEW n \in NonLeaf PROVE ProcessInv(n)'
  BY <1>1, ChildRank, Untouched DEF PulseInv, ownVars
<1>4. ASSUME NEW l \in Leaf PROVE LeafInv(l)'  BY DEF PulseInv, LeafInv
<1> QED BY <1>1, <1>2, <1>3, <1>4 DEF PulseInv
-----------------------------------------------------------------------------
(***************************************************************************)
(* The counts of compute_own_metrics.                                      *)
(***************************************************************************)
\* Counting an event adds one at its timestamp.
LEMMA BumpCount ==
  ASSUME NEW h, \A t \in DOMAIN h : h[t] \in Nat, NEW ts \in Nat, NEW t \in Nat
  PROVE  CountOf(Bump(h, ts), t) = CountOf(h, t) + (IF t = ts THEN 1 ELSE 0)
<1>1. DOMAIN Bump(h, ts) = DOMAIN h \cup {ts}  BY DEF Bump
<1>2. t \in DOMAIN h \cup {ts} =>
        Bump(h, ts)[t] = IF t # ts THEN h[t]
                         ELSE IF t \in DOMAIN h THEN h[t] + 1 ELSE 1
  BY DEF Bump
<1> QED BY <1>1, <1>2 DEF CountOf

\* Deleting an entry leaves the other counts.
LEMMA ForgetCount ==
  ASSUME NEW h, NEW ts \in Nat, NEW t \in Nat, t # ts
  PROVE  CountOf(Forget(h, ts), t) = CountOf(h, t)
BY DEF CountOf, Forget

\* When the count reaches the degree, every child's event has arrived.
LEMMA AllPast ==
  ASSUME PulseInv, NEW n \in NonLeaf, stage[n] = "terminal",
         CountOf(Counted(n), counter[n]) = get_degree_node(n),
         NEW c \in children(n)
  PROVE  Arrived(c) > counter[n]
<1>1. n \in Rank /\ counter[n] \in Nat
  BY LeafRank DEF PulseInv, TypeOK
<1>2. Hash(n) = Counted(n)  BY DEF Hash
<1>3. Cardinality(Past(n, counter[n])) = get_degree_node(n)
  <2>1. submissions(n) = counter[n]  BY DEF submissions
  <2> QED BY <1>1, <1>2, <2>1 DEF PulseInv, ProcessInv, HashInv
<1>4. Past(n, counter[n]) \in SUBSET children(n)  BY DEF Past
<1>5. children(n) = Past(n, counter[n])
  BY <1>1, <1>3, <1>4, ChildrenCount, FS_Subset
<1> QED BY <1>5 DEF Past

\* The pulse a process waits for is one it has been asked for.
LEMMA CounterInRange ==
  ASSUME PulseInv, NEW n \in NonLeaf, stage[n] = "terminal", BENCHMARKING
  PROVE  counter[n] < max_timestamps
<1>1. counter[n] \in Nat /\ inbox[n].timestamp \in Nat
  BY LeafRank DEF PulseInv, TypeOK, metrics_t
<1>2. /\ inbox[n].timestamp >= counter[n]
      /\ inbox[n].timestamp < max_timestamps
  BY DEF PulseInv, ProcessInv, HashInv
<1> QED BY <1>1, <1>2, AggregationAssumption

\* The own event that compute_own_metrics submits.
LEMMA OwnEventInv ==
  ASSUME PulseInv, NEW n \in NonLeaf, stage[n] = "terminal"
  PROVE  LET own == OwnEvent(n, inbox[n])
         IN  /\ own \in metrics_t /\ Sound(own)
             /\ BENCHMARKING => own.timestamp = counter[n]
<1> DEFINE event == inbox[n]
<1>1. TypeOK /\ n \in Rank /\ n \in Int /\ event \in metrics_t
  <2>1. TypeOK  BY DEF PulseInv
  <2>2. event \in metrics_t  BY <2>1 DEF TypeOK
  <2> QED BY <2>1, <2>2, LeafRank, RankType
<1>2. OwnEvent(n, event) \in metrics_t  BY <1>1, OwnEventType
<1>3. HasRoom(get_parent(n))
  BY <1>1, RoomOfParent DEF PulseInv, ProcessInv, OwnInv
<1>4. BENCHMARKING => counter[n] < max_timestamps  BY CounterInRange
<1>5. CASE Recomputes(n, event)
  <2>1. OwnEvent(n, event) = get_metrics_values(n, event, counter[n])
    BY <1>5 DEF OwnEvent
  <2>2. /\ OwnEvent(n, event).timestamp = counter[n]
        /\ OwnEvent(n, event).parent_rank = get_parent(n)
    BY <2>1 DEF get_metrics_values
  <2> QED BY <1>2, <1>3, <1>4, <2>2 DEF Sound
<1>6. CASE ~Recomputes(n, event)
  <2>1. OwnEvent(n, event) = data[n] /\ ~first_pulse[n]
    BY <1>6 DEF OwnEvent, Recomputes
  <2>2. OwnInv(n)  BY DEF PulseInv, ProcessInv
  <2>3. Sound(data[n])  BY <2>1, <2>2 DEF OwnInv
  <2>4. BENCHMARKING => data[n].timestamp = counter[n]
    BY <1>4, <2>1, <2>2 DEF OwnInv
  <2> QED BY <1>2, <2>1, <2>3, <2>4
<1> QED BY <1>5, <1>6
-----------------------------------------------------------------------------
(***************************************************************************)
(* The initial states and every action.                                    *)
(***************************************************************************)
\* Nothing has been sent.
LEMMA InitPulseInv == Init => PulseInv
<1> SUFFICES ASSUME Init PROVE PulseInv  OBVIOUS
<1>1. TypeOK  BY InitTypeOK
<1>2. ASSUME NEW c \in Rank PROVE Arrived(c) = 0 /\ LinkInv(c)
  <2>1. link[c] = <<>> /\ Len(link[c]) = 0  BY <1>2 DEF Init
  <2>2. Sent(c) = 0
    <3>1. CASE c \in Leaf  BY <3>1 DEF Init, Sent
    <3>2. CASE c \notin Leaf
      <4>1. multi[c] = InitialMulti  BY <3>2 DEF Init, NonLeaf
      <4> QED BY <3>2, <4>1 DEF Sent, InitialMulti
    <3> QED BY <3>1, <3>2
  <2>3. Arrived(c) = Sent(c) - Len(link[c])  BY DEF Arrived
  <2>4. Arrived(c) = 0  BY <2>1, <2>2, <2>3
  <2> QED BY <2>1, <2>4 DEF LinkInv, Consecutive
<1>3. pulse = Arrived(ROOT)  BY <1>2, RankType DEF Init
<1>4. ASSUME NEW l \in Leaf PROVE LeafInv(l)
  BY LeafRank, AggregationAssumption DEF Init, LeafInv
<1>5. ASSUME NEW n \in NonLeaf PROVE ProcessInv(n)
  <2>1. \A c \in children(n) : Arrived(c) = 0  BY <1>2, ChildRank
  <2>2. n \in Rank /\ counter[n] = 0 /\ stage[n] = "idle" /\ first_pulse[n]
    BY LeafRank DEF Init
  <2>3. StoneInv(n)
    <3>1. multi[n] = InitialMulti  BY DEF Init
    <3>2. MultiInv(InitialMulti)  BY DEF MultiInv, InitialMulti
    <3> QED BY <2>1, <2>2, <3>1, <3>2 DEF StoneInv
  <2>4. OwnInv(n)
    <3>1. stage[n] # "submitted"  BY <2>2
    <3> QED BY <2>2, <3>1 DEF OwnInv
  <2>5. HashInv(n)
    <3>1. Hash(n) = <<>>  BY <2>2 DEF Init, Hash
    <3>2. \A t \in Nat : CountOf(Hash(n), t) = 0
      BY <3>1 DEF CountOf
    <3>3. \A t \in Nat : Past(n, t) = {}  BY <2>1 DEF Past
    <3>4. submissions(n) = 0  BY <2>2 DEF submissions
    <3> QED BY <2>1, <2>2, <3>2, <3>3, <3>4, FS_EmptySet DEF HashInv
  <2> QED BY <2>3, <2>4, <2>5 DEF ProcessInv
<1> QED BY <1>1, <1>2, <1>3, <1>4, <1>5 DEF PulseInv

\* A leaf's event is the next one on its link.
LEMMA start_communicationInv ==
  ASSUME PulseInv, TypeOK', NEW l \in Leaf, start_communication(l)
  PROVE  PulseInv' /\ \A c \in Rank : Arrived(c)' = Arrived(c)
<1> DEFINE e == [timestamp   |-> counter[l],
                 quit        |-> QuitNow(l),
                 update_file |-> needs_sync(file, total_metrics[l]),
                 parent_rank |-> get_parent(l),
                 metrics_nr  |-> file,
                 gather_info |-> OwnInfo(l, counter[l], file)]
<1>1. /\ TypeOK /\ l \in Rank /\ l # ROOT /\ counter[l] \in Nat
      /\ link[l] \in Seq(metrics_t) /\ Len(link[l]) \in Nat
  BY LeafRank, LeafIsNotRoot, LenProperties DEF PulseInv, TypeOK
<1>2. e \in metrics_t  BY <1>1, LeafEventType, QuitNowType
<1>3. e.timestamp = counter[l] /\ e.parent_rank = get_parent(l)  OBVIOUS
<1>4. Sound(e)
  BY <1>1, <1>3, RoomOfChild DEF Sound, PulseInv, LeafInv, start_communication
<1>5. /\ link' = [link EXCEPT ![l] = Append(link[l], e)]
      /\ counter' = [counter EXCEPT ![l] = counter[l] + 1]
      /\ running' = [running EXCEPT ![l] = ~QuitNow(l)]
      /\ UNCHANGED <<multi, stage, inbox, ownVars, pulse>>
  BY DEF start_communication, SendEvent, rootVars
<1> HIDE DEF e
<1>6. \A n \in NonLeaf : n # l  BY DEF NonLeaf
<1>7. ASSUME NEW c \in Rank PROVE LinkInv(c)' /\ Arrived(c)' = Arrived(c)
  <2>1. CASE c = l
    <3>1. link'[l] = Append(link[l], e)  BY <1>1, <1>5 DEF TypeOK
    <3>2. Len(link'[l]) = Len(link[l]) + 1
      BY <1>1, <1>2, <3>1, AppendProperties
    <3>3. counter'[l] = counter[l] + 1  BY <1>1, <1>5 DEF TypeOK
    <3>4. Arrived(l) = counter[l] - Len(link[l])  BY DEF Arrived, Sent
    <3>5. Arrived(l)' = Arrived(l)
      BY <1>1, <3>2, <3>3, <3>4 DEF Arrived, Sent
    <3>6. Arrived(l) >= 0 /\ Consecutive(link[l], Arrived(l))
      BY <1>1 DEF PulseInv, LinkInv
    <3>7. Consecutive(link'[l], Arrived(l))
      BY <1>1, <1>2, <1>3, <1>4, <3>1, <3>4, <3>6, ConsecutiveAppend
    <3>8. LinkInv(l)'
      BY <3>5, <3>6, <3>7 DEF LinkInv, Consecutive, Sound, HasRoom
    <3> QED BY <2>1, <3>5, <3>8
  <2>2. CASE c # l
    <3>1. link'[c] = link[c] /\ Sent(c)' = Sent(c)
      BY <1>5, <2>2 DEF PulseInv, TypeOK, Sent
    <3> QED BY <3>1, SameLink DEF PulseInv
  <2> QED BY <2>1, <2>2
<1>8. pulse' = Arrived(ROOT)'  BY <1>5, <1>7, RankType DEF PulseInv
<1>9. ASSUME NEW k \in Leaf PROVE LeafInv(k)'
  <2>1. CASE k = l
    <3>1. BENCHMARKING /\ running'[l] => counter[l] # max_timestamps - 1
      BY <1>5 DEF PulseInv, TypeOK, QuitNow, LastPulse
    <3>2. counter'[l] = counter[l] + 1  BY <1>1, <1>5 DEF TypeOK
    <3>3. BENCHMARKING => counter[l] < max_timestamps
      BY DEF PulseInv, LeafInv, start_communication
    <3> QED BY <1>1, <2>1, <3>1, <3>2, <3>3, AggregationAssumption DEF LeafInv
  <2>2. CASE k # l
    <3>1. counter'[k] = counter[k] /\ running'[k] = running[k]
      BY <1>5, <2>2, LeafRank DEF PulseInv, TypeOK
    <3> QED BY <3>1 DEF PulseInv, LeafInv
  <2> QED BY <2>1, <2>2
<1>10. ASSUME NEW n \in NonLeaf PROVE ProcessInv(n)'
  <2>1. counter'[n] = counter[n]
    BY <1>5, <1>6, LeafRank DEF PulseInv, TypeOK
  <2> QED BY <1>5, <1>7, <2>1, ChildRank, Untouched DEF PulseInv, ownVars
<1> QED BY <1>7, <1>8, <1>9, <1>10 DEF PulseInv

\* A child's event at its parent: the next one of that child, and no pulse
\* behind counter.
LEMMA ArriveInv ==
  ASSUME PulseInv, TypeOK', NEW c \in Rank, Arrive(c)
  PROVE  /\ PulseInv'
         /\ \A x \in Rank :
              Arrived(x)' = Arrived(x) + (IF x = c THEN 1 ELSE 0)
<1> DEFINE n == get_parent(c)
           e == Head(link[c])
           r == multi_func(multi[n], e)
           q == link[n] \o Submitted(multi[n], e)
<1>1. /\ TypeOK /\ c # ROOT /\ n \in NonLeaf /\ n \in Rank /\ n # c
      /\ HasRoom(n) /\ n \notin Leaf
  BY ParentIsNotLeaf, ParentIsBelow, RoomOfChild, RankType
     DEF Arrive, NonLeaf, PulseInv
<1>2. /\ link[c] \in Seq(metrics_t) /\ link[c] # <<>>
      /\ Len(link[c]) \in Nat /\ Arrived(c) \in Int /\ Arrived(c) >= 0
      /\ Consecutive(link[c], Arrived(c))
  BY <1>1, SentType DEF PulseInv, TypeOK, Arrive, LinkInv
<1>3. /\ e \in metrics_t /\ e.timestamp = Arrived(c) /\ Sound(e)
      /\ Len(Tail(link[c])) = Len(link[c]) - 1
      /\ Consecutive(Tail(link[c]), Arrived(c) + 1)
  BY <1>2, ConsecutiveTail
<1>4. c \in children(n)  BY <1>1, ChildrenHaveParent
<1>5. stage[n] = "idle" /\ ProcessInv(n)  BY <1>1 DEF Arrive, PulseInv
<1>6. multi[n].max_degree = -1 => e.timestamp = 0
  BY <1>3, <1>4, <1>5 DEF ProcessInv, StoneInv
<1>7. /\ MultiInv(r) /\ r.max_degree # -1
      /\ Consecutive(q, Arrived(n))
      /\ r.pulse_timestamp - Len(q) = Arrived(n)
  BY <1>1, <1>3, <1>6, Activation
<1>8. /\ link' = [link EXCEPT ![c] = Tail(link[c]), ![n] = q]
      /\ multi' = [multi EXCEPT ![n] = r]
      /\ inbox' = [inbox EXCEPT ![n] = e]
      /\ stage' = [stage EXCEPT ![n] = "terminal"]
      /\ UNCHANGED <<running, counter, hash_ts, first_pulse, data, pulse>>
  BY <1>1, Zenon DEF Arrive, TypeOK, leafVars, ownVars, rootVars
<1> HIDE DEF n, e, r, q
<1>9. /\ link'[c] = Tail(link[c]) /\ link'[n] = q /\ multi'[n] = r
      /\ inbox'[n] = e /\ stage'[n] = "terminal"
  BY <1>1, <1>8 DEF TypeOK
<1>10. ASSUME NEW x \in Rank
       PROVE  /\ LinkInv(x)'
              /\ Arrived(x)' = Arrived(x) + (IF x = c THEN 1 ELSE 0)
  <2>1. CASE x = c
    <3>1. Sent(c)' = Sent(c)
      <4>1. CASE c \in Leaf  BY <1>8, <4>1 DEF Sent
      <4>2. CASE c \notin Leaf
        <5>1. multi'[c] = multi[c]
          BY <1>1, <1>8, <4>2 DEF TypeOK, NonLeaf
        <5> QED BY <4>2, <5>1 DEF Sent
      <4> QED BY <4>1, <4>2
    <3>2. Sent(c) \in Nat  BY <1>1, SentType
    <3>3. Arrived(c)' = Sent(c) - (Len(link[c]) - 1)
      BY <1>3, <1>9, <3>1 DEF Arrived
    <3>4. Arrived(c)' = Arrived(c) + 1
      BY <1>2, <3>2, <3>3 DEF Arrived
    <3>5. LinkInv(c)'
      BY <1>2, <1>3, <1>9, <3>4 DEF LinkInv, Consecutive, Sound, HasRoom
    <3> QED BY <2>1, <3>4, <3>5
  <2>2. CASE x = n
    <3>1. Arrived(n)' = Arrived(n)
      BY <1>1, <1>7, <1>9 DEF Arrived, Sent
    <3>2. LinkInv(n)'
      BY <1>1, <1>7, <1>9, <3>1
         DEF PulseInv, LinkInv, Consecutive, Sound, HasRoom
    <3>3. Arrived(n) \in Int  BY <1>1, SentType
    <3> QED BY <1>1, <2>2, <3>1, <3>2, <3>3
  <2>3. CASE x # c /\ x # n
    <3>1. link'[x] = link[x]  BY <1>1, <1>8, <2>3 DEF TypeOK
    <3>2. Sent(x)' = Sent(x)  BY <1>1, <1>8, <2>3 DEF TypeOK, Sent, NonLeaf
    <3>3. Arrived(x) \in Int  BY <1>1, SentType
    <3> QED BY <2>3, <3>1, <3>2, <3>3, SameLink DEF PulseInv
  <2> QED BY <2>1, <2>2, <2>3
<1>11. pulse' = Arrived(ROOT)'
  <2>1. Arrived(ROOT) \in Int  BY <1>1, RankType, SentType
  <2> QED BY <1>1, <1>8, <1>10, <2>1, RankType DEF PulseInv
<1>12. ASSUME NEW l \in Leaf PROVE LeafInv(l)'
  BY <1>8 DEF PulseInv, LeafInv
<1>13. ProcessInv(n)'
  <2>1. StoneInv(n)'
    BY <1>7, <1>9 DEF StoneInv, MultiInv, Sound, HasRoom
  <2>2. OwnInv(n)'
    BY <1>1, <1>5, <1>8, <1>9 DEF ProcessInv, OwnInv, Sound, HasRoom
  <2>3. /\ counter[n] \in Nat /\ counter'[n] = counter[n]
        /\ submissions(n) = counter[n] /\ submissions(n)' = counter[n]
        /\ \A x \in children(n) : Arrived(x) >= counter[n]
    BY <1>1, <1>5, <1>8, <1>9 DEF TypeOK, ProcessInv, HashInv, submissions
  <2>4. \A x \in children(n) : x \in Rank /\ Arrived(x) \in Int
    BY <1>1, ChildRank, SentType
  <2>5. ASSUME NEW t \in Nat, t >= counter[n]
        PROVE  CountOf(Hash(n), t)' = Cardinality(Past(n, t)')
    <3>1. CountOf(Hash(n), t) = Cardinality(Past(n, t))
      BY <1>5, <2>3, <2>5 DEF ProcessInv, HashInv
    <3>2. Hash(n) = hash_ts[n]  BY <1>5 DEF Hash
    <3>3. Hash(n)' = Bump(hash_ts[n], Arrived(c))
      BY <1>3, <1>8, <1>9 DEF Hash, Counted, Bump
    <3>4. \A u \in DOMAIN hash_ts[n] : hash_ts[n][u] \in Nat
      BY <1>1 DEF TypeOK
    <3>5. Arrived(c) \in Nat  BY <1>2
    <3>6. CountOf(Hash(n)', t) =
            Cardinality(Past(n, t)) + (IF t = Arrived(c) THEN 1 ELSE 0)
      BY <3>1, <3>2, <3>3, <3>4, <3>5, BumpCount
    <3>7. Past(n, t)' = IF t = Arrived(c) THEN Past(n, t) \cup {c}
                                         ELSE Past(n, t)
      BY <1>4, <1>10, <2>4, <3>5 DEF Past
    <3>8. IsFiniteSet(Past(n, t)) /\ Cardinality(Past(n, t)) \in Nat
      BY <1>1, ChildrenCount, FS_Subset, FS_CardinalityType DEF Past
    <3>9. t = Arrived(c) => c \notin Past(n, t)  BY <3>5 DEF Past
    <3>10. Cardinality(Past(n, t)') =
             Cardinality(Past(n, t)) + (IF t = Arrived(c) THEN 1 ELSE 0)
      BY <3>7, <3>8, <3>9, FS_AddElement
    <3>11. CountOf(Hash(n), t)' = CountOf(Hash(n)', t)  BY DEF CountOf
    <3> QED BY <3>6, <3>10, <3>11
  <2>6. \A x \in children(n) : Arrived(x)' >= counter'[n]
    BY <1>10, <2>3, <2>4
  <2>7. /\ inbox'[n].timestamp >= counter'[n]
        /\ BENCHMARKING => inbox'[n].timestamp < max_timestamps
        /\ \E x \in children(n) : Arrived(x)' = inbox'[n].timestamp + 1
    BY <1>3, <1>4, <1>9, <1>10, <2>3 DEF Sound
  <2>8. HashInv(n)'  BY <2>3, <2>5, <2>6, <2>7 DEF HashInv
  <2> QED BY <2>1, <2>2, <2>8 DEF ProcessInv
<1>14. ASSUME NEW k \in NonLeaf, k # n PROVE ProcessInv(k)'
  <2>1. \A x \in children(k) : x # c /\ x \in Rank
    BY <1>14, ChildRank DEF n
  <2>2. \A x \in children(k) : Arrived(x)' = Arrived(x)
    BY <1>1, <1>10, <2>1, SentType
  <2>3. /\ multi'[k] = multi[k] /\ stage'[k] = stage[k]
        /\ inbox'[k] = inbox[k]
    BY <1>1, <1>8, <1>14 DEF TypeOK
  <2> QED BY <1>8, <2>2, <2>3, Untouched DEF PulseInv
<1> QED BY <1>10, <1>11, <1>12, <1>13, <1>14 DEF PulseInv

\* Waiting for more events: the count of the last one is written back.
LEMMA WaitForOthersInv ==
  ASSUME PulseInv, TypeOK', NEW n \in NonLeaf, stage[n] = "terminal",
         WaitForOthers(n), hash_ts' = [hash_ts EXCEPT ![n] = Counted(n)],
         UNCHANGED <<fileVars, leafVars, counter, inbox, rootVars>>
  PROVE  PulseInv' /\ \A c \in Rank : Arrived(c)' = Arrived(c)
<1>1. /\ hash_ts' = [hash_ts EXCEPT ![n] = Counted(n)]
      /\ stage' = [stage EXCEPT ![n] = "idle"]
      /\ UNCHANGED <<counter, link, multi, first_pulse, data, inbox, running,
                     pulse>>
  BY DEF WaitForOthers, leafVars, rootVars
<1>2. TypeOK  BY DEF PulseInv
<1>3. hash_ts'[n] = Counted(n) /\ stage'[n] = "idle"
  BY <1>1, <1>2 DEF TypeOK
<1>4. ASSUME NEW c \in Rank PROVE LinkInv(c)' /\ Arrived(c)' = Arrived(c)
  <2>1. Sent(c)' = Sent(c) /\ link'[c] = link[c]  BY <1>1 DEF Sent
  <2> QED BY <2>1, SameLink DEF PulseInv
<1>5. pulse' = Arrived(ROOT)'  BY <1>1, <1>4, RankType DEF PulseInv
<1>6. ASSUME NEW l \in Leaf PROVE LeafInv(l)'
  BY <1>1 DEF PulseInv, LeafInv
<1>7. ProcessInv(n)'
  <2>1. ProcessInv(n)  BY DEF PulseInv
  <2>2. \A c \in children(n) : Arrived(c)' = Arrived(c)
    BY <1>4, ChildRank
  <2>3. StoneInv(n)'
    BY <1>1, <1>3, <2>1, <2>2
       DEF ProcessInv, StoneInv, MultiInv, Sound, HasRoom
  <2>4. OwnInv(n)'
    BY <1>1, <1>3, <2>1 DEF ProcessInv, OwnInv, Sound, HasRoom
  <2>5. Hash(n)' = Hash(n)  BY <1>3 DEF Hash
  <2>6. \A t \in Nat : Past(n, t)' = Past(n, t)  BY <2>2 DEF Past
  <2>7. stage'[n] # "terminal"  BY <1>3
  <2>8. submissions(n)' = submissions(n)  BY <1>1, <1>3 DEF submissions
  <2>9. HashInv(n)'
    BY <1>1, <2>1, <2>2, <2>5, <2>6, <2>7, <2>8
       DEF ProcessInv, HashInv, CountOf
  <2> QED BY <2>3, <2>4, <2>9 DEF ProcessInv
<1>8. ASSUME NEW k \in NonLeaf, k # n PROVE ProcessInv(k)'
  <2>1. stage'[k] = stage[k] /\ hash_ts'[k] = hash_ts[k]
    BY <1>1, <1>2, <1>8 DEF TypeOK
  <2> QED BY <1>1, <1>4, <2>1, ChildRank, Untouched DEF PulseInv
<1> QED BY <1>4, <1>5, <1>6, <1>7, <1>8 DEF PulseInv

\* Submitting the own event: every child is past counter.
LEMMA SubmitOwnInv ==
  ASSUME PulseInv, TypeOK', NEW n \in NonLeaf, stage[n] = "terminal",
         SubmitOwn(n), hash_ts' = [hash_ts EXCEPT ![n] = Counted(n)],
         UNCHANGED <<fileVars, leafVars, counter, inbox, rootVars>>
  PROVE  PulseInv' /\ \A c \in Rank : Arrived(c)' = Arrived(c)
<1> DEFINE event == inbox[n]
           own   == OwnEvent(n, event)
           r     == multi_func(multi[n], own)
           q     == link[n] \o Submitted(multi[n], own)
<1>1. TypeOK /\ n \in Rank /\ n \notin Leaf /\ counter[n] \in Nat
  BY LeafRank DEF PulseInv, TypeOK, NonLeaf
<1>2. own \in metrics_t /\ Sound(own)
      /\ (BENCHMARKING => own.timestamp = counter[n])
  BY OwnEventInv
<1>3. ProcessInv(n)  BY DEF PulseInv
<1>4. multi[n].max_degree # -1  BY <1>3 DEF ProcessInv, StoneInv
<1>5. /\ MultiInv(r) /\ r.max_degree # -1
      /\ Consecutive(q, Arrived(n))
      /\ r.pulse_timestamp - Len(q) = Arrived(n)
  BY <1>2, <1>4, Activation
<1>6. /\ multi' = [multi EXCEPT ![n] = r]
      /\ link' = [link EXCEPT ![n] = q]
      /\ data' = [data EXCEPT ![n] = own]
      /\ first_pulse' = [first_pulse EXCEPT ![n] = FALSE]
      /\ stage' = [stage EXCEPT ![n] = "submitted"]
      /\ UNCHANGED <<running, counter, inbox, pulse>>
      /\ CountOf(Counted(n), counter[n]) = get_degree_node(n)
  BY DEF SubmitOwn, leafVars, rootVars
<1>7. \A c \in children(n) : Arrived(c) > counter[n]  BY <1>6, AllPast
<1> HIDE DEF event, own, r, q
<1>8. /\ multi'[n] = r /\ link'[n] = q /\ hash_ts'[n] = Counted(n)
      /\ data'[n] = own /\ stage'[n] = "submitted"
  BY <1>1, <1>6 DEF TypeOK
<1>9. /\ submissions(n) = counter[n]
      /\ submissions(n)' = counter[n] + 1
  BY <1>6, <1>8 DEF submissions
<1>10. ASSUME NEW c \in Rank PROVE LinkInv(c)' /\ Arrived(c)' = Arrived(c)
  <2>1. CASE c = n
    <3>1. Arrived(n)' = Arrived(n)
      BY <1>1, <1>5, <1>8 DEF Arrived, Sent
    <3>2. LinkInv(n)'
      BY <1>1, <1>5, <1>8, <3>1
         DEF PulseInv, LinkInv, Consecutive, Sound, HasRoom
    <3> QED BY <2>1, <3>1, <3>2
  <2>2. CASE c # n
    <3>1. link'[c] = link[c]  BY <1>1, <1>6, <2>2 DEF TypeOK
    <3>2. Sent(c)' = Sent(c)
      BY <1>1, <1>6, <2>2 DEF TypeOK, Sent, NonLeaf
    <3> QED BY <3>1, <3>2, SameLink DEF PulseInv
  <2> QED BY <2>1, <2>2
<1>11. pulse' = Arrived(ROOT)'  BY <1>6, <1>10, RankType DEF PulseInv
<1>12. ASSUME NEW l \in Leaf PROVE LeafInv(l)'
  BY <1>6 DEF PulseInv, LeafInv
<1>13. ProcessInv(n)'
  <2>1. \A c \in children(n) : Arrived(c)' = Arrived(c)
    BY <1>10, ChildRank
  <2>2. StoneInv(n)'
    BY <1>5, <1>8 DEF StoneInv, MultiInv, Sound, HasRoom
  <2>3. OwnInv(n)'
    <3>1. HasRoom(n)  BY <1>3 DEF ProcessInv, OwnInv
    <3>2. BENCHMARKING => counter[n] < max_timestamps
      BY CounterInRange
    <3>3. first_pulse'[n] = FALSE  BY <1>1, <1>6 DEF TypeOK
    <3>4. counter'[n] = counter[n]  BY <1>6
    <3> QED BY <1>2, <1>8, <3>1, <3>2, <3>3, <3>4 DEF OwnInv, Sound, HasRoom
  <2>4. ASSUME NEW c \in children(n) PROVE Arrived(c)' >= submissions(n)'
    <3>1. Arrived(c) \in Int  BY <1>1, ChildRank, SentType
    <3> QED BY <1>1, <1>7, <1>9, <2>1, <3>1
  <2>5. ASSUME NEW t \in Nat, t >= submissions(n)'
        PROVE  CountOf(Hash(n), t)' = Cardinality(Past(n, t)')
    <3>1. t >= submissions(n)  BY <1>1, <1>9, <2>5
    <3>2. CountOf(Hash(n), t) = Cardinality(Past(n, t))
      BY <1>3, <3>1 DEF ProcessInv, HashInv
    <3>3. Hash(n)' = Hash(n)  BY <1>8 DEF Hash
    <3>4. Past(n, t)' = Past(n, t)  BY <2>1 DEF Past
    <3>5. CountOf(Hash(n), t)' = CountOf(Hash(n)', t)  BY DEF CountOf
    <3> QED BY <3>2, <3>3, <3>4, <3>5
  <2>6. stage'[n] # "terminal"  BY <1>8
  <2>7. HashInv(n)'  BY <2>4, <2>5, <2>6 DEF HashInv
  <2> QED BY <2>2, <2>3, <2>7 DEF ProcessInv
<1>14. ASSUME NEW k \in NonLeaf, k # n PROVE ProcessInv(k)'
  <2>1. /\ multi'[k] = multi[k] /\ stage'[k] = stage[k]
        /\ hash_ts'[k] = hash_ts[k]
        /\ first_pulse'[k] = first_pulse[k] /\ data'[k] = data[k]
    BY <1>1, <1>6, <1>14 DEF TypeOK
  <2> QED BY <1>6, <1>10, <2>1, ChildRank, Untouched DEF PulseInv
<1> QED BY <1>10, <1>11, <1>12, <1>13, <1>14 DEF PulseInv

(***************************************************************************)
(* The rest of the handler: counter follows, the entry of its pulse goes,  *)
(* and what is prepared is the own event of the pulse that comes next.     *)
(***************************************************************************)
LEMMA FinishPulseInv ==
  ASSUME PulseInv, TypeOK', NEW n \in NonLeaf, FinishPulse(n)
  PROVE  PulseInv' /\ \A c \in Rank : Arrived(c)' = Arrived(c)
<1> DEFINE last == LastForNode(data[n], inbox[n])
           next == get_metrics_values(n, inbox[n], counter[n] + 1)
           d    == IF last THEN data[n] ELSE next
           h    == IF BENCHMARKING THEN hash_ts[n]
                   ELSE Forget(hash_ts[n], counter[n])
<1>1. /\ TypeOK /\ n \in Rank /\ n \notin Leaf /\ n \in Int
      /\ counter[n] \in Nat /\ stage[n] = "submitted" /\ ProcessInv(n)
  <2>1. TypeOK /\ ProcessInv(n)  BY DEF PulseInv
  <2>2. n \in Rank /\ n \notin Leaf /\ n \in Int
    BY LeafRank, RankType DEF NonLeaf
  <2>3. counter[n] \in Nat  BY <2>1, <2>2 DEF TypeOK
  <2> QED BY <2>1, <2>2, <2>3 DEF FinishPulse
<1>2. /\ data' = [data EXCEPT ![n] = d]
      /\ counter' = [counter EXCEPT ![n] = counter[n] + 1]
      /\ hash_ts' = [hash_ts EXCEPT ![n] = h]
      /\ stage' = [stage EXCEPT ![n] = "idle"]
      /\ UNCHANGED <<link, multi, first_pulse, inbox, running, pulse>>
  BY DEF FinishPulse, leafVars, rootVars
<1>3. next.timestamp = counter[n] + 1 /\ next.parent_rank = get_parent(n)
  BY DEF get_metrics_values
<1>4. BENCHMARKING => (last <=> data[n].timestamp = max_timestamps - 1)
  BY DEF LastForNode
<1> HIDE DEF last, next, h
<1>5. /\ data'[n] = d /\ stage'[n] = "idle" /\ hash_ts'[n] = h
      /\ counter'[n] = counter[n] + 1
  BY <1>1, <1>2 DEF TypeOK
<1>6. submissions(n) = counter[n] + 1 /\ submissions(n)' = counter[n] + 1
  BY <1>1, <1>5 DEF submissions
<1>7. ASSUME NEW c \in Rank PROVE LinkInv(c)' /\ Arrived(c)' = Arrived(c)
  <2>1. c \in Leaf => counter'[c] = counter[c]
    BY <1>1, <1>2, LeafRank DEF TypeOK
  <2>2. Sent(c)' = Sent(c) /\ link'[c] = link[c]  BY <1>2, <2>1 DEF Sent
  <2> QED BY <2>2, SameLink DEF PulseInv
<1>8. pulse' = Arrived(ROOT)'  BY <1>2, <1>7, RankType DEF PulseInv
<1>9. ASSUME NEW l \in Leaf PROVE LeafInv(l)'
  <2>1. counter'[l] = counter[l]  BY <1>1, <1>2, LeafRank DEF TypeOK
  <2> QED BY <1>2, <2>1 DEF PulseInv, LeafInv
<1>10. ProcessInv(n)'
  <2>1. \A c \in children(n) : Arrived(c)' = Arrived(c)
    BY <1>7, ChildRank
  <2>2. StoneInv(n)'
    BY <1>1, <1>2, <1>5, <2>1
       DEF ProcessInv, StoneInv, MultiInv, Sound, HasRoom
  <2>3. OwnInv(n)'
    <3>1. HasRoom(n) /\ ~first_pulse[n] /\ Sound(data[n])
      BY <1>1 DEF ProcessInv, OwnInv
    <3>2. HasRoom(get_parent(n))  BY <1>1, <3>1, RoomOfParent
    <3>3. BENCHMARKING => /\ counter[n] < max_timestamps
                          /\ data[n].timestamp = counter[n]
      BY <1>1 DEF ProcessInv, OwnInv
    <3>4. CASE last
      <4>1. BENCHMARKING => ~(counter[n] + 1 < max_timestamps)
        BY <1>1, <1>4, <3>3, <3>4, AggregationAssumption
      <4> QED BY <1>2, <1>5, <3>1, <3>4, <4>1 DEF OwnInv, Sound, HasRoom
    <3>5. CASE ~last
      <4>1. BENCHMARKING => counter[n] + 1 < max_timestamps
        BY <1>1, <1>4, <3>3, <3>5, AggregationAssumption
      <4>2. Sound(next)  BY <1>3, <3>2, <4>1 DEF Sound
      <4> QED BY <1>2, <1>3, <1>5, <3>1, <3>5, <4>2 DEF OwnInv, Sound, HasRoom
    <3> QED BY <3>4, <3>5
  <2>4. ASSUME NEW t \in Nat, t >= submissions(n)'
        PROVE  CountOf(Hash(n), t)' = Cardinality(Past(n, t)')
    <3>1. CountOf(hash_ts[n], t) = Cardinality(Past(n, t))
      BY <1>1, <1>6, <2>4 DEF ProcessInv, HashInv, Hash
    <3>2. CountOf(h, t) = CountOf(hash_ts[n], t)
      BY <1>1, <1>6, <2>4, ForgetCount DEF h
    <3>3. Hash(n)' = h  BY <1>5 DEF Hash
    <3>4. Past(n, t)' = Past(n, t)  BY <2>1 DEF Past
    <3>5. CountOf(Hash(n), t)' = CountOf(Hash(n)', t)  BY DEF CountOf
    <3> QED BY <3>1, <3>2, <3>3, <3>4, <3>5
  <2>5. \A c \in children(n) : Arrived(c)' >= submissions(n)'
    BY <1>1, <1>6, <2>1 DEF ProcessInv, HashInv
  <2>6. stage'[n] # "terminal"  BY <1>5
  <2>7. HashInv(n)'  BY <2>4, <2>5, <2>6 DEF HashInv
  <2> QED BY <2>2, <2>3, <2>7 DEF ProcessInv
<1>11. ASSUME NEW k \in NonLeaf, k # n PROVE ProcessInv(k)'
  <2>1. /\ stage'[k] = stage[k] /\ data'[k] = data[k]
        /\ hash_ts'[k] = hash_ts[k] /\ counter'[k] = counter[k]
    BY <1>1, <1>2, <1>11, LeafRank DEF TypeOK
  <2> QED BY <1>2, <1>7, <2>1, ChildRank, Untouched DEF PulseInv
<1> QED BY <1>7, <1>8, <1>9, <1>10, <1>11 DEF PulseInv

\* A result of the root is the one of its pulse.
LEMMA final_resultInv ==
  ASSUME PulseInv, TypeOK', final_result
  PROVE  /\ PulseInv' /\ Head(link[ROOT]).timestamp = pulse
         /\ \A c \in Rank : c # ROOT => Arrived(c)' = Arrived(c)
<1>1. /\ TypeOK /\ link[ROOT] \in Seq(metrics_t) /\ link[ROOT] # <<>>
      /\ Len(link[ROOT]) \in Nat /\ Sent(ROOT) \in Nat
      /\ Arrived(ROOT) \in Int /\ Arrived(ROOT) >= 0
      /\ Consecutive(link[ROOT], Arrived(ROOT))
  BY RankType, SentType DEF PulseInv, TypeOK, final_result, LinkInv
<1>2. /\ Head(link[ROOT]).timestamp = Arrived(ROOT)
      /\ Len(Tail(link[ROOT])) = Len(link[ROOT]) - 1
      /\ Consecutive(Tail(link[ROOT]), Arrived(ROOT) + 1)
  BY <1>1, ConsecutiveTail
<1>3. /\ link' = [link EXCEPT ![ROOT] = Tail(link[ROOT])]
      /\ pulse' = pulse + 1
      /\ UNCHANGED <<running, counter, multi, stage, inbox, ownVars>>
  BY DEF final_result, leafVars
<1>4. link'[ROOT] = Tail(link[ROOT])  BY <1>1, <1>3, RankType DEF TypeOK
<1>5. \A c \in Rank : Sent(c)' = Sent(c)  BY <1>3 DEF Sent
<1>6. Arrived(ROOT)' = Arrived(ROOT) + 1
  <2>1. Arrived(ROOT)' = Sent(ROOT) - (Len(link[ROOT]) - 1)
    BY <1>2, <1>4, <1>5, RankType DEF Arrived
  <2> QED BY <1>1, <2>1 DEF Arrived
<1>7. LinkInv(ROOT)'
  BY <1>1, <1>2, <1>4, <1>6 DEF LinkInv, Consecutive, Sound, HasRoom
<1>8. ASSUME NEW c \in Rank, c # ROOT
      PROVE  LinkInv(c)' /\ Arrived(c)' = Arrived(c)
  <2>1. link'[c] = link[c]  BY <1>1, <1>3, <1>8 DEF TypeOK
  <2> QED BY <1>5, <2>1, SameLink DEF PulseInv
<1>9. pulse' = Arrived(ROOT)'  BY <1>3, <1>6 DEF PulseInv
<1>10. ASSUME NEW l \in Leaf PROVE LeafInv(l)'
  BY <1>3 DEF PulseInv, LeafInv
<1>11. ASSUME NEW n \in NonLeaf PROVE ProcessInv(n)'
  BY <1>3, <1>8, ChildRank, Untouched DEF PulseInv, ownVars
<1> QED BY <1>2, <1>7, <1>8, <1>9, <1>10, <1>11 DEF PulseInv
-----------------------------------------------------------------------------
(***************************************************************************)
(* The theorems.                                                           *)
(***************************************************************************)
\* PulseInv is inductive.
LEMMA PulseInvKept == PulseInv /\ [Next]_vars => PulseInv'
<1> SUFFICES ASSUME PulseInv, [Next]_vars PROVE PulseInv'  OBVIOUS
<1>1. TypeOK'  BY TypeKept DEF PulseInv
<1>2. CASE EditFile
  BY <1>1, <1>2, UnchangedInv DEF EditFile, leafVars, rootVars
<1>3. ASSUME NEW l \in Leaf, monitoring_finalize_leaf(l) PROVE PulseInv'
  BY <1>1, <1>3, UnchangedInv DEF monitoring_finalize_leaf, rootVars
<1>4. ASSUME NEW l \in Leaf, start_communication(l) PROVE PulseInv'
  BY <1>1, <1>4, start_communicationInv
<1>5. ASSUME NEW n \in NonLeaf, NEW c \in children(n), Arrive(c)
      PROVE  PulseInv'
  BY <1>1, <1>5, ChildRank, ArriveInv
<1>6. ASSUME NEW n \in NonLeaf, compute_own_metrics(n) PROVE PulseInv'
  BY <1>1, <1>6, WaitForOthersInv, SubmitOwnInv DEF compute_own_metrics
<1>7. ASSUME NEW n \in NonLeaf, FinishPulse(n) PROVE PulseInv'
  BY <1>1, <1>7, FinishPulseInv
<1>8. CASE final_result  BY <1>1, <1>8, final_resultInv
<1>9. CASE UNCHANGED vars
  BY <1>1, <1>9, UnchangedInv DEF vars, ownVars
<1> QED BY <1>2, <1>3, <1>4, <1>5, <1>6, <1>7, <1>8, <1>9
        DEF Next, comm_thread

\* Some event of the pulse waited for is counted when the entry is read.
LEMMA LookupFound == PulseInv => LookupSucceeds
<1> SUFFICES ASSUME PulseInv, NEW n \in NonLeaf, stage[n] = "terminal"
             PROVE  ~LookupFails(n, Counted(n))
  BY DEF LookupSucceeds
<1>1. TypeOK /\ n \in Rank /\ counter[n] \in Nat
  BY LeafRank DEF PulseInv, TypeOK
<1>2. CASE BENCHMARKING
  <2>1. counter[n] < max_timestamps  BY <1>2, CounterInRange
  <2>2. inbox[n].timestamp \in Nat /\ inbox[n].timestamp < max_timestamps
    BY <1>1, <1>2 DEF TypeOK, metrics_t, PulseInv, ProcessInv, HashInv
  <2> QED BY <1>1, <1>2, <2>1, <2>2, AggregationAssumption DEF LookupFails
<1>3. CASE ~BENCHMARKING
  <2>1. HashInv(n) /\ Hash(n) = Counted(n)
    BY DEF PulseInv, ProcessInv, Hash
  <2>2. PICK c \in children(n) : Arrived(c) = inbox[n].timestamp + 1
    BY <2>1 DEF HashInv
  <2>3. inbox[n].timestamp \in Nat /\ inbox[n].timestamp >= counter[n]
    BY <1>1, <2>1 DEF TypeOK, metrics_t, HashInv
  <2>4. c \in Past(n, counter[n])  BY <1>1, <2>2, <2>3 DEF Past
  <2>5. IsFiniteSet(Past(n, counter[n]))
    BY <1>1, ChildrenCount, FS_Subset DEF Past
  <2>6. Cardinality(Past(n, counter[n])) # 0  BY <2>4, <2>5, FS_EmptySet
  <2>7. CountOf(Counted(n), counter[n]) # 0
    BY <1>1, <2>1, <2>6 DEF HashInv, submissions
  <2> QED BY <1>3, <2>7 DEF CountOf, LookupFails
<1> QED BY <1>2, <1>3

(***************************************************************************)
(* compute_own_metrics never misses the entry it waits for, and never      *)
(* indexes count_timestamps out of range.                                  *)
(***************************************************************************)
THEOREM LookupCorrect == Spec => []LookupSucceeds
BY LookupFound, InitPulseInv, PulseInvKept, PTL DEF Spec

(***************************************************************************)
(* final_result is called once per pulse and in order, for every degree.   *)
(***************************************************************************)
THEOREM PulsesInOrderCorrect == Spec => PulsesInOrder
<1>1. PulseInv /\ [Next]_vars =>
        [pulse' # pulse => Head(link[ROOT]).timestamp = pulse]_vars
  <2> SUFFICES ASSUME PulseInv, [Next]_vars, pulse' # pulse
               PROVE  Head(link[ROOT]).timestamp = pulse
    OBVIOUS
  <2>1. TypeOK'  BY TypeKept DEF PulseInv
  <2>2. final_result
    BY DEF Next, comm_thread, EditFile, monitoring_finalize_leaf,
           start_communication, SendEvent, Arrive, compute_own_metrics, FinishPulse,
           rootVars, vars
  <2> QED BY <2>1, <2>2, final_resultInv
<1> QED BY <1>1, InitPulseInv, PulseInvKept, PTL DEF Spec, PulsesInOrder
=============================================================================
