---------------------------- MODULE EventProofs ----------------------------
(***************************************************************************)
(* What travels in the events besides values: the quit flag, the number of *)
(* metrics and update_file.  Every step passes on what it has received, so *)
(* an invariant of them is a set that all events are in.                   *)
(*                                                                         *)
(* First the end of a run.  The root takes an event with quit, one without *)
(* metrics or, BENCHMARKING, one of the last pulse for the last there is.  *)
(* It is the last one if the aliases file always asks for a metric and all *)
(* leaves stop at the same pulse: they count the pulses, or there is only  *)
(* one of them.  Every event, wherever it is, then asks to quit exactly    *)
(* when it is of the last pulse of the leaves, and no event is of a later  *)
(* pulse than that.                                                        *)
(*                                                                         *)
(* Then the numbers of metrics in a chain, which the results have to fit.  *)
(***************************************************************************)
EXTENDS MergeProofs

\* When the end the root takes is the end.
Calm == /\ 0 \notin AliasNumbers
        /\ BENCHMARKING \/ \A l, k \in Leaf : l = k

\* Sets of events that say nothing of what the program changes in them.
Indifferent(S) ==
  /\ S \subseteq metrics_t
  /\ \A e \in S, r \in Int : [e EXCEPT !.parent_rank = r] \in S
  /\ \A e \in S, g \in Info : [e EXCEPT !.gather_info = g] \in S

\* All events in a multi_stone, the aggregate included, are in such a set.
StoneIn(m, S) ==
  /\ \A i \in 1 .. Len(m.queue) : m.queue[i] \in S
  /\ m.first_found_index # NotFound => m.aggregated_event \in S

\* The queue without one of them.
LEMMA QueueWithoutIn ==
  ASSUME NEW S, NEW q \in Seq(metrics_t), NEW i \in 1 .. Len(q),
         \A j \in 1 .. Len(q) : q[j] \in S
  PROVE  \A j \in 1 .. Len(RemoveAt(q, i)) : RemoveAt(q, i)[j] \in S
<1>1. Len(q) \in Nat  BY LenProperties
<1>2. /\ Len(RemoveAt(q, i)) = Len(q) - 1
      /\ \A j \in 1 .. Len(q) - 1 :
           RemoveAt(q, i)[j] = IF j < i THEN q[j] ELSE q[j + 1]
  BY <1>1, RemoveAtProperties
<1> SUFFICES ASSUME NEW j \in 1 .. Len(q) - 1
             PROVE  RemoveAt(q, i)[j] \in S
  BY <1>2
<1>3. j \in 1 .. Len(q) /\ j + 1 \in 1 .. Len(q)  BY <1>1
<1>4. q[j] \in S /\ q[j + 1] \in S  BY <1>3
<1> QED BY <1>2, <1>4

\* Opening replaces parent_rank, and gather_info when there is no metric.
LEMMA OpenAtIn ==
  ASSUME NEW S, Indifferent(S), NEW m \in multi_stone_t,
         NEW i \in 1 .. Len(m.queue),
         \A j \in 1 .. Len(m.queue) : m.queue[j] \in S
  PROVE  StoneIn(OpenAt(m, i), S)
<1> DEFINE a == m.queue[i]
           p == get_parent(a.parent_rank)
           g == IfMeasured(a, m, a.gather_info)
           b == [a EXCEPT !.parent_rank = p]
           e == [a EXCEPT !.parent_rank = p, !.gather_info = g]
           q == RemoveAt(m.queue, i)
           r == OpenAt(m, i)
<1>1. m.queue \in Seq(metrics_t) /\ Len(m.queue) \in Nat
  BY LenProperties DEF multi_stone_t
<1>2. a \in metrics_t /\ a \in S  BY <1>1, ElementOfSeq
<1>3. p \in Int  BY <1>2, ParentType DEF metrics_t
<1>4. r.aggregated_event = e /\ r.queue = q
  BY DEF OpenAt, multi_stone_t
<1>5. \A j \in 1 .. Len(q) : q[j] \in S  BY <1>1, QueueWithoutIn
<1>7. g \in Info
  <2>1. a.gather_info \in Info  BY <1>2 DEF metrics_t
  <2> QED BY <1>2, <2>1, IfMeasuredType
<1> HIDE DEF a, p, g, q, r
<1>6. e \in S
  <2>1. b \in S  BY <1>2, <1>3 DEF Indifferent
  <2>2. e = [b EXCEPT !.gather_info = g]  BY <1>2 DEF metrics_t
  <2> HIDE DEF b
  <2> QED BY <1>7, <2>1, <2>2 DEF Indifferent
<1> HIDE DEF e
<1> QED BY <1>4, <1>5, <1>6 DEF StoneIn, r

\* Merging replaces gather_info.
LEMMA MergeAtIn ==
  ASSUME NEW S, Indifferent(S), NEW m \in multi_stone_t, StoneIn(m, S),
         m.first_found_index # NotFound, NEW i \in 1 .. Len(m.queue)
  PROVE  StoneIn(MergeAt(m, i), S)
<1> DEFINE g == IfMeasured(m.queue[i], m,
                           Combine(m.aggregated_event.gather_info,
                                   m.queue[i].gather_info))
           q == RemoveAt(m.queue, i)
           r == MergeAt(m, i)
<1>1. m.queue \in Seq(metrics_t) /\ Len(m.queue) \in Nat
  BY LenProperties DEF multi_stone_t
<1>2. m.aggregated_event \in metrics_t /\ m.queue[i] \in metrics_t
  BY <1>1, ElementOfSeq DEF multi_stone_t
<1>3. g \in Info
  <2>1. /\ m.aggregated_event.gather_info \in Info
        /\ m.queue[i].gather_info \in Info
    BY <1>2 DEF metrics_t
  <2> QED BY <1>2, <2>1, CombineType, IfMeasuredType
<1>4. /\ r.aggregated_event = [m.aggregated_event EXCEPT !.gather_info = g]
      /\ r.queue = q
  BY DEF MergeAt, multi_stone_t
<1>5. \A j \in 1 .. Len(q) : q[j] \in S
  BY <1>1, QueueWithoutIn DEF StoneIn
<1>6. m.aggregated_event \in S  BY DEF StoneIn
<1> HIDE DEF g, q, r
<1>7. r.aggregated_event \in S  BY <1>3, <1>4, <1>6 DEF Indifferent
<1> QED BY <1>4, <1>5, <1>7 DEF StoneIn, r

\* The queue after opening, whether or not the event is there.
LEMMA OpenIn ==
  ASSUME NEW S, Indifferent(S), NEW m \in multi_stone_t,
         \A j \in 1 .. Len(m.queue) : m.queue[j] \in S,
         m.first_found_index = NotFound
  PROVE  StoneIn(Open(m), S)
<1>1. CASE Matches(m, 1) # {}
  BY <1>1, FirstMatch, OpenAtIn DEF Open
<1>2. CASE Matches(m, 1) = {}
  <2>1. Open(m) = OpenOnNothing(m)  BY <1>2 DEF Open
  <2>2. /\ OpenOnNothing(m).queue = m.queue
        /\ OpenOnNothing(m).first_found_index = m.first_found_index
    BY DEF OpenOnNothing, multi_stone_t
  <2> QED BY <2>1, <2>2 DEF StoneIn
<1> QED BY <1>1, <1>2

\* One run of the program by an event of the set: what it keeps and what it
\* submits is of the set.
LEMMA ConsumeIn ==
  ASSUME NEW S, Indifferent(S), NEW m \in multi_stone_t, StoneIn(m, S)
  PROVE  StoneIn(Consume(m), S)
<1>1. CASE m.first_found_index = NotFound
  BY <1>1, OpenIn DEF Consume, StoneIn
<1>2. CASE m.first_found_index # NotFound
  <2>1. m.first_found_index \in Nat \ {0}  BY <1>2 DEF multi_stone_t
  <2>2. Consume(m) = Merge(m)  BY <1>2 DEF Consume
  <2> QED BY <1>2, <2>1, <2>2, FirstMatch, MergeAtIn DEF Merge
<1> QED BY <1>1, <1>2

\* The rest of a run: ending a pulse and opening the next.
LEMMA CompletedIn ==
  ASSUME NEW S, Indifferent(S), NEW m \in multi_stone_t, NEW e \in metrics_t,
         StoneIn(Activate(m, e), S), MultiInv(m), Sound(e),
         m.max_degree = -1 => e.timestamp = 0
  PROVE  /\ StoneIn(multi_func(m, e), S)
         /\ \/ Submitted(m, e) = <<>>
            \/ \E a \in S : Submitted(m, e) = <<a>>
<1> DEFINE r == Activate(m, e)
<1>1. r \in multi_stone_t /\ (Completed(r) => r.first_found_index # NotFound)
  BY ActivateType, ActivateInv
<1>2. /\ multi_func(m, e) = IF Completed(r) THEN NextPulse(r) ELSE r
      /\ Submitted(m, e) = IF Completed(r) THEN <<r.aggregated_event>> ELSE <<>>
      /\ StoneIn(r, S)
  BY DEF multi_func, Submitted
<1> HIDE DEF r
<1>3. StoneIn(NextPulse(r), S)
  <2> DEFINE z == [r EXCEPT !.pulse_timestamp = r.pulse_timestamp + 1,
                            !.first_found_index = NotFound, !.count = 0]
  <2>1. r.pulse_timestamp + 1 \in Nat  BY <1>1 DEF multi_stone_t
  <2>2. z \in multi_stone_t  BY <1>1, <2>1, NextPulseFields
  <2>3. z.queue = r.queue /\ z.first_found_index = NotFound
    BY <1>1 DEF multi_stone_t
  <2>4. NextPulse(r) = IF Matches(z, 1) # {} THEN Open(z) ELSE z
    BY DEF NextPulse
  <2> HIDE DEF z
  <2>5. StoneIn(z, S)  BY <1>2, <2>3 DEF StoneIn
  <2> QED BY <2>2, <2>3, <2>4, <2>5, OpenIn DEF StoneIn
<1>4. Completed(r) => r.aggregated_event \in S  BY <1>1, <1>2 DEF StoneIn
<1> QED BY <1>2, <1>3, <1>4

\* The whole of it, when the event that comes in is of the set.
LEMMA multi_funcIn ==
  ASSUME NEW S, Indifferent(S), NEW m \in multi_stone_t, StoneIn(m, S),
         NEW e \in S, MultiInv(m), Sound(e),
         m.max_degree = -1 => e.timestamp = 0
  PROVE  /\ StoneIn(multi_func(m, e), S)
         /\ \/ Submitted(m, e) = <<>>
            \/ \E a \in S : Submitted(m, e) = <<a>>
<1> DEFINE q == Append(m.queue, e)
           k == [m EXCEPT !.queue = q]
<1>1. e \in metrics_t  BY DEF Indifferent
<1>2. m.queue \in Seq(metrics_t) /\ Len(m.queue) \in Nat
  BY LenProperties DEF multi_stone_t
<1>3. /\ q \in Seq(metrics_t) /\ Len(q) = Len(m.queue) + 1
      /\ \A j \in 1 .. Len(m.queue) : q[j] = m.queue[j]
      /\ q[Len(m.queue) + 1] = e
  BY <1>1, <1>2, AppendProperties
<1>4. \A j \in 1 .. Len(q) : q[j] \in S
  <2> SUFFICES ASSUME NEW j \in 1 .. Len(q) PROVE q[j] \in S  OBVIOUS
  <2>1. CASE j \in 1 .. Len(m.queue)  BY <1>3, <2>1 DEF StoneIn
  <2>2. CASE j = Len(m.queue) + 1  BY <1>3, <2>2
  <2> QED BY <1>2, <1>3, <2>1, <2>2
<1> HIDE DEF q
<1>5. /\ k \in multi_stone_t /\ k.queue = q
      /\ k.first_found_index = m.first_found_index
      /\ k.aggregated_event = m.aggregated_event
  BY <1>3 DEF multi_stone_t
<1>6. StoneIn(k, S)  BY <1>4, <1>5 DEF StoneIn
<1>7. Activate(m, e) = Consume(k)  BY DEF Activate, q
<1> HIDE DEF k
<1>8. StoneIn(Activate(m, e), S)  BY <1>5, <1>6, <1>7, ConsumeIn
<1> QED BY <1>1, <1>8, CompletedIn

\* The process's own event: when a child's event of the pulse is merged and
\* no other waits, it leaves only its gather_info behind.
LEMMA OwnMergedIn ==
  ASSUME NEW S, Indifferent(S), NEW n \in NonLeaf, NEW m \in multi_stone_t,
         StoneIn(m, S), NEW supply \in [Source(n) -> Nat],
         Merges(n, m, supply), NoMatch(m), supply[n] = m.pulse_timestamp,
         NEW c \in children(n), supply[c] > m.pulse_timestamp,
         NEW e \in metrics_t, e.timestamp = m.pulse_timestamp
  PROVE  StoneIn(Activate(m, e), S)
<1> DEFINE q == Append(m.queue, e)
           k == [m EXCEPT !.queue = q]
           z == Len(m.queue)
           p == m.pulse_timestamp
           f == m.first_found_index
           r == MergeAt(k, z + 1)
           g == IfMeasured(e, k, Combine(m.aggregated_event.gather_info,
                                         e.gather_info))
<1>1. PICK src \in [1 .. z -> Source(n)], got \in SUBSET Source(n) :
        Filed(n, m, supply, src, got)
  BY DEF Merges
<1>2. /\ m.queue \in Seq(metrics_t) /\ z \in Nat /\ p \in Nat
      /\ m.count \in Nat /\ m.aggregated_event \in metrics_t
  BY LenProperties DEF multi_stone_t
<1>3. /\ q \in Seq(metrics_t) /\ Len(q) = z + 1 /\ q[z + 1] = e
      /\ \A j \in 1 .. z : q[j] = m.queue[j]
  BY <1>2, AppendProperties
<1>4. /\ k.queue = q /\ k.pulse_timestamp = p
      /\ k.first_found_index = f /\ k.count = m.count
      /\ k.current_node_degree = m.current_node_degree
      /\ k.aggregated_event = m.aggregated_event
  BY DEF multi_stone_t
<1>5. k \in multi_stone_t
  <2> HIDE DEF q
  <2> QED BY <1>3 DEF multi_stone_t
<1>6. got # {} /\ n \notin got
  <2>1. c \in Source(n) /\ n \in Source(n)  BY DEF Source
  <2>2. c \in got
    <3>1. supply[c] \in Nat /\ p >= p /\ p < supply[c]  BY <1>2, <2>1
    <3>2. c \in got \/ \E i \in 1 .. z : m.queue[i].timestamp = p
      BY <1>1, <1>2, <2>1, <3>1 DEF Filed, Complete
    <3> QED BY <3>2 DEF NoMatch
  <2>3. ~(supply[n] > p)  BY <1>2
  <2> QED BY <1>1, <2>1, <2>2, <2>3 DEF Filed, Complete
<1>7. /\ f # NotFound /\ f \in Nat \ {0} /\ f <= z + 1
      /\ m.count = Cardinality(got)
      /\ m.current_node_degree = get_degree_node(n)
  <2>1. f # NotFound  BY <1>1, <1>6 DEF Filed, Aggregate
  <2> QED BY <1>1, <2>1 DEF Filed, Aggregate, multi_stone_t
<1>8. k.count < k.current_node_degree + 1
  <2>1. /\ IsFiniteSet(Source(n)) /\ n \in Source(n)
        /\ Cardinality(Source(n)) = get_degree_node(n) + 1
    BY LeafRank, SourceCount DEF Source
  <2>2. Cardinality(got) <= Cardinality(Source(n))
        /\ Cardinality(got) # Cardinality(Source(n))
    BY <1>6, <2>1, FS_Subset
  <2>3. get_degree_node(n) \in Nat  BY DegreeType
  <2> QED BY <1>2, <1>4, <1>7, <2>1, <2>2, <2>3
<1> HIDE DEF q, k
<1>9. Matches(k, f) # {} /\ Min(Matches(k, f)) = z + 1
  <2>1. z + 1 \in f .. Len(k.queue)  BY <1>2, <1>3, <1>4, <1>7
  <2>2. z + 1 \in Matches(k, f)  BY <1>3, <1>4, <2>1 DEF Matches
  <2>3. PICK i : i = Min(Matches(k, f))  OBVIOUS
  <2>4. i \in 1 .. z + 1 /\ q[i].timestamp = p
    BY <1>3, <1>4, <1>5, <1>7, <2>2, <2>3, FirstMatch
  <2>5. i \notin 1 .. z  BY <1>3, <2>4 DEF NoMatch
  <2> QED BY <1>2, <2>2, <2>3, <2>4, <2>5
<1>10. Activate(m, e) = r
  <2>1. Activate(m, e) = Consume(k)  BY DEF Activate, k, q
  <2>2. Consume(k) = Merge(k)  BY <1>4, <1>7 DEF Consume
  <2>3. Merge(k) = r  BY <1>4, <1>8, <1>9 DEF Merge
  <2> QED BY <2>1, <2>2, <2>3
<1>11. /\ r.queue = RemoveAt(q, z + 1)
       /\ r.aggregated_event = [m.aggregated_event EXCEPT !.gather_info = g]
  BY <1>3, <1>4, <1>5 DEF MergeAt, multi_stone_t
<1>12. r.aggregated_event \in S
  <2>1. m.aggregated_event \in S  BY <1>7 DEF StoneIn
  <2>2. g \in Info
    <3>1. /\ m.aggregated_event.gather_info \in Info
          /\ e.gather_info \in Info
      BY <1>2 DEF metrics_t
    <3> QED BY <1>5, <3>1, CombineType, IfMeasuredType
  <2> HIDE DEF g, r
  <2> QED BY <1>11, <2>1, <2>2 DEF Indifferent
<1>13. \A j \in 1 .. Len(r.queue) : r.queue[j] \in S
  <2>1. z + 1 \in 1 .. Len(q)  BY <1>2, <1>3
  <2>2. /\ Len(RemoveAt(q, z + 1)) = z
        /\ \A j \in 1 .. z : RemoveAt(q, z + 1)[j] = q[j]
    <3>1. PICK i : i = z + 1  OBVIOUS
    <3>2. /\ Len(RemoveAt(q, i)) = Len(q) - 1
          /\ \A j \in 1 .. Len(q) - 1 :
               RemoveAt(q, i)[j] = IF j < i THEN q[j] ELSE q[j + 1]
      <4>1. q \in Seq(metrics_t) /\ i \in 1 .. Len(q)  BY <1>3, <2>1, <3>1
      <4> HIDE DEF q
      <4> QED BY <4>1, RemoveAtProperties
    <3>3. Len(q) - 1 = z /\ \A j \in 1 .. z : j < i  BY <1>2, <1>3, <3>1
    <3> QED BY <3>1, <3>2, <3>3
  <2>3. \A j \in 1 .. z : q[j] \in S  BY <1>3 DEF StoneIn
  <2> HIDE DEF r, z
  <2> QED BY <1>11, <2>2, <2>3
<1> HIDE DEF r
<1> QED BY <1>10, <1>12, <1>13 DEF StoneIn
-----------------------------------------------------------------------------
(***************************************************************************)
(* What is true of every event, of whichever process, of the leaves and of *)
(* the pulses.                                                             *)
(***************************************************************************)
\* No leaf sends an event after that of pulse ts.
Over(ts) == IF BENCHMARKING THEN ts = max_timestamps - 1
            ELSE \E l \in Leaf : ~running[l] /\ counter[l] = ts + 1

\* A leaf has sent its event of pulse ts.
Reached(ts) == ~BENCHMARKING => \E l \in Leaf : ts < counter[l]

Speaks(e) ==
  /\ e.metrics_nr # 0
  /\ e.timestamp = 0 => e.update_file
  /\ e.quit <=> Over(e.timestamp)
  /\ Reached(e.timestamp)

Spoken == {e \in metrics_t : Speaks(e)}

AllSpoken(q) == \A i \in 1 .. Len(q) : q[i] \in Spoken

\* An inner process: the events it keeps, and its own event when ready.
NodeSpeaks(n) ==
  /\ StoneIn(multi[n], Spoken)
  /\ stage[n] # "idle" => inbox[n] \in Spoken
  /\ submissions(n) # 0 => total_metrics[n] # 0
  /\ ~first_pulse[n] => data[n].metrics_nr # 0
  /\ ~first_pulse[n] => ~data[n].quit \/ Over(submissions(n) - 1)

QuietInv ==
  /\ \A c \in Rank : AllSpoken(link[c])
  /\ \A l \in Leaf : counter[l] = 0 => total_metrics[l] = 0
  /\ \A n \in NonLeaf : NodeSpeaks(n)
  /\ root_finished => Over(pulse - 1)

\* Leaves that step send the event of counter, all others do nothing.
Steady ==
  \A l \in Leaf : \/ running'[l] = running[l] /\ counter'[l] = counter[l]
                  \/ running[l] /\ counter'[l] = counter[l] + 1

\* parent_rank and gather_info do not matter.
LEMMA SpokenIndifferent == Indifferent(Spoken)
<1>1. Spoken \subseteq metrics_t  BY DEF Spoken
<1>2. ASSUME NEW e \in Spoken, NEW r \in Int
      PROVE  [e EXCEPT !.parent_rank = r] \in Spoken
  <2> DEFINE a == [e EXCEPT !.parent_rank = r]
  <2>1. e \in metrics_t /\ Speaks(e)  BY DEF Spoken
  <2>2. /\ a \in metrics_t /\ a.metrics_nr = e.metrics_nr /\ a.quit = e.quit
        /\ a.timestamp = e.timestamp /\ a.update_file = e.update_file
    BY <2>1 DEF metrics_t
  <2> HIDE DEF a
  <2>3. Speaks(a)  BY <2>1, <2>2 DEF Speaks
  <2> QED BY <2>2, <2>3 DEF Spoken, a
<1>3. ASSUME NEW e \in Spoken, NEW g \in Info
      PROVE  [e EXCEPT !.gather_info = g] \in Spoken
  <2> DEFINE a == [e EXCEPT !.gather_info = g]
  <2>1. e \in metrics_t /\ Speaks(e)  BY DEF Spoken
  <2>2. /\ a \in metrics_t /\ a.metrics_nr = e.metrics_nr /\ a.quit = e.quit
        /\ a.timestamp = e.timestamp /\ a.update_file = e.update_file
    BY <2>1 DEF metrics_t
  <2> HIDE DEF a
  <2>3. Speaks(a)  BY <2>1, <2>2 DEF Speaks
  <2> QED BY <2>2, <2>3 DEF Spoken, a
<1> QED BY <1>1, <1>2, <1>3 DEF Indifferent

\* The end stays the end.
LEMMA OverHolds ==
  ASSUME Steady, NEW ts, Over(ts)
  PROVE  Over(ts)'
BY DEF Steady, Over

\* What is true of an event stays true.
LEMMA SpokenHolds ==
  ASSUME Calm, TypeOK, TypeOK', Steady, NEW e \in Spoken
  PROVE  e \in Spoken'
<1> DEFINE ts == e.timestamp
<1>1. e \in metrics_t /\ Speaks(e) /\ ts \in Nat  BY DEF Spoken, metrics_t
<1>2. CASE BENCHMARKING
  BY <1>1, <1>2 DEF Spoken, Speaks, Over, Reached
<1>3. CASE ~BENCHMARKING
  <2>1. PICK l \in Leaf : ts < counter[l]  BY <1>1, <1>3 DEF Speaks, Reached
  <2>2. \A k \in Leaf : k = l  BY <1>3 DEF Calm
  <2>3. /\ counter[l] \in Nat /\ counter'[l] \in Nat
        /\ running[l] \in BOOLEAN /\ running'[l] \in BOOLEAN
    BY LeafRank DEF TypeOK
  <2>4. \/ running'[l] = running[l] /\ counter'[l] = counter[l]
        \/ running[l] /\ counter'[l] = counter[l] + 1
    BY DEF Steady
  <2>5. ts < counter'[l]  BY <1>1, <2>1, <2>3, <2>4
  <2>6. Reached(ts)'  BY <1>3, <2>5 DEF Reached
  <2>7. (~running'[l] /\ counter'[l] = ts + 1)
          <=> (~running[l] /\ counter[l] = ts + 1)
    BY <1>1, <2>1, <2>3, <2>4
  <2>8. Over(ts)' <=> Over(ts)  BY <1>3, <2>2, <2>7 DEF Over
  <2> QED BY <1>1, <2>6, <2>8 DEF Spoken, Speaks
<1> QED BY <1>2, <1>3

\* So does what is true of all events of a list.
LEMMA AllSpokenHolds ==
  ASSUME Calm, TypeOK, TypeOK', Steady, NEW q, AllSpoken(q)
  PROVE  AllSpoken(q)'
BY SpokenHolds DEF AllSpoken

\* A multi_stone that stays the same.
LEMMA StoneHolds ==
  ASSUME Calm, TypeOK, TypeOK', Steady, NEW m, StoneIn(m, Spoken)
  PROVE  StoneIn(m, Spoken')
BY SpokenHolds DEF StoneIn

\* An inner process that stays the same.
LEMMA NodeHolds ==
  ASSUME Calm, TypeOK, TypeOK', Steady, NEW n \in NonLeaf, NodeSpeaks(n),
         multi'[n] = multi[n], stage'[n] = stage[n], inbox'[n] = inbox[n],
         counter'[n] = counter[n], total_metrics'[n] = total_metrics[n],
         first_pulse'[n] = first_pulse[n], data'[n] = data[n]
  PROVE  NodeSpeaks(n)'
<1>1. StoneIn(multi[n], Spoken)'
  <2>1. PICK m : m = multi[n]  OBVIOUS
  <2>2. StoneIn(m, Spoken)  BY <2>1 DEF NodeSpeaks
  <2>3. StoneIn(m, Spoken')  BY <2>2, StoneHolds
  <2> QED BY <2>1, <2>3
<1>2. stage[n] # "idle" => inbox[n] \in Spoken'
  <2>1. PICK e : e = inbox[n]  OBVIOUS
  <2> QED BY <2>1, SpokenHolds DEF NodeSpeaks
<1>3. submissions(n)' = submissions(n)  BY DEF submissions
<1>4. Over(submissions(n) - 1) => Over(submissions(n) - 1)'
  <2>1. PICK ts : ts = submissions(n) - 1  OBVIOUS
  <2> QED BY <1>3, <2>1, OverHolds
<1> QED BY <1>1, <1>2, <1>3, <1>4 DEF NodeSpeaks
-----------------------------------------------------------------------------
\* A list all of whose elements are in a set, with one more of it.
LEMMA AppendIn ==
  ASSUME NEW S, NEW q \in Seq(metrics_t), NEW e \in metrics_t, e \in S,
         \A i \in 1 .. Len(q) : q[i] \in S
  PROVE  \A i \in 1 .. Len(Append(q, e)) : Append(q, e)[i] \in S
<1>1. /\ Len(q) \in Nat /\ Len(Append(q, e)) = Len(q) + 1
      /\ Append(q, e)[Len(q) + 1] = e
      /\ \A i \in 1 .. Len(q) : Append(q, e)[i] = q[i]
  BY AppendProperties, LenProperties
<1>2. \A i \in 1 .. Len(q) + 1 : i \in 1 .. Len(q) \/ i = Len(q) + 1
  BY <1>1
<1> QED BY <1>1, <1>2

\* The head and the rest of such a list.
LEMMA TailIn ==
  ASSUME NEW S, NEW q \in Seq(metrics_t), q # <<>>,
         \A i \in 1 .. Len(q) : q[i] \in S
  PROVE  /\ Head(q) \in S
         /\ \A i \in 1 .. Len(Tail(q)) : Tail(q)[i] \in S
<1>1. /\ Len(q) \in Nat \ {0} /\ Len(Tail(q)) = Len(q) - 1
      /\ \A i \in 1 .. Len(q) - 1 : Tail(q)[i] = q[i + 1]
      /\ Head(q) = q[1]
  BY HeadTailProperties, LenProperties, EmptySeq
<1>2. \A i \in 1 .. Len(q) - 1 : i + 1 \in 1 .. Len(q)  BY <1>1
<1> QED BY <1>1, <1>2

\* Such a list with what a multi_stone submits after it.
LEMMA AnswerIn ==
  ASSUME NEW S \in SUBSET metrics_t, NEW q \in Seq(metrics_t), NEW s,
         s = <<>> \/ \E a \in S : s = <<a>>,
         \A i \in 1 .. Len(q) : q[i] \in S
  PROVE  \A i \in 1 .. Len(q \o s) : (q \o s)[i] \in S
<1>1. CASE s = <<>>
  <2>1. q \o s = q  BY <1>1, ConcatEmptySeq
  <2> QED BY <2>1
<1>2. ASSUME NEW a \in S, s = <<a>>
      PROVE  \A i \in 1 .. Len(q \o s) : (q \o s)[i] \in S
  <2>1. q \o s = Append(q, a)  BY <1>2, AppendIsConcat
  <2> QED BY <2>1, AppendIn
<1> QED BY <1>1, <1>2

\* Nothing has been sent.
LEMMA InitQuiet == Init => QuietInv
<1> SUFFICES ASSUME Init PROVE QuietInv  OBVIOUS
<1>1. \A c \in Rank : AllSpoken(link[c])  BY DEF Init, AllSpoken
<1>2. \A l \in Leaf : total_metrics[l] = 0  BY LeafRank DEF Init
<1>3. ASSUME NEW n \in NonLeaf PROVE NodeSpeaks(n)
  <2>1. n \in Rank /\ counter[n] = 0 /\ first_pulse[n] /\ stage[n] = "idle"
    BY LeafRank DEF Init
  <2>2. Len(multi[n].queue) = 0 /\ multi[n].first_found_index = NotFound
    BY DEF Init, InitialMulti
  <2>3. submissions(n) = 0  BY <2>1 DEF submissions
  <2> QED BY <2>1, <2>2, <2>3 DEF NodeSpeaks, StoneIn
<1> QED BY <1>1, <1>2, <1>3 DEF QuietInv, Init

\* Steps that send nothing and change no number.
LEMMA UnchangedQuiet ==
  ASSUME Calm, TypeOK, TypeOK', QuietInv,
         UNCHANGED <<counter, total_metrics, link, multi, stage, inbox,
                     ownVars, pulse, root_finished, running>>
  PROVE  QuietInv'
<1>1. Steady  BY DEF Steady
<1>2. \A c \in Rank : AllSpoken(link[c])'
  <2> SUFFICES ASSUME NEW c \in Rank PROVE AllSpoken(link[c])'  OBVIOUS
  <2>1. PICK q : q = link[c]  OBVIOUS
  <2>2. AllSpoken(q)'  BY <1>1, <2>1, AllSpokenHolds DEF QuietInv
  <2> QED BY <2>1, <2>2
<1>3. \A n \in NonLeaf : NodeSpeaks(n)'
  BY <1>1, NodeHolds DEF QuietInv, ownVars
<1>4. root_finished => Over(pulse - 1)'
  <2>1. PICK ts : ts = pulse - 1  OBVIOUS
  <2> QED BY <1>1, <2>1, OverHolds DEF QuietInv
<1> QED BY <1>2, <1>3, <1>4 DEF QuietInv

\* A leaf asks to quit with its last event and only then.
LEMMA start_communicationQuiet ==
  ASSUME Calm, PulseInv, TypeOK', QuietInv, NEW l \in Leaf,
         start_communication(l)
  PROVE  QuietInv'
<1> DEFINE event ==
                [timestamp   |-> counter[l],
                 quit        |-> QuitNow(l),
                 update_file |-> needs_sync(file, total_metrics[l]),
                 parent_rank |-> get_parent(l),
                 metrics_nr  |-> file,
                 gather_info |-> OwnInfo(l, counter[l], file)]
<1>1. /\ TypeOK /\ l \in Rank /\ counter[l] \in Nat
      /\ link[l] \in Seq(metrics_t) /\ file \in AliasNumbers
  BY LeafRank DEF PulseInv, TypeOK
<1>2. PICK e \in metrics_t : e = event
  <2>1. event \in metrics_t  BY <1>1, LeafEventType, QuitNowType
  <2> QED BY <2>1
<1>3. /\ e.timestamp = counter[l] /\ e.metrics_nr = file
      /\ e.quit = QuitNow(l)
      /\ e.update_file = needs_sync(file, total_metrics[l])
  BY <1>2
<1>4. /\ link' = [link EXCEPT ![l] = Append(link[l], e)]
      /\ counter' = [counter EXCEPT ![l] = counter[l] + 1]
      /\ total_metrics' = [total_metrics EXCEPT ![l] = file]
      /\ running' = [running EXCEPT ![l] = ~QuitNow(l)]
      /\ running[l]
      /\ UNCHANGED <<multi, stage, inbox, ownVars, rootVars>>
  BY <1>2 DEF start_communication, SendEvent
<1> HIDE DEF event
<1>5. /\ counter'[l] = counter[l] + 1 /\ running'[l] = ~QuitNow(l)
      /\ total_metrics'[l] = file /\ link'[l] = Append(link[l], e)
      /\ \A r \in Rank : r # l => /\ counter'[r] = counter[r]
                                  /\ total_metrics'[r] = total_metrics[r]
                                  /\ link'[r] = link[r]
      /\ \A k \in Leaf : k # l => running'[k] = running[k]
  BY <1>1, <1>4 DEF TypeOK
<1>6. Steady  BY <1>4, <1>5, LeafRank DEF Steady
<1>7. file \in Nat \ {0}  BY <1>1, AggregationAssumption DEF Calm
<1>8. Speaks(e)'
  <2>1. e.metrics_nr # 0  BY <1>3, <1>7
  <2>2. e.timestamp = 0 => e.update_file
    <3>1. counter[l] = 0 => needs_sync(file, total_metrics[l])
      BY <1>7 DEF QuietInv, needs_sync
    <3> QED BY <1>3, <3>1, Zenon
  <2>3. e.quit <=> Over(e.timestamp)'
    <3>1. CASE BENCHMARKING
      BY <1>3, <3>1 DEF Over, QuitNow, LastPulse
    <3>2. CASE ~BENCHMARKING
      <4>1. \A k \in Leaf : k = l  BY <3>2 DEF Calm
      <4>2. Over(e.timestamp)' <=> ~running'[l]
        BY <1>3, <1>5, <3>2, <4>1 DEF Over
      <4>3. QuitNow(l) \in BOOLEAN  BY <1>1, QuitNowType
      <4> QED BY <1>3, <1>5, <4>2, <4>3
    <3> QED BY <3>1, <3>2
  <2>4. Reached(e.timestamp)'  BY <1>1, <1>3, <1>5 DEF Reached
  <2> QED BY <2>1, <2>2, <2>3, <2>4 DEF Speaks
<1>9. ASSUME NEW c \in Rank PROVE AllSpoken(link[c])'
  <2>1. PICK q : q = link[c]  OBVIOUS
  <2>2. AllSpoken(q)'  BY <1>1, <1>6, <2>1, AllSpokenHolds DEF QuietInv
  <2>3. PICK S : S = Spoken'  OBVIOUS
  <2>4. e \in S /\ \A i \in 1 .. Len(q) : q[i] \in S
    BY <1>8, <2>2, <2>3 DEF AllSpoken, Spoken
  <2>5. CASE c = l
    <3>1. \A i \in 1 .. Len(Append(q, e)) : Append(q, e)[i] \in S
      BY <1>1, <2>1, <2>4, <2>5, AppendIn
    <3> QED BY <1>5, <2>1, <2>3, <2>5, <3>1 DEF AllSpoken
  <2>6. CASE c # l  BY <1>5, <2>1, <2>2, <2>6
  <2> QED BY <2>5, <2>6
<1>10. ASSUME NEW n \in NonLeaf PROVE NodeSpeaks(n)'
  <2>1. n # l /\ n \in Rank  BY LeafRank DEF NonLeaf
  <2> QED BY <1>1, <1>4, <1>5, <1>6, <2>1, NodeHolds DEF QuietInv, ownVars
<1>11. \A k \in Leaf : counter'[k] = 0 => total_metrics'[k] = 0
  BY <1>1, <1>5, LeafRank DEF QuietInv
<1>12. root_finished' => Over(pulse - 1)'
  <2>1. PICK ts : ts = pulse - 1  OBVIOUS
  <2> QED BY <1>4, <1>6, <2>1, OverHolds DEF QuietInv, rootVars
<1> QED BY <1>9, <1>10, <1>11, <1>12, <1>4 DEF QuietInv, rootVars

\* A child's event at its parent.
LEMMA StoneQuiet ==
  ASSUME Calm, PulseInv, TypeOK', QuietInv, Steady, NEW n \in NonLeaf,
         NEW e \in Spoken, Sound(e),
         multi[n].max_degree = -1 => e.timestamp = 0,
         multi'[n] = multi_func(multi[n], e)
  PROVE  /\ StoneIn(multi[n], Spoken)'
         /\ link'[n] = link[n] \o Submitted(multi[n], e) =>
              AllSpoken(link[n])'
<1>1. /\ TypeOK /\ n \in Rank /\ multi[n] \in multi_stone_t
      /\ link[n] \in Seq(metrics_t) /\ MultiInv(multi[n])
      /\ StoneIn(multi[n], Spoken) /\ AllSpoken(link[n])
  BY LeafRank DEF PulseInv, TypeOK, ProcessInv, StoneInv, QuietInv, NodeSpeaks
<1>2. PICK m \in multi_stone_t : m = multi[n]  BY <1>1
<1>3. PICK q \in Seq(metrics_t) : q = link[n]  BY <1>1
<1>4. PICK S \in SUBSET metrics_t : S = Spoken  BY DEF Spoken
<1>5. PICK s : s = Submitted(m, e)  OBVIOUS
<1>6. PICK r : r = multi_func(m, e)  OBVIOUS
<1>7. /\ StoneIn(r, S) /\ (s = <<>> \/ \E a \in S : s = <<a>>)
  BY <1>1, <1>2, <1>4, <1>5, <1>6, SpokenIndifferent, multi_funcIn
<1>8. StoneIn(r, Spoken')  BY <1>1, <1>4, <1>7, StoneHolds DEF PulseInv
<1>9. \A i \in 1 .. Len(q \o s) : (q \o s)[i] \in S
  BY <1>1, <1>3, <1>4, <1>7, AnswerIn DEF AllSpoken
<1>10. PICK z : z = q \o s  OBVIOUS
<1>11. AllSpoken(z)  BY <1>4, <1>9, <1>10 DEF AllSpoken
<1>12. AllSpoken(z)'  BY <1>1, <1>11, AllSpokenHolds
<1>13. StoneIn(multi[n], Spoken)'  BY <1>2, <1>6, <1>8
<1>14. link'[n] = link[n] \o Submitted(multi[n], e) => AllSpoken(link[n])'
  BY <1>2, <1>3, <1>5, <1>10, <1>12
<1> QED BY <1>13, <1>14

\* An event is taken from a link and given to both stones.
LEMMA ArriveQuiet ==
  ASSUME Calm, PulseInv, TypeOK', QuietInv, NEW c \in Rank, Arrive(c)
  PROVE  QuietInv'
<1> DEFINE n == get_parent(c)
<1>1. /\ TypeOK /\ c # ROOT /\ n \in NonLeaf /\ n \in Rank /\ n # c
      /\ c \in children(n)
  <2>1. TypeOK /\ c # ROOT  BY DEF PulseInv, Arrive
  <2>2. n \in NonLeaf /\ n \in Rank /\ n # c
    BY <2>1, ParentIsNotLeaf, ParentIsBelow, RankType DEF NonLeaf
  <2>3. c \in children(n)  BY <2>1, <2>2, ChildrenHaveParent
  <2> QED BY <2>1, <2>2, <2>3
<1>2. /\ link[c] \in Seq(metrics_t) /\ link[c] # <<>>
      /\ Arrived(c) \in Int /\ Consecutive(link[c], Arrived(c))
      /\ AllSpoken(link[c])
  BY <1>1, SentType DEF PulseInv, TypeOK, Arrive, LinkInv, QuietInv
<1>3. /\ Head(link[c]) \in Spoken /\ Sound(Head(link[c]))
      /\ Head(link[c]).timestamp = Arrived(c)
      /\ \A i \in 1 .. Len(Tail(link[c])) : Tail(link[c])[i] \in Spoken
  BY <1>2, ConsecutiveTail, TailIn DEF AllSpoken
<1>4. PICK e \in Spoken : e = Head(link[c])  BY <1>3
<1>5. /\ link' = [link EXCEPT ![c] = Tail(link[c]),
                              ![n] = link[n] \o Submitted(multi[n], e)]
      /\ multi' = [multi EXCEPT ![n] = multi_func(multi[n], e)]
      /\ inbox' = [inbox EXCEPT ![n] = e]
      /\ stage' = [stage EXCEPT ![n] = "terminal"]
      /\ stage[n] = "idle"
      /\ UNCHANGED <<running, counter, total_metrics, first_pulse, data,
                     pulse, root_finished>>
  BY <1>1, <1>4, Zenon DEF Arrive, TypeOK, leafVars, ownVars, rootVars
<1>6. multi[n].max_degree = -1 => e.timestamp = 0
  BY <1>1, <1>3, <1>4 DEF PulseInv, ProcessInv, StoneInv
<1> HIDE DEF n
<1>7. /\ link'[c] = Tail(link[c])
      /\ link'[n] = link[n] \o Submitted(multi[n], e)
      /\ multi'[n] = multi_func(multi[n], e)
      /\ inbox'[n] = e /\ stage'[n] = "terminal"
      /\ \A x \in Rank : x # c /\ x # n => link'[x] = link[x]
      /\ \A k \in NonLeaf : k # n => /\ multi'[k] = multi[k]
                                     /\ stage'[k] = stage[k]
                                     /\ inbox'[k] = inbox[k]
  <2> DEFINE q == link[n] \o Submitted(multi[n], e)
             r == multi_func(multi[n], e)
  <2>1. /\ link' = [link EXCEPT ![c] = Tail(link[c]), ![n] = q]
        /\ multi' = [multi EXCEPT ![n] = r]
    BY <1>5
  <2> HIDE DEF q, r
  <2>2. /\ link'[c] = Tail(link[c]) /\ link'[n] = q /\ multi'[n] = r
        /\ \A x \in Rank : x # c /\ x # n => link'[x] = link[x]
        /\ \A k \in NonLeaf : k # n => multi'[k] = multi[k]
    BY <1>1, <2>1 DEF TypeOK
  <2>3. /\ inbox'[n] = e /\ stage'[n] = "terminal"
        /\ \A k \in NonLeaf : k # n => /\ stage'[k] = stage[k]
                                       /\ inbox'[k] = inbox[k]
    BY <1>1, <1>5 DEF TypeOK
  <2> QED BY <2>2, <2>3 DEF q, r
<1>8. Steady  BY <1>5 DEF Steady
<1>9. StoneIn(multi[n], Spoken)' /\ AllSpoken(link[n])'
  BY <1>1, <1>3, <1>4, <1>6, <1>7, <1>8, StoneQuiet
<1>10. AllSpoken(link[c])'
  <2>1. PICK q : q = Tail(link[c])  OBVIOUS
  <2>2. AllSpoken(q)  BY <1>3, <2>1 DEF AllSpoken
  <2>3. AllSpoken(q)'  BY <1>1, <1>8, <2>2, AllSpokenHolds
  <2> QED BY <1>7, <2>1, <2>3
<1>11. ASSUME NEW x \in Rank PROVE AllSpoken(link[x])'
  <2>1. CASE x # c /\ x # n
    <3>1. PICK q : q = link[x]  OBVIOUS
    <3>2. AllSpoken(q)'  BY <1>1, <1>8, <3>1, AllSpokenHolds DEF QuietInv
    <3> QED BY <1>7, <2>1, <3>1, <3>2
  <2> QED BY <1>9, <1>10, <2>1
<1>12. NodeSpeaks(n)'
  <2>1. NodeSpeaks(n)  BY <1>1 DEF QuietInv
  <2>2. inbox'[n] \in Spoken'  BY <1>1, <1>7, <1>8, SpokenHolds
  <2>4. /\ total_metrics' = total_metrics /\ first_pulse' = first_pulse
        /\ data' = data /\ submissions(n)' = submissions(n)
    BY <1>5, <1>7 DEF submissions
  <2>3. Over(submissions(n) - 1) => Over(submissions(n) - 1)'
    <3>1. PICK ts : ts = submissions(n) - 1  OBVIOUS
    <3> QED BY <1>8, <2>4, <3>1, OverHolds
  <2>5. /\ submissions(n)' # 0 => total_metrics'[n] # 0
        /\ ~first_pulse'[n] => data'[n].metrics_nr # 0
    BY <2>1, <2>4 DEF NodeSpeaks
  <2>6. ~first_pulse'[n] => ~data'[n].quit \/ Over(submissions(n) - 1)'
    <3>1. ~first_pulse[n] => ~data[n].quit \/ Over(submissions(n) - 1)
      BY <2>1 DEF NodeSpeaks
    <3> QED BY <2>3, <2>4, <3>1
  <2> QED BY <1>7, <1>9, <2>2, <2>5, <2>6 DEF NodeSpeaks
<1>13. \A k \in NonLeaf : k # n => NodeSpeaks(k)'
  BY <1>1, <1>5, <1>7, <1>8, NodeHolds DEF QuietInv
<1>14. root_finished' => Over(pulse - 1)'
  <2>1. PICK ts : ts = pulse - 1  OBVIOUS
  <2> QED BY <1>5, <1>8, <2>1, OverHolds DEF QuietInv
<1>15. \A l \in Leaf : counter'[l] = 0 => total_metrics'[l] = 0
  BY <1>5 DEF QuietInv
<1> QED BY <1>5, <1>11, <1>12, <1>13, <1>14, <1>15 DEF QuietInv

\* Waiting for more events.
LEMMA WaitForOthersQuiet ==
  ASSUME Calm, TypeOK, TypeOK', QuietInv, NEW n \in NonLeaf,
         stage[n] = "terminal", WaitForOthers(n),
         UNCHANGED <<fileVars, leafVars, counter, inbox, rootVars>>
  PROVE  QuietInv'
<1>1. /\ stage' = [stage EXCEPT ![n] = "idle"]
      /\ UNCHANGED <<counter, total_metrics, link, multi, first_pulse, data,
                     inbox, running, pulse, root_finished>>
  BY DEF WaitForOthers, leafVars, rootVars
<1>2. Steady  BY <1>1 DEF Steady
<1>3. ASSUME NEW c \in Rank PROVE AllSpoken(link[c])'
  <2>1. PICK q : q = link[c]  OBVIOUS
  <2>2. AllSpoken(q)'  BY <1>2, <2>1, AllSpokenHolds DEF QuietInv
  <2> QED BY <1>1, <2>1, <2>2
<1>4. ASSUME NEW k \in NonLeaf, k # n PROVE NodeSpeaks(k)'
  BY <1>1, <1>2, <1>4, NodeHolds DEF QuietInv, TypeOK
<1>5. NodeSpeaks(n)'
  <2>1. NodeSpeaks(n) /\ stage'[n] = "idle"
    BY <1>1 DEF QuietInv, TypeOK
  <2>2. StoneIn(multi[n], Spoken)'
    <3>1. PICK m : m = multi[n]  OBVIOUS
    <3>2. StoneIn(m, Spoken)  BY <2>1, <3>1 DEF NodeSpeaks
    <3>3. StoneIn(m, Spoken')  BY <1>2, <3>2, StoneHolds
    <3> QED BY <1>1, <3>1, <3>3
  <2>4. /\ total_metrics' = total_metrics /\ first_pulse' = first_pulse
        /\ data' = data /\ submissions(n)' = submissions(n)
    BY <1>1, <2>1 DEF submissions
  <2>3. Over(submissions(n) - 1) => Over(submissions(n) - 1)'
    <3>1. PICK ts : ts = submissions(n) - 1  OBVIOUS
    <3> QED BY <1>2, <2>4, <3>1, OverHolds
  <2>5. /\ submissions(n)' # 0 => total_metrics'[n] # 0
        /\ ~first_pulse'[n] => data'[n].metrics_nr # 0
    BY <2>1, <2>4 DEF NodeSpeaks
  <2>6. ~first_pulse'[n] => ~data'[n].quit \/ Over(submissions(n) - 1)'
    <3>1. ~first_pulse[n] => ~data[n].quit \/ Over(submissions(n) - 1)
      BY <2>1 DEF NodeSpeaks
    <3> QED BY <2>3, <2>4, <3>1
  <2> QED BY <2>1, <2>2, <2>5, <2>6 DEF NodeSpeaks
<1>6. root_finished' => Over(pulse - 1)'
  <2>1. PICK ts : ts = pulse - 1  OBVIOUS
  <2> QED BY <1>1, <1>2, <2>1, OverHolds DEF QuietInv
<1> QED BY <1>1, <1>3, <1>4, <1>5, <1>6 DEF QuietInv

\* What a process submits for itself is like the event that made it do so.
LEMMA OwnEventQuiet ==
  ASSUME Calm, MergeInv, QuietInv, NEW n \in NonLeaf, stage[n] = "terminal",
         CountOf(Counted(n), counter[n]) = get_degree_node(n)
  PROVE  LET own == OwnEvent(n, inbox[n])
         IN  own \in Spoken /\ Sound(own)
<1> DEFINE event == inbox[n]
           own   == OwnEvent(n, event)
<1>1. /\ PulseInv /\ TypeOK /\ NodeSpeaks(n) /\ n \in Rank
      /\ counter[n] \in Nat /\ file \in AliasNumbers
  BY LeafRank DEF MergeInv, PulseInv, TypeOK, QuietInv
<1>2. /\ own \in metrics_t /\ own.timestamp = counter[n] /\ Sound(own)
      /\ event.timestamp = counter[n]
  BY <1>1, OwnEventMerge, OwnEventInv
<1>3. event \in metrics_t /\ Speaks(event) /\ submissions(n) = counter[n]
  BY <1>1, OwnEventMerge DEF NodeSpeaks, Spoken
<1>4. NumberFor(n, event) # 0
  <2>1. file # 0  BY <1>1 DEF Calm
  <2>2. ~event.update_file => total_metrics[n] # 0
    BY <1>1, <1>2, <1>3 DEF Speaks, NodeSpeaks
  <2> QED BY <2>1, <2>2 DEF NumberFor
<1>5. CASE Recomputes(n, event)
  <2>1. own = get_metrics_values(n, event, counter[n])
    BY <1>5 DEF OwnEvent
  <2>2. /\ own.quit = event.quit /\ own.update_file = event.update_file
        /\ own.metrics_nr = NumberFor(n, event)
    BY <2>1 DEF get_metrics_values
  <2> HIDE DEF own, event
  <2>3. Speaks(own)  BY <1>2, <1>3, <1>4, <2>2, Zenon DEF Speaks
  <2> QED BY <1>2, <2>3 DEF Spoken, own, event
<1>6. CASE ~Recomputes(n, event)
  <2>1. own = data[n] /\ ~first_pulse[n] /\ ~event.update_file /\ ~event.quit
    BY <1>6 DEF OwnEvent, Recomputes
  <2>2. ~Over(counter[n]) /\ counter[n] # 0 /\ Reached(counter[n])
    BY <1>2, <1>3, <2>1 DEF Speaks
  <2>3. ~Over(counter[n] - 1)
    <3>1. CASE BENCHMARKING
      <4>1. Sound(own) /\ own.timestamp = counter[n]  BY <1>2
      <4>2. counter[n] < max_timestamps  BY <3>1, <4>1 DEF Sound
      <4>3. counter[n] - 1 # max_timestamps - 1
        BY <1>1, <4>2, AggregationAssumption
      <4> QED BY <3>1, <4>3 DEF Over
    <3>2. CASE ~BENCHMARKING
      <4>1. PICK l \in Leaf : counter[n] < counter[l]
        BY <2>2, <3>2 DEF Reached
      <4>2. \A k \in Leaf : k = l  BY <3>2 DEF Calm
      <4>3. counter[l] \in Nat  BY <1>1, LeafRank DEF TypeOK
      <4> QED BY <1>1, <3>2, <4>1, <4>2, <4>3 DEF Over
    <3> QED BY <3>1, <3>2
  <2>4. ~own.quit /\ own.metrics_nr # 0
    BY <1>1, <1>3, <2>1, <2>3 DEF NodeSpeaks
  <2> HIDE DEF own, event
  <2>5. Speaks(own)  BY <1>2, <2>2, <2>4 DEF Speaks
  <2> QED BY <1>2, <2>5 DEF Spoken, own, event
<1> QED BY <1>5, <1>6

\* Submitting the own event.
LEMMA SubmitOwnQuiet ==
  ASSUME Calm, MergeInv, TypeOK', QuietInv, NEW n \in NonLeaf,
         stage[n] = "terminal", SubmitOwn(n),
         UNCHANGED <<fileVars, leafVars, counter, inbox, rootVars>>
  PROVE  QuietInv'
<1> DEFINE event == inbox[n]
           own   == OwnEvent(n, event)
           z     == IF Recomputes(n, event) THEN own.metrics_nr
                                            ELSE total_metrics[n]
<1>1. /\ PulseInv /\ TypeOK /\ n \in Rank /\ n \notin Leaf
      /\ counter[n] \in Nat /\ NodeSpeaks(n)
  BY LeafRank DEF MergeInv, PulseInv, TypeOK, NonLeaf, QuietInv
<1>2. /\ multi' = [multi EXCEPT ![n] = multi_func(multi[n], own)]
      /\ link' = [link EXCEPT ![n] = link[n] \o Submitted(multi[n], own)]
      /\ data' = [data EXCEPT ![n] = own]
      /\ first_pulse' = [first_pulse EXCEPT ![n] = FALSE]
      /\ total_metrics' = [total_metrics EXCEPT ![n] = z]
      /\ stage' = [stage EXCEPT ![n] = "submitted"]
      /\ UNCHANGED <<running, counter, inbox, pulse, root_finished>>
      /\ CountOf(Counted(n), counter[n]) = get_degree_node(n)
  BY DEF SubmitOwn, leafVars, rootVars
<1>3. /\ own \in Spoken /\ Sound(own)
      /\ own.timestamp = counter[n] /\ event.timestamp = counter[n]
      /\ submissions(n) = counter[n]
  BY <1>1, <1>2, OwnEventMerge, OwnEventQuiet
<1>4. PICK e \in Spoken : e = own  BY <1>3
<1>5. e.timestamp = counter[n] /\ Sound(e) /\ Speaks(e)
  BY <1>3, <1>4 DEF Spoken
<1>6. event \in Spoken /\ Speaks(event)
  BY <1>1 DEF NodeSpeaks, Spoken
<1>8. z # 0
  <2>1. own.metrics_nr # 0  BY <1>4, <1>5 DEF Speaks
  <2>2. ~Recomputes(n, event) => total_metrics[n] # 0
    <3>1. ~Recomputes(n, event) => ~event.update_file  BY DEF Recomputes
    <3>2. ~event.update_file => counter[n] # 0
      BY <1>3, <1>6, Zenon DEF Speaks
    <3>3. counter[n] # 0 => total_metrics[n] # 0
      BY <1>1, <1>3 DEF NodeSpeaks
    <3> QED BY <3>1, <3>2, <3>3
  <2> QED BY <2>1, <2>2
<1> HIDE DEF own, z
<1>9. /\ multi'[n] = multi_func(multi[n], e)
      /\ link'[n] = link[n] \o Submitted(multi[n], e)
      /\ total_metrics'[n] = z
      /\ data'[n] = e /\ stage'[n] = "submitted"
  <2> DEFINE q == link[n] \o Submitted(multi[n], own)
             r == multi_func(multi[n], own)
  <2>1. multi' = [multi EXCEPT ![n] = r] /\ link' = [link EXCEPT ![n] = q]
    BY <1>2
  <2> HIDE DEF q, r
  <2>2. multi'[n] = r /\ link'[n] = q  BY <1>1, <2>1 DEF TypeOK
  <2>3. /\ data'[n] = own /\ stage'[n] = "submitted"
        /\ total_metrics'[n] = z
    BY <1>1, <1>2 DEF TypeOK
  <2> QED BY <1>4, <2>2, <2>3 DEF q, r
<1>10. \A k \in Rank : k # n =>
         total_metrics'[k] = total_metrics[k] /\ link'[k] = link[k]
  BY <1>1, <1>2 DEF TypeOK
<1>11. Steady  BY <1>2 DEF Steady
<1>12. StoneIn(multi[n], Spoken)' /\ AllSpoken(link[n])'
  <2>1. multi[n].max_degree # -1
    BY <1>1 DEF PulseInv, ProcessInv, StoneInv
  <2> QED BY <1>1, <1>5, <1>9, <1>11, <2>1, StoneQuiet
<1>13. ASSUME NEW x \in Rank PROVE AllSpoken(link[x])'
  <2>1. CASE x # n
    <3>1. PICK q : q = link[x]  OBVIOUS
    <3>2. AllSpoken(q)'  BY <1>1, <1>11, <3>1, AllSpokenHolds DEF QuietInv
    <3> QED BY <1>10, <2>1, <3>1, <3>2
  <2> QED BY <1>12, <2>1
<1>14. NodeSpeaks(n)'
  <2>1. inbox'[n] \in Spoken'
    <3>1. PICK a \in Spoken : a = inbox[n]  BY <1>6
    <3>2. a \in Spoken'  BY <1>1, <1>11, SpokenHolds
    <3> QED BY <1>2, <3>1, <3>2
  <2>3. data'[n].metrics_nr # 0  BY <1>5, <1>9 DEF Speaks
  <2>4. ~data'[n].quit \/ Over(submissions(n) - 1)'
    <3>1. e.quit => Over(counter[n])  BY <1>5, Zenon DEF Speaks
    <3>2. PICK ts : ts = counter[n]  OBVIOUS
    <3>3. e.quit => Over(ts)'  BY <1>11, <3>1, <3>2, OverHolds
    <3>4. submissions(n)' - 1 = ts
      BY <1>1, <1>2, <1>9, <3>2 DEF submissions
    <3> QED BY <1>9, <3>3, <3>4, Zenon
  <2> QED BY <1>8, <1>9, <1>12, <2>1, <2>3, <2>4, Zenon DEF NodeSpeaks
<1>15. ASSUME NEW k \in NonLeaf, k # n PROVE NodeSpeaks(k)'
  <2>1. /\ multi'[k] = multi[k] /\ stage'[k] = stage[k]
        /\ inbox'[k] = inbox[k]
        /\ first_pulse'[k] = first_pulse[k] /\ data'[k] = data[k]
        /\ counter'[k] = counter[k]
    BY <1>1, <1>2, <1>15 DEF TypeOK
  <2> QED BY <1>1, <1>10, <1>11, <1>15, <2>1, LeafRank, NodeHolds DEF QuietInv
<1>16. \A l \in Leaf : counter'[l] = 0 => total_metrics'[l] = 0
  BY <1>1, <1>2, <1>10, LeafRank DEF QuietInv
<1>17. root_finished' => Over(pulse - 1)'
  <2>1. PICK ts : ts = pulse - 1  OBVIOUS
  <2> QED BY <1>2, <1>11, <2>1, OverHolds DEF QuietInv
<1> QED BY <1>13, <1>14, <1>15, <1>16, <1>17 DEF QuietInv

\* Preparing the own event of the next pulse: none is after the last one.
LEMMA FinishPulseQuiet ==
  ASSUME Calm, MergeInv, TypeOK', QuietInv, NEW n \in NonLeaf, FinishPulse(n)
  PROVE  QuietInv'
<1> DEFINE last == LastForNode(data[n], inbox[n])
           next == get_metrics_values(n, inbox[n], counter[n] + 1)
           d    == IF last THEN data[n] ELSE next
           z    == IF last THEN total_metrics[n] ELSE next.metrics_nr
<1>1. /\ PulseInv /\ TypeOK /\ n \in Rank /\ n \notin Leaf /\ NodeSpeaks(n)
      /\ counter[n] \in Nat /\ stage[n] = "submitted" /\ file \in AliasNumbers
      /\ ProcessInv(n) /\ Prompts(n)
  BY LeafRank
     DEF MergeInv, Tidy, PulseInv, TypeOK, QuietInv, FinishPulse, NonLeaf
<1>2. /\ counter' = [counter EXCEPT ![n] = counter[n] + 1]
      /\ data' = [data EXCEPT ![n] = d]
      /\ total_metrics' = [total_metrics EXCEPT ![n] = z]
      /\ stage' = [stage EXCEPT ![n] = "idle"]
      /\ UNCHANGED <<link, multi, first_pulse, inbox, running, pulse,
                     root_finished>>
  BY DEF FinishPulse, leafVars, rootVars
<1>3. next.quit = inbox[n].quit /\ next.metrics_nr = NumberFor(n, inbox[n])
  BY DEF get_metrics_values
<1>4. /\ Speaks(inbox[n]) /\ inbox[n].timestamp = counter[n]
      /\ ~first_pulse[n] /\ submissions(n) = counter[n] + 1
      /\ BENCHMARKING => data[n].timestamp = counter[n]
  BY <1>1 DEF NodeSpeaks, Spoken, Prompts, ProcessInv, OwnInv, submissions
<1>5. ~last => ~inbox[n].quit
  <2>1. CASE BENCHMARKING
    <3>1. ~last => counter[n] # max_timestamps - 1
      BY <1>4, <2>1 DEF LastForNode
    <3>2. inbox[n].quit <=> counter[n] = max_timestamps - 1
      BY <1>4, <2>1 DEF Speaks, Over
    <3> QED BY <3>1, <3>2, Zenon
  <2>2. CASE ~BENCHMARKING
    BY <2>2, Zenon DEF LastForNode
  <2> QED BY <2>1, <2>2
<1>6. /\ total_metrics[n] # 0 /\ data[n].metrics_nr # 0
      /\ ~data[n].quit \/ Over(counter[n])
  BY <1>1, <1>4 DEF NodeSpeaks
<1>7. NumberFor(n, inbox[n]) # 0  BY <1>1, <1>6 DEF Calm, NumberFor
<1> HIDE DEF last, next
<1>8. /\ z # 0 /\ d.metrics_nr # 0
      /\ ~d.quit \/ Over(counter[n])
  BY <1>3, <1>5, <1>6, <1>7, Zenon
<1> HIDE DEF d, z
<1>9. /\ counter'[n] = counter[n] + 1 /\ data'[n] = d /\ stage'[n] = "idle"
      /\ total_metrics'[n] = z
      /\ \A k \in Rank : k # n => /\ counter'[k] = counter[k]
                                  /\ total_metrics'[k] = total_metrics[k]
      /\ \A k \in NonLeaf : k # n => /\ data'[k] = data[k]
                                     /\ stage'[k] = stage[k]
  BY <1>1, <1>2 DEF TypeOK
<1>10. Steady  BY <1>1, <1>2, <1>9, LeafRank DEF Steady
<1>11. ASSUME NEW x \in Rank PROVE AllSpoken(link[x])'
  <2>1. PICK q : q = link[x]  OBVIOUS
  <2>2. AllSpoken(q)'  BY <1>1, <1>10, <2>1, AllSpokenHolds DEF QuietInv
  <2> QED BY <1>2, <2>1, <2>2
<1>12. NodeSpeaks(n)'
  <2>1. StoneIn(multi[n], Spoken)'
    <3>1. PICK m : m = multi[n]  OBVIOUS
    <3>2. StoneIn(m, Spoken)  BY <1>1, <3>1 DEF NodeSpeaks
    <3>3. StoneIn(m, Spoken')  BY <1>1, <1>10, <3>2, StoneHolds
    <3> QED BY <1>2, <3>1, <3>3
  <2>2. ~data'[n].quit \/ Over(submissions(n) - 1)'
    <3>1. PICK ts : ts = counter[n]  OBVIOUS
    <3>2. Over(counter[n]) => Over(ts)'  BY <1>10, <3>1, OverHolds
    <3>3. submissions(n)' - 1 = ts  BY <1>1, <1>9, <3>1 DEF submissions
    <3> QED BY <1>8, <1>9, <3>2, <3>3, Zenon
  <2>3. data'[n].metrics_nr # 0 /\ total_metrics'[n] # 0
    BY <1>8, <1>9
  <2> QED BY <1>9, <2>1, <2>2, <2>3, Zenon DEF NodeSpeaks
<1>13. ASSUME NEW k \in NonLeaf, k # n PROVE NodeSpeaks(k)'
  <2>1. /\ multi'[k] = multi[k] /\ inbox'[k] = inbox[k]
        /\ first_pulse'[k] = first_pulse[k]
    BY <1>2
  <2> QED BY <1>1, <1>9, <1>10, <1>13, <2>1, LeafRank, NodeHolds DEF QuietInv
<1>14. \A l \in Leaf : counter'[l] = 0 => total_metrics'[l] = 0
  BY <1>1, <1>9, LeafRank DEF QuietInv
<1>15. root_finished' => Over(pulse - 1)'
  <2>1. PICK ts : ts = pulse - 1  OBVIOUS
  <2> QED BY <1>2, <1>10, <2>1, OverHolds DEF QuietInv
<1> QED BY <1>11, <1>12, <1>13, <1>14, <1>15 DEF QuietInv

\* The root takes the end for the end and nothing else.
LEMMA final_resultQuiet ==
  ASSUME Calm, MergeInv, TypeOK', QuietInv, final_result
  PROVE  QuietInv'
<1>1. /\ PulseInv /\ TypeOK /\ ROOT \in Rank /\ pulse \in Nat
      /\ link[ROOT] \in Seq(metrics_t) /\ link[ROOT] # <<>>
      /\ AllSpoken(link[ROOT])
  BY RankType DEF MergeInv, PulseInv, TypeOK, final_result, QuietInv
<1>2. PICK e : e = Head(link[ROOT])  OBVIOUS
<1>3. /\ link' = [link EXCEPT ![ROOT] = Tail(link[ROOT])]
      /\ pulse' = pulse + 1
      /\ root_finished' = (root_finished \/ FinishesRoot(e))
      /\ UNCHANGED <<running, counter, total_metrics, multi, stage, inbox,
                     first_pulse, data>>
  BY <1>2 DEF final_result, leafVars, ownVars
<1>4. /\ e.timestamp = pulse /\ e \in Spoken
      /\ AllSpoken(Tail(link[ROOT]))
      /\ Consecutive(link[ROOT], Arrived(ROOT))
  BY <1>1, <1>2, TailIn, final_resultInv
     DEF AllSpoken, PulseInv, LinkInv
<1>5. Speaks(e) /\ Sound(e)
  <2>1. Len(link[ROOT]) \in Nat \ {0}  BY <1>1, EmptySeq
  <2>2. e = link[ROOT][1] /\ 1 \in 1 .. Len(link[ROOT])
    BY <1>1, <1>2, <2>1
  <2> QED BY <1>4, <2>2 DEF Spoken, Consecutive
<1>6. Steady  BY <1>3 DEF Steady
<1>7. /\ link'[ROOT] = Tail(link[ROOT])
      /\ \A x \in Rank : x # ROOT => link'[x] = link[x]
  BY <1>1, <1>3 DEF TypeOK
<1>8. ASSUME NEW x \in Rank PROVE AllSpoken(link[x])'
  <2>1. PICK q : q = link'[x]  OBVIOUS
  <2>2. AllSpoken(q)  BY <1>4, <1>7, <2>1 DEF QuietInv
  <2>3. AllSpoken(q)'  BY <1>1, <1>6, <2>2, AllSpokenHolds
  <2> QED BY <2>1, <2>3
<1>9. \A n \in NonLeaf : NodeSpeaks(n)'
  BY <1>1, <1>3, <1>6, NodeHolds DEF QuietInv
<1>10. ~root_finished
  <2> SUFFICES ASSUME Over(pulse - 1) PROVE FALSE  BY DEF QuietInv
  <2>1. CASE BENCHMARKING
    <3>1. pulse - 1 = max_timestamps - 1  BY <2>1 DEF Over
    <3>2. pulse < max_timestamps  BY <1>4, <1>5, <2>1 DEF Sound
    <3> QED BY <1>1, <3>1, <3>2, AggregationAssumption
  <2>2. CASE ~BENCHMARKING
    <3>1. PICK l \in Leaf : pulse < counter[l]
      BY <1>4, <1>5, <2>2 DEF Speaks, Reached
    <3>2. \A k \in Leaf : k = l  BY <2>2 DEF Calm
    <3>3. counter[l] \in Nat  BY <1>1, LeafRank DEF TypeOK
    <3>4. counter[l] = (pulse - 1) + 1  BY <2>2, <3>2 DEF Over
    <3> QED BY <1>1, <3>1, <3>3, <3>4
  <2> QED BY <2>1, <2>2
<1>11. root_finished' => Over(pulse)
  <2>1. root_finished' => FinishesRoot(e)  BY <1>3, <1>10
  <2>2. e.metrics_nr # 0 /\ (e.quit <=> Over(pulse))
    BY <1>4, <1>5, Zenon DEF Speaks
  <2>3. BENCHMARKING /\ pulse = max_timestamps - 1 => Over(pulse)
    BY DEF Over
  <2> QED BY <1>4, <2>1, <2>2, <2>3, Zenon DEF FinishesRoot
<1>12. root_finished' => Over(pulse - 1)'
  <2>1. PICK ts : ts = pulse  OBVIOUS
  <2>2. pulse' - 1 = ts  BY <1>1, <1>3, <2>1
  <2> QED BY <1>6, <1>11, <2>1, <2>2, OverHolds
<1>13. \A l \in Leaf : counter'[l] = 0 => total_metrics'[l] = 0
  BY <1>3 DEF QuietInv
<1> QED BY <1>8, <1>9, <1>12, <1>13 DEF QuietInv

\* QuietInv is inductive.
LEMMA QuietInvKept ==
  ASSUME Calm, MergeInv, QuietInv, [Next]_vars
  PROVE  QuietInv'
<1>1. TypeOK' /\ TypeOK /\ PulseInv  BY TypeKept DEF MergeInv, PulseInv
<1>2. CASE EditFile
  BY <1>1, <1>2, UnchangedQuiet DEF EditFile, leafVars, rootVars
<1>3. ASSUME NEW l \in Leaf, monitoring_finalize_leaf(l) PROVE QuietInv'
  BY <1>1, <1>3, UnchangedQuiet DEF monitoring_finalize_leaf, rootVars
<1>4. ASSUME NEW l \in Leaf, start_communication(l) PROVE QuietInv'
  BY <1>1, <1>4, start_communicationQuiet
<1>5. ASSUME NEW n \in NonLeaf, NEW c \in children(n), Arrive(c)
      PROVE  QuietInv'
  BY <1>1, <1>5, ChildRank, ArriveQuiet
<1>6. ASSUME NEW n \in NonLeaf, compute_own_metrics(n) PROVE QuietInv'
  BY <1>1, <1>6, WaitForOthersQuiet, SubmitOwnQuiet DEF compute_own_metrics
<1>7. ASSUME NEW n \in NonLeaf, FinishPulse(n) PROVE QuietInv'
  BY <1>1, <1>7, FinishPulseQuiet
<1>8. CASE final_result  BY <1>1, <1>8, final_resultQuiet
<1>9. CASE UNCHANGED vars
  BY <1>1, <1>9, UnchangedQuiet DEF vars, leafVars, ownVars, rootVars
<1> QED BY <1>2, <1>3, <1>4, <1>5, <1>6, <1>7, <1>8, <1>9
        DEF Next, comm_thread
-----------------------------------------------------------------------------
\* Once the root has taken the end, no event of a later pulse can exist.
LEMMA NothingAfterEnd ==
  ASSUME Calm, PulseInv, QuietInv, root_finished, NEW ts \in Nat, Reached(ts),
         BENCHMARKING => ts < max_timestamps
  PROVE  ts < pulse
<1>1. Over(pulse - 1) /\ TypeOK /\ pulse \in Nat
  BY DEF QuietInv, PulseInv, TypeOK
<1>2. CASE BENCHMARKING
  <2>1. pulse - 1 = max_timestamps - 1  BY <1>1, <1>2 DEF Over
  <2> QED BY <1>1, <1>2, <2>1, AggregationAssumption
<1>3. CASE ~BENCHMARKING
  <2>1. PICK l \in Leaf : ts < counter[l]  BY <1>3 DEF Reached
  <2>2. \A k \in Leaf : k = l  BY <1>3 DEF Calm
  <2>3. counter[l] = (pulse - 1) + 1  BY <1>1, <1>3, <2>2 DEF Over
  <2> QED BY <1>1, <2>1, <2>3
<1> QED BY <1>2, <1>3

\* Every process has come as far as the root.
LEMMA AllReachRoot ==
  ASSUME MergeInv, NEW r \in Rank
  PROVE  /\ pulse \in Nat /\ submissions(r) \in Nat /\ submissions(r) >= pulse
         /\ Arrived(r) \in Int /\ Arrived(r) >= pulse
         /\ r \in NonLeaf => multi[r].pulse_timestamp >= pulse
<1>1. /\ PulseInv /\ TypeOK /\ ROOT \in Rank /\ pulse = Arrived(ROOT)
      /\ pulse \in Nat
  BY RankType DEF MergeInv, PulseInv, TypeOK
<1>2. ASSUME NEW x \in Rank
      PROVE  /\ submissions(x) \in Nat /\ submissions(x) >= pulse
             /\ Sent(x) \in Nat /\ Sent(x) >= pulse /\ Arrived(x) \in Int
  <2>1. Sent(x) \in Nat /\ Sent(ROOT) \in Nat /\ Arrived(x) \in Int
    BY <1>1, SentType
  <2>2. Len(link[ROOT]) \in Nat  BY <1>1, LenProperties DEF TypeOK
  <2>3. Sent(ROOT) >= pulse  BY <1>1, <2>1, <2>2 DEF Arrived
  <2>4. /\ Sent(x) >= Sent(ROOT)
        /\ x \in NonLeaf => submissions(x) >= Sent(x)
    BY <1>1, SubOfRoot, SentBelow
  <2>5. x \in Leaf => submissions(x) = Sent(x)
    BY DEF Sent, submissions, NonLeaf
  <2>6. submissions(x) \in Nat
    <3>1. counter[x] \in Nat  BY <1>1 DEF TypeOK
    <3> QED BY <3>1 DEF submissions
  <2> QED BY <1>1, <2>1, <2>3, <2>4, <2>5, <2>6 DEF NonLeaf
<1>3. Arrived(r) >= pulse
  <2>1. CASE r = ROOT  BY <1>1, <2>1
  <2>2. CASE r # ROOT
    <3>1. PICK n \in NonLeaf : n = get_parent(r) /\ n \in Rank
      BY <2>2, ParentIsNotLeaf, LeafRank DEF NonLeaf
    <3>2. r \in children(n)  BY <2>2, <3>1, ChildrenHaveParent
    <3>3. Arrived(r) >= submissions(n)
      BY <1>1, <3>2 DEF PulseInv, ProcessInv, HashInv
    <3> QED BY <1>1, <1>2, <3>1, <3>3
  <2> QED BY <2>1, <2>2
<1>4. r \in NonLeaf => multi[r].pulse_timestamp = Sent(r)
  BY DEF Sent, NonLeaf
<1> QED BY <1>1, <1>2, <1>3, <1>4

\* The end of the root is the end of all.
LEMMA QuietAtEnd == Calm /\ MergeInv /\ QuietInv => QuietWhenFinished
<1> SUFFICES ASSUME Calm, MergeInv, QuietInv, root_finished
             PROVE  /\ \A l \in Leaf : ~running[l]
                    /\ \A r \in Rank : link[r] = <<>>
                    /\ \A n \in NonLeaf :
                         multi[n].queue = <<>> /\ stage[n] # "terminal"
  BY DEF QuietWhenFinished
<1>1. PulseInv /\ TypeOK /\ Over(pulse - 1) /\ pulse \in Nat
  BY DEF MergeInv, PulseInv, TypeOK, QuietInv
<1>2. ASSUME NEW e \in Spoken, e.timestamp >= pulse,
             BENCHMARKING => e.timestamp < max_timestamps
      PROVE  FALSE
  <2>1. PICK ts \in Nat : ts = e.timestamp  BY DEF Spoken, metrics_t
  <2>2. Reached(ts)  BY <2>1 DEF Spoken, Speaks
  <2> QED BY <1>1, <1>2, <2>1, <2>2, NothingAfterEnd
<1>3. ASSUME NEW l \in Leaf PROVE ~running[l]
  <2>1. l \in Rank /\ counter[l] \in Nat /\ counter[l] >= pulse
    <3>1. l \in Rank /\ submissions(l) = counter[l]
      BY LeafRank DEF submissions, NonLeaf
    <3> QED BY <3>1, AllReachRoot
  <2>2. CASE BENCHMARKING
    <3>1. pulse - 1 = max_timestamps - 1  BY <1>1, <2>2 DEF Over
    <3>2. running[l] => counter[l] < max_timestamps
      BY <1>1, <2>2 DEF PulseInv, LeafInv
    <3> QED BY <1>1, <2>1, <3>1, <3>2, AggregationAssumption
  <2>3. CASE ~BENCHMARKING
    <3>1. \A k \in Leaf : k = l  BY <2>3 DEF Calm
    <3> QED BY <1>1, <2>3, <3>1 DEF Over
  <2> QED BY <2>2, <2>3
<1>4. ASSUME NEW r \in Rank, link[r] # <<>> PROVE FALSE
  <2>1. link[r] \in Seq(metrics_t) /\ Len(link[r]) \in Nat \ {0}
    BY <1>1, <1>4, EmptySeq DEF TypeOK
  <2>2. 1 \in 1 .. Len(link[r])  BY <2>1
  <2>3. link[r][1] \in Spoken  BY <2>2 DEF QuietInv, AllSpoken
  <2>4. Arrived(r) \in Int /\ Arrived(r) >= pulse  BY AllReachRoot
  <2>5. link[r][1].timestamp = Arrived(r) + 1 - 1 /\ Sound(link[r][1])
    BY <1>1, <2>2 DEF PulseInv, LinkInv, Consecutive
  <2> QED BY <1>1, <1>2, <2>3, <2>4, <2>5 DEF Sound
<1>5. ASSUME NEW n \in NonLeaf PROVE multi[n].queue = <<>>
  <2> SUFFICES ASSUME multi[n].queue # <<>> PROVE FALSE  OBVIOUS
  <2>1. multi[n] \in multi_stone_t /\ n \in Rank
    BY <1>1, LeafRank DEF TypeOK
  <2>2. multi[n].queue \in Seq(metrics_t) /\ Len(multi[n].queue) \in Nat \ {0}
    BY <2>1, EmptySeq DEF multi_stone_t
  <2>3. 1 \in 1 .. Len(multi[n].queue)  BY <2>2
  <2>4. multi[n].queue[1] \in Spoken
    BY <2>3 DEF QuietInv, NodeSpeaks, StoneIn
  <2>5. multi[n].queue[1].timestamp >= multi[n].pulse_timestamp
    BY <2>3 DEF MergeInv, Tidy, Merges, Filed, Waiting
  <2>6. Sound(multi[n].queue[1])
    BY <1>1, <2>3 DEF PulseInv, ProcessInv, StoneInv, MultiInv
  <2>7. multi[n].pulse_timestamp >= pulse  BY <2>1, AllReachRoot
  <2>8. /\ multi[n].queue[1].timestamp \in Nat
        /\ multi[n].pulse_timestamp \in Nat
    BY <2>1, <2>4 DEF Spoken, metrics_t, multi_stone_t
  <2>9. multi[n].queue[1].timestamp >= pulse  BY <1>1, <2>5, <2>7, <2>8
  <2> QED BY <1>2, <2>4, <2>6, <2>9 DEF Sound
<1>6. ASSUME NEW n \in NonLeaf, stage[n] = "terminal" PROVE FALSE
  <2>1. /\ NodeSpeaks(n) /\ ProcessInv(n)
        /\ submissions(n) \in Nat /\ submissions(n) >= pulse
    BY <1>1, LeafRank, AllReachRoot DEF QuietInv, PulseInv
  <2>2. submissions(n) = counter[n]  BY <1>6 DEF submissions
  <2>3. inbox[n] \in Spoken /\ inbox[n].timestamp \in Nat
    BY <1>6, <2>1 DEF NodeSpeaks, Spoken, metrics_t
  <2>4. /\ inbox[n].timestamp >= counter[n]
        /\ BENCHMARKING => inbox[n].timestamp < max_timestamps
    BY <1>6, <2>1 DEF ProcessInv, HashInv
  <2>5. inbox[n].timestamp >= pulse  BY <1>1, <2>1, <2>2, <2>3, <2>4
  <2> QED BY <1>2, <2>3, <2>4, <2>5
<1> QED BY <1>3, <1>4, <1>5, <1>6

(***************************************************************************)
(* When the root reports that the run is over, every leaf is out of its    *)
(* loop and no event is on its way or queued, provided that the leaves     *)
(* stop at the same pulse and the aliases file always asks for a metric.   *)
(***************************************************************************)
THEOREM QuietCorrect ==
  ASSUME Calm
  PROVE  Spec => []QuietWhenFinished
<1>1. Init => MergeInv /\ QuietInv  BY InitMergeInv, InitQuiet
<1>2. MergeInv /\ QuietInv /\ [Next]_vars => (MergeInv /\ QuietInv)'
  BY MergeInvKept, QuietInvKept
<1>3. MergeInv /\ QuietInv => QuietWhenFinished  BY QuietAtEnd
<1> QED BY <1>1, <1>2, <1>3, PTL DEF Spec
-----------------------------------------------------------------------------
(***************************************************************************)
(* The numbers of metrics in a chain.  With one leaf, the numbers it sends *)
(* determine the metrics_nr and update_file of every event on the way: an  *)
(* inner process adds its own event to its child's and never opens an      *)
(* aggregation with it.                                                    *)
(***************************************************************************)
\* Every event that some process has still to look at.
EventsIn(S) ==
  /\ \A c \in Rank : \A i \in 1 .. Len(link[c]) : link[c][i] \in S
  /\ \A n \in NonLeaf : /\ StoneIn(multi[n], S)
                        /\ stage[n] # "idle" => inbox[n] \in S

\* A larger set.
LEMMA EventsInLarger ==
  ASSUME NEW S, NEW T, S \subseteq T, EventsIn(S)
  PROVE  EventsIn(T)
BY DEF EventsIn, StoneIn

\* A step that leaves the events alone, or is done with one of them.
LEMMA EventsKept ==
  ASSUME NEW S, EventsIn(S), UNCHANGED <<link, multi, inbox>>,
         \A n \in NonLeaf : stage'[n] \in {stage[n], "idle"}
  PROVE  EventsIn(S)'
BY DEF EventsIn

\* A leaf sends one.
LEMMA LeafSendsIn ==
  ASSUME TypeOK, NEW S, EventsIn(S), NEW l \in Leaf, NEW e \in S,
         e \in metrics_t, link' = [link EXCEPT ![l] = Append(link[l], e)],
         UNCHANGED <<multi, inbox, stage>>
  PROVE  EventsIn(S)'
<1>1. l \in Rank /\ link[l] \in Seq(metrics_t)  BY LeafRank DEF TypeOK
<1>2. /\ link'[l] = Append(link[l], e)
      /\ \A c \in Rank : c # l => link'[c] = link[c]
  BY <1>1 DEF TypeOK
<1>3. \A i \in 1 .. Len(Append(link[l], e)) : Append(link[l], e)[i] \in S
  BY <1>1, AppendIn DEF EventsIn
<1> QED BY <1>2, <1>3 DEF EventsIn

\* A child's event comes in.
LEMMA ArriveIn ==
  ASSUME PulseInv, NEW S, Indifferent(S), EventsIn(S), NEW c \in Rank,
         Arrive(c)
  PROVE  EventsIn(S)'
<1> DEFINE n == get_parent(c)
<1>1. /\ TypeOK /\ c # ROOT /\ n \in NonLeaf /\ n \in Rank /\ n # c
      /\ c \in children(n)
  <2>1. TypeOK /\ c # ROOT  BY DEF PulseInv, Arrive
  <2>2. n \in NonLeaf /\ n \in Rank /\ n # c
    BY <2>1, ParentIsNotLeaf, ParentIsBelow, RankType DEF NonLeaf
  <2>3. c \in children(n)  BY <2>1, <2>2, ChildrenHaveParent
  <2> QED BY <2>1, <2>2, <2>3
<1>2. /\ link[c] \in Seq(metrics_t) /\ link[c] # <<>>
      /\ Arrived(c) \in Int /\ Consecutive(link[c], Arrived(c))
  BY <1>1, SentType DEF PulseInv, TypeOK, Arrive, LinkInv
<1>3. /\ Head(link[c]) \in S /\ Sound(Head(link[c]))
      /\ Head(link[c]).timestamp = Arrived(c)
      /\ \A i \in 1 .. Len(Tail(link[c])) : Tail(link[c])[i] \in S
  BY <1>2, ConsecutiveTail, TailIn DEF EventsIn
<1>4. PICK e \in S : e = Head(link[c])  BY <1>3
<1>5. PICK m \in multi_stone_t : m = multi[n]  BY <1>1 DEF TypeOK
<1>6. PICK s : s = Submitted(m, e)  OBVIOUS
<1>7. PICK r : r = multi_func(m, e)  OBVIOUS
<1>8. StoneIn(r, S) /\ (s = <<>> \/ \E a \in S : s = <<a>>)
  <2>1. StoneIn(m, S) /\ MultiInv(m) /\ (m.max_degree = -1 => e.timestamp = 0)
    BY <1>1, <1>3, <1>4, <1>5 DEF EventsIn, PulseInv, ProcessInv, StoneInv
  <2> QED BY <1>3, <1>4, <1>6, <1>7, <2>1, multi_funcIn
<1>9. PICK q \in Seq(metrics_t) : q = link[n]  BY <1>1 DEF TypeOK
<1>10. \A i \in 1 .. Len(q \o s) : (q \o s)[i] \in S
  BY <1>1, <1>8, <1>9, AnswerIn DEF EventsIn, Indifferent
<1>11. PICK z : z = q \o s  OBVIOUS
<1>12. /\ link' = [link EXCEPT ![c] = Tail(link[c]), ![n] = z]
       /\ multi' = [multi EXCEPT ![n] = r]
       /\ inbox' = [inbox EXCEPT ![n] = e]
       /\ stage' = [stage EXCEPT ![n] = "terminal"]
  BY <1>1, <1>4, <1>5, <1>6, <1>7, <1>9, <1>11, Zenon DEF Arrive, TypeOK
<1> HIDE DEF n
<1>13. /\ link'[c] = Tail(link[c]) /\ link'[n] = z
       /\ \A x \in Rank : x # c /\ x # n => link'[x] = link[x]
       /\ multi'[n] = r /\ inbox'[n] = e
       /\ \A k \in NonLeaf : k # n => /\ multi'[k] = multi[k]
                                     /\ inbox'[k] = inbox[k]
                                     /\ stage'[k] = stage[k]
  BY <1>1, <1>12 DEF TypeOK
<1>14. \A x \in Rank : \A i \in 1 .. Len(link'[x]) : link'[x][i] \in S
  BY <1>3, <1>10, <1>11, <1>13 DEF EventsIn
<1>15. \A k \in NonLeaf : /\ StoneIn(multi'[k], S)
                          /\ stage'[k] # "idle" => inbox'[k] \in S
  BY <1>8, <1>13 DEF EventsIn
<1> QED BY <1>14, <1>15 DEF EventsIn

\* A process submits its own, which need not be of the set.
LEMMA SubmitOwnIn ==
  ASSUME MergeInv, StonesLow, NEW S, Indifferent(S), EventsIn(S),
         NEW n \in NonLeaf, stage[n] = "terminal", SubmitOwn(n),
         UNCHANGED inbox
  PROVE  EventsIn(S)'
<1> DEFINE own == OwnEvent(n, inbox[n])
<1>1. /\ PulseInv /\ TypeOK /\ n \in Rank /\ counter[n] \in Nat
      /\ inbox[n] \in S /\ submissions(n) = counter[n]
  BY LeafRank DEF MergeInv, PulseInv, TypeOK, EventsIn, submissions
<1>2. /\ multi' = [multi EXCEPT ![n] = multi_func(multi[n], own)]
      /\ link' = [link EXCEPT ![n] = link[n] \o Submitted(multi[n], own)]
      /\ stage' = [stage EXCEPT ![n] = "submitted"]
      /\ CountOf(Counted(n), counter[n]) = get_degree_node(n)
  BY DEF SubmitOwn
<1>3. /\ children(n) # {} /\ own \in metrics_t /\ Sound(own)
      /\ own.timestamp = counter[n]
      /\ \A c \in children(n) : Arrived(c) > counter[n]
  BY <1>1, <1>2, OwnEventMerge, OwnEventInv
<1>4. PICK e \in metrics_t : e = own  BY <1>3
<1> HIDE DEF own
<1>5. PICK m \in multi_stone_t : m = multi[n]  BY <1>1 DEF TypeOK
<1>6. PICK s : s = Submitted(m, e)  OBVIOUS
<1>7. PICK r : r = multi_func(m, e)  OBVIOUS
<1>8. StoneIn(r, S) /\ (s = <<>> \/ \E a \in S : s = <<a>>)
  <2>1. PICK supply \in [Source(n) -> Nat] : supply = Supply(n)
    BY <1>1, SupplyType
  <2>2. /\ Merges(n, m, supply) /\ NoMatch(m)
        /\ m.pulse_timestamp = counter[n]
    BY <1>1, <1>5, <2>1 DEF MergeInv, Tidy, StonesLow, InStep
  <2>3. PICK c \in children(n) : TRUE  BY <1>3
  <2>4. supply[n] = counter[n] /\ supply[c] > counter[n]
    BY <1>1, <1>3, <2>1, SupplyType
  <2>5. /\ StoneIn(m, S) /\ MultiInv(m) /\ m.max_degree # -1
    BY <1>1, <1>5 DEF EventsIn, PulseInv, ProcessInv, StoneInv
  <2>6. StoneIn(Activate(m, e), S)
    BY <1>3, <1>4, <2>2, <2>4, <2>5, OwnMergedIn
  <2> QED BY <1>3, <1>4, <1>6, <1>7, <2>5, <2>6, CompletedIn
<1>9. PICK q \in Seq(metrics_t) : q = link[n]  BY <1>1 DEF TypeOK
<1>10. \A i \in 1 .. Len(q \o s) : (q \o s)[i] \in S
  BY <1>1, <1>8, <1>9, AnswerIn DEF EventsIn, Indifferent
<1>11. PICK z : z = q \o s  OBVIOUS
<1>12. /\ link' = [link EXCEPT ![n] = z] /\ multi' = [multi EXCEPT ![n] = r]
  BY <1>2, <1>4, <1>5, <1>6, <1>7, <1>9, <1>11
<1>13. /\ link'[n] = z /\ multi'[n] = r
       /\ \A x \in Rank : x # n => link'[x] = link[x]
       /\ \A k \in NonLeaf : k # n => /\ multi'[k] = multi[k]
                                     /\ stage'[k] = stage[k]
  BY <1>1, <1>2, <1>12 DEF TypeOK
<1>14. \A x \in Rank : \A i \in 1 .. Len(link'[x]) : link'[x][i] \in S
  BY <1>10, <1>11, <1>13 DEF EventsIn
<1>15. \A k \in NonLeaf : /\ StoneIn(multi'[k], S)
                          /\ stage'[k] # "idle" => inbox'[k] \in S
  BY <1>1, <1>8, <1>13 DEF EventsIn
<1> QED BY <1>14, <1>15 DEF EventsIn

\* The root takes a result.
LEMMA final_resultIn ==
  ASSUME TypeOK, NEW S, EventsIn(S), final_result
  PROVE  EventsIn(S)' /\ Head(link[ROOT]) \in S
<1>1. /\ link[ROOT] \in Seq(metrics_t) /\ link[ROOT] # <<>> /\ ROOT \in Rank
      /\ link' = [link EXCEPT ![ROOT] = Tail(link[ROOT])]
      /\ UNCHANGED <<multi, inbox, stage>>
  BY RankType DEF TypeOK, final_result
<1>2. /\ Head(link[ROOT]) \in S
      /\ \A i \in 1 .. Len(Tail(link[ROOT])) : Tail(link[ROOT])[i] \in S
  BY <1>1, TailIn DEF EventsIn
<1>3. /\ link'[ROOT] = Tail(link[ROOT])
      /\ \A c \in Rank : c # ROOT => link'[c] = link[c]
  BY <1>1 DEF TypeOK
<1> QED BY <1>1, <1>2, <1>3 DEF EventsIn
-----------------------------------------------------------------------------
(***************************************************************************)
(* No variable keeps what the leaf has sent, so the invariant says that    *)
(* there is a history h of its numbers, known for k pulses, that explains  *)
(* all events.                                                             *)
(***************************************************************************)
\* The number of the pulse before; the leaf starts from 0.
Before(h, t) == IF t = 0 THEN 0 ELSE h[t - 1]

Changes(h, t) == needs_sync(h[t], Before(h, t))

\* The events that tell the numbers of h of a pulse below k.
Told(h, k) == {e \in metrics_t : /\ e.timestamp < k
                                 /\ e.metrics_nr = h[e.timestamp]
                                 /\ e.update_file = Changes(h, e.timestamp)}

NumbersInv(h, k) ==
  /\ \A t \in Nat : t < k => h[t] \in AliasNumbers
  /\ EventsIn(Told(h, k))
  /\ \A l \in Leaf : counter[l] = k /\ total_metrics[l] = Before(h, k)
  /\ \A n \in NonLeaf : submissions(n) <= k
  /\ pulse <= k
  /\ ~BENCHMARKING /\ pulse > 0 => monitoring_results.written = h[pulse - 1]
  /\ monitoring_results.written <= monitoring_results.size

\* What the leaf adds to a history.
Recorded(h, k) == [h EXCEPT ![k] = file]

\* A chain has one leaf.
LEMMA ChainLeaf ==
  ASSUME max_degree = 1, NEW l \in Leaf, NEW j \in Leaf
  PROVE  l = j
BY TopologyAssumption DEF Leaf, Rank, is_leaf

\* parent_rank and gather_info do not matter.
LEMMA ToldIndifferent ==
  ASSUME NEW h, NEW k
  PROVE  Indifferent(Told(h, k))
<1>1. Told(h, k) \subseteq metrics_t  BY DEF Told
<1>2. ASSUME NEW e \in Told(h, k), NEW r \in Int
      PROVE  [e EXCEPT !.parent_rank = r] \in Told(h, k)
  <2> DEFINE a == [e EXCEPT !.parent_rank = r]
  <2>1. e \in metrics_t  BY DEF Told
  <2>2. /\ a \in metrics_t /\ a.metrics_nr = e.metrics_nr
        /\ a.timestamp = e.timestamp /\ a.update_file = e.update_file
    BY <2>1 DEF metrics_t
  <2> HIDE DEF a
  <2>3. a \in Told(h, k)  BY <2>2 DEF Told
  <2> QED BY <2>3 DEF a
<1>3. ASSUME NEW e \in Told(h, k), NEW g \in Info
      PROVE  [e EXCEPT !.gather_info = g] \in Told(h, k)
  <2> DEFINE a == [e EXCEPT !.gather_info = g]
  <2>1. e \in metrics_t  BY DEF Told
  <2>2. /\ a \in metrics_t /\ a.metrics_nr = e.metrics_nr
        /\ a.timestamp = e.timestamp /\ a.update_file = e.update_file
    BY <2>1 DEF metrics_t
  <2> HIDE DEF a
  <2>3. a \in Told(h, k)  BY <2>2 DEF Told
  <2> QED BY <2>3 DEF a
<1> QED BY <1>1, <1>2, <1>3 DEF Indifferent

\* A history that goes on says the same of the pulses before.
LEMMA HistoryGoesOn ==
  ASSUME NEW h, NEW k \in Nat, NEW g, \A t \in Nat : t < k => g[t] = h[t]
  PROVE  /\ \A t \in Nat : t <= k => Before(g, t) = Before(h, t)
         /\ \A t \in Nat : t < k => Changes(g, t) = Changes(h, t)
         /\ Told(h, k) \subseteq Told(g, k + 1)
<1>2. \A t \in Nat : t < k => g[t] = h[t]  OBVIOUS
<1>3. ASSUME NEW t \in Nat, t <= k PROVE Before(g, t) = Before(h, t)
  <2>1. CASE t = 0  BY <2>1 DEF Before
  <2>2. CASE t # 0
    <3>1. t - 1 \in Nat /\ t - 1 < k  BY <1>3, <2>2
    <3>2. g[t - 1] = h[t - 1]  BY <1>2, <3>1
    <3> QED BY <2>2, <3>2 DEF Before
  <2> QED BY <2>1, <2>2
<1>4. ASSUME NEW t \in Nat, t < k PROVE Changes(g, t) = Changes(h, t)
  <2>1. t <= k  BY <1>4
  <2>2. Before(g, t) = Before(h, t)  BY <1>3, <2>1
  <2>3. g[t] = h[t]  BY <1>2, <1>4
  <2> QED BY <2>2, <2>3, Zenon DEF Changes
<1>5. ASSUME NEW e \in Told(h, k) PROVE e \in Told(g, k + 1)
  <2>1. /\ e \in metrics_t /\ e.timestamp \in Nat /\ e.timestamp < k
        /\ e.metrics_nr = h[e.timestamp]
        /\ e.update_file = Changes(h, e.timestamp)
    BY DEF Told, metrics_t
  <2>2. PICK t \in Nat : t = e.timestamp  BY <2>1
  <2>3. t < k /\ t < k + 1  BY <2>1, <2>2
  <2>4. g[t] = h[t]  BY <1>2, <2>2, <2>3
  <2>5. Changes(g, t) = Changes(h, t)  BY <1>4, <2>2, <2>3
  <2>6. /\ e \in metrics_t /\ e.timestamp < k + 1
        /\ e.metrics_nr = g[e.timestamp]
        /\ e.update_file = Changes(g, e.timestamp)
    BY <2>1, <2>2, <2>3, <2>4, <2>5, Zenon
  <2> QED BY <2>6, Zenon DEF Told
<1> QED BY <1>3, <1>4, <1>5

\* Nothing has been sent.
LEMMA InitNumbers ==
  ASSUME Init, NEW h \in [Nat -> Nat]
  PROVE  NumbersInv(h, 0)
<1>1. EventsIn(Told(h, 0))
  BY DEF Init, EventsIn, StoneIn, InitialMulti
<1>2. \A r \in Rank : counter[r] = 0 /\ total_metrics[r] = 0  BY DEF Init
<1>3. /\ pulse = 0 /\ monitoring_results.written = 0
      /\ monitoring_results.size = 0
  BY DEF Init
<1>4. \A n \in NonLeaf : submissions(n) = 0
  BY LeafRank DEF Init, submissions
<1> QED BY <1>1, <1>2, <1>3, <1>4, LeafRank DEF NumbersInv, Before

\* The leaf sends the number it finds in the file.
LEMMA LeafNumbers ==
  ASSUME max_degree = 1, TypeOK, NEW h \in [Nat -> Nat], NEW k \in Nat,
         NumbersInv(h, k), NEW l \in Leaf, start_communication(l),
         NEW g, g = Recorded(h, k)
  PROVE  NumbersInv(g, k + 1)'
<1> DEFINE event ==
                [timestamp   |-> counter[l],
                 quit        |-> QuitNow(l),
                 update_file |-> needs_sync(file, total_metrics[l]),
                 parent_rank |-> get_parent(l),
                 metrics_nr  |-> file,
                 gather_info |-> OwnInfo(l, counter[l], file)]
<1>1. /\ l \in Rank /\ counter[l] = k /\ total_metrics[l] = Before(h, k)
      /\ link[l] \in Seq(metrics_t) /\ file \in AliasNumbers /\ file \in Nat
      /\ pulse \in Nat
  BY LeafRank, FileType DEF TypeOK, NumbersInv
<1>2. PICK e \in metrics_t : e = event
  <2>1. event \in metrics_t  BY <1>1, LeafEventType, QuitNowType
  <2> QED BY <2>1
<1>3. /\ e.timestamp = k /\ e.metrics_nr = file
      /\ e.update_file = needs_sync(file, Before(h, k))
  BY <1>1, <1>2
<1>4. /\ link' = [link EXCEPT ![l] = Append(link[l], e)]
      /\ counter' = [counter EXCEPT ![l] = k + 1]
      /\ total_metrics' = [total_metrics EXCEPT ![l] = file]
      /\ UNCHANGED <<file, multi, stage, inbox, rootVars>>
  BY <1>1, <1>2 DEF start_communication, SendEvent, fileVars
<1> HIDE DEF event
<1>5. PICK f \in Nat : f = file  BY <1>1
<1>6. /\ g \in [Nat -> Nat] /\ g[k] = file
      /\ \A t \in Nat : t < k => g[t] = h[t]
      /\ Before(g, k) = Before(h, k)
      /\ Told(h, k) \subseteq Told(g, k + 1)
  <2>1. g = [h EXCEPT ![k] = f]  BY <1>5 DEF Recorded
  <2>2. /\ g \in [Nat -> Nat] /\ g[k] = f
        /\ \A t \in Nat : t < k => g[t] = h[t]
    BY <2>1
  <2>3. \A t \in Nat : t < k => g[t] = h[t]  BY <2>2
  <2>4. /\ \A t \in Nat : t <= k => Before(g, t) = Before(h, t)
        /\ \A t \in Nat : t < k => Changes(g, t) = Changes(h, t)
        /\ Told(h, k) \subseteq Told(g, k + 1)
    BY ONLY <2>3, k \in Nat, HistoryGoesOn, Zenon
  <2> QED BY <1>5, <2>2, <2>4
<1>7. e \in Told(g, k + 1)
  <2>1. e.update_file = Changes(g, k)  BY <1>3, <1>6, Zenon DEF Changes
  <2> QED BY <1>2, <1>3, <1>6, <2>1 DEF Told
<1>8. EventsIn(Told(g, k + 1))'
  <2>1. PICK S : S = Told(g, k + 1)  OBVIOUS
  <2>2. EventsIn(S) /\ e \in S
    BY <1>6, <1>7, <2>1, EventsInLarger DEF NumbersInv
  <2>3. EventsIn(S)'  BY <1>4, <2>2, LeafSendsIn
  <2> QED BY <2>1, <2>3
<1>9. \A t \in Nat : t < k + 1 => g[t] \in AliasNumbers
  <2> SUFFICES ASSUME NEW t \in Nat, t < k + 1 PROVE g[t] \in AliasNumbers
    OBVIOUS
  <2>1. t = k \/ t < k  OBVIOUS
  <2> QED BY <1>1, <1>6, <2>1 DEF NumbersInv
<1>10. \A j \in Leaf : counter'[j] = k + 1 /\ total_metrics'[j] = Before(g, k + 1)
  <2>1. Before(g, k + 1) = file  BY <1>6 DEF Before
  <2>2. \A j \in Leaf : j = l  BY ChainLeaf
  <2>3. counter'[l] = k + 1 /\ total_metrics'[l] = file
    BY <1>1, <1>4 DEF TypeOK
  <2> QED BY <2>1, <2>2, <2>3
<1>11. \A n \in NonLeaf : submissions(n)' <= k + 1
  <2> SUFFICES ASSUME NEW n \in NonLeaf PROVE submissions(n)' <= k + 1
    OBVIOUS
  <2>1. n \in Rank /\ n # l  BY LeafRank DEF NonLeaf
  <2>2. counter'[n] = counter[n] /\ counter[n] \in Nat /\ stage' = stage
    BY <1>4, <2>1 DEF TypeOK
  <2>3. /\ submissions(n)' = submissions(n) /\ submissions(n) \in Nat
        /\ submissions(n) <= k
    BY <2>2 DEF submissions, NumbersInv
  <2> QED BY <2>3
<1>12. /\ pulse' = pulse /\ pulse <= k + 1
       /\ monitoring_results' = monitoring_results
  BY <1>1, <1>4 DEF NumbersInv, rootVars
<1>13. pulse > 0 => g[pulse - 1] = h[pulse - 1]
  <2>1. pulse \in Nat /\ pulse <= k  BY <1>1 DEF NumbersInv
  <2>2. pulse > 0 => pulse - 1 \in Nat /\ pulse - 1 < k  BY <2>1
  <2> QED BY <1>6, <2>2
<1>14. ~BENCHMARKING /\ pulse' > 0 =>
         monitoring_results'.written = g[pulse' - 1]
  BY <1>12, <1>13 DEF NumbersInv
<1>15. monitoring_results'.written <= monitoring_results'.size
  BY <1>12 DEF NumbersInv
<1> QED BY <1>8, <1>9, <1>10, <1>11, <1>12, <1>14, <1>15 DEF NumbersInv

\* A step that does not concern the numbers.
LEMMA SameNumbers ==
  ASSUME NEW h, NEW k, NumbersInv(h, k), EventsIn(Told(h, k))',
         \A l \in Leaf : /\ counter'[l] = counter[l]
                         /\ total_metrics'[l] = total_metrics[l],
         \A n \in NonLeaf : submissions(n)' <= k,
         UNCHANGED <<pulse, monitoring_results>>
  PROVE  NumbersInv(h, k)'
BY DEF NumbersInv

\* A step of the application.
LEMMA UnchangedNumbers ==
  ASSUME NEW h, NEW k, NumbersInv(h, k),
         UNCHANGED <<counter, total_metrics, link, multi, stage, inbox,
                     pulse, monitoring_results>>
  PROVE  NumbersInv(h, k)'
<1>1. PICK S : S = Told(h, k)  OBVIOUS
<1>2. EventsIn(S)'  BY <1>1 DEF NumbersInv, EventsIn
<1>3. \A n \in NonLeaf : submissions(n)' <= k
  BY DEF NumbersInv, submissions
<1> QED BY <1>1, <1>2, <1>3, SameNumbers

\* A step of an inner process.
LEMMA ProcessNumbers ==
  ASSUME MergeInv, StonesLow, NEW h, NEW k \in Nat, NumbersInv(h, k),
         NEW n \in NonLeaf,
         \/ \E c \in children(n) : Arrive(c)
         \/ compute_own_metrics(n)
         \/ FinishPulse(n)
  PROVE  NumbersInv(h, k)'
<1>1. /\ PulseInv /\ TypeOK /\ n \in Rank /\ n \notin Leaf
      /\ counter[n] \in Nat
      /\ \A x \in NonLeaf : submissions(x) <= k
  BY LeafRank DEF MergeInv, PulseInv, TypeOK, NumbersInv, NonLeaf
<1>0. ASSUME UNCHANGED counter, NEW v, v # "submitted",
             stage' = [stage EXCEPT ![n] = v], stage[n] # "submitted"
      PROVE  \A x \in NonLeaf : submissions(x)' <= k
  <2>1. \A x \in NonLeaf : submissions(x)' = submissions(x)
    BY <1>0, <1>1 DEF submissions, TypeOK
  <2> QED BY <1>1, <2>1
<1>2. PICK S : S = Told(h, k)  OBVIOUS
<1>3. EventsIn(S) /\ Indifferent(S)
  BY <1>2, ToldIndifferent DEF NumbersInv
<1>4. CASE \E c \in children(n) : Arrive(c)
  <2>1. PICK c \in children(n) : Arrive(c)  BY <1>4
  <2>2. c \in Rank  BY <1>1, ChildRank
  <2>3. EventsIn(S)'  BY <1>1, <1>3, <2>1, <2>2, ArriveIn
  <2>4. /\ UNCHANGED <<counter, total_metrics, pulse, monitoring_results>>
        /\ stage' = [stage EXCEPT ![n] = "terminal"] /\ stage[n] = "idle"
    <3>1. get_parent(c) = n  BY <1>1, <2>1, <2>2, ChildRank
    <3> QED BY <2>1, <3>1 DEF Arrive, rootVars
  <2>5. \A x \in NonLeaf : submissions(x)' <= k  BY <1>0, <2>4
  <2> QED BY <1>2, <2>3, <2>4, <2>5, SameNumbers
<1>5. CASE compute_own_metrics(n)
  <2>1. /\ stage[n] = "terminal"
        /\ WaitForOthers(n) \/ SubmitOwn(n)
        /\ UNCHANGED <<counter, inbox, pulse, monitoring_results>>
    BY <1>5 DEF compute_own_metrics, rootVars
  <2>2. CASE WaitForOthers(n)
    <3>1. /\ UNCHANGED <<total_metrics, link, multi>>
          /\ stage' = [stage EXCEPT ![n] = "idle"]
      BY <2>2 DEF WaitForOthers
    <3>2. \A x \in NonLeaf : stage'[x] \in {stage[x], "idle"}
      BY <1>1, <3>1 DEF TypeOK
    <3>3. EventsIn(S)'  BY <1>3, <2>1, <3>1, <3>2, EventsKept
    <3>4. \A x \in NonLeaf : submissions(x)' <= k  BY <1>0, <2>1, <3>1
    <3> QED BY <1>2, <2>1, <3>1, <3>3, <3>4, SameNumbers
  <2>3. CASE SubmitOwn(n)
    <3>1. EventsIn(S)'  BY <1>3, <2>1, <2>3, SubmitOwnIn
    <3>2. CountOf(Counted(n), counter[n]) = get_degree_node(n)
      BY <2>3 DEF SubmitOwn
    <3>3. inbox[n].timestamp = counter[n]  BY <2>1, <3>2, OwnEventMerge
    <3>4. counter[n] < k
      BY <1>2, <1>3, <2>1, <3>3 DEF EventsIn, Told
    <3>5. PICK v : total_metrics' = [total_metrics EXCEPT ![n] = v]
      BY <2>3 DEF SubmitOwn
    <3>6. stage' = [stage EXCEPT ![n] = "submitted"]  BY <2>3 DEF SubmitOwn
    <3>8. \A l \in Leaf : /\ counter'[l] = counter[l]
                          /\ total_metrics'[l] = total_metrics[l]
      BY <1>1, <2>1, <3>5, LeafRank DEF TypeOK
    <3>9. \A x \in NonLeaf : submissions(x)' <= k
      <4>1. submissions(n)' = counter[n] + 1
        BY <1>1, <2>1, <3>6 DEF TypeOK, submissions
      <4>2. submissions(n)' <= k
        <5>1. k \in Nat  OBVIOUS
        <5> QED BY <1>1, <3>4, <4>1, <5>1
      <4>3. \A x \in NonLeaf : x # n => submissions(x)' = submissions(x)
        BY <2>1, <3>6 DEF TypeOK, submissions
      <4> QED BY <1>1, <4>2, <4>3
    <3> QED BY <1>2, <2>1, <3>1, <3>8, <3>9, SameNumbers
  <2> QED BY <2>1, <2>2, <2>3
<1>6. CASE FinishPulse(n)
  <2>1. /\ stage' = [stage EXCEPT ![n] = "idle"] /\ stage[n] = "submitted"
        /\ counter' = [counter EXCEPT ![n] = counter[n] + 1]
        /\ UNCHANGED <<link, multi, inbox, pulse, monitoring_results>>
    BY <1>6 DEF FinishPulse, rootVars
  <2>2. PICK v : total_metrics' = [total_metrics EXCEPT ![n] = v]
    BY <1>6 DEF FinishPulse
  <2>3. \A x \in NonLeaf : stage'[x] \in {stage[x], "idle"}
    BY <1>1, <2>1 DEF TypeOK
  <2>4. EventsIn(S)'  BY <1>3, <2>1, <2>3, EventsKept
  <2>5. \A l \in Leaf : /\ counter'[l] = counter[l]
                        /\ total_metrics'[l] = total_metrics[l]
    BY <1>1, <2>1, <2>2, LeafRank DEF TypeOK
  <2>6. \A x \in NonLeaf : submissions(x)' = submissions(x)
    BY <1>1, <2>1, LeafRank DEF TypeOK, submissions
  <2> QED BY <1>1, <1>2, <2>1, <2>4, <2>5, <2>6, SameNumbers
<1> QED BY <1>4, <1>5, <1>6

\* The root takes the result of the pulse it counts.
LEMMA RootTakes ==
  ASSUME MergeInv, TypeOK', NEW h \in [Nat -> Nat], NEW k \in Nat,
         NumbersInv(h, k), final_result, NEW e, e = Head(link[ROOT])
  PROVE  /\ pulse < k /\ e.metrics_nr = h[pulse]
         /\ e.update_file = Changes(h, pulse) /\ h[pulse] \in Nat
<1>1. PulseInv /\ TypeOK /\ pulse \in Nat
  BY DEF MergeInv, PulseInv, TypeOK
<1>2. PICK S : S = Told(h, k)  OBVIOUS
<1>3. e \in S  BY <1>1, <1>2, final_resultIn DEF NumbersInv
<1>4. e.timestamp = pulse  BY <1>1, final_resultInv
<1> QED BY <1>1, <1>2, <1>3, <1>4 DEF Told

\* If it does not allocate anew, the number is that of the pulse before, or 0.
LEMMA RootNumbers ==
  ASSUME MergeInv, TypeOK', NEW h \in [Nat -> Nat], NEW k \in Nat,
         NumbersInv(h, k), final_result
  PROVE  NumbersInv(h, k)'
<1>1. /\ PulseInv /\ TypeOK /\ pulse \in Nat
      /\ monitoring_results.size \in Nat /\ monitoring_results.written \in Nat
  BY DEF MergeInv, PulseInv, TypeOK
<1>2. PICK S : S = Told(h, k)  OBVIOUS
<1>3. PICK e : e = Head(link[ROOT])  OBVIOUS
<1>4. EventsIn(S)'  BY <1>1, <1>2, final_resultIn DEF NumbersInv
<1>6. /\ pulse < k /\ e.metrics_nr = h[pulse]
      /\ e.update_file = Changes(h, pulse) /\ h[pulse] \in Nat
  BY <1>3, RootTakes
<1>7. /\ pulse' = pulse + 1
      /\ UNCHANGED <<counter, total_metrics, stage>>
      /\ BENCHMARKING => monitoring_results' = monitoring_results
      /\ ~BENCHMARKING =>
           monitoring_results' =
             [size        |-> IF Allocates(e) THEN e.metrics_nr
                              ELSE monitoring_results.size,
              written     |-> e.metrics_nr,
              gather_info |-> IF e.metrics_nr > 0 THEN e.gather_info
                              ELSE monitoring_results.gather_info]
  BY <1>3 DEF final_result
<1>8. pulse' > 0 /\ pulse' <= k /\ pulse' - 1 = pulse  BY <1>1, <1>6, <1>7
<1>9. ~BENCHMARKING => monitoring_results'.written = h[pulse' - 1]
  BY <1>6, <1>7, <1>8
<1>10. monitoring_results'.written <= monitoring_results'.size
  <2>1. CASE BENCHMARKING  BY <1>7, <2>1 DEF NumbersInv
  <2>2. CASE ~BENCHMARKING /\ Allocates(e)
    <3>1. /\ monitoring_results'.size = h[pulse]
          /\ monitoring_results'.written = h[pulse]
      BY <1>6, <1>7, <2>2
    <3> QED BY <1>6, <3>1
  <2>3. CASE ~BENCHMARKING /\ ~Allocates(e)
    <3>1. pulse > 0 /\ ~Changes(h, pulse)
      BY <1>1, <1>6, <2>3 DEF Allocates
    <3>2. Before(h, pulse) = h[pulse - 1]  BY <3>1 DEF Before
    <3>3. h[pulse] = h[pulse - 1] \/ h[pulse] = 0
      BY <1>6, <3>1, <3>2 DEF Changes, needs_sync
    <3>4. /\ h[pulse - 1] = monitoring_results.written
          /\ monitoring_results.written <= monitoring_results.size
      BY <2>3, <3>1 DEF NumbersInv
    <3>5. /\ monitoring_results'.size = monitoring_results.size
          /\ monitoring_results'.written = h[pulse]
      BY <1>6, <1>7, <2>3
    <3> QED BY <1>1, <3>3, <3>4, <3>5
  <2> QED BY <2>1, <2>2, <2>3
<1>11. \A n \in NonLeaf : submissions(n)' <= k
  BY <1>7 DEF NumbersInv, submissions
<1> QED BY <1>2, <1>4, <1>7, <1>8, <1>9, <1>10, <1>11 DEF NumbersInv

\* A step in which the leaf sends nothing.
LEMMA OtherNumbers ==
  ASSUME MergeInv, StonesLow, TypeOK', NEW h \in [Nat -> Nat], NEW k \in Nat,
         NumbersInv(h, k), [Next]_vars,
         \A l \in Leaf : ~start_communication(l)
  PROVE  NumbersInv(h, k)'
<1>1. CASE UNCHANGED vars  BY <1>1, UnchangedNumbers DEF vars
<1>2. CASE EditFile \/ \E l \in Leaf : monitoring_finalize_leaf(l)
  BY <1>2, UnchangedNumbers DEF EditFile, monitoring_finalize_leaf, rootVars
<1>3. ASSUME NEW n \in NonLeaf,
             \/ \E c \in children(n) : Arrive(c)
             \/ compute_own_metrics(n)
             \/ FinishPulse(n)
      PROVE  NumbersInv(h, k)'
  BY <1>3, ProcessNumbers
<1>4. CASE final_result  BY <1>4, RootNumbers
<1> QED BY <1>1, <1>2, <1>3, <1>4 DEF Next, comm_thread

\* Some history explains what has happened.
NumbersKnown == \E h \in [Nat -> Nat], k \in Nat : NumbersInv(h, k)

\* Every step keeps it.
LEMMA NumbersKept ==
  ASSUME max_degree = 1, MergeInv, StonesLow, TypeOK', NumbersKnown,
         [Next]_vars
  PROVE  NumbersKnown'
<1>1. TypeOK  BY DEF MergeInv, PulseInv
<1>2. PICK h \in [Nat -> Nat], k \in Nat : NumbersInv(h, k)
  BY DEF NumbersKnown
<1>3. ASSUME NEW l \in Leaf, start_communication(l) PROVE NumbersKnown'
  <2>1. PICK g : g = Recorded(h, k)  OBVIOUS
  <2>2. NumbersInv(g, k + 1)'  BY <1>1, <1>2, <1>3, <2>1, LeafNumbers
  <2>3. g \in [Nat -> Nat] /\ k + 1 \in Nat
    BY <1>1, <2>1, FileType DEF Recorded
  <2> QED BY <2>2, <2>3, Zenon DEF NumbersKnown
<1>4. ASSUME \A l \in Leaf : ~start_communication(l) PROVE NumbersKnown'
  <2>1. NumbersInv(h, k)'  BY <1>2, <1>4, OtherNumbers
  <2> QED BY <2>1, Zenon DEF NumbersKnown
<1> QED BY <1>3, <1>4

(***************************************************************************)
(* final_result never writes more entries than monitoring_results has, if  *)
(* the tree is a chain: in a chain the root learns of every change of the  *)
(* number.                                                                 *)
(***************************************************************************)
THEOREM ResultsFitCorrect ==
  ASSUME max_degree = 1
  PROVE  Spec => []ResultsFit
<1>1. Init => MergeInv /\ StonesLow /\ NumbersKnown
  <2>1. Init => MergeInv  BY InitMergeInv
  <2>2. Init => StonesLow
    <3>1. ASSUME Init, NEW n \in NonLeaf PROVE InStep(n)
      <4>1. multi[n] = InitialMulti /\ stage[n] = "idle"
            /\ counter[n] = 0
        BY <3>1 DEF Init, NonLeaf
      <4> QED BY <4>1 DEF InStep, NoMatch, InitialMulti, submissions
    <3> QED BY <3>1 DEF StonesLow
  <2>3. ASSUME Init PROVE NumbersKnown
    <3>1. PICK h \in [Nat -> Nat] : h = [t \in Nat |-> 0]  OBVIOUS
    <3>2. NumbersInv(h, 0)  BY <2>3, InitNumbers
    <3> QED BY <3>2, Zenon DEF NumbersKnown
  <2> QED BY <2>1, <2>2, <2>3
<1>2. MergeInv /\ StonesLow /\ NumbersKnown /\ [Next]_vars
        => (MergeInv /\ StonesLow /\ NumbersKnown)'
  <2>1. max_degree <= 2  OBVIOUS
  <2> QED
    BY <2>1, MergeInvKept, StonesLowKept, NumbersKept DEF MergeInv, PulseInv
<1>3. NumbersKnown => ResultsFit  BY DEF NumbersKnown, NumbersInv, ResultsFit
<1> QED BY <1>1, <1>2, <1>3, PTL DEF Spec
-----------------------------------------------------------------------------
(***************************************************************************)
(* The changes of the number in a chain.  The leaf notices at most one     *)
(* more than there were edits, the first pulse, and not all of them before *)
(* it has read the last; between two it notices, the number is the same.   *)
(* Those to a number that is not 0, and the first pulse, make the root     *)
(* allocate its results anew.                                              *)
(***************************************************************************)
Differs(h, t) == t = 0 \/ h[t] # h[t - 1]

Renews(h, t) == t = 0 \/ Changes(h, t)

Seen(h, k) == Cardinality({t \in 0 .. k - 1 : Differs(h, t)})

Noted(h, k) == Cardinality({t \in 0 .. k - 1 : Renews(h, t)})

ChangesInv(h, k) ==
  /\ Seen(h, k) <= file_changes + 1
  /\ k = 0 \/ file # Before(h, k) => Seen(h, k) <= file_changes
  /\ \A j \in Nat :
       j <= k /\ Seen(h, j) = Seen(h, k) => Before(h, j) = Before(h, k)
  /\ Noted(h, submissions(ROOT)) > file_changes => total_metrics[ROOT] = file
  /\ submissions(ROOT) = 0 => total_metrics[ROOT] = 0

\* There are finitely many.
LEMMA NotedType ==
  ASSUME NEW h, NEW k \in Nat
  PROVE  /\ Noted(h, k) \in Nat /\ Seen(h, k) \in Nat
         /\ IsFiniteSet({t \in 0 .. k - 1 : Renews(h, t)})
         /\ IsFiniteSet({t \in 0 .. k - 1 : Differs(h, t)})
<1> DEFINE I == 0 .. k - 1
           T == {t \in I : Renews(h, t)}
           U == {t \in I : Differs(h, t)}
<1>1. IsFiniteSet(I)  BY FS_Interval
<1>2. T \subseteq I /\ U \subseteq I  OBVIOUS
<1> HIDE DEF I
<1>3. /\ IsFiniteSet(T) /\ Cardinality(T) \in Nat
      /\ IsFiniteSet(U) /\ Cardinality(U) \in Nat
  BY <1>1, <1>2, FS_Subset, FS_CardinalityType
<1> QED BY <1>3 DEF Noted, Seen, I

\* Below 0 there is none.
LEMMA NotedNone ==
  ASSUME NEW h
  PROVE  Noted(h, 0) = 0 /\ Seen(h, 0) = 0
<1>1. /\ {t \in 0 .. 0 - 1 : Renews(h, t)} = {}
      /\ {t \in 0 .. 0 - 1 : Differs(h, t)} = {}
  OBVIOUS
<1> QED BY <1>1, FS_EmptySet DEF Noted, Seen

\* One pulse more.
LEMMA NotedNext ==
  ASSUME NEW h, NEW k \in Nat
  PROVE  /\ Renews(h, k) => Noted(h, k + 1) = Noted(h, k) + 1
         /\ ~Renews(h, k) => Noted(h, k + 1) = Noted(h, k)
<1> DEFINE T == {t \in 0 .. k - 1 : Renews(h, t)}
           U == {t \in 0 .. (k + 1) - 1 : Renews(h, t)}
<1>1. IsFiniteSet(T)  BY NotedType
<1>2. k \notin T  OBVIOUS
<1>3. Renews(h, k) => U = T \cup {k}  OBVIOUS
<1>4. ~Renews(h, k) => U = T  OBVIOUS
<1>5. Noted(h, k) = Cardinality(T) /\ Noted(h, k + 1) = Cardinality(U)
  BY DEF Noted
<1> HIDE DEF T, U
<1>6. Cardinality(T \cup {k}) = Cardinality(T) + 1
  BY <1>1, <1>2, FS_AddElement
<1> QED BY <1>3, <1>4, <1>5, <1>6

\* The same for all changes.
LEMMA SeenNext ==
  ASSUME NEW h, NEW k \in Nat
  PROVE  /\ Differs(h, k) => Seen(h, k + 1) = Seen(h, k) + 1
         /\ ~Differs(h, k) => Seen(h, k + 1) = Seen(h, k)
<1> DEFINE T == {t \in 0 .. k - 1 : Differs(h, t)}
           U == {t \in 0 .. (k + 1) - 1 : Differs(h, t)}
<1>1. IsFiniteSet(T)  BY NotedType
<1>2. k \notin T  OBVIOUS
<1>3. Differs(h, k) => U = T \cup {k}  OBVIOUS
<1>4. ~Differs(h, k) => U = T  OBVIOUS
<1>5. Seen(h, k) = Cardinality(T) /\ Seen(h, k + 1) = Cardinality(U)
  BY DEF Seen
<1> HIDE DEF T, U
<1>6. Cardinality(T \cup {k}) = Cardinality(T) + 1
  BY <1>1, <1>2, FS_AddElement
<1> QED BY <1>3, <1>4, <1>5, <1>6

\* More pulses, at least as many changes; those noted are changes.
LEMMA NotedMonotone ==
  ASSUME NEW h, NEW j \in Nat, NEW k \in Nat, j <= k
  PROVE  /\ Noted(h, j) <= Noted(h, k) /\ Seen(h, j) <= Seen(h, k)
         /\ Noted(h, j) <= Seen(h, j)
<1> DEFINE T(i) == {t \in 0 .. i - 1 : Renews(h, t)}
           U(i) == {t \in 0 .. i - 1 : Differs(h, t)}
<1>1. IsFiniteSet(T(k)) /\ IsFiniteSet(U(k)) /\ IsFiniteSet(U(j))
  BY NotedType
<1>2. T(j) \subseteq T(k) /\ U(j) \subseteq U(k)  OBVIOUS
<1>3. T(j) \subseteq U(j)
  BY DEF Renews, Differs, Changes, Before, needs_sync
<1>4. /\ Noted(h, j) = Cardinality(T(j)) /\ Noted(h, k) = Cardinality(T(k))
      /\ Seen(h, j) = Cardinality(U(j)) /\ Seen(h, k) = Cardinality(U(k))
  BY DEF Noted, Seen
<1> HIDE DEF T, U
<1> QED BY <1>1, <1>2, <1>3, <1>4, FS_Subset

\* A history that goes on has noted the same before.
LEMMA NotedGoesOn ==
  ASSUME NEW h, NEW k \in Nat, NEW g, \A t \in Nat : t < k => g[t] = h[t],
         NEW j \in Nat, j <= k
  PROVE  /\ Noted(g, j) = Noted(h, j) /\ Seen(g, j) = Seen(h, j)
         /\ Before(g, j) = Before(h, j)
<1>1. \A t \in Nat : t < k => g[t] = h[t]  OBVIOUS
<1>2. /\ \A t \in Nat : t <= k => Before(g, t) = Before(h, t)
      /\ \A t \in Nat : t < k => Changes(g, t) = Changes(h, t)
      /\ Told(h, k) \subseteq Told(g, k + 1)
  BY ONLY <1>1, k \in Nat, HistoryGoesOn, Zenon
<1>3. \A t \in 0 .. j - 1 : /\ Renews(g, t) <=> Renews(h, t)
                            /\ Differs(g, t) <=> Differs(h, t)
  <2> SUFFICES ASSUME NEW t \in 0 .. j - 1
               PROVE  /\ Renews(g, t) <=> Renews(h, t)
                      /\ Differs(g, t) <=> Differs(h, t)
    OBVIOUS
  <2>1. t \in Nat /\ t < k  OBVIOUS
  <2>2. t # 0 => t - 1 \in Nat /\ t - 1 < k  BY <2>1
  <2>3. Changes(g, t) = Changes(h, t) /\ g[t] = h[t]  BY <1>1, <1>2, <2>1
  <2>4. t # 0 => g[t - 1] = h[t - 1]  BY <1>1, <2>2
  <2> QED BY <2>3, <2>4 DEF Renews, Differs
<1>4. /\ {t \in 0 .. j - 1 : Renews(g, t)} = {t \in 0 .. j - 1 : Renews(h, t)}
      /\ {t \in 0 .. j - 1 : Differs(g, t)} = {t \in 0 .. j - 1 : Differs(h, t)}
  BY <1>3
<1> QED BY <1>2, <1>4 DEF Noted, Seen

\* Nothing has been noted.
LEMMA InitChanges ==
  ASSUME Init, NEW h \in [Nat -> Nat]
  PROVE  ChangesInv(h, 0)
<1>1. /\ file_changes = 0 /\ submissions(ROOT) = 0
      /\ total_metrics[ROOT] = 0
  BY RankType, LeafIsNotRoot DEF Init, NonLeaf, submissions
<1>2. Noted(h, 0) = 0 /\ Seen(h, 0) = 0  BY NotedNone
<1>3. \A j \in Nat : j <= 0 => j = 0  OBVIOUS
<1> QED BY <1>1, <1>2, <1>3 DEF ChangesInv

\* The leaf notes a change when the file is not what it was.
LEMMA LeafChanges ==
  ASSUME max_degree = 1, TypeOK, NEW h \in [Nat -> Nat], NEW k \in Nat,
         NumbersInv(h, k), ChangesInv(h, k),
         NEW l \in Leaf, start_communication(l), NEW g, g = Recorded(h, k)
  PROVE  ChangesInv(g, k + 1)'
<1>1. /\ l \in Rank /\ ROOT \in Rank /\ l # ROOT /\ ROOT \in NonLeaf
      /\ file \in Nat /\ file_changes \in Nat
  <2>1. l \in Rank /\ ROOT \in Rank /\ l # ROOT /\ ROOT \in NonLeaf
    BY LeafRank, LeafIsNotRoot, RankType DEF NonLeaf
  <2>2. file \in Nat  BY FileType
  <2>3. file_changes \in Nat  BY DEF TypeOK
  <2> QED BY <2>1, <2>2, <2>3
<1>2. /\ UNCHANGED <<file, file_changes, stage>>
      /\ counter' = [counter EXCEPT ![l] = counter[l] + 1]
      /\ total_metrics' = [total_metrics EXCEPT ![l] = file]
  BY DEF start_communication, SendEvent, fileVars
<1>3. PICK c \in Nat : c = submissions(ROOT)
  <2>1. counter[ROOT] \in Nat  BY <1>1 DEF TypeOK
  <2>2. submissions(ROOT) \in Nat  BY <2>1 DEF submissions
  <2> QED BY <2>2
<1>4. /\ submissions(ROOT)' = c
      /\ total_metrics'[ROOT] = total_metrics[ROOT] /\ c <= k
  <2>1. counter'[ROOT] = counter[ROOT] /\ stage' = stage
        /\ total_metrics'[ROOT] = total_metrics[ROOT]
    BY <1>1, <1>2 DEF TypeOK
  <2> QED BY <1>1, <1>3, <2>1 DEF submissions, NumbersInv
<1>5. PICK f \in Nat : f = file  BY <1>1
<1>6. /\ g \in [Nat -> Nat] /\ g[k] = f
      /\ \A t \in Nat : t < k => g[t] = h[t]
  <2>1. g = [h EXCEPT ![k] = f]  BY <1>5 DEF Recorded
  <2> QED BY <2>1
<1>7. \A t \in Nat : t < k => g[t] = h[t]  BY <1>6
<1>8. ASSUME NEW j \in Nat, j <= k
      PROVE  /\ Noted(g, j) = Noted(h, j) /\ Seen(g, j) = Seen(h, j)
             /\ Before(g, j) = Before(h, j)
  BY ONLY <1>7, <1>8, k \in Nat, j \in Nat, NotedGoesOn
<1>9. /\ Seen(g, k) = Seen(h, k) /\ Before(g, k) = Before(h, k)
      /\ Noted(g, c) = Noted(h, c)
  BY <1>4, <1>8
<1>10. Before(g, k + 1) = f  BY <1>6 DEF Before
<1>11. /\ Differs(g, k) <=> k = 0 \/ f # Before(h, k)
       /\ Differs(g, k) => Seen(g, k + 1) = Seen(h, k) + 1
       /\ ~Differs(g, k) => Seen(g, k + 1) = Seen(h, k)
       /\ Seen(h, k) \in Nat
  <2>1. k # 0 => Before(g, k) = g[k - 1]  BY DEF Before
  <2> QED BY <1>6, <1>9, <2>1, SeenNext, NotedType DEF Differs
<1>12. Seen(g, k + 1) <= file_changes + 1
  BY <1>1, <1>5, <1>11 DEF ChangesInv
<1>13. Noted(g, c) > file_changes => total_metrics[ROOT] = file
  BY <1>3, <1>9 DEF ChangesInv
<1>14. ASSUME NEW j \in Nat, j <= k + 1, Seen(g, j) = Seen(g, k + 1)
       PROVE  Before(g, j) = Before(g, k + 1)
  <2>1. CASE j = k + 1  BY <2>1
  <2>2. CASE j # k + 1
    <3>1. j <= k  BY <1>14, <2>2
    <3>2. /\ Seen(g, j) = Seen(h, j) /\ Before(g, j) = Before(h, j)
          /\ Seen(h, j) <= Seen(h, k) /\ Seen(h, j) \in Nat
      BY <1>8, <3>1, NotedMonotone, NotedType
    <3>3. ~Differs(g, k) /\ Seen(h, j) = Seen(h, k)
      BY <1>11, <1>14, <3>2
    <3>4. f = Before(h, k)  BY <1>11, <3>3
    <3>5. Before(h, j) = Before(h, k)
      BY <3>1, <3>3 DEF ChangesInv
    <3> QED BY <1>10, <3>2, <3>4, <3>5
  <2> QED BY <2>1, <2>2
<1>15. c = 0 => total_metrics[ROOT] = 0
  BY <1>3 DEF ChangesInv
<1>16. k + 1 # 0  OBVIOUS
<1> QED BY <1>2, <1>4, <1>5, <1>10, <1>12, <1>13, <1>14, <1>15, <1>16
        DEF ChangesInv

\* A step that the root's number does not depend on.
LEMMA SameChanges ==
  ASSUME NEW h, NEW k, ChangesInv(h, k),
         UNCHANGED <<file, file_changes>>,
         submissions(ROOT)' = submissions(ROOT),
         \/ total_metrics'[ROOT] = total_metrics[ROOT]
         \/ total_metrics'[ROOT] = file /\ submissions(ROOT) # 0
  PROVE  ChangesInv(h, k)'
BY DEF ChangesInv

\* The root cannot know of an edit before the leaf has noted it.
LEMMA EditChanges ==
  ASSUME TypeOK, NEW h, NEW k \in Nat, NumbersInv(h, k), ChangesInv(h, k),
         EditFile
  PROVE  ChangesInv(h, k)'
<1>1. PICK c \in Nat : c = submissions(ROOT)
  BY RankType DEF TypeOK, submissions
<1>2. /\ file_changes \in Nat /\ file_changes' = file_changes + 1
      /\ submissions(ROOT)' = submissions(ROOT)
      /\ total_metrics' = total_metrics
  BY DEF TypeOK, EditFile, submissions
<1>3. ROOT \in NonLeaf  BY LeafIsNotRoot, RankType DEF NonLeaf
<1>4. c <= k  BY <1>1, <1>3 DEF NumbersInv
<1>5. /\ Noted(h, c) <= Seen(h, c) /\ Seen(h, c) <= Seen(h, k)
      /\ Noted(h, c) \in Nat /\ Seen(h, c) \in Nat
      /\ Seen(h, k) \in Nat /\ Seen(h, k) <= file_changes + 1
  BY <1>4, NotedMonotone, NotedType DEF ChangesInv
<1>6. Seen(h, k) <= file_changes' /\ ~(Noted(h, c) > file_changes')
  BY <1>2, <1>5
<1>7. Seen(h, k) <= file_changes' + 1  BY <1>2, <1>5
<1> QED BY <1>1, <1>2, <1>6, <1>7 DEF ChangesInv

\* An inner process reads the file when it hears of a change.
LEMMA ProcessChanges ==
  ASSUME MergeInv, NEW h \in [Nat -> Nat], NEW k \in Nat,
         NumbersInv(h, k), ChangesInv(h, k), NEW n \in NonLeaf,
         \/ \E c \in children(n) : Arrive(c)
         \/ compute_own_metrics(n)
         \/ FinishPulse(n)
  PROVE  ChangesInv(h, k)'
<1>1. /\ TypeOK /\ n \in Rank /\ ROOT \in Rank
      /\ file_changes \in Nat /\ counter \in [Rank -> Nat]
      /\ total_metrics \in [Rank -> Nat]
  <2>1. TypeOK /\ n \in Rank /\ ROOT \in Rank
    BY LeafRank, RankType DEF MergeInv, PulseInv
  <2>2. file_changes \in Nat  BY <2>1 DEF TypeOK
  <2>3. counter \in [Rank -> Nat] /\ total_metrics \in [Rank -> Nat]
    BY <2>1 DEF TypeOK
  <2> QED BY <2>1, <2>2, <2>3
<1>0. /\ ROOT \in NonLeaf
      /\ stage \in [NonLeaf -> {"idle", "terminal", "submitted"}]
  BY <1>1, LeafIsNotRoot DEF NonLeaf, TypeOK
<1>2. CASE \E c \in children(n) : Arrive(c)
  <2>1. UNCHANGED <<file, file_changes, counter, total_metrics>>
    BY <1>2 DEF Arrive, fileVars
  <2>2. PICK x : stage' = [stage EXCEPT ![x] = "terminal"] /\ stage[x] = "idle"
    BY <1>2 DEF Arrive
  <2>3. submissions(ROOT)' = submissions(ROOT)
    BY <1>0, <2>1, <2>2 DEF submissions
  <2> QED BY <2>1, <2>3, SameChanges
<1>3. CASE FinishPulse(n)
  <2> DEFINE next == get_metrics_values(n, inbox[n], counter[n] + 1)
             v == IF LastForNode(data[n], inbox[n]) THEN total_metrics[n]
                  ELSE next.metrics_nr
  <2>1. /\ UNCHANGED <<file, file_changes>>
        /\ counter' = [counter EXCEPT ![n] = counter[n] + 1]
        /\ total_metrics' = [total_metrics EXCEPT ![n] = v]
        /\ stage' = [stage EXCEPT ![n] = "idle"] /\ stage[n] = "submitted"
    BY <1>3 DEF FinishPulse, fileVars
  <2>2. v \in {file, total_metrics[n]}
    BY DEF get_metrics_values, NumberFor
  <2> HIDE DEF v
  <2>3. /\ total_metrics'[ROOT] \in {total_metrics[ROOT], file}
        /\ n # ROOT => total_metrics'[ROOT] = total_metrics[ROOT]
    BY <1>1, <2>1, <2>2
  <2>4. n = ROOT => submissions(ROOT) # 0
    BY <1>0, <1>1, <2>1 DEF submissions
  <2>5. submissions(ROOT)' = submissions(ROOT)
    BY <1>0, <1>1, <2>1 DEF submissions
  <2> QED BY <2>1, <2>3, <2>4, <2>5, SameChanges
<1>4. CASE compute_own_metrics(n) /\ WaitForOthers(n)
  <2>1. UNCHANGED <<file, file_changes, counter, total_metrics>>
    BY <1>4 DEF compute_own_metrics, WaitForOthers, fileVars
  <2>2. stage' = [stage EXCEPT ![n] = "idle"] /\ stage[n] = "terminal"
    BY <1>4 DEF compute_own_metrics, WaitForOthers
  <2>3. submissions(ROOT)' = submissions(ROOT)
    BY <1>0, <2>1, <2>2 DEF submissions
  <2> QED BY <2>1, <2>3, SameChanges
<1>5. CASE compute_own_metrics(n) /\ SubmitOwn(n)
  <2> DEFINE event == inbox[n]
             own == OwnEvent(n, event)
             number == IF Recomputes(n, event) THEN own.metrics_nr
                       ELSE total_metrics[n]
  <2>1. /\ UNCHANGED <<file, file_changes, counter>>
        /\ total_metrics' = [total_metrics EXCEPT ![n] = number]
        /\ stage[n] = "terminal"
        /\ CountOf(Counted(n), counter[n]) = get_degree_node(n)
        /\ stage' = [stage EXCEPT ![n] = "submitted"]
    BY <1>5 DEF compute_own_metrics, SubmitOwn, fileVars
  <2>2. CASE n # ROOT
    <3>1. UNCHANGED <<counter[ROOT], total_metrics[ROOT], stage[ROOT]>>
      BY <1>0, <1>1, <2>1, <2>2
    <3>2. submissions(ROOT)' = submissions(ROOT)  BY <3>1 DEF submissions
    <3> QED BY <2>1, <3>1, <3>2, SameChanges
  <2>3. CASE n = ROOT
    <3>1. PICK c \in Nat : c = counter[ROOT] /\ c = submissions(ROOT)
      BY <1>1, <2>1, <2>3 DEF submissions
    <3>2. event.timestamp = c  BY <2>1, <2>3, <3>1, OwnEventMerge
    <3>3. event \in Told(h, k)  BY <2>1 DEF NumbersInv, EventsIn
    <3>4. event.update_file = Changes(h, c) /\ c < k
      BY <3>2, <3>3 DEF Told
    <3>5. number = IF event.update_file THEN file ELSE total_metrics[n]
      BY DEF Recomputes, OwnEvent, get_metrics_values, NumberFor
    <3> HIDE DEF number, event
    <3>6. submissions(ROOT)' = c + 1 /\ total_metrics'[ROOT] = number
      BY <1>0, <1>1, <2>1, <2>3, <3>1 DEF submissions
    <3>7. ASSUME Noted(h, c + 1) > file_changes PROVE number = file
      <4>1. CASE Changes(h, c)  BY <3>4, <3>5, <4>1
      <4>2. CASE ~Changes(h, c) /\ c # 0
        <5>1. Noted(h, c + 1) = Noted(h, c)  BY <4>2, NotedNext DEF Renews
        <5> QED BY <2>3, <3>1, <3>4, <3>5, <3>7, <4>2, <5>1 DEF ChangesInv
      <4>3. CASE ~Changes(h, c) /\ c = 0
        <5>1. number = 0  BY <2>3, <3>1, <3>4, <3>5, <4>3 DEF ChangesInv
        <5>2. h[0] \in Nat /\ h[0] = 0 /\ Before(h, 1) = h[0]
          BY <3>4, <4>3 DEF Changes, needs_sync, Before
        <5>3. /\ Noted(h, 1) <= Seen(h, 1) /\ Seen(h, 1) <= Seen(h, k)
              /\ Noted(h, 1) \in Nat /\ Seen(h, 1) \in Nat
              /\ Seen(h, k) \in Nat
          <6>1. 1 \in Nat /\ 1 <= k  BY <3>4
          <6> QED BY <6>1, NotedMonotone, NotedType
        <5>4. Seen(h, 1) = Seen(h, k) /\ Seen(h, k) > file_changes
          BY <1>1, <3>7, <4>3, <5>3 DEF ChangesInv
        <5>5. file = Before(h, k)
          BY <1>1, <5>3, <5>4 DEF ChangesInv
        <5>6. Before(h, 1) = Before(h, k)
          BY <3>4, <5>4 DEF ChangesInv
        <5> QED BY <5>1, <5>2, <5>5, <5>6
      <4> QED BY <4>1, <4>2, <4>3
    <3>8. c + 1 # 0  OBVIOUS
    <3> QED BY <2>1, <3>6, <3>7, <3>8 DEF ChangesInv
  <2> QED BY <2>2, <2>3
<1> QED BY <1>2, <1>3, <1>4, <1>5 DEF compute_own_metrics

\* A step in which the leaf sends nothing.
LEMMA OtherChanges ==
  ASSUME MergeInv, NEW h \in [Nat -> Nat], NEW k \in Nat,
         NumbersInv(h, k), ChangesInv(h, k), [Next]_vars,
         \A l \in Leaf : ~start_communication(l)
  PROVE  ChangesInv(h, k)'
<1>1. TypeOK  BY DEF MergeInv, PulseInv
<1>0. UNCHANGED <<counter, stage>> => submissions(ROOT)' = submissions(ROOT)
  BY DEF submissions
<1>2. CASE UNCHANGED vars  BY <1>0, <1>2, SameChanges DEF vars
<1>3. CASE EditFile  BY <1>1, <1>3, EditChanges
<1>4. ASSUME NEW l \in Leaf, monitoring_finalize_leaf(l)
      PROVE  ChangesInv(h, k)'
  BY <1>0, <1>4, SameChanges DEF monitoring_finalize_leaf, fileVars
<1>5. ASSUME NEW n \in NonLeaf,
             \/ \E c \in children(n) : Arrive(c)
             \/ compute_own_metrics(n)
             \/ FinishPulse(n)
      PROVE  ChangesInv(h, k)'
  BY <1>5, ProcessChanges
<1>6. CASE final_result
  BY <1>0, <1>6, SameChanges DEF final_result, fileVars
<1> QED BY <1>2, <1>3, <1>4, <1>5, <1>6 DEF Next, comm_thread
=============================================================================
