----------------------------- MODULE MergeProofs -----------------------------
(***************************************************************************)
(* Every event is merged once, into the aggregate of its pulse.            *)
(*                                                                         *)
(* An event does not say which process it is from, so the invariant says   *)
(* that there is a way of labelling the queue of a multi_stone with the    *)
(* processes its events are from, and a set of those merged already, that  *)
(* accounts for all events delivered: of each source, those of the current *)
(* and of later pulses are in the queue, once, or have been merged.        *)
(***************************************************************************)
EXTENDS ReductionProofs

\* A leaf below r has left its loop, and its last event was of pulse ts.
Halted(r, ts) == \E l \in Leaf \cap Sub(r) : ~running[l] /\ counter[l] = ts + 1

\* There is something to measure, and it has been the same all along.
Unedited == file_changes = 0 /\ file # 0

\* What e says was measured by the processes of S, for the list in the file.
Reports(e, S) ==
  Unedited => /\ e.metrics_nr = file
              /\ e.gather_info = R(S, e.timestamp + file)
              /\ e.timestamp = 0 => e.update_file

\* e is an event of x that speaks for the processes of S.
Carries(e, x, S) ==
  /\ e.parent_rank = get_parent(x)
  /\ Reports(e, S)
  /\ ~BENCHMARKING /\ e.quit => Halted(x, e.timestamp)

\* Per source of n: the events of it that the multi_stone has been given.
Supply(n) == [x \in Source(n) |-> IF x = n THEN submissions(n) ELSE Arrived(x)]

(***************************************************************************)
(* The queue of a multi_stone m of n, labelled by src; got are the sources *)
(* merged in the current pulse.                                            *)
(***************************************************************************)
\* Each event in it is of the current or a later pulse.
Waiting(n, m, supply, src) ==
  \A i \in 1 .. Len(m.queue) :
    /\ m.queue[i].timestamp >= m.pulse_timestamp
    /\ m.queue[i].timestamp < supply[src[i]]
    /\ Carries(m.queue[i], src[i], Part(n, src[i]))

\* No event is in it twice.
Distinct(m, src) ==
  \A i, j \in 1 .. Len(m.queue) :
    src[i] = src[j] /\ m.queue[i].timestamp = m.queue[j].timestamp => i = j

\* The process's own event is not the first of a later pulse.
ChildFirst(n, m, src) ==
  \A i \in 1 .. Len(m.queue) :
    src[i] = n /\ m.queue[i].timestamp > m.pulse_timestamp =>
      \E j \in 1 .. Len(m.queue) :
        j < i /\ m.queue[j].timestamp = m.queue[i].timestamp

\* What a source has supplied is in it or merged.
Complete(n, m, supply, src, got) ==
  \A x \in Source(n) :
    /\ supply[x] >= m.pulse_timestamp
    /\ x \in got => supply[x] > m.pulse_timestamp
    /\ \A t \in Nat : t >= m.pulse_timestamp /\ t < supply[x] =>
         \/ t = m.pulse_timestamp /\ x \in got
         \/ \E i \in 1 .. Len(m.queue) : src[i] = x /\ m.queue[i].timestamp = t

\* The scan for events of this pulse starts before them.
Current(m, src, got) ==
  \A i \in 1 .. Len(m.queue) : m.queue[i].timestamp = m.pulse_timestamp =>
    src[i] \notin got /\ m.first_found_index # NotFound /\ i >= m.first_found_index

\* The aggregate speaks for the sources merged.
Aggregate(n, m, got) ==
  /\ m.count = Cardinality(got)
  /\ m.first_found_index = NotFound => got = {}
  /\ m.first_found_index # NotFound =>
       /\ got # {}
       /\ m.current_node_degree = get_degree_node(n)
       /\ m.first_found_index <= Len(m.queue) + 1
       /\ m.aggregated_event.timestamp = m.pulse_timestamp
       /\ Carries(m.aggregated_event, n, Cover(n, got))

Filed(n, m, supply, src, got) ==
  /\ Waiting(n, m, supply, src)
  /\ Distinct(m, src)
  /\ ChildFirst(n, m, src)
  /\ Complete(n, m, supply, src, got)
  /\ Current(m, src, got)
  /\ Aggregate(n, m, got)

Merges(n, m, supply) ==
  \E src \in [1 .. Len(m.queue) -> Source(n)], got \in SUBSET Source(n) :
    Filed(n, m, supply, src, got)
-----------------------------------------------------------------------------
(***************************************************************************)
(* The program of the multi_stone.                                         *)
(***************************************************************************)
\* All of Filed but the aggregate, with the scan at position from.
Queued(n, m, supply, src, got) ==
  /\ Waiting(n, m, supply, src)
  /\ Distinct(m, src)
  /\ ChildFirst(n, m, src)
  /\ Complete(n, m, supply, src, got)

\* The labels of a queue of z events when one of x is appended.
Labelled(src, z, x) == [j \in 1 .. z + 1 |-> IF j = z + 1 THEN x ELSE src[j]]

\* An event of x that comes in.
LEMMA QueuedAppend ==
  ASSUME NEW n \in NonLeaf, NEW m \in multi_stone_t,
         NEW supply \in [Source(n) -> Nat],
         NEW src \in [1 .. Len(m.queue) -> Source(n)],
         NEW got \in SUBSET Source(n), Queued(n, m, supply, src, got),
         children(n) # {},
         NEW x \in Source(n), NEW e \in metrics_t,
         e.timestamp = supply[x], Carries(e, x, Part(n, x)),
         x = n => \A c \in children(n) : supply[c] > supply[n],
         NEW k \in multi_stone_t, k.queue = Append(m.queue, e),
         k.pulse_timestamp = m.pulse_timestamp
  PROVE  LET lab == Labelled(src, Len(m.queue), x)
         IN  /\ lab \in [1 .. Len(k.queue) -> Source(n)]
             /\ Queued(n, k, [supply EXCEPT ![x] = supply[x] + 1], lab, got)
<1> DEFINE q == m.queue
           z == Len(q)
           p == m.pulse_timestamp
           lab == Labelled(src, z, x)
           more == [supply EXCEPT ![x] = supply[x] + 1]
<1>1. q \in Seq(metrics_t) /\ z \in Nat /\ p \in Nat
  BY LenProperties DEF multi_stone_t
<1>2. /\ Len(k.queue) = z + 1 /\ k.queue[z + 1] = e
      /\ \A j \in 1 .. z : k.queue[j] = q[j]
  BY <1>1, AppendProperties
<1>3. /\ lab[z + 1] = x /\ lab \in [1 .. z + 1 -> Source(n)]
      /\ \A j \in 1 .. z : lab[j] = src[j]
  BY <1>1 DEF Labelled
<1>4. \A j \in 1 .. z + 1 : j \in 1 .. z \/ j = z + 1  BY <1>1
<1>5. /\ \A j \in 1 .. z : q[j].timestamp \in Nat
      /\ e.timestamp \in Nat
  <2>1. \A j \in 1 .. z : q[j] \in metrics_t  BY <1>1, ElementOfSeq
  <2> QED BY <2>1 DEF metrics_t
<1>6. /\ \A y \in Source(n) : supply[y] \in Nat /\ more[y] \in Nat
      /\ more[x] = supply[x] + 1
      /\ \A y \in Source(n) : y # x => more[y] = supply[y]
  OBVIOUS
<1>7. supply[x] >= p  BY DEF Queued, Complete
<1> HIDE DEF q, z, p, lab, more
<1>8. Waiting(n, k, more, lab)
  <2> SUFFICES ASSUME NEW j \in 1 .. z + 1
               PROVE  /\ k.queue[j].timestamp >= p
                      /\ k.queue[j].timestamp < more[lab[j]]
                      /\ Carries(k.queue[j], lab[j], Part(n, lab[j]))
    BY <1>2 DEF Waiting, p
  <2>1. CASE j = z + 1
    BY <1>2, <1>3, <1>5, <1>6, <1>7, <2>1
  <2>2. CASE j \in 1 .. z
    <3>1. /\ q[j].timestamp >= p /\ q[j].timestamp < supply[src[j]]
          /\ Carries(q[j], src[j], Part(n, src[j]))
      BY <2>2 DEF Queued, Waiting, p, q, z
    <3>2. src[j] \in Source(n)  BY <2>2 DEF z, q
    <3>3. supply[src[j]] <= more[src[j]]  BY <1>6, <3>2
    <3>4. q[j].timestamp < more[src[j]]
      BY <1>5, <1>6, <2>2, <3>1, <3>2, <3>3
    <3> QED BY <1>2, <1>3, <2>2, <3>1, <3>4
  <2> QED BY <1>4, <2>1, <2>2
<1>9. Distinct(k, lab)
  <2>1. ASSUME NEW j \in 1 .. z, src[j] = x PROVE q[j].timestamp # e.timestamp
    <3>1. q[j].timestamp < supply[x]
      BY <2>1 DEF Queued, Waiting, q, z
    <3> QED BY <1>5, <1>6, <3>1
  <2> SUFFICES ASSUME NEW i \in 1 .. z + 1, NEW j \in 1 .. z + 1,
                      lab[i] = lab[j],
                      k.queue[i].timestamp = k.queue[j].timestamp
               PROVE  i = j
    BY <1>2 DEF Distinct
  <2>2. CASE i \in 1 .. z /\ j \in 1 .. z
    BY <1>2, <1>3, <2>2 DEF Queued, Distinct, q, z
  <2>3. CASE i = z + 1 /\ j \in 1 .. z  BY <1>2, <1>3, <2>1, <2>3
  <2>4. CASE i \in 1 .. z /\ j = z + 1  BY <1>2, <1>3, <2>1, <2>4
  <2> QED BY <1>4, <2>2, <2>3, <2>4
<1>10. Complete(n, k, more, lab, got)
  <2> SUFFICES ASSUME NEW y \in Source(n)
               PROVE  /\ more[y] >= p
                      /\ y \in got => more[y] > p
                      /\ \A t \in Nat : t >= p /\ t < more[y] =>
                           \/ t = p /\ y \in got
                           \/ \E i \in 1 .. z + 1 :
                                lab[i] = y /\ k.queue[i].timestamp = t
    <3>1. Len(k.queue) = z + 1 /\ k.pulse_timestamp = p  BY <1>2 DEF p
    <3> QED BY <3>1 DEF Complete
  <2>1. supply[y] >= p /\ (y \in got => supply[y] > p)
    BY DEF Queued, Complete, p
  <2>2. more[y] >= p /\ (y \in got => more[y] > p)
    <3>1. more[y] = supply[y] \/ more[y] = supply[y] + 1  BY <1>6
    <3>2. supply[y] \in Nat /\ p \in Nat  BY <1>1, <1>6
    <3> QED BY <2>1, <3>1, <3>2
  <2>3. ASSUME NEW t \in Nat, t >= p, t < more[y]
        PROVE  \/ t = p /\ y \in got
               \/ \E i \in 1 .. z + 1 :
                    lab[i] = y /\ k.queue[i].timestamp = t
    <3>1. CASE t < supply[y]
      <4>1. \/ t = p /\ y \in got
            \/ \E i \in 1 .. z : src[i] = y /\ q[i].timestamp = t
        BY <2>3, <3>1 DEF Queued, Complete, p, q, z
      <4>2. 1 .. z \subseteq 1 .. z + 1  BY <1>1
      <4> QED BY <1>2, <1>3, <4>1, <4>2
    <3>2. CASE ~(t < supply[y])
      <4>1. y = x  BY <1>6, <2>3, <3>2
      <4>2. t = supply[x]  BY <1>6, <2>3, <3>2, <4>1
      <4>3. z + 1 \in 1 .. z + 1  BY <1>1
      <4> QED BY <1>2, <1>3, <4>1, <4>2, <4>3
    <3> QED BY <3>1, <3>2
  <2> QED BY <2>2, <2>3
<1>11. ChildFirst(n, k, lab)
  <2> SUFFICES ASSUME NEW i \in 1 .. z + 1, lab[i] = n,
                      k.queue[i].timestamp > p
               PROVE  \E j \in 1 .. z + 1 :
                        j < i /\ k.queue[j].timestamp = k.queue[i].timestamp
    BY <1>2 DEF ChildFirst, p
  <2>0. 1 .. z \subseteq 1 .. z + 1  BY <1>1
  <2>1. CASE i \in 1 .. z
    <3>1. PICK j \in 1 .. z : j < i /\ q[j].timestamp = q[i].timestamp
      BY <1>2, <1>3, <2>1 DEF Queued, ChildFirst, p, q, z
    <3> QED BY <1>2, <2>0, <2>1, <3>1
  <2>2. CASE i = z + 1
    <3>1. x = n /\ k.queue[i] = e  BY <1>2, <1>3, <2>2
    <3>2. PICK c \in children(n) : TRUE  OBVIOUS
    <3>3. c \in Source(n) /\ supply[c] > supply[n]
      BY <3>1, <3>2 DEF Source
    <3>4. e.timestamp \in Nat /\ e.timestamp > p /\ e.timestamp < supply[c]
      BY <1>5, <3>1, <3>3
    <3>5. \A t \in Nat : t >= p /\ t < supply[c] =>
            \/ t = p /\ c \in got
            \/ \E j \in 1 .. z : src[j] = c /\ q[j].timestamp = t
      BY <3>3 DEF Queued, Complete, p, q, z
    <3>7. e.timestamp >= p /\ e.timestamp # p  BY <1>1, <3>4
    <3>8. PICK j \in 1 .. z : src[j] = c /\ q[j].timestamp = e.timestamp
      BY <3>4, <3>5, <3>7
    <3>6. j < z + 1  BY <1>1
    <3> QED BY <1>2, <2>0, <2>2, <3>1, <3>6, <3>8
  <2> QED BY <1>4, <2>1, <2>2
<1>12. Queued(n, k, more, lab, got)
  BY <1>8, <1>9, <1>10, <1>11 DEF Queued
<1> QED BY <1>2, <1>3, <1>12 DEF more, lab, z, q

\* ... while an aggregate is open: it is not of a source merged already.
LEMMA FiledAppend ==
  ASSUME NEW n \in NonLeaf, NEW m \in multi_stone_t,
         NEW supply \in [Source(n) -> Nat],
         NEW src \in [1 .. Len(m.queue) -> Source(n)],
         NEW got \in SUBSET Source(n), Filed(n, m, supply, src, got),
         m.first_found_index # NotFound, children(n) # {},
         NEW x \in Source(n), NEW e \in metrics_t,
         e.timestamp = supply[x], Carries(e, x, Part(n, x)),
         x = n => \A c \in children(n) : supply[c] > supply[n],
         NEW k \in multi_stone_t, k.queue = Append(m.queue, e),
         k.pulse_timestamp = m.pulse_timestamp,
         k.first_found_index = m.first_found_index, k.count = m.count,
         k.current_node_degree = m.current_node_degree,
         k.aggregated_event = m.aggregated_event
  PROVE  \E lab \in [1 .. Len(k.queue) -> Source(n)] :
           Filed(n, k, [supply EXCEPT ![x] = supply[x] + 1], lab, got)
<1> DEFINE q == m.queue
           z == Len(q)
           p == m.pulse_timestamp
           lab == Labelled(src, z, x)
           more == [supply EXCEPT ![x] = supply[x] + 1]
<1>1. /\ q \in Seq(metrics_t) /\ z \in Nat /\ p \in Nat
      /\ m.first_found_index \in Nat
  BY LenProperties DEF multi_stone_t
<1>2. /\ Len(k.queue) = z + 1 /\ k.queue[z + 1] = e
      /\ \A j \in 1 .. z : k.queue[j] = q[j]
  BY <1>1, AppendProperties
<1>3. lab[z + 1] = x /\ \A j \in 1 .. z : lab[j] = src[j]
  BY <1>1 DEF Labelled
<1>4. \A j \in 1 .. z + 1 : j \in 1 .. z \/ j = z + 1  BY <1>1
<1>5. lab \in [1 .. Len(k.queue) -> Source(n)] /\ Queued(n, k, more, lab, got)
  <2>1. Queued(n, m, supply, src, got)  BY DEF Filed, Queued
  <2> QED BY <2>1, QueuedAppend
<1>6. supply[x] \in Nat  OBVIOUS
<1> HIDE DEF q, z, p, lab, more
<1>12. Current(k, lab, got)
  <2> SUFFICES ASSUME NEW i \in 1 .. z + 1, k.queue[i].timestamp = p
               PROVE  lab[i] \notin got /\ i >= k.first_found_index
    BY <1>2 DEF Current, p
  <2>1. CASE i \in 1 .. z
    BY <1>2, <1>3, <2>1 DEF Filed, Current, p, q, z
  <2>2. CASE i = z + 1
    <3>1. supply[x] = p  BY <1>2, <2>2
    <3>2. x \notin got
      <4> SUFFICES ASSUME x \in got PROVE FALSE  OBVIOUS
      <4>1. supply[x] > p  BY DEF Filed, Complete, p
      <4> QED BY <1>1, <1>6, <3>1, <4>1
    <3>3. m.first_found_index <= z + 1  BY DEF Filed, Aggregate, q, z
    <3> QED BY <1>1, <1>3, <2>2, <3>2, <3>3
  <2> QED BY <1>4, <2>1, <2>2
<1>13. Aggregate(n, k, got)
  <2>1. Aggregate(n, m, got)  BY DEF Filed
  <2>2. m.first_found_index <= z + 1  BY <2>1 DEF Aggregate, q, z
  <2>3. k.first_found_index <= Len(k.queue) + 1  BY <1>1, <1>2, <2>2
  <2>4. Carries(k.aggregated_event, n, Cover(n, got))
    BY <2>1, Zenon DEF Aggregate
  <2>5. k.aggregated_event.timestamp = k.pulse_timestamp
    BY <2>1, Zenon DEF Aggregate
  <2>6. k.count = Cardinality(got) /\ got # {}
    BY <2>1, Zenon DEF Aggregate
  <2>7. k.current_node_degree = get_degree_node(n)
    BY <2>1, Zenon DEF Aggregate
  <2> QED BY <2>3, <2>4, <2>5, <2>6, <2>7, Zenon DEF Aggregate
<1>14. Filed(n, k, more, lab, got)
  BY <1>5, <1>12, <1>13 DEF Filed, Queued
<1> QED BY <1>5, <1>14 DEF more

\* The first queued event of the pulse leaves the queue and is merged.
LEMMA QueuedWithout ==
  ASSUME NEW n \in NonLeaf, NEW m \in multi_stone_t,
         NEW supply \in [Source(n) -> Nat],
         NEW src \in [1 .. Len(m.queue) -> Source(n)],
         NEW got \in SUBSET Source(n), Queued(n, m, supply, src, got),
         NEW i \in 1 .. Len(m.queue),
         m.queue[i].timestamp = m.pulse_timestamp,
         \A j \in 1 .. Len(m.queue) :
           m.queue[j].timestamp = m.pulse_timestamp => src[j] \notin got /\ j >= i,
         NEW k \in multi_stone_t, k.queue = RemoveAt(m.queue, i),
         k.pulse_timestamp = m.pulse_timestamp, k.first_found_index = i
  PROVE  \E lab \in [1 .. Len(k.queue) -> Source(n)] :
           /\ Queued(n, k, supply, lab, got \cup {src[i]})
           /\ Current(k, lab, got \cup {src[i]})
<1> DEFINE q == m.queue
           z == Len(q)
           p == m.pulse_timestamp
           old(j) == IF j < i THEN j ELSE j + 1
           lab == [j \in 1 .. z - 1 |-> src[old(j)]]
           r == k.queue
           have == got \cup {src[i]}
<1>1. q \in Seq(metrics_t) /\ z \in Nat /\ p \in Nat
  BY LenProperties DEF multi_stone_t
<1>2. /\ Len(r) = z - 1
      /\ \A j \in 1 .. z - 1 : r[j] = IF j < i THEN q[j] ELSE q[j + 1]
  <2>1. /\ Len(RemoveAt(q, i)) = Len(q) - 1
        /\ \A j \in 1 .. Len(q) - 1 :
             RemoveAt(q, i)[j] = IF j < i THEN q[j] ELSE q[j + 1]
    BY <1>1, RemoveAtProperties
  <2>2. r = RemoveAt(q, i) /\ z = Len(q)  OBVIOUS
  <2> HIDE DEF r, q, z
  <2> QED BY <2>1, <2>2
<1>3. ASSUME NEW j \in 1 .. z - 1
      PROVE  /\ old(j) \in 1 .. z /\ old(j) # i
             /\ r[j] = q[old(j)] /\ lab[j] = src[old(j)]
             /\ old(j) >= i => j >= i
  <2>1. lab[j] = src[old(j)]  OBVIOUS
  <2>2. CASE j < i  BY <1>1, <1>2, <2>1, <2>2
  <2>3. CASE ~(j < i)
    <3>1. old(j) = j + 1 /\ j >= i /\ j + 1 \in 1 .. z /\ j + 1 # i
      BY <1>1, <2>3
    <3>2. r[j] = q[j + 1]  BY <1>2, <2>3
    <3> HIDE DEF old, lab, r, q
    <3> QED BY <2>1, <3>1, <3>2
  <2> QED BY <2>2, <2>3
<1>4. \A j, h \in 1 .. z - 1 : /\ j < h <=> old(j) < old(h)
                               /\ old(j) = old(h) => j = h
  BY <1>1
<1>5. \A h \in 1 .. z : h # i => \E j \in 1 .. z - 1 : old(j) = h
  <2> SUFFICES ASSUME NEW h \in 1 .. z, h # i
               PROVE  \E j \in 1 .. z - 1 : old(j) = h
    OBVIOUS
  <2>1. CASE h < i
    <3>1. h \in 1 .. z - 1 /\ old(h) = h  BY <1>1, <2>1
    <3> QED BY <3>1
  <2>2. CASE ~(h < i)
    <3>1. h - 1 \in 1 .. z - 1 /\ old(h - 1) = h  BY <1>1, <2>2
    <3> QED BY <3>1
  <2> QED BY <2>1, <2>2
<1>6. \A j \in 1 .. z : q[j].timestamp \in Nat
  <2>1. \A j \in 1 .. z : q[j] \in metrics_t  BY <1>1, ElementOfSeq
  <2> QED BY <2>1 DEF metrics_t
<1>7. lab \in [1 .. z - 1 -> Source(n)]  BY <1>3
<1>8. /\ \A j \in 1 .. z :
           /\ q[j].timestamp >= p
           /\ q[j].timestamp < supply[src[j]]
           /\ Carries(q[j], src[j], Part(n, src[j]))
      /\ \A j, h \in 1 .. z :
           src[j] = src[h] /\ q[j].timestamp = q[h].timestamp => j = h
      /\ \A j \in 1 .. z : src[j] = n /\ q[j].timestamp > p =>
           \E h \in 1 .. z : h < j /\ q[h].timestamp = q[j].timestamp
      /\ \A j \in 1 .. z : q[j].timestamp = p => src[j] \notin got /\ j >= i
      /\ q[i].timestamp = p /\ src[i] \in Source(n) /\ i \in 1 .. z
  BY DEF Queued, Waiting, Distinct, ChildFirst
<1>9. \A x \in Source(n) :
        /\ supply[x] >= p
        /\ x \in got => supply[x] > p
        /\ \A t \in Nat : t >= p /\ t < supply[x] =>
             \/ t = p /\ x \in got
             \/ \E h \in 1 .. z : src[h] = x /\ q[h].timestamp = t
  BY DEF Queued, Complete
<1>10. k.pulse_timestamp = p /\ k.first_found_index = i /\ i # NotFound
  BY <1>1 DEF NotFound
<1> HIDE DEF q, z, p, old, lab, r
<1>11. Waiting(n, k, supply, lab)
  <2> SUFFICES ASSUME NEW j \in 1 .. z - 1
               PROVE  /\ r[j].timestamp >= p
                      /\ r[j].timestamp < supply[lab[j]]
                      /\ Carries(r[j], lab[j], Part(n, lab[j]))
    BY <1>2, <1>10 DEF Waiting, r
  <2> QED BY <1>3, <1>8
<1>12. Distinct(k, lab)
  <2> SUFFICES ASSUME NEW j \in 1 .. z - 1, NEW h \in 1 .. z - 1,
                      lab[j] = lab[h], r[j].timestamp = r[h].timestamp
               PROVE  j = h
    BY <1>2 DEF Distinct, r
  <2>1. old(j) = old(h)  BY <1>3, <1>8
  <2> QED BY <1>4, <2>1
<1>13. ChildFirst(n, k, lab)
  <2> SUFFICES ASSUME NEW j \in 1 .. z - 1, lab[j] = n, r[j].timestamp > p
               PROVE  \E h \in 1 .. z - 1 :
                        h < j /\ r[h].timestamp = r[j].timestamp
    BY <1>2, <1>10 DEF ChildFirst, r
  <2>1. PICK a \in 1 .. z :
          a < old(j) /\ q[a].timestamp = q[old(j)].timestamp
    BY <1>3, <1>8
  <2>2. q[a].timestamp = r[j].timestamp  BY <1>3, <2>1
  <2>3. a # i
    <3> SUFFICES ASSUME a = i PROVE FALSE  OBVIOUS
    <3>1. r[j].timestamp = p  BY <1>8, <2>2
    <3> QED BY <1>1, <3>1 DEF p
  <2>4. PICK h \in 1 .. z - 1 : old(h) = a  BY <1>5, <2>3
  <2>5. h < j  BY <1>4, <2>1, <2>4
  <2>6. r[h].timestamp = r[j].timestamp  BY <1>3, <2>2, <2>4
  <2> QED BY <2>5, <2>6
<1>14. Complete(n, k, supply, lab, have)
  <2> SUFFICES ASSUME NEW x \in Source(n)
               PROVE  /\ supply[x] >= p
                      /\ x \in have => supply[x] > p
                      /\ \A t \in Nat : t >= p /\ t < supply[x] =>
                           \/ t = p /\ x \in have
                           \/ \E h \in 1 .. z - 1 :
                                lab[h] = x /\ r[h].timestamp = t
    BY <1>2, <1>10 DEF Complete, r
  <2>1. x = src[i] => supply[x] > p
    <3>1. supply[x] \in Nat /\ p \in Nat  BY <1>1 DEF p
    <3>2. x = src[i] => q[i].timestamp < supply[x]  BY <1>8
    <3> QED BY <1>8, <3>1, <3>2
  <2>2. ASSUME NEW t \in Nat, t >= p, t < supply[x]
        PROVE  \/ t = p /\ x \in have
               \/ \E h \in 1 .. z - 1 : lab[h] = x /\ r[h].timestamp = t
    <3>1. CASE t = p /\ x \in got  BY <3>1
    <3>2. ASSUME NEW a \in 1 .. z, src[a] = x, q[a].timestamp = t
          PROVE  \/ t = p /\ x \in have
                 \/ \E h \in 1 .. z - 1 : lab[h] = x /\ r[h].timestamp = t
      <4>1. CASE a = i  BY <1>8, <3>2, <4>1
      <4>2. CASE a # i
        <5>1. PICK h \in 1 .. z - 1 : old(h) = a  BY <1>5, <4>2
        <5>2. lab[h] = x /\ r[h].timestamp = t  BY <1>3, <3>2, <5>1
        <5> QED BY <5>2
      <4> QED BY <4>1, <4>2
    <3>3. \/ t = p /\ x \in got
          \/ \E a \in 1 .. z : src[a] = x /\ q[a].timestamp = t
      BY <1>9, <2>2
    <3> QED BY <3>1, <3>2, <3>3
  <2> QED BY <1>9, <2>1, <2>2
<1>15. Current(k, lab, have)
  <2> SUFFICES ASSUME NEW j \in 1 .. z - 1, r[j].timestamp = p
               PROVE  lab[j] \notin have /\ j >= i
    BY <1>2, <1>10 DEF Current, r
  <2>1. q[old(j)].timestamp = p /\ old(j) \in 1 .. z /\ lab[j] = src[old(j)]
        /\ old(j) # i /\ (old(j) >= i => j >= i)
    BY <1>3
  <2>2. src[old(j)] \notin got /\ old(j) >= i  BY <1>8, <2>1
  <2>3. src[old(j)] # src[i]  BY <1>8, <2>1
  <2> QED BY <2>1, <2>2, <2>3
<1>16. Queued(n, k, supply, lab, have)
  BY <1>11, <1>12, <1>13, <1>14 DEF Queued
<1>17. lab \in [1 .. Len(k.queue) -> Source(n)]  BY <1>2, <1>7 DEF r
<1> HIDE DEF have
<1>18. \E u \in [1 .. Len(k.queue) -> Source(n)] :
         Queued(n, k, supply, u, have) /\ Current(k, u, have)
  BY <1>15, <1>16, <1>17
<1> QED BY <1>18 DEF have

\* A leaf below a child is below the process.
LEMMA HaltedAbove ==
  ASSUME NEW n \in Rank, NEW c \in children(n), NEW ts, Halted(c, ts)
  PROVE  Halted(n, ts)
BY SubOfChild DEF Halted

\* An event of a child opens the aggregate: of the pulse, for the process.
LEMMA OpenAtFiled ==
  ASSUME NEW n \in NonLeaf, NEW m \in multi_stone_t,
         NEW supply \in [Source(n) -> Nat],
         NEW src \in [1 .. Len(m.queue) -> Source(n)],
         Queued(n, m, supply, src, {}),
         NEW i \in 1 .. Len(m.queue), src[i] # n,
         m.queue[i].timestamp = m.pulse_timestamp,
         \A j \in 1 .. Len(m.queue) :
           m.queue[j].timestamp = m.pulse_timestamp => j >= i
  PROVE  Merges(n, OpenAt(m, i), supply)
<1> DEFINE a == m.queue[i]
           g == IfMeasured(a, m, a.gather_info)
           e == [a EXCEPT !.parent_rank = get_parent(a.parent_rank),
                          !.gather_info = g]
           c == src[i]
           r == OpenAt(m, i)
           have == {} \cup {c}
<1>1. m.queue \in Seq(metrics_t) /\ Len(m.queue) \in Nat
  BY LenProperties DEF multi_stone_t
<1>2. a \in metrics_t  BY <1>1, ElementOfSeq
<1>3. c \in children(n) /\ c \in Source(n) /\ n \in Rank
  BY LeafRank DEF Source
<1>4. r \in multi_stone_t  BY OpenAtType
<1>5. /\ r.aggregated_event = e /\ r.first_found_index = i
      /\ r.queue = RemoveAt(m.queue, i) /\ r.count = 1
      /\ r.current_node_degree = get_degree_node(a.parent_rank)
      /\ r.pulse_timestamp = m.pulse_timestamp
  BY DEF OpenAt, multi_stone_t
<1> HIDE DEF g
<1>6. /\ e.timestamp = a.timestamp /\ e.gather_info = g
      /\ e.update_file = a.update_file /\ e.metrics_nr = a.metrics_nr
      /\ e.quit = a.quit /\ e.parent_rank = get_parent(a.parent_rank)
      /\ a.metrics_nr \in Nat
  BY <1>2 DEF metrics_t
<1>7. Carries(a, c, Part(n, c)) /\ a.timestamp = m.pulse_timestamp
  BY DEF Queued, Waiting
<1> HIDE DEF r, e, a
<1>8. PICK lab \in [1 .. Len(r.queue) -> Source(n)] :
         Queued(n, r, supply, lab, have) /\ Current(r, lab, have)
  BY <1>4, <1>5, QueuedWithout DEF a
<1>9. a.parent_rank = n  BY <1>3, <1>7, SubOfChild DEF Carries
<1>10. Carries(e, n, Cover(n, have))
  <2>1. e.parent_rank = get_parent(n)  BY <1>6, <1>9
  <2>2. have = {c}  OBVIOUS
  <2>3. Cover(n, have) = Part(n, c)  BY <2>2, CoverOne, Zenon
  <2>4. Reports(e, Cover(n, have))
    <3> SUFFICES ASSUME Unedited
                 PROVE  /\ e.metrics_nr = file
                        /\ e.gather_info = R(Cover(n, have), e.timestamp + file)
                        /\ e.timestamp = 0 => e.update_file
      BY DEF Reports
    <3>1. /\ a.metrics_nr = file
          /\ a.gather_info = R(Part(n, c), a.timestamp + file)
          /\ a.timestamp = 0 => a.update_file
      BY <1>7 DEF Carries, Reports
    <3>2. a.metrics_nr > 0  BY <1>6, <3>1 DEF Unedited
    <3>3. g = a.gather_info  BY <3>2 DEF g, IfMeasured
    <3> QED BY <1>6, <2>3, <3>1, <3>3, Zenon
  <2>5. ~BENCHMARKING /\ e.quit => Halted(n, e.timestamp)
    BY <1>3, <1>6, <1>7, HaltedAbove, Zenon DEF Carries
  <2> QED BY <2>1, <2>4, <2>5, Zenon DEF Carries
<1>11. Aggregate(n, r, have)
  <2>1. Cardinality(have) = 1 /\ have # {}
    <3>1. have = {c}  OBVIOUS
    <3> QED BY <3>1, FS_Singleton
  <2>2. i # NotFound  BY <1>1 DEF NotFound
  <2>3. Len(r.queue) = Len(m.queue) - 1
    BY <1>1, <1>5, RemoveAtProperties
  <2>4. r.first_found_index <= Len(r.queue) + 1  BY <1>1, <1>5, <2>3
  <2>5. r.current_node_degree = get_degree_node(n)  BY <1>5, <1>9
  <2>6. r.aggregated_event.timestamp = r.pulse_timestamp
    BY <1>5, <1>6, <1>7
  <2> HIDE DEF have
  <2> QED BY <1>5, <1>10, <2>1, <2>2, <2>4, <2>5, <2>6, Zenon DEF Aggregate
<1>12. have \in SUBSET Source(n)  BY <1>3
<1>13. Filed(n, r, supply, lab, have)
  BY <1>8, <1>11, Zenon DEF Filed, Queued
<1> HIDE DEF have
<1> QED BY <1>12, <1>13 DEF Merges, r

\* Merging an event adds what it speaks for to the aggregate.
LEMMA MergeAtFiled ==
  ASSUME NEW n \in NonLeaf, NEW m \in multi_stone_t,
         NEW supply \in [Source(n) -> Nat],
         NEW src \in [1 .. Len(m.queue) -> Source(n)],
         NEW got \in SUBSET Source(n), Filed(n, m, supply, src, got),
         m.first_found_index # NotFound,
         NEW i \in 1 .. Len(m.queue),
         m.queue[i].timestamp = m.pulse_timestamp,
         \A j \in 1 .. Len(m.queue) :
           m.queue[j].timestamp = m.pulse_timestamp => j >= i
  PROVE  Merges(n, MergeAt(m, i), supply)
<1> DEFINE a == m.queue[i]
           v == Combine(m.aggregated_event.gather_info, a.gather_info)
           g == IfMeasured(a, m, v)
           e == [m.aggregated_event EXCEPT !.gather_info = g]
           x == src[i]
           r == MergeAt(m, i)
           have == got \cup {x}
           p == m.pulse_timestamp
<1>1. m.queue \in Seq(metrics_t) /\ Len(m.queue) \in Nat /\ p \in Nat
  BY LenProperties DEF multi_stone_t
<1>2. m.aggregated_event \in metrics_t /\ a \in metrics_t
  BY <1>1, ElementOfSeq DEF multi_stone_t
<1>3. x \in Source(n) /\ n \in Rank  BY LeafRank
<1>4. r \in multi_stone_t  BY MergeAtType
<1>5. /\ r.aggregated_event = e /\ r.first_found_index = i
      /\ r.queue = RemoveAt(m.queue, i) /\ r.count = m.count + 1
      /\ r.current_node_degree = m.current_node_degree
      /\ r.pulse_timestamp = p
  BY DEF MergeAt, multi_stone_t
<1> HIDE DEF g
<1>6. /\ e.timestamp = m.aggregated_event.timestamp /\ e.gather_info = g
      /\ e.quit = m.aggregated_event.quit
      /\ e.parent_rank = m.aggregated_event.parent_rank
      /\ e.metrics_nr = m.aggregated_event.metrics_nr
      /\ e.update_file = m.aggregated_event.update_file
      /\ a.metrics_nr \in Nat
  BY <1>2 DEF metrics_t
<1>7. Carries(a, x, Part(n, x)) /\ a.timestamp = p
  BY DEF Filed, Waiting
<1>8. /\ m.count = Cardinality(got) /\ got # {}
      /\ m.current_node_degree = get_degree_node(n)
      /\ m.aggregated_event.timestamp = p
      /\ Carries(m.aggregated_event, n, Cover(n, got))
  BY DEF Filed, Aggregate
<1>9. x \notin got /\ \A j \in 1 .. Len(m.queue) :
                          m.queue[j].timestamp = p => src[j] \notin got
  BY DEF Filed, Current
<1> HIDE DEF r, e, a, v
<1>10. PICK lab \in [1 .. Len(r.queue) -> Source(n)] :
         Queued(n, r, supply, lab, have) /\ Current(r, lab, have)
  <2>1. Queued(n, m, supply, src, got)  BY DEF Filed, Queued
  <2> QED BY <1>4, <1>5, <1>9, <2>1, QueuedWithout
<1>11. Carries(e, n, Cover(n, have))
  <2>1. e.parent_rank = get_parent(n)  BY <1>6, <1>8 DEF Carries
  <2>5. Reports(e, Cover(n, have))
    <3> SUFFICES ASSUME Unedited
                 PROVE  /\ e.metrics_nr = file
                        /\ e.gather_info = R(Cover(n, have), e.timestamp + file)
                        /\ e.timestamp = 0 => e.update_file
      BY DEF Reports
    <3> DEFINE t == p + file
    <3>1. a.metrics_nr = file /\ a.gather_info = R(Part(n, x), t)
      BY <1>7 DEF Carries, Reports
    <3>2. /\ m.aggregated_event.metrics_nr = file
          /\ m.aggregated_event.gather_info = R(Cover(n, got), t)
          /\ p = 0 => m.aggregated_event.update_file
      BY <1>8 DEF Carries, Reports
    <3>3. file > 0 /\ t \in Nat  BY <1>1, <1>6, <3>1 DEF Unedited
    <3>4. x \in Source(n) \ got  BY <1>3, <1>9
    <3>5. Combine(R(Cover(n, got), t), R(Part(n, x), t))
            = R(Cover(n, got \cup {x}), t)
      <4>1. n \in Rank /\ got \in SUBSET Source(n) /\ got # {}
        BY <1>3, <1>8
      <4>2. t \in Nat  BY <3>3
      <4>3. \A y \in Source(n) \ got, s \in Nat :
              Combine(R(Cover(n, got), s), R(Part(n, y), s))
                = R(Cover(n, got \cup {y}), s)
        BY <4>1, CoverAdd
      <4> HIDE DEF x, t
      <4> QED BY <3>4, <4>2, <4>3
    <3> HIDE DEF t
    <3>6. g = R(Cover(n, have), t)
      BY <3>1, <3>2, <3>3, <3>5 DEF g, v, IfMeasured
    <3> QED BY <1>6, <1>8, <3>2, <3>6 DEF t
  <2>6. ~BENCHMARKING /\ e.quit => Halted(n, e.timestamp)
    BY <1>6, <1>8, Zenon DEF Carries
  <2> QED BY <2>1, <2>5, <2>6, Zenon DEF Carries
<1>12. Aggregate(n, r, have)
  <2>1. Cardinality(have) = m.count + 1 /\ have # {}
    <3>1. IsFiniteSet(got)  BY <1>3, SourceCount, FS_Subset
    <3>2. Cardinality(got \cup {x}) = Cardinality(got) + 1
      BY <1>9, <3>1, FS_AddElement
    <3>3. m.count + 1 = Cardinality(got) + 1  BY <1>8
    <3> QED BY <3>2, <3>3
  <2>2. i # NotFound  BY <1>1 DEF NotFound
  <2>3. Len(r.queue) = Len(m.queue) - 1
    BY <1>1, <1>5, RemoveAtProperties
  <2>4. r.first_found_index <= Len(r.queue) + 1  BY <1>1, <1>5, <2>3
  <2>5. r.current_node_degree = get_degree_node(n)  BY <1>5, <1>8
  <2>6. r.aggregated_event.timestamp = r.pulse_timestamp
    BY <1>5, <1>6, <1>8
  <2> HIDE DEF have
  <2> QED BY <1>5, <1>11, <2>1, <2>2, <2>4, <2>5, <2>6, Zenon DEF Aggregate
<1>13. have \in SUBSET Source(n)  BY <1>3
<1>14. Filed(n, r, supply, lab, have)
  BY <1>10, <1>12, Zenon DEF Filed, Queued
<1> HIDE DEF have
<1> QED BY <1>13, <1>14 DEF Merges, r

\* One activation of the program, by the next event of x.
LEMMA ActivateFiled ==
  ASSUME NEW n \in NonLeaf, NEW m \in multi_stone_t,
         NEW supply \in [Source(n) -> Nat], Merges(n, m, supply),
         children(n) # {},
         NEW x \in Source(n), NEW e \in metrics_t,
         e.timestamp = supply[x], Carries(e, x, Part(n, x)),
         x = n => \A c \in children(n) : supply[c] > supply[n]
  PROVE  Merges(n, Activate(m, e), [supply EXCEPT ![x] = supply[x] + 1])
<1> DEFINE more == [supply EXCEPT ![x] = supply[x] + 1]
           q == Append(m.queue, e)
           k == [m EXCEPT !.queue = q]
           z == Len(m.queue)
           p == m.pulse_timestamp
<1>1. PICK src \in [1 .. z -> Source(n)], got \in SUBSET Source(n) :
        Filed(n, m, supply, src, got)
  BY DEF Merges
<1>2. m.queue \in Seq(metrics_t) /\ z \in Nat /\ p \in Nat
  BY LenProperties DEF multi_stone_t
<1>3. /\ q \in Seq(metrics_t) /\ Len(q) = z + 1 /\ q[z + 1] = e
      /\ \A j \in 1 .. z : q[j] = m.queue[j]
  BY <1>2, AppendProperties
<1>4. /\ k.queue = q /\ k.pulse_timestamp = p
      /\ k.first_found_index = m.first_found_index /\ k.count = m.count
      /\ k.current_node_degree = m.current_node_degree
      /\ k.aggregated_event = m.aggregated_event
  BY DEF multi_stone_t
<1>5. k \in multi_stone_t
  <2> HIDE DEF q
  <2> QED BY <1>3 DEF multi_stone_t
<1>6. Activate(m, e) = Consume(k)  BY DEF Activate
<1>7. more \in [Source(n) -> Nat]  OBVIOUS
<1> HIDE DEF k
<1>8. CASE m.first_found_index = NotFound
  <2> DEFINE lab == Labelled(src, z, x)
             i == Min(Matches(k, 1))
  <2>1. got = {}  BY <1>1, <1>8 DEF Filed, Aggregate
  <2>2. \A j \in 1 .. z : m.queue[j].timestamp # p
    BY <1>1, <1>8 DEF Filed, Current
  <2>3. \A y \in Source(n) : supply[y] = p
    <3> SUFFICES ASSUME NEW y \in Source(n), supply[y] # p PROVE FALSE
      OBVIOUS
    <3>1. supply[y] >= p /\ supply[y] \in Nat
      BY <1>1 DEF Filed, Complete
    <3>2. p >= p /\ p < supply[y]  BY <1>2, <3>1
    <3>3. \/ y \in got
          \/ \E j \in 1 .. z : src[j] = y /\ m.queue[j].timestamp = p
      BY <1>1, <1>2, <3>2 DEF Filed, Complete
    <3> QED BY <2>1, <2>2, <3>3
  <2>4. x # n
    <3> SUFFICES ASSUME x = n PROVE FALSE  OBVIOUS
    <3>1. PICK c \in children(n) : supply[c] > supply[n]  OBVIOUS
    <3>2. supply[c] = p /\ supply[n] = p  BY <2>3 DEF Source
    <3> QED BY <1>2, <3>1, <3>2
  <2>5. lab \in [1 .. Len(k.queue) -> Source(n)] /\ Queued(n, k, more, lab, {})
    <3>1. Queued(n, m, supply, src, got)  BY <1>1 DEF Filed, Queued
    <3> QED BY <1>4, <1>5, <2>1, <3>1, QueuedAppend
  <2>6. k.queue[z + 1].timestamp = p /\ Len(k.queue) = z + 1
    BY <1>3, <1>4, <2>3
  <2>7. Matches(k, 1) # {}
    <3>1. z + 1 \in 1 .. Len(k.queue)  BY <1>2, <2>6
    <3>2. z + 1 \in Matches(k, 1)  BY <1>4, <2>6, <3>1 DEF Matches
    <3> QED BY <3>2
  <2>8. /\ i \in 1 .. Len(k.queue) /\ k.queue[i].timestamp = p
        /\ \A j \in 1 .. i - 1 : k.queue[j].timestamp # p
    <3>1. 1 \in Nat \ {0}  OBVIOUS
    <3> HIDE DEF i
    <3>2. /\ i \in 1 .. Len(k.queue)
          /\ k.queue[i].timestamp = k.pulse_timestamp
          /\ \A j \in 1 .. i - 1 : k.queue[j].timestamp # k.pulse_timestamp
      BY <1>5, <2>7, <3>1, FirstMatch DEF i
    <3> QED BY <1>4, <3>2
  <2>9. Consume(k) = OpenAt(k, i)  BY <1>4, <1>8, <2>7 DEF Consume, Open
  <2> HIDE DEF i, lab
  <2>10. i = z + 1
    <3>1. \A j \in 1 .. z : k.queue[j].timestamp # p
      BY <1>3, <1>4, <2>2
    <3> QED BY <1>2, <2>6, <2>8, <3>1
  <2>11. lab[i] # n  BY <1>2, <2>4, <2>10 DEF lab, Labelled
  <2>12. \A j \in 1 .. Len(k.queue) : k.queue[j].timestamp = p => j >= i
    <3> SUFFICES ASSUME NEW j \in 1 .. Len(k.queue), ~(j >= i)
                 PROVE  k.queue[j].timestamp # p
      OBVIOUS
    <3>1. j \in 1 .. i - 1  BY <1>2, <2>6, <2>10
    <3> QED BY <2>8, <3>1
  <2> HIDE DEF more, p
  <2>13. Merges(n, OpenAt(k, i), more)
    BY <1>4, <1>5, <1>7, <2>5, <2>8, <2>11, <2>12, OpenAtFiled
  <2> QED BY <1>6, <2>9, <2>13 DEF more
<1>9. CASE m.first_found_index # NotFound
  <2> DEFINE I == Matches(k, k.first_found_index)
             i == Min(I)
  <2>1. PICK lab \in [1 .. Len(k.queue) -> Source(n)] :
          Filed(n, k, more, lab, got)
    <3>1. /\ Filed(n, m, supply, src, got)
          /\ src \in [1 .. Len(m.queue) -> Source(n)]
      BY <1>1
    <3>2. k.queue = Append(m.queue, e)  BY <1>4
    <3>3. k.pulse_timestamp = m.pulse_timestamp  BY <1>4
    <3> HIDE DEF q, z, p
    <3>4. \E lab \in [1 .. Len(k.queue) -> Source(n)] :
             Filed(n, k, [supply EXCEPT ![x] = supply[x] + 1], lab, got)
      BY <1>4, <1>5, <1>9, <3>1, <3>2, <3>3, FiledAppend, ZenonT(60)
    <3> QED BY <3>4
  <2>2. Consume(k) = Merge(k)  BY <1>4, <1>9 DEF Consume
  <2>3. k.first_found_index \in Nat \ {0}
    BY <1>4, <1>5, <1>9 DEF multi_stone_t
  <2>4. CASE Merge(k) = k
    <3>1. Merges(n, k, more)  BY <2>1 DEF Merges
    <3> QED BY <1>6, <2>2, <2>4, <3>1 DEF more
  <2>5. CASE I # {} /\ Merge(k) = MergeAt(k, i)
    <3>1. /\ i \in 1 .. Len(k.queue) /\ i >= k.first_found_index
          /\ k.queue[i].timestamp = k.pulse_timestamp
          /\ \A j \in k.first_found_index .. i - 1 :
               k.queue[j].timestamp # k.pulse_timestamp
      BY <1>5, <2>3, <2>5, FirstMatch
    <3> HIDE DEF i
    <3>2. \A j \in 1 .. Len(k.queue) :
            k.queue[j].timestamp = k.pulse_timestamp => j >= i
      <4> SUFFICES ASSUME NEW j \in 1 .. Len(k.queue), ~(j >= i),
                          k.queue[j].timestamp = k.pulse_timestamp
                   PROVE  FALSE
        OBVIOUS
      <4>1. j >= k.first_found_index  BY <2>1 DEF Filed, Current
      <4>2. j \in k.first_found_index .. i - 1
        BY <1>5, <2>3, <3>1, <4>1
      <4> QED BY <3>1, <4>2
    <3> HIDE DEF more
    <3>3. Merges(n, MergeAt(k, i), more)
      BY <1>4, <1>5, <1>7, <1>9, <2>1, <3>1, <3>2, MergeAtFiled
    <3> QED BY <1>6, <2>2, <2>5, <3>3 DEF more
  <2> QED BY <2>4, <2>5 DEF Merge
<1> QED BY <1>8, <1>9

\* When every source is merged the aggregate speaks for the whole subtree,
\* and the next pulse starts with none of its events lost.
LEMMA NextPulseFiled ==
  ASSUME NEW n \in NonLeaf, NEW m \in multi_stone_t,
         NEW supply \in [Source(n) -> Nat], Merges(n, m, supply),
         Completed(m)
  PROVE  /\ m.aggregated_event.timestamp = m.pulse_timestamp
         /\ Carries(m.aggregated_event, n, Sub(n))
         /\ \A y \in Source(n) : supply[y] > m.pulse_timestamp
         /\ Merges(n, NextPulse(m), supply)
<1> DEFINE z == Len(m.queue)
           q == m.queue
           p == m.pulse_timestamp
           k == [m EXCEPT !.pulse_timestamp = m.pulse_timestamp + 1,
                          !.first_found_index = NotFound,
                          !.count = 0]
           i == Min(Matches(k, 1))
<1>1. PICK src \in [1 .. z -> Source(n)], got \in SUBSET Source(n) :
        Filed(n, m, supply, src, got)
  BY DEF Merges
<1>2. /\ q \in Seq(metrics_t) /\ z \in Nat /\ p \in Nat
      /\ m.current_node_degree \in Nat /\ m.count \in Nat
  BY LenProperties DEF multi_stone_t
<1>3. n \in Rank  BY LeafRank
<1>4. m.first_found_index # NotFound
  <2> SUFFICES ASSUME m.first_found_index = NotFound PROVE FALSE  OBVIOUS
  <2>1. got = {} /\ m.count = Cardinality(got)
    BY <1>1 DEF Filed, Aggregate
  <2>2. m.count = 0  BY <2>1, FS_EmptySet
  <2> QED BY <1>2, <2>2 DEF Completed
<1>5. /\ m.count = Cardinality(got)
      /\ m.current_node_degree = get_degree_node(n)
      /\ m.aggregated_event.timestamp = p
      /\ Carries(m.aggregated_event, n, Cover(n, got))
  BY <1>1, <1>4 DEF Filed, Aggregate
<1>6. got = Source(n)
  <2>1. IsFiniteSet(Source(n)) /\ Cardinality(Source(n)) = get_degree_node(n) + 1
    BY <1>3, SourceCount
  <2>2. Cardinality(got) = Cardinality(Source(n))
    BY <1>5, <2>1 DEF Completed
  <2> QED BY <2>1, <2>2, FS_Subset
<1>7. Carries(m.aggregated_event, n, Sub(n))
  <2>1. Cover(n, got) = Sub(n)  BY <1>3, <1>6, CoverAll
  <2> QED BY <1>5, <2>1, Zenon
<1>8. \A y \in Source(n) : supply[y] > p
  BY <1>1, <1>6 DEF Filed, Complete
<1>9. \A j \in 1 .. z : q[j].timestamp \in Nat
  <2>1. \A j \in 1 .. z : q[j] \in metrics_t  BY <1>2, ElementOfSeq
  <2> QED BY <2>1 DEF metrics_t
<1>10. \A j \in 1 .. z : q[j].timestamp >= p /\ q[j].timestamp # p
  BY <1>1, <1>6 DEF Filed, Waiting, Current
<1>11. /\ k.queue = q /\ k.pulse_timestamp = p + 1
       /\ k.first_found_index = NotFound /\ k.count = 0
  BY DEF multi_stone_t
<1>12. k \in multi_stone_t
  <2>1. p + 1 \in Nat  BY <1>2
  <2> HIDE DEF p
  <2>2. [m EXCEPT !.pulse_timestamp = p + 1, !.first_found_index = NotFound,
                  !.count = 0] \in multi_stone_t
    BY <2>1, NextPulseFields
  <2> QED BY <2>2 DEF p
<1>13. NextPulse(m) = IF Matches(k, 1) # {} THEN OpenAt(k, i) ELSE k
  BY DEF NextPulse, Open
<1> HIDE DEF k, i, q, z, p
<1>14. src \in [1 .. Len(k.queue) -> Source(n)]  BY <1>1, <1>11 DEF q, z
<1>15. Len(k.queue) = z  BY <1>11 DEF q, z
<1>16. Queued(n, k, supply, src, {})
  <2>1. Waiting(n, k, supply, src)
    <3> SUFFICES ASSUME NEW j \in 1 .. z
                 PROVE  /\ q[j].timestamp >= p + 1
                        /\ q[j].timestamp < supply[src[j]]
                        /\ Carries(q[j], src[j], Part(n, src[j]))
      BY <1>11, <1>15 DEF Waiting
    <3>1. q[j].timestamp >= p + 1  BY <1>2, <1>9, <1>10
    <3>2. /\ q[j].timestamp < supply[src[j]]
          /\ Carries(q[j], src[j], Part(n, src[j]))
      BY <1>1 DEF Filed, Waiting, q, z
    <3> QED BY <3>1, <3>2
  <2>2. Distinct(k, src)
    <3>1. Distinct(m, src)  BY <1>1 DEF Filed
    <3> QED BY <1>11, <3>1 DEF Distinct, q
  <2>3. ChildFirst(n, k, src)
    <3> SUFFICES ASSUME NEW j \in 1 .. z, src[j] = n, q[j].timestamp > p + 1
                 PROVE  \E h \in 1 .. z :
                          h < j /\ q[h].timestamp = q[j].timestamp
      BY <1>11, <1>15 DEF ChildFirst
    <3>1. q[j].timestamp > p  BY <1>2, <1>9
    <3> QED BY <1>1, <3>1 DEF Filed, ChildFirst, q, z, p
  <2>4. Complete(n, k, supply, src, {})
    <3> SUFFICES ASSUME NEW x \in Source(n)
                 PROVE  /\ supply[x] >= p + 1
                        /\ \A t \in Nat : t >= p + 1 /\ t < supply[x] =>
                             \E j \in 1 .. z : src[j] = x /\ q[j].timestamp = t
      BY <1>11, <1>15 DEF Complete
    <3>1. supply[x] \in Nat  OBVIOUS
    <3>2. supply[x] >= p + 1  BY <1>2, <1>8, <3>1
    <3>3. ASSUME NEW t \in Nat, t >= p + 1, t < supply[x]
          PROVE  \E j \in 1 .. z : src[j] = x /\ q[j].timestamp = t
      <4>1. t >= p /\ t # p  BY <1>2, <3>3
      <4> QED BY <1>1, <3>3, <4>1 DEF Filed, Complete, q, z, p
    <3> QED BY <3>2, <3>3
  <2> QED BY <2>1, <2>2, <2>3, <2>4 DEF Queued
<1>17. CASE Matches(k, 1) = {}
  <2>1. Current(k, src, {})
    <3> SUFFICES ASSUME NEW j \in 1 .. Len(k.queue),
                        k.queue[j].timestamp = k.pulse_timestamp
                 PROVE  FALSE
      BY DEF Current
    <3>1. j \in Matches(k, 1)  BY DEF Matches
    <3> QED BY <1>17, <3>1
  <2>2. Aggregate(n, k, {})  BY <1>11, FS_EmptySet DEF Aggregate
  <2>3. Filed(n, k, supply, src, {})
    BY <1>16, <2>1, <2>2 DEF Filed, Queued
  <2>4. Merges(n, k, supply)  BY <1>14, <2>3 DEF Merges
  <2> QED BY <1>5, <1>7, <1>8, <1>13, <1>17, <2>4 DEF p
<1>18. CASE Matches(k, 1) # {}
  <2>1. /\ i \in 1 .. Len(k.queue)
        /\ k.queue[i].timestamp = k.pulse_timestamp
        /\ \A j \in 1 .. i - 1 : k.queue[j].timestamp # k.pulse_timestamp
    <3>1. 1 \in Nat \ {0}  OBVIOUS
    <3> QED BY <1>12, <1>18, <3>1, FirstMatch DEF i
  <2>2. \A j \in 1 .. Len(k.queue) :
          k.queue[j].timestamp = k.pulse_timestamp => j >= i
    <3> SUFFICES ASSUME NEW j \in 1 .. Len(k.queue), ~(j >= i)
                 PROVE  k.queue[j].timestamp # k.pulse_timestamp
      OBVIOUS
    <3>1. j \in 1 .. i - 1  BY <1>2, <1>15, <2>1
    <3> QED BY <2>1, <3>1
  <2>3. src[i] # n
    <3> SUFFICES ASSUME src[i] = n PROVE FALSE  OBVIOUS
    <3>1. i \in 1 .. z /\ q[i].timestamp = p + 1  BY <1>11, <1>15, <2>1
    <3>2. q[i].timestamp > p  BY <1>2, <3>1
    <3>3. PICK j \in 1 .. z : j < i /\ q[j].timestamp = q[i].timestamp
      BY <1>1, <3>1, <3>2 DEF Filed, ChildFirst, q, z, p
    <3>4. j >= i  BY <1>11, <1>15, <2>2, <3>1, <3>3
    <3> QED BY <1>2, <3>1, <3>3, <3>4
  <2>4. Merges(n, OpenAt(k, i), supply)
    BY <1>12, <1>14, <1>16, <2>1, <2>2, <2>3, OpenAtFiled
  <2> QED BY <1>5, <1>7, <1>8, <1>13, <1>18, <2>4 DEF p
<1> QED BY <1>17, <1>18

\* Only completing a pulse moves on to the next.
LEMMA ActivateKeepsPulse ==
  ASSUME NEW m \in multi_stone_t, NEW e \in metrics_t
  PROVE  Activate(m, e).pulse_timestamp = m.pulse_timestamp
<1> DEFINE q == Append(m.queue, e)
           k == [m EXCEPT !.queue = q]
<1>1. q \in Seq(metrics_t)  BY AppendProperties DEF multi_stone_t
<1> HIDE DEF q
<1>2. k \in multi_stone_t /\ k.pulse_timestamp = m.pulse_timestamp
  BY <1>1 DEF multi_stone_t
<1>3. Activate(m, e) = Consume(k)  BY DEF Activate, q
<1> HIDE DEF k
<1>4. \A i : OpenAt(k, i).pulse_timestamp = k.pulse_timestamp
  BY <1>2 DEF OpenAt, multi_stone_t
<1>5. OpenOnNothing(k).pulse_timestamp = k.pulse_timestamp
  BY <1>2 DEF OpenOnNothing, multi_stone_t
<1>6. \A i : MergeAt(k, i).pulse_timestamp = k.pulse_timestamp
  BY <1>2 DEF MergeAt, multi_stone_t
<1>7. Open(k).pulse_timestamp = k.pulse_timestamp
  BY <1>4, <1>5 DEF Open
<1>8. Merge(k).pulse_timestamp = k.pulse_timestamp  BY <1>6 DEF Merge
<1> QED BY <1>2, <1>3, <1>7, <1>8 DEF Consume

\* What an activation submits is of the pulse it completes, and speaks for
\* the subtree.
Answers(n, m, e, more) ==
  \/ Submitted(m, e) = <<>>
  \/ \E a \in metrics_t :
       /\ Submitted(m, e) = <<a>>
       /\ a.timestamp = m.pulse_timestamp
       /\ Carries(a, n, Sub(n))
       /\ \A y \in Source(n) : more[y] > m.pulse_timestamp

\* One run of the program, by the next event of x.
LEMMA multi_funcFiled ==
  ASSUME NEW n \in NonLeaf, NEW m \in multi_stone_t,
         NEW supply \in [Source(n) -> Nat], Merges(n, m, supply),
         children(n) # {},
         NEW x \in Source(n), NEW e \in metrics_t,
         e.timestamp = supply[x], Carries(e, x, Part(n, x)),
         x = n => \A c \in children(n) : supply[c] > supply[n]
  PROVE  LET more == [supply EXCEPT ![x] = supply[x] + 1]
         IN  /\ Merges(n, multi_func(m, e), more)
             /\ Answers(n, m, e, more)
<1> DEFINE r == Activate(m, e)
           more == [supply EXCEPT ![x] = supply[x] + 1]
<1>1. more \in [Source(n) -> Nat]  OBVIOUS
<1>2. Merges(n, r, more)  BY ActivateFiled
<1>3. r \in multi_stone_t /\ r.pulse_timestamp = m.pulse_timestamp
  BY ActivateType, ActivateKeepsPulse
<1>4. r.aggregated_event \in metrics_t  BY <1>3 DEF multi_stone_t
<1>5. /\ multi_func(m, e) = IF Completed(r) THEN NextPulse(r) ELSE r
      /\ Submitted(m, e) = IF Completed(r) THEN <<r.aggregated_event>> ELSE <<>>
  BY DEF multi_func, Submitted
<1> HIDE DEF r, more
<1>6. CASE Completed(r)
  <2>1. /\ r.aggregated_event.timestamp = r.pulse_timestamp
        /\ Carries(r.aggregated_event, n, Sub(n))
        /\ \A y \in Source(n) : more[y] > r.pulse_timestamp
        /\ Merges(n, NextPulse(r), more)
    BY <1>1, <1>2, <1>3, <1>6, NextPulseFiled
  <2>2. Answers(n, m, e, more)
    BY <1>3, <1>4, <1>5, <1>6, <2>1 DEF Answers
  <2> QED BY <1>5, <1>6, <2>1, <2>2 DEF more
<1>7. CASE ~Completed(r)
  BY <1>2, <1>5, <1>7 DEF Answers, more
<1> QED BY <1>6, <1>7
-----------------------------------------------------------------------------
(***************************************************************************)
(* The tree.  What the events on a link say, how a process's own events    *)
(* stand to those of its children, and which event it submits next.        *)
(***************************************************************************)
LinkCarries(c) == \A i \in 1 .. Len(link[c]) : Carries(link[c][i], c, Sub(c))

\* Some child is not ahead of counter, but for the event being handled.
Behind(n) ==
  children(n) # {} =>
    \E c \in children(n) :
      \/ Arrived(c) = submissions(n)
      \/ /\ stage[n] = "terminal"
         /\ inbox[n].timestamp = counter[n]
         /\ Arrived(c) = counter[n] + 1

\* The event at the terminal_stone: the first pulse says that the file has
\* to be read, and one that completed a pulse is of that pulse.
Prompts(n) ==
  /\ first_pulse[n] <=> submissions(n) = 0
  /\ stage[n] # "idle" /\ Unedited /\ inbox[n].timestamp = 0 => inbox[n].update_file
  /\ stage[n] = "submitted" => inbox[n].timestamp = counter[n]

\* The event in data is the process's own, of the list in the file.
OwnData(n) ==
  ~first_pulse[n] =>
    /\ data[n].parent_rank = get_parent(n)
    /\ Unedited => /\ data[n].metrics_nr = file /\ total_metrics[n] = file
                   /\ data[n].gather_info = OwnInfo(n, data[n].timestamp, file)

\* It is stale only when the last one submitted closed the run.
Fresh(n) ==
  ~BENCHMARKING =>
    /\ ~first_pulse[n] /\ stage[n] # "submitted" =>
         \/ data[n].timestamp = counter[n] /\ ~data[n].quit
         \/ Halted(n, counter[n] - 1)
    /\ stage[n] # "idle" /\ inbox[n].quit => Halted(n, inbox[n].timestamp)

Tidy(n) == /\ Merges(n, multi[n], Supply(n)) /\ Behind(n)
           /\ Prompts(n) /\ OwnData(n) /\ Fresh(n)

\* A leaf that has sent nothing has not read the file.
Unread(l) == counter[l] = 0 => total_metrics[l] = 0

MergeInv == /\ PulseInv
            /\ \A c \in Rank : LinkCarries(c)
            /\ \A l \in Leaf : Unread(l)
            /\ \A n \in NonLeaf : Tidy(n)
-----------------------------------------------------------------------------
(***************************************************************************)
(* What a step leaves alone.                                               *)
(***************************************************************************)
\* A leaf that has left its loop sends nothing more, and if the file was not
\* edited before the step it is the same one.
Persists ==
  /\ \A l \in Leaf : ~running[l] => ~running'[l] /\ counter'[l] = counter[l]
  /\ Unedited' => Unedited /\ file' = file

\* A step that leaves the file alone.
LEMMA FilePersists ==
  ASSUME UNCHANGED fileVars
  PROVE  Unedited' => Unedited /\ file' = file
BY DEF Unedited, fileVars

\* It stays so.
LEMMA HaltedHolds ==
  ASSUME Persists, NEW r, NEW ts, Halted(r, ts)
  PROVE  Halted(r, ts)'
BY DEF Persists, Halted

\* What an event says stays true.
LEMMA CarriesHolds ==
  ASSUME Persists, NEW e, NEW x, NEW S, Carries(e, x, S)
  PROVE  Carries(e, x, S)'
<1>1. ASSUME Unedited'
      PROVE  /\ e.metrics_nr = file'
             /\ e.gather_info = R(S, e.timestamp + file')
             /\ e.timestamp = 0 => e.update_file
  BY <1>1 DEF Persists, Carries, Reports
<1>2. Reports(e, S)'  BY <1>1 DEF Reports, R, Sample
<1> QED BY <1>2, HaltedHolds DEF Carries

\* So does what the queue of a multi_stone says, while it is the same.
LEMMA MergesHolds ==
  ASSUME Persists, NEW n, NEW m, NEW supply, Merges(n, m, supply)
  PROVE  Merges(n, m, supply)'
<1>1. PICK src \in [1 .. Len(m.queue) -> Source(n)], got \in SUBSET Source(n) :
        Filed(n, m, supply, src, got)
  BY DEF Merges
<1>2. Waiting(n, m, supply, src)'
  BY <1>1, CarriesHolds DEF Filed, Waiting
<1>3. Aggregate(n, m, got)'
  BY <1>1, CarriesHolds DEF Filed, Aggregate
<1>4. /\ Distinct(m, src) /\ ChildFirst(n, m, src)
      /\ Complete(n, m, supply, src, got) /\ Current(m, src, got)
  BY <1>1 DEF Filed
<1>5. Filed(n, m, supply, src, got)'
  BY <1>2, <1>3, <1>4 DEF Filed
<1> QED BY <1>5 DEF Merges

\* And what a multi_stone has submitted.
LEMMA AnswersHolds ==
  ASSUME Persists, NEW n, NEW m, NEW e, NEW more, Answers(n, m, e, more)
  PROVE  Answers(n, m, e, more)'
BY CarriesHolds DEF Answers

\* A link that the step does not touch.
LEMMA LinkCarriesHolds ==
  ASSUME Persists, NEW c \in Rank, LinkCarries(c), link'[c] = link[c]
  PROVE  LinkCarries(c)'
BY CarriesHolds DEF LinkCarries

\* A link whose first event is taken.
LEMMA LinkCarriesTail ==
  ASSUME Persists, NEW c \in Rank, LinkCarries(c),
         link[c] \in Seq(metrics_t), link[c] # <<>>,
         link'[c] = Tail(link[c])
  PROVE  LinkCarries(c)'
<1>1. /\ Len(link[c]) \in Nat /\ Len(Tail(link[c])) = Len(link[c]) - 1
      /\ \A i \in 1 .. Len(link[c]) - 1 : Tail(link[c])[i] = link[c][i + 1]
  BY HeadTailProperties, LenProperties
<1>2. \A i \in 1 .. Len(link[c]) - 1 : i + 1 \in 1 .. Len(link[c])
  BY <1>1
<1> QED BY <1>1, <1>2, CarriesHolds DEF LinkCarries

\* A link that an event is put on.
LEMMA LinkCarriesAppend ==
  ASSUME Persists, NEW c \in Rank, LinkCarries(c),
         link[c] \in Seq(metrics_t), NEW e \in metrics_t, Carries(e, c, Sub(c))',
         link'[c] = Append(link[c], e)
  PROVE  LinkCarries(c)'
<1> DEFINE q == link[c]
<1>1. /\ Len(q) \in Nat /\ Len(link'[c]) = Len(q) + 1
      /\ link'[c][Len(q) + 1] = e
      /\ \A i \in 1 .. Len(q) : link'[c][i] = q[i]
  BY AppendProperties, LenProperties
<1>2. \A i \in 1 .. Len(q) + 1 : i \in 1 .. Len(q) \/ i = Len(q) + 1
  BY <1>1
<1>3. ASSUME NEW i \in 1 .. Len(q) PROVE Carries(q[i], c, Sub(c))'
  <2>1. Carries(q[i], c, Sub(c))  BY DEF LinkCarries
  <2> DEFINE a == q[i]
             S == Sub(c)
  <2> HIDE DEF a, S
  <2>2. Carries(a, c, S)  BY <2>1 DEF a, S
  <2> QED BY <2>2, CarriesHolds DEF a, S
<1> QED BY <1>1, <1>2, <1>3 DEF LinkCarries

\* A link that the answer of the multi_stone is put on.
LEMMA LinkCarriesAnswer ==
  ASSUME Persists, NEW c \in Rank, LinkCarries(c),
         link[c] \in Seq(metrics_t), NEW m, NEW e, NEW more,
         Answers(c, m, e, more), link'[c] = link[c] \o Submitted(m, e)
  PROVE  LinkCarries(c)'
<1>1. CASE Submitted(m, e) = <<>>
  <2>1. link'[c] = link[c]  BY <1>1, ConcatEmptySeq
  <2> QED BY <2>1, LinkCarriesHolds
<1>2. ASSUME NEW a \in metrics_t, Submitted(m, e) = <<a>>, Carries(a, c, Sub(c))
      PROVE  LinkCarries(c)'
  <2>1. link'[c] = Append(link[c], a)  BY <1>2, AppendIsConcat
  <2> DEFINE S == Sub(c)
  <2> HIDE DEF S
  <2>2. Carries(a, c, S)  BY <1>2 DEF S
  <2>3. Carries(a, c, S)'  BY <2>2, CarriesHolds
  <2> QED BY <2>1, <2>3, LinkCarriesAppend DEF S
<1> QED BY <1>1, <1>2 DEF Answers

\* A process that the step does not touch, nor the arrivals from its
\* children.
LEMMA TidyHolds ==
  ASSUME Persists, NEW n \in NonLeaf, Tidy(n),
         multi'[n] = multi[n], stage'[n] = stage[n], inbox'[n] = inbox[n],
         counter'[n] = counter[n], first_pulse'[n] = first_pulse[n],
         data'[n] = data[n], total_metrics'[n] = total_metrics[n],
         \A c \in children(n) : Arrived(c)' = Arrived(c)
  PROVE  Tidy(n)'
<1>0. submissions(n)' = submissions(n)  BY DEF submissions
<1>1. Supply(n)' = Supply(n)
  <2>1. \A x \in Source(n) : IF x = n THEN TRUE ELSE Arrived(x)' = Arrived(x)
    BY DEF Source
  <2> QED BY <1>0, <2>1 DEF Supply
<1>2. Merges(n, multi[n], Supply(n))'
  <2> DEFINE m == multi[n]
             s == Supply(n)
  <2>1. Merges(n, m, s)  BY DEF Tidy
  <2>2. m' = m /\ s' = s  BY <1>1
  <2> HIDE DEF m, s
  <2>3. Merges(n, m, s)'  BY <2>1, <2>2, MergesHolds
  <2> QED BY <2>3 DEF m, s
<1>3. Behind(n)'  BY <1>0 DEF Tidy, Behind
<1>5. Prompts(n)'  BY <1>0 DEF Tidy, Prompts, Persists
<1>6. OwnData(n)'
  BY DEF Tidy, OwnData, Persists, OwnInfo, Measured
<1>4. Fresh(n)'
  <2>1. Halted(n, counter[n] - 1) => Halted(n, counter[n] - 1)'
    BY DEF Persists, Halted
  <2>2. Halted(n, inbox[n].timestamp) => Halted(n, inbox[n].timestamp)'
    BY DEF Persists, Halted
  <2> QED BY <2>1, <2>2 DEF Tidy, Fresh
<1> QED BY <1>2, <1>3, <1>4, <1>5, <1>6 DEF Tidy

\* One more event of the source x.
LEMMA SupplyGrows ==
  ASSUME NEW n \in NonLeaf, NEW x \in Source(n),
         \A y \in Source(n) : Supply(n)'[y] =
           IF y = x THEN Supply(n)[y] + 1 ELSE Supply(n)[y]
  PROVE  Supply(n)' = [Supply(n) EXCEPT ![x] = Supply(n)[x] + 1]
<1>1. /\ Supply(n) = [y \in Source(n) |-> Supply(n)[y]]
      /\ Supply(n)' = [y \in Source(n) |-> Supply(n)'[y]]
  BY DEF Supply
<1> QED BY <1>1

\* What a process has supplied is a number, and not below the pulse of its
\* parent's multi_stone.
LEMMA SupplyType ==
  ASSUME PulseInv, NEW n \in NonLeaf
  PROVE  /\ Supply(n) \in [Source(n) -> Nat]
         /\ Supply(n)[n] = submissions(n) /\ n \in Source(n)
         /\ \A c \in children(n) :
              c \in Source(n) /\ c # n /\ Supply(n)[c] = Arrived(c)
<1>1. n \in Rank /\ n \in Source(n) /\ n \notin children(n)
  BY LeafRank, SourceCount DEF Source
<1>2. submissions(n) \in Nat  BY <1>1 DEF PulseInv, TypeOK, submissions
<1>3. \A c \in children(n) : c \in Rank /\ Arrived(c) \in Nat
  <2> SUFFICES ASSUME NEW c \in children(n)
               PROVE  c \in Rank /\ Arrived(c) \in Nat
    OBVIOUS
  <2>1. c \in Rank  BY ChildRank
  <2>2. Arrived(c) \in Int /\ Arrived(c) >= 0
    BY <2>1, SentType DEF PulseInv, LinkInv
  <2> QED BY <2>1, <2>2
<1>4. \A x \in Source(n) :
        (IF x = n THEN submissions(n) ELSE Arrived(x)) \in Nat
  BY <1>2, <1>3 DEF Source
<1>5. Supply(n) \in [Source(n) -> Nat]  BY <1>4 DEF Supply
<1>6. Supply(n)[n] = submissions(n)  BY <1>1 DEF Supply
<1>7. \A c \in children(n) :
        c \in Source(n) /\ c # n /\ Supply(n)[c] = Arrived(c)
  BY <1>1 DEF Supply, Source
<1> QED BY <1>1, <1>5, <1>6, <1>7

\* No process below c has sent less than c.
LEMMA SentBelow ==
  ASSUME MergeInv, NEW c \in Rank, NEW x \in Sub(c)
  PROVE  /\ x \in Rank /\ Sent(x) >= Sent(c)
         /\ x \in NonLeaf => submissions(x) >= Sent(x)
<1> DEFINE S == {y \in Rank : Sent(y) >= Sent(c)}
<1>1. PulseInv /\ TypeOK  BY DEF MergeInv, PulseInv
<1>2. \A y \in Rank : Sent(y) \in Nat /\ Arrived(y) <= Sent(y)
  <2> SUFFICES ASSUME NEW y \in Rank
               PROVE  Sent(y) \in Nat /\ Arrived(y) <= Sent(y)
    OBVIOUS
  <2>1. Sent(y) \in Nat  BY <1>1, SentType
  <2>2. Len(link[y]) \in Nat  BY <1>1, LenProperties DEF TypeOK
  <2> QED BY <2>1, <2>2 DEF Arrived
<1>3. ASSUME NEW y \in NonLeaf, NEW z \in Source(y)
      PROVE  Supply(y)[z] >= Sent(y)
  <2>1. Merges(y, multi[y], Supply(y))  BY DEF MergeInv, Tidy
  <2>2. Supply(y)[z] >= multi[y].pulse_timestamp
    BY <2>1 DEF Merges, Filed, Complete
  <2>3. y \notin Leaf  BY DEF NonLeaf
  <2> QED BY <2>2, <2>3 DEF Sent
<1>4. ASSUME NEW y \in S, NEW z \in children(y) PROVE z \in S
  <2>1. y \in Rank /\ Sent(y) >= Sent(c)  OBVIOUS
  <2>2. y \in NonLeaf  BY <2>1, SubOfLeaf DEF NonLeaf
  <2>3. z \in Rank /\ z \in Source(y)  BY <2>2, ChildRank DEF Source
  <2>4. Supply(y)[z] = Arrived(z)  BY <1>1, <2>2, SupplyType
  <2>5. Arrived(z) >= Sent(y)  BY <1>3, <2>2, <2>3, <2>4
  <2>6. Arrived(z) \in Int  BY <1>1, <2>3, SentType
  <2>7. Sent(z) >= Sent(c)
    BY <1>2, <2>1, <2>3, <2>5, <2>6
  <2> QED BY <2>3, <2>7
<1>5. Sub(c) \subseteq S
  <2>1. S \in SUBSET Rank /\ c \in S  BY <1>2
  <2>2. Closed(S)  BY <1>4 DEF Closed
  <2> HIDE DEF S
  <2> QED BY <2>1, <2>2, SubLeast
<1>6. x \in NonLeaf => submissions(x) >= Sent(x)
  BY <1>1, <1>3, SupplyType
<1> QED BY <1>5, <1>6
-----------------------------------------------------------------------------
(***************************************************************************)
(* The initial states and every action.                                    *)
(***************************************************************************)
LEMMA InitMergeInv == Init => MergeInv
<1> SUFFICES ASSUME Init PROVE MergeInv  OBVIOUS
<1>1. PulseInv /\ TypeOK  BY InitPulseInv DEF PulseInv
<1>2. ASSUME NEW c \in Rank PROVE LinkCarries(c) /\ Arrived(c) = 0
  <2>1. link[c] = <<>> /\ Len(link[c]) = 0  BY DEF Init
  <2>2. Arrived(c) = 0
    <3>1. CASE c \in Leaf  BY <2>1, <3>1 DEF Arrived, Sent, Init
    <3>2. CASE c \notin Leaf
      <4>1. multi[c].pulse_timestamp = 0
        BY <3>2 DEF Init, NonLeaf, InitialMulti
      <4> QED BY <2>1, <3>2, <4>1 DEF Arrived, Sent
    <3> QED BY <3>1, <3>2
  <2> QED BY <2>1, <2>2 DEF LinkCarries
<1>3. ASSUME NEW n \in NonLeaf PROVE Tidy(n)
  <2> DEFINE m == multi[n]
             src == [i \in 1 .. 0 |-> n]
             s == Supply(n)
  <2>1. n \in Rank /\ counter[n] = 0 /\ first_pulse[n] /\ stage[n] = "idle"
    BY LeafRank DEF Init
  <2>0. submissions(n) = 0  BY <2>1 DEF submissions
  <2>2. /\ Len(m.queue) = 0 /\ m.pulse_timestamp = 0 /\ m.count = 0
        /\ m.first_found_index = NotFound
    BY DEF Init, InitialMulti
  <2>3. \A x \in Source(n) : s[x] = 0
    <3>1. s[n] = 0 /\ \A c \in children(n) : s[c] = Arrived(c)
      BY <1>1, <2>0, SupplyType
    <3>2. \A c \in children(n) : Arrived(c) = 0  BY <1>2, ChildRank
    <3> QED BY <3>1, <3>2 DEF Source
  <2>4. src \in [1 .. Len(m.queue) -> Source(n)]  BY <2>2
  <2> HIDE DEF m, s, src
  <2>5. Filed(n, m, s, src, {})
    <3>1. 1 .. Len(m.queue) = {}  BY <2>2
    <3>2. Waiting(n, m, s, src) /\ Distinct(m, src) /\ ChildFirst(n, m, src)
          /\ Current(m, src, {})
      BY <3>1 DEF Waiting, Distinct, ChildFirst, Current
    <3>3. Complete(n, m, s, src, {})
      BY <2>2, <2>3 DEF Complete
    <3>4. Aggregate(n, m, {})  BY <2>2, FS_EmptySet DEF Aggregate
    <3> QED BY <3>2, <3>3, <3>4 DEF Filed
  <2>6. Merges(n, multi[n], Supply(n))  BY <2>4, <2>5 DEF Merges, m, s
  <2>7. Behind(n)
    <3>1. \A c \in children(n) : Arrived(c) = submissions(n)
      BY <1>2, <2>0, ChildRank
    <3> QED BY <3>1 DEF Behind
  <2>8. Fresh(n) /\ Prompts(n) /\ OwnData(n)
    BY <2>0, <2>1 DEF Fresh, Prompts, OwnData
  <2> QED BY <2>6, <2>7, <2>8 DEF Tidy
<1>4. \A l \in Leaf : Unread(l)  BY LeafRank DEF Init, Unread
<1> QED BY <1>1, <1>2, <1>3, <1>4 DEF MergeInv

\* Steps that change nothing of all this.
LEMMA UnchangedMerge ==
  ASSUME MergeInv, TypeOK',
         UNCHANGED <<counter, total_metrics, link, multi, stage, inbox,
                     ownVars, pulse, running>>,
         Unedited' => Unedited /\ file' = file
  PROVE  MergeInv'
<1>1. PulseInv' /\ \A c \in Rank : Arrived(c)' = Arrived(c)
  BY UnchangedInv DEF MergeInv
<1>2. Persists  BY DEF Persists
<1>3. \A c \in Rank : LinkCarries(c)'
  BY <1>2, LinkCarriesHolds DEF MergeInv
<1>4. \A n \in NonLeaf : Tidy(n)'
  BY <1>1, <1>2, ChildRank, TidyHolds DEF MergeInv, ownVars
<1>5. \A l \in Leaf : Unread(l)'  BY DEF MergeInv, Unread
<1> QED BY <1>1, <1>3, <1>4, <1>5 DEF MergeInv

\* A leaf's event speaks for the leaf.
LEMMA start_communicationMerge ==
  ASSUME MergeInv, TypeOK', NEW l \in Leaf, start_communication(l)
  PROVE  MergeInv'
<1> DEFINE event ==
                [timestamp   |-> counter[l],
                 quit        |-> QuitNow(l),
                 update_file |-> needs_sync(file, total_metrics[l]),
                 parent_rank |-> get_parent(l),
                 metrics_nr  |-> file,
                 gather_info |-> OwnInfo(l, counter[l], file)]
<1>1. /\ TypeOK /\ l \in Rank /\ counter[l] \in Nat /\ file \in Nat
      /\ link[l] \in Seq(metrics_t)
  BY LeafRank, FileType DEF MergeInv, PulseInv, TypeOK
<1>2. PICK e \in metrics_t : e = event
  <2>1. event \in metrics_t  BY <1>1, LeafEventType, QuitNowType
  <2> QED BY <2>1
<1>3. /\ e.timestamp = counter[l] /\ e.parent_rank = get_parent(l)
      /\ e.quit = QuitNow(l) /\ e.gather_info = OwnInfo(l, counter[l], file)
      /\ e.metrics_nr = file
      /\ e.update_file = needs_sync(file, total_metrics[l])
  BY <1>2
<1>4. /\ link' = [link EXCEPT ![l] = Append(link[l], e)]
      /\ counter' = [counter EXCEPT ![l] = counter[l] + 1]
      /\ running' = [running EXCEPT ![l] = ~QuitNow(l)]
      /\ total_metrics' = [total_metrics EXCEPT ![l] = file]
      /\ running[l]
      /\ UNCHANGED <<fileVars, multi, stage, inbox, ownVars>>
  BY <1>2 DEF start_communication, SendEvent
<1> HIDE DEF event
<1>5. PulseInv' /\ \A c \in Rank : Arrived(c)' = Arrived(c)
  BY start_communicationInv DEF MergeInv
<1>6. Persists
  <2>1. \A k \in Leaf : ~running[k] => ~running'[k] /\ counter'[k] = counter[k]
    BY <1>1, <1>4, LeafRank DEF TypeOK
  <2> QED BY <1>4, <2>1, FilePersists DEF Persists
<1>7. Carries(e, l, Sub(l))'
  <2>1. Sub(l) = {l}  BY SubOfLeaf
  <2>2. OwnInfo(l, counter[l], file) = R({l}, counter[l] + file)
    BY <1>1, ROfOne
  <2>3. Reports(e, Sub(l))'
    <3> SUFFICES ASSUME Unedited
                 PROVE  /\ e.metrics_nr = file
                        /\ e.gather_info = R(Sub(l), e.timestamp + file)
                        /\ e.timestamp = 0 => e.update_file
      BY <1>4 DEF Reports, Unedited, fileVars, R, Sample
    <3>1. ASSUME counter[l] = 0 PROVE needs_sync(file, total_metrics[l])
      <4>1. total_metrics[l] = 0  BY <3>1 DEF MergeInv, Unread
      <4> QED BY <1>1, <4>1 DEF needs_sync, Unedited
    <3> QED BY <1>3, <2>1, <2>2, <3>1
  <2>4. QuitNow(l) => Halted(l, e.timestamp)'
    <3>1. l \in Leaf \cap Sub(l)  BY <2>1
    <3>2. counter'[l] = counter[l] + 1 /\ (QuitNow(l) => ~running'[l])
      BY <1>1, <1>4 DEF TypeOK
    <3> QED BY <1>3, <3>1, <3>2 DEF Halted
  <2> QED BY <1>3, <2>3, <2>4 DEF Carries
<1>8. ASSUME NEW c \in Rank PROVE LinkCarries(c)'
  <2>1. CASE c = l
    <3>1. link'[l] = Append(link[l], e)  BY <1>1, <1>4 DEF TypeOK
    <3> QED BY <1>1, <1>2, <1>6, <1>7, <2>1, <3>1, LinkCarriesAppend DEF MergeInv
  <2>2. CASE c # l
    <3>1. link'[c] = link[c]  BY <1>1, <1>4, <2>2 DEF TypeOK
    <3> QED BY <1>6, <3>1, LinkCarriesHolds DEF MergeInv
  <2> QED BY <2>1, <2>2
<1>9. ASSUME NEW n \in NonLeaf PROVE Tidy(n)'
  <2>1. n # l  BY DEF NonLeaf
  <2>2. counter'[n] = counter[n] /\ total_metrics'[n] = total_metrics[n]
    BY <1>1, <1>4, <2>1, LeafRank DEF TypeOK
  <2> QED BY <1>4, <1>5, <1>6, <2>2, ChildRank, TidyHolds
          DEF MergeInv, ownVars
<1>10. ASSUME NEW k \in Leaf PROVE Unread(k)'
  <2>1. CASE k = l
    <3>1. counter'[k] = counter[l] + 1  BY <1>1, <1>4, <2>1 DEF TypeOK
    <3> QED BY <1>1, <3>1 DEF Unread
  <2>2. CASE k # l
    <3>1. counter'[k] = counter[k] /\ total_metrics'[k] = total_metrics[k]
      BY <1>1, <1>4, <2>2, LeafRank DEF TypeOK
    <3> QED BY <3>1 DEF MergeInv, Unread
  <2> QED BY <2>1, <2>2
<1> QED BY <1>5, <1>8, <1>9, <1>10 DEF MergeInv

\* The stone of n after an event of its source x.
LEMMA StoneTakes ==
  ASSUME MergeInv, Persists, NEW n \in NonLeaf, children(n) # {},
         NEW x \in Source(n), NEW e \in metrics_t,
         e.timestamp = Supply(n)[x], Carries(e, x, Part(n, x)),
         x = n => \A c \in children(n) : Arrived(c) > submissions(n),
         multi'[n] = multi_func(multi[n], e),
         link'[n] = link[n] \o Submitted(multi[n], e),
         \A y \in Source(n) : Supply(n)'[y] =
           IF y = x THEN Supply(n)[y] + 1 ELSE Supply(n)[y]
  PROVE  Merges(n, multi[n], Supply(n))' /\ LinkCarries(n)'
<1>1. /\ PulseInv /\ n \in Rank /\ multi[n] \in multi_stone_t
      /\ link[n] \in Seq(metrics_t)
  BY LeafRank DEF MergeInv, PulseInv, TypeOK
<1>2. PICK m \in multi_stone_t : m = multi[n]  BY <1>1
<1>3. /\ Supply(n) \in [Source(n) -> Nat] /\ Supply(n)[n] = submissions(n)
      /\ \A c \in children(n) : Supply(n)[c] = Arrived(c)
  BY <1>1, SupplyType
<1>4. PICK supply \in [Source(n) -> Nat] : supply = Supply(n)  BY <1>3
<1>5. Supply(n)' = [supply EXCEPT ![x] = supply[x] + 1]
  BY <1>4, SupplyGrows
<1>6. PICK more : more = [supply EXCEPT ![x] = supply[x] + 1]  OBVIOUS
<1>7. PICK r : r = multi_func(m, e)  OBVIOUS
<1>8. Merges(n, m, supply)  BY <1>2, <1>4 DEF MergeInv, Tidy
<1>9. x = n => \A c \in children(n) : supply[c] > supply[n]
  BY <1>3, <1>4
<1>10. e.timestamp = supply[x]  BY <1>4
<1>11. Merges(n, r, more) /\ Answers(n, m, e, more)
  BY <1>6, <1>7, <1>8, <1>9, <1>10, multi_funcFiled
<1>12. Merges(n, r, more)'  BY <1>11, MergesHolds
<1>13. multi'[n] = r /\ Supply(n)' = more  BY <1>2, <1>5, <1>6, <1>7
<1>14. Merges(n, multi[n], Supply(n))'  BY <1>12, <1>13
<1>15. LinkCarries(n)'
  <2>1. link'[n] = link[n] \o Submitted(m, e)  BY <1>2
  <2>2. LinkCarries(n)  BY <1>1 DEF MergeInv
  <2> QED BY <1>1, <1>11, <2>1, <2>2, LinkCarriesAnswer
<1> QED BY <1>14, <1>15

\* A child's event at its parent: merged for the child's subtree.
LEMMA ArriveMerge ==
  ASSUME MergeInv, TypeOK', NEW c \in Rank, Arrive(c)
  PROVE  MergeInv'
<1> DEFINE n == get_parent(c)
<1>1. /\ PulseInv /\ TypeOK /\ c # ROOT /\ n \in NonLeaf /\ n \in Rank
      /\ n # c /\ n \notin Leaf /\ c \in children(n) /\ c \in Source(n)
  <2>1. PulseInv /\ TypeOK /\ c # ROOT
    BY DEF MergeInv, PulseInv, Arrive
  <2>2. n \in NonLeaf /\ n \in Rank /\ n # c /\ n \notin Leaf
    BY <2>1, ParentIsNotLeaf, ParentIsBelow, RankType DEF NonLeaf
  <2>3. c \in children(n)  BY <2>1, <2>2, ChildrenHaveParent
  <2> QED BY <2>1, <2>2, <2>3 DEF Source
<1>2. /\ link[c] \in Seq(metrics_t) /\ link[c] # <<>>
      /\ Len(link[c]) \in Nat /\ Arrived(c) \in Int /\ Arrived(c) >= 0
      /\ Consecutive(link[c], Arrived(c))
  BY <1>1, SentType DEF PulseInv, TypeOK, Arrive, LinkInv
<1>3. Head(link[c]) \in metrics_t /\ Head(link[c]).timestamp = Arrived(c)
  BY <1>2, ConsecutiveTail
<1>4. PICK e \in metrics_t : e = Head(link[c])  BY <1>3
<1>5. /\ link' = [link EXCEPT ![c] = Tail(link[c]),
                              ![n] = link[n] \o Submitted(multi[n], e)]
      /\ multi' = [multi EXCEPT ![n] = multi_func(multi[n], e)]
      /\ inbox' = [inbox EXCEPT ![n] = e]
      /\ stage' = [stage EXCEPT ![n] = "terminal"]
      /\ stage[n] = "idle"
      /\ UNCHANGED <<running, counter, first_pulse, data, total_metrics,
                     fileVars>>
  BY <1>1, <1>4, Zenon DEF Arrive, TypeOK, leafVars, ownVars
<1> HIDE DEF n
<1>6. /\ PulseInv'
      /\ \A x \in Rank : Arrived(x)' = Arrived(x) + (IF x = c THEN 1 ELSE 0)
  BY <1>1, ArriveInv
<1>7. Persists  BY <1>5, FilePersists DEF Persists
<1>8. /\ link'[c] = Tail(link[c])
      /\ link'[n] = link[n] \o Submitted(multi[n], e)
      /\ multi'[n] = multi_func(multi[n], e)
      /\ inbox'[n] = e /\ stage'[n] = "terminal"
  <2> DEFINE q == link[n] \o Submitted(multi[n], e)
             r == multi_func(multi[n], e)
  <2>1. /\ link' = [link EXCEPT ![c] = Tail(link[c]), ![n] = q]
        /\ multi' = [multi EXCEPT ![n] = r]
    BY <1>5
  <2> HIDE DEF q, r
  <2>2. link'[c] = Tail(link[c]) /\ link'[n] = q /\ multi'[n] = r
    BY <1>1, <2>1 DEF TypeOK
  <2>3. inbox'[n] = e /\ stage'[n] = "terminal"
    BY <1>1, <1>5 DEF TypeOK
  <2> QED BY <2>2, <2>3 DEF q, r
<1>9. Carries(e, c, Sub(c))
  <2>1. e = link[c][1] /\ 1 \in 1 .. Len(link[c])
    <3>1. Len(link[c]) # 0  BY <1>2, EmptySeq
    <3> QED BY <1>2, <1>4, <3>1
  <2> QED BY <2>1 DEF MergeInv, LinkCarries
<1>10. \A x \in Rank : Arrived(x) \in Int  BY <1>1, SentType
<1>17. submissions(n)' = counter[n] /\ submissions(n) = counter[n]
  BY <1>5, <1>8 DEF submissions
<1>11. \A y \in Source(n) :
         Supply(n)'[y] = IF y = c THEN Supply(n)[y] + 1 ELSE Supply(n)[y]
  <2> SUFFICES ASSUME NEW y \in Source(n)
               PROVE  Supply(n)'[y] =
                        IF y = c THEN Supply(n)[y] + 1 ELSE Supply(n)[y]
    OBVIOUS
  <2>1. Supply(n)'[n] = Supply(n)[n]
    BY <1>1, <1>17 DEF Supply, Source
  <2>2. ASSUME NEW x \in children(n)
        PROVE  /\ Supply(n)'[x] = Arrived(x)' /\ Supply(n)[x] = Arrived(x)
               /\ x \in Rank
    <3>1. x \in Source(n) /\ x # n /\ x \in Rank
      BY <1>1, ChildRank, SourceCount DEF Source
    <3> QED BY <3>1 DEF Supply
  <2>3. CASE y = n  BY <1>1, <1>5, <2>1, <2>3
  <2>4. CASE y # n
    <3>1. y \in children(n)  BY <2>4 DEF Source
    <3>2. Arrived(y)' = Arrived(y) + (IF y = c THEN 1 ELSE 0)
          /\ Arrived(y) \in Int
      BY <1>6, <1>10, <2>2, <3>1
    <3>3. Supply(n)'[y] = Arrived(y)' /\ Supply(n)[y] = Arrived(y)
      BY <2>2, <3>1
    <3> QED BY <3>2, <3>3
  <2> QED BY <2>3, <2>4
<1>12. Merges(n, multi[n], Supply(n))' /\ LinkCarries(n)'
  <2>1. Part(n, c) = Sub(c)  BY <1>1 DEF Part
  <2>2. e.timestamp = Supply(n)[c]  BY <1>1, <1>3, <1>4, SupplyType
  <2>3. children(n) # {} /\ c # n  BY <1>1
  <2> QED BY <1>1, <1>7, <1>8, <1>9, <1>11, <2>1, <2>2, <2>3, StoneTakes
<1>13. Behind(n)'
  <2>1. PICK k \in children(n) : Arrived(k) = counter[n]
    BY <1>1, <1>5, <1>17 DEF MergeInv, Tidy, Behind
  <2>2. k \in Rank /\ counter'[n] = counter[n]  BY <1>1, <1>5, <2>1, ChildRank
  <2>3. Arrived(k)' = Arrived(k) + (IF k = c THEN 1 ELSE 0)  BY <1>6, <2>2
  <2>4. CASE k = c
    <3>1. Arrived(k)' = counter'[n] + 1  BY <2>1, <2>2, <2>3, <2>4
    <3>2. inbox'[n].timestamp = counter'[n]
      BY <1>3, <1>4, <1>8, <2>1, <2>2, <2>4
    <3> QED BY <1>8, <3>1, <3>2 DEF Behind
  <2>5. CASE k # c
    <3>1. Arrived(k)' = submissions(n)'
      BY <1>10, <1>17, <2>1, <2>2, <2>3, <2>5
    <3> QED BY <3>1 DEF Behind
  <2> QED BY <2>4, <2>5
<1>18. Prompts(n)' /\ OwnData(n)'
  <2>1. Prompts(n) /\ OwnData(n)  BY <1>1 DEF MergeInv, Tidy
  <2>2. Unedited' => Unedited /\ file' = file  BY <1>7 DEF Persists
  <2>3. Unedited /\ e.timestamp = 0 => e.update_file
    BY <1>9 DEF Carries, Reports
  <2>4. Prompts(n)'
    BY <1>5, <1>8, <1>17, <2>1, <2>2, <2>3 DEF Prompts
  <2>5. /\ first_pulse'[n] = first_pulse[n] /\ data'[n] = data[n]
        /\ total_metrics'[n] = total_metrics[n]
    BY <1>5
  <2> QED BY <2>1, <2>2, <2>4, <2>5 DEF OwnData, OwnInfo, Measured
<1>14. Fresh(n)'
  <2>1. Fresh(n)  BY <1>1 DEF MergeInv, Tidy
  <2>2. ~BENCHMARKING /\ e.quit => Halted(n, e.timestamp)'
    <3>1. ~BENCHMARKING /\ e.quit => Halted(n, e.timestamp)
      BY <1>1, <1>9, HaltedAbove DEF Carries
    <3> QED BY <1>7, <3>1, HaltedHolds
  <2>3. Halted(n, counter[n] - 1) => Halted(n, counter[n] - 1)'
    BY <1>5 DEF Halted
  <2>4. /\ first_pulse'[n] = first_pulse[n] /\ data'[n] = data[n]
        /\ counter'[n] = counter[n]
    BY <1>5
  <2> QED BY <1>5, <1>8, <2>1, <2>2, <2>3, <2>4 DEF Fresh
<1>15. ASSUME NEW x \in Rank PROVE LinkCarries(x)'
  <2>1. CASE x = c
    BY <1>1, <1>2, <1>7, <1>8, <2>1, LinkCarriesTail DEF MergeInv
  <2>2. CASE x = n  BY <1>12, <2>2
  <2>3. CASE x # c /\ x # n
    <3>1. link'[x] = link[x]  BY <1>1, <1>5, <2>3 DEF TypeOK
    <3> QED BY <1>7, <3>1, LinkCarriesHolds DEF MergeInv
  <2> QED BY <2>1, <2>2, <2>3
<1>16. ASSUME NEW k \in NonLeaf, k # n PROVE Tidy(k)'
  <2>1. \A x \in children(k) : x # c /\ x \in Rank
    BY <1>16, ChildRank DEF n
  <2>2. \A x \in children(k) : Arrived(x)' = Arrived(x)
    BY <1>6, <1>10, <2>1
  <2>3. /\ multi'[k] = multi[k] /\ stage'[k] = stage[k]
        /\ inbox'[k] = inbox[k]
    BY <1>1, <1>5, <1>16 DEF TypeOK
  <2> QED BY <1>5, <1>7, <2>2, <2>3, TidyHolds DEF MergeInv
<1>19. \A l \in Leaf : Unread(l)'  BY <1>5 DEF MergeInv, Unread
<1> QED BY <1>6, <1>12, <1>13, <1>14, <1>15, <1>16, <1>18, <1>19
        DEF MergeInv, Tidy

\* Waiting for more events: some child's event of the pulse is missing.
LEMMA WaitForOthersMerge ==
  ASSUME MergeInv, TypeOK', NEW n \in NonLeaf, stage[n] = "terminal",
         WaitForOthers(n), hash_ts' = [hash_ts EXCEPT ![n] = Counted(n)],
         UNCHANGED <<fileVars, leafVars, counter, inbox, rootVars>>
  PROVE  MergeInv'
<1>1. /\ stage' = [stage EXCEPT ![n] = "idle"]
      /\ CountOf(Counted(n), counter[n]) # get_degree_node(n)
      /\ UNCHANGED <<counter, link, multi, first_pulse, data, inbox, running,
                     total_metrics, fileVars>>
  BY DEF WaitForOthers, leafVars
<1>2. /\ PulseInv /\ TypeOK /\ n \in Rank /\ counter[n] \in Nat /\ HashInv(n)
      /\ Tidy(n)
  BY LeafRank DEF MergeInv, PulseInv, TypeOK, ProcessInv
<1>3. PulseInv' /\ \A c \in Rank : Arrived(c)' = Arrived(c)
  BY <1>2, WaitForOthersInv
<1>4. Persists  BY <1>1, FilePersists DEF Persists
<1>5. \A c \in Rank : LinkCarries(c)'
  BY <1>1, <1>4, LinkCarriesHolds DEF MergeInv
<1>6. ASSUME NEW k \in NonLeaf, k # n PROVE Tidy(k)'
  <2>1. stage'[k] = stage[k]  BY <1>1, <1>2, <1>6 DEF TypeOK
  <2> QED BY <1>1, <1>3, <1>4, <2>1, ChildRank, TidyHolds DEF MergeInv
<1>11. /\ stage'[n] = "idle"
       /\ submissions(n)' = counter[n] /\ submissions(n) = counter[n]
  BY <1>1, <1>2 DEF TypeOK, submissions
<1>7. Supply(n)' = Supply(n)
  <2>1. \A x \in Source(n) : x # n => Arrived(x)' = Arrived(x)
    BY <1>3, ChildRank DEF Source
  <2> QED BY <1>11, <2>1 DEF Supply
<1>8. Merges(n, multi[n], Supply(n))'
  <2>1. PICK m : m = multi[n]  OBVIOUS
  <2>2. PICK s : s = Supply(n)  OBVIOUS
  <2>3. Merges(n, m, s)'
    BY <1>2, <1>4, <2>1, <2>2, MergesHolds DEF Tidy
  <2> QED BY <1>1, <1>7, <2>1, <2>2, <2>3
<1>9. Behind(n)'
  <2>1. Hash(n) = Counted(n)  BY DEF Hash
  <2>2. Cardinality(Past(n, counter[n])) # get_degree_node(n)
    BY <1>1, <1>2, <1>11, <2>1 DEF HashInv
  <2>3. Past(n, counter[n]) # children(n)  BY <1>2, <2>2, ChildrenCount
  <2>4. PICK c \in children(n) : ~(Arrived(c) > counter[n])
    BY <2>3 DEF Past
  <2>5. c \in Rank /\ Arrived(c) >= counter[n]
    BY <1>2, <1>11, ChildRank DEF HashInv
  <2>6. Arrived(c) \in Int  BY <1>2, <2>5, SentType
  <2>7. Arrived(c) = counter[n]  BY <1>2, <2>4, <2>5, <2>6
  <2> QED BY <1>3, <1>11, <2>5, <2>7 DEF Behind
<1>10. Fresh(n)' /\ Prompts(n)' /\ OwnData(n)'
  <2>1. stage'[n] = "idle"  BY <1>11
  <2>2. Halted(n, counter[n] - 1) => Halted(n, counter[n] - 1)'
    BY <1>1 DEF Halted
  <2>3. Fresh(n) /\ Prompts(n) /\ OwnData(n)  BY <1>2 DEF Tidy
  <2>4. /\ first_pulse'[n] = first_pulse[n] /\ data'[n] = data[n]
        /\ counter'[n] = counter[n] /\ total_metrics'[n] = total_metrics[n]
    BY <1>1
  <2>5. Fresh(n)'  BY <1>2, <2>1, <2>2, <2>3, <2>4 DEF Fresh
  <2>6. Prompts(n)'  BY <1>11, <2>1, <2>3, <2>4 DEF Prompts
  <2>7. OwnData(n)'
    BY <1>4, <2>3, <2>4 DEF OwnData, Persists, OwnInfo, Measured
  <2> QED BY <2>5, <2>6, <2>7
<1>12. \A l \in Leaf : Unread(l)'  BY <1>1 DEF MergeInv, Unread
<1> QED BY <1>3, <1>5, <1>6, <1>8, <1>9, <1>10, <1>12 DEF MergeInv, Tidy

\* With every child past counter no leaf below can have stopped before it.
LEMMA NoneHalted ==
  ASSUME MergeInv, NEW n \in NonLeaf,
         \A c \in children(n) : Arrived(c) > counter[n]
  PROVE  ~Halted(n, counter[n] - 1)
<1> SUFFICES ASSUME Halted(n, counter[n] - 1) PROVE FALSE  OBVIOUS
<1>1. PulseInv /\ TypeOK /\ n \in Rank /\ counter[n] \in Nat
  BY LeafRank DEF MergeInv, PulseInv, TypeOK
<1>2. PICK l \in Leaf \cap Sub(n) : counter[l] = counter[n] - 1 + 1
  BY DEF Halted
<1>3. l # n  BY <1>2 DEF NonLeaf
<1>4. PICK c \in children(n) : l \in Sub(c)  BY <1>1, <1>2, <1>3, SubUnfold
<1>5. c \in Rank /\ Arrived(c) > counter[n]  BY ChildRank
<1>6. Sent(l) >= Sent(c) /\ Sent(l) = counter[l]
  BY <1>2, <1>4, <1>5, SentBelow DEF Sent
<1>7. Sent(c) \in Nat /\ Arrived(c) \in Int  BY <1>1, <1>5, SentType
<1>8. Len(link[c]) \in Nat  BY <1>1, <1>5, LenProperties DEF TypeOK
<1>9. Sent(c) >= Arrived(c)  BY <1>7, <1>8 DEF Arrived
<1> QED BY <1>1, <1>2, <1>5, <1>6, <1>7, <1>9

\* The own event that is submitted: of the current pulse, for the process.
LEMMA OwnEventMerge ==
  ASSUME MergeInv, NEW n \in NonLeaf, stage[n] = "terminal",
         CountOf(Counted(n), counter[n]) = get_degree_node(n)
  PROVE  LET own == OwnEvent(n, inbox[n])
         IN  /\ children(n) # {} /\ own \in metrics_t
             /\ own.timestamp = counter[n] /\ Carries(own, n, {n})
             /\ Unedited => own.gather_info = OwnInfo(n, own.timestamp, file)
             /\ Unedited /\ ~Recomputes(n, inbox[n]) => total_metrics[n] = file
             /\ inbox[n].timestamp = counter[n] /\ submissions(n) = counter[n]
             /\ \A c \in children(n) : Arrived(c) > counter[n]
<1> DEFINE event == inbox[n]
           own == OwnEvent(n, event)
<1>1. /\ PulseInv /\ TypeOK /\ n \in Rank /\ n \in Int /\ counter[n] \in Nat
      /\ event \in metrics_t /\ event.timestamp \in Nat
  <2>1. PulseInv /\ TypeOK  BY DEF MergeInv, PulseInv
  <2>2. event \in metrics_t  BY <2>1 DEF TypeOK
  <2>3. event.timestamp \in Nat
    <3> HIDE DEF event
    <3> QED BY <2>2 DEF metrics_t
  <2>4. n \in Rank /\ n \in Int  BY LeafRank, RankType
  <2>5. counter[n] \in Nat  BY <2>1, <2>4 DEF TypeOK
  <2> QED BY <2>1, <2>2, <2>3, <2>4, <2>5
<1>2. own \in metrics_t /\ (BENCHMARKING => own.timestamp = counter[n])
  BY <1>1, OwnEventInv
<1>3. /\ \A c \in children(n) : Arrived(c) > counter[n]
      /\ submissions(n) = counter[n]
  BY <1>1, AllPast DEF submissions
<1>4. children(n) # {}
  <2>1. HasRoom(n)  BY <1>1 DEF PulseInv, ProcessInv, OwnInv
  <2>2. get_degree_node(n) # 0  BY <1>1, <2>1, RoomDegree
  <2> QED BY <1>1, <2>2, ChildrenCount, FS_EmptySet
<1>5. event.timestamp = counter[n]
  <2>1. PICK c \in children(n) :
           Arrived(c) = counter[n] \/ event.timestamp = counter[n]
    <3>1. Behind(n)  BY DEF MergeInv, Tidy
    <3> QED BY <1>3, <1>4, <3>1 DEF Behind
  <2> QED BY <1>1, <1>3, <2>1
<1>6. Fresh(n) /\ Prompts(n) /\ OwnData(n) /\ ~Halted(n, counter[n] - 1)
  BY <1>3, NoneHalted DEF MergeInv, Tidy
<1>7. ~BENCHMARKING /\ event.quit => Halted(n, counter[n])
  BY <1>5, <1>6 DEF Fresh
<1>10. ASSUME Unedited
       PROVE  /\ counter[n] = 0 => first_pulse[n] /\ event.update_file
              /\ counter[n] # 0 => ~first_pulse[n]
              /\ NumberFor(n, event) = file
  <2>1. first_pulse[n] <=> counter[n] = 0  BY <1>3, <1>6 DEF Prompts
  <2>2. counter[n] = 0 => event.update_file
    BY <1>5, <1>6, <1>10 DEF Prompts
  <2>3. counter[n] # 0 => total_metrics[n] = file
    BY <1>6, <1>10, <2>1 DEF OwnData
  <2> QED BY <2>1, <2>2, <2>3 DEF NumberFor
<1>11. file \in Nat  BY <1>1, FileType
<1>8. CASE Recomputes(n, event)
  <2>1. own = get_metrics_values(n, event, counter[n])
    BY <1>8 DEF OwnEvent
  <2>2. /\ own.timestamp = counter[n] /\ own.quit = event.quit
        /\ own.parent_rank = get_parent(n)
        /\ own.update_file = event.update_file
        /\ own.metrics_nr = NumberFor(n, event)
        /\ own.gather_info = OwnInfo(n, counter[n], NumberFor(n, event))
    BY <2>1 DEF get_metrics_values
  <2>5. Recomputes(n, inbox[n])  BY <1>8
  <2> HIDE DEF own, event
  <2>3. Reports(own, {n})
    <3>1. R({n}, counter[n] + file) = OwnInfo(n, counter[n], file)
      BY <1>1, <1>11, ROfOne
    <3> QED BY <1>10, <2>2, <3>1 DEF Reports
  <2>4. Carries(own, n, {n})  BY <1>7, <2>2, <2>3 DEF Carries
  <2>6. Unedited => own.gather_info = OwnInfo(n, own.timestamp, file)
    BY <1>10, <2>2
  <2> QED BY <1>2, <1>3, <1>4, <1>5, <2>2, <2>4, <2>5, <2>6 DEF own, event
<1>9. CASE ~Recomputes(n, event)
  <2>1. own = data[n] /\ ~first_pulse[n]
    BY <1>9 DEF OwnEvent, Recomputes
  <2>2. /\ own.parent_rank = get_parent(n)
        /\ Unedited => /\ own.gather_info = OwnInfo(n, own.timestamp, file)
                       /\ own.metrics_nr = file /\ total_metrics[n] = file
        /\ ~BENCHMARKING => own.timestamp = counter[n] /\ ~own.quit
    BY <1>6, <2>1 DEF Fresh, OwnData
  <2>6. Unedited => counter[n] # 0  BY <1>10, <2>1
  <2> HIDE DEF own, event
  <2>3. own.timestamp = counter[n]  BY <1>2, <2>2
  <2>4. Reports(own, {n})
    <3>1. R({n}, counter[n] + file) = OwnInfo(n, counter[n], file)
      BY <1>1, <1>11, ROfOne
    <3> QED BY <2>2, <2>3, <2>6, <3>1 DEF Reports
  <2>5. Carries(own, n, {n})  BY <2>2, <2>4 DEF Carries
  <2> QED BY <1>2, <1>3, <1>4, <1>5, <2>2, <2>3, <2>5 DEF own, event
<1> QED BY <1>8, <1>9

\* The own event completes what the children's events of the pulse began.
LEMMA SubmitOwnMerge ==
  ASSUME MergeInv, TypeOK', NEW n \in NonLeaf, stage[n] = "terminal",
         SubmitOwn(n), hash_ts' = [hash_ts EXCEPT ![n] = Counted(n)],
         UNCHANGED <<fileVars, leafVars, counter, inbox, rootVars>>
  PROVE  MergeInv'
<1> DEFINE event == inbox[n]
           own   == OwnEvent(n, event)
           k     == IF Recomputes(n, event) THEN own.metrics_nr
                    ELSE total_metrics[n]
<1>1. /\ PulseInv /\ TypeOK /\ n \in Rank /\ n \notin Leaf
      /\ counter[n] \in Nat /\ n \in Source(n) /\ n \notin children(n)
  BY LeafRank, SourceCount DEF MergeInv, PulseInv, TypeOK, NonLeaf, Source
<1>2. /\ multi' = [multi EXCEPT ![n] = multi_func(multi[n], own)]
      /\ link' = [link EXCEPT ![n] = link[n] \o Submitted(multi[n], own)]
      /\ data' = [data EXCEPT ![n] = own]
      /\ first_pulse' = [first_pulse EXCEPT ![n] = FALSE]
      /\ total_metrics' = [total_metrics EXCEPT ![n] = k]
      /\ stage' = [stage EXCEPT ![n] = "submitted"]
      /\ UNCHANGED <<running, inbox, counter, fileVars>>
      /\ CountOf(Counted(n), counter[n]) = get_degree_node(n)
  BY DEF SubmitOwn, leafVars
<1>3. /\ children(n) # {} /\ own \in metrics_t
      /\ own.timestamp = counter[n] /\ Carries(own, n, {n})
      /\ Unedited => own.gather_info = OwnInfo(n, own.timestamp, file)
      /\ Unedited /\ ~Recomputes(n, event) => total_metrics[n] = file
      /\ event.timestamp = counter[n] /\ submissions(n) = counter[n]
      /\ \A c \in children(n) : Arrived(c) > counter[n]
  BY <1>2, OwnEventMerge
<1>4. PICK e \in metrics_t : e = own  BY <1>3
<1>5. Unedited => e.metrics_nr = file /\ k = file
  BY <1>3, <1>4 DEF Carries, Reports
<1> HIDE DEF own, k
<1>6. PulseInv' /\ \A c \in Rank : Arrived(c)' = Arrived(c)
  BY <1>1, SubmitOwnInv
<1>7. /\ multi'[n] = multi_func(multi[n], e)
      /\ link'[n] = link[n] \o Submitted(multi[n], e)
      /\ data'[n] = e /\ stage'[n] = "submitted" /\ ~first_pulse'[n]
      /\ total_metrics'[n] = k
  <2> DEFINE q == link[n] \o Submitted(multi[n], own)
             r == multi_func(multi[n], own)
  <2>1. multi' = [multi EXCEPT ![n] = r] /\ link' = [link EXCEPT ![n] = q]
    BY <1>2
  <2> HIDE DEF q, r
  <2>2. multi'[n] = r /\ link'[n] = q  BY <1>1, <2>1 DEF TypeOK
  <2>3. data'[n] = own /\ stage'[n] = "submitted" /\ ~first_pulse'[n]
        /\ total_metrics'[n] = k
    BY <1>1, <1>2 DEF TypeOK
  <2> QED BY <1>4, <2>2, <2>3 DEF q, r
<1>8. submissions(n)' = counter[n] + 1  BY <1>2, <1>7 DEF submissions
<1>9. Persists  BY <1>2, FilePersists DEF Persists
<1>10. \A y \in Source(n) :
         Supply(n)'[y] = IF y = n THEN Supply(n)[y] + 1 ELSE Supply(n)[y]
  <2>1. Supply(n)'[n] = counter[n] + 1 /\ Supply(n)[n] = counter[n]
    BY <1>1, <1>3, <1>8 DEF Supply, Source
  <2>2. ASSUME NEW y \in Source(n), y # n
        PROVE  Supply(n)'[y] = Arrived(y)' /\ Supply(n)[y] = Arrived(y)
               /\ y \in Rank
    BY <2>2, ChildRank DEF Supply, Source
  <2> QED BY <1>6, <2>1, <2>2
<1>11. Merges(n, multi[n], Supply(n))' /\ LinkCarries(n)'
  <2>1. Part(n, n) = {n}  BY DEF Part
  <2>2. e.timestamp = Supply(n)[n]  BY <1>1, <1>3, <1>4 DEF Supply
  <2>3. Carries(e, n, Part(n, n))  BY <1>3, <1>4, <2>1
  <2> QED BY <1>1, <1>3, <1>7, <1>9, <1>10, <2>2, <2>3, StoneTakes
<1>12. Behind(n)'
  <2>1. PICK c \in children(n) :
          \/ Arrived(c) = counter[n]
          \/ Arrived(c) = counter[n] + 1
    BY <1>3 DEF MergeInv, Tidy, Behind
  <2>2. c \in Rank /\ Arrived(c) > counter[n]  BY <1>3, ChildRank
  <2>3. Arrived(c)' = submissions(n)'  BY <1>1, <1>6, <1>8, <2>1, <2>2
  <2> QED BY <2>3 DEF Behind
<1>13. Prompts(n)' /\ OwnData(n)' /\ Fresh(n)'
  <2>1. Prompts(n) /\ Fresh(n)  BY <1>3 DEF MergeInv, Tidy
  <2>2. counter'[n] = counter[n] /\ inbox'[n] = event  BY <1>2
  <2>3. Unedited' => Unedited /\ file' = file  BY <1>9 DEF Persists
  <2>4. Prompts(n)'
    BY <1>1, <1>3, <1>7, <1>8, <2>1, <2>2, <2>3 DEF Prompts
  <2>5. data'[n].parent_rank = get_parent(n)
    BY <1>3, <1>4, <1>7 DEF Carries
  <2>6. Unedited => data'[n].gather_info = OwnInfo(n, data'[n].timestamp, file)
    BY <1>3, <1>4, <1>7
  <2>7. OwnData(n)'
    BY <1>5, <1>7, <2>3, <2>5, <2>6 DEF OwnData, OwnInfo, Measured
  <2>8. Halted(n, event.timestamp) => Halted(n, event.timestamp)'
    BY <1>2 DEF Halted
  <2>9. Fresh(n)'  BY <1>7, <2>1, <2>2, <2>8 DEF Fresh
  <2> QED BY <2>4, <2>7, <2>9
<1>14. ASSUME NEW h \in NonLeaf, h # n PROVE Tidy(h)'
  <2>1. /\ multi'[h] = multi[h] /\ stage'[h] = stage[h]
        /\ counter'[h] = counter[h] /\ inbox'[h] = inbox[h]
        /\ first_pulse'[h] = first_pulse[h] /\ data'[h] = data[h]
        /\ total_metrics'[h] = total_metrics[h]
    BY <1>1, <1>2, <1>14, LeafRank DEF TypeOK
  <2> QED BY <1>6, <1>9, <2>1, ChildRank, TidyHolds DEF MergeInv
<1>15. ASSUME NEW x \in Rank, x # n PROVE LinkCarries(x)'
  <2>1. link'[x] = link[x]  BY <1>1, <1>2, <1>15 DEF TypeOK
  <2> QED BY <1>9, <2>1, LinkCarriesHolds DEF MergeInv
<1>16. ASSUME NEW l \in Leaf PROVE Unread(l)'
  <2>1. counter'[l] = counter[l] /\ total_metrics'[l] = total_metrics[l]
    BY <1>1, <1>2, LeafRank DEF TypeOK
  <2> QED BY <2>1 DEF MergeInv, Unread
<1> QED BY <1>6, <1>11, <1>12, <1>13, <1>14, <1>15, <1>16 DEF MergeInv, Tidy

\* The rest of the handler: it submits nothing, and the own event of the next
\* pulse, if there is to be one, does not ask to quit.
LEMMA FinishPulseMerge ==
  ASSUME MergeInv, TypeOK', NEW n \in NonLeaf, FinishPulse(n)
  PROVE  MergeInv'
<1> DEFINE last == LastForNode(data[n], inbox[n])
           next == get_metrics_values(n, inbox[n], counter[n] + 1)
           d    == IF last THEN data[n] ELSE next
           k    == IF last THEN total_metrics[n] ELSE next.metrics_nr
<1>1. /\ PulseInv /\ TypeOK /\ n \in Rank /\ n \notin Leaf
      /\ counter[n] \in Nat /\ Tidy(n)
      /\ stage[n] = "submitted" /\ ~first_pulse[n]
  <2>1. n \in Rank /\ n \notin Leaf /\ PulseInv /\ TypeOK /\ Tidy(n)
        /\ stage[n] = "submitted"
    BY LeafRank DEF MergeInv, PulseInv, NonLeaf, FinishPulse
  <2> QED BY <2>1 DEF PulseInv, TypeOK, ProcessInv, OwnInv
<1>2. /\ counter' = [counter EXCEPT ![n] = counter[n] + 1]
      /\ data' = [data EXCEPT ![n] = d]
      /\ total_metrics' = [total_metrics EXCEPT ![n] = k]
      /\ stage' = [stage EXCEPT ![n] = "idle"]
      /\ UNCHANGED <<fileVars, running, link, multi, inbox, first_pulse>>
  BY DEF FinishPulse, leafVars
<1>3. /\ next.timestamp = counter[n] + 1 /\ next.quit = inbox[n].quit
      /\ next.parent_rank = get_parent(n)
      /\ next.metrics_nr = NumberFor(n, inbox[n])
      /\ next.gather_info = OwnInfo(n, counter[n] + 1, NumberFor(n, inbox[n]))
  BY DEF get_metrics_values
<1>4. ~BENCHMARKING => (last <=> inbox[n].quit)  BY DEF LastForNode
<1> HIDE DEF next, last
<1>5. /\ counter'[n] = counter[n] + 1 /\ data'[n] = d /\ stage'[n] = "idle"
      /\ total_metrics'[n] = k /\ inbox'[n] = inbox[n]
      /\ first_pulse'[n] = first_pulse[n]
      /\ submissions(n)' = counter[n] + 1 /\ submissions(n) = counter[n] + 1
  <2>1. counter'[n] = counter[n] + 1 /\ data'[n] = d /\ stage'[n] = "idle"
        /\ total_metrics'[n] = k
    BY <1>1, <1>2 DEF TypeOK
  <2> QED BY <1>1, <1>2, <2>1 DEF submissions
<1>6. PulseInv' /\ \A c \in Rank : Arrived(c)' = Arrived(c)
  BY <1>1, FinishPulseInv
<1>7. \A x \in Rank : x # n => counter'[x] = counter[x]
                             /\ total_metrics'[x] = total_metrics[x]
  BY <1>1, <1>2 DEF TypeOK
<1>8. Persists
  BY <1>1, <1>2, <1>7, LeafRank, FilePersists DEF Persists
<1>9. \A c \in Rank : LinkCarries(c)'
  BY <1>2, <1>8, LinkCarriesHolds DEF MergeInv
<1>10. Supply(n)' = Supply(n)
  <2>1. \A x \in Source(n) : x # n => Arrived(x)' = Arrived(x)
    BY <1>6, ChildRank DEF Source
  <2> QED BY <1>5, <2>1 DEF Supply
<1>11. Merges(n, multi[n], Supply(n))'
  <2>1. PICK m : m = multi[n]  OBVIOUS
  <2>2. PICK s : s = Supply(n)  OBVIOUS
  <2>3. Merges(n, m, s)'
    BY <1>1, <1>8, <2>1, <2>2, MergesHolds DEF Tidy
  <2> QED BY <1>2, <1>10, <2>1, <2>2, <2>3
<1>12. Behind(n)'
  <2>1. children(n) # {} => \E c \in children(n) : Arrived(c) = submissions(n)
    BY <1>1 DEF Tidy, Behind
  <2> QED BY <1>5, <1>6, <2>1, ChildRank DEF Behind
<1>13. Prompts(n)'
  BY <1>1, <1>5 DEF Tidy, Prompts
<1>14. OwnData(n)'
  <2>1. OwnData(n)  BY <1>1 DEF Tidy
  <2>2. Unedited' => Unedited /\ file' = file  BY <1>8 DEF Persists
  <2>3. Unedited => NumberFor(n, inbox[n]) = file
    BY <1>1, <2>1 DEF OwnData, NumberFor
  <2>4. CASE last
    <3>1. data'[n] = data[n] /\ total_metrics'[n] = total_metrics[n]
      BY <1>5, <2>4
    <3> QED BY <1>5, <2>1, <2>2, <3>1 DEF OwnData, OwnInfo, Measured
  <2>5. CASE ~last
    <3>1. data'[n] = next /\ total_metrics'[n] = next.metrics_nr
      BY <1>5, <2>5
    <3> QED BY <1>3, <2>2, <2>3, <3>1 DEF OwnData, OwnInfo, Measured
  <2> QED BY <2>4, <2>5
<1>15. Fresh(n)'
  <2> SUFFICES ASSUME ~BENCHMARKING
               PROVE  \/ data'[n].timestamp = counter'[n] /\ ~data'[n].quit
                      \/ Halted(n, counter[n] - 1)'
    BY <1>5 DEF Fresh
  <2>1. CASE last
    <3>1. inbox[n].quit /\ inbox[n].timestamp = counter[n]
      BY <1>1, <1>4, <2>1 DEF Tidy, Prompts
    <3>2. Halted(n, counter[n])  BY <1>1, <3>1 DEF Tidy, Fresh
    <3>3. PICK l \in Leaf \cap Sub(n) : ~running[l] /\ counter[l] = counter[n] + 1
      BY <3>2 DEF Halted
    <3>4. ~running'[l] /\ counter'[l] = counter[n] + 1
      BY <1>8, <3>3 DEF Persists
    <3>5. counter'[l] = (counter'[n] - 1) + 1  BY <1>1, <1>5, <3>4
    <3> QED BY <3>4, <3>5 DEF Halted
  <2>2. CASE ~last  BY <1>3, <1>4, <1>5, <2>2
  <2> QED BY <2>1, <2>2
<1>16. ASSUME NEW h \in NonLeaf, h # n PROVE Tidy(h)'
  <2>1. /\ stage'[h] = stage[h] /\ data'[h] = data[h]
        /\ counter'[h] = counter[h] /\ total_metrics'[h] = total_metrics[h]
    BY <1>1, <1>2, <1>7, <1>16, LeafRank DEF TypeOK
  <2> QED BY <1>2, <1>6, <1>8, <2>1, ChildRank, TidyHolds DEF MergeInv
<1>17. \A l \in Leaf : Unread(l)'
  BY <1>1, <1>7, LeafRank DEF MergeInv, Unread
<1> QED BY <1>6, <1>9, <1>11, <1>12, <1>13, <1>14, <1>15, <1>16, <1>17
        DEF MergeInv, Tidy

\* A result of the root speaks for every process.
LEMMA final_resultMerge ==
  ASSUME MergeInv, TypeOK', final_result
  PROVE  /\ MergeInv'
         /\ Head(link[ROOT]).timestamp = pulse
         /\ Unedited => /\ Head(link[ROOT]).gather_info = R(Rank, pulse + file)
                        /\ Head(link[ROOT]).metrics_nr = file
         /\ \A r \in Rank : submissions(r) > pulse
<1>1. /\ PulseInv /\ TypeOK /\ ROOT \in Rank /\ pulse = Arrived(ROOT)
      /\ link[ROOT] \in Seq(metrics_t) /\ link[ROOT] # <<>>
      /\ Sent(ROOT) \in Nat
  BY RankType, SentType DEF MergeInv, PulseInv, TypeOK, final_result
<1>2. /\ link' = [link EXCEPT ![ROOT] = Tail(link[ROOT])]
      /\ UNCHANGED <<running, counter, multi, stage, inbox, ownVars,
                     total_metrics, fileVars>>
  BY DEF final_result, leafVars
<1>3. /\ PulseInv' /\ Head(link[ROOT]).timestamp = pulse
      /\ \A c \in Rank : c # ROOT => Arrived(c)' = Arrived(c)
  BY <1>1, final_resultInv
<1>4. Persists  BY <1>2, FilePersists DEF Persists
<1>5. ASSUME NEW c \in Rank PROVE LinkCarries(c)'
  <2>1. CASE c = ROOT
    <3>1. link'[ROOT] = Tail(link[ROOT])  BY <1>1, <1>2 DEF TypeOK
    <3> QED BY <1>1, <1>4, <2>1, <3>1, LinkCarriesTail DEF MergeInv
  <2>2. CASE c # ROOT
    <3>1. link'[c] = link[c]  BY <1>1, <1>2, <2>2 DEF TypeOK
    <3> QED BY <1>4, <3>1, LinkCarriesHolds DEF MergeInv
  <2> QED BY <2>1, <2>2
<1>6. \A n \in NonLeaf : Tidy(n)'
  BY <1>2, <1>3, <1>4, ChildRank, TidyHolds DEF MergeInv, ownVars
<1>7. Len(link[ROOT]) \in Nat \ {0}  BY <1>1, EmptySeq
<1>8. Unedited => /\ Head(link[ROOT]).gather_info = R(Rank, pulse + file)
                  /\ Head(link[ROOT]).metrics_nr = file
  <2>1. Head(link[ROOT]) = link[ROOT][1] /\ 1 \in 1 .. Len(link[ROOT])
    BY <1>1, <1>7
  <2>2. Carries(link[ROOT][1], ROOT, Rank)
    BY <1>1, <2>1, SubOfRoot DEF MergeInv, LinkCarries
  <2> QED BY <1>3, <2>1, <2>2, Zenon DEF Carries, Reports
<1>9. ASSUME NEW r \in Rank PROVE submissions(r) > pulse
  <2>1. Sent(ROOT) > pulse  BY <1>1, <1>7 DEF Arrived
  <2>2. /\ Sent(r) >= Sent(ROOT)
        /\ r \in NonLeaf => submissions(r) >= Sent(r)
    BY <1>1, SubOfRoot, SentBelow
  <2>3. r \in Leaf => submissions(r) = Sent(r)
    BY DEF Sent, submissions, NonLeaf
  <2>4. Sent(r) \in Nat /\ submissions(r) \in Nat /\ pulse \in Nat
    <3>1. counter[r] \in Nat /\ pulse \in Nat  BY <1>1 DEF TypeOK
    <3>2. Sent(r) \in Nat  BY <1>1, SentType
    <3> QED BY <3>1, <3>2 DEF submissions
  <2> QED BY <1>1, <2>1, <2>2, <2>3, <2>4 DEF NonLeaf
<1>10. \A l \in Leaf : Unread(l)'  BY <1>2 DEF MergeInv, Unread
<1> QED BY <1>3, <1>5, <1>6, <1>8, <1>9, <1>10 DEF MergeInv

\* MergeInv is inductive.
LEMMA MergeInvKept == MergeInv /\ [Next]_vars => MergeInv'
<1> SUFFICES ASSUME MergeInv, [Next]_vars PROVE MergeInv'  OBVIOUS
<1>1. TypeOK'  BY TypeKept DEF MergeInv, PulseInv
<1>2. CASE EditFile
  <2>1. ~Unedited'
    BY <1>2 DEF EditFile, Unedited, MergeInv, PulseInv, TypeOK
  <2> QED BY <1>1, <1>2, <2>1, UnchangedMerge DEF EditFile, leafVars, rootVars
<1>3. ASSUME NEW l \in Leaf, monitoring_finalize_leaf(l) PROVE MergeInv'
  BY <1>1, <1>3, FilePersists, UnchangedMerge
     DEF monitoring_finalize_leaf, rootVars
<1>4. ASSUME NEW l \in Leaf, start_communication(l) PROVE MergeInv'
  BY <1>1, <1>4, start_communicationMerge
<1>5. ASSUME NEW n \in NonLeaf, NEW c \in children(n), Arrive(c)
      PROVE  MergeInv'
  BY <1>1, <1>5, ChildRank, ArriveMerge
<1>6. ASSUME NEW n \in NonLeaf, compute_own_metrics(n) PROVE MergeInv'
  BY <1>1, <1>6, WaitForOthersMerge, SubmitOwnMerge DEF compute_own_metrics
<1>7. ASSUME NEW n \in NonLeaf, FinishPulse(n) PROVE MergeInv'
  BY <1>1, <1>7, FinishPulseMerge
<1>8. CASE final_result  BY <1>1, <1>8, final_resultMerge
<1>9. CASE UNCHANGED vars
  BY <1>1, <1>9, FilePersists, UnchangedMerge
     DEF vars, fileVars, leafVars, ownVars, rootVars
<1> QED BY <1>2, <1>3, <1>4, <1>5, <1>6, <1>7, <1>8, <1>9
        DEF Next, comm_thread

\* No step but final_result changes what the root keeps.
LEMMA RootKept ==
  ASSUME [Next]_vars, ~final_result
  PROVE  UNCHANGED rootVars
<1>1. CASE EditFile  BY <1>1 DEF EditFile
<1>2. ASSUME NEW l \in Leaf,
             monitoring_finalize_leaf(l) \/ start_communication(l)
      PROVE  UNCHANGED rootVars
  BY <1>2 DEF monitoring_finalize_leaf, start_communication, SendEvent
<1>3. ASSUME NEW n \in NonLeaf, comm_thread(n) PROVE UNCHANGED rootVars
  BY <1>3 DEF comm_thread, Arrive, compute_own_metrics, FinishPulse
<1>4. CASE UNCHANGED vars  BY <1>4 DEF vars, rootVars
<1> QED BY <1>1, <1>2, <1>3, <1>4 DEF Next

\* The file is edited by EditFile alone.
LEMMA FileKept ==
  ASSUME TypeOK, [Next]_vars, Unedited'
  PROVE  Unedited /\ file' = file
<1>1. ~EditFile
  <2>1. file_changes \in Nat /\ file_changes' = 0  BY DEF TypeOK, Unedited
  <2> QED BY <2>1 DEF EditFile
<1>2. UNCHANGED fileVars
  <2>1. ASSUME NEW l \in Leaf,
               monitoring_finalize_leaf(l) \/ start_communication(l)
        PROVE  UNCHANGED fileVars
    BY <2>1 DEF monitoring_finalize_leaf, start_communication, SendEvent
  <2>2. ASSUME NEW n \in NonLeaf, comm_thread(n) PROVE UNCHANGED fileVars
    BY <2>2 DEF comm_thread, Arrive, compute_own_metrics, FinishPulse,
                final_result
  <2>3. CASE UNCHANGED vars  BY <2>3 DEF vars, fileVars
  <2> QED BY <1>1, <2>1, <2>2, <2>3 DEF Next
<1> QED BY <1>2 DEF fileVars, Unedited

\* A result is exact when it is written and is kept until the next.
LEMMA ResultsKept ==
  MergeInv /\ ResultsExact /\ [Next]_vars => ResultsExact'
<1> DEFINE Sum == pulse - 1 + file
<1>0. Reduced([r \in Rank |-> Measured(r, pulse - 1, file)]) = R(Rank, Sum)
  BY DEF R, Sample, Measured
<1>4. ResultsExact <=> (pulse > 0 /\ ~BENCHMARKING /\ Unedited =>
                          monitoring_results.gather_info = R(Rank, Sum))
  <2> HIDE DEF Sum
  <2> QED BY <1>0 DEF ResultsExact, Unedited
<1>5. (Reduced([r \in Rank |-> Measured(r, pulse - 1, file)]))' = R(Rank, Sum')
  BY DEF R, Sample, Measured
<1>6. ResultsExact' <=> (pulse' > 0 /\ ~BENCHMARKING /\ Unedited' =>
                           monitoring_results'.gather_info = R(Rank, Sum'))
  <2> HIDE DEF Sum
  <2> QED BY <1>5 DEF ResultsExact, Unedited
<1> SUFFICES ASSUME MergeInv, ResultsExact, [Next]_vars, pulse' > 0,
                    ~BENCHMARKING, Unedited'
             PROVE  monitoring_results'.gather_info = R(Rank, Sum')
  BY <1>6
<1>1. TypeOK' /\ TypeOK  BY TypeKept DEF MergeInv, PulseInv
<1>7. Unedited /\ file' = file /\ file \in Nat /\ file > 0
  <2>1. Unedited /\ file' = file /\ file \in Nat
    BY <1>1, FileKept, FileType
  <2> QED BY <2>1 DEF Unedited
<1>2. CASE final_result
  <2>1. /\ Head(link[ROOT]).gather_info = R(Rank, pulse + file)
        /\ Head(link[ROOT]).metrics_nr = file
    BY <1>1, <1>2, <1>7, final_resultMerge
  <2>2. pulse' = pulse + 1 /\ pulse \in Nat
    BY <1>1, <1>2 DEF final_result, TypeOK
  <2>3. monitoring_results'.gather_info = Head(link[ROOT]).gather_info
    BY <1>2, <1>7, <2>1 DEF final_result
  <2>4. Sum' = pulse + file  BY <1>7, <2>2
  <2> QED BY <2>1, <2>3, <2>4
<1>3. CASE ~final_result
  <2>1. pulse' = pulse /\ monitoring_results' = monitoring_results
    BY <1>3, RootKept DEF rootVars
  <2>2. Sum' = Sum  BY <1>7, <2>1
  <2> QED BY <1>4, <1>7, <2>1, <2>2
<1> QED BY <1>2, <1>3
-----------------------------------------------------------------------------
(***************************************************************************)
(* The theorems.                                                           *)
(***************************************************************************)
LEMMA MergedDegree == MergeInv => DegreeIsOwn
<1> SUFFICES ASSUME MergeInv, NEW n \in NonLeaf
             PROVE  IF multi[n].first_found_index = NotFound
                    THEN multi[n].count = 0
                    ELSE multi[n].current_node_degree = get_degree_node(n)
  BY DEF DegreeIsOwn
<1> DEFINE m == multi[n]
<1>1. PICK got \in SUBSET Source(n) : Aggregate(n, m, got)
  BY DEF MergeInv, Tidy, Merges, Filed
<1>2. m.first_found_index = NotFound => m.count = 0
  BY <1>1, FS_EmptySet DEF Aggregate
<1> QED BY <1>1, <1>2 DEF Aggregate

\* No event is of an earlier pulse or before the scan.
LEMMA MergedInOrder == MergeInv => NothingSkipped
<1> SUFFICES ASSUME MergeInv, NEW n \in NonLeaf,
                    NEW i \in DOMAIN multi[n].queue
             PROVE  LET m == multi[n]
                    IN  /\ m.queue[i].timestamp >= m.pulse_timestamp
                        /\ m.queue[i].timestamp = m.pulse_timestamp
                             => i >= m.first_found_index
  BY DEF NothingSkipped
<1> DEFINE m == multi[n]
<1>1. m \in multi_stone_t  BY DEF MergeInv, PulseInv, TypeOK
<1> HIDE DEF m
<1>2. i \in 1 .. Len(m.queue)
  BY <1>1, LenProperties DEF multi_stone_t, m
<1>3. PICK src, got : Waiting(n, m, Supply(n), src) /\ Current(m, src, got)
  BY DEF MergeInv, Tidy, Merges, Filed, m
<1> QED BY <1>2, <1>3 DEF Waiting, Current, m

(***************************************************************************)
(* For every tree and every order of the events an aggregation waits for   *)
(* the children its process has: the event that opens it is a child's.     *)
(***************************************************************************)
THEOREM DegreeCorrect == Spec => []DegreeIsOwn
BY InitMergeInv, MergeInvKept, MergedDegree, PTL DEF Spec

(***************************************************************************)
(* No event stays behind the scan of multi_func, however far ahead of the  *)
(* others a child is.                                                      *)
(***************************************************************************)
THEOREM NothingSkippedCorrect == Spec => []NothingSkipped
BY InitMergeInv, MergeInvKept, MergedInOrder, PTL DEF Spec

(***************************************************************************)
(* Each published result is the minimum, maximum and sum over all          *)
(* processes of their metrics of one pulse.                                *)
(***************************************************************************)
THEOREM ResultsCorrect == Spec => []ResultsExact
<1>1. Init => ResultsExact  BY DEF Init, ResultsExact
<1> QED BY <1>1, InitMergeInv, MergeInvKept, ResultsKept, PTL DEF Spec

\* The file is not edited, and asks for something.
FixedFile == MaxFileChanges = 0 /\ 0 \notin AliasNumbers

\* A process contributes to a pulse when it submits its own event of it; the
\* results are published in order, after every process has contributed.
LEMMA StepReduces ==
  ASSUME ~BENCHMARKING, FixedFile, MergeInv, [Next]_vars
  PROVE  [Abstract!Next]_(Abstract!vars)
<1> DEFINE given == [r \in Rank |-> submissions(r)]
<1>1. TypeOK /\ TypeOK'  BY TypeKept DEF MergeInv, PulseInv
<1>2. Unedited /\ Unedited' /\ file' = file
  <2>1. Unedited'  BY <1>1 DEF TypeOK, Unedited, FixedFile
  <2> QED BY <1>1, <2>1, FileKept
<1>3. ASSUME NEW x \in Rank, submissions(x)' = submissions(x) + 1,
             \A r \in Rank : r # x => submissions(r)' = submissions(r),
             UNCHANGED <<pulse, monitoring_results>>
      PROVE  Abstract!Next
  <2>1. given' = [given EXCEPT ![x] = @ + 1]  BY <1>3
  <2>2. Abstract!Contribute(x)  BY <1>2, <1>3, <2>1 DEF Abstract!Contribute
  <2> QED BY <2>2 DEF Abstract!Next
<1>4. ASSUME \A r \in Rank : submissions(r)' = submissions(r),
             UNCHANGED <<pulse, monitoring_results>>
      PROVE  UNCHANGED Abstract!vars
  BY <1>2, <1>4 DEF Abstract!vars
<1>5. ASSUME NEW l \in Leaf, start_communication(l)
      PROVE  Abstract!Next
  <2>1. /\ counter' = [counter EXCEPT ![l] = counter[l] + 1]
        /\ UNCHANGED <<pulse, monitoring_results, stage>>
    BY <1>5 DEF start_communication, SendEvent, rootVars
  <2>2. \A r \in Rank : counter'[r] = IF r = l THEN counter[r] + 1 ELSE counter[r]
    BY <1>1, <2>1 DEF TypeOK
  <2>3. l \in Rank /\ l \notin NonLeaf  BY LeafRank DEF NonLeaf
  <2>4. submissions(l)' = submissions(l) + 1  BY <2>2, <2>3 DEF submissions
  <2>5. \A r \in Rank : r # l => submissions(r)' = submissions(r)
    BY <2>1, <2>2 DEF submissions
  <2> QED BY <1>3, <2>1, <2>3, <2>4, <2>5
<1>6. ASSUME NEW n \in NonLeaf, compute_own_metrics(n)
      PROVE  Abstract!Next \/ UNCHANGED Abstract!vars
  <2>1. /\ UNCHANGED <<counter, pulse, monitoring_results>>
        /\ stage[n] = "terminal" /\ n \in Rank
    BY <1>6, LeafRank DEF compute_own_metrics, rootVars
  <2>2. CASE WaitForOthers(n)
    <3>1. \A r \in NonLeaf : stage'[r] = IF r = n THEN "idle" ELSE stage[r]
      BY <1>1, <2>2 DEF WaitForOthers, TypeOK
    <3>2. \A r \in Rank : submissions(r)' = submissions(r)
      BY <2>1, <3>1 DEF submissions
    <3> QED BY <1>4, <2>1, <3>2
  <2>3. CASE SubmitOwn(n)
    <3>1. \A r \in NonLeaf : stage'[r] = IF r = n THEN "submitted" ELSE stage[r]
      BY <1>1, <2>3 DEF SubmitOwn, TypeOK
    <3>2. /\ submissions(n)' = submissions(n) + 1
          /\ \A r \in Rank : r # n => submissions(r)' = submissions(r)
      BY <2>1, <3>1 DEF submissions
    <3> QED BY <1>3, <2>1, <3>2
  <2> QED BY <1>6, <2>2, <2>3 DEF compute_own_metrics
<1>7. ASSUME NEW n \in NonLeaf, FinishPulse(n)
      PROVE  UNCHANGED Abstract!vars
  <2>1. /\ counter' = [counter EXCEPT ![n] = counter[n] + 1]
        /\ stage' = [stage EXCEPT ![n] = "idle"]
        /\ UNCHANGED <<pulse, monitoring_results>>
        /\ stage[n] = "submitted" /\ n \in Rank
    BY <1>7, LeafRank DEF FinishPulse, rootVars
  <2>2. /\ \A r \in Rank : counter'[r] = IF r = n THEN counter[r] + 1 ELSE counter[r]
        /\ \A r \in NonLeaf : stage'[r] = IF r = n THEN "idle" ELSE stage[r]
    BY <1>1, <2>1 DEF TypeOK
  <2>3. \A r \in Rank : submissions(r)' = submissions(r)
    BY <2>1, <2>2 DEF submissions
  <2> QED BY <1>4, <2>1, <2>3
<1>8. ASSUME NEW n \in NonLeaf, NEW c \in children(n), Arrive(c)
      PROVE  UNCHANGED Abstract!vars
  <2> DEFINE p == get_parent(c)
  <2>1. /\ stage[p] = "idle" /\ stage' = [stage EXCEPT ![p] = "terminal"]
        /\ UNCHANGED <<counter, pulse, monitoring_results>>
    BY <1>8 DEF Arrive, rootVars
  <2> HIDE DEF p
  <2>2. \A r \in NonLeaf : stage'[r] = IF r = p THEN "terminal" ELSE stage[r]
    BY <1>1, <2>1 DEF TypeOK
  <2>3. \A r \in Rank : submissions(r)' = submissions(r)
    BY <2>1, <2>2 DEF submissions
  <2> QED BY <1>4, <2>1, <2>3
<1>9. CASE final_result
  <2>1. /\ Head(link[ROOT]).gather_info = R(Rank, pulse + file)
        /\ Head(link[ROOT]).metrics_nr = file
        /\ \A r \in Rank : submissions(r) > pulse
    BY <1>1, <1>2, <1>9, final_resultMerge
  <2>2. file > 0  BY <1>1, <1>2, FileType DEF Unedited
  <2>3. /\ monitoring_results'.gather_info = Head(link[ROOT]).gather_info
        /\ pulse' = pulse + 1 /\ counter' = counter /\ stage' = stage
    BY <1>9, <2>1, <2>2 DEF final_result
  <2>4. given' = given  BY <2>3 DEF submissions
  <2>5. R(Rank, pulse + file)
          = Reduced([r \in Rank |-> Metric[r][(pulse + file) % 2]])
    BY DEF R, Sample
  <2>6. \A r \in Rank : given[r] > pulse  BY <2>1
  <2> QED BY <1>2, <2>1, <2>3, <2>4, <2>5, <2>6
          DEF Abstract!Publish, Abstract!Next
<1>10. CASE UNCHANGED <<counter, stage, pulse, monitoring_results>>
  BY <1>4, <1>10 DEF submissions
<1>11. \/ final_result
       \/ \E l \in Leaf : start_communication(l)
       \/ \E n \in NonLeaf :
            \/ compute_own_metrics(n) \/ FinishPulse(n)
            \/ \E c \in children(n) : Arrive(c)
       \/ UNCHANGED <<counter, stage, pulse, monitoring_results>>
  BY DEF Next, comm_thread, EditFile, monitoring_finalize_leaf, rootVars, vars
<1> QED BY <1>5, <1>6, <1>7, <1>8, <1>9, <1>10, <1>11

(***************************************************************************)
(* The tree of any shape, without BENCHMARKING and with an aliases file    *)
(* that asks for some metrics and is left as it is, implements Reduction:  *)
(* one result per pulse, in order, from the contributions of all           *)
(* processes.                                                              *)
(***************************************************************************)
THEOREM ReductionCorrect ==
  ASSUME ~BENCHMARKING, FixedFile PROVE Spec => ImplementsReduction
<1>1. Init => Abstract!Init
  <2> SUFFICES ASSUME Init PROVE Abstract!Init  OBVIOUS
  <2>1. file \in Nat  BY InitTypeOK, FileType
  <2>2. \A r \in Rank : submissions(r) = 0  BY DEF Init, submissions
  <2> QED BY <2>1, <2>2 DEF Init, Abstract!Init
<1>2. MergeInv /\ [Next]_vars => [Abstract!Next]_(Abstract!vars)
  BY StepReduces
<1> QED BY <1>1, <1>2, InitMergeInv, MergeInvKept, PTL
        DEF Spec, ImplementsReduction, Abstract!Spec
-----------------------------------------------------------------------------
(***************************************************************************)
(* A tree of degree 2 or less.  "goto start" merges one event of the next  *)
(* pulse, and there is no second: of two children one is still behind.     *)
(***************************************************************************)
\* No event of the pulse is in the queue.
NoMatch(m) == \A j \in 1 .. Len(m.queue) : m.queue[j].timestamp # m.pulse_timestamp

\* Also between two steps of the handling of one event.
InStep(n) == multi[n].pulse_timestamp = submissions(n) /\ NoMatch(multi[n])

StonesLow == \A n \in NonLeaf : InStep(n)

\* In the program's own terms.
LEMMA NoMatchMatches ==
  ASSUME NEW m \in multi_stone_t
  PROVE  Matches(m, 1) = {} <=> NoMatch(m)
BY LenProperties DEF Matches, NoMatch, multi_stone_t

\* If only the event that comes in can be of the pulse, it is merged at once
\* when it is.
LEMMA ActivateNoMatch ==
  ASSUME NEW n \in NonLeaf, NEW m \in multi_stone_t,
         NEW supply \in [Source(n) -> Nat], Merges(n, m, supply),
         NoMatch(m), NEW x \in Source(n), NEW e \in metrics_t,
         e.timestamp = supply[x]
  PROVE  NoMatch(Activate(m, e))
<1> DEFINE q == Append(m.queue, e)
           k == [m EXCEPT !.queue = q]
           z == Len(m.queue)
           p == m.pulse_timestamp
           f == IF k.first_found_index = NotFound THEN 1 ELSE k.first_found_index
           i == Min(Matches(k, f))
<1>1. PICK src \in [1 .. z -> Source(n)], got \in SUBSET Source(n) :
        Filed(n, m, supply, src, got)
  BY DEF Merges
<1>2. /\ m.queue \in Seq(metrics_t) /\ z \in Nat /\ p \in Nat
      /\ m.count \in Nat
  BY LenProperties DEF multi_stone_t
<1>3. /\ q \in Seq(metrics_t) /\ Len(q) = z + 1 /\ q[z + 1] = e
      /\ \A j \in 1 .. z : q[j] = m.queue[j]
  BY <1>2, AppendProperties
<1>4. /\ k.queue = q /\ k.pulse_timestamp = p
      /\ k.first_found_index = m.first_found_index /\ k.count = m.count
      /\ k.current_node_degree = m.current_node_degree
  BY DEF multi_stone_t
<1>5. k \in multi_stone_t
  <2> HIDE DEF q
  <2> QED BY <1>3 DEF multi_stone_t
<1>6. Activate(m, e) = Consume(k)  BY DEF Activate
<1>7. \A j \in 1 .. z : q[j].timestamp # p  BY <1>3 DEF NoMatch
<1>8. ASSUME NEW h \in 1 .. z + 1, q[h].timestamp = p, NEW r,
             r.queue = RemoveAt(q, h), r.pulse_timestamp = p
      PROVE  NoMatch(r)
  <2>1. h = z + 1
    <3>1. z \in Nat  BY <1>2
    <3>2. h \notin 1 .. z  BY <1>7, <1>8
    <3> HIDE DEF q, z, p
    <3> QED BY <1>8, <3>1, <3>2
  <2>2. /\ Len(RemoveAt(q, h)) = Len(q) - 1
        /\ \A j \in 1 .. Len(q) - 1 :
             RemoveAt(q, h)[j] = IF j < h THEN q[j] ELSE q[j + 1]
    <3>1. h \in 1 .. Len(q)  BY <1>3
    <3> HIDE DEF q
    <3> QED BY <1>3, <3>1, RemoveAtProperties
  <2>3. Len(r.queue) = z /\ \A j \in 1 .. z : r.queue[j] = q[j]
    <3> HIDE DEF q, z
    <3> QED BY <1>2, <1>3, <1>8, <2>1, <2>2
  <2> QED BY <1>7, <1>8, <2>3 DEF NoMatch
<1> HIDE DEF k, q, i, p, z
<1>9. /\ OpenAt(k, i).queue = RemoveAt(q, i)
      /\ OpenAt(k, i).pulse_timestamp = p
  BY <1>4, <1>5 DEF OpenAt, multi_stone_t
<1>10. /\ MergeAt(k, i).queue = RemoveAt(q, i)
       /\ MergeAt(k, i).pulse_timestamp = p
  BY <1>4, <1>5 DEF MergeAt, multi_stone_t
<1>11. f \in Nat \ {0}  BY <1>5 DEF multi_stone_t
<1>12. Matches(k, f) # {} => i \in 1 .. z + 1 /\ q[i].timestamp = p
  <2> HIDE DEF f
  <2> QED BY <1>3, <1>4, <1>5, <1>11, FirstMatch DEF i
<1>13. Matches(k, f) # {} => NoMatch(OpenAt(k, i)) /\ NoMatch(MergeAt(k, i))
  BY <1>8, <1>9, <1>10, <1>12
<1>14. supply[x] = p => z + 1 \in Matches(k, f)
  <2> SUFFICES ASSUME supply[x] = p PROVE z + 1 \in Matches(k, f)  OBVIOUS
  <2>1. f <= z + 1
    <3>1. CASE m.first_found_index = NotFound  BY <1>2, <1>4, <3>1
    <3>2. CASE m.first_found_index # NotFound
      BY <1>1, <1>4, <3>2 DEF Filed, Aggregate, z
    <3> QED BY <3>1, <3>2
  <2>2. z + 1 \in f .. Len(k.queue)  BY <1>2, <1>3, <1>4, <1>11, <2>1
  <2> QED BY <1>3, <1>4, <2>2 DEF Matches
<1>15. supply[x] # p => NoMatch(k)
  <2>1. \A j \in 1 .. z + 1 : j \in 1 .. z \/ j = z + 1  BY <1>2
  <2> QED BY <1>3, <1>4, <1>7, <2>1 DEF NoMatch
<1>16. CASE m.first_found_index = NotFound
  <2>1. got = {}  BY <1>1, <1>16 DEF Filed, Aggregate
  <2>2. supply[x] = p
    <3> SUFFICES ASSUME supply[x] # p PROVE FALSE  OBVIOUS
    <3>1. supply[x] >= p /\ supply[x] \in Nat
      BY <1>1 DEF Filed, Complete, p
    <3>2. p >= p /\ p < supply[x]  BY <1>2, <3>1
    <3>3. \E j \in 1 .. z : m.queue[j].timestamp = p
      BY <1>1, <1>2, <2>1, <3>2 DEF Filed, Complete, p, z
    <3> QED BY <1>3, <1>7, <3>3
  <2>3. Consume(k) = OpenAt(k, i)
    BY <1>4, <1>14, <1>16, <2>2 DEF Consume, Open, i
  <2> QED BY <1>6, <1>13, <1>14, <2>2, <2>3
<1>17. CASE m.first_found_index # NotFound
  <2>1. Consume(k) = Merge(k) /\ f = k.first_found_index
    BY <1>4, <1>17 DEF Consume
  <2>2. CASE Merge(k) = MergeAt(k, i) /\ Matches(k, f) # {}
    BY <1>6, <1>13, <2>1, <2>2
  <2>3. CASE Merge(k) = k /\ ~(k.count < k.current_node_degree + 1 /\ Matches(k, f) # {})
    <3>1. supply[x] # p
      <4> SUFFICES ASSUME supply[x] = p PROVE FALSE  OBVIOUS
      <4>1. Matches(k, f) # {}  BY <1>14
      <4>2. m.count = Cardinality(got)
            /\ m.current_node_degree = get_degree_node(n)
        BY <1>1, <1>17 DEF Filed, Aggregate
      <4>3. x \notin got
        <5>1. x \in got => supply[x] > p  BY <1>1 DEF Filed, Complete, p
        <5> QED BY <1>2, <5>1
      <4>4. /\ IsFiniteSet(Source(n))
            /\ Cardinality(Source(n)) = get_degree_node(n) + 1
        BY LeafRank, SourceCount
      <4>5. Cardinality(got) <= Cardinality(Source(n))
            /\ Cardinality(got) # Cardinality(Source(n))
        BY <4>3, <4>4, FS_Subset
      <4>6. get_degree_node(n) \in Nat  BY DegreeType
      <4> QED BY <1>2, <1>4, <2>3, <4>1, <4>2, <4>4, <4>5, <4>6
    <3> QED BY <1>6, <1>15, <2>1, <2>3, <3>1
  <2> QED BY <2>1, <2>2, <2>3 DEF Merge, i
<1> QED BY <1>16, <1>17

\* When every source has supplied its event of the pulse, all are merged.
LEMMA AllMerged ==
  ASSUME NEW n \in NonLeaf, NEW m \in multi_stone_t,
         NEW supply \in [Source(n) -> Nat], Merges(n, m, supply), NoMatch(m),
         \A y \in Source(n) : supply[y] > m.pulse_timestamp
  PROVE  Completed(m)
<1>1. PICK src \in [1 .. Len(m.queue) -> Source(n)], got \in SUBSET Source(n) :
        Filed(n, m, supply, src, got)
  BY DEF Merges
<1>2. m.pulse_timestamp \in Nat  BY DEF multi_stone_t
<1>3. \A y \in Source(n) : y \in got
  BY <1>1, <1>2 DEF Filed, Complete, NoMatch
<1>4. got = Source(n) /\ n \in Source(n)  BY <1>3 DEF Source
<1>5. /\ m.count = Cardinality(Source(n))
      /\ m.current_node_degree = get_degree_node(n)
  BY <1>1, <1>4 DEF Filed, Aggregate
<1>6. Cardinality(Source(n)) = get_degree_node(n) + 1
  BY LeafRank, SourceCount
<1> QED BY <1>5, <1>6 DEF Completed

\* If at most one source is ahead, "goto start" leaves no event of the pulse.
LEMMA NextPulseNoMatch ==
  ASSUME NEW n \in NonLeaf, NEW m \in multi_stone_t,
         NEW supply \in [Source(n) -> Nat], Merges(n, m, supply),
         \A x, y \in Source(n) :
           /\ supply[x] > m.pulse_timestamp + 1
           /\ supply[y] > m.pulse_timestamp + 1
           => x = y
  PROVE  /\ NoMatch(NextPulse(m))
         /\ NextPulse(m).pulse_timestamp = m.pulse_timestamp + 1
<1> DEFINE q == m.queue
           z == Len(q)
           p == m.pulse_timestamp + 1
           k == [m EXCEPT !.pulse_timestamp = p,
                          !.first_found_index = NotFound,
                          !.count = 0]
           i == Min(Matches(k, 1))
<1>1. PICK src \in [1 .. z -> Source(n)], got \in SUBSET Source(n) :
        Filed(n, m, supply, src, got)
  BY DEF Merges
<1>2. q \in Seq(metrics_t) /\ z \in Nat /\ p \in Nat
  BY LenProperties DEF multi_stone_t
<1>3. k.queue = q /\ k.pulse_timestamp = p /\ k \in multi_stone_t
  BY <1>2 DEF multi_stone_t
<1>4. NextPulse(m) = IF Matches(k, 1) # {} THEN Open(k) ELSE k
  BY DEF NextPulse
<1>5. \A j, h \in 1 .. z : q[j].timestamp = p /\ q[h].timestamp = p => j = h
  <2> SUFFICES ASSUME NEW j \in 1 .. z, NEW h \in 1 .. z,
                      q[j].timestamp = p, q[h].timestamp = p
               PROVE  j = h
    OBVIOUS
  <2>1. src[j] \in Source(n) /\ src[h] \in Source(n)  BY <1>1
  <2>2. supply[src[j]] \in Nat /\ supply[src[h]] \in Nat  BY <2>1
  <2>3. p < supply[src[j]] /\ p < supply[src[h]]
    BY <1>1 DEF Filed, Waiting
  <2>4. supply[src[j]] > p /\ supply[src[h]] > p  BY <1>2, <2>2, <2>3
  <2>5. src[j] = src[h]  BY <2>1, <2>4
  <2> QED BY <1>1, <2>5 DEF Filed, Distinct
<1> HIDE DEF k, i, q, z, p
<1>6. CASE Matches(k, 1) # {}
  <2>1. i \in 1 .. z /\ q[i].timestamp = p
    BY <1>3, <1>6, FirstMatch DEF i, z
  <2>2. NextPulse(m) = OpenAt(k, i)  BY <1>4, <1>6 DEF Open, i
  <2>3. /\ OpenAt(k, i).queue = RemoveAt(q, i)
        /\ OpenAt(k, i).pulse_timestamp = p
    BY <1>3 DEF OpenAt, multi_stone_t
  <2>4. /\ Len(RemoveAt(q, i)) = z - 1
        /\ \A j \in 1 .. z - 1 :
             RemoveAt(q, i)[j] = IF j < i THEN q[j] ELSE q[j + 1]
    BY <1>2, <2>1, RemoveAtProperties DEF z
  <2>5. ASSUME NEW j \in 1 .. z - 1
        PROVE  RemoveAt(q, i)[j].timestamp # p
    <3>1. CASE j < i
      <4>1. j \in 1 .. z /\ j # i  BY <1>2, <2>1, <3>1
      <4> QED BY <1>5, <2>1, <2>4, <3>1, <4>1
    <3>2. CASE ~(j < i)
      <4>1. j + 1 \in 1 .. z /\ j + 1 # i  BY <1>2, <2>1, <3>2
      <4> QED BY <1>5, <2>1, <2>4, <3>2, <4>1
    <3> QED BY <3>1, <3>2
  <2> QED BY <2>2, <2>3, <2>4, <2>5 DEF NoMatch, p
<1>7. CASE Matches(k, 1) = {}
  <2>1. NextPulse(m) = k  BY <1>4, <1>7
  <2> QED BY <1>3, <1>7, <2>1, NoMatchMatches DEF p
<1> QED BY <1>6, <1>7

\* A process of a tree of degree 2 has no three children.
LEMMA NoThreeChildren ==
  ASSUME max_degree <= 2, NEW n \in Rank, NEW a \in children(n),
         NEW b \in children(n), NEW c \in children(n)
  PROVE  a = b \/ b = c \/ a = c
<1> DEFINE k == get_degree_node(n)
           o == n * max_degree
<1>1. k \in Nat /\ ChildOffsets(n) \subseteq 1 .. max_degree
  BY DegreeType DEF ChildOffsets
<1>2. max_degree \in Nat /\ o \in Int  BY RankType, TopologyAssumption
<1>3. /\ IsFiniteSet(1 .. max_degree)
      /\ Cardinality(1 .. max_degree) = max_degree
  BY <1>2, FS_Interval
<1>4. k <= max_degree  BY <1>1, <1>3, FS_Subset DEF get_degree_node
<1>5. children(n) = {o + i : i \in 1 .. k}  BY DEF children
<1> HIDE DEF k, o
<1>6. \A x \in children(n) : x = o + 1 \/ x = o + 2
  <2> SUFFICES ASSUME NEW i \in 1 .. k PROVE i = 1 \/ i = 2  BY <1>5
  <2> QED BY <1>1, <1>2, <1>4
<1>7. /\ a = o + 1 \/ a = o + 2
      /\ b = o + 1 \/ b = o + 2
      /\ c = o + 1 \/ c = o + 2
  BY <1>6
<1> QED BY <1>7

\* A child's event: it cannot complete the pulse, for the own one is missing.
LEMMA ArriveInStep ==
  ASSUME MergeInv, StonesLow, NEW c \in Rank, Arrive(c)
  PROVE  StonesLow'
<1> DEFINE n == get_parent(c)
<1>1. /\ PulseInv /\ TypeOK /\ c # ROOT /\ n \in NonLeaf /\ n \in Rank
      /\ c \in children(n) /\ c \in Source(n)
  <2>1. PulseInv /\ TypeOK /\ c # ROOT
    BY DEF MergeInv, PulseInv, Arrive
  <2>2. n \in NonLeaf /\ n \in Rank
    BY <2>1, ParentIsNotLeaf, ParentIsBelow, RankType DEF NonLeaf
  <2>3. c \in children(n)  BY <2>1, <2>2, ChildrenHaveParent
  <2> QED BY <2>1, <2>2, <2>3 DEF Source
<1>2. /\ link[c] \in Seq(metrics_t) /\ link[c] # <<>>
      /\ Len(link[c]) \in Nat /\ Arrived(c) \in Int /\ Arrived(c) >= 0
      /\ Consecutive(link[c], Arrived(c))
  BY <1>1, SentType DEF PulseInv, TypeOK, Arrive, LinkInv
<1>3. Head(link[c]) \in metrics_t /\ Head(link[c]).timestamp = Arrived(c)
  BY <1>2, ConsecutiveTail
<1>4. PICK e \in metrics_t : e = Head(link[c])  BY <1>3
<1>5. /\ multi' = [multi EXCEPT ![n] = multi_func(multi[n], e)]
      /\ stage' = [stage EXCEPT ![n] = "terminal"] /\ stage[n] = "idle"
      /\ UNCHANGED counter
  BY <1>1, <1>4, Zenon DEF Arrive
<1> HIDE DEF n
<1>19. \A k \in NonLeaf : submissions(k)' = submissions(k)
  BY <1>1, <1>5 DEF TypeOK, submissions
<1>20. submissions(n) = counter[n]  BY <1>5 DEF submissions
<1>6. Carries(e, c, Part(n, c))
  <2>1. e = link[c][1] /\ 1 \in 1 .. Len(link[c])
    <3>1. Len(link[c]) # 0  BY <1>2, EmptySeq
    <3> QED BY <1>2, <1>4, <3>1
  <2>2. Carries(e, c, Sub(c))  BY <2>1 DEF MergeInv, LinkCarries
  <2>3. c # n  BY <1>1, SourceCount
  <2> QED BY <2>2, <2>3 DEF Part
<1>7. PICK m \in multi_stone_t : m = multi[n]  BY <1>1 DEF TypeOK
<1>8. PICK supply \in [Source(n) -> Nat] : supply = Supply(n)
  BY <1>1, SupplyType
<1>9. /\ Merges(n, m, supply) /\ NoMatch(m)
      /\ m.pulse_timestamp = counter[n]
  BY <1>1, <1>7, <1>8, <1>20 DEF MergeInv, Tidy, StonesLow, InStep
<1>10. /\ supply[n] = counter[n] /\ n \in Source(n) /\ c # n
       /\ e.timestamp = supply[c]
  BY <1>1, <1>3, <1>4, <1>8, <1>20, SupplyType
<1>11. PICK more : more = [supply EXCEPT ![c] = supply[c] + 1]  OBVIOUS
<1>12. PICK r : r = Activate(m, e)  OBVIOUS
<1>13. /\ Merges(n, r, more) /\ NoMatch(r) /\ r \in multi_stone_t
       /\ r.pulse_timestamp = m.pulse_timestamp
  <2>1. children(n) # {}  BY <1>1
  <2>2. Merges(n, r, more)
    BY <1>1, <1>6, <1>9, <1>10, <1>11, <1>12, <2>1, ActivateFiled
  <2>3. NoMatch(r)
    BY <1>1, <1>9, <1>10, <1>12, ActivateNoMatch
  <2> QED BY <1>12, <2>2, <2>3, ActivateType, ActivateKeepsPulse
<1>14. ~Completed(r)
  <2> SUFFICES ASSUME Completed(r) PROVE FALSE  OBVIOUS
  <2>1. more \in [Source(n) -> Nat] /\ more[n] = supply[n]
    BY <1>1, <1>10, <1>11
  <2>2. more[n] > r.pulse_timestamp
    BY <1>1, <1>10, <1>13, <2>1, NextPulseFiled
  <2>3. counter[n] \in Nat  BY <1>1 DEF TypeOK
  <2> QED BY <1>9, <1>10, <1>13, <2>1, <2>2, <2>3
<1>15. multi_func(m, e) = r  BY <1>12, <1>14 DEF multi_func
<1>16. multi' = [multi EXCEPT ![n] = r]  BY <1>5, <1>7, <1>15
<1>17. InStep(n)'
  <2>1. multi'[n] = r  BY <1>1, <1>16 DEF TypeOK
  <2> QED BY <1>1, <1>9, <1>13, <1>19, <1>20, <2>1 DEF InStep, NoMatch
<1>18. ASSUME NEW k \in NonLeaf, k # n PROVE InStep(k)'
  <2>1. multi'[k] = multi[k]  BY <1>1, <1>16, <1>18 DEF TypeOK
  <2> QED BY <1>19, <2>1 DEF StonesLow, InStep, NoMatch
<1> QED BY <1>17, <1>18 DEF StonesLow

\* The own event completes the pulse, and of the next one at most one event
\* is waiting.
LEMMA SubmitOwnInStep ==
  ASSUME max_degree <= 2, MergeInv, MergeInv', StonesLow, NEW n \in NonLeaf,
         stage[n] = "terminal", SubmitOwn(n), counter' = counter
  PROVE  StonesLow'
<1> DEFINE own == OwnEvent(n, inbox[n])
<1>1. /\ PulseInv /\ TypeOK /\ n \in Rank /\ n \notin Leaf
      /\ counter[n] \in Nat /\ n \in Source(n) /\ n \notin children(n)
  BY LeafRank, SourceCount DEF MergeInv, PulseInv, TypeOK, NonLeaf, Source
<1>2. /\ multi' = [multi EXCEPT ![n] = multi_func(multi[n], own)]
      /\ stage' = [stage EXCEPT ![n] = "submitted"]
      /\ CountOf(Counted(n), counter[n]) = get_degree_node(n)
  BY DEF SubmitOwn
<1>3. /\ children(n) # {} /\ own \in metrics_t
      /\ own.timestamp = counter[n] /\ Carries(own, n, {n})
      /\ submissions(n) = counter[n]
      /\ \A c \in children(n) : Arrived(c) > counter[n]
  BY <1>2, OwnEventMerge
<1>4. PICK e \in metrics_t : e = own  BY <1>3
<1> HIDE DEF own
<1>5. PICK m \in multi_stone_t : m = multi[n]  BY <1>1 DEF TypeOK
<1>6. PICK supply \in [Source(n) -> Nat] : supply = Supply(n)
  BY <1>1, SupplyType
<1>7. /\ Merges(n, m, supply) /\ NoMatch(m)
      /\ m.pulse_timestamp = counter[n]
  BY <1>3, <1>5, <1>6 DEF MergeInv, Tidy, StonesLow, InStep
<1>8. /\ supply[n] = counter[n] /\ e.timestamp = supply[n]
      /\ Carries(e, n, Part(n, n))
      /\ \A c \in children(n) :
           c \in Source(n) /\ supply[c] = Arrived(c) /\ supply[c] > supply[n]
  BY <1>1, <1>3, <1>4, <1>6, SupplyType DEF Part
<1>9. PICK more : more = [supply EXCEPT ![n] = supply[n] + 1]  OBVIOUS
<1>10. PICK r : r = Activate(m, e)  OBVIOUS
<1>11. /\ Merges(n, r, more) /\ NoMatch(r) /\ r \in multi_stone_t
       /\ r.pulse_timestamp = counter[n]
  <2>1. Merges(n, r, more)
    BY <1>1, <1>3, <1>7, <1>8, <1>9, <1>10, ActivateFiled
  <2>2. NoMatch(r)  BY <1>1, <1>7, <1>8, <1>10, ActivateNoMatch
  <2> QED BY <1>7, <1>10, <2>1, <2>2, ActivateType, ActivateKeepsPulse
<1>12. /\ more \in [Source(n) -> Nat] /\ more[n] = counter[n] + 1
       /\ \A c \in children(n) : more[c] = Arrived(c)
  BY <1>1, <1>8, <1>9
<1>13. Completed(r)
  <2>1. \A y \in Source(n) : more[y] > counter[n]
    BY <1>1, <1>3, <1>12 DEF Source
  <2> QED BY <1>11, <1>12, <2>1, AllMerged
<1>14. PICK z \in children(n) : Arrived(z) = counter[n] + 1
  <2>1. PICK z \in children(n) :
          Arrived(z) = counter[n] \/ Arrived(z) = counter[n] + 1
    BY <1>3 DEF MergeInv, Tidy, Behind
  <2>2. Arrived(z) > counter[n]  BY <1>3, <2>1
  <2> QED BY <1>1, <2>1, <2>2
<1>15. ASSUME NEW x \in Source(n), NEW y \in Source(n),
              more[x] > r.pulse_timestamp + 1, more[y] > r.pulse_timestamp + 1
       PROVE  x = y
  <2>1. \A v \in Source(n) : more[v] > counter[n] + 1 => v \in children(n) /\ v # z
    <3>1. ~(counter[n] + 1 > counter[n] + 1)  BY <1>1
    <3> QED BY <1>12, <1>14, <3>1 DEF Source
  <2>2. x \in children(n) /\ y \in children(n) /\ x # z /\ y # z
    BY <1>11, <1>15, <2>1
  <2> QED BY <1>1, <1>14, <2>2, NoThreeChildren
<1>16. PICK s : s = NextPulse(r)  OBVIOUS
<1>17. NoMatch(s) /\ s.pulse_timestamp = counter[n] + 1
  BY <1>11, <1>12, <1>15, <1>16, NextPulseNoMatch
<1>18. multi_func(m, e) = s
  BY <1>10, <1>13, <1>16 DEF multi_func
<1>19. multi' = [multi EXCEPT ![n] = s]  BY <1>2, <1>4, <1>5, <1>18
<1>20. InStep(n)'
  <2>1. multi'[n] = s /\ submissions(n)' = counter[n] + 1
    BY <1>1, <1>2, <1>19 DEF TypeOK, submissions
  <2> QED BY <1>17, <2>1 DEF InStep, NoMatch
<1>21. ASSUME NEW k \in NonLeaf, k # n PROVE InStep(k)'
  <2>1. multi'[k] = multi[k] /\ submissions(k)' = submissions(k)
    BY <1>1, <1>2, <1>19, <1>21 DEF TypeOK, submissions
  <2> QED BY <2>1 DEF StonesLow, InStep, NoMatch
<1> QED BY <1>20, <1>21 DEF StonesLow

\* Steps that change no multi_stone and submit no process's own event.
LEMMA UnchangedInStep ==
  ASSUME StonesLow, multi' = multi,
         \A n \in NonLeaf : submissions(n)' = submissions(n)
  PROVE  StonesLow'
BY DEF StonesLow, InStep, NoMatch

\* StonesLow is inductive, given MergeInv.
LEMMA StonesLowKept ==
  ASSUME max_degree <= 2
  PROVE  MergeInv /\ MergeInv' /\ StonesLow /\ [Next]_vars => StonesLow'
<1> SUFFICES ASSUME MergeInv, MergeInv', StonesLow, [Next]_vars
             PROVE  StonesLow'
  OBVIOUS
<1>0. TypeOK  BY DEF MergeInv, PulseInv
<1>1. CASE EditFile  BY <1>1, UnchangedInStep DEF EditFile, submissions
<1>2. ASSUME NEW l \in Leaf, monitoring_finalize_leaf(l) PROVE StonesLow'
  BY <1>2, UnchangedInStep DEF monitoring_finalize_leaf, submissions
<1>3. ASSUME NEW l \in Leaf, start_communication(l) PROVE StonesLow'
  <2>1. /\ multi' = multi /\ stage' = stage
        /\ counter' = [counter EXCEPT ![l] = counter[l] + 1]
    BY <1>3 DEF start_communication, SendEvent
  <2>2. \A n \in NonLeaf : submissions(n)' = submissions(n)
    BY <1>0, <2>1, LeafRank DEF NonLeaf, TypeOK, submissions
  <2> QED BY <2>1, <2>2, UnchangedInStep
<1>4. ASSUME NEW n \in NonLeaf, NEW c \in children(n), Arrive(c)
      PROVE  StonesLow'
  BY <1>4, ChildRank, ArriveInStep
<1>5. ASSUME NEW n \in NonLeaf, compute_own_metrics(n) PROVE StonesLow'
  <2>1. CASE WaitForOthers(n)
    <3>1. /\ stage' = [stage EXCEPT ![n] = "idle"] /\ stage[n] = "terminal"
          /\ multi' = multi /\ counter' = counter
      BY <1>5, <2>1 DEF WaitForOthers, compute_own_metrics
    <3>2. \A k \in NonLeaf : submissions(k)' = submissions(k)
      BY <1>0, <3>1 DEF TypeOK, submissions
    <3> QED BY <3>1, <3>2, UnchangedInStep
  <2>2. CASE SubmitOwn(n)
    BY <1>5, <2>2, SubmitOwnInStep DEF compute_own_metrics
  <2> QED BY <1>5, <2>1, <2>2 DEF compute_own_metrics
<1>6. ASSUME NEW n \in NonLeaf, FinishPulse(n) PROVE StonesLow'
  <2>1. /\ stage' = [stage EXCEPT ![n] = "idle"] /\ stage[n] = "submitted"
        /\ counter' = [counter EXCEPT ![n] = counter[n] + 1] /\ multi' = multi
    BY <1>6 DEF FinishPulse
  <2>2. \A k \in NonLeaf : submissions(k)' = submissions(k)
    BY <1>0, <2>1, LeafRank DEF TypeOK, submissions
  <2> QED BY <2>1, <2>2, UnchangedInStep
<1>7. CASE final_result
  BY <1>7, UnchangedInStep DEF final_result, submissions
<1>8. CASE UNCHANGED vars
  BY <1>8, UnchangedInStep DEF vars, submissions
<1> QED BY <1>1, <1>2, <1>3, <1>4, <1>5, <1>6, <1>7, <1>8
        DEF Next, comm_thread

(***************************************************************************)
(* In a tree of degree 2 or less, of any size, the two stones of a process *)
(* agree between two events on which pulses are complete.  (With degree 3  *)
(* two events of the next pulse may wait when one is complete, and it is   *)
(* false there.)                                                           *)
(***************************************************************************)
THEOREM StonesInStepCorrect ==
  ASSUME max_degree <= 2 PROVE Spec => []StonesInStep
<1>1. Init => StonesLow
  BY LeafRank DEF Init, StonesLow, InStep, NoMatch, InitialMulti, submissions
<1>2. MergeInv /\ MergeInv' /\ StonesLow /\ [Next]_vars => StonesLow'
  BY StonesLowKept
<1>3. MergeInv /\ StonesLow => StonesInStep
  <2> SUFFICES ASSUME MergeInv, StonesLow, NEW n \in NonLeaf,
                      stage[n] = "idle"
               PROVE  /\ multi[n].pulse_timestamp = counter[n]
                      /\ Matches(multi[n], 1) = {}
    BY DEF StonesInStep
  <2>1. multi[n] \in multi_stone_t  BY DEF MergeInv, PulseInv, TypeOK
  <2> QED BY <2>1, NoMatchMatches DEF StonesLow, InStep, submissions
<1> QED BY <1>1, <1>2, <1>3, InitMergeInv, MergeInvKept, PTL DEF Spec
=============================================================================
