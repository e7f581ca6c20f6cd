----------------------------- MODULE MultiStone -----------------------------
(***************************************************************************)
(* The aggregation program cod.h installs on the multi_stone of every      *)
(* process that is not a leaf: E-code text that EVPath compiles and runs   *)
(* once for each event put in the stone's queue.  Its static variables are *)
(* the fields of a record m; each operator below is a part of its text as  *)
(* a function from such a record to the next.                              *)
(*                                                                         *)
(* An event is the metrics_t of metrics_aggregator.h.  max_degree and      *)
(* nprocs travel in every event but are the same everywhere, so they are   *)
(* constants here.  gather_info is kept for the first metric of the list,  *)
(* and means nothing in an event of none (metrics_nr is 0).                *)
(* Queue positions count from 1, and NotFound stands for the -1 of the     *)
(* code.                                                                   *)
(***************************************************************************)
EXTENDS Topology, Sequences, SequencesExt

Info == [min : Int, max : Int, sum : Int]

metrics_t == [timestamp : Nat, quit : BOOLEAN, update_file : BOOLEAN,
              parent_rank : Int, metrics_nr : Nat, gather_info : Info]

NotFound == -1

ZeroEvent == [timestamp |-> 0, quit |-> FALSE, update_file |-> FALSE,
              parent_rank |-> 0, metrics_nr |-> 0,
              gather_info |-> [min |-> 0, max |-> 0, sum |-> 0]]

multi_stone_t == [queue : Seq(metrics_t), max_degree : {-1, max_degree},
                  first_found_index : {NotFound} \cup (Nat \ {0}),
                  count : Nat, current_node_degree : Nat,
                  pulse_timestamp : Nat, aggregated_event : metrics_t]

InitialMulti == [queue |-> <<>>, max_degree |-> -1,
                 first_found_index |-> NotFound, count |-> 0, current_node_degree |-> 0,
                 pulse_timestamp |-> 0, aggregated_event |-> ZeroEvent]

\* Mutant of Matches: any event that is not of an earlier pulse will do.
MatchesLater(m, from) == {i \in from .. Len(m.queue) :
                            m.queue[i].timestamp >= m.pulse_timestamp}

\* The positions, from a given one on, of the queued events of this pulse.
Matches(m, from) == {i \in from .. Len(m.queue) :
                       m.queue[i].timestamp = m.pulse_timestamp}

\* Mutant of Combine: the second comparison is the wrong way round.
CombineSwapped(x, y) == [min |-> IF x.min > y.min THEN y.min ELSE x.min,
                         max |-> IF x.max > y.max THEN y.max ELSE x.max,
                         sum |-> x.sum + y.sum]

\* sum += sum, and the two comparisons that keep the least and the greatest.
Combine(x, y) == [min |-> IF x.min > y.min THEN y.min ELSE x.min,
                  max |-> IF x.max < y.max THEN y.max ELSE x.max,
                  sum |-> x.sum + y.sum]

\* The loops over a->metrics_nr, for the first metric: what the aggregate has
\* afterwards, when value is what they assign.
IfMeasured(a, m, value) ==
  IF a.metrics_nr > 0 THEN value ELSE m.aggregated_event.gather_info

\* Mutant of OpenAt: parent_rank is replaced before the degree is worked out.
OpenAtGrandparent(m, i) ==
  LET e == m.queue[i]
      a == [e EXCEPT !.parent_rank = get_parent(@),
                     !.gather_info = IfMeasured(e, m, @)] IN
  [m EXCEPT !.aggregated_event = a, !.max_degree = max_degree, !.first_found_index = i, !.count = 1,
            !.current_node_degree = get_degree_node(a.parent_rank),
            !.queue = RemoveAt(m.queue, i)]

\* Mutant of OpenAt: the aggregate keeps the quit flag of the pulse before.
OpenAtOldQuit(m, i) ==
  LET a == m.queue[i] IN
  [m EXCEPT !.aggregated_event =
              [a EXCEPT !.parent_rank = get_parent(a.parent_rank),
                        !.gather_info = IfMeasured(a, m, @),
                        !.quit = m.aggregated_event.quit],
            !.max_degree = max_degree, !.first_found_index = i, !.count = 1,
            !.current_node_degree = get_degree_node(a.parent_rank),
            !.queue = RemoveAt(m.queue, i)]

(***************************************************************************)
(* first_found_index == -1: the first event of the pulse opens the         *)
(* aggregation.  Its quit and update_file flags become those of the        *)
(* aggregate, and the node's degree is worked out from its parent_rank.    *)
(* The code takes for granted that the event exists.  If it does not, the  *)
(* degree comes from the last event scanned (from nothing while max_degree *)
(* is still -1), EVdiscard is called with -1, which removes nothing, and   *)
(* count says that one event was merged.                                   *)
(***************************************************************************)
OpenAt(m, i) ==
  LET a == m.queue[i] IN
  [m EXCEPT !.aggregated_event =
              [a EXCEPT !.parent_rank = get_parent(a.parent_rank),
                        !.gather_info = IfMeasured(a, m, @)],
            !.max_degree = max_degree,
            !.first_found_index = i,
            !.current_node_degree = get_degree_node(a.parent_rank),
            !.count = 1,
            !.queue = RemoveAt(m.queue, i)]

OpenOnNothing(m) ==
  [m EXCEPT !.current_node_degree =
              IF m.max_degree = -1 THEN 0 ELSE
                get_degree_node(m.queue[Len(m.queue)].parent_rank),
            !.count = 1]

Open(m) == IF Matches(m, 1) # {} THEN OpenAt(m, Min(Matches(m, 1)))
                                 ELSE OpenOnNothing(m)

(***************************************************************************)
(* count < current_node_degree + 1: merge the next event of the pulse, if  *)
(* there is one at or after the position of the one removed last.          *)
(***************************************************************************)
MergeAt(m, i) ==
  LET a == m.queue[i] IN
  [m EXCEPT !.aggregated_event.gather_info = IfMeasured(a, m, Combine(@, a.gather_info)),
            !.count = m.count + 1,
            !.first_found_index = i,
            !.queue = RemoveAt(m.queue, i)]

\* Mutant of Merge: the scan resumes one position too far.
MergeBeyond(m) ==
  LET I == Matches(m, m.first_found_index + 1)
  IN  IF m.count < m.current_node_degree + 1 /\ I # {}
      THEN MergeAt(m, Min(I))
      ELSE m

Merge(m) ==
  LET I == Matches(m, m.first_found_index)
  IN  IF m.count < m.current_node_degree + 1 /\ I # {}
      THEN MergeAt(m, Min(I))
      ELSE m

Consume(m) == IF m.first_found_index = NotFound THEN Open(m) ELSE Merge(m)

\* Mutant of Completed: the process's own event is not waited for.
CompletedByChildren(m) == m.count = m.current_node_degree

\* Mutant of NextPulse: without "goto start".
NextPulseNoGoto(m) == [m EXCEPT !.pulse_timestamp = m.pulse_timestamp + 1,
                                !.first_found_index = NotFound,
                                !.count = 0]

(***************************************************************************)
(* count == current_node_degree + 1: the aggregate goes to output 0 and    *)
(* the next pulse starts; "goto start" opens it at once when an event of   *)
(* it is already queued.  (The text after "goto start" tests for           *)
(* completion again; with one event merged that needs degree 0, and the    *)
(* degree of a node that has received an event is at least 1.)             *)
(***************************************************************************)
Completed(m) == m.count = m.current_node_degree + 1

NextPulse(m) ==
  LET r == [m EXCEPT !.pulse_timestamp = m.pulse_timestamp + 1,
                     !.first_found_index = NotFound,
                     !.count = 0]
  IN  IF Matches(r, 1) # {} THEN Open(r) ELSE r

\* One activation: e arrives in the queue and the program runs once.
Activate(m, e) == Consume([m EXCEPT !.queue = Append(m.queue, e)])

multi_func(m, e) == LET r == Activate(m, e)
                    IN  IF Completed(r) THEN NextPulse(r) ELSE r

\* What that activation gives to EVsubmit(0, aggregated_event).
Submitted(m, e) == LET r == Activate(m, e)
                   IN  IF Completed(r) THEN <<r.aggregated_event>> ELSE <<>>
=============================================================================
