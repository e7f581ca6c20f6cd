---------------------------- MODULE Aggregation -----------------------------
(***************************************************************************)
(* One run of the monitoring tree, from the moment monitoring_initialize   *)
(* has returned everywhere: the leaf threads send an event per pulse up    *)
(* the tree, every inner process adds its own metrics to those of its      *)
(* children, and the root publishes one result per pulse.                  *)
(*                                                                         *)
(* A process that is not a leaf handles events on one EVPath thread.  An   *)
(* event from a child reaches the split_stone, which puts it in the queues *)
(* of the terminal_stone and of the multi_stone.  The multi_stone's        *)
(* program runs for it (action Arrive) and the terminal_stone's handler    *)
(* compute_own_metrics, which may itself submit to the multi_stone (action *)
(* compute_own_metrics).  The order of the two makes no difference: the    *)
(* multi_stone serves its queue in order, and the child's event is in it   *)
(* before the handler runs.  What the multi_stone submits goes through the *)
(* bridge_stone to the parent's split_stone, in order; at the root it goes *)
(* to the handler final_result, before the root takes another event.       *)
(***************************************************************************)
EXTENDS MultiStone

CONSTANTS BENCHMARKING,    \* the build option of CMakeLists.txt
          max_timestamps,  \* with BENCHMARKING: the number of pulses asked
                           \* for; without: the bound of the model on them
          Metric,          \* what each rank measures (Measured)
          AliasNumbers,    \* the numbers of metrics the aliases file may ask
          MaxFileChanges   \* bound: how often the application edits the file

ASSUME AggregationAssumption ==
         /\ BENCHMARKING \in BOOLEAN
         /\ max_timestamps \in Nat \ {0}
         /\ Metric \in [Rank -> [0 .. 1 -> Int]]
         /\ AliasNumbers \in SUBSET Nat
         /\ AliasNumbers # {}
         /\ MaxFileChanges \in Nat

VARIABLES
  file,               \* number of metrics in the aliases file
  file_changes,       \* edits of the file so far
  leafs_finished,     \* per leaf: set by its main thread, under glock
  running,            \* per leaf: its thread is in the loop (!data.quit)
  counter,            \* per rank: timestamp of the next event of its own
  total_metrics,      \* per rank: aggregator->total_metrics
  link,               \* per rank: events its output has not delivered yet
  multi,              \* per inner rank: its multi_stone
  stage,              \* per inner rank: what its EVPath thread is about to do
  inbox,              \* per inner rank: event queued at its terminal_stone
  hash_ts,            \* per inner rank: events counted for each timestamp
  first_pulse,        \* per inner rank: static of compute_own_metrics
  data,               \* per inner rank: static of compute_own_metrics
  pulse,              \* root: static of final_result
  monitoring_results, \* root: allocated entries and what was last written
  results_available,  \* root: under results_lock
  root_finished       \* root: under glock

leafVars == <<leafs_finished, running>>
ownVars  == <<hash_ts, first_pulse, data>>
rootVars == <<pulse, monitoring_results, results_available, root_finished>>
fileVars == <<file, file_changes>>

vars == <<file, file_changes, leafs_finished, running, counter, total_metrics,
          link, multi, stage, inbox, hash_ts, first_pulse, data, pulse,
          monitoring_results, results_available, root_finished>>

\* What rank r measures for its event of pulse ts, for the first of number
\* metrics, and the three fields in which compute_metric stores that value.
\* Lists of an even and an odd number of metrics begin with different ones.
Measured(r, ts, number) == Metric[r][(ts + number) % 2]

OwnInfo(r, ts, number) ==
  LET value == Measured(r, ts, number)
  IN  [min |-> value, max |-> value, sum |-> value]

Init ==
  /\ file \in AliasNumbers
  /\ file_changes = 0
  /\ leafs_finished = [l \in Leaf |-> FALSE]
  /\ running = [l \in Leaf |-> TRUE]
  /\ counter = [r \in Rank |-> 0]
  /\ total_metrics = [r \in Rank |-> 0]
  /\ link = [r \in Rank |-> <<>>]
  /\ multi = [n \in NonLeaf |-> InitialMulti]
  /\ stage = [n \in NonLeaf |-> "idle"]
  /\ inbox = [n \in NonLeaf |-> ZeroEvent]
  /\ hash_ts = [n \in NonLeaf |-> <<>>]
  /\ first_pulse = [n \in NonLeaf |-> TRUE]
  /\ data = [n \in NonLeaf |-> ZeroEvent]
  /\ pulse = 0
  /\ monitoring_results = [size |-> 0, written |-> 0,
                           gather_info |-> ZeroEvent.gather_info]
  /\ results_available = FALSE
  /\ root_finished = FALSE
-----------------------------------------------------------------------------
(***************************************************************************)
(* The application: it edits the aliases file, and on a leaf its main      *)
(* thread enters monitoring_finalize.  An edit that keeps the number       *)
(* changes names only, which nothing below notices (needs_sync).           *)
(***************************************************************************)
EditFile ==
  /\ file_changes < MaxFileChanges
  /\ file' \in AliasNumbers
  /\ file_changes' = file_changes + 1
  /\ UNCHANGED <<leafVars, counter, total_metrics, link, multi, stage, inbox,
                 ownVars, rootVars>>

monitoring_finalize_leaf(l) ==
  /\ ~BENCHMARKING
  /\ ~leafs_finished[l]
  /\ leafs_finished' = [leafs_finished EXCEPT ![l] = TRUE]
  /\ UNCHANGED <<fileVars, running, counter, total_metrics, link, multi,
                 stage, inbox, ownVars, rootVars>>
-----------------------------------------------------------------------------
(***************************************************************************)
(* The leaf thread: one turn of the loop of start_communication.  The loop *)
(* of metrics_crawler_results_file reports a change when the number in the *)
(* file is not the number of the pulse before; the names are compared with *)
(* entries that were freed and nulled a moment earlier, and with no name   *)
(* to read the loop does not run.                                          *)
(*                                                                         *)
(* Without BENCHMARKING nothing limits the number of pulses, so the model  *)
(* keeps a leaf from starting its last pulse, max_timestamps-1, until its  *)
(* main thread is in monitoring_finalize.                                  *)
(***************************************************************************)
needs_sync(number, old_nr_of_metrics) ==
  number # old_nr_of_metrics /\ number > 0

\* Mutant of LastPulse: one pulse more than asked for.
LastPulseOneMore(l) == counter[l] = max_timestamps

LastPulse(l) == counter[l] = max_timestamps - 1

QuitNow(l) == IF BENCHMARKING THEN LastPulse(l) ELSE leafs_finished[l]

SendEvent(l, quit) ==
  /\ link' = [link EXCEPT ![l] =
       Append(@, [timestamp   |-> counter[l],
                  quit        |-> quit,
                  update_file |-> needs_sync(file, total_metrics[l]),
                  parent_rank |-> get_parent(l),
                  metrics_nr  |-> file,
                  gather_info |-> OwnInfo(l, counter[l], file)])]
  /\ total_metrics' = [total_metrics EXCEPT ![l] = file]
  /\ counter' = [counter EXCEPT ![l] = @ + 1]
  /\ running' = [running EXCEPT ![l] = ~quit]
  /\ UNCHANGED <<fileVars, leafs_finished, multi, stage, inbox, ownVars,
                 rootVars>>

start_communication(l) ==
  /\ running[l]
  /\ BENCHMARKING \/ leafs_finished[l] \/ ~LastPulse(l)
  /\ SendEvent(l, QuitNow(l))
-----------------------------------------------------------------------------
(***************************************************************************)
(* An event of child c arrives at the split_stone of its parent n, whose   *)
(* thread is done with the event before.  That includes final_result.      *)
(***************************************************************************)
Arrive(c) ==
  LET n == get_parent(c)
      e == Head(link[c])
  IN  /\ c # ROOT
      /\ link[c] # <<>>
      /\ stage[n] = "idle"
      /\ n = ROOT => link[ROOT] = <<>>
      /\ multi' = [multi EXCEPT ![n] = multi_func(@, e)]
      /\ link' = [link EXCEPT ![c] = Tail(@),
                              ![n] = @ \o Submitted(multi[n], e)]
      /\ inbox' = [inbox EXCEPT ![n] = e]
      /\ stage' = [stage EXCEPT ![n] = "terminal"]
      /\ UNCHANGED <<fileVars, leafVars, counter, total_metrics, ownVars,
                     rootVars>>

(***************************************************************************)
(* hash_ts as a function on the timestamps that have an entry.  The array  *)
(* count_timestamps of the BENCHMARKING build counts the same way; there,  *)
(* a timestamp without an entry is a zero.                                 *)
(***************************************************************************)
\* Mutant of Bump: a new entry starts from zero.
BumpFromZero(h, ts) ==
  [t \in DOMAIN h \cup {ts} |->
     IF t # ts THEN h[t] ELSE IF t \in DOMAIN h THEN h[t] + 1 ELSE 0]

Bump(h, ts) == [t \in DOMAIN h \cup {ts} |->
                  IF t # ts THEN h[t] ELSE IF t \in DOMAIN h THEN h[t] + 1 ELSE 1]

\* Mutant of Forget: the entry is looked up after ++counter.
ForgetNext(h, ts) == [t \in DOMAIN h \ {ts + 1} |-> h[t]]

Forget(h, ts) == [t \in DOMAIN h \ {ts} |-> h[t]]

\* Without an entry for counter the code reads through a null pointer; the
\* BENCHMARKING build counts the event past the end of the array, or reads
\* there, once the timestamp of the event or counter is out of range.
LookupFails(n, h) == IF BENCHMARKING
                     THEN \/ inbox[n].timestamp >= max_timestamps
                          \/ counter[n] >= max_timestamps
                     ELSE counter[n] \notin DOMAIN h

CountOf(h, ts) == IF ts \in DOMAIN h THEN h[ts] ELSE 0

\* get_metrics_values: the metrics of this process for pulse ts, read from
\* the file again only when event says that the file has changed.
NumberFor(n, event) == IF event.update_file THEN file ELSE total_metrics[n]

get_metrics_values(n, event, ts) ==
  [timestamp   |-> ts,
   quit        |-> event.quit,
   update_file |-> event.update_file,
   parent_rank |-> get_parent(n),
   metrics_nr  |-> NumberFor(n, event),
   gather_info |-> OwnInfo(n, ts, NumberFor(n, event))]

\* What the pulse submits: computed now, or at the end of the pulse before.
Recomputes(n, event) == first_pulse[n] \/ event.update_file \/ event.quit

OwnEvent(n, event) == IF Recomputes(n, event)
                      THEN get_metrics_values(n, event, counter[n])
                      ELSE data[n]

LastForNode(own, event) ==
  IF BENCHMARKING THEN own.timestamp = max_timestamps - 1 ELSE event.quit

(***************************************************************************)
(* The handler of the terminal_stone.  The pulse of counter is complete    *)
(* when as many events of it have come as the process has children; then   *)
(* the process's own event goes to the multi_stone, whose program runs     *)
(* inside EVsubmit.  From there on the aggregate is visible, to the parent *)
(* or to final_result, while the handler goes on (FinishPulse).  What      *)
(* follows a failing lookup is undefined: the model stops there, and       *)
(* LookupSucceeds says that it never happens.                              *)
(***************************************************************************)
Counted(n) == Bump(hash_ts[n], inbox[n].timestamp)

WaitForOthers(n) ==
  /\ CountOf(Counted(n), counter[n]) # get_degree_node(n)
  /\ stage' = [stage EXCEPT ![n] = "idle"]
  /\ UNCHANGED <<total_metrics, link, multi, first_pulse, data>>

SubmitOwn(n) ==
  LET event == inbox[n]
      own   == OwnEvent(n, event)
  IN  /\ CountOf(Counted(n), counter[n]) = get_degree_node(n)
      /\ multi' = [multi EXCEPT ![n] = multi_func(@, own)]
      /\ link' = [link EXCEPT ![n] = @ \o Submitted(multi[n], own)]
      /\ data' = [data EXCEPT ![n] = own]
      /\ first_pulse' = [first_pulse EXCEPT ![n] = FALSE]
      /\ total_metrics' = [total_metrics EXCEPT ![n] =
                             IF Recomputes(n, event) THEN own.metrics_nr ELSE @]
      /\ stage' = [stage EXCEPT ![n] = "submitted"]

compute_own_metrics(n) ==
  /\ stage[n] = "terminal"
  /\ ~LookupFails(n, Counted(n))
  /\ hash_ts' = [hash_ts EXCEPT ![n] = Counted(n)]
  /\ WaitForOthers(n) \/ SubmitOwn(n)
  /\ UNCHANGED <<fileVars, leafVars, counter, inbox, rootVars>>

(***************************************************************************)
(* The rest of the handler, after the return of EVsubmit: the entry found  *)
(* before it is deleted, and unless this was the last pulse the next own   *)
(* event is prepared.  Only this thread uses what changes here, except for *)
(* destroy_metrics_aggregator, so that one action stands for all of it.    *)
(***************************************************************************)
FinishPulse(n) ==
  LET last == LastForNode(data[n], inbox[n])
      next == get_metrics_values(n, inbox[n], counter[n] + 1)
  IN  /\ stage[n] = "submitted"
      /\ counter' = [counter EXCEPT ![n] = @ + 1]
      /\ hash_ts' = [hash_ts EXCEPT ![n] = IF BENCHMARKING THEN @ ELSE Forget(@, counter[n])]
      /\ data' = [data EXCEPT ![n] = IF last THEN @ ELSE next]
      /\ total_metrics' = [total_metrics EXCEPT ![n] = IF last THEN @ ELSE next.metrics_nr]
      /\ stage' = [stage EXCEPT ![n] = "idle"]
      /\ UNCHANGED <<fileVars, leafVars, link, multi, inbox, first_pulse, rootVars>>
-----------------------------------------------------------------------------
(***************************************************************************)
(* The root's last handler.  The BENCHMARKING build stores a duration per  *)
(* pulse, the other one the results themselves, in an array it allocates   *)
(* for the first pulse and again when the event carries update_file.  avg  *)
(* is sum / nprocs and is kept as the sum.                                 *)
(***************************************************************************)
\* Mutant of Allocates: update_file is ignored.
AllocatesOnce(event) == pulse = 0

Allocates(event) == pulse = 0 \/ event.update_file

\* Mutant of FinishesRoot: the pulse before the last one, or a single metric.
FinishesRootEarly(event) ==
  \/ BENCHMARKING /\ event.timestamp + 1 = max_timestamps - 1
  \/ event.quit
  \/ event.metrics_nr <= 1

FinishesRoot(event) ==
  \/ BENCHMARKING /\ event.timestamp = max_timestamps - 1
  \/ event.quit
  \/ event.metrics_nr = 0

final_result ==
  LET event == Head(link[ROOT])
  IN  /\ link[ROOT] # <<>>
      /\ link' = [link EXCEPT ![ROOT] = Tail(@)]
      /\ IF BENCHMARKING
         THEN UNCHANGED <<monitoring_results, results_available>>
         ELSE /\ monitoring_results' =
                   [size        |-> IF Allocates(event) THEN event.metrics_nr
                                    ELSE monitoring_results.size,
                    written     |-> event.metrics_nr,
                    gather_info |-> IF event.metrics_nr > 0 THEN event.gather_info
                                    ELSE monitoring_results.gather_info]
              /\ results_available' = (results_available \/ Allocates(event))
      /\ pulse' = pulse + 1
      /\ root_finished' = (root_finished \/ FinishesRoot(event))
      /\ UNCHANGED <<fileVars, leafVars, counter, total_metrics, multi, stage,
                     inbox, ownVars>>
-----------------------------------------------------------------------------
\* What the EVPath thread of rank n does.
comm_thread(n) == \/ \E c \in children(n) : Arrive(c)
                  \/ compute_own_metrics(n)
                  \/ FinishPulse(n)
                  \/ n = ROOT /\ final_result

Next ==
  \/ EditFile
  \/ \E l \in Leaf : monitoring_finalize_leaf(l) \/ start_communication(l)
  \/ \E n \in NonLeaf : comm_thread(n)

Spec == Init /\ [][Next]_vars

(***************************************************************************)
(* Threads that are not blocked run on: each leaf's main thread reaches    *)
(* monitoring_finalize, each leaf's thread sleeps and turns again, and an  *)
(* EVPath thread that has something to handle handles something.  Nothing  *)
(* forces the application to edit the file.                                *)
(***************************************************************************)
Fairness ==
  /\ \A l \in Leaf : /\ WF_vars(monitoring_finalize_leaf(l))
                     /\ WF_vars(start_communication(l))
  /\ \A n \in NonLeaf : WF_vars(comm_thread(n))

FairSpec == Spec /\ Fairness
-----------------------------------------------------------------------------
TypeOK ==
  /\ file \in AliasNumbers
  /\ file_changes \in 0 .. MaxFileChanges
  /\ leafs_finished \in [Leaf -> BOOLEAN]
  /\ running \in [Leaf -> BOOLEAN]
  /\ counter \in [Rank -> Nat]
  /\ total_metrics \in [Rank -> Nat]
  /\ link \in [Rank -> Seq(metrics_t)]
  /\ multi \in [NonLeaf -> multi_stone_t]
  /\ stage \in [NonLeaf -> {"idle", "terminal", "submitted"}]
  /\ inbox \in [NonLeaf -> metrics_t]
  /\ DOMAIN hash_ts = NonLeaf
  /\ \A n \in NonLeaf : /\ DOMAIN hash_ts[n] \subseteq Nat
                        /\ \A t \in DOMAIN hash_ts[n] : hash_ts[n][t] \in Nat \ {0}
  /\ first_pulse \in [NonLeaf -> BOOLEAN]
  /\ data \in [NonLeaf -> metrics_t]
  /\ pulse \in Nat
  /\ monitoring_results \in [size : Nat, written : Nat, gather_info : Info]
  /\ results_available \in BOOLEAN
  /\ root_finished \in BOOLEAN

(***************************************************************************)
(* compute_own_metrics always finds the entry of the timestamp it waits    *)
(* for (it dereferences the result of HASH_FIND unchecked), and the        *)
(* BENCHMARKING build never indexes count_timestamps out of range: however *)
(* far ahead one child is, some event of the current pulse has come.       *)
(***************************************************************************)
LookupSucceeds ==
  \A n \in NonLeaf : stage[n] = "terminal" => ~LookupFails(n, Counted(n))

(***************************************************************************)
(* While an aggregation is open, multi_func waits for exactly the children *)
(* its process has.  It takes the degree from the parent_rank of the event *)
(* that opened it, which is right for a child's event and wrong for the    *)
(* process's own: the own event must never be the first of its pulse.      *)
(***************************************************************************)
DegreeIsOwn ==
  \A n \in NonLeaf :
    IF multi[n].first_found_index = NotFound
    THEN multi[n].count = 0
    ELSE multi[n].current_node_degree = get_degree_node(n)

(***************************************************************************)
(* No event of a finished pulse is left in a multi_stone's queue, and none *)
(* of the current pulse lies before the position where multi_func resumes  *)
(* its scan: either would never be merged.                                 *)
(***************************************************************************)
NothingSkipped ==
  \A n \in NonLeaf : \A i \in DOMAIN multi[n].queue :
    LET m == multi[n]
    IN  /\ m.queue[i].timestamp >= m.pulse_timestamp
        /\ m.queue[i].timestamp = m.pulse_timestamp => i >= m.first_found_index

(***************************************************************************)
(* The two stones of a process count the events of a pulse independently.  *)
(* Between two events they agree on which pulses are complete: the         *)
(* aggregate of a pulse leaves with the process's own event, and no event  *)
(* of the current pulse stays unmerged.                                    *)
(***************************************************************************)
StonesInStep ==
  \A n \in NonLeaf : stage[n] = "idle" =>
    /\ multi[n].pulse_timestamp = counter[n]
    /\ Matches(multi[n], 1) = {}

\* Minimum, maximum and sum of the values of a function.
Reduced(value) == [min |-> Min(Range(value)), max |-> Max(Range(value)),
                   sum |-> FoldFunction(+, 0, value)]

(***************************************************************************)
(* As long as the aliases file has not been edited, each result the root   *)
(* publishes is the minimum, maximum and sum of the metric over all        *)
(* processes: every process counts once in each pulse, whatever the order  *)
(* in which events of different pulses arrive.  (After an edit the events  *)
(* of one pulse may be measured for different lists.)                      *)
(***************************************************************************)
ResultsExact ==
  pulse > 0 /\ ~BENCHMARKING /\ file_changes = 0 /\ file # 0 =>
    monitoring_results.gather_info =
      Reduced([r \in Rank |-> Measured(r, pulse - 1, file)])

(***************************************************************************)
(* final_result is called once per pulse, in order: its static pulse (with *)
(* BENCHMARKING the index into benchmarking_results) is the timestamp of   *)
(* the event, however far ahead of each other the leaves are.              *)
(***************************************************************************)
PulsesInOrder ==
  [][pulse' # pulse => Head(link[ROOT]).timestamp = pulse]_vars

(***************************************************************************)
(* The tree implements Reduction, a process contributing to a pulse when   *)
(* it submits its own event, at an inner process before ++counter: in      *)
(* particular no result is published before every process has sent its     *)
(* event of that pulse.  (The BENCHMARKING build keeps no results.)        *)
(***************************************************************************)
submissions(r) ==
  IF r \in NonLeaf /\ stage[r] = "submitted" THEN counter[r] + 1 ELSE counter[r]

Abstract == INSTANCE Reduction WITH
              Proc <- Rank, Contribution <- Metric, Reduce <- Reduced,
              Nothing <- ZeroEvent.gather_info, list <- file,
              contributed <- [r \in Rank |-> submissions(r)],
              published <- pulse,
              result <- monitoring_results.gather_info

ImplementsReduction == Abstract!Spec

(***************************************************************************)
(* final_result never writes more entries than monitoring_results has.     *)
(***************************************************************************)
ResultsFit == monitoring_results.written <= monitoring_results.size

(***************************************************************************)
(* When the root reports that the run is over, it is: the barrier and the  *)
(* destruction that follow in monitoring_finalize find every leaf out of   *)
(* its loop and no event on its way, queued or still to be handled, even   *)
(* though handlers may still be on their way back from EVsubmit.           *)
(***************************************************************************)
QuietWhenFinished ==
  root_finished =>
    /\ \A l \in Leaf : ~running[l]
    /\ \A r \in Rank : link[r] = <<>>
    /\ \A n \in NonLeaf : multi[n].queue = <<>> /\ stage[n] # "terminal"

(***************************************************************************)
(* The root learns that the run is over, which monitoring_finalize waits   *)
(* for.                                                                    *)
(***************************************************************************)
RootFinishes == <>root_finished

(***************************************************************************)
(* If all leaves happen to stop at the same pulse, the root learns that    *)
(* the run is over.                                                        *)
(***************************************************************************)
AgreedQuitFinishesRoot ==
  (\A l, k \in Leaf : ~running[l] /\ counter[l] = counter[k]) ~> root_finished
=============================================================================
