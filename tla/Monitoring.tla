----------------------------- MODULE Monitoring -----------------------------
(***************************************************************************)
(* The library as the application sees it (evp_monitoring.c): the main     *)
(* threads of all processes beside the threads of Aggregation.  The root's *)
(* calls return_results and monitoring_file_updated any number of times;   *)
(* all main threads call monitoring_finalize, meet in its barrier, free    *)
(* the communicator of the leaves and destroy the aggregator.  A leaf's    *)
(* own thread is detached: once out of its loop it meets the other leaves' *)
(* threads in a barrier on that communicator, and nobody joins it.         *)
(***************************************************************************)
EXTENDS Aggregation

CONSTANT MaxCalls   \* bound: calls of return_results

ASSUME MonitoringAssumption == MaxCalls \in Nat

VARIABLES
  main,          \* per rank: what its main thread is in
  leaf_thread,   \* per leaf: in its loop, in the barrier after it, or ended
  init,          \* static of return_results
  announced,     \* monitoring_file_updated has been called since the last edit
  calls          \* calls of return_results so far

apiVars == <<init, announced, calls>>

allVars == <<vars, main, leaf_thread, apiVars>>

MonitoringInit ==
  /\ Init
  /\ main = [r \in Rank |-> "application"]
  /\ leaf_thread = [l \in Leaf |-> "loop"]
  /\ init = TRUE
  /\ announced = TRUE
  /\ calls = 0

Goes(r, from, to) == /\ main[r] = from
                     /\ main' = [main EXCEPT ![r] = to]

\* Everything of Aggregation but results_available.
restVars == <<fileVars, leafVars, counter, total_metrics, link, multi, stage,
              inbox, ownVars, pulse, monitoring_results, root_finished>>
-----------------------------------------------------------------------------
(***************************************************************************)
(* The root's application.  As the header asks, it announces each edit of  *)
(* the aliases file by monitoring_file_updated before it does anything     *)
(* else.                                                                   *)
(***************************************************************************)
Edit == /\ main[ROOT] = "application"
        /\ announced
        /\ EditFile
        /\ announced' = FALSE
        /\ UNCHANGED <<main, leaf_thread, init, calls>>

CallReturnResults ==
  /\ ~BENCHMARKING
  /\ announced
  /\ calls < MaxCalls
  /\ calls' = calls + 1
  /\ Goes(ROOT, "application", "return_results")
  /\ UNCHANGED <<vars, leaf_thread, init, announced>>

CallFileUpdated ==
  /\ ~BENCHMARKING
  /\ ~announced
  /\ announced' = TRUE
  /\ Goes(ROOT, "application", "monitoring_file_updated")
  /\ UNCHANGED <<vars, leaf_thread, init, calls>>

\* Mutant of Available: monitoring_file_updated does not wait.
AvailableAlways == TRUE

Available == results_available

\* Mutant of Readable: every call waits, as if init were never cleared.
ReadableEachTime == results_available

\* The copy is made under results_lock, which final_result holds as well.
Readable == init => results_available

return_results ==
  /\ Readable
  /\ Goes(ROOT, "return_results", "application")
  /\ results_available' = (results_available /\ ~init)
  /\ init' = FALSE
  /\ UNCHANGED <<restVars, leaf_thread, announced, calls>>

monitoring_file_updated ==
  /\ Available
  /\ Goes(ROOT, "monitoring_file_updated", "application")
  /\ results_available' = FALSE
  /\ UNCHANGED <<restVars, leaf_thread, apiVars>>
-----------------------------------------------------------------------------
(***************************************************************************)
(* monitoring_finalize: up to the barrier (the leaf's flag; the root's     *)
(* wait for root_finished), the barrier with the MPI_Comm_free after it,   *)
(* and destroy_metrics_aggregator.                                         *)
(***************************************************************************)
\* Mutant of RootMayEnter: the root does not wait.
RootMayEnterAtOnce == TRUE

RootMayEnter == root_finished

EnterBarrier(r) ==
  /\ Goes(r, "application", "barrier")
  /\ r = ROOT => announced /\ RootMayEnter
  /\ IF r \in Leaf /\ ~BENCHMARKING THEN monitoring_finalize_leaf(r)
                                    ELSE UNCHANGED vars
  /\ UNCHANGED <<leaf_thread, apiVars>>

\* Mutant of AllArrived: the root does not take part.
AllButRootArrived ==
  \A r \in Rank \ {ROOT} : main[r] \in {"barrier", "freed", "destroyed"}

AllArrived == \A r \in Rank : main[r] \in {"barrier", "freed", "destroyed"}

MPI_Comm_free(r) == /\ AllArrived
                    /\ Goes(r, "barrier", "freed")
                    /\ UNCHANGED <<vars, leaf_thread, apiVars>>

(***************************************************************************)
(* The stones, the results, hash_ts and the names of the metrics go: what  *)
(* the model keeps of them from then on is freed memory.  The main thread  *)
(* uses none of it any more, and a destroyed stone takes no event; but no  *)
(* one waits for a handler that is under way (Serves).                     *)
(***************************************************************************)
destroy_metrics_aggregator(r) == /\ Goes(r, "freed", "destroyed")
                                 /\ UNCHANGED <<vars, leaf_thread, apiVars>>

main_thread(r) ==
  \/ EnterBarrier(r)
  \/ MPI_Comm_free(r)
  \/ destroy_metrics_aggregator(r)
  \/ /\ r = ROOT
     /\ \/ Edit \/ CallReturnResults \/ CallFileUpdated
        \/ return_results \/ monitoring_file_updated
-----------------------------------------------------------------------------
(***************************************************************************)
(* The other threads.  A leaf's thread sleeps once more after its last     *)
(* event, then it uses comm_leafs.                                         *)
(***************************************************************************)
LeafBarrier(l) ==
  /\ \/ /\ leaf_thread[l] = "loop"
        /\ ~running[l]
        /\ leaf_thread' = [leaf_thread EXCEPT ![l] = "barrier"]
     \/ /\ leaf_thread[l] = "barrier"
        /\ \A k \in Leaf : leaf_thread[k] # "loop"
        /\ leaf_thread' = [leaf_thread EXCEPT ![l] = "ended"]
  /\ UNCHANGED <<vars, main, apiVars>>

Background(A) == A /\ UNCHANGED <<main, leaf_thread, apiVars>>

LeafThread(l) == Background(start_communication(l)) \/ LeafBarrier(l)

\* A destroyed stone takes no event; a handler that is under way goes on.
Serves(n) == main[n] = "destroyed" => stage[n] # "idle"

EVPathThread(n) == Serves(n) /\ Background(comm_thread(n))

MonitoringNext ==
  \/ \E r \in Rank : main_thread(r)
  \/ \E l \in Leaf : LeafThread(l)
  \/ \E n \in NonLeaf : EVPathThread(n)

MonitoringSpec == MonitoringInit /\ [][MonitoringNext]_allVars

(***************************************************************************)
(* Some thread runs as long as one can.  Fairness to each thread implies   *)
(* this, and since every loop here is bounded it is enough: the            *)
(* application makes finitely many calls and comes to monitoring_finalize. *)
(***************************************************************************)
MonitoringFairness == WF_allVars(MonitoringNext)

FairMonitoringSpec == MonitoringSpec /\ MonitoringFairness
-----------------------------------------------------------------------------
MonitoringTypeOK ==
  /\ TypeOK
  /\ main \in [Rank -> {"application", "return_results",
                        "monitoring_file_updated", "barrier", "freed",
                        "destroyed"}]
  /\ leaf_thread \in [Leaf -> {"loop", "barrier", "ended"}]
  /\ init \in BOOLEAN
  /\ announced \in BOOLEAN
  /\ calls \in 0 .. MaxCalls

(***************************************************************************)
(* The stones that monitoring_finalize destroys are no longer needed: the  *)
(* leaf has left its loop, an inner process has had every event of its     *)
(* children and submitted its own, and what either submitted has left      *)
(* through its bridge_stone.  A handler that is still on its way back from *)
(* EVsubmit returns without another look at the metrics.                   *)
(***************************************************************************)
DestroyedIsUnused ==
  \A r \in Rank : main[r] = "destroyed" =>
    /\ link[r] = <<>>
    /\ IF r \in Leaf
       THEN ~running[r]
       ELSE /\ multi[r].queue = <<>>
            /\ \A c \in children(r) : link[c] = <<>>
            /\ stage[r] # "terminal"
            /\ stage[r] = "submitted" => LastForNode(data[r], inbox[r])

(***************************************************************************)
(* "Wait for all the nodes to finish" is what monitoring_finalize says of  *)
(* the barrier before it frees comm_leafs and empties hash_ts.  Other      *)
(* threads use these to their end: a leaf's thread enters a barrier on the *)
(* communicator, the handler of the last pulse deletes and frees an entry  *)
(* of the table.  When all calls have returned these should have finished. *)
(***************************************************************************)
FinalizeWaits ==
  (\A r \in Rank : main[r] = "destroyed") =>
    /\ \A l \in Leaf : leaf_thread[l] # "loop"
    /\ \A n \in NonLeaf : stage[n] = "idle"

(***************************************************************************)
(* monitoring_finalize returns in every process.                           *)
(***************************************************************************)
AllFinalize == <>(\A r \in Rank : main[r] = "destroyed")

(***************************************************************************)
(* The calls that may block, return_results and monitoring_file_updated,   *)
(* are all that can keep monitoring_finalize from returning everywhere,    *)
(* whenever the file is edited and whatever the order of the calls.        *)
(***************************************************************************)
OnlyCallsBlock ==
  <>[](main[ROOT] \in {"return_results", "monitoring_file_updated"}) \/ AllFinalize

(***************************************************************************)
(* return_results returns, the first call when results are there and any   *)
(* other at once -- if the first is made before the file is edited: after  *)
(* that monitoring_file_updated may have consumed results_available.       *)
(***************************************************************************)
ReturnResultsReturns ==
  (main[ROOT] = "return_results" /\ (file_changes = 0 \/ ~init))
    ~> main[ROOT] # "return_results"

Copies == main[ROOT] = "return_results" /\ Readable

(***************************************************************************)
(* return_results reads total_metrics entries, changed without the lock by *)
(* compute_own_metrics, of monitoring_results, resized by final_result:    *)
(* the array has them.                                                     *)
(***************************************************************************)
ReadsFit == Copies => total_metrics[ROOT] <= monitoring_results.size

(***************************************************************************)
(* What return_results copies has the number of metrics of the file as     *)
(* monitoring_file_updated has announced it: results_available, which both *)
(* functions consume and final_result sets, never lets an older one pass.  *)
(***************************************************************************)
ReturnsUpdated == Copies => monitoring_results.written = file
=============================================================================
