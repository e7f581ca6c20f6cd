-------------------------- MODULE BootstrapProofs ---------------------------
(***************************************************************************)
(* The application's use of the library, and the library's life from       *)
(* monitoring_initialize on.  What is proved of the aggregation holds when *)
(* the application calls beside it: every step of Monitoring is one of     *)
(* Aggregation or a stutter, but for the two calls that consume            *)
(* results_available, which no invariant of the pulses depends on.  The    *)
(* whole life is one of Monitoring, and an event on its way finds its      *)
(* parent set up.                                                          *)
(***************************************************************************)
EXTENDS Bootstrap, EventProofs

\* return_results and monitoring_file_updated, for the aggregation.
Consumed == UNCHANGED restVars /\ results_available' \in BOOLEAN

\* Every step is one of Aggregation, a stutter, or consumes results.
LEMMA MonitoringStep == [MonitoringNext]_allVars => [Next]_vars \/ Consumed
<1> SUFFICES ASSUME [MonitoringNext]_allVars PROVE [Next]_vars \/ Consumed
  OBVIOUS
<1>1. ASSUME NEW r \in Rank, main_thread(r) PROVE [Next]_vars \/ Consumed
  <2>1. CASE EnterBarrier(r)
    BY <1>1, <2>1 DEF EnterBarrier, Next
  <2>2. CASE MPI_Comm_free(r)  BY <2>2 DEF MPI_Comm_free
  <2>3. CASE destroy_metrics_aggregator(r)
    BY <2>3 DEF destroy_metrics_aggregator
  <2>4. CASE Edit  BY <2>4 DEF Edit, Next
  <2>5. CASE CallReturnResults  BY <2>5 DEF CallReturnResults
  <2>6. CASE CallFileUpdated  BY <2>6 DEF CallFileUpdated
  <2>7. CASE return_results  BY <2>7 DEF return_results, Consumed
  <2>8. CASE monitoring_file_updated
    BY <2>8 DEF monitoring_file_updated, Consumed
  <2> QED BY <1>1, <2>1, <2>2, <2>3, <2>4, <2>5, <2>6, <2>7, <2>8
          DEF main_thread
<1>2. ASSUME NEW l \in Leaf, LeafThread(l) PROVE [Next]_vars
  BY <1>2 DEF LeafThread, LeafBarrier, Background, Next
<1>3. ASSUME NEW n \in NonLeaf, EVPathThread(n) PROVE [Next]_vars
  BY <1>3 DEF EVPathThread, Background, Next
<1>4. CASE UNCHANGED allVars  BY <1>4 DEF allVars
<1> QED BY <1>1, <1>2, <1>3, <1>4 DEF MonitoringNext
-----------------------------------------------------------------------------
\* Consuming results keeps the types.
LEMMA ConsumedType == TypeOK /\ Consumed => TypeOK'
BY DEF TypeOK, Consumed, restVars, fileVars, leafVars, ownVars

\* The initial states are typed and satisfy PulseInv.
LEMMA MonitoringInitOK == MonitoringInit => MonitoringTypeOK /\ PulseInv
<1> SUFFICES ASSUME MonitoringInit PROVE MonitoringTypeOK /\ PulseInv
  OBVIOUS
<1>1. TypeOK /\ PulseInv  BY InitTypeOK, InitPulseInv DEF MonitoringInit
<1> QED BY <1>1, MonitoringAssumption DEF MonitoringInit, MonitoringTypeOK

\* Of the threads of Aggregation none touches the application's variables.
LEMMA MonitoringTypeKept ==
  MonitoringTypeOK /\ [MonitoringNext]_allVars => MonitoringTypeOK'
<1> SUFFICES ASSUME MonitoringTypeOK, [MonitoringNext]_allVars
             PROVE  MonitoringTypeOK'
  OBVIOUS
<1> DEFINE Places == {"application", "return_results",
                      "monitoring_file_updated", "barrier", "freed",
                      "destroyed"}
           Mine == /\ main' \in [Rank -> Places]
                   /\ leaf_thread' \in [Leaf -> {"loop", "barrier", "ended"}]
                   /\ init' \in BOOLEAN
                   /\ announced' \in BOOLEAN
                   /\ calls' \in 0 .. MaxCalls
<1>1. TypeOK'  BY MonitoringStep, ConsumedType, TypeKept DEF MonitoringTypeOK
<1>2. /\ main \in [Rank -> Places]
      /\ leaf_thread \in [Leaf -> {"loop", "barrier", "ended"}]
      /\ init \in BOOLEAN /\ announced \in BOOLEAN /\ calls \in 0 .. MaxCalls
  BY DEF MonitoringTypeOK
<1>3. ASSUME NEW r \in Rank, main_thread(r) PROVE Mine
  <2>1. CASE EnterBarrier(r)
    BY <1>2, <2>1 DEF EnterBarrier, Goes, apiVars
  <2>2. CASE MPI_Comm_free(r)
    BY <1>2, <2>2 DEF MPI_Comm_free, Goes, apiVars
  <2>3. CASE destroy_metrics_aggregator(r)
    BY <1>2, <2>3 DEF destroy_metrics_aggregator, Goes, apiVars
  <2>4. CASE Edit  BY <1>2, <2>4 DEF Edit
  <2>5. CASE CallReturnResults
    <3>1. calls' \in 0 .. MaxCalls
      BY <1>2, <2>5, MonitoringAssumption DEF CallReturnResults
    <3> QED BY <1>2, <2>5, <3>1 DEF CallReturnResults, Goes
  <2>6. CASE CallFileUpdated  BY <1>2, <2>6 DEF CallFileUpdated, Goes
  <2>7. CASE return_results  BY <1>2, <2>7 DEF return_results, Goes
  <2>8. CASE monitoring_file_updated
    BY <1>2, <2>8 DEF monitoring_file_updated, Goes, apiVars
  <2> QED BY <1>3, <2>1, <2>2, <2>3, <2>4, <2>5, <2>6, <2>7, <2>8
          DEF main_thread
<1>4. ASSUME NEW l \in Leaf, LeafThread(l) PROVE Mine
  BY <1>2, <1>4 DEF LeafThread, LeafBarrier, Background, apiVars
<1>5. ASSUME NEW n \in NonLeaf, EVPathThread(n) PROVE Mine
  BY <1>2, <1>5 DEF EVPathThread, Background, apiVars
<1>6. ASSUME UNCHANGED allVars PROVE Mine
  BY <1>2, <1>6 DEF allVars, apiVars
<1>7. Mine  BY <1>3, <1>4, <1>5, <1>6 DEF MonitoringNext
<1> QED BY <1>1, <1>7 DEF MonitoringTypeOK

(***************************************************************************)
(* The variables of the application and of the library keep their types,   *)
(* in whatever order the application makes its calls.                      *)
(***************************************************************************)
THEOREM MonitoringTypeCorrect == MonitoringSpec => []MonitoringTypeOK
BY MonitoringInitOK, MonitoringTypeKept, PTL DEF MonitoringSpec
-----------------------------------------------------------------------------
\* PulseInv is inductive under the application's calls too.
LEMMA MonitoringPulseKept == PulseInv /\ [MonitoringNext]_allVars => PulseInv'
<1> SUFFICES ASSUME PulseInv, [MonitoringNext]_allVars PROVE PulseInv'
  OBVIOUS
<1>1. CASE [Next]_vars  BY <1>1, PulseInvKept
<1>2. CASE Consumed
  <2>1. TypeOK'  BY <1>2, ConsumedType DEF PulseInv
  <2> QED BY <1>2, <2>1, UnchangedInv DEF Consumed, restVars, leafVars
<1> QED BY <1>1, <1>2, MonitoringStep

(***************************************************************************)
(* compute_own_metrics never misses the entry it waits for, whatever the   *)
(* application calls and whenever its main threads finalize.               *)
(***************************************************************************)
THEOREM MonitoringLookupCorrect == MonitoringSpec => []LookupSucceeds
BY MonitoringInitOK, MonitoringPulseKept, LookupFound, PTL DEF MonitoringSpec
-----------------------------------------------------------------------------
\* MergeInv is inductive under the application's calls too.
LEMMA MonitoringMergeKept == MergeInv /\ [MonitoringNext]_allVars => MergeInv'
<1> SUFFICES ASSUME MergeInv, [MonitoringNext]_allVars PROVE MergeInv'
  OBVIOUS
<1>1. CASE [Next]_vars  BY <1>1, MergeInvKept
<1>2. CASE Consumed
  <2>1. TypeOK'  BY <1>2, ConsumedType DEF MergeInv, PulseInv
  <2>2. Unedited' => Unedited /\ file' = file
    BY <1>2, FilePersists DEF Consumed, restVars
  <2> QED BY <1>2, <2>1, <2>2, UnchangedMerge DEF Consumed, restVars, leafVars
<1> QED BY <1>1, <1>2, MonitoringStep

\* So is QuietInv.
LEMMA MonitoringQuietKept ==
  ASSUME Calm, MergeInv, QuietInv, [MonitoringNext]_allVars
  PROVE  QuietInv'
<1>1. CASE [Next]_vars  BY <1>1, QuietInvKept
<1>2. CASE Consumed
  <2>1. TypeOK /\ TypeOK'  BY <1>2, ConsumedType DEF MergeInv, PulseInv
  <2> QED BY <1>2, <2>1, UnchangedQuiet DEF Consumed, restVars, leafVars
<1> QED BY <1>1, <1>2, MonitoringStep

(***************************************************************************)
(* When the root reports that the run is over it is, whatever the          *)
(* application calls, under the conditions of QuietCorrect.                *)
(***************************************************************************)
THEOREM MonitoringQuietCorrect ==
  ASSUME Calm
  PROVE  MonitoringSpec => []QuietWhenFinished
<1>1. MonitoringInit => MergeInv /\ QuietInv
  BY InitMergeInv, InitQuiet DEF MonitoringInit
<1>2. /\ MergeInv /\ QuietInv /\ [MonitoringNext]_allVars
      => (MergeInv /\ QuietInv)'
  BY MonitoringMergeKept, MonitoringQuietKept
<1>3. MergeInv /\ QuietInv => QuietWhenFinished  BY QuietAtEnd
<1> QED BY <1>1, <1>2, <1>3, PTL DEF MonitoringSpec
-----------------------------------------------------------------------------
(***************************************************************************)
(* The main threads in monitoring_finalize: none is past the barrier       *)
(* before all have come to it, and the root comes when the run is over.    *)
(***************************************************************************)
InFinalize == {"barrier", "freed", "destroyed"}

FinalizeInv ==
  /\ (\E r \in Rank : main[r] \in {"freed", "destroyed"}) => AllArrived
  /\ main[ROOT] \in InFinalize => root_finished

\* The root does not take back that the run is over.
LEMMA FinishedStays ==
  [MonitoringNext]_allVars /\ root_finished => root_finished'
<1> SUFFICES ASSUME [Next]_vars, root_finished PROVE root_finished'
  BY MonitoringStep DEF Consumed, restVars
<1>1. CASE final_result  BY <1>1 DEF final_result
<1>2. CASE UNCHANGED rootVars  BY <1>2 DEF rootVars
<1>3. CASE EditFile  BY <1>2, <1>3 DEF EditFile
<1>4. ASSUME NEW l \in Leaf,
             monitoring_finalize_leaf(l) \/ start_communication(l)
      PROVE  root_finished'
  BY <1>2, <1>4 DEF monitoring_finalize_leaf, start_communication, SendEvent
<1>5. ASSUME NEW n \in NonLeaf, comm_thread(n) PROVE root_finished'
  BY <1>1, <1>2, <1>5
     DEF comm_thread, Arrive, compute_own_metrics, FinishPulse
<1>6. CASE UNCHANGED vars  BY <1>2, <1>6 DEF vars, rootVars
<1> QED BY <1>3, <1>4, <1>5, <1>6 DEF Next

\* A main thread that goes from one place to another.
LEMMA GoesInv ==
  ASSUME MonitoringTypeOK, FinalizeInv, root_finished => root_finished',
         NEW r \in Rank, NEW from, NEW to, Goes(r, from, to),
         to \in {"freed", "destroyed"} =>
           AllArrived /\ from \in {"barrier", "freed"},
         to \in InFinalize \/ from \notin InFinalize,
         r = ROOT /\ to = "barrier" => root_finished'
  PROVE  FinalizeInv'
<1>1. /\ main[r] = from /\ main'[r] = to
      /\ \A x \in Rank : x # r => main'[x] = main[x]
  BY DEF Goes, MonitoringTypeOK
<1>2. AllArrived => AllArrived'
  <2>1. AllArrived => to \in InFinalize
    BY <1>1 DEF AllArrived, InFinalize
  <2> QED BY <1>1, <2>1 DEF AllArrived, InFinalize
<1>3. ASSUME NEW x \in Rank, main'[x] \in {"freed", "destroyed"}
      PROVE  AllArrived'
  <2>1. CASE x = r  BY <1>1, <1>2, <1>3, <2>1
  <2>2. CASE x # r  BY <1>1, <1>2, <1>3, <2>2 DEF FinalizeInv
  <2> QED BY <2>1, <2>2
<1>4. ASSUME main'[ROOT] \in InFinalize PROVE root_finished'
  <2>1. CASE r # ROOT
    BY <1>1, <1>4, <2>1, RankType DEF FinalizeInv
  <2>2. CASE r = ROOT
    BY <1>1, <1>4, <2>2, RankType DEF FinalizeInv, InFinalize
  <2> QED BY <2>1, <2>2
<1> QED BY <1>3, <1>4 DEF FinalizeInv

\* FinalizeInv is inductive.
LEMMA FinalizeKept ==
  ASSUME MonitoringTypeOK, FinalizeInv, [MonitoringNext]_allVars
  PROVE  FinalizeInv'
<1>1. root_finished => root_finished'  BY FinishedStays
<1>2. main' = main => FinalizeInv'
  BY <1>1 DEF FinalizeInv, AllArrived
<1>3. ASSUME NEW r \in Rank, main_thread(r) PROVE FinalizeInv'
  <2>1. CASE EnterBarrier(r)
    <3>1. r = ROOT => root_finished'
      BY <1>1, <2>1 DEF EnterBarrier, RootMayEnter
    <3> QED BY <1>1, <2>1, <3>1, GoesInv DEF EnterBarrier, InFinalize
  <2>2. CASE MPI_Comm_free(r)
    BY <1>1, <2>2, GoesInv DEF MPI_Comm_free, InFinalize
  <2>3. CASE destroy_metrics_aggregator(r)
    <3>1. AllArrived
      BY <2>3 DEF FinalizeInv, destroy_metrics_aggregator, Goes
    <3> QED BY <1>1, <2>3, <3>1, GoesInv
            DEF destroy_metrics_aggregator, InFinalize
  <2>4. CASE Edit  BY <1>2, <2>4 DEF Edit
  <2>5. CASE CallReturnResults
    BY <1>1, <2>5, RankType, GoesInv DEF CallReturnResults, InFinalize
  <2>6. CASE CallFileUpdated
    BY <1>1, <2>6, RankType, GoesInv DEF CallFileUpdated, InFinalize
  <2>7. CASE return_results
    BY <1>1, <2>7, RankType, GoesInv DEF return_results, InFinalize
  <2>8. CASE monitoring_file_updated
    BY <1>1, <2>8, RankType, GoesInv DEF monitoring_file_updated, InFinalize
  <2> QED BY <1>3, <2>1, <2>2, <2>3, <2>4, <2>5, <2>6, <2>7, <2>8
          DEF main_thread
<1>4. ASSUME NEW l \in Leaf, LeafThread(l) PROVE FinalizeInv'
  BY <1>2, <1>4 DEF LeafThread, LeafBarrier, Background
<1>5. ASSUME NEW n \in NonLeaf, EVPathThread(n) PROVE FinalizeInv'
  BY <1>2, <1>5 DEF EVPathThread, Background
<1>6. CASE UNCHANGED allVars  BY <1>2, <1>6 DEF allVars
<1> QED BY <1>3, <1>4, <1>5, <1>6 DEF MonitoringNext

\* A handler that is still under way when the root has finished is that of
\* the last pulse: it prepares no further event.
LEMMA LastAtEnd ==
  ASSUME Calm, MergeInv, QuietInv, root_finished,
         NEW n \in NonLeaf, stage[n] = "submitted"
  PROVE  LastForNode(data[n], inbox[n])
<1>1. /\ PulseInv /\ TypeOK /\ Over(pulse - 1)
      /\ pulse \in Nat /\ counter[n] \in Nat
  BY LeafRank DEF MergeInv, PulseInv, TypeOK, QuietInv
<1>2. counter[n] + 1 >= pulse
  <2>1. submissions(n) >= pulse  BY LeafRank, AllReachRoot
  <2> QED BY <2>1 DEF submissions
<1>3. /\ inbox[n] \in Spoken /\ inbox[n].timestamp = counter[n]
      /\ ~first_pulse[n]
  BY <1>1 DEF QuietInv, NodeSpeaks, MergeInv, Tidy, Prompts, PulseInv,
              ProcessInv, OwnInv
<1>4. CASE BENCHMARKING
  <2>1. pulse - 1 = max_timestamps - 1  BY <1>1, <1>4 DEF Over
  <2>2. counter[n] < max_timestamps /\ data[n].timestamp = counter[n]
    BY <1>1, <1>3, <1>4 DEF PulseInv, ProcessInv, OwnInv
  <2>3. data[n].timestamp = max_timestamps - 1
    BY <1>1, <1>2, <2>1, <2>2, AggregationAssumption
  <2> QED BY <1>4, <2>3 DEF LastForNode
<1>5. CASE ~BENCHMARKING
  <2>1. PICK l \in Leaf : counter[n] < counter[l]
    BY <1>3, <1>5 DEF Spoken, Speaks, Reached
  <2>2. \A k \in Leaf : k = l  BY <1>5 DEF Calm
  <2>3. counter[l] = (pulse - 1) + 1  BY <1>1, <1>5, <2>2 DEF Over
  <2>4. counter[n] = pulse - 1  BY <1>1, <1>2, <2>1, <2>3
  <2>5. Over(inbox[n].timestamp)  BY <1>1, <1>3, <2>4
  <2>6. inbox[n].quit  BY <1>3, <2>5 DEF Spoken, Speaks
  <2> QED BY <1>5, <2>6 DEF LastForNode
<1> QED BY <1>4, <1>5

\* What is destroyed is quiet when the whole run is.
LEMMA UnusedAtEnd ==
  Calm /\ FinalizeInv /\ MergeInv /\ QuietInv => DestroyedIsUnused
<1> SUFFICES ASSUME Calm, FinalizeInv, MergeInv, QuietInv,
                    NEW r \in Rank, main[r] = "destroyed"
             PROVE  /\ link[r] = <<>>
                    /\ IF r \in Leaf
                       THEN ~running[r]
                       ELSE /\ multi[r].queue = <<>>
                            /\ \A c \in children(r) : link[c] = <<>>
                            /\ stage[r] # "terminal"
                            /\ stage[r] = "submitted" =>
                                 LastForNode(data[r], inbox[r])
  BY DEF DestroyedIsUnused
<1>1. root_finished
  BY RankType DEF FinalizeInv, AllArrived, InFinalize
<1>2. QuietWhenFinished  BY QuietAtEnd
<1>3. r \notin Leaf => r \in NonLeaf  BY DEF NonLeaf
<1> QED BY <1>1, <1>2, <1>3, ChildRank, LastAtEnd DEF QuietWhenFinished

(***************************************************************************)
(* What destroy_metrics_aggregator destroys is no longer needed, under the *)
(* conditions of QuietCorrect: nothing tells a process that its peers are  *)
(* done but the barrier in which the root waits for the end.  (The entry   *)
(* of hash_ts that the handler of the last pulse has still to delete is    *)
(* another matter: see FinalizeWaits.)                                     *)
(***************************************************************************)
THEOREM DestroyedCorrect ==
  ASSUME Calm
  PROVE  MonitoringSpec => []DestroyedIsUnused
<1> DEFINE Inv == /\ MonitoringTypeOK /\ FinalizeInv
                  /\ MergeInv /\ QuietInv
<1>1. MonitoringInit => Inv
  <2>1. ASSUME MonitoringInit PROVE FinalizeInv
    BY <2>1, RankType DEF MonitoringInit, FinalizeInv, InFinalize
  <2>2. ASSUME MonitoringInit PROVE MergeInv /\ QuietInv
    BY <2>2, InitMergeInv, InitQuiet DEF MonitoringInit
  <2> QED BY <2>1, <2>2, MonitoringInitOK
<1>2. Inv /\ [MonitoringNext]_allVars => Inv'
  BY MonitoringTypeKept, FinalizeKept, MonitoringMergeKept,
     MonitoringQuietKept
<1>3. Inv => DestroyedIsUnused  BY UnusedAtEnd
<1> QED BY <1>1, <1>2, <1>3, PTL DEF MonitoringSpec
-----------------------------------------------------------------------------
(***************************************************************************)
(* results_available in a chain.  Each edit that the application has       *)
(* announced, and the first return_results, has consumed results that were *)
(* allocated for a change of their own, or for the first pulse.            *)
(***************************************************************************)
Unannounced == IF announced THEN 0 ELSE 1

Updating == IF main[ROOT] = "monitoring_file_updated" THEN 1 ELSE 0

Copied == IF init THEN 0 ELSE 1

Unconsumed == IF results_available THEN 1 ELSE 0

ReturnsInv(h) ==
  /\ file_changes + Copied + Unconsumed <= Noted(h, pulse) + Unannounced + Updating
  /\ main[ROOT] = "return_results" => announced /\ ~BENCHMARKING

\* They are 0 or 1.
LEMMA CountsType ==
  /\ Unannounced \in {0, 1} /\ Updating \in {0, 1}
  /\ Copied \in {0, 1} /\ Unconsumed \in {0, 1}
BY DEF Unannounced, Updating, Copied, Unconsumed

\* A step that neither calls nor returns.
LEMMA SameReturns ==
  ASSUME NEW h, ReturnsInv(h),
         UNCHANGED <<file_changes, results_available, pulse, apiVars>>,
         \/ main'[ROOT] = main[ROOT]
         \/ /\ main[ROOT] # "monitoring_file_updated"
            /\ main'[ROOT] \in InFinalize
  PROVE  ReturnsInv(h)'
<1>1. /\ Unannounced' = Unannounced /\ Copied' = Copied /\ Unconsumed' = Unconsumed
      /\ announced' = announced
  BY DEF apiVars, Unannounced, Copied, Unconsumed
<1>2. /\ Updating' = Updating
      /\ main'[ROOT] = "return_results" => main[ROOT] = "return_results"
  BY DEF Updating, InFinalize
<1>3. Noted(h, pulse)' = Noted(h, pulse)
  <2>1. PICK p : p = pulse  OBVIOUS
  <2>2. pulse' = p  BY <2>1
  <2> QED BY <2>1, <2>2
<1> QED BY <1>1, <1>2, <1>3 DEF ReturnsInv

\* The calls of the root's application.
LEMMA CallReturns ==
  ASSUME MonitoringTypeOK, NEW h, ReturnsInv(h),
         \/ Edit \/ CallReturnResults \/ CallFileUpdated
         \/ return_results \/ monitoring_file_updated
  PROVE  ReturnsInv(h)'
<1>1. /\ file_changes \in Nat /\ main \in [Rank -> {main[r] : r \in Rank}]
      /\ ROOT \in Rank /\ pulse \in Nat
      /\ init \in BOOLEAN /\ announced \in BOOLEAN
      /\ results_available \in BOOLEAN
  BY RankType DEF MonitoringTypeOK, TypeOK
<1>2. PICK p \in Nat : p = pulse  BY <1>1
<1>3. PICK N \in Nat : N = Noted(h, p)  BY NotedType
<1>4. file_changes + Copied + Unconsumed <= N + Unannounced + Updating
  BY <1>2, <1>3 DEF ReturnsInv
<1>5. ASSUME pulse' = p,
             file_changes' + Copied' + Unconsumed' <= N + Unannounced' + Updating',
             main'[ROOT] = "return_results" => announced' /\ ~BENCHMARKING
      PROVE  ReturnsInv(h)'
  BY <1>3, <1>5 DEF ReturnsInv
<1>6. CASE Edit
  <2>1. /\ announced /\ ~announced' /\ file_changes' = file_changes + 1
        /\ main[ROOT] = "application"
        /\ UNCHANGED <<main, init, results_available, pulse>>
    BY <1>6 DEF Edit, EditFile, rootVars
  <2>2. /\ Unannounced = 0 /\ Unannounced' = 1 /\ Copied' = Copied
        /\ Unconsumed' = Unconsumed /\ Updating' = Updating
    BY <2>1 DEF Unannounced, Copied, Unconsumed, Updating
  <2>3. file_changes' + Copied' + Unconsumed' <= N + Unannounced' + Updating'
    BY <1>1, <1>4, <2>1, <2>2, CountsType
  <2> QED BY <1>2, <1>5, <2>1, <2>3
<1>7. CASE CallReturnResults
  <2>1. /\ announced /\ ~BENCHMARKING /\ main[ROOT] = "application"
        /\ main'[ROOT] = "return_results"
        /\ UNCHANGED <<announced, init, results_available, pulse, file_changes>>
    BY <1>1, <1>7 DEF CallReturnResults, Goes, vars
  <2>2. /\ Unannounced' = Unannounced /\ Copied' = Copied
        /\ Unconsumed' = Unconsumed /\ Updating' = Updating
    BY <2>1 DEF Unannounced, Copied, Unconsumed, Updating
  <2>3. file_changes' + Copied' + Unconsumed' <= N + Unannounced' + Updating'
    BY <1>4, <2>1, <2>2
  <2> QED BY <1>2, <1>5, <2>1, <2>3
<1>8. CASE CallFileUpdated
  <2>1. /\ ~announced /\ announced' /\ main[ROOT] = "application"
        /\ main'[ROOT] = "monitoring_file_updated"
        /\ UNCHANGED <<init, results_available, pulse, file_changes>>
    BY <1>1, <1>8 DEF CallFileUpdated, Goes, vars
  <2>2. /\ Unannounced = 1 /\ Unannounced' = 0 /\ Updating = 0 /\ Updating' = 1
        /\ Copied' = Copied /\ Unconsumed' = Unconsumed
    BY <2>1 DEF Unannounced, Copied, Unconsumed, Updating
  <2>3. file_changes' + Copied' + Unconsumed' <= N + Unannounced' + Updating'
    BY <1>4, <2>1, <2>2
  <2> QED BY <1>2, <1>5, <2>1, <2>3
<1>9. CASE return_results
  <2>1. /\ main[ROOT] = "return_results" /\ main'[ROOT] = "application"
        /\ init => results_available
        /\ results_available' = (results_available /\ ~init) /\ ~init'
        /\ UNCHANGED <<announced, pulse, file_changes>>
    BY <1>1, <1>9 DEF return_results, Readable, Goes, restVars, fileVars
  <2>2. Unannounced' = Unannounced /\ Updating' = Updating
    BY <2>1 DEF Unannounced, Updating
  <2>3. Copied' + Unconsumed' = Copied + Unconsumed
    <3>1. CASE init
      <4>1. Copied = 0 /\ Copied' = 1 /\ Unconsumed = 1 /\ Unconsumed' = 0
        BY <2>1, <3>1 DEF Copied, Unconsumed
      <4> QED BY <4>1
    <3>2. CASE ~init
      <4>1. Copied = 1 /\ Copied' = 1 /\ Unconsumed' = Unconsumed
        BY <2>1, <3>2 DEF Copied, Unconsumed
      <4> QED BY <4>1
    <3> QED BY <3>1, <3>2
  <2>4. /\ Copied \in Nat /\ Unconsumed \in Nat /\ Copied' \in Nat
        /\ Unconsumed' \in Nat
    BY DEF Copied, Unconsumed
  <2>5. file_changes' + Copied' + Unconsumed' <= N + Unannounced' + Updating'
    BY <1>1, <1>4, <2>1, <2>2, <2>3, <2>4
  <2> QED BY <1>2, <1>5, <2>1, <2>5
<1>10. CASE monitoring_file_updated
  <2>1. /\ main[ROOT] = "monitoring_file_updated"
        /\ main'[ROOT] = "application"
        /\ results_available /\ ~results_available'
        /\ UNCHANGED <<announced, init, pulse, file_changes>>
    BY <1>1, <1>10
       DEF monitoring_file_updated, Available, Goes, restVars, fileVars, apiVars
  <2>2. /\ Unannounced' = Unannounced /\ Copied' = Copied
        /\ Updating = 1 /\ Updating' = 0 /\ Unconsumed = 1 /\ Unconsumed' = 0
    BY <2>1 DEF Unannounced, Copied, Unconsumed, Updating
  <2>3. Copied \in Nat /\ Unannounced \in Nat  BY CountsType
  <2>4. file_changes' + Copied' + Unconsumed' <= N + Unannounced' + Updating'
    BY <1>1, <1>4, <2>1, <2>2, <2>3
  <2> QED BY <1>2, <1>5, <2>1, <2>4
<1> QED BY <1>6, <1>7, <1>8, <1>9, <1>10

\* Results become available with a change, and with the first pulse.
LEMMA ResultReturns ==
  ASSUME MergeInv, TypeOK',
         NEW h \in [Nat -> Nat], NEW k \in Nat,
         NumbersInv(h, k), ReturnsInv(h), final_result,
         UNCHANGED <<main, apiVars>>
  PROVE  ReturnsInv(h)'
<1>1. /\ pulse \in Nat /\ file_changes \in Nat
      /\ results_available \in BOOLEAN
  BY DEF MergeInv, PulseInv, TypeOK
<1>2. PICK e : e = Head(link[ROOT])  OBVIOUS
<1>3. PICK p \in Nat : p = pulse  BY <1>1
<1>4. p < k /\ e.update_file = Changes(h, p)
  BY <1>2, <1>3, RootTakes DEF NumbersInv
<1>5. /\ pulse' = p + 1 /\ file_changes' = file_changes
      /\ results_available' => results_available \/ Allocates(e)
      /\ announced' = announced /\ main' = main
  BY <1>2, <1>3 DEF final_result, fileVars, apiVars
<1>6. /\ Unannounced' = Unannounced /\ Copied' = Copied
      /\ Updating' = Updating
  BY DEF apiVars, Unannounced, Copied, Updating
<1>7. Unconsumed' > Unconsumed => Renews(h, p)
  <2>1. Unconsumed' > Unconsumed => results_available' /\ ~results_available
    BY <1>1 DEF Unconsumed
  <2>2. Allocates(e) => Renews(h, p)  BY <1>3, <1>4 DEF Allocates, Renews
  <2> QED BY <1>5, <2>1, <2>2
<1>8. PICK N \in Nat : N = Noted(h, p)  BY NotedType
<1>9. PICK M \in Nat : M = Noted(h, p + 1)
  <2>1. p + 1 \in Nat  OBVIOUS
  <2> QED BY <2>1, NotedType
<1>10. /\ Renews(h, p) => M = N + 1
       /\ ~Renews(h, p) => M = N
  BY <1>8, <1>9, NotedNext
<1>11. PICK u \in 0 .. 1, v \in 0 .. 1 :
          u = Unconsumed /\ v = Unconsumed'
  BY DEF Unconsumed
<1>12. N + v <= M + u
  <2>1. CASE Renews(h, p)
    <3>1. M = N + 1  BY <1>10, <2>1
    <3> QED BY <3>1
  <2>2. CASE ~Renews(h, p)
    <3>1. M = N /\ v <= u  BY <1>7, <1>10, <1>11, <2>2
    <3> QED BY <3>1
  <2> QED BY <2>1, <2>2
<1>13. PICK a \in 0 .. 1, b \in 0 .. 1, d \in 0 .. 1 :
          a = Unannounced /\ b = Updating /\ d = Copied
  BY CountsType
<1>14. PICK f \in Nat : f = file_changes  BY <1>1
<1>15. f + d + u <= N + a + b
  BY <1>3, <1>8, <1>11, <1>13, <1>14 DEF ReturnsInv
<1>16. f + d + v <= M + a + b  BY <1>12, <1>15
<1>17. file_changes' + Copied' + Unconsumed' <= M + Unannounced' + Updating'
  BY <1>5, <1>6, <1>11, <1>13, <1>14, <1>16
<1> QED BY <1>5, <1>9, <1>17 DEF ReturnsInv

\* A history that goes on says the same of the root's pulses.
LEMMA LongerReturns ==
  ASSUME MonitoringTypeOK, NEW h, NEW k \in Nat, pulse <= k, ReturnsInv(h),
         NEW g, \A t \in Nat : t < k => g[t] = h[t],
         UNCHANGED <<file_changes, results_available, pulse, main, apiVars>>
  PROVE  ReturnsInv(g)'
<1>1. PICK p \in Nat : p = pulse  BY DEF MonitoringTypeOK, TypeOK
<1>2. \A t \in Nat : t < k => g[t] = h[t]  OBVIOUS
<1>3. p <= k  BY <1>1
<1>4. Noted(g, p) = Noted(h, p)
  BY ONLY <1>2, <1>3, k \in Nat, p \in Nat, NotedGoesOn
<1>5. ReturnsInv(h)'  BY SameReturns
<1>6. pulse' = p  BY <1>1
<1> QED BY <1>4, <1>5, <1>6 DEF ReturnsInv

\* The other steps.
LEMMA StepReturns ==
  ASSUME MonitoringTypeOK, MergeInv, TypeOK',
         NEW h \in [Nat -> Nat], NEW k \in Nat,
         NumbersInv(h, k), ReturnsInv(h), [MonitoringNext]_allVars,
         \A l \in Leaf : ~start_communication(l)
  PROVE  ReturnsInv(h)'
<1>1. ASSUME NEW r \in Rank, main_thread(r) PROVE ReturnsInv(h)'
  <2>1. CASE EnterBarrier(r)
    <3>1. UNCHANGED <<file_changes, results_available, pulse, apiVars>>
      BY <2>1 DEF EnterBarrier, monitoring_finalize_leaf, vars, rootVars, fileVars
    <3>2. \/ main'[ROOT] = main[ROOT]
          \/ main[ROOT] = "application" /\ main'[ROOT] \in InFinalize
      BY <2>1, RankType
         DEF EnterBarrier, Goes, MonitoringTypeOK, InFinalize
    <3> QED BY <3>1, <3>2, SameReturns
  <2>2. CASE MPI_Comm_free(r) \/ destroy_metrics_aggregator(r)
    <3>1. UNCHANGED <<file_changes, results_available, pulse, apiVars>>
      BY <2>2 DEF MPI_Comm_free, destroy_metrics_aggregator, vars
    <3>2. \/ main'[ROOT] = main[ROOT]
          \/ /\ main[ROOT] \in {"barrier", "freed"}
             /\ main'[ROOT] \in InFinalize
      BY <2>2, RankType
         DEF MPI_Comm_free, destroy_metrics_aggregator, Goes,
             MonitoringTypeOK, InFinalize
    <3> QED BY <3>1, <3>2, SameReturns
  <2> QED BY <1>1, <2>1, <2>2, CallReturns DEF main_thread
<1>2. ASSUME NEW l \in Leaf, LeafThread(l) PROVE ReturnsInv(h)'
  <2>1. UNCHANGED <<file_changes, results_available, pulse, main, apiVars>>
    BY <1>2 DEF LeafThread, Background, LeafBarrier, vars
  <2> QED BY <2>1, SameReturns
<1>3. ASSUME NEW n \in NonLeaf, EVPathThread(n) PROVE ReturnsInv(h)'
  <2>1. CASE final_result
    BY <1>3, <2>1, ResultReturns DEF EVPathThread, Background
  <2>2. CASE \/ \E c \in children(n) : Arrive(c)
             \/ compute_own_metrics(n) \/ FinishPulse(n)
    <3>1. UNCHANGED <<fileVars, rootVars>>
      BY <2>2 DEF Arrive, compute_own_metrics, FinishPulse
    <3>2. UNCHANGED <<file_changes, results_available, pulse, main, apiVars>>
      BY <1>3, <3>1 DEF EVPathThread, Background, fileVars, rootVars
    <3> QED BY <3>2, SameReturns
  <2> QED BY <1>3, <2>1, <2>2 DEF EVPathThread, Background, comm_thread
<1>4. CASE UNCHANGED allVars
  <2>1. UNCHANGED <<file_changes, results_available, pulse, main, apiVars>>
    BY <1>4 DEF allVars, vars, apiVars
  <2> QED BY <2>1, SameReturns
<1> QED BY <1>1, <1>2, <1>3, <1>4 DEF MonitoringNext

\* return_results and monitoring_file_updated do not concern the history.
LEMMA ConsumedHistory ==
  ASSUME TypeOK, NEW h, NEW k, NumbersInv(h, k), ChangesInv(h, k), Consumed
  PROVE  NumbersInv(h, k)' /\ ChangesInv(h, k)'
<1>1. UNCHANGED <<file, file_changes, counter, total_metrics, link, multi,
                  stage, inbox, pulse, monitoring_results>>
  BY DEF Consumed, restVars, fileVars
<1>2. submissions(ROOT)' = submissions(ROOT)  BY <1>1 DEF submissions
<1> QED BY <1>1, <1>2, UnchangedNumbers, SameChanges

\* Some history explains what has happened, and what has been returned.
ReturnsKnown ==
  \E h \in [Nat -> Nat], k \in Nat :
    NumbersInv(h, k) /\ ChangesInv(h, k) /\ ReturnsInv(h)

\* It is inductive.
LEMMA ReturnsKept ==
  ASSUME max_degree = 1, MonitoringTypeOK, MergeInv, StonesLow, TypeOK',
         ReturnsKnown, [MonitoringNext]_allVars
  PROVE  ReturnsKnown'
<1>1. TypeOK  BY DEF MonitoringTypeOK
<1>2. PICK h \in [Nat -> Nat], k \in Nat :
        NumbersInv(h, k) /\ ChangesInv(h, k) /\ ReturnsInv(h)
  BY DEF ReturnsKnown
<1>3. ASSUME NEW l \in Leaf, start_communication(l),
             UNCHANGED <<main, apiVars>>
      PROVE  ReturnsKnown'
  <2>1. PICK g : g = Recorded(h, k)  OBVIOUS
  <2>2. NumbersInv(g, k + 1)'  BY <1>1, <1>2, <1>3, <2>1, LeafNumbers
  <2>3. ChangesInv(g, k + 1)'  BY <1>1, <1>2, <1>3, <2>1, LeafChanges
  <2>4. /\ g \in [Nat -> Nat] /\ k + 1 \in Nat
        /\ \A t \in Nat : t < k => g[t] = h[t]
    BY <1>1, <2>1, FileType DEF Recorded
  <2>5. UNCHANGED <<file_changes, results_available, pulse>>
    BY <1>3 DEF start_communication, SendEvent, fileVars, rootVars
  <2>6. ReturnsInv(g)'
    <3>1. pulse <= k /\ ReturnsInv(h)  BY <1>2 DEF NumbersInv
    <3> QED BY <1>3, <2>4, <2>5, <3>1, LongerReturns
  <2> QED BY <2>2, <2>3, <2>4, <2>6, Zenon DEF ReturnsKnown
<1>4. ASSUME \A l \in Leaf : ~start_communication(l) PROVE ReturnsKnown'
  <2>1. ReturnsInv(h)'  BY <1>2, <1>4, StepReturns
  <2>2. NumbersInv(h, k)' /\ ChangesInv(h, k)'
    <3>1. CASE [Next]_vars
      BY <1>2, <1>4, <3>1, OtherNumbers, OtherChanges
    <3>2. CASE Consumed  BY <1>1, <1>2, <3>2, ConsumedHistory
    <3> QED BY <3>1, <3>2, MonitoringStep
  <2> QED BY <2>1, <2>2, Zenon DEF ReturnsKnown
<1>5. ASSUME NEW l \in Leaf, start_communication(l)
      PROVE  UNCHANGED <<main, apiVars>>
  <2>1. PICK c \in Nat : c = counter[l]  BY <1>1, LeafRank DEF TypeOK
  <2>2. counter' # counter
    <3>1. counter' = [counter EXCEPT ![l] = c + 1]
      BY <1>5, <2>1 DEF start_communication, SendEvent
    <3>2. counter'[l] = c + 1  BY <1>1, <3>1, LeafRank DEF TypeOK
    <3> QED BY <2>1, <3>2
  <2>3. ASSUME NEW x \in Rank, main_thread(x) PROVE counter' = counter
    BY <2>3
       DEF main_thread, EnterBarrier, monitoring_finalize_leaf, MPI_Comm_free,
           destroy_metrics_aggregator, Edit, EditFile, CallReturnResults,
           CallFileUpdated, return_results, monitoring_file_updated, restVars,
           vars
  <2>4. UNCHANGED allVars => counter' = counter  BY DEF allVars, vars
  <2>5. ASSUME NEW x \in Leaf, LeafThread(x)
        PROVE  counter' = counter \/ UNCHANGED <<main, apiVars>>
    BY <2>5 DEF LeafThread, LeafBarrier, Background, vars
  <2>6. ASSUME NEW n \in NonLeaf, EVPathThread(n)
        PROVE  UNCHANGED <<main, apiVars>>
    BY <2>6 DEF EVPathThread, Background
  <2> QED BY <2>2, <2>3, <2>4, <2>5, <2>6 DEF MonitoringNext
<1> QED BY <1>3, <1>4, <1>5

\* What the root copies, it copies of the last change, when all have noted it.
LEMMA CopiesLast ==
  ASSUME MonitoringTypeOK, StonesLow, MergeInv, ReturnsKnown, Copies
  PROVE  /\ monitoring_results.written = file
         /\ total_metrics[ROOT] = file
<1>1. PICK h \in [Nat -> Nat], k \in Nat :
        NumbersInv(h, k) /\ ChangesInv(h, k) /\ ReturnsInv(h)
  BY DEF ReturnsKnown
<1>2. /\ TypeOK /\ PulseInv /\ pulse \in Nat /\ ROOT \in NonLeaf
      /\ ROOT \in Rank /\ file_changes \in Nat
      /\ init \in BOOLEAN /\ results_available \in BOOLEAN
  <2>1. /\ TypeOK /\ PulseInv /\ ROOT \in NonLeaf /\ ROOT \in Rank
        /\ init \in BOOLEAN
    BY RankType, LeafIsNotRoot
       DEF MonitoringTypeOK, MergeInv, PulseInv, NonLeaf
  <2>2. pulse \in Nat /\ results_available \in BOOLEAN
    BY <2>1 DEF TypeOK
  <2>3. file_changes \in Nat  BY <2>1 DEF TypeOK
  <2> QED BY <2>1, <2>2, <2>3
<1>3. PICK p \in Nat : p = pulse  BY <1>2
<1>4. PICK c \in Nat : c = submissions(ROOT)
  <2>1. counter[ROOT] \in Nat  BY <1>2 DEF TypeOK
  <2> QED BY <2>1 DEF submissions
<1>5. p <= c
  <2>1. /\ p = Sent(ROOT) - Len(link[ROOT]) /\ Len(link[ROOT]) \in Nat
        /\ Sent(ROOT) = multi[ROOT].pulse_timestamp
    BY <1>2, <1>3, LeafIsNotRoot, LenProperties
       DEF PulseInv, Arrived, Sent, TypeOK
  <2>2. multi[ROOT].pulse_timestamp = c
    BY <1>2, <1>4 DEF StonesLow, InStep
  <2> QED BY <2>1, <2>2
<1>6. c <= k  BY <1>1, <1>2, <1>4 DEF NumbersInv
<1>7. PICK N \in Nat : N = Noted(h, p)  BY NotedType
<1>8. PICK M \in Nat : M = Noted(h, c)  BY NotedType
<1>9. PICK P \in Nat, K \in Nat : P = Seen(h, p) /\ K = Seen(h, k)
  BY NotedType
<1>10. N <= M /\ N <= P /\ P <= K
  <2>1. p <= k  BY <1>5, <1>6
  <2> QED BY <1>5, <1>7, <1>8, <1>9, <2>1, NotedMonotone
<1>11. file_changes + 1 <= N
  <2>1. file_changes + Copied + Unconsumed <= N + Unannounced + Updating
    BY <1>1, <1>3, <1>7 DEF ReturnsInv
  <2>2. /\ main[ROOT] = "return_results" /\ announced
        /\ init => results_available
    BY <1>1 DEF Copies, Readable, ReturnsInv
  <2>3. Unannounced = 0 /\ Updating = 0
    BY <2>2 DEF Unannounced, Updating
  <2>4. Copied + Unconsumed >= 1 /\ Copied \in Nat /\ Unconsumed \in Nat
    BY <2>2 DEF Copied, Unconsumed
  <2> QED BY <1>2, <2>1, <2>3, <2>4
<1>12. K <= file_changes + 1  BY <1>1, <1>9 DEF ChangesInv
<1>13. P = K /\ M > file_changes /\ K > file_changes
  BY <1>2, <1>10, <1>11, <1>12
<1>14. total_metrics[ROOT] = file
  BY <1>1, <1>4, <1>8, <1>13 DEF ChangesInv
<1>15. file = Before(h, k)
  <2>1. file # Before(h, k) => K <= file_changes
    BY <1>1, <1>9 DEF ChangesInv
  <2> QED BY <1>2, <1>13, <2>1
<1>16. Before(h, p) = Before(h, k)
  <2>1. p <= k /\ Seen(h, p) = Seen(h, k)
    BY <1>5, <1>6, <1>9, <1>13
  <2> QED BY <1>1, <2>1 DEF ChangesInv
<1>17. p # 0
  BY <1>2, <1>7, <1>11, NotedNone
<1>18. Before(h, p) = h[p - 1]  BY <1>17 DEF Before
<1>19. ~BENCHMARKING  BY <1>1 DEF Copies, ReturnsInv
<1>20. monitoring_results.written = h[p - 1]
  BY <1>1, <1>3, <1>17, <1>19 DEF NumbersInv
<1> QED BY <1>14, <1>15, <1>16, <1>18, <1>20

\* What the theorems below rest on.
ChainInv == MonitoringTypeOK /\ MergeInv /\ StonesLow /\ ReturnsKnown

\* It holds at the start, and every step keeps it.
LEMMA ChainInvKept ==
  ASSUME max_degree = 1
  PROVE  /\ MonitoringInit => ChainInv
         /\ ChainInv /\ [MonitoringNext]_allVars => ChainInv'
<1>1. ASSUME MonitoringInit PROVE ChainInv
  <2>1. Init /\ MonitoringTypeOK /\ MergeInv
    BY <1>1, MonitoringInitOK, InitMergeInv DEF MonitoringInit
  <2>2. StonesLow
    <3>1. ASSUME NEW n \in NonLeaf PROVE InStep(n)
      <4>1. /\ multi[n] = InitialMulti /\ stage[n] = "idle"
            /\ counter[n] = 0
        BY <2>1 DEF Init, NonLeaf
      <4> QED BY <4>1 DEF InStep, NoMatch, InitialMulti, submissions
    <3> QED BY <3>1 DEF StonesLow
  <2>3. PICK h \in [Nat -> Nat] : h = [t \in Nat |-> 0]  OBVIOUS
  <2>4. NumbersInv(h, 0) /\ ChangesInv(h, 0)
    BY <2>1, InitNumbers, InitChanges
  <2>5. ReturnsInv(h)
    <3>1. /\ file_changes = 0 /\ pulse = 0 /\ init /\ announced
          /\ ~results_available /\ main[ROOT] = "application"
      BY <1>1, RankType DEF MonitoringInit, Init
    <3>2. /\ Copied = 0 /\ Unconsumed = 0 /\ Unannounced = 0 /\ Updating = 0
      BY <3>1 DEF Copied, Unconsumed, Unannounced, Updating
    <3>3. Noted(h, pulse) = 0  BY <3>1, NotedNone
    <3> QED BY <3>1, <3>2, <3>3 DEF ReturnsInv
  <2>6. 0 \in Nat  OBVIOUS
  <2>7. ReturnsKnown  BY <2>4, <2>5, <2>6, Zenon DEF ReturnsKnown
  <2> QED BY <2>1, <2>2, <2>7 DEF ChainInv
<1>2. ASSUME ChainInv, [MonitoringNext]_allVars PROVE ChainInv'
  <2>1. MonitoringTypeOK' /\ MergeInv' /\ TypeOK /\ TypeOK'
    BY <1>2, MonitoringTypeKept, MonitoringMergeKept
       DEF ChainInv, MonitoringTypeOK
  <2>2. StonesLow'
    <3>1. CASE [Next]_vars
      <4>1. max_degree <= 2  OBVIOUS
      <4> QED BY <1>2, <2>1, <3>1, <4>1, StonesLowKept DEF ChainInv
    <3>2. CASE Consumed
      <4>1. \A n \in NonLeaf : submissions(n)' = submissions(n)
        BY <3>2 DEF Consumed, restVars, submissions
      <4> QED BY <1>2, <3>2, <4>1, UnchangedInStep
              DEF ChainInv, Consumed, restVars
    <3> QED BY <1>2, <3>1, <3>2, MonitoringStep
  <2>3. ReturnsKnown'  BY <1>2, <2>1, ReturnsKept DEF ChainInv
  <2> QED BY <2>1, <2>2, <2>3 DEF ChainInv
<1> QED BY <1>1, <1>2

(***************************************************************************)
(* final_result writes no more entries than there are, when results are    *)
(* returned beside it too.                                                 *)
(***************************************************************************)
THEOREM MonitoringResultsFitCorrect ==
  ASSUME max_degree = 1
  PROVE  MonitoringSpec => []ResultsFit
<1>1. ChainInv => ResultsFit
  BY DEF ChainInv, ReturnsKnown, NumbersInv, ResultsFit
<1> QED BY <1>1, ChainInvKept, PTL DEF MonitoringSpec

(***************************************************************************)
(* In a chain, return_results copies results for the number of metrics     *)
(* last announced: a change makes results available at most once, and      *)
(* whoever consumes them has waited for the last.                          *)
(***************************************************************************)
THEOREM ReturnsUpdatedCorrect ==
  ASSUME max_degree = 1
  PROVE  MonitoringSpec => []ReturnsUpdated
<1>1. ChainInv => ReturnsUpdated
  BY CopiesLast DEF ChainInv, ReturnsUpdated
<1> QED BY <1>1, ChainInvKept, PTL DEF MonitoringSpec

(***************************************************************************)
(* And it reads no more entries than there are: the total_metrics that     *)
(* compute_own_metrics changes beside it is the number of the results.     *)
(***************************************************************************)
THEOREM ReadsFitCorrect ==
  ASSUME max_degree = 1
  PROVE  MonitoringSpec => []ReadsFit
<1>1. ChainInv => ReadsFit
  <2> SUFFICES ASSUME ChainInv, Copies
               PROVE  total_metrics[ROOT] <= monitoring_results.size
    BY DEF ReadsFit
  <2>1. monitoring_results.written <= monitoring_results.size
    BY DEF ChainInv, ReturnsKnown, NumbersInv
  <2>2. total_metrics[ROOT] = monitoring_results.written
    BY CopiesLast DEF ChainInv
  <2> QED BY <2>1, <2>2
<1> QED BY <1>1, ChainInvKept, PTL DEF MonitoringSpec
-----------------------------------------------------------------------------
AddressOf(r) == [stone |-> 1, contact |-> r]

\* What a process has received, and made of it.
Addressed(r) ==
  r # ROOT =>
    /\ step[r] > Recv => parent_addr[r] = AddressOf(get_parent(r))
    /\ step[r] > Connect => bridge[r] = AddressOf(get_parent(r))

\* What a process with children has set up when it is at its step.
SetUp(n) ==
  /\ step[n] > Create => stones[n] = Allocated(n)
  /\ step[n] > Connect => "output" \in wired[n]
  /\ step[n] > Associate => {"terminal", "split"} \subseteq wired[n]
  /\ step[n] > Program => "multi" \in wired[n]

\* All have come to the second barrier; this never ceases to hold.
AllSetUp == \A r \in Rank : step[r] >= Barrier2

SetUpInv ==
  /\ DOMAIN stones = Rank
  /\ \A m \in mail : m.addr = AddressOf(m.from)
  /\ \A r \in Rank : Addressed(r)
  /\ \A n \in NonLeaf : SetUp(n)
  /\ (\E r \in Rank : step[r] > Barrier2) => AllSetUp

\* Some event is on its way or being handled.
SomeEvent == \/ \E r \in Rank : link[r] # <<>>
             \/ \E n \in NonLeaf : stage[n] # "idle"

\* Events exist only when all are set up, and then a leaf's own have left a
\* leaf that has split the communicator.
EventsInv ==
  /\ SomeEvent => AllSetUp
  /\ \A l \in Leaf : /\ step[l] > Split => comm_leafs[l] = Leaf
                     /\ link[l] # <<>> => step[l] > Split
-----------------------------------------------------------------------------
(***************************************************************************)
(* The life of the library is one of Monitoring, in which the threads just *)
(* start later.                                                            *)
(***************************************************************************)
LEMMA BootstrapStep == [BootstrapNext]_systemVars => [MonitoringNext]_allVars
BY DEF BootstrapNext, monitoring_initialize, Application, Leafs, Forked,
       MonitoringNext, systemVars

(***************************************************************************)
(* Whatever is proved of Monitoring, which starts where monitoring_        *)
(* initialize has returned everywhere, holds of the processes that come    *)
(* out of it one by one.                                                   *)
(***************************************************************************)
THEOREM BootstrapImplementsMonitoring == BootstrapSpec => MonitoringSpec
<1>1. BootstrapInit => MonitoringInit  BY DEF BootstrapInit
<1> QED BY <1>1, BootstrapStep, PTL DEF BootstrapSpec, MonitoringSpec
-----------------------------------------------------------------------------
(***************************************************************************)
(* Types.                                                                  *)
(***************************************************************************)
\* The variables of the bootstrap by themselves.
BootTyped ==
  /\ step \in [Rank -> Recv .. Returned]
  /\ mail \subseteq [from : Rank, to : Rank, addr : AddressType,
                     buffered : BOOLEAN]
  /\ sent \in [Rank -> 0 .. max_degree]
  /\ parent_addr \in [Rank -> AddressType]
  /\ bridge \in [Rank -> AddressType]
  /\ wired \in [Rank -> SUBSET Everything]
  /\ comm_leafs \in [Rank -> SUBSET Rank]

\* The types of the set-up and those of Monitoring, apart.
LEMMA BootstrapTypeSplit ==
  BootstrapTypeOK <=> MonitoringTypeOK /\ BootTyped
BY DEF BootstrapTypeOK, BootTyped

\* A process that has something to send is one with children.
LEMMA Recipient ==
  ASSUME NEW r \in Rank, NEW k \in Nat, k < get_degree_node(r)
  PROVE  /\ r * max_degree + k + 1 \in Rank
         /\ r \in NonLeaf
         /\ k + 1 <= max_degree
<1> DEFINE c == r * max_degree + (k + 1)
<1>1. r \in Nat /\ get_degree_node(r) \in Nat /\ max_degree \in Nat
  BY RankType, DegreeType, TopologyAssumption
<1>2. k + 1 \in 1 .. get_degree_node(r)  BY <1>1
<1>3. c \in children(r)  BY <1>2 DEF children
<1>4. c \in Rank /\ c # ROOT /\ get_parent(c) = r
  BY <1>3, ChildrenHaveParent
<1>5. r \in NonLeaf  BY <1>4, ParentIsNotLeaf
<1>6. k + 1 \in ChildOffsets(r)  BY <1>1, <1>2, OffsetsAreInterval
<1>7. k + 1 <= max_degree  BY <1>6 DEF ChildOffsets
<1>8. c = r * max_degree + k + 1  BY <1>1
<1> QED BY <1>4, <1>5, <1>7, <1>8

\* EValloc_stone gives the split_stone the number 1.
LEMMA SplitIsOne ==
  ASSUME NEW r \in Rank, stones[r] = Allocated(r)
  PROVE  /\ stones[r][2] = "split"
         /\ Address(r) = AddressOf(r)
<1> DEFINE base == <<"multi", "split", "terminal", "bridge">>
           s == stones[r]
<1>1. \/ s = base \o <<"agreg_terminal">>
      \/ s = base \o <<>>
  BY DEF Allocated
<1>2. /\ DOMAIN s \in {1 .. 4, 1 .. 5}
      /\ s[1] = "multi" /\ s[2] = "split" /\ s[3] = "terminal"
      /\ s[4] = "bridge"
      /\ DOMAIN s = 1 .. 5 => s[5] = "agreg_terminal"
  BY <1>1
<1>3. \A i \in DOMAIN s : s[i] = "split" <=> i = 2
  BY <1>2
<1>4. 2 \in DOMAIN s  BY <1>2
<1>5. (CHOOSE i \in DOMAIN s : s[i] = "split") = 2
  BY <1>3, <1>4
<1> QED BY <1>2, <1>5 DEF Address, AddressOf, Stone

\* A step of monitoring_initialize is its process's own, and a step forward.
LEMMA OwnStep ==
  ASSUME BootTyped, DOMAIN stones = Rank,
         NEW r \in Rank, monitoring_initialize(r)
  PROVE  /\ step' \in [Rank -> Recv .. Returned]
         /\ step'[r] >= step[r]
         /\ DOMAIN stones' = Rank
         /\ \A q \in Rank \ {r} :
              /\ step'[q] = step[q] /\ stones'[q] = stones[q]
              /\ parent_addr'[q] = parent_addr[q] /\ bridge'[q] = bridge[q]
              /\ wired'[q] = wired[q] /\ comm_leafs'[q] = comm_leafs[q]
<1> USE DEF Recv, Create, Send, Barrier1, Fork, Connect, Associate, Program,
            Barrier2, Split, Start, Returned, Goto
<1>1. step \in [Rank -> Recv .. Returned]  BY DEF BootTyped
<1> USE DEF BootTyped
<1>2. CASE recv_addr_from_parent(r)
  BY <1>1, <1>2 DEF recv_addr_from_parent
<1>3. CASE compute_evpath_addr(r)  BY <1>1, <1>3 DEF compute_evpath_addr
<1>4. CASE send_addr_to_children(r)
  BY <1>1, <1>4 DEF send_addr_to_children, MPI_Send
<1>5. CASE MPI_Barrier(r)  BY <1>1, <1>5 DEF MPI_Barrier
<1>6. CASE CMfork_comm_thread(r)  BY <1>1, <1>6 DEF CMfork_comm_thread, Sets
<1>7. CASE EVassoc_bridge_action(r)
  BY <1>1, <1>7 DEF EVassoc_bridge_action, Sets
<1>8. CASE EVassoc_split_action(r)
  BY <1>1, <1>8 DEF EVassoc_split_action, Sets
<1>9. CASE EVassoc_multi_action(r)
  BY <1>1, <1>9 DEF EVassoc_multi_action, Sets
<1>10. CASE MPI_Comm_split(r)  BY <1>1, <1>10 DEF MPI_Comm_split
<1>11. CASE start_leaf_thread(r)  BY <1>1, <1>11 DEF start_leaf_thread
<1> QED BY <1>2, <1>3, <1>4, <1>5, <1>6, <1>7, <1>8, <1>9, <1>10, <1>11
        DEF monitoring_initialize, set_stones_actions

\* An address is one a process may receive.
LEMMA AddressTyped ==
  ASSUME NEW r \in Rank
  PROVE  AddressOf(r) \in AddressType
BY TopologyAssumption DEF AddressOf, AddressType, Rank

\* A message is sent to one child, with the address of a split_stone.
LEMMA MPI_SendTyped ==
  ASSUME BootTyped, SetUpInv, NEW r \in Rank, MPI_Send(r)
  PROVE  /\ BootTyped'
         /\ \A m \in mail' : m.addr = AddressOf(m.from)
<1> USE DEF BootTyped
<1>1. sent[r] \in Nat /\ sent[r] < get_degree_node(r)
  BY TopologyAssumption DEF MPI_Send
<1>2. /\ r * max_degree + sent[r] + 1 \in Rank
      /\ r \in NonLeaf
      /\ sent[r] + 1 <= max_degree
  BY <1>1, Recipient
<1>3. stones[r] = Allocated(r)
  BY <1>2 DEF SetUpInv, SetUp, MPI_Send, Send, Create
<1>4. Address(r) = AddressOf(r) /\ Address(r) \in AddressType
  BY <1>3, SplitIsOne, AddressTyped
<1>5. PICK buffered \in BOOLEAN :
        mail' = mail \cup {[from |-> r, to |-> r * max_degree + sent[r] + 1,
                            addr |-> Address(r), buffered |-> buffered]}
  BY DEF MPI_Send
<1>6. [from |-> r, to |-> r * max_degree + sent[r] + 1,
       addr |-> Address(r), buffered |-> buffered]
        \in [from : Rank, to : Rank, addr : AddressType, buffered : BOOLEAN]
  BY <1>2, <1>4
<1>7. mail' \subseteq [from : Rank, to : Rank, addr : AddressType,
                       buffered : BOOLEAN]
  BY <1>5, <1>6
<1>8. sent' \in [Rank -> 0 .. max_degree]
  <2>1. sent[r] + 1 \in 0 .. max_degree
    BY <1>1, <1>2, TopologyAssumption
  <2> QED BY <2>1 DEF MPI_Send
<1>9. \A m \in mail' : m.addr = AddressOf(m.from)
  BY <1>4, <1>5 DEF SetUpInv
<1> QED BY <1>7, <1>8, <1>9 DEF MPI_Send
-----------------------------------------------------------------------------
\* Every step of the set-up keeps its types.
LEMMA InitializeTyped ==
  ASSUME BootTyped, SetUpInv, NEW r \in Rank, monitoring_initialize(r)
  PROVE  BootTyped'
<1>1. step' \in [Rank -> Recv .. Returned]
  BY OwnStep DEF SetUpInv
<1> USE DEF BootTyped
<1>2. CASE recv_addr_from_parent(r)
  <2>1. PICK m \in mail :
          /\ mail' = mail \ {m}
          /\ parent_addr' = [parent_addr EXCEPT ![r] = m.addr]
    BY <1>2 DEF recv_addr_from_parent
  <2>2. m.addr \in AddressType  OBVIOUS
  <2> QED BY <1>1, <1>2, <2>1, <2>2 DEF recv_addr_from_parent
<1>3. CASE compute_evpath_addr(r)  BY <1>1, <1>3 DEF compute_evpath_addr
<1>4. CASE send_addr_to_children(r)
  <2>1. CASE MPI_Send(r)  BY <2>1, MPI_SendTyped
  <2> QED BY <1>1, <1>4, <2>1 DEF send_addr_to_children
<1>5. CASE MPI_Barrier(r)  BY <1>1, <1>5 DEF MPI_Barrier
<1>6. CASE CMfork_comm_thread(r)
  BY <1>1, <1>6 DEF CMfork_comm_thread, Sets, Everything
<1>7. CASE EVassoc_bridge_action(r)
  BY <1>1, <1>7 DEF EVassoc_bridge_action, Sets, Everything
<1>8. CASE EVassoc_split_action(r)
  BY <1>1, <1>8 DEF EVassoc_split_action, Sets, Everything
<1>9. CASE EVassoc_multi_action(r)
  BY <1>1, <1>9 DEF EVassoc_multi_action, Sets, Everything
<1>10. CASE MPI_Comm_split(r)
  <2>1. {q \in Rank : is_leaf(q) = is_leaf(r)} \in SUBSET Rank  OBVIOUS
  <2> QED BY <1>1, <1>10, <2>1 DEF MPI_Comm_split
<1>11. CASE start_leaf_thread(r)  BY <1>1, <1>11 DEF start_leaf_thread
<1> QED BY <1>2, <1>3, <1>4, <1>5, <1>6, <1>7, <1>8, <1>9, <1>10, <1>11
        DEF monitoring_initialize, set_stones_actions
-----------------------------------------------------------------------------
(***************************************************************************)
(* Each step of monitoring_initialize keeps what the processes have set    *)
(* up.                                                                     *)
(***************************************************************************)
LEMMA MailKept ==
  ASSUME BootTyped, SetUpInv, NEW r \in Rank, monitoring_initialize(r)
  PROVE  \A m \in mail' : m.addr = AddressOf(m.from)
<1>1. CASE MPI_Send(r)  BY <1>1, MPI_SendTyped
<1>2. CASE ~MPI_Send(r)
  <2>1. mail' \subseteq mail
    BY <1>2 DEF monitoring_initialize, recv_addr_from_parent,
                compute_evpath_addr, send_addr_to_children, MPI_Barrier,
                CMfork_comm_thread, set_stones_actions,
                EVassoc_bridge_action, EVassoc_split_action,
                EVassoc_multi_action, MPI_Comm_split, start_leaf_thread
  <2> QED BY <2>1 DEF SetUpInv
<1> QED BY <1>1, <1>2

\* What it receives is its parent's address, and its bridge leads there.
LEMMA AddressedKept ==
  ASSUME BootTyped, SetUpInv, NEW r \in Rank, r # ROOT,
         monitoring_initialize(r)
  PROVE  Addressed(r)'
<1> USE DEF BootTyped, Addressed, Recv, Create, Send, Barrier1, Fork, Connect,
            Associate, Program, Barrier2, Split, Start, Returned, Goto
<1>1. Addressed(r)  BY DEF SetUpInv
<1>2. CASE recv_addr_from_parent(r)
  <2>1. PICK m \in mail :
          /\ m.from = get_parent(r)
          /\ parent_addr' = [parent_addr EXCEPT ![r] = m.addr]
    BY <1>2 DEF recv_addr_from_parent
  <2>2. parent_addr'[r] = AddressOf(get_parent(r))
    BY <2>1 DEF SetUpInv
  <2> QED BY <1>2, <2>2 DEF recv_addr_from_parent
<1>3. CASE EVassoc_bridge_action(r)
  BY <1>1, <1>3 DEF EVassoc_bridge_action
<1>4. CASE compute_evpath_addr(r)  BY <1>1, <1>4 DEF compute_evpath_addr
<1>5. CASE send_addr_to_children(r)
  BY <1>1, <1>5 DEF send_addr_to_children, MPI_Send
<1>6. CASE MPI_Barrier(r)  BY <1>1, <1>6 DEF MPI_Barrier
<1>7. CASE CMfork_comm_thread(r)  BY <1>1, <1>7 DEF CMfork_comm_thread
<1>8. CASE EVassoc_split_action(r)  BY <1>1, <1>8 DEF EVassoc_split_action
<1>9. CASE EVassoc_multi_action(r)  BY <1>1, <1>9 DEF EVassoc_multi_action
<1>10. CASE MPI_Comm_split(r)  BY <1>1, <1>10 DEF MPI_Comm_split
<1>11. CASE start_leaf_thread(r)  BY <1>1, <1>11 DEF start_leaf_thread
<1> QED BY <1>2, <1>3, <1>4, <1>5, <1>6, <1>7, <1>8, <1>9, <1>10, <1>11
        DEF monitoring_initialize, set_stones_actions

\* What is set up stays, and a step leaves nothing out.
LEMMA SetUpKept ==
  ASSUME BootTyped, SetUpInv, NEW n \in NonLeaf, monitoring_initialize(n)
  PROVE  SetUp(n)'
<1> USE DEF BootTyped, SetUp, Recv, Create, Send, Barrier1, Fork, Connect,
            Associate, Program, Barrier2, Split, Start, Returned, Goto, Sets
<1>1. /\ SetUp(n) /\ DOMAIN stones = Rank
      /\ n \in Rank /\ ~is_leaf(n)
  BY LeafRank DEF SetUpInv, NonLeaf, Leaf
<1>2. Allocated(n)' = Allocated(n)  BY DEF Allocated
<1>3. CASE recv_addr_from_parent(n)
  BY <1>1, <1>2, <1>3 DEF recv_addr_from_parent
<1>4. CASE compute_evpath_addr(n)
  BY <1>1, <1>2, <1>4 DEF compute_evpath_addr
<1>5. CASE send_addr_to_children(n)
  BY <1>1, <1>2, <1>5 DEF send_addr_to_children, MPI_Send
<1>6. CASE MPI_Barrier(n)  BY <1>1, <1>2, <1>6 DEF MPI_Barrier
<1>7. CASE CMfork_comm_thread(n)
  BY <1>1, <1>2, <1>7 DEF CMfork_comm_thread
<1>8. CASE EVassoc_bridge_action(n)
  <2>1. stones'[n] = stones[n]  BY <1>1, <1>8 DEF EVassoc_bridge_action
  <2> QED BY <1>1, <1>2, <1>8, <2>1 DEF EVassoc_bridge_action
<1>9. CASE EVassoc_split_action(n)
  BY <1>1, <1>2, <1>9 DEF EVassoc_split_action
<1>10. CASE EVassoc_multi_action(n)
  BY <1>1, <1>2, <1>10 DEF EVassoc_multi_action
<1>11. CASE MPI_Comm_split(n)  BY <1>1, <1>2, <1>11 DEF MPI_Comm_split
<1>12. CASE start_leaf_thread(n)
  BY <1>1, <1>2, <1>12 DEF start_leaf_thread
<1> HIDE DEF SetUp
<1> QED BY <1>3, <1>4, <1>5, <1>6, <1>7, <1>8, <1>9, <1>10, <1>11, <1>12
        DEF monitoring_initialize, set_stones_actions

\* Nobody passes the second barrier before all have come to it.
LEMMA AllSetUpKept ==
  ASSUME BootTyped, SetUpInv, NEW r \in Rank, monitoring_initialize(r)
  PROVE  /\ AllSetUp => AllSetUp'
         /\ (\E q \in Rank : step'[q] > Barrier2) => AllSetUp'
<1>1. \A q \in Rank : step[q] \in Nat /\ step'[q] \in Nat /\ step'[q] >= step[q]
  BY OwnStep DEF BootTyped, SetUpInv, Recv, Returned
<1>2. AllSetUp => AllSetUp'  BY <1>1 DEF AllSetUp, Barrier2
<1>3. ASSUME step'[r] > Barrier2 PROVE AllSetUp
  <2>1. CASE step[r] > Barrier2  BY <2>1 DEF SetUpInv
  <2>2. CASE MPI_Barrier(r) /\ step[r] = Barrier2
    BY <2>2 DEF MPI_Barrier, Meet, Goto, AllSetUp, Barrier1, Barrier2
  <2>3. CASE step[r] <= Barrier2 /\ ~(MPI_Barrier(r) /\ step[r] = Barrier2)
    <3> USE DEF Recv, Create, Send, Barrier1, Fork, Connect, Associate,
                Program, Barrier2, Split, Start, Returned, Goto, BootTyped
    <3>1. step'[r] <= Barrier2
      BY <2>3 DEF monitoring_initialize, recv_addr_from_parent,
                compute_evpath_addr, send_addr_to_children, MPI_Send,
                MPI_Barrier, CMfork_comm_thread, set_stones_actions,
                EVassoc_bridge_action, EVassoc_split_action,
                EVassoc_multi_action, MPI_Comm_split, start_leaf_thread
    <3> QED BY <1>1, <1>3, <3>1
  <2> QED BY <1>1, <2>1, <2>2, <2>3 DEF Barrier2
<1>4. ASSUME NEW q \in Rank, q # r, step'[q] > Barrier2 PROVE AllSetUp
  BY <1>4, OwnStep DEF SetUpInv
<1> QED BY <1>2, <1>3, <1>4

\* Every step of the set-up keeps SetUpInv.
LEMMA InitializeSetUp ==
  ASSUME BootTyped, SetUpInv, NEW r \in Rank, monitoring_initialize(r)
  PROVE  SetUpInv'
<1>1. DOMAIN stones' = Rank  BY OwnStep DEF SetUpInv
<1>2. ASSUME NEW q \in Rank PROVE Addressed(q)'
  <2>1. CASE q = r /\ r # ROOT  BY <2>1, AddressedKept
  <2>2. CASE q # r  BY <2>2, OwnStep DEF SetUpInv, Addressed
  <2> QED BY <2>1, <2>2 DEF Addressed
<1>3. ASSUME NEW n \in NonLeaf PROVE SetUp(n)'
  <2>1. CASE n = r  BY <2>1, SetUpKept
  <2>2. CASE n # r
    <3>1. n \in Rank \ {r}  BY <2>2, LeafRank
    <3>2. Allocated(n)' = Allocated(n)  BY DEF Allocated
    <3> QED BY <3>1, <3>2, OwnStep DEF SetUpInv, SetUp
  <2> QED BY <2>1, <2>2
<1> QED BY <1>1, <1>2, <1>3, MailKept, AllSetUpKept DEF SetUpInv

\* Every step of the set-up keeps EventsInv.
LEMMA InitializeEvents ==
  ASSUME BootTyped, SetUpInv, EventsInv,
         NEW r \in Rank, monitoring_initialize(r)
  PROVE  EventsInv'
<1>1. link' = link /\ stage' = stage
  BY DEF monitoring_initialize, allVars, vars
<1>2. AllSetUp => AllSetUp'  BY AllSetUpKept
<1>3. ASSUME NEW l \in Leaf
      PROVE  /\ step'[l] > Split => comm_leafs'[l] = Leaf
             /\ link'[l] # <<>> => step'[l] > Split
  <2>1. l \in Rank /\ is_leaf(l)  BY LeafRank DEF Leaf
  <2>2. /\ step[l] > Split => comm_leafs[l] = Leaf
        /\ link[l] # <<>> => step[l] > Split
    BY DEF EventsInv
  <2>3. /\ step[l] \in Nat /\ step'[l] \in Nat
        /\ l = r => step'[l] >= step[l]
        /\ l # r => step'[l] = step[l] /\ comm_leafs'[l] = comm_leafs[l]
    BY <2>1, OwnStep DEF BootTyped, SetUpInv, Recv, Returned
  <2>4. link'[l] # <<>> => step'[l] > Split
    BY <1>1, <2>2, <2>3 DEF Split
  <2>5. CASE l # r  BY <2>2, <2>3, <2>4, <2>5
  <2>6. CASE l = r /\ MPI_Comm_split(l)
    <3>1. comm_leafs'[l] = {q \in Rank : is_leaf(q) = is_leaf(l)}
      BY <2>1, <2>6 DEF MPI_Comm_split, BootTyped
    <3>2. comm_leafs'[l] = Leaf
      BY <2>1, <3>1 DEF Leaf, is_leaf
    <3> QED BY <2>4, <3>2
  <2>7. CASE l = r /\ ~MPI_Comm_split(l)
    <3> USE DEF Recv, Create, Send, Barrier1, Fork, Connect, Associate,
                Program, Barrier2, Split, Start, Returned, Goto, BootTyped
    <3>1. /\ comm_leafs' = comm_leafs
          /\ step'[l] > Split => step[l] > Split
      BY <2>1, <2>7
         DEF monitoring_initialize, recv_addr_from_parent,
             compute_evpath_addr, send_addr_to_children, MPI_Send,
             MPI_Barrier, CMfork_comm_thread, set_stones_actions,
             EVassoc_bridge_action, EVassoc_split_action,
             EVassoc_multi_action, start_leaf_thread
    <3> QED BY <2>2, <2>4, <3>1
  <2> QED BY <2>5, <2>6, <2>7
<1> QED BY <1>1, <1>2, <1>3 DEF EventsInv, SomeEvent
-----------------------------------------------------------------------------
(***************************************************************************)
(* The other threads: an event comes from an event, or from a leaf whose   *)
(* monitoring_initialize has returned.                                     *)
(***************************************************************************)
LEMMA OthersKeepSetUp ==
  ASSUME SetUpInv, UNCHANGED bootVars
  PROVE  SetUpInv' /\ (AllSetUp' <=> AllSetUp)
<1>1. \A n \in NonLeaf : Allocated(n)' = Allocated(n)  BY DEF Allocated
<1> QED BY <1>1 DEF bootVars, SetUpInv, SetUp, Addressed, AllSetUp

\* A thread of an inner process makes events out of events.
LEMMA CommThreadEvents ==
  ASSUME TypeOK, NEW n \in NonLeaf, comm_thread(n)
  PROVE  /\ SomeEvent' => SomeEvent
         /\ \A l \in Leaf : link'[l] # <<>> => link[l] # <<>>
<1>1. n \in Rank /\ n \notin Leaf  BY LeafRank DEF NonLeaf
<1>2. ASSUME NEW c \in children(n), Arrive(c)
      PROVE  /\ link[c] # <<>> /\ c \in Rank
             /\ \A l \in Leaf : link'[l] # <<>> => link[l] # <<>>
  <2>1. c \in Rank /\ get_parent(c) = n  BY <1>1, ChildrenHaveParent
  <2>2. link[c] # <<>>  BY <1>2 DEF Arrive
  <2>3. ASSUME NEW l \in Leaf, l # c PROVE link'[l] = link[l]
    BY <1>1, <1>2, <2>1, <2>3, LeafRank DEF Arrive, TypeOK
  <2> QED BY <2>1, <2>2, <2>3
<1>3. ASSUME compute_own_metrics(n)
      PROVE  /\ stage[n] # "idle"
             /\ \A l \in Leaf : link'[l] = link[l]
  <2>1. stage[n] = "terminal"  BY <1>3 DEF compute_own_metrics
  <2>2. CASE WaitForOthers(n)  BY <2>1, <2>2 DEF WaitForOthers
  <2>3. CASE SubmitOwn(n)
    BY <1>1, <2>1, <2>3, LeafRank DEF SubmitOwn, TypeOK
  <2> QED BY <1>3, <2>2, <2>3 DEF compute_own_metrics
<1>4. ASSUME FinishPulse(n)
      PROVE  stage[n] # "idle" /\ link' = link
  BY <1>4 DEF FinishPulse
<1>5. ASSUME final_result
      PROVE  /\ link[ROOT] # <<>>
             /\ \A l \in Leaf : link'[l] = link[l]
  BY <1>5, LeafIsNotRoot, LeafRank DEF final_result, TypeOK
<1> QED BY <1>2, <1>3, <1>4, <1>5, RankType DEF comm_thread, SomeEvent

\* The application's calls neither send nor take an event.
LEMMA ApplicationEvents ==
  ASSUME NEW r \in Rank, main_thread(r)
  PROVE  link' = link /\ stage' = stage
<1>1. CASE EnterBarrier(r)
  BY <1>1 DEF EnterBarrier, monitoring_finalize_leaf, vars
<1>2. CASE MPI_Comm_free(r)  BY <1>2 DEF MPI_Comm_free, vars
<1>3. CASE destroy_metrics_aggregator(r)
  BY <1>3 DEF destroy_metrics_aggregator, vars
<1>4. CASE Edit  BY <1>4 DEF Edit, EditFile
<1>5. CASE CallReturnResults  BY <1>5 DEF CallReturnResults, vars
<1>6. CASE CallFileUpdated  BY <1>6 DEF CallFileUpdated, vars
<1>7. CASE return_results  BY <1>7 DEF return_results, restVars
<1>8. CASE monitoring_file_updated
  BY <1>8 DEF monitoring_file_updated, restVars
<1> QED BY <1>1, <1>2, <1>3, <1>4, <1>5, <1>6, <1>7, <1>8 DEF main_thread

\* All other steps keep SetUpInv and EventsInv.
LEMMA OthersKeepEvents ==
  ASSUME TypeOK, SetUpInv, EventsInv,
         \/ \E r \in Rank : Application(r)
         \/ \E l \in Leaf : Leafs(l)
         \/ \E n \in NonLeaf : Forked(n)
  PROVE  SetUpInv' /\ EventsInv'
<1>1. UNCHANGED bootVars  BY DEF Application, Leafs, Forked
<1>2. SetUpInv' /\ (AllSetUp' <=> AllSetUp)  BY <1>1, OthersKeepSetUp
<1>3. step' = step /\ comm_leafs' = comm_leafs  BY <1>1 DEF bootVars
<1>4. CASE link' = link /\ stage' = stage
  BY <1>2, <1>3, <1>4 DEF EventsInv, SomeEvent
<1>5. ASSUME NEW r \in Rank, Application(r) PROVE EventsInv'
  BY <1>4, <1>5, ApplicationEvents DEF Application
<1>6. ASSUME NEW l \in Leaf, Leafs(l) PROVE EventsInv'
  <2>1. step[l] = Returned /\ l \in Rank  BY <1>6, LeafRank DEF Leafs
  <2>2. AllSetUp  BY <2>1 DEF SetUpInv, Returned, Barrier2
  <2>3. CASE start_communication(l)
    <3>1. \A k \in Leaf : link'[k] # <<>> => link[k] # <<>> \/ k = l
      BY <2>1, <2>3, LeafRank DEF start_communication, SendEvent, TypeOK
    <3> QED BY <1>2, <1>3, <2>1, <2>2, <3>1 DEF EventsInv, Returned, Split
  <2>4. CASE LeafBarrier(l)
    BY <1>4, <2>4 DEF LeafBarrier, vars
  <2> QED BY <1>6, <2>3, <2>4 DEF Leafs, LeafThread, Background
<1>7. ASSUME NEW n \in NonLeaf, Forked(n) PROVE EventsInv'
  <2>1. comm_thread(n)  BY <1>7 DEF Forked, EVPathThread, Background
  <2> QED BY <1>2, <1>3, <2>1, CommThreadEvents DEF EventsInv
<1> QED BY <1>2, <1>5, <1>6, <1>7
-----------------------------------------------------------------------------
BootInv == MonitoringTypeOK /\ BootTyped /\ SetUpInv /\ EventsInv

\* All invariants of the bootstrap hold at the start.
LEMMA BootstrapInitOK == BootstrapInit => BootInv
<1> SUFFICES ASSUME BootstrapInit PROVE BootInv  OBVIOUS
<1> USE DEF BootstrapInit, Recv, Create, Send, Barrier1, Fork, Connect,
            Associate, Program, Barrier2, Split, Start, Returned
<1>1. MonitoringTypeOK  BY MonitoringInitOK
<1>2. NoAddress \in AddressType
  BY TopologyAssumption DEF NoAddress, AddressType
<1>3. BootTyped  BY <1>2, TopologyAssumption DEF BootTyped
<1>4. SetUpInv
  BY LeafRank, RankType DEF SetUpInv, Addressed, SetUp
<1>5. EventsInv
  BY LeafRank, LeafIsNotRoot DEF EventsInv, SomeEvent, MonitoringInit, Init
<1> QED BY <1>1, <1>3, <1>4, <1>5 DEF BootInv

\* They are inductive.
LEMMA BootInvKept == BootInv /\ [BootstrapNext]_systemVars => BootInv'
<1> SUFFICES ASSUME BootInv, [BootstrapNext]_systemVars PROVE BootInv'
  OBVIOUS
<1>1. MonitoringTypeOK'  BY BootstrapStep, MonitoringTypeKept DEF BootInv
<1>2. ASSUME NEW r \in Rank, monitoring_initialize(r) PROVE BootInv'
  BY <1>1, <1>2, InitializeTyped, InitializeSetUp, InitializeEvents DEF BootInv
<1>3. CASE \/ \E r \in Rank : Application(r)
           \/ \E l \in Leaf : Leafs(l)
           \/ \E n \in NonLeaf : Forked(n)
  <2>1. UNCHANGED bootVars  BY <1>3 DEF Application, Leafs, Forked
  <2>2. BootTyped'  BY <2>1 DEF BootInv, BootTyped, bootVars
  <2>3. TypeOK  BY DEF BootInv, MonitoringTypeOK
  <2> QED BY <1>1, <1>3, <2>2, <2>3, OthersKeepEvents DEF BootInv
<1>4. CASE UNCHANGED systemVars
  <2>1. UNCHANGED bootVars /\ link' = link /\ stage' = stage
    BY <1>4 DEF systemVars, allVars, vars
  <2>2. BootTyped'  BY <2>1 DEF BootInv, BootTyped, bootVars
  <2>3. SetUpInv' /\ (AllSetUp' <=> AllSetUp)
    BY <2>1, OthersKeepSetUp DEF BootInv
  <2>4. EventsInv'  BY <2>1, <2>3 DEF BootInv, EventsInv, SomeEvent, bootVars
  <2> QED BY <1>1, <2>2, <2>3, <2>4 DEF BootInv
<1> QED BY <1>2, <1>3, <1>4 DEF BootstrapNext

(***************************************************************************)
(* The variables of the bootstrap keep their types; the ranks messages are *)
(* sent to exist.                                                          *)
(***************************************************************************)
THEOREM BootstrapTypeCorrect == BootstrapSpec => []BootstrapTypeOK
<1>1. BootInv => BootstrapTypeOK  BY BootstrapTypeSplit DEF BootInv
<1> QED BY <1>1, BootstrapInitOK, BootInvKept, PTL DEF BootstrapSpec

(***************************************************************************)
(* An event on its way finds its parent set up and, from a leaf, the       *)
(* communicator of the leaves: for every tree, whether MPI buffers the     *)
(* addresses or not, and however the processes' steps interleave.          *)
(***************************************************************************)
THEOREM ArrivesWiredCorrect == BootstrapSpec => []ArrivesWired
<1>1. BootInv => ArrivesWired
  <2> SUFFICES ASSUME BootInv, NEW c \in Rank, c # ROOT, link[c] # <<>>
               PROVE  /\ bridge[c].contact = get_parent(c)
                      /\ stones[get_parent(c)][bridge[c].stone + 1] = "split"
                      /\ Everything \ {"comm_thread"}
                           \subseteq wired[get_parent(c)]
                      /\ is_leaf(c) => comm_leafs[c] = Leaf
    BY DEF ArrivesWired
  <2>1. get_parent(c) \in NonLeaf /\ get_parent(c) \in Rank
    BY ParentIsNotLeaf, ParentIsBelow
  <2>2. step[c] >= Barrier2 /\ step[get_parent(c)] >= Barrier2
    BY <2>1 DEF BootInv, EventsInv, SomeEvent, AllSetUp
  <2>3. step[c] \in Nat /\ step[get_parent(c)] \in Nat
    <3>1. step \in [Rank -> 1 .. 12]
      BY DEF BootInv, BootTyped, Recv, Returned
    <3> QED BY <2>1, <3>1
  <2> USE DEF Create, Fork, Connect, Associate, Program, Barrier2
  <2>4. bridge[c] = AddressOf(get_parent(c))
    BY <2>2, <2>3 DEF BootInv, SetUpInv, Addressed
  <2>5. SetUp(get_parent(c))  BY <2>1 DEF BootInv, SetUpInv
  <2>6. stones[get_parent(c)][2] = "split"
    BY <2>1, <2>2, <2>3, <2>5, SplitIsOne DEF SetUp
  <2>8. Everything \ {"comm_thread"} \subseteq wired[get_parent(c)]
    BY <2>2, <2>3, <2>5 DEF SetUp, Everything
  <2>9. is_leaf(c) => comm_leafs[c] = Leaf
    BY DEF BootInv, EventsInv, Leaf
  <2> QED BY <2>4, <2>6, <2>8, <2>9 DEF AddressOf
<1> QED BY <1>1, BootstrapInitOK, BootInvKept, PTL DEF BootstrapSpec

(***************************************************************************)
(* compute_own_metrics never misses the entry it waits for, in the whole   *)
(* life of the library.                                                    *)
(***************************************************************************)
THEOREM BootstrapLookupCorrect == BootstrapSpec => []LookupSucceeds
BY BootstrapImplementsMonitoring, MonitoringLookupCorrect

(***************************************************************************)
(* From monitoring_initialize to the end of monitoring_finalize: the root  *)
(* reports the end of the run when it is over ...                          *)
(***************************************************************************)
THEOREM BootstrapQuietCorrect ==
  ASSUME Calm
  PROVE  BootstrapSpec => []QuietWhenFinished
BY BootstrapImplementsMonitoring, MonitoringQuietCorrect, PTL

(***************************************************************************)
(* ... and what is destroyed then is no longer needed.                     *)
(***************************************************************************)
THEOREM BootstrapDestroyedCorrect ==
  ASSUME Calm
  PROVE  BootstrapSpec => []DestroyedIsUnused
BY BootstrapImplementsMonitoring, DestroyedCorrect, PTL
=============================================================================
