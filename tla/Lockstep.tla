----------------------------- MODULE Lockstep ------------------------------
(***************************************************************************)
(* The tree with the other loop for its leaves, start_communication_old:   *)
(* the leaves meet in a barrier of comm_leafs before each pulse and, in    *)
(* the monitoring build, elect the value of data.quit.  The library keeps  *)
(* it beside start_communication but starts no thread with it.             *)
(*                                                                         *)
(* A leaf passes a barrier once every leaf has entered it in the same turn *)
(* of its loop.  MPI_Reduce hands the disjunction of all flags to the      *)
(* first leaf only; the others go on with their own.                       *)
(***************************************************************************)
EXTENDS Aggregation

VARIABLES
  place,    \* per leaf: where in its turn its thread is
  quit      \* per leaf: data.quit

lockVars == <<place, quit>>

lockstepVars == <<vars, lockVars>>

LockstepInit ==
  /\ Init
  /\ place = [l \in Leaf |-> "barrier"]
  /\ quit = [l \in Leaf |-> FALSE]

\* Mutant of Reached: a leaf out of the loop is not waited for.
ReachedOrQuit(k, ts, places) == counter[k] >= ts \/ ~running[k]

\* Mutant of Reached: a leaf may be a turn behind.
ReachedEarly(k, ts, places) == counter[k] + 1 >= ts

\* Leaf k has come to one of the places in the turn of pulse ts, or is
\* beyond that turn.
Reached(k, ts, places) ==
  \/ counter[k] > ts
  \/ counter[k] = ts /\ running[k] /\ place[k] \in places

\* Leaf 0 of comm_leafs: MPI_Comm_split orders its processes by their rank.
first_leaf == Min(Leaf)

Moves(l, from, to) == /\ running[l]
                      /\ place[l] = from
                      /\ place' = [place EXCEPT ![l] = to]
-----------------------------------------------------------------------------
(***************************************************************************)
(* The barrier at the head of the loop.  As in Aggregation, the model      *)
(* keeps the leaves from starting their last pulse, max_timestamps-1,      *)
(* until one of them is in monitoring_finalize.                            *)
(***************************************************************************)
Meet(l) ==
  /\ Moves(l, "barrier", IF BENCHMARKING THEN "send" ELSE "flag")
  /\ \A k \in Leaf : Reached(k, counter[l], {"barrier", "flag", "elect", "send"})
  /\ BENCHMARKING \/ ~LastPulse(l) \/ \E k \in Leaf : leafs_finished[k]
  /\ quit' = [quit EXCEPT ![l] = BENCHMARKING /\ LastPulse(l)]
  /\ UNCHANGED vars

ReadFlag(l) ==
  /\ Moves(l, "flag", "elect")
  /\ quit' = [quit EXCEPT ![l] = leafs_finished[l]]
  /\ UNCHANGED vars

\* Mutant of Elected: the first leaf keeps its own flag as well.
ElectedOwn(l) == quit[l]

Elected(l) == IF l = first_leaf THEN \E k \in Leaf : quit[k] ELSE quit[l]

\* MPI_Reduce and the second barrier.
Elect(l) ==
  /\ Moves(l, "elect", "send")
  /\ \A k \in Leaf : Reached(k, counter[l], {"elect", "send"})
  /\ quit' = [quit EXCEPT ![l] = Elected(l)]
  /\ UNCHANGED vars

SendPulse(l) ==
  /\ Moves(l, "send", "barrier")
  /\ SendEvent(l, quit[l])
  /\ UNCHANGED quit

start_communication_old(l) == Meet(l) \/ ReadFlag(l) \/ Elect(l) \/ SendPulse(l)
-----------------------------------------------------------------------------
Rest(A) == A /\ UNCHANGED lockVars

LockstepNext ==
  \/ Rest(EditFile)
  \/ \E l \in Leaf : Rest(monitoring_finalize_leaf(l)) \/ start_communication_old(l)
  \/ \E n \in NonLeaf : Rest(comm_thread(n))

LockstepSpec == LockstepInit /\ [][LockstepNext]_lockstepVars

(***************************************************************************)
(* Some thread runs as long as one can: enough, as every loop is bounded.  *)
(***************************************************************************)
LockstepFairness == WF_lockstepVars(LockstepNext)

FairLockstepSpec == LockstepSpec /\ LockstepFairness
-----------------------------------------------------------------------------
LockstepTypeOK ==
  /\ TypeOK
  /\ place \in [Leaf -> {"barrier", "flag", "elect", "send"}]
  /\ quit \in [Leaf -> BOOLEAN]

(***************************************************************************)
(* When a leaf has stopped, no other leaf has sent or will send an event   *)
(* of a later pulse: there is no pulse that some leaves take part in and   *)
(* others do not.  (start_communication does not have this property.)      *)
(***************************************************************************)
NoneBeyondQuit ==
  \A l, k \in Leaf : ~running[l] => counter[k] <= counter[l]

(***************************************************************************)
(* Once the main thread of any leaf is in monitoring_finalize, the first   *)
(* leaf stops, whether or not its own is: it is the one leaf that is never *)
(* left waiting in a barrier for leaves that have stopped.                 *)
(***************************************************************************)
FirstLeafStops ==
  (\E l \in Leaf : leafs_finished[l]) ~> ~running[first_leaf]

(***************************************************************************)
(* The barriers keep the leaves together: at no time has one sent two      *)
(* events more than another.                                               *)
(***************************************************************************)
WithinOnePulse ==
  \A l, k \in Leaf : counter[l] <= counter[k] + 1
=============================================================================
