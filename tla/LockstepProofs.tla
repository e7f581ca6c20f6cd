--------------------------- MODULE LockstepProofs ---------------------------
(***************************************************************************)
(* Theorems about the lockstep loop, for every tree, build and number of   *)
(* pulses: its barriers keep the leaves within one pulse of each other,    *)
(* and no pulse is split between leaves that have stopped and others.      *)
(***************************************************************************)
EXTENDS Lockstep, AggregationProofs

Anywhere == {"barrier", "flag", "elect", "send"}

\* Beyond the barrier of its turn, a leaf knows that all have begun it.
BegunTogether ==
  \A l \in Leaf : place[l] \in {"flag", "elect", "send"} =>
    \A k \in Leaf : Reached(k, counter[l], Anywhere)

\* Beyond the second barrier it knows that all have read their flags.
ElectedTogether ==
  \A l \in Leaf : ~BENCHMARKING /\ place[l] = "send" =>
    \A k \in Leaf : Reached(k, counter[l], {"elect", "send"})

\* A leaf that is ahead waits in the first barrier for those behind, which
\* will not stop before they have caught up.
AheadWaits ==
  \A l, k \in Leaf : counter[k] < counter[l] =>
    /\ counter[l] = counter[k] + 1
    /\ running[k]
    /\ place[l] = "barrier"
    /\ ~BENCHMARKING => place[k] \in {"elect", "send"}

LockInv == BegunTogether /\ ElectedTogether /\ AheadWaits
-----------------------------------------------------------------------------
\* What the loop's inductive step needs of the rest of the system.
LeafVarsType ==
  /\ counter \in [Rank -> Nat]
  /\ running \in [Leaf -> BOOLEAN]
  /\ place \in [Leaf -> Anywhere]

\* The loop's types include those the aggregation needs.
LEMMA LeafVarsTyped == LockstepTypeOK => LeafVarsType
BY DEF LockstepTypeOK, TypeOK, LeafVarsType, Anywhere

\* Types and invariant hold at the start.
LEMMA LockstepInitOK == LockstepInit => LockstepTypeOK /\ LockInv
<1> SUFFICES ASSUME LockstepInit PROVE LockstepTypeOK /\ LockInv  OBVIOUS
<1>1. TypeOK  BY InitTypeOK DEF LockstepInit
<1>2. LockstepTypeOK  BY <1>1 DEF LockstepInit, LockstepTypeOK
<1>3. \A l, k \in Leaf : counter[l] = 0 /\ counter[k] = 0 /\ place[l] = "barrier"
  BY LeafRank DEF LockstepInit, Init
<1>4. LockInv  BY <1>3 DEF LockInv, BegunTogether, ElectedTogether, AheadWaits
<1> QED BY <1>2, <1>4

\* No thread but a leaf's own touches its counter and whether it runs.
LEMMA OthersLeaveLeaves ==
  ASSUME TypeOK,
         \/ EditFile
         \/ \E l \in Leaf : monitoring_finalize_leaf(l)
         \/ \E n \in NonLeaf : comm_thread(n)
  PROVE  running' = running /\ \A l \in Leaf : counter'[l] = counter[l]
<1>1. CASE EditFile  BY <1>1 DEF EditFile, leafVars
<1>2. CASE \E l \in Leaf : monitoring_finalize_leaf(l)
  BY <1>2 DEF monitoring_finalize_leaf
<1>3. ASSUME NEW n \in NonLeaf, comm_thread(n)
      PROVE  running' = running /\ \A l \in Leaf : counter'[l] = counter[l]
  <2>1. running' = running
    BY <1>3 DEF comm_thread, Arrive, compute_own_metrics, FinishPulse,
                final_result, leafVars
  <2>2. \/ counter' = counter
        \/ counter' = [counter EXCEPT ![n] = @ + 1]
    BY <1>3 DEF comm_thread, Arrive, compute_own_metrics, WaitForOthers,
                SubmitOwn, FinishPulse, final_result
  <2>3. \A l \in Leaf : l # n  BY DEF Leaf, NonLeaf
  <2> QED BY <2>1, <2>2, <2>3, LeafRank DEF TypeOK
<1> QED BY <1>1, <1>2, <1>3

\* Every step of the loop keeps the types.
LEMMA LockstepTypeKept ==
  LockstepTypeOK /\ [LockstepNext]_lockstepVars => LockstepTypeOK'
<1> SUFFICES ASSUME LockstepTypeOK, [LockstepNext]_lockstepVars
             PROVE  LockstepTypeOK'
  OBVIOUS
<1> USE DEF LockstepTypeOK
<1>1. CASE Rest(EditFile)  BY <1>1, EditFileType DEF Rest, lockVars
<1>2. ASSUME NEW l \in Leaf, Rest(monitoring_finalize_leaf(l))
      PROVE  LockstepTypeOK'
  BY <1>2, monitoring_finalize_leafType DEF Rest, lockVars
<1>3. ASSUME NEW n \in NonLeaf, Rest(comm_thread(n)) PROVE LockstepTypeOK'
  <2>1. [Next]_vars  BY <1>3 DEF Rest, Next
  <2> QED BY <1>3, <2>1, TypeKept DEF Rest, lockVars
<1>4. ASSUME NEW l \in Leaf, UNCHANGED vars,
             Meet(l) \/ ReadFlag(l) \/ Elect(l)
      PROVE  LockstepTypeOK'
  <2>1. TypeOK'  BY <1>4, TypeKept
  <2>2. place' \in [Leaf -> Anywhere]
    BY <1>4 DEF Meet, ReadFlag, Elect, Moves, Anywhere
  <2>3. quit' \in [Leaf -> BOOLEAN]
    <3>1. CASE Meet(l)  BY <3>1 DEF Meet, LastPulse, TypeOK
    <3>2. CASE ReadFlag(l)  BY <3>2 DEF ReadFlag, TypeOK
    <3>3. CASE Elect(l)
      <4>1. Elected(l) \in BOOLEAN  BY DEF Elected
      <4> QED BY <3>3, <4>1 DEF Elect
    <3> QED BY <1>4, <3>1, <3>2, <3>3
  <2> QED BY <2>1, <2>2, <2>3 DEF Anywhere
<1>5. ASSUME NEW l \in Leaf, SendPulse(l) PROVE LockstepTypeOK'
  <2>1. TypeOK'  BY <1>5, SendEventType DEF SendPulse
  <2> QED BY <1>5, <2>1 DEF SendPulse, Moves
<1>6. CASE UNCHANGED lockstepVars
  BY <1>6, TypeKept DEF lockstepVars, lockVars
<1>7. ASSUME NEW l \in Leaf, start_communication_old(l) PROVE LockstepTypeOK'
  BY <1>4, <1>5, <1>7 DEF start_communication_old, Meet, ReadFlag, Elect
<1> QED BY <1>1, <1>2, <1>3, <1>6, <1>7 DEF LockstepNext

(***************************************************************************)
(* Every variable of the lockstep loop keeps its type, and so does every   *)
(* variable of the tree under it.                                          *)
(***************************************************************************)
THEOREM LockstepTypeCorrect == LockstepSpec => []LockstepTypeOK
BY LockstepInitOK, LockstepTypeKept, PTL DEF LockstepSpec
-----------------------------------------------------------------------------
\* Steps after which a leaf's counter and place are what they were.
LEMMA LockKeptByOthers ==
  ASSUME LockInv, place' = place, running' = running,
         \A l \in Leaf : counter'[l] = counter[l]
  PROVE  LockInv'
BY DEF LockInv, BegunTogether, ElectedTogether, AheadWaits, Reached

\* A leaf passes the first barrier: nobody is behind it.
LEMMA MeetKeeps ==
  ASSUME LeafVarsType, LockInv, NEW l \in Leaf, Meet(l)
  PROVE  LockInv'
<1>1. /\ counter' = counter /\ running' = running
      /\ running[l] /\ place[l] = "barrier"
      /\ place' = [place EXCEPT ![l] = IF BENCHMARKING THEN "send" ELSE "flag"]
      /\ \A k \in Leaf : Reached(k, counter[l], Anywhere)
  BY DEF Meet, Moves, vars, Anywhere
<1>2. BegunTogether'
  BY <1>1 DEF LeafVarsType, LockInv, BegunTogether, Reached, Anywhere
<1>3. ElectedTogether'
  BY <1>1 DEF LeafVarsType, LockInv, ElectedTogether, Reached
<1>4. AheadWaits'
  <2> SUFFICES ASSUME NEW m \in Leaf, NEW k \in Leaf, counter[k] < counter[m]
               PROVE  /\ counter[m] = counter[k] + 1
                      /\ running[k]
                      /\ place'[m] = "barrier"
                      /\ ~BENCHMARKING => place'[k] \in {"elect", "send"}
    BY <1>1 DEF AheadWaits
  <2>1. counter[m] \in Nat /\ counter[k] \in Nat  BY LeafRank DEF LeafVarsType
  <2>2. m # l  BY <1>1, <2>1 DEF Reached
  <2> QED BY <1>1, <2>2 DEF LockInv, AheadWaits, LeafVarsType
<1> QED BY <1>2, <1>3, <1>4 DEF LockInv

\* It reads its flag.
LEMMA ReadFlagKeeps ==
  ASSUME LeafVarsType, LockInv, NEW l \in Leaf, ReadFlag(l)
  PROVE  LockInv'
<1>1. /\ counter' = counter /\ running' = running /\ place[l] = "flag"
      /\ place' = [place EXCEPT ![l] = "elect"]
  BY DEF ReadFlag, Moves, vars
<1>2. BegunTogether'
  BY <1>1 DEF LeafVarsType, LockInv, BegunTogether, Reached, Anywhere
<1>3. ElectedTogether'
  BY <1>1 DEF LeafVarsType, LockInv, ElectedTogether, Reached
<1>4. AheadWaits'
  BY <1>1 DEF LeafVarsType, LockInv, AheadWaits
<1> QED BY <1>2, <1>3, <1>4 DEF LockInv

\* It passes the second barrier: all have read their flags.
LEMMA ElectKeeps ==
  ASSUME LeafVarsType, LockInv, NEW l \in Leaf, Elect(l)
  PROVE  LockInv'
<1>1. /\ counter' = counter /\ running' = running /\ place[l] = "elect"
      /\ place' = [place EXCEPT ![l] = "send"]
      /\ \A k \in Leaf : Reached(k, counter[l], {"elect", "send"})
  BY DEF Elect, Moves, vars
<1>2. BegunTogether'
  BY <1>1 DEF LeafVarsType, LockInv, BegunTogether, Reached, Anywhere
<1>3. ElectedTogether'
  BY <1>1 DEF LeafVarsType, LockInv, ElectedTogether, Reached
<1>4. AheadWaits'
  BY <1>1 DEF LeafVarsType, LockInv, AheadWaits
<1> QED BY <1>2, <1>3, <1>4 DEF LockInv

\* It sends its event, and may be ahead from then on.
LEMMA SendPulseKeeps ==
  ASSUME LeafVarsType, LockInv, NEW l \in Leaf, SendPulse(l)
  PROVE  LockInv'
<1>1. /\ place[l] = "send"
      /\ place' = [place EXCEPT ![l] = "barrier"]
      /\ counter' = [counter EXCEPT ![l] = counter[l] + 1]
      /\ \A k \in Leaf \ {l} : running'[k] = running[k]
  BY DEF SendPulse, SendEvent, Moves, LeafVarsType
<1>2. \A k \in Leaf : counter[k] \in Nat  BY LeafRank DEF LeafVarsType
<1>3. /\ counter'[l] = counter[l] + 1
      /\ place'[l] = "barrier"
      /\ \A k \in Leaf \ {l} : counter'[k] = counter[k] /\ place'[k] = place[k]
  BY <1>1, LeafRank DEF LeafVarsType
<1>4. \A k \in Leaf : Reached(k, counter[l], Anywhere)
  BY <1>1 DEF LockInv, BegunTogether
<1>5. ~BENCHMARKING => \A k \in Leaf : Reached(k, counter[l], {"elect", "send"})
  BY <1>1 DEF LockInv, ElectedTogether
<1>6. ASSUME NEW ts \in Nat, NEW places, Reached(l, ts, places)
      PROVE  Reached(l, ts, places)'
  BY <1>2, <1>3, <1>6 DEF Reached
<1>7. BegunTogether'
  <2> SUFFICES ASSUME NEW m \in Leaf, place'[m] \in {"flag", "elect", "send"},
                      NEW k \in Leaf
               PROVE  Reached(k, counter[m], Anywhere)'
    BY DEF BegunTogether
  <2>1. m # l  BY <1>3
  <2>2. Reached(k, counter[m], Anywhere)
    BY <1>3, <2>1 DEF LockInv, BegunTogether
  <2> QED BY <1>2, <1>3, <1>1, <2>1, <2>2 DEF Reached
<1>8. ElectedTogether'
  <2> SUFFICES ASSUME ~BENCHMARKING, NEW m \in Leaf, place'[m] = "send",
                      NEW k \in Leaf
               PROVE  Reached(k, counter[m], {"elect", "send"})'
    BY DEF ElectedTogether
  <2>1. m # l  BY <1>3
  <2>2. Reached(k, counter[m], {"elect", "send"})
    BY <1>3, <2>1 DEF LockInv, ElectedTogether
  <2> QED BY <1>2, <1>3, <1>1, <2>1, <2>2 DEF Reached
<1>9. AheadWaits'
  <2> SUFFICES ASSUME NEW m \in Leaf, NEW k \in Leaf, counter'[k] < counter'[m]
               PROVE  /\ counter'[m] = counter'[k] + 1
                      /\ running'[k]
                      /\ place'[m] = "barrier"
                      /\ ~BENCHMARKING => place'[k] \in {"elect", "send"}
    BY DEF AheadWaits
  <2>1. CASE m = l /\ k # l
    <3>1. counter[k] < counter[l] + 1  BY <1>3, <2>1
    <3>2. counter[k] >= counter[l]  BY <1>2, <1>4, <2>1 DEF Reached
    <3>3. counter[k] = counter[l]  BY <1>2, <3>1, <3>2
    <3>4. running[k]  BY <1>4, <1>2, <3>3 DEF Reached
    <3>5. ~BENCHMARKING => place[k] \in {"elect", "send"}
      BY <1>5, <1>2, <3>3 DEF Reached
    <3> QED BY <1>1, <1>3, <2>1, <3>3, <3>4, <3>5
  <2>2. CASE m # l /\ k = l
    <3>1. counter[l] + 1 < counter[m]  BY <1>3, <2>2
    <3>2. counter[l] < counter[m]  BY <1>2, <3>1
    <3> QED BY <1>2, <3>1, <3>2 DEF LockInv, AheadWaits
  <2>3. CASE m # l /\ k # l
    BY <1>1, <1>3, <2>3 DEF LockInv, AheadWaits
  <2>4. m # k  BY <1>2, <1>3
  <2> QED BY <2>1, <2>2, <2>3, <2>4
<1> QED BY <1>7, <1>8, <1>9 DEF LockInv

\* Every step of the loop keeps the invariant.
LEMMA LockKept ==
  LockstepTypeOK /\ LockInv /\ [LockstepNext]_lockstepVars => LockInv'
<1> SUFFICES ASSUME LockstepTypeOK, LockInv, [LockstepNext]_lockstepVars
             PROVE  LockInv'
  OBVIOUS
<1>1. LeafVarsType  BY LeafVarsTyped
<1>2. CASE \/ Rest(EditFile)
           \/ \E l \in Leaf : Rest(monitoring_finalize_leaf(l))
           \/ \E n \in NonLeaf : Rest(comm_thread(n))
  <2>1. place' = place  BY <1>2 DEF Rest, lockVars
  <2> QED BY <1>2, <2>1, OthersLeaveLeaves, LockKeptByOthers
          DEF Rest, LockstepTypeOK
<1>3. CASE UNCHANGED lockstepVars
  BY <1>3, LockKeptByOthers DEF lockstepVars, lockVars, vars
<1>4. ASSUME NEW l \in Leaf, start_communication_old(l) PROVE LockInv'
  BY <1>1, <1>4, MeetKeeps, ReadFlagKeeps, ElectKeeps, SendPulseKeeps
     DEF start_communication_old
<1> QED BY <1>2, <1>3, <1>4 DEF LockstepNext

\* Types and invariant hold throughout.
LEMMA LockAlways == LockstepSpec => [](LockstepTypeOK /\ LockInv)
BY LockstepInitOK, LockstepTypeKept, LockKept, PTL DEF LockstepSpec

(***************************************************************************)
(* When a leaf has stopped no other has sent, or will send, an event of a  *)
(* later pulse, whenever the main threads set their flags.                 *)
(***************************************************************************)
THEOREM NoneBeyondQuitCorrect == LockstepSpec => []NoneBeyondQuit
<1>1. LockstepTypeOK /\ LockInv => NoneBeyondQuit
  BY LeafVarsTyped, LeafRank DEF LeafVarsType, LockInv, AheadWaits, NoneBeyondQuit
<1> QED BY <1>1, LockAlways, PTL

(***************************************************************************)
(* The barriers keep the counters of the leaves within one of each other.  *)
(***************************************************************************)
THEOREM WithinOnePulseCorrect == LockstepSpec => []WithinOnePulse
<1>1. LockstepTypeOK /\ LockInv => WithinOnePulse
  BY LeafVarsTyped, LeafRank DEF LeafVarsType, LockInv, AheadWaits, WithinOnePulse
<1> QED BY <1>1, LockAlways, PTL
=============================================================================
