----------------------------- MODULE LockstepMC -----------------------------
(* Instances of Lockstep for TLC: what is measured plays no part here.    *)
EXTENDS Lockstep

MCMetric == [r \in Rank |-> [odd \in 0 .. 1 |-> r + odd]]
=============================================================================
