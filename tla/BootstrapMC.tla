---------------------------- MODULE BootstrapMC ----------------------------
(* Instances of Bootstrap for TLC: what is measured plays no part here.   *)
EXTENDS Bootstrap

MCZero == [r \in Rank |-> [odd \in 0 .. 1 |-> 0]]
=============================================================================
