---------------------------- MODULE MonitoringMC ----------------------------
(* Instances of Monitoring for TLC: what is measured plays no part here.  *)
EXTENDS Monitoring

MCZero == [r \in Rank |-> [odd \in 0 .. 1 |-> 0]]
=============================================================================
