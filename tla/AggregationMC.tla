--------------------------- MODULE AggregationMC ----------------------------
(* Instances of Aggregation for TLC. *)
EXTENDS Aggregation

\* A sum of these tells how often each rank is counted in it, and in which
\* pulse, up to twice; which rank holds the least and the greatest value
\* changes from one pulse to the next.
MCMetric == [r \in Rank |-> [odd \in 0 .. 1 |->
               IF (r + odd) % 2 = 0 THEN 3 ^ (2 * r + odd)
                                    ELSE -(3 ^ (2 * r + odd))]]
=============================================================================
