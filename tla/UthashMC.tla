------------------------------ MODULE UthashMC ------------------------------
(* Instances of Uthash for TLC. *)
EXTENDS Uthash

MCElem == 1 .. 6

\* Allocated memory points at the element itself.
MCGarbage == [e \in MCElem |-> [next |-> e, prev |-> e, hh_next |-> e, hh_prev |-> e]]

\* Two elements have the same key.
MCkey == [e \in MCElem |-> IF e = 6 THEN 1 ELSE e]

\* Keys 1 to 4 never part, whatever the number of buckets.
MCHASH_FCN == [k \in 1 .. 5 |-> IF k <= 4 THEN 0 ELSE 3]
=============================================================================
