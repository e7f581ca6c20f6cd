----------------------------- MODULE Reduction ------------------------------
(***************************************************************************)
(* What the monitoring tree promises, whatever its shape, as long as the   *)
(* list of metrics stays as it is: every process contributes a value to    *)
(* one pulse after the other, and the pulses' reductions are published in  *)
(* order, each one after every process has contributed to it and from all  *)
(* the contributions to that pulse.                                        *)
(***************************************************************************)
EXTENDS Integers

CONSTANTS Proc,          \* the processes
          Contribution,  \* Contribution[p][q]: what p contributes to pulse k
                         \* under list m, where q is the parity of k + m
          Nothing,       \* the result before the first pulse
          Reduce(_)      \* the reduction of a function from Proc to values

VARIABLES list,          \* the list of metrics, as a number
          contributed,   \* per process: number of pulses it contributed to
          published,     \* number of pulses published
          result         \* what was published last

vars == <<list, contributed, published, result>>

Init == /\ list \in Nat
        /\ contributed = [p \in Proc |-> 0]
        /\ published = 0
        /\ result = Nothing

Contribute(p) == /\ contributed' = [contributed EXCEPT ![p] = @ + 1]
                 /\ UNCHANGED <<list, published, result>>

Publish == /\ \A p \in Proc : contributed[p] > published
           /\ result' = Reduce([p \in Proc |-> Contribution[p][(published + list) % 2]])
           /\ published' = published + 1
           /\ UNCHANGED <<list, contributed>>

Next == Publish \/ \E p \in Proc : Contribute(p)

Spec == Init /\ [][Next]_vars
=============================================================================
