---------------------------- MODULE Dictionary -----------------------------
(***************************************************************************)
(* What uthash.h promises: a set of elements with different keys, kept in  *)
(* the order in which they were added.                                     *)
(***************************************************************************)
EXTENDS Naturals, SequencesExt

CONSTANTS Elem,   \* the elements
          key     \* the key of each element

VARIABLES items,  \* the elements in the table, oldest first
          adds    \* how many have been added: an addition is no stutter

Present == {items[i] : i \in DOMAIN items}

vars == <<items, adds>>

Init == items = <<>> /\ adds = 0

Add == \E e \in Elem :
         /\ \A f \in Present : key[f] # key[e]
         /\ items' = Append(items, e)
         /\ adds' = adds + 1

Delete == /\ \E i \in DOMAIN items : items' = RemoveAt(items, i)
          /\ UNCHANGED adds

Next == Add \/ Delete

Spec == Init /\ [][Next]_vars
=============================================================================
