------------------------------ MODULE Uthash -------------------------------
(***************************************************************************)
(* The hash table of uthash.h, which the library keeps its counts of       *)
(* events (hash_ts) and its registry of metrics (callbacks_storage) in,    *)
(* with its pointers: every element is in the doubly linked list of all    *)
(* elements in the order they were added, and in that of its bucket.       *)
(*                                                                         *)
(* Elements are added after a failing lookup of their key, deleted one by  *)
(* one, and all deleted in a loop of HASH_ITER, as compute_own_metrics,    *)
(* destroy_metrics_aggregator and storage.c do.  The hash function is a    *)
(* parameter.  Bloom filters, sorting and selection are not in use.        *)
(***************************************************************************)
EXTENDS Integers, FiniteSets, SequencesExt

CONSTANTS Elem,       \* the elements: memory with a hash handle in it
          Keys,       \* the keys
          key,        \* the key in each element
          HASH_FCN,   \* the hash value of each key
          NULL,
          Garbage,    \* what memory holds when it is allocated as an element
          HASH_INITIAL_NUM_BUCKETS,
          HASH_BKT_CAPACITY_THRESH,
          MaxAdds     \* bound: calls of HASH_ADD

Pointer == Elem \cup {NULL}

Handles == [next : Pointer, prev : Pointer, hh_next : Pointer, hh_prev : Pointer]

ASSUME UthashAssumption ==
         /\ IsFiniteSet(Elem)
         /\ key \in [Elem -> Keys]
         /\ \A k \in Keys : HASH_FCN[k] \in Nat
         /\ NULL \notin Elem
         /\ Garbage \in [Elem -> Handles]
         /\ HASH_INITIAL_NUM_BUCKETS \in Nat \ {0}
         /\ HASH_BKT_CAPACITY_THRESH \in Nat \ {0}
         /\ MaxAdds \in Nat

VARIABLES
  table,   \* head, the UT_hash_table and the UT_hash_handles (node)
  el,      \* the variables of a HASH_ITER loop; el is NULL outside of it
  tmp,
  adds     \* calls of HASH_ADD

vars == <<table, el, tmp, adds>>

NoBuckets(n) == [b \in 0 .. n - 1 |-> [hh_head |-> NULL, count |-> 0, expand_mult |-> 0]]

\* HASH_MAKE_TABLE; the table of a NULL head is the same without elements.
NoTable == [head |-> NULL, tail |-> NULL, num_items |-> 0,
            num_buckets |-> HASH_INITIAL_NUM_BUCKETS,
            buckets |-> NoBuckets(HASH_INITIAL_NUM_BUCKETS),
            nonideal_items |-> 0, ineff_expands |-> 0, noexpand |-> FALSE,
            node |-> Garbage]

Init == table = NoTable /\ el = NULL /\ tmp = NULL /\ adds = 0

\* The elements from start on along succ, one too many if they form a cycle.
Walk(start, succ) ==
  LET at[i \in 0 .. Cardinality(Elem)] ==
        IF i = 0 THEN start ELSE IF at[i - 1] = NULL THEN NULL ELSE succ[at[i - 1]]
  IN  [i \in 1 .. Cardinality({j \in DOMAIN at : at[j] # NULL}) |-> at[i - 1]]

Chain(t, b) == Walk(t.buckets[b].hh_head, [e \in Elem |-> t.node[e].hh_next])

InOrder(t) == Walk(t.head, [e \in Elem |-> t.node[e].next])

\* p->field = v for a pointer p that may be NULL.
Set(node, p, field, v) == IF p = NULL THEN node ELSE [node EXCEPT ![p][field] = v]
-----------------------------------------------------------------------------
(***************************************************************************)
(* Buckets.  A new element is put first in its bucket.  When the bucket is *)
(* full the number of buckets doubles, all elements move, and a bucket     *)
(* that gets more than its share will be full at a multiple of the         *)
(* threshold.  The second time in a row that more than half of the         *)
(* elements are beyond the ideal length the table stops expanding.         *)
(***************************************************************************)
HASH_TO_BKT(hashv, num_buckets) == hashv % num_buckets

Bucket(t, e) == HASH_TO_BKT(HASH_FCN[key[e]], t.num_buckets)

PushFront(t, b, e) ==
  LET first == t.buckets[b].hh_head
      node  == [t.node EXCEPT ![e].hh_next = first, ![e].hh_prev = NULL]
  IN  [t EXCEPT !.buckets[b].hh_head = e,
                !.buckets[b].count = @ + 1,
                !.node = Set(node, first, "hh_prev", e)]

Move(t, e, ideal_chain_maxlen) ==
  LET b     == Bucket(t, e)
      moved == PushFront(t, b, e)
      count == moved.buckets[b].count
  IN  IF count <= ideal_chain_maxlen
      THEN moved
      ELSE [moved EXCEPT !.nonideal_items = @ + 1,
                         !.buckets[b].expand_mult = count \div ideal_chain_maxlen]

IdealChain(t) == (t.num_items \div (2 * t.num_buckets))
                 + (IF t.num_items % (2 * t.num_buckets) # 0 THEN 1 ELSE 0)

\* Mutant of ToMove: the first element of a chain is left behind.
ToMoveTails(t) ==
  FlattenSeq([i \in 1 .. t.num_buckets |->
                IF Chain(t, i - 1) = <<>> THEN <<>> ELSE Tail(Chain(t, i - 1))])

\* In the order of the two nested loops.
ToMove(t) == FlattenSeq([i \in 1 .. t.num_buckets |-> Chain(t, i - 1)])

HASH_EXPAND_BUCKETS(t) ==
  LET doubled == [t EXCEPT !.num_buckets = 2 * @,
                           !.buckets = NoBuckets(2 * t.num_buckets),
                           !.nonideal_items = 0]
      moved == FoldLeft(LAMBDA s, e : Move(s, e, IdealChain(t)), doubled, ToMove(t))
      ineff == IF moved.nonideal_items > t.num_items \div 2
               THEN t.ineff_expands + 1 ELSE 0
  IN  [moved EXCEPT !.ineff_expands = ineff, !.noexpand = @ \/ ineff > 1]

Full(bucket) == bucket.count >= (bucket.expand_mult + 1) * HASH_BKT_CAPACITY_THRESH

HASH_ADD_TO_BKT(t, b, e) ==
  LET added == PushFront(t, b, e)
  IN  IF Full(added.buckets[b]) /\ ~t.noexpand THEN HASH_EXPAND_BUCKETS(added) ELSE added

\* Mutant of Unchained: the element behind keeps its way back.
UnchainedForth(node, e) == Set(node, node[e].hh_prev, "hh_next", node[e].hh_next)

Unchained(node, e) == Set(Set(node, node[e].hh_prev, "hh_next", node[e].hh_next),
                          node[e].hh_next, "hh_prev", node[e].hh_prev)

HASH_DEL_IN_BKT(t, b, e) ==
  [t EXCEPT !.buckets[b].count = @ - 1,
            !.buckets[b].hh_head = IF @ = e THEN t.node[e].hh_next ELSE @,
            !.node = Unchained(@, e)]
-----------------------------------------------------------------------------
(***************************************************************************)
(* The operations.  Deleting the only element frees the table.             *)
(***************************************************************************)
HASH_FIND_IN_BKT(t, b, k) ==
  LET i == SelectInSeq(Chain(t, b), LAMBDA e : key[e] = k)
  IN  IF i = 0 THEN NULL ELSE Chain(t, b)[i]

HASH_FIND(t, k) ==
  IF t.head = NULL THEN NULL
  ELSE HASH_FIND_IN_BKT(t, HASH_TO_BKT(HASH_FCN[k], t.num_buckets), k)

Linked(t, e) ==
  LET fresh == [t EXCEPT !.node[e].next = NULL, !.tail = e]
  IN  IF t.head = NULL
      THEN [fresh EXCEPT !.head = e, !.node[e].prev = NULL]
      ELSE [fresh EXCEPT !.node = [@ EXCEPT ![t.tail].next = e, ![e].prev = t.tail]]

HASH_ADD_KEYPTR(t, e) ==
  HASH_ADD_TO_BKT([Linked(t, e) EXCEPT !.num_items = @ + 1], Bucket(t, e), e)

\* Mutant of NewTail: the table keeps its tail.
OldTail(t, e) == t.tail

NewTail(t, e) == IF t.tail = e THEN t.node[e].prev ELSE t.tail

Unlinked(t, e) ==
  LET prev == t.node[e].prev
      next == t.node[e].next
  IN  [t EXCEPT !.tail = NewTail(t, e),
                !.head = IF prev = NULL THEN next ELSE @,
                !.node = Set(Set(@, prev, "next", next), next, "prev", prev)]

HASH_DELETE(t, e) ==
  IF t.node[e].prev = NULL /\ t.node[e].next = NULL
  THEN NoTable
  ELSE [HASH_DEL_IN_BKT(Unlinked(t, e), Bucket(t, e), e) EXCEPT !.num_items = @ - 1]
-----------------------------------------------------------------------------
(***************************************************************************)
(* How the library uses it.  A deleted element is freed, and its memory    *)
(* may come back as another element, holding anything.                     *)
(***************************************************************************)
InTable == Range(InOrder(table))

Count(e) == /\ el = NULL
            /\ adds < MaxAdds
            /\ e \notin InTable
            /\ HASH_FIND(table, key[e]) = NULL
            /\ table' = HASH_ADD_KEYPTR(table, e)
            /\ adds' = adds + 1
            /\ UNCHANGED <<el, tmp>>

free(t, e) == [t EXCEPT !.node[e] = Garbage[e]]

Forget(k) == LET found == HASH_FIND(table, k)
             IN  /\ el = NULL
                 /\ found # NULL
                 /\ table' = free(HASH_DELETE(table, found), found)
                 /\ UNCHANGED <<el, tmp, adds>>

\* The head of the loop for (el = head, tmp = next; el; el = tmp, ...).
NextOf(t, e) == IF e = NULL THEN NULL ELSE t.node[e].next

\* Mutant of Ahead: the step after is read in one go, past the next element.
AheadTwo(t, e) == NextOf(t, NextOf(t, e))

Ahead(t, e) == NextOf(t, e)

HASH_ITER == /\ el = NULL
             /\ table.head # NULL
             /\ el' = table.head
             /\ tmp' = NextOf(table, el')
             /\ UNCHANGED <<table, adds>>

DeleteInLoop == /\ el # NULL
                /\ table' = free(HASH_DELETE(table, el), el)
                /\ el' = tmp
                /\ tmp' = Ahead(table', tmp)
                /\ UNCHANGED adds

Next == \/ \E e \in Elem : Count(e)
        \/ \E k \in Keys : Forget(k)
        \/ HASH_ITER
        \/ DeleteInLoop

Spec == Init /\ [][Next]_vars
-----------------------------------------------------------------------------
TypeOK ==
  /\ table.head \in Pointer
  /\ table.tail \in Pointer
  /\ table.num_buckets \in Nat
  /\ table.buckets \in [0 .. table.num_buckets - 1 ->
                         [hh_head : Pointer, count : Nat, expand_mult : Nat]]
  /\ table.node \in [Elem -> Handles]
  /\ el \in Pointer
  /\ tmp \in Pointer

\* Every element's way back leads to the one before it.
Backward(s, back) ==
  \A i \in DOMAIN s : back[s[i]] = IF i = 1 THEN NULL ELSE s[i - 1]

(***************************************************************************)
(* The check HASH_FSCK of uthash.h, compiled in with HASH_DEBUG only: both *)
(* linked lists lead back the way they lead forth, and bucket and item     *)
(* counts are those of the lists; also, the tail is the last element.      *)
(***************************************************************************)
Fsck ==
  /\ \A b \in DOMAIN table.buckets :
       /\ Backward(Chain(table, b), [e \in Elem |-> table.node[e].hh_prev])
       /\ table.buckets[b].count = Len(Chain(table, b))
  /\ Backward(InOrder(table), [e \in Elem |-> table.node[e].prev])
  /\ table.num_items = Len(InOrder(table))
  /\ table.num_items = Len(ToMove(table))
  /\ table.head # NULL => table.tail = Last(InOrder(table))

(***************************************************************************)
(* A lookup finds the element with that key whenever one has been added    *)
(* and not deleted, however often the buckets have doubled in between.     *)
(***************************************************************************)
FindsExactly ==
  \A k \in Keys :
    LET with == {e \in InTable : key[e] = k}
    IN  IF with = {} THEN HASH_FIND(table, k) = NULL ELSE HASH_FIND(table, k) \in with

(***************************************************************************)
(* The table implements the dictionary: the list in the order of addition  *)
(* gains each element added at its end and loses the one deleted, whatever *)
(* happens to the buckets.                                                 *)
(***************************************************************************)
Abstract == INSTANCE Dictionary WITH items <- InOrder(table)

ImplementsDictionary == Abstract!Spec

(***************************************************************************)
(* The loops that free hash_ts and callbacks_storage delete each element   *)
(* while they go on from it: they never delete one that is not in the      *)
(* table any more, and when they end the table is gone.                    *)
(***************************************************************************)
IterationEmpties ==
  /\ [](el # NULL => el = table.head)
  /\ [][el # NULL /\ el' = NULL => table'.head = NULL]_vars
=============================================================================
