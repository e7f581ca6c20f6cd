------------------------------ MODULE Topology ------------------------------
(***************************************************************************)
(* The logical tree every process computes for itself (helpers.c).  The    *)
(* MPI processes are the ranks 0 .. nprocs-1; rank r is the parent of the  *)
(* ranks r*max_degree+1 .. r*max_degree+max_degree that exist.             *)
(***************************************************************************)
EXTENDS Integers, FiniteSets

CONSTANTS nprocs,       \* size of MPI_COMM_WORLD
          max_degree    \* "maximum node degree", argument d of the library

ASSUME TopologyAssumption ==
         /\ nprocs \in Nat \ {0}
         /\ max_degree \in Nat \ {0}

ROOT == 0

Rank == 0 .. nprocs - 1

\* A lone process is not a leaf (nor has it children).
is_leaf(rank) == /\ rank * max_degree + 1 >= nprocs
                 /\ nprocs > 1

\* Division of C truncates towards zero, \div of TLA+ rounds down: they
\* differ for the root, the only rank whose dividend is negative.
get_parent(rank) == IF rank = ROOT THEN -(1 \div max_degree)
                                   ELSE (rank - 1) \div max_degree

\* The i for which the loop of get_degree_node increments degree.
ChildOffsets(rank) == {i \in 1 .. max_degree : rank * max_degree + i < nprocs}

get_degree_node(rank) == Cardinality(ChildOffsets(rank))

\* The ranks send_addr_to_children sends the parent's address to.
children(rank) == {rank * max_degree + i : i \in 1 .. get_degree_node(rank)}

Leaf == {r \in Rank : is_leaf(r)}

NonLeaf == Rank \ Leaf
=============================================================================
