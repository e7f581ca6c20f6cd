----------------------------- MODULE Bootstrap -----------------------------
(***************************************************************************)
(* The life of the library from monitoring_initialize on.  Every process   *)
(* but the root receives the address of its parent's split_stone; every    *)
(* process but a leaf creates a connection manager, allocates its stones   *)
(* and sends that address to its children, one after the other.  Behind a  *)
(* barrier the threads that serve the managers are forked and the stones   *)
(* get their actions, behind a second one the leaves' threads start.       *)
(*                                                                         *)
(* The threads of Aggregation and the main threads of Monitoring run here  *)
(* from the moment they exist, beside processes that are still in          *)
(* monitoring_initialize: nothing else keeps an event from a stone that    *)
(* has no action yet.                                                      *)
(***************************************************************************)
EXTENDS Monitoring

\* What a process does next, in the order of the code.
Recv      == 1    \* MPI_Recv of the parent's address
Create    == 2    \* compute_evpath_addr
Send      == 3    \* MPI_Send of it to the children
Barrier1  == 4
Fork      == 5    \* CMfork_comm_thread
Connect   == 6    \* set_stones_actions: the process's output,
Associate == 7    \* the handlers and the targets of the split_stone,
Program   == 8    \* the multi_stone's program
Barrier2  == 9
Split     == 10   \* MPI_Comm_split
Start     == 11   \* start_leaf_thread
Returned  == 12

VARIABLES
  step,          \* per rank: what it does next
  mail,          \* MPI messages sent and not received
  sent,          \* per rank: children it has sent its address to
  stones,        \* per rank: its stones, in the order of their allocation
  parent_addr,   \* per rank: the address received
  bridge,        \* per rank: the address its bridge_stone sends to
  wired,         \* per rank: what is set up on its connection manager
  comm_leafs     \* per rank: the processes of its communicator

bootVars == <<step, mail, sent, stones, parent_addr, bridge, wired, comm_leafs>>

systemVars == <<allVars, bootVars>>

\* EValloc_stone numbers the stones of a connection manager as they come,
\* from 0.
Stone(r, kind) == (CHOOSE i \in DOMAIN stones[r] : stones[r][i] = kind) - 1

\* An address: "%d:%s" of a stone and a contact list, here its process.
NoAddress == [stone |-> -1, contact |-> -1]

Everything == {"comm_thread", "output", "terminal", "split", "multi"}

BootstrapInit ==
  /\ MonitoringInit
  /\ step = [r \in Rank |-> IF r = ROOT THEN Create ELSE Recv]
  /\ mail = {}
  /\ sent = [r \in Rank |-> 0]
  /\ stones = [r \in Rank |-> <<>>]
  /\ parent_addr = [r \in Rank |-> NoAddress]
  /\ bridge = [r \in Rank |-> NoAddress]
  /\ wired = [r \in Rank |-> {}]
  /\ comm_leafs = [r \in Rank |-> {}]

Goto(r, from, to) == /\ step[r] = from
                     /\ step' = [step EXCEPT ![r] = to]
-----------------------------------------------------------------------------
(***************************************************************************)
(* The exchange of addresses.  MPI may buffer a message, then MPI_Send     *)
(* returns at once; otherwise it returns when the message is received.     *)
(***************************************************************************)
recv_addr_from_parent(r) ==
  /\ Goto(r, Recv, IF is_leaf(r) THEN Barrier1 ELSE Create)
  /\ \E m \in mail : /\ m.to = r
                     /\ m.from = get_parent(r)
                     /\ mail' = mail \ {m}
                     /\ parent_addr' = [parent_addr EXCEPT ![r] = m.addr]
  /\ UNCHANGED <<sent, stones, bridge, wired, comm_leafs>>

Allocated(r) == <<"multi", "split", "terminal", "bridge">>
                \o (IF r = ROOT THEN <<"agreg_terminal">> ELSE <<>>)

compute_evpath_addr(r) ==
  /\ Goto(r, Create, Send)
  /\ stones' = [stones EXCEPT ![r] = Allocated(r)]
  /\ UNCHANGED <<mail, sent, parent_addr, bridge, wired, comm_leafs>>

Address(r) == [stone |-> Stone(r, "split"), contact |-> r]

InSend(r) == \E m \in mail : m.from = r /\ ~m.buffered

MPI_Send(r) ==
  /\ step[r] = Send
  /\ sent[r] < get_degree_node(r)
  /\ ~InSend(r)
  /\ \E buffered \in BOOLEAN :
       mail' = mail \cup {[from |-> r, to |-> r * max_degree + sent[r] + 1,
                           addr |-> Address(r), buffered |-> buffered]}
  /\ sent' = [sent EXCEPT ![r] = @ + 1]
  /\ UNCHANGED <<step, stones, parent_addr, bridge, wired, comm_leafs>>

\* Mutant of AllSent: the loop ends before the last child.
AllButLastSent(r) == sent[r] = get_degree_node(r) - 1

AllSent(r) == sent[r] = get_degree_node(r)

send_addr_to_children(r) ==
  \/ MPI_Send(r)
  \/ /\ AllSent(r)
     /\ ~InSend(r)
     /\ Goto(r, Send, Barrier1)
     /\ UNCHANGED <<mail, sent, stones, parent_addr, bridge, wired, comm_leafs>>
-----------------------------------------------------------------------------
(***************************************************************************)
(* The barriers, and MPI_Comm_split, which needs every process as well.    *)
(***************************************************************************)
\* Mutant of Meet: nothing holds a process back behind the first barrier.
MeetOnce(barrier) ==
  barrier = Barrier1 => \A r \in Rank : step[r] >= barrier

Meet(barrier) == \A r \in Rank : step[r] >= barrier

MPI_Barrier(r) ==
  /\ \/ /\ Meet(Barrier1)
        /\ Goto(r, Barrier1, IF is_leaf(r) THEN Connect ELSE Fork)
     \/ /\ Meet(Barrier2)
        /\ Goto(r, Barrier2, Split)
  /\ UNCHANGED <<mail, sent, stones, parent_addr, bridge, wired, comm_leafs>>

MPI_Comm_split(r) ==
  /\ Meet(Split)
  /\ Goto(r, Split, IF is_leaf(r) THEN Start ELSE Returned)
  /\ comm_leafs' = [comm_leafs EXCEPT ![r] = {q \in Rank : is_leaf(q) = is_leaf(r)}]
  /\ UNCHANGED <<mail, sent, stones, parent_addr, bridge, wired>>
-----------------------------------------------------------------------------
(***************************************************************************)
(* The threads and the stones.  A leaf creates its connection manager and  *)
(* its only stone here.  When the thread cannot be forked the process goes *)
(* on without one; when the parent's address does not parse it exits, that *)
(* is, does nothing more.                                                  *)
(***************************************************************************)
Sets(r, things) == wired' = [wired EXCEPT ![r] = @ \cup things]

CMfork_comm_thread(r) ==
  /\ Goto(r, Fork, Connect)
  /\ \E forked \in BOOLEAN : Sets(r, IF forked THEN {"comm_thread"} ELSE {})
  /\ UNCHANGED <<mail, sent, stones, parent_addr, bridge, comm_leafs>>

EVassoc_bridge_action(r) ==
  /\ Goto(r, Connect, IF is_leaf(r) THEN Barrier2 ELSE Associate)
  /\ r # ROOT => parent_addr[r] # NoAddress
  /\ Sets(r, {"output"})
  /\ stones' = [stones EXCEPT ![r] = IF is_leaf(r) THEN <<"bridge">> ELSE @]
  /\ bridge' = [bridge EXCEPT ![r] = IF r = ROOT THEN @ ELSE parent_addr[r]]
  /\ UNCHANGED <<mail, sent, parent_addr, comm_leafs>>

EVassoc_split_action(r) ==
  /\ Goto(r, Associate, Program)
  /\ Sets(r, {"terminal", "split"})
  /\ UNCHANGED <<mail, sent, stones, parent_addr, bridge, comm_leafs>>

EVassoc_multi_action(r) ==
  /\ Goto(r, Program, Barrier2)
  /\ Sets(r, {"multi"})
  /\ UNCHANGED <<mail, sent, stones, parent_addr, bridge, comm_leafs>>

set_stones_actions(r) == \/ EVassoc_bridge_action(r)
                         \/ EVassoc_split_action(r)
                         \/ EVassoc_multi_action(r)

start_leaf_thread(r) ==
  /\ Goto(r, Start, Returned)
  /\ UNCHANGED <<mail, sent, stones, parent_addr, bridge, wired, comm_leafs>>

monitoring_initialize(r) ==
  /\ \/ recv_addr_from_parent(r)
     \/ compute_evpath_addr(r)
     \/ send_addr_to_children(r)
     \/ MPI_Barrier(r)
     \/ CMfork_comm_thread(r)
     \/ set_stones_actions(r)
     \/ MPI_Comm_split(r)
     \/ start_leaf_thread(r)
  /\ UNCHANGED allVars
-----------------------------------------------------------------------------
\* The application's main thread goes on when monitoring_initialize returns,
\* a leaf's thread exists from then on, and a forked thread from its fork.
Application(r) == /\ step[r] = Returned
                  /\ main_thread(r)
                  /\ UNCHANGED bootVars

Leafs(l) == /\ step[l] = Returned
            /\ LeafThread(l)
            /\ UNCHANGED bootVars

Forked(n) == /\ "comm_thread" \in wired[n]
             /\ EVPathThread(n)
             /\ UNCHANGED bootVars

BootstrapNext ==
  \/ \E r \in Rank : monitoring_initialize(r) \/ Application(r)
  \/ \E l \in Leaf : Leafs(l)
  \/ \E n \in NonLeaf : Forked(n)

BootstrapSpec == BootstrapInit /\ [][BootstrapNext]_systemVars

(***************************************************************************)
(* Some thread runs as long as one can.  Fairness to each thread, as in    *)
(* Monitoring, implies this; since no thread here runs for ever it is      *)
(* enough.                                                                 *)
(***************************************************************************)
BootstrapFairness == WF_systemVars(BootstrapNext)

FairBootstrapSpec == BootstrapSpec /\ BootstrapFairness
-----------------------------------------------------------------------------
AddressType == [stone : -1 .. 4, contact : -1 .. nprocs - 1]

BootstrapTypeOK ==
  /\ MonitoringTypeOK
  /\ step \in [Rank -> Recv .. Returned]
  /\ mail \subseteq [from : Rank, to : Rank, addr : AddressType, buffered : BOOLEAN]
  /\ sent \in [Rank -> 0 .. max_degree]
  /\ parent_addr \in [Rank -> AddressType]
  /\ bridge \in [Rank -> AddressType]
  /\ wired \in [Rank -> SUBSET Everything]
  /\ comm_leafs \in [Rank -> SUBSET Rank]

(***************************************************************************)
(* An event on its way finds what Aggregation and Monitoring take for      *)
(* granted: its bridge leads to the split_stone of the sender's parent,    *)
(* where every stone has its action, and a leaf shares its communicator    *)
(* with the leaves and no one else -- though no process asks another       *)
(* whether it is ready.                                                    *)
(***************************************************************************)
ArrivesWired ==
  \A c \in Rank \ {ROOT} : link[c] # <<>> =>
    LET parent == get_parent(c)
    IN  /\ bridge[c].contact = parent
        /\ stones[parent][bridge[c].stone + 1] = "split"
        /\ Everything \ {"comm_thread"} \subseteq wired[parent]
        /\ is_leaf(c) => comm_leafs[c] = Leaf

(***************************************************************************)
(* monitoring_finalize returns in every process, unless the thread of one  *)
(* could not be forked.                                                    *)
(***************************************************************************)
Unserved(n) == step[n] > Fork /\ "comm_thread" \notin wired[n]

OnlyForksPreventEnd == <>(\E n \in NonLeaf : Unserved(n)) \/ AllFinalize
=============================================================================
