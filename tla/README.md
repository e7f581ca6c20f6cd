# Verification of the monitoring tree

The repository is a C library that monitors an MPI application: its processes
form a logical tree, the leaves start a *pulse* at a fixed interval, every
process adds its metrics, and the root keeps the minimum, maximum and average
of each metric over all processes.  Transport and event handling are EVPath's;
a part of the aggregation is a small program text (`cod.h`) that EVPath
compiles at run time.  This directory holds TLA+ modules that model it, TLC
configurations that check them and TLAPS proofs.  File names below are relative
to `src/`.

## 1. Inventory

| component | state | operations | talks to |
|---|---|---|---|
| Tree topology (`helpers.c`) | none; computed from rank, `nprocs`, `max_degree` | `is_leaf`, `get_parent`, `get_degree_node` | used by all |
| Bootstrap (`helpers.c`, `monitoring_initialize` in `evp_monitoring.c`, `compute_evpath_addr` and `set_stones_actions` in `metrics_aggregator.c`) | stone identifiers, contact list, parent's address | receive the parent's address, create stones, send the address to the children, barrier, fork the EVPath thread, set the actions, barrier, split the communicator, start the leaf thread | MPI, EVPath |
| Leaf thread (`start_communication`) | `counter`, `data.quit` | one event per pulse to the `bridge_stone`; after the loop, a barrier among the leaves | the leaf's main thread through `leafs_finished` under `glock`; the parent's `split_stone` |
| `multi_stone` program (`cod.h`) | its queue and the static variables `first_found_index`, `count`, `current_node_degree`, `pulse_timestamp`, `aggregated_event`, `max_degree` | one activation per event put in the queue | `split_stone` and the own process's submissions in; `bridge_stone` (root: `agreg_terminal_stone`) out |
| Terminal handler (`compute_own_metrics`) | `counter`, `hash_ts` (`count_timestamps` with BENCHMARKING), `first_pulse`, `data` | counts the children's events of each pulse; with the last one submits the process's own event | the `multi_stone`, whose program runs inside `EVsubmit`; the crawler |
| Result handler (`final_result`) | `pulse`, `monitoring_results`, `results_available`, `root_finished` | publishes a result, reports the end of the run | the root's main thread through two mutexes and two condition variables |
| Application interface (`evp_monitoring.c`) | `init` of `return_results` | `monitoring_initialize`, `monitoring_finalize`, `return_results`, `monitoring_file_updated` | all of the above |
| Metrics crawler (`metrics_crawler.c`, `metric_type.c`, `storage.c`) | `total_metrics`, `old_nr_of_metrics`, `desired_metrics`, the registry of metrics, PAPI event sets | read the number and the names of the aliases file, detect a change, compute the values | the aliases file, PAPI, the operating system |
| Lockstep leaf loop (`start_communication_old`) | as the leaf thread | as the leaf thread, with barriers and an `MPI_Reduce` of the quit flag | never called |
| Driver and scripts (`test.c`, `script.pbs`, Makefiles) | none of interest | parse arguments, call the interface | the interface |
| Hash table (`uthash.h`) | a doubly linked list of all elements, one per bucket, counts, a tail pointer | find, add, delete, iterate, double the buckets | `hash_ts`, `callbacks_storage` |
| EVPath, FFS, CoD, ENet, PAPI, MPI | | vendored headers and binaries | |

### What is hard

* *No lockstep.*  Leaves do not wait for each other, so events of several
  pulses are queued at an inner process at once, and an event of a later pulse
  may come before the last one of the current pulse.  `multi_func` and
  `compute_own_metrics` count the events of a pulse independently of each
  other, one in a queue and the other in a hash table.
* *One activation per event.*  The program must not leave an event behind,
  because no later activation makes up for it.
* *A result from inside a handler.*  The submission of a process's own event
  publishes the aggregate before the handler that submits has returned: its
  parent, or the root's main thread, goes on while the counter and the hash
  table of the pulse are still to be updated.
* *The end of a run.*  The quit flag is an ordinary field of the events, set by
  each leaf on its own, and of an aggregate it is the flag of the event that
  opened it.  The root's main thread waits for it without a timeout and all
  other processes wait for the root in a barrier.
* *A changing aliases file.*  The number of metrics may change while a run is
  under way; each leaf sees that at a pulse of its own, and the array of
  results must be resized with the first result that has the new number.
* *Start-up.*  A leaf sends its first event as soon as its thread runs; its
  parent, and its parent's parent, must have set the actions of their stones by
  then.  Only barriers see to that.
* *A file read twice per pulse.*  The number of metrics and the names are read
  by two calls that open the file anew; an edit may come between.
* *Threads.*  At the root, EVPath's thread and the application's thread share
  `total_metrics`, `monitoring_results` and two flags; at a leaf, the detached
  thread uses a communicator that the main thread frees.

`PROJECT.json` lists the hazards one by one, at their lines, with the
properties that cover them.

### What makes the components correct

* topology: the parent and children relations are inverse (proved);
* aggregation: a result is the exact reduction over all processes of one pulse,
  results come in order, every lookup succeeds, the degree used is the process's
  own, no event of a finished pulse is left behind (all proved);
* the end of a run: when the root learns of it nothing is under way (proved
  where it holds: leaves that stop at the same pulse, an aliases file that asks
  for something; otherwise refuted by runs), and the root does learn of it
  (checked: true or false depending on the build, the degree and the leaves);
* interface: no stone in use is destroyed (proved under the same conditions),
  but the hash table is emptied under the last handler (shown by a run); results are written within their array, and what `return_results` copies is
  within it and of the announced file (proved of chains; refuted by a run of a
  tree with two leaves); calls return (checked: it depends on what the
  application does);
* bootstrap: no event reaches a stone without its action (proved), and start-up
  ends unless a thread cannot be forked (checked);
* crawler: the names of a pulse are kept and freed exactly, only an edit between
  two readings, or a file without its number, brings a process down, and what is merged belongs to one file
  (proved of edits that change the number of names; false of renames);
* lockstep loop: no leaf is a pulse ahead of one that has stopped
  (proved; that the first leaf stops is checked);
* hash table: it implements a dictionary that keeps the order of additions
  (proved).

## 2. Modules

`Topology` <- `MultiStone` <- `Aggregation` <- `Monitoring` <- `Bootstrap`, each
extending the one before, so that `Bootstrap` is the composition of all of them:
a whole run from `monitoring_initialize` to the end of `monitoring_finalize`.
`Lockstep` extends `Aggregation` with the other leaf loop.  `Reduction` stands
alone and is instantiated by `Aggregation`, `Dictionary` by `Uthash`.  `Crawler`
and `Uthash` are modules of their own: they look inside what `Aggregation` takes
as a number and as a function.  The modules `...MC` give TLC what a `.cfg`
cannot write; the modules `...Proofs` hold the theorems.

**Topology.**  `is_leaf`, `get_parent`, `get_degree_node` for the ranks
`0 .. nprocs-1`.  Division truncates in C: the root's parent is 0, or -1 with
degree 1, which matters because `parent_rank` travels in events.

**MultiStone.**  The text of `cod.h`, as a function from a record of its
statics and its queue to the next.  `multi_func(m, e)` is one activation with
`e` just queued, `Submitted(m, e)` the aggregate it submits, if any.  `goto
start` is in `NextPulse`; the case in which the text runs on without having
found the event it looks for is `OpenOnNothing`.

**Aggregation.**  One run, from the return of `monitoring_initialize`
everywhere to the end of the pulses.  Variables are the code's, per process
where it has one each.  Its actions:

| action | code | what it does |
|---|---|---|
| `EditFile` | the application | changes the number in the aliases file |
| `monitoring_finalize_leaf(l)` | `evp_monitoring.c`, `monitoring_finalize` | the leaf's main thread sets `leafs_finished` |
| `start_communication(l)` | a turn of the loop | reads the flag and the file, sends an event |
| `Arrive(c)` | `set_stones_actions`, EVPath | an event of `c` reaches its parent: one activation of the `multi_stone`, and the event waits at the terminal stone |
| `compute_own_metrics(n)` | the handler, up to and with `EVsubmit` | counts the event (`WaitForOthers`) and, with the last of the pulse, submits the own one: a second activation (`SubmitOwn`) |
| `FinishPulse(n)` | the rest of the handler | `++counter`, the removal from `hash_ts`, and unless this was the last pulse the own event of the next one, for which the file is read again if the event carries `update_file` |
| `final_result` | the handler | stores a result, maybe ends the run |

Splitting an EVPath thread's work into these keeps the order in which one
thread does it (`stage`: `"terminal"` with an event to handle, `"submitted"`
behind `EVsubmit`, `"idle"`) and lets all other threads run in between.  In
stage `"submitted"` the aggregate is visible: the parent may take and pass it on,
and at the root `final_result` may set `root_finished`, before the handler has
counted the pulse.  `FinishPulse` is one step because what it changes is
used by this thread only -- but for `destroy_metrics_aggregator`, see `Monitoring`.

**Monitoring.**  The main threads beside all that.  `main[r]` is the call the
main thread of `r` is in; `return_results` and `monitoring_file_updated` are a
call and a return each, the return being guarded by what the call waits for.
Both are atomic because they hold `results_lock` throughout, except that
`return_results` reads `total_metrics`, which the EVPath thread sets without the
lock: that is what `ReadsFit` is about.  `pthread_cond_signal` needs no state
of its own: all waits are loops on a flag that is set under the same lock, with
a single waiter.  `EnterBarrier`, `MPI_Comm_free`, `destroy_metrics_aggregator`
are the steps of `monitoring_finalize`; `LeafBarrier` is the end of a leaf's
detached thread.  The root's application calls `monitoring_file_updated` right
after each edit, as the header asks.

A destroyed stone takes no event any more, but nothing waits for a handler that
is under way (`Serves`): it goes on beside the main thread's
`destroy_metrics_aggregator`.  What it does with an object that has been
destroyed is undefined, so two invariants say what it still needs.
`DestroyedIsUnused` is about the stones and the names of the metrics: when they
go, the process has had every event, what it submitted has left through its
`bridge_stone`, and a handler still in stage `"submitted"` is that of the last
pulse, which does not look at the metrics again.  `FinalizeWaits` adds
what other threads use to their very end: `comm_leafs`, and `hash_ts`, from which
that handler deletes and frees an entry.  It is false.

**Bootstrap.**  `monitoring_initialize`, one action per call that another
process or thread can notice; `step[r]` is what process `r` does next.

| action | code | what it does |
|---|---|---|
| `recv_addr_from_parent(r)` | `MPI_Recv` | takes the parent's message |
| `compute_evpath_addr(r)` | the function | allocates the stones, which EVPath numbers from 0 in the order of allocation |
| `MPI_Send(r)`, `send_addr_to_children(r)` | one turn of the loop, and its end | sends the address to the next child; the call returns at once if MPI buffers the message and otherwise when it is received, chosen per message |
| `MPI_Barrier(r)` | both barriers | leaves one when all have entered it |
| `CMfork_comm_thread(r)` | the call | from here on the EVPath thread of `r` runs; if it cannot be forked the process goes on without one |
| `EVassoc_bridge_action`, `EVassoc_split_action`, `EVassoc_multi_action` | the three parts of `set_stones_actions` | the target of the output, where a parent's address that does not parse ends the process; the terminal and split stones; the queue program |
| `MPI_Comm_split(r)` | the call | leaves and others part; it needs every process as a barrier does |
| `start_leaf_thread(r)` | the call | from here on the leaf's thread runs |

Each process goes on with `Application` (its part of `Monitoring`) when its own
`monitoring_initialize` has returned, while others are still in theirs: nothing
but the code's barriers orders the two, and `ArrivesWired` says that they
suffice.  That EVPath delivers to a manager whose thread is not forked is
not assumed: `Forked` is a conjunct of its steps.  A process without that thread
stops the whole run, which is why `OnlyForksPreventEnd` has the condition it has.

**Lockstep.**  `start_communication_old` in the place of `start_communication`,
with the barrier at its head (`Meet`), the reading of the flag (`ReadFlag`),
`MPI_Reduce` to the first leaf with the barrier after it (`Elect`) and the rest
of the turn (`SendPulse`, which shares `SendEvent` with the loop in use).  A
leaf passes a barrier of turn `t` when every leaf has entered that barrier in
turn `t` (`Reached`); a leaf that has left the loop enters none any more.

**Crawler.**  A leaf and its parent with the file of names between them.  The
two readings of a pulse are two actions, `pc[p] = "number"` and `"names"`, and
`Truncate`, `Remove` and `Write` -- an editor opening the file for writing or
replacing it, then writing the list -- come anywhere.  A list in `Unnumbered` is
below a first line that is no number; any other first line is taken to be the
number of the names below it.  `initialize_metrics_crawler_number_from_file(p)` is
the first reading with the freeing of the old list; `ReadNames(p)` the second,
with `needs_sync`, the copies of the names and `compute_metric`; `NoNumber`, `Exit` and `Crash` are the bad ends, `exit(-1)` in the
first reading without a file or its number, in the second without a file or on
an empty one, and `strlen` of a null name.  `compute_metric` stops at the first
name it does not know and at any one for which PAPI fails (`failed`).  `start_communication` is the end of the leaf's turn; `TakeEvent`,
`FromFile`, `FromMemory` and `Submit` are `compute_own_metrics` and its two
calls of `get_metrics_values`, from the file or from memory.  A value is
represented by the name it was measured for, so that `merged`, the pair of
events that `multi_func` adds up, shows whether they belong together.  `live`
counts copies of names not freed.

**Uthash, Dictionary.**  The macros with their pointers: `next`/`prev` in the
order of additions, `hh_next`/`hh_prev` within a bucket.  `HASH_ADD_KEYPTR`,
`HASH_DELETE`, `HASH_FIND` and `HASH_EXPAND_BUCKETS` are functions of a table
record; the actions `Count`, `Forget`, `HASH_ITER` and `DeleteInLoop` use them
the way the library does: add after a failing lookup, delete what a lookup has
found, delete everything in a loop.  What memory holds when it is allocated, before any of its pointers
is assigned, is the constant `Garbage`.  The hash function is a constant too, any
function from keys to numbers.  `Dictionary` is what the header promises: a
sequence of elements with different keys.

**Reduction.**  What the tree promises, without a tree: every process
contributes to one pulse after the other; the reduction of a pulse is published
after all have contributed to it, and pulses are published in order.
`Aggregation` implements it with `contributed <- submissions`, the number of
pulses for which a process has submitted its own event (`counter`, or one more in
stage `"submitted"`), `published <- pulse`, `result <-
monitoring_results.gather_info` and `list <- file`.

### Assumptions on what is not in the repository

EVPath is a binary.  The model takes from the way the code uses it that: links
between stones lose nothing and keep the order; a connection manager has one
thread, so the handlers of a process do not overlap; the split stone queues an
event at both its targets before either is served; the queue program of a multi
stone runs once for each event queued, in the order of its queue, and within
`EVsubmit` when the process itself submits; at the root `final_result` runs
before the next event is taken.  The model activates the program for a child's
event before the terminal handler.  The other order gives the same result: the
event precedes the process's own in the queue, both are of the pulse of
`counter` when the handler submits (that pulse is completed by its last event,
and that child has sent nothing later yet), and the program takes the first
event of a pulse.  The static data after `counter` of
`compute_own_metrics` is zero: the lookup in `hash_ts` hashes eight bytes of
which `counter` fills four.

### Abstractions

In `Aggregation`, the first metric of the list is kept, with integer values, in
an event that has any (`metrics_nr > 0`); `avg` is kept as the sum; of the names
in the aliases file, only their number is kept; time stamps of the BENCHMARKING
build are left out.  A leaf reads number and names of the file in
one step; `Crawler` takes these two apart.  In `Crawler` the parent has a single
child, so that each event completes a pulse, and the PAPI event sets and the
values themselves are left out.  Measured values are a function of the process and the parity of pulse plus
number of metrics, so that both another pulse and another list change them;
`AggregationMC` chooses powers of three, so that a sum tells which
process was counted how often and in which of two neighbouring pulses.

## 3. What the runs show

Trees: degree 2 with six processes has an inner process with two leaves, one
with one leaf and a leaf at the second level (`1:{3,4}, 2:{5}`), so it has all
node shapes and two different depths of queueing; with four processes the root
has an inner child and a leaf child.  Degree 1 is a chain, hence a single leaf.
Degree 3 is the smallest with a backlog.  Three pulses let one child be two
pulses ahead of another, so that the queue holds two later pulses at once.

| run | instance | shows |
|---|---|---|
| `tree` | n=6, d=2, 3 pulses | types; the hash lookup never fails; the degree used is the process's own; no event is skipped; both stones agree on the pulse; results come in order; refinement of `Reduction` |
| `wide` | n=5, d=3, 2 pulses, 1 edit | with degree 3 the degree used is right and no event is skipped, whatever the edits; until the first edit the published results are exact |
| `wide_benchmark` | n=4, d=3, BENCHMARKING, 2 pulses, fair | **violated**: the root never finishes |
| `tree_quit` | n=3, d=2, fair | **violated**: the root never finishes when leaves stop at different pulses |
| `tree_file_change` | n=3, d=2, 1 edit | **violated**: a result is written beyond its array |
| `lifecycle` | n=4, d=2, BENCHMARKING, 2 pulses, fair, from `monitoring_initialize` on | no event meets a stone that is not set up; `count_timestamps` is indexed in bounds; `root_finished` means that no event is left; unless a thread cannot be forked every process starts and finishes; no stone in use is destroyed |
| `interface` | n=3, d=1, 3 pulses, 2 edits, 2 calls of `return_results`, fair | types; with one leaf and edits announced as the header asks, results are written and read within the array and are those of the announced file; `return_results` returns if first called before an edit; whatever the calls, only they can keep `monitoring_finalize` from returning |
| `finalize` | n=2, d=1 | **violated**: `monitoring_finalize` returns everywhere, `comm_leafs` freed and `hash_ts` emptied, before the leaf's thread and the root's last handler are through with them |
| `crawler` | 4 lists of 1 to 3 of 4 names, one of them without its number, 2 edits, 3 pulses | names are kept and freed exactly; a process goes down only if an edit split its readings or the file has no number; edits to a new number of names lead to exact values one pulse later; the final freeing is exact if the last two pulses saw no edit |
| `crawler_rename` | 2 lists of one name, 1 edit, 3 pulses | **violated**: new names, old values of the parent |
| `lockstep` | n=4, d=2, 2 pulses, 1 edit, fair | no leaf is a pulse ahead of another by more than one or beyond one that has stopped; the first leaf stops; with leaves that agree the root finishes |
| `uthash` | 6 elements, 5 keys, 1 bucket and threshold 1 at the start, 6 additions | both lists and all counts are consistent, lookups exact, order kept, the emptying loop empties |

In `crawler` the numbers of names 1, 2 and 3 let a list grow, shrink and grow
back, with a name that neither the registry nor PAPI knows first, in the middle
or missing.  With three lists of different lengths two edits give every order
of lengths; the fourth list shares its length with another, for the properties
that hold of renames too, and is the one without its number.  Each edit may
remove the file or truncate it before it writes.  Three pulses leave one before,
between or after the two edits.  In `lockstep` the tree
has two leaves at different depths, and the main threads of both, of either or
of one first may be in `monitoring_finalize`; what holds for more leaves is
proved.  In `uthash` the small threshold makes the first addition double
the table; six elements with colliding hash values fill a bucket beyond its
share, so that `expand_mult` is used, and reach `noexpand`.

`StonesInStep` and `ImplementsReduction` are not checked with degree 3: the
former is false there (that is what `wide_benchmark` is about) and the latter
is represented by the cheaper `ResultsExact`.

Both are about an aliases file that is left as it is.  After an edit, processes
measure different lists in one pulse, or lists of different lengths, and
`multi_func` merges the first `metrics_nr` entries of each event whatever they
are: what is published then is the reduction of nothing in particular, until all
have read the new list (`NewLengthsMergeExactly` is about when a parent and its
child have).  What edits must not disturb in `wide` are the pulses and degrees.

Bounds: `max_timestamps` is the code's own parameter with BENCHMARKING and a
bound of the model otherwise (a leaf starts its last pulse only once its main
thread is in `monitoring_finalize`); `MaxFileChanges` bounds the edits and `MaxCalls` the calls of `return_results`:
two of each, because the first call differs from the later ones (`init`) and
the flag of one edit may be taken for that of another.  The numbers of metrics
1, 2 and 3 let two edits in a row both grow, both shrink, or come back; an edit
may also keep the number, which stands for a change of names only.
`CHECK_DEADLOCK FALSE` is set in every configuration because a run ends: leaf
threads leave their loop and all events are handled, and what should hold then
is stated by `RootFinishes` and `QuietWhenFinished` instead.

Fairness (`Fairness`): weak fairness of each leaf's main thread, which runs the
application to its `monitoring_finalize`; of each leaf thread, which only
sleeps and never waits inside its loop; and of each EVPath thread, which blocks
only for input.  All three are threads of the operating system with no lock
held while another waits for long.  Edits of the file are not fair.
`MonitoringFairness`, `BootstrapFairness` and `LockstepFairness` are weaker:
some thread runs as long as one can.  Fairness to each thread implies that, and
it is enough because every loop there is bounded: the application makes finitely
many calls and then finalizes, the leaves run for a bounded number of pulses.

### Disagreements met

1. *Degree 3 and more.*  `multi_func` consumes one event per activation; the
   activation that completes a pulse opens the next one with a single queued
   event, although several may be queued.  The events left behind have no
   activation of their own, so each pulse is completed by events of later
   pulses, and the last never.  With degree 2 the only queued event of the next
   pulse is the one that `goto start` takes.  `README.md:10` recommends trees
   "with different number of children (e.g. 2, 4, 8, ...)".
2. *Quit.*  Leaves may see `leafs_finished` at different pulses.  The comment
   in `start_communication_old` says what is needed, "electing the price value
   of data.quit across all leaf processes"; the loop in use does not.  Either
   the flag is lost and the root waits for ever (`tree_quit`), or the flag of
   the leaf that stops first ends the run for all (`QuietWhenFinished` is false
   there too).
3. *Changing file.*  `update_file` of an aggregate is that of the event that
   opened it.  When the leaf that sees the longer file is second, `metrics_nr`
   grows with the flag lost, and `final_result` writes beyond the allocation.
4. *Detached thread.*  Even in the smallest tree the leaf's thread sleeps
   `pulse_interval` between its last event and its barrier on `comm_leafs`,
   while `monitoring_finalize` waits for events only (`finalize`).
5. *One flag for two purposes.*  `results_available` says both that there are
   results at all and that an edit has taken effect.  If
   `monitoring_file_updated` is called before the first `return_results`, it
   takes the flag of the first results, and the latter waits for another, which
   need not come, though results are there (`ReturnResultsReturns` holds only
   with the condition it has).
6. *Announced edits.*  With two leaves that read the file at different times, a
   pulse of the old file may be published after one of the new, so what
   `monitoring_file_updated` waited for is overwritten: `ReturnsUpdated`, which
   `interface` shows for a chain, fails with two leaves and two edits.
7. *Renames.*  `metrics_crawler_results_file` compares the names it reads with
   `desired_metrics`, whose entries have been freed and nulled by the reading of
   the number just before.  Only a different number of names sets `update_file`
   (`crawler_rename`).

8. *The last handler.*  `final_result` sets `root_finished` inside the `EVsubmit`
   of `compute_own_metrics`, and an inner process's parent takes its last
   aggregate from there on.  The comment before the barrier of
   `monitoring_finalize` says "Wait for all the nodes to finish"; no one waits for
   these handlers, and the `HASH_DEL` and `free` that follow meet a table that
   `destroy_metrics_aggregator` empties in another thread (`finalize`).
   The BENCHMARKING build has no table.

Smaller observations, none of them a property of its own:

* `fscanf` returns `EOF` at the end of a file, which is not the 0 that
  `initialize_metrics_crawler_number_from_file` tests for: an empty file passes
  there, and ends the process in `metrics_crawler_results_file` unless the
  contents have come by then.
* A first line that is no number ends the process in the first reading, which
  alone tests for it: an edit before the second one makes it 0 there.
* If the second reading finds fewer names than the first, `compute_metric` is
  called with null names; `get_value` passes them to `strlen`.
* `destroy_metrics_aggregator` frees `old_nr_of_metrics` names although the list
  has `total_metrics`: after an edit seen by the last reading but one it frees
  too few or reads beyond the list.
* `compute_metric` returns at the first name it cannot measure, or that PAPI
  fails to count; the values from
  there on are sent as `malloc` left them.
* What `get_metrics_values` allocates for `gather_info` is never freed.
* The second barrier of `monitoring_initialize` is not needed while
  `MPI_Comm_split` waits for all processes too, as the model takes it to.
* In the lockstep loop only the first leaf gets the elected flag.  A leaf whose
  own flag was not set goes round again and waits in a barrier for those that
  have stopped: no pulse is split, but only `FirstLeafStops` is certain.

A `return_results` between an edit and its announcement would meet a further
one: from `compute_own_metrics` to `final_result`, `total_metrics` is the new
number and the array the old one.  The header rules such a call out, so no run
is made of it.

## 4. What is proved

`TopologyAssumption` (`nprocs` and `max_degree` are positive),
`AggregationAssumption` and `CrawlerAssumption` (the types of the other
constants), `MonitoringAssumption` (the bound on calls is natural) and
`UthashAssumption` (memory holds finitely many elements, each with a key; hash
values are natural; `HASH_INITIAL_NUM_BUCKETS` and the threshold are positive)
are the assumptions of all proofs.  A theorem that needs more says so in its statement.
Each such hypothesis is one without which the property is false, and is
explained below: `~BENCHMARKING`, `FixedFile`, `Calm`, a bound on `max_degree`
and `<<>> \notin Files`.

`AggregationProofs` <- `ReductionProofs` <- `MergeProofs` <- `EventProofs` <-
`BootstrapProofs` extend one another in this order, the last with what is proved
of `Monitoring` and `Bootstrap`.  `LockstepProofs` extends `AggregationProofs`;
`CrawlerProofs` and `UthashProofs` stand alone.

Every invariant below was checked by TLC on small instances before it was proved.

### Types and the tree

* `AggregationProofs!ChildrenHaveParent`: the ranks a process sends its address
  to are exactly those other than the root whose `get_parent` it is.  The proof
  first shows that `get_degree_node`, which counts the offsets below `nprocs`,
  counts a prefix of `1 .. max_degree` (`OffsetsAreInterval`), then goes
  through the quotient.
* `AggregationProofs!TypeCorrect`: `Spec => []TypeOK`.  `TypeOK` is inductive
  as it stands, because it says of `multi_func`'s position that it is -1 or at
  least 1: a scan then starts inside the queue, finds an event of type
  `metrics_t` if anything (`FirstMatch`), and the merged record is well-typed.
  There is a lemma per part of the program (`OpenAtType`, `MergeAtType`,
  `NextPulseType`, ...) and per action.  `MinOfNaturals` (the least element
  exists) rests on well-foundedness of strict subset on finite sets.

### Pulses in order

`AggregationProofs!LookupCorrect`: `Spec => []LookupSucceeds`, and
`AggregationProofs!PulsesInOrderCorrect`: `Spec => PulsesInOrder`, both for every
degree and both builds.  Neither is inductive.  `PulseInv` adds, with
`Arrived(c)` for the number of events that the parent of `c` has taken:

* `LinkInv`: the events on the link of `c` carry the timestamps `Arrived(c)`,
  `Arrived(c)+1`, ...  For an inner process that rests on `MultiInv`: an open
  aggregate has the timestamp `pulse_timestamp`, and an activation that opens
  nothing completes nothing.  The latter needs a degree other than 0, hence
  `Sound`: every event's `parent_rank` is a rank with children;
* `HashInv`: for `t` not below `submissions(n)`, the count of `t` is the number of
  children with `Arrived > t` (cardinalities).  So the count reaches the
  degree only when all children are past `counter` (`AllPast`), no child is
  ever behind, and the event that has just come gives `counter` an entry;
* `LeafInv` and `OwnInv`: with BENCHMARKING no event has a timestamp beyond
  the last pulse, and the own event that lies ready is the one of `counter`.

With `pulse = Arrived(ROOT)`, `LinkInv` of the root is `PulsesInOrder`.

### What a result is made of

`MergeProofs!ResultsCorrect`: `Spec => []ResultsExact`, for every degree and
both builds -- degree 3 included, where the last pulse may never be published.
`ResultsExact` speaks of runs in which the aliases file has not been edited and
asks for some metric, for the reason given in section 3; the parts of the
invariant that say what is *in* an event (`Reports`) have the same hypothesis
(`Unedited`), and the parts about senders, pulses and degrees have none.

* *Sums over a tree.*  The model adds by a fold over a set, about which the
  provers know nothing.  `ReductionProofs` derives what is needed: `AddsUp` is
  the graph of the fold, which exists (`AddsUpExists`), is unique (`AddsUpSame`)
  and adds over disjoint sets (`AddsUpUnion`), each by induction over subsets
  (`SubsetInduct`, which is stated for a set of sets so that no operator has to
  be instantiated).  `CombineR` then says that `Combine` of the reductions of
  two disjoint sets of processes is the reduction of their union.
* *Subtrees.*  `Sub(n)` is the least set that contains `n` and is closed under
  "child of".  It is `n` with the subtrees of its children (`SubUnfold`), these
  are disjoint (`PartsDisjoint`), and that of the root is everything
  (`SubOfRoot`).
* *Who sent what.*  An event does not say which process it is of, and a queue
  mixes several processes and pulses; what is exact about an aggregate can only
  be said by naming the senders.  `MergeInv` therefore asserts that the queue of
  each `multi_stone` *can be labelled*: there is a source for each queued event
  and a set of sources already merged (`Filed`), such that every source's events
  wait in the order of their pulses and none is missing (`Waiting`,
  `Complete`), no source has two of the same pulse (`Distinct`), the own event
  is behind a child's of its pulse (`ChildFirst`), and an open aggregate is the
  reduction over exactly the subtrees of the sources merged (`Aggregate`).  An
  activation moves one source from the queue to that set.
* `LinkCarries`: an event on the link of `c` is the reduction over `Sub(c)` and
  has the `parent_rank` that makes the parent's degree.  `Behind`: some child is
  not ahead of `submissions`.  `Fresh`: the own event that lies ready is of the
  process and of `counter`, unless the run below has stopped (`Halted`).
  `Unread`: a leaf that has sent nothing has not read the file, hence its first
  event carries `update_file` and the processes above it read the same list.

From it follow `DegreeCorrect` (the event that opens an aggregate is a child's,
so the degree is the process's own), `NothingSkippedCorrect`, and, with one lemma
that goes through all steps once more (`StepReduces`), the refinement
`ReductionCorrect`: `Spec => ImplementsReduction` for `~BENCHMARKING` (the
other build keeps no results) and a file that is left as it is and asks for some
metric (`FixedFile`).

`MergeProofs!StonesInStepCorrect`: `StonesInStep`, whose own bound is
`max_degree <= 2`.  `StonesLow` says that between two activations no queued
event is of the current pulse.  It is kept because `goto start` takes one event
of the next pulse and with two children there is at most one
(`NoThreeChildren`): some child is `Behind`.  With degree 3 there may be two;
that is what `wide_benchmark` shows.

### The end of a run

`EventProofs!QuietCorrect`: `Spec => []QuietWhenFinished`, assuming `Calm`.
`QuietInv` says that every event anywhere asks to quit exactly when it is of the
last pulse of the leaves (`Over`) and none is of a later pulse (`Reached`).  It
holds because no step makes an event out of two that disagree; the lemmas that
carry it through `multi_func` are stated for any set of events that does not
depend on `parent_rank` and `gather_info`, the two fields that change on the way
(`Indifferent`, `multi_funcIn`).  When the root takes the event that ends the
run, all leaves have stopped there; `AllReachRoot` goes down the tree from
`pulse = Arrived(ROOT)`: each process has submitted its own event of all pulses,
and with `NothingSkipped` nothing is queued.  Its handler may still be in stage
`"submitted"`, as far as `QuietWhenFinished` is concerned.

`Calm` is what makes it true.  First, the aliases file never asks for 0
metrics: `final_result` takes a result of no metrics for the end of the run,
while the leaves go on.
Second, all leaves stop at the same pulse: BENCHMARKING in any tree, or a single
leaf (a chain of any length).  `tree_quit` is a run in which the second fails.

`BootstrapProofs!DestroyedCorrect`: `MonitoringSpec => []DestroyedIsUnused`
under `Calm`.  `FinalizeInv` adds that a process is beyond the barrier of
`monitoring_finalize` only when all have entered it, and that the root enters
only with `root_finished`.  `QuietWhenFinished` says the rest of the events, and
`LastAtEnd` of a handler that is still under way: it is that of the last pulse,
as its process had submitted for all pulses published.  Whether that handler
may still use `hash_ts` is not part of `DestroyedIsUnused`; it may not
(`finalize`).

### The application and the start

* `BootstrapProofs!MonitoringTypeCorrect` and `MonitoringLookupCorrect`: types,
  and the lookup again, with the application's calls beside the threads.
  `MonitoringStep` shows that every step of `Monitoring` is a step of
  `Aggregation`, a stutter, or one of the two calls that consume
  `results_available`.  None of the invariants above mentions that variable but
  for its type, so they are all kept (`MonitoringMergeKept`,
  `MonitoringQuietKept`).
* `BootstrapProofs!BootstrapImplementsMonitoring`: `BootstrapSpec =>
  MonitoringSpec`, so the theorems above hold of the whole life of the
  library (`BootstrapLookupCorrect`, `BootstrapQuietCorrect`,
  `BootstrapDestroyedCorrect` say so of those that the run `lifecycle` checks).
* `BootstrapProofs!ArrivesWiredCorrect`: `BootstrapSpec => []ArrivesWired`, and
  `BootstrapTypeCorrect`.  `ArrivesWired` speaks of two
  processes and says nothing of the many states without events; the invariant
  `BootInv` adds what each process has done when it is at its step (`Addressed`,
  `SetUp`), that every message carries the address of its sender's split_stone,
  which is stone 1 (`SplitIsOne`), that nobody is beyond the second barrier
  before all have come to it, and that events come from events or from leaves
  whose `monitoring_initialize` has returned (`EventsInv`).  So an event exists
  only when all are at the second barrier or beyond, and everything `ArrivesWired`
  asks for is done before that.  The first barrier plays no part in it, and
  `MPI_Comm_split` only in the last conjunct.

### The number of metrics in a chain

`EventProofs!ResultsFitCorrect` and `BootstrapProofs!MonitoringResultsFitCorrect`
(`ResultsFit`), `BootstrapProofs!ReturnsUpdatedCorrect` and
`BootstrapProofs!ReadsFitCorrect`, assuming `max_degree = 1`; the aliases file
may ask for 0 metrics.  With two leaves each of these fails, because the event that opens an aggregation, of whichever leaf it is,
decides whether the root resizes its array (`tree_file_change`).

* In a chain the numbers that the leaf has sent, pulse by pulse, determine
  `metrics_nr` and `update_file` of every event on the way.  No variable keeps
  them, so `NumbersInv(h, k)` is about a history `h` of `k` pulses, and the
  invariant is that there is one (`NumbersKnown`).  A step of the leaf adds to
  the history; every other step keeps it as it is.  That an event passes on what
  it was made of is `EventsIn(S)` again, for the set of the events that tell `h`
  (`Told`).  The own event of an inner process need not be one of them, as it
  may have been prepared before a change: it must not be the one that opens an
  aggregation, and `StonesLow` says that a child's event has (`OwnMergedIn`).
  A result that does not make `final_result` allocate thus has the number of the
  result before, or none.
* `ChangesInv` counts the changes in the first `j` pulses of `h`: all of them
  are `Seen(h, j)`, and `Noted(h, j)` leaves out those to 0, which do not set
  `update_file`.  The leaf has seen at most one more than there were edits, the
  first pulse; when it has seen that many its number is the file's; between two
  pulses with the same count the number is the same.  When the root has
  submitted for that many noted changes its `total_metrics` is the number
  in the file.  Here the case of 0 metrics needs an argument of its own: the
  root does not read the file at its first pulse if that has no metrics, but has
  `total_metrics` 0 from the start.
* `ReturnsInv` counts what has consumed `results_available`: each announced
  edit that `monitoring_file_updated` has waited for, and the first
  `return_results`.  Each needed a noted change among the published pulses of
  its own.  When `return_results` may copy, that makes one more than the edits,
  which is all that can be seen (`CopiesLast`): every change is noted, the leaf
  has seen the last edit, its pulse has been published, and none that differs
  has come since.  The application's duty to announce each edit before it does
  anything else is used.

### The lockstep loop

`LockstepProofs!NoneBeyondQuitCorrect`, `WithinOnePulseCorrect` and
`LockstepTypeCorrect`, for both builds.  The invariant `LockInv` says what a
leaf knows from where it is: beyond the barrier of its turn, that every leaf
has begun that turn or ended before (`BegunTogether`); beyond the second
barrier, that every other has read its flag (`ElectedTogether`).  Then a leaf
that is a pulse ahead waits in the first barrier, and the one behind is
running and, having read its flag, will send the pulse (`AheadWaits`).
`NoneBeyondQuit` is a consequence of the latter but not inductive: it says
nothing of the leaves that have not stopped yet.

### The crawler

All five invariants of the run `crawler`, for any names, files and edits.

* `NamesInv` relates, at each point between the readings, the list, its length,
  `old_nr_of_metrics` and the copies alive: right after the first reading the
  list is of null names and what is owed is freed.  `NamesKeptCorrect` and
  `DownOnlyIfTornCorrect` are parts of it.
* `OrderInv` relates `counter`, the events on the way and the pulse of the last
  edit, and with it gives `CrawlerTypeCorrect`.
* `ExactInv` is about a file since whose last edit a pulse has begun, if each
  new list has a length of its own (`AllLengthsNew`).  From pulse `First` on
  the leaf's events have the values of the file (`SentWell`); whether
  `update_file` is set in the first of them depends on what the two sides knew
  before (`Known`); and the parent has the values of the file at each of the
  points at which it may submit them (`InnerExact`) -- except those from one that
  PAPI failed to count (`Exact`).  Hence
  `NewLengthsMergeExactlyCorrect`, and with `QuitInv` and `FreedInv`
  `DestroysExactlyCorrect`.  Both assume `<<>> \notin Files`: `update_file` is
  set inside the loop over the names, so nobody notices a list that has become
  empty.

### The hash table

All that the run `uthash` checks: the refinement `DictionaryCorrect`, and
`FindsExactlyCorrect`, `FsckCorrect`, `IterationEmptiesCorrect` and
`UthashTypeCorrect`, for any finite set of elements, any keys, hash function,
initial number of buckets and threshold.

The invariant `UthashInv` says which sequence of elements the table stands for.
`IsList(s, start, next, prev)` is the heart of it: from `start` on, the pointers
`next` lead through the elements of `s`, each once, and `prev` back.  `Holds(t,
s)` asks this of the list of all elements and `s`; of each bucket and some
sequence of the elements of `s` that belong there, with the bucket's count
(`Chains`); that the tail and `num_items` fit and no key is twice in `s`.  It asks nothing of
the handles of all other elements: memory comes with `Garbage`, and
`HASH_ADD_KEYPTR` and `HASH_ADD_TO_BKT` assign every pointer of what they add.
With it, the variables of a `HASH_ITER` loop are the first element and the one
after it (`InLoop`).

* *Following pointers.*  `Walk` is a recursive function over the pointers.
  `WalkList` shows that along a list it spells the sequence of the list, hence
  that iterations (`InOrderIs`) and searches in a bucket (`ChainIs`) see it.
* *Changing pointers.*  `FrontList`, `BackList` and `RemoveList` are about lists
  alone: what assignments to `next` and `prev` put an element first, last, or
  take it out.  `PushFrontIs`, `LinkedIs`, `UnchainedIs` and `UnlinkedIs` show
  that these are the assignments the macros make, and `OtherList` that lists
  which share no element with the change are not concerned.
* *Doubling.*  `ToMove` is a concatenation and `HASH_EXPAND_BUCKETS` a fold over
  it.  `ToMoveIs`: the nested loops meet every element of the table exactly once.
  `ExpandSteps` unrolls the fold into a sequence of tables, `MoveIs` is one step
  of it, and `ExpandIs` the result: after `i` moves the new buckets hold the
  first `i` elements, and after all of them everything.
* `FindIs`, `AddIs` and `DeleteIs` then say of the three operations what they do
  to the sequence held, and each action follows from one of them.

*Induction over data* is done without operators as parameters: `NatSet` (every
set of numbers with 0 and with all successors contains all numbers) is a fact
about sets, from the well-foundedness of `<` on `Nat`, and it is instantiated with
the set of those lengths up to which the claim holds.  A recursive function is a
`CHOOSE` of a function that satisfies its equation, so that there is one has to
be shown first, by the same induction (`WalkList`, `FlattenIs`, `ExpandSteps`).

### What is only model-checked

Everything that rests on fairness: that start-up ends and all processes return
from `monitoring_finalize` unless a thread cannot be forked
(`OnlyForksPreventEnd`), that nothing but the calls which may
block keeps them from it (`OnlyCallsBlock`), that `return_results` returns
(`ReturnResultsReturns`), that the first leaf stops (`FirstLeafStops`), and that
an agreed quit finishes the root (`AgreedQuitFinishesRoot`).  These are
`~>` and `<>` properties under weak fairness, which takes `ENABLED` and is out of
the reach of the proof system.  Every invariant and every action property of the
passing runs is proved.

## 5. What is not modelled

EVPath, FFS, CoD, ENet, PAPI and MPI are headers and binaries: there is no code
to model, only the use that the library makes of it (see the assumptions in
section 2); they are by far the largest part of the repository's lines.  Of
`uthash.h`, sorting, selection, replacement, Bloom filters and the alternative
hash functions are not used by the library, and `HASH_CLEAR` is called on an
empty table only; the hash function in use is a parameter.  That the connection
manager of a parent listens before its children connect is EVPath's business
(`CMlisten` precedes the sending of the address).  `test.c` and the scripts have
no state of interest.  Values read from PAPI and the operating system are
arbitrary inputs, and the array of PAPI event codes follows the list of names.
A file whose first line is a number, but not that of the names below it, is not
written in `Crawler`; the files in `input_files/` are well-formed in that respect.
The BENCHMARKING build's reading of the aliases file in
`monitoring_initialize`, for the name of its results file, is left out.
The time stamps of the BENCHMARKING build and its output file have no effect on
the rest.  A tree of one process has neither a leaf nor a parent: no event is
ever sent and `monitoring_finalize` blocks; the model has no step there and no
run was made of it.

## 6. Plan

Of the library itself only the PAPI calls of the crawler and the operations of
`uthash.h` it does not use are not modelled, and every safety property the runs
check is proved.  What is left:

1. `Aggregation` has `hash_ts` as a function from timestamps to counts, and
   `Crawler` the registry as a set of names.  That a `Dictionary` with a count in
   each element is such a function is by inspection; an instance of `Dictionary`
   in a module of `hash_ts` alone would state it.
2. The liveness properties, once there is a prover for them.
