------------------------------ MODULE Crawler ------------------------------
(***************************************************************************)
(* The names behind the numbers: how a leaf and its parent read the file   *)
(* of metric aliases, keep the names, and fill the values of their events, *)
(* while the application edits the file at any moment.  A pulse that reads *)
(* the file opens it twice, for the number in the first line               *)
(* (initialize_metrics_crawler_number_from_file) and for the names         *)
(* (metrics_crawler_results_file).  A leaf reads it in every pulse, an     *)
(* inner process when an event carries update_file; otherwise that one     *)
(* measures the names it has in memory.                                    *)
(*                                                                         *)
(* A value is represented by the name of the metric it was measured for.   *)
(* A process with one child completes a pulse with each event, so that     *)
(* compute_own_metrics adds its own event to every event of the leaf.      *)
(***************************************************************************)
EXTENDS Integers, Sequences, FiniteSets

CONSTANTS Name,        \* the names that may occur in the file
          callbacks,   \* aliases of the custom metrics (storage.c)
          PAPI,        \* event names that the PAPI library supports
          Files,       \* the lists of names the application writes
          Unnumbered,  \* those below a first line that is no number
          Empty,       \* the file between its truncation and the writing
          Missing,     \* a file that cannot be opened
          NULL,        \* an entry of desired_metrics without a name
          Garbage,     \* a value as malloc left it
          MaxEdits,    \* bound: edits of the file
          MaxPulses    \* bound: pulses of the leaf

ASSUME CrawlerAssumption ==
         /\ callbacks \cup PAPI \subseteq Name
         /\ Files \subseteq Seq(Name)
         /\ Unnumbered \subseteq Files
         /\ Empty \notin Files /\ Missing \notin Files /\ Empty # Missing
         /\ NULL \notin Name
         /\ MaxEdits \in Nat
         /\ MaxPulses \in Nat \ {0}

Process == {"leaf", "inner"}

VARIABLES
  file,              \* the names in the file, Empty or Missing
  numbers,           \* the leaf's metrics_nr at the start, then the length of
                     \* every list of names that was in the file, in order
  since,             \* first pulse the leaf has begun after the last edit
  torn,              \* per process: an edit fell between its two readings,
                     \* or the first of them met a file without its number
  pc,                \* per process: the call it makes next
  round,             \* inner: for the pulse it submits, or for the next one
  counter,           \* per process: timestamp of its next event
  total_metrics,     \* per process, as the next two: fields of the aggregator
  old_nr_of_metrics,
  desired_metrics,
  live,              \* per process: copies made by strdup and not freed
  data,              \* per process: metrics_nr and gather_info
  link,              \* events of the leaf on their way
  event,             \* inner: the event it handles
  merged             \* the two events merged last

fileVars    == <<file, numbers, since>>
crawlerVars == <<total_metrics, old_nr_of_metrics, desired_metrics, live>>
eventVars   == <<link, event, merged>>

vars == <<fileVars, torn, pc, round, counter, crawlerVars, data, eventVars>>

NoEvent == [timestamp |-> -1, quit |-> FALSE, update_file |-> FALSE,
            metrics_nr |-> 0, gather_info |-> <<>>]

\* What metrics_nr of the leaf's data, a local variable, may hold before it
\* is assigned; the inner process's data is static.
Uninitialized == 0 .. 2

Init ==
  /\ file \in Files
  /\ since = -1
  /\ torn = [p \in Process |-> FALSE]
  /\ pc = [leaf |-> "number", inner |-> "idle"]
  /\ round = "own"
  /\ counter = [p \in Process |-> 0]
  /\ total_metrics = [p \in Process |-> 0]
  /\ old_nr_of_metrics = [p \in Process |-> 0]
  /\ desired_metrics = [p \in Process |-> <<>>]
  /\ live = [p \in Process |-> 0]
  /\ \E nr \in Uninitialized :
       /\ data = [leaf  |-> [metrics_nr |-> nr, gather_info |-> <<>>],
                  inner |-> [metrics_nr |-> 0,  gather_info |-> <<>>]]
       /\ numbers = <<nr, Len(file)>>
  /\ link = <<>>
  /\ event = NoEvent
  /\ merged = [theirs |-> NoEvent, own |-> data["inner"]]
-----------------------------------------------------------------------------
(***************************************************************************)
(* The application edits the file: opening it for writing truncates it,    *)
(* or it is removed; then the new list is written at once.  Any number in  *)
(* the first line is that of the names below it.                           *)
(***************************************************************************)
Present == file \notin {Empty, Missing}

Touch(contents) ==
  /\ file' = contents
  /\ since' = IF pc["leaf"] = "names" THEN counter["leaf"] + 1 ELSE counter["leaf"]
  /\ torn' = [p \in Process |-> torn[p] \/ pc[p] = "names"]
  /\ UNCHANGED <<pc, round, counter, crawlerVars, data, eventVars>>

Truncate == /\ file # Empty
            /\ Len(numbers) < MaxEdits + 2
            /\ Touch(Empty)
            /\ UNCHANGED numbers

Remove == /\ file # Missing
          /\ Len(numbers) < MaxEdits + 2
          /\ Touch(Missing)
          /\ UNCHANGED numbers

Write == /\ ~Present
         /\ \E names \in Files : /\ Touch(names)
                                 /\ numbers' = Append(numbers, Len(names))
-----------------------------------------------------------------------------
\* Entries i of a list of names that hold one.
Named(names) == {i \in DOMAIN names : names[i] # NULL}

\* Mutant of Freed: every entry counts as a copy.
FreedEntries(names, n) == n

\* What is freed of the list of names when the first n entries are.
Freed(names, n) == Cardinality({i \in Named(names) : i <= n})

(***************************************************************************)
(* The first reading.  Without a file, or with a first line that is no     *)
(* number, it ends the process.  On an empty file fscanf returns EOF,      *)
(* which is not the 0 the code tests for, and the number stays what it     *)
(* was.  All names are freed and the list is allocated anew, with null     *)
(* entries.                                                                *)
(***************************************************************************)
\* Mutant of OldNumber: old_nr_of_metrics is assigned after total_metrics.
OldNumberLate(p, nr) == nr

OldNumber(p, nr) == total_metrics[p]

initialize_metrics_crawler_number_from_file(p) ==
  LET nr == IF file = Empty THEN data[p].metrics_nr ELSE Len(file)
  IN  /\ pc[p] = "number"
      /\ file \notin Unnumbered \cup {Missing}
      /\ old_nr_of_metrics' = [old_nr_of_metrics EXCEPT ![p] = OldNumber(p, nr)]
      /\ total_metrics' = [total_metrics EXCEPT ![p] = nr]
      /\ live' = [live EXCEPT ![p] = @ - Freed(desired_metrics[p], OldNumber(p, nr))]
      /\ desired_metrics' = [desired_metrics EXCEPT ![p] = [i \in 1 .. nr |-> NULL]]
      /\ data' = [data EXCEPT ![p] = [metrics_nr  |-> nr,
                                      gather_info |-> [i \in 1 .. nr |-> Garbage]]]
      /\ torn' = [torn EXCEPT ![p] = file = Empty]
      /\ pc' = [pc EXCEPT ![p] = "names"]
      /\ UNCHANGED <<fileVars, round, counter, eventVars>>

NoNumber(p) ==
  /\ pc[p] = "number"
  /\ file \in Unnumbered \cup {Missing}
  /\ torn' = [torn EXCEPT ![p] = TRUE]
  /\ pc' = [pc EXCEPT ![p] = "exited"]
  /\ UNCHANGED <<fileVars, round, counter, crawlerVars, data, eventVars>>

(***************************************************************************)
(* The second reading: at most total_metrics names, and whether something  *)
(* has changed since the pulse before.  Here a first line that is no       *)
(* number leaves it 0 and its words are the first name.                    *)
(***************************************************************************)
\* Mutant of NamesRead: the last name is not read.
NamesReadLess(p) == {i \in DOMAIN file : i < total_metrics[p]}

NamesRead(p) == {i \in DOMAIN file : i <= total_metrics[p]}

number == IF file \in Unnumbered THEN 0 ELSE Len(file)

needs_sync(p) ==
  \E i \in NamesRead(p) :
    \/ number # old_nr_of_metrics[p]
    \/ /\ desired_metrics[p][i] # NULL
       /\ desired_metrics[p][i] # file[i]

NewNames(p) == [i \in 1 .. total_metrics[p] |->
                  IF i \in NamesRead(p) THEN file[i] ELSE desired_metrics[p][i]]

(***************************************************************************)
(* compute_metric: a name in the registry has a function, any other is     *)
(* tried as a PAPI event.  The first name that is neither ends the loop,   *)
(* and so does an event of which PAPI cannot start or stop the counter;    *)
(* the values from there on stay as they are.                              *)
(***************************************************************************)
get_value(name) == name \in callbacks

Unsupported(names) ==
  {i \in DOMAIN names : ~get_value(names[i]) /\ names[i] \notin PAPI}

\* PAPI may fail to start or to stop the counters of these entries.
MayFail(names, failed) ==
  \A i \in failed : ~get_value(names[i]) /\ names[i] \in PAPI

\* Mutant of Measured: an unsupported name is skipped, not the end.
MeasuredSkipping(names, failed) == DOMAIN names \ (Unsupported(names) \cup failed)

Measured(names, failed) ==
  {i \in DOMAIN names : \A j \in Unsupported(names) \cup failed : i < j}

compute_metric(names, values, failed) ==
  [i \in DOMAIN values |->
     IF i \in Measured(names, failed) THEN names[i] ELSE values[i]]

\* get_value passes the name to strlen, which reads through it.
ReadsNull(names, failed) ==
  \E i \in Unsupported(names) :
    names[i] = NULL /\ \A j \in 1 .. i - 1 : j \in Measured(names, failed)

\* exit(-1) without a file or on an empty one.
Exit(p) == /\ pc[p] = "names"
           /\ ~Present
           /\ pc' = [pc EXCEPT ![p] = "exited"]
           /\ UNCHANGED <<fileVars, torn, round, counter, crawlerVars, data, eventVars>>

Crash(p) == /\ pc[p] = "names"
            /\ Present
            /\ ReadsNull(NewNames(p), {})
            /\ pc' = [pc EXCEPT ![p] = "crashed"]
            /\ UNCHANGED <<fileVars, torn, round, counter, crawlerVars, data, eventVars>>

Values(p, names, failed) == compute_metric(names, data[p].gather_info, failed)

ReadNames(p, failed) ==
  /\ pc[p] = "names"
  /\ Present
  /\ MayFail(NewNames(p), failed)
  /\ ~ReadsNull(NewNames(p), failed)
  /\ desired_metrics' = [desired_metrics EXCEPT ![p] = NewNames(p)]
  /\ live' = [live EXCEPT ![p] = @ + Cardinality(NamesRead(p))]
  /\ data' = [data EXCEPT ![p].gather_info = Values(p, NewNames(p), failed)]
  /\ UNCHANGED <<fileVars, torn, total_metrics, old_nr_of_metrics>>
-----------------------------------------------------------------------------
(***************************************************************************)
(* The end of a leaf's turn: its event leaves, with the last one the loop  *)
(* ends.                                                                   *)
(***************************************************************************)
start_communication ==
  /\ \E quit \in BOOLEAN, failed \in SUBSET DOMAIN desired_metrics["leaf"] :
       /\ ReadNames("leaf", failed)
       /\ counter["leaf"] = MaxPulses - 1 => quit
       /\ link' = Append(link, [timestamp   |-> counter["leaf"],
                                quit        |-> quit,
                                update_file |-> needs_sync("leaf"),
                                metrics_nr  |-> data["leaf"].metrics_nr,
                                gather_info |-> Values("leaf", NewNames("leaf"), failed)])
       /\ pc' = [pc EXCEPT !["leaf"] = IF quit THEN "stopped" ELSE "number"]
  /\ counter' = [counter EXCEPT !["leaf"] = @ + 1]
  /\ UNCHANGED <<round, event, merged>>

(***************************************************************************)
(* The handler compute_own_metrics of the inner process.  It calls         *)
(* get_metrics_values before it submits, if the event asks for it, and     *)
(* again afterwards, for the next pulse.                                   *)
(***************************************************************************)
\* Where get_metrics_values goes for its values.
Source(e) == IF e.update_file THEN "number" ELSE "memory"

Recomputes(e) == counter["inner"] = 0 \/ e.update_file \/ e.quit

TakeEvent ==
  /\ pc["inner"] = "idle"
  /\ link # <<>>
  /\ event' = Head(link)
  /\ link' = Tail(link)
  /\ round' = "own"
  /\ pc' = [pc EXCEPT !["inner"] = IF Recomputes(event') THEN Source(event') ELSE "submit"]
  /\ UNCHANGED <<fileVars, torn, counter, crawlerVars, data, merged>>

Filled == IF round = "own" THEN "submit" ELSE "idle"

FromFile ==
  /\ \E failed \in SUBSET DOMAIN desired_metrics["inner"] : ReadNames("inner", failed)
  /\ pc' = [pc EXCEPT !["inner"] = Filled]
  /\ UNCHANGED <<round, counter, eventVars>>

FromMemory ==
  /\ pc["inner"] = "memory"
  /\ \E failed \in SUBSET DOMAIN desired_metrics["inner"] :
       /\ MayFail(desired_metrics["inner"], failed)
       /\ data' = [data EXCEPT !["inner"] =
                     [metrics_nr  |-> total_metrics["inner"],
                      gather_info |-> Values("inner", desired_metrics["inner"], failed)]]
  /\ pc' = [pc EXCEPT !["inner"] = Filled]
  /\ UNCHANGED <<fileVars, torn, round, counter, crawlerVars, eventVars>>

\* Mutant of NextSource: the next event is always prepared from memory.
NextSourceMemory == "memory"

NextSource == Source(event)

Submit ==
  /\ pc["inner"] = "submit"
  /\ merged' = [theirs |-> event, own |-> data["inner"]]
  /\ counter' = [counter EXCEPT !["inner"] = @ + 1]
  /\ round' = "next"
  /\ pc' = [pc EXCEPT !["inner"] = IF event.quit THEN "stopped" ELSE NextSource]
  /\ UNCHANGED <<fileVars, torn, crawlerVars, data, link, event>>
-----------------------------------------------------------------------------
(***************************************************************************)
(* Behind the barrier of monitoring_finalize.  The loop counts to          *)
(* old_nr_of_metrics, the list has total_metrics entries: what an access   *)
(* beyond the list does is undefined, and the model does not go there.     *)
(***************************************************************************)
destroy_metrics_aggregator(p) ==
  /\ pc[p] = "stopped"
  /\ \A q \in Process : pc[q] \in {"stopped", "destroyed"}
  /\ old_nr_of_metrics[p] <= Len(desired_metrics[p])
  /\ live' = [live EXCEPT ![p] = @ - Freed(desired_metrics[p], old_nr_of_metrics[p])]
  /\ desired_metrics' = [desired_metrics EXCEPT ![p] = <<>>]
  /\ pc' = [pc EXCEPT ![p] = "destroyed"]
  /\ UNCHANGED <<fileVars, torn, round, counter, total_metrics,
                 old_nr_of_metrics, data, eventVars>>

Next ==
  \/ Truncate
  \/ Remove
  \/ Write
  \/ \E p \in Process :
       \/ initialize_metrics_crawler_number_from_file(p)
       \/ NoNumber(p)
       \/ Exit(p)
       \/ Crash(p)
       \/ destroy_metrics_aggregator(p)
  \/ start_communication
  \/ TakeEvent
  \/ FromFile
  \/ FromMemory
  \/ Submit

Spec == Init /\ [][Next]_vars
-----------------------------------------------------------------------------
NameList == Seq(Name \cup {NULL})
ValueList == Seq(Name \cup {Garbage})

TypeOK ==
  /\ file \in Files \cup {Empty, Missing}
  /\ numbers \in Seq(Nat)
  /\ since \in -1 .. MaxPulses
  /\ torn \in [Process -> BOOLEAN]
  /\ pc["leaf"] \in {"number", "names", "stopped", "destroyed", "exited", "crashed"}
  /\ pc["inner"] \in {"idle", "number", "names", "memory", "submit", "stopped",
                      "destroyed", "exited", "crashed"}
  /\ round \in {"own", "next"}
  /\ counter \in [Process -> 0 .. MaxPulses]
  /\ \A p \in Process :
       /\ total_metrics[p] \in Nat
       /\ old_nr_of_metrics[p] \in Nat
       /\ live[p] \in Nat
       /\ desired_metrics[p] \in NameList
       /\ data[p].gather_info \in ValueList
  /\ \A i \in DOMAIN link : /\ link[i].timestamp \in 0 .. MaxPulses - 1
                            /\ link[i].gather_info \in ValueList

(***************************************************************************)
(* Across any number of readings of files of different lengths, every copy *)
(* of a name that is not freed is in desired_metrics: none is lost, and    *)
(* what is freed again before the list is allocated anew is exactly the    *)
(* list of the reading before.                                             *)
(***************************************************************************)
NamesKept ==
  \A p \in Process : pc[p] # "destroyed" =>
    live[p] = Cardinality(Named(desired_metrics[p]))

(***************************************************************************)
(* The two readings of a pulse may meet different files.  Reading too few  *)
(* names crashes the process, and it ends without a file or its number;    *)
(* neither ever happens in a pulse whose readings no edit has touched.     *)
(***************************************************************************)
DownOnlyIfTorn ==
  \A p \in Process : pc[p] \in {"exited", "crashed"} => torn[p]

\* The values an event should have when names is in the file.
Expected(names) ==
  [i \in DOMAIN names |->
     IF \A j \in 1 .. i : names[j] \in callbacks \cup PAPI THEN names[i] ELSE Garbage]

\* The values a list of names got: those expected, unless PAPI has failed.
Exact(info, names) ==
  /\ Len(info) = Len(names)
  /\ \A i \in DOMAIN names :
       \/ info[i] = Expected(names)[i]
       \/ info[i] = Garbage /\ \E j \in 1 .. i : names[j] \in PAPI

\* The leaf has read pulse t and the one before since the last edit.
Settled(t) == t > since

\* The file has always had a new number of names.
AllLengthsNew ==
  \A i, j \in DOMAIN numbers : i # j => numbers[i] # numbers[j]

MergedExactly ==
  \A info \in {merged.theirs.gather_info, merged.own.gather_info} :
    Exact(info, file)

(***************************************************************************)
(* What is merged belongs together: from the first pulse that the leaf     *)
(* begins after an edit, its event and its parent's own have a value of    *)
(* each metric of the file (those from one that is unsupported, or that    *)
(* PAPI fails to count, excepted) --                                       *)
(* as long as each list of names that was in the file differs in length    *)
(* from all others.                                                        *)
(***************************************************************************)
NewLengthsMergeExactly ==
  /\ merged.theirs.timestamp >= 0
  /\ merged.theirs.timestamp >= since
  /\ AllLengthsNew
  => MergedExactly

(***************************************************************************)
(* The same of every edit: when the application has announced it by        *)
(* monitoring_file_updated, results are those of the file.                 *)
(***************************************************************************)
EditsMergeExactly ==
  /\ merged.theirs.timestamp >= 0
  /\ Settled(merged.theirs.timestamp)
  => MergedExactly

(***************************************************************************)
(* destroy_metrics_aggregator frees exactly the list, if at least the last *)
(* two pulses found the file unchanged; with new lengths the inner process *)
(* has then read it twice as well.                                         *)
(***************************************************************************)
DestroysExactly ==
  /\ \A p \in Process : pc[p] \in {"stopped", "destroyed"}
  /\ counter["leaf"] >= 2
  /\ Settled(counter["leaf"] - 1)
  /\ AllLengthsNew
  => \A p \in Process : /\ old_nr_of_metrics[p] = total_metrics[p]
                        /\ pc[p] = "destroyed" => live[p] = 0
=============================================================================
